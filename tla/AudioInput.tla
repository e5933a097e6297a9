------------------------------ MODULE AudioInput ------------------------------
(***************************************************************************)
(* The microphone: rdpcore_rdpeai::AudioInputHandler, the handler of the   *)
(* AUDIO_INPUT dynamic channel, and kmsrdp's VirtualMicBackend behind it,  *)
(* which plays the chunks into a null sink of the PulseAudio server of the *)
(* active login.  The session watcher changes PULSE_SERVER under a running *)
(* backend; PulseAudio servers come and go.  Opening a stream reads the    *)
(* environment a second time (inside libpulse), so it is a step of its own.*)
(***************************************************************************)
EXTENDS Naturals, FiniteSets

CONSTANTS
    PulseServer,    \* one per login session
    NoServer,
    MaxBacklog      \* bound: chunks waiting for one writer thread

ASSUME MicAssumption == NoServer \notin PulseServer

VARIABLES
    mic_state,      \* AudioInputHandler::state
    mic,            \* VirtualMicBackend: [tx, bound_pulse, retry_after]
    writer,         \* the thread behind tx: [server, alive, backlog]
    connecting,     \* on_audio_data is between reading the environment and
                    \* Simple::new: the value it read, else NoServer
    pulse_server,   \* PULSE_SERVER
    up,             \* servers that accept connections
    sinks,          \* servers where the null sink is loaded
    initialized,    \* INITIALIZED_UIDS (one uid per server)
    raced_open,     \* history: PULSE_SERVER changed during that window
    credit,         \* history: connection attempts the backoff allows
    heard           \* history: the server the last chunk was played to

micVars == <<mic_state, mic, writer, connecting, pulse_server, up, sinks,
             initialized, raced_open, credit, heard>>

Closed == [tx |-> FALSE, bound_pulse |-> NoServer, retry_after |-> FALSE]
NoWriter == [server |-> NoServer, alive |-> FALSE, backlog |-> 0]
MaxCredit == 2
Allow(n) == IF n < MaxCredit THEN n + 1 ELSE n

MicInit ==
    /\ mic_state = "WaitVersion"
    /\ mic = Closed /\ writer = NoWriter /\ connecting = NoServer
    /\ pulse_server \in PulseServer
    /\ up \in SUBSET PulseServer
    /\ sinks \in SUBSET up    \* an earlier process may have loaded it
    /\ initialized = {}
    /\ raced_open = FALSE /\ credit = 1 /\ heard = NoServer

-----------------------------------------------------------------------------
(* The handler.  A message out of sequence is ignored; negotiate matches   *)
(* the one format the server offers.                                       *)

Follows(msg) ==
    CASE mic_state = "WaitVersion" /\ msg = "Version" -> "WaitFormats"
      [] mic_state = "WaitFormats" /\ msg = "Formats" -> "WaitOpenReply"
      [] mic_state = "WaitOpenReply" /\ msg = "OpenReply" -> "Streaming"
      [] OTHER -> mic_state

on_data(msg) ==
    /\ connecting = NoServer
    /\ mic_state' = Follows(msg)
    /\ UNCHANGED <<mic, writer, connecting, pulse_server, up, sinks,
                   initialized, raced_open, credit, heard>>

-----------------------------------------------------------------------------
(* on_audio_data.                                                          *)

\* tx.send: fails once the writer thread is gone, which starts the cooldown.
Send(m, w) ==
    IF w.alive
    THEN /\ mic' = m
         /\ writer' = [w EXCEPT !.backlog = @ + 1]
    ELSE /\ mic' = [Closed EXCEPT !.retry_after = TRUE]
         /\ writer' = NoWriter

\* Mistake: the stream stays where it was opened.
KeepStream == mic

\* Mistake: the new server is recorded, the stream is not reopened.
RecordOnly ==
    IF mic.tx THEN [mic EXCEPT !.bound_pulse = pulse_server] ELSE mic

\* The backend before it looks for a stream: one bound to another server than
\* PULSE_SERVER now names is dropped, cooldown included.  (Its thread plays
\* what it still holds to the old server; nothing here depends on that.)
Rebound ==
    IF mic.tx /\ mic.bound_pulse # pulse_server THEN Closed ELSE mic

on_audio_data ==
    /\ mic_state = "Streaming" /\ connecting = NoServer
    /\ writer.backlog < MaxBacklog
    /\ \/ /\ Rebound.tx
          /\ Send(Rebound, writer)
          /\ UNCHANGED <<connecting, raced_open>>
       \/ /\ ~ Rebound.tx /\ Rebound.retry_after
          /\ UNCHANGED <<mic, writer, connecting, raced_open>>
       \/ /\ ~ Rebound.tx /\ ~ Rebound.retry_after
          /\ mic' = Rebound
          /\ writer' = NoWriter
          /\ connecting' = pulse_server
          /\ raced_open' = FALSE
    /\ UNCHANGED <<mic_state, pulse_server, up, sinks, initialized, credit,
                   heard>>

\* ensure_virtual_mic_sink is asked for it once per uid and needs a server.
SinkLoaded == pulse_server \in up /\ pulse_server \notin initialized

\* The servers with the sink afterwards; the uid is remembered even on failure.
ensure_null_sink_loaded ==
    IF SinkLoaded THEN sinks \cup {pulse_server} ELSE sinks

\* Its call of spawn_writer and the rest of on_audio_data.  The stream opens on the server
\* PULSE_SERVER names now; the backend records the one it read before.
spawn_writer ==
    LET loaded == ensure_null_sink_loaded
        opens == pulse_server \in up /\ pulse_server \in loaded
        w == [server |-> pulse_server, alive |-> TRUE, backlog |-> 0]
    IN /\ connecting # NoServer
       /\ sinks' = loaded
       /\ initialized' = initialized \cup {pulse_server}
       /\ IF opens
          THEN Send([tx |-> TRUE, bound_pulse |-> connecting,
                     retry_after |-> FALSE], w)
          ELSE /\ mic' = [Closed EXCEPT !.retry_after = TRUE]
               /\ writer' = NoWriter
       /\ credit' = IF credit > 0 THEN credit - 1 ELSE MaxCredit + 1
       /\ connecting' = NoServer
       /\ UNCHANGED <<mic_state, pulse_server, up, raced_open, heard>>

\* RECONNECT_BACKOFF has passed.
CooldownEnds ==
    /\ mic.retry_after
    /\ mic' = [mic EXCEPT !.retry_after = FALSE]
    /\ credit' = Allow(credit)
    /\ UNCHANGED <<mic_state, writer, connecting, pulse_server, up, sinks,
                   initialized, raced_open, heard>>

\* The writer thread: a failed write ends it.
WriterThread ==
    /\ writer.alive /\ writer.backlog > 0
    /\ IF writer.server \in up
       THEN /\ writer' = [writer EXCEPT !.backlog = @ - 1]
            /\ heard' = writer.server
       ELSE /\ writer' = [writer EXCEPT !.alive = FALSE, !.backlog = 0]
            /\ UNCHANGED heard
    /\ UNCHANGED <<mic_state, mic, connecting, pulse_server, up, sinks,
                   initialized, raced_open, credit>>

-----------------------------------------------------------------------------
(* The environment.                                                        *)

\* apply_session_env puts the server of the active session into PULSE_SERVER;
\* without a session the variable is removed, which is the library's own server.
SessionChange(s) ==
    /\ pulse_server # s
    /\ pulse_server' = s
    /\ raced_open' = (raced_open \/ connecting # NoServer)
    /\ credit' = Allow(credit)
    /\ UNCHANGED <<mic_state, mic, writer, connecting, up, sinks, initialized,
                   heard>>

\* A server that goes down takes its modules, the null sink included, along.
PulseStarts(s) ==
    /\ s \notin up
    /\ up' = up \cup {s}
    /\ UNCHANGED <<mic_state, mic, writer, connecting, pulse_server, sinks,
                   initialized, raced_open, credit, heard>>

PulseStops(s) ==
    /\ s \in up
    /\ up' = up \ {s} /\ sinks' = sinks \ {s}
    /\ UNCHANGED <<mic_state, mic, writer, connecting, pulse_server,
                   initialized, raced_open, credit, heard>>

MicNext ==
    \/ \E msg \in {"Version", "Formats", "OtherFormats", "OpenReply"} :
          on_data(msg)
    \/ on_audio_data
    \/ spawn_writer
    \/ CooldownEnds
    \/ WriterThread
    \/ \E s \in PulseServer : SessionChange(s) \/ PulseStarts(s) \/ PulseStops(s)

\* A client that captures keeps sending, connecting and writing return, and
\* two seconds pass.
MicFairness ==
    /\ WF_micVars(on_audio_data)
    /\ WF_micVars(spawn_writer)
    /\ WF_micVars(CooldownEnds)
    /\ WF_micVars(WriterThread)

MicSpec == MicInit /\ [][MicNext]_micVars /\ MicFairness

-----------------------------------------------------------------------------

\* A connection attempt is paid for by the first chunk, by the end of a
\* cooldown or by a change of session: a server that is down, or whose
\* streams die as soon as they are opened, is not retried at the rate of the
\* chunks ("a reconnect storm", audio_input.rs:84-86).
NoReconnectStorm == credit <= MaxCredit

\* A stream to another server than the one PULSE_SERVER names is recognisable
\* as such by the next chunk, unless the variable changed while the stream
\* was being opened.
WrongServerNoticed ==
    mic.tx /\ writer.server # pulse_server /\ writer.server # NoServer
        => mic.bound_pulse # pulse_server \/ raced_open

\* Once the login session stays what it is and its PulseAudio server stays up
\* with the null sink loaded, the microphone of a streaming client is heard
\* there, whatever the backend was connected to before ("otherwise they stay
\* stuck on the previous session's silent Pulse instance",
\* pulse_util.rs:20-22).
MicReachesSession ==
    \A s \in PulseServer :
        <>[](/\ pulse_server = s /\ s \in up /\ s \in sinks
             /\ mic_state = "Streaming" /\ ~ raced_open)
            => <>[](heard = s)

\* The microphone's backend neither hammers a sound server nor stays with the
\* one of another session unnoticed.
MicSafe == NoReconnectStorm /\ WrongServerNoticed
=============================================================================
