----------------------------- MODULE Clipboard -----------------------------
(***************************************************************************)
(* The shared clipboard: the backend of every connection, the worker that  *)
(* owns the host's clipboard, the process-wide watcher with its poll and   *)
(* its XFixes threads (kmsrdp/src/clipboard.rs), and the channel between   *)
(* backend and client (crates/rdpcore-cliprdr/src/lib.rs).                 *)
(*                                                                         *)
(* A blocking task, a thread and the watcher's task interleave freely; the *)
(* worker serves its queue in order. The X server of a session remembers   *)
(* one text and notifies the threads that listen to it. A client answers a *)
(* paste request at once with the text it has. Host applications copy      *)
(* texts that are all different.                                           *)
(***************************************************************************)
EXTENDS Naturals, Sequences, FiniteSets

CONSTANTS
    ClipConn,           \* connections
    ClipSession,        \* login sessions, each with its own clipboard
    ClientText,         \* texts clients copy
    OversizedText,      \* those above MAX_HOST_CLIPBOARD_BYTES
    NoText,
    ClipUses            \* bounds: how many host copies, client copies, pastes,
                        \* session switches and failures of a live clipboard a
                        \* behaviour may have

ASSUME ClipboardAssumption ==
    /\ OversizedText \subseteq ClientText
    /\ ClientText \cap Nat = {}
    /\ NoText \notin ClientText \cup Nat \cup ClipSession
    /\ ClipSession # {}
    /\ ClipUses \subseteq
         [host : Nat, client : Nat, pastes : Nat, switches : Nat, failures : Nat]

VARIABLES
    mode,
    display,        \* the session DISPLAY names
    dead,           \* sessions whose X server is gone
    changed,        \* the watcher has a session change to handle
    selection,      \* per session, the text of its clipboard
    clipboard,      \* the session the worker's connection is bound to, or NoText
    queue,          \* requests to the worker
    replies,        \* its answers, by asker
    last_written,
    tasks,          \* blocking tasks of the connections
    watcher,        \* [last, reading]
    xfixes,         \* the XFixes threads, one per session change
    live,           \* connections; all of them are subscribers
    outbox,         \* per connection, messages to its client
    remote,         \* the client: [text, delay_first_paste, sleeping]
    due,            \* connections owed news of a host copy
    asked,          \* paste requests of a client not yet answered
    copies          \* what the bounds leave

xVars == <<display, dead, changed>>
workVars == <<selection, clipboard, queue, replies>>
watchVars == <<watcher, xfixes>>
connVars == <<live, outbox, remote, asked>>
clipVars == <<mode, xVars, workVars, last_written, tasks, watchVars, connVars,
              due, copies>>

allows_host_to_client == mode \in {"Bidirectional", "HostToClient"}
allows_client_to_host == mode \in {"Bidirectional", "ClientToHost"}

TheWatcher == <<"watcher", 0>>
TheThread(i) == <<"thread", i>>
TheTask(c) == <<"task", c>>

Thread == DOMAIN xfixes
Listening(s) == {i \in Thread : xfixes[i].state \in {"listening", "reading"}
                                /\ xfixes[i].session = s}

NewThread == [state |-> "starting", session |-> NoText, event |-> FALSE,
              last_advertised |-> NoText, stop |-> FALSE]

ClipboardInit ==
    /\ mode \in {"Bidirectional", "HostToClient", "ClientToHost"}
    /\ display = CHOOSE s \in ClipSession : TRUE
    /\ dead = {} /\ changed = FALSE
    /\ selection = [s \in ClipSession |-> NoText]
    /\ clipboard = display
    /\ queue = <<>> /\ replies = [a \in {} |-> NoText]
    /\ last_written = NoText /\ tasks = {}
    /\ watcher = [last |-> NoText, reading |-> FALSE]
    /\ xfixes = IF allows_host_to_client THEN <<NewThread>> ELSE <<>>
    /\ live = ClipConn
    /\ outbox = [c \in ClipConn |->
                    IF allows_host_to_client THEN <<"formats">> ELSE <<>>]
    /\ remote = [c \in ClipConn |->
                    [text |-> NoText, delay_first_paste |-> TRUE, sleeping |-> FALSE]]
    /\ due = {} /\ asked = {}
    /\ copies \in ClipUses

-----------------------------------------------------------------------------
\* The host.

\* A new text in a session: its X server tells the threads that listen.
Select(s, text) ==
    /\ selection' = [selection EXCEPT ![s] = text]
    /\ xfixes' = [i \in Thread |->
                    IF i \in Listening(s) THEN [xfixes[i] EXCEPT !.event = TRUE]
                                          ELSE xfixes[i]]

\* The watcher hears of a copy: a thread listens, or it polls.
Watched ==
    /\ allows_host_to_client /\ ~changed
    /\ \/ \E i \in Listening(display) : ~xfixes[i].stop
       \/ xfixes[Len(xfixes)].state = "failed"

HostCopy ==
    /\ copies.host > 0
    /\ copies' = [copies EXCEPT !.host = @ - 1]
    /\ Select(display, copies.host)
    /\ due' = IF Watched THEN live ELSE {}
    /\ UNCHANGED <<mode, xVars, clipboard, queue, replies, last_written, tasks,
                   watcher, connVars>>

\* The user switches to another session, and the old one lives on or ends; or a
\* login elsewhere makes run_watcher send the session of before once more.
SessionSwitch ==
    /\ copies.switches > 0
    /\ copies' = [copies EXCEPT !.switches = @ - 1]
    /\ \E s \in ClipSession \ dead :
        /\ display' = s
        /\ dead' \in {dead, dead \cup ({display} \ {s})}
    /\ changed' = allows_host_to_client
    /\ due' = {}
    /\ UNCHANGED <<mode, workVars, last_written, tasks, watchVars, connVars>>

-----------------------------------------------------------------------------
\* The worker.

ReplyTo(asker, text) ==
    replies' = [a \in DOMAIN replies \cup {asker} |->
                  IF a = asker THEN text ELSE replies[a]]

\* Larger than MAX_HOST_CLIPBOARD_BYTES.
Oversized(text) == text \in OversizedText

\* The clipboard of a session that is there cannot be opened, read or written.
Fails == copies.failures > 0 /\ copies' = [copies EXCEPT !.failures = @ - 1]

\* A failed set_text opens a new connection, to the session of the day, and
\* tries once more; a text that fails twice is dropped.
SetText ==
    /\ queue # <<>> /\ Head(queue)[1] = "SetText"
    /\ queue' = Tail(queue)
    /\ LET text == Head(queue)[2]
           at   == IF clipboard \in dead \cup {NoText} THEN display ELSE clipboard
       IN  \/ /\ Oversized(text)
              /\ UNCHANGED <<clipboard, selection, xfixes, due, copies>>
           \/ /\ ~Oversized(text)
              /\ clipboard' = at
              /\ Select(at, text)
              /\ due' = IF at = display THEN {} ELSE due
              /\ UNCHANGED copies
           \/ /\ ~Oversized(text) /\ Fails
              /\ clipboard' \in {display, NoText}
              /\ UNCHANGED <<selection, xfixes, due>>
    /\ UNCHANGED <<mode, xVars, replies, last_written, tasks, watcher, connVars>>

\* A connection that cannot be read stays, and answers nothing; one that cannot
\* be opened is tried again with the next request. A thread does not read
\* again, so a failure costs it the copy; the poll does.
GetText ==
    /\ queue # <<>> /\ Head(queue)[1] = "GetText"
    /\ queue' = Tail(queue)
    /\ LET asker == Head(queue)[2]
           at == IF clipboard = NoText THEN display ELSE clipboard
       IN  \/ /\ clipboard' = at
              /\ ReplyTo(asker, IF at \in dead THEN NoText ELSE selection[at])
              /\ UNCHANGED <<due, copies>>
           \/ /\ Fails
              /\ clipboard' \in {at, clipboard}
              /\ ReplyTo(asker, NoText)
              /\ due' = IF asker[1] = "thread" THEN {} ELSE due
    /\ UNCHANGED <<mode, xVars, selection, last_written, tasks, watchVars, connVars>>

\* Mistake: the connection survives.
KeepConnection ==
    /\ queue # <<>> /\ Head(queue)[1] = "ResetSession"
    /\ queue' = Tail(queue)
    /\ UNCHANGED <<mode, xVars, selection, clipboard, replies, last_written, tasks,
                   watchVars, connVars, due, copies>>

ResetSession ==
    /\ queue # <<>> /\ Head(queue)[1] = "ResetSession"
    /\ queue' = Tail(queue)
    /\ clipboard' = NoText
    /\ UNCHANGED <<mode, xVars, selection, replies, last_written, tasks, watchVars,
                   connVars, due, copies>>

-----------------------------------------------------------------------------
\* The watcher and its threads.

Ask(asker) == queue' = Append(queue, <<"GetText", asker>>)
Took(asker) == [a \in DOMAIN replies \ {asker} |-> replies[a]]

\* Every live subscriber is told that the host has a text.
advertise_unicode_formats ==
    /\ outbox' = [c \in ClipConn |->
                    IF c \in live THEN Append(outbox[c], "formats") ELSE outbox[c]]
    /\ due' = {}

\* Two seconds have passed and no thread is active.
PollStart ==
    /\ allows_host_to_client /\ ~watcher.reading /\ live # {}
    /\ xfixes[Len(xfixes)].state \notin {"listening", "reading"}
    /\ Ask(TheWatcher)
    /\ watcher' = [watcher EXCEPT !.reading = TRUE]
    /\ UNCHANGED <<mode, xVars, selection, clipboard, replies, last_written, tasks,
                   xfixes, connVars, due, copies>>

PollEnd ==
    /\ watcher.reading /\ TheWatcher \in DOMAIN replies
    /\ LET current == replies[TheWatcher]
       IN  /\ watcher' = [last |-> current, reading |-> FALSE]
           /\ IF current \notin {watcher.last, NoText, last_written}
              THEN advertise_unicode_formats
              ELSE UNCHANGED <<outbox, due>>
    /\ replies' = Took(TheWatcher)
    /\ UNCHANGED <<mode, xVars, selection, clipboard, queue, last_written, tasks,
                   xfixes, live, remote, asked, copies>>

SessionChanged ==
    /\ changed /\ ~watcher.reading
    /\ changed' = FALSE
    /\ queue' = Append(queue, <<"ResetSession">>)
    /\ watcher' = [watcher EXCEPT !.last = NoText]
    /\ xfixes' = Append([i \in Thread |-> [xfixes[i] EXCEPT !.stop = TRUE]], NewThread)
    /\ UNCHANGED <<mode, display, dead, selection, clipboard, replies, last_written,
                   tasks, connVars, due, copies>>

ThreadStart(i) ==
    /\ xfixes[i].state = "starting"
    /\ \/ /\ display \notin dead
          /\ xfixes' = [xfixes EXCEPT ![i].state = "listening",
                                      ![i].session = display]
       \/ xfixes' = [xfixes EXCEPT ![i].state = "failed"]
    /\ UNCHANGED <<mode, xVars, workVars, last_written, tasks, watcher, connVars,
                   due, copies>>

\* The thread reads the text with the subscribers locked.
ThreadRead(i) ==
    /\ xfixes[i].state = "listening" /\ ~xfixes[i].stop
    /\ xfixes[i].event
    /\ IF live = {}
       THEN /\ xfixes' = [xfixes EXCEPT ![i].event = FALSE]
            /\ UNCHANGED queue
       ELSE /\ Ask(TheThread(i))
            /\ xfixes' = [xfixes EXCEPT ![i].event = FALSE, ![i].state = "reading"]
    /\ UNCHANGED <<mode, xVars, selection, clipboard, replies, last_written, tasks,
                   watcher, connVars, due, copies>>

\* Mistake: a text a client wrote is not remembered, and a new one is taken
\* for old when it follows it.
ThreadToldOnlyOnce(i) ==
    /\ xfixes[i].state = "reading" /\ TheThread(i) \in DOMAIN replies
    /\ xfixes' = [xfixes EXCEPT ![i].state = "listening",
                                ![i].last_advertised = replies[TheThread(i)]]
    /\ IF xfixes[i].last_advertised = NoText /\ replies[TheThread(i)] \notin {NoText, last_written}
       THEN advertise_unicode_formats
       ELSE UNCHANGED <<outbox, due>>
    /\ replies' = Took(TheThread(i))
    /\ UNCHANGED <<mode, xVars, selection, clipboard, queue, last_written, tasks,
                   watcher, live, remote, asked, copies>>

ThreadTell(i) ==
    /\ xfixes[i].state = "reading" /\ TheThread(i) \in DOMAIN replies
    /\ LET current == replies[TheThread(i)]
       IN  /\ xfixes' = [xfixes EXCEPT ![i].state = "listening",
                            ![i].last_advertised = IF current = NoText THEN @
                                                   ELSE current]
           /\ IF current \notin {NoText, last_written, xfixes[i].last_advertised}
              THEN advertise_unicode_formats
              ELSE UNCHANGED <<outbox, due>>
    /\ replies' = Took(TheThread(i))
    /\ UNCHANGED <<mode, xVars, selection, clipboard, queue, last_written, tasks,
                   watcher, live, remote, asked, copies>>

\* The thread is stopped, or its X server is gone.
ThreadEnd(i) ==
    /\ xfixes[i].state = "listening"
    /\ xfixes[i].stop \/ xfixes[i].session \in dead
    /\ xfixes' = [xfixes EXCEPT ![i].state = "failed", ![i].event = FALSE]
    /\ UNCHANGED <<mode, xVars, workVars, last_written, tasks, watcher, connVars,
                   due, copies>>

-----------------------------------------------------------------------------
\* Connections.

\* The client copies a text and sends its Format List. The first paste
\* request sleeps for half a second, later ones go out at once.
on_remote_copy(c) ==
    /\ c \in live /\ copies.client > 0
    /\ copies' = [copies EXCEPT !.client = @ - 1]
    /\ \E text \in ClientText :
        /\ remote' = [remote EXCEPT ![c].text = text,
                        ![c].delay_first_paste = @ /\ ~allows_client_to_host,
                        ![c].sleeping = @ \/ (allows_client_to_host
                                              /\ remote[c].delay_first_paste)]
        /\ outbox' = IF allows_client_to_host /\ ~remote[c].delay_first_paste
                     THEN [outbox EXCEPT ![c] = Append(@, "paste")]
                     ELSE outbox
    /\ UNCHANGED <<mode, xVars, workVars, last_written, tasks, watchVars, live, due,
                   asked>>

DelayedPaste(c) ==
    /\ remote[c].sleeping
    /\ remote' = [remote EXCEPT ![c].sleeping = FALSE]
    /\ outbox' = IF c \in live THEN [outbox EXCEPT ![c] = Append(@, "paste")]
                 ELSE outbox
    /\ UNCHANGED <<mode, xVars, workVars, last_written, tasks, watchVars, live, due,
                   asked, copies>>

Task(c, kind, text) == [conn |-> c, kind |-> kind, text |-> text, step |-> 1]

\* A paste of the client is served from the host's clipboard.
PasteAllowed == allows_host_to_client

\* The client asks for the host's text.
on_format_data_request(c) ==
    /\ c \in live /\ c \notin asked /\ copies.pastes > 0
    /\ copies' = [copies EXCEPT !.pastes = @ - 1]
    /\ asked' = asked \cup {c}
    /\ \/ /\ PasteAllowed
          /\ tasks' = tasks \cup {Task(c, "read", NoText)}
          /\ UNCHANGED outbox
       \/ \* the mode forbids it, or it is not a text format
          /\ outbox' = [outbox EXCEPT ![c] = Append(@, "error")]
          /\ UNCHANGED tasks
    /\ UNCHANGED <<mode, xVars, workVars, last_written, watchVars, live, remote, due>>

\* The session loop sends the next message. A paste request is answered by the
\* client, and the answer handed to a blocking task.
Deliver(c) ==
    /\ c \in live /\ outbox[c] # <<>>
    /\ outbox' = [outbox EXCEPT ![c] = Tail(@)]
    /\ tasks' = IF Head(outbox[c]) = "paste" /\ allows_client_to_host
                THEN tasks \cup {Task(c, "write", remote[c].text)} ELSE tasks
    /\ asked' = IF Head(outbox[c]) \in {"formats", "paste"} THEN asked
                ELSE asked \ {c}
    /\ UNCHANGED <<mode, xVars, workVars, last_written, watchVars, live, remote, due,
                   copies>>

Advanced(t) == (tasks \ {t}) \cup {[t EXCEPT !.step = 2]}

WriteTask(t) ==
    /\ t.kind = "write"
    /\ \/ /\ t.step = 1
          /\ last_written' = t.text
          /\ tasks' = Advanced(t)
          /\ UNCHANGED queue
       \/ /\ t.step = 2
          /\ queue' = Append(queue, <<"SetText", t.text>>)
          /\ tasks' = tasks \ {t}
          /\ UNCHANGED last_written
    /\ UNCHANGED <<mode, xVars, selection, clipboard, replies, watchVars, connVars,
                   due, copies>>

\* The response to a request: the text, or CB_RESPONSE_FAIL.
Response(text) == IF text = NoText THEN <<"error">> ELSE <<"data">>

ReadTask(t) ==
    /\ t.kind = "read"
    /\ \/ /\ t.step = 1
          /\ Ask(TheTask(t.conn))
          /\ tasks' = Advanced(t)
          /\ UNCHANGED <<replies, outbox>>
       \/ /\ t.step = 2 /\ TheTask(t.conn) \in DOMAIN replies
          /\ outbox' = [outbox EXCEPT ![t.conn] =
                IF t.conn \in live
                THEN @ \o Response(replies[TheTask(t.conn)])
                ELSE @]
          /\ replies' = Took(TheTask(t.conn))
          /\ tasks' = tasks \ {t}
          /\ UNCHANGED queue
    /\ UNCHANGED <<mode, xVars, selection, clipboard, last_written, watchVars, live,
                   remote, asked, due, copies>>

Disconnect(c) ==
    /\ c \in live
    /\ live' = live \ {c}
    /\ outbox' = [outbox EXCEPT ![c] = <<>>]
    /\ asked' = asked \ {c}
    /\ due' = due \ {c}
    /\ UNCHANGED <<mode, xVars, workVars, last_written, tasks, watchVars, remote,
                   copies>>

Watch == PollEnd \/ SessionChanged
Threads ==
    \E i \in Thread :
        ThreadStart(i) \/ ThreadRead(i) \/ ThreadTell(i) \/ ThreadEnd(i)
Worker == SetText \/ GetText \/ ResetSession
Tasks == \E t \in tasks : WriteTask(t) \/ ReadTask(t)

ClipboardNext ==
    \/ HostCopy \/ SessionSwitch
    \/ Worker \/ PollStart \/ Watch \/ Threads \/ Tasks
    \/ \E c \in ClipConn :
        \/ on_remote_copy(c) \/ DelayedPaste(c)
        \/ on_format_data_request(c) \/ Deliver(c) \/ Disconnect(c)

\* The worker, the watcher, its threads and the blocking pool keep running,
\* and a session loop keeps draining its backend's messages.
ClipboardFairness ==
    /\ WF_clipVars(Worker) /\ WF_clipVars(PollStart) /\ WF_clipVars(Watch)
    /\ WF_clipVars(Threads) /\ WF_clipVars(Tasks)
    /\ \A c \in ClipConn : WF_clipVars(Deliver(c))

ClipboardSpec == ClipboardInit /\ [][ClipboardNext]_clipVars /\ ClipboardFairness

-----------------------------------------------------------------------------

\* The type invariant: the worker is bound to a session or to none, no clipboard
\* holds a text above the limit, and only live connections are owed anything.
ClipTypeOK ==
    /\ clipboard \in ClipSession \cup {NoText}
    /\ \A s \in ClipSession :
        selection[s] \notin OversizedText
    /\ due \subseteq live /\ asked \subseteq live
    /\ last_written \in ClientText \cup {NoText}

\* The clipboard mode holds end to end: no client text reaches a host
\* clipboard, and no host text a client, unless the mode allows it
\* (ClipboardMode).
ModeRespected ==
    /\ allows_client_to_host \/ \A s \in ClipSession : selection[s] \notin ClientText
    /\ allows_host_to_client \/ \A c \in ClipConn :
        \A k \in DOMAIN outbox[c] : outbox[c][k] \notin {"formats", "data"}

\* Where a watcher runs, the worker is bound to the session on display as
\* soon as the change is handled and the requests before it are served.
WorkerFollowsSession ==
    allows_host_to_client =>
        \/ clipboard \in {display, NoText}
        \/ changed
        \/ \E k \in DOMAIN queue : queue[k][1] = "ResetSession"

\* Every Format Data Request is answered, with a text or with an error: no client
\* waits for ever.
EveryRequestAnswered == \A c \in ClipConn : []<>(c \notin asked)

\* A text copied on the host while the watcher listens is announced to every
\* connection, unless another text or a session change overtakes it, or the
\* clipboard cannot be read.
HostCopyAnnounced == \A c \in ClipConn : []<>(c \notin due)

\* The clipboard's texts keep to the mode, the limit and the session on display.
ClipboardSafe == ClipTypeOK /\ ModeRespected /\ WorkerFollowsSession

\* The clipboard answers: every paste of a client and every copy on the host.
ClipboardAnswers == EveryRequestAnswered /\ HostCopyAnnounced
=============================================================================
