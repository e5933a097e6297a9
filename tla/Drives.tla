-------------------------------- MODULE Drives --------------------------------
(***************************************************************************)
(* Redirected drives of one connection: the threads of the FUSE mount      *)
(* submit commands to the Bridge and block; the session loop issues them   *)
(* through RdpdrChannel; the client, who owns the drive, completes them in *)
(* any order, late or never.  A FUSE operation is a short program of       *)
(* commands (fs.rs, bridge.rs): open keeps the file it creates, use works  *)
(* on an open handle, release closes it, path opens a path, works on it    *)
(* and closes it (mkdir, rename, setattr), delete does so with a second    *)
(* attempt at opening, list opens a directory, asks for one entry after    *)
(* the other until there are no more, and closes it (lookup, rmdir), and   *)
(* readdir does so with an open handle.                                    *)
(*                                                                         *)
(* Values read or written are left out; what matters is whose reply a      *)
(* thread gets and which files stay open at the client.                    *)
(***************************************************************************)
EXTENDS Naturals, Sequences, FiniteSets, SequencesExt

CONSTANTS
    FuseThread,       \* dispatch threads of the mount (n_threads)
    Device,           \* device ids the client announces
    MAX_PENDING_OPS,
    MAX_DEVICES,
    MaxEntries,       \* bound: directory entries the client answers with
    Scenarios         \* bound: the operations each thread runs, and what
                      \* may go wrong meanwhile: [plan, faults]

ASSUME DrivesAssumption ==
    MAX_PENDING_OPS \in Nat \ {0} /\ MAX_DEVICES \in Nat \ {0} /\ MaxEntries \in Nat

VARIABLES
    threads,      \* [op, dev, todo, file, tag, late, listed]; see Idle
    outbound,     \* Bridge::outbound
    waiting,      \* Bridge::pending: tags with a live reply sender
    mailbox,      \* tag -> reply sent to its receiver
    next_tag,     \* Bridge::next_tag
    opens,        \* Bridge::opens: files behind FUSE handles
    wake,         \* the wake channel has a message
    drive_up,     \* the connection, its channel and consumer exist
    devices,      \* RdpdrChannel::devices
    mounts,       \* joined: devices with a mount on this bridge
    batch,        \* commands encode_commands still has to look at
    irps,         \* RdpdrChannel::pending: completion id -> command
    next_cid,     \* next_completion_id
    at_client,    \* requests the client has not completed
    completions,  \* completions on their way to the server
    plugged,      \* devices the client still redirects
    client_files, \* files open at the client: [id, dev]
    next_file,
    entries,      \* directory entries it has answered with
    plan,         \* thread -> operations the kernel will still ask for
    faults,       \* what may go wrong in this behaviour
    lost,         \* history: what went wrong
    orphans       \* history: tags whose completion was dropped

driveVars == <<threads, outbound, waiting, mailbox, next_tag, opens, wake,
               drive_up, devices, mounts, batch, irps, next_cid, at_client,
               completions, plugged, client_files, next_file, entries, plan,
               faults, lost, orphans>>

bridgeVars == <<threads, outbound, waiting, mailbox, next_tag, opens, wake,
                plan>>
channelVars == <<drive_up, devices, mounts, batch, irps, next_cid>>
clientVars == <<at_client, completions, plugged, client_files, next_file,
                entries, faults>>
lossVars == <<lost, orphans>>

-----------------------------------------------------------------------------
(* The commands an operation submits.  A file is <<device, id>>.           *)

NoFile == <<>>
OtherDevice == 0        \* a device that has no requests
Idle == [op |-> "idle", todo |-> <<>>, dev |-> 0, file |-> NoFile, tag |-> 0,
         late |-> FALSE, listed |-> FALSE]

Program ==
    [open    |-> <<"Create">>,
     use     |-> <<"Io">>,
     release |-> <<"Close">>,
     path    |-> <<"Create", "Io", "Close">>,
     delete  |-> <<"Create", "Create", "Io", "Close">>,
     list    |-> <<"Create", "Query", "Close">>,
     readdir |-> <<"Query">>]

OnHandle == {"use", "release", "readdir"}

DrivesInit ==
    /\ threads = [t \in FuseThread |-> Idle]
    /\ outbound = <<>> /\ waiting = {} /\ mailbox = <<>> /\ next_tag = 1
    /\ opens = {} /\ wake = FALSE /\ drive_up = TRUE
    /\ devices = {} /\ mounts = {} /\ batch = <<>> /\ irps = <<>>
    /\ next_cid = 0 /\ at_client = {} /\ completions = <<>>
    /\ plugged = {} /\ client_files = {} /\ next_file = 1 /\ entries = 0
    /\ \E s \in Scenarios : plan = s.plan /\ faults = s.faults
    /\ lost = {} /\ orphans = {}

-----------------------------------------------------------------------------
(* The FUSE side.                                                          *)

\* A kernel request: an operation on a path of a mounted device, or on an
\* open handle.  release takes the handle out of the table first.
Begin(t) ==
    /\ threads[t].op = "idle" /\ plan[t] # <<>>
    /\ plan' = [plan EXCEPT ![t] = Tail(@)]
    /\ LET op == Head(plan[t]) IN
       \/ \E d \in mounts :
            /\ op \notin OnHandle
            /\ threads' = [threads EXCEPT ![t].op = op, ![t].dev = d,
                                          ![t].todo = Program[op]]
            /\ UNCHANGED opens
       \/ \E f \in opens :
            /\ op \in OnHandle
            /\ threads' = [threads EXCEPT ![t].op = op, ![t].dev = f[1],
                                          ![t].todo = Program[op],
                                          ![t].file = f]
            /\ opens' = IF op = "release" THEN opens \ {f} ELSE opens
    /\ UNCHANGED <<outbound, waiting, mailbox, next_tag, wake>>
    /\ UNCHANGED <<channelVars, clientVars, lossVars>>

\* submit_create, submit_close, submit_read, submit_write, submit_query_dir,
\* submit_set_information: a fresh tag, a reply sender under it, the command
\* and the wake-up.
Submit(t) ==
    LET th == threads[t] IN
    /\ th.todo # <<>> /\ th.tag = 0
    /\ threads' = [threads EXCEPT ![t].tag = next_tag, ![t].listed = FALSE]
    /\ waiting' = waiting \cup {next_tag}
    /\ outbound' = Append(outbound, [kind |-> Head(th.todo), dev |-> th.dev,
                                     file |-> th.file, tag |-> next_tag])
    /\ wake' = TRUE
    /\ next_tag' = next_tag + 1
    /\ UNCHANGED <<mailbox, opens, plan>>
    /\ UNCHANGED <<channelVars, clientVars, lossVars>>

\* A reply: its outcome, the file a Create opened, whether a Query found an
\* entry.
Answer(ok, file, entry) == [ok |-> ok, file |-> file, entry |-> entry]
Failure == Answer(FALSE, NoFile, FALSE)

\* The current command is done with: the next one, or the end.
Advance(th) ==
    IF Len(th.todo) = 1 THEN Idle
    ELSE [th EXCEPT !.todo = Tail(@), !.tag = 0, !.late = FALSE]

\* After a success: an entry is followed by the next Query; a file opened at the
\* first attempt needs no second.
Continue(th, r) ==
    CASE Head(th.todo) = "Query" /\ r.entry ->
            [th EXCEPT !.tag = 0, !.late = FALSE, !.listed = TRUE]
      [] Head(th.todo) = "Create" /\ th.op # "open" ->
            [Advance(th) EXCEPT !.file = r.file,
                 !.todo = SelectSeq(@, LAMBDA cmd : cmd # "Create")]
      [] OTHER -> Advance(th)

\* After a failure: nothing is left to do once opening has failed for good; a
\* failed Io or Query still closes the file.
Recover(th) ==
    IF Head(th.todo) = "Create" /\ "Create" \notin Range(Tail(th.todo)) THEN Idle
    ELSE Advance(th)

\* Mistake: an operation whose command failed ends there.
AfterFailureStops(th, r) == IF r.ok THEN Continue(th, r) ELSE Idle

\* What the operation does with the outcome of its current command.
After(th, r) == IF r.ok THEN Continue(th, r) ELSE Recover(th)

Resume(t, r) ==
    /\ threads' = [threads EXCEPT ![t] = After(threads[t], r)]
    /\ opens' = IF r.ok /\ threads[t].op = "open" THEN opens \cup {r.file}
                ELSE opens

Blocked(t) == threads[t].tag # 0 /\ ~ threads[t].late

\* recv_timeout returns the reply, or Disconnected when the sender is gone.
Received(t) ==
    LET tag == threads[t].tag IN
    /\ Blocked(t)
    /\ \/ /\ tag \in DOMAIN mailbox
          /\ Resume(t, mailbox[tag])
          /\ mailbox' = [k \in DOMAIN mailbox \ {tag} |-> mailbox[k]]
       \/ /\ tag \notin DOMAIN mailbox /\ tag \notin waiting
          /\ Resume(t, Failure)
          /\ UNCHANGED mailbox
    /\ UNCHANGED <<outbound, waiting, next_tag, wake, plan>>
    /\ UNCHANGED <<channelVars, clientVars, lossVars>>

\* OP_TIMEOUT: the wait is over before the sender is removed from the map, so
\* a reply may still slip into the channel nobody reads any more.
TimesOut(t) ==
    /\ "timeout" \in faults
    /\ Blocked(t)
    /\ threads[t].tag \notin DOMAIN mailbox /\ threads[t].tag \in waiting
    /\ threads' = [threads EXCEPT ![t].late = TRUE]
    /\ lost' = lost \cup {"timeout"}
    /\ UNCHANGED <<outbound, waiting, mailbox, next_tag, opens, wake, plan>>
    /\ UNCHANGED <<channelVars, clientVars, orphans>>

\* Mistake: the timed-out thread waits for its reply all the same.
WaitOn(t) == FALSE /\ UNCHANGED driveVars

GivesUp(t) ==
    /\ threads[t].late
    /\ waiting' = waiting \ {threads[t].tag}
    /\ mailbox' = [k \in DOMAIN mailbox \ {threads[t].tag} |-> mailbox[k]]
    /\ Resume(t, Failure)
    /\ UNCHANGED <<outbound, next_tag, wake, plan>>
    /\ UNCHANGED <<channelVars, clientVars, lossVars>>

-----------------------------------------------------------------------------
(* The session loop and RdpdrChannel.                                      *)

\* on_create_reply and its siblings: the reply goes to whoever still waits
\* under the tag.
Reply(tags, answer) ==
    /\ waiting' = waiting \ tags
    /\ mailbox' = [k \in DOMAIN mailbox \cup (tags \cap waiting) |->
                     IF k \in DOMAIN mailbox THEN mailbox[k] ELSE answer]

\* flush_pending_commands on a wake-up: poll_commands drains the queue.
Flush ==
    /\ drive_up /\ wake /\ batch = <<>>
    /\ wake' = FALSE
    /\ batch' = outbound
    /\ outbound' = <<>>
    /\ UNCHANGED <<threads, waiting, mailbox, next_tag, opens, plan>>
    /\ UNCHANGED <<drive_up, devices, mounts, irps, next_cid>>
    /\ UNCHANGED <<clientVars, lossVars>>

AtLimit == Cardinality(DOMAIN irps) >= MAX_PENDING_OPS

\* The id after next_completion_id (wrapping, far beyond these bounds).
NextId == next_cid + 1

\* encode_commands, one command: issued under a new completion id, or failed
\* on the spot when too many are outstanding (fail_command_without_issuing).
encode_commands ==
    /\ batch # <<>>
    /\ batch' = Tail(batch)
    /\ LET cmd == Head(batch) IN
       IF AtLimit
       THEN /\ Reply({cmd.tag}, Failure)
            /\ lost' = lost \cup {"limit"}
            /\ UNCHANGED <<irps, next_cid, at_client>>
       ELSE /\ irps' = [c \in DOMAIN irps \cup {next_cid} |->
                          IF c = next_cid THEN cmd ELSE irps[c]]
            /\ at_client' = at_client \cup {[cid |-> next_cid, cmd |-> cmd]}
            /\ next_cid' = NextId
            /\ UNCHANGED <<waiting, mailbox, lost>>
    /\ UNCHANGED <<threads, outbound, next_tag, opens, wake, drive_up, devices,
                   mounts, completions, plugged, client_files, next_file,
                   entries, plan, faults, orphans>>

Without(cids) == [c \in DOMAIN irps \ cids |-> irps[c]]

\* DeviceIoCompletion: an unknown one is ignored; one that names another device
\* takes its request out of the table all the same, and nobody is told.
OnCompletion(msg) ==
    \/ /\ msg.cid \notin DOMAIN irps
       /\ UNCHANGED <<irps, waiting, mailbox, orphans>>
    \/ /\ msg.cid \in DOMAIN irps
       /\ irps' = Without({msg.cid})
       /\ IF irps[msg.cid].dev = msg.dev
          THEN Reply({irps[msg.cid].tag}, msg.answer) /\ UNCHANGED orphans
          ELSE /\ orphans' = orphans \cup {irps[msg.cid].tag}
               /\ UNCHANGED <<waiting, mailbox>>

\* DeviceListRemove: every command outstanding on the device fails, since no
\* completion will come.
OnRemove(d) ==
    LET stale == {c \in DOMAIN irps : irps[c].dev = d}
    IN /\ irps' = Without(stale)
       /\ Reply({irps[c].tag : c \in stale}, Failure)

\* on_channel_data of the channel.
on_rdpdr_data ==
    /\ drive_up /\ batch = <<>> /\ completions # <<>>
    /\ completions' = Tail(completions)
    /\ LET msg == Head(completions) IN
       \/ /\ msg.kind = "completion"
          /\ OnCompletion(msg)
          /\ UNCHANGED <<devices, mounts>>
       \/ /\ msg.kind = "announce"
          /\ LET full == msg.dev \notin devices
                           /\ Cardinality(devices) >= MAX_DEVICES
             IN /\ devices' = IF full THEN devices ELSE devices \cup {msg.dev}
                /\ mounts' = IF full THEN mounts ELSE mounts \cup {msg.dev}
          /\ UNCHANGED <<irps, waiting, mailbox, orphans>>
       \/ /\ msg.kind = "remove"
          /\ devices' = devices \ {msg.dev}
          /\ OnRemove(msg.dev)
          /\ UNCHANGED <<mounts, orphans>>
    /\ UNCHANGED <<threads, outbound, next_tag, opens, wake, drive_up, batch,
                   next_cid, at_client, plugged, client_files, next_file,
                   entries, plan, faults, lost>>

\* The connection ends: abort_pending drops every queued command and every
\* reply sender.
Disconnected ==
    /\ "connection" \in faults
    /\ drive_up /\ batch = <<>>
    /\ drive_up' = FALSE
    /\ outbound' = <<>> /\ waiting' = {} /\ irps' = <<>>
    /\ at_client' = {} /\ completions' = <<>> /\ client_files' = {}
    /\ lost' = lost \cup {"connection"}
    /\ UNCHANGED <<threads, mailbox, next_tag, opens, wake, devices, mounts,
                   batch, next_cid, plugged, next_file, entries, plan, faults,
                   orphans>>

-----------------------------------------------------------------------------
(* The client.                                                             *)

Announces(d) ==
    /\ drive_up /\ d \notin plugged /\ "unplugged" \notin lost
    /\ plugged' = plugged \cup {d}
    /\ completions' = Append(completions, [kind |-> "announce", dev |-> d])
    /\ UNCHANGED <<bridgeVars, channelVars, at_client, client_files, next_file,
                   entries, faults, lossVars>>

\* A completion names the device of its request, or, gone wrong, another one.
Completes(r, ok, entry, dev) ==
    /\ ok \/ "refused" \in faults
    /\ r \in at_client /\ r.cmd.dev \in plugged
    /\ entry => ok /\ r.cmd.kind = "Query" /\ entries < MaxEntries
    /\ dev = r.cmd.dev \/ (dev = OtherDevice /\ "mismatch" \in faults)
    /\ at_client' = at_client \ {r}
    /\ entries' = IF entry THEN entries + 1 ELSE entries
    /\ LET made == <<r.cmd.dev, next_file>>
           creates == ok /\ r.cmd.kind = "Create"
       IN /\ completions' = Append(completions,
                [kind |-> "completion", cid |-> r.cid, dev |-> dev,
                 answer |-> Answer(ok, IF creates THEN made ELSE r.cmd.file, entry)])
          /\ next_file' = IF creates THEN next_file + 1 ELSE next_file
          /\ client_files' =
               IF creates THEN client_files \cup {made}
               ELSE IF r.cmd.kind = "Close" /\ ok
               THEN client_files \ {r.cmd.file}
               ELSE client_files
          /\ lost' = lost \cup {w \in {"refused", "mismatch"} :
                                 \/ w = "refused" /\ r.cmd.kind = "Close" /\ ~ ok
                                 \/ w = "mismatch" /\ dev = OtherDevice}
    /\ UNCHANGED <<bridgeVars, channelVars, plugged, faults, orphans>>

\* An unplugged device takes its files and its requests along.
Unplugs(d) ==
    /\ "unplugged" \in faults
    /\ drive_up /\ d \in plugged
    /\ plugged' = plugged \ {d}
    /\ at_client' = {r \in at_client : r.cmd.dev # d}
    /\ client_files' = {f \in client_files : f[1] # d}
    /\ completions' = Append(completions, [kind |-> "remove", dev |-> d])
    /\ lost' = lost \cup {"unplugged"}
    /\ UNCHANGED <<bridgeVars, channelVars, next_file, entries, faults, orphans>>

Fuse == \E t \in FuseThread : Submit(t) \/ Received(t) \/ GivesUp(t)

DrivesNext ==
    \/ \E t \in FuseThread : Begin(t) \/ TimesOut(t)
    \/ Fuse
    \/ Flush
    \/ encode_commands
    \/ on_rdpdr_data
    \/ Disconnected
    \/ \E d \in Device : Announces(d) \/ Unplugs(d)
    \/ \E r \in at_client, ok, entry \in BOOLEAN, dev \in Device \cup {OtherDevice} :
          Completes(r, ok, entry, dev)

\* Threads run and their timeouts fire; nothing is asked of the client or of
\* the session loop.
DrivesFairness ==
    \A t \in FuseThread :
        WF_driveVars(Submit(t) \/ Received(t) \/ GivesUp(t) \/ TimesOut(t))

DrivesSpec == DrivesInit /\ [][DrivesNext]_driveVars /\ DrivesFairness

-----------------------------------------------------------------------------

Tags(seq) == {seq[i].tag : i \in DOMAIN seq}
Busy(t) == threads[t].op # "idle"

\* The type invariant: the limits on outstanding requests and on devices hold,
\* and tags are fresh.
DrivesTypeOK ==
    /\ Cardinality(DOMAIN irps) <= MAX_PENDING_OPS
    /\ Cardinality(devices) <= MAX_DEVICES
    /\ \A t \in FuseThread : threads[t].tag < next_tag
    /\ waiting \subseteq 1..(next_tag - 1)

\* While the connection lives, a thread never waits for a reply that nobody
\* will send: its command is still queued, or issued and outstanding.  (An
\* overload, a removed device and a completion all go through the callbacks.)
\* The one exception is a completion that named another device: the request is
\* dropped without a callback, and only the timeout releases the thread.
WaitersHaveRequest ==
    drive_up => waiting \subseteq Tags(outbound) \cup Tags(batch) \cup orphans
                                  \cup {irps[c].tag : c \in DOMAIN irps}

\* A reply is delivered to the thread that asked: a file a handle or a thread
\* holds is one the client opened on the same device, and no two of them hold
\* the same one.
Holders == [t \in {u \in FuseThread : threads[u].file # NoFile
                                       /\ threads[u].op \notin {"use", "readdir"}} |->
              threads[t].file]
RepliesMatch ==
    /\ \A t, u \in DOMAIN Holders : t # u => Holders[t] # Holders[u]
    /\ \A t \in DOMAIN Holders :
         Holders[t] \notin opens /\ Holders[t][1] = threads[t].dev

\* With no timeout, no overload, no refusal, no misnamed completion, no unplugged
\* device and no lost connection, the files open at the client are exactly
\* those behind FUSE handles once no operation is running.
NoFileLeaks ==
    (lost = {} /\ \A t \in FuseThread : ~ Busy(t)) => client_files = opens

\* Every FUSE operation returns, although the client may never complete
\* anything, drop or misname a completion, and the connection may end at any
\* moment (OP_TIMEOUT, abort_pending).  The one exception is a directory of
\* which the client sends entry after entry for ever: enumerate_directory has
\* no limit, and only each single Query has a timeout.
EveryOperationReturns ==
    \A t \in FuseThread : []<>(~ Busy(t) \/ threads[t].listed)

\* Requests and replies of a drive: within their limits, nobody waits in vain,
\* nobody gets another's reply, and no file stays open at the client.
DrivesSafe == DrivesTypeOK /\ WaitersHaveRequest /\ RepliesMatch /\ NoFileLeaks
=============================================================================
