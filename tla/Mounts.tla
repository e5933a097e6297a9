-------------------------------- MODULE Mounts --------------------------------
(***************************************************************************)
(* MountRegistry: connections that redirect a drive of the same DosName    *)
(* share one FUSE mount.  The first to announce it mounts, the last to     *)
(* leave has it unmounted by a detached thread, and in between one owner's *)
(* Bridge serves the mount; when the owner leaves, the backend is swapped  *)
(* in place.  The steps of join that run outside the registry lock are     *)
(* steps of their own.                                                     *)
(*                                                                         *)
(* The kernel keeps using file handles across a swap.  A handle is the     *)
(* number the serving Bridge gave out (next_fh, per Bridge).               *)
(***************************************************************************)
EXTENDS Naturals, Sequences, FiniteSets, SequencesExt

CONSTANTS
    MountConn,     \* connections
    MountDevice,   \* device ids a client announces
    DosName,       \* drive names
    SanitizedName, \* device -> sanitize_dos_name of its name
    MountUses      \* bounds: how many FUSE sessions a behaviour may start and
                   \* how many files it may open

ASSUME MountsAssumption ==
    /\ SanitizedName \in [MountDevice -> DosName] /\ "" \notin DosName
    /\ MountUses \subseteq [sessions : Nat, files : Nat]

VARIABLES
    joiner,      \* per connection: [phase, name, session]
    joined,      \* FuseDriveConsumer::joined, per connection: devices
    registry,    \* slots: name -> [owner, members, session], partial
    stack,       \* name -> FUSE sessions mounted at its path, top last
    umounts,     \* <<name, session>> a detached thread is about to unmount
    lazy,        \* names whose umount failed and is retried by path
    shut,        \* unmount_all ran
    sessions,    \* FUSE sessions started so far
    fhs,         \* per connection: [next, opens]: handle -> file
    files,       \* files opened so far; the number of the last one
    kernel,      \* handles the kernel holds: [name, session, fh, file, owner]
    raced,       \* history: "join" when two joins worked on one path at once,
                 \* "lazy" when the retry of a failed umount may hit
                 \* another mount than its own
    limits       \* the bounds of this behaviour

mountVars == <<joiner, joined, registry, stack, umounts, lazy, shut, sessions,
               fhs, files, kernel, raced, limits>>

fileVars == <<fhs, files, kernel, limits>>

Away == [phase |-> "idle", name |-> "", device |-> 0, session |-> 0]

MountsInit ==
    /\ joiner = [c \in MountConn |-> Away]
    /\ joined = [c \in MountConn |-> {}]
    /\ registry = <<>>
    /\ stack = [n \in DosName |-> <<>>]
    /\ umounts = {} /\ lazy = {} /\ shut = FALSE /\ sessions = 0
    /\ fhs = [c \in MountConn |-> [next |-> 1, opens |-> <<>>]]
    /\ files = 0 /\ kernel = {} /\ raced = {}
    /\ limits \in MountUses

Put(f, k, v) == [x \in DOMAIN f \cup {k} |-> IF x = k THEN v ELSE f[x]]
Drop(f, k) == [x \in DOMAIN f \ {k} |-> f[x]]
Pop(s) == IF s = <<>> THEN <<>> ELSE Front(s)

-----------------------------------------------------------------------------
(* join.                                                                   *)

Joining(n) == \E c \in MountConn : joiner[c].name = n
Joined(c, n) == \E d \in joined[c] : SanitizedName[d] = n

AddMember(c, n) == registry' = [registry EXCEPT ![n].members = @ \cup {c}]

\* on_device_ready and the first look at the registry: an existing slot is
\* joined under the lock.
Announce(c, d) ==
    LET n == SanitizedName[d] IN
    /\ joiner[c].phase = "idle" /\ d \notin joined[c]
    /\ sessions < limits.sessions
    /\ \/ /\ n \in DOMAIN registry
          /\ AddMember(c, n)
          /\ joined' = [joined EXCEPT ![c] = @ \cup {d}]
          /\ UNCHANGED <<joiner, raced>>
       \/ /\ n \notin DOMAIN registry
          /\ joiner' = [joiner EXCEPT ![c] = [phase |-> "prepare", name |-> n,
                                              device |-> d, session |-> 0]]
          /\ raced' = raced \cup (IF Joining(n) THEN {"join"} ELSE {})
                           \cup (IF n \in lazy THEN {"lazy"} ELSE {})
          /\ UNCHANGED <<registry, joined>>
    /\ UNCHANGED <<stack, umounts, lazy, shut, sessions, fileVars>>

\* prepare_mount_point: whatever is mounted at the path is lazily unmounted.
\* A FUSE session whose mount is gone stays in memory.
Prepare(c) ==
    LET n == joiner[c].name IN
    /\ joiner[c].phase = "prepare"
    /\ stack' = [stack EXCEPT ![n] = Pop(@)]
    /\ joiner' = [joiner EXCEPT ![c].phase = "mount"]
    /\ UNCHANGED <<joined, registry, umounts, lazy, shut, sessions, fileVars, raced>>

\* spawn_shared_mount, which may fail.
Mount(c) ==
    LET n == joiner[c].name IN
    /\ joiner[c].phase = "mount"
    /\ \/ /\ sessions' = sessions + 1
          /\ stack' = [stack EXCEPT ![n] = Append(@, sessions + 1)]
          /\ joiner' = [joiner EXCEPT ![c].phase = "register",
                                      ![c].session = sessions + 1]
       \/ /\ joiner' = [joiner EXCEPT ![c] = Away]
          /\ UNCHANGED <<sessions, stack>>
    /\ UNCHANGED <<joined, registry, umounts, lazy, shut, fileVars, raced>>

\* Mistake: the mount that lost the race is forgotten.
KeepLoser(c) == {}

\* detach_umount of the mount that lost the race.
DiscardLoser(c) == {<<joiner[c].name, joiner[c].session>>}

\* The second look: if another connection won, its mount is kept and this one
\* is discarded.
Register(c) ==
    LET n == joiner[c].name IN
    /\ joiner[c].phase = "register"
    /\ joiner' = [joiner EXCEPT ![c] = Away]
    /\ joined' = [joined EXCEPT ![c] = @ \cup {joiner[c].device}]
    /\ \/ /\ n \in DOMAIN registry
          /\ AddMember(c, n)
          /\ umounts' = umounts \cup DiscardLoser(c)
       \/ /\ n \notin DOMAIN registry
          /\ registry' = Put(registry, n,
                             [owner |-> c, members |-> {c},
                              session |-> joiner[c].session])
          /\ UNCHANGED umounts
    /\ UNCHANGED <<stack, lazy, shut, sessions, fileVars, raced>>

-----------------------------------------------------------------------------
(* leave.                                                                  *)

\* Mistake: the departed connection stays the owner.
HandoffKeepsOwner(slot, c) ==
    {[slot EXCEPT !.members = @ \ {c}]}

\* The slots leave may turn a slot with other members into: ownership passes
\* to any one of them, when the owner left.
Handoff(slot, c) ==
    LET rest == slot.members \ {c}
    IN IF slot.owner = c
       THEN {[slot EXCEPT !.members = rest, !.owner = d] : d \in rest}
       ELSE {[slot EXCEPT !.members = rest]}

\* Drop of the consumer leaves every mount it joined; the departing owner's
\* handle table is cleared when the backend is swapped.
Leave(c, d) ==
    LET n == SanitizedName[d] IN
    /\ joiner[c].phase = "leaving" /\ d \in joined[c]
    /\ joined' = [joined EXCEPT ![c] = @ \ {d}]
    /\ \/ /\ n \notin DOMAIN registry
          /\ UNCHANGED <<registry, umounts, fhs>>
       \/ /\ n \in DOMAIN registry /\ registry[n].members \ {c} = {}
          /\ registry' = Drop(registry, n)
          /\ umounts' = umounts \cup {<<n, registry[n].session>>}
          /\ UNCHANGED fhs
       \/ /\ n \in DOMAIN registry /\ registry[n].members \ {c} # {}
          /\ \E slot \in Handoff(registry[n], c) :
               registry' = [registry EXCEPT ![n] = slot]
          /\ fhs' = IF registry[n].owner = c
                    THEN [fhs EXCEPT ![c].opens = <<>>] ELSE fhs
          /\ UNCHANGED umounts
    /\ UNCHANGED <<joiner, stack, lazy, shut, sessions, files, kernel, raced,
                   limits>>

\* The connection ends; its task runs no join then.
Hangup(c) ==
    /\ joiner[c].phase = "idle"
    /\ joiner' = [joiner EXCEPT ![c].phase = "leaving"]
    /\ UNCHANGED <<joined, registry, stack, umounts, lazy, shut, sessions, fileVars,
                   raced>>

\* unmount_all, on shutdown: every slot is drained.
UnmountAll ==
    /\ ~ shut /\ shut' = TRUE
    /\ registry' = <<>>
    /\ umounts' = umounts \cup {<<n, registry[n].session>> : n \in DOMAIN registry}
    /\ UNCHANGED <<joiner, joined, stack, lazy, sessions, fileVars, raced>>

\* umount_and_join takes down the session's own mount, if it is still there.
WithoutSession(mounted, s) ==
    LET at == {i \in DOMAIN mounted : mounted[i] = s}
    IN  IF at = {} THEN mounted ELSE RemoveAt(mounted, CHOOSE i \in at : TRUE)

\* The detached thread.  The kernel's handles go with the mount.  When the
\* umount fails the path is lazily unmounted, whatever is mounted there by then.
Umount(n, s) ==
    /\ <<n, s>> \in umounts
    /\ umounts' = umounts \ {<<n, s>>}
    /\ kernel' = {h \in kernel : h.session # s}
    /\ \/ /\ stack' = [stack EXCEPT ![n] = WithoutSession(@, s)]
          /\ UNCHANGED <<lazy, raced>>
       \/ /\ \E i \in DOMAIN stack[n] : stack[n][i] = s
          /\ lazy' = lazy \cup {n}
          /\ raced' = raced \cup (IF Joining(n) \/ stack[n] # <<s>>
                                 THEN {"lazy"} ELSE {})
          /\ UNCHANGED stack
    /\ UNCHANGED <<joiner, joined, registry, shut, sessions, fhs, files, limits>>

LazyUnmount(n) ==
    /\ n \in lazy
    /\ lazy' = lazy \ {n}
    /\ stack' = [stack EXCEPT ![n] = Pop(@)]
    /\ UNCHANGED <<joiner, joined, registry, umounts, shut, sessions, fileVars, raced>>

-----------------------------------------------------------------------------
(* The kernel.  An operation goes to the Bridge of the current owner.      *)

Serving(n) == registry[n].owner

\* The number of the next handle (fetch_add).
next_fh(c) == fhs[c].next

OpenFile(n) ==
    LET c == Serving(n)
        fh == next_fh(c) IN
    /\ n \in DOMAIN registry
    /\ stack[n] # <<>> /\ Last(stack[n]) = registry[n].session
    /\ joiner[c].phase = "idle" /\ files < limits.files
    /\ files' = files + 1
    /\ fhs' = [fhs EXCEPT ![c] = [next |-> @.next + 1,
                                  opens |-> Put(@.opens, fh, files')]]
    /\ kernel' = kernel \cup {[name |-> n, session |-> registry[n].session,
                               fh |-> fh, file |-> files', owner |-> c]}
    /\ UNCHANGED <<joiner, joined, registry, stack, umounts, lazy, shut, sessions, raced,
                   limits>>

\* release, which like read and write finds the number in the table of the owner
\* of the day, or does not: then the answer of read and write is EBADF.
ReleaseHandle(h) ==
    LET c == Serving(h.name) IN
    /\ h \in kernel /\ h.name \in DOMAIN registry
    /\ registry[h.name].session = h.session
    /\ kernel' = kernel \ {h}
    /\ fhs' = [fhs EXCEPT ![c].opens = Drop(@, h.fh)]
    /\ UNCHANGED <<joiner, joined, registry, stack, umounts, lazy, shut, sessions,
                   files, raced, limits>>

MountsNext ==
    \/ \E c \in MountConn :
         \/ \E d \in MountDevice : Announce(c, d) \/ Leave(c, d)
         \/ Prepare(c) \/ Mount(c) \/ Register(c) \/ Hangup(c)
    \/ UnmountAll
    \/ \E u \in umounts : Umount(u[1], u[2])
    \/ \E n \in DosName : LazyUnmount(n) \/ OpenFile(n)
    \/ \E h \in kernel : ReleaseHandle(h)

\* A join runs to its end, a connection that hangs up leaves, and the umount
\* threads run.
MountsFairness ==
    /\ \A c \in MountConn :
         /\ WF_mountVars(Prepare(c) \/ Mount(c) \/ Register(c))
         /\ WF_mountVars(\E d \in MountDevice : Leave(c, d))
    /\ WF_mountVars(\E u \in umounts : Umount(u[1], u[2]))
    /\ WF_mountVars(\E n \in DosName : LazyUnmount(n))

MountsSpec == MountsInit /\ [][MountsNext]_mountVars /\ MountsFairness

-----------------------------------------------------------------------------

\* The connection that serves a mount is one of its members and has not left:
\* after the swap no request goes to a Bridge without a connection.
OwnerPresent ==
    \A n \in DOMAIN registry :
        /\ registry[n].owner \in registry[n].members
        /\ \A c \in registry[n].members : Joined(c, n)

\* "created by the first connection that announces the device and released
\* only when the last connection leaves" (rdpdr_fuse/mod.rs:5-7): a name with
\* members is mounted, with its own session on top.
MountedWhileMembers ==
    \A n \in DOMAIN registry :
        stack[n] # <<>> /\ Last(stack[n]) = registry[n].session

\* The same, as far as it holds: when no two threads were mounting or
\* unmounting one path at the same time.
MountedUnlessRaced == raced = {} => MountedWhileMembers

\* A handle the kernel holds reaches the file it was opened for as long as the
\* mount has the owner that opened it, whoever else joins, leaves, opens and
\* releases.  (After an ownership change the number may name a file of the new
\* owner.)
HandlesReachTheirFile ==
    \A h \in kernel :
        (h.name \in DOMAIN registry /\ Serving(h.name) = h.owner
           /\ h.fh \in DOMAIN fhs[h.owner].opens)
        => fhs[h.owner].opens[h.fh] = h.file

\* Once every connection has gone, every mount is taken down, the losers' of
\* a join race too, unless a lazy retry hit another mount than its own.
EventuallyUnmounted ==
    []<>(\/ \E c \in MountConn : joiner[c].phase # "leaving"
         \/ "lazy" \in raced
         \/ \A n \in DosName : stack[n] = <<>>)

\* A shared mount has an owner who is there, exists while it has members, and
\* takes handles to their files, as far as no two threads raced for its path.
MountsSafe == OwnerPresent /\ MountedUnlessRaced /\ HandlesReachTheirFile
=============================================================================
