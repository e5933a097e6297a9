---------------------------- MODULE UnicodeTyper ----------------------------
(***************************************************************************)
(* Typing of characters that have no scancode (kmsrdp/src/x11_unicode.rs): *)
(* the input path queues code points, a thread of its own maps each to a   *)
(* spare keycode of the X server of the active session and types it,       *)
(* following the session as users log in and out.                          *)
(*                                                                         *)
(* A session is its X display, or NoDisplay (Wayland, or nobody logged     *)
(* in). The mapping change, the 30 ms wait and the two fake key events of  *)
(* one character are one step that works or fails.                         *)
(***************************************************************************)
EXTENDS Integers, Sequences

CONSTANTS
    Display,            \* X displays of sessions
    NoDisplay,
    POOL,               \* SCRATCH_KEYCODE_POOL_SIZE
    MinKeycode, MaxKeycode,
    MaxTyped            \* bound on the characters of a behaviour

ASSUME TyperAssumption ==
    /\ POOL \in Nat \ {0} /\ MinKeycode \in Nat /\ MaxKeycode \in Nat
    /\ NoDisplay \notin Display

VARIABLES
    session,        \* the value of the session watch channel
    unseen,         \* session_rx.has_changed()
    queued,         \* code points in the channel, by their number
    worker,         \* "idle", "connect" or "type"
    current,        \* the code point the worker took
    x11,            \* conn: its display, next_slot and how many it has typed, or none
    typed,          \* what reached an X server: <<code point, keycode, its place in
                    \* that connection>>
    since           \* history: sessions there were since the worker took `current`

typerVars == <<session, unseen, queued, worker, current, x11, typed, since>>

NoConn == [display |-> NoDisplay, slot |-> 0, used |-> 0]

\* scratch_keycode_pool: downwards from the top keycode, round a short range.
scratch_keycode_pool ==
    LET span == IF MaxKeycode > MinKeycode THEN MaxKeycode - MinKeycode + 1 ELSE 1
    IN  [i \in 0..(POOL - 1) |-> MaxKeycode - (i % span)]

\* X11UnicodeTyper::type_char: the send never blocks.
type_char ==
    /\ Len(queued) + Len(typed) < MaxTyped
    /\ current < MaxTyped
    /\ queued' = Append(queued, IF queued = <<>> THEN current + 1 ELSE queued[Len(queued)] + 1)
    /\ queued'[Len(queued')] <= MaxTyped
    /\ UNCHANGED <<session, unseen, worker, current, x11, typed, since>>

\* run_watcher sends what logind reports at every login and logout, even when
\* it is the session of before.
SessionChange(s) ==
    /\ session' = s /\ unseen' = TRUE /\ since' = since \cup {s}
    /\ UNCHANGED <<queued, worker, current, x11, typed>>

\* Mistake: the worker keeps its connection across a change of session.
KeepDisplay == x11

\* The connection the worker goes on with: a change it had not seen drops it.
Reconsidered == IF unseen THEN NoConn ELSE x11

\* The worker takes a code point; a session change it had not seen drops the
\* connection.
TakeChar ==
    /\ worker = "idle" /\ queued # <<>>
    /\ current' = Head(queued) /\ queued' = Tail(queued)
    /\ since' = {session}
    /\ x11' = Reconsidered
    /\ unseen' = FALSE
    /\ worker' = IF x11'.display = NoDisplay THEN "connect" ELSE "type"
    /\ UNCHANGED <<session, typed>>

\* The connection is opened to the session of the moment; without a display, or
\* when the connect fails, the character is dropped.
Open(ok) ==
    /\ worker = "connect"
    /\ IF session = NoDisplay \/ ~ok
       THEN worker' = "idle" /\ UNCHANGED x11
       ELSE worker' = "type" /\ x11' = [NoConn EXCEPT !.display = session]
    /\ UNCHANGED <<session, unseen, queued, current, typed, since>>

\* X11Connection::type_char: the next keycode of the pool; an error drops the
\* connection, and with it the place in the pool.
Type(ok) ==
    /\ worker = "type" /\ worker' = "idle"
    /\ IF ok
       THEN /\ typed' = Append(typed, <<current, scratch_keycode_pool[x11.slot], x11.used>>)
            /\ x11' = [x11 EXCEPT !.slot = (@ + 1) % POOL, !.used = @ + 1]
       ELSE typed' = typed /\ x11' = NoConn
    /\ UNCHANGED <<session, unseen, queued, current, since>>

TyperInit ==
    /\ session \in Display \cup {NoDisplay} /\ unseen = FALSE
    /\ queued = <<>> /\ typed = <<>> /\ worker = "idle" /\ current = 0
    /\ x11 = NoConn /\ since = {session}

TyperNext ==
    \/ type_char \/ TakeChar
    \/ \E s \in Display \cup {NoDisplay} : SessionChange(s)
    \/ \E ok \in BOOLEAN : Open(ok) \/ Type(ok)

TyperSpec == TyperInit /\ [][TyperNext]_typerVars

----------------------------------------------------------------------------
(* Properties *)

\* Characters come out in the order they were queued, none twice, and each at an X
\* server that was the active session's at some moment after the worker took it:
\* never at the display of a session that had ended before.
TypedInSession ==
    /\ \A i, j \in 1..Len(typed) : i < j => typed[i][1] < typed[j][1]
    /\ worker = "type" => x11.display \in since

\* While one connection lasts, a keycode is not remapped again before the rest of
\* the pool has been used, on a keyboard with as many spare keycodes: this is what
\* keeps an application from reading a character with the next one's mapping
\* (x11_unicode.rs:32).
SpareKeycodesRotate ==
    MaxKeycode - MinKeycode + 1 >= POOL =>
        \A i, j \in 1..Len(typed) :
            0 < j - i /\ j - i < POOL /\ typed[j][3] - typed[i][3] = j - i
                => typed[i][2] # typed[j][2]

\* Typing follows the session and leaves each keycode its mapping long enough.
TypingSafe == TypedInSession /\ SpareKeycodesRotate
=============================================================================
