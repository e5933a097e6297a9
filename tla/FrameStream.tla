----------------------------- MODULE FrameStream -----------------------------
(***************************************************************************)
(* What a connection's outgoing half promises its producers, without the   *)
(* inboxes, the scheduler or the writer's loop: frames of one channel and  *)
(* priority go out once each, in the order they were accepted; the live    *)
(* slot holds at most one wave, the latest; a wave goes out unbroken; and  *)
(* the stream ends by itself only when it has written all it accepted.     *)
(***************************************************************************)
EXTENDS Naturals, Sequences

CONSTANTS Channel, Priority, Item, Wave

VARIABLES
    fifo,   \* per channel and priority, the frames accepted and not yet taken
    slot,   \* the wave waiting, <<>> when there is none
    out,    \* what is being written
    open    \* the stream has not ended

streamVars == <<fifo, slot, out, open>>

Class == Channel \X Priority

Init ==
    /\ fifo = [c \in Class |-> <<>>]
    /\ slot = <<>>
    /\ out = <<>>
    /\ open = TRUE

Accept(c, item) ==
    /\ open
    /\ fifo' = [fifo EXCEPT ![c] = Append(@, item)]
    /\ UNCHANGED <<slot, out, open>>

Publish(wave) ==
    /\ slot' = wave
    /\ UNCHANGED <<fifo, out, open>>

Take(c) ==
    /\ open /\ out = <<>>
    /\ fifo[c] # <<>>
    /\ out' = <<Head(fifo[c])>>
    /\ fifo' = [fifo EXCEPT ![c] = Tail(@)]
    /\ UNCHANGED <<slot, open>>

TakeWave ==
    /\ open /\ out = <<>>
    /\ slot # <<>>
    /\ out' = slot
    /\ slot' = <<>>
    /\ UNCHANGED <<fifo, open>>

Written ==
    /\ open /\ out # <<>>
    /\ out' = Tail(out)
    /\ UNCHANGED <<fifo, slot, open>>

\* The socket failed in the middle of a write.
Break ==
    /\ open /\ out # <<>>
    /\ open' = FALSE
    /\ UNCHANGED <<fifo, slot, out>>

Finish ==
    /\ open /\ out = <<>> /\ slot = <<>>
    /\ \A c \in Class : fifo[c] = <<>>
    /\ open' = FALSE
    /\ UNCHANGED <<fifo, slot, out>>

Next ==
    \/ \E c \in Class, item \in Item : Accept(c, item)
    \/ \E wave \in Wave : Publish(wave)
    \/ \E c \in Class : Take(c)
    \/ TakeWave \/ Written \/ Break \/ Finish

Spec == Init /\ [][Next]_streamVars
=============================================================================
