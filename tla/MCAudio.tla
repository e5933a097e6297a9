------------------------------ MODULE MCAudio ------------------------------
(***************************************************************************)
(* What must not be late, for TLC: the whole audio path with a client that *)
(* keeps to the protocol, the channel alone with one that confirms         *)
(* whatever it likes, the scheduler under any caller, and keyboard and     *)
(* mouse. They are separate behaviours, chosen at the start (`focus`).     *)
(***************************************************************************)
EXTENDS AudioPath, RoundRobin, Input

CONSTANTS
    io, rdpsnd, drdynvc, frame,
    Focuses         \* the parts a run looks at

VARIABLE focus

MCChannel == {io, rdpsnd, drdynvc}
MCBytes   == {frame}

\* Two scancodes with one keycode, one without any; clicks, moves beyond
\* the desktop and wheel turns.
MCScancode == {<<84, FALSE>>, <<55, TRUE>>, <<1, TRUE>>}

Uses(keys, buttons, positions, wheel, sizes) ==
    [keys |-> keys, buttons |-> buttons, positions |-> positions, wheel |-> wheel,
     sizes |-> sizes]

MCRepertoire ==
    {Uses({<<84, FALSE>>, <<55, TRUE>>}, {"LEFT"}, {}, {}, {<<4, 4>>}),
     Uses({<<84, FALSE>>, <<1, TRUE>>}, {}, {}, {}, {<<4, 4>>}),
     Uses({}, {"LEFT"}, {<<3, 9>>, <<1, 2>>}, {0, 119, 120, 136}, {<<4, 4>>, <<2, 4>>})}

AudioAndInputInit ==
    /\ focus \in Focuses
    /\ Init
    /\ AudioInit
    /\ focus # "path" => ~AckOnReceive
    /\ InputInit
    /\ focus # "input" => mouse_scale = <<4, 4>> /\ repertoire.keys = {}

AudioAndInputNext ==
    /\ UNCHANGED focus
    /\ \/ focus = "path" /\ AudioNext /\ UNCHANGED <<rrVars, inputVars>>
       \/ focus = "channel" /\ RdpsndNext /\ UNCHANGED <<pathVars, rrVars, inputVars>>
       \/ focus = "scheduler" /\ Next /\ UNCHANGED <<audioVars, inputVars>>
       \/ focus = "input" /\ InputNext /\ UNCHANGED <<audioVars, rrVars>>

AudioAndInputSpec ==
    /\ AudioAndInputInit
    /\ [][AudioAndInputNext]_<<focus, audioVars, rrVars, inputVars>>
=============================================================================
