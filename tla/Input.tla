------------------------------- MODULE Input -------------------------------
(***************************************************************************)
(* Keyboard and mouse events of all connections on their way to the one    *)
(* uinput device: dispatch (server/input_handler.rs), the per-connection   *)
(* wrapper ConnectionScopedInput (rdpcore-server/src/input.rs), the shared *)
(* handler with its reference counts (bin/rdp_server.rs) and the device    *)
(* (kmsrdp/src/uinput.rs).                                                 *)
(*                                                                         *)
(* Keycodes and buttons have disjoint numbers in the kernel, so the two    *)
(* reference-count maps are one function; 0 stands for an absent entry.    *)
(* The shared handler's mutex makes every event one step. A write to the   *)
(* device may fail. Metrics and log lines are left out.                    *)
(***************************************************************************)
EXTENDS Integers, FiniteSets

CONSTANTS
    InputConn,      \* connections
    InputScancode,  \* <<code, extended>> pairs
    Repertoire,     \* the events the clients of a behaviour use: records of the
                    \* sets keys, buttons (LEFT, RIGHT, MIDDLE), positions,
                    \* wheel (low bytes) and sizes of the desktop
    MaxCount        \* bound on a reference count

ASSUME InputAssumption ==
    /\ IsFiniteSet(InputConn) /\ IsFiniteSet(InputScancode)
    /\ InputScancode \subseteq (0..255) \X BOOLEAN
    /\ Repertoire \subseteq [keys : SUBSET InputScancode, buttons : SUBSET {"LEFT", "RIGHT", "MIDDLE"},
                             positions : SUBSET (Nat \X Nat), wheel : SUBSET (0..255),
                             sizes : SUBSET ((Nat \ {0}) \X (Nat \ {0}))]
    /\ MaxCount \in Nat \ {0}

VARIABLES
    repertoire,
    input_open,         \* connections in their steady state
    pressed_keys,       \* ConnectionScopedInput.pressed_keys
    pressed_buttons,    \* ConnectionScopedInput.pressed_buttons
    counts,             \* Input.pressed_keys and Input.pressed_buttons
    device,             \* keycodes and buttons the kernel reports down
    destroyed,          \* VirtualInput.destroyed
    mouse_scale,        \* the desktop size pointer positions are scaled by
    motion,             \* the last position or wheel steps emitted
    failed,             \* history: codes whose last write failed
    stray,              \* history: codes released by a connection not holding them
    doubled             \* history: buttons pressed again while held

inputVars == <<repertoire, input_open, pressed_keys, pressed_buttons, counts, device, destroyed,
               mouse_scale, motion, failed, stray, doubled>>

----------------------------------------------------------------------------
(* Translation *)

NoKeycode == -1
POINTER_MAX == 32767
Button == {272, 273, 274}       \* BTN_LEFT, BTN_RIGHT, BTN_MIDDLE

BaseKeys == {<<121, 92>>, <<123, 94>>, <<112, 93>>, <<119, 85>>, <<115, 89>>,
             <<125, 124>>, <<84, 99>>}

ExtendedKeys == {<<29, 97>>, <<56, 100>>, <<28, 96>>, <<53, 98>>, <<55, 99>>,
    <<70, 119>>, <<72, 103>>, <<75, 105>>, <<77, 106>>, <<80, 108>>, <<71, 102>>,
    <<79, 107>>, <<73, 104>>, <<81, 109>>, <<82, 110>>, <<83, 111>>, <<91, 125>>,
    <<92, 126>>, <<93, 127>>, <<32, 113>>, <<46, 114>>, <<48, 115>>, <<34, 164>>,
    <<36, 166>>, <<16, 165>>, <<25, 163>>, <<33, 140>>, <<95, 142>>}

linux_keycode_from_rdp_scancode(s) ==
    LET table == IF s[2] THEN ExtendedKeys ELSE BaseKeys
        hits  == {e \in table : e[1] = s[1]}
    IN  IF hits # {} THEN (CHOOSE e \in hits : TRUE)[2]
        ELSE IF s[2] THEN NoKeycode ELSE s[1]

Keycode == {linux_keycode_from_rdp_scancode(s) : s \in InputScancode} \ {NoKeycode}
Code    == Keycode \cup Button

\* The wheel's signed step out of the flags' low byte and sign bit.
WheelValue(raw, negative) == IF negative THEN raw - 256 ELSE raw

\* translate_mouse: the first flag that is set decides.
translate_mouse(flags, raw, pos) ==
    LET down == "DOWN" \in flags
        Click(b) == [kind |-> "button", code |-> b, down |-> down]
    IN  CASE "VERTICAL_WHEEL" \in flags \/ "HORIZONTAL_WHEEL" \in flags ->
                [kind |-> "wheel", value |-> WheelValue(raw, "WHEEL_NEGATIVE" \in flags)]
          [] OTHER ->
                IF "LEFT" \in flags THEN Click(272)
                ELSE IF "RIGHT" \in flags THEN Click(273)
                ELSE IF "MIDDLE" \in flags THEN Click(274)
                ELSE [kind |-> "move", pos |-> pos]

\* rel_wheel: whole notches, or one step in the direction of a smaller turn.
rel_wheel(delta) ==
    LET abs  == IF delta < 0 THEN -delta ELSE delta
        sign == IF delta < 0 THEN -1 ELSE 1
    IN  IF delta = 0 THEN 0 ELSE IF abs >= 120 THEN sign * (abs \div 120) ELSE sign

\* move_abs: the fraction of the desktop, clamped, on the device's axis.
move_abs(x, size) ==
    IF x >= size THEN POINTER_MAX ELSE (POINTER_MAX * x) \div size

----------------------------------------------------------------------------
(* The reference counts and the device *)

\* inject_held, m times for each code: a press counts up and is written when it
\* is the first; a release of the last hold, or of none, is written.
Press(k)     == [counts EXCEPT ![k] = @ + 1]
PressWrites(k) == IF counts[k] = 0 THEN {k} ELSE {}
Release(m)   == [k \in Code |-> IF counts[k] > m[k] THEN counts[k] - m[k] ELSE 0]
ReleaseWrites(m) == {k \in Code : m[k] > 0 /\ counts[k] <= m[k]}

Once(k) == [j \in Code |-> IF j = k THEN 1 ELSE 0]

\* emit: the writes of one event, of which those to `bad` fail.
emit(down, writes, bad) ==
    /\ bad \subseteq writes
    /\ destroyed => bad = writes
    /\ device' = IF down THEN device \cup (writes \ bad) ELSE device \ (writes \ bad)
    /\ failed' = (failed \ writes) \cup bad

----------------------------------------------------------------------------
(* The events *)

Connect(c) ==
    /\ c \notin input_open
    /\ input_open' = input_open \cup {c}
    /\ UNCHANGED <<pressed_keys, pressed_buttons, counts, device, destroyed,
                   mouse_scale, motion, failed, stray, doubled>>

\* Codes that stay in a history once nobody holds them any more are settled.
Holds(keys, buttons, k) ==
    \E c \in InputConn : \/ k \in buttons[c]
                         \/ \E s \in keys[c] : linux_keycode_from_rdp_scancode(s) = k

Settle(codes, keys, buttons) == {k \in codes : Holds(keys, buttons, k)}

\* Mistake: repeats of a held key are forwarded too.
EveryPress(c, s) == TRUE

\* Pressed: only the first of a hold is forwarded, for repeats carry no event of
\* their own.
FirstPress(c, s) == s \notin pressed_keys[c]

KeyPressed(c, s) ==
    LET k == linux_keycode_from_rdp_scancode(s)
        forward == FirstPress(c, s) /\ k # NoKeycode
    IN  /\ c \in input_open
        /\ pressed_keys' = [pressed_keys EXCEPT ![c] = @ \cup {s}]
        /\ IF forward
           THEN /\ counts' = Press(k)
                /\ \E bad \in SUBSET {k} : emit(TRUE, PressWrites(k), bad)
           ELSE UNCHANGED <<counts, device, failed>>
        /\ UNCHANGED <<input_open, pressed_buttons, destroyed, mouse_scale, motion,
                       stray, doubled>>

\* Released: always forwarded, held by this connection or not.
KeyReleased(c, s) ==
    LET k == linux_keycode_from_rdp_scancode(s)
        keys == [pressed_keys EXCEPT ![c] = @ \ {s}]
    IN  /\ c \in input_open
        /\ pressed_keys' = keys
        /\ IF k # NoKeycode
           THEN /\ counts' = Release(Once(k))
                /\ \E bad \in SUBSET {k} : emit(FALSE, ReleaseWrites(Once(k)), bad)
                /\ stray' = Settle(stray \cup IF s \in pressed_keys[c] THEN {} ELSE {k},
                                   keys, pressed_buttons)
           ELSE UNCHANGED <<counts, device, failed, stray>>
        /\ UNCHANGED <<input_open, pressed_buttons, destroyed, mouse_scale, motion,
                       doubled>>

\* A button event is tracked, and forwarded every time.
ButtonEvent(c, k, down) ==
    LET buttons == [pressed_buttons EXCEPT ![c] = IF down THEN @ \cup {k} ELSE @ \ {k}]
        held == k \in pressed_buttons[c]
    IN  /\ down => counts[k] < MaxCount
        /\ pressed_buttons' = buttons
        /\ counts' = IF down THEN Press(k) ELSE Release(Once(k))
        /\ \E bad \in SUBSET {k} :
              emit(down, IF down THEN PressWrites(k) ELSE ReleaseWrites(Once(k)), bad)
        /\ stray' = IF down \/ held THEN Settle(stray, pressed_keys, buttons)
                                    ELSE Settle(stray \cup {k}, pressed_keys, buttons)
        /\ doubled' = IF down /\ held THEN doubled \cup {k} ELSE doubled
        /\ UNCHANGED <<pressed_keys, mouse_scale, motion>>

\* A pointer move scales by the desktop size of the moment.
MoveEvent(pos) ==
    /\ motion' = <<move_abs(pos[1], mouse_scale[1]), move_abs(pos[2], mouse_scale[2])>>
    /\ UNCHANGED <<pressed_keys, pressed_buttons, counts, device, mouse_scale,
                   failed, stray, doubled>>

WheelEvent(delta) ==
    /\ motion' = IF delta = 0 THEN motion ELSE <<rel_wheel(delta)>>
    /\ UNCHANGED <<pressed_keys, pressed_buttons, counts, device, mouse_scale,
                   failed, stray, doubled>>

MouseEvent(c, flags, raw, pos) ==
    LET event == translate_mouse(flags, raw, pos)
    IN  /\ c \in input_open
        /\ \/ event.kind = "button" /\ ButtonEvent(c, event.code, event.down)
           \/ event.kind = "move" /\ MoveEvent(event.pos)
           \/ event.kind = "wheel" /\ WheelEvent(event.value)
        /\ UNCHANGED <<input_open, destroyed>>

\* The display hub sets the scale when the desktop changes size.
ScaleChange(size) ==
    /\ mouse_scale' = size
    /\ UNCHANGED <<input_open, pressed_keys, pressed_buttons, counts, device, destroyed,
                   motion, failed, stray, doubled>>

\* How many holds of each code a connection has.
HoldsOf(c) ==
    [k \in Code |-> Cardinality({s \in pressed_keys[c] :
                                     linux_keycode_from_rdp_scancode(s) = k})
                    + Cardinality({b \in pressed_buttons[c] : b = k})]

\* ResetInputOnDrop: the connection ends, on whatever path, and lets go of what it
\* holds, of nothing else.
Reset(c) ==
    LET m == HoldsOf(c)
        keys    == [pressed_keys EXCEPT ![c] = {}]
        buttons == [pressed_buttons EXCEPT ![c] = {}]
    IN  /\ c \in input_open
        /\ input_open' = input_open \ {c}
        /\ pressed_keys' = keys
        /\ pressed_buttons' = buttons
        /\ counts' = Release(m)
        /\ \E bad \in SUBSET ReleaseWrites(m) : emit(FALSE, ReleaseWrites(m), bad)
        /\ stray' = Settle(stray, keys, buttons)
        /\ UNCHANGED <<destroyed, mouse_scale, motion, doubled>>

\* SharedInput::shutdown: every code still counted is let go, then the device is
\* destroyed; what connections send before the process exits is lost.
Shutdown ==
    LET writes == {k \in Code : counts[k] > 0}
    IN  /\ ~destroyed
        /\ counts' = [k \in Code |-> 0]
        /\ \E bad \in SUBSET writes : emit(FALSE, writes, bad)
        /\ destroyed' = TRUE
        /\ stray' = Code
        /\ UNCHANGED <<input_open, pressed_keys, pressed_buttons, mouse_scale, motion,
                       doubled>>

InputInit ==
    /\ repertoire \in Repertoire
    /\ input_open = {} /\ device = {} /\ destroyed = FALSE
    /\ pressed_keys = [c \in InputConn |-> {}]
    /\ pressed_buttons = [c \in InputConn |-> {}]
    /\ counts = [k \in Code |-> 0]
    /\ mouse_scale \in repertoire.sizes
    /\ motion = <<0, 0>>
    /\ failed = {} /\ stray = {} /\ doubled = {}

\* What clients send: scancodes down and up, buttons down and up, wheel turns
\* either way, moves. Fast-Path synchronise events change nothing.
PointerInputs ==
    {<<{b} \cup d, 0, <<0, 0>>>> : b \in repertoire.buttons, d \in {{}, {"DOWN"}}}
        \cup {<<{}, 0, pos>> : pos \in repertoire.positions}
        \cup {<<{"VERTICAL_WHEEL"} \cup n, raw, <<0, 0>>>> :
                 n \in {{}, {"WHEEL_NEGATIVE"}}, raw \in repertoire.wheel}

InputNext ==
    /\ UNCHANGED repertoire
    /\ \/ \E c \in InputConn : Connect(c) \/ Reset(c)
       \/ \E c \in InputConn, s \in repertoire.keys : KeyPressed(c, s) \/ KeyReleased(c, s)
       \/ \E c \in InputConn, i \in PointerInputs : MouseEvent(c, i[1], i[2], i[3])
       \/ \E size \in repertoire.sizes : ScaleChange(size)
       \/ Shutdown

InputSpec == InputInit /\ [][InputNext]_inputVars

----------------------------------------------------------------------------
(* Properties *)

\* The type invariant: reference counts stay within their bound, a position is on
\* the device's axes even when the desktop has just shrunk, and no wheel byte is
\* more than two notches.
InputTypeOK ==
    /\ input_open \subseteq InputConn /\ destroyed \in BOOLEAN
    /\ pressed_keys \in [InputConn -> SUBSET InputScancode]
    /\ pressed_buttons \in [InputConn -> SUBSET Button]
    /\ counts \in [Code -> 0..(MaxCount + Cardinality(InputConn) * Cardinality(InputScancode))]
    /\ device \subseteq Code /\ failed \subseteq Code /\ stray \subseteq Code
    /\ doubled \subseteq Button
    /\ mouse_scale \in repertoire.sizes
    /\ motion \in (0..POINTER_MAX) \X (0..POINTER_MAX) \/ motion \in {<<n>> : n \in -2..2}

\* No key or button stays down once no connection holds it, however repeats, other
\* connections' events and disconnects interleave (inject_held, input.rs reset);
\* but for one whose release the kernel refused, and for a button that was pressed
\* twice in one hold, which ConnectionScopedInput counts twice.
NoStuckKey ==
    \A k \in device : k \in failed \cup doubled
                      \/ Holds(pressed_keys, pressed_buttons, k)

\* A key or button some connection holds is down at the device: neither the end of
\* another connection nor another key with the same keycode lets go of it. The
\* exceptions: the kernel refused the press, a connection released what it did
\* not hold (which input.rs:98 forwards), or the server is shutting down.
HoldKept ==
    \A k \in Code \ (failed \cup stray) :
        Holds(pressed_keys, pressed_buttons, k) => k \in device

\* What is down at the device is what connections hold, no more and no less, and
\* everything written to it is within its axes and counts.
HoldsExact == InputTypeOK /\ NoStuckKey /\ HoldKept
=============================================================================
