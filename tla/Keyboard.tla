---------------------------- MODULE Keyboard ----------------------------
(***************************************************************************)
(* kbd_proc_data of lab/kern/console.c: one scan code per call, decoded    *)
(* with the modifier flags that earlier calls left in `shift`.  A key may  *)
(* take one to six codes, and nothing but the flags ties them together.    *)
(*                                                                         *)
(* The keyboard itself is not under src/: the codes below are those of     *)
(* set 1, which the tables of console.c assume, for one key of each kind.  *)
(* A code of the queue carries, for the properties, the event it ends.     *)
(***************************************************************************)
EXTENDS Integers, Sequences, FiniteSets

CONSTANTS
    Keys,           \* keys of the keyboard
    MaxHeld,        \* bound: keys held down at once
    ControllerCap   \* bound: an event is lost when as many codes wait to be read

NO == "NO"
E0 == \hE0
E1 == \hE1

(* The keyboard. *)
Plain == [a |-> \h1E, one |-> \h02, enter |-> \h1C, keypadDot |-> \h53,
          leftCtrl |-> \h1D, leftShift |-> \h2A, rightShift |-> \h36,
          leftAlt |-> \h38, capsLock |-> \h3A]
Gray  == [home |-> \h47, delete |-> \h53, keypadEnter |-> \h1C,
          rightCtrl |-> \h1D, rightAlt |-> \h38]
Navigation == {"home", "delete"}

KeysOf == [SHIFT |-> {"leftShift", "rightShift"}, CTL |-> {"leftCtrl", "rightCtrl"},
           ALT |-> {"leftAlt", "rightAlt"}]
Modifiers == DOMAIN KeysOf
ModifierOf(k) == {f \in Modifiers : k \in KeysOf[f]}

Flags == Modifiers \cup {"CAPSLOCK", "NUMLOCK", "E0ESC"}

ASSUME KeysAssumption == Keys \subseteq DOMAIN Plain \cup DOMAIN Gray \cup {"pause"}
ASSUME BoundsAssumption == MaxHeld \in Nat /\ ControllerCap \in Nat \ {0}

VARIABLES
    held,       \* the keys that are down
    typematic,  \* the key that repeats, or NO
    scancodes,  \* what is to be read: [code, event]
    lost,       \* history: the keyboard had no room for the codes of an event
    shift,      \* the static of kbd_proc_data: a set of flags
    result,     \* what kbd_proc_data returned last: a character, or NO for 0
    rebooting,  \* the reset line was pulled
    active,     \* history: modifiers whose last event was a press
    caps,       \* history: CapsLock was pressed an odd number of times
    mid         \* history: the last code read did not end an event

keyboard == <<held, typematic>>
history  == <<active, caps, mid>>
kbdVars == <<keyboard, scancodes, lost, shift, result, rebooting, history>>

KbdInit ==
    /\ held \in {S \in SUBSET Keys : Cardinality(S) <= MaxHeld}
    /\ typematic = NO
    /\ scancodes = <<>>
    /\ lost = FALSE
    /\ shift = {}
    /\ result = NO
    /\ rebooting = FALSE
    /\ active = {} /\ caps = FALSE /\ mid = FALSE

---------------------------------------------------------------------------
(* The keyboard.  A gray key sends E0 before its code, and cancels a shift *)
(* key that is held with a release and a press of its own; Pause sends all *)
(* its codes when it is pressed.                                           *)

Event(k, down) == [key |-> k, down |-> down]
Partial == Event(NO, FALSE)

HeldShifts == (IF "leftShift" \in held THEN <<\h2A>> ELSE <<>>)
                \o (IF "rightShift" \in held THEN <<\h36>> ELSE <<>>)
Escaped(codes) == [i \in 1 .. 2 * Len(codes) |-> IF i % 2 = 1 THEN E0 ELSE codes[i \div 2]]
Broken(codes)  == [i \in DOMAIN codes |-> codes[i] + \h80]

CancelShift(k)  == IF k \in Navigation THEN Escaped(Broken(HeldShifts)) ELSE <<>>
RestoreShift(k) == IF k \in Navigation THEN Escaped(HeldShifts) ELSE <<>>

PressCodes(k) ==
    CASE k \in DOMAIN Plain -> <<Plain[k]>>
      [] k \in DOMAIN Gray  -> CancelShift(k) \o <<E0, Gray[k]>>
      [] k = "pause"        -> IF held \cap KeysOf.CTL = {}
                               THEN <<E1, \h1D, \h45, E1, \h9D, \hC5>>
                               ELSE <<E0, \h46, E0, \hC6>>      \* Break
RepeatCodes(k)  == IF k \in DOMAIN Plain THEN <<Plain[k]>> ELSE <<E0, Gray[k]>>
ReleaseCodes(k) ==
    CASE k \in DOMAIN Plain -> <<Plain[k] + \h80>>
      [] k \in DOMAIN Gray  -> <<E0, Gray[k] + \h80>> \o RestoreShift(k)
      [] k = "pause"        -> <<>>

\* The codes of an event are queued or lost all together.
Send(codes, event) ==
    LET sent == [i \in DOMAIN codes |->
                    [code |-> codes[i], event |-> IF i = Len(codes) THEN event ELSE Partial]]
    IN  IF Len(scancodes) < ControllerCap
        THEN scancodes' = scancodes \o sent /\ UNCHANGED lost
        ELSE lost' = TRUE /\ UNCHANGED scancodes

PressKey(k) ==
    /\ k \notin held
    /\ Cardinality(held) < MaxHeld
    /\ held' = held \cup {k}
    /\ typematic' = IF k = "pause" THEN NO ELSE k
    /\ Send(PressCodes(k), Event(k, TRUE))
    /\ UNCHANGED <<shift, result, rebooting, history>>

RepeatKey ==
    /\ typematic # NO
    /\ Send(RepeatCodes(typematic), Event(typematic, TRUE))
    /\ UNCHANGED <<keyboard, shift, result, rebooting, history>>

ReleaseKey(k) ==
    /\ k \in held
    /\ held' = held \ {k}
    /\ typematic' = IF k = typematic THEN NO ELSE typematic
    /\ Send(ReleaseCodes(k), Event(k, FALSE))
    /\ UNCHANGED <<shift, result, rebooting, history>>

---------------------------------------------------------------------------
(* The tables of console.c, for the codes above. *)

shiftcode(data) ==
    CASE data \in {\h1D, \h9D} -> {"CTL"}
      [] data \in {\h2A, \h36} -> {"SHIFT"}
      [] data \in {\h38, \hB8} -> {"ALT"}
      [] OTHER -> {}

togglecode(data) ==
    CASE data = \h3A -> {"CAPSLOCK"}
      [] data = \h45 -> {"NUMLOCK"}
      [] OTHER -> {}

normalmap(data) ==
    CASE data = \h1E -> "a"   [] data = \h02 -> "1"   [] data = \h53 -> "."
      [] data \in {\h1C, \h9C} -> "\n"
      [] data = \hC7 -> "KEY_HOME"   [] data = \hD3 -> "KEY_DEL"
      [] OTHER -> NO

shiftmap(data) ==
    CASE data = \h1E -> "A"   [] data = \h02 -> "!"   [] OTHER -> normalmap(data)

ctlmap(data) ==
    CASE data = \h1E -> "^A"  [] data = \h1C -> "\r"
      [] data = \h97 -> "KEY_HOME"   [] data = \hD3 -> "KEY_DEL"
      [] OTHER -> NO

charcode(flags, data) ==
    CASE "CTL" \in flags -> ctlmap(data)
      [] "CTL" \notin flags /\ "SHIFT" \in flags -> shiftmap(data)
      [] OTHER -> normalmap(data)

Recase(c) == CASE c = "a" -> "A"  [] c = "A" -> "a"  [] OTHER -> c

---------------------------------------------------------------------------
(* kbd_proc_data; with nothing to read it returns -1 and changes nothing.  *)

Code == Head(scancodes).code
Ends(k, down) == Head(scancodes).event = Event(k, down)

ReadCode ==
    /\ scancodes # <<>>
    /\ ~rebooting
    /\ scancodes' = Tail(scancodes)
    /\ mid' = (Head(scancodes).event = Partial)
    /\ active' = IF Head(scancodes).event.down
                 THEN active \cup ModifierOf(Head(scancodes).event.key)
                 ELSE active \ ModifierOf(Head(scancodes).event.key)
    /\ caps' = (caps # Ends("capsLock", TRUE))
    /\ UNCHANGED <<keyboard, lost>>

EscapeCode ==
    /\ ReadCode
    /\ Code = E0
    /\ shift' = shift \cup {"E0ESC"}
    /\ result' = NO
    /\ UNCHANGED rebooting

\* Mutant: the code of a released key loses its top bit, escaped or not.
KeyReleasedMasked ==
    /\ ReadCode
    /\ Code >= \h80 /\ Code # E0
    /\ shift' = shift \ (shiftcode(Code - \h80) \cup {"E0ESC"})
    /\ result' = NO
    /\ UNCHANGED rebooting

KeyReleased ==
    /\ ReadCode
    /\ Code >= \h80 /\ Code # E0
    /\ LET data == IF "E0ESC" \in shift THEN Code ELSE Code - \h80
       IN  shift' = shift \ (shiftcode(data) \cup {"E0ESC"})
    /\ result' = NO
    /\ UNCHANGED rebooting

Toggled(flags, locks) == (flags \ locks) \cup (locks \ flags)

\* Mutant: the escape stays in force after the code it belongs to.
KeyPressedKeepsEscape ==
    /\ ReadCode
    /\ Code < \h80
    /\ LET data  == IF "E0ESC" \in shift THEN Code + \h80 ELSE Code
           flags == Toggled(shift \cup shiftcode(data), togglecode(data))
           c == charcode(flags, data)
       IN  /\ shift' = flags
           /\ result' = IF "CAPSLOCK" \in flags THEN Recase(c) ELSE c
           /\ rebooting' = ({"CTL", "ALT"} \subseteq flags /\ c = "KEY_DEL")

\* Mutant: Ctrl or Alt is enough to reboot.
KeyPressedEither ==
    /\ ReadCode
    /\ Code < \h80
    /\ LET data  == IF "E0ESC" \in shift THEN Code + \h80 ELSE Code
           flags == Toggled((shift \ {"E0ESC"}) \cup shiftcode(data), togglecode(data))
           c == charcode(flags, data)
       IN  /\ shift' = flags
           /\ result' = IF "CAPSLOCK" \in flags THEN Recase(c) ELSE c
           /\ rebooting' = ({"CTL", "ALT"} \cap flags # {} /\ c = "KEY_DEL")

KeyPressed ==
    /\ ReadCode
    /\ Code < \h80
    /\ LET data  == IF "E0ESC" \in shift THEN Code + \h80 ELSE Code
           flags == Toggled((shift \ {"E0ESC"}) \cup shiftcode(data), togglecode(data))
           c == charcode(flags, data)
       IN  /\ shift' = flags
           /\ result' = IF "CAPSLOCK" \in flags THEN Recase(c) ELSE c
           /\ rebooting' = ({"CTL", "ALT"} \subseteq flags /\ c = "KEY_DEL")

\* The machine starts again, whatever keys are still down: what the keyboard
\* had queued is gone and the kernel's statics are zero.
Reset ==
    /\ rebooting
    /\ scancodes' = <<>>
    /\ shift' = {}
    /\ result' = NO
    /\ rebooting' = FALSE
    /\ active' = {} /\ caps' = FALSE /\ mid' = FALSE
    /\ UNCHANGED <<keyboard, lost>>

User == RepeatKey \/ \E k \in Keys : PressKey(k) \/ ReleaseKey(k)
KbdProcData == EscapeCode \/ KeyReleased \/ KeyPressed

KbdNext == User \/ KbdProcData \/ Reset

KbdSpec == KbdInit /\ [][KbdNext]_kbdVars

---------------------------------------------------------------------------
\* Types; an escape never outlives the event it is part of.
KbdTypeOK ==
    /\ held \subseteq Keys /\ typematic \in held \cup {NO}
    /\ scancodes \in Seq([code : 0 .. 255, event : [key : Keys \cup {NO}, down : BOOLEAN]])
    /\ shift \subseteq Flags
    /\ "E0ESC" \in shift => mid
    /\ result \in {NO, "a", "A", "^A", "1", "!", ".", "\n", "\r", "KEY_HOME", "KEY_DEL"}
    /\ rebooting \in BOOLEAN /\ lost \in BOOLEAN

\* Between two events the flags are what the keys say: a modifier is on from
\* a press of either of its keys to a release of either, CapsLock changes
\* with every code of its key, and nothing else touches them: not the shift
\* codes that gray keys send along, and not the Ctrl that Pause sends (that
\* one repairs a Ctrl whose release was lost).
ModifiersFollowKeys ==
    ~mid => /\ "CAPSLOCK" \in shift <=> caps
            /\ shift \cap Modifiers \subseteq active
            /\ ~lost => active \subseteq shift

\* What a key stands for, alone, with Shift and with Ctrl.  (Ctrl and Home
\* give nothing: in ctlmap KEY_HOME stands at 0x97, a code no key sends.)
Meaning ==
    [a |-> <<"a", "A", "^A">>, one |-> <<"1", "!", NO>>,
     enter |-> <<"\n", "\n", "\r">>, keypadEnter |-> <<"\n", "\n", NO>>,
     keypadDot |-> <<".", ".", NO>>, home |-> <<"KEY_HOME", "KEY_HOME", NO>>,
     delete |-> <<"KEY_DEL", "KEY_DEL", "KEY_DEL">>]

Typed(k) ==
    LET c == Meaning[k][CASE "CTL" \in active -> 3
                          [] "CTL" \notin active /\ "SHIFT" \in active -> 2
                          [] OTHER -> 1]
    IN  IF caps THEN Recase(c) ELSE c

\* Every press or repeat of a key returns its character for the modifiers in
\* force, and no other code returns any: a gray key is never taken for the
\* plain key of the same code, nor the other way round.  (Lost codes apart.)
CharsFollowKeys ==
    [][KbdProcData /\ ~lost =>
        result' = IF Head(scancodes).event.down /\ Head(scancodes).event.key \in DOMAIN Meaning
                  THEN Typed(Head(scancodes).event.key) ELSE NO]_kbdVars

\* The machine is reset by the Delete key while Ctrl and Alt are on, by
\* nothing else, and again only when Delete is pressed again.
RebootsOnCtrlAltDelete ==
    [][KbdProcData /\ ~lost =>
        (rebooting' <=> Ends("delete", TRUE) /\ {"CTL", "ALT"} \subseteq active)]_kbdVars
=========================================================================
