--------------------------- MODULE ConsoleProofs ---------------------------
(***************************************************************************)
(* Proofs about console.c.  First the decoder (Keyboard) against the       *)
(* keyboard, for any number of codes that wait to be read.  What it keeps  *)
(* between two calls, the flags, says neither where in an event it is nor  *)
(* what is still to come; the proof does, by giving every code of the      *)
(* queue its place in its event.  Then the ring of cons_intr and           *)
(* cons_getc (ConsoleInput), for every ring size, every capacity of the    *)
(* keyboard controller and every amount of input.                          *)
(***************************************************************************)
EXTENDS Keyboard, ConsoleInput, TLAPS


---------------------------------------------------------------------------
(* The inductive invariant. *)

\* Where the decoder is before it reads a code: between two events, after an
\* escape, within an event that goes on with another escape, or so many codes
\* into the ones that Pause sends.
Places == {"between", "escaped", "within",
           "pause1", "pause2", "pause3", "pause4", "pause5"}

Press(k)   == Event(k, TRUE)
Release(k) == Event(k, FALSE)
Cell(c, e) == [code |-> c, event |-> e]

ShiftCodes == {\h2A, \h36}

\* Codes that gray keys send along after an escape.
SilentCodes == {\hAA, \hB6, \h2A, \h36, \h46, \hC7, \hD3}

\* The code of `cell`, read at q, leads to r.
PlainMove(q, cell, r) ==
    /\ q = "between" /\ r = "between"
    /\ \E k \in DOMAIN Plain : \/ cell = Cell(Plain[k], Press(k))
                               \/ cell = Cell(Plain[k] + \h80, Release(k))
EscapeMove(q, cell, r) ==
    q \in {"between", "within"} /\ r = "escaped" /\ cell = Cell(E0, Partial)
SilentMove(q, cell, r) ==
    q = "escaped" /\ r = "within" /\ \E c \in SilentCodes : cell = Cell(c, Partial)
GrayMove(q, cell, r) ==
    /\ q = "escaped" /\ r = "between"
    /\ \E k \in DOMAIN Gray : \/ cell = Cell(Gray[k], Press(k))
                              \/ cell = Cell(Gray[k] + \h80, Release(k))
ClosingMove(q, cell, r) ==
    /\ q = "escaped" /\ r = "between"
    /\ \/ \E k \in Navigation, c \in ShiftCodes : cell = Cell(c, Release(k))
       \/ cell = Cell(\hC6, Press("pause"))
PauseMove(q, cell, r) ==
    \/ q = "between" /\ cell = Cell(E1, Partial) /\ r = "pause1"
    \/ q = "pause1" /\ cell = Cell(\h1D, Partial) /\ r = "pause2"
    \/ q = "pause2" /\ cell = Cell(\h45, Partial) /\ r = "pause3"
    \/ q = "pause3" /\ cell = Cell(E1, Partial) /\ r = "pause4"
    \/ q = "pause4" /\ cell = Cell(\h9D, Partial) /\ r = "pause5"
    \/ q = "pause5" /\ cell = Cell(\hC5, Press("pause")) /\ r = "between"
Moves(q, cell, r) ==
    \/ PlainMove(q, cell, r) \/ EscapeMove(q, cell, r) \/ SilentMove(q, cell, r)
    \/ GrayMove(q, cell, r) \/ ClosingMove(q, cell, r) \/ PauseMove(q, cell, r)

\* The codes `cells`, read one after the other, lead from q to the end of an event.
Leads(q, cells) ==
    \E p \in [1 .. Len(cells) + 1 -> Places] :
        /\ p[1] = q /\ p[Len(cells) + 1] = "between"
        /\ \A i \in 1 .. Len(cells) : Moves(p[i], cells[i], p[i + 1])

Follows(f) ==
    /\ f \in shift => f \in active
    /\ ~lost => (f \in active => f \in shift)

\* The flags at place q.
Reading(q) ==
    /\ mid <=> q # "between"
    /\ "E0ESC" \in shift <=> q = "escaped"
    /\ "CAPSLOCK" \in shift <=> caps
    /\ Follows("ALT") /\ Follows("SHIFT")
    /\ q \in {"between", "escaped", "within", "pause1"} => Follows("CTL")
    /\ q \in {"pause2", "pause3", "pause4"} => "CTL" \in shift
    /\ q = "pause5" => "CTL" \notin shift
    /\ q \in {"pause1", "pause2", "pause3", "pause4", "pause5"} /\ ~lost => "CTL" \notin active

Place == \E q \in Places : Reading(q) /\ Leads(q, scancodes)

\* Ctrl is on once the first i - 1 codes of the queue are read.
CtlPressed(j)  == IF j = 0 THEN "CTL" \in active
                  ELSE scancodes[j].event.down /\ scancodes[j].event.key \in KeysOf.CTL
CtlReleased(j) == ~scancodes[j].event.down /\ scancodes[j].event.key \in KeysOf.CTL
CtlOn(i) == \E j \in 0 .. i - 1 : CtlPressed(j) /\ \A m \in j + 1 .. i - 1 : ~CtlReleased(m)

\* While no code was lost, Ctrl is on only with one of its keys down, and off
\* where Pause sends a press and a release of it.
Ctrl ==
    ~lost => /\ CtlOn(Len(scancodes) + 1) => held \cap KeysOf.CTL # {}
             /\ \A i \in 1 .. Len(scancodes) : scancodes[i].code = E1 => ~CtlOn(i)

Cells == [code : 0 .. 255, event : [key : Keys \cup {NO}, down : BOOLEAN]]
Chars == {NO, "a", "A", "^A", "1", "!", ".", "\n", "\r", "KEY_HOME", "KEY_DEL"}

Types ==
    /\ held \subseteq Keys /\ typematic \in (held \ {"pause"}) \cup {NO}
    /\ scancodes \in Seq(Cells)
    /\ shift \subseteq Flags
    /\ result \in Chars
    /\ rebooting \in BOOLEAN /\ lost \in BOOLEAN
    /\ active \subseteq Modifiers /\ caps \in BOOLEAN /\ mid \in BOOLEAN

Inv == Types /\ Place /\ Ctrl

---------------------------------------------------------------------------
(* The keys and the tables. *)

LEMMA PlainKeys ==
    /\ DOMAIN Plain = {"a", "one", "enter", "keypadDot", "leftCtrl", "leftShift",
                       "rightShift", "leftAlt", "capsLock"}
    /\ Plain["a"] = 30 /\ Plain["one"] = 2 /\ Plain["enter"] = 28
    /\ Plain["keypadDot"] = 83 /\ Plain["leftCtrl"] = 29 /\ Plain["leftShift"] = 42
    /\ Plain["rightShift"] = 54 /\ Plain["leftAlt"] = 56 /\ Plain["capsLock"] = 58
BY DEF Plain

LEMMA GrayKeys ==
    /\ DOMAIN Gray = {"home", "delete", "keypadEnter", "rightCtrl", "rightAlt"}
    /\ Gray["home"] = 71 /\ Gray["delete"] = 83 /\ Gray["keypadEnter"] = 28
    /\ Gray["rightCtrl"] = 29 /\ Gray["rightAlt"] = 56
BY DEF Gray

LEMMA ModifierKeys ==
    /\ Modifiers = {"SHIFT", "CTL", "ALT"}
    /\ KeysOf.SHIFT = {"leftShift", "rightShift"}
    /\ KeysOf.CTL = {"leftCtrl", "rightCtrl"} /\ KeysOf.ALT = {"leftAlt", "rightAlt"}
    /\ KeysOf["SHIFT"] = {"leftShift", "rightShift"}
    /\ KeysOf["CTL"] = {"leftCtrl", "rightCtrl"} /\ KeysOf["ALT"] = {"leftAlt", "rightAlt"}
BY DEF Modifiers, KeysOf

LEMMA ModifierOfKeys ==
    /\ \A k \in {"leftCtrl", "rightCtrl"} : ModifierOf(k) = {"CTL"}
    /\ \A k \in {"leftShift", "rightShift"} : ModifierOf(k) = {"SHIFT"}
    /\ \A k \in {"leftAlt", "rightAlt"} : ModifierOf(k) = {"ALT"}
    /\ \A k \in {"a", "one", "enter", "keypadDot", "capsLock", "home", "delete",
                 "keypadEnter", "pause", NO} : ModifierOf(k) = {}
<1>1. \A k, f : f \in ModifierOf(k) <=> f \in {"SHIFT", "CTL", "ALT"} /\ k \in KeysOf[f]
  BY ModifierKeys DEF ModifierOf
<1> QED
  BY <1>1, ModifierKeys DEF NO

\* A modifier is set and cleared by the codes of its keys, and by no other code.
LEMMA Shifts ==
    /\ \A k \in DOMAIN Plain : /\ shiftcode(Plain[k]) = ModifierOf(k)
                               /\ togglecode(Plain[k]) = IF k = "capsLock" THEN {"CAPSLOCK"} ELSE {}
    /\ \A k \in DOMAIN Gray : /\ shiftcode(Gray[k] + 128) = ModifierOf(k)
                              /\ togglecode(Gray[k] + 128) = {}
    /\ \A d \in {97, 69, 170, 182, 198, 199, 211} : shiftcode(d) = {}
    /\ \A d \in {170, 182, 198} : togglecode(d) = {}
    /\ shiftcode(29) = {"CTL"} /\ togglecode(29) = {} /\ togglecode(69) = {"NUMLOCK"}
<1>1. \A k \in DOMAIN Plain : /\ shiftcode(Plain[k]) = ModifierOf(k)
                              /\ togglecode(Plain[k]) = IF k = "capsLock" THEN {"CAPSLOCK"} ELSE {}
  BY PlainKeys, ModifierOfKeys DEF shiftcode, togglecode
<1>2. \A k \in DOMAIN Gray : /\ shiftcode(Gray[k] + 128) = ModifierOf(k)
                             /\ togglecode(Gray[k] + 128) = {}
  BY GrayKeys, ModifierOfKeys DEF shiftcode, togglecode
<1> QED
  BY <1>1, <1>2 DEF shiftcode, togglecode

\* What Meaning says of a key for a set of modifiers.
Means(k, S) ==
    IF k \in DOMAIN Meaning
    THEN Meaning[k][CASE "CTL" \in S -> 3
                      [] "CTL" \notin S /\ "SHIFT" \in S -> 2
                      [] OTHER -> 1]
    ELSE NO

LEMMA Meanings ==
    /\ DOMAIN Meaning = {"a", "one", "enter", "keypadEnter", "keypadDot", "home", "delete"}
    /\ Meaning["a"] = <<"a", "A", "^A">> /\ Meaning["one"] = <<"1", "!", NO>>
    /\ Meaning["enter"] = <<"\n", "\n", "\r">> /\ Meaning["keypadEnter"] = <<"\n", "\n", NO>>
    /\ Meaning["keypadDot"] = <<".", ".", NO>> /\ Meaning["home"] = <<"KEY_HOME", "KEY_HOME", NO>>
    /\ Meaning["delete"] = <<"KEY_DEL", "KEY_DEL", "KEY_DEL">>
BY DEF Meaning

\* The tables give every key its meaning, and the codes that gray keys and
\* Pause send along none.
LEMMA Characters ==
    ASSUME NEW S
    PROVE  /\ \A k \in DOMAIN Plain : charcode(S, Plain[k]) = Means(k, S)
           /\ \A k \in DOMAIN Gray : charcode(S, Gray[k] + 128) = Means(k, S)
           /\ \A d \in {29, 69, 170, 182, 198} : charcode(S, d) = NO
<1>1. CASE "CTL" \in S
  <2>1. \A d : charcode(S, d) = ctlmap(d)
    BY <1>1 DEF charcode
  <2>2. \A k : Means(k, S) = IF k \in DOMAIN Meaning THEN Meaning[k][3] ELSE NO
    BY <1>1 DEF Means
  <2>3. \A k \in DOMAIN Plain : ctlmap(Plain[k]) = Means(k, S)
    BY <2>2, PlainKeys, Meanings DEF ctlmap
  <2>4. \A k \in DOMAIN Gray : ctlmap(Gray[k] + 128) = Means(k, S)
    BY <2>2, GrayKeys, Meanings DEF ctlmap
  <2> QED
    BY <2>1, <2>3, <2>4 DEF ctlmap
<1>2. CASE "CTL" \notin S /\ "SHIFT" \in S
  <2>1. \A d : charcode(S, d) = shiftmap(d)
    BY <1>2 DEF charcode
  <2>2. \A k : Means(k, S) = IF k \in DOMAIN Meaning THEN Meaning[k][2] ELSE NO
    BY <1>2 DEF Means
  <2>3. \A k \in DOMAIN Plain : shiftmap(Plain[k]) = Means(k, S)
    BY <2>2, PlainKeys, Meanings DEF shiftmap, normalmap
  <2>4. \A k \in DOMAIN Gray : shiftmap(Gray[k] + 128) = Means(k, S)
    BY <2>2, GrayKeys, Meanings DEF shiftmap, normalmap
  <2> QED
    BY <2>1, <2>3, <2>4 DEF shiftmap, normalmap
<1>3. CASE "CTL" \notin S /\ "SHIFT" \notin S
  <2>1. \A d : charcode(S, d) = normalmap(d)
    BY <1>3 DEF charcode
  <2>2. \A k : Means(k, S) = IF k \in DOMAIN Meaning THEN Meaning[k][1] ELSE NO
    BY <1>3 DEF Means
  <2>3. \A k \in DOMAIN Plain : normalmap(Plain[k]) = Means(k, S)
    BY <2>2, PlainKeys, Meanings DEF normalmap
  <2>4. \A k \in DOMAIN Gray : normalmap(Gray[k] + 128) = Means(k, S)
    BY <2>2, GrayKeys, Meanings DEF normalmap
  <2> QED
    BY <2>1, <2>3, <2>4 DEF normalmap
<1> QED
  BY <1>1, <1>2, <1>3

LEMMA CharacterTypes ==
    /\ \A S, d : charcode(S, d) \in Chars
    /\ \A c \in Chars : Recase(c) \in Chars /\ (Recase(c) = NO <=> c = NO)
<1>1. \A S, d : charcode(S, d) \in Chars
  BY DEF charcode, normalmap, shiftmap, ctlmap, Chars
<1>2. \A c \in Chars : Recase(c) \in Chars /\ (Recase(c) = NO <=> c = NO)
  BY DEF Recase, Chars, NO
<1> QED
  BY <1>1, <1>2

\* Only Delete gives the character that can reset the machine.
LEMMA DeleteOnly ==
    ASSUME NEW S, NEW k
    PROVE  Means(k, S) = "KEY_DEL" <=> k = "delete"
<1>1. \A j \in DOMAIN Meaning, n \in {1, 2, 3} : Meaning[j][n] = "KEY_DEL" <=> j = "delete"
  BY Meanings DEF NO
<1>2. (CASE "CTL" \in S -> 3
         [] "CTL" \notin S /\ "SHIFT" \in S -> 2
         [] OTHER -> 1) \in {1, 2, 3}
  OBVIOUS
<1> QED
  BY <1>1, <1>2, Meanings DEF Means, NO

---------------------------------------------------------------------------
(* One call of kbd_proc_data. *)

\* The call takes `data` for a key that goes down, or up.
Pressing(data) ==
    /\ shift' = Toggled((shift \ {"E0ESC"}) \cup shiftcode(data), togglecode(data))
    /\ result' = IF "CAPSLOCK" \in shift' THEN Recase(charcode(shift', data))
                 ELSE charcode(shift', data)
    /\ rebooting' = ({"CTL", "ALT"} \subseteq shift' /\ charcode(shift', data) = "KEY_DEL")
Releasing(data) ==
    /\ shift' = shift \ (shiftcode(data) \cup {"E0ESC"})
    /\ result' = NO
    /\ ~rebooting'

LEMMA Reads ==
    ASSUME KbdProcData
    PROVE  ReadCode /\ scancodes # <<>> /\ ~rebooting
BY DEF KbdProcData, EscapeCode, KeyReleased, KeyPressed, ReadCode

LEMMA Pressed ==
    ASSUME KbdProcData, NEW c \in 0 .. 127, Code = c, NEW data,
           data = IF "E0ESC" \in shift THEN c + 128 ELSE c
    PROVE  ReadCode /\ Pressing(data)
<1>1. KeyPressed
  BY DEF KbdProcData, EscapeCode, KeyReleased, E0
<1>2. data = IF "E0ESC" \in shift THEN Code + \h80 ELSE Code
  OBVIOUS
<1> HIDE DEF Code
<1> QED
  BY <1>1, <1>2, Reads DEF KeyPressed, Pressing

LEMMA Released ==
    ASSUME KbdProcData, NEW c \in 128 .. 255, Code = c, c # 224,
           NEW data, data = IF "E0ESC" \in shift THEN c ELSE c - 128
    PROVE  ReadCode /\ Releasing(data)
<1>1. KeyReleased
  BY DEF KbdProcData, EscapeCode, KeyPressed, E0
<1>2. data = IF "E0ESC" \in shift THEN Code ELSE Code - \h80
  OBVIOUS
<1>3. ~rebooting
  BY Reads
<1> QED
  BY <1>1, <1>2, <1>3, Reads DEF KeyReleased, Releasing

LEMMA EscapeRead ==
    ASSUME KbdProcData, Code = 224
    PROVE  ReadCode /\ shift' = shift \cup {"E0ESC"} /\ result' = NO /\ ~rebooting'
<1>1. EscapeCode
  BY DEF KbdProcData, KeyReleased, KeyPressed, E0
<1> QED
  BY <1>1, Reads DEF EscapeCode

\* What the two histories make of an event, and of a code within one.
LEMMA Histories ==
    ASSUME ReadCode, NEW c, NEW k, NEW down \in BOOLEAN, caps \in BOOLEAN,
           Head(scancodes) = Cell(c, Event(k, down))
    PROVE  /\ Code = c
           /\ mid' <=> k = NO /\ ~down
           /\ active' = IF down THEN active \cup ModifierOf(k) ELSE active \ ModifierOf(k)
           /\ caps' <=> (IF k = "capsLock" /\ down THEN ~caps ELSE caps)
           /\ lost' = lost
           /\ \A j, d : Ends(j, d) <=> j = k /\ d = down
           /\ Head(scancodes).event.key = k /\ Head(scancodes).event.down = down
<1>1. Code = c /\ Head(scancodes).event = Event(k, down)
  BY DEF Code, Cell
<1>2. Head(scancodes).event.key = k /\ Head(scancodes).event.down = down
  BY <1>1 DEF Event
<1>3. \A j, d : Ends(j, d) <=> j = k /\ d = down
  BY <1>1 DEF Ends, Event
<1>4. mid' <=> k = NO /\ ~down
  <2>1. mid' = (Head(scancodes).event = Partial)
    BY DEF ReadCode
  <2>2. Event(k, down) = Event(NO, FALSE) <=> k = NO /\ down = FALSE
    BY DEF Event
  <2>3. Head(scancodes).event = Partial <=> k = NO /\ ~down
    BY <1>1, <2>2 DEF Partial
  <2> QED
    BY <2>1, <2>3
<1>5. caps' <=> (IF k = "capsLock" /\ down THEN ~caps ELSE caps)
  <2>1. caps' = (caps # Ends("capsLock", TRUE))
    BY DEF ReadCode
  <2>2. Ends("capsLock", TRUE) \in BOOLEAN
    BY DEF Ends
  <2>3. Ends("capsLock", TRUE) <=> k = "capsLock" /\ down
    BY <1>3
  <2> QED
    BY <2>1, <2>2, <2>3
<1> QED
  BY <1>1, <1>2, <1>3, <1>4, <1>5 DEF ReadCode

DeletePressed == Ends("delete", TRUE)

LEMMA AfterPress ==
    ASSUME ReadCode, NEW c, NEW k, caps \in BOOLEAN, Head(scancodes) = Cell(c, Press(k))
    PROVE  /\ ~mid' /\ active' = active \cup ModifierOf(k) /\ lost' = lost
           /\ caps' <=> (IF k = "capsLock" THEN ~caps ELSE caps)
           /\ Head(scancodes).event.key = k /\ Head(scancodes).event.down
           /\ DeletePressed <=> k = "delete"
<1>0. Head(scancodes) = Cell(c, Event(k, TRUE))
  BY DEF Press
<1>1. /\ mid' <=> k = NO /\ ~TRUE
      /\ active' = IF TRUE THEN active \cup ModifierOf(k) ELSE active \ ModifierOf(k)
      /\ caps' <=> (IF k = "capsLock" /\ TRUE THEN ~caps ELSE caps)
      /\ lost' = lost
  BY <1>0, Histories
<1>2. Head(scancodes).event.key = k /\ Head(scancodes).event.down
  BY <1>0, Histories
<1>3. \A j, d : Ends(j, d) <=> j = k /\ d = TRUE
  BY <1>0, Histories
<1>4. DeletePressed <=> k = "delete"
  BY <1>3 DEF DeletePressed
<1> QED
  BY <1>1, <1>2, <1>4

LEMMA AfterRelease ==
    ASSUME ReadCode, NEW c, NEW k, caps \in BOOLEAN, Head(scancodes) = Cell(c, Release(k))
    PROVE  /\ mid' <=> k = NO
           /\ active' = active \ ModifierOf(k) /\ lost' = lost
           /\ caps' <=> caps
           /\ Head(scancodes).event.key = k /\ ~Head(scancodes).event.down
           /\ ~DeletePressed
<1>0. Head(scancodes) = Cell(c, Event(k, FALSE))
  BY DEF Release
<1>1. /\ mid' <=> k = NO /\ ~FALSE
      /\ active' = IF FALSE THEN active \cup ModifierOf(k) ELSE active \ ModifierOf(k)
      /\ caps' <=> (IF k = "capsLock" /\ FALSE THEN ~caps ELSE caps)
      /\ lost' = lost
  BY <1>0, Histories
<1>2. Head(scancodes).event.key = k /\ ~Head(scancodes).event.down
  BY <1>0, Histories
<1>3. \A j, d : Ends(j, d) <=> j = k /\ d = FALSE
  BY <1>0, Histories
<1>4. ~DeletePressed
  BY <1>3 DEF DeletePressed
<1> QED
  BY <1>1, <1>2, <1>4

LEMMA AfterPartial ==
    ASSUME ReadCode, NEW c, caps \in BOOLEAN, Head(scancodes) = Cell(c, Partial)
    PROVE  /\ mid' /\ (\A f : f \in active' <=> f \in active) /\ lost' = lost
           /\ caps' <=> caps
           /\ Head(scancodes).event.key = NO /\ ~Head(scancodes).event.down
           /\ ~DeletePressed
<1>1. ModifierOf(NO) = {}
  BY ModifierOfKeys DEF NO
<1>2. Head(scancodes) = Cell(c, Release(NO))
  BY DEF Partial, Release
<1> QED
  BY <1>1, <1>2, AfterRelease

\* The flags after a code, one by one.
LEMMA FlagsAfter ==
    ASSUME NEW data
    PROVE  /\ Pressing(data) /\ togglecode(data) = {} =>
                  \A f : f \in shift' <=> (f # "E0ESC" /\ f \in shift) \/ f \in shiftcode(data)
           /\ Pressing(data) => \A f : f \notin togglecode(data) =>
                  (f \in shift' <=> (f # "E0ESC" /\ f \in shift) \/ f \in shiftcode(data))
           /\ Pressing(data) => \A f : f \in togglecode(data) =>
                  (f \in shift' <=> ~((f # "E0ESC" /\ f \in shift) \/ f \in shiftcode(data)))
           /\ Releasing(data) => \A f : f \in shift' <=>
                  f # "E0ESC" /\ f \in shift /\ f \notin shiftcode(data)
BY DEF Pressing, Releasing, Toggled

\* What CharsFollowKeys and RebootsOnCtrlAltDelete say of a call.
CharAnswer ==
    result' = IF Head(scancodes).event.down /\ Head(scancodes).event.key \in DOMAIN Meaning
              THEN Typed(Head(scancodes).event.key) ELSE NO
ResetAnswer == rebooting' <=> Ends("delete", TRUE) /\ {"CTL", "ALT"} \subseteq active
Answers == ~lost => CharAnswer /\ ResetAnswer

\* A key that goes down is answered by its character.
LEMMA Answered ==
    ASSUME NEW k, NEW data, Pressing(data), charcode(shift', data) = Means(k, shift'),
           "CAPSLOCK" \in shift' <=> (IF k = "capsLock" THEN ~caps ELSE caps),
           ~lost /\ k \notin {"leftCtrl", "rightCtrl", "leftShift", "rightShift", "leftAlt",
                              "rightAlt"} => \A f \in Modifiers : f \in shift' <=> f \in active,
           Head(scancodes).event.key = k, Head(scancodes).event.down,
           DeletePressed <=> k = "delete", NO \notin DOMAIN Meaning
    PROVE  Answers
<1> SUFFICES ASSUME ~lost
             PROVE  /\ result' = IF k \in DOMAIN Meaning THEN Typed(k) ELSE NO
                    /\ rebooting' <=> DeletePressed /\ {"CTL", "ALT"} \subseteq active
  BY DEF Answers, CharAnswer, ResetAnswer, DeletePressed
<1>1. CASE k \in DOMAIN Meaning
  <2>1. \A f \in {"CTL", "SHIFT", "ALT"} : f \in shift' <=> f \in active
    BY <1>1, Meanings, ModifierKeys
  <2>2. Means(k, shift') = Means(k, active)
    BY <2>1 DEF Means
  <2>3. "CAPSLOCK" \in shift' <=> caps
    BY <1>1, Meanings
  <2>4. result' = IF caps THEN Recase(Means(k, active)) ELSE Means(k, active)
    BY <2>2, <2>3 DEF Pressing
  <2>5. Typed(k) = IF caps THEN Recase(Means(k, active)) ELSE Means(k, active)
    BY <1>1 DEF Typed, Means
  <2>6. rebooting' <=> {"CTL", "ALT"} \subseteq shift' /\ k = "delete"
    BY DeleteOnly DEF Pressing
  <2> QED
    BY <1>1, <2>1, <2>4, <2>5, <2>6
<1>2. CASE k \notin DOMAIN Meaning
  <2>1. Means(k, shift') = NO
    BY <1>2 DEF Means
  <2>2. k # "delete"
    BY <1>2, Meanings
  <2>3. result' = NO
    BY <2>1 DEF Pressing, Recase, NO
  <2>4. ~rebooting'
    BY <2>1 DEF Pressing, NO
  <2> QED
    BY <1>2, <2>2, <2>3, <2>4
<1> QED
  BY <1>1, <1>2

\* A code that is no press of a key with a meaning is answered by nothing.
LEMMA Unanswered ==
    ASSUME result' = NO, ~rebooting', ~DeletePressed,
           Head(scancodes).event.down => Head(scancodes).event.key \notin DOMAIN Meaning
    PROVE  Answers
BY DEF Answers, CharAnswer, ResetAnswer, DeletePressed

LEMMA Followed ==
    ASSUME NEW f, Follows(f), lost' = lost,
           \/ (f \in shift' <=> f \in shift) /\ (f \in active' <=> f \in active)
           \/ f \in shift' /\ f \in active'
           \/ f \notin shift' /\ f \notin active'
    PROVE  Follows(f)'
BY DEF Follows

LEMMA ModifiersOnly ==
    ASSUME NEW k
    PROVE  /\ "CAPSLOCK" \notin ModifierOf(k) /\ "E0ESC" \notin ModifierOf(k)
           /\ "NUMLOCK" \notin ModifierOf(k)
BY ModifierKeys DEF ModifierOf

LEMMA NothingMeant ==
    /\ NO \notin DOMAIN Meaning /\ "pause" \notin DOMAIN Meaning
    /\ NO # "capsLock" /\ ModifierOf(NO) = {} /\ ModifierOf("pause") = {}
    /\ \A k \in Navigation : ModifierOf(k) = {}
BY Meanings, ModifierOfKeys DEF NO, Navigation

\* Between events the codes of a key that sends one code each leave the flags
\* as the key says.
LEMMA PlainReads ==
    ASSUME NEW q, NEW r, Types, KbdProcData, Reading(q), PlainMove(q, Head(scancodes), r)
    PROVE  Reading(r)' /\ Answers
<1>0. /\ q = "between" /\ r = "between" /\ "E0ESC" \notin shift /\ ~mid
      /\ caps \in BOOLEAN /\ rebooting \in BOOLEAN /\ ("CAPSLOCK" \in shift <=> caps)
      /\ Follows("ALT") /\ Follows("SHIFT") /\ Follows("CTL")
  BY DEF Types, Reading, PlainMove
<1>1. PICK k \in DOMAIN Plain : \/ Head(scancodes) = Cell(Plain[k], Press(k))
                                \/ Head(scancodes) = Cell(Plain[k] + \h80, Release(k))
  BY DEF PlainMove
<1>2. /\ Plain[k] \in 1 .. 127 /\ k # NO
      /\ shiftcode(Plain[k]) = ModifierOf(k)
      /\ togglecode(Plain[k]) = IF k = "capsLock" THEN {"CAPSLOCK"} ELSE {}
      /\ k = "capsLock" => ModifierOf(k) = {}
  <2>1. Plain[k] \in 1 .. 127 /\ k # NO
    BY PlainKeys DEF NO
  <2> QED
    BY <2>1, Shifts, ModifierOfKeys
<1>3. CASE Head(scancodes) = Cell(Plain[k], Press(k))
  <2>1. Code = Plain[k]
    BY <1>3 DEF Code, Cell
  <2>2. Pressing(Plain[k]) /\ ReadCode
    BY <2>1, <1>0, <1>2, Pressed
  <2>3. /\ ~mid' /\ active' = active \cup ModifierOf(k) /\ lost' = lost
        /\ caps' <=> (IF k = "capsLock" THEN ~caps ELSE caps)
        /\ Head(scancodes).event.key = k /\ Head(scancodes).event.down
        /\ DeletePressed <=> k = "delete"
    <3>1. ReadCode /\ caps \in BOOLEAN
      BY <2>2, <1>0
    <3> QED
      BY <3>1, <1>3, AfterPress
  <2>4. \A f \in {"CTL", "SHIFT", "ALT", "E0ESC"} :
            f \in shift' <=> (f # "E0ESC" /\ f \in shift) \/ f \in ModifierOf(k)
    <3>1. \A f \in {"CTL", "SHIFT", "ALT", "E0ESC"} : f \notin togglecode(Plain[k])
      BY <1>2
    <3> QED
      BY <3>1, <2>2, <1>2, FlagsAfter
  <2>5. "CAPSLOCK" \in shift' <=> (IF k = "capsLock" THEN ~caps ELSE caps)
    <3>1. "CAPSLOCK" \in togglecode(Plain[k]) <=> k = "capsLock"
      BY <1>2
    <3>2. "CAPSLOCK" \notin shiftcode(Plain[k])
      BY <1>2, ModifiersOnly
    <3> QED
      BY <3>1, <3>2, <2>2, <1>0, FlagsAfter
  <2>6. Follows("ALT")' /\ Follows("SHIFT")' /\ Follows("CTL")'
    BY <1>0, <2>3, <2>4, Followed
  <2>7. Reading(r)'
    BY <1>0, <2>3, <2>4, <2>5, <2>6, ModifiersOnly DEF Reading
  <2>8. Answers
    <3>1. ~lost /\ k \notin {"leftCtrl", "rightCtrl", "leftShift", "rightShift", "leftAlt",
                             "rightAlt"} => \A f \in Modifiers : f \in shift' <=> f \in active
      <4>1. ~lost => \A f \in {"CTL", "SHIFT", "ALT"} : f \in shift <=> f \in active
        BY <1>0 DEF Follows
      <4>2. k \notin {"leftCtrl", "rightCtrl", "leftShift", "rightShift", "leftAlt", "rightAlt"}
              => ModifierOf(k) = {}
        BY PlainKeys, ModifierOfKeys
      <4> QED
        BY <4>1, <4>2, <2>4, ModifierKeys
    <3>2. charcode(shift', Plain[k]) = Means(k, shift')
      BY Characters
    <3> QED
      BY <3>1, <3>2, <2>2, <2>3, <2>5, NothingMeant, Answered
  <2> QED
    BY <2>7, <2>8
<1>4. CASE Head(scancodes) = Cell(Plain[k] + \h80, Release(k))
  <2>1. Code = Plain[k] + 128
    BY <1>4 DEF Code, Cell
  <2>2. Plain[k] + 128 \in 128 .. 255 /\ Plain[k] + 128 # 224
        /\ Plain[k] = (Plain[k] + 128) - 128
    BY PlainKeys, <1>2
  <2>4. Releasing(Plain[k]) /\ ReadCode
    BY <2>1, <2>2, <1>0, Released
  <2>5. /\ ~mid' /\ active' = active \ ModifierOf(k) /\ lost' = lost
        /\ (caps' <=> caps)
        /\ Head(scancodes).event.key = k /\ ~Head(scancodes).event.down
        /\ ~DeletePressed
    <3>1. ReadCode /\ caps \in BOOLEAN /\ k # NO
      BY <2>4, <1>0, <1>2
    <3> QED
      BY <3>1, <1>4, AfterRelease
  <2>6. \A f : f \in shift' <=> f # "E0ESC" /\ f \in shift /\ f \notin ModifierOf(k)
    BY <2>4, <1>2, FlagsAfter
  <2>7. Follows("ALT")' /\ Follows("SHIFT")' /\ Follows("CTL")'
    BY <1>0, <2>5, <2>6, Followed
  <2>8. Reading(r)'
    BY <1>0, <2>5, <2>6, <2>7, ModifiersOnly DEF Reading
  <2>9. Answers
    BY <2>4, <2>5, Unanswered DEF Releasing
  <2> QED
    BY <2>8, <2>9
<1> QED
  BY <1>1, <1>3, <1>4

\* An escape changes no more than that the next code is one of a gray key.
LEMMA EscapeReads ==
    ASSUME NEW q, NEW r, Types, KbdProcData, Reading(q), EscapeMove(q, Head(scancodes), r)
    PROVE  Reading(r)' /\ Answers
<1>1. q \in {"between", "within"} /\ r = "escaped" /\ Head(scancodes) = Cell(E0, Partial)
  BY DEF EscapeMove
<1>2. /\ caps \in BOOLEAN /\ ("CAPSLOCK" \in shift <=> caps)
      /\ Follows("ALT") /\ Follows("SHIFT") /\ Follows("CTL")
  BY <1>1 DEF Types, Reading
<1>3. Code = 224
  BY <1>1 DEF Code, Cell, E0
<1>4. ReadCode /\ shift' = shift \cup {"E0ESC"} /\ result' = NO /\ ~rebooting'
  BY <1>3, EscapeRead
<1>5. /\ mid' /\ (\A f : f \in active' <=> f \in active) /\ lost' = lost /\ (caps' <=> caps)
      /\ Head(scancodes).event.key = NO /\ ~Head(scancodes).event.down /\ ~DeletePressed
  BY <1>1, <1>2, <1>4, AfterPartial
<1>6. Follows("ALT")' /\ Follows("SHIFT")' /\ Follows("CTL")'
  BY <1>2, <1>4, <1>5, Followed
<1>7. Reading(r)'
  BY <1>1, <1>2, <1>4, <1>5, <1>6 DEF Reading
<1>8. Answers
  BY <1>4, <1>5, Unanswered
<1> QED
  BY <1>7, <1>8

\* The codes that come along after an escape are taken for no key at all.
LEMMA SilentCode ==
    ASSUME KbdProcData, "E0ESC" \in shift, NEW c \in SilentCodes \cup {198}, Code = c
    PROVE  /\ ReadCode /\ result' = NO /\ ~rebooting'
           /\ \A f : f \in shift' <=> f # "E0ESC" /\ f \in shift
<1>1. CASE c \in {170, 182, 199, 211, 198}
  <2>1. c \in 128 .. 255 /\ c # 224 /\ shiftcode(c) = {}
    BY <1>1, Shifts
  <2>2. ReadCode /\ Releasing(c)
    BY <2>1, Released
  <2>3. \A f : f \in shift' <=> f # "E0ESC" /\ f \in shift
    BY <2>1, <2>2, FlagsAfter
  <2> QED
    BY <2>2, <2>3 DEF Releasing
<1>2. CASE c \in {42, 54, 70}
  <2>1. PICK d : d = c + 128
    OBVIOUS
  <2>2. c \in 0 .. 127 /\ d \in {170, 182, 198}
    BY <1>2, <2>1
  <2>3. shiftcode(d) = {} /\ togglecode(d) = {}
    BY <2>2, Shifts
  <2>4. ReadCode /\ Pressing(d)
    BY <2>1, <2>2, Pressed
  <2>5. charcode(shift', d) = NO
    BY <2>2, Characters
  <2>6. \A f : f \in shift' <=> f # "E0ESC" /\ f \in shift
    BY <2>3, <2>4, FlagsAfter
  <2>7. result' = NO /\ ~rebooting'
    BY <2>4, <2>5 DEF Pressing, Recase, NO
  <2> QED
    BY <2>4, <2>6, <2>7
<1> QED
  BY <1>1, <1>2 DEF SilentCodes

LEMMA SilentReads ==
    ASSUME NEW q, NEW r, Types, KbdProcData, Reading(q), SilentMove(q, Head(scancodes), r)
    PROVE  Reading(r)' /\ Answers
<1>1. PICK c \in SilentCodes : q = "escaped" /\ r = "within" /\ Head(scancodes) = Cell(c, Partial)
  BY DEF SilentMove
<1>2. /\ caps \in BOOLEAN /\ ("CAPSLOCK" \in shift <=> caps) /\ "E0ESC" \in shift
      /\ Follows("ALT") /\ Follows("SHIFT") /\ Follows("CTL")
  BY <1>1 DEF Types, Reading
<1>3. Code = c
  BY <1>1 DEF Code, Cell
<1>4. /\ ReadCode /\ result' = NO /\ ~rebooting'
      /\ \A f : f \in shift' <=> f # "E0ESC" /\ f \in shift
  BY <1>2, <1>3, SilentCode
<1>5. /\ mid' /\ (\A f : f \in active' <=> f \in active) /\ lost' = lost /\ (caps' <=> caps)
      /\ Head(scancodes).event.key = NO /\ ~Head(scancodes).event.down /\ ~DeletePressed
  BY <1>1, <1>2, <1>4, AfterPartial
<1>6. Follows("ALT")' /\ Follows("SHIFT")' /\ Follows("CTL")'
  BY <1>2, <1>4, <1>5, Followed
<1>7. Reading(r)'
  BY <1>1, <1>2, <1>4, <1>5, <1>6 DEF Reading
<1>8. Answers
  BY <1>4, <1>5, Unanswered
<1> QED
  BY <1>7, <1>8

LEMMA ClosingReads ==
    ASSUME NEW q, NEW r, Types, KbdProcData, Reading(q), ClosingMove(q, Head(scancodes), r)
    PROVE  Reading(r)' /\ Answers
<1>1. q = "escaped" /\ r = "between"
  BY DEF ClosingMove
<1>2. /\ caps \in BOOLEAN /\ ("CAPSLOCK" \in shift <=> caps) /\ "E0ESC" \in shift
      /\ Follows("ALT") /\ Follows("SHIFT") /\ Follows("CTL")
  BY <1>1 DEF Types, Reading
<1>3. /\ ReadCode /\ result' = NO /\ ~rebooting'
      /\ \A f : f \in shift' <=> f # "E0ESC" /\ f \in shift
  <2>1. PICK c, e : Head(scancodes) = Cell(c, e) /\ c \in {42, 54, 198}
    BY DEF ClosingMove, ShiftCodes
  <2>2. Code = c
    BY <2>1 DEF Code, Cell
  <2> QED
    BY <1>2, <2>1, <2>2, SilentCode DEF SilentCodes
<1>4. /\ ~mid' /\ (\A f : f \in active' <=> f \in active) /\ lost' = lost /\ (caps' <=> caps)
      /\ ~DeletePressed
      /\ Head(scancodes).event.down => Head(scancodes).event.key \notin DOMAIN Meaning
  <2>1. CASE Head(scancodes) = Cell(\hC6, Press("pause"))
    BY <2>1, <1>2, <1>3, AfterPress, NothingMeant DEF NO
  <2>2. CASE \E k \in Navigation, c \in ShiftCodes : Head(scancodes) = Cell(c, Release(k))
    <3>1. PICK k \in Navigation, c \in ShiftCodes : Head(scancodes) = Cell(c, Release(k))
      BY <2>2
    <3>2. k # NO
      BY DEF NO, Navigation
    <3> QED
      BY <3>1, <3>2, <1>2, <1>3, AfterRelease, NothingMeant
  <2> QED
    BY <2>1, <2>2 DEF ClosingMove
<1>6. Follows("ALT")' /\ Follows("SHIFT")' /\ Follows("CTL")'
  BY <1>2, <1>3, <1>4, Followed
<1>7. Reading(r)'
  BY <1>1, <1>2, <1>3, <1>4, <1>6 DEF Reading
<1>8. Answers
  BY <1>3, <1>4, Unanswered
<1> QED
  BY <1>7, <1>8

\* After an escape the code of a gray key is never taken for the plain key's.
LEMMA GrayReads ==
    ASSUME NEW q, NEW r, Types, KbdProcData, Reading(q), GrayMove(q, Head(scancodes), r)
    PROVE  Reading(r)' /\ Answers
<1>0. /\ q = "escaped" /\ r = "between" /\ "E0ESC" \in shift
      /\ caps \in BOOLEAN /\ ("CAPSLOCK" \in shift <=> caps)
      /\ Follows("ALT") /\ Follows("SHIFT") /\ Follows("CTL")
  BY DEF Types, Reading, GrayMove
<1>1. PICK k \in DOMAIN Gray : \/ Head(scancodes) = Cell(Gray[k], Press(k))
                               \/ Head(scancodes) = Cell(Gray[k] + \h80, Release(k))
  BY DEF GrayMove
<1>2. PICK d : d = Gray[k] + 128
  OBVIOUS
<1>3. /\ Gray[k] \in 1 .. 127 /\ k # NO /\ k # "capsLock"
      /\ d \in 128 .. 255 /\ d # 224
  BY <1>2, GrayKeys DEF NO
<1>4. shiftcode(d) = ModifierOf(k) /\ togglecode(d) = {}
  BY <1>2, Shifts
<1>5. CASE Head(scancodes) = Cell(Gray[k], Press(k))
  <2>1. Code = Gray[k]
    BY <1>5 DEF Code, Cell
  <2>2. Pressing(d) /\ ReadCode
    BY <2>1, <1>0, <1>2, <1>3, Pressed
  <2>3. /\ ~mid' /\ active' = active \cup ModifierOf(k) /\ lost' = lost /\ (caps' <=> caps)
        /\ Head(scancodes).event.key = k /\ Head(scancodes).event.down
        /\ DeletePressed <=> k = "delete"
    <3>1. ReadCode /\ caps \in BOOLEAN
      BY <2>2, <1>0
    <3> QED
      BY <3>1, <1>3, <1>5, AfterPress
  <2>4. \A f : f \in shift' <=> (f # "E0ESC" /\ f \in shift) \/ f \in ModifierOf(k)
    BY <2>2, <1>4, FlagsAfter
  <2>5. "CAPSLOCK" \in shift' <=> caps
    BY <2>4, <1>0, ModifiersOnly
  <2>6. Follows("ALT")' /\ Follows("SHIFT")' /\ Follows("CTL")'
    BY <1>0, <2>3, <2>4, Followed
  <2>7. Reading(r)'
    BY <1>0, <2>3, <2>4, <2>5, <2>6, ModifiersOnly DEF Reading
  <2>8. Answers
    <3>1. ~lost /\ k \notin {"leftCtrl", "rightCtrl", "leftShift", "rightShift", "leftAlt",
                             "rightAlt"} => \A f \in Modifiers : f \in shift' <=> f \in active
      <4>1. ~lost => \A f \in {"CTL", "SHIFT", "ALT"} : f \in shift <=> f \in active
        BY <1>0 DEF Follows
      <4>2. k \notin {"leftCtrl", "rightCtrl", "leftShift", "rightShift", "leftAlt", "rightAlt"}
              => ModifierOf(k) = {}
        BY GrayKeys, ModifierOfKeys
      <4> QED
        BY <4>1, <4>2, <2>4, ModifierKeys
    <3>2. charcode(shift', d) = Means(k, shift')
      BY <1>2, Characters
    <3> QED
      BY <1>3, <3>1, <3>2, <2>2, <2>3, <2>5, NothingMeant, Answered
  <2> QED
    BY <2>7, <2>8
<1>6. CASE Head(scancodes) = Cell(Gray[k] + \h80, Release(k))
  <2>1. Code = d
    BY <1>6, <1>2 DEF Code, Cell
  <2>2. Releasing(d) /\ ReadCode
    BY <2>1, <1>0, <1>3, Released
  <2>3. /\ ~mid' /\ active' = active \ ModifierOf(k) /\ lost' = lost /\ (caps' <=> caps)
        /\ Head(scancodes).event.key = k /\ ~Head(scancodes).event.down /\ ~DeletePressed
    <3>1. ReadCode /\ caps \in BOOLEAN /\ k # NO
      BY <2>2, <1>0, <1>3
    <3> QED
      BY <3>1, <1>6, AfterRelease
  <2>4. \A f : f \in shift' <=> f # "E0ESC" /\ f \in shift /\ f \notin ModifierOf(k)
    BY <2>2, <1>4, FlagsAfter
  <2>5. Follows("ALT")' /\ Follows("SHIFT")' /\ Follows("CTL")'
    BY <1>0, <2>3, <2>4, Followed
  <2>6. Reading(r)'
    BY <1>0, <2>3, <2>4, <2>5, ModifiersOnly DEF Reading
  <2>7. Answers
    BY <2>2, <2>3, Unanswered DEF Releasing
  <2> QED
    BY <2>6, <2>7
<1> QED
  BY <1>1, <1>5, <1>6

\* The codes of Pause turn Ctrl on and off again; NumLock is nobody's.
LEMMA PauseReads ==
    ASSUME NEW q, NEW r, Types, KbdProcData, Reading(q), PauseMove(q, Head(scancodes), r),
           ~lost /\ Code = E1 => "CTL" \notin active
    PROVE  Reading(r)' /\ Answers
<1>0. /\ caps \in BOOLEAN /\ ("CAPSLOCK" \in shift <=> caps) /\ "E0ESC" \notin shift
      /\ Follows("ALT") /\ Follows("SHIFT")
  BY DEF Types, Reading, PauseMove
<1>1. ASSUME NEW c, Head(scancodes) = Cell(c, Partial), ReadCode
      PROVE  /\ mid' /\ (\A f : f \in active' <=> f \in active) /\ lost' = lost
             /\ (caps' <=> caps) /\ ~DeletePressed
             /\ Head(scancodes).event.down => Head(scancodes).event.key \notin DOMAIN Meaning
  BY <1>0, <1>1, AfterPartial
<1>2. CASE q = "between" /\ Head(scancodes) = Cell(E1, Partial) /\ r = "pause1"
  <2>1. Code = 225 /\ Code = E1
    BY <1>2 DEF Code, Cell, E1
  <2>2. ReadCode /\ Releasing(97)
    BY <2>1, <1>0, Released
  <2>3. \A f : f \in shift' <=> f # "E0ESC" /\ f \in shift
    BY <2>2, Shifts, FlagsAfter
  <2>4. Follows("CTL")
    BY <1>2 DEF Reading
  <2>5. Follows("ALT")' /\ Follows("SHIFT")' /\ Follows("CTL")'
    BY <1>0, <1>1, <1>2, <2>2, <2>3, <2>4, Followed
  <2>6. Reading(r)'
    BY <1>0, <1>1, <1>2, <2>1, <2>2, <2>3, <2>5 DEF Reading
  <2> QED
    BY <1>1, <1>2, <2>2, <2>6, Unanswered DEF Releasing
<1>3. CASE q = "pause1" /\ Head(scancodes) = Cell(\h1D, Partial) /\ r = "pause2"
  <2>1. Code = 29
    BY <1>3 DEF Code, Cell
  <2>2. ReadCode /\ Pressing(29)
    BY <2>1, <1>0, Pressed
  <2>3. \A f : f \in shift' <=> (f # "E0ESC" /\ f \in shift) \/ f = "CTL"
    BY <2>2, Shifts, FlagsAfter
  <2>4. charcode(shift', 29) = NO
    BY Characters
  <2>5. result' = NO /\ ~rebooting'
    BY <2>2, <2>4 DEF Pressing, Recase, NO
  <2>6. Follows("ALT")' /\ Follows("SHIFT")'
    BY <1>0, <1>1, <1>3, <2>2, <2>3, Followed
  <2>7. Reading(r)'
    BY <1>0, <1>1, <1>3, <2>2, <2>3, <2>6 DEF Reading
  <2> QED
    BY <1>1, <1>3, <2>2, <2>5, <2>7, Unanswered
<1>4. CASE q = "pause2" /\ Head(scancodes) = Cell(\h45, Partial) /\ r = "pause3"
  <2>1. Code = 69
    BY <1>4 DEF Code, Cell
  <2>2. ReadCode /\ Pressing(69)
    BY <2>1, <1>0, Pressed
  <2>3. \A f : f # "NUMLOCK" => (f \in shift' <=> f # "E0ESC" /\ f \in shift)
    BY <2>2, Shifts, FlagsAfter
  <2>4. charcode(shift', 69) = NO
    BY Characters
  <2>5. result' = NO /\ ~rebooting'
    BY <2>2, <2>4 DEF Pressing, Recase, NO
  <2>6. Follows("ALT")' /\ Follows("SHIFT")'
    BY <1>0, <1>1, <1>4, <2>2, <2>3, Followed
  <2>7. Reading(r)'
    BY <1>0, <1>1, <1>4, <2>2, <2>3, <2>6 DEF Reading
  <2> QED
    BY <1>1, <1>4, <2>2, <2>5, <2>7, Unanswered
<1>5. CASE q = "pause3" /\ Head(scancodes) = Cell(E1, Partial) /\ r = "pause4"
  <2>1. Code = 225
    BY <1>5 DEF Code, Cell, E1
  <2>2. ReadCode /\ Releasing(97)
    BY <2>1, <1>0, Released
  <2>3. \A f : f \in shift' <=> f # "E0ESC" /\ f \in shift
    BY <2>2, Shifts, FlagsAfter
  <2>4. Follows("ALT")' /\ Follows("SHIFT")'
    BY <1>0, <1>1, <1>5, <2>2, <2>3, Followed
  <2>5. Reading(r)'
    BY <1>0, <1>1, <1>5, <2>2, <2>3, <2>4 DEF Reading
  <2> QED
    BY <1>1, <1>5, <2>2, <2>5, Unanswered DEF Releasing
<1>6. CASE q = "pause4" /\ Head(scancodes) = Cell(\h9D, Partial) /\ r = "pause5"
  <2>1. Code = 157
    BY <1>6 DEF Code, Cell
  <2>2. ReadCode /\ Releasing(29)
    BY <2>1, <1>0, Released
  <2>3. \A f : f \in shift' <=> f # "E0ESC" /\ f \in shift /\ f # "CTL"
    BY <2>2, Shifts, FlagsAfter
  <2>4. Follows("ALT")' /\ Follows("SHIFT")'
    BY <1>0, <1>1, <1>6, <2>2, <2>3, Followed
  <2>5. Reading(r)'
    BY <1>0, <1>1, <1>6, <2>2, <2>3, <2>4 DEF Reading
  <2> QED
    BY <1>1, <1>6, <2>2, <2>5, Unanswered DEF Releasing
<1>7. CASE q = "pause5" /\ Head(scancodes) = Cell(\hC5, Press("pause")) /\ r = "between"
  <2>1. Code = 197
    BY <1>7 DEF Code, Cell
  <2>2. ReadCode /\ Releasing(69)
    BY <2>1, <1>0, Released
  <2>3. \A f : f \in shift' <=> f # "E0ESC" /\ f \in shift
    BY <2>2, Shifts, FlagsAfter
  <2>4. /\ ~mid' /\ (\A f : f \in active' <=> f \in active) /\ lost' = lost
        /\ (caps' <=> caps) /\ ~DeletePressed
        /\ Head(scancodes).event.down => Head(scancodes).event.key \notin DOMAIN Meaning
    BY <1>7, <1>0, <2>2, AfterPress, NothingMeant DEF NO
  <2>5. Follows("ALT")' /\ Follows("SHIFT")'
    BY <1>0, <2>3, <2>4, Followed
  <2>6. Follows("CTL")'
    <3>1. "CTL" \notin shift' /\ (~lost => "CTL" \notin active')
      BY <1>7, <2>3, <2>4 DEF Reading
    <3> QED
      BY <3>1, <2>4 DEF Follows
  <2>7. Reading(r)'
    BY <1>0, <1>7, <2>3, <2>4, <2>5, <2>6 DEF Reading
  <2> QED
    BY <2>2, <2>4, <2>7, Unanswered DEF Releasing
<1> QED
  BY <1>2, <1>3, <1>4, <1>5, <1>6, <1>7 DEF PauseMove

\* Whatever code is read, the flags are what its place says, and so is the answer.
LEMMA EveryCodeReads ==
    ASSUME NEW q, NEW r, Types, KbdProcData, Reading(q), Moves(q, Head(scancodes), r),
           ~lost /\ Code = E1 => "CTL" \notin active
    PROVE  Reading(r)' /\ Answers
BY PlainReads, EscapeReads, SilentReads, GrayReads, ClosingReads, PauseReads DEF Moves

---------------------------------------------------------------------------
(* Reading a code moves the queue on by one. *)

LEMMA TailIs ==
    ASSUME NEW S, NEW s \in Seq(S), s # <<>>
    PROVE  /\ Tail(s) \in Seq(S) /\ Head(s) = s[1] /\ Head(s) \in S
           /\ Len(s) \in Nat \ {0} /\ Len(Tail(s)) = Len(s) - 1
           /\ \A i \in 1 .. Len(Tail(s)) : Tail(s)[i] = s[i + 1]
OBVIOUS

LEMMA LeadsOn ==
    ASSUME NEW S, NEW s \in Seq(S), s # <<>>, NEW q, Leads(q, s)
    PROVE  \E r \in Places : Moves(q, Head(s), r) /\ Leads(r, Tail(s))
<1>1. PICK p \in [1 .. Len(s) + 1 -> Places] :
        /\ p[1] = q /\ p[Len(s) + 1] = "between"
        /\ \A i \in 1 .. Len(s) : Moves(p[i], s[i], p[i + 1])
  BY DEF Leads
<1>2. PICK n \in Nat : Len(s) = n + 1 /\ Len(Tail(s)) = n
  <2>1. Len(s) - 1 \in Nat /\ Len(s) = (Len(s) - 1) + 1
    BY TailIs
  <2> QED
    BY <2>1, TailIs
<1> DEFINE t == [i \in 1 .. n + 1 |-> p[i + 1]]
<1>3. t \in [1 .. n + 1 -> Places]
  BY <1>2
<1>4. t[1] = p[2] /\ t[n + 1] = "between"
  BY <1>1, <1>2
<1>5. ASSUME NEW i \in 1 .. n PROVE Moves(t[i], Tail(s)[i], t[i + 1])
  <2>1. i + 1 \in 1 .. Len(s) /\ Tail(s)[i] = s[i + 1] /\ t[i] = p[i + 1] /\ t[i + 1] = p[(i + 1) + 1]
    BY <1>2, TailIs
  <2> QED
    BY <2>1, <1>1
<1>6. p[2] \in Places /\ Moves(q, Head(s), p[2])
  <2>1. 1 \in 1 .. Len(s) /\ Head(s) = s[1] /\ 1 + 1 = 2
    BY <1>2, TailIs
  <2>2. Moves(p[1], s[1], p[2])
    BY <2>1, <1>1
  <2> QED
    BY <2>1, <2>2, <1>1, <1>2
<1>7. Leads(p[2], Tail(s))
  <2> HIDE DEF t
  <2> QED
    BY <1>2, <1>3, <1>4, <1>5 DEF Leads
<1> QED
  BY <1>6, <1>7

LEMMA CellParts ==
    ASSUME NEW cell \in Cells
    PROVE  /\ cell.code \in 0 .. 255 /\ cell.event.key \in Keys \cup {NO}
           /\ cell.event.down \in BOOLEAN
BY DEF Cells

LEMMA KbdProcDataKeepsCtrl ==
    ASSUME Types, Ctrl, KbdProcData
    PROVE  Ctrl'
<1> SUFFICES ASSUME ~lost'
             PROVE  /\ CtlOn(Len(scancodes) + 1)' => held' \cap KeysOf.CTL # {}
                    /\ \A i \in 1 .. Len(scancodes') : scancodes'[i].code = E1 => ~CtlOn(i)'
  BY DEF Ctrl
<1>0. ReadCode /\ scancodes # <<>> /\ scancodes' = Tail(scancodes) /\ held' = held /\ lost' = lost
  BY Reads DEF ReadCode, keyboard
<1>1. /\ Len(scancodes) \in Nat \ {0} /\ Len(scancodes') = Len(scancodes) - 1
      /\ Head(scancodes) = scancodes[1]
      /\ \A i \in 1 .. Len(scancodes') : scancodes'[i] = scancodes[i + 1]
  BY <1>0, TailIs DEF Types
<1>2. PICK n \in Nat : Len(scancodes) = n + 1 /\ Len(scancodes') = n
  <2>1. Len(scancodes) - 1 \in Nat /\ Len(scancodes) = (Len(scancodes) - 1) + 1
    BY <1>1
  <2> QED
    BY <2>1, <1>1
<1>3. ("CTL" \in active)' => \/ scancodes[1].event.down /\ scancodes[1].event.key \in KeysOf.CTL
                             \/ "CTL" \in active /\ ~CtlReleased(1)
  <2>1. scancodes[1] \in Cells
    BY <1>0, <1>1, TailIs DEF Types
  <2>2. "CTL" \in ModifierOf(scancodes[1].event.key) <=> scancodes[1].event.key \in KeysOf.CTL
    BY ModifierKeys DEF ModifierOf
  <2> QED
    BY <1>0, <1>1, <2>1, <2>2, CellParts DEF ReadCode, CtlReleased
<1>4. ASSUME NEW i \in 1 .. n + 1, CtlOn(i)'
      PROVE  CtlOn(i + 1)
  <2>1. PICK j \in 0 .. i - 1 : CtlPressed(j)' /\ \A m \in j + 1 .. i - 1 : ~CtlReleased(m)'
    BY <1>4 DEF CtlOn
  <2>2. \A m \in 1 .. n : CtlReleased(m)' <=> CtlReleased(m + 1)
    BY <1>1, <1>2 DEF CtlReleased
  <2>3. \A m \in j + 2 .. i : ~CtlReleased(m)
    <3>1. TAKE m \in j + 2 .. i
    <3>2. m - 1 \in 1 .. n /\ m - 1 \in j + 1 .. i - 1 /\ (m - 1) + 1 = m
      OBVIOUS
    <3> QED
      BY <3>2, <2>1, <2>2
  <2>4. CASE j = 0
    <3>1. ("CTL" \in active)'
      BY <2>1, <2>4 DEF CtlPressed
    <3>2. CASE scancodes[1].event.down /\ scancodes[1].event.key \in KeysOf.CTL
      <4>1. CtlPressed(1) /\ 1 \in 0 .. (i + 1) - 1
        BY <3>2 DEF CtlPressed
      <4>2. \A m \in 1 + 1 .. (i + 1) - 1 : ~CtlReleased(m)
        BY <2>3, <2>4
      <4> QED
        BY <4>1, <4>2 DEF CtlOn
    <3>3. CASE "CTL" \in active /\ ~CtlReleased(1)
      <4>1. CtlPressed(0) /\ 0 \in 0 .. (i + 1) - 1
        BY <3>3 DEF CtlPressed
      <4>2. \A m \in 0 + 1 .. (i + 1) - 1 : ~CtlReleased(m)
        <5>1. TAKE m \in 0 + 1 .. (i + 1) - 1
        <5>2. m = 1 \/ m \in 2 .. i
          OBVIOUS
        <5> QED
          BY <5>2, <3>3, <2>3, <2>4
      <4> QED
        BY <4>1, <4>2 DEF CtlOn
    <3> QED
      BY <3>1, <3>2, <3>3, <1>3
  <2>5. CASE j # 0
    <3>1. j \in 1 .. n /\ j + 1 \in 0 .. (i + 1) - 1 /\ j + 1 # 0
      BY <2>5
    <3>2. CtlPressed(j + 1)
      BY <2>1, <2>5, <3>1, <1>1, <1>2 DEF CtlPressed
    <3>3. \A m \in (j + 1) + 1 .. (i + 1) - 1 : ~CtlReleased(m)
      BY <2>3
    <3> QED
      BY <3>1, <3>2, <3>3 DEF CtlOn
  <2> QED
    BY <2>4, <2>5
<1>5. CtlOn(n + 1)' => CtlOn((n + 1) + 1)
  BY <1>4
<1>6. CtlOn(Len(scancodes) + 1)' <=> CtlOn(n + 1)'
  BY <1>2 DEF CtlOn
<1>7. CtlOn((n + 1) + 1) => held \cap KeysOf.CTL # {}
  BY <1>0, <1>2 DEF Ctrl
<1>8. ASSUME NEW i \in 1 .. Len(scancodes'), scancodes'[i].code = E1
      PROVE  ~CtlOn(i)'
  <2>1. i \in 1 .. n + 1 /\ i + 1 \in 1 .. Len(scancodes) /\ scancodes[i + 1].code = E1
    BY <1>1, <1>2, <1>8
  <2>2. ~CtlOn(i + 1)
    BY <2>1, <1>0 DEF Ctrl
  <2> QED
    BY <2>1, <2>2, <1>4
<1> QED
  BY <1>0, <1>5, <1>6, <1>7, <1>8

LEMMA CtrlOffAtPause ==
    ASSUME Types, Ctrl, KbdProcData, ~lost, Code = E1
    PROVE  "CTL" \notin active
<1>1. scancodes # <<>>
  BY Reads
<1>2. 1 \in 1 .. Len(scancodes) /\ scancodes[1].code = E1
  BY <1>1, TailIs DEF Types, Code
<1>3. ~CtlOn(1)
  BY <1>2 DEF Ctrl
<1>4. CtlPressed(0) <=> "CTL" \in active
  BY DEF CtlPressed
<1>5. CtlPressed(0) => CtlOn(1)
  <2>1. 0 \in 0 .. 1 - 1 /\ \A m \in 0 + 1 .. 1 - 1 : ~CtlReleased(m)
    OBVIOUS
  <2> QED
    BY <2>1 DEF CtlOn
<1> QED
  BY <1>3, <1>4, <1>5

LEMMA KbdProcDataTypes ==
    ASSUME Types, KbdProcData
    PROVE  Types'
<1>0. /\ ReadCode /\ scancodes # <<>> /\ scancodes' = Tail(scancodes) /\ lost' = lost
      /\ held' = held /\ typematic' = typematic
      /\ mid' = (Head(scancodes).event = Partial)
      /\ active' = IF Head(scancodes).event.down THEN active \cup ModifierOf(Head(scancodes).event.key)
                   ELSE active \ ModifierOf(Head(scancodes).event.key)
      /\ caps' = (caps # Ends("capsLock", TRUE))
  BY Reads DEF ReadCode, keyboard
<1>1. scancodes' \in Seq(Cells)
  BY <1>0, TailIs DEF Types
<1>2. mid' \in BOOLEAN /\ caps' \in BOOLEAN
  BY <1>0
<1>3. active' \subseteq Modifiers
  BY <1>0 DEF Types, ModifierOf
<1>4. \A d : shiftcode(d) \subseteq Flags /\ togglecode(d) \subseteq Flags
  BY ModifierKeys DEF shiftcode, togglecode, Flags
<1>5. shift' \subseteq Flags
  <2>1. CASE EscapeCode
    BY <2>1 DEF EscapeCode, Flags, Types
  <2>2. CASE KeyReleased
    BY <2>2 DEF KeyReleased, Types
  <2>3. CASE KeyPressed
    <3>1. PICK d : shift' = Toggled((shift \ {"E0ESC"}) \cup shiftcode(d), togglecode(d))
      BY <2>3 DEF KeyPressed
    <3>2. shiftcode(d) \subseteq Flags /\ togglecode(d) \subseteq Flags
      BY <1>4
    <3> QED
      BY <3>1, <3>2 DEF Toggled, Types
  <2> QED
    BY <2>1, <2>2, <2>3 DEF KbdProcData
<1>6. result' \in Chars
  <2>1. CASE EscapeCode \/ KeyReleased
    BY <2>1 DEF EscapeCode, KeyReleased, Chars
  <2>2. CASE KeyPressed
    <3>1. PICK c : c \in Chars /\ (result' = Recase(c) \/ result' = c)
      BY <2>2, CharacterTypes DEF KeyPressed
    <3> QED
      BY <3>1, CharacterTypes
  <2> QED
    BY <2>1, <2>2 DEF KbdProcData
<1>7. rebooting' \in BOOLEAN
  <2>1. CASE EscapeCode \/ KeyReleased
    BY <2>1 DEF EscapeCode, KeyReleased, Types
  <2>2. CASE KeyPressed
    BY <2>2 DEF KeyPressed
  <2> QED
    BY <2>1, <2>2 DEF KbdProcData
<1> QED
  BY <1>0, <1>1, <1>2, <1>3, <1>5, <1>6, <1>7 DEF Types

\* A call keeps the invariant and answers as the keys say.
LEMMA KbdProcDataStep ==
    ASSUME Inv, KbdProcData
    PROVE  Inv' /\ Answers
<1>1. Types /\ Ctrl /\ scancodes # <<>> /\ scancodes \in Seq(Cells) /\ scancodes' = Tail(scancodes)
  BY Reads DEF Inv, Types, ReadCode
<1>2. PICK q \in Places : Reading(q) /\ Leads(q, scancodes)
  BY DEF Inv, Place
<1>3. PICK r \in Places : Moves(q, Head(scancodes), r) /\ Leads(r, Tail(scancodes))
  BY <1>1, <1>2, LeadsOn
<1>4. Reading(r)' /\ Answers
  BY <1>1, <1>2, <1>3, EveryCodeReads, CtrlOffAtPause
<1>5. Leads(r, scancodes')
  BY <1>1, <1>3
<1>6. Place'
  BY <1>4, <1>5 DEF Place
<1> QED
  BY <1>1, <1>4, <1>6, KbdProcDataTypes, KbdProcDataKeepsCtrl DEF Inv

---------------------------------------------------------------------------
(* The keyboard appends the codes of an event. *)

LEMMA ElementsOf ==
    ASSUME NEW S, NEW s \in Seq(S)
    PROVE  \A i \in 1 .. Len(s) : s[i] \in S
OBVIOUS

\* What Send queues for the codes of an event.
Sent(codes, event) ==
    [i \in DOMAIN codes |->
        [code |-> codes[i], event |-> IF i = Len(codes) THEN event ELSE Partial]]

LEMMA SentIs ==
    ASSUME NEW codes \in Seq(0 .. 255), NEW event \in [key : Keys \cup {NO}, down : BOOLEAN]
    PROVE  /\ Sent(codes, event) \in Seq(Cells) /\ Len(Sent(codes, event)) = Len(codes)
           /\ \A i \in 1 .. Len(codes) :
                i # Len(codes) => Sent(codes, event)[i] = Cell(codes[i], Partial)
           /\ codes # <<>> => Sent(codes, event)[Len(codes)] = Cell(codes[Len(codes)], event)
<1>1. PICK n \in Nat : Len(codes) = n /\ DOMAIN codes = 1 .. n
  OBVIOUS
<1>2. Partial \in [key : Keys \cup {NO}, down : BOOLEAN]
  BY DEF Partial, Event
<1>3. \A i \in 1 .. n : Sent(codes, event)[i] = Cell(codes[i], IF i = n THEN event ELSE Partial)
  BY <1>1 DEF Sent, Cell
<1>4. \A i \in 1 .. n : Sent(codes, event)[i] \in Cells
  <2>1. \A i \in 1 .. Len(codes) : codes[i] \in 0 .. 255
    BY ElementsOf
  <2>2. \A c \in 0 .. 255, e \in [key : Keys \cup {NO}, down : BOOLEAN] : Cell(c, e) \in Cells
    BY DEF Cell, Cells
  <2> TAKE i \in 1 .. n
  <2>3. PICK e \in [key : Keys \cup {NO}, down : BOOLEAN] : e = IF i = n THEN event ELSE Partial
    BY <1>2
  <2>4. codes[i] \in 0 .. 255
    BY <2>1, <1>1
  <2>5. Sent(codes, event)[i] = Cell(codes[i], e)
    BY <2>3, <1>3
  <2> QED
    BY <2>2, <2>4, <2>5
<1>5. Sent(codes, event) \in [1 .. n -> Cells]
  BY <1>1, <1>4 DEF Sent
<1>6. Sent(codes, event) \in Seq(Cells) /\ Len(Sent(codes, event)) = n
  BY <1>5
<1>7. codes # <<>> => n \in 1 .. n
  BY <1>1
<1> QED
  BY <1>1, <1>3, <1>6, <1>7

LEMMA JoinedIs ==
    ASSUME NEW S, NEW s \in Seq(S), NEW t \in Seq(S)
    PROVE  /\ s \o t \in Seq(S) /\ Len(s \o t) = Len(s) + Len(t)
           /\ \A i \in 1 .. Len(s) : (s \o t)[i] = s[i]
           /\ \A i \in 1 .. Len(t) : (s \o t)[Len(s) + i] = t[i]
OBVIOUS

\* Events follow each other.
LEMMA LeadsAcross ==
    ASSUME NEW S, NEW s \in Seq(S), NEW t \in Seq(S), NEW q, Leads(q, s), Leads("between", t)
    PROVE  Leads(q, s \o t)
<1>1. PICK n \in Nat, m \in Nat : Len(s) = n /\ Len(t) = m /\ Len(s \o t) = n + m
  BY JoinedIs
<1>2. PICK u \in [1 .. n + 1 -> Places] :
        /\ u[1] = q /\ u[n + 1] = "between"
        /\ \A i \in 1 .. n : Moves(u[i], s[i], u[i + 1])
  BY <1>1 DEF Leads
<1>3. PICK v \in [1 .. m + 1 -> Places] :
        /\ v[1] = "between" /\ v[m + 1] = "between"
        /\ \A i \in 1 .. m : Moves(v[i], t[i], v[i + 1])
  BY <1>1 DEF Leads
<1> DEFINE p == [i \in 1 .. n + m + 1 |-> IF i <= n THEN u[i] ELSE v[i - n]]
<1>4. \A i \in 1 .. n : p[i] = u[i]
  OBVIOUS
<1>5. \A i \in 1 .. m + 1 : p[n + i] = v[i]
  <2>1. TAKE i \in 1 .. m + 1
  <2>2. n + i \in 1 .. n + m + 1 /\ ~(n + i <= n) /\ (n + i) - n = i
    OBVIOUS
  <2> QED
    BY <2>2
<1>6. p \in [1 .. n + m + 1 -> Places]
  <2>1. ASSUME NEW i \in 1 .. n + m + 1 PROVE p[i] \in Places
    <3>1. CASE i <= n
      BY <3>1, <1>4
    <3>2. CASE ~(i <= n)
      <4>1. i - n \in 1 .. m + 1
        BY <3>2
      <4> QED
        BY <3>2, <4>1
    <3> QED
      BY <3>1, <3>2
  <2> QED
    BY <2>1
<1> HIDE DEF p
<1>7. p[n + 1] = u[n + 1]
  BY <1>2, <1>3, <1>5
<1>8. p[1] = q
  <2>1. CASE n = 0
    BY <2>1, <1>7, <1>2
  <2>2. CASE n # 0
    BY <2>2, <1>4, <1>2
  <2> QED
    BY <2>1, <2>2
<1>9. p[n + m + 1] = "between"
  <2>1. n + m + 1 = n + (m + 1) /\ m + 1 \in 1 .. m + 1
    OBVIOUS
  <2> QED
    BY <2>1, <1>5, <1>3
<1>10. ASSUME NEW i \in 1 .. n + m PROVE Moves(p[i], (s \o t)[i], p[i + 1])
  <2>1. CASE i <= n
    <3>1. p[i] = u[i] /\ p[i + 1] = u[i + 1]
      <4>1. i \in 1 .. n /\ (i + 1 \in 1 .. n \/ i = n)
        BY <2>1
      <4> QED
        BY <4>1, <1>4, <1>7
    <3>2. i \in 1 .. n /\ (s \o t)[i] = s[i]
      BY <2>1, <1>1, JoinedIs
    <3> QED
      BY <3>1, <3>2, <1>2
  <2>2. CASE ~(i <= n)
    <3>1. PICK j \in 1 .. m : i = n + j
      <4>1. i - n \in 1 .. m /\ i = n + (i - n)
        BY <2>2
      <4> QED
        BY <4>1
    <3>2. p[i] = v[j] /\ p[i + 1] = v[j + 1]
      <4>1. i + 1 = n + (j + 1) /\ j \in 1 .. m + 1 /\ j + 1 \in 1 .. m + 1
        BY <3>1
      <4> QED
        BY <3>1, <4>1, <1>5
    <3>3. (s \o t)[i] = t[j]
      BY <3>1, <1>1, JoinedIs
    <3> QED
      BY <3>2, <3>3, <1>3
  <2> QED
    BY <2>1, <2>2
<1> QED
  BY <1>1, <1>6, <1>8, <1>9, <1>10 DEF Leads

Events == [key : Keys \cup {NO}, down : BOOLEAN]

LEMMA Halves ==
    /\ \A k \in Nat : (2 * k + 1) % 2 = 1 /\ (2 * k) % 2 = 0 /\ (2 * k) \div 2 = k
    /\ \A i \in Nat : \E k \in Nat : i = 2 * k \/ i = 2 * k + 1
<1>1. \A k \in Nat : (2 * k + 1) % 2 = 1 /\ (2 * k) % 2 = 0 /\ (2 * k) \div 2 = k
  OBVIOUS
<1>2. \A i \in Nat : i \div 2 \in Nat /\ (i = 2 * (i \div 2) \/ i = 2 * (i \div 2) + 1)
  OBVIOUS
<1> QED
  BY <1>1, <1>2

\* An event whose codes are all escaped, every one but the last silent.
LEMMA PairsLead ==
    ASSUME NEW codes \in Seq(0 .. 255), NEW event \in Events,
           NEW n \in Nat, Len(codes) = 2 * n + 2,
           \A i \in 0 .. n : codes[2 * i + 1] = E0,
           \A i \in 1 .. n : codes[2 * i] \in SilentCodes,
           Moves("escaped", Cell(codes[2 * n + 2], event), "between")
    PROVE  Leads("between", Sent(codes, event))
<1> DEFINE p == [i \in 1 .. 2 * n + 3 |->
                    IF i = 1 \/ i = 2 * n + 3 THEN "between"
                    ELSE IF i % 2 = 1 THEN "within" ELSE "escaped"]
           sent == Sent(codes, event)
<1>1. p \in [1 .. 2 * n + 3 -> Places]
  BY DEF Places
<1>2. \A k \in 1 .. n + 1 : p[2 * k] = "escaped"
  BY Halves
<1>3. \A k \in 1 .. n : p[2 * k + 1] = "within"
  BY Halves
<1>4. p[1] = "between" /\ p[2 * n + 3] = "between"
  OBVIOUS
<1> HIDE DEF p
<1>5. /\ Len(sent) = 2 * n + 2
      /\ \A i \in 1 .. 2 * n + 1 : sent[i] = Cell(codes[i], Partial)
      /\ sent[2 * n + 2] = Cell(codes[2 * n + 2], event)
  <2>1. codes # <<>>
    OBVIOUS
  <2> QED
    BY <2>1, SentIs DEF Events
<1> HIDE DEF sent
<1>6. ASSUME NEW i \in 1 .. 2 * n + 2 PROVE Moves(p[i], sent[i], p[i + 1])
  <2>1. PICK k \in Nat : i = 2 * k \/ i = 2 * k + 1
    <3>1. i \in Nat
      OBVIOUS
    <3> QED
      BY <3>1, Halves
  <2>2. CASE i = 2 * k + 1
    <3>1. k \in 0 .. n /\ i \in 1 .. 2 * n + 1 /\ i + 1 = 2 * (k + 1) /\ k + 1 \in 1 .. n + 1
      BY <2>2
    <3>2. p[i] \in {"between", "within"}
      <4>1. k = 0 \/ k \in 1 .. n
        BY <3>1
      <4> QED
        BY <4>1, <2>2, <1>3, <1>4
    <3>3. sent[i] = Cell(E0, Partial) /\ p[i + 1] = "escaped"
      BY <3>1, <2>2, <1>2, <1>5
    <3> QED
      BY <3>2, <3>3 DEF Moves, EscapeMove
  <2>3. CASE i = 2 * k /\ k \in 1 .. n
    <3>1. i \in 1 .. 2 * n + 1 /\ i + 1 = 2 * k + 1 /\ k \in 1 .. n + 1
      BY <2>3
    <3>2. p[i] = "escaped" /\ p[i + 1] = "within"
      BY <3>1, <2>3, <1>2, <1>3
    <3>3. sent[i] = Cell(codes[2 * k], Partial) /\ codes[2 * k] \in SilentCodes
      BY <3>1, <2>3, <1>5
    <3> QED
      BY <3>2, <3>3 DEF Moves, SilentMove
  <2>4. CASE i = 2 * k /\ k \notin 1 .. n
    <3>1. i = 2 * n + 2 /\ i + 1 = 2 * n + 3 /\ i = 2 * (n + 1) /\ n + 1 \in 1 .. n + 1
      BY <2>4
    <3>2. p[i] = "escaped" /\ p[i + 1] = "between"
      BY <3>1, <1>2, <1>4
    <3> QED
      BY <3>1, <3>2, <1>5
  <2> QED
    BY <2>1, <2>2, <2>3, <2>4
<1>7. 2 * n + 2 + 1 = 2 * n + 3
  OBVIOUS
<1>8. Leads("between", sent)
  BY <1>1, <1>4, <1>5, <1>6, <1>7 DEF Leads
<1> QED
  BY <1>8 DEF sent

LEMMA EscapedIs ==
    ASSUME NEW S \in SUBSET (0 .. 255), NEW s \in Seq(S)
    PROVE  /\ Escaped(s) \in Seq(0 .. 255) /\ Len(Escaped(s)) = 2 * Len(s)
           /\ \A i \in 1 .. Len(s) : /\ Escaped(s)[2 * i - 1] = E0
                                     /\ Escaped(s)[2 * i] = s[i] /\ s[i] \in S
<1>1. PICK n \in Nat : Len(s) = n
  OBVIOUS
<1>2. \A i \in 1 .. n : s[i] \in S
  BY <1>1
<1>3. ASSUME NEW i \in 1 .. n
      PROVE  Escaped(s)[2 * i - 1] = E0 /\ Escaped(s)[2 * i] = s[i]
  <2>1. 2 * i - 1 \in 1 .. 2 * n /\ 2 * i \in 1 .. 2 * n
    OBVIOUS
  <2>2. (2 * i - 1) % 2 = 1 /\ (2 * i) % 2 = 0 /\ (2 * i) \div 2 = i
    OBVIOUS
  <2> QED
    BY <2>1, <2>2, <1>1 DEF Escaped
<1>4. ASSUME NEW j \in 1 .. 2 * n PROVE Escaped(s)[j] \in 0 .. 255
  <2>1. PICK k \in Nat : j = 2 * k \/ j = 2 * k + 1
    <3>1. j \in Nat
      OBVIOUS
    <3> QED
      BY <3>1, Halves
  <2>2. \/ j = 2 * k /\ k \in 1 .. n
        \/ j = 2 * (k + 1) - 1 /\ k + 1 \in 1 .. n
    BY <2>1
  <2>3. CASE j = 2 * k /\ k \in 1 .. n
    BY <2>3, <1>2, <1>3
  <2>4. CASE j = 2 * (k + 1) - 1 /\ k + 1 \in 1 .. n
    <3>1. Escaped(s)[j] = E0
      BY <2>4, <1>3
    <3> QED
      BY <3>1 DEF E0
  <2> QED
    BY <2>2, <2>3, <2>4
<1>5. Escaped(s) \in [1 .. 2 * n -> 0 .. 255]
  BY <1>1, <1>4 DEF Escaped
<1>6. Escaped(s) \in Seq(0 .. 255) /\ Len(Escaped(s)) = 2 * n
  <2>1. 2 * n \in Nat
    OBVIOUS
  <2> QED
    BY <2>1, <1>5
<1> QED
  BY <1>1, <1>2, <1>3, <1>6

\* Codes that may be sent for `event`: whole, and with E1 only if `pauses`.
Whole(codes, event, pauses) ==
    /\ codes \in Seq(0 .. 255)
    /\ event \in Events
    /\ Leads("between", Sent(codes, event))
    /\ \A i \in 1 .. Len(codes) : codes[i] = E1 => pauses
    /\ codes = <<>> => event = Release("pause")

LEMMA EventTypes ==
    ASSUME NEW k \in Keys
    PROVE  Press(k) \in Events /\ Release(k) \in Events
BY DEF Press, Release, Event, Events

\* A gray key's code after silent ones.
LEMMA SilentFirst ==
    ASSUME NEW s \in Seq(SilentCodes), NEW c \in 0 .. 255, c # E1, NEW event \in Events,
           NEW pauses, Moves("escaped", Cell(c, event), "between")
    PROVE  Whole(Escaped(s) \o <<E0, c>>, event, pauses)
<1> DEFINE codes == Escaped(s) \o <<E0, c>>
<1>1. PICK n \in Nat : Len(s) = n
  OBVIOUS
<1>2. SilentCodes \in SUBSET (0 .. 255)
  BY DEF SilentCodes
<1>3. /\ Escaped(s) \in Seq(0 .. 255) /\ Len(Escaped(s)) = 2 * n
      /\ \A i \in 1 .. n : /\ Escaped(s)[2 * i - 1] = E0
                           /\ Escaped(s)[2 * i] \in SilentCodes
  <2>1. /\ Escaped(s) \in Seq(0 .. 255) /\ Len(Escaped(s)) = 2 * Len(s)
        /\ \A i \in 1 .. Len(s) : /\ Escaped(s)[2 * i - 1] = E0
                                  /\ Escaped(s)[2 * i] = s[i] /\ s[i] \in SilentCodes
    BY <1>2, EscapedIs, Zenon
  <2> QED
    BY <1>1, <2>1, Zenon
<1>4. /\ <<E0, c>> \in Seq(0 .. 255) /\ Len(<<E0, c>>) = 2
      /\ <<E0, c>>[1] = E0 /\ <<E0, c>>[2] = c
  BY DEF E0
<1>5. /\ codes \in Seq(0 .. 255) /\ Len(codes) = 2 * n + 2
      /\ \A i \in 1 .. 2 * n : codes[i] = Escaped(s)[i]
      /\ codes[2 * n + 1] = E0 /\ codes[2 * n + 2] = c
  BY <1>3, <1>4, JoinedIs
<1> HIDE DEF codes
<1>6. \A i \in 0 .. n : codes[2 * i + 1] = E0
  <2>1. TAKE i \in 0 .. n
  <2>2. CASE i = n
    BY <2>2, <1>5
  <2>3. CASE i # n
    <3>1. i + 1 \in 1 .. n /\ 2 * i + 1 = 2 * (i + 1) - 1 /\ 2 * i + 1 \in 1 .. 2 * n
      BY <2>3
    <3> QED
      BY <3>1, <1>3, <1>5
  <2> QED
    BY <2>2, <2>3
<1>7. \A i \in 1 .. n : codes[2 * i] \in SilentCodes
  <2>1. TAKE i \in 1 .. n
  <2>2. 2 * i \in 1 .. 2 * n
    OBVIOUS
  <2> QED
    BY <2>2, <1>3, <1>5
<1>8. Leads("between", Sent(codes, event))
  BY <1>5, <1>6, <1>7, PairsLead
<1>9. ASSUME NEW i \in 1 .. Len(codes) PROVE codes[i] # E1
  <2>1. PICK k \in Nat : i = 2 * k \/ i = 2 * k + 1
    <3>1. i \in Nat
      OBVIOUS
    <3> QED
      BY <3>1, Halves
  <2>2. \/ i = 2 * k + 1 /\ k \in 0 .. n
        \/ i = 2 * k /\ k \in 1 .. n
        \/ i = 2 * n + 2
    BY <2>1, <1>5
  <2>3. E0 # E1 /\ E1 \notin SilentCodes
    BY DEF E0, E1, SilentCodes
  <2> QED
    BY <2>2, <2>3, <1>5, <1>6, <1>7, ZenonT(30)
<1>10. codes # <<>>
  BY <1>5
<1> QED
  BY <1>5, <1>8, <1>9, <1>10 DEF Whole, codes

\* A gray key's code before the ones that press a shift key again.
LEMMA SilentLast ==
    ASSUME NEW s \in Seq(ShiftCodes), NEW c \in 0 .. 255, c # E1, NEW event \in Events,
           NEW pauses,
           s = <<>> => Moves("escaped", Cell(c, event), "between"),
           s # <<>> => /\ c \in SilentCodes
                       /\ \A d \in ShiftCodes : Moves("escaped", Cell(d, event), "between")
    PROVE  Whole(<<E0, c>> \o Escaped(s), event, pauses)
<1> DEFINE codes == <<E0, c>> \o Escaped(s)
<1>1. PICK n \in Nat : Len(s) = n
  OBVIOUS
<1>2. ShiftCodes \in SUBSET (0 .. 255)
  BY DEF ShiftCodes
<1>3. /\ Escaped(s) \in Seq(0 .. 255) /\ Len(Escaped(s)) = 2 * n
      /\ \A i \in 1 .. n : /\ Escaped(s)[2 * i - 1] = E0
                           /\ Escaped(s)[2 * i] \in ShiftCodes
  <2>1. /\ Escaped(s) \in Seq(0 .. 255) /\ Len(Escaped(s)) = 2 * Len(s)
        /\ \A i \in 1 .. Len(s) : /\ Escaped(s)[2 * i - 1] = E0
                                  /\ Escaped(s)[2 * i] = s[i] /\ s[i] \in ShiftCodes
    BY <1>2, EscapedIs, Zenon
  <2> QED
    BY <1>1, <2>1, Zenon
<1>4. /\ <<E0, c>> \in Seq(0 .. 255) /\ Len(<<E0, c>>) = 2
      /\ <<E0, c>>[1] = E0 /\ <<E0, c>>[2] = c
  BY DEF E0
<1>5. /\ codes \in Seq(0 .. 255) /\ Len(codes) = 2 * n + 2
      /\ \A i \in 1 .. 2 * n : codes[2 + i] = Escaped(s)[i]
      /\ codes[1] = E0 /\ codes[2] = c
  BY <1>3, <1>4, JoinedIs
<1> HIDE DEF codes
<1>6. \A i \in 0 .. n : codes[2 * i + 1] = E0
  <2>1. TAKE i \in 0 .. n
  <2>2. CASE i = 0
    BY <2>2, <1>5
  <2>3. CASE i # 0
    <3>1. i \in 1 .. n /\ 2 * i + 1 = 2 + (2 * i - 1) /\ 2 * i - 1 \in 1 .. 2 * n
      BY <2>3
    <3> QED
      BY <3>1, <1>3, <1>5
  <2> QED
    BY <2>2, <2>3
<1>7. \A i \in 1 .. n : codes[2 * (i + 1)] \in ShiftCodes
  <2>1. TAKE i \in 1 .. n
  <2>2. 2 * i \in 1 .. 2 * n /\ 2 * (i + 1) = 2 + 2 * i
    OBVIOUS
  <2> QED
    BY <2>2, <1>3, <1>5
<1>8. \A i \in 1 .. n : codes[2 * i] \in SilentCodes
  <2>1. TAKE i \in 1 .. n
  <2>2. CASE i = 1
    <3>1. s # <<>>
      BY <2>1, <1>1
    <3> QED
      BY <3>1, <2>2, <1>5
  <2>3. CASE i # 1
    <3>1. PICK j \in 1 .. n : i = j + 1
      <4>1. i - 1 \in 1 .. n /\ i = (i - 1) + 1
        BY <2>3
      <4> QED
        BY <4>1
    <3> QED
      BY <3>1, <1>7 DEF SilentCodes, ShiftCodes
  <2> QED
    BY <2>2, <2>3
<1>9. Moves("escaped", Cell(codes[2 * n + 2], event), "between")
  <2>1. CASE n = 0
    <3>1. s = <<>> /\ 2 * n + 2 = 2
      BY <2>1, <1>1
    <3> QED
      BY <3>1, <1>5
  <2>2. CASE n # 0
    <3>1. s # <<>> /\ n \in 1 .. n /\ 2 * n + 2 = 2 * (n + 1)
      BY <2>2, <1>1
    <3> QED
      BY <3>1, <1>7
  <2> QED
    BY <2>1, <2>2
<1>10. Leads("between", Sent(codes, event))
  BY <1>5, <1>6, <1>8, <1>9, PairsLead
<1>11. ASSUME NEW i \in 1 .. Len(codes) PROVE codes[i] # E1
  <2>1. PICK k \in Nat : i = 2 * k \/ i = 2 * k + 1
    <3>1. i \in Nat
      OBVIOUS
    <3> QED
      BY <3>1, Halves
  <2>2. \/ i = 2 * k + 1 /\ k \in 0 .. n
        \/ i = 2 * k /\ k \in 1 .. n
        \/ i = 2 * (n + 1) /\ (n = 0 \/ n \in 1 .. n)
    BY <2>1, <1>5
  <2>3. E0 # E1 /\ E1 \notin SilentCodes /\ E1 \notin ShiftCodes
    BY DEF E0, E1, SilentCodes, ShiftCodes
  <2>4. n = 0 => 2 * (n + 1) = 2
    OBVIOUS
  <2>5. CASE i = 2 * k + 1 /\ k \in 0 .. n
    BY <2>3, <2>5, <1>6
  <2>6. CASE i = 2 * k /\ k \in 1 .. n
    BY <2>3, <2>6, <1>8
  <2>7. CASE i = 2 * (n + 1) /\ (n = 0 \/ n \in 1 .. n)
    BY <2>3, <2>4, <2>7, <1>5, <1>7
  <2> QED
    BY <2>2, <2>5, <2>6, <2>7
<1>12. codes # <<>>
  BY <1>5
<1> QED
  BY <1>5, <1>10, <1>11, <1>12 DEF Whole, codes

LEMMA SingleWhole ==
    ASSUME NEW c \in 0 .. 255, c # E1, NEW event \in Events, NEW pauses,
           Moves("between", Cell(c, event), "between")
    PROVE  Whole(<<c>>, event, pauses)
<1>1. <<c>> \in Seq(0 .. 255) /\ Len(<<c>>) = 1 /\ <<c>>[1] = c /\ <<c>> # <<>>
  OBVIOUS
<1>2. Len(Sent(<<c>>, event)) = 1 /\ Sent(<<c>>, event)[1] = Cell(c, event)
  BY <1>1, SentIs DEF Events
<1> DEFINE p == [i \in 1 .. 2 |-> "between"]
<1>3. p \in [1 .. 2 -> Places] /\ p[1] = "between" /\ p[2] = "between"
  BY DEF Places
<1> HIDE DEF p
<1>4. Leads("between", Sent(<<c>>, event))
  <2>1. p \in [1 .. 1 + 1 -> Places] /\ p[1 + 1] = "between"
    BY <1>3
  <2>2. \A i \in 1 .. 1 : Moves(p[i], Sent(<<c>>, event)[i], p[i + 1])
    BY <1>2, <1>3
  <2> QED
    BY <2>1, <2>2, <1>2, <1>3 DEF Leads
<1>5. \A i \in 1 .. Len(<<c>>) : <<c>>[i] # E1
  BY <1>1
<1> QED
  BY <1>1, <1>4, <1>5 DEF Whole

LEMMA PairWhole ==
    ASSUME NEW c \in 0 .. 255, c # E1, NEW event \in Events, NEW pauses,
           Moves("escaped", Cell(c, event), "between")
    PROVE  Whole(<<E0, c>>, event, pauses)
<1> DEFINE codes == <<E0, c>>
<1>1. codes \in Seq(0 .. 255) /\ Len(codes) = 2 /\ codes[1] = E0 /\ codes[2] = c /\ codes # <<>>
  BY DEF E0
<1>2. E0 # E1
  BY DEF E0, E1
<1> HIDE DEF codes
<1>3. Leads("between", Sent(codes, event))
  <2>1. \A i \in 0 .. 0 : codes[2 * i + 1] = E0
    BY <1>1
  <2>2. 2 * 0 + 2 = 2 /\ 1 .. 0 = {}
    OBVIOUS
  <2> QED
    BY <1>1, <2>1, <2>2, PairsLead, ZenonT(30)
<1>4. \A i \in 1 .. Len(codes) : codes[i] # E1
  BY <1>1, <1>2
<1>5. Whole(codes, event, pauses)
  BY <1>1, <1>3, <1>4 DEF Whole
<1> QED
  BY <1>5 DEF codes

LEMMA BreakWhole ==
    ASSUME NEW event \in Events, event = Press("pause"), NEW pauses
    PROVE  Whole(<<E0, \h46, E0, \hC6>>, event, pauses)
<1> DEFINE codes == <<E0, \h46, E0, \hC6>>
<1>1. /\ codes \in Seq(0 .. 255) /\ Len(codes) = 4 /\ codes # <<>>
      /\ codes[1] = E0 /\ codes[2] = 70 /\ codes[3] = E0 /\ codes[4] = 198
  BY DEF E0
<1>2. E0 # E1 /\ E1 # 70 /\ E1 # 198
  BY DEF E0, E1
<1> HIDE DEF codes
<1>3. Leads("between", Sent(codes, event))
  <2>1. \A i \in 0 .. 1 : codes[2 * i + 1] = E0
    BY <1>1
  <2>2. \A i \in 1 .. 1 : codes[2 * i] \in SilentCodes
    BY <1>1 DEF SilentCodes
  <2>3. Moves("escaped", Cell(198, event), "between")
    BY DEF Moves, ClosingMove
  <2>4. Len(codes) = 2 * 1 + 2 /\ codes[2 * 1 + 2] = 198
    BY <1>1
  <2> QED
    BY <1>1, <2>1, <2>2, <2>3, <2>4, PairsLead
<1>4. \A i \in 1 .. Len(codes) : codes[i] # E1
  BY <1>1, <1>2
<1>5. Whole(codes, event, pauses)
  BY <1>1, <1>3, <1>4 DEF Whole
<1> QED
  BY <1>5 DEF codes

LEMMA PauseWhole ==
    ASSUME NEW event \in Events, event = Press("pause"), NEW pauses, pauses
    PROVE  Whole(<<E1, \h1D, \h45, E1, \h9D, \hC5>>, event, pauses)
<1> DEFINE codes == <<E1, \h1D, \h45, E1, \h9D, \hC5>>
           p == <<"between", "pause1", "pause2", "pause3", "pause4", "pause5", "between">>
<1>1. /\ codes \in Seq(0 .. 255) /\ Len(codes) = 6 /\ codes # <<>>
      /\ codes[1] = E1 /\ codes[2] = 29 /\ codes[3] = 69 /\ codes[4] = E1
      /\ codes[5] = 157 /\ codes[6] = 197
  BY DEF E1
<1>2. /\ p \in [1 .. 7 -> Places]
      /\ p[1] = "between" /\ p[2] = "pause1" /\ p[3] = "pause2" /\ p[4] = "pause3"
      /\ p[5] = "pause4" /\ p[6] = "pause5" /\ p[7] = "between"
  BY DEF Places
<1> HIDE DEF codes, p
<1> DEFINE sent == Sent(codes, event)
<1>3. Len(sent) = 6 /\ sent[6] = Cell(codes[6], event)
      /\ \A i \in 1 .. 5 : sent[i] = Cell(codes[i], Partial)
  <2>1. codes \in Seq(0 .. 255) /\ codes # <<>> /\ Len(codes) = 6
    BY <1>1
  <2>2. /\ Len(sent) = Len(codes) /\ sent[Len(codes)] = Cell(codes[Len(codes)], event)
        /\ \A i \in 1 .. Len(codes) : i # Len(codes) => sent[i] = Cell(codes[i], Partial)
    BY <2>1, SentIs DEF Events
  <2>3. \A i \in 1 .. 5 : i \in 1 .. 6 /\ i # 6
    OBVIOUS
  <2> HIDE DEF sent
  <2> QED
    BY <2>1, <2>2, <2>3
<1> HIDE DEF sent
<1>4. /\ sent[1] = Cell(E1, Partial) /\ sent[2] = Cell(29, Partial)
      /\ sent[3] = Cell(69, Partial) /\ sent[4] = Cell(E1, Partial)
      /\ sent[5] = Cell(157, Partial) /\ sent[6] = Cell(197, event)
  BY <1>1, <1>3
<1>5. \A i \in 1 .. 6 : PauseMove(p[i], sent[i], p[i + 1])
  <2>1. PauseMove(p[1], sent[1], p[2])
    BY <1>2, <1>4 DEF PauseMove
  <2>2. PauseMove(p[2], sent[2], p[3])
    BY <1>2, <1>4 DEF PauseMove
  <2>3. PauseMove(p[3], sent[3], p[4])
    BY <1>2, <1>4 DEF PauseMove
  <2>4. PauseMove(p[4], sent[4], p[5])
    BY <1>2, <1>4 DEF PauseMove
  <2>5. PauseMove(p[5], sent[5], p[6])
    BY <1>2, <1>4 DEF PauseMove
  <2>6. PauseMove(p[6], sent[6], p[7])
    BY <1>2, <1>4 DEF PauseMove
  <2>7. TAKE i \in 1 .. 6
  <2>8. i = 1 \/ i = 2 \/ i = 3 \/ i = 4 \/ i = 5 \/ i = 6
    OBVIOUS
  <2>9. 1 + 1 = 2 /\ 2 + 1 = 3 /\ 3 + 1 = 4 /\ 4 + 1 = 5 /\ 5 + 1 = 6 /\ 6 + 1 = 7
    OBVIOUS
  <2> QED
    BY <2>1, <2>2, <2>3, <2>4, <2>5, <2>6, <2>8, <2>9
<1>6. Leads("between", sent)
  <2>1. 6 + 1 = 7
    OBVIOUS
  <2> QED
    BY <1>2, <1>3, <1>5, <2>1 DEF Leads, Moves
<1>7. Whole(codes, event, pauses)
  BY <1>1, <1>6 DEF Whole, sent
<1> QED
  BY <1>7 DEF codes

---------------------------------------------------------------------------
(* The codes of every event of a key are whole. *)

LEMMA HeldShiftsIs ==
    /\ HeldShifts \in Seq(ShiftCodes)
    /\ Broken(HeldShifts) \in Seq(SilentCodes)
<1> DEFINE l == IF "leftShift" \in held THEN <<\h2A>> ELSE <<>>
           r == IF "rightShift" \in held THEN <<\h36>> ELSE <<>>
<1>1. l \in Seq(ShiftCodes) /\ r \in Seq(ShiftCodes)
  <2>1. \h2A \in ShiftCodes /\ \h36 \in ShiftCodes
    BY DEF ShiftCodes
  <2>2. \A c \in ShiftCodes : <<c>> \in Seq(ShiftCodes)
    OBVIOUS
  <2>3. <<>> \in Seq(ShiftCodes)
    OBVIOUS
  <2> QED
    BY <2>1, <2>2, <2>3
<1>2. HeldShifts = l \o r
  BY DEF HeldShifts
<1> HIDE DEF l, r
<1>3. HeldShifts \in Seq(ShiftCodes)
  BY <1>1, <1>2, JoinedIs
<1>4. PICK n \in Nat : DOMAIN HeldShifts = 1 .. n /\ \A i \in 1 .. n : HeldShifts[i] \in ShiftCodes
  BY <1>3
<1>5. \A c \in ShiftCodes : c + 128 \in SilentCodes
  BY DEF ShiftCodes, SilentCodes
<1>6. Broken(HeldShifts) \in [1 .. n -> SilentCodes]
  BY <1>4, <1>5 DEF Broken
<1>7. Broken(HeldShifts) \in Seq(SilentCodes)
  BY <1>6
<1> QED
  BY <1>3, <1>7

LEMMA PressWhole ==
    ASSUME NEW k \in Keys
    PROVE  Whole(PressCodes(k), Press(k), held \cap KeysOf.CTL = {})
<1>0. k \in DOMAIN Plain \/ k \in DOMAIN Gray \/ k = "pause"
  BY KeysAssumption
<1>1. CASE k \in DOMAIN Plain
  <2>1. PressCodes(k) = <<Plain[k]>>
    BY <1>1, PlainKeys, GrayKeys DEF PressCodes
  <2>2. Plain[k] \in 0 .. 255 /\ Plain[k] # E1
    BY <1>1, PlainKeys DEF E1
  <2>3. Moves("between", Cell(Plain[k], Press(k)), "between")
    BY <1>1 DEF Moves, PlainMove
  <2> QED
    BY <2>1, <2>2, <2>3, SingleWhole, EventTypes
<1>2. CASE k \in DOMAIN Gray
  <2>1. PressCodes(k) = CancelShift(k) \o <<E0, Gray[k]>>
    BY <1>2, PlainKeys, GrayKeys DEF PressCodes
  <2>2. Gray[k] \in 0 .. 255 /\ Gray[k] # E1
    BY <1>2, GrayKeys DEF E1
  <2>3. Moves("escaped", Cell(Gray[k], Press(k)), "between")
    BY <1>2 DEF Moves, GrayMove
  <2>4. CASE k \in Navigation
    BY <2>1, <2>2, <2>3, <2>4, SilentFirst, HeldShiftsIs, EventTypes, ZenonT(30) DEF CancelShift
  <2>5. CASE k \notin Navigation
    <3>1. PressCodes(k) = <<E0, Gray[k]>>
      BY <2>1, <2>5 DEF CancelShift
    <3> QED
      BY <3>1, <2>2, <2>3, PairWhole, EventTypes
  <2> QED
    BY <2>4, <2>5
<1>3. CASE k = "pause"
  <2>1. PressCodes(k) = IF held \cap KeysOf.CTL = {}
                        THEN <<E1, \h1D, \h45, E1, \h9D, \hC5>>
                        ELSE <<E0, \h46, E0, \hC6>>
    BY <1>3, PlainKeys, GrayKeys DEF PressCodes
  <2>2. CASE held \cap KeysOf.CTL = {}
    BY <2>1, <2>2, <1>3, PauseWhole, EventTypes, ZenonT(30)
  <2>3. CASE held \cap KeysOf.CTL # {}
    BY <2>1, <2>3, <1>3, BreakWhole, EventTypes
  <2> QED
    BY <2>2, <2>3
<1> QED
  BY <1>0, <1>1, <1>2, <1>3

LEMMA RepeatWhole ==
    ASSUME NEW k \in Keys, k # "pause", NEW pauses
    PROVE  Whole(RepeatCodes(k), Press(k), pauses)
<1>0. k \in DOMAIN Plain \/ k \in DOMAIN Gray
  BY KeysAssumption
<1>1. CASE k \in DOMAIN Plain
  <2>1. RepeatCodes(k) = <<Plain[k]>>
    BY <1>1 DEF RepeatCodes
  <2>2. Plain[k] \in 0 .. 255 /\ Plain[k] # E1
    BY <1>1, PlainKeys DEF E1
  <2>3. Moves("between", Cell(Plain[k], Press(k)), "between")
    BY <1>1 DEF Moves, PlainMove
  <2> QED
    BY <2>1, <2>2, <2>3, SingleWhole, EventTypes
<1>2. CASE k \in DOMAIN Gray
  <2>1. RepeatCodes(k) = <<E0, Gray[k]>>
    BY <1>2, PlainKeys, GrayKeys DEF RepeatCodes
  <2>2. Gray[k] \in 0 .. 255 /\ Gray[k] # E1
    BY <1>2, GrayKeys DEF E1
  <2>3. Moves("escaped", Cell(Gray[k], Press(k)), "between")
    BY <1>2 DEF Moves, GrayMove
  <2> QED
    BY <2>1, <2>2, <2>3, PairWhole, EventTypes
<1> QED
  BY <1>0, <1>1, <1>2

LEMMA ReleaseWhole ==
    ASSUME NEW k \in Keys, NEW pauses
    PROVE  Whole(ReleaseCodes(k), Release(k), pauses)
<1>0. k \in DOMAIN Plain \/ k \in DOMAIN Gray \/ k = "pause"
  BY KeysAssumption
<1>1. CASE k \in DOMAIN Plain
  <2>1. ReleaseCodes(k) = <<Plain[k] + 128>>
    BY <1>1, PlainKeys, GrayKeys DEF ReleaseCodes
  <2>2. Plain[k] + 128 \in 0 .. 255 /\ Plain[k] + 128 # E1
    BY <1>1, PlainKeys DEF E1
  <2>3. Moves("between", Cell(Plain[k] + 128, Release(k)), "between")
    BY <1>1 DEF Moves, PlainMove
  <2> QED
    BY <2>1, <2>2, <2>3, SingleWhole, EventTypes
<1>2. CASE k \in DOMAIN Gray
  <2>0. PICK c : c = Gray[k] + 128
    OBVIOUS
  <2>1. ReleaseCodes(k) = <<E0, c>> \o RestoreShift(k)
    BY <2>0, <1>2, PlainKeys, GrayKeys DEF ReleaseCodes
  <2>2. c \in 0 .. 255 /\ c # E1
    BY <2>0, <1>2, GrayKeys DEF E1
  <2>3. Moves("escaped", Cell(c, Release(k)), "between")
    BY <2>0, <1>2 DEF Moves, GrayMove
  <2>4. CASE k \in Navigation
    <3>1. c \in SilentCodes
      BY <2>0, <2>4, GrayKeys DEF Navigation, SilentCodes
    <3>2. \A d \in ShiftCodes : Moves("escaped", Cell(d, Release(k)), "between")
      BY <2>4 DEF Moves, ClosingMove
    <3>3. ReleaseCodes(k) = <<E0, c>> \o Escaped(HeldShifts)
      BY <2>1, <2>4 DEF RestoreShift
    <3> QED
      BY <3>1, <3>2, <3>3, <2>2, <2>3, SilentLast, HeldShiftsIs, EventTypes
  <2>5. CASE k \notin Navigation
    <3>1. ReleaseCodes(k) = <<E0, c>>
      BY <2>1, <2>5 DEF RestoreShift
    <3> QED
      BY <3>1, <2>2, <2>3, PairWhole, EventTypes
  <2> QED
    BY <2>4, <2>5
<1>3. CASE k = "pause"
  <2>1. ReleaseCodes(k) = <<>>
    BY <1>3, PlainKeys, GrayKeys DEF ReleaseCodes
  <2>2. Sent(<<>>, Release(k)) = <<>>
    BY DEF Sent
  <2>3. Leads("between", <<>>)
    <3> DEFINE p == [i \in 1 .. 1 |-> "between"]
    <3>1. p \in [1 .. 0 + 1 -> Places] /\ p[1] = "between" /\ p[0 + 1] = "between"
      BY DEF Places
    <3>2. Len(<<>>) = 0 /\ \A i \in 1 .. 0 : Moves(p[i], <<>>[i], p[i + 1])
      OBVIOUS
    <3> HIDE DEF p
    <3> QED
      BY <3>1, <3>2 DEF Leads
  <2>4. <<>> \in Seq(0 .. 255) /\ \A i \in 1 .. Len(<<>>) : <<>>[i] = E1 => pauses
    OBVIOUS
  <2> QED
    BY <2>1, <2>2, <2>3, <2>4, <1>3, EventTypes DEF Whole
<1> QED
  BY <1>0, <1>1, <1>2, <1>3

---------------------------------------------------------------------------
(* Sending keeps the invariant. *)

\* Ctrl after the codes of an event: as before within it, and at its end what
\* the event says.
LEMMA SendKeepsCtrl ==
    ASSUME Types, Ctrl, NEW codes, NEW event, ~lost,
           Whole(codes, event, held \cap KeysOf.CTL = {}),
           scancodes' = scancodes \o Sent(codes, event), active' = active,
           event.down /\ event.key \in KeysOf.CTL => held' \cap KeysOf.CTL # {},
           (~event.down => event.key \notin KeysOf.CTL)
               => (held \cap KeysOf.CTL # {} => held' \cap KeysOf.CTL # {})
    PROVE  /\ CtlOn(Len(scancodes) + 1)' => held' \cap KeysOf.CTL # {}
           /\ \A i \in 1 .. Len(scancodes') : scancodes'[i].code = E1 => ~CtlOn(i)'
<1> DEFINE sent == Sent(codes, event)
<1>1. /\ codes \in Seq(0 .. 255) /\ event \in Events /\ scancodes \in Seq(Cells)
      /\ sent \in Seq(Cells) /\ Len(sent) = Len(codes)
      /\ \A i \in 1 .. Len(codes) : i # Len(codes) => sent[i] = Cell(codes[i], Partial)
      /\ codes # <<>> => sent[Len(codes)] = Cell(codes[Len(codes)], event)
  BY SentIs DEF Types, Whole, Events
<1> HIDE DEF sent
<1>2. PICK n \in Nat, m \in Nat :
        /\ Len(scancodes) = n /\ Len(codes) = m /\ Len(sent) = m /\ Len(scancodes') = n + m
        /\ \A i \in 1 .. n : scancodes'[i] = scancodes[i]
        /\ \A i \in 1 .. m : scancodes'[n + i] = sent[i]
  <2>1. scancodes' = scancodes \o sent
    BY DEF sent
  <2>2. Len(scancodes) \in Nat /\ Len(codes) \in Nat
    BY <1>1
  <2>3. PICK joined : joined = scancodes \o sent
    OBVIOUS
  <2>4. /\ Len(joined) = Len(scancodes) + Len(sent)
        /\ \A i \in 1 .. Len(scancodes) : joined[i] = scancodes[i]
        /\ \A i \in 1 .. Len(sent) : joined[Len(scancodes) + i] = sent[i]
    <3>1. scancodes \in Seq(Cells) /\ sent \in Seq(Cells)
      BY <1>1
    <3>2. /\ Len(scancodes \o sent) = Len(scancodes) + Len(sent)
          /\ \A i \in 1 .. Len(scancodes) : (scancodes \o sent)[i] = scancodes[i]
          /\ \A i \in 1 .. Len(sent) : (scancodes \o sent)[Len(scancodes) + i] = sent[i]
      BY <3>1, JoinedIs
    <3> QED
      BY <2>3, <3>2
  <2>5. scancodes' = joined
    BY <2>1, <2>3
  <2> QED
    <3>1. Len(sent) = Len(codes)
      BY <1>1
    <3> QED
      BY <2>2, <2>4, <2>5, <3>1, SMTT(30)
<1>3. codes # <<>> <=> m \in 1 .. m
  BY <1>1, <1>2
<1>4. \A i \in 1 .. m : sent[i].code = codes[i]
  BY <1>1, <1>2, <1>3 DEF Cell
<1>5. \A i \in 1 .. m : i # m => ~sent[i].event.down
  BY <1>1, <1>2 DEF Cell, Partial, Event
<1>6. m \in 1 .. m => sent[m].event = event
  BY <1>1, <1>2, <1>3 DEF Cell
<1>7. \A j \in 0 .. n : CtlPressed(j)' <=> CtlPressed(j)
  <2>1. ("CTL" \in active)' <=> "CTL" \in active
    OBVIOUS
  <2> QED
    BY <2>1, <1>2 DEF CtlPressed
<1>8. \A j \in 1 .. n : CtlReleased(j)' <=> CtlReleased(j)
  BY <1>2 DEF CtlReleased
<1>9. \A i \in 1 .. m : i # m => ~CtlPressed(n + i)'
  <2>1. TAKE i \in 1 .. m
  <2>2. n + i # 0
    OBVIOUS
  <2> QED
    BY <2>2, <1>2, <1>5 DEF CtlPressed
<1>10. ASSUME NEW i \in 1 .. n + m, CtlOn(i)'
       PROVE  \/ i \in 1 .. n /\ CtlOn(i)
              \/ i > n /\ CtlOn(n + 1)
  <2>1. PICK j \in 0 .. i - 1 : CtlPressed(j)' /\ \A l \in j + 1 .. i - 1 : ~CtlReleased(l)'
    BY <1>10 DEF CtlOn
  <2>2. j \in 0 .. n
    <3> SUFFICES ASSUME ~(j <= n) PROVE FALSE
      OBVIOUS
    <3>1. j - n \in 1 .. m /\ j - n # m /\ j = n + (j - n)
      OBVIOUS
    <3> QED
      BY <3>1, <2>1, <1>9
  <2>3. CtlPressed(j)
    BY <2>1, <2>2, <1>7
  <2>4. CASE i <= n
    <3>1. \A l \in j + 1 .. i - 1 : ~CtlReleased(l)
      <4>1. \A l \in j + 1 .. i - 1 : l \in 1 .. n
        BY <2>4
      <4> QED
        BY <4>1, <2>1, <1>8
    <3> QED
      BY <3>1, <2>3, <2>4 DEF CtlOn
  <2>5. CASE i > n
    <3>1. \A l \in j + 1 .. (n + 1) - 1 : ~CtlReleased(l)
      <4>1. \A l \in j + 1 .. (n + 1) - 1 : l \in 1 .. n /\ l \in j + 1 .. i - 1
        BY <2>5
      <4> QED
        BY <4>1, <2>1, <1>8
    <3>2. j \in 0 .. (n + 1) - 1
      BY <2>2
    <3> QED
      BY <3>1, <3>2, <2>3, <2>5 DEF CtlOn
  <2> QED
    BY <2>4, <2>5
<1>11. CtlOn(n + 1) => held \cap KeysOf.CTL # {}
  BY <1>2 DEF Ctrl
<1>12. ASSUME CtlOn(n + m + 1)' PROVE held' \cap KeysOf.CTL # {}
  <2>1. PICK j \in 0 .. (n + m + 1) - 1 :
            CtlPressed(j)' /\ \A l \in j + 1 .. (n + m + 1) - 1 : ~CtlReleased(l)'
    BY <1>12 DEF CtlOn
  <2>2. CASE j > n
    <3>1. PICK i \in 1 .. m : j = n + i
      <4>1. j - n \in 1 .. m /\ j = n + (j - n)
        BY <2>2
      <4> QED
        BY <4>1
    <3>2. i = m /\ n + m # 0
      BY <3>1, <2>1, <1>9
    <3>3. event.down /\ event.key \in KeysOf.CTL
      <4>1. scancodes'[n + m] = sent[m] /\ m \in 1 .. m
        BY <3>1, <3>2, <1>2
      <4>2. CtlPressed(n + m)'
        BY <3>1, <3>2, <2>1
      <4>3. scancodes'[n + m].event.down /\ scancodes'[n + m].event.key \in KeysOf.CTL
        BY <4>2, <3>2 DEF CtlPressed
      <4> QED
        BY <4>1, <4>3, <1>6
    <3> QED
      BY <3>3
  <2>3. CASE j <= n
    <3>1. CtlOn(n + 1)
      <4>1. \A l \in j + 1 .. (n + 1) - 1 : ~CtlReleased(l)
        <5>1. \A l \in j + 1 .. (n + 1) - 1 : l \in 1 .. n /\ l \in j + 1 .. (n + m + 1) - 1
          OBVIOUS
        <5> QED
          BY <5>1, <2>1, <1>8
      <4>2. j \in 0 .. (n + 1) - 1 /\ CtlPressed(j)
        BY <2>1, <2>3, <1>7
      <4> QED
        BY <4>1, <4>2 DEF CtlOn
    <3>2. ~event.down => event.key \notin KeysOf.CTL
      <4>1. CASE m = 0
        <5>1. event = Release("pause")
          BY <4>1, <1>3 DEF Whole
        <5> QED
          BY <5>1, ModifierKeys DEF Release, Event
      <4>2. CASE m # 0
        <5>1. m \in 1 .. m /\ n + m \in j + 1 .. (n + m + 1) - 1
          BY <4>2, <2>3
        <5>2. ~CtlReleased(n + m)' /\ scancodes'[n + m] = sent[m]
          BY <5>1, <2>1, <1>2
        <5> QED
          BY <5>1, <5>2, <1>6 DEF CtlReleased
      <4> QED
        BY <4>1, <4>2
    <3> QED
      BY <3>1, <3>2, <1>11
  <2> QED
    BY <2>2, <2>3
<1>13. CtlOn(Len(scancodes) + 1)' <=> CtlOn(n + m + 1)'
  BY <1>2 DEF CtlOn
<1>14. ASSUME NEW i \in 1 .. Len(scancodes'), scancodes'[i].code = E1, CtlOn(i)'
       PROVE  FALSE
  <2>0. i \in 1 .. n + m
    BY <1>2
  <2>1. CASE i \in 1 .. n /\ CtlOn(i)
    <3>1. scancodes[i].code = E1
      BY <2>1, <1>2, <1>14
    <3> QED
      BY <3>1, <2>1, <1>2 DEF Ctrl
  <2>2. CASE i > n /\ CtlOn(n + 1)
    <3>1. PICK l \in 1 .. m : i = n + l
      <4>1. i - n \in 1 .. m /\ i = n + (i - n)
        BY <2>0, <2>2
      <4> QED
        BY <4>1
    <3>2. codes[l] = E1
      BY <3>1, <1>2, <1>4, <1>14
    <3>3. held \cap KeysOf.CTL = {}
      BY <3>2, <1>2 DEF Whole
    <3> QED
      BY <3>3, <2>2, <1>11
  <2> QED
    BY <2>0, <2>1, <2>2, <1>10, <1>14
<1> QED
  BY <1>12, <1>13, <1>14

LEMMA SendStep ==
    ASSUME Inv, NEW codes, NEW event, Send(codes, event),
           Whole(codes, event, held \cap KeysOf.CTL = {}),
           UNCHANGED <<shift, history>>,
           event.down /\ event.key \in KeysOf.CTL => held' \cap KeysOf.CTL # {},
           (~event.down => event.key \notin KeysOf.CTL)
               => (held \cap KeysOf.CTL # {} => held' \cap KeysOf.CTL # {})
    PROVE  scancodes' \in Seq(Cells) /\ lost' \in BOOLEAN /\ Place' /\ Ctrl'
<1>0. /\ Types /\ Ctrl /\ scancodes \in Seq(Cells) /\ lost \in BOOLEAN
      /\ active' = active /\ shift' = shift /\ caps' = caps /\ mid' = mid
  BY DEF Inv, Types, history
<1>1. PICK q \in Places : Reading(q) /\ Leads(q, scancodes)
  BY DEF Inv, Place
<1>2. CASE scancodes' = scancodes \o Sent(codes, event) /\ lost' = lost
  <2>1. Sent(codes, event) \in Seq(Cells) /\ Leads("between", Sent(codes, event))
    BY SentIs DEF Whole, Events
  <2>2. scancodes' \in Seq(Cells)
    BY <1>0, <1>2, <2>1, JoinedIs
  <2>3. Leads(q, scancodes')
    BY <1>0, <1>1, <1>2, <2>1, LeadsAcross
  <2>4. Reading(q)'
    BY <1>0, <1>1, <1>2 DEF Reading, Follows
  <2>5. Place'
    BY <2>3, <2>4 DEF Place
  <2>6. ~lost => /\ CtlOn(Len(scancodes) + 1)' => held' \cap KeysOf.CTL # {}
                 /\ \A i \in 1 .. Len(scancodes') : scancodes'[i].code = E1 => ~CtlOn(i)'
    BY <1>0, <1>2, SendKeepsCtrl
  <2>7. Ctrl'
    BY <1>2, <2>6 DEF Ctrl
  <2> QED
    BY <1>0, <1>2, <2>2, <2>5, <2>7
<1>3. CASE scancodes' = scancodes /\ lost' = TRUE
  <2>1. Reading(q)'
    BY <1>0, <1>1, <1>3 DEF Reading, Follows
  <2>2. Leads(q, scancodes')
    BY <1>1, <1>3
  <2>3. Place'
    BY <2>1, <2>2 DEF Place
  <2>4. Ctrl'
    BY <1>3 DEF Ctrl
  <2> QED
    BY <1>0, <1>3, <2>3, <2>4
<1> QED
  BY <1>2, <1>3 DEF Send, Sent

LEMMA EventParts ==
    ASSUME NEW k
    PROVE  /\ Press(k).key = k /\ Press(k).down
           /\ Release(k).key = k /\ ~Release(k).down
BY DEF Press, Release, Event

LEMMA PressKeyStep ==
    ASSUME Inv, NEW k \in Keys, PressKey(k)
    PROVE  Inv'
<1>1. /\ held' = held \cup {k} /\ typematic' = IF k = "pause" THEN NO ELSE k
      /\ Send(PressCodes(k), Press(k))
      /\ UNCHANGED <<shift, history>> /\ result' = result /\ rebooting' = rebooting
  BY DEF PressKey, Press
<1>2. Types
  BY DEF Inv
<1>3. held \cap KeysOf.CTL # {} => held' \cap KeysOf.CTL # {}
  BY <1>1
<1>4. k \in KeysOf.CTL => held' \cap KeysOf.CTL # {}
  BY <1>1
<1>5. scancodes' \in Seq(Cells) /\ lost' \in BOOLEAN /\ Place' /\ Ctrl'
  BY <1>1, <1>3, <1>4, PressWhole, EventParts, SendStep
<1>6. Types'
  BY <1>1, <1>2, <1>5 DEF Types, history
<1> QED
  BY <1>5, <1>6 DEF Inv

LEMMA RepeatKeyStep ==
    ASSUME Inv, RepeatKey
    PROVE  Inv'
<1>1. /\ typematic # NO /\ held' = held /\ typematic' = typematic
      /\ Send(RepeatCodes(typematic), Press(typematic))
      /\ UNCHANGED <<shift, history>> /\ result' = result /\ rebooting' = rebooting
  BY DEF RepeatKey, Press, keyboard
<1>2. Types /\ typematic \in held /\ typematic \in Keys /\ typematic # "pause"
  BY <1>1 DEF Inv, Types
<1>3. typematic \in KeysOf.CTL => held' \cap KeysOf.CTL # {}
  BY <1>1, <1>2
<1>4. Whole(RepeatCodes(typematic), Press(typematic), held \cap KeysOf.CTL = {})
  BY <1>2, RepeatWhole
<1>5. scancodes' \in Seq(Cells) /\ lost' \in BOOLEAN /\ Place' /\ Ctrl'
  BY <1>1, <1>3, <1>4, EventParts, SendStep
<1>6. Types'
  BY <1>1, <1>2, <1>5 DEF Types, history
<1> QED
  BY <1>5, <1>6 DEF Inv

LEMMA ReleaseKeyStep ==
    ASSUME Inv, NEW k \in Keys, ReleaseKey(k)
    PROVE  Inv'
<1>1. /\ k \in held /\ held' = held \ {k} /\ typematic' = IF k = typematic THEN NO ELSE typematic
      /\ Send(ReleaseCodes(k), Release(k))
      /\ UNCHANGED <<shift, history>> /\ result' = result /\ rebooting' = rebooting
  BY DEF ReleaseKey, Release
<1>2. Types
  BY DEF Inv
<1>3. k \notin KeysOf.CTL => (held \cap KeysOf.CTL # {} => held' \cap KeysOf.CTL # {})
  BY <1>1
<1>4. scancodes' \in Seq(Cells) /\ lost' \in BOOLEAN /\ Place' /\ Ctrl'
  BY <1>1, <1>3, ReleaseWhole, EventParts, SendStep
<1>5. Types'
  BY <1>1, <1>2, <1>4 DEF Types, history
<1> QED
  BY <1>4, <1>5 DEF Inv

---------------------------------------------------------------------------
(* The invariant and the theorems. *)

LEMMA NothingWaits ==
    ASSUME Types, scancodes = <<>>, ~mid, ~caps, shift = {}, active = {}
    PROVE  Place /\ Ctrl
<1>1. Reading("between")
  BY DEF Reading, Follows
<1>2. Leads("between", scancodes)
  <2> DEFINE p == [i \in 1 .. 1 |-> "between"]
  <2>1. p \in [1 .. 0 + 1 -> Places] /\ p[1] = "between" /\ p[0 + 1] = "between"
    BY DEF Places
  <2>2. Len(scancodes) = 0 /\ \A i \in 1 .. 0 : Moves(p[i], scancodes[i], p[i + 1])
    OBVIOUS
  <2> HIDE DEF p
  <2> QED
    BY <2>1, <2>2 DEF Leads
<1>3. ~CtlOn(Len(scancodes) + 1)
  <2>1. Len(scancodes) + 1 = 1 /\ 0 .. 1 - 1 = {0}
    OBVIOUS
  <2>2. ~CtlPressed(0)
    BY DEF CtlPressed
  <2> QED
    BY <2>1, <2>2 DEF CtlOn
<1>4. 1 .. Len(scancodes) = {}
  OBVIOUS
<1> QED
  BY <1>1, <1>2, <1>3, <1>4 DEF Place, Ctrl, Places

LEMMA InvInit == KbdInit => Inv
<1> SUFFICES ASSUME KbdInit PROVE Inv
  OBVIOUS
<1>1. scancodes = <<>> /\ ~mid /\ ~caps /\ shift = {} /\ active = {}
  BY DEF KbdInit
<1>2. held \subseteq Keys /\ typematic = NO /\ result = NO /\ rebooting = FALSE
      /\ lost = FALSE /\ caps = FALSE /\ mid = FALSE
  BY DEF KbdInit
<1>3. <<>> \in Seq(Cells) /\ NO \in Chars
  BY DEF Chars
<1>4. Types
  BY <1>1, <1>2, <1>3 DEF Types
<1> QED
  BY <1>1, <1>4, NothingWaits DEF Inv

LEMMA ResetStep ==
    ASSUME Inv, Reset
    PROVE  Inv'
<1>1. /\ scancodes' = <<>> /\ ~mid' /\ ~caps' /\ shift' = {} /\ active' = {}
      /\ mid' = FALSE /\ caps' = FALSE /\ result' = NO /\ rebooting' = FALSE
      /\ held' = held /\ typematic' = typematic /\ lost' = lost
  BY DEF Reset, keyboard
<1>2. <<>> \in Seq(Cells) /\ NO \in Chars
  BY DEF Chars
<1>3. Types'
  BY <1>1, <1>2 DEF Inv, Types
<1>4. (scancodes = <<>> /\ ~mid /\ ~caps /\ shift = {} /\ active = {})'
  BY <1>1
<1>5. (Place /\ Ctrl)'
  BY <1>3, <1>4, NothingWaits, PTL
<1> QED
  BY <1>3, <1>5 DEF Inv

LEMMA StutterStep ==
    ASSUME Inv, UNCHANGED kbdVars
    PROVE  Inv'
BY DEF Inv, Types, Place, Reading, Follows, Ctrl, CtlOn, CtlPressed, CtlReleased,
       kbdVars, keyboard, history

LEMMA InvNext == Inv /\ [KbdNext]_kbdVars => Inv'
<1> SUFFICES ASSUME Inv, [KbdNext]_kbdVars PROVE Inv'
  OBVIOUS
<1>1. CASE RepeatKey
  BY <1>1, RepeatKeyStep
<1>2. ASSUME NEW k \in Keys, PressKey(k) PROVE Inv'
  BY <1>2, PressKeyStep
<1>3. ASSUME NEW k \in Keys, ReleaseKey(k) PROVE Inv'
  BY <1>3, ReleaseKeyStep
<1>4. CASE KbdProcData
  BY <1>4, KbdProcDataStep
<1>5. CASE Reset
  BY <1>5, ResetStep
<1>6. CASE UNCHANGED kbdVars
  BY <1>6, StutterStep
<1> QED
  BY <1>1, <1>2, <1>3, <1>4, <1>5, <1>6 DEF KbdNext, User

\* However the user types, every code that waits has its place in its event, and
\* the flags are at each place what the keys say.
THEOREM KeyboardInvariant == KbdSpec => []Inv
BY InvInit, InvNext, PTL DEF KbdSpec

\* The decoder's state is of its types, and an escape never outlives the event
\* it is part of, however the user types.
THEOREM KeyboardTyped == KbdSpec => []KbdTypeOK
<1>1. Inv => KbdTypeOK
  <2> SUFFICES ASSUME Inv PROVE KbdTypeOK
    OBVIOUS
  <2>1. Types
    BY DEF Inv
  <2>2. "E0ESC" \in shift => mid
    BY DEF Inv, Place, Reading
  <2> QED
    BY <2>1, <2>2 DEF KbdTypeOK, Types, Cells, Chars
<1> QED
  BY <1>1, KeyboardInvariant, PTL

\* Between two events the flags of kbd_proc_data are what the keys say: no
\* code that a gray key or Pause sends along leaves a trace in them.
THEOREM FlagsFollowKeys == KbdSpec => []ModifiersFollowKeys
<1>1. Inv => ModifiersFollowKeys
  <2> SUFFICES ASSUME Inv, ~mid
               PROVE  /\ "CAPSLOCK" \in shift <=> caps
                      /\ shift \cap Modifiers \subseteq active
                      /\ ~lost => active \subseteq shift
    BY DEF ModifiersFollowKeys
  <2>1. PICK q \in Places : Reading(q)
    BY DEF Inv, Place
  <2>2. q = "between"
    BY <2>1 DEF Reading
  <2>3. ("CAPSLOCK" \in shift <=> caps) /\ \A f \in {"SHIFT", "CTL", "ALT"} : Follows(f)
    BY <2>1, <2>2 DEF Reading
  <2>4. active \subseteq Modifiers
    BY DEF Inv, Types
  <2> QED
    BY <2>3, <2>4, ModifierKeys DEF Follows
<1> QED
  BY <1>1, KeyboardInvariant, PTL

\* A press or a repeat of a key is answered by the character that the key has
\* with the modifiers in force, and no other code by any.
THEOREM KeysAnswered == KbdSpec => CharsFollowKeys
<1>1. Inv /\ [KbdNext]_kbdVars => [KbdProcData /\ ~lost =>
        result' = IF Head(scancodes).event.down /\ Head(scancodes).event.key \in DOMAIN Meaning
                  THEN Typed(Head(scancodes).event.key) ELSE NO]_kbdVars
  BY KbdProcDataStep DEF Answers, CharAnswer
<1> QED
  BY <1>1, KeyboardInvariant, PTL DEF KbdSpec, CharsFollowKeys

\* The machine is reset by Delete with Ctrl and Alt, and by nothing else.
THEOREM ResetByKeys == KbdSpec => RebootsOnCtrlAltDelete
<1>1. Inv /\ [KbdNext]_kbdVars => [KbdProcData /\ ~lost =>
        (rebooting' <=> Ends("delete", TRUE) /\ {"CTL", "ALT"} \subseteq active)]_kbdVars
  <2> SUFFICES ASSUME Inv, KbdProcData, ~lost
               PROVE  rebooting' <=> Ends("delete", TRUE) /\ {"CTL", "ALT"} \subseteq active
    OBVIOUS
  <2>1. ResetAnswer
    BY KbdProcDataStep DEF Answers
  <2> QED
    BY <2>1 DEF ResetAnswer
<1> QED
  BY <1>1, KeyboardInvariant, PTL DEF KbdSpec, RebootsOnCtrlAltDelete

---------------------------------------------------------------------------
(* The ring. *)

USE NAssumption, DeviceAssumption

\* TypeOK alone is not inductive: that getchar never returns 0, the code of
\* "nothing waiting", rests on the waiting slots holding characters and not
\* the zeros of the BSS.
WaitingAreChars == \A i \in 0 .. N-1 : i < Backlog => buf[Slot(i)] \in Char

IInv == TypeOK /\ WaitingAreChars

---------------------------------------------------------------------------
\* Where cons_getc and cons_intr will read and write, in ring coordinates.
LEMMA RingArithmetic ==
  ASSUME TypeOK
  PROVE  /\ Backlog \in 0 .. N-1
         /\ \A i \in 0 .. N-1 : Slot(i) \in 0 .. N-1
         /\ Slot(0) = rpos
         /\ Slot(Backlog) = wpos
         /\ \A i, j \in 0 .. N-1 : Slot(i) = Slot(j) => i = j
BY DEF TypeOK, Backlog, Slot

\* One stored character adds the slot at wpos to the waiting ones, or empties
\* the ring when it was the N-th; the other waiting slots stay as they were.
LEMMA StoreEffect ==
  ASSUME TypeOK, NEW c \in Char, StoreChar(c)
  PROVE  /\ buf' \in [0 .. N-1 -> Byte]
         /\ rpos' = rpos
         /\ wpos' \in 0 .. N-1
         /\ stored' \in Seq(Char)
         /\ Backlog' = IF Backlog + 1 = N THEN 0 ELSE Backlog + 1
         /\ \A i \in 0 .. N-1 : Slot(i)' = Slot(i)
         /\ buf'[Slot(Backlog)] = c
         /\ \A i \in 0 .. N-1 : i < Backlog => buf'[Slot(i)] = buf[Slot(i)]
<1>1. c # 0 /\ c \in Byte
  BY DEF Char, Byte
<1>2. /\ buf' = [buf EXCEPT ![wpos] = c]
      /\ wpos' = IF wpos + 1 = N THEN 0 ELSE wpos + 1
      /\ stored' = Append(stored, c)
      /\ rpos' = rpos
  BY <1>1 DEF StoreChar
<1>3. wpos' \in 0 .. N-1 /\ stored' \in Seq(Char)
  BY <1>2 DEF TypeOK
<1>4. buf' \in [0 .. N-1 -> Byte]
  BY <1>1, <1>2 DEF TypeOK
<1>5. Backlog' = IF Backlog + 1 = N THEN 0 ELSE Backlog + 1
  BY <1>2 DEF TypeOK, Backlog
<1>6. \A i \in 0 .. N-1 : Slot(i)' = Slot(i)
  BY <1>2 DEF Slot
<1>7. /\ buf'[wpos] = c
      /\ \A s \in 0 .. N-1 : s # wpos => buf'[s] = buf[s]
  BY <1>2 DEF TypeOK
<1>8. \A i \in 0 .. N-1 : i < Backlog => Slot(i) # wpos
  BY RingArithmetic
<1> QED
  BY <1>2, <1>3, <1>4, <1>5, <1>6, <1>7, <1>8, RingArithmetic

\* Taking a character moves every waiting one a place forward.
LEMMA TakeEffect ==
  ASSUME TypeOK, ConsGetc, rpos # wpos
  PROVE  /\ got' = Append(got, buf[Slot(0)])
         /\ rpos' \in 0 .. N-1
         /\ buf' = buf /\ wpos' = wpos
         /\ Backlog > 0
         /\ Backlog' = Backlog - 1
         /\ \A i \in 0 .. N-1 : i < Backlog' => Slot(i)' = Slot(i + 1)
<1>1. /\ got' = Append(got, buf[rpos])
      /\ rpos' = IF rpos + 1 = N THEN 0 ELSE rpos + 1
      /\ buf' = buf /\ wpos' = wpos
  BY DEF ConsGetc
<1> QED
  BY <1>1 DEF TypeOK, Backlog, Slot

\* A step that leaves the ring alone leaves the waiting characters alone.
LEMMA RingUnchanged ==
  ASSUME WaitingAreChars, UNCHANGED ring
  PROVE  WaitingAreChars' /\ UNCHANGED waiting
BY DEF WaitingAreChars, ring, Backlog, Slot, waiting
---------------------------------------------------------------------------
LEMMA InitIInv == Init => IInv
<1> SUFFICES ASSUME Init PROVE IInv
  OBVIOUS
<1>1. 0 \in 0 .. N-1 /\ 0 \in Byte
  BY DEF Byte
<1>2. buf \in [0 .. N-1 -> Byte]
  BY <1>1 DEF Init
<1>3. kbd \in Seq(Byte) /\ stored \in Seq(Char) /\ got \in Seq(Char)
  BY DEF Init
<1>4. serial_exists \in BOOLEAN /\ com1 \in Byte \cup {NoData} /\ arrived \in 0 .. MaxInput
  BY DEF Init
<1>5. TypeOK
  BY <1>1, <1>2, <1>3, <1>4 DEF Init, TypeOK
<1>6. WaitingAreChars
  BY DEF Init, WaitingAreChars, Backlog
<1> QED
  BY <1>5, <1>6 DEF IInv

\* One iteration of cons_intr's loop, with the result c of the device.
LEMMA StoreIInv ==
  ASSUME IInv, NEW c \in Byte, StoreChar(c)
  PROVE  /\ buf' \in [0 .. N-1 -> Byte]
         /\ rpos' \in 0 .. N-1
         /\ wpos' \in 0 .. N-1
         /\ stored' \in Seq(Char)
         /\ WaitingAreChars'
<1>1. CASE c = 0
  BY <1>1, RingUnchanged DEF IInv, TypeOK, StoreChar, ring
<1>2. CASE c # 0
  <2>1. c \in Char
    BY <1>2 DEF Byte
  <2>2. \A i \in 0 .. N-1 : i < Backlog' => buf'[Slot(i)'] \in Char
    <3> SUFFICES ASSUME NEW i \in 0 .. N-1, i < Backlog'
                 PROVE  buf'[Slot(i)'] \in Char
      OBVIOUS
    <3>1. Backlog \in 0 .. N-1 /\ Slot(i)' = Slot(i)
      BY <2>1, StoreEffect, RingArithmetic DEF IInv
    <3>0. Backlog' = IF Backlog + 1 = N THEN 0 ELSE Backlog + 1
      BY <2>1, StoreEffect DEF IInv
    <3>2. CASE i < Backlog
      BY <2>1, <3>1, <3>2, StoreEffect DEF IInv, WaitingAreChars
    <3>3. CASE i = Backlog
      BY <2>1, <3>1, <3>3, StoreEffect DEF IInv
    <3> QED
      BY <3>0, <3>1, <3>2, <3>3
  <2> QED
    BY <2>1, <2>2, StoreEffect DEF IInv, TypeOK, WaitingAreChars
<1> QED
  BY <1>1, <1>2

LEMMA NextIInv == IInv /\ [Next]_vars => IInv'
<1> SUFFICES ASSUME IInv, [Next]_vars PROVE IInv'
  OBVIOUS
<1> USE DEF IInv
<1>1. CASE SerialArrives
  <2>1. TypeOK'
    BY <1>1 DEF TypeOK, SerialArrives, ring, Byte, Char
  <2> QED
    BY <1>1, <2>1, RingUnchanged DEF SerialArrives
<1>2. CASE KeyArrives
  <2>1. PICK b \in {arrived + 1, 0} : kbd' = Append(kbd, b)
    BY <1>2 DEF KeyArrives
  <2>2. b \in Byte
    BY <1>2 DEF KeyArrives, TypeOK, Byte, Char
  <2>3. TypeOK'
    BY <1>2, <2>1, <2>2 DEF TypeOK, KeyArrives, ring
  <2> QED
    BY <1>2, <2>3, RingUnchanged DEF KeyArrives
<1>3. CASE ConsInit
  BY <1>3, RingUnchanged DEF TypeOK, ConsInit, ring
<1>4. CASE Getchar
  BY <1>4, RingUnchanged DEF TypeOK, Getchar, devices, ring
<1>5. CASE PollDevices
  BY <1>5, RingUnchanged DEF TypeOK, PollDevices, devices, ring
<1>6. CASE SerialIntr
  <2>1. CASE com1 # NoData
    <3>1. com1 \in Byte /\ StoreChar(com1)
      BY <1>6, <2>1 DEF SerialIntr, TypeOK
    <3> QED
      BY <1>6, <2>1, <3>1, StoreIInv DEF TypeOK, SerialIntr
  <2>2. CASE com1 = NoData
    BY <1>6, <2>2, RingUnchanged DEF TypeOK, SerialIntr, ring
  <2> QED
    BY <2>1, <2>2
<1>7. CASE KbdIntr
  <2>1. CASE kbd # <<>>
    <3>1. Head(kbd) \in Byte /\ Tail(kbd) \in Seq(Byte)
      BY <2>1 DEF TypeOK
    <3>2. StoreChar(Head(kbd))
      BY <1>7, <2>1 DEF KbdIntr
    <3> QED
      BY <1>7, <2>1, <3>1, <3>2, StoreIInv DEF TypeOK, KbdIntr
  <2>2. CASE kbd = <<>>
    BY <1>7, <2>2, RingUnchanged DEF TypeOK, KbdIntr, ring
  <2> QED
    BY <2>1, <2>2
<1>8. CASE ConsGetc
  <2>1. CASE rpos # wpos
    <3>1. buf[Slot(0)] \in Char
      BY <1>8, <2>1, TakeEffect DEF WaitingAreChars
    <3>2. TypeOK'
      <4>0. got' = Append(got, buf[Slot(0)]) /\ rpos' \in 0 .. N-1
        BY <1>8, <2>1, TakeEffect
      <4>1. got' \in Seq(Char)
        BY <3>1, <4>0 DEF TypeOK
      <4>2. /\ UNCHANGED <<serial_exists, com1, kbd, arrived, buf, wpos, stored>>
            /\ pc' = "caller"
        BY <1>8, <2>1 DEF ConsGetc, devices
      <4> QED
        BY <4>0, <4>1, <4>2 DEF TypeOK
    <3>3. \A i \in 0 .. N-1 : i < Backlog' => buf[Slot(i + 1)] \in Char
      BY <1>8, <2>1, TakeEffect, RingArithmetic DEF WaitingAreChars
    <3>4. WaitingAreChars'
      BY <1>8, <2>1, <3>3, TakeEffect DEF WaitingAreChars
    <3> QED
      BY <3>2, <3>4
  <2>2. CASE rpos = wpos
    BY <1>8, <2>2, RingUnchanged DEF TypeOK, ConsGetc, devices, ring
  <2> QED
    BY <2>1, <2>2
<1>9. CASE UNCHANGED vars
  BY <1>9, RingUnchanged DEF TypeOK, vars, devices, ring
<1> QED
  BY <1>1, <1>2, <1>3, <1>4, <1>5, <1>6, <1>7, <1>8, <1>9
  DEF Next, Hardware, Kernel

\* The ring keeps its types: rpos and wpos never leave the array, although
\* they are incremented before they are wrapped, and what getchar returns is
\* always a character, never the 0 that means "nothing waiting".
THEOREM TypeCorrect == Spec => []TypeOK
<1>1. IInv => TypeOK
  BY DEF IInv
<1> QED
  BY <1>1, InitIInv, NextIInv, PTL DEF Spec

---------------------------------------------------------------------------
(* The ring implements InputQueue. *)

WaitingIsSeq ==
  /\ waiting \in Seq(Byte)
  /\ Len(waiting) = Backlog
  /\ \A i \in 1 .. Backlog : waiting[i] = buf[Slot(i - 1)]

LEMMA WaitingSeq == TypeOK => WaitingIsSeq
<1> SUFFICES ASSUME TypeOK PROVE WaitingIsSeq
  OBVIOUS
<1>1. Backlog \in 0 .. N-1
  BY RingArithmetic
<1>2. ASSUME NEW i \in 1 .. Backlog PROVE buf[Slot(i - 1)] \in Byte
  <2>1. i - 1 \in 0 .. N-1
    BY <1>1
  <2>2. Slot(i - 1) \in 0 .. N-1
    BY <2>1, RingArithmetic
  <2> QED
    BY <2>2 DEF TypeOK
<1>3. waiting \in [1 .. Backlog -> Byte]
  BY <1>2 DEF waiting
<1> QED
  BY <1>1, <1>3 DEF waiting, WaitingIsSeq

\* A stored character is a Put of the abstract queue.
LEMMA StoreIsPut ==
  ASSUME TypeOK, TypeOK', NEW c \in Char, StoreChar(c), UNCHANGED got
  PROVE  Queue!Put(c)
<1>1. Backlog \in 0 .. N-1 /\ Len(waiting) = Backlog /\ waiting \in Seq(Byte)
  BY RingArithmetic, WaitingSeq DEF WaitingIsSeq
<1>2. WaitingIsSeq'
  BY WaitingSeq, PTL
<1>3. CASE Backlog + 1 = N
  <2>1. waiting' = <<>>
    BY <1>2, <1>3, StoreEffect DEF WaitingIsSeq
  <2> QED
    BY <1>1, <1>3, <2>1 DEF Queue!Put
<1>4. CASE Backlog + 1 # N
  <2>1. Len(waiting') = Backlog + 1 /\ Backlog + 1 < N
    BY <1>1, <1>2, <1>4, StoreEffect DEF WaitingIsSeq
  <2>2. ASSUME NEW i \in 1 .. Backlog + 1
        PROVE  waiting'[i] = IF i = Backlog + 1 THEN c ELSE waiting[i]
    <3>1. i - 1 \in 0 .. N-1 /\ i \in 1 .. Backlog'
      BY <1>1, <1>2, <2>1 DEF WaitingIsSeq
    <3>2. waiting'[i] = buf'[Slot(i - 1)]
      BY <1>2, <3>1, StoreEffect DEF WaitingIsSeq
    <3>3. CASE i = Backlog + 1
      <4>1. i - 1 = Backlog
        BY <1>1, <3>3
      <4> QED
        BY <3>2, <3>3, <4>1, StoreEffect
    <3>4. CASE i # Backlog + 1
      <4>1. i - 1 < Backlog /\ i \in 1 .. Backlog
        BY <1>1, <3>4
      <4>2. buf'[Slot(i - 1)] = buf[Slot(i - 1)]
        BY <3>1, <4>1, StoreEffect
      <4> QED
        BY <3>2, <3>4, <4>1, <4>2, WaitingSeq DEF WaitingIsSeq
    <3> QED
      BY <3>3, <3>4
  <2>4. waiting' = Append(waiting, c)
    BY <1>1, <1>2, <2>1, <2>2 DEF Byte, WaitingIsSeq
  <2> QED
    BY <1>1, <2>1, <2>4 DEF Queue!Put
<1> QED
  BY <1>3, <1>4

\* What cons_getc returns is the head of the abstract queue.
LEMMA TakeIsGet ==
  ASSUME TypeOK, TypeOK', ConsGetc, rpos # wpos
  PROVE  Queue!Get
<1>1. Backlog \in 1 .. N-1 /\ Len(waiting) = Backlog /\ waiting \in Seq(Byte)
  BY RingArithmetic, WaitingSeq, TakeEffect DEF WaitingIsSeq
<1>2. waiting # <<>> /\ Head(waiting) = buf[Slot(0)]
  BY <1>1, WaitingSeq DEF WaitingIsSeq
<1>3. WaitingIsSeq'
  BY WaitingSeq, PTL
<1>4. \A i \in 1 .. Backlog - 1 : waiting'[i] = waiting[i + 1]
  <2> SUFFICES ASSUME NEW i \in 1 .. Backlog - 1
               PROVE  waiting'[i] = waiting[i + 1]
    OBVIOUS
  <2>1. i - 1 \in 0 .. N-1 /\ i - 1 < Backlog' /\ i \in 1 .. Backlog'
    BY <1>1, TakeEffect
  <2>2. waiting'[i] = buf[Slot(i - 1 + 1)]
    BY <1>3, <2>1, TakeEffect DEF WaitingIsSeq
  <2>3. i - 1 + 1 = (i + 1) - 1 /\ i + 1 \in 1 .. Backlog
    BY <1>1
  <2> QED
    BY <2>2, <2>3, WaitingSeq DEF WaitingIsSeq
<1>5. waiting' = Tail(waiting)
  BY <1>1, <1>3, <1>4, TakeEffect DEF WaitingIsSeq
<1> QED
  BY <1>2, <1>5, TakeEffect DEF Queue!Get

\* For every ring size, the console input buffer behaves as the FIFO queue of
\* N-1 characters that loses a whole lap when it overflows.
THEOREM RingImplementsQueue == Spec => QueueSpec
<1>1. Init => Queue!Init
  BY DEF Init, Queue!Init, waiting, Backlog
<1>2. IInv /\ IInv' /\ [Next]_vars => [Queue!Next]_(Queue!vars)
  <2> SUFFICES ASSUME IInv, IInv', [Next]_vars
               PROVE  [Queue!Next]_(Queue!vars)
    OBVIOUS
  <2> USE DEF IInv
  <2>1. ASSUME NEW c \in Byte, StoreChar(c), UNCHANGED got
        PROVE  [Queue!Next]_(Queue!vars)
    <3>1. CASE c = 0
      BY <2>1, <3>1, RingUnchanged DEF StoreChar, Queue!vars
    <3>2. CASE c # 0
      BY <2>1, <3>2, StoreIsPut DEF Byte, Queue!Next
    <3> QED
      BY <3>1, <3>2
  <2>2. ASSUME UNCHANGED <<ring, got>>
        PROVE  [Queue!Next]_(Queue!vars)
    BY <2>2, RingUnchanged DEF Queue!vars
  <2>3. CASE Hardware \/ ConsInit \/ Getchar \/ PollDevices \/ UNCHANGED vars
    BY <2>2, <2>3
    DEF Hardware, SerialArrives, KeyArrives, ConsInit, Getchar, PollDevices, vars
  <2>4. CASE SerialIntr
    BY <2>1, <2>2, <2>4 DEF SerialIntr, TypeOK
  <2>5. CASE KbdIntr
    <3>1. CASE kbd # <<>>
      <4>1. Head(kbd) \in Byte
        BY <3>1 DEF TypeOK
      <4> QED
        BY <2>1, <2>5, <3>1, <4>1 DEF KbdIntr
    <3>2. CASE kbd = <<>>
      BY <2>2, <2>5, <3>2 DEF KbdIntr
    <3> QED
      BY <3>1, <3>2
  <2>6. CASE ConsGetc
    <3>1. CASE rpos # wpos
      BY <2>6, <3>1, TakeIsGet DEF Queue!Next
    <3>2. CASE rpos = wpos
      BY <2>2, <2>6, <3>2 DEF ConsGetc, ring
    <3> QED
      BY <3>1, <3>2
  <2> QED
    BY <2>3, <2>4, <2>5, <2>6 DEF Next, Kernel
<1> QED
  BY <1>1, <1>2, InitIInv, NextIInv, PTL DEF Spec, QueueSpec, Queue!Spec

---------------------------------------------------------------------------
(* What overflow loses.  The characters still in the ring are the last ones *)
(* stored, and what was lost or delivered before them is counted in laps.   *)

Laps(n) == \E k \in Nat : n = k * N

LapsOfStored == Laps(Len(stored) - Backlog - Len(got))

RingIsTailOfStored ==
    /\ Backlog <= Len(stored)
    /\ \A i \in 0 .. N-1 :
          i < Backlog => buf[Slot(i)] = stored[Len(stored) - Backlog + 1 + i]

DeliveredAreLapsBehind ==
    \A j \in 1 .. Len(got) : \E p \in 1 .. Len(stored) :
        stored[p] = got[j] /\ Laps(p - j)

LapInv == LapsOfStored /\ RingIsTailOfStored /\ DeliveredAreLapsBehind

LEMMA LapsArithmetic ==
  /\ Laps(0)
  /\ \A n \in Int : Laps(n) => n \in Nat /\ n % N = 0 /\ Laps(n + N)
<1>1. 0 = 0 * N /\ 0 \in Nat
  OBVIOUS
<1>2. ASSUME NEW n \in Int, NEW k \in Nat, n = k * N
      PROVE  n \in Nat /\ n % N = 0 /\ n + N = (k + 1) * N /\ k + 1 \in Nat
  BY <1>2
<1>3. ASSUME NEW n \in Int, Laps(n)
      PROVE  n \in Nat /\ n % N = 0 /\ Laps(n + N)
  <2>1. PICK k \in Nat : n = k * N
    BY <1>3 DEF Laps
  <2> QED
    BY <1>2, <2>1 DEF Laps
<1> QED
  BY <1>1, <1>3 DEF Laps

LEMMA StoreLap ==
  ASSUME IInv, LapInv, NEW c \in Char, StoreChar(c), UNCHANGED got
  PROVE  LapInv'
<1> DEFINE n == Len(stored)
<1>1. /\ Backlog \in 0 .. N-1 /\ Len(got) \in Nat /\ n \in Nat
      /\ stored' = Append(stored, c) /\ Len(stored') = n + 1
      /\ \A p \in 1 .. n : stored'[p] = stored[p]
      /\ stored'[n + 1] = c
  <2>1. stored' = Append(stored, c) /\ stored \in Seq(Char) /\ got \in Seq(Char)
    BY DEF IInv, TypeOK, StoreChar, Char
  <2>2. Backlog \in 0 .. N-1
    BY RingArithmetic DEF IInv
  <2> QED
    BY <2>1, <2>2
<1>2. Backlog' = IF Backlog + 1 = N THEN 0 ELSE Backlog + 1
  BY StoreEffect DEF IInv
<1>3. LapsOfStored'
  <2>1. CASE Backlog + 1 = N
    <3>1. Len(stored') - Backlog' - Len(got') = (n - Backlog - Len(got)) + N
      BY <1>1, <1>2, <2>1
    <3>2. Laps((n - Backlog - Len(got)) + N)
      BY <1>1, LapsArithmetic DEF LapInv, LapsOfStored
    <3> QED
      BY <3>1, <3>2 DEF LapsOfStored, Laps
  <2>2. CASE Backlog + 1 # N
    <3>1. Len(stored') - Backlog' - Len(got') = n - Backlog - Len(got)
      BY <1>1, <1>2, <2>2
    <3> QED
      BY <3>1 DEF LapInv, LapsOfStored, Laps
  <2> QED
    BY <2>1, <2>2
<1>4. RingIsTailOfStored'
  <2>1. Backlog' <= Len(stored')
    BY <1>1, <1>2 DEF LapInv, RingIsTailOfStored
  <2>2. ASSUME NEW i \in 0 .. N-1, i < Backlog'
        PROVE  buf'[Slot(i)'] = stored'[Len(stored') - Backlog' + 1 + i]
    <3>1. Backlog' = Backlog + 1 /\ i <= Backlog
      BY <1>1, <1>2, <2>2
    <3>2. Slot(i)' = Slot(i)
      BY StoreEffect DEF IInv
    <3>3. Len(stored') - Backlog' + 1 + i = n - Backlog + 1 + i
      BY <1>1, <3>1
    <3>4. CASE i = Backlog
      <4>1. n - Backlog + 1 + i = n + 1
        BY <1>1, <3>4
      <4>2. buf'[Slot(i)] = c
        BY <3>4, StoreEffect DEF IInv
      <4> QED
        BY <1>1, <3>2, <3>3, <4>1, <4>2
    <3>5. CASE i # Backlog
      <4>1. i < Backlog /\ n - Backlog + 1 + i \in 1 .. n
        BY <1>1, <3>1, <3>5 DEF LapInv, RingIsTailOfStored
      <4>2. buf'[Slot(i)] = buf[Slot(i)]
        BY <4>1, StoreEffect DEF IInv
      <4>3. buf[Slot(i)] = stored[n - Backlog + 1 + i]
        BY <4>1 DEF LapInv, RingIsTailOfStored
      <4> QED
        BY <1>1, <3>2, <3>3, <4>1, <4>2, <4>3
    <3> QED
      BY <3>4, <3>5
  <2> QED
    BY <2>1, <2>2 DEF RingIsTailOfStored
<1>5. DeliveredAreLapsBehind'
  <2> SUFFICES ASSUME NEW j \in 1 .. Len(got)
               PROVE  \E p \in 1 .. Len(stored') : stored'[p] = got[j] /\ Laps(p - j)
    BY DEF DeliveredAreLapsBehind, Laps
  <2>1. PICK p \in 1 .. n : stored[p] = got[j] /\ Laps(p - j)
    BY DEF LapInv, DeliveredAreLapsBehind
  <2>2. p \in 1 .. Len(stored') /\ stored'[p] = got[j]
    BY <1>1, <2>1
  <2> QED
    BY <2>1, <2>2
<1> QED
  BY <1>3, <1>4, <1>5 DEF LapInv

LEMMA TakeLap ==
  ASSUME IInv, LapInv, ConsGetc, rpos # wpos
  PROVE  LapInv'
<1> DEFINE n == Len(stored)
<1> DEFINE front == n - Backlog + 1     \* where the oldest waiting one was stored
<1>1. /\ Backlog \in 1 .. N-1 /\ Len(got) \in Nat /\ n \in Nat /\ Backlog <= n
      /\ Backlog' = Backlog - 1
      /\ stored' = stored
  <2>1. Backlog \in 0 .. N-1
    BY RingArithmetic DEF IInv
  <2>2. Backlog > 0 /\ Backlog' = Backlog - 1
    BY TakeEffect DEF IInv
  <2>3. Backlog <= n
    BY DEF LapInv, RingIsTailOfStored
  <2> QED
    BY <2>1, <2>2, <2>3 DEF IInv, TypeOK, ConsGetc
<1>2. got' = Append(got, buf[Slot(0)]) /\ buf' = buf
  BY TakeEffect DEF IInv
<1>3. /\ Len(got') = Len(got) + 1
      /\ \A j \in 1 .. Len(got) : got'[j] = got[j]
      /\ got'[Len(got) + 1] = buf[Slot(0)]
  BY <1>2 DEF IInv, TypeOK
<1>4. LapsOfStored'
  <2>1. Len(stored') - Backlog' - Len(got') = n - Backlog - Len(got)
    BY <1>1, <1>3
  <2> QED
    BY <2>1 DEF LapInv, LapsOfStored, Laps
<1>5. RingIsTailOfStored'
  <2>1. Backlog' <= Len(stored')
    BY <1>1
  <2>2. ASSUME NEW i \in 0 .. N-1, i < Backlog'
        PROVE  buf'[Slot(i)'] = stored'[Len(stored') - Backlog' + 1 + i]
    <3>1. Slot(i)' = Slot(i + 1)
      BY <2>2, TakeEffect DEF IInv
    <3>2. i + 1 \in 0 .. N-1 /\ i + 1 < Backlog
      BY <1>1, <2>2
    <3>3. buf[Slot(i + 1)] = stored[n - Backlog + 1 + (i + 1)]
      BY <3>2 DEF LapInv, RingIsTailOfStored
    <3>4. Len(stored') - Backlog' + 1 + i = n - Backlog + 1 + (i + 1)
      BY <1>1
    <3> QED
      BY <1>1, <1>2, <3>1, <3>3, <3>4
  <2> QED
    BY <2>1, <2>2 DEF RingIsTailOfStored
<1>6. DeliveredAreLapsBehind'
  <2> SUFFICES ASSUME NEW j \in 1 .. Len(got) + 1
               PROVE  \E p \in 1 .. n : stored[p] = got'[j] /\ Laps(p - j)
    BY <1>1, <1>3 DEF DeliveredAreLapsBehind, Laps
  <2>1. CASE j = Len(got) + 1
    <3>1. front \in 1 .. n /\ front - j = n - Backlog - Len(got)
      BY <1>1, <2>1
    <3>2. Laps(front - j)
      BY <3>1 DEF LapInv, LapsOfStored
    <3>3. stored[front] = buf[Slot(0)]
      <4>1. 0 \in 0 .. N-1 /\ 0 < Backlog /\ n - Backlog + 1 + 0 = front
        BY <1>1
      <4> QED
        BY <4>1 DEF LapInv, RingIsTailOfStored
    <3> QED
      BY <1>3, <2>1, <3>1, <3>2, <3>3
  <2>2. CASE j # Len(got) + 1
    <3>1. j \in 1 .. Len(got)
      BY <1>1, <2>2
    <3> QED
      BY <1>3, <3>1 DEF LapInv, DeliveredAreLapsBehind
  <2> QED
    BY <2>1, <2>2
<1> QED
  BY <1>4, <1>5, <1>6 DEF LapInv

LEMMA LapUnchanged ==
  ASSUME LapInv, UNCHANGED <<ring, stored, got>>
  PROVE  LapInv'
BY DEF LapInv, LapsOfStored, RingIsTailOfStored, DeliveredAreLapsBehind,
       Laps, Backlog, Slot, ring

\* For every ring size: the j-th character delivered is the (j + k*N)-th one
\* stored.  An overflow costs whole laps and shifts nothing.
THEOREM OverflowLosesWholeLaps == Spec => []LossIsWholeLaps
<1>1. Init => LapInv
  <2> SUFFICES ASSUME Init PROVE LapInv
    OBVIOUS
  <2>1. Backlog = 0 /\ Len(stored) = 0 /\ Len(got) = 0
    BY DEF Init, Backlog
  <2>2. Laps(0 - 0 - 0)
    BY LapsArithmetic
  <2> QED
    BY <2>1, <2>2 DEF LapInv, LapsOfStored, RingIsTailOfStored, DeliveredAreLapsBehind
<1>2. IInv /\ LapInv /\ [Next]_vars => LapInv'
  <2> SUFFICES ASSUME IInv, LapInv, [Next]_vars PROVE LapInv'
    OBVIOUS
  <2>1. ASSUME NEW c \in Byte, StoreChar(c), UNCHANGED got PROVE LapInv'
    <3>1. CASE c = 0
      BY <2>1, <3>1, LapUnchanged DEF StoreChar
    <3>2. CASE c # 0
      BY <2>1, <3>2, StoreLap DEF Byte
    <3> QED
      BY <3>1, <3>2
  <2>2. CASE Hardware \/ ConsInit \/ Getchar \/ PollDevices \/ UNCHANGED vars
    BY <2>2, LapUnchanged
    DEF Hardware, SerialArrives, KeyArrives, ConsInit, Getchar, PollDevices, vars
  <2>3. CASE SerialIntr
    BY <2>1, <2>3, LapUnchanged DEF SerialIntr, IInv, TypeOK
  <2>4. CASE KbdIntr
    <3>1. CASE kbd # <<>>
      <4>1. Head(kbd) \in Byte
        BY <3>1 DEF IInv, TypeOK
      <4> QED
        BY <2>1, <2>4, <3>1, <4>1 DEF KbdIntr
    <3>2. CASE kbd = <<>>
      BY <2>4, <3>2, LapUnchanged DEF KbdIntr
    <3> QED
      BY <3>1, <3>2
  <2>5. CASE ConsGetc
    <3>1. CASE rpos # wpos
      BY <2>5, <3>1, TakeLap
    <3>2. CASE rpos = wpos
      BY <2>5, <3>2, LapUnchanged DEF ConsGetc, ring
    <3> QED
      BY <3>1, <3>2
  <2> QED
    BY <2>2, <2>3, <2>4, <2>5 DEF Next, Kernel
<1>3. IInv /\ LapInv => LossIsWholeLaps
  <2> SUFFICES ASSUME IInv, LapInv, NEW j \in DOMAIN got
               PROVE  \E p \in DOMAIN stored :
                        stored[p] = got[j] /\ p >= j /\ (p - j) % N = 0
    BY DEF LossIsWholeLaps
  <2>1. /\ DOMAIN got = 1 .. Len(got) /\ DOMAIN stored = 1 .. Len(stored)
        /\ Len(got) \in Nat /\ Len(stored) \in Nat
    BY DEF IInv, TypeOK
  <2>2. PICK p \in 1 .. Len(stored) : stored[p] = got[j] /\ Laps(p - j)
    BY <2>1 DEF LapInv, DeliveredAreLapsBehind
  <2>3. p - j \in Int
    BY <2>1
  <2>4. p - j \in Nat /\ (p - j) % N = 0
    BY <2>2, <2>3, LapsArithmetic
  <2> QED
    BY <2>1, <2>2, <2>4
<1> QED
  BY <1>1, <1>2, <1>3, InitIInv, NextIInv, PTL DEF Spec
=========================================================================
