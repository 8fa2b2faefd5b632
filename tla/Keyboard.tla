------------------------------ MODULE Keyboard ------------------------------
(***************************************************************************)
(* keyboard.c: the interrupt handler of the PS/2 keyboard (274-286), the    *)
(* set 2 scan code decoder it calls (173-227), and the ring buffer of       *)
(* util.c that it fills (243-260).                                          *)
(*                                                                         *)
(* The keyboard itself is the environment: it sends the bytes of one key    *)
(* event at a time, each raising an interrupt, all on one processor.        *)
(* Around some keys it also sends fake shifts, a shift's code after E0, to  *)
(* cancel the shifts that are down (NumLock off, the keypad's /) or to add  *)
(* one (NumLock on, Print Screen).  Scan codes are told apart by what       *)
(* conversion_scan_ascii has for them.                                      *)
(***************************************************************************)
EXTENDS Naturals, Sequences

CONSTANTS
    Letters,               \* codes whose table entry is in 'a' .. 'z'
    Others,                \* codes with another character
    Silents,               \* codes whose entry is 0: F1, Ctrl, Alt, arrows ...
    Beyond,                \* codes past the end of the table, 0x77 and above
    Plain, Extended,       \* keys of the keyboard that send code, E0 code
    KEYBOARD_BUFFER_SIZE

Shifts == {"LSHIFT", "RSHIFT"}
Modifiers == Shifts \cup {"CAPS"}
Codes == Modifiers \cup Letters \cup Others \cup Silents \cup Beyond
ScanCodes == {"E0", "E1", "BREAK"} \cup Codes

(* The codes are apart, and no key sends a modifier's code after E0: these  *)
(* are the fake shifts.  "CTRL" and "NUM" are what Pause sends besides      *)
(* prefixes.                                                                *)
ASSUME KeysAssumption ==
    /\ KEYBOARD_BUFFER_SIZE \in Nat /\ KEYBOARD_BUFFER_SIZE > 1
    /\ {"E0", "E1", "BREAK", "PAUSE"} \cap Codes = {}
    /\ Letters \cap Others = {} /\ Letters \cap Silents = {} /\ Letters \cap Beyond = {}
    /\ Others \cap Silents = {} /\ Others \cap Beyond = {} /\ Silents \cap Beyond = {}
    /\ Modifiers \cap (Letters \cup Others \cup Silents \cup Beyond) = {}
    /\ {"CTRL", "NUM"} \subseteq Silents \cup Beyond
    /\ Plain \subseteq Codes /\ Extended \subseteq Codes \ Modifiers

NoKey == <<"none", "nul">>       \* key code 0, which is also the prefix
KeyCodes == {NoKey} \cup (Letters \X {"lower", "upper"}) \cup (Others \X {"plain"})
              \cup (Modifiers \X {"special"})
SpecialKey(key) == key[2] = "special"      \* >= SPECIAL_KEY_CODE_START

Keys == (Plain \X {"plain"}) \cup (Extended \X {"E0"}) \cup {<<"PAUSE", "E1">>}
FakeShifts == Shifts \X {"E0"}

(* the bytes of a key event, or of a fake shift; Pause sends all of its     *)
(* bytes when pressed and none when released                                *)
Sequence(key, event) ==
    LET code == IF event = "make" THEN <<key[1]>> ELSE <<"BREAK", key[1]>>
    IN  CASE key[2] = "plain" -> code
          [] key[2] = "E0" -> <<"E0">> \o code
          [] key[2] = "E1" -> <<"E1", "CTRL", "NUM", "E1", "BREAK", "CTRL",
                                "BREAK", "NUM">>

VARIABLES
    kbd_state,         \* the decoder's flags (prev_code is written only)
    ring_buffer_kbd,   \* the ring buffer of key codes
    key_code,          \* the code the last interrupt delivered
    held,              \* the keyboard: keys that are down
    fake,              \* the shifts it has faked, and not cancelled since
    sent,              \* the event whose bytes are being sent
    line,              \* its bytes still to be read from port 0x60
    stale              \* break_code was set when the event began

vars == <<kbd_state, ring_buffer_kbd, key_code, held, fake, sent, line, stale>>
kbdVars == <<kbd_state, ring_buffer_kbd, key_code>>

Flags == {"lshift_down", "rshift_down", "caps", "break_code",
          "e0_code", "e0_nested_code", "e1_code", "e1_nested_code"}

TypeOK ==
    /\ kbd_state \in [Flags -> BOOLEAN]
    /\ ring_buffer_kbd \in [buffer : [0 .. KEYBOARD_BUFFER_SIZE - 1 -> KeyCodes],
                           cur_ptr : 0 .. KEYBOARD_BUFFER_SIZE - 1,
                           len : 0 .. KEYBOARD_BUFFER_SIZE - 1]
    /\ key_code \in KeyCodes
    /\ held \subseteq Keys /\ fake \subseteq Shifts
    /\ sent \in (Keys \cup FakeShifts) \X {"make", "break"}
    /\ line \in Seq(ScanCodes)
    /\ stale \in BOOLEAN

Init ==
    /\ kbd_state = [f \in Flags |-> FALSE]
    /\ ring_buffer_kbd = [buffer |-> [i \in 0 .. KEYBOARD_BUFFER_SIZE - 1 |-> NoKey],
                          cur_ptr |-> 0, len |-> 0]
    /\ key_code = NoKey
    /\ held = {} /\ fake = {}
    /\ sent = <<<<"PAUSE", "E1">>, "break">>
    /\ line = <<>>
    /\ stale = FALSE

-----------------------------------------------------------------------------
(***************************************************************************)
(* The keyboard.  A key that stays down repeats its make code.              *)
(***************************************************************************)
Send(key, event) ==
    /\ line = <<>>
    /\ sent' = <<key, event>>
    /\ line' = Sequence(key, event)
    /\ stale' = kbd_state.break_code
    /\ UNCHANGED kbdVars

Press(key) ==
    /\ Send(key, "make")
    /\ held' = IF key[2] = "E1" THEN held ELSE held \cup {key}
    /\ fake' = fake

Release(key) ==
    /\ key \in held
    /\ Send(key, "break")
    /\ held' = held \ {key}
    /\ fake' = fake

(* Keyboards differ in when they send fake shifts, and so they come at any  *)
(* moment between two key events: before the key they are for, or after it. *)
FakeMake(shift) ==
    /\ Send(<<shift, "E0">>, "make")
    /\ fake' = fake \cup {shift}
    /\ held' = held

FakeBreak(shift) ==
    /\ Send(<<shift, "E0">>, "break")
    /\ fake' = fake \ {shift}
    /\ held' = held

-----------------------------------------------------------------------------
(***************************************************************************)
(* The handler                                                             *)
(***************************************************************************)
(* what conversion_scan_ascii yields; past its end, whatever lies there     *)
conversion_scan_ascii(code) ==
    CASE code \in Letters -> {<<code, "lower">>}
      [] code \in Others -> {<<code, "plain">>}
      [] code \in Silents -> {NoKey}
      [] code \in Beyond -> KeyCodes

(* mutant: the prefix's slot is not counted *)
ring_buffer_put_elem_NoLimit(rb, elem) ==
    [rb EXCEPT !.buffer[rb.cur_ptr] = elem, !.len = @ + 1]

ring_buffer_put_elem(rb, elem) ==
    IF (rb.cur_ptr + rb.len + 1) % KEYBOARD_BUFFER_SIZE = rb.cur_ptr
    THEN rb
    ELSE [rb EXCEPT !.buffer[rb.cur_ptr] = elem, !.len = @ + 1]

(* a special key code is put after a 0 prefix *)
Deliver(key) ==
    /\ key_code' = key
    /\ ring_buffer_kbd' =
         LET rb == IF SpecialKey(key) THEN ring_buffer_put_elem(ring_buffer_kbd, NoKey)
                   ELSE ring_buffer_kbd
         IN  ring_buffer_put_elem(rb, key)

(* mutant: a release delivers the key as well *)
set_key_code_Always(key) == key

(* set_key_code: nothing is delivered for a break code *)
set_key_code(key) == IF kbd_state.break_code THEN NoKey ELSE key

(* an interrupt whose byte is one of the codes *)
Receive(codes) ==
    /\ line # <<>>
    /\ Head(line) \in codes
    /\ line' = Tail(line)
    /\ UNCHANGED <<held, fake, sent, stale>>

(* E0 and E1: the first sets a flag, a further one its nested flag; neither *)
(* flag is ever cleared                                                     *)
Prefix(code, flag, nested) ==
    /\ Receive({code})
    /\ kbd_state' = IF ~ kbd_state[flag] THEN [kbd_state EXCEPT ![flag] = TRUE]
                    ELSE [kbd_state EXCEPT ![nested] = TRUE]
    /\ Deliver(NoKey)

BreakPrefix ==
    /\ Receive({"BREAK"})
    /\ kbd_state' = [kbd_state EXCEPT !.break_code = TRUE]
    /\ Deliver(NoKey)

(* mutant: the release leaves break_code set *)
Shift_BreakKept(code, flag) ==
    /\ Receive({code})
    /\ kbd_state' = [kbd_state EXCEPT ![flag] = ~ kbd_state.break_code]
    /\ Deliver(set_key_code(<<code, "special">>))
(* mutant: the release does not lift the shift *)
Shift_NotLifted(code, flag) ==
    /\ Receive({code})
    /\ kbd_state' = [kbd_state EXCEPT ![flag] = TRUE, !.break_code = FALSE]
    /\ Deliver(set_key_code(<<code, "special">>))

Shift(code, flag) ==
    /\ Receive({code})
    /\ kbd_state' = [kbd_state EXCEPT ![flag] = ~ kbd_state.break_code,
                                      !.break_code = FALSE]
    /\ Deliver(set_key_code(<<code, "special">>))

Caps ==
    /\ Receive({"CAPS"})
    /\ kbd_state' = [kbd_state EXCEPT !.caps = (@ # ~ kbd_state.break_code),
                                      !.break_code = FALSE]
    /\ Deliver(set_key_code(<<"CAPS", "special">>))

(* mutant: caps is forgotten *)
Shown_NoCaps(key) ==
    IF key[2] = "lower" /\ (kbd_state.lshift_down \/ kbd_state.rshift_down)
    THEN <<key[1], "upper">> ELSE key

(* the key code of a letter follows the shifts and caps *)
Shown(key) ==
    IF key[2] = "lower" /\ (kbd_state.lshift_down \/ kbd_state.rshift_down) # kbd_state.caps
    THEN <<key[1], "upper">> ELSE key

(* the default case: break_code is cleared only for a code with a character *)
Character ==
    /\ Receive(Letters \cup Others \cup Silents \cup Beyond)
    /\ \E key \in conversion_scan_ascii(Head(line)) :
         /\ kbd_state' = [kbd_state EXCEPT !.break_code = @ /\ key = NoKey]
         /\ Deliver(IF kbd_state.break_code THEN NoKey ELSE Shown(key))

keyboard_handle_interrupt ==
    \/ Prefix("E0", "e0_code", "e0_nested_code")
    \/ Prefix("E1", "e1_code", "e1_nested_code")
    \/ BreakPrefix
    \/ Shift("LSHIFT", "lshift_down") \/ Shift("RSHIFT", "rshift_down")
    \/ Caps
    \/ Character

Next == \/ \E key \in Keys : Press(key) \/ Release(key)
        \/ \E shift \in Shifts : FakeMake(shift) \/ FakeBreak(shift)
        \/ keyboard_handle_interrupt

Spec == Init /\ [][Next]_vars
-----------------------------------------------------------------------------
(* The event whose last byte is being read, and its key's code *)
LastByte(event) == Len(line) = 1 /\ line' = <<>> /\ sent[2] = event
Code == sent[1][1]
Printable == Letters \cup Others

(* break_code, which a released key without a character leaves set, is      *)
(* clear again after the next event of any other key: the decoder is never  *)
(* out of step with the keyboard for longer.                                *)
InStep ==
    (line = <<>> /\ Code \in Printable \cup Modifiers) => ~ kbd_state.break_code

(* The driver, which does not look at e0_code, takes a fake shift for the   *)
(* shift key.  It makes up no shift of its own: between events, a shift     *)
(* flag is set only while its key is down or the keyboard's fake of it is   *)
(* not cancelled, although a stale break_code may have hidden the press.    *)
NoStuckShift ==
    line = <<>> =>
        /\ kbd_state.lshift_down => <<"LSHIFT", "plain">> \in held \/ "LSHIFT" \in fake
        /\ kbd_state.rshift_down => <<"RSHIFT", "plain">> \in held \/ "RSHIFT" \in fake

(* No byte of a key's release, or of a fake one, delivers a key code, in    *)
(* step or not.  The fake make that gives a shift back after the release of *)
(* another key does: the driver takes it for a press of the shift.          *)
ReleaseSilent ==
    [][(line # <<>> /\ sent[2] = "break" /\ line' = Tail(line))
       => key_code' = NoKey]_vars

(* A press that does not begin with a stale break_code delivers the key's   *)
(* own character, in the case caps asks for when no shift key is down and   *)
(* none is faked.                                                           *)
InStepPressTyped ==
    [][(LastByte("make") /\ Code \in Printable /\ ~ stale) =>
          /\ key_code'[1] = Code
          /\ (Code \in Letters /\ fake = {} /\ (Shifts \X {"plain"}) \cap held = {})
               => (key_code'[2] = "upper") = kbd_state.caps]_vars

(* keyboard.c:5: the decoder "Converts set 2 scan code to ascii code": each *)
(* press of a key with a character delivers that character.                 *)
PressTyped ==
    [][(LastByte("make") /\ Code \in Printable) => key_code'[1] = Code]_vars
=============================================================================
