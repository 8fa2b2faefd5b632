--------------------------- MODULE KeyboardProofs ---------------------------
(***************************************************************************)
(* Proofs that the scan code decoder recovers from the break_code that it   *)
(* forgets to clear, for any keyboard and wherever it sends fake shifts: no *)
(* shift is stuck, no release types, and a press that begins in step types  *)
(* its key.                                                                 *)
(***************************************************************************)
EXTENDS Keyboard, SequenceTheorems, TLAPS

USE DEF kbdVars

-----------------------------------------------------------------------------
(* The bytes still to come, as explicit sequences                           *)

PauseRest == {<<"E1", "CTRL", "NUM", "E1", "BREAK", "CTRL", "BREAK", "NUM">>,
              <<"CTRL", "NUM", "E1", "BREAK", "CTRL", "BREAK", "NUM">>,
              <<"NUM", "E1", "BREAK", "CTRL", "BREAK", "NUM">>,
              <<"E1", "BREAK", "CTRL", "BREAK", "NUM">>,
              <<"BREAK", "CTRL", "BREAK", "NUM">>,
              <<"CTRL", "BREAK", "NUM">>, <<"BREAK", "NUM">>, <<"NUM">>}

(* the key is down, or the fake shift not cancelled *)
Down(key) == key \in held \/ (key[2] = "E0" /\ key[1] \in fake)

(* A break_code is clear or stale until the event's own BREAK sets it.      *)
LineInv ==
    LET key == sent[1] code == key[1] IN
    \/ line = <<>>
    \/ key[2] = "E1" /\ sent[2] = "make" /\ line \in PauseRest
    \/ /\ key[2] \in {"plain", "E0"} /\ sent[2] = "make"
       /\ line \in {<<"E0", code>>, <<code>>}
       /\ kbd_state.break_code = stale /\ Down(key)
    \/ /\ key[2] \in {"plain", "E0"} /\ sent[2] = "break"
       /\ \/ line \in {<<"E0", "BREAK", code>>, <<"BREAK", code>>}
          \/ line = <<code>> /\ kbd_state.break_code

(* A shift flag is set while its key or its fake is down, or the release of *)
(* either is on the way.                                                    *)
Lifting(code) == sent[1] \in {<<code, "plain">>, <<code, "E0">>} /\ sent[2] = "break"
ShiftInv(flag, code) ==
    kbd_state[flag] => \/ <<code, "plain">> \in held \/ code \in fake
                       \/ Lifting(code) /\ line # <<>>

HeldInv == \A key \in held : key[2] # "E1"

(* nobody takes characters out of the ring buffer *)
BufferInv == ring_buffer_kbd.cur_ptr = 0

Inv == /\ TypeOK /\ LineInv /\ HeldInv /\ BufferInv /\ InStep
       /\ ShiftInv("lshift_down", "LSHIFT") /\ ShiftInv("rshift_down", "RSHIFT")

-----------------------------------------------------------------------------
LEMMA KeyForms ==
    ASSUME NEW key \in Keys \cup FakeShifts
    PROVE  \/ key[2] \in {"plain", "E0"} /\ key[1] \in Codes /\ key = <<key[1], key[2]>>
           \/ key = <<"PAUSE", "E1">> /\ key[1] = "PAUSE" /\ key[2] = "E1"
<1>1. CASE key \in Keys
  BY <1>1, KeysAssumption DEF Keys
<1>2. CASE key \in FakeShifts
  BY <1>2 DEF FakeShifts, Codes, Modifiers
<1> QED BY <1>1, <1>2

(* The bytes of an event, as LineInv lists them.                            *)
LEMMA Joined ==
    ASSUME NEW S, NEW a \in S, NEW b \in S, NEW c \in S
    PROVE  <<a>> \o <<b>> = <<a, b>> /\ <<a>> \o <<b, c>> = <<a, b, c>>
<1>1. <<a>> \in Seq(S) /\ <<b>> \in Seq(S) /\ <<b, c>> \in Seq(S)
  OBVIOUS
<1>2. <<a>> \o <<b>> = <<a, b>>
  <2> DEFINE s == <<a>> \o <<b>>
  <2>1. s \in Seq(S) /\ Len(s) = 2 /\ \A i \in 1 .. 2 : s[i] = IF i <= 1 THEN a ELSE b
    BY <1>1, ConcatProperties
  <2>2. <<a, b>> \in Seq(S) /\ Len(<<a, b>>) = 2
    OBVIOUS
  <2>3. \A i \in 1 .. 2 : s[i] = <<a, b>>[i]
    BY <2>1
  <2> HIDE DEF s
  <2>4. s = <<a, b>>
    BY <2>1, <2>2, <2>3, SeqEqual
  <2> QED BY <2>4 DEF s
<1>3. <<a>> \o <<b, c>> = <<a, b, c>>
  <2> DEFINE s == <<a>> \o <<b, c>>
  <2>1. /\ s \in Seq(S) /\ Len(s) = 3
        /\ \A i \in 1 .. 3 : s[i] = IF i <= 1 THEN a ELSE <<b, c>>[i - 1]
    BY <1>1, ConcatProperties
  <2>2. <<a, b, c>> \in Seq(S) /\ Len(<<a, b, c>>) = 3
    OBVIOUS
  <2>3. \A i \in 1 .. 3 : s[i] = <<a, b, c>>[i]
    BY <2>1
  <2> HIDE DEF s
  <2>4. s = <<a, b, c>>
    BY <2>1, <2>2, <2>3, SeqEqual
  <2> QED BY <2>4 DEF s
<1> QED BY <1>2, <1>3

LEMMA Sequences ==
    ASSUME NEW key \in Keys \cup FakeShifts
    PROVE  /\ key[2] = "E1" => \A event : Sequence(key, event) \in PauseRest
           /\ key[2] = "plain" => /\ Sequence(key, "make") = <<key[1]>>
                                 /\ Sequence(key, "break") = <<"BREAK", key[1]>>
           /\ key[2] = "E0" => /\ Sequence(key, "make") = <<"E0", key[1]>>
                              /\ Sequence(key, "break") = <<"E0", "BREAK", key[1]>>
<1>1. CASE key[2] = "E1"
  BY <1>1 DEF Sequence, PauseRest
<1>2. CASE key[2] = "plain"
  BY <1>2 DEF Sequence
<1>3. CASE key[2] = "E0"
  <2>1. Sequence(key, "make") = <<"E0">> \o <<key[1]>>
    BY <1>3 DEF Sequence
  <2>2. Sequence(key, "break") = <<"E0">> \o <<"BREAK", key[1]>>
    BY <1>3 DEF Sequence
  <2> QED BY <2>1, <2>2, <1>3, Joined
<1> QED BY <1>1, <1>2, <1>3, KeyForms

LEMMA Tails ==
    /\ \A a : <<a>> # <<>> /\ Head(<<a>>) = a /\ Tail(<<a>>) = <<>> /\ Len(<<a>>) = 1
    /\ \A a, b : <<a, b>> # <<>> /\ Head(<<a, b>>) = a /\ Tail(<<a, b>>) = <<b>>
    /\ \A a, b : Len(<<a, b>>) = 2
    /\ \A a, b, c : /\ <<a, b, c>> # <<>> /\ Head(<<a, b, c>>) = a
                    /\ Tail(<<a, b, c>>) = <<b, c>> /\ Len(<<a, b, c>>) = 3
  OBVIOUS

PauseCodes == {"E1", "BREAK", "CTRL", "NUM"}

LEMMA PauseTails ==
    ASSUME NEW rest \in PauseRest
    PROVE  /\ rest # <<>> /\ Head(rest) \in PauseCodes
           /\ Tail(rest) = <<>> \/ Tail(rest) \in PauseRest
           /\ rest \in Seq(PauseCodes)
<1>1. CASE rest = <<"E1", "CTRL", "NUM", "E1", "BREAK", "CTRL", "BREAK", "NUM">>
  <2>1. rest # <<>> /\ Head(rest) = "E1" /\ Tail(rest) = <<"CTRL", "NUM", "E1", "BREAK", "CTRL", "BREAK", "NUM">>
    BY <1>1
  <2>2. rest \in Seq(PauseCodes)
    BY <1>1 DEF PauseCodes
  <2> QED BY <2>1, <2>2 DEF PauseRest, PauseCodes
<1>2. CASE rest = <<"CTRL", "NUM", "E1", "BREAK", "CTRL", "BREAK", "NUM">>
  <2>1. rest # <<>> /\ Head(rest) = "CTRL" /\ Tail(rest) = <<"NUM", "E1", "BREAK", "CTRL", "BREAK", "NUM">>
    BY <1>2
  <2>2. rest \in Seq(PauseCodes)
    BY <1>2 DEF PauseCodes
  <2> QED BY <2>1, <2>2 DEF PauseRest, PauseCodes
<1>3. CASE rest = <<"NUM", "E1", "BREAK", "CTRL", "BREAK", "NUM">>
  <2>1. rest # <<>> /\ Head(rest) = "NUM" /\ Tail(rest) = <<"E1", "BREAK", "CTRL", "BREAK", "NUM">>
    BY <1>3
  <2>2. rest \in Seq(PauseCodes)
    BY <1>3 DEF PauseCodes
  <2> QED BY <2>1, <2>2 DEF PauseRest, PauseCodes
<1>4. CASE rest = <<"E1", "BREAK", "CTRL", "BREAK", "NUM">>
  <2>1. rest # <<>> /\ Head(rest) = "E1" /\ Tail(rest) = <<"BREAK", "CTRL", "BREAK", "NUM">>
    BY <1>4
  <2>2. rest \in Seq(PauseCodes)
    BY <1>4 DEF PauseCodes
  <2> QED BY <2>1, <2>2 DEF PauseRest, PauseCodes
<1>5. CASE rest = <<"BREAK", "CTRL", "BREAK", "NUM">>
  <2>1. rest # <<>> /\ Head(rest) = "BREAK" /\ Tail(rest) = <<"CTRL", "BREAK", "NUM">>
    BY <1>5
  <2>2. rest \in Seq(PauseCodes)
    BY <1>5 DEF PauseCodes
  <2> QED BY <2>1, <2>2 DEF PauseRest, PauseCodes
<1>6. CASE rest = <<"CTRL", "BREAK", "NUM">>
  <2>1. rest # <<>> /\ Head(rest) = "CTRL" /\ Tail(rest) = <<"BREAK", "NUM">>
    BY <1>6
  <2>2. rest \in Seq(PauseCodes)
    BY <1>6 DEF PauseCodes
  <2> QED BY <2>1, <2>2 DEF PauseRest, PauseCodes
<1>7. CASE rest = <<"BREAK", "NUM">>
  <2>1. rest # <<>> /\ Head(rest) = "BREAK" /\ Tail(rest) = <<"NUM">>
    BY <1>7
  <2>2. rest \in Seq(PauseCodes)
    BY <1>7 DEF PauseCodes
  <2> QED BY <2>1, <2>2 DEF PauseRest, PauseCodes
<1>8. CASE rest = <<"NUM">>
  <2>1. rest # <<>> /\ Head(rest) = "NUM" /\ Tail(rest) = <<>>
    BY <1>8
  <2>2. rest \in Seq(PauseCodes)
    BY <1>8 DEF PauseCodes
  <2> QED BY <2>1, <2>2 DEF PauseRest, PauseCodes
<1> QED BY <1>1, <1>2, <1>3, <1>4, <1>5, <1>6, <1>7, <1>8 DEF PauseRest

-----------------------------------------------------------------------------
(* The ring buffer, and what the handler delivers                           *)

Buffers == [buffer : [0 .. KEYBOARD_BUFFER_SIZE - 1 -> KeyCodes],
            cur_ptr : {0}, len : 0 .. KEYBOARD_BUFFER_SIZE - 1]

(* The buffer never gets a len that fills it.                               *)
LEMMA Puts ==
    ASSUME NEW rb \in Buffers, NEW elem \in KeyCodes
    PROVE  ring_buffer_put_elem(rb, elem) \in Buffers
<1>1. KEYBOARD_BUFFER_SIZE \in Nat /\ KEYBOARD_BUFFER_SIZE > 1
  BY KeysAssumption
<1>2. CASE rb.len + 1 = KEYBOARD_BUFFER_SIZE
  <2>1. (rb.cur_ptr + rb.len + 1) % KEYBOARD_BUFFER_SIZE = rb.cur_ptr
    BY <1>1, <1>2 DEF Buffers
  <2> QED BY <2>1 DEF ring_buffer_put_elem
<1>3. CASE rb.len + 1 # KEYBOARD_BUFFER_SIZE
  <2>1. rb.len + 1 \in 0 .. KEYBOARD_BUFFER_SIZE - 1 /\ rb.cur_ptr = 0
    BY <1>1, <1>3 DEF Buffers
  <2>2. [rb EXCEPT !.buffer[rb.cur_ptr] = elem, !.len = @ + 1] \in Buffers
    BY <1>1, <2>1 DEF Buffers
  <2> QED BY <2>2 DEF ring_buffer_put_elem
<1> QED BY <1>2, <1>3

LEMMA Delivered ==
    ASSUME ring_buffer_kbd \in Buffers, NEW key \in KeyCodes, Deliver(key)
    PROVE  ring_buffer_kbd' \in Buffers /\ key_code' \in KeyCodes /\ key_code' = key
<1> DEFINE rb == IF SpecialKey(key) THEN ring_buffer_put_elem(ring_buffer_kbd, NoKey)
                 ELSE ring_buffer_kbd
<1>1. NoKey \in KeyCodes
  BY DEF KeyCodes
<1>2. rb \in Buffers
  BY <1>1, Puts
<1>3. ring_buffer_put_elem(rb, key) \in Buffers
  <2> HIDE DEF rb
  <2> QED BY <1>2, Puts
<1> QED BY <1>3 DEF Deliver

(* A byte that is read, whichever event it belongs to.                      *)
Paused(byte, rest) ==
    /\ sent[1] = <<"PAUSE", "E1">> /\ Code = "PAUSE" /\ sent[2] = "make"
    /\ byte \in PauseCodes /\ rest \in PauseRest \cup {<<>>}
Plained(byte, rest) ==
    /\ Code \in Codes /\ sent[1] = <<Code, sent[1][2]>> /\ sent[1][2] \in {"plain", "E0"}
    /\ \/ /\ sent[2] = "make" /\ kbd_state.break_code = stale /\ Down(sent[1])
          /\ \/ byte = "E0" /\ rest = <<Code>>
             \/ line = <<Code>> /\ byte = Code /\ rest = <<>>
       \/ /\ sent[2] = "break"
          /\ \/ byte = "E0" /\ rest = <<"BREAK", Code>>
             \/ byte = "BREAK" /\ rest = <<Code>>
             \/ line = <<Code>> /\ byte = Code /\ rest = <<>> /\ kbd_state.break_code

LEMMA Bytes ==
    ASSUME Inv, line # <<>>
    PROVE  Paused(Head(line), Tail(line)) \/ Plained(Head(line), Tail(line))
<1>1. sent[1] \in Keys \cup FakeShifts /\ sent[2] \in {"make", "break"}
  BY DEF Inv, TypeOK
<1>2. CASE sent[1][2] = "E1"
  <2>1. sent[1] = <<"PAUSE", "E1">> /\ Code = "PAUSE"
    BY <1>1, <1>2, KeyForms DEF Code
  <2>2. line \in PauseRest /\ sent[2] = "make"
    BY <1>2 DEF Inv, LineInv
  <2>3. Head(line) \in PauseCodes /\ Tail(line) \in PauseRest \cup {<<>>}
    BY <2>2, PauseTails
  <2> QED BY <2>1, <2>2, <2>3 DEF Paused
<1>3. CASE sent[1][2] # "E1"
  <2>1. /\ Code \in Codes /\ sent[1] = <<Code, sent[1][2]>> /\ sent[1][2] \in {"plain", "E0"}
    BY <1>1, <1>3, KeyForms DEF Code
  <2>2. CASE sent[2] = "make"
    <3>1. /\ line \in {<<"E0", Code>>, <<Code>>}
          /\ kbd_state.break_code = stale /\ Down(sent[1])
      BY <1>3, <2>2 DEF Inv, LineInv, Code
    <3>2. \/ Head(line) = "E0" /\ Tail(line) = <<Code>>
          \/ line = <<Code>> /\ Head(line) = Code /\ Tail(line) = <<>>
      BY <3>1, Tails
    <3> QED BY <2>1, <2>2, <3>1, <3>2 DEF Plained
  <2>3. CASE sent[2] = "break"
    <3>1. \/ line \in {<<"E0", "BREAK", Code>>, <<"BREAK", Code>>}
          \/ line = <<Code>> /\ kbd_state.break_code
      BY <1>3, <2>3 DEF Inv, LineInv, Code
    <3>2. \/ Head(line) = "E0" /\ Tail(line) = <<"BREAK", Code>>
          \/ Head(line) = "BREAK" /\ Tail(line) = <<Code>>
          \/ /\ line = <<Code>> /\ Head(line) = Code /\ Tail(line) = <<>>
             /\ kbd_state.break_code
      <4>1. CASE line = <<"E0", "BREAK", Code>>
        BY <4>1, Tails
      <4>2. CASE line = <<"BREAK", Code>>
        BY <4>2, Tails
      <4>3. CASE line = <<Code>> /\ kbd_state.break_code
        BY <4>3, Tails
      <4> QED BY <3>1, <4>1, <4>2, <4>3
    <3> QED BY <2>1, <2>3, <3>2 DEF Plained
  <2> QED BY <1>1, <2>2, <2>3
<1> QED BY <1>2, <1>3

-----------------------------------------------------------------------------
(* Inv holds at first and is kept by the keyboard                           *)

LEMMA Initial == Init => Inv
<1> SUFFICES ASSUME Init PROVE Inv
  OBVIOUS
<1>1. KEYBOARD_BUFFER_SIZE \in Nat /\ KEYBOARD_BUFFER_SIZE > 1 /\ "PAUSE" \notin Codes
  BY KeysAssumption
<1>2. NoKey \in KeyCodes /\ <<"PAUSE", "E1">> \in Keys
  BY DEF KeyCodes, Keys
<1>3. TypeOK
  <2>1. kbd_state \in [Flags -> BOOLEAN] /\ held \subseteq Keys /\ fake \subseteq Shifts
        /\ stale \in BOOLEAN
    BY DEF Init
  <2>2. sent \in (Keys \cup FakeShifts) \X {"make", "break"} /\ line \in Seq(ScanCodes) /\ key_code \in KeyCodes
    BY <1>2 DEF Init
  <2>3. ring_buffer_kbd \in [buffer : [0 .. KEYBOARD_BUFFER_SIZE - 1 -> KeyCodes],
                             cur_ptr : 0 .. KEYBOARD_BUFFER_SIZE - 1,
                             len : 0 .. KEYBOARD_BUFFER_SIZE - 1]
    BY <1>1, <1>2 DEF Init
  <2> QED BY <2>1, <2>2, <2>3 DEF TypeOK
<1>4. LineInv /\ HeldInv /\ BufferInv
  BY DEF Init, LineInv, HeldInv, BufferInv
<1>5. InStep
  BY DEF Init, InStep, Flags
<1>6. ShiftInv("lshift_down", "LSHIFT") /\ ShiftInv("rshift_down", "RSHIFT")
  BY DEF Init, ShiftInv, Lifting, Flags
<1> QED BY <1>3, <1>4, <1>5, <1>6 DEF Inv

LEMMA Sent ==
    ASSUME Inv, NEW key \in Keys \cup FakeShifts, NEW event \in {"make", "break"},
           Send(key, event),
           held' \subseteq Keys, fake' \subseteq Shifts, HeldInv',
           event = "make" => (key[2] = "E1" \/ Down(key)'),
           event = "break" => key[2] # "E1",
           \A k \in held : k \in held' \/ (k = key /\ event = "break"),
           \A shift \in fake : shift \in fake' \/ (<<shift, "E0">> = key /\ event = "break")
    PROVE  Inv'
<1>1. sent' = <<key, event>> /\ sent'[1] = key /\ sent'[2] = event
  BY DEF Send
<1>2. line' = Sequence(key, event) /\ stale' = kbd_state.break_code
  BY DEF Send
<1>3. UNCHANGED kbdVars
  BY DEF Send
<1>4. line' # <<>> /\ line' \in Seq(ScanCodes) /\ LineInv'
  <2>1. CASE key[2] = "E1"
    <3>1. line' \in PauseRest
      BY <1>2, <2>1, Sequences
    <3>2. line' # <<>> /\ line' \in Seq(PauseCodes)
      BY <3>1, PauseTails
    <3>3. PauseCodes \subseteq ScanCodes
      BY KeysAssumption DEF PauseCodes, ScanCodes, Codes
    <3>4. line' \in Seq(ScanCodes)
      BY <3>2, <3>3
    <3> QED BY <1>1, <2>1, <3>1, <3>2, <3>4 DEF LineInv
  <2>2. CASE key[2] # "E1" /\ event = "make"
    <3>1. key[2] \in {"plain", "E0"} /\ key[1] \in Codes
      BY <2>2, KeyForms
    <3>2. line' \in {<<"E0", key[1]>>, <<key[1]>>}
      BY <1>2, <2>2, <3>1, Sequences
    <3>3. line' # <<>> /\ line' \in Seq(ScanCodes)
      <4>1. key[1] \in ScanCodes /\ "E0" \in ScanCodes
        BY <3>1 DEF ScanCodes
      <4>2. /\ <<"E0", key[1]>> # <<>> /\ <<key[1]>> # <<>>
            /\ <<"E0", key[1]>> \in Seq(ScanCodes) /\ <<key[1]>> \in Seq(ScanCodes)
        BY <4>1
      <4> QED BY <3>2, <4>2
    <3>4. kbd_state'.break_code = stale' /\ Down(key)'
      BY <1>2, <1>3, <2>2
    <3> QED BY <1>1, <2>2, <3>1, <3>2, <3>3, <3>4 DEF LineInv
  <2>3. CASE key[2] # "E1" /\ event = "break"
    <3>1. key[2] \in {"plain", "E0"} /\ key[1] \in Codes
      BY <2>3, KeyForms
    <3>2. line' \in {<<"E0", "BREAK", key[1]>>, <<"BREAK", key[1]>>}
      BY <1>2, <2>3, <3>1, Sequences
    <3>3. key[1] \in ScanCodes /\ "BREAK" \in ScanCodes /\ "E0" \in ScanCodes
      BY <3>1 DEF ScanCodes
    <3>4. /\ <<"E0", "BREAK", key[1]>> # <<>> /\ <<"BREAK", key[1]>> # <<>>
          /\ <<"E0", "BREAK", key[1]>> \in Seq(ScanCodes)
          /\ <<"BREAK", key[1]>> \in Seq(ScanCodes)
      BY <3>3
    <3>5. line' # <<>> /\ line' \in Seq(ScanCodes)
      BY <3>2, <3>4
    <3> QED BY <1>1, <2>3, <3>1, <3>2, <3>5 DEF LineInv
  <2> QED BY <2>1, <2>2, <2>3
<1>5. TypeOK'
  <2>1. kbd_state.break_code \in BOOLEAN
    BY DEF Inv, TypeOK, Flags
  <2> QED BY <1>1, <1>2, <1>3, <1>4, <2>1 DEF Inv, TypeOK
<1>6. BufferInv' /\ InStep'
  BY <1>3, <1>4 DEF Inv, BufferInv, InStep
<1>7. ASSUME NEW flag \in {"lshift_down", "rshift_down"}, NEW code, ShiftInv(flag, code)
      PROVE  ShiftInv(flag, code)'
  <2> SUFFICES ASSUME kbd_state[flag]'
               PROVE  \/ <<code, "plain">> \in held' \/ code \in fake'
                      \/ Lifting(code)' /\ line' # <<>>
    BY DEF ShiftInv, Lifting
  <2>1. <<code, "plain">> \in held \/ code \in fake
    BY <1>3, <1>7 DEF ShiftInv, Lifting, Send
  <2>2. CASE <<code, "plain">> \in held
    <3>1. <<code, "plain">> \in held' \/ (<<code, "plain">> = key /\ event = "break")
      BY <2>2
    <3> QED BY <1>1, <1>4, <3>1 DEF Lifting
  <2>3. CASE code \in fake
    <3>1. code \in fake' \/ (<<code, "E0">> = key /\ event = "break")
      BY <2>3
    <3> QED BY <1>1, <1>4, <3>1 DEF Lifting
  <2> QED BY <2>1, <2>2, <2>3
<1>8. ShiftInv("lshift_down", "LSHIFT")' /\ ShiftInv("rshift_down", "RSHIFT")'
  BY <1>7 DEF Inv
<1> QED BY <1>4, <1>5, <1>6, <1>8 DEF Inv

LEMMA Pressed ==
    ASSUME Inv, NEW key \in Keys, Press(key)
    PROVE  Inv'
<1>1. held' \subseteq Keys /\ fake' = fake /\ fake' \subseteq Shifts /\ HeldInv'
  BY DEF Press, Inv, TypeOK, HeldInv
<1>2. key[2] = "E1" \/ Down(key)'
  <2>1. key[2] = "E1" \/ key \in held'
    BY DEF Press
  <2> QED BY <2>1 DEF Down
<1>3. \A k \in held : k \in held' \/ (k = key /\ "make" = "break")
  BY DEF Press
<1>4. Send(key, "make")
  BY DEF Press
<1> QED BY <1>1, <1>2, <1>3, <1>4, Sent

LEMMA Released ==
    ASSUME Inv, NEW key \in Keys, Release(key)
    PROVE  Inv'
<1>1. /\ held' \subseteq Keys /\ fake' = fake /\ fake' \subseteq Shifts /\ HeldInv'
      /\ key[2] # "E1"
  BY DEF Release, Inv, TypeOK, HeldInv
<1>2. \A k \in held : k \in held' \/ k = key
  BY DEF Release
<1>3. Send(key, "break")
  BY DEF Release
<1> QED BY <1>1, <1>2, <1>3, Sent

LEMMA Faked ==
    ASSUME Inv, NEW shift \in Shifts, FakeMake(shift) \/ FakeBreak(shift)
    PROVE  Inv'
<1> DEFINE key == <<shift, "E0">>
<1>1. key \in Keys \cup FakeShifts /\ key[1] = shift /\ key[2] = "E0"
  BY DEF FakeShifts
<1>2. held' = held /\ held' \subseteq Keys /\ fake' \subseteq Shifts /\ HeldInv'
  BY DEF FakeMake, FakeBreak, Inv, TypeOK, HeldInv
<1>3. CASE FakeMake(shift)
  <2>1. Send(key, "make") /\ fake' = fake \cup {shift}
    BY <1>3 DEF FakeMake
  <2>2. Down(key)'
    BY <1>1, <2>1 DEF Down
  <2> HIDE DEF key
  <2> QED BY <1>1, <1>2, <2>1, <2>2, Sent
<1>4. CASE FakeBreak(shift)
  <2>1. Send(key, "break") /\ fake' = fake \ {shift}
    BY <1>4 DEF FakeBreak
  <2>2. \A s \in fake : s \in fake' \/ <<s, "E0">> = key
    BY <2>1
  <2> HIDE DEF key
  <2> QED BY <1>1, <1>2, <2>1, <2>2, Sent
<1> QED BY <1>3, <1>4

-----------------------------------------------------------------------------
(* Inv is kept by the handler                                               *)

(* What every interrupt does: it reads a byte and delivers a key code.      *)
LEMMA Taken ==
    ASSUME Inv, NEW codes, Receive(codes), NEW key \in KeyCodes, Deliver(key),
           kbd_state' \in [Flags -> BOOLEAN]
    PROVE  TypeOK' /\ HeldInv' /\ BufferInv'
<1>1. line' \in Seq(ScanCodes)
  BY DEF Inv, TypeOK, Receive
<1>2. ring_buffer_kbd \in Buffers
  BY DEF Inv, TypeOK, BufferInv, Buffers
<1>3. ring_buffer_kbd' \in Buffers /\ key_code' \in KeyCodes
  BY <1>2, Delivered
<1>4. /\ BufferInv'
      /\ ring_buffer_kbd' \in [buffer : [0 .. KEYBOARD_BUFFER_SIZE - 1 -> KeyCodes],
                               cur_ptr : 0 .. KEYBOARD_BUFFER_SIZE - 1,
                               len : 0 .. KEYBOARD_BUFFER_SIZE - 1]
  BY <1>3, KeysAssumption DEF BufferInv, Buffers
<1>5. held' = held /\ fake' = fake /\ sent' = sent /\ stale' = stale
  BY DEF Receive
<1>6. TypeOK'
  BY <1>1, <1>3, <1>4, <1>5 DEF Inv, TypeOK
<1> QED BY <1>4, <1>5, <1>6 DEF Inv, HeldInv

(* A prefix other than BREAK changes neither break_code nor a shift.        *)
LEMMA Prefixed ==
    ASSUME Inv, NEW code \in {"E0", "E1"}, NEW flag \in Flags, NEW nested \in Flags,
           flag \notin {"break_code", "lshift_down", "rshift_down"},
           nested \notin {"break_code", "lshift_down", "rshift_down"},
           Prefix(code, flag, nested)
    PROVE  Inv'
<1>1. /\ kbd_state' \in [Flags -> BOOLEAN]
      /\ kbd_state'.break_code = kbd_state.break_code
      /\ kbd_state'.lshift_down = kbd_state.lshift_down
      /\ kbd_state'.rshift_down = kbd_state.rshift_down
  BY DEF Inv, TypeOK, Flags, Prefix
<1>2. /\ line # <<>> /\ Head(line) = code /\ line' = Tail(line)
      /\ held' = held /\ fake' = fake /\ sent' = sent /\ stale' = stale
  BY DEF Prefix, Receive
<1>3. TypeOK' /\ HeldInv' /\ BufferInv'
  <2>1. NoKey \in KeyCodes
    BY DEF KeyCodes
  <2> QED BY <1>1, <2>1, Taken DEF Prefix
<1>4. "E0" \notin Codes /\ "E1" \notin Codes /\ "PAUSE" \notin Codes
  BY KeysAssumption
<1>5. CASE Paused(Head(line), Tail(line))
  <2>1. LineInv'
    BY <1>2, <1>5 DEF Paused, LineInv
  <2>2. InStep'
    BY <1>2, <1>4, <1>5 DEF Paused, InStep, Code, Codes, Printable
  <2>3. ShiftInv("lshift_down", "LSHIFT")' /\ ShiftInv("rshift_down", "RSHIFT")'
    BY <1>1, <1>2, <1>5 DEF Paused, Inv, ShiftInv, Lifting
  <2> QED BY <1>3, <2>1, <2>2, <2>3 DEF Inv
<1>6. CASE Plained(Head(line), Tail(line))
  <2>1. Head(line) # Code /\ Head(line) # "BREAK"
    BY <1>2, <1>4, <1>6 DEF Plained
  <2>2. \/ sent[2] = "make" /\ kbd_state.break_code = stale /\ Down(sent[1]) /\ line' = <<Code>>
        \/ sent[2] = "break" /\ line' = <<"BREAK", Code>>
    BY <1>2, <1>6, <2>1 DEF Plained
  <2>3. line' # <<>>
    BY <2>2, Tails
  <2>4. LineInv'
    BY <1>1, <1>2, <1>6, <2>2 DEF LineInv, Code, Plained, Down
  <2>5. InStep' /\ ShiftInv("lshift_down", "LSHIFT")' /\ ShiftInv("rshift_down", "RSHIFT")'
    BY <1>1, <1>2, <2>3 DEF Inv, InStep, ShiftInv, Lifting
  <2> QED BY <1>3, <2>4, <2>5 DEF Inv
<1> QED BY <1>2, <1>5, <1>6, Bytes

LEMMA Broken ==
    ASSUME Inv, BreakPrefix
    PROVE  Inv'
<1>1. /\ kbd_state' \in [Flags -> BOOLEAN]
      /\ kbd_state'.break_code
      /\ kbd_state'.lshift_down = kbd_state.lshift_down
      /\ kbd_state'.rshift_down = kbd_state.rshift_down
  BY DEF Inv, TypeOK, Flags, BreakPrefix
<1>2. /\ line # <<>> /\ Head(line) = "BREAK" /\ line' = Tail(line)
      /\ held' = held /\ fake' = fake /\ sent' = sent /\ stale' = stale
  BY DEF BreakPrefix, Receive
<1>3. TypeOK' /\ HeldInv' /\ BufferInv'
  <2>1. NoKey \in KeyCodes
    BY DEF KeyCodes
  <2> QED BY <1>1, <2>1, Taken DEF BreakPrefix
<1>4. "BREAK" \notin Codes /\ "PAUSE" \notin Codes
  BY KeysAssumption
<1>5. CASE Paused(Head(line), Tail(line))
  <2>1. LineInv'
    BY <1>2, <1>5 DEF Paused, LineInv
  <2>2. InStep'
    BY <1>2, <1>4, <1>5 DEF Paused, InStep, Code, Codes, Printable
  <2>3. ShiftInv("lshift_down", "LSHIFT")' /\ ShiftInv("rshift_down", "RSHIFT")'
    BY <1>1, <1>2, <1>5 DEF Paused, Inv, ShiftInv, Lifting
  <2> QED BY <1>3, <2>1, <2>2, <2>3 DEF Inv
<1>6. CASE Plained(Head(line), Tail(line))
  <2>1. sent[2] = "break" /\ line' = <<Code>>
    BY <1>2, <1>4, <1>6 DEF Plained
  <2>2. line' # <<>>
    BY <2>1, Tails
  <2>3. LineInv'
    BY <1>1, <1>2, <1>6, <2>1 DEF LineInv, Code, Plained
  <2>4. InStep' /\ ShiftInv("lshift_down", "LSHIFT")' /\ ShiftInv("rshift_down", "RSHIFT")'
    BY <1>1, <1>2, <2>2 DEF Inv, InStep, ShiftInv, Lifting
  <2> QED BY <1>3, <2>3, <2>4 DEF Inv
<1> QED BY <1>2, <1>5, <1>6, Bytes

(* The code of a modifier is the last byte of its own event, or of a fake   *)
(* one.                                                                     *)
LEMMA ModifierRead ==
    ASSUME Inv, NEW code \in Modifiers, line # <<>>, Head(line) = code
    PROVE  /\ Code = code /\ sent[1] \in {<<code, "plain">>, <<code, "E0">>} /\ Tail(line) = <<>>
           /\ \/ /\ sent[2] = "make"
                 /\ <<code, "plain">> \in held \/ code \in fake
              \/ sent[2] = "break" /\ kbd_state.break_code
<1>1. code \notin PauseCodes /\ code \in Codes /\ code \notin {"E0", "BREAK"}
  BY KeysAssumption DEF PauseCodes, Modifiers, Codes, Shifts
<1>2. Plained(Head(line), Tail(line))
  BY <1>1, Bytes DEF Paused
<1>3. Code = code /\ Tail(line) = <<>>
  BY <1>1, <1>2 DEF Plained
<1>4. sent[1] \in {<<code, "plain">>, <<code, "E0">>}
  BY <1>2, <1>3 DEF Plained
<1>5. <<code, "E0">> \notin held
  <2>1. <<code, "E0">> \notin Keys
    BY KeysAssumption DEF Keys
  <2> QED BY <2>1 DEF Inv, TypeOK
<1>6. ASSUME sent[2] = "make"
      PROVE  <<code, "plain">> \in held \/ code \in fake
  <2>1. Down(sent[1])
    BY <1>1, <1>2, <1>6 DEF Plained
  <2> QED BY <1>4, <1>5, <2>1 DEF Down
<1>7. sent[2] \in {"make", "break"} /\ (sent[2] = "break" => kbd_state.break_code)
  BY <1>1, <1>2 DEF Plained
<1> QED BY <1>3, <1>4, <1>6, <1>7

LEMMA Shifted ==
    ASSUME Inv, NEW code, NEW flag,
           \/ code = "LSHIFT" /\ flag = "lshift_down"
           \/ code = "RSHIFT" /\ flag = "rshift_down",
           Shift(code, flag)
    PROVE  Inv'
<1>1. /\ kbd_state' \in [Flags -> BOOLEAN] /\ ~ kbd_state'.break_code
      /\ kbd_state'[flag] = ~ kbd_state.break_code
      /\ \A f \in {"lshift_down", "rshift_down"} \ {flag} : kbd_state'[f] = kbd_state[f]
  BY DEF Inv, TypeOK, Flags, Shift
<1>2. /\ line # <<>> /\ Head(line) = code /\ line' = Tail(line)
      /\ held' = held /\ fake' = fake /\ sent' = sent /\ stale' = stale
  BY DEF Shift, Receive
<1>3. TypeOK' /\ HeldInv' /\ BufferInv'
  <2>1. set_key_code(<<code, "special">>) \in KeyCodes
    BY DEF KeyCodes, set_key_code, Modifiers, Shifts
  <2> QED BY <1>1, <2>1, Taken DEF Shift
<1>4. /\ sent[1] \in {<<code, "plain">>, <<code, "E0">>} /\ line' = <<>>
      /\ \/ /\ sent[2] = "make"
            /\ <<code, "plain">> \in held \/ code \in fake
         \/ sent[2] = "break" /\ kbd_state.break_code
  BY <1>2, ModifierRead DEF Modifiers, Shifts
<1>5. LineInv' /\ InStep'
  BY <1>1, <1>4 DEF LineInv, InStep
<1>6. ShiftInv(flag, code)'
  <2>1. kbd_state'[flag] => <<code, "plain">> \in held' \/ code \in fake'
    BY <1>1, <1>2, <1>4
  <2> QED BY <2>1 DEF ShiftInv, Lifting
<1>7. ASSUME NEW f \in {"lshift_down", "rshift_down"} \ {flag}, NEW c, c # code, ShiftInv(f, c)
      PROVE  ShiftInv(f, c)'
  <2>1. ~ Lifting(c)
    BY <1>4, <1>7 DEF Lifting
  <2> QED BY <1>1, <1>2, <1>7, <2>1 DEF ShiftInv, Lifting
<1>8. ShiftInv("lshift_down", "LSHIFT")' /\ ShiftInv("rshift_down", "RSHIFT")'
  BY <1>6, <1>7 DEF Inv
<1> QED BY <1>3, <1>5, <1>8 DEF Inv

LEMMA Capped ==
    ASSUME Inv, Caps
    PROVE  Inv'
<1>1. /\ kbd_state' \in [Flags -> BOOLEAN] /\ ~ kbd_state'.break_code
      /\ kbd_state'.lshift_down = kbd_state.lshift_down
      /\ kbd_state'.rshift_down = kbd_state.rshift_down
  BY DEF Inv, TypeOK, Flags, Caps
<1>2. /\ line # <<>> /\ Head(line) = "CAPS" /\ line' = Tail(line)
      /\ held' = held /\ fake' = fake /\ sent' = sent /\ stale' = stale
  BY DEF Caps, Receive
<1>3. TypeOK' /\ HeldInv' /\ BufferInv'
  <2>1. set_key_code(<<"CAPS", "special">>) \in KeyCodes
    BY DEF KeyCodes, set_key_code, Modifiers, Shifts
  <2> QED BY <1>1, <2>1, Taken DEF Caps
<1>4. sent[1][1] = "CAPS" /\ line' = <<>>
  BY <1>2, ModifierRead DEF Modifiers, Shifts
<1>5. LineInv' /\ InStep'
  BY <1>1, <1>4 DEF LineInv, InStep
<1>6. ShiftInv("lshift_down", "LSHIFT")' /\ ShiftInv("rshift_down", "RSHIFT")'
  BY <1>1, <1>2, <1>4 DEF Inv, ShiftInv, Lifting
<1> QED BY <1>3, <1>5, <1>6 DEF Inv

(* What the table holds for a code.                                         *)
LEMMA Converted ==
    ASSUME NEW code \in Letters \cup Others \cup Silents \cup Beyond,
           NEW key \in conversion_scan_ascii(code)
    PROVE  /\ key \in KeyCodes
           /\ code \in Letters => key = <<code, "lower">>
           /\ code \in Others => key = <<code, "plain">>
<1>1. CASE code \in Letters
  BY <1>1, KeysAssumption DEF conversion_scan_ascii, KeyCodes
<1>2. CASE code \in Others
  BY <1>2, KeysAssumption DEF conversion_scan_ascii, KeyCodes
<1>3. CASE code \in Silents
  BY <1>3, KeysAssumption DEF conversion_scan_ascii, KeyCodes
<1>4. CASE code \in Beyond
  BY <1>4, KeysAssumption DEF conversion_scan_ascii
<1> QED BY <1>1, <1>2, <1>3, <1>4

LEMMA ShownKeys ==
    ASSUME NEW key \in KeyCodes
    PROVE  Shown(key) \in KeyCodes /\ Shown(key)[1] = key[1]
<1>1. CASE key[2] = "lower"
  <2>1. key \in Letters \X {"lower", "upper"}
    BY <1>1 DEF KeyCodes, NoKey
  <2>2. <<key[1], "upper">> \in KeyCodes
    BY <2>1 DEF KeyCodes
  <2> QED BY <2>2 DEF Shown
<1>2. CASE key[2] # "lower"
  BY <1>2 DEF Shown
<1> QED BY <1>1, <1>2

(* The last byte of a key with no modifier, or one of the bytes of Pause.   *)
LEMMA CharacterRead ==
    ASSUME Inv, line # <<>>, Head(line) \in Letters \cup Others \cup Silents \cup Beyond
    PROVE  \/ Paused(Head(line), Tail(line))
           \/ /\ Plained(Head(line), Tail(line))
              /\ Head(line) = Code /\ Tail(line) = <<>> /\ line = <<Code>>
<1>1. Head(line) \notin {"E0", "BREAK"}
  BY KeysAssumption DEF Codes
<1> QED BY <1>1, Bytes DEF Plained

LEMMA Charactered ==
    ASSUME Inv, Character
    PROVE  Inv'
<1>1. PICK key \in conversion_scan_ascii(Head(line)) :
         /\ kbd_state' = [kbd_state EXCEPT !.break_code = @ /\ key = NoKey]
         /\ Deliver(IF kbd_state.break_code THEN NoKey ELSE Shown(key))
  BY DEF Character
<1>2. /\ line # <<>> /\ Head(line) \in Letters \cup Others \cup Silents \cup Beyond
      /\ line' = Tail(line) /\ held' = held /\ fake' = fake
      /\ sent' = sent /\ stale' = stale
  BY DEF Character, Receive
<1>3. /\ kbd_state' \in [Flags -> BOOLEAN]
      /\ kbd_state'.lshift_down = kbd_state.lshift_down
      /\ kbd_state'.rshift_down = kbd_state.rshift_down
      /\ key # NoKey => ~ kbd_state'.break_code
  BY <1>1 DEF Inv, TypeOK, Flags
<1>4. TypeOK' /\ HeldInv' /\ BufferInv'
  <2>1. (IF kbd_state.break_code THEN NoKey ELSE Shown(key)) \in KeyCodes
    BY <1>2, Converted, ShownKeys DEF KeyCodes
  <2> QED BY <1>1, <1>3, <2>1, Taken DEF Character
<1>5. CASE Paused(Head(line), Tail(line))
  <2>1. LineInv'
    BY <1>2, <1>5 DEF Paused, LineInv
  <2>2. InStep'
    BY <1>2, <1>5, KeysAssumption DEF Paused, InStep, Code, Codes, Printable
  <2>3. ShiftInv("lshift_down", "LSHIFT")' /\ ShiftInv("rshift_down", "RSHIFT")'
    BY <1>2, <1>3, <1>5 DEF Paused, Inv, ShiftInv, Lifting
  <2> QED BY <1>4, <2>1, <2>2, <2>3 DEF Inv
<1>6. CASE Head(line) = Code /\ Tail(line) = <<>>
  <2>1. LineInv'
    BY <1>2, <1>6 DEF LineInv
  <2>2. Code \notin Modifiers
    BY <1>2, <1>6, KeysAssumption
  <2>3. InStep'
    <3>1. Code \in Printable => key # NoKey
      BY <1>2, <1>6, Converted DEF Printable, NoKey
    <3>2. Code \in Printable => ~ kbd_state'.break_code
      BY <1>3, <3>1
    <3> QED BY <1>2, <2>2, <3>2 DEF InStep, Code
  <2>4. sent[1][1] \notin Shifts
    BY <2>2 DEF Code, Modifiers
  <2>5. ShiftInv("lshift_down", "LSHIFT")' /\ ShiftInv("rshift_down", "RSHIFT")'
    BY <1>2, <1>3, <2>4 DEF Inv, ShiftInv, Lifting, Shifts
  <2> QED BY <1>4, <2>1, <2>3, <2>5 DEF Inv
<1> QED BY <1>2, <1>5, <1>6, CharacterRead

LEMMA Inductive == Inv /\ [Next]_vars => Inv'
<1> SUFFICES ASSUME Inv, [Next]_vars PROVE Inv'
  OBVIOUS
<1>1. CASE \E key \in Keys : Press(key) \/ Release(key)
  BY <1>1, Pressed, Released
<1>10. CASE \E shift \in Shifts : FakeMake(shift) \/ FakeBreak(shift)
  BY <1>10, Faked
<1>2. CASE Prefix("E0", "e0_code", "e0_nested_code")
  BY <1>2, Prefixed DEF Flags
<1>3. CASE Prefix("E1", "e1_code", "e1_nested_code")
  BY <1>3, Prefixed DEF Flags
<1>4. CASE BreakPrefix
  BY <1>4, Broken
<1>5. CASE Shift("LSHIFT", "lshift_down")
  BY <1>5, Shifted
<1>6. CASE Shift("RSHIFT", "rshift_down")
  BY <1>6, Shifted
<1>7. CASE Caps
  BY <1>7, Capped
<1>8. CASE Character
  BY <1>8, Charactered
<1>9. CASE UNCHANGED vars
  BY <1>9 DEF vars, Inv, TypeOK, LineInv, HeldInv, BufferInv, InStep, ShiftInv, Lifting, Down, Code
<1> QED BY <1>1, <1>2, <1>3, <1>4, <1>5, <1>6, <1>7, <1>8, <1>9, <1>10
        DEF Next, keyboard_handle_interrupt

-----------------------------------------------------------------------------
(* The inductive invariant of the decoder and the keyboard it listens to.   *)
THEOREM KeyboardInvariance == Spec => []Inv
  BY Initial, Inductive, PTL DEF Spec

(* The state keeps its types; the ring buffer's length stays below its      *)
(* size, so that no character is ever put outside it.                       *)
THEOREM KeyboardTypes == Spec => []TypeOK
<1>1. Inv => TypeOK
  BY DEF Inv
<1> QED BY <1>1, KeyboardInvariance, PTL

(* The break_code that a released key without a character leaves set is     *)
(* gone after the next event of any other key.                              *)
THEOREM BackInStep == Spec => []InStep
<1>1. Inv => InStep
  BY DEF Inv
<1> QED BY <1>1, KeyboardInvariance, PTL

(* Between events, a shift flag is set only while its key is down, or the   *)
(* keyboard's fake of it is not cancelled.                                  *)
THEOREM ShiftsLifted == Spec => []NoStuckShift
<1>1. Inv => NoStuckShift
  BY DEF Inv, ShiftInv, Lifting, NoStuckShift
<1> QED BY <1>1, KeyboardInvariance, PTL

(* What an interrupt delivers, in step or not.                              *)
LEMMA Silence ==
    ASSUME Inv, [Next]_vars, line # <<>>, sent[2] = "break", line' = Tail(line)
    PROVE  key_code' = NoKey
<1>1. Plained(Head(line), Tail(line))
  BY Bytes DEF Paused
<1>2. "E0" \notin Codes /\ "E1" \notin Codes /\ "BREAK" \notin Codes
  BY KeysAssumption
<1>3. kbd_state.break_code \/ Head(line) \in {"E0", "BREAK"}
  BY <1>1 DEF Plained
<1>4. line' # line
  <2>1. CASE line' = <<>>
    BY <2>1
  <2>2. CASE line' # <<>>
    <3>1. line \in {<<"E0", "BREAK", Code>>, <<"BREAK", Code>>}
      <4>1. line # <<Code>>
        BY <2>2, Tails
      <4> QED BY <4>1, <1>1 DEF Inv, LineInv, Code, Plained
    <3>2. CASE line = <<"E0", "BREAK", Code>>
      <4>1. line' = <<"BREAK", Code>>
        BY <3>2, Tails
      <4>2. Len(line) = 3 /\ Len(line') = 2 /\ 2 # 3
        BY <3>2, <4>1, Tails
      <4> QED BY <4>2, Zenon
    <3>3. CASE line = <<"BREAK", Code>>
      <4>1. line' = <<Code>>
        BY <3>3, Tails
      <4>2. Len(line) = 2 /\ Len(line') = 1 /\ 1 # 2
        BY <3>3, <4>1, Tails
      <4> QED BY <4>2, Zenon
    <3> QED BY <3>1, <3>2, <3>3
  <2> QED BY <2>1, <2>2
<1>5. CASE \/ \E key \in Keys : Press(key) \/ Release(key)
           \/ \E shift \in Shifts : FakeMake(shift) \/ FakeBreak(shift)
  BY <1>5 DEF Press, Release, FakeMake, FakeBreak, Send
<1>6. CASE \/ Prefix("E0", "e0_code", "e0_nested_code")
           \/ Prefix("E1", "e1_code", "e1_nested_code") \/ BreakPrefix
  BY <1>6 DEF Prefix, BreakPrefix, Deliver
<1>7. CASE Shift("LSHIFT", "lshift_down") \/ Shift("RSHIFT", "rshift_down") \/ Caps
  <2>1. Head(line) \in Codes
    BY <1>7 DEF Shift, Caps, Receive, Codes, Modifiers, Shifts
  <2>2. kbd_state.break_code
    BY <1>2, <1>3, <2>1
  <2> QED BY <1>7, <2>2 DEF Shift, Caps, Deliver, set_key_code
<1>8. CASE Character
  <2>1. Head(line) \in Codes
    BY <1>8 DEF Character, Receive, Codes
  <2>2. kbd_state.break_code
    BY <1>2, <1>3, <2>1
  <2> QED BY <1>8, <2>2 DEF Character, Deliver
<1>9. CASE UNCHANGED vars
  BY <1>4, <1>9 DEF vars
<1> QED BY <1>5, <1>6, <1>7, <1>8, <1>9 DEF Next, keyboard_handle_interrupt

(* No byte of a key's release, or of a fake shift's, delivers a key code.   *)
THEOREM ReleasesSilent == Spec => ReleaseSilent
<1>1. Inv /\ [Next]_vars =>
        [(line # <<>> /\ sent[2] = "break" /\ line' = Tail(line)) => key_code' = NoKey]_vars
  BY Silence
<1> QED BY <1>1, KeyboardInvariance, PTL DEF Spec, ReleaseSilent

(* The last byte of a press that began in step.                             *)
LEMMA Typed ==
    ASSUME Inv, [Next]_vars, LastByte("make"), Code \in Printable, ~ stale
    PROVE  /\ key_code'[1] = Code
           /\ (Code \in Letters /\ fake = {} /\ (Shifts \X {"plain"}) \cap held = {})
              => (key_code'[2] = "upper") = kbd_state.caps
<1>1. line # <<>> /\ line' = <<>> /\ line' # line /\ sent[2] = "make"
  BY Tails DEF LastByte
<1>2. /\ Code \notin {"E0", "E1", "BREAK", "PAUSE"} /\ Code \notin Modifiers
      /\ Code \in Codes
  BY KeysAssumption DEF Printable, Codes
<1>3. Plained(Head(line), Tail(line))
  BY <1>1, <1>2, Bytes DEF Paused
<1>4. kbd_state.break_code = FALSE
  BY <1>1, <1>3 DEF Plained
<1>5. line = <<Code>> /\ Head(line) = Code
  <2>1. line \in {<<"E0", Code>>, <<Code>>}
    BY <1>1, <1>3 DEF Inv, LineInv, Code, Plained
  <2>2. Len(line) = 1
    BY DEF LastByte
  <2> QED BY <2>1, <2>2, Tails
<1>6. Character
  <2>1. /\ ~ UNCHANGED vars /\ ~ \E key \in Keys : Press(key) \/ Release(key)
        /\ ~ \E shift \in Shifts : FakeMake(shift) \/ FakeBreak(shift)
    BY <1>1 DEF vars, Press, Release, FakeMake, FakeBreak, Send
  <2>2. /\ ~ Prefix("E0", "e0_code", "e0_nested_code")
        /\ ~ Prefix("E1", "e1_code", "e1_nested_code") /\ ~ BreakPrefix
        /\ ~ Shift("LSHIFT", "lshift_down") /\ ~ Shift("RSHIFT", "rshift_down") /\ ~ Caps
    BY <1>2, <1>5 DEF Prefix, BreakPrefix, Shift, Caps, Receive, Modifiers, Shifts
  <2> QED BY <2>1, <2>2 DEF Next, keyboard_handle_interrupt
<1>7. PICK key \in conversion_scan_ascii(Code) : key_code' = Shown(key)
  BY <1>4, <1>5, <1>6 DEF Character, Deliver
<1>8. /\ key \in KeyCodes
      /\ Code \in Letters => key = <<Code, "lower">>
      /\ Code \in Others => key = <<Code, "plain">>
  BY Converted DEF Printable
<1>9. key_code'[1] = Code
  BY <1>7, <1>8, ShownKeys DEF Printable
<1>10. ASSUME Code \in Letters, fake = {}, (Shifts \X {"plain"}) \cap held = {}
       PROVE  (key_code'[2] = "upper") = kbd_state.caps
  <2>1. ~ kbd_state.lshift_down /\ ~ kbd_state.rshift_down
    BY <1>1, <1>10 DEF Inv, ShiftInv, Lifting, Shifts
  <2>2. key = <<Code, "lower">> /\ kbd_state.caps \in BOOLEAN
    BY <1>8, <1>10 DEF Inv, TypeOK, Flags
  <2>3. CASE kbd_state.caps
    BY <1>7, <2>1, <2>2, <2>3 DEF Shown
  <2>4. CASE ~ kbd_state.caps
    <3>1. Shown(key) = key
      BY <2>1, <2>2, <2>4 DEF Shown
    <3> QED BY <1>7, <2>2, <2>4, <3>1
  <2> QED BY <2>3, <2>4
<1> QED BY <1>9, <1>10

(* A press that does not begin with a stale break_code types its own key.   *)
THEOREM PressesTyped == Spec => InStepPressTyped
<1>1. Inv /\ [Next]_vars =>
        [(LastByte("make") /\ Code \in Printable /\ ~ stale) =>
            /\ key_code'[1] = Code
            /\ (Code \in Letters /\ fake = {} /\ (Shifts \X {"plain"}) \cap held = {})
                 => (key_code'[2] = "upper") = kbd_state.caps]_vars
  BY Typed
<1> QED BY <1>1, KeyboardInvariance, PTL DEF Spec, InStepPressTyped
=============================================================================
