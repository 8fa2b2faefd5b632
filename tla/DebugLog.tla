------------------------------ MODULE DebugLog ------------------------------
(***************************************************************************)
(* The kernel's log and the screen: printf writes a message character by    *)
(* character into one page, kernel_debug_buffer, under lock_debug_mem, and  *)
(* shows it with print_vga (debug.c, system.c).  The timer interrupt shows  *)
(* its seconds, and the keyboard interrupt the last characters typed, on    *)
(* the same screen with print_vga_fixed, without a lock.                    *)
(*                                                                         *)
(* A character is the number of its message and its place in it, so that    *)
(* each is told from every other; a message is a newline or text at every   *)
(* place.  Formatting is left out: a message is what printf writes.         *)
(***************************************************************************)
EXTENDS Integers, Sequences

CONSTANTS
    CPUs, Nobody,
    SIZE,              \* DEBUG_BUFFER_SIZE
    Messages,          \* what printf is called to write
    Rows, Columns,     \* of the screen
    ClockColumn,       \* where the seconds are shown, in a CPU's row
    ClockDigits,       \* bound: digits of the seconds
    EchoColumn,        \* where what is typed is shown, in row 0
    EchoSize,          \* its characters, at most
    MaxMessages        \* bound: calls of printf

ASSUME LogAssumption ==
    /\ SIZE \in Nat /\ SIZE >= 2 /\ MaxMessages \in Nat
    /\ Rows \in Nat \ {0} /\ Columns \in Nat \ {0} /\ ClockColumn \in 0 .. Columns - 1
    /\ ClockDigits \in Nat \ {0} /\ EchoColumn \in 0 .. Columns - 1 /\ EchoSize \in Nat \ {0}
    /\ CPUs \subseteq Nat /\ Nobody \notin CPUs
    /\ \A m \in Messages : m \in Seq({"text", "newline"})

VARIABLES
    buffer,            \* the page, and the first byte after it at SIZE
    next_mapped,       \* the page after it is mapped
    cur_debug_mem,
    lock_debug_mem,    \* who holds it
    pc,
    message,           \* per CPU: the characters to write
    p, buf,            \* per CPU: printf's p and buf
    vga_buf_ptr, screen,
    r,                 \* the characters in keyboard_handle_interrupt's s
    calls, log         \* printf's calls; their characters, in lock order

memory == <<buffer, next_mapped, cur_debug_mem>>
call == <<message, p, buf>>
display == <<vga_buf_ptr, screen, r>>
vars == <<memory, lock_debug_mem, pc, call, display, calls, log>>

NUL == [msg |-> 0, at |-> 0, kind |-> "nul"]
Clock == [msg |-> 0, at |-> 0, kind |-> "clock"]
Typed == [msg |-> 0, at |-> 0, kind |-> "typed"]
Foreign == [msg |-> 0, at |-> 0, kind |-> "foreign"]      \* not the log's
Blank == [msg |-> 0, at |-> 0, kind |-> "blank"]
Chars(n, m) == [k \in 1 .. Len(m) |-> [msg |-> n, at |-> k, kind |-> m[k]]]

(* debug_init: page_alloc_kmap_linear has cleared the page.  The allocator  *)
(* unmaps free pages, so the page after it is mapped or not.                *)
Init ==
    /\ buffer = [a \in 0 .. SIZE |-> IF a = SIZE THEN Foreign ELSE NUL]
    /\ next_mapped \in BOOLEAN
    /\ cur_debug_mem = 0
    /\ lock_debug_mem = Nobody
    /\ pc = [c \in CPUs |-> "idle"]
    /\ message = [c \in CPUs |-> << >>]
    /\ p = [c \in CPUs |-> 1] /\ buf = [c \in CPUs |-> 0]
    /\ vga_buf_ptr = 0
    /\ screen = [x \in 0 .. (Rows + 1) * Columns - 1 |-> Blank]
    /\ r = 0
    /\ calls = 0 /\ log = << >>

-----------------------------------------------------------------------------
(***************************************************************************)
(* print_vga                                                               *)
(***************************************************************************)
NextRow(x) == (x \div Columns + 1) * Columns

(* the characters of mem from address a up to the first NUL *)
String(mem, a) ==
    LET end == CHOOSE e \in a .. SIZE :
                  mem[e] = NUL /\ \A x \in a .. e - 1 : mem[x] # NUL
    IN  [k \in 1 .. end - a |-> mem[a + k - 1]]

(* where the first k characters of s leave the pointer that was at x: a     *)
(* character that finds the screen full ends the loop                       *)
After(s, x) ==
    LET ptr[k \in 0 .. Len(s)] ==
            IF k = 0 THEN [at |-> x, full |-> FALSE]
            ELSE LET q == ptr[k - 1]
                 IN  IF q.full THEN q
                     ELSE IF s[k].kind = "newline" THEN [q EXCEPT !.at = NextRow(@)]
                     ELSE IF q.at >= Rows * Columns THEN [q EXCEPT !.full = TRUE]
                     ELSE [q EXCEPT !.at = @ + 1]
    IN  ptr

(* print_vga of the string at a of mem; spinlock_vga is free, every caller  *)
(* holds lock_debug_mem                                                     *)
print_vga(mem, a) ==
    LET s == String(mem, a)
        ptr == After(s, vga_buf_ptr)
        Written(x) == {k \in 1 .. Len(s) : /\ s[k].kind = "text" /\ ~ ptr[k].full
                                           /\ ptr[k - 1].at = x}
    IN  /\ vga_buf_ptr' = ptr[Len(s)].at
        /\ screen' = [x \in DOMAIN screen |->
              IF Written(x) = {} THEN screen[x] ELSE s[CHOOSE k \in Written(x) : TRUE]]
        /\ r' = r

ClockCell(c) == c * Columns + ClockColumn

(* print_vga_fixed of n characters; the row after the last is let through   *)
print_vga_fixed(char, first, n) ==
    /\ screen' = [x \in DOMAIN screen |->
          IF x \in first .. first + n - 1 /\ x \div Columns <= Rows THEN char ELSE screen[x]]
    /\ UNCHANGED <<memory, lock_debug_mem, pc, call, vga_buf_ptr, calls, log>>

(* timer interrupt on c: its seconds *)
ShowSeconds(c) ==
    /\ \E digits \in 1 .. ClockDigits : print_vga_fixed(Clock, ClockCell(c), digits)
    /\ r' = r

(* keyboard interrupt: KEYBOARD_DEBUG shows the last EchoSize characters    *)
KeyboardEcho ==
    /\ r' = IF r = EchoSize THEN r ELSE r + 1
    /\ print_vga_fixed(Typed, EchoColumn, r')

Overlay == KeyboardEcho \/ \E c \in CPUs : ShowSeconds(c)

-----------------------------------------------------------------------------
(***************************************************************************)
(* printf                                                                  *)
(***************************************************************************)
Call(c) ==
    /\ pc[c] = "idle"
    /\ calls < MaxMessages
    /\ \E m \in Messages : message' = [message EXCEPT ![c] = Chars(calls + 1, m)]
    /\ calls' = calls + 1
    /\ p' = [p EXCEPT ![c] = 1]
    /\ pc' = [pc EXCEPT ![c] = "lock"]
    /\ UNCHANGED <<memory, lock_debug_mem, buf, display, log>>

Lock(c) ==
    /\ pc[c] = "lock"
    /\ lock_debug_mem = Nobody
    /\ lock_debug_mem' = c
    /\ log' = log \o message[c]
    /\ buf' = [buf EXCEPT ![c] = cur_debug_mem]
    /\ pc' = [pc EXCEPT ![c] = "write"]
    /\ UNCHANGED <<memory, message, p, display, calls>>

AtEnd(c) == buf[c] = SIZE - 1

(* mutants: the next character goes after the terminator; the part of the   *)
(* message that has been shown is shown again                               *)
WrapBuf_Kept == SIZE
WrapStart_Kept == cur_debug_mem

WrapBuf == 0
WrapStart == 0

(* WRITE_TO_BUF at the last byte: what is there of the message is           *)
(* terminated, one byte after the page, and shown; the rest starts over     *)
Wrap(c) ==
    /\ pc[c] = "write"
    /\ AtEnd(c)
    /\ next_mapped
    /\ LET terminated == [buffer EXCEPT ![SIZE] = NUL]
       IN  buffer' = terminated /\ print_vga(terminated, cur_debug_mem)
    /\ cur_debug_mem' = WrapStart
    /\ buf' = [buf EXCEPT ![c] = WrapBuf]
    /\ UNCHANGED <<next_mapped, lock_debug_mem, pc, message, p, calls, log>>

(* the same on an unmapped page: trap_handler begins with a printf and      *)
(* waits for the lock its own processor holds                               *)
WrapFaults(c) ==
    /\ pc[c] = "write"
    /\ AtEnd(c)
    /\ ~ next_mapped
    /\ pc' = [pc EXCEPT ![c] = "trap"]
    /\ UNCHANGED <<memory, lock_debug_mem, call, display, calls, log>>

(* a character, or the NUL after the last one *)
Write(c) ==
    /\ pc[c] = "write"
    /\ ~ AtEnd(c)
    /\ LET ended == p[c] > Len(message[c])
       IN  /\ buffer' = [buffer EXCEPT ![buf[c]] = IF ended THEN NUL ELSE message[c][p[c]]]
           /\ pc' = IF ended THEN [pc EXCEPT ![c] = "print"] ELSE pc
    /\ p' = [p EXCEPT ![c] = @ + 1]
    /\ buf' = [buf EXCEPT ![c] = @ + 1]
    /\ UNCHANGED <<next_mapped, cur_debug_mem, lock_debug_mem, message, display, calls, log>>

ShowMessage(c) ==
    /\ pc[c] = "print"
    /\ print_vga(buffer, cur_debug_mem)
    /\ cur_debug_mem' = buf[c]
    /\ pc' = [pc EXCEPT ![c] = "unlock"]
    /\ UNCHANGED <<buffer, next_mapped, lock_debug_mem, call, calls, log>>

(* mutant: the lock is kept *)
AfterUnlock_Kept == lock_debug_mem

AfterUnlock == Nobody

Unlock(c) ==
    /\ pc[c] = "unlock"
    /\ lock_debug_mem' = AfterUnlock
    /\ pc' = [pc EXCEPT ![c] = "idle"]
    /\ UNCHANGED <<memory, call, display, calls, log>>

Printf(c) == Lock(c) \/ Wrap(c) \/ WrapFaults(c) \/ Write(c) \/ ShowMessage(c) \/ Unlock(c)

Next == Overlay \/ \E c \in CPUs : Call(c) \/ Printf(c)

Spec == Init /\ [][Next]_vars

(* a processor in printf goes on; the spin lock is fair to nobody *)
FairSpec == Spec /\ \A c \in CPUs : WF_vars(Printf(c))

-----------------------------------------------------------------------------
(* Whatever the processors print, and wherever the page ends in it, the     *)
(* screen has every character of the log once, in lock order, each where a  *)
(* single text would have it, as far as the screen goes.  Only a            *)
(* processor's seconds and what is typed may be written over it, and only   *)
(* in their own cells.                                                      *)
Overlaid(cell, x) ==
    \/ cell = Clock /\ \E c \in CPUs : x \in ClockCell(c) .. ClockCell(c) + ClockDigits - 1
    \/ cell = Typed /\ x \in EchoColumn .. EchoColumn + EchoSize - 1
Place == LET at[k \in 1 .. Len(log)] ==
                 IF k = 1 THEN 0
                 ELSE IF log[k - 1].kind = "newline" THEN NextRow(at[k - 1])
                 ELSE at[k - 1] + 1
         IN  at
LogOnScreen ==
    lock_debug_mem = Nobody =>
        LET place == Place
        IN  \A x \in 0 .. Rows * Columns - 1 :
                Overlaid(screen[x], x)
                \/ LET here == {k \in 1 .. Len(log) : log[k].kind = "text" /\ place[k] = x}
                   IN  IF here = {} THEN screen[x] = Blank
                       ELSE \A k \in here : screen[x] = log[k]

(* The byte after the page is not the log's.  It is overwritten, by a NUL,  *)
(* not before the log has filled its page; text is never written there, nor *)
(* to the page's last byte, which every string that wraps ends at.          *)
PageRespected ==
    /\ buffer[SIZE - 1] = NUL
    /\ buffer[SIZE] \in {Foreign, NUL}
    /\ buffer[SIZE] = NUL \/ (\E c \in CPUs : pc[c] = "trap")
          => Len(log) + calls >= SIZE

(* Every printf returns, or a printf has written past the page while the    *)
(* next one was unmapped: from then on no processor's returns.  The bound   *)
(* on the calls makes the other processors quiet in the end.                *)
Silenced == ~ next_mapped /\ \E d \in CPUs : pc[d] = "trap"
PrintfReturns ==
    \A c \in CPUs : (pc[c] # "idle") ~> (pc[c] = "idle" \/ Silenced)
=============================================================================
