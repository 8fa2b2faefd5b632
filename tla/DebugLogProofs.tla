--------------------------- MODULE DebugLogProofs ---------------------------
(***************************************************************************)
(* Proofs about DebugLog: the screen shows the log, and the page after the  *)
(* log's own is written only when the log has filled its page.  What a      *)
(* recursive function computes is shown by looking at the least argument    *)
(* for which it would not.                                                  *)
(***************************************************************************)
EXTENDS DebugLog, FiniteSets, FiniteSetTheorems, WellFoundedInduction, TLAPS

USE DEF memory, call, display

Character == [msg : Nat \ {0}, at : Nat, kind : {"text", "newline"}]
Inside == {"write", "print", "unlock", "trap"}       \* with the lock

TypeInv ==
    /\ DOMAIN buffer = 0 .. SIZE
    /\ cur_debug_mem \in 0 .. SIZE - 1
    /\ lock_debug_mem \in CPUs \cup {Nobody}
    /\ pc \in [CPUs -> {"idle", "lock"} \cup Inside]
    /\ message \in [CPUs -> Seq(Character)]
    /\ p \in [CPUs -> Nat \ {0}] /\ buf \in [CPUs -> 0 .. SIZE - 1]
    /\ vga_buf_ptr \in Nat
    /\ DOMAIN screen = 0 .. (Rows + 1) * Columns - 1
    /\ r \in 0 .. EchoSize
    /\ calls \in Nat /\ log \in Seq(Character)

LockInv == \A c \in CPUs : lock_debug_mem = c <=> pc[c] \in Inside

(* bytes of c's message that are in the page and not yet on the screen      *)
Unshown(c) == buf[c] - cur_debug_mem

(* The page ends in a NUL.  The log ends with the message of the processor  *)
(* that has the lock, and the page has the part not yet shown, from         *)
(* cur_debug_mem on, with a NUL after it before it is shown.                *)
InPage(c, n) ==
    \A i \in 0 .. n - 1 :
        buffer[cur_debug_mem + i] = message[c][p[c] - Unshown(c) + i]
PageOf(c) ==
    /\ pc[c] = "lock" => p[c] = 1
    /\ pc[c] \in {"write", "trap", "print"} =>
          /\ Unshown(c) \in 0 .. p[c] - 1
          /\ Len(message[c]) <= Len(log)
          /\ \A k \in 1 .. Len(message[c]) :
                log[Len(log) - Len(message[c]) + k] = message[c][k]
    /\ pc[c] \in {"write", "trap"} =>
          p[c] <= Len(message[c]) + 1 /\ InPage(c, Unshown(c))
    /\ pc[c] = "print" =>
          /\ p[c] = Len(message[c]) + 2 /\ Unshown(c) >= 1
          /\ InPage(c, Unshown(c) - 1)
          /\ buffer[buf[c] - 1] = NUL
    /\ pc[c] = "unlock" => cur_debug_mem = buf[c]
PageInv ==
    /\ buffer[SIZE - 1] = NUL
    /\ buffer[SIZE] \in {Foreign, NUL}
    /\ \A c \in CPUs : PageOf(c)

(* Until the page wraps, it holds no more than the characters of the log    *)
(* and a NUL for each call that has had the lock.                           *)
Waiting == {c \in CPUs : pc[c] = "lock"}
Wrapped == buffer[SIZE] = NUL \/ \E c \in CPUs : pc[c] = "trap"
Logged == Len(log) + calls - Cardinality(Waiting)
CountInv ==
    /\ IsFiniteSet(Waiting) /\ Cardinality(Waiting) <= calls
    /\ Wrapped => Len(log) + calls >= SIZE
    /\ ~ Wrapped =>
          /\ cur_debug_mem <= Logged
          /\ \A c \in CPUs : pc[c] \in {"write", "print"} =>
                /\ Unshown(c) = p[c] - 1
                /\ cur_debug_mem + Len(message[c]) + 1 <= Logged

(* the place of each character of l, and of one that would follow them      *)
PlaceAfter(char, x) == IF char.kind = "newline" THEN NextRow(x) ELSE x + 1
Places(l) == LET at[k \in 1 .. Len(l) + 1] ==
                     IF k = 1 THEN 0 ELSE PlaceAfter(l[k - 1], at[k - 1])
             IN  at

(* how much of the log has been shown                                       *)
Shown ==
    IF lock_debug_mem = Nobody \/ pc[lock_debug_mem] = "unlock" THEN Len(log)
    ELSE LET c == lock_debug_mem
         IN  Len(log) - Len(message[c]) + p[c] - 1 - Unshown(c)

(* The screen shows the first n characters of the log, and the next one     *)
(* goes where it has its place; both may be below the screen.               *)
Cells == Rows * Columns
SameSpot(x, y) == x = y \/ (x >= Cells /\ y >= Cells)
ShownAt(l, n, x) == {k \in 1 .. n : l[k].kind = "text" /\ Places(l)[k] = x}
CellInv(l, n, cell, x) ==
    \/ Overlaid(cell, x)
    \/ ShownAt(l, n, x) = {} /\ cell = Blank
    \/ ShownAt(l, n, x) # {} /\ \A k \in ShownAt(l, n, x) : cell = l[k]
ScreenInv ==
    /\ Shown \in 0 .. Len(log)
    /\ SameSpot(vga_buf_ptr, Places(log)[Shown + 1])
    /\ \A x \in 0 .. Cells - 1 : CellInv(log, Shown, screen[x], x)

Inv == TypeInv /\ LockInv /\ PageInv /\ CountInv /\ ScreenInv

-----------------------------------------------------------------------------
(* Induction and recursion over numbers                                     *)

(* A set of numbers has a least one.                                        *)
LEMMA LeastNumber ==
    ASSUME NEW T \in SUBSET Nat, T # {}
    PROVE  \E m \in T : \A n \in T : m <= n
<1> DEFINE R == {ss \in Nat \X Nat : ss[1] < ss[2]}
<1>1. IsWellFoundedOn(R, Nat)
  BY NatLessThanWellFounded DEF OpToRel
<1>2. \E m \in T : \A n \in T : <<n, m>> \notin R
  <2> HIDE DEF R
  <2> QED BY <1>1, WFMin
<1>3. PICK m \in T : \A n \in T : <<n, m>> \notin R
  BY <1>2
<1>4. \A n \in T : n \in Nat /\ ~ (n < m)
  BY <1>3
<1> QED BY <1>4

(* A recursive function over 0 .. n exists.                                 *)
Recursive(f, n, start, step) ==
    f[0] = start /\ \A k \in 1 .. n : f[k] = step[<<k, f[k - 1]>>]

(* The least number up to which no such function exists would have one, got *)
(* from the function of the number before it.                               *)
LEMMA RecursionExists ==
    ASSUME NEW n \in Nat, NEW S, NEW start \in S, NEW step \in [(1 .. n) \X S -> S]
    PROVE  \E f \in [0 .. n -> S] : Recursive(f, n, start, step)
<1> DEFINE Good(m, f) ==
        f[0] = start /\ \A k \in 1 .. m : f[k] = step[<<k, f[k - 1]>>]
           T == {m \in 0 .. n : ~ \E f \in [0 .. m -> S] : Good(m, f)}
<1>1. ASSUME T # {}
      PROVE  FALSE
  <2>1. PICK m \in T : \A i \in T : m <= i
    <3>1. T \in SUBSET Nat
      OBVIOUS
    <3> HIDE DEF T
    <3> QED BY <1>1, <3>1, LeastNumber
  <2>2. m # 0
    <3>1. Good(0, [k \in 0 .. 0 |-> start])
      OBVIOUS
    <3>2. [k \in 0 .. 0 |-> start] \in [0 .. 0 -> S]
      OBVIOUS
    <3> QED BY <2>1, <3>1, <3>2
  <2>3. m - 1 \in 0 .. n /\ m - 1 \notin T /\ m \in 1 .. n
    BY <2>1, <2>2
  <2>4. PICK f \in [0 .. m - 1 -> S] : Good(m - 1, f)
    BY <2>3
  <2> DEFINE g == [k \in 0 .. m |-> IF k = m THEN step[<<m, f[m - 1]>>] ELSE f[k]]
  <2>5. f[m - 1] \in S /\ step[<<m, f[m - 1]>>] \in S
    BY <2>3, <2>4
  <2>6. g \in [0 .. m -> S]
    BY <2>3, <2>4, <2>5
  <2>7. Good(m, g)
    <3>1. g[0] = start
      BY <2>3, <2>4
    <3>2. ASSUME NEW k \in 1 .. m
          PROVE  g[k] = step[<<k, g[k - 1]>>]
      <4>0. k - 1 \in 0 .. m - 1 /\ k - 1 \in 0 .. m /\ k - 1 # m
        BY <2>3, <3>2
      <4>1. k - 1 \in 0 .. m - 1 /\ g[k - 1] = f[k - 1]
        BY <4>0
      <4>2. CASE k = m
        <5>1. m \in 0 .. m /\ g[m] = step[<<m, f[m - 1]>>]
          BY <2>3
        <5> HIDE DEF g
        <5> QED BY <4>1, <4>2, <5>1
      <4>3. CASE k # m
        <5>1. k \in 1 .. m - 1
          BY <2>3, <3>2, <4>3
        <5>2. g[k] = f[k]
          BY <2>3, <5>1
        <5> QED BY <2>4, <4>1, <5>1, <5>2
      <4> QED BY <4>2, <4>3
    <3> QED BY <3>1, <3>2
  <2> QED BY <2>1, <2>6, <2>7
<1>2. n \notin T
  BY <1>1
<1>3. PICK f \in [0 .. n -> S] : Good(n, f)
  BY <1>2
<1> QED BY <1>3 DEF Recursive

-----------------------------------------------------------------------------
(* Places on the screen                                                     *)
LEMMA CellsType ==
    /\ Rows \in Nat \ {0} /\ Columns \in Nat \ {0} /\ Cells \in Nat
    /\ Cells <= (Rows + 1) * Columns /\ (Rows + 1) * Columns \in Nat
<1>1. /\ Rows \in Nat \ {0} /\ Columns \in Nat \ {0}
  BY LogAssumption
<1>2. \A h, w \in Nat : h * w \in Nat /\ (h + 1) * w = h * w + w
  OBVIOUS
<1> QED BY <1>1, <1>2 DEF Cells

(* A newline goes on, to the start of a row.                                *)
LEMMA NextRowHigher ==
    ASSUME NEW x \in Nat
    PROVE  NextRow(x) \in Nat /\ NextRow(x) > x
<1>1. Columns \in Nat \ {0}
  BY LogAssumption
<1> DEFINE q == x \div Columns
<1>2. q \in Nat /\ x < q * Columns + Columns /\ q * Columns \in Nat
  BY <1>1
<1>3. (q + 1) * Columns = q * Columns + Columns
  BY <1>1, <1>2
<1> HIDE DEF q
<1>4. NextRow(x) = (q + 1) * Columns
  BY DEF NextRow, q
<1> QED BY <1>1, <1>2, <1>3, <1>4

(* The place after a character is higher.                                   *)
LEMMA PlaceAfterType ==
    ASSUME NEW char, NEW x \in Nat
    PROVE  PlaceAfter(char, x) \in Nat /\ PlaceAfter(char, x) > x
BY NextRowHigher DEF PlaceAfter

(* The recursion that defines the places has a solution.                    *)
LEMMA PlacesDef ==
    ASSUME NEW l \in Seq(Character)
    PROVE  /\ Places(l) \in [1 .. Len(l) + 1 -> Nat]
           /\ Places(l)[1] = 0
           /\ \A k \in 1 .. Len(l) : Places(l)[k + 1] = PlaceAfter(l[k], Places(l)[k])
<1> DEFINE n == Len(l)
           step == [a \in (1 .. n) \X Nat |-> PlaceAfter(l[a[1]], a[2])]
           Def(at) == [k \in 1 .. n + 1 |->
                          IF k = 1 THEN 0 ELSE PlaceAfter(l[k - 1], at[k - 1])]
<1>1. n \in Nat
  OBVIOUS
<1>2. step \in [(1 .. n) \X Nat -> Nat]
  BY PlaceAfterType
<1>3. PICK f \in [0 .. n -> Nat] : Recursive(f, n, 0, step)
  <2> HIDE DEF step, n
  <2> QED BY <1>1, <1>2, RecursionExists
<1> DEFINE g == [k \in 1 .. n + 1 |-> f[k - 1]]
<1>4. g = Def(g)
  <2>1. ASSUME NEW k \in 1 .. n + 1
        PROVE  g[k] = IF k = 1 THEN 0 ELSE PlaceAfter(l[k - 1], g[k - 1])
    <3>1. CASE k = 1
      BY <1>1, <1>3, <3>1 DEF Recursive
    <3>2. CASE k # 1
      <4>1. k - 1 \in 1 .. n /\ k - 1 \in 1 .. n + 1 /\ k - 1 - 1 \in 0 .. n
        BY <1>1, <2>1, <3>2
      <4>2. f[k - 1] = step[<<k - 1, f[k - 1 - 1]>>] /\ f[k - 1 - 1] \in Nat
        BY <1>3, <4>1 DEF Recursive
      <4>3. g[k - 1] = f[k - 1 - 1] /\ g[k] = f[k - 1]
        BY <4>1
      <4> QED BY <3>2, <4>1, <4>2, <4>3
    <3> QED BY <3>1, <3>2
  <2> QED BY <2>1
<1>5. Places(l) = Def(Places(l))
  <2>1. Places(l) = CHOOSE at : at = Def(at)
    BY DEF Places
  <2> HIDE DEF Def
  <2> QED BY <1>4, <2>1
<1> DEFINE pl == Places(l)
<1>6. pl[1] = 0 /\ \A k \in 1 .. n : pl[k + 1] = PlaceAfter(l[k], pl[k])
  <2> HIDE DEF pl
  <2>1. pl = Def(pl)
    BY <1>5 DEF pl
  <2>2. \A k \in 1 .. n + 1 : pl[k] = IF k = 1 THEN 0 ELSE PlaceAfter(l[k - 1], pl[k - 1])
    BY <2>1
  <2>3. ASSUME NEW k \in 1 .. n
        PROVE  pl[k + 1] = PlaceAfter(l[k], pl[k])
    <3>1. k + 1 \in 1 .. n + 1 /\ k + 1 # 1 /\ k + 1 - 1 = k
      BY <1>1
    <3> QED BY <2>2, <3>1
  <2> QED BY <1>1, <2>2, <2>3
<1>7. ASSUME NEW k \in 1 .. n + 1
      PROVE  pl[k] \in Nat
  <2> HIDE DEF pl
  <2> DEFINE T == {i \in 1 .. n + 1 : pl[i] \notin Nat}
  <2>1. ASSUME T # {}
        PROVE  FALSE
    <3>1. PICK m \in T : \A i \in T : m <= i
      <4>1. T \in SUBSET Nat
        BY <1>1
      <4> HIDE DEF T
      <4> QED BY <2>1, <4>1, LeastNumber
    <3>2. m - 1 \in 1 .. n /\ m - 1 \in 1 .. n + 1 /\ m - 1 \notin T
      BY <1>1, <1>6, <3>1
    <3>3. pl[m - 1 + 1] = PlaceAfter(l[m - 1], pl[m - 1]) /\ pl[m - 1] \in Nat
      BY <1>6, <3>2
    <3>4. m - 1 + 1 = m /\ pl[m] \notin Nat
      BY <1>1, <3>1
    <3> QED BY <3>3, <3>4, PlaceAfterType
  <2> QED BY <2>1
<1>8. DOMAIN pl = 1 .. n + 1
  BY <1>5
<1>9. pl = [k \in 1 .. n + 1 |-> pl[k]]
  BY <1>5
<1> HIDE DEF pl
<1>10. pl \in [1 .. n + 1 -> Nat]
  BY <1>7, <1>9
<1> QED BY <1>6, <1>10 DEF pl

(* What is appended to a text leaves its characters where they are.         *)
LEMMA PlacesPrefix ==
    ASSUME NEW l \in Seq(Character), NEW m \in Seq(Character), NEW k \in 1 .. Len(l) + 1
    PROVE  Places(l \o m)[k] = Places(l)[k]
<1> DEFINE n == Len(l)
           f == Places(l)
           g == Places(l \o m)
           T == {i \in 1 .. n + 1 : g[i] # f[i]}
<1>1. n \in Nat /\ l \o m \in Seq(Character) /\ Len(l \o m) = n + Len(m) /\ Len(m) \in Nat
  OBVIOUS
<1>2. \A i \in 1 .. n : (l \o m)[i] = l[i]
  OBVIOUS
<1>3. f[1] = 0 /\ \A i \in 1 .. n : f[i + 1] = PlaceAfter(l[i], f[i])
  BY PlacesDef
<1>4. g[1] = 0 /\ \A i \in 1 .. n : g[i + 1] = PlaceAfter(l[i], g[i])
  <2>1. /\ Places(l \o m)[1] = 0
        /\ \A i \in 1 .. Len(l \o m) :
              Places(l \o m)[i + 1] = PlaceAfter((l \o m)[i], Places(l \o m)[i])
    BY <1>1, PlacesDef
  <2>2. \A i \in 1 .. n : i \in 1 .. Len(l \o m)
    BY <1>1
  <2> QED BY <1>2, <2>1, <2>2
<1> HIDE DEF f, g
<1>5. ASSUME T # {}
      PROVE  FALSE
  <2>1. PICK i \in T : \A j \in T : i <= j
    <3>1. T \in SUBSET Nat
      BY <1>1
    <3> HIDE DEF T
    <3> QED BY <1>5, <3>1, LeastNumber
  <2>2. i - 1 \in 1 .. n /\ i - 1 \in 1 .. n + 1 /\ i - 1 \notin T /\ i - 1 + 1 = i
    BY <1>1, <1>3, <1>4, <2>1
  <2>3. g[i - 1 + 1] = f[i - 1 + 1]
    BY <1>3, <1>4, <2>2
  <2> QED BY <2>1, <2>2, <2>3
<1> QED BY <1>5 DEF f, g

(* Every character has a place of its own, after those before it.           *)
LEMMA PlacesIncrease ==
    ASSUME NEW l \in Seq(Character), NEW j \in 1 .. Len(l) + 1, NEW k \in 1 .. Len(l) + 1, j < k
    PROVE  Places(l)[j] < Places(l)[k]
<1> DEFINE n == Len(l)
           f == Places(l)
           T == {i \in 1 .. n + 1 : j < i /\ ~ (f[j] < f[i])}
<1>1. n \in Nat
  OBVIOUS
<1>2. f \in [1 .. n + 1 -> Nat] /\ \A i \in 1 .. n : f[i + 1] = PlaceAfter(l[i], f[i])
  BY PlacesDef
<1> HIDE DEF f
<1>3. ASSUME T # {}
      PROVE  FALSE
  <2>1. PICK i \in T : \A h \in T : i <= h
    <3>1. T \in SUBSET Nat
      BY <1>1
    <3> HIDE DEF T
    <3> QED BY <1>3, <3>1, LeastNumber
  <2>2. i - 1 \in 1 .. n /\ i - 1 \in 1 .. n + 1 /\ i - 1 \notin T /\ i - 1 + 1 = i
    BY <1>1, <2>1
  <2>3. f[i] = PlaceAfter(l[i - 1], f[i - 1]) /\ f[i - 1] \in Nat
    BY <1>2, <2>2
  <2>4. f[i] > f[i - 1] /\ f[i] \in Nat
    BY <2>3, PlaceAfterType
  <2>5. f[j] \in Nat /\ (j = i - 1 \/ f[j] < f[i - 1])
    BY <1>1, <1>2, <2>1, <2>2
  <2> QED BY <2>1, <2>3, <2>4, <2>5
<1> QED BY <1>3 DEF f

-----------------------------------------------------------------------------
(* print_vga                                                                *)

(* one character of the loop of print_vga *)
Pointer == [at : Nat, full : BOOLEAN]
PointerAfter(char, q) ==
    IF q.full THEN q
    ELSE IF char.kind = "newline" THEN [q EXCEPT !.at = NextRow(@)]
    ELSE IF q.at >= Rows * Columns THEN [q EXCEPT !.full = TRUE]
    ELSE [q EXCEPT !.at = @ + 1]

(* A character leaves a pointer a pointer.                                  *)
LEMMA PointerAfterType ==
    ASSUME NEW char, NEW q \in Pointer
    PROVE  PointerAfter(char, q) \in Pointer
<1>1. NextRow(q.at) \in Nat /\ q.at + 1 \in Nat
  BY NextRowHigher DEF Pointer
<1> QED BY <1>1 DEF PointerAfter, Pointer

(* The recursion that defines where print_vga's pointer goes has a          *)
(* solution.                                                                *)
LEMMA AfterDef ==
    ASSUME NEW s \in Seq(Character), NEW x \in Nat
    PROVE  /\ After(s, x) \in [0 .. Len(s) -> Pointer]
           /\ After(s, x)[0] = [at |-> x, full |-> FALSE]
           /\ \A k \in 1 .. Len(s) : After(s, x)[k] = PointerAfter(s[k], After(s, x)[k - 1])
<1> DEFINE n == Len(s)
           start == [at |-> x, full |-> FALSE]
           step == [a \in (1 .. n) \X Pointer |-> PointerAfter(s[a[1]], a[2])]
           Def(ptr) == [k \in 0 .. n |->
                           IF k = 0 THEN start ELSE PointerAfter(s[k], ptr[k - 1])]
<1>1. n \in Nat /\ start \in Pointer
  BY DEF Pointer
<1>2. step \in [(1 .. n) \X Pointer -> Pointer]
  BY PointerAfterType
<1>3. PICK f \in [0 .. n -> Pointer] : Recursive(f, n, start, step)
  <2> HIDE DEF step, n, start
  <2> QED BY <1>1, <1>2, RecursionExists
<1>4. f = Def(f)
  <2>1. ASSUME NEW k \in 0 .. n
        PROVE  f[k] = IF k = 0 THEN start ELSE PointerAfter(s[k], f[k - 1])
    <3>1. CASE k = 0
      BY <1>3, <3>1 DEF Recursive
    <3>2. CASE k # 0
      <4>1. k \in 1 .. n /\ k - 1 \in 0 .. n
        BY <1>1, <2>1, <3>2
      <4>2. f[k] = step[<<k, f[k - 1]>>] /\ f[k - 1] \in Pointer
        BY <1>3, <4>1 DEF Recursive
      <4>3. step[<<k, f[k - 1]>>] = PointerAfter(s[k], f[k - 1])
        BY <4>1, <4>2
      <4> QED BY <3>2, <4>2, <4>3
    <3> QED BY <3>1, <3>2
  <2> QED BY <2>1
<1>5. After(s, x) = Def(After(s, x))
  <2>1. After(s, x) = CHOOSE ptr : ptr = Def(ptr)
    BY DEF After, PointerAfter
  <2> HIDE DEF Def
  <2> QED BY <1>4, <2>1
<1> DEFINE g == After(s, x)
<1>6. g = Def(g)
  BY <1>5
<1> HIDE DEF g, start
<1>7. g = [k \in 0 .. n |-> g[k]]
  BY <1>6
<1>8. g[0] = start /\ \A k \in 1 .. n : g[k] = PointerAfter(s[k], g[k - 1])
  BY <1>1, <1>6
<1>9. ASSUME NEW k \in 0 .. n
      PROVE  g[k] \in Pointer
  <2> DEFINE T == {i \in 0 .. n : g[i] \notin Pointer}
  <2>1. ASSUME T # {}
        PROVE  FALSE
    <3>1. PICK m \in T : \A i \in T : m <= i
      <4>1. T \in SUBSET Nat
        BY <1>1
      <4> HIDE DEF T
      <4> QED BY <2>1, <4>1, LeastNumber
    <3>2. m \in 1 .. n /\ m - 1 \in 0 .. n /\ m - 1 \notin T
      BY <1>1, <1>8, <3>1
    <3>3. g[m] = PointerAfter(s[m], g[m - 1]) /\ g[m - 1] \in Pointer
      BY <1>8, <3>2
    <3> QED BY <3>1, <3>3, PointerAfterType
  <2> QED BY <2>1
<1>10. g \in [0 .. n -> Pointer]
  BY <1>7, <1>9
<1> QED BY <1>8, <1>10 DEF g, start

Bytes(mem, a, n) == [k \in 1 .. n |-> mem[a + k - 1]]

(* the characters up to the first NUL *)
LEMMA StringIs ==
    ASSUME NEW mem, NEW a \in Nat, NEW n \in Nat, a + n <= SIZE,
           mem[a + n] = NUL, \A i \in 0 .. n - 1 : mem[a + i] # NUL
    PROVE  String(mem, a) = Bytes(mem, a, n)
<1> DEFINE P(e) == mem[e] = NUL /\ \A x \in a .. e - 1 : mem[x] # NUL
<1>0. SIZE \in Nat
  BY LogAssumption
<1>1. a + n \in a .. SIZE /\ P(a + n)
  <2>1. ASSUME NEW x \in a .. a + n - 1
        PROVE  mem[x] # NUL
    <3>1. x - a \in 0 .. n - 1 /\ a + (x - a) = x
      BY <2>1
    <3> QED BY <3>1
  <2> QED BY <1>0, <2>1
<1>2. ASSUME NEW e \in a .. SIZE, P(e)
      PROVE  e = a + n
  <2>1. CASE e < a + n
    <3>1. e - a \in 0 .. n - 1 /\ a + (e - a) = e
      BY <1>0, <2>1
    <3> QED BY <1>2, <3>1
  <2>2. CASE e > a + n
    BY <1>0, <1>2, <2>2
  <2> QED BY <1>0, <2>1, <2>2
<1> DEFINE end == CHOOSE e \in a .. SIZE : P(e)
<1>3. String(mem, a) = [k \in 1 .. end - a |-> mem[a + k - 1]]
  BY DEF String
<1> HIDE DEF P
<1>4. end \in a .. SIZE /\ P(end)
  BY <1>1
<1> HIDE DEF end
<1>5. end = a + n
  BY <1>2, <1>4
<1>6. end - a = n
  BY <1>5
<1> QED BY <1>3, <1>6 DEF Bytes

(* print_vga goes through s as the log goes on from its character d: both   *)
(* are at the same place, or below the screen.                              *)
LEMMA PointerFollows ==
    ASSUME NEW l \in Seq(Character), NEW s \in Seq(Character), NEW d \in Nat, NEW x \in Nat,
           d + Len(s) <= Len(l), \A k \in 1 .. Len(s) : l[d + k] = s[k],
           SameSpot(x, Places(l)[d + 1]), NEW k \in 0 .. Len(s)
    PROVE  /\ SameSpot(After(s, x)[k].at, Places(l)[d + k + 1])
           /\ After(s, x)[k].full => After(s, x)[k].at >= Cells
<1> DEFINE n == Len(s)
           f == Places(l)
           q == After(s, x)
           Good(i) == SameSpot(q[i].at, f[d + i + 1]) /\ (q[i].full => q[i].at >= Cells)
           T == {i \in 0 .. n : ~ Good(i)}
<1>1. n \in Nat /\ Len(l) \in Nat /\ Cells \in Nat
  BY CellsType
<1>2. /\ q \in [0 .. n -> Pointer] /\ q[0] = [at |-> x, full |-> FALSE]
      /\ \A i \in 1 .. n : q[i] = PointerAfter(s[i], q[i - 1])
  BY AfterDef
<1>3. /\ f \in [1 .. Len(l) + 1 -> Nat]
      /\ \A i \in 1 .. Len(l) : f[i + 1] = PlaceAfter(l[i], f[i])
  BY PlacesDef
<1>4. Good(0)
  BY <1>2
<1> HIDE DEF q, f
<1>5. ASSUME NEW i \in 1 .. n, Good(i - 1)
      PROVE  Good(i)
  <2>1. /\ q[i] = PointerAfter(s[i], q[i - 1]) /\ q[i - 1] \in Pointer /\ i - 1 \in 0 .. n
    BY <1>1, <1>2
  <2>2. /\ d + i \in 1 .. Len(l) /\ f[d + i + 1] = PlaceAfter(s[i], f[d + i])
        /\ f[d + i] \in Nat /\ d + (i - 1) + 1 = d + i
    <3>1. d + i \in 1 .. Len(l) /\ d + i \in 1 .. Len(l) + 1 /\ d + (i - 1) + 1 = d + i
      BY <1>1, <1>5
    <3>2. l[d + i] = s[i]
      BY <1>5
    <3> QED BY <1>3, <3>1, <3>2
  <2> DEFINE y == q[i - 1].at
             z == f[d + i]
  <2>3. y \in Nat /\ z \in Nat /\ SameSpot(y, z) /\ (q[i - 1].full => y >= Cells)
    BY <1>5, <2>1, <2>2 DEF Pointer
  <2>4. f[d + i + 1] > z /\ f[d + i + 1] \in Nat
    BY <2>2, PlaceAfterType
  <2>5. CASE q[i - 1].full
    <3>1. q[i] = q[i - 1]
      BY <2>1, <2>5 DEF PointerAfter
    <3>2. y >= Cells /\ z >= Cells
      BY <1>1, <2>3, <2>5 DEF SameSpot
    <3> QED BY <1>1, <2>3, <2>4, <3>1, <3>2 DEF SameSpot
  <2>6. CASE ~ q[i - 1].full /\ s[i].kind = "newline"
    <3>1. q[i].at = NextRow(y) /\ ~ q[i].full
      BY <2>1, <2>6 DEF PointerAfter, Pointer
    <3>2. f[d + i + 1] = NextRow(z)
      BY <2>2, <2>6 DEF PlaceAfter
    <3>3. NextRow(y) > y /\ NextRow(y) \in Nat /\ NextRow(z) > z /\ NextRow(z) \in Nat
      BY <2>3, NextRowHigher
    <3>4. CASE y = z
      <4> HIDE DEF y, z
      <4> QED BY <3>1, <3>2, <3>3, <3>4 DEF SameSpot
    <3>5. CASE y >= Cells /\ z >= Cells
      <4> HIDE DEF y, z
      <4>1. NextRow(y) >= Cells /\ NextRow(z) >= Cells
        BY <1>1, <2>3, <3>3, <3>5
      <4> QED BY <3>1, <3>2, <3>3, <4>1 DEF SameSpot
    <3> QED BY <2>3, <3>4, <3>5 DEF SameSpot
  <2>7. CASE ~ q[i - 1].full /\ s[i].kind # "newline" /\ y >= Cells
    <3>1. q[i].at = y
      BY <2>1, <2>7 DEF PointerAfter, Pointer, Cells
    <3> QED BY <1>1, <2>3, <2>4, <2>7, <3>1 DEF SameSpot
  <2>8. CASE ~ q[i - 1].full /\ s[i].kind # "newline" /\ ~ (y >= Cells)
    <3>1. q[i].at = y + 1 /\ ~ q[i].full
      BY <2>1, <2>8 DEF PointerAfter, Pointer, Cells
    <3>2. f[d + i + 1] = z + 1 /\ y = z
      BY <2>2, <2>3, <2>8 DEF PlaceAfter, SameSpot
    <3> QED BY <3>1, <3>2 DEF SameSpot
  <2> QED BY <2>5, <2>6, <2>7, <2>8
<1>6. ASSUME T # {}
      PROVE  FALSE
  <2>1. PICK i \in T : \A j \in T : i <= j
    <3>1. T \in SUBSET Nat
      BY <1>1
    <3> HIDE DEF T
    <3> QED BY <1>6, <3>1, LeastNumber
  <2> HIDE DEF Good
  <2>2. i \in 1 .. n /\ i - 1 \in 0 .. n /\ i - 1 \notin T
    BY <1>1, <1>4, <2>1
  <2> QED BY <1>5, <2>1, <2>2
<1>7. Good(k)
  <2> HIDE DEF Good
  <2> QED BY <1>6
<1> QED BY <1>7 DEF f, q

(* the characters of s that print_vga writes at y *)
WrittenAt(s, y) ==
    {k \in 1 .. Len(s) : /\ s[k].kind = "text" /\ ~ After(s, vga_buf_ptr)[k].full
                         /\ After(s, vga_buf_ptr)[k - 1].at = y}

(* What print_vga leaves on the screen, cell by cell.                       *)
LEMMA PrintFacts ==
    ASSUME NEW mem, NEW a, print_vga(mem, a)
    PROVE  /\ vga_buf_ptr' = After(String(mem, a), vga_buf_ptr)[Len(String(mem, a))].at
           /\ DOMAIN screen' = DOMAIN screen
           /\ \A y \in DOMAIN screen :
                 screen'[y] = IF WrittenAt(String(mem, a), y) = {} THEN screen[y]
                              ELSE String(mem, a)[CHOOSE k \in WrittenAt(String(mem, a), y) : TRUE]
BY DEF print_vga, WrittenAt

(* Showing the next part s of the log l, of which d characters are on the   *)
(* screen.                                                                  *)
LEMMA PrintShows ==
    ASSUME NEW l \in Seq(Character), NEW s \in Seq(Character), NEW d \in Nat,
           d + Len(s) <= Len(l), \A k \in 1 .. Len(s) : l[d + k] = s[k],
           TypeInv, SameSpot(vga_buf_ptr, Places(l)[d + 1]),
           \A x \in 0 .. Cells - 1 : CellInv(l, d, screen[x], x),
           NEW mem, NEW a, print_vga(mem, a), String(mem, a) = s
    PROVE  /\ vga_buf_ptr' \in Nat /\ DOMAIN screen' = DOMAIN screen
           /\ SameSpot(vga_buf_ptr', Places(l)[d + Len(s) + 1])
           /\ \A x \in 0 .. Cells - 1 : CellInv(l, d + Len(s), screen'[x], x)
<1> DEFINE n == Len(s)
           f == Places(l)
           q == After(s, vga_buf_ptr)
<1>1. /\ n \in Nat /\ Len(l) \in Nat /\ Cells \in Nat /\ vga_buf_ptr \in Nat
      /\ \A x \in 0 .. Cells - 1 : x \in DOMAIN screen
  BY CellsType DEF TypeInv
<1>2. /\ q \in [0 .. n -> Pointer] /\ \A i \in 1 .. n : q[i] = PointerAfter(s[i], q[i - 1])
  BY <1>1, AfterDef
<1>3. \A i \in 0 .. n : SameSpot(q[i].at, f[d + i + 1]) /\ (q[i].full => q[i].at >= Cells)
  BY <1>1, PointerFollows
<1>4. /\ f \in [1 .. Len(l) + 1 -> Nat]
      /\ \A i, j \in 1 .. Len(l) + 1 : i < j => f[i] < f[j]
  BY PlacesDef, PlacesIncrease
<1>5. vga_buf_ptr' = q[n].at /\ DOMAIN screen' = DOMAIN screen
  BY PrintFacts
<1> HIDE DEF q, f
<1>6. vga_buf_ptr' \in Nat /\ SameSpot(vga_buf_ptr', f[d + n + 1])
  BY <1>1, <1>2, <1>3, <1>5 DEF Pointer
<1>7. ASSUME NEW x \in 0 .. Cells - 1
      PROVE  CellInv(l, d + n, screen'[x], x)
  <2> DEFINE new == {k \in 1 .. n : s[k].kind = "text" /\ f[d + k] = x}
  <2>1. ASSUME NEW k \in 1 .. n, s[k].kind = "text"
        PROVE  (~ q[k].full /\ q[k - 1].at = x) <=> f[d + k] = x
    <3>1. /\ k - 1 \in 0 .. n /\ d + (k - 1) + 1 = d + k /\ d + k \in 1 .. Len(l) + 1
          /\ x \in Nat /\ x < Cells
      BY <1>1, <1>7, <2>1
    <3>2. /\ SameSpot(q[k - 1].at, f[d + k]) /\ (q[k - 1].full => q[k - 1].at >= Cells)
          /\ q[k] = PointerAfter(s[k], q[k - 1]) /\ q[k - 1] \in Pointer /\ f[d + k] \in Nat
      BY <1>2, <1>3, <1>4, <3>1
    <3>3. q[k - 1].at = x <=> f[d + k] = x
      <4>1. q[k - 1].at \in Nat
        BY <3>2 DEF Pointer
      <4>2. SameSpot(q[k - 1].at, f[d + k]) /\ f[d + k] \in Nat
        BY <3>2
      <4> QED BY <1>1, <3>1, <4>1, <4>2, SMTT(30) DEF SameSpot
    <3>4. ASSUME q[k - 1].at = x
          PROVE  ~ q[k].full
      <4>1. q[k - 1].at < Cells
        BY <3>1, <3>4
      <4>2. ~ (q[k - 1].at >= Cells)
        BY <1>1, <3>1, <3>4, <4>1
      <4>3. ~ q[k - 1].full
        BY <3>2, <4>2
      <4> QED BY <2>1, <3>2, <4>2, <4>3 DEF PointerAfter, Pointer, Cells
    <3> QED BY <3>3, <3>4
  <2>2. WrittenAt(s, x) = new
    BY <2>1 DEF WrittenAt, q
  <2>3. ShownAt(l, d + n, x) = ShownAt(l, d, x) \cup {d + k : k \in new}
    <3>1. \A k \in 1 .. n : d + k \in 1 .. d + n /\ l[d + k] = s[k]
      BY <1>1
    <3>2. \A j \in 1 .. d + n : j \in 1 .. d \/ (j - d \in 1 .. n /\ d + (j - d) = j)
      BY <1>1
    <3>3. \A j \in 1 .. d : j \in 1 .. d + n
      BY <1>1
    <3>4. ASSUME NEW j \in 1 .. d + n
          PROVE  j \in ShownAt(l, d + n, x)
                    <=> j \in ShownAt(l, d, x) \cup {d + k : k \in new}
      <4>1. CASE j \in 1 .. d
        <5>1. j \notin {d + k : k \in new}
          BY <1>1, <4>1
        <5> QED BY <3>3, <4>1, <5>1 DEF ShownAt
      <4>2. CASE j \notin 1 .. d
        <5>1. j - d \in 1 .. n /\ d + (j - d) = j /\ l[j] = s[j - d]
          BY <3>1, <3>2, <4>2
        <5>2. \A k \in 1 .. n : d + k = j => k = j - d
          BY <1>1
        <5> QED BY <4>2, <5>1, <5>2 DEF ShownAt, f
      <4> QED BY <4>1, <4>2
    <3>5. /\ ShownAt(l, d + n, x) \subseteq 1 .. d + n
          /\ ShownAt(l, d, x) \cup {d + k : k \in new} \subseteq 1 .. d + n
      BY <3>1, <3>3 DEF ShownAt
    <3> QED BY <3>4, <3>5
  <2>4. screen'[x] = IF new = {} THEN screen[x] ELSE s[CHOOSE k \in new : TRUE]
    BY <1>1, <2>2, PrintFacts, SMTT(30)
  <2>5. CASE new = {}
    <3>1. screen'[x] = screen[x] /\ ShownAt(l, d + n, x) = ShownAt(l, d, x)
      BY <2>3, <2>4, <2>5
    <3>2. CellInv(l, d, screen[x], x)
      OBVIOUS
    <3> QED BY <3>1, <3>2 DEF CellInv
  <2>6. CASE new # {}
    <3>1. PICK k \in new : screen'[x] = s[k]
      <4> DEFINE k0 == CHOOSE k \in new : TRUE
      <4>1. k0 \in new
        BY <2>6
      <4> HIDE DEF k0
      <4>2. screen'[x] = s[k0]
        BY <2>4, <2>6 DEF k0
      <4> QED BY <4>1, <4>2
    <3>2. /\ d + k \in ShownAt(l, d + n, x) /\ l[d + k] = s[k]
          /\ d + k \in 1 .. Len(l) + 1 /\ f[d + k] = x
      BY <1>1, <2>3, <3>1
    <3>3. ASSUME NEW j \in ShownAt(l, d + n, x)
          PROVE  j = d + k
      <4>1. j \in 1 .. Len(l) + 1 /\ f[j] = x
        BY <1>1 DEF ShownAt, f
      <4>2. ~ (j < d + k) /\ ~ (d + k < j)
        BY <1>4, <3>2, <4>1
      <4> QED BY <3>2, <4>1, <4>2
    <3> QED BY <3>1, <3>2, <3>3 DEF CellInv
  <2> QED BY <2>5, <2>6
<1> QED BY <1>5, <1>6, <1>7 DEF f

-----------------------------------------------------------------------------
(* The initial states                                                       *)
LEMMA LogFacts ==
    /\ SIZE \in Nat /\ SIZE >= 2 /\ CPUs \subseteq Nat /\ Nobody \notin CPUs
    /\ NUL # Foreign /\ \A char \in Character : char # NUL
BY LogAssumption DEF NUL, Foreign, Character

(* An empty log, a cleared page and a blank screen agree.                   *)
LEMMA InitInv == Init => Inv
<1> SUFFICES ASSUME Init PROVE Inv
  OBVIOUS
<1>0. << >> \in Seq(Character) /\ Len(<< >>) = 0
  OBVIOUS
<1>1. TypeInv
  <2>1. DOMAIN buffer = 0 .. SIZE /\ DOMAIN screen = 0 .. (Rows + 1) * Columns - 1
    BY DEF Init
  <2>2. 0 \in 0 .. SIZE - 1
    BY LogFacts
  <2>3. message \in [CPUs -> Seq(Character)]
    BY <1>0 DEF Init
  <2>4. pc \in [CPUs -> {"idle", "lock"} \cup Inside]
    BY DEF Init, Inside
  <2>5. 0 \in 0 .. EchoSize
    BY LogAssumption
  <2> QED BY <1>0, <2>1, <2>2, <2>3, <2>4, <2>5 DEF Init, TypeInv
<1>2. LockInv
  BY LogFacts DEF Init, LockInv, Inside
<1>3. PageInv
  <2>1. buffer[SIZE - 1] = NUL /\ buffer[SIZE] = Foreign
    BY LogFacts DEF Init
  <2>2. \A c \in CPUs : pc[c] = "idle"
    BY DEF Init
  <2> QED BY <2>1, <2>2 DEF PageInv, PageOf
<1>4. CountInv
  <2>1. Waiting = {}
    BY DEF Init, Waiting
  <2>2. ~ Wrapped
    BY LogFacts DEF Init, Wrapped
  <2>3. \A c \in CPUs : pc[c] = "idle"
    BY DEF Init
  <2>4. IsFiniteSet(Waiting) /\ Cardinality(Waiting) = 0 /\ calls = 0 /\ Len(log) = 0
    BY <1>0, <2>1, FS_EmptySet DEF Init
  <2> QED BY <2>2, <2>3, <2>4 DEF CountInv, Logged, Init
<1>5. ScreenInv
  <2>1. Shown = 0 /\ log = << >> /\ vga_buf_ptr = 0
    BY <1>0 DEF Init, Shown
  <2>2. Places(log)[1] = 0
    BY <1>0, <2>1, PlacesDef
  <2>3. ASSUME NEW x \in 0 .. Cells - 1
        PROVE  CellInv(log, 0, screen[x], x)
    <3>1. screen[x] = Blank
      BY CellsType DEF Init
    <3>2. ShownAt(log, 0, x) = {}
      BY DEF ShownAt
    <3> QED BY <3>1, <3>2 DEF CellInv
  <2> QED BY <1>0, <2>1, <2>2, <2>3 DEF ScreenInv, SameSpot
<1> QED BY <1>1, <1>2, <1>3, <1>4, <1>5 DEF Inv

-----------------------------------------------------------------------------
(* Types and the lock                                                       *)
LEMMA CharsType ==
    ASSUME NEW m \in Messages, NEW n \in Nat \ {0}
    PROVE  Chars(n, m) \in Seq(Character)
<1>1. m \in Seq({"text", "newline"}) /\ Len(m) \in Nat
  BY LogAssumption
<1>2. \A k \in 1 .. Len(m) : m[k] \in {"text", "newline"} /\ k \in Nat
  BY <1>1
<1>3. Chars(n, m) \in [1 .. Len(m) -> Character]
  BY <1>2 DEF Chars, Character
<1> QED BY <1>1, <1>3

(* How far a processor is in a message of l characters when it shows n      *)
(* bytes, u of them not yet shown: all written while it writes, all but     *)
(* the NUL when it prints the rest.                                         *)
LEMMA PartShown ==
    ASSUME NEW q \in Nat, NEW u \in Nat, NEW n \in Nat, NEW l \in Nat, u <= q - 1,
           \/ n = u /\ q <= l + 1
           \/ n = u - 1 /\ q = l + 2
    PROVE  q - u - 1 + n <= l /\ n <= u /\ q - u \in Nat \ {0}
OBVIOUS

LEMMA PlaceInLog ==
    ASSUME NEW total \in Int, NEW l \in Int, NEW q \in Int, NEW u \in Int, NEW k \in Int
    PROVE  total - l + (q - u + k - 1) = total - l + q - 1 - u + k
OBVIOUS

(* What print_vga shows is what the processor with the lock has written of  *)
(* its message since the part shown before, as the log has it.              *)
LEMMA StringShown ==
    ASSUME TypeInv, PageInv, NEW c \in CPUs, NEW n \in Nat, NEW mem,
           \/ pc[c] = "write" /\ n = Unshown(c)
           \/ pc[c] = "print" /\ n = Unshown(c) - 1,
           \A i \in 0 .. SIZE - 1 : mem[i] = buffer[i],
           mem[cur_debug_mem + n] = NUL
    PROVE  /\ String(mem, cur_debug_mem) \in Seq(Character)
           /\ Len(String(mem, cur_debug_mem)) = n
           /\ Len(log) - Len(message[c]) + p[c] - 1 - Unshown(c) \in Nat
           /\ p[c] - 1 - Unshown(c) + n <= Len(message[c])
           /\ \A k \in 1 .. n :
                 String(mem, cur_debug_mem)[k]
                    = log[Len(log) - Len(message[c]) + p[c] - 1 - Unshown(c) + k]
<1> DEFINE u == Unshown(c)
           m == message[c]
           cur == cur_debug_mem
           first == p[c] - u
<1>1. /\ m \in Seq(Character) /\ Len(m) \in Nat /\ Len(log) \in Nat
      /\ p[c] \in Nat \ {0} /\ cur \in 0 .. SIZE - 1 /\ buf[c] \in 0 .. SIZE - 1
      /\ u = buf[c] - cur /\ SIZE \in Nat
  BY LogFacts DEF TypeInv, Unshown
<1>2. /\ u \in 0 .. p[c] - 1 /\ Len(m) <= Len(log)
      /\ \A k \in 1 .. Len(m) : log[Len(log) - Len(m) + k] = m[k]
  BY DEF PageInv, PageOf
<1>0. /\ u \in Nat /\ p[c] \in Nat /\ u <= p[c] - 1 /\ Len(m) \in Nat
      /\ cur \in Nat /\ buf[c] \in Nat /\ buf[c] <= SIZE - 1 /\ SIZE \in Nat
      /\ u = buf[c] - cur
  BY <1>1, <1>2
<1>3. /\ \A i \in 0 .. n - 1 : buffer[cur + i] = m[first + i]
      /\ first - 1 + n <= Len(m) /\ n <= u
  <2>1. CASE pc[c] = "write"
    <3>1. n = u /\ p[c] <= Len(m) + 1 /\ InPage(c, n)
      BY <2>1 DEF PageInv, PageOf
    <3> HIDE DEF u, m
    <3>2. first - 1 + n <= Len(m) /\ n <= u
      BY <1>0, <3>1, PartShown
    <3> QED BY <3>1, <3>2 DEF InPage, u, m
  <2>2. CASE pc[c] = "print"
    <3>1. n = u - 1 /\ p[c] = Len(m) + 2 /\ InPage(c, n)
      BY <2>2 DEF PageInv, PageOf
    <3> HIDE DEF u, m
    <3>2. first - 1 + n <= Len(m) /\ n <= u
      BY <1>0, <3>1, PartShown
    <3> QED BY <3>1, <3>2 DEF InPage, u, m
  <2> QED BY <2>1, <2>2
<1> HIDE DEF u, m
<1>4. n <= u /\ cur + n <= SIZE - 1 /\ first \in Nat \ {0}
  <2> HIDE DEF cur
  <2>1. cur + u <= SIZE - 1
    BY <1>0
  <2>2. first \in Nat \ {0}
    BY <1>0
  <2>3. n <= u
    BY <1>3
  <2> QED BY <1>0, <2>1, <2>2, <2>3
<1> HIDE DEF cur, first
<1>5. \A i \in 0 .. n - 1 : /\ cur + i \in 0 .. SIZE - 1 /\ first + i \in 1 .. Len(m)
                            /\ mem[cur + i] = m[first + i] /\ m[first + i] \in Character
  <2> SUFFICES ASSUME NEW i \in 0 .. n - 1
               PROVE  /\ cur + i \in 0 .. SIZE - 1 /\ first + i \in 1 .. Len(m)
                      /\ mem[cur + i] = m[first + i] /\ m[first + i] \in Character
    OBVIOUS
  <2>1. cur + i \in 0 .. SIZE - 1 /\ first + i \in 1 .. Len(m)
    BY <1>1, <1>3, <1>4
  <2> QED BY <1>1, <1>3, <2>1
<1>6. String(mem, cur) = Bytes(mem, cur, n)
  <2>1. \A i \in 0 .. n - 1 : mem[cur + i] # NUL
    BY <1>5, LogFacts
  <2>2. cur \in Nat /\ cur + n <= SIZE
    BY <1>1, <1>4
  <2>3. mem[cur + n] = NUL
    BY DEF cur
  <2> QED BY <2>1, <2>2, <2>3, StringIs
<1>7. \A k \in 1 .. n : mem[cur + k - 1] = m[first + k - 1] /\ mem[cur + k - 1] \in Character
  <2> SUFFICES ASSUME NEW k \in 1 .. n
               PROVE  mem[cur + k - 1] = m[first + k - 1] /\ mem[cur + k - 1] \in Character
    OBVIOUS
  <2>1. k - 1 \in 0 .. n - 1 /\ cur + (k - 1) = cur + k - 1 /\ first + (k - 1) = first + k - 1
    BY <1>1, <1>4
  <2> QED BY <1>5, <2>1
<1>8. String(mem, cur) \in Seq(Character) /\ Len(String(mem, cur)) = n
  <2>1. String(mem, cur) \in [1 .. n -> Character]
    BY <1>6, <1>7 DEF Bytes
  <2> QED BY <1>6, <2>1 DEF Bytes
<1>9. ASSUME NEW k \in 1 .. n
      PROVE  String(mem, cur)[k] = log[Len(log) - Len(m) + p[c] - 1 - u + k]
  <2>1. String(mem, cur)[k] = m[first + k - 1]
    BY <1>6, <1>7 DEF Bytes
  <2>2. first + k - 1 \in 1 .. Len(m)
    BY <1>1, <1>3, <1>4
  <2>3. Len(log) - Len(m) + (first + k - 1) = Len(log) - Len(m) + p[c] - 1 - u + k
    <3>1. Len(log) \in Int /\ Len(m) \in Int /\ p[c] \in Int /\ u \in Int /\ k \in Int
      BY <1>0, <1>1
    <3> QED BY <3>1, PlaceInLog DEF first
  <2>4. log[Len(log) - Len(m) + (first + k - 1)] = m[first + k - 1]
    BY <1>2, <2>2
  <2> QED BY <2>1, <2>3, <2>4
<1>10. Len(log) - Len(m) + p[c] - 1 - u \in Nat /\ p[c] - 1 - u + n <= Len(m)
  <2>1. p[c] - u - 1 + n <= Len(m)
    BY <1>3 DEF first
  <2>2. u \in Nat /\ u <= p[c] - 1
    BY <1>1, <1>2
  <2>3. /\ Len(m) \in Nat /\ Len(log) \in Nat /\ Len(m) <= Len(log)
        /\ p[c] \in Nat /\ n \in Nat
    BY <1>1, <1>2
  <2>4. Len(log) - Len(m) + p[c] - 1 - u \in Nat
    BY <2>2, <2>3
  <2>5. p[c] - 1 - u + n <= Len(m)
    BY <2>1, <2>2, <2>3
  <2> QED BY <2>4, <2>5
<1> QED BY <1>8, <1>9, <1>10 DEF cur, m, u

(* One processor at most is in printf behind the lock.                      *)
LEMMA OneInside ==
    ASSUME LockInv, NEW c \in CPUs, pc[c] \in Inside
    PROVE  lock_debug_mem = c /\ \A d \in CPUs : pc[d] \in Inside => d = c
BY DEF LockInv

(* How much the processor that has the lock has shown.                      *)
LEMMA ShownInside ==
    ASSUME LockInv, NEW c \in CPUs, pc[c] \in {"write", "print", "trap"}
    PROVE  Shown = Len(log) - Len(message[c]) + p[c] - 1 - Unshown(c)
<1>1. lock_debug_mem = c /\ c # Nobody /\ pc[c] # "unlock"
  BY OneInside, LogFacts DEF Inside
<1> QED BY <1>1 DEF Shown

(* What a call of print_vga adds to the screen.                             *)
LEMMA PrintStep ==
    ASSUME TypeInv, LockInv, PageInv, ScreenInv, NEW c \in CPUs, NEW n \in Nat, NEW mem,
           \/ pc[c] = "write" /\ n = Unshown(c)
           \/ pc[c] = "print" /\ n = Unshown(c) - 1,
           \A i \in 0 .. SIZE - 1 : mem[i] = buffer[i],
           mem[cur_debug_mem + n] = NUL,
           print_vga(mem, cur_debug_mem)
    PROVE  /\ vga_buf_ptr' \in Nat /\ DOMAIN screen' = DOMAIN screen
           /\ Shown \in Nat /\ Shown + n <= Len(log)
           /\ SameSpot(vga_buf_ptr', Places(log)[Shown + n + 1])
           /\ \A x \in 0 .. Cells - 1 : CellInv(log, Shown + n, screen'[x], x)
<1> DEFINE s == String(mem, cur_debug_mem)
<1>1. Shown = Len(log) - Len(message[c]) + p[c] - 1 - Unshown(c)
  BY ShownInside
<1>2. /\ s \in Seq(Character) /\ Len(s) = n /\ Shown \in Nat
      /\ p[c] - 1 - Unshown(c) + n <= Len(message[c])
      /\ \A k \in 1 .. n : s[k] = log[Shown + k]
  BY <1>1, StringShown
<1>3. Shown + n <= Len(log)
  <2>1. /\ Len(message[c]) \in Nat /\ Len(log) \in Nat /\ p[c] \in Nat /\ Unshown(c) \in Int
    BY LogFacts DEF TypeInv, Unshown
  <2>2. p[c] - 1 - Unshown(c) + n <= Len(message[c])
    BY <1>2
  <2> HIDE DEF s
  <2>3. Len(log) - Len(message[c]) + p[c] - 1 - Unshown(c) + n <= Len(log)
    BY <2>1, <2>2
  <2> QED BY <1>1, <2>3
<1>4. /\ log \in Seq(Character) /\ SameSpot(vga_buf_ptr, Places(log)[Shown + 1])
      /\ \A x \in 0 .. Cells - 1 : CellInv(log, Shown, screen[x], x)
  BY DEF TypeInv, ScreenInv
<1> HIDE DEF s
<1>5. String(mem, cur_debug_mem) = s
  BY DEF s
<1> QED BY <1>2, <1>3, <1>4, <1>5, PrintShows

(* The screen shows as much of the log as has been shown.                   *)
LEMMA ScreenKept ==
    ASSUME ScreenInv, UNCHANGED <<log, display>>, Shown' = Shown
    PROVE  ScreenInv'
BY DEF ScreenInv, SameSpot, Cells, CellInv, ShownAt

(* The interrupt handlers write their own cells, and nothing else.          *)
LEMMA Overlaying ==
    ASSUME TypeInv, Overlay
    PROVE  /\ UNCHANGED <<memory, lock_debug_mem, pc, call, vga_buf_ptr, calls, log>>
           /\ DOMAIN screen' = DOMAIN screen /\ r' \in 0 .. EchoSize
           /\ \A x \in DOMAIN screen : screen'[x] = screen[x] \/ Overlaid(screen'[x], x)
<1>1. /\ DOMAIN screen = 0 .. (Rows + 1) * Columns - 1 /\ (Rows + 1) * Columns \in Nat
      /\ r \in 0 .. EchoSize /\ EchoSize \in Nat \ {0} /\ ClockDigits \in Nat \ {0}
      /\ EchoColumn \in Nat
  BY CellsType, LogAssumption DEF TypeInv
<1>2. CASE KeyboardEcho
  <2>1. r' \in 0 .. EchoSize
    BY <1>1, <1>2 DEF KeyboardEcho
  <2>2. print_vga_fixed(Typed, EchoColumn, r')
    BY <1>2 DEF KeyboardEcho
  <2>3. ASSUME NEW x \in DOMAIN screen, screen'[x] # screen[x]
        PROVE  Overlaid(screen'[x], x)
    <3>1. screen'[x] = Typed /\ x \in EchoColumn .. EchoColumn + r' - 1
      BY <2>2, <2>3 DEF print_vga_fixed
    <3>2. x \in EchoColumn .. EchoColumn + EchoSize - 1
      BY <1>1, <2>1, <3>1
    <3> QED BY <3>1, <3>2 DEF Overlaid
  <2> QED BY <2>1, <2>2, <2>3 DEF print_vga_fixed
<1>3. ASSUME NEW c \in CPUs, ShowSeconds(c)
      PROVE  /\ UNCHANGED <<memory, lock_debug_mem, pc, call, vga_buf_ptr, calls, log>>
             /\ DOMAIN screen' = DOMAIN screen /\ r' = r
             /\ \A x \in DOMAIN screen : screen'[x] = screen[x] \/ Overlaid(screen'[x], x)
  <2>1. PICK digits \in 1 .. ClockDigits : print_vga_fixed(Clock, ClockCell(c), digits)
    BY <1>3 DEF ShowSeconds
  <2>2. ASSUME NEW x \in DOMAIN screen, screen'[x] # screen[x]
        PROVE  Overlaid(screen'[x], x)
    <3>1. screen'[x] = Clock /\ x \in ClockCell(c) .. ClockCell(c) + digits - 1
      BY <2>1, <2>2 DEF print_vga_fixed
    <3>2. ClockCell(c) \in Int
      <4>1. c \in Nat /\ Columns \in Nat /\ ClockColumn \in Nat
        BY LogAssumption
      <4> QED BY <4>1 DEF ClockCell
    <3>3. x \in ClockCell(c) .. ClockCell(c) + ClockDigits - 1
      <4> DEFINE first == ClockCell(c)
      <4>1. first \in Int /\ x \in first .. first + digits - 1
        BY <3>1, <3>2
      <4> HIDE DEF first
      <4>2. x \in first .. first + ClockDigits - 1
        BY <1>1, <4>1
      <4> QED BY <4>2 DEF first
    <3> QED BY <3>1, <3>3 DEF Overlaid
  <2>3. r' = r
    BY <1>3 DEF ShowSeconds
  <2> QED BY <2>1, <2>2, <2>3 DEF print_vga_fixed
<1> QED BY <1>1, <1>2, <1>3 DEF Overlay

(* Every step keeps the screen and the log in agreement: only the steps     *)
(* that call print_vga change both what is shown and the pointer.           *)
LEMMA ScreenPreserved ==
    ASSUME Inv, [Next]_vars
    PROVE  /\ ScreenInv'
           /\ vga_buf_ptr' \in Nat /\ DOMAIN screen' = 0 .. (Rows + 1) * Columns - 1
           /\ r' \in 0 .. EchoSize
<1>0. TypeInv /\ LockInv /\ PageInv /\ ScreenInv
  BY DEF Inv
<1>1. /\ vga_buf_ptr \in Nat /\ DOMAIN screen = 0 .. (Rows + 1) * Columns - 1
      /\ r \in 0 .. EchoSize
      /\ log \in Seq(Character) /\ Len(log) \in Nat
      /\ message \in [CPUs -> Seq(Character)] /\ pc \in [CPUs -> {"idle", "lock"} \cup Inside]
      /\ p \in [CPUs -> Nat \ {0}] /\ buf \in [CPUs -> 0 .. SIZE - 1]
      /\ lock_debug_mem \in CPUs \cup {Nobody} /\ cur_debug_mem \in 0 .. SIZE - 1
      /\ SIZE \in Nat
  BY <1>0, LogFacts DEF TypeInv
<1>2. ASSUME NEW c \in CPUs, Call(c)
      PROVE  ScreenInv' /\ UNCHANGED display
  <2>1. /\ UNCHANGED <<memory, lock_debug_mem, buf, display, log>> /\ pc[c] = "idle"
        /\ \A d \in CPUs \ {c} : pc'[d] = pc[d] /\ p'[d] = p[d] /\ message'[d] = message[d]
    BY <1>1, <1>2 DEF Call
  <2>2. lock_debug_mem # c
    BY <1>0, <2>1 DEF LockInv, Inside
  <2>3. Shown' = Shown
    BY <1>1, <2>1, <2>2 DEF Shown, Unshown
  <2> QED BY <1>0, <2>1, <2>3, ScreenKept
<1>3. ASSUME NEW c \in CPUs, Lock(c)
      PROVE  ScreenInv' /\ UNCHANGED display
  <2>1. /\ lock_debug_mem = Nobody /\ lock_debug_mem' = c /\ pc'[c] = "write"
        /\ buf'[c] = cur_debug_mem /\ log' = log \o message[c] /\ pc[c] = "lock"
        /\ UNCHANGED <<memory, message, p, display>>
    BY <1>1, <1>3 DEF Lock
  <2>2. /\ message[c] \in Seq(Character) /\ Len(message[c]) \in Nat
        /\ log' \in Seq(Character) /\ Len(log') = Len(log) + Len(message[c]) /\ p[c] = 1
    BY <1>0, <1>1, <2>1 DEF PageInv, PageOf
  <2>3. Shown = Len(log) /\ Shown' = Len(log)
    <3>1. Shown' = Len(log') - Len(message[c]) + p[c] - 1 - (buf'[c] - cur_debug_mem)
      BY <2>1, LogFacts DEF Shown, Unshown
    <3> QED BY <1>1, <2>1, <2>2, <3>1 DEF Shown
  <2>4. \A k \in 1 .. Len(log) + 1 : Places(log')[k] = Places(log)[k]
    BY <1>1, <2>1, <2>2, PlacesPrefix
  <2>5. \A k \in 1 .. Len(log) : log'[k] = log[k]
    BY <1>1, <2>1, <2>2
  <2>6. ASSUME NEW x \in 0 .. Cells - 1
        PROVE  CellInv(log', Len(log), screen[x], x)
    <3>1. ShownAt(log', Len(log), x) = ShownAt(log, Len(log), x)
      <4>1. \A k \in 1 .. Len(log) : log'[k] = log[k] /\ Places(log')[k] = Places(log)[k]
        BY <1>1, <2>4, <2>5
      <4> QED BY <4>1 DEF ShownAt
    <3>2. CellInv(log, Len(log), screen[x], x)
      BY <1>0, <2>3 DEF ScreenInv
    <3>3. \A k \in ShownAt(log, Len(log), x) : log'[k] = log[k]
      BY <2>5 DEF ShownAt
    <3> QED BY <3>1, <3>2, <3>3 DEF CellInv
  <2>7. SameSpot(vga_buf_ptr, Places(log')[Len(log) + 1])
    <3>1. Len(log) + 1 \in 1 .. Len(log) + 1
      BY <1>1
    <3>2. Places(log')[Len(log) + 1] = Places(log)[Len(log) + 1]
      BY <2>4, <3>1
    <3>3. SameSpot(vga_buf_ptr, Places(log)[Shown + 1])
      BY <1>0 DEF ScreenInv
    <3> QED BY <2>3, <3>2, <3>3
  <2>8. Len(log) \in 0 .. Len(log')
    BY <1>1, <2>2
  <2> QED BY <2>1, <2>3, <2>6, <2>7, <2>8 DEF ScreenInv, SameSpot, Cells, CellInv, ShownAt
<1>4. ASSUME NEW c \in CPUs, Wrap(c)
      PROVE  ScreenInv' /\ vga_buf_ptr' \in Nat /\ DOMAIN screen' = DOMAIN screen /\ r' = r
  <2> DEFINE mem == [buffer EXCEPT ![SIZE] = NUL]
             n == Unshown(c)
  <2>1. /\ pc[c] = "write" /\ buf[c] = SIZE - 1 /\ print_vga(mem, cur_debug_mem)
        /\ cur_debug_mem' = 0 /\ buf'[c] = 0
        /\ UNCHANGED <<lock_debug_mem, pc, message, p, log>>
    BY <1>1, <1>4 DEF Wrap, AtEnd, WrapBuf, WrapStart
  <2>2. n \in Nat /\ cur_debug_mem + n = SIZE - 1
    BY <1>1, <2>1 DEF Unshown
  <2>3. \A i \in 0 .. SIZE - 1 : mem[i] = buffer[i]
    BY <1>1, LogFacts
  <2>4. mem[cur_debug_mem + n] = NUL
    <3>1. SIZE - 1 \in 0 .. SIZE - 1 /\ buffer[SIZE - 1] = NUL
      BY <1>0, LogFacts DEF PageInv, PageOf
    <3> QED BY <2>2, <2>3, <3>1
  <2> HIDE DEF mem, n
  <2>5. /\ vga_buf_ptr' \in Nat /\ DOMAIN screen' = DOMAIN screen
        /\ Shown \in Nat /\ Shown + n <= Len(log)
        /\ SameSpot(vga_buf_ptr', Places(log)[Shown + n + 1])
        /\ \A x \in 0 .. Cells - 1 : CellInv(log, Shown + n, screen'[x], x)
    <3>1. n = Unshown(c)
      BY DEF n
    <3> QED BY <1>0, <2>1, <2>2, <2>3, <2>4, <3>1, PrintStep
  <2>6. Shown' = Shown + n
    <3>1. lock_debug_mem = c /\ c # Nobody
      BY <1>0, <2>1, OneInside, LogFacts DEF Inside
    <3>2. Shown = Len(log) - Len(message[c]) + p[c] - 1 - n
      BY <1>0, <2>1, ShownInside DEF n
    <3>3. Shown' = Len(log) - Len(message[c]) + p[c] - 1 - (0 - 0)
      <4>1. lock_debug_mem' = c /\ pc'[c] = "write" /\ c # Nobody
        BY <2>1, <3>1
      <4>2. Shown' = Len(log') - Len(message'[c]) + p'[c] - 1 - (buf'[c] - cur_debug_mem')
        BY <4>1 DEF Shown, Unshown
      <4> QED BY <2>1, <4>2
    <3> DEFINE a == Len(log)
               b == Len(message[c])
               d == p[c]
    <3>4. a \in Nat /\ b \in Nat /\ d \in Nat /\ n \in Nat
      BY <1>1, <2>2
    <3>5. Shown = a - b + d - 1 - n /\ Shown' = a - b + d - 1 - (0 - 0)
      BY <3>2, <3>3
    <3> HIDE DEF a, b, d
    <3> QED BY <3>4, <3>5
  <2>7. Shown + n \in 0 .. Len(log)
    BY <1>1, <2>2, <2>5
  <2>8. r' = r
    BY <2>1 DEF print_vga
  <2> QED BY <2>1, <2>5, <2>6, <2>7, <2>8 DEF ScreenInv, SameSpot, Cells, CellInv, ShownAt
<1>5. ASSUME NEW c \in CPUs, WrapFaults(c)
      PROVE  ScreenInv' /\ UNCHANGED display
  <2>1. /\ UNCHANGED <<memory, lock_debug_mem, call, display, log>>
        /\ pc[c] = "write" /\ pc'[c] = "trap"
    BY <1>1, <1>5 DEF WrapFaults
  <2>2. lock_debug_mem = c /\ c # Nobody
    BY <1>0, <2>1, OneInside, LogFacts DEF Inside
  <2>3. Shown' = Shown
    BY <2>1, <2>2 DEF Shown, Unshown
  <2> QED BY <1>0, <2>1, <2>3, ScreenKept
<1>6. ASSUME NEW c \in CPUs, Write(c)
      PROVE  ScreenInv' /\ UNCHANGED display
  <2>1. /\ UNCHANGED <<cur_debug_mem, lock_debug_mem, message, display, log>>
        /\ pc[c] = "write" /\ pc'[c] \in {"write", "print"}
        /\ p'[c] = p[c] + 1 /\ buf'[c] = buf[c] + 1
    BY <1>1, <1>6 DEF Write
  <2>2. lock_debug_mem = c /\ c # Nobody
    BY <1>0, <2>1, OneInside, LogFacts DEF Inside
  <2>3. Shown' = Shown
    <3> DEFINE a == Len(log)
               b == Len(message[c])
               d == p[c]
               e == buf[c]
               g == cur_debug_mem
    <3>1. Shown = a - b + d - 1 - (e - g)
      BY <1>0, <2>1, ShownInside DEF Unshown
    <3>2. lock_debug_mem' = c /\ pc'[c] # "unlock" /\ c # Nobody
      BY <2>1, <2>2
    <3>3. Shown' = a - b + p'[c] - 1 - (buf'[c] - g)
      BY <2>1, <3>2 DEF Shown, Unshown
    <3>4. p'[c] = d + 1 /\ buf'[c] = e + 1
      BY <2>1
    <3>5. a \in Nat /\ b \in Nat /\ d \in Nat /\ e \in Nat /\ g \in Nat
      BY <1>1
    <3> HIDE DEF a, b, d, e, g
    <3>6. Shown' = a - b + (d + 1) - 1 - (e + 1 - g)
      BY <3>3, <3>4, <3>5
    <3> QED BY <3>1, <3>5, <3>6
  <2> QED BY <1>0, <2>1, <2>3, ScreenKept
<1>7. ASSUME NEW c \in CPUs, ShowMessage(c)
      PROVE  ScreenInv' /\ vga_buf_ptr' \in Nat /\ DOMAIN screen' = DOMAIN screen /\ r' = r
  <2> DEFINE n == Unshown(c) - 1
  <2>1. /\ pc[c] = "print" /\ pc'[c] = "unlock" /\ print_vga(buffer, cur_debug_mem)
        /\ UNCHANGED <<lock_debug_mem, call, log>>
    BY <1>1, <1>7 DEF ShowMessage
  <2>2. /\ n \in Nat /\ cur_debug_mem + n = buf[c] - 1 /\ p[c] = Len(message[c]) + 2
        /\ buffer[buf[c] - 1] = NUL
    <3>1. Unshown(c) \in 0 .. p[c] - 1 /\ Unshown(c) >= 1
      BY <1>0, <2>1 DEF PageInv, PageOf
    <3>2. p[c] = Len(message[c]) + 2 /\ buffer[buf[c] - 1] = NUL
      BY <1>0, <2>1 DEF PageInv, PageOf
    <3>3. buf[c] \in Nat /\ cur_debug_mem \in Nat /\ p[c] \in Nat
      BY <1>1
    <3> QED BY <3>1, <3>2, <3>3 DEF Unshown
  <2> HIDE DEF n
  <2>3. /\ vga_buf_ptr' \in Nat /\ DOMAIN screen' = DOMAIN screen
        /\ SameSpot(vga_buf_ptr', Places(log)[Shown + n + 1])
        /\ \A x \in 0 .. Cells - 1 : CellInv(log, Shown + n, screen'[x], x)
    <3>1. n = Unshown(c) - 1 /\ buffer[cur_debug_mem + n] = NUL
      BY <2>2 DEF n
    <3> QED BY <1>0, <2>1, <2>2, <3>1, PrintStep
  <2>4. Shown + n = Len(log)
    <3>1. Shown = Len(log) - Len(message[c]) + p[c] - 1 - (n + 1)
      <4>1. Unshown(c) = n + 1
        BY <1>1 DEF n, Unshown
      <4> QED BY <1>0, <2>1, <4>1, ShownInside
    <3> DEFINE a == Len(log)
               b == Len(message[c])
               q == p[c]
    <3>2. a \in Nat /\ b \in Nat /\ q = b + 2
      BY <1>1, <2>2
    <3>3. Shown = a - b + q - 1 - (n + 1)
      BY <3>1
    <3>4. n \in Nat
      BY <2>2
    <3> HIDE DEF a, b, q
    <3>5. Shown + n = a
      BY <3>2, <3>3, <3>4
    <3> QED BY <3>5 DEF a
  <2>5. Shown' = Len(log)
    <3>1. lock_debug_mem = c
      BY <1>0, <2>1, OneInside DEF Inside
    <3> QED BY <2>1, <3>1 DEF Shown
  <2>6. Len(log) \in 0 .. Len(log)
    BY <1>1
  <2>7. r' = r
    BY <2>1 DEF print_vga
  <2> QED BY <2>1, <2>3, <2>4, <2>5, <2>6, <2>7 DEF ScreenInv, SameSpot, Cells, CellInv, ShownAt
<1>8. ASSUME NEW c \in CPUs, Unlock(c)
      PROVE  ScreenInv' /\ UNCHANGED display
  <2>1. /\ UNCHANGED <<memory, call, display, log>> /\ pc[c] = "unlock"
        /\ lock_debug_mem' = Nobody
    BY <1>1, <1>8 DEF Unlock, AfterUnlock
  <2>2. lock_debug_mem = c
    BY <1>0, <2>1, OneInside DEF Inside
  <2>3. Shown' = Shown
    BY <2>1, <2>2 DEF Shown
  <2> QED BY <1>0, <2>1, <2>3, ScreenKept
<1>9. ASSUME Overlay
      PROVE  /\ ScreenInv' /\ vga_buf_ptr' = vga_buf_ptr /\ DOMAIN screen' = DOMAIN screen
             /\ r' \in 0 .. EchoSize
  <2>1. /\ UNCHANGED <<memory, lock_debug_mem, pc, call, vga_buf_ptr, log>>
        /\ DOMAIN screen' = DOMAIN screen /\ r' \in 0 .. EchoSize
        /\ \A x \in DOMAIN screen : screen'[x] = screen[x] \/ Overlaid(screen'[x], x)
    BY <1>0, <1>9, Overlaying
  <2>2. Shown' = Shown
    BY <2>1 DEF Shown, Unshown
  <2>3. \A x \in 0 .. Cells - 1 : x \in DOMAIN screen
    BY <1>1, CellsType
  <2>4. ASSUME NEW x \in 0 .. Cells - 1
        PROVE  CellInv(log, Shown, screen'[x], x)
    <3>1. CellInv(log, Shown, screen[x], x)
      BY <1>0 DEF ScreenInv
    <3>2. screen'[x] = screen[x] \/ Overlaid(screen'[x], x)
      BY <2>1, <2>3
    <3>3. CASE screen'[x] = screen[x]
      BY <3>1, <3>3
    <3>4. CASE Overlaid(screen'[x], x)
      BY <3>4 DEF CellInv
    <3> QED BY <3>2, <3>3, <3>4
  <2> QED BY <1>0, <2>1, <2>2, <2>4 DEF ScreenInv, SameSpot, Cells, CellInv, ShownAt
<1>10. ASSUME UNCHANGED vars
       PROVE  ScreenInv' /\ UNCHANGED display
  <2>1. Shown' = Shown
    BY <1>10 DEF vars, Shown, Unshown
  <2> QED BY <1>0, <1>10, <2>1, ScreenKept DEF vars
<1> QED BY <1>1, <1>2, <1>3, <1>4, <1>5, <1>6, <1>7, <1>8, <1>9, <1>10 DEF Next, Printf

-----------------------------------------------------------------------------
(* The types, the lock and the page                                         *)
(* Every step keeps the types.                                              *)
LEMMA TypePreserved ==
    ASSUME Inv, [Next]_vars
    PROVE  TypeInv'
<1>0. /\ DOMAIN buffer = 0 .. SIZE
      /\ cur_debug_mem \in 0 .. SIZE - 1
      /\ lock_debug_mem \in CPUs \cup {Nobody}
      /\ pc \in [CPUs -> {"idle", "lock", "write", "print", "unlock", "trap"}]
      /\ message \in [CPUs -> Seq(Character)]
      /\ p \in [CPUs -> Nat \ {0}] /\ buf \in [CPUs -> 0 .. SIZE - 1]
      /\ calls \in Nat /\ log \in Seq(Character)
  BY DEF Inv, TypeInv, Inside
<1>1. /\ vga_buf_ptr' \in Nat /\ DOMAIN screen' = 0 .. (Rows + 1) * Columns - 1
      /\ r' \in 0 .. EchoSize
  BY ScreenPreserved
<1> DEFINE Rest ==
        /\ DOMAIN buffer = 0 .. SIZE
        /\ cur_debug_mem \in 0 .. SIZE - 1
        /\ lock_debug_mem \in CPUs \cup {Nobody}
        /\ pc \in [CPUs -> {"idle", "lock", "write", "print", "unlock", "trap"}]
        /\ message \in [CPUs -> Seq(Character)]
        /\ p \in [CPUs -> Nat \ {0}] /\ buf \in [CPUs -> 0 .. SIZE - 1]
        /\ calls \in Nat /\ log \in Seq(Character)
<1>2. ASSUME NEW c \in CPUs, Call(c)
      PROVE  Rest'
  <2>1. PICK m \in Messages : message' = [message EXCEPT ![c] = Chars(calls + 1, m)]
    BY <1>2 DEF Call
  <2>2. Chars(calls + 1, m) \in Seq(Character)
    BY <1>0, CharsType
  <2>3. message' \in [CPUs -> Seq(Character)]
    BY <1>0, <2>1, <2>2
  <2> QED BY <1>0, <1>2, <2>3 DEF Call
<1>3. ASSUME NEW c \in CPUs, Lock(c)
      PROVE  Rest'
  <2>1. log' \in Seq(Character)
    BY <1>0, <1>3 DEF Lock
  <2> QED BY <1>0, <1>3, <2>1 DEF Lock
<1>4. ASSUME NEW c \in CPUs, Wrap(c)
      PROVE  Rest'
  <2>1. 0 \in 0 .. SIZE - 1
    BY LogFacts
  <2>2. /\ buffer' = [buffer EXCEPT ![SIZE] = NUL] /\ cur_debug_mem' = 0
        /\ buf' = [buf EXCEPT ![c] = 0]
        /\ UNCHANGED <<lock_debug_mem, pc, message, p, calls, log>>
    BY <1>4 DEF Wrap, WrapBuf, WrapStart
  <2> QED BY <1>0, <2>1, <2>2
<1>5. ASSUME NEW c \in CPUs, WrapFaults(c)
      PROVE  Rest'
  BY <1>0, <1>5 DEF WrapFaults
<1>6. ASSUME NEW c \in CPUs, Write(c)
      PROVE  Rest'
  <2>1. /\ DOMAIN buffer' = DOMAIN buffer
        /\ pc' = pc \/ pc' = [pc EXCEPT ![c] = "print"]
        /\ p' = [p EXCEPT ![c] = p[c] + 1] /\ buf' = [buf EXCEPT ![c] = buf[c] + 1]
        /\ UNCHANGED <<cur_debug_mem, lock_debug_mem, message, calls, log>>
    BY <1>6 DEF Write
  <2>2. buf[c] + 1 \in 0 .. SIZE - 1 /\ p[c] + 1 \in Nat \ {0}
    BY <1>0, <1>6, LogFacts DEF Write, AtEnd
  <2> QED BY <1>0, <2>1, <2>2
<1>7. ASSUME NEW c \in CPUs, ShowMessage(c)
      PROVE  Rest'
  <2>1. /\ cur_debug_mem' = buf[c] /\ pc' = [pc EXCEPT ![c] = "unlock"]
        /\ UNCHANGED <<buffer, lock_debug_mem, call, calls, log>>
    BY <1>7 DEF ShowMessage
  <2> QED BY <1>0, <2>1
<1>8. ASSUME NEW c \in CPUs, Unlock(c)
      PROVE  Rest'
  BY <1>0, <1>8 DEF Unlock, AfterUnlock
<1>9. ASSUME Overlay
      PROVE  Rest'
  <2>1. UNCHANGED <<memory, lock_debug_mem, pc, call, calls, log>>
    BY <1>9, Overlaying DEF Inv
  <2> QED BY <1>0, <2>1
<1>10. ASSUME UNCHANGED vars
       PROVE  Rest'
  BY <1>0, <1>10 DEF vars
<1>11. Rest'
  <2> HIDE DEF Rest
  <2> QED BY <1>2, <1>3, <1>4, <1>5, <1>6, <1>7, <1>8, <1>9, <1>10 DEF Next, Printf
<1> QED BY <1>1, <1>11 DEF TypeInv, Inside

(* What each step does to the lock and the program counters.                *)
LEMMA LockPreserved ==
    ASSUME Inv, [Next]_vars
    PROVE  LockInv'
<1>0. LockInv /\ pc \in [CPUs -> {"idle", "lock"} \cup Inside] /\ Nobody \notin CPUs
  BY LogFacts DEF Inv, TypeInv
<1>1. ASSUME NEW c \in CPUs, Lock(c) \/ Unlock(c)
      PROVE  LockInv'
  <2>1. CASE Lock(c)
    BY <1>0, <2>1 DEF Lock, LockInv, Inside
  <2>2. CASE Unlock(c)
    BY <1>0, <2>2 DEF Unlock, AfterUnlock, LockInv, Inside
  <2> QED BY <1>1, <2>1, <2>2
<1>2. ASSUME NEW c \in CPUs, lock_debug_mem' = lock_debug_mem,
             \A d \in CPUs \ {c} : pc'[d] = pc[d], pc'[c] \in Inside <=> pc[c] \in Inside
      PROVE  LockInv'
  BY <1>0, <1>2 DEF LockInv
<1>3. ASSUME NEW c \in CPUs, Call(c) \/ Wrap(c) \/ WrapFaults(c) \/ Write(c) \/ ShowMessage(c)
      PROVE  LockInv'
  <2>1. /\ lock_debug_mem' = lock_debug_mem
        /\ \/ pc' = pc
           \/ pc[c] = "idle" /\ pc' = [pc EXCEPT ![c] = "lock"]
           \/ pc[c] \in {"write", "print"}
              /\ \E at \in {"trap", "print", "unlock"} : pc' = [pc EXCEPT ![c] = at]
    BY <1>3 DEF Call, Wrap, WrapFaults, Write, ShowMessage
  <2>2. \A d \in CPUs \ {c} : pc'[d] = pc[d]
    BY <1>0, <2>1
  <2>3. pc'[c] \in Inside <=> pc[c] \in Inside
    BY <1>0, <2>1 DEF Inside
  <2> QED BY <1>2, <2>1, <2>2, <2>3
<1>4. ASSUME UNCHANGED vars
      PROVE  LockInv'
  BY <1>0, <1>4 DEF vars, LockInv
<1>5. ASSUME Overlay
      PROVE  LockInv'
  <2>1. UNCHANGED <<lock_debug_mem, pc>>
    BY <1>5, Overlaying DEF Inv
  <2> QED BY <1>0, <2>1 DEF LockInv
<1> QED BY <1>1, <1>3, <1>4, <1>5 DEF Next, Printf

(* The page of a processor that is not behind the lock.                     *)
LEMMA OutsidePage ==
    ASSUME NEW d, pc'[d] \notin Inside, pc'[d] = "lock" => p'[d] = 1
    PROVE  PageOf(d)'
BY DEF PageOf, Inside

(* Nothing changes for a processor whose part of the state is kept.         *)
LEMMA PageKept ==
    ASSUME NEW d, PageOf(d), UNCHANGED <<buffer, cur_debug_mem, log>>,
           pc'[d] = pc[d], p'[d] = p[d], buf'[d] = buf[d], message'[d] = message[d]
    PROVE  PageOf(d)'
BY DEF PageOf, Unshown, InPage

(* Every step keeps the page and the message being written in agreement.    *)
LEMMA PagePreserved ==
    ASSUME Inv, [Next]_vars
    PROVE  PageInv'
<1>0. /\ DOMAIN buffer = 0 .. SIZE
      /\ cur_debug_mem \in 0 .. SIZE - 1
      /\ pc \in [CPUs -> {"idle", "lock", "write", "print", "unlock", "trap"}]
      /\ message \in [CPUs -> Seq(Character)]
      /\ p \in [CPUs -> Nat \ {0}] /\ buf \in [CPUs -> 0 .. SIZE - 1]
      /\ log \in Seq(Character) /\ Len(log) \in Nat
      /\ SIZE \in Nat /\ SIZE >= 2 /\ Nobody \notin CPUs
  BY LogFacts DEF Inv, TypeInv, Inside
<1>1. /\ LockInv /\ buffer[SIZE - 1] = NUL /\ buffer[SIZE] \in {Foreign, NUL}
      /\ \A d \in CPUs : PageOf(d)
  BY DEF Inv, PageInv
<1>2. ASSUME NEW c \in CPUs, Call(c)
      PROVE  PageInv'
  <2>1. /\ UNCHANGED <<buffer, cur_debug_mem, log>> /\ pc'[c] = "lock" /\ p'[c] = 1
        /\ \A d \in CPUs \ {c} : /\ pc'[d] = pc[d] /\ p'[d] = p[d] /\ buf'[d] = buf[d]
                                 /\ message'[d] = message[d]
    BY <1>0, <1>2 DEF Call
  <2>2. PageOf(c)'
    BY <2>1, OutsidePage DEF Inside
  <2>3. \A d \in CPUs \ {c} : PageOf(d)'
    BY <1>1, <2>1, PageKept
  <2> QED BY <1>1, <2>1, <2>2, <2>3 DEF PageInv
<1>3. ASSUME NEW c \in CPUs, pc'[c] \in Inside, LockInv',
             \A d \in CPUs \ {c} : pc'[d] = pc[d] /\ p'[d] = p[d], PageOf(c)',
             buffer'[SIZE - 1] = NUL, buffer'[SIZE] \in {Foreign, NUL}
      PROVE  PageInv'
  <2>1. \A d \in CPUs \ {c} : pc'[d] \notin Inside
    BY <1>3 DEF LockInv
  <2>2. \A d \in CPUs \ {c} : pc'[d] = "lock" => p'[d] = 1
    BY <1>1, <1>3 DEF PageOf
  <2>3. \A d \in CPUs \ {c} : PageOf(d)'
    BY <2>1, <2>2, OutsidePage
  <2> QED BY <1>3, <2>3 DEF PageInv
<1>4. LockInv'
  BY LockPreserved
<1>5. ASSUME NEW c \in CPUs, Lock(c)
      PROVE  PageInv'
  <2>1. /\ pc[c] = "lock" /\ pc'[c] = "write" /\ log' = log \o message[c]
        /\ buf'[c] = cur_debug_mem
        /\ UNCHANGED <<buffer, cur_debug_mem, message, p>>
        /\ \A d \in CPUs \ {c} : pc'[d] = pc[d]
    BY <1>0, <1>5 DEF Lock
  <2>2. p[c] = 1 /\ message[c] \in Seq(Character) /\ Len(message[c]) \in Nat
    BY <1>0, <1>1, <2>1 DEF PageOf
  <2>3. Unshown(c)' = 0
    BY <1>0, <2>1 DEF Unshown
  <2>4. Len(log') = Len(log) + Len(message[c])
    BY <1>0, <2>1, <2>2
  <2>5. \A k \in 1 .. Len(message[c]) : log'[Len(log') - Len(message[c]) + k] = message[c][k]
    <3> SUFFICES ASSUME NEW k \in 1 .. Len(message[c])
                 PROVE  log'[Len(log') - Len(message[c]) + k] = message[c][k]
      OBVIOUS
    <3>1. Len(log') - Len(message[c]) + k = Len(log) + k
      BY <1>0, <2>2, <2>4
    <3>2. (log \o message[c])[Len(log) + k] = message[c][k]
      BY <1>0, <2>2
    <3> QED BY <2>1, <3>1, <3>2
  <2>6. Len(message[c]) <= Len(log') /\ 0 \in 0 .. p'[c] - 1 /\ p'[c] <= Len(message[c]) + 1
    BY <1>0, <2>1, <2>2, <2>4
  <2>7. PageOf(c)'
    BY <2>1, <2>3, <2>5, <2>6 DEF PageOf, InPage
  <2> QED BY <1>1, <1>3, <1>4, <2>1, <2>7 DEF Inside
<1>6. ASSUME NEW c \in CPUs, Wrap(c)
      PROVE  PageInv'
  <2>1. /\ pc[c] = "write" /\ buffer' = [buffer EXCEPT ![SIZE] = NUL]
        /\ cur_debug_mem' = 0 /\ buf'[c] = 0
        /\ UNCHANGED <<pc, message, p, log>>
    BY <1>0, <1>6, LogFacts DEF Wrap, WrapBuf, WrapStart
  <2>2. Unshown(c)' = 0
    BY <2>1 DEF Unshown
  <2>3. /\ Len(message[c]) <= Len(log) /\ p[c] <= Len(message[c]) + 1
        /\ \A k \in 1 .. Len(message[c]) :
              log[Len(log) - Len(message[c]) + k] = message[c][k]
    BY <1>1, <2>1 DEF PageOf
  <2>4. 0 \in 0 .. p[c] - 1
    BY <1>0
  <2>5. PageOf(c)'
    <3>1. InPage(c, Unshown(c))'
      BY <2>2 DEF InPage
    <3> QED BY <2>1, <2>2, <2>3, <2>4, <3>1 DEF PageOf
  <2>6. buffer'[SIZE - 1] = NUL /\ buffer'[SIZE] = NUL
    BY <1>0, <1>1, <2>1
  <2> QED BY <1>3, <1>4, <2>1, <2>5, <2>6 DEF Inside
<1>7. ASSUME NEW c \in CPUs, WrapFaults(c)
      PROVE  PageInv'
  <2>1. /\ pc[c] = "write" /\ pc'[c] = "trap"
        /\ UNCHANGED <<buffer, cur_debug_mem, buf, message, p, log>>
        /\ \A d \in CPUs \ {c} : pc'[d] = pc[d]
    BY <1>0, <1>7 DEF WrapFaults
  <2>2. PageOf(c)'
    BY <1>1, <2>1 DEF PageOf, InPage, Unshown
  <2> QED BY <1>1, <1>3, <1>4, <2>1, <2>2 DEF Inside
<1>8. ASSUME NEW c \in CPUs, Write(c)
      PROVE  PageInv'
  <2> DEFINE ended == p[c] > Len(message[c])
             char == IF ended THEN NUL ELSE message[c][p[c]]
             cur == cur_debug_mem
             u == Unshown(c)
             m == message[c]
             P == p[c]
  <2>1. /\ pc[c] = "write" /\ buf[c] # SIZE - 1
        /\ buffer' = [buffer EXCEPT ![buf[c]] = char]
        /\ pc'[c] = IF ended THEN "print" ELSE "write"
        /\ p'[c] = P + 1 /\ buf'[c] = buf[c] + 1
        /\ UNCHANGED <<cur_debug_mem, message, log>>
        /\ \A d \in CPUs \ {c} : pc'[d] = pc[d] /\ p'[d] = p[d]
    BY <1>0, <1>8 DEF Write, AtEnd
  <2>2. /\ u \in 0 .. P - 1 /\ Len(m) <= Len(log) /\ P <= Len(m) + 1
        /\ \A k \in 1 .. Len(m) : log[Len(log) - Len(m) + k] = m[k]
        /\ \A i \in 0 .. u - 1 : buffer[cur + i] = m[P - u + i]
    BY <1>1, <2>1 DEF PageOf, InPage
  <2>3. /\ buf[c] \in 0 .. SIZE - 1 /\ cur \in 0 .. SIZE - 1 /\ u = buf[c] - cur
        /\ P \in Nat \ {0} /\ Len(m) \in Nat
    BY <1>0 DEF Unshown
  <2>4. Unshown(c)' = buf'[c] - cur
    BY <2>1 DEF Unshown
  <2> HIDE DEF char, cur, u, m, P
  <2>5. Unshown(c)' = u + 1 /\ cur + u = buf[c]
    BY <1>0, <2>1, <2>3, <2>4
  <2>6. /\ buffer'[cur + u] = char
        /\ \A i \in 0 .. u - 1 : buffer'[cur + i] = m[P - u + i]
    <3>1. ASSUME NEW i \in 0 .. u - 1
          PROVE  buffer'[cur + i] = m[P - u + i]
      <4>1. cur + i \in 0 .. SIZE /\ cur + i # buf[c]
        <5>1. i \in Nat /\ i < u /\ u \in Nat /\ cur \in Nat
          BY <2>2, <2>3
        <5>2. cur + u \in 0 .. SIZE - 1 /\ SIZE \in Nat
          BY <1>0, <2>3, <2>5
        <5>3. cur + i < cur + u
          BY <5>1
        <5> QED BY <2>5, <5>1, <5>2, <5>3
      <4>2. buffer'[cur + i] = buffer[cur + i]
        BY <1>0, <2>1, <4>1
      <4> QED BY <2>2, <4>2
    <3>2. buf[c] \in 0 .. SIZE
      BY <1>0, <2>3
    <3> QED BY <1>0, <2>1, <2>5, <3>1, <3>2
  <2>7. buffer'[SIZE - 1] = NUL /\ buffer'[SIZE] \in {Foreign, NUL}
    BY <1>0, <1>1, <2>1, <2>3
  <2>8. u + 1 \in 0 .. P /\ P + 1 - (u + 1) = P - u /\ u + 1 >= 1 /\ P + 1 - 1 = P
    <3>1. u \in 0 .. P - 1 /\ P \in Nat
      BY <2>2, <2>3
    <3> QED BY <3>1
  <2>9. CASE ended
    <3>1. pc'[c] = "print" /\ char = NUL /\ P = Len(m) + 1
      BY <2>1, <2>2, <2>3, <2>9 DEF char, m, P
    <3>2. p'[c] = Len(m) + 2 /\ u + 1 - 1 = u
      BY <2>1, <2>2, <2>3, <3>1
    <3>3. InPage(c, Unshown(c) - 1)'
      <4>1. p'[c] - Unshown(c)' = P - u /\ Unshown(c)' - 1 = u
        <5>1. p'[c] = P + 1 /\ Unshown(c)' = u + 1
          BY <2>1, <2>5
        <5>2. P \in Nat /\ u \in Nat
          BY <2>2, <2>3
        <5> QED BY <5>1, <5>2
      <4> QED BY <2>1, <2>6, <4>1 DEF InPage, cur, m
    <3>4. buffer'[buf'[c] - 1] = NUL
      <4>1. buf'[c] - 1 = buf[c]
        BY <2>1, <2>3
      <4> QED BY <2>5, <2>6, <3>1, <4>1
    <3>5. Unshown(c)' \in 0 .. p'[c] - 1 /\ Unshown(c)' >= 1
      <4>1. p'[c] - 1 = P
        BY <2>1, <2>3
      <4> QED BY <2>5, <2>8, <4>1
    <3>6. PageOf(c)'
      <4>1. /\ Len(message'[c]) <= Len(log') /\ p'[c] = Len(message'[c]) + 2
            /\ \A k \in 1 .. Len(message'[c]) :
                  log'[Len(log') - Len(message'[c]) + k] = message'[c][k]
        BY <2>1, <2>2, <3>2 DEF m
      <4> QED BY <3>1, <3>3, <3>4, <3>5, <4>1 DEF PageOf
    <3> QED BY <1>3, <1>4, <2>1, <2>7, <3>1, <3>6 DEF Inside
  <2>10. CASE ~ ended
    <3>1. pc'[c] = "write" /\ char = m[P] /\ P <= Len(m)
      BY <2>1, <2>3, <2>10 DEF char, m, P
    <3>2. InPage(c, Unshown(c))'
      <4>1. p'[c] - Unshown(c)' = P - u /\ Unshown(c)' - 1 = u
        <5>1. p'[c] = P + 1 /\ Unshown(c)' = u + 1
          BY <2>1, <2>5
        <5>2. P \in Nat /\ u \in Nat
          BY <2>2, <2>3
        <5> QED BY <5>1, <5>2
      <4>2. ASSUME NEW i \in 0 .. u
            PROVE  buffer'[cur + i] = m[P - u + i]
        <5>1. CASE i = u
          <6>1. P - u + u = P
            BY <2>2, <2>3
          <6> QED BY <2>6, <3>1, <5>1, <6>1
        <5>2. CASE i # u
          <6>1. i \in 0 .. u - 1
            BY <2>2, <4>2, <5>2
          <6> QED BY <2>6, <6>1
        <5> QED BY <5>1, <5>2
      <4> QED BY <2>1, <4>1, <4>2 DEF InPage, cur, m
    <3>3. Unshown(c)' \in 0 .. p'[c] - 1 /\ p'[c] <= Len(m) + 1
      <4>1. p'[c] - 1 = P /\ p'[c] = P + 1
        BY <2>1, <2>3
      <4> QED BY <2>3, <2>5, <2>8, <3>1, <4>1
    <3>4. PageOf(c)'
      <4>1. /\ Len(message'[c]) <= Len(log') /\ p'[c] <= Len(message'[c]) + 1
            /\ \A k \in 1 .. Len(message'[c]) :
                  log'[Len(log') - Len(message'[c]) + k] = message'[c][k]
        BY <2>1, <2>2, <3>3 DEF m
      <4> QED BY <3>1, <3>2, <3>3, <4>1 DEF PageOf
    <3> QED BY <1>3, <1>4, <2>1, <2>7, <3>1, <3>4 DEF Inside
  <2> QED BY <2>9, <2>10
<1>9. ASSUME NEW c \in CPUs, ShowMessage(c)
      PROVE  PageInv'
  <2>1. /\ cur_debug_mem' = buf[c] /\ pc'[c] = "unlock"
        /\ UNCHANGED <<buffer, p, buf>>
        /\ \A d \in CPUs \ {c} : pc'[d] = pc[d]
    BY <1>0, <1>9 DEF ShowMessage
  <2>2. PageOf(c)'
    BY <2>1 DEF PageOf
  <2> QED BY <1>1, <1>3, <1>4, <2>1, <2>2 DEF Inside
<1>10. ASSUME NEW c \in CPUs, Unlock(c)
       PROVE  PageInv'
  <2>1. /\ pc'[c] = "idle" /\ UNCHANGED <<memory, call, log>>
        /\ \A d \in CPUs \ {c} : pc'[d] = pc[d]
    BY <1>0, <1>10 DEF Unlock
  <2>2. PageOf(c)'
    BY <2>1, OutsidePage DEF Inside
  <2>3. \A d \in CPUs \ {c} : PageOf(d)'
    BY <1>1, <2>1, PageKept
  <2> QED BY <1>1, <2>1, <2>2, <2>3 DEF PageInv
<1>11. ASSUME UNCHANGED <<memory, pc, call, log>>
       PROVE  PageInv'
  BY <1>1, <1>11, PageKept DEF PageInv
<1>12. ASSUME Overlay
       PROVE  PageInv'
  BY <1>11, <1>12, Overlaying DEF Inv
<1>13. ASSUME UNCHANGED vars
       PROVE  PageInv'
  BY <1>11, <1>13 DEF vars
<1> QED BY <1>2, <1>5, <1>6, <1>7, <1>8, <1>9, <1>10, <1>12, <1>13 DEF Next, Printf

-----------------------------------------------------------------------------
(* The characters and calls of the log                                      *)

(* A processor without the lock has nothing in the page to be counted.      *)
CountOf(c, n) ==
    pc[c] \in {"write", "print"} =>
        Unshown(c) = p[c] - 1 /\ cur_debug_mem + Len(message[c]) + 1 <= n

(* A step on the processor that is in printf behind the lock, after which   *)
(* the log is what it was.                                                  *)
LEMMA CountStep ==
    ASSUME Inv, LockInv', NEW c \in CPUs, pc[c] \in Inside,
           UNCHANGED <<log, calls>>, \A d \in CPUs \ {c} : pc'[d] = pc[d],
           pc'[c] \in Inside \cup {"idle"},
           Wrapped' => Wrapped \/ Len(log) + calls >= SIZE,
           ~ Wrapped /\ ~ Wrapped' => cur_debug_mem' <= Logged /\ CountOf(c, Logged)',
           Wrapped => Wrapped'
    PROVE  CountInv'
<1>1. Waiting' = Waiting
  BY DEF Waiting, Inside
<1>2. Logged' = Logged
  BY <1>1 DEF Logged
<1>3. \A d \in CPUs \ {c} : pc'[d] \notin Inside
  BY DEF Inv, LockInv
<1>4. \A d \in CPUs \ {c} : CountOf(d, Logged)'
  BY <1>3 DEF CountOf, Inside
<1>5. CountInv
  BY DEF Inv
<1>6. Wrapped' => Len(log') + calls' >= SIZE
  BY <1>5 DEF CountInv
<1>7. ~ Wrapped' => cur_debug_mem' <= Logged' /\ \A d \in CPUs : CountOf(d, Logged)'
  BY <1>2, <1>4
<1> QED BY <1>1, <1>5, <1>6, <1>7 DEF CountInv, CountOf

(* Every step keeps the page within the log, until the page is full.        *)
LEMMA CountPreserved ==
    ASSUME Inv, [Next]_vars
    PROVE  CountInv'
<1>0. /\ DOMAIN buffer = 0 .. SIZE
      /\ cur_debug_mem \in 0 .. SIZE - 1
      /\ pc \in [CPUs -> {"idle", "lock", "write", "print", "unlock", "trap"}]
      /\ message \in [CPUs -> Seq(Character)]
      /\ p \in [CPUs -> Nat \ {0}] /\ buf \in [CPUs -> 0 .. SIZE - 1]
      /\ log \in Seq(Character) /\ Len(log) \in Nat /\ calls \in Nat
      /\ SIZE \in Nat /\ Nobody \notin CPUs
      /\ \A d \in CPUs : Len(message[d]) \in Nat
  BY LogFacts DEF Inv, TypeInv, Inside
<1>1. /\ LockInv /\ CountInv /\ \A d \in CPUs : PageOf(d)
  BY DEF Inv, PageInv
<1>2. /\ IsFiniteSet(Waiting) /\ Cardinality(Waiting) \in Nat
      /\ Cardinality(Waiting) <= calls /\ Logged \in Nat /\ Logged <= Len(log) + calls
  <2>1. IsFiniteSet(Waiting) /\ Cardinality(Waiting) <= calls
    BY <1>1 DEF CountInv
  <2>2. Cardinality(Waiting) \in Nat
    BY <2>1, FS_CardinalityType
  <2> QED BY <1>0, <2>1, <2>2 DEF Logged
<1>3. LockInv'
  BY LockPreserved
<1>4. ASSUME NEW c \in CPUs, Call(c)
      PROVE  CountInv'
  <2>1. /\ UNCHANGED <<buffer, cur_debug_mem, log>> /\ pc[c] = "idle" /\ pc'[c] = "lock"
        /\ calls' = calls + 1
        /\ \A d \in CPUs \ {c} : /\ pc'[d] = pc[d] /\ p'[d] = p[d] /\ buf'[d] = buf[d]
                                 /\ message'[d] = message[d]
    BY <1>0, <1>4 DEF Call
  <2>2. Waiting' = Waiting \cup {c} /\ c \notin Waiting
    BY <2>1 DEF Waiting
  <2>3. IsFiniteSet(Waiting') /\ Cardinality(Waiting') = Cardinality(Waiting) + 1
    BY <1>2, <2>2, FS_AddElement
  <2>4. Logged' = Logged /\ Cardinality(Waiting') <= calls' /\ Len(log') + calls' >= Len(log) + calls
    BY <1>0, <1>2, <2>1, <2>3 DEF Logged
  <2>5. Wrapped' <=> Wrapped
    BY <2>1 DEF Wrapped
  <2>6. Wrapped' => Len(log') + calls' >= SIZE
    BY <1>0, <1>1, <2>1, <2>4, <2>5 DEF CountInv
  <2>7. ASSUME ~ Wrapped'
        PROVE  cur_debug_mem' <= Logged' /\ \A d \in CPUs : CountOf(d, Logged)'
    BY <1>1, <2>1, <2>4, <2>5, <2>7 DEF CountInv, CountOf, Unshown
  <2> QED BY <2>3, <2>4, <2>6, <2>7 DEF CountInv, CountOf
<1>5. ASSUME NEW c \in CPUs, Lock(c)
      PROVE  CountInv'
  <2>1. /\ pc[c] = "lock" /\ pc'[c] = "write" /\ log' = log \o message[c]
        /\ buf'[c] = cur_debug_mem /\ lock_debug_mem = Nobody
        /\ UNCHANGED <<buffer, cur_debug_mem, message, p, calls>>
        /\ \A d \in CPUs \ {c} : pc'[d] = pc[d]
    BY <1>0, <1>5 DEF Lock
  <2>2. Waiting' = Waiting \ {c} /\ c \in Waiting
    BY <2>1 DEF Waiting
  <2>3. IsFiniteSet(Waiting') /\ Cardinality(Waiting') = Cardinality(Waiting) - 1
    BY <1>2, <2>2, FS_RemoveElement
  <2>4. p[c] = 1 /\ Len(log') = Len(log) + Len(message[c])
    BY <1>0, <1>1, <2>1 DEF PageOf
  <2>5. /\ Logged' = Logged + Len(message[c]) + 1 /\ Cardinality(Waiting') <= calls'
        /\ Len(log') + calls' >= Len(log) + calls
    <3> DEFINE n == Len(log)
               m == Len(message[c])
               w == Cardinality(Waiting)
    <3>1. n \in Nat /\ m \in Nat /\ w \in Nat /\ w <= calls /\ calls \in Nat
      BY <1>0, <1>2
    <3>2. calls' = calls /\ Len(log') = n + m /\ Cardinality(Waiting') = w - 1
      BY <2>1, <2>3, <2>4
    <3>3. Logged = n + calls - w /\ Logged' = Len(log') + calls' - Cardinality(Waiting')
      BY DEF Logged
    <3> HIDE DEF n, m, w
    <3>4. /\ Logged' = Logged + m + 1 /\ Cardinality(Waiting') <= calls'
          /\ Len(log') + calls' >= n + calls
      BY <3>1, <3>2, <3>3
    <3> QED BY <3>4 DEF n, m
  <2>6. \A d \in CPUs : d # c => pc'[d] \notin Inside
    BY <1>0, <1>1, <2>1 DEF LockInv
  <2>7. Wrapped' <=> Wrapped
    BY <2>1 DEF Wrapped
  <2>8. Wrapped' => Len(log') + calls' >= SIZE
    BY <1>0, <1>1, <2>1, <2>4, <2>7 DEF CountInv
  <2>9. Unshown(c)' = 0 /\ p'[c] - 1 = 0
    BY <1>0, <2>1, <2>4 DEF Unshown
  <2>10. ASSUME ~ Wrapped'
         PROVE  cur_debug_mem' <= Logged' /\ \A d \in CPUs : CountOf(d, Logged)'
    <3>1. cur_debug_mem <= Logged
      BY <1>1, <2>7, <2>10 DEF CountInv
    <3>2. cur_debug_mem <= Logged' /\ cur_debug_mem + Len(message[c]) + 1 <= Logged'
      BY <1>0, <1>2, <2>5, <3>1
    <3>3. CountOf(c, Logged)'
      BY <2>1, <2>9, <3>2 DEF CountOf
    <3>4. \A d \in CPUs : d # c => CountOf(d, Logged)'
      BY <2>6 DEF CountOf, Inside
    <3> QED BY <2>1, <3>2, <3>3, <3>4
  <2> QED BY <2>3, <2>5, <2>8, <2>10 DEF CountInv, CountOf
<1>6. ASSUME NEW c \in CPUs, pc[c] = "write", buf[c] = SIZE - 1
      PROVE  Len(log) + calls >= SIZE
  <2>1. CASE Wrapped
    BY <1>1, <2>1 DEF CountInv
  <2>2. CASE ~ Wrapped
    <3>1. /\ buf[c] - cur_debug_mem = p[c] - 1
          /\ cur_debug_mem + Len(message[c]) + 1 <= Logged
      BY <1>1, <1>6, <2>2 DEF CountInv, Unshown
    <3>2. p[c] <= Len(message[c]) + 1
      BY <1>1, <1>6 DEF PageOf
    <3> DEFINE cur == cur_debug_mem
               P == p[c]
               m == Len(message[c])
               n == Len(log) + calls
    <3>3. cur \in Nat /\ P \in Nat /\ m \in Nat /\ n \in Nat /\ SIZE \in Nat /\ Logged \in Nat
      BY <1>0, <1>2
    <3>4. SIZE - 1 - cur = P - 1 /\ cur + m + 1 <= Logged /\ P <= m + 1 /\ Logged <= n
      BY <1>2, <1>6, <3>1, <3>2
    <3> HIDE DEF cur, P, m, n
    <3>5. n >= SIZE
      BY <3>3, <3>4
    <3> QED BY <3>5 DEF n
  <2> QED BY <2>1, <2>2
<1>7. ASSUME NEW c \in CPUs, Wrap(c)
      PROVE  CountInv'
  <2>1. /\ pc[c] = "write" /\ buf[c] = SIZE - 1 /\ buffer' = [buffer EXCEPT ![SIZE] = NUL]
        /\ UNCHANGED <<pc, log, calls>>
    BY <1>7 DEF Wrap, AtEnd
  <2>2. Wrapped'
    BY <1>0, <2>1 DEF Wrapped
  <2> QED BY <1>3, <1>6, <2>1, <2>2, CountStep DEF Inside
<1>8. ASSUME NEW c \in CPUs, WrapFaults(c)
      PROVE  CountInv'
  <2>1. /\ pc[c] = "write" /\ buf[c] = SIZE - 1 /\ pc'[c] = "trap"
        /\ UNCHANGED <<log, calls>> /\ \A d \in CPUs \ {c} : pc'[d] = pc[d]
    BY <1>0, <1>8 DEF WrapFaults, AtEnd
  <2>2. Wrapped'
    BY <2>1 DEF Wrapped
  <2> QED BY <1>3, <1>6, <2>1, <2>2, CountStep DEF Inside
<1>9. ASSUME NEW c \in CPUs, Write(c)
      PROVE  CountInv'
  <2>1. /\ pc[c] = "write" /\ pc'[c] \in {"write", "print"} /\ buf[c] # SIZE
        /\ p'[c] = p[c] + 1 /\ buf'[c] = buf[c] + 1
        /\ UNCHANGED <<cur_debug_mem, message, log, calls>>
        /\ \A d \in CPUs \ {c} : pc'[d] = pc[d]
    BY <1>0, <1>9 DEF Write
  <2>2. buffer'[SIZE] = buffer[SIZE]
    BY <1>0, <1>9, <2>1 DEF Write
  <2>3. Wrapped' <=> Wrapped
    BY <1>0, <2>1, <2>2 DEF Wrapped
  <2>4. ASSUME ~ Wrapped
        PROVE  cur_debug_mem' <= Logged /\ CountOf(c, Logged)'
    <3>1. /\ cur_debug_mem <= Logged /\ buf[c] - cur_debug_mem = p[c] - 1
          /\ cur_debug_mem + Len(message[c]) + 1 <= Logged
      BY <1>1, <2>1, <2>4 DEF CountInv, Unshown
    <3>2. buf[c] \in Nat /\ p[c] \in Nat /\ cur_debug_mem \in Nat
      BY <1>0
    <3>3. Unshown(c)' = p'[c] - 1
      <4>1. buf'[c] = buf[c] + 1 /\ p'[c] = p[c] + 1 /\ cur_debug_mem' = cur_debug_mem
        BY <2>1
      <4>2. Unshown(c)' = buf'[c] - cur_debug_mem'
        BY DEF Unshown
      <4> QED BY <3>1, <3>2, <4>1, <4>2
    <3>4. Logged' = Logged
      BY <2>1 DEF Logged, Waiting
    <3> QED BY <2>1, <3>1, <3>3, <3>4 DEF CountOf
  <2> QED BY <1>3, <2>1, <2>3, <2>4, CountStep DEF Inside
<1>10. ASSUME NEW c \in CPUs, ShowMessage(c)
       PROVE  CountInv'
  <2>1. /\ pc[c] = "print" /\ pc'[c] = "unlock" /\ cur_debug_mem' = buf[c]
        /\ UNCHANGED <<buffer, log, calls>> /\ \A d \in CPUs \ {c} : pc'[d] = pc[d]
    BY <1>0, <1>10 DEF ShowMessage
  <2>2. Wrapped' <=> Wrapped
    BY <2>1 DEF Wrapped
  <2>3. ASSUME ~ Wrapped
        PROVE  cur_debug_mem' <= Logged /\ CountOf(c, Logged)'
    <3>1. /\ buf[c] - cur_debug_mem = p[c] - 1 /\ p[c] = Len(message[c]) + 2
          /\ cur_debug_mem + Len(message[c]) + 1 <= Logged
      BY <1>1, <2>1, <2>3 DEF CountInv, Unshown, PageOf
    <3>2. buf[c] \in Nat /\ cur_debug_mem \in Nat /\ Len(message[c]) \in Nat
      BY <1>0
    <3>3. buf[c] = cur_debug_mem + Len(message[c]) + 1
      BY <3>1, <3>2
    <3> QED BY <2>1, <3>1, <3>3 DEF CountOf
  <2> QED BY <1>3, <2>1, <2>2, <2>3, CountStep DEF Inside
<1>11. ASSUME NEW c \in CPUs, Unlock(c)
       PROVE  CountInv'
  <2>1. /\ pc[c] = "unlock" /\ pc'[c] = "idle"
        /\ UNCHANGED <<memory, log, calls>> /\ \A d \in CPUs \ {c} : pc'[d] = pc[d]
    BY <1>0, <1>11 DEF Unlock
  <2>2. Wrapped' <=> Wrapped
    BY <2>1 DEF Wrapped
  <2>3. ASSUME ~ Wrapped
        PROVE  cur_debug_mem' <= Logged /\ CountOf(c, Logged)'
    BY <1>1, <2>1, <2>3 DEF CountInv, CountOf
  <2> QED BY <1>3, <2>1, <2>2, <2>3, CountStep DEF Inside
<1>12. ASSUME UNCHANGED <<memory, pc, call, calls, log>>
       PROVE  CountInv'
  BY <1>1, <1>12 DEF CountInv, Waiting, Wrapped, Logged, Unshown
<1>13. ASSUME Overlay
       PROVE  CountInv'
  BY <1>12, <1>13, Overlaying DEF Inv
<1>14. ASSUME UNCHANGED vars
       PROVE  CountInv'
  BY <1>12, <1>14 DEF vars
<1> QED BY <1>4, <1>5, <1>7, <1>8, <1>9, <1>10, <1>11, <1>13, <1>14 DEF Next, Printf

-----------------------------------------------------------------------------
(* Whatever the processors print, the invariant holds: the log, the page    *)
(* and the screen agree at every step of printf.                            *)
THEOREM LogInvariance == Spec => []Inv
<1>1. Inv /\ [Next]_vars => Inv'
  BY TypePreserved, LockPreserved, PagePreserved, CountPreserved, ScreenPreserved DEF Inv
<1> QED BY <1>1, InitInv, PTL DEF Spec

(* The place of a character that LogOnScreen states is the one that has     *)
(* been used here.                                                          *)
LEMMA PlaceIs ==
    ASSUME log \in Seq(Character), NEW k \in 1 .. Len(log)
    PROVE  Place[k] = Places(log)[k]
<1> DEFINE n == Len(log)
           f == Places(log)
           Def(at) == [i \in 1 .. n |->
                          IF i = 1 THEN 0
                          ELSE IF log[i - 1].kind = "newline" THEN NextRow(at[i - 1])
                          ELSE at[i - 1] + 1]
           g == [i \in 1 .. n |-> f[i]]
<1>1. n \in Nat
  OBVIOUS
<1>2. /\ f[1] = 0
      /\ \A i \in 1 .. n : f[i + 1] = PlaceAfter(log[i], f[i])
  BY PlacesDef
<1> HIDE DEF f
<1>3. ASSUME NEW i \in 1 .. n
      PROVE  f[i] = IF i = 1 THEN 0
                    ELSE IF log[i - 1].kind = "newline" THEN NextRow(f[i - 1])
                    ELSE f[i - 1] + 1
  <2>1. CASE i = 1
    BY <1>2, <2>1
  <2>2. CASE i # 1
    <3>1. i - 1 \in 1 .. n /\ i - 1 + 1 = i
      BY <1>1, <1>3, <2>2
    <3>2. f[i] = PlaceAfter(log[i - 1], f[i - 1])
      BY <1>2, <3>1
    <3> QED BY <2>2, <3>2 DEF PlaceAfter
  <2> QED BY <2>1, <2>2
<1>4. g = Def(g)
  <2>1. \A i \in 1 .. n : i # 1 => i - 1 \in 1 .. n
    BY <1>1
  <2> QED BY <1>3, <2>1
<1>5. Place = Def(Place)
  <2>1. Place = CHOOSE at : at = Def(at)
    BY DEF Place
  <2> HIDE DEF Def
  <2> QED BY <1>4, <2>1
<1> DEFINE h == Place
           T == {i \in 1 .. n : h[i] # f[i]}
<1>6. \A i \in 1 .. n : h[i] = IF i = 1 THEN 0
                               ELSE IF log[i - 1].kind = "newline" THEN NextRow(h[i - 1])
                               ELSE h[i - 1] + 1
  <2>1. h = Def(h)
    BY <1>5
  <2> HIDE DEF h
  <2> QED BY <2>1
<1> HIDE DEF h
<1>7. ASSUME T # {}
      PROVE  FALSE
  <2>1. PICK i \in T : \A j \in T : i <= j
    <3>1. T \in SUBSET Nat
      BY <1>1
    <3> HIDE DEF T
    <3> QED BY <1>7, <3>1, LeastNumber
  <2>2. i \in 1 .. n /\ h[i] # f[i] /\ i # 1
    BY <1>2, <1>6, <2>1
  <2>3. i - 1 \in 1 .. n /\ i - 1 \notin T
    BY <1>1, <2>1, <2>2
  <2>4. h[i - 1] = f[i - 1]
    BY <2>3
  <2> QED BY <1>3, <1>6, <2>2, <2>4
<1> QED BY <1>7 DEF h, f

(* Whatever the processors print, and wherever the page ends in it, the     *)
(* screen has every character of the log once, in lock order, where a       *)
(* single text would have it; nothing but a processor's seconds and what is *)
(* typed is written over it, in their own cells.                            *)
THEOREM LogShown == Spec => []LogOnScreen
<1>1. Inv => LogOnScreen
  <2> SUFFICES ASSUME Inv, lock_debug_mem = Nobody, NEW x \in 0 .. Rows * Columns - 1
               PROVE  \/ Overlaid(screen[x], x)
                      \/ LET here == {k \in 1 .. Len(log) : log[k].kind = "text" /\ Place[k] = x}
                         IN  IF here = {} THEN screen[x] = Blank
                             ELSE \A k \in here : screen[x] = log[k]
    BY DEF LogOnScreen
  <2>1. log \in Seq(Character) /\ Shown = Len(log)
    BY DEF Inv, TypeInv, Shown
  <2>2. CellInv(log, Len(log), screen[x], x)
    BY <2>1 DEF Inv, ScreenInv, Cells
  <2>3. {k \in 1 .. Len(log) : log[k].kind = "text" /\ Place[k] = x} = ShownAt(log, Len(log), x)
    BY <2>1, PlaceIs DEF ShownAt
  <2> QED BY <2>2, <2>3 DEF CellInv
<1> QED BY <1>1, LogInvariance, PTL

(* Text is never written to the page's last byte, nor to the byte after it; *)
(* the NUL that ends a full page is, but not before the log has filled its  *)
(* page.                                                                    *)
THEOREM PageIsKept == Spec => []PageRespected
<1>1. Inv => PageRespected
  BY DEF Inv, PageInv, CountInv, Wrapped, PageRespected
<1> QED BY <1>1, LogInvariance, PTL

=============================================================================
