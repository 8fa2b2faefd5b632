--------------------------- MODULE UserModeProofs ---------------------------
(***************************************************************************)
(* Proofs that the user address spaces are apart, that no block is lost     *)
(* while they are built, and that the temporary mappings of page tables and *)
(* of the program are there while used and gone afterwards, for any number  *)
(* of processors and any memory.                                            *)
(***************************************************************************)
EXTENDS UserMode, TLAPS

USE DEF Goto, AllocPCs, LoadPCs, local, space, tables

-----------------------------------------------------------------------------
(* The invariant                                                            *)

NoneMapped(c) == pgd[c] = NoFrame /\ written[c] = {}
StackMapped(c) ==
    /\ pgd[c] # NoFrame
    /\ {"stack0", "stack1"} \subseteq written[c]
    /\ user_pte[c]["stack1"] = FrameOf(user_pte[c]["stack0"], 1)
TextMapped(c) == StackMapped(c) /\ "text" \in written[c]

(* what is mapped when alloc_user_page is called for a region               *)
Before(c) == IF region[c] = "stack" THEN NoneMapped(c)
             ELSE StackMapped(c) /\ "text" \notin written[c]

(* between two calls of alloc_user_page *)
Outside(c) == /\ page_buf[c] = NoFrame /\ page_pgtbl[c] = NoFrame
              /\ prev_nr_pgtbls[c] = 0 /\ mapped[c] = 0 /\ ~ lock_pgd_user[c]

(* the first page of the stack is mapped, the second is not                 *)
HalfMapped(c) ==
    /\ region[c] = "stack" /\ page_pgtbl[c] # NoFrame /\ pgd[c] = page_pgtbl[c]
    /\ written[c] = {"stack0"} /\ user_pte[c]["stack0"] = page_buf[c]

(* how far a processor's address space is, by where the processor is        *)
Progress(c) ==
    /\ pc[c] = "start" => region[c] = "stack" /\ NoneMapped(c) /\ Outside(c)
    /\ pc[c] = "alloc_buf" => Before(c) /\ Outside(c)
    /\ pc[c] = "read_pgd" =>
         /\ Before(c) /\ page_buf[c] # NoFrame /\ mapped[c] = 0 /\ ~ lock_pgd_user[c]
         /\ \/ page_pgtbl[c] = NoFrame /\ prev_nr_pgtbls[c] = 0
            \/ region[c] = "stack" /\ page_pgtbl[c] # NoFrame /\ prev_nr_pgtbls[c] = 1
    /\ pc[c] = "alloc_pgtbl" =>
         /\ region[c] = "stack" /\ NoneMapped(c) /\ page_buf[c] # NoFrame
         /\ mapped[c] = 0 /\ ~ lock_pgd_user[c]
         /\ page_pgtbl[c] = NoFrame /\ prev_nr_pgtbls[c] = 0 /\ nr_pgtbls[c] = 1
    /\ pc[c] \in {"map", "build"} =>
         /\ page_buf[c] # NoFrame
         /\ \/ mapped[c] = 0 /\ Before(c) /\ (region[c] = "stack" <=> page_pgtbl[c] # NoFrame)
            \/ mapped[c] = 1 /\ HalfMapped(c)
    /\ pc[c] = "unmap" =>
         /\ page_buf[c] # NoFrame /\ pgd[c] # NoFrame
         /\ \/ mapped[c] = 0 /\ HalfMapped(c)
            \/ /\ mapped[c] = 1 /\ region[c] = "stack" /\ page_pgtbl[c] = pgd[c]
               /\ user_pte[c]["stack0"] = page_buf[c]
               /\ StackMapped(c) /\ "text" \notin written[c]
            \/ /\ mapped[c] = 0 /\ region[c] = "text" /\ page_pgtbl[c] = NoFrame
               /\ user_pte[c]["text"] = page_buf[c] /\ TextMapped(c)
    /\ pc[c] \in LoadPCs \cup {"halted"} => TextMapped(c) /\ Outside(c)
    /\ pc[c] = "user" => /\ Outside(c)
                         /\ \/ NoneMapped(c)
                            \/ StackMapped(c) /\ "text" \notin written[c]
                            \/ TextMapped(c)
    /\ loaded[c] => pc[c] \in {"text_unmap", "user"} /\ TextMapped(c)

(* the blocks a processor has are those it uses, and their uses differ      *)
Accounted(c) ==
    allocated[c] =
        {<<t, 0>> : t \in TableFrames(c)}
          \cup {<<user_pte[c][u], 1>> : u \in written[c] \cap {"stack0"}}
          \cup {<<user_pte[c][u], 0>> : u \in written[c] \cap {"text"}}
          \cup {<<b, Order(c)>> : b \in {page_buf[c]} \ {NoFrame}}

UsesDiffer(c) ==
    /\ "text" \in written[c] => user_pte[c]["text"] \notin TableFrames(c)
    /\ region[c] = "text" => page_buf[c] \notin TableFrames(c)

Local(c) == Progress(c) /\ Accounted(c) /\ UsesDiffer(c)

BlocksFit ==
    \A c \in CPUs : \A b \in allocated[c] :
        Aligned(b[1], b[2]) /\ Block(b[1], b[2]) \subseteq Usable
BlocksApart ==
    \A c, d \in CPUs : \A b \in allocated[c], e \in allocated[d] :
        c # d \/ b # e => Block(b[1], b[2]) \cap Block(e[1], e[2]) = {}

(* a frame has a pte in the kernel exactly while a processor uses it        *)
Using(c, f) == \/ pc[c] \in {"build", "unmap"} /\ f = PageTable(c)
               \/ pc[c] \in {"text_copy", "text_unmap"} /\ f = user_pte[c]["text"]
KernelPtes == \A f \in Usable : f \in kernel_pte <=> \E c \in CPUs : Using(c, f)

Inv == /\ TypeOK /\ BlocksFit /\ BlocksApart /\ KernelPtes
       /\ \A c \in CPUs : Local(c)

-----------------------------------------------------------------------------
(* Facts of the blocks                                                      *)

(* A page is in the block it heads, and alone in it at order 0.             *)
LEMMA BlockHead ==
    ASSUME NEW p, NEW k \in Nat
    PROVE  p \in Block(p, k) /\ Block(p, 0) = {p}
<1>1. {} \in SUBSET (0 .. k - 1) /\ p \cup {} = p
  OBVIOUS
<1>2. \A low \in SUBSET (0 .. 0 - 1) : low = {}
  OBVIOUS
<1>3. p \in Block(p, k)
  BY <1>1 DEF Block
<1>4. Block(p, 0) \subseteq {p}
  BY <1>2, p \cup {} = p DEF Block
<1>5. p \in Block(p, 0)
  BY {} \in SUBSET (0 .. 0 - 1), p \cup {} = p DEF Block
<1> QED BY <1>3, <1>4, <1>5

LEMMA SmallBlocks ==
    ASSUME NEW p
    PROVE  /\ Block(p, 0) = {p}
           /\ p \in Block(p, 1) /\ FrameOf(p, 1) \in Block(p, 1)
           /\ FrameOf(p, 0) = p
           /\ Aligned(p, 1) => FrameOf(p, 1) # p
           /\ Aligned(p, 0)
<1>1. Block(p, 0) = {p} /\ p \in Block(p, 1)
  BY BlockHead
<1>2. 0 .. 1 - 1 = {0} /\ 0 .. 0 - 1 = {}
  OBVIOUS
<1>3. FrameOf(p, 1) = p \cup {0} /\ FrameOf(p, 0) = p
  BY DEF FrameOf
<1>4. p \cup {0} \in Block(p, 1)
  BY <1>2 DEF Block
<1>5. Aligned(p, 1) => 0 \notin p
  BY <1>2 DEF Aligned
<1>6. Aligned(p, 0)
  BY <1>2 DEF Aligned
<1> QED BY <1>1, <1>3, <1>4, <1>5, <1>6

(* The frames that stand for something are usable memory, in blocks of the  *)
(* processor's own.                                                         *)
LEMMA FramesHeld ==
    ASSUME Inv, NEW c \in CPUs
    PROVE  /\ \A t \in TableFrames(c) : <<t, 0>> \in allocated[c] /\ t \in Usable
           /\ "text" \in written[c] =>
                /\ <<user_pte[c]["text"], 0>> \in allocated[c]
                /\ user_pte[c]["text"] \in Usable
           /\ "stack0" \in written[c] =>
                /\ <<user_pte[c]["stack0"], 1>> \in allocated[c]
                /\ user_pte[c]["stack0"] \in Usable
           /\ page_buf[c] # NoFrame =>
                <<page_buf[c], Order(c)>> \in allocated[c] /\ page_buf[c] \in Usable
<1>1. Accounted(c) /\ TypeOK
  BY DEF Inv, Local
<1>2. /\ pgd[c] \in Frames /\ page_pgtbl[c] \in Frames /\ page_buf[c] \in Frames
      /\ allocated[c] \subseteq Usable \X (0 .. MAX_ALLOC_ORDER)
  BY <1>1 DEF TypeOK
<1>3. \A t \in TableFrames(c) : <<t, 0>> \in allocated[c] /\ t \in Usable
  BY <1>1, <1>2 DEF Accounted, TableFrames, Frames
<1>4. "text" \in written[c] =>
        <<user_pte[c]["text"], 0>> \in allocated[c] /\ user_pte[c]["text"] \in Usable
  <2>1. "text" \in written[c] =>
          <<user_pte[c]["text"], 0>> \in {<<user_pte[c][u], 0>> : u \in written[c] \cap {"text"}}
    OBVIOUS
  <2>2. "text" \in written[c] => <<user_pte[c]["text"], 0>> \in allocated[c]
    BY <1>1, <2>1, Zenon DEF Accounted
  <2> QED BY <1>2, <2>2
<1>5. "stack0" \in written[c] =>
        <<user_pte[c]["stack0"], 1>> \in allocated[c] /\ user_pte[c]["stack0"] \in Usable
  <2>1. "stack0" \in written[c] =>
          <<user_pte[c]["stack0"], 1>>
            \in {<<user_pte[c][u], 1>> : u \in written[c] \cap {"stack0"}}
    OBVIOUS
  <2>2. "stack0" \in written[c] => <<user_pte[c]["stack0"], 1>> \in allocated[c]
    BY <1>1, <2>1, Zenon DEF Accounted
  <2> QED BY <1>2, <2>2
<1>6. page_buf[c] # NoFrame =>
        <<page_buf[c], Order(c)>> \in allocated[c] /\ page_buf[c] \in Usable
  BY <1>1, <1>2 DEF Accounted, Frames
<1> QED BY <1>3, <1>4, <1>5, <1>6

LEMMA UsingHeld ==
    ASSUME Inv, NEW c \in CPUs, NEW f, Using(c, f)
    PROVE  f \in Usable /\ <<f, 0>> \in allocated[c]
<1>1. CASE pc[c] \in {"build", "unmap"} /\ f = PageTable(c)
  <2>1. PageTable(c) \in TableFrames(c)
    BY <1>1 DEF Inv, Local, Progress, Before, NoneMapped, StackMapped, HalfMapped,
       PageTable, TableFrames
  <2> QED BY <1>1, <2>1, FramesHeld
<1>2. CASE pc[c] \in {"text_copy", "text_unmap"} /\ f = user_pte[c]["text"]
  <2>1. "text" \in written[c]
    BY <1>2 DEF Inv, Local, Progress, TextMapped
  <2> QED BY <1>2, <2>1, FramesHeld
<1> QED BY <1>1, <1>2 DEF Using

(* No two processors use a frame at the same time.                          *)
LEMMA UsingApart ==
    ASSUME Inv, NEW c \in CPUs, NEW d \in CPUs, NEW f, Using(c, f), Using(d, f)
    PROVE  c = d
<1>1. <<f, 0>> \in allocated[c] /\ <<f, 0>> \in allocated[d]
  BY UsingHeld
<1>2. f \in Block(f, 0)
  BY SmallBlocks
<1>3. c # d => Block(<<f, 0>>[1], <<f, 0>>[2]) \cap Block(<<f, 0>>[1], <<f, 0>>[2]) = {}
  BY <1>1 DEF Inv, BlocksApart
<1> QED BY <1>2, <1>3

-----------------------------------------------------------------------------
(* What a step leaves alone                                                 *)

Same(d) ==
    /\ allocated'[d] = allocated[d] /\ lock_pgd_user'[d] = lock_pgd_user[d]
    /\ pgd'[d] = pgd[d] /\ user_pte'[d] = user_pte[d] /\ written'[d] = written[d]
    /\ pc'[d] = pc[d] /\ loaded'[d] = loaded[d]
    /\ region'[d] = region[d] /\ page_buf'[d] = page_buf[d]
    /\ page_pgtbl'[d] = page_pgtbl[d] /\ nr_pgtbls'[d] = nr_pgtbls[d]
    /\ prev_nr_pgtbls'[d] = prev_nr_pgtbls[d] /\ mapped'[d] = mapped[d]

OthersSame(c) == \A d \in CPUs : d # c => Same(d)

(* The invariant of a processor speaks of its own variables only.           *)
LEMMA LocalKept ==
    ASSUME NEW d \in CPUs, Same(d), Local(d)
    PROVE  Local(d)' /\ (\A f : Using(d, f)' <=> Using(d, f))
<1>1. /\ PageTable(d)' = PageTable(d) /\ TableFrames(d)' = TableFrames(d)
      /\ Order(d)' = Order(d)
  BY DEF Same, PageTable, TableFrames, Order
<1>2. /\ NoneMapped(d)' = NoneMapped(d) /\ StackMapped(d)' = StackMapped(d)
      /\ TextMapped(d)' = TextMapped(d) /\ Before(d)' = Before(d)
      /\ Outside(d)' = Outside(d) /\ HalfMapped(d)' = HalfMapped(d)
  BY DEF Same, NoneMapped, StackMapped, TextMapped, Before, Outside, HalfMapped
<1>3. Progress(d)'
  BY <1>2 DEF Same, Local, Progress, StackMapped
<1>4. Accounted(d)' /\ UsesDiffer(d)'
  BY <1>1 DEF Same, Local, Accounted, UsesDiffer
<1>5. \A f : Using(d, f)' <=> Using(d, f)
  BY <1>1 DEF Same, Using
<1> QED BY <1>3, <1>4, <1>5 DEF Local

(* So a step of one processor is about that one and the shared state.       *)
LEMMA StepKept ==
    ASSUME Inv, NEW c \in CPUs, OthersSame(c), TypeOK', Local(c)',
           BlocksFit', BlocksApart', KernelPtes'
    PROVE  Inv'
  BY LocalKept DEF Inv, OthersSame

(* A step that neither sets nor clears a pte, of a processor that uses what *)
(* it used.                                                                 *)
LEMMA PtesKept ==
    ASSUME Inv, NEW c \in CPUs, OthersSame(c), kernel_pte' = kernel_pte,
           \A f \in Usable : Using(c, f)' <=> Using(c, f)
    PROVE  KernelPtes'
<1>1. \A d \in CPUs : \A f \in Usable : Using(d, f)' <=> Using(d, f)
  BY LocalKept DEF Inv, OthersSame
<1> QED BY <1>1 DEF Inv, KernelPtes

LEMMA BlocksKept ==
    ASSUME Inv, allocated' = allocated
    PROVE  BlocksFit' /\ BlocksApart'
  BY DEF Inv, BlocksFit, BlocksApart

(* The allocator hands out blocks apart from all others.                    *)
LEMMA BlockAllocated ==
    ASSUME Inv, NEW c \in CPUs, NEW p \in Usable, NEW k \in 0 .. MAX_ALLOC_ORDER,
           PA!AllocateBlock(c, p, k)
    PROVE  /\ allocated' = [allocated EXCEPT ![c] = @ \cup {<<p, k>>}]
           /\ allocated' \in [CPUs -> SUBSET (Usable \X (0 .. MAX_ALLOC_ORDER))]
           /\ BlocksFit' /\ BlocksApart'
           /\ \A d \in CPUs : <<p, 0>> \notin allocated[d]
           /\ Aligned(p, k) /\ Block(p, k) \subseteq Usable
<1>1. /\ \A q, j : PA!Block(q, j) = Block(q, j)
      /\ \A q, j : PA!Aligned(q, j) <=> Aligned(q, j)
  BY DEF PA!Block, Block, PA!Aligned, Aligned
<1>2. /\ Aligned(p, k) /\ Block(p, k) \subseteq Usable
      /\ Block(p, k) \cap PA!Taken = {}
      /\ allocated' = [allocated EXCEPT ![c] = @ \cup {<<p, k>>}]
  BY <1>1 DEF PA!AllocateBlock
<1>3. ASSUME NEW d \in CPUs, NEW b \in allocated[d]
      PROVE  Block(p, k) \cap Block(b[1], b[2]) = {}
  <2>1. PA!Block(b[1], b[2]) \in PA!BlocksOf(d)
    BY DEF PA!BlocksOf
  <2>2. Block(b[1], b[2]) \subseteq PA!Taken
    BY <1>1, <2>1 DEF PA!Taken
  <2> QED BY <1>2, <2>2
<1>4. allocated \in [CPUs -> SUBSET (Usable \X (0 .. MAX_ALLOC_ORDER))]
  BY DEF Inv, TypeOK
<1>5. \A d \in CPUs : allocated'[d] =
          IF d = c THEN allocated[d] \cup {<<p, k>>} ELSE allocated[d]
  BY <1>2, <1>4
<1>6. BlocksFit'
  BY <1>2, <1>5 DEF Inv, BlocksFit
<1>7. BlocksApart'
  <2> SUFFICES ASSUME NEW d \in CPUs, NEW e \in CPUs,
                      NEW x \in allocated'[d], NEW y \in allocated'[e], d # e \/ x # y
               PROVE  Block(x[1], x[2]) \cap Block(y[1], y[2]) = {}
    BY DEF BlocksApart
  <2>1. CASE x \in allocated[d] /\ y \in allocated[e]
    BY <2>1 DEF Inv, BlocksApart
  <2>2. CASE d = c /\ x = <<p, k>> /\ y \in allocated[e]
    BY <1>3, <2>2
  <2>3. CASE e = c /\ y = <<p, k>> /\ x \in allocated[d]
    BY <1>3, <2>3
  <2>4. x \in allocated[d] \/ (d = c /\ x = <<p, k>>)
    BY <1>5
  <2>5. y \in allocated[e] \/ (e = c /\ y = <<p, k>>)
    BY <1>5
  <2> QED BY <2>1, <2>2, <2>3, <2>4, <2>5
<1>8. ASSUME NEW d \in CPUs
      PROVE  <<p, 0>> \notin allocated[d]
  <2>1. p \in Block(p, k)
    BY BlockHead, UserModeAssumption
  <2>2. Block(p, 0) = {p}
    BY SmallBlocks
  <2> QED BY <1>3, <2>1, <2>2
<1>9. allocated' \in [CPUs -> SUBSET (Usable \X (0 .. MAX_ALLOC_ORDER))]
  BY <1>2, <1>4
<1> QED BY <1>2, <1>6, <1>7, <1>8, <1>9

LEMMA BlockFreed ==
    ASSUME Inv, NEW c \in CPUs, NEW b, PA!FreeBlock(c, b)
    PROVE  /\ allocated' = [allocated EXCEPT ![c] = @ \ {b}]
           /\ allocated' \in [CPUs -> SUBSET (Usable \X (0 .. MAX_ALLOC_ORDER))]
           /\ BlocksFit' /\ BlocksApart'
<1>1. allocated' = [allocated EXCEPT ![c] = @ \ {b}]
  BY DEF PA!FreeBlock
<1>2. allocated \in [CPUs -> SUBSET (Usable \X (0 .. MAX_ALLOC_ORDER))]
  BY DEF Inv, TypeOK
<1>3. \A d \in CPUs : allocated'[d] \subseteq allocated[d]
  BY <1>1, <1>2
<1>4. BlocksFit' /\ BlocksApart'
  BY <1>3 DEF Inv, BlocksFit, BlocksApart
<1> QED BY <1>1, <1>2, <1>4

-----------------------------------------------------------------------------
(* The steps                                                                *)

LEMMA StartKept ==
    ASSUME Inv, NEW c \in CPUs, Start(c)
    PROVE  Inv'
<1>1. OthersSame(c) /\ TypeOK'
  BY DEF Start, OthersSame, Same, Inv, TypeOK, PCs, Frames
<1>2. pgd[c] = NoFrame
  BY DEF Start, Inv, Local, Progress, NoneMapped
<1>3. pgd' = pgd /\ written' = written
  BY <1>2 DEF Start, Inv, TypeOK, Local, Progress, NoneMapped
<1>4. pc'[c] = "alloc_buf" /\ pc[c] = "start"
  BY DEF Start, Inv, TypeOK
<1>5. Local(c)'
  <2>1. PageTable(c)' = PageTable(c) /\ TableFrames(c)' = TableFrames(c) /\ Order(c)' = Order(c)
    BY <1>3 DEF Start, PageTable, TableFrames, Order
  <2>2. Progress(c)'
    BY <1>3, <1>4 DEF Start, Inv, Local, Progress, Before, Outside, NoneMapped
  <2>3. Accounted(c)' /\ UsesDiffer(c)'
    BY <1>3, <2>1 DEF Start, Inv, Local, Accounted, UsesDiffer
  <2> QED BY <2>2, <2>3 DEF Local
<1>6. BlocksFit' /\ BlocksApart'
  BY BlocksKept DEF Start
<1>7. KernelPtes'
  BY <1>1, <1>4, PtesKept DEF Start, Using
<1> QED BY <1>1, <1>5, <1>6, <1>7, StepKept

LEMMA AllocBufKept ==
    ASSUME Inv, NEW c \in CPUs, AllocBuf(c)
    PROVE  Inv'
<1>0. Order(c) \in 0 .. MAX_ALLOC_ORDER
  BY UserModeAssumption DEF Order, NPAGES_TO_ORDER, NumPages
<1>1. PICK p \in Usable : /\ PA!AllocateBlock(c, p, Order(c))
                          /\ page_buf' = [page_buf EXCEPT ![c] = p]
  BY DEF AllocBuf
<1>2. /\ allocated' = [allocated EXCEPT ![c] = @ \cup {<<p, Order(c)>>}]
      /\ allocated' \in [CPUs -> SUBSET (Usable \X (0 .. MAX_ALLOC_ORDER))]
      /\ BlocksFit' /\ BlocksApart'
      /\ \A d \in CPUs : <<p, 0>> \notin allocated[d]
  BY <1>0, <1>1, BlockAllocated
<1>3. OthersSame(c) /\ TypeOK'
  BY <1>1, <1>2 DEF AllocBuf, OthersSame, Same, Inv, TypeOK, PCs, AllocPCs, Frames
<1>4. /\ pc'[c] = "read_pgd" /\ pc[c] = "alloc_buf" /\ page_buf'[c] = p
      /\ allocated'[c] = allocated[c] \cup {<<p, Order(c)>>} /\ p # NoFrame
  BY <1>1, <1>2, UserModeAssumption DEF AllocBuf, Inv, TypeOK
<1>5. page_buf[c] = NoFrame
  BY <1>4 DEF Inv, Local, Progress, Outside
<1>6. Local(c)'
  <2>1. TableFrames(c)' = TableFrames(c) /\ Order(c)' = Order(c)
    BY DEF AllocBuf, TableFrames, Order
  <2>2. Progress(c)'
    BY <1>4 DEF AllocBuf, Inv, Local, Progress, Before, Outside, NoneMapped, StackMapped
  <2>3. Accounted(c)'
    BY <1>4, <1>5, <2>1 DEF AllocBuf, Inv, Local, Accounted
  <2>4. UsesDiffer(c)'
    BY <1>2, <1>4, <2>1, FramesHeld DEF AllocBuf, Inv, Local, UsesDiffer
  <2> QED BY <2>2, <2>3, <2>4 DEF Local
<1>7. KernelPtes'
  BY <1>3, <1>4, PtesKept DEF AllocBuf, Using
<1> QED BY <1>2, <1>3, <1>6, <1>7, StepKept

(* A call that fails leaves what the processor has mapped before it.        *)
LEMMA AllocBufFailsKept ==
    ASSUME Inv, NEW c \in CPUs, AllocBufFails(c)
    PROVE  Inv'
<1>1. OthersSame(c) /\ TypeOK'
  BY DEF AllocBufFails, Return, OthersSame, Same, Inv, TypeOK, PCs, Frames
<1>2. /\ pc'[c] = "user" /\ pc[c] = "alloc_buf" /\ region'[c] = "text"
      /\ page_buf'[c] = NoFrame /\ page_pgtbl'[c] = NoFrame
      /\ prev_nr_pgtbls'[c] = 0 /\ mapped'[c] = 0
  BY DEF AllocBufFails, Return, Inv, TypeOK
<1>3. Before(c) /\ Outside(c)
  BY <1>2 DEF Inv, Local, Progress
<1>4. Local(c)'
  <2>1. TableFrames(c)' = TableFrames(c)
    BY <1>2, <1>3 DEF AllocBufFails, TableFrames, Outside
  <2>2. Progress(c)'
    BY <1>2, <1>3
    DEF AllocBufFails, Inv, Local, Progress, Before, Outside, NoneMapped, StackMapped
  <2>3. Accounted(c)'
    BY <1>2, <1>3, <2>1 DEF AllocBufFails, Inv, Local, Accounted, Outside
  <2>4. UsesDiffer(c)'
    <3>1. NoFrame \notin TableFrames(c)
      BY DEF TableFrames
    <3> QED BY <1>2, <2>1, <3>1 DEF AllocBufFails, Inv, Local, UsesDiffer
  <2> QED BY <2>2, <2>3, <2>4 DEF Local
<1>5. BlocksFit' /\ BlocksApart'
  BY BlocksKept DEF AllocBufFails
<1>6. KernelPtes'
  BY <1>1, <1>2, PtesKept DEF AllocBufFails, Using
<1> QED BY <1>1, <1>4, <1>5, <1>6, StepKept

(* The table is there already, or it has been allocated: which of the two   *)
(* follows from the region.                                                 *)
LEMMA ReadPgdSameKept ==
    ASSUME Inv, NEW c \in CPUs, ReadPgdSame(c)
    PROVE  Inv'
<1>1. OthersSame(c) /\ TypeOK'
  BY DEF ReadPgdSame, MissingTables, OthersSame, Same, Inv, TypeOK, PCs, Frames
<1>2. pc'[c] = "map" /\ pc[c] = "read_pgd"
  BY DEF ReadPgdSame, Inv, TypeOK
<1>3. Local(c)'
  <2>1. TableFrames(c)' = TableFrames(c) /\ Order(c)' = Order(c)
    BY DEF ReadPgdSame, TableFrames, Order
  <2>2. /\ Before(c) /\ page_buf[c] # NoFrame /\ mapped[c] = 0
        /\ region[c] = "stack" <=> page_pgtbl[c] # NoFrame
    BY <1>2 DEF ReadPgdSame, MissingTables, Inv, Local, Progress, Before, NoneMapped,
       StackMapped
  <2>3. Progress(c)'
    BY <1>2, <2>2 DEF ReadPgdSame, Inv, Local, Progress, Before, NoneMapped, StackMapped
  <2>4. Accounted(c)' /\ UsesDiffer(c)'
    BY <2>1 DEF ReadPgdSame, Inv, Local, Accounted, UsesDiffer
  <2> QED BY <2>3, <2>4 DEF Local
<1>4. BlocksFit' /\ BlocksApart'
  BY BlocksKept DEF ReadPgdSame
<1>5. KernelPtes'
  BY <1>1, <1>2, PtesKept DEF ReadPgdSame, Using
<1> QED BY <1>1, <1>3, <1>4, <1>5, StepKept

(* A table to allocate: this is the stack's first round, and there is no    *)
(* page_pgtbl to give back.                                                 *)
LEMMA ReadPgdDiffersKept ==
    ASSUME Inv, NEW c \in CPUs, ReadPgdDiffers(c)
    PROVE  Inv'
<1>1. pc[c] = "read_pgd"
  BY DEF ReadPgdDiffers
<1>2. /\ region[c] = "stack" /\ NoneMapped(c) /\ MissingTables(c) = 1
      /\ page_pgtbl[c] = NoFrame /\ prev_nr_pgtbls[c] = 0
      /\ page_buf[c] # NoFrame /\ mapped[c] = 0 /\ ~ lock_pgd_user[c]
  BY <1>1 DEF ReadPgdDiffers, MissingTables, Inv, Local, Progress, Before, NoneMapped,
     StackMapped
<1>3. /\ pc' = [pc EXCEPT ![c] = "alloc_pgtbl"] /\ nr_pgtbls' = [nr_pgtbls EXCEPT ![c] = 1]
      /\ page_pgtbl' = page_pgtbl /\ allocated' = allocated /\ prev_nr_pgtbls' = prev_nr_pgtbls
      /\ UNCHANGED <<tables, region, page_buf, mapped, loaded>>
  BY <1>2 DEF ReadPgdDiffers, Inv, TypeOK
<1>4. OthersSame(c) /\ TypeOK'
  BY <1>3 DEF OthersSame, Same, Inv, TypeOK, PCs, Frames
<1>5. pc'[c] = "alloc_pgtbl" /\ nr_pgtbls'[c] = 1
  BY <1>3 DEF Inv, TypeOK
<1>6. Local(c)'
  <2>1. TableFrames(c)' = TableFrames(c) /\ Order(c)' = Order(c)
    BY <1>3 DEF TableFrames, Order
  <2>2. Progress(c)'
    BY <1>1, <1>2, <1>3, <1>5 DEF Inv, Local, Progress, NoneMapped
  <2>3. Accounted(c)' /\ UsesDiffer(c)'
    BY <1>3, <2>1 DEF Inv, Local, Accounted, UsesDiffer
  <2> QED BY <2>2, <2>3 DEF Local
<1>7. BlocksFit' /\ BlocksApart'
  BY <1>3, BlocksKept
<1>8. KernelPtes'
  BY <1>1, <1>3, <1>4, <1>5, PtesKept DEF Using
<1> QED BY <1>4, <1>6, <1>7, <1>8, StepKept

LEMMA AllocPgtblKept ==
    ASSUME Inv, NEW c \in CPUs, AllocPgtbl(c)
    PROVE  Inv'
<1>1. pc[c] = "alloc_pgtbl"
  BY DEF AllocPgtbl
<1>2. /\ region[c] = "stack" /\ NoneMapped(c) /\ page_buf[c] # NoFrame
      /\ mapped[c] = 0 /\ ~ lock_pgd_user[c]
      /\ page_pgtbl[c] = NoFrame /\ prev_nr_pgtbls[c] = 0 /\ nr_pgtbls[c] = 1
  BY <1>1 DEF Inv, Local, Progress
<1>3. NPAGES_TO_ORDER(nr_pgtbls[c]) = 0 /\ 0 \in 0 .. MAX_ALLOC_ORDER
  BY <1>2, UserModeAssumption DEF NPAGES_TO_ORDER
<1>4. PICK p \in Usable : /\ PA!AllocateBlock(c, p, 0)
                          /\ page_pgtbl' = [page_pgtbl EXCEPT ![c] = p]
  BY <1>3 DEF AllocPgtbl
<1>5. /\ allocated' = [allocated EXCEPT ![c] = @ \cup {<<p, 0>>}]
      /\ allocated' \in [CPUs -> SUBSET (Usable \X (0 .. MAX_ALLOC_ORDER))]
      /\ BlocksFit' /\ BlocksApart'
  BY <1>3, <1>4, BlockAllocated
<1>6. OthersSame(c) /\ TypeOK'
  BY <1>2, <1>4, <1>5 DEF AllocPgtbl, CountTables, OthersSame, Same, Inv, TypeOK, PCs, Frames
<1>7. /\ pc'[c] = "read_pgd" /\ page_pgtbl'[c] = p /\ prev_nr_pgtbls'[c] = 1
      /\ allocated'[c] = allocated[c] \cup {<<p, 0>>} /\ p # NoFrame
  BY <1>2, <1>4, <1>5, UserModeAssumption DEF AllocPgtbl, CountTables, Inv, TypeOK
<1>8. Local(c)'
  <2>1. TableFrames(c)' = {p} /\ TableFrames(c) = {} /\ Order(c)' = Order(c)
    BY <1>2, <1>7 DEF AllocPgtbl, TableFrames, Order, NoneMapped
  <2>2. Progress(c)'
    BY <1>1, <1>2, <1>7 DEF AllocPgtbl, Inv, Local, Progress, Before, NoneMapped
  <2>3. Accounted(c)'
    BY <1>7, <2>1 DEF AllocPgtbl, Inv, Local, Accounted
  <2>4. UsesDiffer(c)'
    BY <1>2, <1>7, <2>1 DEF AllocPgtbl, UsesDiffer, NoneMapped, UserPages
  <2> QED BY <2>2, <2>3, <2>4 DEF Local
<1>9. KernelPtes'
  BY <1>1, <1>6, <1>7, PtesKept DEF AllocPgtbl, Using
<1> QED BY <1>5, <1>6, <1>8, <1>9, StepKept

LEMMA AllocPgtblFailsKept ==
    ASSUME Inv, NEW c \in CPUs, AllocPgtblFails(c)
    PROVE  Inv'
<1>1. pc[c] = "alloc_pgtbl"
  BY DEF AllocPgtblFails
<1>2. /\ region[c] = "stack" /\ NoneMapped(c) /\ page_pgtbl[c] = NoFrame
  BY <1>1 DEF Inv, Local, Progress
<1>3. PA!FreeBlock(c, <<page_buf[c], Order(c)>>)
  BY DEF AllocPgtblFails, GiveBackBuf
<1>4. /\ allocated' = [allocated EXCEPT ![c] = @ \ {<<page_buf[c], Order(c)>>}]
      /\ allocated' \in [CPUs -> SUBSET (Usable \X (0 .. MAX_ALLOC_ORDER))]
      /\ BlocksFit' /\ BlocksApart'
  BY <1>3, BlockFreed
<1>5. OthersSame(c) /\ TypeOK'
  BY <1>4 DEF AllocPgtblFails, Return, OthersSame, Same, Inv, TypeOK, PCs, Frames
<1>6. /\ pc'[c] = "user" /\ region'[c] = "text" /\ ~ lock_pgd_user'[c]
      /\ page_buf'[c] = NoFrame /\ page_pgtbl'[c] = NoFrame
      /\ prev_nr_pgtbls'[c] = 0 /\ mapped'[c] = 0
      /\ allocated'[c] = allocated[c] \ {<<page_buf[c], Order(c)>>}
  BY <1>4 DEF AllocPgtblFails, Return, Inv, TypeOK
<1>7. Local(c)'
  <2>1. TableFrames(c)' = {} /\ TableFrames(c) = {}
    BY <1>2, <1>6 DEF AllocPgtblFails, TableFrames, NoneMapped
  <2>2. Progress(c)'
    BY <1>1, <1>2, <1>6 DEF AllocPgtblFails, Inv, Local, Progress, Outside, NoneMapped
  <2>3. allocated'[c] = {}
    BY <1>2, <1>6, <2>1 DEF Inv, Local, Accounted, NoneMapped, UserPages
  <2>4. Accounted(c)' /\ UsesDiffer(c)'
    BY <1>2, <1>6, <2>1, <2>3 DEF AllocPgtblFails, Accounted, UsesDiffer, NoneMapped, UserPages
  <2> QED BY <2>2, <2>4 DEF Local
<1>8. KernelPtes'
  BY <1>1, <1>5, <1>6, PtesKept DEF AllocPgtblFails, Using
<1> QED BY <1>4, <1>5, <1>7, <1>8, StepKept

(* The processor begins to use a frame, and sets its pte.                   *)
LEMMA PteSet ==
    ASSUME Inv, NEW c \in CPUs, OthersSame(c), NEW frame \in Usable,
           kernel_pte' = kernel_pte \cup {frame},
           \A f \in Usable : ~ Using(c, f), \A f \in Usable : Using(c, f)' <=> f = frame
    PROVE  KernelPtes'
<1>1. \A d \in CPUs : d # c => \A f \in Usable : Using(d, f)' <=> Using(d, f)
  BY LocalKept DEF Inv, OthersSame
<1> QED BY <1>1 DEF Inv, KernelPtes

(* It is done with the frame, and clears the pte that no other needs.       *)
LEMMA PteCleared ==
    ASSUME Inv, NEW c \in CPUs, OthersSame(c), NEW frame,
           kernel_pte' = kernel_pte \ {frame},
           \A f \in Usable : Using(c, f) <=> f = frame, \A f \in Usable : ~ Using(c, f)'
    PROVE  KernelPtes'
<1>1. \A d \in CPUs : d # c => \A f \in Usable : Using(d, f)' <=> Using(d, f)
  BY LocalKept DEF Inv, OthersSame
<1>2. \A d \in CPUs : frame \in Usable /\ Using(d, frame) => d = c
  BY UsingApart
<1> QED BY <1>1, <1>2 DEF Inv, KernelPtes

LEMMA MapKept ==
    ASSUME Inv, NEW c \in CPUs, Map(c)
    PROVE  Inv'
<1>1. pc[c] = "map" /\ pc'[c] = "build"
  BY DEF Map, Inv, TypeOK
<1>2. /\ PageTable(c) \in TableFrames(c) /\ PageTable(c)' = PageTable(c)
      /\ TableFrames(c)' = TableFrames(c) /\ Order(c)' = Order(c)
  BY <1>1 DEF Map, Inv, Local, Progress, Before, NoneMapped, StackMapped, HalfMapped,
     PageTable, TableFrames, Order
<1>3. PageTable(c) \in Usable
  BY <1>2, FramesHeld
<1>4. OthersSame(c) /\ TypeOK'
  BY <1>3 DEF Map, MapKernel, OthersSame, Same, Inv, TypeOK, PCs
<1>5. Local(c)'
  <2>1. Progress(c)'
    BY <1>1 DEF Map, Inv, Local, Progress, Before, NoneMapped, StackMapped, HalfMapped
  <2>2. Accounted(c)' /\ UsesDiffer(c)'
    BY <1>2 DEF Map, Inv, Local, Accounted, UsesDiffer
  <2> QED BY <2>1, <2>2 DEF Local
<1>6. BlocksFit' /\ BlocksApart'
  BY BlocksKept DEF Map
<1>7. KernelPtes'
  BY <1>1, <1>2, <1>3, <1>4, PteSet DEF Map, MapKernel, Using
<1> QED BY <1>4, <1>5, <1>6, <1>7, StepKept

(* The frame for the next page of the region, which is in the block.        *)
LEMMA NextFrameFits ==
    ASSUME Inv, NEW c \in CPUs, pc[c] = "build"
    PROVE  /\ NextFrame(c) \in Usable
           /\ mapped[c] = 0 => NextFrame(c) = page_buf[c]
           /\ mapped[c] = 1 => NextFrame(c) = FrameOf(page_buf[c], 1)
<1>1. /\ page_buf[c] # NoFrame
      /\ \/ mapped[c] = 0
         \/ mapped[c] = 1 /\ region[c] = "stack"
  BY DEF Inv, Local, Progress, HalfMapped
<1>2. <<page_buf[c], Order(c)>> \in allocated[c] /\ page_buf[c] \in Usable
  BY <1>1, FramesHeld
<1>3. CASE mapped[c] = 0
  BY <1>2, <1>3, SmallBlocks DEF NextFrame
<1>4. CASE mapped[c] = 1
  <2>1. Order(c) = 1
    BY <1>1, <1>4 DEF Order, NumPages, NPAGES_TO_ORDER
  <2>2. Block(page_buf[c], 1) \subseteq Usable
    BY <1>2, <2>1 DEF Inv, BlocksFit
  <2> QED BY <1>4, <2>2, SmallBlocks DEF NextFrame
<1> QED BY <1>1, <1>3, <1>4

LEMMA BuildKept ==
    ASSUME Inv, NEW c \in CPUs, Build(c)
    PROVE  Inv'
<1>1. pc[c] = "build"
  BY DEF Build
<1>2. Using(c, PageTable(c)) /\ PageTable(c) \in Usable /\ PageTable(c) \in kernel_pte
  <2>1. Using(c, PageTable(c))
    BY <1>1 DEF Using
  <2> QED BY <2>1, UsingHeld DEF Inv, KernelPtes
<1>3. /\ tlb' = [tlb EXCEPT ![c] = @ \cup {PageTable(c)}]
      /\ pc' = [pc EXCEPT ![c] = "unmap"]
  BY <1>2 DEF Build, Access
<1>4. pc'[c] = "unmap"
  BY <1>3 DEF Inv, TypeOK
<1>5. pgd' = [pgd EXCEPT ![c] = PageTable(c)] /\ pgd'[c] = PageTable(c)
  BY DEF Build, NewPgd, Inv, TypeOK
<1>6. PageTable(c) # NoFrame
  BY <1>2, UserModeAssumption
<1>7. /\ page_buf[c] # NoFrame
      /\ \/ mapped[c] = 0 /\ region[c] = "stack" /\ NoneMapped(c) /\ page_pgtbl[c] # NoFrame
         \/ mapped[c] = 1 /\ HalfMapped(c)
         \/ /\ mapped[c] = 0 /\ region[c] = "text" /\ page_pgtbl[c] = NoFrame
            /\ StackMapped(c) /\ "text" \notin written[c]
  <2>1. region[c] \in {"stack", "text"}
    BY DEF Inv, TypeOK
  <2> QED BY <1>1, <2>1 DEF Inv, Local, Progress, Before
<1>8. /\ PageTable(c) \in TableFrames(c)
      /\ TableFrames(c)' = TableFrames(c) /\ PageTable(c)' = PageTable(c)
      /\ Order(c)' = Order(c)
  BY <1>5, <1>6, <1>7 DEF Build, NoneMapped, HalfMapped, StackMapped, PageTable,
     TableFrames, Order
<1> DEFINE page == Pages(region[c])[mapped[c] + 1]
<1>9. /\ page \in UserPages
      /\ mapped[c] = 0 /\ region[c] = "stack" => page = "stack0"
      /\ mapped[c] = 1 => page = "stack1"
      /\ region[c] = "text" => page = "text"
  BY <1>7 DEF Pages, UserPages, HalfMapped
<1>10. PICK held \in Held(c) :
         /\ user_pte' = [user_pte EXCEPT ![c] =
              [u \in UserPages |-> IF u \in {page} THEN NextFrame(c) ELSE held[u]]]
         /\ written' = [written EXCEPT ![c] = @ \cup {page}]
  BY <1>4 DEF Build
<1> HIDE DEF page
<1>11. /\ user_pte' \in [CPUs -> [UserPages -> Frames \cup Contents]]
       /\ written' \in [CPUs -> SUBSET UserPages]
       /\ user_pte'[c][page] = NextFrame(c) /\ written'[c] = written[c] \cup {page}
       /\ pgd[c] # NoFrame =>
            \A u \in UserPages : u # page => user_pte'[c][u] = user_pte[c][u]
       /\ \A d \in CPUs : d # c => user_pte'[d] = user_pte[d] /\ written'[d] = written[d]
  <2>1. /\ user_pte \in [CPUs -> [UserPages -> Frames \cup Contents]]
        /\ written \in [CPUs -> SUBSET UserPages] /\ NextFrame(c) \in Frames
    BY <1>1, NextFrameFits DEF Inv, TypeOK, Frames
  <2>2. /\ held \in [UserPages -> Frames \cup Contents]
        /\ pgd[c] # NoFrame => held = user_pte[c]
    BY <1>10, <2>1 DEF Held
  <2>3. [u \in UserPages |-> IF u \in {page} THEN NextFrame(c) ELSE held[u]]
          \in [UserPages -> Frames \cup Contents]
    BY <2>1, <2>2
  <2> QED BY <1>9, <1>10, <2>1, <2>2, <2>3
<1>12. OthersSame(c)
  BY <1>3, <1>5, <1>11 DEF Build, OthersSame, Same, Inv, TypeOK
<1>13. TypeOK'
  BY <1>2, <1>3, <1>5, <1>11 DEF Build, Inv, TypeOK, PCs, Frames
<1>14. Local(c)'
  <2>1. CASE mapped[c] = 0 /\ region[c] = "stack" /\ NoneMapped(c) /\ page_pgtbl[c] # NoFrame
    <3>1. /\ written'[c] = {"stack0"} /\ user_pte'[c]["stack0"] = page_buf[c]
          /\ pgd'[c] = page_pgtbl[c]
      BY <1>1, <1>5, <1>9, <1>11, <2>1, NextFrameFits DEF NoneMapped, PageTable
    <3>2. Progress(c)'
      BY <1>1, <1>4, <1>7, <2>1, <3>1 DEF Build, Inv, Local, Progress, HalfMapped
    <3>3. written[c] = {} /\ Order(c) = 1
      BY <2>1 DEF NoneMapped, Order, NumPages, NPAGES_TO_ORDER
    <3>4. Accounted(c)'
      BY <1>7, <1>8, <3>1, <3>3 DEF Build, Inv, Local, Accounted
    <3>5. UsesDiffer(c)'
      BY <1>8, <2>1, <3>1 DEF Build, UsesDiffer, TableFrames
    <3> QED BY <3>2, <3>4, <3>5 DEF Local
  <2>2. CASE mapped[c] = 1 /\ HalfMapped(c)
    <3>1. /\ written'[c] = {"stack0", "stack1"} /\ pgd'[c] = page_pgtbl[c]
          /\ user_pte'[c]["stack0"] = page_buf[c]
          /\ user_pte'[c]["stack1"] = FrameOf(page_buf[c], 1)
          /\ written[c] = {"stack0"} /\ user_pte[c]["stack0"] = page_buf[c]
      BY <1>1, <1>5, <1>9, <1>11, <2>2, NextFrameFits DEF HalfMapped, UserPages, PageTable
    <3>2. Progress(c)'
      BY <1>1, <1>4, <1>6, <1>7, <2>2, <3>1
      DEF Build, Inv, Local, Progress, HalfMapped, StackMapped
    <3>3. Accounted(c)'
      <4>1. /\ Accounted(c) /\ allocated' = allocated /\ page_buf' = page_buf
        BY DEF Build, Inv, Local
      <4>2. /\ written[c] \cap {"stack0"} = {"stack0"} /\ written[c] \cap {"text"} = {}
            /\ written'[c] \cap {"stack0"} = {"stack0"} /\ written'[c] \cap {"text"} = {}
        BY <3>1
      <4> QED BY <1>8, <3>1, <4>1, <4>2 DEF Accounted
    <3>4. UsesDiffer(c)'
      BY <1>8, <2>2, <3>1 DEF Build, UsesDiffer, TableFrames, HalfMapped
    <3> QED BY <3>2, <3>3, <3>4 DEF Local
  <2>3. CASE /\ mapped[c] = 0 /\ region[c] = "text" /\ page_pgtbl[c] = NoFrame
             /\ StackMapped(c) /\ "text" \notin written[c]
    <3>1. /\ user_pte'[c]["stack0"] = user_pte[c]["stack0"]
          /\ user_pte'[c]["stack1"] = user_pte[c]["stack1"]
          /\ user_pte'[c]["text"] = page_buf[c] /\ pgd'[c] = pgd[c]
          /\ written'[c] = written[c] \cup {"text"}
      BY <1>1, <1>5, <1>9, <1>11, <2>3, NextFrameFits DEF StackMapped, UserPages, PageTable
    <3>2. Progress(c)'
      BY <1>1, <1>4, <1>6, <1>7, <2>3, <3>1
      DEF Build, Inv, Local, Progress, StackMapped, TextMapped
    <3>3. Order(c) = 0
      BY <2>3 DEF Order, NumPages, NPAGES_TO_ORDER
    <3>4. Accounted(c)'
      <4>1. /\ Accounted(c) /\ allocated' = allocated /\ page_buf' = page_buf
            /\ page_buf[c] # NoFrame
        BY <1>7 DEF Build, Inv, Local
      <4>2. /\ written[c] \cap {"stack0"} = {"stack0"} /\ written[c] \cap {"text"} = {}
            /\ written'[c] \cap {"stack0"} = {"stack0"}
            /\ written'[c] \cap {"text"} = {"text"}
        BY <2>3, <3>1 DEF StackMapped
      <4> QED BY <1>8, <3>1, <3>3, <4>1, <4>2 DEF Accounted
    <3>5. UsesDiffer(c)'
      BY <1>8, <2>3, <3>1 DEF Build, Inv, Local, UsesDiffer
    <3> QED BY <3>2, <3>4, <3>5 DEF Local
  <2> QED BY <1>7, <2>1, <2>2, <2>3
<1>15. BlocksFit' /\ BlocksApart'
  BY BlocksKept DEF Build
<1>16. KernelPtes'
  <2>1. kernel_pte' = kernel_pte
    BY DEF Build
  <2>2. \A f \in Usable : Using(c, f)' <=> Using(c, f)
    BY <1>1, <1>4, <1>8 DEF Using
  <2> QED BY <1>12, <2>1, <2>2, PtesKept
<1> QED BY <1>12, <1>13, <1>14, <1>15, <1>16, StepKept

LEMMA UnmapKept ==
    ASSUME Inv, NEW c \in CPUs, Unmap(c)
    PROVE  Inv'
<1>1. pc[c] = "unmap"
  BY DEF Unmap
<1>2. Using(c, PageTable(c)) /\ PageTable(c) \in Usable
  <2>1. Using(c, PageTable(c))
    BY <1>1 DEF Using
  <2> QED BY <2>1, UsingHeld
<1>3. kernel_pte' = kernel_pte \ {PageTable(c)}
  BY DEF Unmap, UnmapKernel
<1>4. /\ page_buf[c] # NoFrame /\ pgd[c] # NoFrame
      /\ \/ mapped[c] = 0 /\ HalfMapped(c)
         \/ /\ mapped[c] = 1 /\ region[c] = "stack" /\ page_pgtbl[c] = pgd[c]
            /\ user_pte[c]["stack0"] = page_buf[c]
            /\ StackMapped(c) /\ "text" \notin written[c]
         \/ /\ mapped[c] = 0 /\ region[c] = "text" /\ page_pgtbl[c] = NoFrame
            /\ user_pte[c]["text"] = page_buf[c] /\ TextMapped(c)
  BY <1>1 DEF Inv, Local, Progress
<1>5. BlocksFit' /\ BlocksApart'
  BY BlocksKept DEF Unmap
<1>6. CASE mapped[c] = 0 /\ HalfMapped(c)
  <2>1. /\ pc' = [pc EXCEPT ![c] = "map"] /\ mapped' = [mapped EXCEPT ![c] = 1]
        /\ UNCHANGED <<lock_pgd_user, region, page_buf, page_pgtbl, nr_pgtbls, prev_nr_pgtbls>>
    <3>1. mapped[c] + 1 < NumPages(region[c]) /\ mapped[c] + 1 = 1
      BY <1>6 DEF HalfMapped, NumPages
    <3> QED BY <3>1 DEF Unmap
  <2>2. OthersSame(c) /\ TypeOK'
    BY <1>3, <2>1 DEF Unmap, OthersSame, Same, Inv, TypeOK, PCs
  <2>3. pc'[c] = "map" /\ mapped'[c] = 1
    BY <2>1 DEF Inv, TypeOK
  <2>4. Local(c)'
    <3>1. TableFrames(c)' = TableFrames(c) /\ Order(c)' = Order(c)
      BY <2>1 DEF Unmap, TableFrames, Order
    <3>2. Progress(c)'
      BY <1>1, <1>4, <1>6, <2>1, <2>3 DEF Unmap, Inv, Local, Progress, HalfMapped
    <3>3. Accounted(c)' /\ UsesDiffer(c)'
      BY <2>1, <3>1 DEF Unmap, Inv, Local, Accounted, UsesDiffer
    <3> QED BY <3>2, <3>3 DEF Local
  <2>5. KernelPtes'
    BY <1>1, <1>2, <1>3, <2>2, <2>3, PteCleared DEF Using
  <2> QED BY <1>5, <2>2, <2>4, <2>5, StepKept
<1>7. CASE /\ ~ (mapped[c] = 0 /\ HalfMapped(c)) /\ StackMapped(c)
           /\ "stack0" \in written[c]
  <2>1. /\ ~ mapped[c] + 1 < NumPages(region[c])
        /\ lock_pgd_user' = [lock_pgd_user EXCEPT ![c] = FALSE] /\ Return(c, FALSE)
    <3>1. ~ mapped[c] + 1 < NumPages(region[c])
      BY <1>4, <1>7 DEF NumPages
    <3> QED BY <3>1 DEF Unmap
  <2>2. OthersSame(c) /\ TypeOK'
    BY <1>3, <2>1 DEF Unmap, Return, OthersSame, Same, Inv, TypeOK, PCs, LoadPCs, Frames
  <2>3. /\ pc'[c] = IF region[c] = "stack" THEN "alloc_buf" ELSE "text_pte"
        /\ region'[c] = "text" /\ ~ lock_pgd_user'[c]
        /\ page_buf'[c] = NoFrame /\ page_pgtbl'[c] = NoFrame
        /\ prev_nr_pgtbls'[c] = 0 /\ mapped'[c] = 0
    BY <2>1 DEF Return, Inv, TypeOK
  <2>4. Local(c)'
    <3>1. TableFrames(c)' = TableFrames(c) /\ NoFrame \notin TableFrames(c)
      BY <1>4, <1>7, <2>3 DEF Unmap, TableFrames
    <3>2. Progress(c)'
      BY <1>1, <1>4, <1>7, <2>3
      DEF Unmap, Inv, Local, Progress, Before, Outside, StackMapped, TextMapped
    <3>3. Accounted(c)'
      <4>1. CASE region[c] = "stack"
        <5>1. /\ Order(c) = 1 /\ user_pte[c]["stack0"] = page_buf[c]
              /\ "text" \notin written[c]
          BY <1>4, <1>7, <4>1 DEF Order, NumPages, NPAGES_TO_ORDER
        <5>2. /\ written[c] \cap {"stack0"} = {"stack0"} /\ written[c] \cap {"text"} = {}
              /\ page_buf[c] # NoFrame
          BY <1>4, <1>7, <5>1
        <5> QED BY <2>3, <3>1, <5>1, <5>2 DEF Unmap, Inv, Local, Accounted
      <4>2. CASE region[c] = "text"
        <5>1. /\ Order(c) = 0 /\ user_pte[c]["text"] = page_buf[c]
          BY <1>4, <1>7, <4>2 DEF Order, NumPages, NPAGES_TO_ORDER
        <5>2. /\ written[c] \cap {"text"} = {"text"} /\ page_buf[c] # NoFrame
          BY <1>4, <1>7, <4>2 DEF TextMapped
        <5> QED BY <2>3, <3>1, <5>1, <5>2 DEF Unmap, Inv, Local, Accounted
      <4> QED BY <4>1, <4>2 DEF Inv, TypeOK
    <3>4. UsesDiffer(c)'
      BY <2>3, <3>1 DEF Unmap, Inv, Local, UsesDiffer
    <3> QED BY <3>2, <3>3, <3>4 DEF Local
  <2>5. KernelPtes'
    <3>1. \A f \in Usable : ~ Using(c, f)'
      BY <2>3 DEF Using
    <3> QED BY <1>1, <1>2, <1>3, <2>2, <3>1, PteCleared DEF Using
  <2> QED BY <1>5, <2>2, <2>4, <2>5, StepKept
<1>8. (StackMapped(c) => "stack0" \in written[c]) /\ (TextMapped(c) => StackMapped(c))
  BY DEF StackMapped, TextMapped
<1> QED BY <1>4, <1>6, <1>7, <1>8

(* The page table's temporary mapping is gone: the program's pte is read    *)
(* through the TLB, or not at all.                                          *)
LEMMA TextPteKept ==
    ASSUME Inv, NEW c \in CPUs, TextPte(c)
    PROVE  Inv'
<1>1. pc[c] = "text_pte" /\ pc'[c] \in {"text_map", "halted"}
  BY DEF TextPte, Access, Inv, TypeOK
<1>2. pgd[c] \in tlb[c] \cup kernel_pte => pgd[c] \in Usable
  BY DEF Inv, TypeOK
<1>3. TypeOK'
  <2>1. CASE pgd[c] \in tlb[c] \cup kernel_pte
    <3>1. /\ tlb' = [tlb EXCEPT ![c] = @ \cup {pgd[c]}]
          /\ pc' = [pc EXCEPT ![c] = "text_map"]
      BY <2>1 DEF TextPte, Access
    <3> QED BY <1>2, <2>1, <3>1 DEF TextPte, Inv, TypeOK, PCs
  <2>2. CASE pgd[c] \notin tlb[c] \cup kernel_pte
    <3>1. pc' = [pc EXCEPT ![c] = "halted"] /\ tlb' = tlb
      BY <2>2 DEF TextPte, Access
    <3> QED BY <3>1 DEF TextPte, Inv, TypeOK, PCs
  <2> QED BY <2>1, <2>2
<1>4. OthersSame(c)
  BY DEF TextPte, Access, OthersSame, Same, Inv, TypeOK
<1>5. Local(c)'
  <2>1. TableFrames(c)' = TableFrames(c) /\ Order(c)' = Order(c)
    BY DEF TextPte, TableFrames, Order
  <2>2. Progress(c)'
    BY <1>1 DEF TextPte, Inv, Local, Progress, Outside, TextMapped, StackMapped
  <2>3. Accounted(c)' /\ UsesDiffer(c)'
    BY <2>1 DEF TextPte, Inv, Local, Accounted, UsesDiffer
  <2> QED BY <2>2, <2>3 DEF Local
<1>6. BlocksFit' /\ BlocksApart'
  BY BlocksKept DEF TextPte
<1>7. KernelPtes'
  BY <1>1, <1>4, PtesKept DEF TextPte, Using
<1> QED BY <1>3, <1>4, <1>5, <1>6, <1>7, StepKept

LEMMA TextMapKept ==
    ASSUME Inv, NEW c \in CPUs, TextMap(c)
    PROVE  Inv'
<1>1. pc[c] = "text_map" /\ pc'[c] = "text_copy"
  BY DEF TextMap, Inv, TypeOK
<1>2. user_pte[c]["text"] \in Usable
  BY <1>1, FramesHeld DEF Inv, Local, Progress, TextMapped
<1>3. OthersSame(c) /\ TypeOK'
  BY <1>2 DEF TextMap, MapKernel, OthersSame, Same, Inv, TypeOK, PCs
<1>4. Local(c)'
  <2>1. TableFrames(c)' = TableFrames(c) /\ Order(c)' = Order(c)
    BY DEF TextMap, TableFrames, Order
  <2>2. Progress(c)'
    BY <1>1 DEF TextMap, Inv, Local, Progress, Outside, TextMapped, StackMapped
  <2>3. Accounted(c)' /\ UsesDiffer(c)'
    BY <2>1 DEF TextMap, Inv, Local, Accounted, UsesDiffer
  <2> QED BY <2>2, <2>3 DEF Local
<1>5. BlocksFit' /\ BlocksApart'
  BY BlocksKept DEF TextMap
<1>6. KernelPtes'
  BY <1>1, <1>2, <1>3, PteSet DEF TextMap, MapKernel, Using
<1> QED BY <1>3, <1>4, <1>5, <1>6, StepKept

(* The copy finds the pte that TextMap has set.                             *)
LEMMA TextCopyKept ==
    ASSUME Inv, NEW c \in CPUs, TextCopy(c)
    PROVE  Inv'
<1>1. pc[c] = "text_copy"
  BY DEF TextCopy
<1>2. user_pte[c]["text"] \in Usable /\ user_pte[c]["text"] \in kernel_pte
  <2>1. Using(c, user_pte[c]["text"])
    BY <1>1 DEF Using
  <2> QED BY <2>1, UsingHeld DEF Inv, KernelPtes
<1>3. /\ tlb' = [tlb EXCEPT ![c] = @ \cup {user_pte[c]["text"]}]
      /\ pc' = [pc EXCEPT ![c] = "text_unmap"]
  BY <1>2 DEF TextCopy, Access
<1>4. pc'[c] = "text_unmap"
  BY <1>3 DEF Inv, TypeOK
<1>5. OthersSame(c)
  BY <1>3 DEF TextCopy, OthersSame, Same, Inv, TypeOK
<1>6. TypeOK'
  BY <1>2, <1>3 DEF TextCopy, Inv, TypeOK, PCs
<1>7. Local(c)'
  <2>1. TableFrames(c)' = TableFrames(c) /\ Order(c)' = Order(c)
    BY DEF TextCopy, TableFrames, Order
  <2>2. Progress(c)'
    BY <1>1, <1>4 DEF TextCopy, Inv, Local, Progress, Outside, TextMapped, StackMapped
  <2>3. Accounted(c)' /\ UsesDiffer(c)'
    BY <2>1 DEF TextCopy, Inv, Local, Accounted, UsesDiffer
  <2> QED BY <2>2, <2>3 DEF Local
<1>8. BlocksFit' /\ BlocksApart'
  BY BlocksKept DEF TextCopy
<1>9. KernelPtes'
  BY <1>1, <1>4, <1>5, PtesKept DEF TextCopy, Using
<1> QED BY <1>5, <1>6, <1>7, <1>8, <1>9, StepKept

LEMMA TextUnmapKept ==
    ASSUME Inv, NEW c \in CPUs, TextUnmap(c)
    PROVE  Inv'
<1>1. pc[c] = "text_unmap" /\ pc'[c] = "user"
  BY DEF TextUnmap, Inv, TypeOK
<1>2. OthersSame(c) /\ TypeOK'
  BY DEF TextUnmap, UnmapKernel, OthersSame, Same, Inv, TypeOK, PCs
<1>3. Local(c)'
  <2>1. TableFrames(c)' = TableFrames(c) /\ Order(c)' = Order(c)
    BY DEF TextUnmap, TableFrames, Order
  <2>2. Progress(c)'
    BY <1>1 DEF TextUnmap, Inv, Local, Progress, Outside, TextMapped, StackMapped
  <2>3. Accounted(c)' /\ UsesDiffer(c)'
    BY <2>1 DEF TextUnmap, Inv, Local, Accounted, UsesDiffer
  <2> QED BY <2>2, <2>3 DEF Local
<1>4. BlocksFit' /\ BlocksApart'
  BY BlocksKept DEF TextUnmap
<1>5. KernelPtes'
  BY <1>1, <1>2, PteCleared DEF TextUnmap, UnmapKernel, Using
<1> QED BY <1>2, <1>3, <1>4, <1>5, StepKept

LEMMA EvictKept ==
    ASSUME Inv, NEW c \in CPUs, Evict(c)
    PROVE  Inv'
<1>1. \A d \in CPUs : Same(d)
  BY DEF Evict, Same
<1>2. TypeOK'
  <2>1. PICK frame \in tlb[c] : tlb' = [tlb EXCEPT ![c] = @ \ {frame}]
    BY DEF Evict
  <2>2. tlb' \in [CPUs -> SUBSET Usable]
    BY <2>1 DEF Inv, TypeOK
  <2> QED BY <2>2 DEF Evict, Inv, TypeOK
<1>3. Local(c)' /\ \A f \in Usable : Using(c, f)' <=> Using(c, f)
  BY <1>1, LocalKept DEF Inv
<1>4. BlocksFit' /\ BlocksApart'
  BY BlocksKept DEF Evict
<1>5. KernelPtes'
  BY <1>1, <1>3, PtesKept DEF Evict, OthersSame
<1> QED BY <1>1, <1>2, <1>3, <1>4, <1>5, StepKept DEF OthersSame

-----------------------------------------------------------------------------
(* The theorems                                                             *)

LEMMA InitHolds ==
    ASSUME Init
    PROVE  Inv
<1>1. /\ \A c \in CPUs : allocated[c] = {} /\ pc[c] = "start" /\ region[c] = "stack"
      /\ \A c \in CPUs : NoneMapped(c) /\ Outside(c) /\ TableFrames(c) = {}
      /\ allocated = [c \in CPUs |-> {}]
  BY DEF Init, PA!Init, NoneMapped, Outside, TableFrames
<1>2. TypeOK
  BY <1>1 DEF Init, TypeOK, PCs, Frames
<1>3. BlocksFit /\ BlocksApart
  BY <1>1 DEF BlocksFit, BlocksApart
<1>4. KernelPtes
  BY <1>1 DEF Init, KernelPtes, Using
<1>5. ASSUME NEW c \in CPUs
      PROVE  Local(c)
  <2>1. Progress(c)
    BY <1>1 DEF Init, Progress
  <2>2. Accounted(c) /\ UsesDiffer(c)
    BY <1>1 DEF Accounted, UsesDiffer, NoneMapped, Outside, UserPages
  <2> QED BY <2>1, <2>2 DEF Local
<1> QED BY <1>2, <1>3, <1>4, <1>5 DEF Inv

LEMMA NextKeeps ==
    ASSUME Inv, [Next]_vars
    PROVE  Inv'
<1>1. CASE UNCHANGED vars
  <2>1. \A d \in CPUs : Local(d)' /\ (\A f : Using(d, f)' <=> Using(d, f))
    BY <1>1, LocalKept DEF Inv, vars, Same
  <2>2. BlocksFit' /\ BlocksApart' /\ KernelPtes'
    BY <1>1, <2>1 DEF Inv, vars, BlocksFit, BlocksApart, KernelPtes
  <2> QED BY <1>1, <2>1, <2>2 DEF Inv, vars, TypeOK
<1>2. CASE Next
  <2>1. PICK c \in CPUs : Step(c) \/ Evict(c)
    BY <1>2 DEF Next
  <2> QED BY <2>1, StartKept, AllocBufKept, AllocBufFailsKept, ReadPgdSameKept,
             ReadPgdDiffersKept, AllocPgtblKept, AllocPgtblFailsKept, MapKept, BuildKept,
             UnmapKept, TextPteKept, TextMapKept, TextCopyKept, TextUnmapKept, EvictKept
          DEF Step
<1> QED BY <1>1, <1>2

(* The second page of a stack is mapped after the first.                    *)
LEMMA StackInOrder ==
    ASSUME Inv, NEW c \in CPUs, "stack1" \in written[c]
    PROVE  StackMapped(c)
<1>1. pc[c] \in PCs /\ region[c] \in {"stack", "text"} /\ Progress(c)
  BY DEF Inv, TypeOK, Local
<1> QED BY <1>1 DEF PCs, Progress, Before, NoneMapped, HalfMapped, StackMapped,
            TextMapped, UserPages

(* Where a mapped page's frame is: in a block of its processor, the stack's *)
(* two in one block, the text in another.                                   *)
LEMMA WhereMapped ==
    ASSUME Inv, NEW c \in CPUs, NEW u \in written[c]
    PROVE  LET f == user_pte[c][u] s == user_pte[c]["stack0"] IN
           \/ u = "text" /\ <<f, 0>> \in allocated[c] /\ f \in Block(f, 0)
           \/ /\ u \in {"stack0", "stack1"} /\ <<s, 1>> \in allocated[c]
              /\ f \in Block(s, 1) /\ Aligned(s, 1)
              /\ f = IF u = "stack0" THEN s ELSE FrameOf(s, 1)
<1>1. u \in UserPages /\ u \in written[c]
  BY DEF Inv, TypeOK
<1>2. CASE u = "text"
  BY <1>1, <1>2, FramesHeld, SmallBlocks
<1>3. CASE u = "stack0"
  <2>1. <<user_pte[c][u], 1>> \in allocated[c]
    BY <1>1, <1>3, FramesHeld
  <2>2. Aligned(user_pte[c][u], 1)
    BY <2>1 DEF Inv, BlocksFit
  <2> QED BY <1>3, <2>1, <2>2, SmallBlocks
<1>4. CASE u = "stack1"
  <2>1. StackMapped(c)
    BY <1>1, <1>4, StackInOrder
  <2>2. <<user_pte[c]["stack0"], 1>> \in allocated[c]
    BY <2>1, FramesHeld DEF StackMapped
  <2>3. Aligned(user_pte[c]["stack0"], 1)
    BY <2>2 DEF Inv, BlocksFit
  <2>4. user_pte[c][u] = FrameOf(user_pte[c]["stack0"], 1)
    BY <1>4, <2>1 DEF StackMapped
  <2> QED BY <1>4, <2>2, <2>3, <2>4, SmallBlocks
<1> QED BY <1>1, <1>2, <1>3, <1>4 DEF UserPages

(* Frames of different blocks, or of different processors, differ.          *)
LEMMA BlocksDiffer ==
    ASSUME Inv, NEW c \in CPUs, NEW d \in CPUs, NEW b \in allocated[c], NEW e \in allocated[d],
           NEW f \in Block(b[1], b[2]), NEW g \in Block(e[1], e[2]), c # d \/ b # e
    PROVE  f # g
  BY DEF Inv, BlocksApart

LEMMA MappedApart ==
    ASSUME Inv, NEW c \in CPUs, NEW d \in CPUs,
           NEW u \in written[c], NEW v \in written[d], c # d \/ u # v
    PROVE  user_pte[c][u] # user_pte[d][v]
<1> DEFINE s == user_pte[c]["stack0"]
           t == user_pte[d]["stack0"]
<1>1. CASE u = "text" /\ v = "text"
  <2>1. <<user_pte[c][u], 0>> \in allocated[c] /\ <<user_pte[d][v], 0>> \in allocated[d]
    BY <1>1, WhereMapped
  <2>2. user_pte[c][u] \in Block(user_pte[c][u], 0) /\ user_pte[d][v] \in Block(user_pte[d][v], 0)
    BY SmallBlocks
  <2> QED BY <1>1, <2>1, <2>2, BlocksDiffer
<1>2. CASE u = "text" /\ v # "text"
  <2>1. /\ <<user_pte[c][u], 0>> \in allocated[c] /\ user_pte[c][u] \in Block(user_pte[c][u], 0)
        /\ <<t, 1>> \in allocated[d] /\ user_pte[d][v] \in Block(t, 1)
    BY <1>2, WhereMapped
  <2>2. <<user_pte[c][u], 0>> # <<t, 1>>
    OBVIOUS
  <2> QED BY <2>1, <2>2, BlocksDiffer
<1>3. CASE u # "text" /\ v = "text"
  <2>1. /\ <<s, 1>> \in allocated[c] /\ user_pte[c][u] \in Block(s, 1)
        /\ <<user_pte[d][v], 0>> \in allocated[d] /\ user_pte[d][v] \in Block(user_pte[d][v], 0)
    BY <1>3, WhereMapped
  <2>2. <<user_pte[d][v], 0>> # <<s, 1>>
    OBVIOUS
  <2> QED BY <2>1, <2>2, BlocksDiffer
<1>4. CASE u # "text" /\ v # "text" /\ c # d
  <2>1. /\ <<s, 1>> \in allocated[c] /\ user_pte[c][u] \in Block(s, 1)
        /\ <<t, 1>> \in allocated[d] /\ user_pte[d][v] \in Block(t, 1)
    BY <1>4, WhereMapped
  <2> QED BY <1>4, <2>1, BlocksDiffer
<1>5. CASE u # "text" /\ v # "text" /\ c = d
  <2>1. /\ u \in {"stack0", "stack1"} /\ v \in {"stack0", "stack1"} /\ Aligned(s, 1)
        /\ user_pte[c][u] = IF u = "stack0" THEN s ELSE FrameOf(s, 1)
        /\ user_pte[d][v] = IF v = "stack0" THEN s ELSE FrameOf(s, 1)
    BY <1>5, WhereMapped
  <2>2. FrameOf(s, 1) # s
    BY <2>1, SmallBlocks
  <2> QED BY <1>5, <2>1, <2>2
<1> QED BY <1>1, <1>2, <1>3, <1>4, <1>5

LEMMA TableApart ==
    ASSUME Inv, NEW c \in CPUs, NEW d \in CPUs, NEW t \in TableFrames(d)
    PROVE  /\ \A u \in written[c] : user_pte[c][u] # t
           /\ c # d => t \notin TableFrames(c)
<1>1. <<t, 0>> \in allocated[d] /\ t \in Block(t, 0)
  BY FramesHeld, SmallBlocks
<1>2. ASSUME NEW u \in written[c]
      PROVE  user_pte[c][u] # t
  <2>1. CASE u = "text" /\ c = d
    BY <2>1 DEF Inv, Local, UsesDiffer
  <2>2. CASE u = "text" /\ c # d
    <3>1. <<user_pte[c][u], 0>> \in allocated[c] /\ user_pte[c][u] \in Block(user_pte[c][u], 0)
      BY <2>2, WhereMapped
    <3> QED BY <1>1, <2>2, <3>1, BlocksDiffer
  <2>3. CASE u # "text"
    <3>1. /\ <<user_pte[c]["stack0"], 1>> \in allocated[c]
          /\ user_pte[c][u] \in Block(user_pte[c]["stack0"], 1)
      BY <2>3, WhereMapped
    <3>2. <<t, 0>> # <<user_pte[c]["stack0"], 1>>
      OBVIOUS
    <3> QED BY <1>1, <3>1, <3>2, BlocksDiffer
  <2> QED BY <2>1, <2>2, <2>3
<1>3. ASSUME c # d, t \in TableFrames(c)
      PROVE  FALSE
  <2>1. <<t, 0>> \in allocated[c]
    BY <1>3, FramesHeld
  <2> QED BY <1>1, <1>3, <2>1, BlocksDiffer
<1> QED BY <1>2, <1>3

(* The program is loaded, and has been, only when all entries are written.  *)
LEMMA ProgramPlaced ==
    ASSUME Inv, NEW c \in CPUs, pc[c] \in LoadPCs \/ loaded[c]
    PROVE  written[c] = UserPages
<1>1. TextMapped(c) /\ written[c] \subseteq UserPages
  BY DEF Inv, TypeOK, Local, Progress
<1> QED BY <1>1 DEF TextMapped, StackMapped, UserPages

(* The invariant holds in every state, for any number of processors that    *)
(* start user mode at the same time, any memory and any failures of the     *)
(* allocator.                                                               *)
THEOREM UserInvariance == Spec => []Inv
<1>1. Init => Inv
  BY InitHolds
<1>2. Inv /\ [Next]_vars => Inv'
  BY NextKeeps
<1> QED BY <1>1, <1>2, PTL DEF Spec

(* Every variable keeps its type.                                           *)
THEOREM UserTypes == Spec => []TypeOK
<1>1. Inv => TypeOK
  BY DEF Inv
<1> QED BY <1>1, UserInvariance, PTL

(* No frame is mapped twice, by one processor or by two, and none that is   *)
(* mapped serves as a page table: alloc_user_page keeps address spaces      *)
(* apart whatever the order in which processors call it.                    *)
THEOREM UsersIsolated == Spec => []UserIsolation
<1>1. ASSUME Inv PROVE UserIsolation
  <2>1. ASSUME NEW c \in CPUs, NEW d \in CPUs
        PROVE  /\ \A u \in written[c], v \in written[d] :
                    (c # d \/ u # v) => user_pte[c][u] # user_pte[d][v]
               /\ \A u \in written[c] : user_pte[c][u] \notin TableFrames(d)
               /\ c # d => TableFrames(c) \cap TableFrames(d) = {}
               /\ pc[c] \in LoadPCs \/ loaded[c] => written[c] = UserPages
    BY <1>1, MappedApart, TableApart, ProgramPlaced
  <2> QED BY <2>1 DEF UserIsolation
<1> QED BY <1>1, UserInvariance, PTL

(* The pte of a page table or of the program's frame stays present while    *)
(* its processor uses it, though all of them edit the same tables without a *)
(* common lock.                                                             *)
THEOREM WindowsStay == Spec => []MappedWhileUsed
<1>1. ASSUME Inv PROVE MappedWhileUsed
  <2>1. ASSUME NEW c \in CPUs, NEW f, Using(c, f)
        PROVE  f \in kernel_pte
    BY <1>1, <2>1, UsingHeld DEF Inv, KernelPtes
  <2> QED BY <2>1 DEF MappedWhileUsed, Using
<1> QED BY <1>1, UserInvariance, PTL

(* Each block of a processor is its page table, its stack, its text or in   *)
(* the hands of alloc_user_page, on the paths where allocations fail too.   *)
THEOREM NoBlockLost == Spec => []BlocksAccounted
<1>1. Inv => BlocksAccounted
  BY DEF Inv, Local, Accounted, BlocksAccounted
<1> QED BY <1>1, UserInvariance, PTL

(* When all processors are in user mode, no pte of their frames is present  *)
(* in the kernel's page tables.                                             *)
THEOREM NoneLeftMapped == Spec => []NothingLeftMapped
<1>1. ASSUME Inv PROVE NothingLeftMapped
  <2>1. (\A c \in CPUs : pc[c] = "user") => \A f \in Usable : f \notin kernel_pte
    BY <1>1 DEF Inv, KernelPtes, Using
  <2> QED BY <1>1, <2>1 DEF NothingLeftMapped, Inv, TypeOK
<1> QED BY <1>1, UserInvariance, PTL
=============================================================================
