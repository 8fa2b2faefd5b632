# XIS: specifications, model checking and proofs

XIS is a small 32-bit x86 kernel: a boot loader, paging, a buddy page allocator,
interrupts through the local APIC and I/O APIC, application processors, a PS/2
keyboard and one user program per processor.  This directory holds TLA+ modules
of its parts, TLC configurations that check them on small instances, and proofs
checked by TLAPS.  File and line references are to the repository's sources.

## The system

| part | state it keeps | operations | works with |
| --- | --- | --- | --- |
| Buddy allocator (`memory.c` 228-345) | `kpages[]` (order, flags, lock), `free_pages[order]`, `alloc_order_lock[order]` | `page_alloc`, `page_add_to_slot` | called by every processor; `lock.c` |
| Memory initialisation (`bootldr.S` 36-94, `memory.c` 92-226) | the E820 map and its count; flags of `kpages`, `kpage_last`, `nr_kpages` | `e820_next_entry`, `mem_init` | the BIOS; feeds the allocator |
| Slab cache (`memory.c` 351-572) | `cache[]`, slot and area lists, bitmaps | `mem_cache_allocate`, `mem_cache_free` | allocator; nothing calls it |
| Paging (`page32.c`) | master and per-processor page directories, shared kernel page tables, `lock_pgd_kernel`, `lock_pgd_user` | `map_kernel_with_pagetable`, `unmap_...`, `alloc_user_page` | allocator, TLBs, trap handler |
| User mode start (`usermode.c`) | each processor's user page table | `initialize_usermode`, `load_usermode_text`, `switch_to_um` | paging, allocator |
| Traps (`setup32.c` 102-159, `handlr32.S`) | `cr2`, page directories | copy a kernel directory entry from the master, or halt | paging, debug log |
| SMP boot (`smp.c`, `mpinit.S`, `start.c`) | `smp_nums`, `smp_bits`, the mailbox in low memory | `smp_start`, `finish_smp_initialization` | local APIC, paging, user mode start |
| Interrupt routing (`interrupt.c`, `acpi.c`, `apic.c`, `setup32.c` 172-235, 325-371) | `interrupts_cpu_0[]`, I/O APIC entries, gates | MADT overrides, `ioapic_setisa_irqs`, `common_interrupt_handler`, `sendEOI` | keyboard, timers |
| Keyboard (`keyboard.c`, `util.c` 243-270) | `kbd_state`, `ring_buffer_kbd` | `keyboard_handle_interrupt` | interrupt routing |
| Timers (`apic.c` 39-51, `setup32.c` 204-225) | `lapic_calibration_tick`, `timer_counter`, `seconds` | calibration, tick | interrupt routing |
| Debug log and screen (`debug.c`, `system.c` 34-92) | `cur_debug_mem`, `lock_debug_mem`, `vga_buf_ptr` | `printf`, `print_vga` | everything |
| Boot loader, descriptor tables, formatting | constants, written once | - | - |

They interact by calls and by shared memory under spinlocks; there are no
threads and no scheduler.  Concurrency comes from the processors, which all run
the end of the start-up code and the allocator at once, and from interrupts.

### What is hard here

* **Interleavings in the allocator.**  A list is locked per order, a page by its
  own lock, and a merge drops every lock between two orders.  The buddy's order
  and flags are read without its lock (263-264), and the upper half of a split is
  written without any (329-330).
* **Shared kernel page tables.**  Every processor makes temporary mappings in
  the same tables, each under its own lock only; no TLB entry is ever
  invalidated.  The page of a new page table is never cleared.
* **Failing half way.**  `alloc_user_page` allocates twice and drops its lock in
  between; the second allocation can fail, or its premise can change.
* **Protocols with a device.**  A key event is several bytes, each an interrupt,
  and the decoder's flags must agree with the keyboard's state after any
  sequence of them, fake shifts included.
* **Input from the firmware.**  E820 entries overlap, leave gaps and end inside a
  page, and the loop over them indexes an array by their addresses; interrupt
  overrides come in any order and may concern each other.
* **Interrupts during the start-up.**  They are on in a few windows only, while
  what their handlers use is being set up: routing, calibration, the keyboard.
* **A buffer that wraps** in the middle of a message, under a lock that the fault
  handler wants as well, and a screen that two interrupt handlers write without it.
* **Order of the start-up.**  Lazily copied directory entries, a fault handler
  that itself needs one of them, processors that come up late.

### What makes each part correct

* Allocator: no page in two blocks; none lost; reserved memory never enters; free
  buddies meet; locks are released and calls return; failure only on exhaustion.
* Memory initialisation: exactly the memory that E820 calls free, less the
  kernel's and the fixed reservations, reaches the allocator.
* Paging and user mode: no frame entered in two address spaces; a mapping stays
  while it is used; nothing stays mapped or allocated after a failure; every
  processor gets to user mode.
* Traps and SMP boot: every fault on memory the master maps is repaired, never
  inside the handler's own prologue, and no copied entry is torn.
* Interrupt routing: each line reaches its own vector as the firmware overrides
  it, and is acknowledged at the controller that delivered it; a device that
  waits is served; a second is what was calibrated.
* Keyboard: in step with the keyboard, shifts that nobody holds or fakes never stick, releases type nothing,
  presses type their character.
* Debug log: what was printed is on the screen, in order and once; writes stay in
  the buffer; every `printf` returns.

## Modules

| module | what it is |
| --- | --- |
| `Pfn` | page frame numbers as sets of bits: `Buddy`, order, alignment, blocks |
| `PageAllocator` | abstract: what callers of the allocator are promised |
| `BuddyAllocator` | the allocator as coded, on several processors; its properties and inductive invariant |
| `BuddyAllocatorProofs` | lemmas about the bits of a pfn; the allocator's inductive invariant and safety |
| `BuddyListProofs` | locks and waiting, progress of a call, meeting buddies, flags, failures, private pages, the refinement |
| `UserMode` | user address spaces built by several processors on top of `PageAllocator` |
| `SmpBoot` | the start of the processors on shared kernel page directories, with page faults and interrupts |
| `Keyboard` | keyboard, decoder, interrupt handler and ring buffer |
| `MemInit` | from the firmware's E820 map to the pages that `BuddyAllocator` starts from |
| `InterruptRouting` | from the MADT to the handlers, with the timer's calibration |
| `DebugLog` | the log's page, its lock, and the screen with its three writers |
| `UserModeProofs`, `SmpBootProofs`, `KeyboardProofs`, `MemInitProofs`, `InterruptRoutingProofs`, `DebugLogProofs` | the theorems about these modules |
| `MC*` | small instances for TLC |

Operators named `Name_Something` next to an operator `Name`, with a comment that
starts with *mutant*, are faulty variants of it: putting one in place of `Name`
breaks the property named for it in `PROJECT.json`.  No specification uses them.

### Pfn

`pfn ^ (1 << order)` and the comparisons of `page_add_to_slot` are bit
operations.  A pfn is the set of its one bits: the buddy at order *k* is the pfn
with bit *k* flipped, a block of order *k* is the set of pfns that agree from bit
*k* up, and `p < q` holds when *q* has the highest bit in which they differ.
This makes the algebra of buddies and blocks provable: TLAPS has no theory of
`xor` on integers.

### BuddyAllocator

State: the order, flags and lock of each struct kpage; the free lists as sets;
the list locks; per processor a program counter and the locals of the two
functions; what each caller owns.  `KPAGE_FLAGS_RESERVED` and `_KERNEL` are one
flag, `UNUSABLE`, since the code only ever tests them together.

A step ends where the code acquires a lock or reads shared state it does not
own.  The mapping to the code:

| actions | code |
| --- | --- |
| `BootPage`, `BootDone` | the loop of `mem_init`, `end_kpage` the page itself: downward merges only |
| `AddLock` | `alloc_order_lock[order]` taken |
| `AddReadOrder`, `AddReadFlags` | the two unlocked reads of the buddy, two steps |
| `MergeLockFirst`, `MergeLockSecond`, `Merge` | the merge branch, 266-288 |
| `InsertLock`, `Insert` | the other branch, 278-288, and the return |
| `PageAllocCall` ... `AllocFail` | the scan of the lists |
| `AllocChoose`, `PopLock`, `Pop` | a block is chosen, locked and taken |
| `Split`, `AllocReturn` | one round of the split loop, which calls `page_add_to_slot`; the return |
| `PageFree` | a caller gives a block back (`page_add_to_slot(kpage, NULL)`) |

The writes under a struct kpage lock and the unlocks after them are one step;
`KpageLocksUncontended` shows that nothing can come between that would
matter.  The code takes the tail of a list, the model any page on it: every order
of a list is covered.  `page_alloc` is called with every order up to one more
than the largest.  Left out because they are never read: `refcount`,
`free_pages_count`, `virt_addr`; and the lock of `dummy_page`, which nobody else
can reach.

`PageAllocator` states the promise: an aligned block of usable pages that nobody
else has, of exactly the order asked for, and a freed block may be handed out
again.  Under the mapping `Allocated` (a block is the caller's from the moment it
leaves its free list) every step of `BuddyAllocator` is a step of it or a
stutter (`PromiseSpec`).

### UserMode

`initialize_usermode`, `alloc_user_page` and `load_usermode_text` on every
processor at once, on `PageAllocator` for the allocator.  A frame can be accessed
while its pte in the shared kernel page tables is present, or while the
processor's TLB holds it (`Access`); otherwise the access faults and
`trap_handler` halts the processor.  `Evict` lets a TLB drop an entry at any
moment.  Either allocation may fail at any time, which covers both exhaustion
and the failures of `page_alloc` under contention.  The stack is two pages and
the text one (`um.S` is far smaller than a page), both under one entry of the page
directory, as the addresses in `usermode.h` make them.  `Access` on a text page
table covers `usermode.c:66`: when the TLB has dropped it the processor ends
`halted`.

The page for a page table comes from `page_alloc`, and neither `alloc_user_page` nor
`build_pagetable` clears it (only `page_alloc_kmap_linear` clears pages,
`memory.c:583`).  So `Build` finds arbitrary entries in a new table, any of `Contents`
(`Held`), writes one and leaves the others.  `written` records which entries
`build_pagetable` has written.  It is a history variable, which no guard looks at.
`UserIsolation` and
`BlocksAccounted` speak of these; an entry that is never written may map any
frame, another processor's included, and nothing here claims otherwise.  `UserIsolation`
adds that the program is only copied where all the entries for it and its stack are
written.  When its allocation fails (`usermode.c:95-98`) the text's entry is a leftover, and
the processor enters user mode over it all the same.

`lock_pgd_user` is taken over all of `alloc_user_page`'s mapping (`MAP_PGD_LOCKED`).
`load_usermode_text` maps without that flag, so `TextMap` and `TextUnmap` take the
lock and release it within their step, and can only be taken while it is free.

### SmpBoot

`start_kernel` on the boot processor, `mpinit.S` and `finish_smp_initialization`
on the others, and the handlers that interrupt them.  A directory is the set of
its entries that are present: every entry has one page table for good
(`_kernel_pg_table_0`), so nothing else about it can differ.  `master` is
`_master_kernel_pg_dir`, `pgd[c]` a processor's own, `pte` the pages present in
the shared page tables.  Of the user frames, which the processors map and unmap at the
frames' linear addresses after the IPI, one stands for all: `frame_pte` has the
processors whose frame is mapped right now (`UserMode` has the single frames).  So the
shared page tables do change after the IPI, and `MasterStable` is about the master
directory only.  `machine` is chosen once: whether there are ACPI tables,
an I/O APIC, a local APIC, whether the tables lie on the RSDT's page, and under
which directory entry each page falls.

A step of a processor can be taken when it reaches the page it needs (`At`,
`Touches`); when it does not, `PageFault` is what happens, and the handler runs:
`TrapPrologue` (reads the local APIC if `lapic_present`), `TrapPrintf` (takes
`lock_debug_mem`), `TrapRepair` (copies the entry or halts).  The handler touches
pages itself, and can fault itself.  Interrupts run the same prologue, then
`IrqHandler` and `IrqEOI`.  Where interrupts are on follows `pit_wait`, the `sti`
of `smp_start` and user mode.

| actions | code |
| --- | --- |
| `MemInit` ... `Wait` | `start_kernel` in its order; of each call, the pages it maps and touches |
| `CopyEntry`, `LoadCr3` | `setup32`: `memcpy` entry by entry without a lock, then cr3 |
| `StartAp` ... `ClearLow` | `mpinit.S` from the startup IPI to the call |
| `SmpLock` ... `SmpUnlock` | the count, its read and its write apart |
| `MapLapic`, `WriteLapic` | `smp.c:54-59`, and `init_lapic` on the boot processor |
| `InitializeUserMode`, `UnmapFrame` | the directory part of `initialize_usermode`, and a frame mapped, filled and unmapped; `UserMode` has the rest, its failures included |
| `PrintfLock`, `PrintfUnlock` | one `printf` for those that follow each other |

The TLB is modelled for the low addresses only: those of user frames, the other
translations that are removed, are in `UserMode`.  `smp_on_hold` is 0 for ever.  The
memory of the directories that nobody has written is arbitrary.  Left out: the
mailbox in low memory, which is written before the IPI, and IPIs that get lost.

### Keyboard

The keyboard is the environment: it sends the bytes of one key event after the
other (make, break, `E0` codes, the eight bytes of Pause), repeats held keys, and
each byte is one interrupt.  Codes are told apart by what the table
`conversion_scan_ascii` holds for them: a letter, another character, 0, or beyond
its end, where the read yields any value.

A keyboard also sends fake shifts: `E0 12` and `E0 59` around Print Screen and the
arrows with NumLock on, `E0 F0 12` and `E0 F0 59` to hide a shift that is held, each
cancelled afterwards.  When exactly depends on the keyboard, so `FakeMake` and
`FakeBreak` send them between any two key events, which covers every such rule; `fake`
has the shifts faked and not cancelled.  The decoder does not look at `e0_code`
when it sees a shift's code (`keyboard.c:194-203`), so that a fake shift is a shift to
it.  `NoStuckShift` therefore excuses a shift flag by the key being held or faked, and
`InStepPressTyped` speaks of a letter's case only when neither is so.  The fake make
that gives a shift back is a press of it to the driver, which delivers the shift's
code; `ReleaseSilent` is about the bytes of releases, faked ones included.

`held`, `fake`, `sent`, `line` and `stale` are the environment's and history
variables, the rest is the code's.

### MemInit

The boot loader's loop of BIOS calls, then `mem_init`: the layout of page tables
and struct kpages, the loop over the entries, the fixed areas, the pages handed
over.  Addresses count in half pages, so that entries can begin and end inside a
page.  `beyond` collects the indexes outside `kpages` that the code would write:
such a write is recorded, not executed.  One pass of the outer loop is one step
(`E820Entry`): `mem_init` runs before any other processor and with interrupts off.
The loop that hands the pages over is `BootPage` of `BuddyAllocator`; `AddPages` is
its outcome, and `kpage_last` and the flagged pages are `BuddyAllocator`'s
`kpage_last` and `Unusable`.  The firmware ends its map in one of three ways
(`Styles`).

`WellFormed` says what the code needs of a map, and what PCs have: entries ascend from
address 0, none and no gap straddles the end of the supported memory, the page that
memory ends with is not shared by two entries, and the fixed areas are inside.  Each
condition is needed.  Behind a gap that begins exactly at the limit the loop writes
outside `kpages`, since its guard looks at the address before the entry and not before
the gap; and of two entries that share the last page it looks at the first only, so that
the page is handed out although the second may be reserved.

### InterruptRouting

The boot processor from `interrupts_init` to user mode, the I/O APIC, the local
APIC and the devices.  An interrupt can be delivered where the code turns them
on: in the windows of `pit_wait` (`InterruptsOn`) and after the `sti` of `smp_start`.
The local APIC takes the highest pending vector if its class is above what is in
service; `SendEOI` ends what is in service.

| actions | code |
| --- | --- |
| `InterruptsInit`, `AcpiProcessMadt`, `IoapicInit` | the table of lines, one MADT entry at a time, the I/O APIC's entries |
| `DevicesInit`, `KeyboardEnableInterrupt` | the keyboard controller's interrupt off, then on |
| `CalibrateStart`, `PitWaited`, `CalibrateEnd` | `calibrate_lapic_timer` around its `pit_wait` |
| `SmpStart`, `SmpWaited` | the waits of `smp_start`, and its `sti` |
| `Deliver` (`Handle`, `NoGate`) | gate, `common_interrupt_handler`, `sendEOI`; a vector without a gate |

What it takes from the machine: a local APIC and one I/O APIC, both with id 0
(`interrupt.c` writes to I/O APIC 0 and to destination `lapic_id` before it is
read); pins that the firmware leaves masked.  The bits of `struct ioapic_entry` are
those of `interrupt.h:84-96`: the trigger mode falls on the mask, and the polarity
on a bit that cannot be written.  A line that is moved away still has its pin's
entry left alone; of two lines that change places neither is programmed.

### DebugLog

Processors call `printf`; a character is identified by its message and its place,
so that losing, repeating or swapping one shows.  The buffer has one byte more
than the page: `Wrap` writes its terminator there.  If that page is not mapped
the write faults, the trap handler calls `printf`, and the processor waits for a
lock it holds itself (`WrapFaults`).  Two interrupt handlers write on the
same screen at any moment, with `print_vga_fixed` and without a lock: the timer's
shows a processor's seconds (`ShowSeconds`), the keyboard's the last characters typed,
since `KEYBOARD_DEBUG` is defined (`KeyboardEcho`).  The log's text stays intact but for
the cells of these two (`Overlaid`).

## Runs

| run | instance | what it shows |
| --- | --- | --- |
| `buddy_two_cpus` | 2 processors, 4 pages, orders 0-2 | `NoDoubleAllocation`, `FlagsTruthful`, `LocksReleased`, `CallsAdvance`, `QuietCallReturns`, `FailOnlyWhenExhausted` |
| `buddy_holes` | 2 processors, 6 pages of an 8 page range, pages 0 and 2 reserved | `NoLeak`, `Coalesced` where a buddy is reserved or beyond the end, `KpageLocksUncontended`, `NoWaitChain`, `PrivateUntouched`, refinement of `PageAllocator` |
| `user_mode` | 2 processors, 8 frames, both address spaces of 4 frames, new page tables holding anything | `UserIsolation`, `MappedWhileUsed`, `BlocksAccounted`, `NothingLeftMapped`, `StartEnds` |
| `user_mode_stale` | the same | *expected violation*: a page table is read after its mapping was removed |
| `smp_boot` | 3 processors, 8 machines | `PrologueNeverFaults`, `PrintfNeverFaults`, `FaultsRepaired`, `LowUnmapped`, `ApsCounted`, `MasterStable`, `StartCompletes` |
| `smp_boot_pic` | 2 processors, machines without a local APIC | *expected violation*: an interrupt through the PIC is not acknowledged |
| `keyboard` | 8 keys, one for each case of the decoder, and fake shifts; ring buffer of 4 | `InStep`, `NoStuckShift`, `ReleaseSilent`, `InStepPressTyped` |
| `keyboard_ascii` | the same | *expected violation*: a release without a character makes the next press go missing |
| `mem_init` | maps of 4 entries, 12 pages supported, 3 ways to end a map | `OnlyFreeMemory`, `AllFreeMemory`, `InsideKpages` |
| `mem_init_map` | the same | *expected violation*: the boot loader's count is one or two short |
| `interrupt_routing` | MADTs of 2 entries in every order | `RoutedAsOverridden`, `HaltOnlyLastPin`, `SecondsCounted`, `KeysServed` |
| `debug_log` | 2 processors, a page of 4 bytes, 3 messages, screen of 3 by 3, seconds and echo over it | `LogOnScreen`, `PageRespected`, `PrintfReturns` |

**Bounds.**  Four pages with orders 0-2 give two levels of merging and splitting,
so that a merge can race with a merge, a split and an allocation at the level it
is about to enter; with two processors each can be anywhere in the code.  Six
pages with two reserved put a reserved buddy and a missing buddy next to free
ones.  Eight frames are exactly what two user address spaces need, so that the
allocator runs dry in `user_mode`.  An entry that nobody wrote reads there as one that maps
nothing or one that maps page 0 (`HeldEntries`), which is a frame that is handed out as well.  The ring buffer has 4 slots instead of 10: it
is never emptied, and 4 already let a prefix and its key straddle the limit.
In `smp_boot` two application processors race each other and the boot processor;
the machines are the usual one with small and with large memory, two where one
of the APICs lies elsewhere, so that each of the pages that fault lazily is once
the first of its entry, and those that lack a local APIC, an I/O APIC or ACPI, or
have the tables on another page.  One processor takes one interrupt (`MaxTicks`):
an interrupt leaves nothing behind that a second could find.
In `mem_init` three entries follow low memory, each half a page over the one before, next
to it or after a gap, from half a page to more than the kernel's data long, on either
side of the limit.  In `interrupt_routing` the overrides include the usual
one of the PIT, lines that change places, lines moved onto the keyboard's pin, to pin
15 and past the ISA pins; the timer expires up to `MaxCalibration` times while it
is calibrated and as often after that as needed for a second (`MaxTicks`), and
`MaxRaises` is two edges, so that a key can come before, with and after another
interrupt.  In `debug_log` messages end before, at and after the page's last byte or
are longer than the page, and `MaxMessages` lets the page wrap more than once and fill
the screen.  The seconds have `ClockDigits` digits and the echo up to `EchoSize` characters
from `EchoColumn` on, so that on the small screen the two overlap each other and the text.
Nothing else is bounded; no state constraint and no symmetry is used.

**Fairness.**  `FairSpec` has weak fairness of each processor's own code
(`Step(c)`): it executes for ever, an interrupt returns and nothing preempts it.
In `SmpBoot` this includes that a startup IPI arrives; its two contended locks are
taken once or a bounded number of times by each processor, so that weak
fairness suffices for `StartCompletes`.  In `InterruptRouting` the processor goes on and
takes pending interrupts while they are enabled, since its waits end and user mode does
not; in `DebugLog` a processor in `printf` goes on, and `PrintfReturns` holds with a
spinlock that is fair to nobody because the number of messages is bounded.
Nothing is assumed of callers (`PageFree`, `PageAllocCall`), of the keyboard or of the TLB.
  A spinlock is an `xchg` loop without a queue, so strong fairness would
not be justified: a processor may lose every race for a lock.  This is why
`QuietCallReturns` promises a call's return only when the others stop using the
allocator.  `UserMode`, `SmpBoot` and `InterruptRouting` check no deadlock since their
processors really stop, in user mode or halted; `mem_init` ends, and the callers of `printf`
run out of messages.

## Disagreements between code and comments

1. **A key press goes missing** (`keyboard_ascii`).  `break_code` survives the release
   of a key without a character, and the next key with one is swallowed.  `InStep`
   and `InStepPressTyped` show that the damage is limited to one event.
2. **A page made inaccessible is accessed** (`user_mode_stale`).  `load_usermode_text`
   reads a page table after its pte was cleared; a TLB entry that nobody
   invalidated makes it work.
3. **The PIC is never acknowledged** (`smp_boot_pic`).  `system.c:135` programs it to
   wait for a "Regular EOI"; `sendEOI` never takes its PIC branch, since
   `ioapic_initialized` is set on every machine, and without a local APIC writes
   to linear address 0xb0 instead, where it faults and stops.

4. **The E820 map is cut short** (`mem_init_map`).  `bootldr.S:6` "Enumerates and stores
   E820 map"; the first entry and, on most firmware, the last one are not counted, and
   `mem_init` takes the size of memory from the last entry counted.  With entries of 24
   bytes, as ACPI 3 has them, the map is given up and the count never stored
   (`E820Failed`).

Things that no comment denies, found on the way:

* `acpi_process_table` reads a table's length before it maps the table
  (`acpi.c:192`), and `ioapic_init` writes through a null `base_register` when no I/O
  APIC was found (`interrupt.c:81`); either halts the boot processor.  `FaultsRepaired`
  allows both, since neither page is mapped; `StartCompletes` leaves these machines
  out (`Supported`).
* When the log's page wraps, one byte after it is overwritten, and if that page is not
  mapped every processor's `printf` waits for ever (`PageRespected`, `PrintfReturns` say
  exactly this).  `PrintfNeverFaults` of `SmpBoot` is about the log's own page.
* A user page table is not cleared (`page32.c:238`): what its unwritten entries map is left
  from the page's last use.  A fake shift changes the case of letters
  (`keyboard.c:194-203`).
* A freed page keeps `KPAGE_FLAGS_ALLOCATED`, which only the slab cache reads.
* Pin 15 has a vector without a gate (`HaltOnlyLastPin`); two lines that change places are
  both left masked (`RoutedAsOverridden`); if no tick falls into the calibration, every
  tick is a second (`SecondsCounted`).
* Without a local APIC the keyboard has code 1 and is not read: `common_interrupt_handler`
  tests for 2, its pin's code in the I/O APIC's numbering.
* 4 GB are supported (`memory.c:109`), but linear addresses begin at 2 GB: the models
  name pages by their index, where this does not show.

## Proofs

Every theorem is about the specification that the runs check, for all values of its
constants that satisfy the module's named assumptions.  TLC evaluates the assumptions
in every run of the module's `MC` module.

| module | theorem | shows |
| --- | --- | --- |
| `BuddyAllocatorProofs` | `Invariance`, `TypeCorrect`, `AllocationSafe`, `NothingLost` | `IndInv`, `TypeOK`, `NoDoubleAllocation`, `NoLeak` |
| `BuddyListProofs` | `LocksUncontended`, `NobodyWaitsInChain`, `CallsGoOn`, `BuddiesMeet`, `FlagsTrue`, `FailsExhausted` | `KpageLocksUncontended`, `NoWaitChain`, `CallsAdvance`, `Coalesced`, `FlagsTruthful`, `FailOnlyWhenExhausted` |
| `BuddyListProofs` | `PrivateKept`, `PromiseKept` | `PrivateUntouched`; refinement of `PageAllocator` (`PromiseSpec`) |
| `UserModeProofs` | `UserInvariance`, `UserTypes`, `UsersIsolated`, `WindowsStay`, `NoBlockLost`, `NoneLeftMapped` | `Inv`, `TypeOK`, `UserIsolation`, `MappedWhileUsed`, `BlocksAccounted`, `NothingLeftMapped` |
| `SmpBootProofs` | `SmpInvariance`, `SmpTypes`, `ProloguesRun`, `PrintfRuns`, `MappedRepaired`, `LowGone`, `NoneUncounted`, `MasterFixed` | `Inv`, `TypeOK`, `PrologueNeverFaults`, `PrintfNeverFaults`, `FaultsRepaired`, `LowUnmapped`, `ApsCounted`, `MasterStable` |
| `KeyboardProofs` | `KeyboardInvariance`, `KeyboardTypes`, `BackInStep`, `ShiftsLifted`, `ReleasesSilent`, `PressesTyped` | `Inv`, `TypeOK`, `InStep`, `NoStuckShift`, `ReleaseSilent`, `InStepPressTyped` |
| `MemInitProofs` | `MemInvariance`, `KpagesInside`, `NothingReservedFree`, `NoFreeMemoryLost` | `Inv`, `InsideKpages`, `OnlyFreeMemory`, `AllFreeMemory` |
| `InterruptRoutingProofs` | `RoutingInvariance`, `RoutedRight`, `LastPinHalts`, `SecondsRight` | `Inv`, `RoutedAsOverridden`, `HaltOnlyLastPin`, `SecondsCounted` |
| `DebugLogProofs` | `LogInvariance`, `LogShown`, `PageIsKept` | `Inv`, `LogOnScreen`, `PageRespected` |

**The allocator's invariant.**  `NoDoubleAllocation` is not inductive.  A merge is safe
only if the buddy that was read as free, of the right order and without its
lock, is still a block of that order on the list that the processor has locked.
`IndInv` adds what makes this so:

* `LockOwners`: who is where holds which list lock;
* `Listed`: `FREE_BUDDY` is set exactly on listed pages, under their own order;
* `HeadsAligned`: every block, in whosever hands, is aligned, and its head's order
  field is at most the block's order.  A page in the middle of a block may carry
  any stale order, but it cannot be the aligned buddy of a smaller block;
* `LocalsConsistent`: what a processor has read is still true while it relies on it;
* `BootAlone`, `UnaddedFresh`: `mem_init` runs alone on fresh struct kpages.

The proof has one lemma per action.  Each describes the step as a change of the
set `Claims` of blocks (one disappears, one appears, two become one, one becomes
two) and rests on the algebra of pfns at the head of the module: blocks of one order are
equal or disjoint, a block is the disjoint union of its two halves, the lower of
two buddies heads the merged block.

**Page locks, buddies, flags.**  Every page whose lock a processor takes heads a block
that it adds, or a free block of the list it has locked (`Touching`).  Blocks do not
overlap, so no two processors touch the same page, and a page lock that is held is held
by the processor that touches it.  For `Coalesced` the strengthening `MeetInv` says that a
processor about to insert has seen the buddy not free under the list's lock, that
afterwards nothing limits a merge, and, for the time of `mem_init`, that pages are added in
ascending order, so that a merge that must not go up misses nothing.  For `FlagsTruthful`,
`SubFlags` says that `FREE_SUB` is set on the pages of a block but its head, for
blocks in every hand.

**Waiting and progress.**  That no lock is ever waited for in a chain needs no order among
the locks: a processor holds at most one list lock, and while it holds one it can wait
for page locks only, which are free when it comes (`KpageLocksUncontended`).  `InSection`
is what ties a held list lock to a processor inside its section, so that the one waited
for is not itself waiting (`NoWaitChain`).  `CallsAdvance` gives a call a measure that no
other processor can change: how far the search is from the last order, then how far the
splits are from the request, then how far the merges are from the last order, then the
place in the round.  Each step of the call makes it smaller in lexicographic order.
Together they are the part of a call's termination that can be stated without fairness:
a call ends after a bounded number of its own steps, and it can be kept from taking one
only by a processor that is not kept from its own.  That it then does take it is
`QuietCallReturns`, which is only model-checked.

**Failures.**  When `page_alloc` fails undisturbed, each list it passed was empty at
that moment and, since nobody else was inside, still is.  An aligned run of free pages of
the order asked for lies in one free block of that order or above: otherwise take the
smallest of the free blocks in it; its buddy lies in the run too, in a free block that is
no smaller, so that it is that block, which `Coalesced` excludes (`RunInBlock`).  But the
lists of these orders were all seen empty.
The formula speaks of a whole call; `SearchStep` is what the search preserves while the
others are idle, and the temporal rest is propositional.

**The promise.**  `StepWrites` shows that a step writes a struct kpage only in a block that
its processor adds or carries, or in a free block; blocks are disjoint, which gives
`PrivateUntouched`.  For the refinement each action is mapped: `Pop` is `Allocate`, a block
leaving its free list for the caller; `PageFree` is `Free`; all others leave the mapped
`Allocated` alone, splits and merges on other processors included.

**User mode.**  The frames that have a pte in the kernel's page tables are exactly those
that some processor uses at this moment (`KernelPtes`).  The blocks of the processors are
disjoint (`BlocksApart`, which `PageAllocator` gives), so that one processor's unmap can
only hit its own.  Of an entry that was not written the invariant knows the type only, so
that what a new table holds does not matter.  `Progress` follows `alloc_user_page` through its calls: what
is mapped, allocated or half done at each point, failures and the retry included.

**SMP boot.**  The boot processor's phases order everything: when the IPI is sent the
master has every page that a handler needs, and nothing changes the master afterwards
(`MasterInv`), the mappings of user frames included, which go to a processor's own directory; an application processor's directory contains the master (`ApInv`), so that it
faults only on pages that the master lacks.  `FaultInv` says what is known while a
fault is handled, for a fault inside a handler as well; `DebugInv` and `CountInv` say who
holds the two locks.

**Keyboard.**  `LineInv` lists the bytes that can still follow for the event that is being
sent, and says that `break_code` is clear or stale until the event's own prefix has
set it.  `ShiftInv` ties a shift flag to its key being down, the keyboard's fake of it, or the release
or cancellation of either being on the way; `InStep` is then inductive.

**Memory.**  `FlagsInv` and `LoopInv` say where the loop stands: at the next
entry's first page or behind the entry before, never past `kpages`, with every page behind
it in an entry seen or marked reserved.  `StoppedInv` says that what the loop did not see
lies beyond `kpages`, whichever half of its guard ended it; this is where `WellFormed` is
used.  `OriginInv` says where each flag comes from.

**Interrupts.**  `TableInv` describes the table of lines while the overrides are applied,
one by one and in any order: a line is marked, has a level and the original line of
its pin exactly as the overrides seen so far say.  No line is overridden twice and no two
share a pin (`MadtsAssumption`), so that the order does not show, and what
`interrupt_set_override` clears on the way was not set by another override.  `PinInv` is
what `ioapic_init` makes of the table, `PendingInv` where a pending vector comes from.
`ClockInv` says that no tick is counted for the clock before the calibration is over,
and that from then on the ticks are seconds and a remainder.

**The log.**  `PageInv` describes the page while a processor writes: the part of its
message that is not yet on the screen lies from `cur_debug_mem` on.  A wrap shows it and
starts again at the beginning of the page.  `CountInv` bounds the position in the page by
the characters and terminators written, which shows that the byte behind it is reached
only by a full page.  `ScreenInv` says that the screen has the first `Shown` characters
of the log, but for the cells of the seconds and of the echo, and that `vga_buf_ptr` is where
the next one goes, or both are below the screen.  What a message looks like on the screen is defined by recursion over its
characters, in the model as in the property.  The proof system's induction rules cannot
be used, so each such fact is proved by looking at the least number for which it fails:
`LeastNumber` gets that number from the well-foundedness of `<`, and `RecursionExists`
gets the recursive function itself, as a function that exists, the same way.

**Assumptions.**  Allocator: `PfnBits` is a natural number and the orders do not exceed it;
the processor that boots is one of the processors; the last page and the
unusable pages are page numbers.  That pfn 0 is a page is proved (`ZeroLowest`).
User mode: there is an order 1, no usable frame is the value that stands for none, and memory
holds something (`UserModeAssumption`).  SMP boot: the processors are finitely many, a machine with
an I/O APIC has ACPI tables, and no page but those of the low mapping is under its
directory entry (`MachinesAssumption`).  Keyboard: the kinds of codes are apart, no key's own code is a modifier's after
`E0` (the fake shifts are not keys), the ring buffer has two slots or more (`KeysAssumption`).  Memory:
`MapsAssumption`, that is `WellFormed`, and `LayoutAssumption`.  Interrupts: ACPI's rule that
a line is overridden once and no two share a pin (`MadtsAssumption`), and numbers that are
numbers (`BoundsAssumption`).  Log: a page of two bytes or more, a screen that is not
empty, with the seconds and the echo beginning on it, messages of finite length (`LogAssumption`).

**Model-checked only.**  Liveness (`LocksReleased`, `QuietCallReturns`, `StartEnds`,
`StartCompletes`, `KeysServed`, `PrintfReturns`) is outside what the proof system handles.
Every other property of a run that passes is a theorem.  The type invariants of
`UserMode` and `SmpBoot` are theorems only: the proof covers every instance.

## Not modelled

* The slab cache (`memory.c` 351-572): dead code.  Nothing calls `cache_init`, so
  there is no state of it that the program can be in.
* The boot loader but for its E820 loop, the mode switches and the descriptor
  tables: straight-line set-up and BIOS I/O.
* Number formatting: sequential text output.
* The PIT's and PIC's registers and the keyboard controller's ports: device I/O.
* Ranges of `page32.c` that cross a page table: no caller has one.
* ACPI tables that are malformed.
* `page_free_linear` and `page_free_user` beyond what they call: the first has no
  caller, the second does nothing.
