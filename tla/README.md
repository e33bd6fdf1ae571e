# TLA+ specifications of the `x86_64` crate

The crate gives a kernel the data structures and instructions of the x86-64
architecture. Much of it is encodings and one-instruction wrappers. Its logic is
in the page table mappers, the address types with their non-canonical gap, the
page ranges, the flushes of the TLB, the descriptor tables, and the registers that
are read, modified and written back. This directory models
that logic in TLA+, checks it with TLC on small instances, and proves the most
important properties with TLAPS for every size of instance.

`PROJECT.json` maps every definition to the lines it models, lists the runs, the
mutants, the findings, the hazards and the theorems.

## 1. Inventory

| Component | State | Operations | What is hard | What makes it correct |
|---|---|---|---|---|
| Page table entries (`paging/page_table.rs`) | a `u64` per entry, 512 per table | `set_addr`, `set_flags`, `flags`, `addr`, `is_unused`, `zero` | the masks of address and flags overlap (bits 12 and 51); "unused" is "all zero", not "not present" | an entry gives back what was stored in it |
| `MappedPageTable` (`mapper/mapped_page_table.rs`, traits in `mapper/mod.rs`) | the tree of tables in memory | `map_to`, `map_to_with_table_flags`, `unmap`, `update_flags`, `set_flags_pN_entry`, `translate_page`, `translate`, `clean_up`, `clean_up_addr_range` | a `map_to` that fails half way; frames with old contents; huge pages and tables in the same slot; ranges that cut tables | tables form a tree; every answer agrees with the mappings made; `clean_up` frees the empty tables and no other |
| `OffsetPageTable` (`mapper/offset_page_table.rs`) | a `MappedPageTable` | delegates | pointer arithmetic of the offset | as above |
| `RecursivePageTable` (`mapper/recursive_page_table.rs`) | the tree, reached through itself | as above | it reads its tables through virtual addresses the TLB may have cached; parent checks differ from `MappedPageTable`'s | the windows show the tables; same promise |
| Frame allocator (`paging/frame_alloc.rs`) | the caller's | `allocate_frame`, `deallocate_frame` | may answer `None` at any of the three levels | no frame lost, none handed out twice |
| `MapperFlush`, `MapperFlushAll` (`mapper/mod.rs`), `instructions/tlb.rs`, `Cr3` | promises to flush; CR3 | `flush`, `flush_all`, `ignore`, `flush_pcid`, `Cr3::write*`, `Cr3::update*` | translations cached per PCID, while other spaces change; walks in the middle of a `map_to` | the newest mapping is used once promises are kept |
| `VirtAddr`, `PhysAddr` (`addr.rs`) | a `u64` | `new`, `new_truncate`, `+`, `-`, `align_*`, steps, indices | the gap in the middle of the address space, overflow at its end | always canonical; steps are linear over the gap |
| `Page`, `PhysFrame` and ranges (`page.rs`, `frame.rs`) | `start`, `end` | `next`, `is_empty`, `len`, `size` | the last page of a half, of the address space, of physical memory | every page of the range once, in order; the loop ends |
| `Invlpgb` (`instructions/tlb.rs`) | the builder, the rest of the range | builder methods, `flush` | range over the gap, count limits, a limit of zero | exactly the range is flushed; the loop ends |
| Interrupt flag (`instructions/interrupts.rs`) | `RFLAGS.IF` | `without_interrupts`, `enable_and_hlt` | handlers between two instructions | flag restored, wake-up not lost |
| GDT (`structures/gdt.rs`, `registers/segmentation.rs`), `Star` | table and length, GDTR, CS, TR, STAR | `append`, `from_raw_entries`, `load`, `CS::set_reg`, `load_tss`, `Star::write` | two-word descriptors at the limit, addresses in pieces, numbers that just fit 16 bits | selectors name their descriptors |
| IDT (`structures/idt.rs`) | 256 gates | `set_handler_fn` by field, index, range or `set_general_handler!`, options, `reset` | reserved vectors, error codes, options that share a word, bounds of ranges | the processor finds in each gate what was asked for |
| Registers (`registers/*`) | the processor's | `read`, `write`, `update`, `write_raw` | an interrupt between read and write; reserved bits; invalid combinations | what was written is what is read, the rest is kept |
| Instruction wrappers, port I/O | none | one instruction each | none | none |

How they interact: the mappers take and give frames through the allocator traits,
walk the tables through a `PageTableFrameMapping`, number slots with the indices
of `addr.rs`, and use `PageRangeInclusive` for `clean_up`. Every successful
mapping call returns a `MapperFlush`, through which the caller must empty the TLB
(`instructions/tlb.rs`); `Invlpgb` does so for a `PageRange` on all processors.
Gates of the IDT take the CS of the moment, a selector of the loaded GDT, and STAR
holds four more of them. Registers that handlers change too are updated in
`without_interrupts`.

The mappers are single-threaded: every method that changes state takes `&mut self`.
What is concurrent is the hardware: the TLB, interrupts, and old contents of frames.

## 2. Modules

| Module | Models |
|---|---|
| `PageTable` | entries, flags, tables, `next_table`; the walk to a slot |
| `MappedPageTable` | the mapper with its allocator; EXTENDS `PageTable` |
| `AddressSpace` | what a mapper promises, without tables; refined by `MappedPageTable` |
| `MCMappedPageTable` | instances of it |
| `MappedPageTableProofs` | theorems about `MappedPageTable` |
| `RecursivePageTable`, `MCRecursivePageTable`, `RecursiveProofs` | the mapper that reaches its tables through the processor's own walk, with a TLB; EXTENDS `MappedPageTable`, refines `AddressSpace` |
| `Interrupts` | the interrupt flag, `without_interrupts` and `enable_and_hlt` among handlers |
| `Registers`, `MCRegisters`, `RegistersProofs` | registers that are read, modified and written back, on that processor; EXTENDS `Interrupts` |
| `Tlb`, `MCTlb`, `TlbProofs` | flush promises, CR3 with and without PCIDs, and a TLB over several address spaces |
| `Gdt` | the global descriptor table, selectors, CS, TR and STAR |
| `Idt`, `MCTables`, `TablesProofs` | the interrupt descriptor table; EXTENDS `Gdt` |
| `Addr` | operators on addresses, pages and frames, with wrapping and checked arithmetic |
| `VirtAddr`, `VirtAddrProofs` | programs that compute with addresses; EXTENDS `Addr` |
| `PageRange`, `PageRangeProofs` | the four range iterators; EXTENDS `Addr` |
| `Invlpgb`, `InvlpgbProofs` | the flush builder and its loop; EXTENDS `Addr` |
| `MCAddr` | the three programs over `Addr` side by side, one of them in a behaviour |

A definition whose name ends in `_Something` and whose comment begins with
"Mutant" is a broken variant of the definition that follows it. No specification
uses it; it shows which bug a property would notice.

### PageTable and MappedPageTable

An entry is the set of its bits, so the code's masks are intersections, and the
masks overlap in the model where they do in the code. `mem` is the memory of the
tables, `level` the allocator's books (0 for a free frame), `told` a history of
what successful calls reported to their callers, `panicked` whether a `panic!`
was reached. A page is the tuple of its table indices: two for 1 GiB, three for
2 MiB, four for 4 KiB; the per-size copies of each method in the code become one
operator, which differs by size where the code does.

* `create_next_table(c, i, flags)` is the set of outcomes of the code's function:
  `allocate_frame` may answer `None` or any free frame. An existing entry is
  widened before it is looked at (775-779), which is why a failed `map_to` may
  leave a trace; a new table is zeroed last.
* `map_to_with_table_flags` chains up to three of them with the first error kept,
  and writes the leaf. What is written before an error stays written.
* `unmap`, `update_flags`, `set_flags_entry` are enabled when the code answers
  `Ok`; an `Err` changes nothing. `translate`, `translate_page`, `unmap_call` are
  the answers, used by the properties.
* `clean_up_addr_range` is the recursive `clean_up`, one operator per level. The
  answer of the visit is the set of slots it clears; their frames are freed and
  their contents become garbage at once.

The methods are `unsafe fn`s. What the documentation leaves to the caller is in
the guards of the actions (a flag update names a page of the size it was mapped
with) and in `CallerContract`: flags hold no address bits but the documented
`PAT_HUGE_PAGE` (bit 12), for huge pages only (`FlagsFor`); `map_to` and table
flags hold `PRESENT`, table flags do not hold `HUGE_PAGE`, and `update_flags` is not
given the empty set of flags (with frame 0 that would make the entry unused).
`set_flags` takes bit 12 of the old entry for a bit of the address and keeps it, so
`told` keeps it too (`Retold`). Where
the documentation allows more than this contract is said in section 3.

### RecursivePageTable

The same `mem`, `level`, `told` and `panicked`, but the code has no pointers to
tables: it puts together the address of a *window* (`p3_page`, `p2_page`,
`p1_page`) and the processor takes it to a frame. `Walk` is the processor's page
walk, which goes through the recursive entry like through any other and reads a
level 1 entry's `HUGE_PAGE` as the PAT bit; so a window below a huge page shows the
memory of the huge page. `tlb` is every window translation the processor may
have cached: all that were valid after some call since CR3 was last loaded.

The mapper flushes no window. The `MapperFlush` of `unmap` is for the page and not for
the windows of tables that may come in its place, and `clean_up` returns nothing. So a
window may show a frame that is no longer that table (`Stale`), until the caller loads
CR3 for reasons of its own (`RecReload`, at any time or never). A call that uses such a
translation has left the tables, and so has one that goes on below the entry of a huge
page. What it then reads and writes is not followed: the model records the call in
`strayed` and stops. What `map_to` has done by then is kept: it zeroes a new table through
the window, so the frame the window shows is zeroed and the new table is linked as it is.
`removed` counts the calls since the last load of CR3 that took away an entry that windows
go through; the properties say what may happen after such a call, and what may not
happen at all.

`unmap` looks at `HUGE_PAGE` and `PRESENT` of the parent entries (`strict_error`), the
other calls only at `is_unused` (`lax_error`). `RecStray` has the calls that read their
way down and leave the tables: `unmap`, `update_flags`, `set_flags_pN_entry`, `clean_up`.
Callers name no page below the recursive entry, keep `PRESENT` and `WRITABLE` of table
entries, and do not pass the entry of a table to `update_flags`; otherwise a page may
have any size, mapped or not. The flag `GLOBAL` has no meaning in this module: the entry
of a huge page that has it is also the last entry of the walk of a window, whose
translation would then survive even a load of CR3.

### Interrupts

The stack holds the running code on top of what it interrupted or was called by.
`without_interrupts` is its five instructions (read the flag, `cli`, the closure, `sti`,
return), `enable_and_hlt` its two. Maskable interrupts arrive at any time and are taken
before the next instruction if the flag is set and not shadowed by `sti`; their
handlers run with the flag cleared or not, as the IDT entry says. NMIs mind neither.
The kernel is external: the idle loop that the documentation of `enable_and_hlt`
recommends, and handlers that leave work for it. Every one of them may call
`without_interrupts`, and so may its closure.

### Registers

`Interrupts` with calls on a register in the closures of `without_interrupts`. A
behaviour is about one register `reg`, as registers share no bits; `raw` is the set of
its bits. An `update` is its instructions: `read`, the caller's closure (in which
interrupts may be masked and unmasked again), the `read_raw` of `write`, and
`write_raw`; `write` is the last two. What differs from register to register is a
record: the bits that `read` answers (`known`), the bits `write` does not take over from
the old value (`masked`), and whether it reads the old value (`rereads`). `told` is a
history of what the calls, one after the other, make of the register's fields.
`Dr7Value`'s conditions and sizes and the bytes of `Pat` are decoded and encoded as the
code does it. A failed `assert!` or `unwrap` sets `panicked`, and nothing more happens.

A kernel that changes such a register in a handler has to mask interrupts around its
other changes: calls are made in `without_interrupts` only, not in an NMI's handler, and
not in the closure passed to an `update` of the same register.

### Tlb

Several address spaces, each with a table whose entry grants rights and with pages
below it; the pages of `Shared` are global and below a table that all spaces link.
`tlb` is what the processor cached, by PCID and page; `Fill` may happen at any time the
walk leads somewhere. `map_to` is split into the link of a new table, its zeroing and the
write of the leaf; other calls are one write each. `due` is the set of pages whose entry
changed and that no instruction has flushed since: `ignore` and a dropped `MapperFlush`
are no step at all. A flushing call removes from `due` the promises that its instruction
keeps. For `flush_pcid` that is what `InvPcidCommand` documents. For `flush`, `flush_all`
and the writes of CR3 it is less than their documentation says (`Reloaded`): only the
current or the loaded PCID, and for a load of CR3 no global page. What follows if a kernel
takes `flush_all` at its word is in the run `claim_flush_all`, whose `TrustingSpec` adds a `flush_all` that removes everything from `due`.

No guard keeps callers from `flush_all` and `Cr3::write` with PCIDs on. Both load what
`Cr3Flags` holds of the low bits of CR3 (bits 3 and 4), and so may take a space to a PCID
that is not its own; `mixed` is the PCIDs to which that has happened, until they are
flushed. A space has one PCID of its own, which `write_pcid` is given. A cached
translation is stale if it leads elsewhere than the tables or grants more; one that grants
less costs a page fault that the processor resolves by itself.

### Gdt and Idt

One table is built from `empty` or `from_raw_entries`, loaded (`load` takes
`&'static self`: nothing is appended later) and used. Descriptors are sets of bits in
one word or two. `given` is the selectors that `append` returned; `Fetch` is what the
processor finds for one, within the limit it was given. `halted` records a panic and
the entries that were missing.

The IDT is built on such a table once CS is set. A gate is the words of an
`Entry`; `asked` is the kernel's view of what it asked for, in terms of functions
and options, and does not use the code's encoding. `held` is the `&mut EntryOptions`
that the last `set_handler_fn` returned, through which options are changed. The `u16` of
an option is the set of its bits. `FieldType` is the declarations of the struct,
`WrapperType` the cases of `set_general_handler_entry!`; they are equal in the code
but written twice.

### Addr and VirtAddr

A word is a number below `U64`, the lower half of the address space has `HALF`
addresses, physical memory `PHYS`. The code has 2^64, 2^47 and 2^52. `None` is an
`Option::None` or a panic. `VirtAddr` is a program that applies any operation to
one of two addresses, so that results are inputs of other operations.

`VirtAddr`, `PageRange` and `Invlpgb` share the operators of `Addr` and no state. `MCAddr`
runs one of them in a behaviour, with the variables of the others at rest.

### PageRange

One loop over a range of any of the four types; the history `yielded` is what
`next` answered (cut off at `MaxYielded` items, more than any range has). `next` with the panics of `+ 1` and `- 1` inside is one action.

### Invlpgb

The builder's methods in any order, then `flush`: one action per iteration of
its loop. `sent` is the set of `invlpgb` instructions executed, each a record of
the parameters that `flush_broadcast` encodes. What an instruction flushes (count
pages, one at least) is the definition `Flushed` of the properties. It is the reading of
the code, whose comment says so where it advances the range (`tlb.rs:348`). If the
instruction counts the pages beyond the first instead, as AMD's manual may be read, each
one flushes a page more than the code asks for: the range is still covered, but not
exactly.

## 3. Runs

Passing runs:

| Run | Checks | Bounds |
|---|---|---|
| `mapper_flags` | `TypeOK`, `NeverPanics`, `TranslateAgrees`, `AnswersAgree`, `ImplementsAddressSpace` | pages of all sizes over one another, tables of 2 entries, 3 frames for tables, `PRESENT` taken away, `HUGE_PAGE` as PAT bit of 4 KiB pages, `PAT_HUGE_PAGE` for huge ones, frame 0 and a frame with bit 12 |
| `mapper_tree` | `TablesFormTree`, `RightsReachPage`, `CleanUpFreesExactly` | pages under both level 4 entries that need 7 tables, with 5 frames; ranges that cut tables, and an empty one |
| `recursive` | `RecNeverFaults`, `RecTablesFormTree`, `WindowsReachTables`, `AnswersLikeMapped`, `RecImplementsAddressSpace` | tables of 2 entries, the second level 4 entry recursive (7 windows), 3 frames for tables, pages of all sizes over one another and beside; one removal between two loads of CR3 (`MaxRemovals`) |
| `interrupts` | `ClosureUndisturbed`, `FlagRestored`, `WorkGetsDone` | 3 interrupts and an NMI, a stack of 6 frames before a call, one call per frame |
| `registers` | `ReadsTellWrites`, `ReservedKept` | nine registers, 3 calls, 2 interrupts, a stack of 5 frames before a call; bits that the crate does not name set from the start |
| `tlb` | `TypeOK`, `NewestMappingUsed` | 2 address spaces, one of PCID 0 and one outside `Cr3Flags`; a private page with 2 frames and a global page, PCIDs on and off; new tables from zeroed frames |
| `tables` | `SelectorsNameDescriptors`, `PanicsOnlyWhenFull`, `TaskStateFound`, `SyscallSelectors`, `GatesDeliverAsked`, `HandlersFitVectors` | a GDT of 6 entries with 48 numbers for limits and selectors, so that a full table is at the numeric edge as 2^13 entries are; 9 vectors, one for each way the code treats them; 9 ranges with every kind of bound; 3 calls on an IDT, over GDTs of up to 3 entries |
| `addresses` | of `VirtAddr`: `AlwaysCanonical`, `StepsAreLinear`, `StepsBetweenAgree`, `AlignIsNearest`, `IndicesNamePages`; of `PageRange`: `YieldsRangeInOrder`, `PanicsOnlyAtLast`, `LenCountsRest`, `LoopEnds`; of `Invlpgb`: `FlushesExactlyRange`, `RequestsWithinLimits`, `FlushEnds` | 7-bit words, 5-bit addresses, every argument; every range of pages or frames of two sizes; every flush of 8 pages of 4 bytes or 4 of 8, `u16::MAX` = 3, processor limits 0, 1 and 3 |

Why the bounds are enough: two entries give a table a first and a last entry, an
entry in and one outside a range. Three free frames are just enough for one 4 KiB
page, so allocation fails at every level. The scaled widths keep the proportions
that matter: a gap wider than a half (`U64 >= 8 * HALF`), four levels of tables over exactly
`2 * HALF` addresses, `u16::MAX` smaller than a half. New tables are symmetric.
Three calls on an IDT are a handler, an option and one more call that may
undo them; three calls on a register are one that is interrupted, the one that
interrupts it, and one more. One removal is enough to make a window stale; a second one
before CR3 is loaded makes another window stale, or the same one again. The table flags of
`recursive` are few, so that `set_flags_pN_entry` writes back the flags that are there;
`mapper_flags` and the theorems have it with others.
Deadlock is checked in all runs but `interrupts`, `registers`, `tables` and `recursive`: the
other mapper and the address program can always make a call, and the loops
stutter in `RangeFinished` and `FlushFinished` once they ended. A processor that
sleeps after the last interrupt stops for good, and so does one that panicked; the recursive model ends with a call that
leaves the tables. Three interrupts are enough for a
handler in a handler and one more that waits; their number is finite because a
storm of interrupts may rightly keep the kernel from its work.

Fairness: only `next` (in `PageRange`) and `FlushLoop` (in `Invlpgb`) are weakly
fair. Both are iterations of a loop in straight-line code, which nothing blocks.
In `Interrupts` the processor's next instruction and the delivery of an interrupt are
weakly fair: a processor that is not asleep goes on. No fairness is assumed of callers,
nor of the arrival of interrupts.

Runs that find a violation. Each states a sentence of the documentation, and the
trace is what the code does instead:

| Run | Sentence | What happens |
|---|---|---|
| `claim_apic` | `ApicBase::write` writes "preserving reserved values" | the old base address is kept with the reserved bits: the new base is the union of both |
| `claim_flush_all` | `flush_all`: "Invalidate the TLB completely"; `MapperFlushAll`: "ensure that the newest mapping is used" | a global page is used with the translation it had before an `unmap`, an `update_flags` or a `set_flags_pN_entry` |
| `claim_window` | `create_next_table` of the recursive mapper: "a new frame is allocated ..., zeroed, and the entry is updated" | after a `clean_up` or the `unmap` of a huge page the window of the slot is still cached: the old frame is zeroed, and a table full of old data is linked |
| `claim_link` | "a new frame is allocated ..., zeroed, and the entry is updated" | the entry is updated first. If the frame holds old data, a walk in between caches it, for a page that no `MapperFlush` is returned for |

`claim_link` differs from `tlb` in `DirtyFrames`, and has two pages below the one new table
and a single space.

Other disagreements were met on the way and have no run of their own:

* The example of `map_to_with_table_flags` (`mapper/mod.rs:263`) passes only `USER_ACCESSIBLE` as
  table flags: a new table's entry is not `PRESENT`, and `create_next_table` panics.
* `BIT_51` is "Available to the OS", and part of the address mask: the page translates
  to another frame. `CallerContract` leaves it out.
* A huge page mapped with `PAT_HUGE_PAGE` ("the PAT bit for page table entries that point to huge
  pages") cannot be unmapped: `addr()` has bit 12 in it, and `unmap` and `translate_page` answer
  `InvalidFrameAddress` ("points to an invalid physical address"). `update_flags` does not take the bit
  away again. `AnswersAgree` says that this happens exactly where the flag was ever given.
* With PCIDs on, `flush_all` reloads CR3 with what `Cr3Flags` holds of the PCID: the translations of a
  space with another PCID stay under its own, and are used when `write_pcid_no_flush` comes back to it.
  In `tlb` such a `flush_all` keeps no promise of that PCID, and the PCID it loads is in `mixed`.
* `translate_page` "assumes that the page is mapped to a frame of size `S` and returns an error
  otherwise"; that of `RecursivePageTable` checks parent entries with `is_unused` only, and for a page
  inside a huge page takes the memory of the huge page for a table. `update_flags` writes to that
  memory. `RecNeverFaults` and `AnswersLikeMapped` say that this happens inside huge pages only.
* `clean_up` of both mappers returns no promise to flush, though the processor may hold
  freed tables in its paging-structure caches.
* A loop over a `PageRangeInclusive` panics at the last page of the lower half before
  yielding it, one over a `PhysFrameRangeInclusive` at the last physical frame.
  `PanicsOnlyAtLast` says that these are the only places.
* `MapperFlush::flush` reaches the translations of the current PCID only.
* `Star::write` checks in `i32` "to prevent underflows", and subtracts 8 from `ss_sysret`
  in `u16`: selectors 11 and 3 pass the checks and underflow (a panic in debug builds).
* `set_stack_index` "panics if the index is not in the range 0..7". In release
  builds `index + 1` wraps for 65535, and the stack is switched off. The model has the panic.
* `translate_page` of `MappedPageTable` for a huge page answers the frame of a lower table if
  its slot points to one and that frame is aligned.
* `set_flags_p3_entry` and `set_flags_p2_entry` do not check `HUGE_PAGE` of the entry they write, and
  rewrite the flags of a huge page around the page.
* `TranslateResult` reports bit 12 of a 4 KiB frame's address as `PAT_HUGE_PAGE`.
* `VirtAddr::align_up` to 2^48 or more truncates its result to 0, below the address given.
* `map_to` of a huge page answers `PageAlreadyMapped` also when its slot points to an
  empty table.
* `unmap` tests `PRESENT` and `translate` tests `is_unused`, so after an `update_flags`
  without `PRESENT` they disagree on whether the page is mapped.
* `PageRange::len` counts the gap for a range from the lower to the upper half.
* The documentation of `enable_and_hlt` has NMI handlers skip an `hlt` they interrupted before. The model
  bears this out: without it `WorkGetsDone` fails, because the NMI ends the shadow and an
  interrupt is taken before the `hlt`. It is not enough for NMI handlers that leave work
  themselves: they may run between the check for work and `sti`.

## 4. Proofs

### MappedPageTableProofs: the tree

`TreeCorrect`, `PanicFree` and `TypeCorrect` hold for every number of table
entries, every set of frames, pages, flags and ranges, from `BitsAssumption`,
`FramesAssumption`, `MapperAssumption` and `CallerContract`.

The inductive invariant is `Inv`: `TypeOK`, `TablesFormTree` and not panicked.
The tree says that a pointer (an entry in use and not huge, in a table of level 2 to
4) is present and names a table of the next level, that no two pointers name
the same table, and that every allocated table is named. The three parts need each
other: without `NamedOnce` a freed frame could still be named, without
`PointersDown` a walk could read a frame nobody zeroed, and the panic of
`create_next_table` is out of reach only because pointers are present.

The argument follows the writes the code makes. There are four ways to write a
table, with one lemma each: a leaf (`TreeKeptByLeaf`), the flags of an entry
(`TreeKeptByFlags`), an entry for a new, zeroed table (`TreeKeptByNewTable`), and
the removal of a set of slots whose tables have nothing left (`TreeKeptByCleanUp`).
`CreateNextTableOK` shows that each stage of a call in progress leaves a tree and
stands at a table of the right level, and `CreateParentsOK` chains the stages.
`CleanUpIsRemovable` shows, level by level, that what the recursive visit clears
is a removable set: every pointer of a freed table is itself cleared. The steps
per action are `MapToInv` to `CleanUpInv`; `NextInv` collects them.

### MappedPageTableProofs: the mappings

What the tables hold is what the callers were told, for every instance that
satisfies the same assumptions and `CallerContract`: `TranslateCorrect`
(`TranslateAgrees`), `AnswersCorrect` (`AnswersAgree`, with the answers for `PAT_HUGE_PAGE` as they are), `RightsCorrect`
(`RightsReachPage`, for callers that leave the flags of tables to `map_to`), and
`SpaceImplemented`, the refinement of `AddressSpace`.

`TablesFormTree` says nothing about mappings, so these theorems rest on a second
invariant. A mapping is a *leaf*: an entry in use that names no table, at the end of a walk
from the root (`Leaf`). `ToldOK` relates the leaves to the history: every page that was
told has its leaf, with the frame it was given and at least the flags, and every leaf is
that of a page that was told. `Tab`, `Slot` and `Reach` give the walk to each depth in a form
without error records.

The argument is about the effect of a write on all walks at once. A flag written to a
pointer, a new table hung into an unused slot, and a clean-up keep the leaves
(`FlagsKeepLeaves`, `NewTableKeepsLeaves`, `CleanUpKeepsLeaves`); a write to a slot at the
end of a walk changes this leaf and no other (`LeafWritten`, which needs that two walks to
the same table came the same way: `ReachOnce`, from `NamedOnce`). `Progress` says
how far a `map_to` in progress is; it has the case that is easy to overlook, `Blocked`:
a `map_to` that is refused because of a huge page has already given the parent flags to
that huge page. Every lemma named `...Effect` puts this together for an operation. For the refinement,
`SpaceIsLeaves` shows that the abstract space is the set of leaves, and `MapToStep` to
`SpaceNext` that each effect is a `Map`, `Unmap` or `SetFlags` of `AddressSpace` or a stutter.

### MappedPageTableProofs: what `clean_up` gives back

`CleanUpCorrect` is the action property `CleanUpFreesExactly`, for every number of table entries and every
range of pages of the address space (`RangesAssumption`; a `Page` is canonical, so the code has no other).
The reference in it knows no recursion and no sub-ranges: it speaks of the addresses of the range by
number and of the tables that their walks go through. That nothing is freed which is in use follows from
the tree. That nothing empty is left is about the arithmetic of the loop: which entries
it looks at and which part of the range it passes on.

The argument is one statement per level. `Visits(m, t, L, q)` says that all addresses of range `q` look at table `t` on their walk,
and `Finds(m, L, q, S)` of the slots `S` a visit clears that each is on a walk of the range, and that the
slot of every table on such a walk that is hollow (unused once `S` is cleared) is in `S`. `VisitFinds` carries it from
the visits below to the visit of `t`. Its second half needs the first: a slot cleared in a table on the walk
of an address was cleared by the visit of the sub-range this address is in, because two walks to a table came
the same way (`ReachOnce`). `Parts` and `AllVisited` are the arithmetic: the sub-range for
an entry is not empty and holds exactly the addresses of the range with this index, and the loop skips no index. They rest on `PartUnder`,
about numbers to an arbitrary base, and on `NumberDigits`, `NumberWithin` and `NumberReached`: the number of an address has
its indices as digits, and numbers and addresses correspond. The three parts
of the property are `FreedMayGo`, `NoneEmptyLeft` and, for `clean_up`, `EveryTableWalked` with `LeafUnder`: if no table
is empty, going down from a table by used entries ends in a mapping.

### RecursiveProofs

The five properties of `RecursivePageTable`, for every number of table entries, every set of
frames, pages, flags and ranges: `RecSafe` (`RecNeverFaults`), `RecTreeKept`
(`RecTablesFormTree`), `WindowsShowTables` (`WindowsReachTables`), `SameAnswers`
(`AnswersLikeMapped`) and `RecSpaceImplemented`, the refinement of `AddressSpace`. Their hypothesis
`RecContract` is about flags only: `CallerContract`, but for `PRESENT` in table flags, which this mapper adds itself. Nothing is
assumed of CR3: the theorems hold for callers that load it after every call, now and then, or never. `MCRecursivePageTable` assumes
`RecContract` of the instance, so TLC evaluates it.

`Plain(mem)` is the memory without the recursive entry, which is a memory of
`MappedPageTable`. The invariant `RecInv` says, as long as no call has left the tables, that it is a tree in which pointers are also writable,
that its leaves are what the callers were told (`ToldOK`, from above), that nothing panicked, and, while nothing was removed,
`TlbOK`: every cached translation of a window shows the table that is there now, or there is a
huge page on the way to the window. Without `TlbOK` it could not be said that a call strays only after a removal: a `map_to` may hit a
translation that an earlier call left. `TlbOK` is preserved by a `map_to` because it adds tables and moves none, and made true by a load of CR3;
the calls that take something away end it. The tree does not need it: a call that hits a stale translation
is recorded in `strayed`, and one that does not has gone the way of the walk (`EnterHit`).

The argument has three parts. A window's walk goes through the recursive entry as often as its level asks for,
and from then on follows the entries of the page (`SeenStep`, `SeenIs`, `StepAlong`), so under `RecInv` it ends in the
table of the walk from the root. Every call that stays within the tables is then a call of
`MappedPageTable` on `Plain(mem)`, and the effects proved above carry over. `clean_up` is the
exception: this mapper finds a table by the number of the first page of the sub-range it visits, so it
has to be shown that these numbers begin with the indices of the way to the entry
(`FirstUnder`, `SubRangePage`, `NextVisit`); what the
visits clear is then a removable set, as for `MappedPageTable`.

### RegistersProofs (Interrupts and Registers)

`ClosureUndisturbedCorrect` and `FlagRestoredCorrect` hold for stacks of every
depth. The invariant `StackInv` attaches to every frame the flag with which the
frame below it goes on (`LeftBy`), and says at each place of the code what the frame knows
about its own flag; `Quiet` says that above a closure there is neither an `irq` frame nor a
flag that is set. Its second half is what makes it inductive: an NMI in the closure returns
with the flag it found.

`ReadsCorrect` and `ReservedCorrect` build on it for all registers but
`IA32_APIC_BASE` (the hypothesis `"apic" \notin Regs`: for that register `claim_apic` shows
that the property fails) and for every kernel whose calls are well typed
(`CallsAssumption`: arguments are of the types of the code). The invariant `RInv` adds to
`StackInv` that there is at most one register access on the stack, that it is directly on
top of a closure, that only an NMI can be above it, and that
the value it has read is still the value of the register.

### TlbProofs

`NewestMappingCorrect` and `TypeCorrect`, for every number of spaces, pages and PCIDs, with and
without PCIDs. Their hypothesis `DirtyFrames = FALSE` (frames given out by the
allocator hold no old data) is the one without which `claim_link` shows a counterexample. As it stands
`NewestMappingUsed` is not inductive: it is about the current tag, and a switch of CR3 makes
another one current. `AllFresh` says it of every space that can have translations in the
TLB: with PCIDs all of them whose PCID is not in `mixed`, the current one without. `NewTableEmpty` is needed between
the two writes of a `map_to`: a table that is linked and not yet used has no entry.

### TablesProofs

The theorems about the GDT and the IDT, for every `MAX` with which the limit fits in 16
bits, every sequence of calls and every address of the TSS: `SelectorsCorrect`, `PanicsCorrect`,
`TaskStateCorrect`, `SyscallCorrect`, `GatesCorrect` and
`HandlersCorrect`. `GInv` says of every descriptor that was given out where
its words are, and that no descriptor begins in the second word of another; a table only
grows, so what a selector names stays there. `IdtInv` says of every vector either that
nobody asked for it and its gate is not present, or that each field of the gate decodes to what was asked.
The lemmas about sets of bits (`GetBits`, `AtBits`, `LevelBits`) are the code's `set_bits` and
`get_bits`.

### VirtAddrProofs

The invariant is `AlwaysCanonical`; the other theorems are facts about every canonical
address. `CanonicalCorrect` shows that no sequence of operations leaves the canonical
addresses, and `StepsCorrect` that a step of `n` is a step of `n` places in the list of
canonical addresses (`ForwardIsLinear` and `BackwardIsLinear` are the case splits of the
code's `match`: within a half, over the gap, out of the address space).
`StepsBetweenCorrect` adds that `steps_between` is their inverse, `AlignCorrect` that both
alignments answer the nearest aligned canonical address, and `IndicesCorrect` that the four
indices of an address are the digits of its page's place, so that they name the page and
order pages as addresses do.

Widths, alignments and table sizes stay symbolic. What is assumed of them is true of powers of
two: the address space divides `U64` (`WidthAssumption`), an alignment within a half
divides it (`AlignsAssumption`), and four levels of tables cover the two halves
(`LayoutAssumption`). Because no divisor is a known number, the proofs rest on two lemmas about
division, `DivMod` and `Euclid`, and on `MultipleSum` and `NextMultiple` about multiples.

### PageRangeProofs

`YieldsCorrect`, `PanicsCorrect` and `LenCorrect`, for the four range types, every size of pages that
divides a half and the physical memory and is smaller than a half (`RangeAssumption`; were a page as
large as a half, `PageRangeInclusive` would panic at the last one), and every range. The invariant `LoopInv`
says that the `k`-th item yielded is `given.start + (k - 1) * size`, and that the fields are in one of
two states: `Moved`, `start` is one item further than the last one yielded and in the same half, or
`Capped`, after the last page of all, where `end` has moved back instead. `PageNext`, `PagePrev` and
`FrameNext` say where the checked additions of the code answer and where they panic;
`HistoryComplete` that the bound on the history is never met. `LenCorrect` counts with the
library's theorem that a bijection keeps the cardinality.

### InvlpgbProofs

`FlushCorrect`, `LimitsCorrect` and `FlushNeverPanics`, for every range, every size of pages that divides a half,
and every `invlpgb_count_max`, `u16::MAX` and `usize::MAX` (`LimitsAssumption`). The safety
properties are not inductive because they say nothing of the range still to cover. The invariant
`Covered` counts pages by number, without the gap: the instructions sent cover the numbers from the first
page of the range up to the one `pages.start` has reached, each once. `StepsAreNumbers` and `ForwardIsNumber`
carry `steps_between` and `forward_checked` over to numbers, and `CountWithin` is the heart of
the argument: the count, raised to one if it is zero, passes neither the end of the range nor that of
the lower half, so `forward_checked` has an answer to unwrap and no instruction spans the gap.

### Only model-checked

Every safety property of the passing runs, every action property and both refinements are proved. Liveness (`LoopEnds`, `FlushEnds`, `WorkGetsDone`) needs fairness and
`ENABLED`, which the prover does not reason about, and stays with TLC. So do the four runs that find a violation.

## 5. Not modelled

* Offsets within a page, pointers, formatting, `Debug` and error texts.
* Accesses through references obtained with `level_4_table_mut`.
* Paging-structure caches, and translations of several processors: `Tlb` has one
  processor that caches whole translations.
* The width of `usize` in `clean_up` (pages are numbers there), `PhysOffset`'s
  pointer arithmetic.
* `Step` for `Page`, `PageTableIndex` and `PageOffset`, `as_4kib_page_range`.
* `InterruptStackFrame` (values the processor saved), `PageFaultErrorCode` and
  `SelectorErrorCode` (fields of a number the processor pushed),
  `set_code_selector`, the pointer that `load` of the IDT makes, the fields of the TSS.
* Registers that are one load or store: `FsBase`, `GsBase`, `KernelGsBase`, `LStar`, `Cr2`,
  `Dr0` to `Dr3`, `Dr6`, `MxCsr`, `RFlags` itself.
* Instruction wrappers and port I/O: one instruction each, no state.

## 6. Plan

The parts of section 5 with logic of their own, `clean_up` with a narrow `usize` and `Step` for
the small index types, may be added over `Addr`. That `clean_up` of the recursive mapper, too, leaves no
empty table in its range is neither a property of a run nor a theorem yet; its visits make the same sub-ranges, so the lemmas
about `Finds` are the place to start.
