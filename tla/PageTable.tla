----------------------------- MODULE PageTable -----------------------------
(***************************************************************************)
(* Page table entries and frame addresses (structures/paging/page_table.rs *)
(* and frame.rs).                                                          *)
(*                                                                         *)
(* An entry is one u64.  It is modelled as the SET OF ITS BITS, so the     *)
(* masks of the code are set intersections: `addr()` keeps the bits of     *)
(* 0x000f_ffff_ffff_f000, `flags()` the bits that PageTableFlags names.    *)
(* The two masks overlap in the code (PAT_HUGE_PAGE is bit 12 and BIT_51   *)
(* is bit 51), and so may AddrBits and FlagBits here.  A physical address  *)
(* of a frame is the set of its bits as well; {} is physical address 0.    *)
(*                                                                         *)
(* A Page<S> is the tuple of its table indices, p4 first: two indices for  *)
(* a 1 GiB page, three for 2 MiB, four for 4 KiB.  A prefix of a page      *)
(* names the table entry ("slot") the walk reads at that depth.            *)
(***************************************************************************)
EXTENDS Integers, Sequences

CONSTANTS
  AddrBits,         \* bits of the address mask of PageTableEntry::addr
  FlagBits,         \* bits named by PageTableFlags
  PRESENT, WRITABLE, USER_ACCESSIBLE, HUGE_PAGE,   \* four of the flags
  Below2MiB,        \* the address bits 12..20
  Below1GiB,        \* the address bits 12..29
  ENTRY_COUNT,      \* entries of a table (512 in the code)
  TableFrames,      \* 4 KiB frames the allocator owns, and the root
  Root              \* frame of the level 4 table

ASSUME BitsAssumption ==
  /\ {PRESENT, WRITABLE, USER_ACCESSIBLE, HUGE_PAGE} \subseteq FlagBits \ AddrBits
  /\ HUGE_PAGE \notin {PRESENT, WRITABLE, USER_ACCESSIBLE}
  /\ Below2MiB \subseteq Below1GiB
  /\ Below1GiB \subseteq AddrBits

ASSUME FramesAssumption ==
  /\ ENTRY_COUNT \in Nat \ {0}
  /\ TableFrames \subseteq SUBSET AddrBits
  /\ Root \in TableFrames

Index == 0 .. ENTRY_COUNT - 1          \* PageTableIndex
Entry == SUBSET (AddrBits \cup FlagBits)
Table == [Index -> Entry]

(***************************************************************************)
(* PageTableEntry.                                                         *)
(***************************************************************************)
is_unused(e) == e = {}
flags(e) == e \cap FlagBits
addr(e) == e \cap AddrBits
set_addr(a, f) == a \cup f
set_flags(e, f) == addr(e) \cup f

\* Mutant: zero() writes one entry too many.
ZeroTable_OneMore == [i \in 0 .. ENTRY_COUNT |-> {}]

\* PageTable::zero and PageTable::is_empty.
ZeroTable == [i \in Index |-> {}]
is_empty(table) == \A i \in Index : is_unused(table[i])

\* PhysFrame::<S>::from_start_address succeeds, for the size of a page with
\* n table indices; containing_address aligns down to that size.
is_aligned(a, n) ==
  CASE n = 2 -> a \cap Below1GiB = {}
    [] n = 3 -> a \cap Below2MiB = {}
    [] OTHER -> TRUE
containing_address(a, n) ==
  CASE n = 2 -> a \ Below1GiB
    [] n = 3 -> a \ Below2MiB
    [] OTHER -> a

(***************************************************************************)
(* PageTableWalker::next_table and next_table_mut: the frame of the table  *)
(* an entry points to.  frame_to_pointer is the memory lookup itself.      *)
(***************************************************************************)
next_table(e) ==
  [err |-> IF HUGE_PAGE \in flags(e) THEN "MappedToHugePage"
           ELSE IF PRESENT \notin flags(e) THEN "NotMapped" ELSE "None",
   at  |-> addr(e)]

\* One level of a walk: from a table found so far to the next one.
Descend(m, w, i) == IF w.err = "None" THEN next_table(m[w.at][i]) ELSE w

p4(m, p) == [err |-> "None", at |-> Root]
p3(m, p) == Descend(m, p4(m, p), p[1])
p2(m, p) == Descend(m, p3(m, p), p[2])
p1(m, p) == Descend(m, p2(m, p), p[3])

\* The table that holds slot s (a page, or a prefix of one).
TableOf(m, s) ==
  CASE Len(s) = 1 -> p4(m, s)
    [] Len(s) = 2 -> p3(m, s)
    [] Len(s) = 3 -> p2(m, s)
    [] OTHER      -> p1(m, s)
EntryOf(m, s) == m[TableOf(m, s).at][s[Len(s)]]
SetEntry(m, s, e) == [m EXCEPT ![TableOf(m, s).at][s[Len(s)]] = e]
=============================================================================
