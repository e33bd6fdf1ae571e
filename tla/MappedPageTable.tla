-------------------------- MODULE MappedPageTable --------------------------
(***************************************************************************)
(* MappedPageTable (and OffsetPageTable, which delegates every call to     *)
(* it): the four-level page table of mapper/mapped_page_table.rs, with the *)
(* frame allocator the caller passes in.                                   *)
(*                                                                         *)
(* Each Mapper method is an operator from the memory and its arguments to  *)
(* what it returns and the memory it leaves, and an action that performs   *)
(* the call.  All sizes of page share one definition: Len(page) is 2, 3 or *)
(* 4, and the code's per-size copies differ only where Len(page) is used.  *)
(***************************************************************************)
EXTENDS PageTable, FiniteSets

CONSTANTS
  Pages,        \* the pages the callers name
  DataFrames,   \* the frames they map
  MapFlags,     \* flags arguments of map_to
  LeafFlags,    \* flags arguments of update_flags
  TableFlags,   \* parent_table_flags and set_flags_pN_entry arguments
  Ranges,       \* PageRangeInclusive arguments of clean_up_addr_range
  GarbageEntry  \* what the words of a frame the mapper does not own hold

VARIABLES
  mem,       \* the tables: [TableFrames -> Table]
  level,     \* allocator's books: 0 for a free frame, else the table's level
  told,      \* history: what successful calls told their callers is mapped
  panicked   \* a panic! was hit; the kernel stops

vars == <<mem, level, told, panicked>>

Levels == 0 .. 4
NotTold == [frame |-> {}, flags |-> {}]
Told == [frame : SUBSET AddrBits, flags : SUBSET FlagBits]
GarbageTable == [i \in Index |-> GarbageEntry]

ASSUME MapperAssumption ==
  /\ Pages \subseteq {p \in Seq(Index) : Len(p) \in 2 .. 4}
  /\ DataFrames \subseteq SUBSET AddrBits
  /\ MapFlags \cup LeafFlags \cup TableFlags \subseteq SUBSET FlagBits
  /\ GarbageEntry \in Entry

(***************************************************************************)
(* Mapper::map_to_with_table_flags.  A call in progress is a record: the   *)
(* memory and the allocator's books so far, the table reached and the      *)
(* first error.  create_next_table is the set of its outcomes, because     *)
(* allocate_frame (the caller's) may answer None or any free frame.        *)
(***************************************************************************)
\* Mutant: the flags of an existing entry are not widened.
InsertFlags_Kept(e, insert_flags) == e

\* The flags of an existing parent entry are widened, never narrowed.
InsertFlags(e, insert_flags) ==
  IF insert_flags # {} /\ ~(insert_flags \subseteq flags(e))
  THEN set_flags(e, flags(e) \cup insert_flags) ELSE e

\* Mutant: the new table is not zeroed.
Follow_NotZeroed(m, lv, e, created) ==
  [mem |-> m, level |-> lv, at |-> next_table(e).at,
   err |-> CASE next_table(e).err = "MappedToHugePage" -> "ParentEntryHugePage"
             [] next_table(e).err = "NotMapped" -> "panic"
             [] OTHER -> "None"]

\* next_table_mut on the entry just written, and page_table.zero() if the
\* table is new.
Follow(m, lv, e, created) ==
  LET next == next_table(e)
  IN  [mem   |-> IF created /\ next.err = "None"
                 THEN [m EXCEPT ![next.at] = ZeroTable] ELSE m,
       level |-> lv,
       at    |-> next.at,
       err   |-> CASE next.err = "MappedToHugePage" -> "ParentEntryHugePage"
                   [] next.err = "NotMapped" -> "panic"
                   [] OTHER -> "None"]

create_next_table(c, i, insert_flags) ==
  LET e       == c.mem[c.at][i]
      written == InsertFlags(e, insert_flags)
      free    == {f \in TableFrames : c.level[f] = 0}
  IN  CASE c.err # "None" -> {c}
        [] c.err = "None" /\ is_unused(e) ->
             {[c EXCEPT !.err = "FrameAllocationFailed"]} \cup
             {Follow([c.mem EXCEPT ![c.at][i] = set_addr(f, insert_flags)],
                     [c.level EXCEPT ![f] = c.level[c.at] - 1],
                     set_addr(f, insert_flags), TRUE) : f \in free}
        [] OTHER ->
             {Follow([c.mem EXCEPT ![c.at][i] = written], c.level, written, FALSE)}

Begin == [mem |-> mem, level |-> level, at |-> Root, err |-> "None"]

\* The parent tables of the page, created where they are missing.
create_p3(page, pf) == create_next_table(Begin, page[1], pf)
create_p2(page, pf) == UNION {create_next_table(c, page[2], pf) : c \in create_p3(page, pf)}
create_p1(page, pf) == UNION {create_next_table(c, page[3], pf) : c \in create_p2(page, pf)}
create_parents(page, parent_table_flags) ==
  CASE Len(page) = 2 -> create_p3(page, parent_table_flags)
    [] Len(page) = 3 -> create_p2(page, parent_table_flags)
    [] OTHER         -> create_p1(page, parent_table_flags)

\* Entries of level 2 and 3 tables that map a page carry HUGE_PAGE.
LeafBits(page, f) == IF Len(page) = 4 THEN f ELSE f \cup {HUGE_PAGE}

\* Mutant: the entry is overwritten without a look at it.
WriteLeaf_Overwrites(c, page, frame, f) ==
  IF c.err # "None" THEN c
  ELSE [c EXCEPT !.mem[c.at][page[Len(page)]] = set_addr(frame, LeafBits(page, f))]

WriteLeaf(c, page, frame, f) ==
  LET i == page[Len(page)]
  IN  IF c.err # "None" THEN c
      ELSE IF ~is_unused(c.mem[c.at][i])
      THEN [c EXCEPT !.err = "PageAlreadyMapped"]
      ELSE [c EXCEPT !.mem[c.at][i] = set_addr(frame, LeafBits(page, f))]

map_to_with_table_flags(page, frame, f, parent_table_flags) ==
  \E parents \in create_parents(page, parent_table_flags) :
    LET c == WriteLeaf(parents, page, frame, f)
    IN  /\ mem' = c.mem
        /\ level' = c.level
        /\ told' = IF c.err = "None"
                   THEN [told EXCEPT ![page] =
                           [frame |-> frame, flags |-> LeafBits(page, f)]]
                   ELSE told
        /\ panicked' = (c.err = "panic")

\* Mutant: the parent tables get no PRESENT flag.
map_to_NotPresent(page, frame, f) ==
  map_to_with_table_flags(page, frame, f, f \cap {WRITABLE, USER_ACCESSIBLE})

map_to(page, frame, f) ==
  map_to_with_table_flags(page, frame, f,
                          f \cap {PRESENT, WRITABLE, USER_ACCESSIBLE})

(***************************************************************************)
(* Mapper::unmap.                                                          *)
(***************************************************************************)
\* Mutant: the HUGE_PAGE flag of the entry is not looked at.
unmap_call_AnyEntry(m, page) ==
  LET t == TableOf(m, page)
      e == EntryOf(m, page)
  IN  [err |-> IF t.err = "MappedToHugePage" THEN "ParentEntryHugePage"
               ELSE IF t.err = "NotMapped" THEN "PageNotMapped"
               ELSE IF PRESENT \notin flags(e) THEN "PageNotMapped"
               ELSE IF ~is_aligned(addr(e), Len(page)) THEN "InvalidFrameAddress"
               ELSE "None",
       frame |-> IF t.err = "None" THEN addr(e) ELSE {}]

unmap_call(m, page) ==
  LET t == TableOf(m, page)
      e == EntryOf(m, page)
      n == Len(page)
  IN  [err |-> IF t.err = "MappedToHugePage" THEN "ParentEntryHugePage"
               ELSE IF t.err = "NotMapped" THEN "PageNotMapped"
               ELSE IF PRESENT \notin flags(e) THEN "PageNotMapped"
               ELSE IF n < 4 /\ HUGE_PAGE \notin flags(e) THEN "ParentEntryHugePage"
               ELSE IF ~is_aligned(addr(e), n) THEN "InvalidFrameAddress"
               ELSE "None",
       frame |-> IF t.err = "None" THEN addr(e) ELSE {}]

unmap(page) ==
  LET r == unmap_call(mem, page)
  IN  /\ r.err = "None"
      /\ mem' = SetEntry(mem, page, {})
      /\ told' = [told EXCEPT ![page] = NotTold]
      /\ UNCHANGED <<level, panicked>>

(***************************************************************************)
(* Mapper::update_flags (leaf entry) and set_flags_p4/p3/p2_entry (slot at *)
(* depth k < Len(page) of the page).                                       *)
(***************************************************************************)
flag_update_error(m, s) ==
  LET t == TableOf(m, s)
  IN  IF t.err = "MappedToHugePage" THEN "ParentEntryHugePage"
      ELSE IF t.err = "NotMapped" THEN "PageNotMapped"
      ELSE IF is_unused(EntryOf(m, s)) THEN "PageNotMapped"
      ELSE "None"

\* A flag in the mask of addr() stays: set_flags takes it for a bit of the address.
Retold(t, page, f) ==
  [t EXCEPT ![page].flags = LeafBits(page, f) \cup (t[page].flags \cap AddrBits)]

update_flags(page, f) ==
  /\ flag_update_error(mem, page) = "None"
  /\ mem' = SetEntry(mem, page, set_flags(EntryOf(mem, page), LeafBits(page, f)))
  /\ told' = Retold(told, page, f)
  /\ UNCHANGED <<level, panicked>>

set_flags_entry(page, k, f) ==
  LET s == SubSeq(page, 1, k)
  IN  /\ k < Len(page)          \* else Err(ParentEntryHugePage)
      /\ flag_update_error(mem, s) = "None"
      /\ mem' = SetEntry(mem, s, set_flags(EntryOf(mem, s), f))
      /\ UNCHANGED <<level, told, panicked>>

(***************************************************************************)
(* Mapper::translate_page and Translate::translate.  An address is the     *)
(* tuple of its four indices; the offset in the page is passed through by  *)
(* the code and left out.                                                  *)
(***************************************************************************)
translate_page(m, page) ==
  LET t == TableOf(m, page)
      e == EntryOf(m, page)
  IN  [err |-> IF t.err = "MappedToHugePage" THEN "ParentEntryHugePage"
               ELSE IF t.err = "NotMapped" THEN "PageNotMapped"
               ELSE IF is_unused(e) THEN "PageNotMapped"
               ELSE IF ~is_aligned(addr(e), Len(page)) THEN "InvalidFrameAddress"
               ELSE "None",
       frame |-> IF t.err = "None" THEN addr(e) ELSE {}]

NotMapped == [result |-> "NotMapped", page |-> <<>>, frame |-> {}, flags |-> {}]
Mapped(m, s) ==
  [result |-> "Mapped", page |-> s,
   frame |-> containing_address(addr(EntryOf(m, s)), Len(s)),
   flags |-> flags(EntryOf(m, s))]

translate(m, a) ==
  LET w3 == p3(m, a)
      w2 == Descend(m, w3, a[2])
      w1 == Descend(m, w2, a[3])
  IN  IF w3.err = "MappedToHugePage" THEN [NotMapped EXCEPT !.result = "panic"]
      ELSE IF w3.err = "NotMapped" THEN NotMapped
      ELSE IF w2.err = "MappedToHugePage" THEN Mapped(m, SubSeq(a, 1, 2))
      ELSE IF w2.err = "NotMapped" THEN NotMapped
      ELSE IF w1.err = "MappedToHugePage" THEN Mapped(m, SubSeq(a, 1, 3))
      ELSE IF w1.err = "NotMapped" THEN NotMapped
      ELSE IF is_unused(m[w1.at][a[4]]) THEN NotMapped
      ELSE Mapped(m, a)

(***************************************************************************)
(* CleanUp::clean_up_addr_range.  A 4 KiB page is its number in address    *)
(* order; a range is [start, end], both included.  The visit of a table    *)
(* is the set of slots <<table, index>> it clears; the frame of the table  *)
(* each of them named is handed to deallocate_frame.                       *)
(***************************************************************************)
\* The 4 KiB pages under one entry of a level L table: ENTRY_COUNT ^ (L - 1).
PagesPerEntry(L) ==
  LET E == ENTRY_COUNT IN <<1, E, E * E, E * E * E>>[L]

page_table_index(n, L) == (n \div PagesPerEntry(L)) % ENTRY_COUNT

\* The part of range r under entry i of the level L table r.start lies in.
SubRange(r, L, i) ==
  LET per_entry  == PagesPerEntry(L)
      table_addr == r.start - (r.start % (per_entry * ENTRY_COUNT))
      start      == table_addr + per_entry * i
      end        == start + per_entry - 1
  IN  [start |-> IF start > r.start THEN start ELSE r.start,
       end   |-> IF end < r.end THEN end ELSE r.end]

\* Mutant: the loop stops before the last entry of the range.
Visited_Short(r, L) ==
  {i \in Index : page_table_index(r.start, L) <= i /\ i < page_table_index(r.end, L)}

\* The entries of a level L table the loop over range r visits.
Visited(r, L) ==
  {i \in Index : page_table_index(r.start, L) <= i /\ i <= page_table_index(r.end, L)}

\* Mutant: only the entries in the range are asked whether they are unused.
AllUnused_InRange(m, t, L, r, cleared) ==
  \A i \in Visited(r, L) : is_unused(m[t][i]) \/ <<t, i>> \in cleared

\* What the visit of table t answers: the whole table is unused by now.
AllUnused(m, t, L, r, cleared) ==
  /\ r.start <= r.end
  /\ \A i \in Index : is_unused(m[t][i]) \/ <<t, i>> \in cleared

VisitTable(m, t, L, r, Visit(_, _, _)) ==
  LET tables == {i \in Visited(r, L) : next_table(m[t][i]).err = "None"}
      next(i) == next_table(m[t][i]).at
      below(i) == Visit(m, next(i), SubRange(r, L, i))
      freed == {i \in tables : AllUnused(m, next(i), L - 1, SubRange(r, L, i), below(i))}
  IN  IF r.start > r.end THEN {}
      ELSE (UNION {below(i) : i \in tables}) \cup {<<t, i>> : i \in freed}

CleanP1(m, t, r) == {}
CleanP2(m, t, r) == VisitTable(m, t, 2, r, CleanP1)
CleanP3(m, t, r) == VisitTable(m, t, 3, r, CleanP2)
CleanP4(m, r)    == VisitTable(m, Root, 4, r, CleanP3)

clean_up_addr_range(r) ==
  LET cleared == CleanP4(mem, r)
      freed   == {addr(mem[s[1]][s[2]]) : s \in cleared}
  IN  /\ UNCHANGED <<told, panicked>>
      /\ mem' = [f \in TableFrames |->
                   IF f \in freed THEN GarbageTable
                   ELSE [i \in Index |-> IF <<f, i>> \in cleared THEN {}
                                         ELSE mem[f][i]]]
      /\ level' = [f \in TableFrames |-> IF f \in freed THEN 0 ELSE level[f]]

WholeRange == [start |-> 0, end |-> PagesPerEntry(4) * ENTRY_COUNT - 1]

\* The ends of a range are pages of the address space.
ASSUME RangesAssumption ==
  \A r \in Ranges : r.start \in 0 .. WholeRange.end /\ r.end \in 0 .. WholeRange.end

clean_up == clean_up_addr_range(WholeRange)

(***************************************************************************)
(* The specification.  The mapping calls are unsafe fns: what their Safety *)
(* sections leave to the caller is the guard here.                         *)
(*   - frames of a size are aligned to it (the type PhysFrame<S>);         *)
(*   - update_flags names a page of the size it was mapped with, and       *)
(*     set_flags_pN_entry an entry that points to a table;                 *)
(*   - flags arguments are the members of MapFlags, LeafFlags, TableFlags, *)
(*     and PAT_HUGE_PAGE is only for huge pages.                           *)
(* CallerContract is what the flags must be like.  The only flag in the    *)
(* mask of addr() it lets through is PAT_HUGE_PAGE, bit 12: BIT_51         *)
(* would name another frame, and in a parent either would name another     *)
(* table.                                                                  *)
(***************************************************************************)
CallerContract ==
  /\ \A f \in MapFlags \cup LeafFlags : f \cap AddrBits \subseteq Below2MiB
  /\ \A f \in TableFlags : f \cap AddrBits = {}
  /\ \A f \in MapFlags \cup TableFlags : PRESENT \in f
  /\ \A f \in TableFlags : HUGE_PAGE \notin f
  /\ {} \notin LeafFlags

Init ==
  /\ mem = [f \in TableFrames |-> IF f = Root THEN ZeroTable ELSE GarbageTable]
  /\ level = [f \in TableFrames |-> IF f = Root THEN 4 ELSE 0]
  /\ told = [p \in Pages |-> NotTold]
  /\ panicked = FALSE

AlignedFrames(page) == {d \in DataFrames : is_aligned(d, Len(page))}
FlagsFor(page, F) == {f \in F : Len(page) = 4 => f \cap AddrBits = {}}
NamesTable(m, s) == /\ TableOf(m, s).err = "None"
                    /\ next_table(EntryOf(m, s)).err = "None"

MapTo ==
  /\ ~panicked
  /\ \E page \in Pages : \E d \in AlignedFrames(page), f \in FlagsFor(page, MapFlags) :
       map_to(page, d, f)
MapToWithTableFlags ==
  /\ ~panicked
  /\ \E page \in Pages :
       \E d \in AlignedFrames(page), f \in FlagsFor(page, MapFlags), t \in TableFlags :
         map_to_with_table_flags(page, d, f, t)
Unmap == ~panicked /\ \E page \in Pages : unmap(page)
UpdateFlags ==
  /\ ~panicked
  /\ \E page \in Pages : \E f \in FlagsFor(page, LeafFlags) :
       /\ Len(page) < 4 => ~NamesTable(mem, page)
       /\ update_flags(page, f)
SetFlagsEntry ==
  /\ ~panicked
  /\ \E page \in Pages, k \in 1 .. 3, f \in TableFlags :
       /\ set_flags_entry(page, k, f)
       /\ NamesTable(mem, SubSeq(page, 1, k))
CleanUp == ~panicked /\ clean_up
CleanUpAddrRange == ~panicked /\ \E r \in Ranges : clean_up_addr_range(r)

Next ==
  \/ MapTo \/ MapToWithTableFlags \/ Unmap \/ UpdateFlags \/ SetFlagsEntry
  \/ CleanUp \/ CleanUpAddrRange

Spec == Init /\ [][Next]_vars

(***************************************************************************)
(* Properties.                                                             *)
(***************************************************************************)
\* The variables have their types.
TypeOK ==
  /\ mem \in [TableFrames -> Table]
  /\ level \in [TableFrames -> Levels]
  /\ told \in [Pages -> Told]
  /\ panicked \in BOOLEAN

\* Entry e of a level n table names a table of the level below.
Pointer(n, e) == n \in 2 .. 4 /\ e # {} /\ HUGE_PAGE \notin e

(***************************************************************************)
(* The tables form a tree under Root that uses each allocated frame once.  *)
(* With this, next_table and create_next_table follow only pointers to     *)
(* tables, and deallocate_frame gets only frames nothing names.            *)
(***************************************************************************)
\* Root is the level 4 table, and its entries are never huge.
RootIsTop(m, lv) ==
  /\ \A f \in TableFrames : lv[f] = 4 <=> f = Root
  /\ \A i \in Index : HUGE_PAGE \notin m[Root][i]
\* A pointer is present and names an allocated table one level down.
PointersDown(m, lv) ==
  \A f \in TableFrames, i \in Index :
    Pointer(lv[f], m[f][i]) => /\ PRESENT \in m[f][i]
                               /\ addr(m[f][i]) \in TableFrames
                               /\ lv[addr(m[f][i])] = lv[f] - 1
\* No two entries name the same table.
NamedOnce(m, lv) ==
  \A g, h \in TableFrames, i, j \in Index :
    (/\ Pointer(lv[g], m[g][i])
     /\ Pointer(lv[h], m[h][j])
     /\ addr(m[g][i]) = addr(m[h][j])) => g = h /\ i = j
\* Every allocated table but Root is named: no call loses a frame, not even a
\* map_to that fails half way.
NoneLost(m, lv) ==
  \A f \in TableFrames :
    lv[f] \in 1 .. 3 => \E g \in TableFrames, i \in Index :
                          Pointer(lv[g], m[g][i]) /\ addr(m[g][i]) = f
IsTree(m, lv) ==
  RootIsTop(m, lv) /\ PointersDown(m, lv) /\ NamedOnce(m, lv) /\ NoneLost(m, lv)

TablesFormTree == IsTree(mem, level)

\* No call made within its contract panics: create_next_table's "entry should
\* be mapped at this point", translate's "level 4 entry has huge page bit set".
Addresses == [1 .. 4 -> Index]
NeverPanics ==
  /\ ~panicked
  /\ \A a \in Addresses : translate(mem, a).result # "panic"

(***************************************************************************)
(* translate agrees with what the callers were told: an address is mapped  *)
(* exactly if a page around it was mapped and not unmapped since, to the   *)
(* frame given to map_to.  Its flags are those of the last map_to or       *)
(* update_flags, besides at most the parent flags of a map_to that failed  *)
(* on the huge page and bits of the frame's address.                       *)
(***************************************************************************)
ParentFlags == {PRESENT, WRITABLE, USER_ACCESSIBLE} \cup UNION TableFlags
TranslateAgrees ==
  \A a \in Addresses :
    LET r == translate(mem, a)
        around == {p \in Pages : p = SubSeq(a, 1, Len(p)) /\ told[p] # NotTold}
    IN  /\ r.result = "Mapped" <=> around # {}
        /\ \A p \in around :
             /\ r.page = p /\ r.frame = told[p].frame
             /\ told[p].flags \subseteq r.flags
             /\ r.flags \subseteq told[p].flags \cup ParentFlags \cup AddrBits

(***************************************************************************)
(* unmap and translate_page answer for the page they are asked about: they *)
(* give back the frame that was mapped, and unmap never takes an entry of  *)
(* another size of page, or of a table, for it.  Except that both refuse a *)
(* huge page that was ever given PAT_HUGE_PAGE: they read the flag as a    *)
(* bit of the address.                                                     *)
(***************************************************************************)
Answer(t) ==
  LET pat == t.flags \cap AddrBits
  IN  [err |-> IF pat = {} THEN "None" ELSE "InvalidFrameAddress", frame |-> t.frame \cup pat]
AnswersAgree ==
  \A p \in Pages :
    /\ told[p] # NotTold => translate_page(mem, p) = Answer(told[p])
    /\ PRESENT \in told[p].flags => unmap_call(mem, p) = Answer(told[p])
    /\ told[p] = NotTold => unmap_call(mem, p).err # "None"

(***************************************************************************)
(* clean_up_addr_range hands out exactly the frames it may.  Reference:    *)
(* the tables the walk of an address of the range goes through.  A freed   *)
(* table is one of them and nothing was mapped under it; afterwards none   *)
(* of them is empty; and clean_up frees every table with no mapping.       *)
(***************************************************************************)
Number(a) == ((a[1] * ENTRY_COUNT + a[2]) * ENTRY_COUNT + a[3]) * ENTRY_COUNT + a[4]
Walked(m, a) == {w.at : w \in {v \in {p3(m, a), p2(m, a), p1(m, a)} : v.err = "None"}}
In(r) == {a \in Addresses : r.start <= Number(a) /\ Number(a) <= r.end}
MappedUnder(m, f) ==
  \E a \in Addresses : f \in Walked(m, a) /\ translate(m, a).result = "Mapped"
FreesExactly(r) ==
  clean_up_addr_range(r) =>
    /\ \A f \in TableFrames : level[f] # 0 /\ level'[f] = 0 =>
         /\ \E a \in In(r) : f \in Walked(mem, a)
         /\ ~MappedUnder(mem, f)
    /\ \A a \in In(r) : \A f \in Walked(mem', a) : ~is_empty(mem'[f])
    /\ r = WholeRange =>
         \A f \in TableFrames \ {Root} : level'[f] # 0 => MappedUnder(mem', f)
CleanUpFreesExactly == [][\A r \in Ranges \cup {WholeRange} : FreesExactly(r)]_vars

(***************************************************************************)
(* A page mapped with map_to grants its rights: every entry on the walk to *)
(* it carries the PRESENT, WRITABLE and USER_ACCESSIBLE flags of the page, *)
(* whichever page the parent tables were created for.  (Only where the     *)
(* flags of tables and pages are left to map_to: LeafFlags, TableFlags {}.)*)
(***************************************************************************)
RightsReachPage ==
  \A p \in {q \in Pages : told[q] # NotTold} : \A k \in 1 .. Len(p) - 1 :
    told[p].flags \cap {PRESENT, WRITABLE, USER_ACCESSIBLE}
      \subseteq EntryOf(mem, SubSeq(p, 1, k))

\* Every step of the page tables is a step of the abstract address space, or
\* leaves it alone: a call, even one that fails half way, changes no mapping
\* but that of its page, and clean_up changes none.
SpaceOf(m) ==
  {[page |-> r.page, frame |-> r.frame, flags |-> r.flags] :
     r \in {t \in {translate(m, a) : a \in Addresses} : t.result = "Mapped"}}
AS == INSTANCE AddressSpace
        WITH Frames <- SUBSET AddrBits, Flags <- SUBSET FlagBits, space <- SpaceOf(mem)
ImplementsAddressSpace == AS!Spec
=============================================================================
