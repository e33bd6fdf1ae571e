------------------------- MODULE RecursivePageTable -------------------------
(***************************************************************************)
(* RecursivePageTable (mapper/recursive_page_table.rs): the mapper that    *)
(* reaches its tables through the level 4 entry that points to the level 4 *)
(* table itself.  It keeps no pointers: it computes virtual addresses      *)
(* ("windows") and relies on the processor to translate them.  So the      *)
(* model has the processor's walk, and its TLB, between the code and mem.  *)
(*                                                                         *)
(* mem, level, told and panicked are those of MappedPageTable; panicked    *)
(* also stands for a page fault of the mapper.  The mapper flushes no      *)
(* window: only a reload of CR3 by its caller does.  Until then a window   *)
(* may show a table that is gone, and a call that goes through it has      *)
(* left the tables.  What it does then is not followed: the model records  *)
(* the call in strayed, and stops.                                         *)
(***************************************************************************)
EXTENDS MappedPageTable

CONSTANTS
  recursive_index,   \* the level 4 entry that points to Root
  MaxRemovals        \* bound: removals between two loads of CR3

\* No table lies in a frame that is mapped.
ASSUME RecursiveAssumption ==
  /\ recursive_index \in Index
  /\ MaxRemovals \in Nat
  /\ \A d \in DataFrames, b \in SUBSET Below2MiB : d \cup b \notin TableFrames

VARIABLES
  tlb,       \* the window translations the processor may have cached: all that
             \* were valid after some call since CR3 was last loaded
  removed,   \* history: how many calls since then took away an entry that the
             \* walks of windows go through
  strayed    \* history: the call that left the tables, with its page, if any
rec_vars == <<mem, level, told, panicked, tlb, removed, strayed>>

RecursiveEntry == set_addr(Root, {PRESENT, WRITABLE})
\* The tables as MappedPageTable knows them, without the recursive entry.
Plain(m) == [m EXCEPT ![Root][recursive_index] = {}]

(***************************************************************************)
(* Windows: the pages through which the code accesses a table, for a page  *)
(* or a prefix of one.                                                     *)
(***************************************************************************)
p3_page(p) == <<recursive_index, recursive_index, recursive_index, p[1]>>

\* Mutant: the indices in the wrong order.
p2_page_Swapped(p) == <<recursive_index, recursive_index, p[2], p[1]>>

p2_page(p) == <<recursive_index, recursive_index, p[1], p[2]>>
p1_page(p) == <<recursive_index, p[1], p[2], p[3]>>

\* The window of the table at depth k of page p's walk.
WindowOf(p, k) == CASE k = 2 -> p3_page(p) [] k = 3 -> p2_page(p) [] k = 4 -> p1_page(p)

UserAddresses == {a \in Addresses : a[1] # recursive_index}
Windows == {WindowOf(a, k) : a \in UserAddresses, k \in 2 .. 4}

\* The processor's walk (external): the frame page v is in, as a set that is
\* empty for a page fault.  Outside the tables a walk stays where it is: in a huge
\* page (so a window below the entry of a huge page shows the huge page), or in
\* memory that the model does not know.
Step(m, at, i) ==
  UNION {CASE f \notin TableFrames -> {f}
           [] f \in TableFrames /\ PRESENT \in m[f][i] -> {addr(m[f][i])}
           [] OTHER -> {} : f \in at}
Walk(m, v) ==
  Step(m, Step(m, Step(m, Step(m, {Root}, v[1]), v[2]), v[3]), v[4])
Translations(m) == UNION {{<<v, f>> : f \in Walk(m, v)} : v \in Windows}

\* What an access to v may hit instead of what the walk finds.
Stale(T, m, v) == {x[2] : x \in {y \in T : y[1] = v}} \ Walk(m, v)

RecBegin == [mem |-> mem, level |-> level, tlb |-> tlb, at |-> Root, err |-> "None"]

(***************************************************************************)
(* map_to_with_table_flags.  n is the level of the table to be created.    *)
(***************************************************************************)
\* Access to the table behind an entry, by the walk or by a translation that is
\* out of date; a new table is zeroed through its window.
Enter(c, v, e, created) ==
  LET tables == Walk(c.mem, v)
      zeroed(t) == IF created /\ t \in TableFrames THEN [c.mem EXCEPT ![t] = ZeroTable]
                   ELSE c.mem
  IN  CASE HUGE_PAGE \in flags(e) -> {[c EXCEPT !.err = "ParentEntryHugePage"]}
        [] HUGE_PAGE \notin flags(e) /\ tables # {} /\ tables \subseteq TableFrames ->
             {[c EXCEPT !.at = t, !.mem = zeroed(t)] : t \in tables} \cup
             {[c EXCEPT !.err = "strayed", !.mem = zeroed(t)] : t \in Stale(c.tlb, c.mem, v)}
        [] OTHER -> {[c EXCEPT !.err = "panic"]}

\* Mutant: a new table gets the given flags only.
TableBits_AsGiven(insert_flags) == insert_flags

\* PRESENT and WRITABLE are set whatever the caller asks for.
TableBits(insert_flags) == {PRESENT, WRITABLE} \cup insert_flags

rec_create_next_table(c, i, v, n, insert_flags) ==
  LET e    == c.mem[c.at][i]
      kept == InsertFlags(e, insert_flags)
      free == {f \in TableFrames : c.level[f] = 0}
      new(f) == set_addr(f, TableBits(insert_flags))
  IN  CASE c.err # "None" -> {c}
        [] c.err = "None" /\ is_unused(e) ->
             {[c EXCEPT !.err = "FrameAllocationFailed"]} \cup
             UNION {Enter([c EXCEPT !.mem[c.at][i] = new(f), !.level[f] = n],
                          v, new(f), TRUE) : f \in free}
        [] OTHER -> Enter([c EXCEPT !.mem[c.at][i] = kept], v, kept, FALSE)

rec_create_p3(p, pf) == rec_create_next_table(RecBegin, p[1], p3_page(p), 3, pf)
rec_create_p2(p, pf) ==
  UNION {rec_create_next_table(c, p[2], p2_page(p), 2, pf) : c \in rec_create_p3(p, pf)}
rec_create_p1(p, pf) ==
  UNION {rec_create_next_table(c, p[3], p1_page(p), 1, pf) : c \in rec_create_p2(p, pf)}
rec_create_parents(p, pf) ==
  CASE Len(p) = 2 -> rec_create_p3(p, pf)
    [] Len(p) = 3 -> rec_create_p2(p, pf)
    [] OTHER      -> rec_create_p1(p, pf)

\* A call that left the tables, and what the processor may have cached after one
\* that did not.
Stray(call, page) == {[call |-> call, page |-> page]}
Cached(m) == tlb \cup Translations(m)

rec_map_to(page, frame, f, parent_table_flags) ==
  \E parents \in rec_create_parents(page, parent_table_flags) :
    LET c == WriteLeaf(parents, page, frame, f)
    IN  /\ mem' = c.mem
        /\ level' = c.level
        /\ told' = IF c.err = "None"
                   THEN [told EXCEPT ![page] =
                           [frame |-> frame, flags |-> LeafBits(page, f)]]
                   ELSE told
        /\ panicked' = (c.err = "panic")
        /\ tlb' = Cached(c.mem)
        /\ strayed' = IF c.err = "strayed" THEN Stray("map_to", page) ELSE {}
        /\ UNCHANGED removed

(***************************************************************************)
(* The calls that read their way down.  unmap looks at HUGE_PAGE and       *)
(* PRESENT of the parent entries, the others only at is_unused; then they  *)
(* follow the window, whatever it shows.                                   *)
(***************************************************************************)
\* The table at depth k, and its entry, as the windows show them.
Seen(m, s, k) == IF k = 1 THEN {Root} ELSE Walk(m, WindowOf(s, k))
InTable(m, s, k) == Seen(m, s, k) \cap TableFrames # {}
EntrySeen(m, s, k) == UNION {m[t][s[k]] : t \in Seen(m, s, k) \cap TableFrames}

\* Mutant: unmap looks at the parent entries the way the other calls do.
strict_error_Lax(e) == IF is_unused(e) THEN "PageNotMapped" ELSE "None"

strict_error(e) ==
  IF HUGE_PAGE \in flags(e) THEN "ParentEntryHugePage"
  ELSE IF PRESENT \notin flags(e) THEN "PageNotMapped" ELSE "None"
lax_error(e) == IF is_unused(e) THEN "PageNotMapped" ELSE "None"

\* The first error on the way to slot s; "stray" if the next window faults or
\* shows memory that is no table, the way the walk goes.
parents_error(m, s, strict) ==
  LET err(k) == IF strict THEN strict_error(EntrySeen(m, s, k))
                ELSE lax_error(EntrySeen(m, s, k))
      bad(k) == err(k) # "None" \/ ~InTable(m, s, k + 1)
      first  == CHOOSE k \in 1 .. Len(s) - 1 : bad(k) /\ \A j \in 1 .. k - 1 : ~bad(j)
  IN  CASE \A k \in 1 .. Len(s) - 1 : ~bad(k) -> "None"
        [] OTHER -> IF err(first) # "None" THEN err(first) ELSE "stray"

rec_unmap_call(m, page) ==
  LET err == parents_error(m, page, TRUE)
      n   == Len(page)
      e   == EntrySeen(m, page, n)
  IN  [err |-> CASE err # "None" -> err
                 [] err = "None" /\ PRESENT \notin flags(e) -> "PageNotMapped"
                 [] err = "None" /\ PRESENT \in flags(e) /\ n < 4
                      /\ HUGE_PAGE \notin flags(e) -> "ParentEntryHugePage"
                 [] OTHER -> IF is_aligned(addr(e), n) THEN "None"
                             ELSE "InvalidFrameAddress",
       frame |-> IF err = "None" THEN addr(e) ELSE {}]

rec_flag_update_error(m, s) ==
  LET err == parents_error(m, s, FALSE)
  IN  IF err = "None" /\ is_unused(EntrySeen(m, s, Len(s))) THEN "PageNotMapped" ELSE err

rec_translate_page(m, page) ==
  LET err == rec_flag_update_error(m, page)
      e   == EntrySeen(m, page, Len(page))
  IN  [err |-> CASE err # "None" -> err
                 [] err = "None" /\ ~is_aligned(addr(e), Len(page)) -> "InvalidFrameAddress"
                 [] OTHER -> "None",
       frame |-> IF err = "None" THEN addr(e) ELSE {}]

\* The slot translate stops at: the first entry that is unused or huge, or the
\* level 1 entry.
rec_translate(m, a) ==
  LET stops(k) == k = 4 \/ is_unused(EntrySeen(m, a, k)) \/ HUGE_PAGE \in flags(EntrySeen(m, a, k))
      depth == CHOOSE k \in 1 .. 4 : stops(k) /\ \A j \in 1 .. k - 1 : ~stops(j)
      e     == EntrySeen(m, a, depth)
  IN  CASE ~InTable(m, a, depth) -> [NotMapped EXCEPT !.result = "stray"]
        [] InTable(m, a, depth) /\ is_unused(e) -> NotMapped
        [] InTable(m, a, depth) /\ ~is_unused(e) /\ depth = 1 ->
             [NotMapped EXCEPT !.result = "panic"]
        [] OTHER -> [result |-> "Mapped", page |-> SubSeq(a, 1, depth),
                     frame |-> containing_address(addr(e), depth), flags |-> flags(e)]

\* A write to slot s through its window.
Write(s, e) ==
  mem' = [mem EXCEPT ![CHOOSE t \in Seen(mem, s, Len(s)) : TRUE][s[Len(s)]] = e]

rec_unmap(page) ==
  /\ rec_unmap_call(mem, page).err = "None"
  /\ Write(page, {})
  /\ told' = [told EXCEPT ![page] = NotTold]
  /\ tlb' = Cached(mem')
  /\ removed' = removed + (IF Len(page) < 4 THEN 1 ELSE 0)
  /\ removed' <= MaxRemovals
  /\ UNCHANGED <<level, panicked, strayed>>

rec_set_flags(s, f) ==
  /\ rec_flag_update_error(mem, s) = "None"
  /\ Write(s, set_flags(EntrySeen(mem, s, Len(s)), f))
  /\ tlb' = Cached(mem')
  /\ UNCHANGED <<level, panicked, removed, strayed>>

\* The way to slot s may leave the tables: by the walk itself, or because the
\* translation of a window on it is out of date.
Strays(s, strict) ==
  \/ parents_error(mem, s, strict) = "stray"
  \/ \E k \in 2 .. Len(s) : /\ parents_error(mem, SubSeq(s, 1, k), strict) = "None"
                            /\ Stale(tlb, mem, WindowOf(s, k)) # {}

(***************************************************************************)
(* clean_up_addr_range, with the tables found through their windows.  The  *)
(* recursive entry is passed over.  (Windows of tables still to be visited *)
(* do not change while the visit clears other slots.)                      *)
(***************************************************************************)
\* The page with number n, as indices.
PageOf(n) == [k \in 1 .. 4 |-> page_table_index(n, 5 - k)]

\* The entries behind which clean_up looks for a table.
Enters(e, L, i) ==
  /\ HUGE_PAGE \notin flags(e)
  /\ PRESENT \in flags(e)
  /\ ~(L = 4 /\ i = recursive_index)

RecVisit(m, t, L, r, Visit(_, _, _)) ==
  LET tables   == {i \in Visited(r, L) : Enters(m[t][i], L, i)}
      sub(i)   == SubRange(r, L, i)
      next(i)  == CHOOSE f \in Walk(m, WindowOf(PageOf(sub(i).start), 6 - L)) : TRUE
      below(i) == Visit(m, next(i), sub(i))
      freed    == {i \in tables : AllUnused(m, next(i), L - 1, sub(i), below(i))}
  IN  IF r.start > r.end THEN {}
      ELSE (UNION {below(i) : i \in tables}) \cup {<<t, i>> : i \in freed}

RecCleanP2(m, t, r) == RecVisit(m, t, 2, r, CleanP1)
RecCleanP3(m, t, r) == RecVisit(m, t, 3, r, RecCleanP2)
RecCleanP4(m, r)    == RecVisit(m, Root, 4, r, RecCleanP3)

rec_clean_up_addr_range(r) ==
  LET cleared == RecCleanP4(mem, r)
      freed   == {addr(mem[s[1]][s[2]]) : s \in cleared}
  IN  /\ UNCHANGED <<told, panicked>>
      /\ mem' = [f \in TableFrames |->
                   IF f \in freed THEN GarbageTable
                   ELSE [i \in Index |-> IF <<f, i>> \in cleared THEN {} ELSE mem[f][i]]]
      /\ level' = [f \in TableFrames |-> IF f \in freed THEN 0 ELSE level[f]]
      /\ tlb' = Cached(mem')
      /\ removed' = removed + (IF cleared # {} THEN 1 ELSE 0)
      /\ removed' <= MaxRemovals
      /\ UNCHANGED strayed

(***************************************************************************)
(* The specification.  Callers name no page under the recursive entry, and *)
(* leave PRESENT and WRITABLE of the entries of tables.  RecContract is    *)
(* what is asked of the flags; the new tables get PRESENT from the mapper. *)
(* Callers reload CR3 when they like: nothing asks them to.                *)
(***************************************************************************)
RecContract ==
  /\ \A f \in MapFlags \cup LeafFlags : f \cap AddrBits \subseteq Below2MiB
  /\ \A f \in TableFlags : f \cap AddrBits = {}
  /\ \A f \in MapFlags : PRESENT \in f
  /\ \A f \in TableFlags : HUGE_PAGE \notin f
  /\ {} \notin LeafFlags

RecInit ==
  /\ mem = [f \in TableFrames |->
              IF f = Root THEN [ZeroTable EXCEPT ![recursive_index] = RecursiveEntry]
              ELSE GarbageTable]
  /\ level = [f \in TableFrames |-> IF f = Root THEN 4 ELSE 0]
  /\ told = [p \in Pages |-> NotTold]
  /\ panicked = FALSE
  /\ tlb = {} /\ removed = 0 /\ strayed = {}

UserPages == {p \in Pages : p[1] # recursive_index}
Running == ~panicked /\ strayed = {}

RecMapTo ==
  /\ Running
  /\ \E page \in UserPages : \E d \in AlignedFrames(page), f \in FlagsFor(page, MapFlags) :
       rec_map_to(page, d, f, f \cap {PRESENT, WRITABLE, USER_ACCESSIBLE})
RecMapToWithTableFlags ==
  /\ Running
  /\ \E page \in UserPages :
       \E d \in AlignedFrames(page), f \in FlagsFor(page, MapFlags), t \in TableFlags :
         rec_map_to(page, d, f, t)
RecUnmap == Running /\ \E page \in UserPages : rec_unmap(page)
RecUpdateFlags ==
  /\ Running
  /\ \E page \in UserPages : \E f \in FlagsFor(page, LeafFlags) :
       /\ Len(page) < 4 => ~NamesTable(Plain(mem), page)
       /\ rec_set_flags(page, LeafBits(page, f))
       /\ told' = Retold(told, page, f)
RecSetFlagsEntry ==
  /\ Running
  /\ \E page \in UserPages, k \in 1 .. 3, f \in TableFlags :
       /\ k < Len(page) /\ {PRESENT, WRITABLE} \subseteq f
       /\ NamesTable(Plain(mem), SubSeq(page, 1, k))
       /\ rec_set_flags(SubSeq(page, 1, k), f)
       /\ UNCHANGED told
RecCleanUp == Running /\ rec_clean_up_addr_range(WholeRange)
RecCleanUpAddrRange == Running /\ \E r \in Ranges : rec_clean_up_addr_range(r)

\* One of the calls that read their way down leaves the tables.
LeavesTables(call, s, strict) ==
  /\ Strays(s, strict)
  /\ strayed' = Stray(call, s)
  /\ UNCHANGED <<mem, level, told, panicked, tlb, removed>>
RecStray ==
  /\ Running
  /\ \/ \E page \in UserPages : LeavesTables("unmap", page, TRUE)
     \/ \E page \in UserPages :
          /\ Len(page) < 4 => ~NamesTable(Plain(mem), page)
          /\ LeafFlags # {} /\ LeavesTables("update_flags", page, FALSE)
     \/ \E page \in UserPages, k \in 1 .. 3 :
          /\ k < Len(page) /\ NamesTable(Plain(mem), SubSeq(page, 1, k))
          /\ LeavesTables("set_flags", SubSeq(page, 1, k), FALSE)
     \/ \E r \in Ranges \cup {WholeRange} : \E a \in UserAddresses \cap In(r) :
          LeavesTables("clean_up", a, TRUE)

\* The caller loads CR3 (Cr3::write, tlb::flush_all): every window is walked anew.
RecReload ==
  /\ Running
  /\ tlb' = Translations(mem) /\ removed' = 0
  /\ UNCHANGED <<mem, level, told, panicked, strayed>>

RecNext ==
  \/ RecMapTo \/ RecMapToWithTableFlags \/ RecUnmap \/ RecUpdateFlags
  \/ RecSetFlagsEntry \/ RecCleanUp \/ RecCleanUpAddrRange \/ RecStray \/ RecReload

RecSpec == RecInit /\ [][RecNext]_rec_vars

(***************************************************************************)
(* Properties.                                                             *)
(***************************************************************************)
\* No call faults, and none leaves the tables but in two ways: through a window
\* that is out of date, which takes an unmap of a huge page or a clean_up since
\* CR3 was last loaded; and update_flags of a page inside a mapped huge page,
\* where the check of the parent entry is is_unused only.
InsideHugePage(p) ==
  \E q \in UserPages : told[q] # NotTold /\ Len(q) < Len(p) /\ q = SubSeq(p, 1, Len(q))
RecNeverFaults ==
  /\ ~panicked
  /\ \A x \in strayed : removed > 0 \/ (x.call = "update_flags" /\ InsideHugePage(x.page))

\* As long as no call has left them, the tables apart from the recursive entry,
\* which no call touches, are a tree that names each allocated frame once, and
\* "PRESENT and WRITABLE are always set for higher level page table entries".
RecTablesFormTree ==
  strayed = {} =>
    /\ mem[Root][recursive_index] = RecursiveEntry
    /\ IsTree(Plain(mem), level)
    /\ \A f \in TableFrames, i \in Index :
         Pointer(level[f], mem[f][i]) => {PRESENT, WRITABLE} \subseteq mem[f][i]

\* The windows work: for every table on the walk of an address, the processor walks
\* the window of that table to this table; and it has no other translation cached,
\* unless an entry was taken away since CR3 was last loaded.
WindowsReachTables ==
  strayed = {} =>
    \A a \in UserAddresses, k \in 2 .. 4 :
      LET t == TableOf(Plain(mem), SubSeq(a, 1, k))
          v == WindowOf(a, k)
      IN  t.err = "None" => /\ Walk(mem, v) = {t.at}
                            /\ removed = 0 => Stale(tlb, mem, v) = {}

\* RecursivePageTable answers as MappedPageTable does on the same tables, with one
\* exception: for a page inside a huge page, translate_page and the flag updates
\* go on into the huge page where MappedPageTable answers ParentEntryHugePage.
AnswersLikeMapped ==
  strayed = {} =>
    /\ \A a \in UserAddresses : rec_translate(mem, a) = translate(Plain(mem), a)
    /\ \A p \in UserPages :
         /\ rec_unmap_call(mem, p) = unmap_call(Plain(mem), p)
         /\ IF TableOf(Plain(mem), p).err = "MappedToHugePage"
            THEN /\ rec_translate_page(mem, p).err = "stray"
                 /\ rec_flag_update_error(mem, p) = "stray"
            ELSE /\ rec_translate_page(mem, p) = translate_page(Plain(mem), p)
                 /\ rec_flag_update_error(mem, p) = flag_update_error(Plain(mem), p)

\* It makes the same promise: every step of the tables is a step of the abstract
\* address space or leaves it alone, until a call leaves the tables.
RecAS == INSTANCE AddressSpace
           WITH Frames <- SUBSET AddrBits, Flags <- SUBSET FlagBits,
                space <- SpaceOf(Plain(mem))
RecImplementsAddressSpace ==
  RecAS!Init /\ [][strayed' = {} => RecAS!Next \/ SpaceOf(Plain(mem))' = SpaceOf(Plain(mem))]_rec_vars

\* What create_next_table's documentation says ("a new frame is allocated from the
\* given allocator, zeroed, and the entry is updated"): no table that is in use
\* holds what its frame held before.
NewTablesZeroed == \A f \in TableFrames, i \in Index : level[f] # 0 => mem[f][i] # GarbageEntry
=============================================================================
