-------------------------------- MODULE Tlb --------------------------------
(***************************************************************************)
(* The translations one processor caches, the flushes a Mapper's answers   *)
(* ask for (MapperFlush and MapperFlushAll, mapper/mod.rs), and the        *)
(* instructions that empty the cache: instructions/tlb.rs and Cr3 in       *)
(* registers/control.rs.                                                   *)
(*                                                                         *)
(* A Mapper may work on any of several address spaces, the current one or  *)
(* not.  The pages of Private are under one table per space; the pages of  *)
(* Shared are under one table that every space links, and are mapped       *)
(* GLOBAL.  map_to is split where the processor can look in between: a new *)
(* table is linked, then zeroed, then its entry is written                 *)
(* (create_next_table).                                                    *)
(***************************************************************************)
(* due holds the pages whose entries changed and that no instruction has   *)
(* flushed since for their space; ignore()ing or dropping a MapperFlush is *)
(* to take no step.  A call keeps the promises that its instruction keeps, *)
(* which for flush and flush_all are fewer than their documentation says.  *)
(* A space has one PCID, which write_pcid is given; but flush_all and      *)
(* Cr3::write load what Cr3Flags holds of the low bits of CR3, and may so  *)
(* take a space to another PCID.                                           *)
(***************************************************************************)
EXTENDS Integers, FiniteSets

CONSTANTS
  Spaces,          \* frames of level 4 tables
  Private, Shared, \* pages
  Frames,
  FramesFor(_),    \* those that a page is mapped to
  PcidOf(_),       \* the PCID of a space, as the set of its bits
  PcidEnabled,     \* the values of CR4.PCID in question
  FlagSets,        \* the Cr3Flags that Cr3::write and update are given
  DirtyFrames,     \* may a new table's frame hold old data?
  None

Cr3Flags == {3, 4}

ASSUME TlbAssumption ==
  /\ Private \cap Shared = {} /\ "shared" \notin Spaces
  /\ \A p \in Private \cup Shared : FramesFor(p) \subseteq Frames
  /\ None \notin (Frames \X {"r", "rw"}) \cup {"r", "rw"}
  /\ PcidEnabled \subseteq BOOLEAN /\ DirtyFrames \in BOOLEAN
  /\ \A s, t \in Spaces : PcidOf(s) \subseteq 0 .. 11 /\ (PcidOf(s) = PcidOf(t) => s = t)
  /\ FlagSets \subseteq SUBSET Cr3Flags
  /\ {} \in FlagSets /\ \A s \in Spaces : PcidOf(s) \cap Cr3Flags \in FlagSets

VARIABLES
  pcide,           \* CR4.PCID
  cr3,             \* the frame and the low twelve bits of CR3
  table,           \* the entry of an owner's table: the rights it passes on, or none
  entry,           \* the entries of pages
  tlb,             \* cached translations
  due,             \* history: flush promises that nobody kept
  mixed,           \* history: PCIDs another space than theirs was loaded with
  call             \* the map_to in progress

vars == <<pcide, cr3, table, entry, tlb, due, mixed, call>>

Pages == Private \cup Shared
Rights == {"r", "rw"}
Leaf == Frames \X Rights
Wild == <<"wild", "rw">>             \* old data read as an entry

\* The entry of page p in space s; a shared page has one for all.
Owner(s, p) == IF p \in Shared THEN "shared" ELSE s
Slot(s, p) == <<Owner(s, p), p>>
Owners == Spaces \cup {"shared"}
SlotsOf(o) == {o} \X (IF o = "shared" THEN Shared ELSE Private)
Slots == (Spaces \X Private) \cup ({"shared"} \X Shared)

\* Tags of cached translations.  Without PCIDs all carry 0.
Tag(low) == IF pcide THEN low ELSE {}
Tags == {PcidOf(s) : s \in Spaces} \cup FlagSets
TaggedBy(tags) == tags \X Private
Global == {12}                       \* no PCID has bit 12
Globals == {Global} \X Shared

\* Types, and what CR3 holds below the frame: the PCID of the space, or one that a
\* flush_all or Cr3::write took it to.
TypeOK ==
  /\ pcide \in PcidEnabled
  /\ cr3.frame \in Spaces
  /\ cr3.low \in IF pcide THEN {PcidOf(cr3.frame)} \cup mixed ELSE FlagSets
  /\ mixed \subseteq IF pcide THEN FlagSets ELSE {}
  /\ table \in [Owners -> Rights \cup {None}]
  /\ entry \in [Slots -> Leaf \cup {None, Wild}]
  /\ tlb \in [TaggedBy(Tags) \cup Globals -> Leaf \cup {None, Wild}]
  /\ due \subseteq Slots
  /\ call = None \/ call \in [space : Spaces, page : Private, leaf : Leaf,
                              pc : {"zero", "write"}]

(***************************************************************************)
(* The processor (external).                                               *)
(***************************************************************************)
Narrow(leaf, rights) == IF rights = "r" THEN <<leaf[1], "r">> ELSE leaf

\* What a walk finds for page p: the entry, with the rights all tables grant.
Walk(p) ==
  LET e == entry[Slot(cr3.frame, p)]
      up == table[Owner(cr3.frame, p)]
  IN  IF e = None \/ up = None THEN None ELSE Narrow(e, up)

Key(p) == <<IF p \in Shared THEN Global ELSE Tag(cr3.low), p>>
Without(keys) == [k \in DOMAIN tlb |-> IF k \in keys THEN None ELSE tlb[k]]

\* A walk, asked for or speculative, fills the TLB on a miss.
Fill(p) ==
  /\ tlb[Key(p)] = None /\ Walk(p) # None
  /\ tlb' = [tlb EXCEPT ![Key(p)] = Walk(p)]
  /\ UNCHANGED <<pcide, cr3, table, entry, due, mixed, call>>

\* What the instructions drop.  invlpg: the page, for the current PCID or global.
invlpg(p) == {Key(p)}

\* mov to cr3: without PCIDs all but global translations; with PCIDs those of the new
\* PCID, unless bit 63 is set.
mov_cr3(top_bit, low) ==
  IF ~pcide THEN TaggedBy(Tags) ELSE IF top_bit THEN {} ELSE TaggedBy({low})

\* invpcid with its type and descriptor.
invpcid(kind, desc) ==
  CASE kind = 0 -> {<<desc.pcid, desc.address>>}
    [] kind = 1 -> TaggedBy({desc.pcid})
    [] kind = 2 -> DOMAIN tlb
    [] kind = 3 -> TaggedBy(Tags)

(***************************************************************************)
(* What a Mapper changes, and the promise it returns.                      *)
(***************************************************************************)
\* create_next_table passes on the rights of the new page, and never takes one away.
Joined(old, new) == IF "rw" \in {old, new} THEN "rw" ELSE "r"

MapperFrame == call = None /\ UNCHANGED <<pcide, cr3, tlb, mixed>>

\* map_to where the tables exist.
MapTo(s, p, leaf) ==
  /\ MapperFrame
  /\ table[Owner(s, p)] # None /\ entry[Slot(s, p)] = None
  /\ table' = [table EXCEPT ![Owner(s, p)] = Joined(@, leaf[2])]
  /\ entry' = [entry EXCEPT ![Slot(s, p)] = leaf]
  /\ due' = due \cup {Slot(s, p)}
  /\ UNCHANGED call

\* map_to where the table is missing: create_next_table allocates a frame and links it,
LinkTable(s, p, leaf) ==
  /\ MapperFrame
  /\ p \in Private /\ table[s] = None
  /\ table' = [table EXCEPT ![s] = leaf[2]]
  /\ entry' = [x \in Slots |-> IF x[1] # s THEN entry[x]
                               ELSE IF DirtyFrames THEN Wild ELSE None]
  /\ call' = [space |-> s, page |-> p, leaf |-> leaf, pc |-> "zero"]
  /\ UNCHANGED due

\* zeroes it through the mapping,
ZeroTable ==
  /\ call # None /\ call.pc = "zero"
  /\ entry' = [x \in Slots |-> IF x[1] = call.space THEN None ELSE entry[x]]
  /\ call' = [call EXCEPT !.pc = "write"]
  /\ UNCHANGED <<pcide, cr3, table, tlb, due, mixed>>

\* and map_to writes the entry and returns its promise.
WriteEntry ==
  /\ call # None /\ call.pc = "write"
  /\ LET slot == Slot(call.space, call.page)
     IN  entry' = [entry EXCEPT ![slot] = call.leaf] /\ due' = due \cup {slot}
  /\ call' = None
  /\ UNCHANGED <<pcide, cr3, table, tlb, mixed>>

Unmap(s, p) ==
  /\ MapperFrame
  /\ entry[Slot(s, p)] # None
  /\ entry' = [entry EXCEPT ![Slot(s, p)] = None]
  /\ due' = due \cup {Slot(s, p)}
  /\ UNCHANGED <<table, call>>

UpdateFlags(s, p, rights) ==
  /\ MapperFrame
  /\ entry[Slot(s, p)] # None
  /\ entry' = [entry EXCEPT ![Slot(s, p)] = <<@[1], rights>>]
  /\ due' = due \cup {Slot(s, p)}
  /\ UNCHANGED <<table, call>>

\* set_flags_p4_entry, _p3_, _p2_: a promise to flush everything, here all that the
\* table leads to.
SetFlagsTableEntry(o, rights) ==
  /\ MapperFrame
  /\ table[o] # None
  /\ table' = [table EXCEPT ![o] = rights]
  /\ due' = due \cup SlotsOf(o)
  /\ UNCHANGED <<entry, call>>

\* clean_up frees the empty table of a space.  It promises nothing.  (Its Safety section
\* excludes tables that are used more than once, as that of the shared pages is.)
CleanUp(s) ==
  /\ MapperFrame
  /\ table[s] # None /\ \A p \in Private : entry[Slot(s, p)] = None
  /\ table' = [table EXCEPT ![s] = None]
  /\ UNCHANGED <<entry, due, call>>

(***************************************************************************)
(* Keeping promises: MapperFlush, MapperFlushAll, tlb.rs and Cr3.          *)
(***************************************************************************)
read == [frame |-> cr3.frame, flags |-> cr3.low \cap Cr3Flags]
read_pcid == [frame |-> cr3.frame, pcid |-> cr3.low]

TlbFrame == call = None /\ UNCHANGED <<pcide, table, entry, call>>

write_raw_impl(top_bit, frame, val) ==
  /\ cr3' = [frame |-> frame, low |-> val]
  /\ tlb' = Without(mov_cr3(top_bit, val))
write(frame, flags) == write_raw_impl(FALSE, frame, flags)
\* Mutant: only Cr3Flags are written.
write_pcid_Flags(frame, pcid) == write(frame, pcid \cap Cr3Flags)
\* Mutant: with the bit of write_pcid_no_flush.
write_pcid_Keeps(frame, pcid) == write_raw_impl(TRUE, frame, pcid)
write_pcid(frame, pcid) == write_raw_impl(FALSE, frame, pcid)
write_pcid_no_flush(frame, pcid) == write_raw_impl(TRUE, frame, pcid)

tlb_flush(p) == tlb' = Without(invlpg(p)) /\ UNCHANGED cr3
tlb_flush_all == write(read.frame, read.flags)

\* The promises a load of CR3 that flushes keeps, and the PCIDs that hold, or may come
\* to hold, translations of another space after it.
Reloaded(low) ==
  IF pcide THEN {x \in Spaces \X Private : PcidOf(x[1]) = low} ELSE Spaces \X Private
MixedBy(s, low) == IF pcide /\ low # PcidOf(s) THEN mixed \cup {low} ELSE mixed \ {low}

\* MapperFlush::flush: with PCIDs it reaches a page of another space only if the page
\* is global.
Flush(slot) ==
  /\ TlbFrame
  /\ slot \in due
  /\ tlb_flush(slot[2])
  /\ due' = IF slot[1] = "shared" \/ ~pcide \/ PcidOf(slot[1]) = cr3.low
            THEN due \ {slot} ELSE due
  /\ UNCHANGED mixed

\* tlb::flush_all and MapperFlushAll::flush_all, by which the caller takes the promises
\* in kept for kept.
FlushAll(kept) ==
  /\ TlbFrame
  /\ tlb_flush_all
  /\ due' = due \ kept
  /\ mixed' = MixedBy(cr3.frame, read.flags)

\* Cr3::write and write_raw switch to space s; Cr3::update hands what read returns to an
\* f that chooses the flags, and perhaps the frame.
SwitchTo(s, flags) ==
  /\ TlbFrame
  /\ write(s, flags)
  /\ due' = due \ Reloaded(flags)
  /\ mixed' = MixedBy(s, flags)

\* Cr3::write_pcid, and update_pcid with an f that sets both.
SwitchToPcid(s) ==
  /\ TlbFrame
  /\ pcide
  /\ write_pcid(s, PcidOf(s))
  /\ due' = due \ Reloaded(PcidOf(s))
  /\ mixed' = MixedBy(s, PcidOf(s))

\* update_pcid with an f that leaves all alone: a flush of the current PCID.
UpdatePcid ==
  /\ TlbFrame
  /\ pcide
  /\ write_pcid(read_pcid.frame, read_pcid.pcid)
  /\ due' = due \ Reloaded(read_pcid.pcid)
  /\ mixed' = MixedBy(read_pcid.frame, read_pcid.pcid)

\* write_pcid_no_flush and update_pcid_no_flush.
SwitchToPcidNoFlush(s) ==
  /\ TlbFrame
  /\ pcide
  /\ write_pcid_no_flush(s, PcidOf(s))
  /\ UNCHANGED <<due, mixed>>

\* InvPcidCommand, the descriptor flush_pcid builds for it and the type it passes.
Commands ==
  [name : {"Address"}, space : Spaces, page : Private]
  \cup [name : {"Single"}, space : Spaces]
  \cup [name : {"All", "AllExceptGlobal"}]
Kind(command) ==
  CASE command.name = "Address" -> 0
    [] command.name = "Single" -> 1
    [] command.name = "All" -> 2
    [] command.name = "AllExceptGlobal" -> 3
Desc(command) ==
  [pcid |-> IF Kind(command) \in {0, 1} THEN PcidOf(command.space) ELSE {},
   address |-> IF Kind(command) = 0 THEN command.page ELSE 0]

\* The promises a command keeps, as InvPcidCommand documents it.
KeptBy(command) ==
  CASE command.name = "Address" -> {Slot(command.space, command.page)}
    [] command.name = "Single" -> SlotsOf(command.space)
    [] command.name = "All" -> Slots
    [] command.name = "AllExceptGlobal" -> Spaces \X Private
\* The PCIDs it leaves without a translation.
Emptied(command) ==
  CASE command.name = "Address" -> {}
    [] command.name = "Single" -> {PcidOf(command.space)}
    [] command.name \in {"All", "AllExceptGlobal"} -> Tags

\* flush_pcid.  Without PCIDs the instruction takes PCID 0 only.
FlushPcid(command) ==
  /\ TlbFrame
  /\ pcide \/ Desc(command).pcid = {}
  /\ tlb' = Without(invpcid(Kind(command), Desc(command)))
  /\ due' = due \ (IF pcide \/ Kind(command) \notin {0, 1} THEN KeptBy(command) ELSE {})
  /\ mixed' = mixed \ (Emptied(command) \ {cr3.low})
  /\ UNCHANGED cr3

Init ==
  /\ pcide \in PcidEnabled
  /\ cr3 \in {[frame |-> s, low |-> Tag(PcidOf(s))] : s \in Spaces}
  /\ table = [o \in Owners |-> IF o = "shared" THEN "rw" ELSE None]
  /\ entry = [x \in Slots |-> None]
  /\ tlb = [k \in TaggedBy(Tags) \cup Globals |-> None]
  /\ due = {} /\ mixed = {}
  /\ call = None

MapperStep ==
  \/ \E s \in Spaces, p \in Pages : \E leaf \in FramesFor(p) \X Rights :
       MapTo(s, p, leaf) \/ LinkTable(s, p, leaf)
  \/ ZeroTable
  \/ WriteEntry
  \/ \E s \in Spaces, p \in Pages : Unmap(s, p)
  \/ \E s \in Spaces, p \in Pages, r \in Rights : UpdateFlags(s, p, r)
  \/ \E o \in Owners, r \in Rights : SetFlagsTableEntry(o, r)
  \/ \E s \in Spaces : CleanUp(s)

FlushStep ==
  \/ \E slot \in due : Flush(slot)
  \/ FlushAll(Reloaded(read.flags))
  \/ \E s \in Spaces, flags \in FlagSets : SwitchTo(s, flags)
  \/ \E s \in Spaces : SwitchToPcid(s) \/ SwitchToPcidNoFlush(s)
  \/ UpdatePcid
  \/ \E command \in Commands : FlushPcid(command)

Next == MapperStep \/ FlushStep \/ \E p \in Pages : Fill(p)

Spec == Init /\ [][Next]_vars

(***************************************************************************)
(* Correctness.                                                            *)
(***************************************************************************)
Grants(held, now) == now # None /\ held[1] = now[1] /\ (held[2] = "rw" => now[2] = "rw")

\* "Flush the page from the TLB to ensure that the newest mapping is used" (MapperFlush):
\* the processor holds no translation it could use that leads elsewhere, or grants more,
\* than the tables say, except for pages whose promise no instruction kept, and under a
\* PCID that flush_all or Cr3::write gave to another space.  Promises are made in one space and
\* kept, by the page, by the PCID or by a reload, perhaps in another; a space left without
\* a flush comes back with the translations it left.
NewestMappingUsed ==
  call = None =>
    \A p \in Pages :
      (/\ tlb[Key(p)] # None
       /\ Slot(cr3.frame, p) \notin due
       /\ p \in Shared \/ cr3.low \notin mixed)
        => Grants(tlb[Key(p)], Walk(p))
=============================================================================
