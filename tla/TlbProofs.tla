----------------------------- MODULE TlbProofs -----------------------------
(***************************************************************************)
(* Proofs about Tlb, for every set of address spaces, pages, frames and    *)
(* PCIDs, with and without PCIDs.  The frames of new tables hold no old    *)
(* data (DirtyFrames = FALSE): with old data the property fails.           *)
(***************************************************************************)
EXTENDS Tlb, TLAPS

(***************************************************************************)
(* The inductive invariant.                                                *)
(***************************************************************************)
Keys == TaggedBy(Tags) \cup Globals
Calls == [space : Spaces, page : Private, leaf : Leaf, pc : {"zero", "write"}]

TInv ==
  /\ pcide \in PcidEnabled
  /\ cr3.frame \in Spaces
  /\ cr3.low \in IF pcide THEN {PcidOf(cr3.frame)} \cup mixed ELSE FlagSets
  /\ mixed \subseteq IF pcide THEN FlagSets ELSE {}
  /\ table \in [Owners -> Rights \cup {None}]
  /\ entry \in [Slots -> Leaf \cup {None}]
  /\ tlb \in [Keys -> Leaf \cup {None}]
  /\ due \subseteq Slots
  /\ call = None \/ call \in Calls

\* A table that was linked and not yet used is empty.
NewTableEmpty == call # None => \A x \in Slots : x[1] = call.space => entry[x] = None

\* The key under which translations of page p in space s are cached, and what a walk of
\* that space's tables finds.
KeyIn(s, p) == <<IF p \in Shared THEN Global ELSE Tag(PcidOf(s)), p>>
WalkIn(s, p) ==
  LET e == entry[Slot(s, p)]
      up == table[Owner(s, p)]
  IN  IF e = None \/ up = None THEN None ELSE Narrow(e, up)

\* The spaces that alone have translations under their PCID: with PCIDs, also those that
\* are not current.
Live == IF pcide THEN {s \in Spaces : PcidOf(s) \notin mixed} ELSE {cr3.frame}

Fresh(s, p) ==
  (tlb[KeyIn(s, p)] # None /\ Slot(s, p) \notin due) => Grants(tlb[KeyIn(s, p)], WalkIn(s, p))
AllFresh == \A s \in Spaces, p \in Pages : p \in Shared \/ s \in Live => Fresh(s, p)

IInv == TInv /\ NewTableEmpty /\ AllFresh

(***************************************************************************)
(* Slots, keys and walks.                                                  *)
(***************************************************************************)
LEMMA PcideType == TInv => pcide \in BOOLEAN
BY TlbAssumption DEF TInv

LEMMA SlotInSlots ==
  ASSUME NEW s \in Spaces, NEW p \in Pages
  PROVE  Slot(s, p) \in Slots
BY DEF Slot, Owner, Slots, Pages

\* Only translations of the same entry share a slot.
LEMMA SlotInjective ==
  ASSUME NEW s \in Spaces, NEW t \in Spaces, NEW p \in Pages, NEW q \in Pages,
         Slot(s, p) = Slot(t, q)
  PROVE  p = q /\ (p \in Shared \/ s = t)
BY TlbAssumption DEF Slot, Owner, Pages

LEMMA TagOfLive ==
  ASSUME TInv, NEW s \in Spaces
  PROVE  /\ Tag(PcidOf(s)) \in Tags
         /\ Tag(PcidOf(s)) # Global
<1>1. PcidOf(s) \subseteq 0 .. 11 /\ PcidOf(s) \in Tags /\ {} \in Tags
  BY TlbAssumption DEF Tags
<1>2. 12 \notin PcidOf(s) /\ Global # {} /\ 12 \in Global
  BY <1>1 DEF Global
<1> QED BY <1>1, <1>2 DEF Tag

LEMMA KeyInKeys ==
  ASSUME TInv, NEW s \in Spaces, NEW p \in Pages
  PROVE  KeyIn(s, p) \in Keys
BY TagOfLive DEF KeyIn, Keys, TaggedBy, Globals, Pages

LEMMA KeyIsKeyIn ==
  ASSUME TInv, NEW p, p \in Shared \/ cr3.low \notin mixed
  PROVE  Key(p) = KeyIn(cr3.frame, p) /\ (p \in Shared \/ cr3.frame \in Live)
<1>1. CASE pcide = TRUE
  BY <1>1 DEF TInv, Key, KeyIn, Tag, Live
<1>2. CASE pcide = FALSE
  BY <1>2 DEF Key, KeyIn, Tag, Live
<1> QED BY <1>1, <1>2, PcideType

LEMMA LiveSpaces == TInv => Live \subseteq Spaces
BY PcideType DEF TInv, Live

\* Two live spaces share the key of a page only if it is the same entry.
LEMMA KeyInjective ==
  ASSUME TInv, NEW s \in Spaces, NEW t \in Spaces, NEW p \in Pages, NEW q \in Pages,
         p \in Shared \/ s \in Live, q \in Shared \/ t \in Live, KeyIn(s, p) = KeyIn(t, q)
  PROVE  p = q /\ (p \in Shared \/ s = t)
<1>1. p = q
  BY DEF KeyIn
<1>2. ASSUME p \notin Shared PROVE s = t
  <2>1. Tag(PcidOf(s)) = Tag(PcidOf(t))
    BY <1>1, <1>2 DEF KeyIn
  <2>3. CASE pcide = TRUE
    BY <2>1, <2>3, TlbAssumption DEF Tag
  <2>4. CASE pcide = FALSE
    BY <1>1, <1>2, <2>4 DEF Live
  <2> QED BY <2>3, <2>4, PcideType
<1> QED BY <1>1, <1>2

LEMMA WalkType ==
  ASSUME TInv, NEW s \in Spaces, NEW p \in Pages
  PROVE  WalkIn(s, p) \in Leaf \cup {None}
<1>1. entry[Slot(s, p)] \in Leaf \cup {None}
  BY SlotInSlots DEF TInv
<1>2. ASSUME NEW e \in Leaf, NEW up PROVE Narrow(e, up) \in Leaf
  BY DEF Narrow, Leaf, Rights
<1> QED BY <1>1, <1>2 DEF WalkIn

\* A shared page is found in every space alike.
LEMMA WalkShared ==
  ASSUME NEW s, NEW t, NEW p \in Shared
  PROVE  WalkIn(s, p) = WalkIn(t, p) /\ Slot(s, p) = Slot(t, p) /\ KeyIn(s, p) = KeyIn(t, p)
BY DEF WalkIn, Slot, Owner, KeyIn

LEMMA GrantsTransitive ==
  ASSUME NEW a, NEW b, NEW c, Grants(a, b), Grants(b, c)
  PROVE  Grants(a, c)
BY DEF Grants

LEMMA GrantsSelf ==
  ASSUME NEW a, a # None
  PROVE  Grants(a, a)
BY DEF Grants

(***************************************************************************)
(* What the steps do to freshness.                                         *)
(***************************************************************************)
\* A change of the tables is either promised a flush, or takes nothing away.
LEMMA TablesChange ==
  ASSUME TInv, AllFresh, UNCHANGED <<pcide, cr3, tlb, mixed>>, due \subseteq due',
         \A s \in Spaces, p \in Pages :
           Slot(s, p) \in due' \/ WalkIn(s, p) = None \/ Grants(WalkIn(s, p), WalkIn(s, p)')
  PROVE  AllFresh'
<1> SUFFICES ASSUME NEW s \in Spaces, NEW p \in Pages, p \in Shared \/ s \in Live'
             PROVE  Fresh(s, p)'
  BY DEF AllFresh
<1>1. Fresh(s, p)
  <2>1. Live' = Live
    BY DEF Live
  <2> QED BY <2>1 DEF AllFresh
<1>2. KeyIn(s, p)' = KeyIn(s, p)
  BY DEF KeyIn, Tag
<1>3. CASE Slot(s, p) \in due'
  BY <1>3 DEF Fresh, Slot, Owner
<1>4. CASE Slot(s, p) \notin due' /\ tlb[KeyIn(s, p)] = None
  BY <1>2, <1>4 DEF Fresh
<1>5. CASE Slot(s, p) \notin due' /\ tlb[KeyIn(s, p)] # None
  <2>1. Slot(s, p) \notin due
    BY <1>5
  <2>2. Grants(tlb[KeyIn(s, p)], WalkIn(s, p))
    BY <1>1, <1>5, <2>1 DEF Fresh
  <2>3. WalkIn(s, p) # None
    BY <2>2 DEF Grants
  <2>4. Grants(WalkIn(s, p), WalkIn(s, p)')
    BY <1>1, <1>5, <2>3
  <2>5. Grants(tlb[KeyIn(s, p)], WalkIn(s, p)')
    BY <2>2, <2>4, GrantsTransitive
  <2> QED BY <1>2, <2>5 DEF Fresh, Grants
<1> QED BY <1>3, <1>4, <1>5

\* A flush drops what it was promised for, and what a space leaves behind that is not
\* current any more.
LEMMA CacheDrops ==
  ASSUME TInv, AllFresh, pcide' = pcide, UNCHANGED <<table, entry>>, cr3'.frame \in Spaces,
         due' \subseteq due, NEW keys, tlb' = Without(keys),
         \A s \in Spaces, p \in Pages :
           (/\ p \in Shared \/ s \in Live'
            /\ Slot(s, p) \in due \ due' \/ (s \notin Live /\ p \notin Shared))
             => KeyIn(s, p) \in keys
  PROVE  AllFresh'
<1> SUFFICES ASSUME NEW s \in Spaces, NEW p \in Pages, p \in Shared \/ s \in Live'
             PROVE  Fresh(s, p)'
  BY DEF AllFresh
<1>2. KeyIn(s, p)' = KeyIn(s, p) /\ WalkIn(s, p)' = WalkIn(s, p) /\ Slot(s, p)' = Slot(s, p)
  BY DEF KeyIn, Tag, WalkIn, Slot, Owner
<1>3. KeyIn(s, p) \in DOMAIN tlb
  BY KeyInKeys DEF TInv
<1>4. CASE KeyIn(s, p) \in keys
  BY <1>2, <1>3, <1>4 DEF Fresh, Without
<1>5. CASE KeyIn(s, p) \notin keys
  <2>1. tlb'[KeyIn(s, p)] = tlb[KeyIn(s, p)]
    BY <1>3, <1>5 DEF Without
  <2>2. Slot(s, p) \notin due \ due' /\ (s \in Live \/ p \in Shared)
    BY <1>5
  <2>3. Fresh(s, p)
    BY <2>2 DEF AllFresh
  <2> QED BY <1>2, <2>1, <2>2, <2>3 DEF Fresh
<1> QED BY <1>4, <1>5

\* A walk caches what the tables say.
LEMMA FillFresh ==
  ASSUME TInv, AllFresh, NEW p \in Pages, Fill(p)
  PROVE  AllFresh'
<1> SUFFICES ASSUME NEW s \in Spaces, NEW q \in Pages, q \in Shared \/ s \in Live'
             PROVE  Fresh(s, q)'
  BY DEF AllFresh
<1> DEFINE now == cr3.frame
<1>1. (q \in Shared \/ s \in Live) /\ now \in Spaces /\ Fresh(s, q)
  <2>1. Live' = Live
    BY DEF Live, Fill
  <2> QED BY <2>1 DEF AllFresh, TInv
<1>2. KeyIn(s, q)' = KeyIn(s, q) /\ WalkIn(s, q)' = WalkIn(s, q) /\ Slot(s, q)' = Slot(s, q)
      /\ due' = due
  BY DEF KeyIn, Tag, WalkIn, Slot, Owner, Fill
<1>3. Walk(p) = WalkIn(now, p)
  BY DEF Walk, WalkIn
<1>4. WalkIn(now, p) # None /\ tlb' = [tlb EXCEPT ![Key(p)] = WalkIn(now, p)]
  BY <1>3 DEF Fill
<1>5. KeyIn(s, q) \in DOMAIN tlb
  BY KeyInKeys DEF TInv
<1>6. ASSUME KeyIn(s, q) = Key(p)
      PROVE  WalkIn(s, q) = WalkIn(now, p)
  <2>1. CASE p \in Shared \/ cr3.low \notin mixed
    <3>1. Key(p) = KeyIn(now, p) /\ (p \in Shared \/ now \in Live)
      BY <2>1, KeyIsKeyIn
    <3>2. q = p /\ (p \in Shared \/ s = now)
      BY <1>1, <1>6, <3>1, KeyInjective
    <3> QED BY <3>2, WalkShared
  <2>2. CASE p \notin Shared /\ cr3.low \in mixed
    <3>1. pcide = TRUE /\ cr3.low \in FlagSets /\ q = p
      BY <1>6, <2>2, PcideType DEF TInv, KeyIn, Key
    <3>2. PcidOf(s) \notin mixed
      BY <1>1, <2>2, <3>1 DEF Live
    <3>3. PcidOf(s) = cr3.low
      BY <1>6, <2>2, <3>1 DEF KeyIn, Key, Tag
    <3> QED BY <2>2, <3>2, <3>3
  <2> QED BY <2>1, <2>2
<1> HIDE DEF now
<1>7. CASE KeyIn(s, q) = Key(p)
  <2>1. Grants(tlb'[KeyIn(s, q)], WalkIn(s, q))
    BY <1>4, <1>5, <1>6, <1>7, GrantsSelf
  <2> QED BY <1>2, <2>1 DEF Fresh
<1>8. CASE KeyIn(s, q) # Key(p)
  <2>1. tlb'[KeyIn(s, q)] = tlb[KeyIn(s, q)]
    BY <1>4, <1>8
  <2> QED BY <1>1, <1>2, <2>1 DEF Fresh
<1> QED BY <1>7, <1>8

(***************************************************************************)
(* The steps of a Mapper.                                                  *)
(***************************************************************************)
LEMMA JoinedGrants ==
  ASSUME NEW e \in Leaf, NEW up \in Rights, NEW r \in Rights
  PROVE  Joined(up, r) \in Rights /\ Grants(Narrow(e, up), Narrow(e, Joined(up, r)))
<1>1. Joined(up, r) \in Rights /\ (up = "rw" => Joined(up, r) = "rw")
  BY DEF Joined, Rights
<1>2. Narrow(e, Joined(up, r)) \in Leaf
  BY DEF Narrow, Leaf, Rights
<1>3. Narrow(e, Joined(up, r)) # None
  BY <1>2, TlbAssumption DEF Leaf, Rights
<1>4. /\ Narrow(e, up)[1] = Narrow(e, Joined(up, r))[1]
      /\ Narrow(e, up)[2] = "rw" => Narrow(e, Joined(up, r))[2] = "rw"
  BY <1>1 DEF Narrow, Leaf, Rights
<1> QED BY <1>1, <1>3, <1>4 DEF Grants

\* The walk of a slot whose entry stays, below a table that passes on at least as much.
LEMMA WalkWider ==
  ASSUME TInv, NEW s \in Spaces, NEW p \in Pages, entry'[Slot(s, p)] = entry[Slot(s, p)],
         NEW o, o = Owner(s, p),
         \/ table'[o] = table[o]
         \/ table[o] # None /\ \E r \in Rights : table'[o] = Joined(table[o], r)
  PROVE  WalkIn(s, p) = None \/ Grants(WalkIn(s, p), WalkIn(s, p)')
<1> DEFINE e == entry[Slot(s, p)]
<1>1. e \in Leaf \cup {None} /\ table[o] \in Rights \cup {None}
  BY SlotInSlots DEF TInv, Owners, Owner
<1>2. Slot(s, p)' = Slot(s, p) /\ Owner(s, p)' = o
  BY DEF Slot, Owner
<1>3. CASE table'[o] = table[o]
  <2>1. WalkIn(s, p)' = WalkIn(s, p)
    BY <1>2, <1>3 DEF WalkIn
  <2> QED BY <2>1, GrantsSelf
<1>4. CASE table[o] # None /\ \E r \in Rights : table'[o] = Joined(table[o], r)
  <2>1. PICK r \in Rights : table'[o] = Joined(table[o], r)
    BY <1>4
  <2>2. CASE e = None
    BY <2>2 DEF WalkIn
  <2>3. CASE e # None
    <3>1. e \in Leaf /\ table[o] \in Rights
      BY <1>1, <1>4, <2>3
    <3>2. table'[o] \in Rights /\ Grants(Narrow(e, table[o]), Narrow(e, table'[o]))
      BY <2>1, <3>1, JoinedGrants
    <3>3. table'[o] # None
      BY <3>2, TlbAssumption DEF Rights
    <3>4. WalkIn(s, p) = Narrow(e, table[o]) /\ WalkIn(s, p)' = Narrow(e, table'[o])
      BY <1>2, <1>4, <2>3, <3>3 DEF WalkIn, Narrow
    <3> QED BY <3>2, <3>4
  <2> QED BY <2>2, <2>3
<1> QED BY <1>3, <1>4

LEMMA OwnerInOwners ==
  ASSUME NEW s \in Spaces, NEW p
  PROVE  Owner(s, p) \in Owners /\ Slot(s, p)[1] = Owner(s, p)
BY DEF Owner, Owners, Slot

LEMMA MapToInv ==
  ASSUME IInv, NEW s \in Spaces, NEW p \in Pages, NEW leaf \in Leaf, MapTo(s, p, leaf)
  PROVE  IInv'
<1> DEFINE o == Owner(s, p)
<1>1. /\ call = None /\ call' = None /\ UNCHANGED <<pcide, cr3, tlb, mixed>>
      /\ entry' = [entry EXCEPT ![Slot(s, p)] = leaf] /\ due' = due \cup {Slot(s, p)}
      /\ table[o] # None /\ table' = [table EXCEPT ![o] = Joined(@, leaf[2])]
  BY DEF MapTo, MapperFrame
<1>2. leaf[2] \in Rights /\ Slot(s, p) \in Slots /\ o \in Owners
  BY SlotInSlots, OwnerInOwners DEF Leaf
<1> HIDE DEF o
<1>3. table' \in [Owners -> Rights \cup {None}]
  BY <1>1, <1>2 DEF IInv, TInv, Joined, Rights
<1>4. TInv'
  BY <1>1, <1>2, <1>3 DEF IInv, TInv
<1>5. AllFresh'
  <2>1. ASSUME NEW t \in Spaces, NEW q \in Pages, Slot(t, q) \notin due'
        PROVE  WalkIn(t, q) = None \/ Grants(WalkIn(t, q), WalkIn(t, q)')
    <3> DEFINE u == Owner(t, q)
    <3>1. entry'[Slot(t, q)] = entry[Slot(t, q)]
      BY <1>1, <2>1, SlotInSlots DEF IInv, TInv
    <3>2. u \in Owners
      BY OwnerInOwners
    <3>3. \/ table'[u] = table[u]
          \/ table[u] # None /\ \E r \in Rights : table'[u] = Joined(table[u], r)
      <4> HIDE DEF u
      <4> QED BY <1>1, <1>2, <3>2 DEF IInv, TInv
    <3> QED BY <3>1, <3>3, WalkWider DEF IInv
  <2> QED BY <1>1, <2>1, TablesChange DEF IInv
<1> QED BY <1>1, <1>4, <1>5 DEF IInv, NewTableEmpty

LEMMA LinkTableInv ==
  ASSUME DirtyFrames = FALSE, IInv,
         NEW s \in Spaces, NEW p \in Pages, NEW leaf \in Leaf, LinkTable(s, p, leaf)
  PROVE  IInv'
<1>1. /\ UNCHANGED <<pcide, cr3, tlb, due, mixed>>
      /\ p \in Private /\ table[s] = None /\ table' = [table EXCEPT ![s] = leaf[2]]
      /\ entry' = [x \in Slots |-> IF x[1] # s THEN entry[x] ELSE None]
      /\ call' = [space |-> s, page |-> p, leaf |-> leaf, pc |-> "zero"]
  BY DEF LinkTable, MapperFrame
<1>2. leaf[2] \in Rights /\ s \in Owners
  BY DEF Leaf, Owners
<1>3. TInv'
  BY <1>1, <1>2 DEF IInv, TInv, Calls
<1>4. NewTableEmpty'
  BY <1>1 DEF NewTableEmpty
<1>5. AllFresh'
  <2>1. ASSUME NEW t \in Spaces, NEW q \in Pages
        PROVE  WalkIn(t, q) = None \/ Grants(WalkIn(t, q), WalkIn(t, q)')
    <3> DEFINE u == Owner(t, q)
    <3>1. CASE u = s
      BY <1>1, <3>1 DEF WalkIn
    <3>2. CASE u # s
      <4>1. Slot(t, q)[1] # s /\ Slot(t, q) \in Slots /\ u \in Owners
        BY <3>2, SlotInSlots, OwnerInOwners
      <4>2. entry'[Slot(t, q)] = entry[Slot(t, q)]
        BY <1>1, <4>1
      <4>3. table'[u] = table[u]
        <5> HIDE DEF u
        <5> QED BY <1>1, <3>2, <4>1 DEF IInv, TInv
      <4> QED BY <4>2, <4>3, WalkWider DEF IInv
    <3> QED BY <3>1, <3>2
  <2> QED BY <1>1, <2>1, TablesChange DEF IInv
<1> QED BY <1>3, <1>4, <1>5 DEF IInv

LEMMA ZeroTableInv ==
  ASSUME IInv, ZeroTable
  PROVE  IInv'
<1>1. /\ UNCHANGED <<pcide, cr3, tlb, due, table, mixed>> /\ call # None
      /\ entry' = [x \in Slots |-> IF x[1] = call.space THEN None ELSE entry[x]]
      /\ call' = [call EXCEPT !.pc = "write"] /\ call \in Calls
  BY DEF ZeroTable, IInv, TInv
<1>2. entry' = entry
  BY <1>1 DEF IInv, TInv, NewTableEmpty
<1>3. call' \in Calls /\ call'.space = call.space
  BY <1>1 DEF Calls
<1>4. TInv' /\ NewTableEmpty'
  BY <1>1, <1>2, <1>3 DEF IInv, TInv, NewTableEmpty
<1>5. AllFresh'
  <2>1. \A t \in Spaces, q \in Pages : WalkIn(t, q) = None \/ Grants(WalkIn(t, q), WalkIn(t, q)')
    BY <1>1, <1>2, WalkWider DEF IInv
  <2> QED BY <1>1, <2>1, TablesChange DEF IInv
<1> QED BY <1>4, <1>5 DEF IInv

\* WriteEntry, Unmap and UpdateFlags write one entry and promise its flush.
LEMMA EntryChange ==
  ASSUME IInv, UNCHANGED <<pcide, cr3, tlb, table, mixed>>, call' = None,
         NEW slot \in Slots, NEW e \in Leaf \cup {None},
         entry' = [entry EXCEPT ![slot] = e], due' = due \cup {slot}
  PROVE  IInv'
<1>1. TInv' /\ NewTableEmpty'
  BY DEF IInv, TInv, NewTableEmpty
<1>2. ASSUME NEW t \in Spaces, NEW q \in Pages, Slot(t, q) \notin due'
      PROVE  WalkIn(t, q) = None \/ Grants(WalkIn(t, q), WalkIn(t, q)')
  <2>1. entry'[Slot(t, q)] = entry[Slot(t, q)]
    BY <1>2, SlotInSlots DEF IInv, TInv
  <2> QED BY <2>1, WalkWider DEF IInv
<1>3. AllFresh'
  BY <1>2, TablesChange DEF IInv
<1> QED BY <1>1, <1>3 DEF IInv

LEMMA MapperStepInv ==
  ASSUME DirtyFrames = FALSE, IInv, MapperStep
  PROVE  IInv'
<1>0. \A p \in Pages : FramesFor(p) \X Rights \subseteq Leaf
  BY TlbAssumption DEF Leaf, Pages
<1>1. CASE \E s \in Spaces, p \in Pages : \E leaf \in FramesFor(p) \X Rights : MapTo(s, p, leaf)
  BY <1>0, <1>1, MapToInv
<1>2. CASE \E s \in Spaces, p \in Pages : \E leaf \in FramesFor(p) \X Rights : LinkTable(s, p, leaf)
  BY <1>0, <1>2, LinkTableInv
<1>3. CASE ZeroTable
  BY <1>3, ZeroTableInv
<1>4. CASE WriteEntry
  <2> DEFINE slot == Slot(call.space, call.page)
  <2>1. /\ UNCHANGED <<pcide, cr3, tlb, table, mixed>> /\ call' = None /\ call \in Calls
        /\ entry' = [entry EXCEPT ![slot] = call.leaf] /\ due' = due \cup {slot}
    BY <1>4 DEF WriteEntry, IInv, TInv
  <2>2. slot \in Slots /\ call.leaf \in Leaf
    BY <2>1, SlotInSlots DEF Calls, Pages
  <2> QED BY <2>1, <2>2, EntryChange
<1>5. CASE \E s \in Spaces, p \in Pages : Unmap(s, p)
  <2>1. PICK s \in Spaces, p \in Pages : Unmap(s, p)
    BY <1>5
  <2> QED BY <2>1, SlotInSlots, EntryChange DEF Unmap, MapperFrame
<1>6. CASE \E s \in Spaces, p \in Pages, r \in Rights : UpdateFlags(s, p, r)
  <2>1. PICK s \in Spaces, p \in Pages, r \in Rights : UpdateFlags(s, p, r)
    BY <1>6
  <2> DEFINE e == <<entry[Slot(s, p)][1], r>>
  <2>2. e \in Leaf
    BY <2>1, SlotInSlots DEF UpdateFlags, IInv, TInv, Leaf
  <2>3. /\ UNCHANGED <<pcide, cr3, tlb, table, mixed>> /\ call' = None
        /\ entry' = [entry EXCEPT ![Slot(s, p)] = e] /\ due' = due \cup {Slot(s, p)}
    BY <2>1 DEF UpdateFlags, MapperFrame
  <2> HIDE DEF e
  <2> QED BY <2>2, <2>3, SlotInSlots, EntryChange
<1>7. CASE \E o \in Owners, r \in Rights : SetFlagsTableEntry(o, r)
  <2>1. PICK o \in Owners, r \in Rights : SetFlagsTableEntry(o, r)
    BY <1>7
  <2>2. /\ UNCHANGED <<pcide, cr3, tlb, entry, mixed>> /\ call = None /\ call' = None
        /\ table' = [table EXCEPT ![o] = r] /\ due' = due \cup SlotsOf(o)
    BY <2>1 DEF SetFlagsTableEntry, MapperFrame
  <2>3. SlotsOf(o) \subseteq Slots
    BY TlbAssumption DEF SlotsOf, Slots, Owners
  <2>4. TInv' /\ NewTableEmpty'
    BY <2>2, <2>3 DEF IInv, TInv, NewTableEmpty
  <2>5. ASSUME NEW t \in Spaces, NEW q \in Pages, Slot(t, q) \notin due'
        PROVE  WalkIn(t, q) = None \/ Grants(WalkIn(t, q), WalkIn(t, q)')
    <3> DEFINE u == Owner(t, q)
    <3>1. u # o
      BY <2>2, <2>5, TlbAssumption DEF Slot, Owner, SlotsOf, Pages
    <3>2. u \in Owners
      BY OwnerInOwners
    <3>3. table'[u] = table[u]
      <4> HIDE DEF u
      <4> QED BY <2>2, <3>1, <3>2 DEF IInv, TInv
    <3> QED BY <2>2, <3>3, WalkWider DEF IInv
  <2>6. AllFresh'
    BY <2>2, <2>5, TablesChange DEF IInv
  <2> QED BY <2>4, <2>6 DEF IInv
<1>8. CASE \E s \in Spaces : CleanUp(s)
  <2>1. PICK s \in Spaces : CleanUp(s)
    BY <1>8
  <2>2. /\ UNCHANGED <<pcide, cr3, tlb, entry, due, mixed>> /\ call = None /\ call' = None
        /\ table' = [table EXCEPT ![s] = None] /\ \A p \in Private : entry[Slot(s, p)] = None
    BY <2>1 DEF CleanUp, MapperFrame
  <2>3. TInv' /\ NewTableEmpty'
    BY <2>2 DEF IInv, TInv, NewTableEmpty
  <2>4. ASSUME NEW t \in Spaces, NEW q \in Pages
        PROVE  WalkIn(t, q) = None \/ Grants(WalkIn(t, q), WalkIn(t, q)')
    <3> DEFINE u == Owner(t, q)
    <3>1. CASE u = s
      <4>1. q \in Private /\ t = s
        BY <3>1, TlbAssumption DEF Owner, Pages
      <4> QED BY <2>2, <4>1 DEF WalkIn
    <3>2. CASE u # s
      <4>1. u \in Owners
        BY OwnerInOwners
      <4>2. table'[u] = table[u]
        <5> HIDE DEF u
        <5> QED BY <2>2, <3>2, <4>1 DEF IInv, TInv
      <4> QED BY <2>2, <4>2, WalkWider DEF IInv
    <3> QED BY <3>1, <3>2
  <2>5. AllFresh'
    BY <2>2, <2>4, TablesChange DEF IInv
  <2> QED BY <2>3, <2>5 DEF IInv
<1> QED BY <1>1, <1>2, <1>3, <1>4, <1>5, <1>6, <1>7, <1>8 DEF MapperStep

(***************************************************************************)
(* Flushes.                                                                *)
(***************************************************************************)
\* What CR3 may hold below space s, next to a history of mixed PCIDs.
LowOK(s, low, mix) ==
  /\ low \in IF pcide THEN {PcidOf(s)} \cup mix ELSE FlagSets
  /\ mix \subseteq IF pcide THEN FlagSets ELSE {}

LEMMA FlushInv ==
  ASSUME IInv, TlbFrame, NEW keys, tlb' = Without(keys), due' \subseteq due,
         cr3'.frame \in Spaces, LowOK(cr3'.frame, cr3'.low, mixed'),
         \A s \in Spaces, p \in Pages :
           (/\ p \in Shared \/ s \in Live'
            /\ Slot(s, p) \in due \ due' \/ (s \notin Live /\ p \notin Shared))
             => KeyIn(s, p) \in keys
  PROVE  IInv'
<1>1. call = None /\ UNCHANGED <<pcide, table, entry, call>>
  BY DEF TlbFrame
<1>2. tlb' \in [Keys -> Leaf \cup {None}]
  BY DEF IInv, TInv, Without
<1>3. TInv' /\ NewTableEmpty'
  BY <1>1, <1>2 DEF IInv, TInv, NewTableEmpty, LowOK
<1>4. AllFresh'
  BY <1>1, CacheDrops DEF IInv
<1> QED BY <1>3, <1>4 DEF IInv

\* A load of CR3 that flushes, with space s and the low bits of its PCID or of flags.
LEMMA ReloadInv ==
  ASSUME IInv, TlbFrame, NEW s \in Spaces, NEW low,
         low \in FlagSets \/ (pcide = TRUE /\ low = PcidOf(s)),
         write_raw_impl(FALSE, s, low), due' = due \ Reloaded(low), mixed' = MixedBy(s, low)
  PROVE  IInv'
<1> DEFINE keys == mov_cr3(FALSE, low)
<1>1. /\ cr3'.frame = s /\ cr3'.low = low /\ tlb' = Without(keys) /\ pcide' = pcide
      /\ due' \subseteq due
  BY DEF write_raw_impl, TlbFrame
<1>2. pcide \in BOOLEAN /\ mixed \subseteq IF pcide THEN FlagSets ELSE {}
  BY PcideType DEF IInv, TInv
<1>3. LowOK(s, low, mixed')
  BY <1>2 DEF LowOK, MixedBy
<1>4. ASSUME NEW t \in Spaces, NEW p \in Pages, p \in Shared \/ t \in Live',
             Slot(t, p) \in due \ due' \/ (t \notin Live /\ p \notin Shared)
      PROVE  KeyIn(t, p) \in keys
  <2>1. Tag(PcidOf(t)) \in Tags
    BY TagOfLive DEF IInv
  <2>2. Slot(t, p) \in due \ due' => Slot(t, p) \in Reloaded(low)
    OBVIOUS
  <2>3. p \notin Shared
    <3>1. Reloaded(low) \subseteq Spaces \X Private
      BY <1>2 DEF Reloaded
    <3> QED BY <1>4, <2>2, <3>1, TlbAssumption DEF Slot, Owner
  <2>4. CASE pcide = FALSE
    BY <2>1, <2>3, <2>4 DEF mov_cr3, KeyIn, TaggedBy, Pages
  <2>5. CASE pcide = TRUE
    <3>1. keys = TaggedBy({low})
      BY <2>5 DEF mov_cr3
    <3>2. PcidOf(t) = low
      <4>1. CASE Slot(t, p) \in due \ due'
        BY <2>2, <2>3, <2>5, <4>1 DEF Reloaded, Slot, Owner
      <4>2. CASE t \notin Live
        <5>1. PcidOf(t) \in mixed /\ PcidOf(t) \notin mixed'
          BY <1>1, <1>4, <2>3, <2>5, <4>2 DEF Live
        <5> QED BY <5>1 DEF MixedBy
      <4> QED BY <1>4, <4>1, <4>2
    <3> QED BY <2>3, <2>5, <3>1, <3>2 DEF KeyIn, Tag, TaggedBy, Pages
  <2> QED BY <1>2, <2>4, <2>5
<1> HIDE DEF keys
<1> QED BY <1>1, <1>3, <1>4, FlushInv

LEMMA FlushPageInv ==
  ASSUME IInv, NEW slot \in due, Flush(slot)
  PROVE  IInv'
<1> DEFINE keys == {Key(slot[2])}
<1>1. /\ TlbFrame /\ cr3' = cr3 /\ pcide' = pcide /\ mixed' = mixed /\ tlb' = Without(keys)
      /\ due' = IF slot[1] = "shared" \/ ~pcide \/ PcidOf(slot[1]) = cr3.low
                THEN due \ {slot} ELSE due
  BY DEF Flush, TlbFrame, tlb_flush, invlpg
<1>2. Live' = Live
  BY <1>1 DEF Live
<1>3. ASSUME NEW s \in Spaces, NEW p \in Pages, Slot(s, p) \in due \ due'
      PROVE  KeyIn(s, p) \in keys
  <2>1. slot = Slot(s, p) /\ slot[2] = p
    BY <1>1, <1>3 DEF Slot
  <2>2. KeyIn(s, p) = Key(p)
    <3>1. CASE p \in Shared
      BY <3>1 DEF KeyIn, Key
    <3>2. CASE p \notin Shared
      <4>1. slot[1] = s /\ s # "shared"
        BY <2>1, <3>2, TlbAssumption DEF Slot, Owner
      <4>2. CASE pcide = TRUE
        BY <1>1, <1>3, <3>2, <4>1, <4>2 DEF KeyIn, Key, Tag
      <4>3. CASE pcide = FALSE
        BY <3>2, <4>3 DEF KeyIn, Key, Tag
      <4> QED BY <4>2, <4>3, PcideType DEF IInv
    <3> QED BY <3>1, <3>2
  <2> QED BY <2>1, <2>2
<1>4. cr3'.frame \in Spaces /\ LowOK(cr3'.frame, cr3'.low, mixed') /\ due' \subseteq due
  BY <1>1 DEF IInv, TInv, LowOK
<1> HIDE DEF keys
<1> QED BY <1>1, <1>2, <1>3, <1>4, FlushInv

LEMMA FlushPcidInv ==
  ASSUME IInv, NEW command \in Commands, FlushPcid(command)
  PROVE  IInv'
<1> DEFINE keys == invpcid(Kind(command), Desc(command))
           kept == IF pcide \/ Kind(command) \notin {0, 1} THEN KeptBy(command) ELSE {}
<1>1. /\ TlbFrame /\ cr3' = cr3 /\ pcide' = pcide /\ tlb' = Without(keys) /\ due' = due \ kept
      /\ mixed' = mixed \ (Emptied(command) \ {cr3.low})
  BY DEF FlushPcid, TlbFrame
<1>2. ASSUME NEW s \in Spaces, s \in Live', s \notin Live
      PROVE  pcide = TRUE /\ PcidOf(s) \in Emptied(command)
  <2>1. CASE pcide = TRUE
    BY <1>1, <1>2, <2>1 DEF Live
  <2>2. CASE pcide = FALSE
    BY <1>1, <1>2, <2>2 DEF Live
  <2> QED BY <2>1, <2>2, PcideType DEF IInv
<1>3. ASSUME NEW s \in Spaces, NEW p \in Pages,
             Slot(s, p) \in kept \/ (pcide = TRUE /\ PcidOf(s) \in Emptied(command) /\ p \notin Shared)
      PROVE  KeyIn(s, p) \in keys
  <2>1. Tag(PcidOf(s)) \in Tags /\ KeyIn(s, p) \in DOMAIN tlb
    BY TagOfLive, KeyInKeys DEF IInv, TInv
  <2>2. CASE command \in [name : {"Address"}, space : Spaces, page : Private]
    <3>1. /\ command.name = "Address" /\ command.space \in Spaces /\ command.page \in Private
      BY <2>2
    <3>2. Kind(command) = 0 /\ Emptied(command) = {}
      BY <3>1 DEF Kind, Emptied
    <3>3. keys = {<<PcidOf(command.space), command.page>>}
      BY <3>2 DEF invpcid, Desc
    <3>4. pcide = TRUE /\ kept = {Slot(command.space, command.page)}
      BY <1>3, <3>1, <3>2, PcideType DEF KeptBy, IInv
    <3>5. s = command.space /\ p = command.page /\ p \notin Shared
      BY <1>3, <2>1, <3>1, <3>2, <3>4, SlotInjective, TlbAssumption DEF Pages
    <3> QED BY <3>3, <3>4, <3>5 DEF KeyIn, Tag
  <2>3. CASE command \in [name : {"Single"}, space : Spaces]
    <3>1. command.name = "Single" /\ command.space \in Spaces
      BY <2>3
    <3>2. Kind(command) = 1 /\ Emptied(command) = {PcidOf(command.space)}
      BY <3>1 DEF Kind, Emptied
    <3>3. keys = TaggedBy({PcidOf(command.space)})
      BY <3>2 DEF invpcid, Desc
    <3>4. pcide = TRUE /\ kept = SlotsOf(command.space)
      BY <1>3, <3>1, <3>2, PcideType DEF KeptBy, IInv
    <3>5. s = command.space /\ p \in Private /\ p \notin Shared
      <4>1. CASE Slot(s, p) \in kept
        <5>1. SlotsOf(command.space) = {command.space} \X Private /\ command.space # "shared"
          BY <3>1, TlbAssumption DEF SlotsOf
        <5> QED BY <3>4, <4>1, <5>1 DEF Slot, Owner
      <4>2. CASE PcidOf(s) \in Emptied(command) /\ p \notin Shared
        BY <3>1, <3>2, <4>2, TlbAssumption DEF Pages
      <4> QED BY <1>3, <4>1, <4>2
    <3> QED BY <3>3, <3>4, <3>5 DEF KeyIn, Tag, TaggedBy
  <2>4. CASE command.name = "All"
    <3>1. Kind(command) = 2
      BY <2>4 DEF Kind
    <3> QED BY <2>1, <3>1 DEF invpcid
  <2>5. CASE command.name = "AllExceptGlobal"
    <3>1. Kind(command) = 3
      BY <2>5 DEF Kind
    <3>2. keys = TaggedBy(Tags) /\ kept = Spaces \X Private
      BY <2>5, <3>1 DEF invpcid, KeptBy
    <3>3. p \in Private /\ p \notin Shared
      BY <1>3, <3>2, TlbAssumption DEF Slot, Owner, Pages
    <3> QED BY <2>1, <3>2, <3>3 DEF KeyIn, TaggedBy
  <2> QED BY <2>2, <2>3, <2>4, <2>5 DEF Commands
<1>4. cr3'.frame \in Spaces /\ LowOK(cr3'.frame, cr3'.low, mixed') /\ due' \subseteq due
  BY <1>1 DEF IInv, TInv, LowOK
<1> HIDE DEF keys, kept
<1>5. \A s \in Spaces, p \in Pages :
        (/\ p \in Shared \/ s \in Live'
         /\ Slot(s, p) \in due \ due' \/ (s \notin Live /\ p \notin Shared))
          => KeyIn(s, p) \in keys
  BY <1>1, <1>2, <1>3
<1> QED BY <1>1, <1>4, <1>5, FlushInv

LEMMA FlushStepInv ==
  ASSUME IInv, FlushStep
  PROVE  IInv'
<1>1. /\ pcide \in BOOLEAN /\ cr3.frame \in Spaces /\ mixed \subseteq FlagSets
      /\ cr3.low \in FlagSets \/ (pcide = TRUE /\ cr3.low = PcidOf(cr3.frame))
  <2>1. pcide \in BOOLEAN /\ cr3.frame \in Spaces /\ mixed \subseteq FlagSets
    BY PcideType DEF IInv, TInv
  <2>2. CASE pcide = TRUE
    BY <2>1, <2>2 DEF IInv, TInv
  <2>3. CASE pcide = FALSE
    BY <2>3 DEF IInv, TInv
  <2> QED BY <2>1, <2>2, <2>3
<1>2. CASE \E slot \in due : Flush(slot)
  BY <1>2, FlushPageInv
<1>3. CASE FlushAll(Reloaded(read.flags))
  <2>1. read.flags \in FlagSets
    <3>1. CASE cr3.low \in FlagSets
      <4>1. cr3.low \cap Cr3Flags = cr3.low
        BY <3>1, TlbAssumption
      <4> QED BY <3>1, <4>1 DEF read
    <3>2. CASE cr3.low = PcidOf(cr3.frame)
      BY <1>1, <3>2, TlbAssumption DEF read
    <3> QED BY <1>1, <3>1, <3>2
  <2>2. /\ TlbFrame /\ write_raw_impl(FALSE, cr3.frame, read.flags)
        /\ due' = due \ Reloaded(read.flags) /\ mixed' = MixedBy(cr3.frame, read.flags)
    BY <1>3 DEF FlushAll, tlb_flush_all, write, read
  <2> QED BY <1>1, <2>1, <2>2, ReloadInv
<1>4. CASE \E s \in Spaces, flags \in FlagSets : SwitchTo(s, flags)
  BY <1>4, ReloadInv DEF SwitchTo, write
<1>5. CASE \E s \in Spaces : SwitchToPcid(s)
  BY <1>1, <1>5, ReloadInv DEF SwitchToPcid, write_pcid
<1>6. CASE \E s \in Spaces : SwitchToPcidNoFlush(s)
  <2>1. PICK s \in Spaces : SwitchToPcidNoFlush(s)
    BY <1>6
  <2>2. /\ TlbFrame /\ pcide = TRUE /\ pcide' = pcide /\ due' = due /\ mixed' = mixed
        /\ cr3'.frame = s /\ cr3'.low = PcidOf(s) /\ tlb' = Without({})
    BY <1>1, <2>1 DEF SwitchToPcidNoFlush, TlbFrame, write_pcid_no_flush, write_raw_impl, mov_cr3
  <2>3. LowOK(cr3'.frame, cr3'.low, mixed')
    BY <1>1, <2>2 DEF LowOK
  <2>4. Live' = Live
    BY <2>2 DEF Live
  <2> QED BY <2>2, <2>3, <2>4, FlushInv
<1>7. CASE UpdatePcid
  <2>1. /\ TlbFrame /\ write_raw_impl(FALSE, cr3.frame, cr3.low)
        /\ due' = due \ Reloaded(cr3.low) /\ mixed' = MixedBy(cr3.frame, cr3.low)
    BY <1>7 DEF UpdatePcid, write_pcid, read_pcid
  <2> QED BY <1>1, <2>1, ReloadInv
<1>8. CASE \E command \in Commands : FlushPcid(command)
  BY <1>8, FlushPcidInv
<1> QED BY <1>2, <1>3, <1>4, <1>5, <1>6, <1>7, <1>8 DEF FlushStep

LEMMA FillInv ==
  ASSUME IInv, NEW p \in Pages, Fill(p)
  PROVE  IInv'
<1>1. /\ UNCHANGED <<pcide, cr3, table, entry, due, mixed, call>>
      /\ tlb' = [tlb EXCEPT ![Key(p)] = WalkIn(cr3.frame, p)]
  BY DEF Fill, Walk, WalkIn
<1>2. WalkIn(cr3.frame, p) \in Leaf \cup {None}
  BY WalkType DEF IInv, TInv
<1>3. TInv' /\ NewTableEmpty'
  BY <1>1, <1>2 DEF IInv, TInv, NewTableEmpty
<1> QED BY <1>3, FillFresh DEF IInv

LEMMA InitInv == Init => IInv
<1> SUFFICES ASSUME Init PROVE IInv
  OBVIOUS
<1>1. PICK s \in Spaces : cr3 = [frame |-> s, low |-> Tag(PcidOf(s))]
  BY DEF Init
<1>2. pcide \in BOOLEAN
  BY TlbAssumption DEF Init
<1>3. cr3.low \in IF pcide THEN {PcidOf(cr3.frame)} ELSE FlagSets
  <2>1. CASE pcide = TRUE
    BY <1>1, <2>1 DEF Tag
  <2>2. CASE pcide = FALSE
    BY <1>1, <2>2, TlbAssumption DEF Tag
  <2> QED BY <1>2, <2>1, <2>2
<1>4. TInv
  BY <1>1, <1>3 DEF Init, TInv, Keys, Rights
<1>5. NewTableEmpty
  BY DEF Init, NewTableEmpty
<1>6. AllFresh
  <2> SUFFICES ASSUME NEW t \in Spaces, NEW p \in Pages PROVE tlb[KeyIn(t, p)] = None
    BY DEF AllFresh, Fresh
  <2>1. KeyIn(t, p) \in Keys
    BY <1>4, KeyInKeys
  <2> QED BY <2>1 DEF Init, Keys
<1> QED BY <1>4, <1>5, <1>6 DEF IInv

LEMMA InvSuffices == IInv => TypeOK /\ NewestMappingUsed
<1> SUFFICES ASSUME IInv PROVE TypeOK /\ NewestMappingUsed
  OBVIOUS
<1>1. TypeOK
  <2>1. entry \in [Slots -> Leaf \cup {None, Wild}]
    BY DEF IInv, TInv
  <2>2. tlb \in [TaggedBy(Tags) \cup Globals -> Leaf \cup {None, Wild}]
    BY DEF IInv, TInv, Keys
  <2> QED BY <2>1, <2>2 DEF IInv, TInv, TypeOK, Calls
<1>2. NewestMappingUsed
  <2> SUFFICES ASSUME NEW p \in Pages, tlb[Key(p)] # None, Slot(cr3.frame, p) \notin due,
                      p \in Shared \/ cr3.low \notin mixed
               PROVE  Grants(tlb[Key(p)], Walk(p))
    BY DEF NewestMappingUsed
  <2>2. /\ Key(p) = KeyIn(cr3.frame, p) /\ Walk(p) = WalkIn(cr3.frame, p)
        /\ p \in Shared \/ cr3.frame \in Live
    BY KeyIsKeyIn DEF IInv, Walk, WalkIn
  <2>1. Fresh(cr3.frame, p)
    BY <2>2 DEF IInv, TInv, AllFresh
  <2> QED BY <2>1, <2>2 DEF Fresh
<1> QED BY <1>1, <1>2

LEMMA FreshCorrect ==
  ASSUME DirtyFrames = FALSE
  PROVE  Spec => []IInv
<1>1. IInv /\ [Next]_vars => IInv'
  <2> SUFFICES ASSUME IInv, [Next]_vars PROVE IInv'
    OBVIOUS
  <2>1. CASE MapperStep
    BY <2>1, MapperStepInv
  <2>2. CASE FlushStep
    BY <2>2, FlushStepInv
  <2>3. CASE \E p \in Pages : Fill(p)
    BY <2>3, FillInv
  <2>4. CASE UNCHANGED vars
    BY <2>4 DEF vars, IInv, TInv, NewTableEmpty, AllFresh, Live, Fresh, KeyIn, Tag, WalkIn, Slot, Owner
  <2> QED BY <2>1, <2>2, <2>3, <2>4 DEF Next
<1> QED BY <1>1, InitInv, PTL DEF Spec

\* The state of the tables, of CR3 and of the TLB keeps its type: in particular, with PCIDs
\* the low bits of CR3 are the PCID of the space it names, or one that a flush_all or a
\* Cr3::write took it to.
THEOREM TypeCorrect ==
  ASSUME DirtyFrames = FALSE
  PROVE  Spec => []TypeOK
BY FreshCorrect, InvSuffices, PTL

\* For any number of address spaces, pages and PCIDs: the processor uses no translation
\* that leads elsewhere or grants more than the tables say, except where no instruction
\* flushed what changed, and under a PCID that flush_all or Cr3::write gave to another space.
THEOREM NewestMappingCorrect ==
  ASSUME DirtyFrames = FALSE
  PROVE  Spec => []NewestMappingUsed
BY FreshCorrect, InvSuffices, PTL
=============================================================================
