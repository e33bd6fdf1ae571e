-------------------------- MODULE RecursiveProofs --------------------------
(***************************************************************************)
(* Proofs about RecursivePageTable.                                        *)
(***************************************************************************)
EXTENDS RecursivePageTable, MappedPageTableProofs

(***************************************************************************)
(* The tables without the recursive entry.                                 *)
(***************************************************************************)
\* A slot other than the recursive one.
Ordinary(t, i) == t \in TableFrames /\ i \in Index /\ ~(t = Root /\ i = recursive_index)
Own(m) == m[Root][recursive_index] = RecursiveEntry

LEMMA MemoryEqual ==
  ASSUME NEW m \in Memory, NEW n \in Memory,
         \A f \in TableFrames, i \in Index : m[f][i] = n[f][i]
  PROVE  m = n
<1>1. \A f \in TableFrames : m[f] = n[f]
  BY DEF Memory, Table
<1> QED BY <1>1 DEF Memory

LEMMA PlainSlots ==
  ASSUME NEW m \in Memory
  PROVE  /\ Plain(m) \in Memory /\ Plain(m)[Root][recursive_index] = {}
         /\ \A t, i : Ordinary(t, i) => Plain(m)[t][i] = m[t][i]
<1>1. Root \in TableFrames /\ recursive_index \in Index /\ {} \in Entry
  BY FramesAssumption, RecursiveAssumption DEF Entry
<1>2. Plain(m) \in Memory
  BY <1>1 DEF Plain, Memory, Table
<1>3. Plain(m)[Root][recursive_index] = {}
  BY <1>1 DEF Plain, Memory, Table
<1>4. ASSUME NEW t, NEW i, Ordinary(t, i) PROVE Plain(m)[t][i] = m[t][i]
  BY <1>1, <1>4 DEF Plain, Memory, Table, Ordinary
<1> QED BY <1>2, <1>3, <1>4

LEMMA PlainWrite ==
  ASSUME NEW m \in Memory, NEW t, NEW i, Ordinary(t, i), NEW e \in Entry
  PROVE  /\ [m EXCEPT ![t][i] = e] \in Memory
         /\ Plain([m EXCEPT ![t][i] = e]) = [Plain(m) EXCEPT ![t][i] = e]
         /\ Own(m) => Own([m EXCEPT ![t][i] = e])
<1> DEFINE n == [m EXCEPT ![t][i] = e]
           p == [Plain(m) EXCEPT ![t][i] = e]
<1>1. Root \in TableFrames /\ recursive_index \in Index /\ t \in TableFrames /\ i \in Index
  BY FramesAssumption, RecursiveAssumption DEF Ordinary
<1>2. n \in Memory /\ p \in Memory
  BY <1>1, PlainSlots DEF Memory, Table
<1>3. /\ \A g \in TableFrames, j \in Index : n[g][j] = IF g = t /\ j = i THEN e ELSE m[g][j]
      /\ \A g \in TableFrames, j \in Index :
           p[g][j] = IF g = t /\ j = i THEN e ELSE Plain(m)[g][j]
  BY <1>1, PlainSlots DEF Memory, Table
<1> HIDE DEF n, p
<1>4. \A g \in TableFrames, j \in Index : Plain(n)[g][j] = p[g][j]
  <2> SUFFICES ASSUME NEW g \in TableFrames, NEW j \in Index PROVE Plain(n)[g][j] = p[g][j]
    OBVIOUS
  <2>1. CASE Ordinary(g, j)
    BY <1>2, <1>3, <2>1, PlainSlots
  <2>2. CASE ~Ordinary(g, j)
    <3>1. g = Root /\ j = recursive_index /\ ~(g = t /\ j = i)
      BY <2>2 DEF Ordinary
    <3> QED BY <1>2, <1>3, <3>1, PlainSlots
  <2> QED BY <2>1, <2>2
<1>5. Plain(n) = p
  BY <1>2, <1>4, PlainSlots, MemoryEqual
<1>6. Own(m) => Own(n)
  BY <1>1, <1>3 DEF Own, Ordinary
<1> QED BY <1>2, <1>5, <1>6 DEF n, p

LEMMA PlainZero ==
  ASSUME NEW m \in Memory, NEW f \in TableFrames, f # Root
  PROVE  /\ [m EXCEPT ![f] = ZeroTable] \in Memory
         /\ Plain([m EXCEPT ![f] = ZeroTable]) = [Plain(m) EXCEPT ![f] = ZeroTable]
         /\ Own(m) => Own([m EXCEPT ![f] = ZeroTable])
<1> DEFINE n == [m EXCEPT ![f] = ZeroTable]
           p == [Plain(m) EXCEPT ![f] = ZeroTable]
<1>1. Root \in TableFrames /\ recursive_index \in Index /\ ZeroTable \in Table
  BY FramesAssumption, RecursiveAssumption DEF ZeroTable, Table, Entry
<1>2. n \in Memory /\ p \in Memory
  BY <1>1, PlainSlots DEF Memory
<1>3. /\ \A g \in TableFrames, j \in Index : n[g][j] = IF g = f THEN {} ELSE m[g][j]
      /\ \A g \in TableFrames, j \in Index : p[g][j] = IF g = f THEN {} ELSE Plain(m)[g][j]
  BY PlainSlots DEF Memory, ZeroTable
<1> HIDE DEF n, p
<1>4. \A g \in TableFrames, j \in Index : Plain(n)[g][j] = p[g][j]
  <2> SUFFICES ASSUME NEW g \in TableFrames, NEW j \in Index PROVE Plain(n)[g][j] = p[g][j]
    OBVIOUS
  <2>1. CASE Ordinary(g, j)
    BY <1>2, <1>3, <2>1, PlainSlots
  <2>2. CASE ~Ordinary(g, j)
    <3>1. g = Root /\ j = recursive_index
      BY <2>2 DEF Ordinary
    <3> QED BY <1>2, <1>3, <3>1, PlainSlots
  <2> QED BY <2>1, <2>2
<1>5. Plain(n) = p
  BY <1>2, <1>4, PlainSlots, MemoryEqual
<1>6. Own(m) => Own(n)
  BY <1>1, <1>3 DEF Own
<1> QED BY <1>2, <1>5, <1>6 DEF n, p

(***************************************************************************)
(* The processor's walk of the windows.                                    *)
(***************************************************************************)
LEMMA StepFrom ==
  ASSUME NEW m, NEW at, NEW i, NEW x
  PROVE  x \in Step(m, at, i) <=>
           \E f \in at : \/ f \notin TableFrames /\ x = f
                         \/ f \in TableFrames /\ PRESENT \in m[f][i] /\ x = addr(m[f][i])
<1> DEFINE To(f) == CASE f \notin TableFrames -> {f}
                      [] f \in TableFrames /\ PRESENT \in m[f][i] -> {addr(m[f][i])}
                      [] OTHER -> {}
<1>1. \A f : x \in To(f) <=> \/ f \notin TableFrames /\ x = f
                             \/ f \in TableFrames /\ PRESENT \in m[f][i] /\ x = addr(m[f][i])
  <2> SUFFICES ASSUME NEW f
               PROVE  x \in To(f) <=>
                        \/ f \notin TableFrames /\ x = f
                        \/ f \in TableFrames /\ PRESENT \in m[f][i] /\ x = addr(m[f][i])
    OBVIOUS
  <2>1. CASE f \notin TableFrames
    BY <2>1
  <2>2. CASE f \in TableFrames /\ PRESENT \in m[f][i]
    BY <2>2
  <2>3. CASE f \in TableFrames /\ ~(PRESENT \in m[f][i])
    BY <2>3
  <2> QED BY <2>1, <2>2, <2>3
<1>2. Step(m, at, i) = UNION {To(f) : f \in at}
  BY DEF Step
<1> HIDE DEF To
<1>3. x \in Step(m, at, i) <=> \E f \in at : x \in To(f)
  BY <1>2, Zenon
<1> QED BY <1>1, <1>3

\* The set has x in it and nothing else.
Only(S, x) == S = {x}

LEMMA StepOne ==
  ASSUME NEW w, NEW f \in TableFrames, NEW g, PRESENT \in w[f][g]
  PROVE  Only(Step(w, {f}, g), addr(w[f][g]))
<1>1. \A x : x \in Step(w, {f}, g) <=> x = addr(w[f][g])
  <2> SUFFICES ASSUME NEW x PROVE x \in Step(w, {f}, g) <=> x = addr(w[f][g])
    OBVIOUS
  <2>1. x \in Step(w, {f}, g) <=>
          \E h \in {f} : \/ h \notin TableFrames /\ x = h
                         \/ h \in TableFrames /\ PRESENT \in w[h][g] /\ x = addr(w[h][g])
    BY StepFrom
  <2> QED BY <2>1
<1> QED BY <1>1 DEF Only

LEMMA StepAlong ==
  ASSUME NEW w, NEW A, NEW f \in TableFrames, Only(A, f), NEW g, PRESENT \in w[f][g],
         NEW x, x = addr(w[f][g])
  PROVE  Only(Step(w, A, g), x)
<1>1. A = {f}
  BY DEF Only
<1> QED BY <1>1, StepOne

LEMMA RecursiveEntryIs ==
  /\ RecursiveEntry \in Entry /\ addr(RecursiveEntry) = Root
  /\ {PRESENT, WRITABLE} \subseteq RecursiveEntry
  BY BitsAssumption, FramesAssumption DEF RecursiveEntry, set_addr, addr, Entry

LEMMA WindowIs ==
  ASSUME NEW s
  PROVE  /\ WindowOf(s, 2) = <<recursive_index, recursive_index, recursive_index, s[1]>>
         /\ WindowOf(s, 3) = <<recursive_index, recursive_index, s[1], s[2]>>
         /\ WindowOf(s, 4) = <<recursive_index, s[1], s[2], s[3]>>
  BY DEF WindowOf, p3_page, p2_page, p1_page

\* Through the recursive entry a walk first stays at Root: the window of a table is
\* reached by the entries on the way to the table.
LEMMA SeenStep ==
  ASSUME NEW m, Own(m), NEW s, NEW k \in 1 .. 3
  PROVE  /\ Seen(m, s, 1) = {Root}
         /\ Seen(m, s, k + 1) = Step(m, Seen(m, s, k), s[k])
<1>1. Step(m, {Root}, recursive_index) = {Root}
  <2>1. /\ Root \in TableFrames /\ PRESENT \in m[Root][recursive_index]
        /\ addr(m[Root][recursive_index]) = Root
    BY RecursiveEntryIs, FramesAssumption DEF Own
  <2>2. Step(m, {Root}, recursive_index) = {addr(m[Root][recursive_index])}
    BY <2>1, StepOne DEF Only
  <2> QED BY <2>1, <2>2
<1>w. /\ Seen(m, s, 2) = Walk(m, WindowOf(s, 2))
      /\ Seen(m, s, 3) = Walk(m, WindowOf(s, 3))
      /\ Seen(m, s, 4) = Walk(m, WindowOf(s, 4))
  BY DEF Seen
<1>2. Seen(m, s, 1) = {Root}
  BY DEF Seen
<1>3. Seen(m, s, 2) = Step(m, {Root}, s[1])
  <2>1. Seen(m, s, 2) = Walk(m, <<recursive_index, recursive_index, recursive_index, s[1]>>)
    BY <1>w, WindowIs
  <2> QED BY <1>1, <2>1 DEF Walk
<1>4. Seen(m, s, 3) = Step(m, Step(m, {Root}, s[1]), s[2])
  <2>1. Seen(m, s, 3) = Walk(m, <<recursive_index, recursive_index, s[1], s[2]>>)
    BY <1>w, WindowIs
  <2> QED BY <1>1, <2>1 DEF Walk
<1>5. Seen(m, s, 4) = Step(m, Step(m, Step(m, {Root}, s[1]), s[2]), s[3])
  <2>1. Seen(m, s, 4) = Walk(m, <<recursive_index, s[1], s[2], s[3]>>)
    BY <1>w, WindowIs
  <2> QED BY <1>1, <2>1 DEF Walk
<1>6. CASE k = 1
  BY <1>2, <1>3, <1>6
<1>7. CASE k = 2
  BY <1>2, <1>3, <1>4, <1>7
<1>8. CASE k = 3
  BY <1>2, <1>4, <1>5, <1>8
<1> QED BY <1>6, <1>7, <1>8

RecTree(m, lv) == m \in Memory /\ lv \in Books /\ Own(m) /\ IsTree(Plain(m), lv)

\* The slots on the way to a page that is not under the recursive entry are ordinary.
LEMMA WayIsOrdinary ==
  ASSUME NEW m \in Memory, NEW lv \in Books, IsTree(m, lv), NEW s, s[1] # recursive_index,
         NEW k \in 1 .. 4, Path(s, k), Reach(m, s, k)
  PROVE  Ordinary(Tab(m, s, k), s[k]) /\ lv[Tab(m, s, k)] = 5 - k
<1>1. Path(s, k - 1) /\ s[k] \in Index
  BY DEF Path
<1>2. Tab(m, s, k) \in TableFrames /\ lv[Tab(m, s, k)] = 5 - k
  BY <1>1, ReachLevel
<1>3. k # 1 => Tab(m, s, k) # Root
  BY <1>2, FramesAssumption DEF IsTree, RootIsTop
<1> QED BY <1>1, <1>2, <1>3 DEF Ordinary

\* The window of a table shows this table, in any memory n with the same entries on the way.
LEMMA SeenIs ==
  ASSUME NEW m \in Memory, NEW lv \in Books, IsTree(m, lv), NEW s, NEW k \in 1 .. 4,
         Path(s, k - 1), Reach(m, s, k),
         NEW n, Own(n), \A j \in 1 .. k - 1 : n[Tab(m, s, j)][s[j]] = Slot(m, s, j)
  PROVE  Seen(n, s, k) = {Tab(m, s, k)}
<1> DEFINE OK(j) == Only(Seen(n, s, j), Tab(m, s, j))
<1>1. OK(1)
  BY SeenStep, ReachStep DEF Only
<1>2. ASSUME NEW j \in 1 .. 3, j < k, OK(j) PROVE OK(j + 1)
  <2>1. s[j] \in Index /\ Path(s, j - 1) /\ j \in 1 .. 4 /\ j + 1 \in 1 .. k /\ j \in 1 .. k - 1
    BY <1>2 DEF Path
  <2>2. Reach(m, s, j) /\ Reach(m, s, j + 1)
    BY <2>1, ReachBefore
  <2>3. Tab(m, s, j) \in TableFrames /\ lv[Tab(m, s, j)] = 5 - j
    BY <2>1, <2>2, ReachLevel
  <2>4. Pointer(5 - j, Slot(m, s, j)) /\ Tab(m, s, j + 1) = addr(Slot(m, s, j))
    BY <2>2, ReachStep
  <2>5. PRESENT \in Slot(m, s, j)
    BY <2>1, <2>3, <2>4 DEF IsTree, PointersDown, Slot
  <2>6. n[Tab(m, s, j)][s[j]] = Slot(m, s, j)
    BY <2>1
  <2>7. PICK A, t, h, x : A = Seen(n, s, j) /\ t = Tab(m, s, j) /\ h = s[j] /\ x = Tab(m, s, j + 1)
    OBVIOUS
  <2>8. Only(A, t) /\ t \in TableFrames /\ PRESENT \in n[t][h] /\ x = addr(n[t][h])
    BY <1>2, <2>3, <2>4, <2>5, <2>6, <2>7
  <2>9. Only(Step(n, A, h), x)
    BY <2>8, StepAlong
  <2>10. Seen(n, s, j + 1) = Step(n, Seen(n, s, j), s[j])
    BY SeenStep
  <2> QED BY <2>7, <2>9, <2>10
<1> HIDE DEF OK
<1>3. k >= 2 => OK(2)
  BY <1>1, <1>2
<1>4. k >= 3 => OK(3)
  BY <1>2, <1>3
<1>5. k >= 4 => OK(4)
  BY <1>2, <1>4
<1>6. OK(k)
  BY <1>1, <1>3, <1>4, <1>5
<1> QED BY <1>6 DEF OK, Only

\* The tables' own memory has them.
LEMMA SeenHere ==
  ASSUME NEW m, NEW lv, RecTree(m, lv), NEW s, s[1] # recursive_index, NEW k \in 1 .. 4,
         Path(s, k - 1), Reach(Plain(m), s, k)
  PROVE  /\ Seen(m, s, k) = {Tab(Plain(m), s, k)}
         /\ s[k] \in Index => EntrySeen(m, s, k) = Slot(Plain(m), s, k)
<1>0. m \in Memory /\ lv \in Books /\ Own(m) /\ IsTree(Plain(m), lv) /\ Plain(m) \in Memory
  BY PlainSlots DEF RecTree
<1>1. ASSUME NEW j \in 1 .. k - 1 PROVE m[Tab(Plain(m), s, j)][s[j]] = Slot(Plain(m), s, j)
  <2>1. j \in 1 .. 4 /\ Path(s, j) /\ j \in 1 .. k
    BY DEF Path
  <2>2. Reach(Plain(m), s, j)
    BY <2>1, ReachBefore
  <2>3. Ordinary(Tab(Plain(m), s, j), s[j])
    BY <1>0, <2>1, <2>2, WayIsOrdinary
  <2> QED BY <1>0, <2>3, PlainSlots DEF Slot
<1>2. Seen(m, s, k) = {Tab(Plain(m), s, k)}
  BY <1>0, <1>1, SeenIs
<1>3. ASSUME s[k] \in Index PROVE EntrySeen(m, s, k) = Slot(Plain(m), s, k)
  <2>1. Path(s, k)
    BY <1>3 DEF Path
  <2>2. Ordinary(Tab(Plain(m), s, k), s[k])
    BY <1>0, <2>1, WayIsOrdinary
  <2>3. m[Tab(Plain(m), s, k)][s[k]] = Slot(Plain(m), s, k)
    BY <1>0, <2>2, PlainSlots DEF Slot
  <2>4. Seen(m, s, k) \cap TableFrames = {Tab(Plain(m), s, k)}
    BY <1>2, <2>2 DEF Ordinary
  <2>5. EntrySeen(m, s, k) = UNION {m[t][s[k]] : t \in {Tab(Plain(m), s, k)}}
    BY <2>4 DEF EntrySeen
  <2>6. EntrySeen(m, s, k) = m[Tab(Plain(m), s, k)][s[k]]
    BY <2>5, Zenon
  <2> QED BY <2>3, <2>6
<1> QED BY <1>2, <1>3

\* What a window shows: the table, or something behind a huge page on the way.
LeafAbove(m, s, k) == \E j \in 2 .. 3 : j < k /\ \E e : Leaf(m, s, j, e)

LEMMA SeenFrom ==
  ASSUME NEW m, NEW lv, RecTree(m, lv), NEW s, s[1] # recursive_index, NEW k \in 1 .. 4,
         Path(s, k - 1), NEW x \in Seen(m, s, k)
  PROVE  \/ Reach(Plain(m), s, k) /\ x = Tab(Plain(m), s, k)
         \/ LeafAbove(Plain(m), s, k)
<1> DEFINE p == Plain(m)
           OK(j) == \A y \in Seen(m, s, j) : \/ Reach(p, s, j) /\ y = Tab(p, s, j)
                                             \/ LeafAbove(p, s, j)
<1>0. m \in Memory /\ lv \in Books /\ Own(m) /\ IsTree(p, lv) /\ p \in Memory
  BY PlainSlots DEF RecTree
<1>1. OK(1)
  BY <1>0, SeenStep, ReachStep
<1>2. ASSUME NEW j \in 1 .. 3, j < k, OK(j) PROVE OK(j + 1)
  <2> SUFFICES ASSUME NEW y \in Seen(m, s, j + 1)
               PROVE  \/ Reach(p, s, j + 1) /\ y = Tab(p, s, j + 1)
                      \/ LeafAbove(p, s, j + 1)
    OBVIOUS
  <2>1. s[j] \in Index /\ Path(s, j - 1) /\ Path(s, j) /\ j \in 1 .. 4
    BY <1>2 DEF Path
  <2>2. LeafAbove(p, s, j) => LeafAbove(p, s, j + 1)
    BY DEF LeafAbove
  <2>3. y \in Step(m, Seen(m, s, j), s[j])
    BY <1>0, SeenStep
  <2>4. PICK f \in Seen(m, s, j) :
          \/ f \notin TableFrames /\ y = f
          \/ f \in TableFrames /\ PRESENT \in m[f][s[j]] /\ y = addr(m[f][s[j]])
    BY <2>3, StepFrom
  <2>5. CASE Reach(p, s, j) /\ f = Tab(p, s, j)
    <3>1. Ordinary(f, s[j]) /\ lv[f] = 5 - j
      BY <1>0, <2>1, <2>5, WayIsOrdinary
    <3>2. m[f][s[j]] = Slot(p, s, j) /\ PRESENT \in Slot(p, s, j) /\ y = addr(Slot(p, s, j))
      BY <1>0, <2>4, <2>5, <3>1, PlainSlots DEF Slot, Ordinary
    <3>3. CASE Pointer(5 - j, Slot(p, s, j))
      BY <2>5, <3>2, <3>3, ReachStep
    <3>4. CASE ~Pointer(5 - j, Slot(p, s, j))
      <4>1. HUGE_PAGE \in Slot(p, s, j)
        BY <3>2, <3>4 DEF Pointer
      <4>2. j # 1
        <5>1. Tab(p, s, 1) = Root
          BY ReachStep
        <5> QED BY <1>0, <2>1, <4>1, <5>1 DEF IsTree, RootIsTop, Slot
      <4>3. j \in 2 .. 3 /\ Leaf(p, s, j, Slot(p, s, j))
        BY <2>5, <3>2, <3>4, <4>2 DEF Leaf
      <4> QED BY <4>3 DEF LeafAbove
    <3> QED BY <3>3, <3>4
  <2>6. CASE ~(Reach(p, s, j) /\ f = Tab(p, s, j))
    BY <1>2, <2>2, <2>6
  <2> QED BY <2>5, <2>6
<1> HIDE DEF OK
<1>3. k >= 2 => OK(2)
  BY <1>1, <1>2
<1>4. k >= 3 => OK(3)
  BY <1>2, <1>3
<1>5. k >= 4 => OK(4)
  BY <1>2, <1>4
<1>6. OK(k)
  BY <1>1, <1>3, <1>4, <1>5
<1> QED BY <1>6 DEF OK

LEMMA NoLeafAbove ==
  ASSUME NEW m, NEW s, NEW k \in 1 .. 4, Reach(m, s, k)
  PROVE  ~LeafAbove(m, s, k)
<1> SUFFICES ASSUME NEW j \in 2 .. 3, j < k, NEW e, Leaf(m, s, j, e) PROVE FALSE
  BY DEF LeafAbove
<1>1. j \in 1 .. 3 /\ j + 1 \in 1 .. k
  OBVIOUS
<1>2. Reach(m, s, j + 1)
  BY <1>1, ReachBefore
<1>3. Pointer(5 - j, Slot(m, s, j))
  BY <1>1, <1>2, ReachStep
<1> QED BY <1>3 DEF Leaf

(***************************************************************************)
(* Cached translations of windows.                                         *)
(***************************************************************************)
\* A cached translation of the window of a table is the table, or there is a huge page on
\* the way to it, so that nothing is accessed through the window.
TlbOK(m, T) ==
  \A s, y : \A k \in 2 .. 4 :
    y \in T /\ Path(s, k - 1) /\ s[1] # recursive_index /\ y[1] = WindowOf(s, k) =>
      (Reach(m, s, k) /\ y[2] = Tab(m, s, k)) \/ LeafAbove(m, s, k)

LEMMA TlbFresh ==
  ASSUME NEW m, NEW lv, RecTree(m, lv) PROVE TlbOK(Plain(m), Translations(m))
<1> SUFFICES ASSUME NEW s, NEW y, NEW k \in 2 .. 4, y \in Translations(m), Path(s, k - 1),
                    s[1] # recursive_index, y[1] = WindowOf(s, k)
             PROVE  \/ Reach(Plain(m), s, k) /\ y[2] = Tab(Plain(m), s, k)
                    \/ LeafAbove(Plain(m), s, k)
  BY DEF TlbOK
<1>1. \E v \in Windows : \E f \in Walk(m, v) : y = <<v, f>>
  BY Zenon DEF Translations
<1>2. PICK v \in Windows : \E f \in Walk(m, v) : y = <<v, f>>
  BY <1>1
<1>3. PICK f \in Walk(m, v) : y = <<v, f>>
  BY <1>2
<1>4. y[1] = v /\ y[2] = f
  BY <1>3
<1>5. Seen(m, s, k) = Walk(m, WindowOf(s, k)) /\ k \in 1 .. 4
  BY DEF Seen
<1>6. y[2] \in Seen(m, s, k)
  BY <1>3, <1>4, <1>5
<1> QED BY <1>5, <1>6, SeenFrom

LEMMA TlbUnion ==
  ASSUME NEW m, NEW A, NEW B, TlbOK(m, A), TlbOK(m, B) PROVE TlbOK(m, A \cup B)
  BY DEF TlbOK

\* Walks and huge pages stay.
WalksStay(m, n) ==
  \A s : \A k \in 2 .. 4 : Path(s, k - 1) /\ Reach(m, s, k) =>
    Reach(n, s, k) /\ Tab(n, s, k) = Tab(m, s, k)
LeavesStay(m, n) ==
  \A s : \A j \in 2 .. 3 : Path(s, j) /\ (\E d : Leaf(m, s, j, d)) => \E e : Leaf(n, s, j, e)

LEMMA TlbKept ==
  ASSUME NEW m, NEW n, NEW T, TlbOK(m, T), WalksStay(m, n), LeavesStay(m, n)
  PROVE  TlbOK(n, T)
<1> SUFFICES ASSUME NEW s, NEW y, NEW k \in 2 .. 4, y \in T, Path(s, k - 1),
                    s[1] # recursive_index, y[1] = WindowOf(s, k)
             PROVE  (Reach(n, s, k) /\ y[2] = Tab(n, s, k)) \/ LeafAbove(n, s, k)
  BY DEF TlbOK
<1>1. CASE Reach(m, s, k) /\ y[2] = Tab(m, s, k)
  BY <1>1 DEF WalksStay
<1>2. CASE LeafAbove(m, s, k)
  <2>1. PICK j \in 2 .. 3 : j < k /\ \E d : Leaf(m, s, j, d)
    BY <1>2 DEF LeafAbove
  <2>2. Path(s, j)
    BY <2>1 DEF Path
  <2>3. \E e : Leaf(n, s, j, e)
    BY <2>1, <2>2 DEF LeavesStay
  <2> QED BY <2>1, <2>3 DEF LeafAbove
<1> QED BY <1>1, <1>2 DEF TlbOK

LEMMA WidensWalks == ASSUME NEW m, NEW n, Widens(m, n) PROVE WalksStay(m, n)
<1>1. ASSUME NEW q, NEW j \in 2 .. 4, Path(q, j - 1), Reach(m, q, j)
      PROVE  Reach(n, q, j) /\ Tab(n, q, j) = Tab(m, q, j)
  <2>1. PICK i \in 1 .. 3 : j = i + 1
    OBVIOUS
  <2>2. Path(q, i) /\ Reach(m, q, i + 1)
    BY <1>1, <2>1
  <2>3. Reach(n, q, i + 1) /\ Tab(n, q, i + 1) = Tab(m, q, i + 1)
    BY <2>1, <2>2 DEF Widens
  <2> QED BY <2>1, <2>3
<1> QED BY <1>1 DEF WalksStay

LEMMA SameWalksStay == ASSUME NEW m, NEW n, SameWalks(m, n) PROVE WalksStay(m, n)
  BY DEF SameWalks, WalksStay

LEMMA SameLeavesStay == ASSUME NEW m, NEW n, SameLeaves(m, n) PROVE LeavesStay(m, n)
<1>1. ASSUME NEW q, NEW j \in 2 .. 3, Path(q, j), NEW d, Leaf(m, q, j, d)
      PROVE  \E e : Leaf(n, q, j, e)
  <2>1. j \in 2 .. 4
    OBVIOUS
  <2>2. Leaf(n, q, j, d)
    BY <1>1, <2>1 DEF SameLeaves
  <2> QED BY <2>2
<1> QED BY <1>1 DEF LeavesStay

LEMMA LeafBecomesStay ==
  ASSUME NEW m, NEW n, NEW p, NEW k, NEW x, x # {}, LeafBecomes(m, n, p, k, x)
  PROVE  LeavesStay(m, n)
<1>1. ASSUME NEW q, NEW j \in 2 .. 3, Path(q, j), NEW d, Leaf(m, q, j, d)
      PROVE  \E e : Leaf(n, q, j, e)
  <2>1. j \in 2 .. 4
    OBVIOUS
  <2>2. Leaf(n, q, j, d) <=> IF j = k /\ Same(q, p, k) THEN d = x /\ x # {} ELSE Leaf(m, q, j, d)
    BY <1>1, <2>1 DEF LeafBecomes
  <2>3. Leaf(n, q, j, x) <=> IF j = k /\ Same(q, p, k) THEN x = x /\ x # {} ELSE Leaf(m, q, j, x)
    BY <1>1, <2>1 DEF LeafBecomes
  <2>4. CASE j = k /\ Same(q, p, k)
    BY <2>3, <2>4
  <2>5. CASE ~(j = k /\ Same(q, p, k))
    BY <1>1, <2>2, <2>5
  <2> QED BY <2>4, <2>5
<1> QED BY <1>1 DEF LeavesStay

\* Nothing but the table is cached for the window of a table, also in a memory that is about
\* to be the tables'.
LEMMA NotStale ==
  ASSUME NEW m, NEW s, s[1] # recursive_index, NEW k \in 2 .. 4, Path(s, k - 1),
         NEW w, NEW T, TlbOK(m, T), NEW t, Only(Seen(w, s, k), t),
         \/ Reach(m, s, k) /\ t = Tab(m, s, k)
         \/ ~Reach(m, s, k) /\ ~LeafAbove(m, s, k)
  PROVE  Stale(T, w, WindowOf(s, k)) = {}
<1> DEFINE v == WindowOf(s, k)
           Old == {x[2] : x \in {y \in T : y[1] = v}}
<1>1. Walk(w, v) = {t}
  BY DEF Seen, Only
<1>2. ASSUME NEW z \in Old PROVE z = t
  <2>1. PICK y \in T : y[1] = v /\ z = y[2]
    BY <1>2
  <2>2. (Reach(m, s, k) /\ y[2] = Tab(m, s, k)) \/ LeafAbove(m, s, k)
    BY <2>1 DEF TlbOK
  <2>3. k \in 1 .. 4
    OBVIOUS
  <2> QED BY <2>1, <2>2, <2>3, NoLeafAbove
<1>3. Stale(T, w, v) = Old \ {t}
  BY <1>1 DEF Stale
<1> HIDE DEF Old, v
<1>4. Stale(T, w, v) = {}
  BY <1>2, <1>3
<1> QED BY <1>4 DEF v

(***************************************************************************)
(* map_to_with_table_flags.                                                *)
(***************************************************************************)
\* Through the window of the table below a slot the processor reaches what was just written
\* to the slot.
LEMMA SeenAfterWrite ==
  ASSUME NEW m, NEW lv, RecTree(m, lv), NEW s, s[1] # recursive_index, NEW k \in 1 .. 3,
         Path(s, k), Reach(Plain(m), s, k), NEW x \in Entry, PRESENT \in x,
         NEW n, n = [m EXCEPT ![Tab(Plain(m), s, k)][s[k]] = x]
  PROVE  Only(Seen(n, s, k + 1), addr(x))
<1>0. m \in Memory /\ lv \in Books /\ Own(m) /\ IsTree(Plain(m), lv) /\ Plain(m) \in Memory
  BY PlainSlots DEF RecTree
<1>1. k \in 1 .. 4 /\ Path(s, k - 1)
  BY DEF Path
<1>2. PICK t, i : t = Tab(Plain(m), s, k) /\ i = s[k]
  OBVIOUS
<1>3. Ordinary(t, i) /\ lv[t] = 5 - k /\ t \in TableFrames /\ i \in Index
  BY <1>0, <1>1, <1>2, WayIsOrdinary DEF Ordinary
<1>4. n = [m EXCEPT ![t][i] = x]
  BY <1>2
<1>5. Own(n)
  <2>1. Own(m) => Own([m EXCEPT ![t][i] = x])
    BY <1>0, <1>3, PlainWrite
  <2> QED BY <1>0, <1>4, <2>1
<1>6. n[t][i] = x
  BY <1>0, <1>3, <1>4 DEF Memory, Table
<1>7. ASSUME NEW j \in 1 .. k - 1 PROVE n[Tab(Plain(m), s, j)][s[j]] = Slot(Plain(m), s, j)
  <2>1. j \in 1 .. 4 /\ j \in 1 .. k /\ Path(s, j) /\ j # k
    BY DEF Path
  <2>2. Reach(Plain(m), s, j)
    BY <1>1, <2>1, ReachBefore
  <2>3. PICK g, h : g = Tab(Plain(m), s, j) /\ h = s[j]
    OBVIOUS
  <2>4. Ordinary(g, h) /\ lv[g] = 5 - j /\ g \in TableFrames /\ h \in Index
    BY <1>0, <2>1, <2>2, <2>3, WayIsOrdinary DEF Ordinary
  <2>5. g # t
    BY <1>3, <2>1, <2>4
  <2>6. n[g][h] = m[g][h]
    BY <1>0, <1>4, <2>4, <2>5 DEF Memory, Table
  <2>7. m[g][h] = Plain(m)[g][h]
    BY <1>0, <2>4, PlainSlots
  <2> QED BY <2>3, <2>6, <2>7 DEF Slot
<1>8. Seen(n, s, k) = {Tab(Plain(m), s, k)}
  BY <1>0, <1>1, <1>5, <1>7, SeenIs
<1>9. Seen(n, s, k + 1) = Step(n, {t}, i)
  BY <1>2, <1>5, <1>8, SeenStep
<1>10. Step(n, {t}, i) = {addr(n[t][i])}
  <2>1. ASSUME NEW w, NEW f \in TableFrames, PRESENT \in w[f][i]
        PROVE  Step(w, {f}, i) = {addr(w[f][i])}
    BY <2>1, StepOne DEF Only
  <2> QED BY <1>3, <1>6, <2>1, Zenon
<1> QED BY <1>6, <1>9, <1>10 DEF Only

\* Every pointer is present and writable.
PW(m, lv) ==
  \A f \in TableFrames, i \in Index : Pointer(lv[f], m[f][i]) => {PRESENT, WRITABLE} \subseteq m[f][i]

\* A call in progress, and the same call as MappedPageTable would make it.
RecCall(T) == [mem : Memory, level : Books, tlb : {T}, at : SUBSET AddrBits, err : Errors]
PlainCall(c) == [mem |-> Plain(c.mem), level |-> c.level, at |-> c.at, err |-> c.err]
RecCallOK(c, n, T) ==
  /\ c \in RecCall(T) /\ RecTree(c.mem, c.level) /\ PW(Plain(c.mem), c.level)
  /\ c.err = "None" => c.at \in TableFrames /\ c.level[c.at] = n

LEMMA PlainCallOK ==
  ASSUME NEW c, NEW n, NEW T, RecCallOK(c, n, T)
  PROVE  /\ CallOK(PlainCall(c), n)
         /\ PlainCall(c).mem = Plain(c.mem) /\ PlainCall(c).level = c.level
         /\ PlainCall(c).at = c.at /\ PlainCall(c).err = c.err
<1>1. /\ c.mem \in Memory /\ c.level \in Books /\ c.at \in SUBSET AddrBits /\ c.err \in Errors
      /\ IsTree(Plain(c.mem), c.level)
      /\ c.err = "None" => c.at \in TableFrames /\ c.level[c.at] = n
  BY DEF RecCallOK, RecCall, RecTree
<1>2. Plain(c.mem) \in Memory
  BY <1>1, PlainSlots
<1>3. /\ PlainCall(c).mem = Plain(c.mem) /\ PlainCall(c).level = c.level
      /\ PlainCall(c).at = c.at /\ PlainCall(c).err = c.err
  BY DEF PlainCall
<1>4. PlainCall(c) \in Call
  BY <1>1, <1>2 DEF PlainCall, Call
<1> QED BY <1>1, <1>3, <1>4 DEF CallOK

\* The effect of one write on the tables.
LEMMA RecNewTable ==
  ASSUME NEW m, NEW lv, RecTree(m, lv), PW(Plain(m), lv), NEW t, NEW i, Ordinary(t, i),
         lv[t] \in 2 .. 4, m[t][i] = {}, NEW f \in TableFrames, lv[f] = 0,
         NEW e \in Entry, addr(e) = f, {PRESENT, WRITABLE} \subseteq e, HUGE_PAGE \notin e,
         NEW n, n = [[m EXCEPT ![t][i] = e] EXCEPT ![f] = ZeroTable],
         NEW nl, nl = [lv EXCEPT ![f] = lv[t] - 1]
  PROVE  RecTree(n, nl) /\ PW(Plain(n), nl) /\ Hung(Plain(m), Plain(n), t, i, e, f)
<1>0. /\ m \in Memory /\ lv \in Books /\ Own(m) /\ IsTree(Plain(m), lv) /\ Plain(m) \in Memory
      /\ t \in TableFrames /\ i \in Index
  BY PlainSlots DEF RecTree, Ordinary
<1>1. f # Root /\ f # t
  BY <1>0, FramesAssumption DEF IsTree, RootIsTop
<1>2. PICK a : a = [m EXCEPT ![t][i] = e]
  OBVIOUS
<1>3. a \in Memory /\ Plain(a) = [Plain(m) EXCEPT ![t][i] = e] /\ Own(a)
  <2>1. /\ [m EXCEPT ![t][i] = e] \in Memory
        /\ Plain([m EXCEPT ![t][i] = e]) = [Plain(m) EXCEPT ![t][i] = e]
        /\ Own(m) => Own([m EXCEPT ![t][i] = e])
    BY <1>0, PlainWrite
  <2> QED BY <1>0, <1>2, <2>1
<1>4. n \in Memory /\ Plain(n) = [Plain(a) EXCEPT ![f] = ZeroTable] /\ Own(n)
  <2>1. /\ [a EXCEPT ![f] = ZeroTable] \in Memory
        /\ Plain([a EXCEPT ![f] = ZeroTable]) = [Plain(a) EXCEPT ![f] = ZeroTable]
        /\ Own(a) => Own([a EXCEPT ![f] = ZeroTable])
    BY <1>1, <1>3, PlainZero
  <2> QED BY <1>2, <1>3, <2>1
<1>5. PICK P \in Memory : P = Plain(m)
  BY <1>0
<1>6. Plain(n) = [[P EXCEPT ![t][i] = e] EXCEPT ![f] = ZeroTable]
  BY <1>3, <1>4, <1>5
<1>7. P[t][i] = {}
  BY <1>0, <1>5, PlainSlots
<1>8. PRESENT \in e
  OBVIOUS
<1>9. Plain(n) \in Memory /\ nl \in Books /\ IsTree(Plain(n), nl)
  <2>0. IsTree(P, lv)
    BY <1>0, <1>5
  <2>1. /\ [[P EXCEPT ![t][i] = e] EXCEPT ![f] = ZeroTable] \in Memory
        /\ [lv EXCEPT ![f] = lv[t] - 1] \in Books
        /\ IsTree([[P EXCEPT ![t][i] = e] EXCEPT ![f] = ZeroTable], [lv EXCEPT ![f] = lv[t] - 1])
    BY <1>0, <1>5, <1>7, <1>8, <2>0, TreeKeptByNewTable
  <2> QED BY <1>6, <2>1
<1>10. Hung(P, Plain(n), t, i, e, f)
  <2>1. PICK y : y = [[P EXCEPT ![t][i] = e] EXCEPT ![f] = ZeroTable]
    OBVIOUS
  <2>2. \A g \in TableFrames, j \in Index :
          y[g][j] = IF g = f THEN {} ELSE IF g = t /\ j = i THEN e ELSE P[g][j]
    BY <1>0, <1>5, <2>1 DEF Memory, Table, ZeroTable
  <2>3. Plain(n) = y
    BY <1>6, <2>1
  <2> QED BY <2>2, <2>3 DEF Hung
<1>11. PW(Plain(n), nl)
  <2> SUFFICES ASSUME NEW g \in TableFrames, NEW j \in Index, Pointer(nl[g], Plain(n)[g][j])
               PROVE  {PRESENT, WRITABLE} \subseteq Plain(n)[g][j]
    BY DEF PW
  <2>1. Plain(n)[g][j] = IF g = f THEN {} ELSE IF g = t /\ j = i THEN e ELSE P[g][j]
    BY <1>10 DEF Hung
  <2>2. g # f
    BY <2>1 DEF Pointer
  <2>3. nl[g] = lv[g]
    BY <1>0, <2>2 DEF Books
  <2> QED BY <1>5, <2>1, <2>2, <2>3 DEF PW
<1> QED BY <1>4, <1>5, <1>9, <1>10, <1>11 DEF RecTree

\* An entry that is no pointer is written, or the flags of a pointer, which stays one.
LEMMA RecWrite ==
  ASSUME NEW m, NEW lv, RecTree(m, lv), PW(Plain(m), lv), NEW t, NEW i, Ordinary(t, i),
         NEW e \in Entry,
         \/ /\ ~Pointer(lv[t], m[t][i]) /\ ~Pointer(lv[t], e)
            /\ lv[t] = 4 => HUGE_PAGE \notin e
         \/ /\ Pointer(lv[t], m[t][i]) /\ Pointer(lv[t], e)
            /\ addr(e) = addr(m[t][i]) /\ {PRESENT, WRITABLE} \subseteq e,
         NEW n, n = [m EXCEPT ![t][i] = e]
  PROVE  /\ RecTree(n, lv) /\ PW(Plain(n), lv) /\ Written(Plain(m), Plain(n), t, i, e)
         /\ Plain(n) = [Plain(m) EXCEPT ![t][i] = e]
<1>0. /\ m \in Memory /\ lv \in Books /\ Own(m) /\ IsTree(Plain(m), lv) /\ Plain(m) \in Memory
      /\ t \in TableFrames /\ i \in Index
  BY PlainSlots DEF RecTree, Ordinary
<1>3. n \in Memory /\ Plain(n) = [Plain(m) EXCEPT ![t][i] = e] /\ Own(n)
  <2>1. /\ [m EXCEPT ![t][i] = e] \in Memory
        /\ Plain([m EXCEPT ![t][i] = e]) = [Plain(m) EXCEPT ![t][i] = e]
        /\ Own(m) => Own([m EXCEPT ![t][i] = e])
    BY <1>0, PlainWrite
  <2> QED BY <1>0, <2>1
<1>5. PICK P \in Memory : P = Plain(m)
  BY <1>0
<1>6. Plain(n) = [P EXCEPT ![t][i] = e]
  BY <1>3, <1>5
<1>7. P[t][i] = m[t][i]
  BY <1>0, <1>5, PlainSlots
<1>8. Written(P, Plain(n), t, i, e)
  <2>1. \A g \in TableFrames, j \in Index :
          [P EXCEPT ![t][i] = e][g][j] = IF g = t /\ j = i THEN e ELSE P[g][j]
    BY <1>0, <1>5 DEF Memory, Table
  <2> QED BY <1>6, <2>1 DEF Written
<1>9. IsTree(Plain(n), lv)
  <2>1. CASE ~Pointer(lv[t], m[t][i])
    <3>1. ~Pointer(lv[t], P[t][i]) /\ ~Pointer(lv[t], e) /\ (lv[t] = 4 => HUGE_PAGE \notin e)
      BY <1>7, <2>1
    <3> QED BY <1>0, <1>5, <1>6, <3>1, TreeKeptByLeaf
  <2>2. CASE Pointer(lv[t], m[t][i])
    <3>1. Pointer(lv[t], P[t][i]) /\ Pointer(lv[t], e) /\ addr(e) = addr(P[t][i]) /\ PRESENT \in e
      BY <1>7, <2>2
    <3> QED BY <1>0, <1>5, <1>6, <3>1, TreeKeptByFlags
  <2> QED BY <2>1, <2>2
<1>10. PW(Plain(n), lv)
  <2> SUFFICES ASSUME NEW g \in TableFrames, NEW j \in Index, Pointer(lv[g], Plain(n)[g][j])
               PROVE  {PRESENT, WRITABLE} \subseteq Plain(n)[g][j]
    BY DEF PW
  <2>1. Plain(n)[g][j] = IF g = t /\ j = i THEN e ELSE P[g][j]
    BY <1>8 DEF Written
  <2>2. CASE g = t /\ j = i
    BY <2>1, <2>2
  <2>3. CASE ~(g = t /\ j = i)
    BY <1>5, <2>1, <2>3 DEF PW
  <2> QED BY <2>2, <2>3
<1> QED BY <1>0, <1>3, <1>5, <1>8, <1>9, <1>10 DEF RecTree

\* Enter goes to the table t that the walk of the window finds, or strays.
LEMMA EnterHit ==
  ASSUME NEW T, NEW c \in RecCall(T), NEW v, NEW e \in Entry, HUGE_PAGE \notin e,
         NEW t \in TableFrames, Only(Walk(c.mem, v), t), NEW created \in BOOLEAN,
         NEW d \in Enter(c, v, e, created), d.err = "strayed" => Stale(c.tlb, c.mem, v) = {}
  PROVE  /\ d.mem = IF created THEN [c.mem EXCEPT ![t] = ZeroTable] ELSE c.mem
         /\ d.level = c.level /\ d.tlb = c.tlb /\ d.at = t /\ d.err = c.err
         /\ d.mem \in Memory => d \in RecCall(T)
<1> DEFINE zeroed(u) == IF created /\ u \in TableFrames THEN [c.mem EXCEPT ![u] = ZeroTable]
                        ELSE c.mem
<1>1. PICK w : w = IF created THEN [c.mem EXCEPT ![t] = ZeroTable] ELSE c.mem
  OBVIOUS
<1>2. /\ HUGE_PAGE \notin flags(e)
      /\ Walk(c.mem, v) # {} /\ Walk(c.mem, v) \subseteq TableFrames
  BY DEF flags, Only
<1>3. Enter(c, v, e, created)
        = {[c EXCEPT !.at = u, !.mem = zeroed(u)] : u \in Walk(c.mem, v)} \cup
          {[c EXCEPT !.err = "strayed", !.mem = zeroed(u)] : u \in Stale(c.tlb, c.mem, v)}
  BY <1>2 DEF Enter
<1>4. ASSUME NEW u \in Stale(c.tlb, c.mem, v), d = [c EXCEPT !.err = "strayed", !.mem = zeroed(u)]
      PROVE  FALSE
  <2>1. d.err = "strayed"
    BY <1>4 DEF RecCall
  <2> QED BY <1>4, <2>1
<1>5. PICK u \in Walk(c.mem, v) : d = [c EXCEPT !.at = u, !.mem = zeroed(u)]
  BY <1>3, <1>4
<1>6. u = t /\ zeroed(t) = w
  BY <1>1 DEF Only
<1> HIDE DEF zeroed
<1>7. d = [c EXCEPT !.at = t, !.mem = w] /\ t \in SUBSET AddrBits
  BY <1>5, <1>6, FramesAssumption
<1>8. d.mem = w /\ d.level = c.level /\ d.tlb = c.tlb /\ d.at = t /\ d.err = c.err
  BY <1>7 DEF RecCall
<1>9. w \in Memory => d \in RecCall(T)
  BY <1>7 DEF RecCall
<1> QED BY <1>1, <1>8, <1>9

LEMMA EnterHuge ==
  ASSUME NEW T, NEW c \in RecCall(T), NEW v, NEW e \in Entry, HUGE_PAGE \in e, NEW created,
         NEW d \in Enter(c, v, e, created)
  PROVE  /\ d.mem = c.mem /\ d.level = c.level /\ d.err = "ParentEntryHugePage"
         /\ d \in RecCall(T)
<1>1. HUGE_PAGE \in flags(e)
  BY BitsAssumption DEF flags
<1>2. d = [c EXCEPT !.err = "ParentEntryHugePage"]
  BY <1>1 DEF Enter
<1> QED BY <1>2 DEF RecCall, Errors

LEMMA TableBitsOK ==
  ASSUME NEW pf, FlagsOK(pf)
  PROVE  ParentOK(TableBits(pf)) /\ pf \subseteq TableBits(pf) /\ WRITABLE \in TableBits(pf)
  BY BitsAssumption DEF FlagsOK, ParentOK, TableBits

\* create_next_table finds every table through its window, and does to the tables what
\* that of MappedPageTable does; it strays only if a cached translation is out of date.
LEMMA RecNextTable ==
  ASSUME NEW T, NEW c, NEW k \in 1 .. 3, RecCallOK(c, 5 - k, T), c.err = "None",
         NEW s, Path(s, k), s[1] # recursive_index,
         Reach(Plain(c.mem), s, k), c.at = Tab(Plain(c.mem), s, k),
         NEW pf, FlagsOK(pf),
         NEW d \in rec_create_next_table(c, s[k], WindowOf(s, k + 1), 4 - k, pf)
  PROVE  \/ d.err = "strayed" /\ ~TlbOK(Plain(c.mem), T)
         \/ /\ RecCallOK(d, 4 - k, T)
            /\ CreateStep(PlainCall(c), s[k], TableBits(pf), pf, PlainCall(d))
<1> SUFFICES ASSUME d.err = "strayed" => TlbOK(Plain(c.mem), T)
             PROVE  /\ RecCallOK(d, 4 - k, T)
                    /\ CreateStep(PlainCall(c), s[k], TableBits(pf), pf, PlainCall(d))
  OBVIOUS
<1> DEFINE v == WindowOf(s, k + 1)
<1>1. PICK m \in Memory, lv \in Books, t \in TableFrames, i \in Index :
        m = c.mem /\ lv = c.level /\ t = c.at /\ i = s[k]
  BY DEF RecCallOK, RecCall, Path
<1>2. /\ RecTree(m, lv) /\ PW(Plain(m), lv) /\ lv[t] = 5 - k /\ c \in RecCall(T)
      /\ Own(m) /\ IsTree(Plain(m), lv) /\ Plain(m) \in Memory
      /\ Reach(Plain(m), s, k) /\ t = Tab(Plain(m), s, k)
      /\ (d.err = "strayed" => TlbOK(Plain(m), T)) /\ c.tlb = T
  BY <1>1, PlainSlots DEF RecCallOK, RecTree, RecCall
<1>3. /\ k \in 1 .. 4 /\ k + 1 \in 2 .. 4 /\ Path(s, k - 1) /\ Path(s, (k + 1) - 1)
      /\ 5 - k \in 2 .. 4 /\ (5 - k) - 1 = 4 - k
  BY DEF Path
<1>4. Ordinary(t, i)
  BY <1>1, <1>2, <1>3, WayIsOrdinary
<1>5. PICK e \in Entry : e = m[t][i]
  BY DEF Memory, Table
<1>6. Plain(m)[t][i] = e /\ Slot(Plain(m), s, k) = e
  <2>1. Plain(m)[t][i] = e
    BY <1>4, <1>5, PlainSlots
  <2> QED BY <1>1, <1>2, <2>1 DEF Slot
<1>e. ASSUME NEW o \in RecCall(T), NEW y \in Entry, HUGE_PAGE \notin y, NEW g \in TableFrames,
             Only(Walk(o.mem, v), g), NEW created \in BOOLEAN, d \in Enter(o, v, y, created),
             d.err = "strayed" => Stale(o.tlb, o.mem, v) = {}
      PROVE  /\ d.mem = IF created THEN [o.mem EXCEPT ![g] = ZeroTable] ELSE o.mem
             /\ d.level = o.level /\ d.tlb = o.tlb /\ d.at = g /\ d.err = o.err
             /\ d.mem \in Memory => d \in RecCall(T)
  BY <1>e, EnterHit
<1>g. ASSUME NEW o \in RecCall(T), NEW y \in Entry, HUGE_PAGE \in y, d \in Enter(o, v, y, FALSE)
      PROVE  /\ d.mem = o.mem /\ d.level = o.level /\ d.err = "ParentEntryHugePage"
             /\ d \in RecCall(T)
  BY <1>g, EnterHuge
<1> DEFINE x(f) == set_addr(f, TableBits(pf))
           w == InsertFlags(e, pf)
           c1(f) == [c EXCEPT !.mem[c.at][s[k]] = x(f), !.level[f] = 4 - k]
           c2 == [c EXCEPT !.mem[c.at][s[k]] = w]
<1>7. \/ e = {} /\ d = [c EXCEPT !.err = "FrameAllocationFailed"]
      \/ e = {} /\ \E f \in TableFrames : lv[f] = 0 /\ d \in Enter(c1(f), v, x(f), TRUE)
      \/ e # {} /\ d \in Enter(c2, v, w, FALSE)
  BY <1>1, <1>5 DEF rec_create_next_table, is_unused
<1>8. CASE e = {} /\ d = [c EXCEPT !.err = "FrameAllocationFailed"]
  <2>1. /\ d.mem = m /\ d.level = lv /\ d.err = "FrameAllocationFailed" /\ d \in RecCall(T)
    BY <1>1, <1>2, <1>8 DEF RecCall, Errors
  <2>2. RecCallOK(d, 4 - k, T)
    BY <1>2, <2>1 DEF RecCallOK
  <2>3. NoFrame(PlainCall(c), PlainCall(d))
    BY <1>1, <2>1 DEF NoFrame, PlainCall
  <2> QED BY <2>2, <2>3 DEF CreateStep
<1>9. ASSUME e = {}, NEW f \in TableFrames, lv[f] = 0, d \in Enter(c1(f), v, x(f), TRUE)
      PROVE  RecCallOK(d, 4 - k, T) /\ NewTable(PlainCall(c), s[k], TableBits(pf), PlainCall(d), f)
  <2>1. PICK y \in Entry : y = x(f)
    BY TableBitsOK, AddrOfSetAddr, FramesAssumption DEF ParentOK
  <2>2. addr(y) = f /\ {PRESENT, WRITABLE} \subseteq y /\ HUGE_PAGE \notin y /\ PRESENT \in y
    <3>1. /\ f \in SUBSET AddrBits /\ TableBits(pf) \in SUBSET FlagBits
          /\ TableBits(pf) \cap AddrBits = {} /\ {PRESENT, WRITABLE} \subseteq TableBits(pf)
          /\ HUGE_PAGE \notin TableBits(pf)
      BY TableBitsOK, FramesAssumption DEF ParentOK
    <3> QED BY <2>1, <3>1, AddrOfSetAddr, BitsAssumption
  <2>3. PICK a : a = [m EXCEPT ![t][i] = y]
    OBVIOUS
  <2>4. PICK b : b = [lv EXCEPT ![f] = lv[t] - 1]
    OBVIOUS
  <2>5. /\ c1(f) = [c EXCEPT !.mem = a, !.level = b]
    BY <1>1, <1>2, <1>3, <2>1, <2>3, <2>4 DEF RecCall
  <2>6. a \in Memory
    <3>1. [m EXCEPT ![t][i] = y] \in Memory
      BY <1>4, PlainWrite
    <3> QED BY <2>3, <3>1
  <2>7. b \in Books
    BY <1>2, <1>3, <2>4 DEF Books, Levels
  <2>8. PICK z \in RecCall(T) : z = c1(f)
    BY <1>2, <2>5, <2>6, <2>7 DEF RecCall
  <2>9. z.mem = a /\ z.level = b /\ z.tlb = T /\ z.err = "None"
    BY <1>2, <2>5, <2>8 DEF RecCall
  <2>10. Only(Seen(z.mem, s, k + 1), f)
    <3>1. a = [m EXCEPT ![Tab(Plain(m), s, k)][s[k]] = y]
      BY <1>1, <1>2, <2>3
    <3>2. Only(Seen(a, s, k + 1), addr(y))
      BY <2>1, <1>2, <2>2, <3>1, SeenAfterWrite
    <3> QED BY <2>2, <2>9, <3>2
  <2>11. ~Reach(Plain(m), s, k + 1)
    BY <1>6, <1>9, ReachStep DEF Pointer
  <2>12. ~LeafAbove(Plain(m), s, k + 1)
    <3> SUFFICES ASSUME NEW j \in 2 .. 3, j < k + 1, NEW u, Leaf(Plain(m), s, j, u) PROVE FALSE
      BY DEF LeafAbove
    <3>1. CASE j = k
      BY <1>6, <1>9, <3>1 DEF Leaf
    <3>2. CASE j # k
      <4>1. LeafAbove(Plain(m), s, k)
        BY <3>2 DEF LeafAbove
      <4> QED BY <1>2, <1>3, <4>1, NoLeafAbove
    <3> QED BY <3>1, <3>2
  <2>13. Only(Walk(z.mem, v), f) /\ (d.err = "strayed" => Stale(z.tlb, z.mem, v) = {})
    <3>1. d.err = "strayed" => TlbOK(Plain(m), z.tlb)
      BY <1>2, <2>9
    <3>2. PICK l \in 2 .. 4 : l = k + 1
      BY <1>3
    <3>3. /\ Path(s, l - 1) /\ Only(Seen(z.mem, s, l), f)
          /\ ~Reach(Plain(m), s, l) /\ ~LeafAbove(Plain(m), s, l)
      BY <1>3, <2>10, <2>11, <2>12, <3>2
    <3>4. d.err = "strayed" => Stale(z.tlb, z.mem, WindowOf(s, l)) = {}
      BY <3>1, <3>2, <3>3, NotStale
    <3>5. Only(Walk(z.mem, WindowOf(s, l)), f)
      BY <3>3 DEF Seen
    <3> QED BY <3>2, <3>4, <3>5
  <2>14. d \in Enter(z, v, y, TRUE)
    BY <1>9, <2>1, <2>8
  <2> HIDE DEF v, x, c1
  <2>15. /\ d.mem = [a EXCEPT ![f] = ZeroTable] /\ d.level = b /\ d.tlb = T
         /\ d.at = f /\ d.err = "None" /\ (d.mem \in Memory => d \in RecCall(T))
    <3>0. PICK created \in BOOLEAN : created = TRUE
      OBVIOUS
    <3>1. /\ z \in RecCall(T) /\ y \in Entry /\ HUGE_PAGE \notin y /\ f \in TableFrames
          /\ created \in BOOLEAN /\ Only(Walk(z.mem, v), f) /\ d \in Enter(z, v, y, created)
          /\ (d.err = "strayed" => Stale(z.tlb, z.mem, v) = {})
      BY <2>1, <2>2, <2>8, <2>13, <2>14, <3>0
    <3>2. /\ d.mem = IF created THEN [z.mem EXCEPT ![f] = ZeroTable] ELSE z.mem
          /\ d.level = z.level /\ d.tlb = z.tlb /\ d.at = f /\ d.err = z.err
          /\ d.mem \in Memory => d \in RecCall(T)
      BY <1>e, <3>1
    <3> QED BY <2>9, <3>0, <3>2
  <2>16. d.mem = [[m EXCEPT ![t][i] = y] EXCEPT ![f] = ZeroTable]
    BY <2>3, <2>15
  <2>17. RecTree(d.mem, b) /\ PW(Plain(d.mem), b) /\ Hung(Plain(m), Plain(d.mem), t, i, y, f)
    <3>1. lv[t] \in 2 .. 4 /\ m[t][i] = {}
      BY <1>2, <1>3, <1>5, <1>9
    <3>2. ASSUME NEW n, n = [[m EXCEPT ![t][i] = y] EXCEPT ![f] = ZeroTable],
                 NEW nl, nl = [lv EXCEPT ![f] = lv[t] - 1]
          PROVE  RecTree(n, nl) /\ PW(Plain(n), nl) /\ Hung(Plain(m), Plain(n), t, i, y, f)
      BY <1>2, <1>4, <1>9, <2>1, <2>2, <3>1, <3>2, RecNewTable
    <3> QED BY <2>4, <2>16, <3>2
  <2>18. d.level[d.at] = 4 - k
    BY <1>2, <1>3, <2>4, <2>15 DEF Books
  <2>19. RecCallOK(d, 4 - k, T)
    BY <2>15, <2>17, <2>18 DEF RecCallOK, RecTree
  <2>20. y = f \cup TableBits(pf)
    BY <2>1 DEF x, set_addr
  <2>21. NewTable(PlainCall(c), s[k], TableBits(pf), PlainCall(d), f)
    BY <1>1, <1>6, <1>9, <2>15, <2>17, <2>20 DEF NewTable, PlainCall
  <2> QED BY <2>19, <2>21
<1>10. CASE e # {} /\ d \in Enter(c2, v, w, FALSE)
  <2>1. PICK y \in Entry : y = w
    BY InsertFlagsJoins DEF FlagsOK, Entry
  <2>2. /\ y = e \cup pf /\ addr(y) = addr(e) /\ e \subseteq y /\ y # {}
        /\ HUGE_PAGE \in y <=> HUGE_PAGE \in e
    BY <1>10, <2>1, InsertFlagsJoins DEF FlagsOK, addr
  <2>3. PICK a : a = [m EXCEPT ![t][i] = y]
    OBVIOUS
  <2>5. /\ c2 = [c EXCEPT !.mem = a]
    BY <1>1, <1>2, <2>1, <2>3 DEF RecCall
  <2>6. a \in Memory
    <3>1. [m EXCEPT ![t][i] = y] \in Memory
      BY <1>4, PlainWrite
    <3> QED BY <2>3, <3>1
  <2>8. PICK z \in RecCall(T) : z = c2
    BY <1>2, <2>5, <2>6 DEF RecCall
  <2>9. z.mem = a /\ z.level = lv /\ z.tlb = T /\ z.err = "None"
    BY <1>1, <1>2, <2>5, <2>8 DEF RecCall
  <2>14. d \in Enter(z, v, y, FALSE)
    BY <1>10, <2>1, <2>8
  <2>15. CASE HUGE_PAGE \in e
    <3>1. d.mem = a /\ d.level = lv /\ d.err = "ParentEntryHugePage" /\ d \in RecCall(T)
      <4>1. HUGE_PAGE \in y
        BY <2>2, <2>15
      <4> HIDE DEF v, w, c2
      <4>2. /\ d.mem = z.mem /\ d.level = z.level /\ d.err = "ParentEntryHugePage"
            /\ d \in RecCall(T)
        BY <1>g, <2>1, <2>8, <2>14, <4>1
      <4> QED BY <2>9, <4>2
    <3>2. ~Pointer(lv[t], m[t][i]) /\ ~Pointer(lv[t], y)
      BY <1>5, <2>2, <2>15 DEF Pointer
    <3>3. lv[t] # 4
      BY <1>2, <1>6, <2>15 DEF IsTree, RootIsTop
    <3>4. RecTree(a, lv) /\ PW(Plain(a), lv) /\ Written(Plain(m), Plain(a), t, i, y)
      BY <1>2, <1>4, <2>3, <3>2, <3>3, RecWrite
    <3>5. RecCallOK(d, 4 - k, T)
      BY <3>1, <3>4 DEF RecCallOK
    <3>6. OldTable(PlainCall(c), s[k], pf, PlainCall(d))
      BY <1>1, <1>6, <1>10, <2>2, <2>15, <3>1, <3>4 DEF OldTable, PlainCall
    <3> QED BY <3>5, <3>6 DEF CreateStep
  <2>16. CASE HUGE_PAGE \notin e
    <3>1. Pointer(5 - k, e) /\ Pointer(5 - k, y)
      BY <1>3, <1>10, <2>2, <2>16 DEF Pointer
    <3>2. /\ {PRESENT, WRITABLE} \subseteq e /\ addr(e) \in TableFrames
          /\ lv[addr(e)] = 4 - k
      BY <1>2, <1>3, <1>6, <3>1 DEF PW, IsTree, PointersDown
    <3>3. Reach(Plain(m), s, k + 1) /\ Tab(Plain(m), s, k + 1) = addr(e)
      BY <1>2, <1>6, <3>1, ReachStep
    <3>4. Only(Seen(z.mem, s, k + 1), addr(e))
      <4>1. a = [m EXCEPT ![Tab(Plain(m), s, k)][s[k]] = y] /\ PRESENT \in y
        BY <1>1, <1>2, <2>2, <2>3, <3>2
      <4>2. Only(Seen(a, s, k + 1), addr(y))
        BY <2>1, <1>2, <4>1, SeenAfterWrite
      <4> QED BY <2>2, <2>9, <4>2
    <3>5. Only(Walk(z.mem, v), addr(e)) /\ (d.err = "strayed" => Stale(z.tlb, z.mem, v) = {})
      <4>1. d.err = "strayed" => TlbOK(Plain(m), z.tlb)
        BY <1>2, <2>9
      <4>2. PICK l \in 2 .. 4 : l = k + 1
        BY <1>3
      <4>3. /\ Path(s, l - 1) /\ Only(Seen(z.mem, s, l), addr(e))
            /\ Reach(Plain(m), s, l) /\ addr(e) = Tab(Plain(m), s, l)
        BY <1>3, <3>3, <3>4, <4>2
      <4>4. d.err = "strayed" => Stale(z.tlb, z.mem, WindowOf(s, l)) = {}
        BY <4>1, <4>2, <4>3, NotStale
      <4>5. Only(Walk(z.mem, WindowOf(s, l)), addr(e))
        BY <4>3 DEF Seen
      <4> QED BY <4>2, <4>4, <4>5
    <3> HIDE DEF v, w, c2
    <3>6. HUGE_PAGE \notin y
      BY <2>2, <2>16
    <3>7. /\ d.mem = a /\ d.level = lv /\ d.tlb = T /\ d.at = addr(e) /\ d.err = "None"
          /\ (d.mem \in Memory => d \in RecCall(T))
      <4>1. /\ d.mem = IF FALSE THEN [z.mem EXCEPT ![addr(e)] = ZeroTable] ELSE z.mem
            /\ d.level = z.level /\ d.tlb = z.tlb /\ d.at = addr(e) /\ d.err = z.err
            /\ d.mem \in Memory => d \in RecCall(T)
        BY <1>e, <2>1, <2>8, <2>14, <3>2, <3>5, <3>6
      <4> QED BY <2>9, <4>1
    <3>8. RecTree(a, lv) /\ PW(Plain(a), lv) /\ Written(Plain(m), Plain(a), t, i, y)
      <4>1. /\ Pointer(lv[t], m[t][i]) /\ Pointer(lv[t], y) /\ addr(y) = addr(m[t][i])
            /\ {PRESENT, WRITABLE} \subseteq y
        BY <1>2, <1>5, <2>2, <3>1, <3>2
      <4> QED BY <1>2, <1>4, <2>3, <4>1, RecWrite
    <3>9. RecCallOK(d, 4 - k, T)
      BY <2>6, <3>2, <3>7, <3>8 DEF RecCallOK
    <3>10. OldTable(PlainCall(c), s[k], pf, PlainCall(d))
      BY <1>1, <1>6, <1>10, <2>2, <2>16, <3>7, <3>8 DEF OldTable, PlainCall
    <3> QED BY <3>9, <3>10 DEF CreateStep
  <2> QED BY <2>15, <2>16
<1> HIDE DEF x, c1, c2, w, v
<1> QED BY <1>7, <1>8, <1>9, <1>10 DEF CreateStep

\* A call on its way down, at depth k: it has strayed, for a cached translation is out of
\* date, or it has come as far as that of MappedPageTable.
Going(m, c, s, k, T, pf) ==
  \/ c.err = "strayed" /\ ~TlbOK(m, T)
  \/ RecCallOK(c, 5 - k, T) /\ Progress(m, PlainCall(c), s, k, pf)

LEMMA RecProgressStep ==
  ASSUME NEW T, NEW m, NEW c, NEW k \in 1 .. 3, NEW s, Path(s, k), s[1] # recursive_index,
         NEW pf, FlagsOK(pf), Going(m, c, s, k, T, pf),
         NEW d \in rec_create_next_table(c, s[k], WindowOf(s, k + 1), 4 - k, pf)
  PROVE  Going(m, d, s, k + 1, T, pf)
<1>0. CASE c.err = "strayed" /\ ~TlbOK(m, T)
  <2>1. d = c
    BY <1>0 DEF rec_create_next_table
  <2> QED BY <1>0, <2>1 DEF Going
<1>g. CASE RecCallOK(c, 5 - k, T) /\ Progress(m, PlainCall(c), s, k, pf)
  <2> SUFFICES ASSUME ~(d.err = "strayed" /\ ~TlbOK(m, T))
               PROVE  RecCallOK(d, 4 - k, T) /\ Progress(m, PlainCall(d), s, k + 1, pf)
    <3>1. 5 - (k + 1) = 4 - k
      OBVIOUS
    <3> QED BY <3>1 DEF Going
  <2>1. /\ CallOK(PlainCall(c), 5 - k)
        /\ PlainCall(c).mem = Plain(c.mem) /\ PlainCall(c).at = c.at /\ PlainCall(c).err = c.err
    BY <1>g, PlainCallOK
  <2>2. /\ c.err # "None" => d = c
        /\ c.err = "None" => /\ RecCallOK(d, 4 - k, T)
                             /\ CreateStep(PlainCall(c), s[k], TableBits(pf), pf, PlainCall(d))
    <3>1. c.err # "None" => d = c
      BY DEF rec_create_next_table
    <3>2. ASSUME c.err = "None"
          PROVE  /\ RecCallOK(d, 4 - k, T)
                 /\ CreateStep(PlainCall(c), s[k], TableBits(pf), pf, PlainCall(d))
      <4>1. /\ Widens(m, Plain(c.mem)) /\ SameLeaves(m, Plain(c.mem))
            /\ Reach(Plain(c.mem), s, k) /\ c.at = Tab(Plain(c.mem), s, k)
        BY <1>g, <2>1, <3>2 DEF Progress
      <4>2. TlbOK(m, T) => TlbOK(Plain(c.mem), T)
        BY <4>1, WidensWalks, SameLeavesStay, TlbKept
      <4>3. \/ d.err = "strayed" /\ ~TlbOK(Plain(c.mem), T)
            \/ /\ RecCallOK(d, 4 - k, T)
               /\ CreateStep(PlainCall(c), s[k], TableBits(pf), pf, PlainCall(d))
        BY <1>g, <3>2, <4>1, RecNextTable
      <4> QED BY <4>2, <4>3
    <3> QED BY <3>1, <3>2
  <2>3. RecCallOK(d, 4 - k, T)
    <3>1. CASE c.err = "None"
      BY <2>2, <3>1
    <3>2. CASE c.err # "None"
      BY <1>g, <2>2, <3>2 DEF RecCallOK
    <3> QED BY <3>1, <3>2
  <2>4. /\ PlainCall(c).err # "None" => PlainCall(d) = PlainCall(c)
        /\ PlainCall(c).err = "None" =>
             CreateStep(PlainCall(c), s[k], TableBits(pf), pf, PlainCall(d))
    BY <2>1, <2>2
  <2>5. ParentOK(TableBits(pf)) /\ pf \subseteq TableBits(pf)
    BY TableBitsOK
  <2>6. Progress(m, PlainCall(d), s, k + 1, pf)
    BY <1>g, <2>1, <2>4, <2>5, ProgressStep
  <2> QED BY <2>3, <2>6
<1> QED BY <1>0, <1>g DEF Going

LEMMA RecParents ==
  ASSUME RecTree(mem, level), PW(Plain(mem), level),
         NEW page \in UserPages, NEW pf, FlagsOK(pf), NEW c \in rec_create_parents(page, pf)
  PROVE  Going(Plain(mem), c, page, Len(page), tlb, pf)
<1>0. PICK m, T : m = Plain(mem) /\ T = tlb
  OBVIOUS
<1>1. /\ page \in Pages /\ page[1] # recursive_index /\ Len(page) \in 2 .. 4
      /\ Path(page, 1) /\ (Len(page) >= 3 => Path(page, 2)) /\ (Len(page) >= 4 => Path(page, 3))
  <2>1. page \in Pages /\ page[1] # recursive_index
    BY DEF UserPages
  <2>2. Len(page) \in 2 .. 4 /\ Path(page, Len(page))
    BY <2>1, PagePath
  <2> QED BY <2>1, <2>2 DEF Path
<1>2. Going(m, RecBegin, page, 1, T, pf)
  <2>1. RecBegin \in RecCall(T)
    BY <1>0, FramesAssumption DEF RecBegin, RecCall, RecTree, Errors
  <2>2. /\ RecBegin.mem = mem /\ RecBegin.level = level /\ RecBegin.at = Root
        /\ RecBegin.err = "None" /\ level[Root] = 4 /\ Root \in TableFrames
    BY FramesAssumption DEF RecBegin, RecTree, IsTree, RootIsTop
  <2>3. RecCallOK(RecBegin, 5 - 1, T)
    BY <2>1, <2>2 DEF RecCallOK
  <2>4. /\ PlainCall(RecBegin).mem = m /\ PlainCall(RecBegin).at = Root
        /\ PlainCall(RecBegin).err = "None"
    BY <1>0, <2>2 DEF PlainCall
  <2>5. Reach(m, page, 1) /\ Tab(m, page, 1) = Root /\ Widens(m, m) /\ SameLeaves(m, m)
    BY ReachStep DEF Widens, SameLeaves
  <2>6. Progress(m, PlainCall(RecBegin), page, 1, pf)
    BY <2>4, <2>5 DEF Progress
  <2> QED BY <2>3, <2>6 DEF Going
<1>3. ASSUME NEW b, NEW k \in 1 .. 3, k < Len(page), Going(m, b, page, k, T, pf),
             NEW d \in rec_create_next_table(b, page[k], WindowOf(page, k + 1), 4 - k, pf)
      PROVE  Going(m, d, page, k + 1, T, pf)
  <2>1. Path(page, k)
    BY <1>1, <1>3
  <2> QED BY <1>1, <1>3, <2>1, RecProgressStep
<1>4. \A d \in rec_create_p3(page, pf) : Going(m, d, page, 2, T, pf)
  <2>1. ASSUME NEW d \in rec_create_p3(page, pf) PROVE Going(m, d, page, 1 + 1, T, pf)
    <3>1. d \in rec_create_next_table(RecBegin, page[1], WindowOf(page, 1 + 1), 4 - 1, pf)
      BY DEF rec_create_p3, WindowOf
    <3>2. 1 \in 1 .. 3 /\ 1 < Len(page)
      BY <1>1
    <3> HIDE DEF WindowOf
    <3> QED BY <1>2, <1>3, <3>1, <3>2
  <2> QED BY <2>1
<1>5. Len(page) >= 3 => \A d \in rec_create_p2(page, pf) : Going(m, d, page, 3, T, pf)
  <2>1. ASSUME Len(page) >= 3, NEW d \in rec_create_p2(page, pf)
        PROVE  Going(m, d, page, 2 + 1, T, pf)
    <3>1. PICK b \in rec_create_p3(page, pf) :
            d \in rec_create_next_table(b, page[2], p2_page(page), 2, pf)
      BY DEF rec_create_p2
    <3>2. d \in rec_create_next_table(b, page[2], WindowOf(page, 2 + 1), 4 - 2, pf)
      BY <3>1 DEF WindowOf
    <3>3. 2 \in 1 .. 3 /\ 2 < Len(page) /\ Going(m, b, page, 2, T, pf)
      BY <1>1, <1>4, <2>1, <3>1
    <3> QED BY <1>3, <3>2, <3>3
  <2> QED BY <2>1
<1>6. Len(page) >= 4 => \A d \in rec_create_p1(page, pf) : Going(m, d, page, 4, T, pf)
  <2>1. ASSUME Len(page) >= 4, NEW d \in rec_create_p1(page, pf)
        PROVE  Going(m, d, page, 3 + 1, T, pf)
    <3>1. PICK b \in rec_create_p2(page, pf) :
            d \in rec_create_next_table(b, page[3], p1_page(page), 1, pf)
      BY DEF rec_create_p1
    <3>2. d \in rec_create_next_table(b, page[3], WindowOf(page, 3 + 1), 4 - 3, pf)
      BY <3>1 DEF WindowOf
    <3>3. 3 \in 1 .. 3 /\ 3 < Len(page) /\ Going(m, b, page, 3, T, pf)
      BY <1>1, <1>5, <2>1, <3>1
    <3> QED BY <1>3, <3>2, <3>3
  <2> QED BY <2>1
<1>7. Going(m, c, page, Len(page), T, pf)
  <2>1. CASE Len(page) = 2
    <3>1. c \in rec_create_p3(page, pf)
      BY <2>1 DEF rec_create_parents
    <3> QED BY <1>4, <2>1, <3>1
  <2>2. CASE Len(page) = 3
    <3>1. c \in rec_create_p2(page, pf)
      BY <2>2 DEF rec_create_parents
    <3> QED BY <1>5, <2>2, <3>1
  <2>3. CASE Len(page) = 4
    <3>1. c \in rec_create_p1(page, pf)
      BY <2>3 DEF rec_create_parents
    <3> QED BY <1>6, <2>3, <3>1
  <2> QED BY <1>1, <2>1, <2>2, <2>3
<1> QED BY <1>0, <1>7

LEMMA RecWriteLeaf ==
  ASSUME NEW T, NEW page \in UserPages, NEW frame \in SUBSET AddrBits, NEW f \in SUBSET FlagBits,
         NEW b, RecCallOK(b, LevelOf(page), T),
         b.err = "None" => /\ Reach(Plain(b.mem), page, Len(page))
                           /\ b.at = Tab(Plain(b.mem), page, Len(page)),
         NEW c, c = WriteLeaf(b, page, frame, f)
  PROVE  RecCallOK(c, LevelOf(page), T) /\ PlainCall(c) = WriteLeaf(PlainCall(b), page, frame, f)
<1>0. PICK m \in Memory, lv \in Books : m = b.mem /\ lv = b.level
  BY DEF RecCallOK, RecCall
<1>01. PICK t, er : t = b.at /\ er = b.err
  OBVIOUS
<1>1. m \in Memory /\ lv \in Books /\ m = b.mem /\ lv = b.level /\ t = b.at /\ er = b.err
  BY <1>0, <1>01
<1>2. PlainCall(b) = [mem |-> Plain(m), level |-> lv, at |-> t, err |-> er]
  BY <1>1 DEF PlainCall
<1>3. RecTree(m, lv) /\ PW(Plain(m), lv) /\ b \in RecCall(T) /\ er \in Errors
  BY <1>1 DEF RecCallOK, RecCall
<1>4. CASE er # "None"
  <2>1. c = b
    BY <1>1, <1>4 DEF WriteLeaf
  <2>2. WriteLeaf(PlainCall(b), page, frame, f) = PlainCall(b)
    BY <1>2, <1>4 DEF WriteLeaf
  <2> QED BY <2>1, <2>2
<1>5. CASE er = "None"
  <2>0. /\ page \in Pages /\ page[1] # recursive_index
    BY DEF UserPages
  <2>1. PICK k \in 2 .. 4 : k = Len(page)
    BY <2>0, PagePath
  <2>2. PICK i \in Index : i = page[Len(page)]
    BY <2>0, PagePath
  <2>3. Path(page, k) /\ LevelOf(page) = 5 - k /\ k \in 1 .. 4 /\ t = Tab(Plain(m), page, k)
        /\ Reach(Plain(m), page, k) /\ IsTree(Plain(m), lv) /\ Plain(m) \in Memory
    BY <1>1, <1>3, <1>5, <2>0, <2>1, PagePath, PlainSlots DEF LevelOf, RecTree
  <2>4. Ordinary(t, i) /\ lv[t] = LevelOf(page)
    BY <2>0, <2>1, <2>2, <2>3, WayIsOrdinary
  <2>5. Plain(m)[t][i] = m[t][i] /\ t \in TableFrames
    BY <2>4, PlainSlots DEF Ordinary
  <2>6. CASE m[t][i] # {}
    <3>1. c = [b EXCEPT !.err = "PageAlreadyMapped"]
      BY <1>1, <1>5, <2>2, <2>6 DEF WriteLeaf, is_unused
    <3>2. /\ c.mem = m /\ c.level = lv /\ c.at = t /\ c.err = "PageAlreadyMapped"
          /\ c \in RecCall(T)
      BY <1>1, <1>3, <3>1 DEF RecCall, Errors
    <3>3. PlainCall(c) = [mem |-> Plain(m), level |-> lv, at |-> t, err |-> "PageAlreadyMapped"]
      BY <3>2 DEF PlainCall
    <3>4. WriteLeaf(PlainCall(b), page, frame, f)
            = [mem |-> Plain(m), level |-> lv, at |-> t, err |-> "PageAlreadyMapped"]
      BY <1>2, <1>5, <2>2, <2>5, <2>6 DEF WriteLeaf, is_unused
    <3>5. RecCallOK(c, LevelOf(page), T)
      BY <1>3, <3>2 DEF RecCallOK
    <3> QED BY <3>3, <3>4, <3>5
  <2>7. CASE m[t][i] = {}
    <3>1. PICK e \in Entry : e = set_addr(frame, LeafBits(page, f))
      BY <2>0, LeafIsNoPointer DEF Entry, set_addr
    <3>2. ~Pointer(lv[t], e) /\ ~Pointer(lv[t], m[t][i]) /\ lv[t] # 4
      <4>1. LeafBits(page, f) \subseteq e
        BY <3>1 DEF set_addr
      <4>2. ~Pointer(LevelOf(page), e)
        BY <2>0, <4>1, LeafIsNoPointer
      <4> QED BY <2>3, <2>4, <2>7, <4>2 DEF Pointer
    <3>3. PICK n : n = [m EXCEPT ![t][i] = e]
      OBVIOUS
    <3>4. RecTree(n, lv) /\ PW(Plain(n), lv) /\ Plain(n) = [Plain(m) EXCEPT ![t][i] = e]
      <4>1. RecTree(n, lv) /\ PW(Plain(n), lv)
        BY <1>3, <2>4, <3>1, <3>2, <3>3, RecWrite
      <4>2. Plain([m EXCEPT ![t][i] = e]) = [Plain(m) EXCEPT ![t][i] = e]
        BY <2>4, <3>1, PlainWrite
      <4> QED BY <3>3, <4>1, <4>2
    <3>5. c = [b EXCEPT !.mem = n]
      <4>1. c = [b EXCEPT !.mem[b.at][page[Len(page)]] = set_addr(frame, LeafBits(page, f))]
        BY <1>1, <1>5, <2>2, <2>7 DEF WriteLeaf, is_unused
      <4> QED BY <1>1, <1>3, <2>2, <3>1, <3>3, <4>1 DEF RecCall
    <3>6. c.mem = n /\ c.level = lv /\ c.at = t /\ c.err = "None" /\ n \in Memory
      BY <1>1, <1>3, <1>5, <3>4, <3>5 DEF RecCall, RecTree
    <3>7. c \in RecCall(T)
      BY <1>3, <3>5, <3>6 DEF RecCall
    <3>8. RecCallOK(c, LevelOf(page), T)
      BY <2>4, <2>5, <3>4, <3>6, <3>7 DEF RecCallOK
    <3>9. PlainCall(c) = [mem |-> Plain(n), level |-> lv, at |-> t, err |-> "None"]
      BY <3>6 DEF PlainCall
    <3>10. WriteLeaf(PlainCall(b), page, frame, f)
             = [PlainCall(b) EXCEPT !.mem[t][i] = e]
      BY <1>2, <1>5, <2>2, <2>5, <2>7, <3>1 DEF WriteLeaf, is_unused
    <3>11. PICK P : P = Plain(m)
      OBVIOUS
    <3>12. PICK Q : Q = [P EXCEPT ![t][i] = e]
      OBVIOUS
    <3>13. [PlainCall(b) EXCEPT !.mem[t][i] = e]
             = [mem |-> Q, level |-> lv, at |-> t, err |-> "None"]
      BY <1>2, <1>5, <3>11, <3>12
    <3>14. Plain(n) = Q
      BY <3>4, <3>11, <3>12
    <3> QED BY <3>8, <3>9, <3>10, <3>13, <3>14
  <2> QED BY <2>6, <2>7
<1> QED BY <1>4, <1>5

(***************************************************************************)
(* The inductive invariant: until a call strays, the tables but for the    *)
(* recursive entry are tables that MappedPageTable could have made, with   *)
(* the mappings callers were told, of frames that hold no table; and until *)
(* an entry is removed no cached translation of a window is out of date.   *)
(***************************************************************************)
FramesTold(tl) == \A p \in Pages : tl[p] # NotTold => tl[p].frame \in DataFrames
RecGood ==
  /\ RecTree(mem, level) /\ PW(Plain(mem), level)
  /\ told \in [Pages -> Told] /\ ToldOK(Plain(mem), told) /\ FramesTold(told)
  /\ ~panicked /\ removed \in Nat
  /\ removed = 0 => TlbOK(Plain(mem), tlb)
RecInv == RecNeverFaults /\ (strayed = {} => RecGood)

\* What one call does to the abstract address space.
RecSpaceStep == SpaceStep(SpaceOf(Plain(mem)), SpaceOf(Plain(mem')))

\* The flags a huge page got from a refused call, or a new leaf, are no reason to forget it.
LEMMA MapLeavesStay ==
  ASSUME NEW m, NEW n, NEW tl, NEW tn, NEW page, NEW frame, NEW f, PRESENT \in f, NEW pf,
         \/ MapRefused(m, n, tl, tn, page, pf)
         \/ MapDone(m, n, tl, tn, page, frame, f, pf)
  PROVE  LeavesStay(m, n)
<1>1. CASE SameLeaves(m, n)
  BY <1>1, SameLeavesStay
<1>2. CASE Blocked(m, n, page, pf)
  <2>1. PICK j \in 2 .. 3, e \in Entry :
          Leaf(m, page, j, e) /\ LeafBecomes(m, n, page, j, e \cup pf)
    BY <1>2 DEF Blocked
  <2>2. e \cup pf # {}
    BY <2>1 DEF Leaf
  <2> QED BY <2>1, <2>2, LeafBecomesStay
<1>3. CASE LeafBecomes(m, n, page, Len(page), set_addr(frame, LeafBits(page, f)))
  <2>1. set_addr(frame, LeafBits(page, f)) # {}
    BY DEF set_addr, LeafBits
  <2> QED BY <1>3, <2>1, LeafBecomesStay
<1> QED BY <1>1, <1>2, <1>3 DEF MapRefused, MapDone

LEMMA RecPatAllowed ==
  ASSUME RecContract, NEW page \in Pages, NEW f,
         f \in FlagsFor(page, MapFlags) \/ f \in FlagsFor(page, LeafFlags)
  PROVE  PatOK(LeafBits(page, f), Len(page))
<1>1. f \cap AddrBits \subseteq Below2MiB /\ (Len(page) = 4 => f \cap AddrBits = {})
  BY DEF RecContract, FlagsFor
<1>2. LeafBits(page, f) \cap AddrBits = f \cap AddrBits
  BY BitsAssumption DEF LeafBits
<1> QED BY <1>1, <1>2 DEF PatOK

\* A call that strays does so after an entry was removed.
StraysLate == panicked' = FALSE /\ strayed' # {} /\ removed' = removed /\ removed > 0

LEMMA RecMapToStep ==
  ASSUME RecContract, RecGood, NEW page \in UserPages, NEW frame \in AlignedFrames(page),
         NEW f \in FlagsFor(page, MapFlags), NEW pf, FlagsOK(pf), pf \subseteq ParentFlags,
         rec_map_to(page, frame, f, pf)
  PROVE  \/ RecGood' /\ RecSpaceStep /\ strayed' = {}
         \/ StraysLate
<1>1. /\ page \in Pages /\ frame \in SUBSET AddrBits /\ is_aligned(frame, Len(page))
      /\ f \in SUBSET FlagBits /\ PatOK(LeafBits(page, f), Len(page)) /\ PRESENT \in f
      /\ pf \cap AddrBits = {} /\ frame \in DataFrames
  <2>1. page \in Pages /\ f \in MapFlags
    BY DEF UserPages, FlagsFor
  <2>2. PatOK(LeafBits(page, f), Len(page))
    BY <2>1, RecPatAllowed
  <2> QED BY <2>1, <2>2, MapperAssumption DEF AlignedFrames, RecContract, FlagsOK
<1>2. PICK b \in rec_create_parents(page, pf) :
        LET c == WriteLeaf(b, page, frame, f)
        IN  /\ mem' = c.mem
            /\ level' = c.level
            /\ told' = IF c.err = "None"
                       THEN [told EXCEPT ![page] =
                               [frame |-> frame, flags |-> LeafBits(page, f)]]
                       ELSE told
            /\ panicked' = (c.err = "panic")
            /\ tlb' = Cached(c.mem)
            /\ strayed' = IF c.err = "strayed" THEN Stray("map_to", page) ELSE {}
            /\ UNCHANGED removed
  BY DEF rec_map_to
<1>3. PICK c : c = WriteLeaf(b, page, frame, f)
  OBVIOUS
<1>4. PICK m, lv, T, tl, n, nl, tn :
        /\ m = mem /\ lv = level /\ T = tlb /\ tl = told /\ n = mem' /\ nl = level' /\ tn = told'
  OBVIOUS
<1>5. /\ n = c.mem /\ nl = c.level /\ panicked' = (c.err = "panic")
      /\ tn = IF c.err = "None"
              THEN [tl EXCEPT ![page] = [frame |-> frame, flags |-> LeafBits(page, f)]]
              ELSE tl
      /\ tlb' = T \cup Translations(n)
      /\ strayed' = IF c.err = "strayed" THEN Stray("map_to", page) ELSE {}
      /\ removed' = removed
  BY <1>2, <1>3, <1>4 DEF Cached
<1>6. /\ RecTree(m, lv) /\ PW(Plain(m), lv) /\ tl \in [Pages -> Told] /\ ToldOK(Plain(m), tl)
      /\ FramesTold(tl) /\ removed \in Nat /\ (removed = 0 => TlbOK(Plain(m), T))
  BY <1>4 DEF RecGood
<1>g. Going(Plain(m), b, page, Len(page), T, pf)
  BY <1>2, <1>4, RecParents DEF RecGood
<1>s. CASE b.err = "strayed" /\ ~TlbOK(Plain(m), T)
  <2>1. c = b
    BY <1>3, <1>s DEF WriteLeaf
  <2>2. c.err = "strayed"
    BY <1>s, <2>1
  <2>3. removed > 0
    BY <1>6, <1>s
  <2>4. strayed' = {[call |-> "map_to", page |-> page]} /\ panicked' = FALSE
    BY <1>5, <2>2 DEF Stray
  <2>5. strayed' # {}
    BY <2>4
  <2> QED BY <1>5, <2>3, <2>4, <2>5 DEF StraysLate
<1>c. CASE RecCallOK(b, 5 - Len(page), T) /\ Progress(Plain(m), PlainCall(b), page, Len(page), pf)
  <2>7. /\ RecCallOK(b, LevelOf(page), T)
        /\ Progress(Plain(m), PlainCall(b), page, Len(page), pf)
    BY <1>c DEF LevelOf
  <2>8. /\ RecCallOK(c, LevelOf(page), T) /\ PlainCall(c) = WriteLeaf(PlainCall(b), page, frame, f)
    <3>1. b.err = "None" => /\ Reach(Plain(b.mem), page, Len(page))
                            /\ b.at = Tab(Plain(b.mem), page, Len(page))
      BY <2>7, PlainCallOK DEF Progress
    <3> QED BY <1>1, <1>3, <2>7, <3>1, RecWriteLeaf
  <2>9. PICK P \in Memory, N \in Memory : P = Plain(m) /\ N = Plain(n)
    BY <1>5, <1>6, <2>8, PlainSlots DEF RecTree, RecCallOK
  <2>10. RecTree(n, nl) /\ PW(N, nl) /\ c.err \in Errors
    BY <1>5, <2>8, <2>9 DEF RecCallOK, RecCall
  <2>11. PICK bb, cc : bb = PlainCall(b) /\ cc = PlainCall(c)
    OBVIOUS
  <2>12. /\ CallOK(bb, LevelOf(page)) /\ Progress(P, bb, page, Len(page), pf)
         /\ cc = WriteLeaf(bb, page, frame, f) /\ N = cc.mem /\ cc.err = c.err
    BY <1>5, <2>7, <2>8, <2>9, <2>11, PlainCallOK
  <2>13. /\ Widens(P, N)
         /\ \/ MapRefused(P, N, tl, tn, page, pf)
            \/ MapDone(P, N, tl, tn, page, frame, f, pf)
    <3>1. tn = IF cc.err = "None"
               THEN [tl EXCEPT ![page] = [frame |-> frame, flags |-> LeafBits(page, f)]]
               ELSE tl
      BY <1>5, <2>12
    <3> QED BY <1>1, <2>12, <3>1, MapEnds
  <2>14. ToldOK(N, tn)
    <3>1. DOMAIN tl = Pages /\ ToldOK(P, tl)
      BY <1>6, <2>9
    <3> QED BY <1>1, <2>13, <3>1, MapTold
  <2>15. tn \in [Pages -> Told] /\ FramesTold(tn)
    <3>1. tn \in [Pages -> Told]
      BY <1>1, <1>5, <1>6, LeafIsNoPointer DEF Told
    <3>2. FramesTold(tn)
      BY <1>1, <1>5, <1>6 DEF FramesTold
    <3> QED BY <3>1, <3>2
  <2>16. removed = 0 => TlbOK(N, T)
    <3>1. LeavesStay(P, N)
      BY <1>1, <2>13, MapLeavesStay
    <3>2. removed = 0 => TlbOK(P, T)
      BY <1>6, <2>9
    <3> QED BY <2>13, <3>1, <3>2, WidensWalks, TlbKept
  <2>17. removed = 0 => TlbOK(N, T \cup Translations(n))
    <3>1. TlbOK(N, Translations(n))
      BY <2>9, <2>10, TlbFresh
    <3> QED BY <2>16, <3>1, TlbUnion
  <2>18. SpaceStep(SpaceOf(P), SpaceOf(N))
    <3>1. IsTree(P, lv) /\ lv \in Books /\ IsTree(N, nl) /\ nl \in Books /\ ToldOK(P, tl)
      BY <1>6, <2>9, <2>10 DEF RecTree
    <3> QED BY <1>1, <2>9, <2>13, <2>14, <3>1, MapStep
  <2>19. panicked' = FALSE /\ strayed' = {}
    BY <1>5, <2>10 DEF Errors
  <2>20. RecGood'
    BY <1>4, <1>5, <1>6, <2>9, <2>10, <2>14, <2>15, <2>17, <2>19 DEF RecGood
  <2>21. RecSpaceStep
    BY <1>4, <2>9, <2>18 DEF RecSpaceStep
  <2> QED BY <2>19, <2>20, <2>21
<1> QED BY <1>g, <1>s, <1>c DEF Going

(***************************************************************************)
(* The calls that read their way down.                                     *)
(***************************************************************************)
\* A slot behind a page the caller may name.
UserSlot(s) == Len(s) \in 1 .. 4 /\ Path(s, Len(s)) /\ s[1] # recursive_index

ErrorAt(m, s, strict, k) ==
  IF strict THEN strict_error(EntrySeen(m, s, k)) ELSE lax_error(EntrySeen(m, s, k))
BadAt(m, s, strict, k) == ErrorAt(m, s, strict, k) # "None" \/ ~InTable(m, s, k + 1)

LEMMA ParentsErrorIs ==
  ASSUME NEW m, NEW s, NEW strict, Len(s) \in 1 .. 4
  PROVE  /\ (\A k \in 1 .. Len(s) - 1 : ~BadAt(m, s, strict, k)) =>
              parents_error(m, s, strict) = "None"
         /\ \A k \in 1 .. Len(s) - 1 :
              /\ BadAt(m, s, strict, k)
              /\ \A j \in 1 .. k - 1 : ~BadAt(m, s, strict, j)
              => parents_error(m, s, strict) =
                   IF ErrorAt(m, s, strict, k) # "None" THEN ErrorAt(m, s, strict, k) ELSE "stray"
<1> DEFINE first == CHOOSE k \in 1 .. Len(s) - 1 : /\ BadAt(m, s, strict, k)
                                                   /\ \A j \in 1 .. k - 1 : ~BadAt(m, s, strict, j)
<1>1. parents_error(m, s, strict) =
        CASE \A k \in 1 .. Len(s) - 1 : ~BadAt(m, s, strict, k) -> "None"
          [] OTHER -> IF ErrorAt(m, s, strict, first) # "None"
                      THEN ErrorAt(m, s, strict, first) ELSE "stray"
  BY DEF parents_error, BadAt, ErrorAt
<1>2. ASSUME NEW k \in 1 .. Len(s) - 1, BadAt(m, s, strict, k),
             \A j \in 1 .. k - 1 : ~BadAt(m, s, strict, j)
      PROVE  parents_error(m, s, strict) =
               IF ErrorAt(m, s, strict, k) # "None" THEN ErrorAt(m, s, strict, k) ELSE "stray"
  <2>2. /\ first \in 1 .. Len(s) - 1 /\ BadAt(m, s, strict, first)
        /\ \A j \in 1 .. first - 1 : ~BadAt(m, s, strict, j)
    BY <1>2
  <2> HIDE DEF first
  <2>3. first = k
    BY <1>2, <2>2
  <2> QED BY <1>1, <1>2, <2>3
<1> HIDE DEF first
<1> QED BY <1>1, <1>2

\* On the way to a table no entry is an error; where the way ends, the strict look at the
\* entry says what is in the way.
LEMMA NothingInTheWay ==
  ASSUME NEW m, NEW lv, RecTree(m, lv), NEW s, UserSlot(s), NEW strict \in BOOLEAN,
         NEW k \in 1 .. Len(s) - 1, Reach(Plain(m), s, k + 1)
  PROVE  ~BadAt(m, s, strict, k)
<1>0. lv \in Books /\ IsTree(Plain(m), lv) /\ Plain(m) \in Memory
  BY PlainSlots DEF RecTree
<1>1. /\ k \in 1 .. 3 /\ k \in 1 .. 4 /\ k + 1 \in 1 .. 4 /\ k \in 1 .. k + 1 /\ s[k] \in Index
      /\ Path(s, k) /\ Path(s, k - 1) /\ Path(s, (k + 1) - 1) /\ s[1] # recursive_index
  BY DEF UserSlot, Path
<1>2. Reach(Plain(m), s, k)
  BY <1>1, ReachBefore
<1>3. EntrySeen(m, s, k) = Slot(Plain(m), s, k)
  BY <1>1, <1>2, SeenHere
<1>4. Pointer(5 - k, Slot(Plain(m), s, k))
  BY <1>1, ReachStep
<1>5. PRESENT \in Slot(Plain(m), s, k)
  BY <1>0, <1>1, <1>2, <1>4, ReachLevel DEF IsTree, PointersDown, Slot
<1>6. ErrorAt(m, s, strict, k) = "None"
  <2>1. strict_error(Slot(Plain(m), s, k)) = "None" /\ lax_error(Slot(Plain(m), s, k)) = "None"
    BY <1>4, <1>5, BitsAssumption DEF strict_error, lax_error, flags, is_unused, Pointer
  <2> QED BY <1>3, <2>1 DEF ErrorAt
<1>7. InTable(m, s, k + 1)
  <2>1. Seen(m, s, k + 1) = {Tab(Plain(m), s, k + 1)}
    BY <1>1, SeenHere
  <2>2. Tab(Plain(m), s, k + 1) \in TableFrames
    BY <1>0, <1>1, ReachLevel
  <2> QED BY <2>1, <2>2 DEF InTable
<1> QED BY <1>6, <1>7 DEF BadAt

LEMMA WayEnds ==
  ASSUME NEW m, NEW lv, RecTree(m, lv), NEW s, UserSlot(s),
         NEW k \in 1 .. Len(s) - 1, Reach(Plain(m), s, k), ~Reach(Plain(m), s, k + 1)
  PROVE  /\ parents_error(m, s, TRUE)
              = IF Slot(Plain(m), s, k) = {} THEN "PageNotMapped" ELSE "ParentEntryHugePage"
         /\ parents_error(m, s, TRUE) # "None"
<1>1. /\ k \in 1 .. 3 /\ k \in 1 .. 4 /\ s[k] \in Index /\ Len(s) \in 1 .. 4
      /\ Path(s, k) /\ Path(s, k - 1) /\ s[1] # recursive_index
  BY DEF UserSlot, Path
<1>2. EntrySeen(m, s, k) = Slot(Plain(m), s, k)
  BY <1>1, SeenHere
<1>3. ~Pointer(5 - k, Slot(Plain(m), s, k))
  BY <1>1, ReachStep
<1>4. ErrorAt(m, s, TRUE, k)
        = IF Slot(Plain(m), s, k) = {} THEN "PageNotMapped" ELSE "ParentEntryHugePage"
  <2>1. Slot(Plain(m), s, k) # {} => HUGE_PAGE \in Slot(Plain(m), s, k)
    BY <1>1, <1>3 DEF Pointer
  <2> QED BY <1>2, <2>1, BitsAssumption DEF ErrorAt, strict_error, flags
<1>5. ASSUME NEW j \in 1 .. k - 1 PROVE ~BadAt(m, s, TRUE, j)
  <2>1. j \in 1 .. Len(s) - 1 /\ j + 1 \in 1 .. k
    BY <1>1
  <2>2. Reach(Plain(m), s, j + 1)
    BY <1>1, <2>1, ReachBefore
  <2> QED BY <2>1, <2>2, NothingInTheWay
<1>6. ErrorAt(m, s, TRUE, k) # "None"
  BY <1>4
<1>7. parents_error(m, s, TRUE) = ErrorAt(m, s, TRUE, k)
  <2>1. BadAt(m, s, TRUE, k)
    BY <1>6 DEF BadAt
  <2> QED BY <1>1, <1>5, <1>6, <2>1, ParentsErrorIs
<1> QED BY <1>4, <1>7

LEMMA WayOpen ==
  ASSUME NEW m, NEW lv, RecTree(m, lv), NEW s, UserSlot(s), Reach(Plain(m), s, Len(s)),
         NEW strict \in BOOLEAN
  PROVE  /\ parents_error(m, s, strict) = "None"
         /\ EntrySeen(m, s, Len(s)) = Slot(Plain(m), s, Len(s))
         /\ Seen(m, s, Len(s)) = {Tab(Plain(m), s, Len(s))}
<1>1. PICK n \in 1 .. 4 : n = Len(s)
  BY DEF UserSlot
<1>2. Path(s, n) /\ Path(s, n - 1) /\ s[n] \in Index /\ s[1] # recursive_index
  BY <1>1 DEF UserSlot, Path
<1>3. ASSUME NEW k \in 1 .. Len(s) - 1 PROVE ~BadAt(m, s, strict, k)
  <2>1. k + 1 \in 1 .. n
    BY <1>1
  <2>2. Reach(Plain(m), s, k + 1)
    BY <1>1, <2>1, ReachBefore
  <2> QED BY <2>2, NothingInTheWay
<1>4. parents_error(m, s, strict) = "None"
  BY <1>1, <1>3, ParentsErrorIs
<1>5. Seen(m, s, n) = {Tab(Plain(m), s, n)} /\ EntrySeen(m, s, n) = Slot(Plain(m), s, n)
  BY <1>1, <1>2, SeenHere
<1> QED BY <1>1, <1>4, <1>5

\* Where the way to a slot ends.
LEMMA EndOfWay ==
  ASSUME NEW m, NEW s, NEW n \in 1 .. 4, ~Reach(m, s, n)
  PROVE  \E k \in 1 .. n - 1 : Reach(m, s, k) /\ ~Reach(m, s, k + 1)
<1>1. Reach(m, s, 1)
  BY ReachStep
<1>2. CASE ~Reach(m, s, 2)
  <2>1. 1 \in 1 .. n - 1 /\ ~Reach(m, s, 1 + 1)
    BY <1>1, <1>2
  <2> QED BY <1>1, <2>1
<1>3. CASE Reach(m, s, 2) /\ ~Reach(m, s, 3)
  <2>1. 2 \in 1 .. n - 1 \/ n = 2 \/ n = 1
    OBVIOUS
  <2>2. ~Reach(m, s, 2 + 1)
    BY <1>3
  <2> QED BY <1>1, <1>3, <2>1, <2>2
<1>4. CASE Reach(m, s, 3) /\ Reach(m, s, 2) /\ n = 4
  <2>1. 3 \in 1 .. n - 1 /\ ~Reach(m, s, 3 + 1)
    BY <1>4
  <2> QED BY <1>4, <2>1
<1>5. CASE Reach(m, s, 3) /\ Reach(m, s, 2) /\ n # 4
  BY <1>1, <1>5
<1> QED BY <1>2, <1>3, <1>4, <1>5

LEMMA UserPageSlot ==
  ASSUME NEW page \in UserPages
  PROVE  page \in Pages /\ UserSlot(page) /\ Len(page) \in 2 .. 4 /\ page[Len(page)] \in Index
  BY PagePath DEF UserPages, UserSlot

LEMMA ReachIsStrict ==
  ASSUME NEW m, NEW lv, RecTree(m, lv), NEW s, UserSlot(s)
  PROVE  parents_error(m, s, TRUE) = "None" <=> Reach(Plain(m), s, Len(s))
<1>1. ASSUME ~Reach(Plain(m), s, Len(s)) PROVE parents_error(m, s, TRUE) # "None"
  <2>1. PICK n \in 1 .. 4 : n = Len(s)
    BY DEF UserSlot
  <2>2. PICK k \in 1 .. n - 1 : Reach(Plain(m), s, k) /\ ~Reach(Plain(m), s, k + 1)
    BY <1>1, <2>1, EndOfWay
  <2>3. k \in 1 .. Len(s) - 1
    BY <2>1, <2>2
  <2> QED BY <2>2, <2>3, WayEnds
<1> QED BY <1>1, WayOpen

\* The walk by pointers ends with the same error.
LEMMA WalkEnds ==
  ASSUME NEW m \in Memory, NEW lv \in Books, IsTree(m, lv), NEW s, NEW n \in 1 .. 4,
         Path(s, n - 1), NEW k \in 1 .. n - 1, Reach(m, s, k), ~Reach(m, s, k + 1)
  PROVE  WalkTo(m, s, n).err = IF Slot(m, s, k) = {} THEN "NotMapped" ELSE "MappedToHugePage"
<1> DEFINE er == IF Slot(m, s, k) = {} THEN "NotMapped" ELSE "MappedToHugePage"
           OK(j) == WalkTo(m, s, j).err = er
<1>0. k \in 1 .. 3 /\ Path(s, k)
  BY DEF Path
<1>1. OK(k + 1)
  BY <1>0, WalkFails
<1>2. ASSUME NEW j \in 1 .. 3, OK(j) PROVE OK(j + 1)
  <2>1. WalkTo(m, s, j + 1) = Descend(m, WalkTo(m, s, j), s[j])
    BY WalkStep
  <2>2. WalkTo(m, s, j).err # "None"
    BY <1>2
  <2> QED BY <1>2, <2>1, <2>2 DEF Descend
<1> HIDE DEF OK
<1>3. k = 1 => OK(2)
  BY <1>1
<1>4. k <= 2 => OK(3)
  BY <1>0, <1>1, <1>2, <1>3
<1>5. OK(4)
  BY <1>0, <1>1, <1>2, <1>4
<1>6. OK(n)
  BY <1>0, <1>3, <1>4, <1>5
<1> QED BY <1>6 DEF OK

LEMMA UnmapAnswers ==
  ASSUME NEW m, NEW lv, RecTree(m, lv), NEW page \in UserPages
  PROVE  rec_unmap_call(m, page) = unmap_call(Plain(m), page)
<1>0. lv \in Books /\ IsTree(Plain(m), lv) /\ Plain(m) \in Memory
  BY PlainSlots DEF RecTree
<1>1. page \in Pages /\ UserSlot(page)
  BY UserPageSlot
<1>2. PICK n \in 1 .. 4 : n = Len(page)
  BY <1>1, PagePath
<1>3. Path(page, n - 1) /\ Len(page) \in 1 .. 4 /\ Path(page, Len(page) - 1)
  BY <1>1, <1>2, PagePath
<1>4. CASE Reach(Plain(m), page, Len(page))
  <2>1. /\ parents_error(m, page, TRUE) = "None"
        /\ EntrySeen(m, page, Len(page)) = Slot(Plain(m), page, Len(page))
    BY <1>1, <1>4, WayOpen
  <2>2. /\ TableOf(Plain(m), page).err = "None"
        /\ EntryOf(Plain(m), page) = Slot(Plain(m), page, Len(page))
    BY <1>0, <1>3, <1>4, EntryReached
  <2> QED BY <2>1, <2>2 DEF rec_unmap_call, unmap_call
<1>5. CASE ~Reach(Plain(m), page, Len(page))
  <2>1. PICK k \in 1 .. n - 1 : Reach(Plain(m), page, k) /\ ~Reach(Plain(m), page, k + 1)
    BY <1>2, <1>5, EndOfWay
  <2>2. k \in 1 .. Len(page) - 1
    BY <1>2, <2>1
  <2>3. parents_error(m, page, TRUE)
          = IF Slot(Plain(m), page, k) = {} THEN "PageNotMapped" ELSE "ParentEntryHugePage"
    BY <1>1, <2>1, <2>2, WayEnds
  <2>4. WalkTo(Plain(m), page, n).err
          = IF Slot(Plain(m), page, k) = {} THEN "NotMapped" ELSE "MappedToHugePage"
    BY <1>0, <1>3, <2>1, WalkEnds
  <2>5. TableOf(Plain(m), page) = WalkTo(Plain(m), page, n)
    BY <1>2, <1>3 DEF TableOf, WalkTo
  <2>6. rec_unmap_call(m, page) = [err |-> parents_error(m, page, TRUE), frame |-> {}]
    BY <2>3 DEF rec_unmap_call
  <2>7. unmap_call(Plain(m), page) =
          [err |-> IF Slot(Plain(m), page, k) = {} THEN "PageNotMapped" ELSE "ParentEntryHugePage",
           frame |-> {}]
    BY <2>4, <2>5 DEF unmap_call
  <2> QED BY <2>3, <2>6, <2>7
<1> QED BY <1>4, <1>5

\* The other calls look at is_unused only.  Behind an entry that is used and names no table
\* is a huge page the caller was told of, and no table: there they leave the tables.
LEMMA HugeIsNoTable ==
  ASSUME NEW m, NEW tl, ToldOK(m, tl), FramesTold(tl), NEW s, NEW k \in 2 .. 3, Path(s, k),
         NEW e, Leaf(m, s, k, e)
  PROVE  /\ addr(e) \notin TableFrames
         /\ Expected(tl, s, k)
<1>0. k \in 2 .. 4
  OBVIOUS
<1>1. Expected(tl, s, k)
  BY <1>0 DEF ToldOK
<1>2. PICK q \in Pages : Len(q) = k /\ Same(s, q, k) /\ tl[q] # NotTold
  BY <1>1 DEF Expected
<1>3. PICK d : Leaf(m, q, Len(q), d) /\ EntrySays(d, tl[q], Len(q))
  BY <1>2 DEF ToldOK
<1>4. d = e
  <2>1. Same(s, q, k - 1) /\ s[k] = q[k] /\ k \in 1 .. 4
    BY <1>2 DEF Same
  <2>2. Tab(m, s, k) = Tab(m, q, k)
    BY <2>1, ReachSame
  <2> QED BY <1>2, <1>3, <2>1, <2>2 DEF Leaf, Slot
<1>5. PICK b : b = tl[q].flags \cap AddrBits
  OBVIOUS
<1>6. addr(e) = tl[q].frame \cup b /\ b \in SUBSET Below2MiB /\ tl[q].frame \in DataFrames
  BY <1>0, <1>2, <1>3, <1>4, <1>5 DEF EntrySays, PatOK, FramesTold
<1> QED BY <1>1, <1>6, RecursiveAssumption

LEMMA WayEndsLax ==
  ASSUME NEW m, NEW lv, RecTree(m, lv), NEW tl, ToldOK(Plain(m), tl), FramesTold(tl),
         NEW s, UserSlot(s),
         NEW k \in 1 .. Len(s) - 1, Reach(Plain(m), s, k), ~Reach(Plain(m), s, k + 1)
  PROVE  /\ Slot(Plain(m), s, k) = {} => parents_error(m, s, FALSE) = "PageNotMapped"
         /\ Slot(Plain(m), s, k) # {} =>
              /\ parents_error(m, s, FALSE) = "stray"
              /\ Expected(tl, s, k)
<1>0. m \in Memory /\ lv \in Books /\ Own(m) /\ IsTree(Plain(m), lv) /\ Plain(m) \in Memory
  BY PlainSlots DEF RecTree
<1>1. /\ k \in 1 .. 3 /\ k \in 1 .. 4 /\ s[k] \in Index /\ Len(s) \in 1 .. 4
      /\ Path(s, k) /\ Path(s, k - 1) /\ s[1] # recursive_index
  BY DEF UserSlot, Path
<1>2. EntrySeen(m, s, k) = Slot(Plain(m), s, k) /\ Seen(m, s, k) = {Tab(Plain(m), s, k)}
  BY <1>1, SeenHere
<1>5. ASSUME NEW j \in 1 .. k - 1 PROVE ~BadAt(m, s, FALSE, j)
  <2>1. j \in 1 .. Len(s) - 1 /\ j + 1 \in 1 .. k
    BY <1>1
  <2>2. Reach(Plain(m), s, j + 1)
    BY <1>1, <2>1, ReachBefore
  <2> QED BY <2>1, <2>2, NothingInTheWay
<1>6. CASE Slot(Plain(m), s, k) = {}
  <2>1. ErrorAt(m, s, FALSE, k) = "PageNotMapped"
    BY <1>2, <1>6 DEF ErrorAt, lax_error, is_unused
  <2>2. BadAt(m, s, FALSE, k)
    BY <2>1 DEF BadAt
  <2>3. parents_error(m, s, FALSE) = "PageNotMapped"
    BY <1>1, <1>5, <2>1, <2>2, ParentsErrorIs
  <2> QED BY <1>6, <2>3
<1>7. CASE Slot(Plain(m), s, k) # {}
  <2>1. PICK e : e = Slot(Plain(m), s, k)
    OBVIOUS
  <2>2. k \in 2 .. 3 /\ Leaf(Plain(m), s, k, e)
    BY <1>0, <1>1, <1>7, <2>1, WalkFails
  <2>3. /\ addr(e) \notin TableFrames
        /\ Expected(tl, s, k)
    BY <1>1, <2>2, HugeIsNoTable
  <2>4. PICK t, i : t = Tab(Plain(m), s, k) /\ i = s[k]
    OBVIOUS
  <2>5. Ordinary(t, i) /\ t \in TableFrames
    BY <1>0, <1>1, <2>4, WayIsOrdinary DEF Ordinary
  <2>6. m[t][i] = e
    BY <1>0, <2>1, <2>4, <2>5, PlainSlots DEF Slot
  <2>7. Seen(m, s, k + 1) = Step(m, {t}, i)
    BY <1>0, <1>1, <1>2, <2>4, SeenStep
  <2>8. ASSUME NEW x \in Seen(m, s, k + 1) PROVE x \notin TableFrames
    <3>1. PICK A : A = {t}
      OBVIOUS
    <3>2. x \in Step(m, A, i)
      BY <2>7, <2>8, <3>1
    <3>3. \E f \in A : \/ f \notin TableFrames /\ x = f
                       \/ f \in TableFrames /\ PRESENT \in m[f][i] /\ x = addr(m[f][i])
      BY <3>2, StepFrom
    <3> QED BY <2>3, <2>5, <2>6, <3>1, <3>3
  <2>9. ~InTable(m, s, k + 1)
    BY <2>8 DEF InTable
  <2>10. ErrorAt(m, s, FALSE, k) = "None"
    BY <1>2, <1>7 DEF ErrorAt, lax_error, is_unused
  <2>11. BadAt(m, s, FALSE, k)
    BY <2>9 DEF BadAt
  <2>12. parents_error(m, s, FALSE) = "stray"
    BY <1>1, <1>5, <2>10, <2>11, ParentsErrorIs
  <2> QED BY <1>7, <2>3, <2>12
<1> QED BY <1>6, <1>7

\* The caller was told of a huge page around slot s.
ToldAbove(tl, s) == \E q \in Pages : Len(q) < Len(s) /\ Same(s, q, Len(q)) /\ tl[q] # NotTold

LEMMA LaxParents ==
  ASSUME NEW m, NEW lv, RecTree(m, lv), NEW tl, ToldOK(Plain(m), tl), FramesTold(tl),
         NEW s, UserSlot(s)
  PROVE  \/ /\ Reach(Plain(m), s, Len(s)) /\ TableOf(Plain(m), s).err = "None"
            /\ parents_error(m, s, FALSE) = "None"
         \/ /\ ~Reach(Plain(m), s, Len(s)) /\ TableOf(Plain(m), s).err = "NotMapped"
            /\ parents_error(m, s, FALSE) = "PageNotMapped"
         \/ /\ ~Reach(Plain(m), s, Len(s)) /\ TableOf(Plain(m), s).err = "MappedToHugePage"
            /\ parents_error(m, s, FALSE) = "stray" /\ ToldAbove(tl, s)
<1>0. lv \in Books /\ IsTree(Plain(m), lv) /\ Plain(m) \in Memory
  BY PlainSlots DEF RecTree
<1>1. PICK n \in 1 .. 4 : n = Len(s)
  BY DEF UserSlot
<1>2. Len(s) \in 1 .. 4 /\ Path(s, Len(s) - 1) /\ Path(s, n - 1)
  BY <1>1 DEF UserSlot, Path
<1>3. CASE Reach(Plain(m), s, Len(s))
  <2>1. TableOf(Plain(m), s).err = "None"
    BY <1>0, <1>2, <1>3, EntryReached
  <2>2. FALSE \in BOOLEAN
    OBVIOUS
  <2>3. parents_error(m, s, FALSE) = "None"
    BY <1>3, <2>2, WayOpen
  <2> QED BY <1>3, <2>1, <2>3
<1>4. CASE ~Reach(Plain(m), s, Len(s))
  <2>1. PICK k \in 1 .. n - 1 : Reach(Plain(m), s, k) /\ ~Reach(Plain(m), s, k + 1)
    BY <1>1, <1>4, EndOfWay
  <2>2. k \in 1 .. Len(s) - 1
    BY <1>1, <2>1
  <2>4. WalkTo(Plain(m), s, n).err
          = IF Slot(Plain(m), s, k) = {} THEN "NotMapped" ELSE "MappedToHugePage"
    BY <1>0, <1>2, <2>1, WalkEnds
  <2>5. TableOf(Plain(m), s) = WalkTo(Plain(m), s, n)
    BY <1>1, <1>2 DEF TableOf, WalkTo
  <2>6. CASE Slot(Plain(m), s, k) = {}
    <3>1. parents_error(m, s, FALSE) = "PageNotMapped"
      BY <2>1, <2>2, <2>6, WayEndsLax
    <3> QED BY <1>4, <2>4, <2>5, <2>6, <3>1
  <2>7. CASE Slot(Plain(m), s, k) # {}
    <3>1. /\ parents_error(m, s, FALSE) = "stray"
          /\ Expected(tl, s, k)
      BY <2>1, <2>2, <2>7, WayEndsLax
    <3>2. ToldAbove(tl, s)
      BY <2>2, <3>1 DEF ToldAbove, Expected
    <3> QED BY <1>4, <2>4, <2>5, <2>7, <3>1, <3>2
  <2> QED BY <2>6, <2>7
<1> QED BY <1>3, <1>4

LEMMA LaxAnswers ==
  ASSUME NEW m, NEW lv, RecTree(m, lv), NEW tl, ToldOK(Plain(m), tl), FramesTold(tl),
         NEW page \in UserPages
  PROVE  IF TableOf(Plain(m), page).err = "MappedToHugePage"
         THEN rec_translate_page(m, page).err = "stray" /\ rec_flag_update_error(m, page) = "stray"
         ELSE /\ rec_translate_page(m, page) = translate_page(Plain(m), page)
              /\ rec_flag_update_error(m, page) = flag_update_error(Plain(m), page)
<1>0. lv \in Books /\ IsTree(Plain(m), lv) /\ Plain(m) \in Memory
  BY PlainSlots DEF RecTree
<1>1. page \in Pages /\ UserSlot(page)
  BY UserPageSlot
<1>2. Len(page) \in 1 .. 4 /\ Path(page, Len(page) - 1)
  BY <1>1, PagePath
<1>3. CASE /\ Reach(Plain(m), page, Len(page)) /\ TableOf(Plain(m), page).err = "None"
           /\ parents_error(m, page, FALSE) = "None"
  <2>0. FALSE \in BOOLEAN
    OBVIOUS
  <2>1. EntrySeen(m, page, Len(page)) = Slot(Plain(m), page, Len(page))
    BY <1>1, <1>3, <2>0, WayOpen
  <2>2. EntryOf(Plain(m), page) = Slot(Plain(m), page, Len(page))
    BY <1>0, <1>2, <1>3, EntryReached
  <2>3. PICK e, n : e = Slot(Plain(m), page, Len(page)) /\ n = Len(page)
    OBVIOUS
  <2>4. /\ rec_flag_update_error(m, page) = (IF is_unused(e) THEN "PageNotMapped" ELSE "None")
        /\ flag_update_error(Plain(m), page) = (IF is_unused(e) THEN "PageNotMapped" ELSE "None")
    BY <1>3, <2>1, <2>2, <2>3 DEF rec_flag_update_error, flag_update_error
  <2>5. CASE is_unused(e)
    <3>1. rec_translate_page(m, page) = [err |-> "PageNotMapped", frame |-> {}]
      BY <2>4, <2>5 DEF rec_translate_page
    <3>2. translate_page(Plain(m), page) = [err |-> "PageNotMapped", frame |-> addr(e)]
      BY <1>3, <2>2, <2>3, <2>5 DEF translate_page
    <3>3. addr(e) = {}
      BY <2>5 DEF addr, is_unused
    <3> QED BY <1>3, <2>4, <3>1, <3>2, <3>3
  <2>6. CASE ~is_unused(e)
    <3>1. rec_translate_page(m, page) =
            [err |-> IF ~is_aligned(addr(e), n) THEN "InvalidFrameAddress" ELSE "None",
             frame |-> addr(e)]
      BY <2>1, <2>3, <2>4, <2>6 DEF rec_translate_page
    <3>2. translate_page(Plain(m), page) =
            [err |-> IF ~is_aligned(addr(e), n) THEN "InvalidFrameAddress" ELSE "None",
             frame |-> addr(e)]
      BY <1>3, <2>2, <2>3, <2>6 DEF translate_page
    <3> QED BY <1>3, <2>4, <3>1, <3>2
  <2> QED BY <2>5, <2>6
<1>4. CASE TableOf(Plain(m), page).err = "NotMapped" /\ parents_error(m, page, FALSE) = "PageNotMapped"
  <2>1. /\ rec_flag_update_error(m, page) = "PageNotMapped"
        /\ flag_update_error(Plain(m), page) = "PageNotMapped"
    BY <1>4 DEF rec_flag_update_error, flag_update_error
  <2>2. rec_translate_page(m, page) = [err |-> "PageNotMapped", frame |-> {}]
    BY <2>1 DEF rec_translate_page
  <2>3. translate_page(Plain(m), page) = [err |-> "PageNotMapped", frame |-> {}]
    BY <1>4 DEF translate_page
  <2> QED BY <1>4, <2>1, <2>2, <2>3
<1>5. CASE TableOf(Plain(m), page).err = "MappedToHugePage" /\ parents_error(m, page, FALSE) = "stray"
  BY <1>5 DEF rec_flag_update_error, rec_translate_page
<1> QED BY <1>1, <1>3, <1>4, <1>5, LaxParents

\* A write through the window of a slot.
LEMMA WriteIs ==
  ASSUME RecTree(mem, level), NEW s, UserSlot(s), Reach(Plain(mem), s, Len(s)), NEW e, Write(s, e)
  PROVE  mem' = [mem EXCEPT ![Tab(Plain(mem), s, Len(s))][s[Len(s)]] = e]
<1>1. Seen(mem, s, Len(s)) = {Tab(Plain(mem), s, Len(s))}
  BY WayOpen
<1>2. (CHOOSE t \in Seen(mem, s, Len(s)) : TRUE) = Tab(Plain(mem), s, Len(s))
  BY <1>1
<1> QED BY <1>2 DEF Write

LEMMA RecLeafSet ==
  ASSUME RecGood, NEW page \in UserPages, Reach(Plain(mem), page, Len(page)), NEW e \in Entry,
         ~Pointer(LevelOf(page), Slot(Plain(mem), page, Len(page))), ~Pointer(LevelOf(page), e),
         Write(page, e), NEW n, n = mem'
  PROVE  /\ RecTree(n, level) /\ PW(Plain(n), level)
         /\ LeafBecomes(Plain(mem), Plain(n), page, Len(page), e) /\ Widens(Plain(mem), Plain(n))
<1>1. PICK m, lv : m = mem /\ lv = level
  OBVIOUS
<1>2. PICK P \in Memory : P = Plain(m)
  BY <1>1, PlainSlots DEF RecGood, RecTree
<1>3. RecTree(m, lv) /\ PW(P, lv) /\ m \in Memory /\ lv \in Books /\ IsTree(P, lv)
  BY <1>1, <1>2 DEF RecGood, RecTree
<1>4. page \in Pages /\ UserSlot(page) /\ page[1] # recursive_index
  BY UserPageSlot DEF UserPages
<1>5. PICK k \in 2 .. 4 : k = Len(page)
  BY <1>4, PagePath
<1>6. PICK t, i : t = Tab(P, page, Len(page)) /\ i = page[Len(page)]
  OBVIOUS
<1>7. /\ Path(page, k) /\ k \in 1 .. 4 /\ Reach(P, page, k) /\ LevelOf(page) = 5 - k
  BY <1>1, <1>2, <1>4, <1>5, PagePath DEF LevelOf
<1>8. Ordinary(t, i) /\ lv[t] = LevelOf(page)
  BY <1>2, <1>3, <1>4, <1>5, <1>6, <1>7, WayIsOrdinary
<1>9. n = [m EXCEPT ![t][i] = e]
  <2>1. mem' = [mem EXCEPT ![Tab(Plain(mem), page, Len(page))][page[Len(page)]] = e]
    BY <1>4, WriteIs DEF RecGood
  <2> QED BY <1>1, <1>2, <1>6, <2>1
<1>10. m[t][i] = Slot(P, page, Len(page))
  BY <1>2, <1>3, <1>6, <1>8, PlainSlots DEF Slot
<1>11. ~Pointer(lv[t], m[t][i]) /\ ~Pointer(lv[t], e) /\ lv[t] # 4
  <2>1. LevelOf(page) = 5 - k /\ k \in 2 .. 4
    BY <1>5, <1>7, Zenon
  <2>2. LevelOf(page) # 4
    BY <2>1
  <2> QED BY <1>1, <1>2, <1>8, <1>10, <2>2
<1>12. RecTree(n, lv) /\ PW(Plain(n), lv)
  <2>1. PW(Plain(m), lv)
    BY <1>2, <1>3
  <2>2. ASSUME NEW o, o = [m EXCEPT ![t][i] = e] PROVE RecTree(o, lv) /\ PW(Plain(o), lv)
    BY <1>3, <1>8, <1>11, <2>1, <2>2, RecWrite
  <2> QED BY <1>9, <2>2
<1>13. PICK N : N = Plain(n)
  OBVIOUS
<1>14. N = [P EXCEPT ![Tab(P, page, Len(page))][page[Len(page)]] = e]
  <2>1. Plain([m EXCEPT ![t][i] = e]) = [Plain(m) EXCEPT ![t][i] = e]
    BY <1>3, <1>8, PlainWrite
  <2> QED BY <1>2, <1>6, <1>9, <1>13, <2>1
<1>15. LeafBecomes(P, N, page, Len(page), e) /\ Widens(P, N)
  <2>1. Reach(P, page, Len(page)) /\ ~Pointer(LevelOf(page), Slot(P, page, Len(page)))
    BY <1>1, <1>2
  <2> QED BY <1>3, <1>4, <1>14, <2>1, LeafSet
<1> QED BY <1>1, <1>2, <1>12, <1>13, <1>15

\* A page of 4 KiB hides no window.
LEMMA SmallLeafStay ==
  ASSUME NEW m, NEW n, NEW p, NEW k, k = 4, NEW x, LeafBecomes(m, n, p, k, x)
  PROVE  LeavesStay(m, n)
<1>1. ASSUME NEW q, NEW j \in 2 .. 3, Path(q, j), NEW d, Leaf(m, q, j, d)
      PROVE  Leaf(n, q, j, d)
  <2>1. j \in 2 .. 4 /\ j # k
    OBVIOUS
  <2> QED BY <1>1, <2>1 DEF LeafBecomes
<1> QED BY <1>1 DEF LeavesStay

LEMMA RecUnmapStep ==
  ASSUME RecContract, RecGood, strayed = {}, NEW page \in UserPages, rec_unmap(page)
  PROVE  RecGood' /\ RecSpaceStep /\ strayed' = {}
<1>1. /\ rec_unmap_call(mem, page).err = "None" /\ Write(page, {})
      /\ told' = [told EXCEPT ![page] = NotTold] /\ level' = level /\ panicked' = panicked
      /\ tlb' = tlb \cup Translations(mem') /\ strayed' = {}
      /\ removed' = removed + (IF Len(page) < 4 THEN 1 ELSE 0)
  BY DEF rec_unmap, Cached
<1>2. page \in Pages /\ UserSlot(page) /\ Len(page) \in 2 .. 4
  BY UserPageSlot
<1>3. parents_error(mem, page, TRUE) = "None"
  BY <1>1 DEF rec_unmap_call
<1>4. Reach(Plain(mem), page, Len(page))
  BY <1>2, <1>3, ReachIsStrict DEF RecGood
<1>5. EntrySeen(mem, page, Len(page)) = Slot(Plain(mem), page, Len(page))
  BY <1>2, <1>4, WayOpen DEF RecGood
<1>6. PICK P, N, lv, tl, tn, n, old, T :
        /\ P = Plain(mem) /\ N = Plain(mem') /\ lv = level /\ tl = told /\ tn = told'
        /\ n = mem' /\ old = Slot(Plain(mem), page, Len(page)) /\ T = tlb
  OBVIOUS
<1>7. PRESENT \in old /\ (Len(page) < 4 => HUGE_PAGE \in old)
  <2>1. PRESENT \in flags(old) /\ (Len(page) < 4 => HUGE_PAGE \in flags(old))
    BY <1>1, <1>3, <1>5, <1>6 DEF rec_unmap_call
  <2> QED BY <2>1 DEF flags
<1>8. ~Pointer(LevelOf(page), old) /\ ~Pointer(LevelOf(page), {}) /\ {} \in Entry
  BY <1>2, <1>7 DEF Pointer, LevelOf, Entry
<1>9. /\ RecTree(n, lv) /\ PW(N, lv) /\ LeafBecomes(P, N, page, Len(page), {}) /\ Widens(P, N)
  BY <1>1, <1>4, <1>6, <1>8, RecLeafSet
<1>10. Leaf(P, page, Len(page), old)
  <2>1. LevelOf(page) = 5 - Len(page) /\ old # {}
    BY <1>7 DEF LevelOf
  <2> QED BY <1>2, <1>4, <1>6, <1>8, <2>1 DEF Leaf
<1>11. /\ P \in Memory /\ lv \in Books /\ IsTree(P, lv) /\ N \in Memory /\ IsTree(N, lv)
       /\ ToldOK(P, tl) /\ tl \in [Pages -> Told] /\ tn = [tl EXCEPT ![page] = NotTold]
       /\ FramesTold(tl) /\ removed \in Nat /\ (removed = 0 => TlbOK(P, T))
  BY <1>1, <1>6, <1>9, PlainSlots DEF RecGood, RecTree
<1>12. ToldOK(N, tn)
  BY <1>2, <1>9, <1>11, ToldWritten
<1>13. tn \in [Pages -> Told] /\ FramesTold(tn)
  <2>1. tn \in [Pages -> Told]
    BY <1>2, <1>11 DEF Told, NotTold
  <2>2. FramesTold(tn)
    BY <1>2, <1>11 DEF FramesTold
  <2> QED BY <2>1, <2>2
<1>14. Removed(SpaceOf(P), SpaceOf(N))
  BY <1>2, <1>9, <1>10, <1>11, <1>12, UnmapIsUnmap
<1>15. removed' \in Nat /\ (removed' = 0 => TlbOK(N, T \cup Translations(n)))
  <2>1. removed' \in Nat /\ (removed' = 0 => removed = 0 /\ Len(page) = 4)
    <3>1. PICK k, x, y : k \in 2 .. 4 /\ k = Len(page) /\ x = removed /\ y = removed'
      BY <1>2
    <3>2. k \in 2 .. 4 /\ x \in Nat /\ y = x + (IF k < 4 THEN 1 ELSE 0)
      BY <1>1, <1>11, <3>1
    <3>3. y \in Nat /\ (y = 0 => x = 0 /\ k = 4)
      BY <3>2
    <3> QED BY <3>1, <3>3
  <2>2. TlbOK(N, Translations(n))
    BY <1>6, <1>9, TlbFresh
  <2>3. ASSUME removed = 0, Len(page) = 4 PROVE TlbOK(N, T)
    <3>1. LeavesStay(P, N)
      BY <1>9, <2>3, SmallLeafStay
    <3>2. TlbOK(P, T)
      BY <1>11, <2>3
    <3> QED BY <1>9, <3>1, <3>2, WidensWalks, TlbKept
  <2> QED BY <2>1, <2>2, <2>3, TlbUnion
<1>16. RecGood'
  BY <1>1, <1>6, <1>9, <1>12, <1>13, <1>15 DEF RecGood
<1>17. RecSpaceStep
  BY <1>6, <1>14 DEF RecSpaceStep, SpaceStep
<1> QED BY <1>1, <1>16, <1>17

LEMMA RecUpdateFlagsStep ==
  ASSUME RecContract, RecGood, strayed = {}, NEW page \in UserPages,
         NEW f \in FlagsFor(page, LeafFlags),
         Len(page) < 4 => ~NamesTable(Plain(mem), page), rec_set_flags(page, LeafBits(page, f)),
         told' = Retold(told, page, f)
  PROVE  RecGood' /\ RecSpaceStep /\ strayed' = {}
<1>1. page \in Pages /\ UserSlot(page) /\ Len(page) \in 2 .. 4 /\ Len(page) \in 1 .. 4
  BY UserPageSlot
<1>2. PICK P, N, lv, tl, tn, n, T :
        /\ P = Plain(mem) /\ N = Plain(mem') /\ lv = level /\ tl = told /\ tn = told'
        /\ n = mem' /\ T = tlb
  OBVIOUS
<1>3. /\ P \in Memory /\ lv \in Books /\ IsTree(P, lv) /\ ToldOK(P, tl)
      /\ tl \in [Pages -> Told] /\ FramesTold(tl) /\ removed \in Nat
      /\ (removed = 0 => TlbOK(P, T))
  BY <1>2, PlainSlots DEF RecGood, RecTree
<1>r. rec_flag_update_error(mem, page) = "None"
  BY DEF rec_set_flags
<1>w. Reach(P, page, Len(page)) /\ TableOf(P, page).err = "None"
  <2>1. parents_error(mem, page, FALSE) = "None"
    BY <1>r DEF rec_flag_update_error
  <2> QED BY <1>1, <1>2, <2>1, LaxParents DEF RecGood
<1>v. PICK old : old = Slot(P, page, Len(page))
  OBVIOUS
<1>6. EntrySeen(mem, page, Len(page)) = old
  <2>1. FALSE \in BOOLEAN
    OBVIOUS
  <2> QED BY <1>1, <1>2, <1>w, <1>v, <2>1, WayOpen DEF RecGood
<1>u. old # {}
  BY <1>r, <1>6 DEF rec_flag_update_error, is_unused
<1>5. ~Pointer(LevelOf(page), old)
  <2>1. CASE Len(page) = 4
    BY <2>1, PageShape DEF Pointer, LevelOf
  <2>2. CASE Len(page) # 4
    <3>1. Len(page) < 4 /\ 5 - Len(page) \in 2 .. 4 /\ LevelOf(page) = 5 - Len(page)
      <4>1. PICK k \in 2 .. 4 : k = Len(page)
        BY <1>1
      <4>3. k # 4
        BY <2>2, <4>1
      <4>4. k \in 2 .. 3
        BY <4>3
      <4>2. k < 4 /\ 5 - k \in 2 .. 4
        BY <4>4
      <4> QED BY <4>1, <4>2 DEF LevelOf
    <3>2. EntryOf(P, page) = old /\ Path(page, Len(page) - 1)
      <4>1. Path(page, Len(page) - 1)
        BY <1>1, PagePath
      <4> QED BY <1>1, <1>3, <1>w, <1>v, <4>1, EntryReached
    <3>3. next_table(old).err # "None"
      BY <1>2, <1>w, <3>1, <3>2 DEF NamesTable
    <3>4. PICK t, i : t = Tab(P, page, Len(page)) /\ i = page[Len(page)]
      OBVIOUS
    <3>6. PICK k \in 1 .. 4 : k = Len(page)
      BY <1>1
    <3>5. t \in TableFrames /\ lv[t] = 5 - Len(page) /\ i \in Index /\ old = P[t][i]
      <4>1. t \in TableFrames /\ lv[t] = 5 - k
        BY <1>3, <1>w, <3>2, <3>4, <3>6, ReachLevel
      <4> QED BY <1>v, <3>4, <3>6, <4>1, UserPageSlot DEF Slot
    <3> QED BY <1>3, <3>1, <3>3, <3>5, NextTableIsPointer
  <2> QED BY <2>1, <2>2
<1>4. Leaf(P, page, Len(page), old)
  <2>1. LevelOf(page) = 5 - Len(page)
    BY DEF LevelOf
  <2> QED BY <1>1, <1>w, <1>v, <1>u, <1>5, <2>1 DEF Leaf
<1>7. f # {} /\ f \in SUBSET FlagBits /\ PatOK(LeafBits(page, f), Len(page)) /\ LeafBits(page, f) # {}
  <2>1. f # {} /\ f \in SUBSET FlagBits
    BY MapperAssumption DEF RecContract, FlagsFor
  <2>2. PatOK(LeafBits(page, f), Len(page))
    BY <1>1, RecPatAllowed
  <2> QED BY <2>1, <2>2 DEF LeafBits
<1>8. PICK e : e = set_flags(old, LeafBits(page, f))
  OBVIOUS
<1>9. /\ Write(page, e) /\ level' = level /\ panicked' = panicked /\ removed' = removed
      /\ tlb' = T \cup Translations(mem') /\ strayed' = {}
  BY <1>2, <1>6, <1>8 DEF rec_set_flags, Cached
<1>10. /\ e \in Entry /\ ~Pointer(LevelOf(page), e) /\ e # {}
       /\ addr(e) = addr(old) \cup (LeafBits(page, f) \cap AddrBits)
  <2>1. /\ LeafBits(page, f) \in SUBSET FlagBits /\ LeafBits(page, f) \subseteq e
    BY <1>1, <1>7, <1>8, LeafIsNoPointer DEF set_flags
  <2>2. ~Pointer(LevelOf(page), e)
    BY <1>1, <1>7, <2>1, LeafIsNoPointer
  <2>3. e \in Entry
    BY <1>8, <2>1 DEF set_flags, addr, Entry
  <2> QED BY <1>7, <1>8, <2>1, <2>2, <2>3 DEF set_flags, addr
<1>11. /\ RecTree(n, lv) /\ PW(N, lv) /\ LeafBecomes(P, N, page, Len(page), e) /\ Widens(P, N)
  BY <1>2, <1>w, <1>v, <1>5, <1>9, <1>10, RecLeafSet
<1>12. N \in Memory /\ IsTree(N, lv)
  BY <1>2, <1>11, PlainSlots DEF RecTree
<1>13. tn = Retold(tl, page, f)
  BY <1>2
<1>14. ToldOK(N, tn)
  <2>1. LeafBecomes(P, N, page, Len(page), set_flags(old, LeafBits(page, f)))
    BY <1>8, <1>11
  <2> QED BY <1>1, <1>3, <1>4, <1>7, <1>13, <2>1, FlagsTold
<1>t. tl[page] # NotTold
  <2>1. Expected(tl, page, Len(page))
    BY <1>1, <1>3, <1>4, PagePath DEF ToldOK
  <2>2. PICK p \in Pages : Len(p) = Len(page) /\ Same(page, p, Len(page)) /\ tl[p] # NotTold
    BY <2>1 DEF Expected
  <2> QED BY <1>1, <2>2, SamePage
<1>15. tn \in [Pages -> Told] /\ FramesTold(tn)
  <2>1. LeafBits(page, f) \in SUBSET FlagBits
    BY <1>1, <1>7, LeafIsNoPointer
  <2>2. LeafBits(page, f) \cup (tl[page].flags \cap AddrBits) \in SUBSET FlagBits
    BY <1>1, <1>3, <2>1 DEF Told
  <2>3. tn \in [Pages -> Told]
    BY <1>1, <1>3, <1>13, <2>2 DEF Retold, Told
  <2>4. \A p \in Pages : tn[p].frame = tl[p].frame /\ (p # page => tn[p] = tl[p])
    BY <1>1, <1>3, <1>13 DEF Retold, Told
  <2>5. FramesTold(tn)
    BY <1>3, <1>t, <2>4 DEF FramesTold
  <2> QED BY <2>3, <2>5
<1>16. Reflagged(SpaceOf(P), SpaceOf(N))
  <2>1. PICK k, g, a, c :
          k \in 2 .. 4 /\ k = Len(page) /\ g = LeafBits(page, f) /\ a = addr(old) /\ c = addr(e)
    BY <1>1
  <2>2. k \in 2 .. 4 /\ PatOK(g, k) /\ c = a \cup (g \cap AddrBits)
    BY <1>7, <1>10, <2>1
  <2>3. containing_address(c, k) = containing_address(a, k)
    BY <2>2, PatHidden
  <2>4. containing_address(addr(e), Len(page)) = containing_address(addr(old), Len(page))
    BY <2>1, <2>3
  <2> QED BY <1>1, <1>3, <1>4, <1>10, <1>11, <1>12, <1>14, <2>4, FlagsIsSetFlags
<1>17. removed = 0 => TlbOK(N, T \cup Translations(n))
  <2>1. removed = 0 => TlbOK(N, T)
    <3>1. LeavesStay(P, N)
      BY <1>10, <1>11, LeafBecomesStay
    <3> QED BY <1>3, <1>11, <3>1, WidensWalks, TlbKept
  <2>2. TlbOK(N, Translations(n))
    BY <1>2, <1>11, TlbFresh
  <2> QED BY <2>1, <2>2, TlbUnion
<1>18. RecGood'
  BY <1>2, <1>3, <1>9, <1>11, <1>14, <1>15, <1>17 DEF RecGood
<1>19. RecSpaceStep
  BY <1>2, <1>16 DEF RecSpaceStep, SpaceStep
<1> QED BY <1>9, <1>18, <1>19

LEMMA Prefix ==
  ASSUME NEW p \in Seq(Index), NEW k \in 1 .. 3, k < Len(p), NEW s, s = SubSeq(p, 1, k)
  PROVE  Len(s) = k /\ \A j \in 1 .. k : s[j] = p[j] /\ p[j] \in Index
<1>1. Len(p) \in Nat /\ k \in Nat
  OBVIOUS
<1>2. Len(s) = k
  BY <1>1
<1>3. ASSUME NEW j \in 1 .. k PROVE s[j] = p[j] /\ p[j] \in Index
  <2>1. j \in 1 .. Len(p)
    BY <1>1
  <2>2. s[j] = p[j]
    BY <1>1, <2>1
  <2> QED BY <2>1, <2>2
<1> QED BY <1>2, <1>3

\* set_flags_p4/p3/p2_entry.
LEMMA RecSetFlagsEntryStep ==
  ASSUME RecContract, RecGood, strayed = {}, NEW page \in UserPages, NEW k \in 1 .. 3,
         NEW f \in TableFlags,
         k < Len(page), {PRESENT, WRITABLE} \subseteq f, NamesTable(Plain(mem), SubSeq(page, 1, k)),
         rec_set_flags(SubSeq(page, 1, k), f), told' = told
  PROVE  RecGood' /\ RecSpaceStep /\ strayed' = {}
<1>1. PICK s : s = SubSeq(page, 1, k)
  OBVIOUS
<1>2. Len(s) = k /\ UserSlot(s) /\ Path(s, k - 1) /\ Path(s, k)
  <2>1. page \in Seq(Index) /\ Len(page) \in 2 .. 4 /\ page[1] # recursive_index
    BY MapperAssumption DEF UserPages
  <2>2. Len(s) = k /\ \A j \in 1 .. k : s[j] = page[j] /\ page[j] \in Index
    BY <1>1, <2>1, Prefix
  <2> QED BY <2>1, <2>2 DEF UserSlot, Path
<1>3. PICK P, N, lv, n, T, m :
        /\ P = Plain(mem) /\ N = Plain(mem') /\ lv = level /\ n = mem' /\ T = tlb /\ m = mem
  OBVIOUS
<1>4. /\ P \in Memory /\ lv \in Books /\ IsTree(P, lv) /\ ToldOK(P, told)
      /\ (removed = 0 => TlbOK(P, T)) /\ RecTree(m, lv) /\ m \in Memory /\ PW(Plain(m), lv)
  BY <1>3, PlainSlots DEF RecGood, RecTree
<1>5. TableOf(P, s).err = "None" /\ next_table(EntryOf(P, s)).err = "None"
  BY <1>1, <1>3 DEF NamesTable
<1>6. Reach(P, s, Len(s)) /\ EntryOf(P, s) = Slot(P, s, Len(s))
  <2>1. Len(s) \in 1 .. 4 /\ Path(s, Len(s) - 1)
    BY <1>2
  <2> QED BY <1>4, <1>5, <2>1, EntryReached
<1>7. PICK t, i, old : t = Tab(P, s, Len(s)) /\ i = s[Len(s)] /\ old = m[t][i]
  OBVIOUS
<1>8. Ordinary(t, i) /\ lv[t] = 5 - k /\ t \in TableFrames /\ i \in Index
  <2>1. k \in 1 .. 4 /\ s[1] # recursive_index
    BY <1>2 DEF UserSlot
  <2> QED BY <1>2, <1>4, <1>6, <1>7, <2>1, WayIsOrdinary DEF Ordinary
<1>9. old = Slot(P, s, Len(s)) /\ old = P[t][i] /\ old \in Entry
  <2>1. P[t][i] = m[t][i]
    BY <1>3, <1>4, <1>8, PlainSlots
  <2> QED BY <1>4, <1>7, <1>8, <2>1 DEF Slot, Memory, Table
<1>10. EntrySeen(m, s, Len(s)) = old
  BY <1>2, <1>3, <1>4, <1>6, <1>9, WayOpen
<1>11. Pointer(lv[t], old)
  <2>1. next_table(P[t][i]).err = "None" /\ lv[t] \in 2 .. 4
    BY <1>5, <1>6, <1>8, <1>9
  <2>2. Pointer(lv[t], P[t][i])
    BY <1>4, <1>8, <2>1, NextTableIsPointer
  <2> QED BY <1>9, <2>2
<1>12. PICK e : e = set_flags(old, f)
  OBVIOUS
<1>13. /\ Write(s, e) /\ level' = level /\ panicked' = panicked
       /\ tlb' = T \cup Translations(mem') /\ removed' = removed /\ strayed' = {}
  BY <1>1, <1>3, <1>10, <1>12 DEF rec_set_flags, Cached
<1>14. /\ e \in Entry /\ addr(e) = addr(old) /\ {PRESENT, WRITABLE} \subseteq e
       /\ Pointer(lv[t], e)
  <2>1. f \in SUBSET FlagBits /\ f \cap AddrBits = {} /\ HUGE_PAGE \notin f
    BY MapperAssumption DEF RecContract
  <2>2. /\ e \in Entry /\ addr(e) = addr(old) /\ {PRESENT, WRITABLE} \subseteq e
        /\ HUGE_PAGE \notin e
    BY <1>9, <1>12, <2>1, AddrOfSetFlags, BitsAssumption
  <2> QED BY <1>11, <2>2 DEF Pointer
<1>15. n = [m EXCEPT ![t][i] = e]
  <2>1. mem' = [mem EXCEPT ![Tab(Plain(mem), s, Len(s))][s[Len(s)]] = e]
    BY <1>2, <1>3, <1>6, <1>13, WriteIs DEF RecGood
  <2> QED BY <1>3, <1>7, <2>1
<1>16. /\ RecTree(n, lv) /\ PW(Plain(n), lv) /\ Written(Plain(m), Plain(n), t, i, e)
  <2>1. /\ Pointer(lv[t], m[t][i]) /\ Pointer(lv[t], e)
        /\ addr(e) = addr(m[t][i]) /\ {PRESENT, WRITABLE} \subseteq e /\ e \in Entry
    BY <1>7, <1>11, <1>14
  <2> QED BY <1>4, <1>8, <1>15, <2>1, RecWrite
<1>17. SameLeaves(P, N) /\ SameWalks(P, N)
  <2>1. /\ Written(P, N, t, i, e) /\ Pointer(lv[t], e) /\ Pointer(lv[t], P[t][i])
        /\ addr(e) = addr(P[t][i])
    BY <1>3, <1>9, <1>11, <1>14, <1>16
  <2>2. SameLeaves(P, N)
    BY <1>4, <1>8, <2>1, FlagsKeepLeaves
  <2>3. SameWalks(P, N)
    BY <1>4, <1>8, <2>1, FlagsKeepWalks
  <2> QED BY <2>2, <2>3
<1>18. ToldOK(N, told)
  BY <1>4, <1>17, ToldSame
<1>19. removed = 0 => TlbOK(N, T \cup Translations(n))
  <2>1. removed = 0 => TlbOK(N, T)
    BY <1>4, <1>17, SameWalksStay, SameLeavesStay, TlbKept
  <2>2. TlbOK(N, Translations(n))
    BY <1>3, <1>16, TlbFresh
  <2> QED BY <2>1, <2>2, TlbUnion
<1>20. RecGood'
  BY <1>3, <1>13, <1>16, <1>18, <1>19 DEF RecGood
<1>21. RecSpaceStep
  <2>1. N \in Memory /\ IsTree(N, lv)
    BY <1>3, <1>16, PlainSlots DEF RecTree
  <2>2. SpaceOf(N) = SpaceOf(P)
    <3>1. PICK tl : tl = told
      OBVIOUS
    <3>2. ToldOK(P, tl) /\ ToldOK(N, tl)
      BY <1>4, <1>18, <3>1
    <3> QED BY <1>4, <1>17, <2>1, <3>2, SpaceSame
  <2> QED BY <1>3, <2>2 DEF RecSpaceStep, SpaceStep
<1> QED BY <1>13, <1>20, <1>21

(***************************************************************************)
(* clean_up_addr_range.  The part of a range under an entry starts with a  *)
(* page whose indices are those of the way to the entry, and the entry's.  *)
(***************************************************************************)
LEMMA FirstUnder ==
  ASSUME NEW d \in Nat \ {0}, NEW n \in Nat \ {0}, NEW x \in Nat, NEW i \in 0 .. n - 1,
         Digit(x, d, n) <= i,
         NEW z, z = PartFrom(x, d, n, i)
  PROVE  z \in Nat /\ Digit(z, d, n) = i /\ Block(z, d, n) = Block(x, d, n)
<1>13. PICK y : y = x - (x % (d * n)) + d * i
  OBVIOUS
<1>14. z = IF y > x THEN y ELSE x
  BY <1>13 DEF PartFrom
<1>1. PICK q \in Nat, c \in 0 .. d - 1 : x = q * d + c /\ x \div d = q
  BY Divided
<1>2. PICK a \in Nat, j \in 0 .. n - 1 : q = a * n + j /\ q % n = j
  BY Divided
<1>0. a \in Int
  BY <1>2
<1>3. j <= i
  BY <1>1, <1>2 DEF Digit
<1>4. PICK e \in Nat \ {0} : e = d * n
  BY DivideTwice
<1>5. x = a * e + (j * d + c) /\ j * d + c \in 0 .. e - 1
  BY <1>1, <1>2, <1>4, TwoDigits
<1>6. x % e = j * d + c /\ x \div e = a
  <2>1. PICK b \in 0 .. e - 1 : b = j * d + c
    BY <1>5
  <2>2. (a * e + b) % e = b /\ (a * e + b) \div e = a
    BY <1>0, Quotient
  <2> QED BY <1>5, <2>1, <2>2
<1>7. y = a * e + i * d
  <2>1. y = x - (x % e) + d * i
    BY <1>4, <1>13
  <2>2. PICK b \in Int, g \in Int : b = j * d + c /\ g = a * e
    BY <1>0
  <2>3. d * i = i * d /\ i * d \in Int
    OBVIOUS
  <2>4. x = g + b /\ x % e = b
    BY <1>5, <1>6, <2>2
  <2>5. y = g + i * d
    BY <2>1, <2>2, <2>3, <2>4
  <2> QED BY <2>2, <2>5
<1>8. PICK b \in 0 .. d - 1 : z = a * e + (i * d + b)
  <2>1. CASE i = j
    <3>1. y <= x
      BY <1>5, <1>7, <2>1
    <3>2. z = x
      BY <1>7, <1>14, <3>1
    <3> QED BY <1>5, <2>1, <3>2
  <2>2. CASE i > j
    <3>1. d * (i - j) >= d
      BY <2>2
    <3>2. y > x
      BY <1>5, <1>7, <3>1
    <3>3. z = a * e + (i * d + 0) /\ 0 \in 0 .. d - 1
      BY <1>7, <1>14, <3>2
    <3> QED BY <3>3
  <2> QED BY <1>3, <2>1, <2>2
<1>9. i * d + b \in 0 .. e - 1
  BY <1>4, TwoDigits
<1>10. z \in Nat /\ z \div e = a
  <2>1. PICK u \in 0 .. e - 1 : u = i * d + b
    BY <1>9
  <2>2. (a * e + u) \div e = a
    BY <1>0, Quotient
  <2> QED BY <1>8, <2>1, <2>2
<1>11. z \div d = a * n + i
  <2>1. z = (a * n + i) * d + b
    BY <1>4, <1>8
  <2>2. PICK u \in Int : u = a * n + i
    OBVIOUS
  <2>3. (u * d + b) \div d = u
    BY Quotient
  <2> QED BY <2>1, <2>2, <2>3
<1>12. (a * n + i) % n = i
  BY <1>0, Quotient
<1> QED BY <1>4, <1>6, <1>10, <1>11, <1>12 DEF Digit, Block

\* Pages under the same entry of a level have the same indices from this level up.
LEMMA SameAbove ==
  ASSUME NEW x \in Nat, NEW z \in Nat, NEW n, n = ENTRY_COUNT, NEW L \in 2 .. 4,
         Block(z, PagesPerEntry(L), n) = Block(x, PagesPerEntry(L), n), NEW M \in 3 .. 4, M > L
  PROVE  page_table_index(z, M) = page_table_index(x, M)
<1>1. /\ n \in Nat \ {0} /\ n * n \in Nat \ {0}
      /\ PagesPerEntry(2) = n /\ PagesPerEntry(3) = n * n /\ PagesPerEntry(4) = (n * n) * n
  BY EntrySizes
<1>2. M = L + 1 => PagesPerEntry(M) = PagesPerEntry(L) * n
  <2>1. L = 2 \/ L = 3 \/ L = 4
    OBVIOUS
  <2> QED BY <1>1, <2>1
<1>3. CASE M = L + 1
  BY <1>2, <1>3 DEF page_table_index, Block
<1>4. CASE L = 2 /\ M = 4
  <2>1. PICK d \in Nat \ {0} : d = n * n
    BY <1>1
  <2>2. x \div (d * n) = (x \div d) \div n /\ z \div (d * n) = (z \div d) \div n
    BY <1>1, DivideTwice
  <2>3. z \div d = x \div d
    BY <1>1, <1>4, <2>1 DEF Block
  <2>4. x \div PagesPerEntry(4) = z \div PagesPerEntry(4)
    BY <1>1, <2>1, <2>2, <2>3
  <2> QED BY <1>4, <2>4 DEF page_table_index
<1> QED BY <1>3, <1>4

LEMMA SubRangePage ==
  ASSUME NEW r, r.start \in Nat, NEW L \in 2 .. 4, NEW i \in Visited(r, L),
         NEW x, x = r.start, NEW z, z = SubRange(r, L, i).start
  PROVE  /\ z \in Nat /\ i \in Index /\ PageOf(z)[5 - L] = i
         /\ Same(PageOf(z), PageOf(x), 4 - L)
<1>1. PICK n, d : n = ENTRY_COUNT /\ d = PagesPerEntry(L)
  OBVIOUS
<1>2. n \in Nat \ {0} /\ d \in Nat \ {0} /\ Index = 0 .. n - 1
  BY <1>1, EntrySizes
<1>3. i \in 0 .. n - 1 /\ Digit(x, d, n) <= i
  BY <1>1, <1>2 DEF Visited, page_table_index, Digit
<1>4. x \in Nat /\ z = PartFrom(x, d, n, i)
  BY <1>1 DEF SubRange, PartFrom
<1>6. z \in Nat /\ Digit(z, d, n) = i /\ Block(z, d, n) = Block(x, d, n)
  BY <1>2, <1>3, <1>4, FirstUnder
<1>7. PageOf(z)[5 - L] = i
  <2>1. page_table_index(z, L) = i
    BY <1>1, <1>6 DEF page_table_index, Digit
  <2>2. 5 - L \in 1 .. 4 /\ 5 - (5 - L) = L
    OBVIOUS
  <2> QED BY <2>1, <2>2 DEF PageOf
<1>8. ASSUME NEW k \in 1 .. 4 - L PROVE PageOf(z)[k] = PageOf(x)[k]
  <2>1. k \in 1 .. 4 /\ 5 - k \in 3 .. 4 /\ 5 - k > L
    OBVIOUS
  <2>2. page_table_index(z, 5 - k) = page_table_index(x, 5 - k)
    BY <1>1, <1>6, <2>1, SameAbove
  <2> QED BY <2>1, <2>2 DEF PageOf
<1> QED BY <1>2, <1>3, <1>6, <1>7, <1>8 DEF Same

LEMMA PageOfPath == ASSUME NEW x \in Nat PROVE Path(PageOf(x), 4)
<1> SUFFICES ASSUME NEW k \in 1 .. 4 PROVE PageOf(x)[k] \in Index
  BY DEF Path
<1>1. PICK n, d : n = ENTRY_COUNT /\ d = PagesPerEntry(5 - k)
  OBVIOUS
<1>2. 5 - k \in 1 .. 4
  OBVIOUS
<1>3. n \in Nat \ {0} /\ d \in Nat \ {0} /\ Index = 0 .. n - 1
  BY <1>1, <1>2, EntrySizes
<1>4. PICK q \in Nat : q = x \div d
  BY <1>3, Divided
<1>5. q % n \in 0 .. n - 1
  BY <1>3, Divided
<1>6. PageOf(x)[k] = q % n
  BY <1>1, <1>4 DEF PageOf, page_table_index
<1> QED BY <1>3, <1>5, <1>6

\* The visit of table t, of level L, is of the part of a range under the way to t.
Visiting(m, t, L, q) ==
  /\ q.start \in Nat
  /\ Reach(Plain(m), PageOf(q.start), 5 - L) /\ t = Tab(Plain(m), PageOf(q.start), 5 - L)
  /\ L < 4 => PageOf(q.start)[1] # recursive_index

\* The table behind an entry of a level L table, found by the window of the pages sub.
NextSeen(m, L, sub) == CHOOSE f \in Walk(m, WindowOf(PageOf(sub.start), 6 - L)) : TRUE

\* What the window of the table behind entry i shows: this table.
LEMMA NextVisit ==
  ASSUME NEW m, NEW lv, RecTree(m, lv), NEW t, NEW L \in 2 .. 4, NEW q, Visiting(m, t, L, q),
         NEW i \in Visited(q, L), Enters(m[t][i], L, i),
         NEW sub, sub = SubRange(q, L, i),
         NEW nx, nx = NextSeen(m, L, sub)
  PROVE  /\ t \in TableFrames /\ Pointer(lv[t], Plain(m)[t][i])
         /\ nx = addr(Plain(m)[t][i]) /\ nx \in TableFrames \ {Root}
         /\ Visiting(m, nx, L - 1, sub)
<1>1. PICK P, s, x, z, k : /\ P = Plain(m) /\ s = PageOf(q.start) /\ x = PageOf(sub.start)
                           /\ z = sub.start /\ k = 5 - L
  OBVIOUS
<1>2. /\ m \in Memory /\ P \in Memory /\ lv \in Books /\ IsTree(P, lv)
  BY <1>1, PlainSlots DEF RecTree
<1>3. z \in Nat /\ i \in Index /\ x[k] = i /\ Same(x, s, k - 1)
  <2>1. PICK y : y = q.start
    OBVIOUS
  <2>2. q.start \in Nat
    BY DEF Visiting
  <2>3. /\ z \in Nat /\ i \in Index /\ PageOf(z)[5 - L] = i
        /\ Same(PageOf(z), PageOf(y), 4 - L)
    BY <1>1, <2>1, <2>2, SubRangePage
  <2>4. 4 - L = k - 1
    BY <1>1
  <2> QED BY <1>1, <2>1, <2>3, <2>4
<1>4. Path(x, 4)
  BY <1>1, <1>3, PageOfPath
<1>5. k \in 1 .. 3 /\ k \in 1 .. 4 /\ k + 1 \in 2 .. 4 /\ k + 1 = 6 - L /\ k + 1 = 5 - (L - 1) /\ L = 5 - k
  BY <1>1
<1>6. Reach(P, x, k) /\ t = Tab(P, x, k)
  <2>1. Reach(P, s, k) /\ t = Tab(P, s, k)
    BY <1>1 DEF Visiting
  <2> QED BY <1>3, <1>5, <2>1, ReachSame
<1>7. x[1] # recursive_index
  <2>1. CASE L = 4
    BY <1>3, <1>5, <2>1 DEF Enters
  <2>2. CASE L < 4
    <3>1. s[1] # recursive_index /\ 1 \in 1 .. k - 1
      BY <1>1, <1>5, <2>2 DEF Visiting
    <3> QED BY <1>3, <3>1 DEF Same
  <2> QED BY <2>1, <2>2
<1>8. Path(x, k) /\ Path(x, (k + 1) - 1)
  BY <1>4, <1>5 DEF Path
<1>9. Ordinary(t, i) /\ lv[t] = L
  BY <1>2, <1>3, <1>5, <1>6, <1>7, <1>8, WayIsOrdinary
<1>10. P[t][i] = m[t][i] /\ t \in TableFrames /\ P[t][i] = Slot(P, x, k)
  BY <1>1, <1>2, <1>3, <1>6, <1>9, PlainSlots DEF Ordinary, Slot
<1>11. Pointer(L, P[t][i])
  <2>1. HUGE_PAGE \notin P[t][i] /\ PRESENT \in P[t][i]
    BY <1>10, BitsAssumption DEF Enters, flags
  <2> QED BY <2>1 DEF Pointer
<1>12. Reach(P, x, k + 1) /\ Tab(P, x, k + 1) = addr(P[t][i])
  BY <1>5, <1>6, <1>10, <1>11, ReachStep
<1>13. addr(P[t][i]) \in TableFrames \ {Root}
  BY <1>2, <1>3, <1>9, <1>10, <1>11, FramesAssumption DEF IsTree, PointersDown, RootIsTop
<1>14. nx = addr(P[t][i])
  <2>1. k + 1 \in 1 .. 4
    BY <1>5
  <2>2. Seen(m, x, k + 1) = {Tab(P, x, k + 1)}
    BY <1>1, <1>7, <1>8, <1>12, <2>1, SeenHere
  <2>3. Seen(m, x, k + 1) = Walk(m, WindowOf(x, 6 - L))
    BY <1>5 DEF Seen
  <2>4. Walk(m, WindowOf(x, 6 - L)) = {addr(P[t][i])}
    BY <1>12, <2>2, <2>3
  <2> QED BY <1>1, <2>4 DEF NextSeen
<1>15. Visiting(m, nx, L - 1, sub)
  <2>1. sub.start \in Nat /\ Reach(P, PageOf(sub.start), 5 - (L - 1))
    BY <1>1, <1>3, <1>5, <1>12
  <2>2. nx = Tab(P, PageOf(sub.start), 5 - (L - 1)) /\ PageOf(sub.start)[1] # recursive_index
    BY <1>1, <1>5, <1>7, <1>12, <1>14
  <2> QED BY <1>1, <2>1, <2>2 DEF Visiting
<1> QED BY <1>1, <1>9, <1>10, <1>11, <1>13, <1>14, <1>15

LEMMA VisitingLevel ==
  ASSUME NEW m, NEW lv, RecTree(m, lv), NEW t, NEW L \in 1 .. 4, NEW q, Visiting(m, t, L, q)
  PROVE  t \in TableFrames /\ lv[t] = L
<1>1. PICK P, s, k : P = Plain(m) /\ s = PageOf(q.start) /\ k = 5 - L
  OBVIOUS
<1>2. /\ P \in Memory /\ lv \in Books /\ IsTree(P, lv) /\ k \in 1 .. 4 /\ L = 5 - k
  BY <1>1, PlainSlots DEF RecTree
<1>3. Reach(P, s, k) /\ t = Tab(P, s, k) /\ Path(s, 4)
  BY <1>1, PageOfPath DEF Visiting
<1>4. Path(s, k - 1)
  BY <1>2, <1>3 DEF Path
<1> QED BY <1>2, <1>3, <1>4, ReachLevel

\* The visits of rec_clean_up_addr_range, from the level 2 tables up to Root.
LEMMA RecCleanUpIsRemovable ==
  ASSUME NEW m, NEW lv, RecTree(m, lv), NEW r, r.start \in Nat
  PROVE  Removable(Plain(m), lv, RecCleanP4(m, r))
<1>0. PICK P : P = Plain(m)
  OBVIOUS
<1>1. RecTree(m, lv) /\ m \in Memory /\ P = Plain(m)
  BY <1>0 DEF RecTree
<1>2. Removable(P, lv, {})
  BY DEF Removable
<1>3. ASSUME NEW t, NEW q, Visiting(m, t, 1, q) PROVE Removable(P, lv, CleanP1(m, t, q))
  BY <1>2 DEF CleanP1
<1>4. ASSUME NEW t, NEW q, Visiting(m, t, 2, q)
      PROVE  Removable(P, lv, RecCleanP2(m, t, q))
  <2> DEFINE tables == {i \in Visited(q, 2) : Enters(m[t][i], 2, i)}
             sub(i) == SubRange(q, 2, i)
             next(i) == CHOOSE f \in Walk(m, WindowOf(PageOf(sub(i).start), 6 - 2)) : TRUE
             below == [i \in tables |-> CleanP1(m, next(i), sub(i))]
             gone == {i \in tables : AllUnused(m, next(i), 2 - 1, sub(i), below[i])}
  <2>1. tables \in SUBSET Index /\ gone \in SUBSET tables
    BY DEF Visited
  <2>2. ASSUME NEW i \in tables
        PROVE  /\ t \in TableFrames /\ Pointer(lv[t], P[t][i])
               /\ next(i) = addr(P[t][i]) /\ next(i) \in TableFrames \ {Root}
               /\ Visiting(m, next(i), 2 - 1, sub(i))
    <3>1. i \in Visited(q, 2) /\ Enters(m[t][i], 2, i) /\ 2 \in 2 .. 4
      OBVIOUS
    <3>2. PICK s, x : s = sub(i) /\ x = next(i)
      OBVIOUS
    <3>3. s = SubRange(q, 2, i) /\ x = NextSeen(m, 2, s)
      BY <3>2 DEF NextSeen
    <3> HIDE DEF tables, sub, next, below, gone
    <3>4. /\ t \in TableFrames /\ Pointer(lv[t], P[t][i])
          /\ x = addr(P[t][i]) /\ x \in TableFrames \ {Root}
          /\ Visiting(m, x, 2 - 1, s)
      <4>1. PICK L \in 2 .. 4 : L = 2
        OBVIOUS
      <4>2. /\ Visiting(m, t, L, q) /\ i \in Visited(q, L) /\ Enters(m[t][i], L, i)
            /\ s = SubRange(q, L, i)
            /\ x = NextSeen(m, L, s)
        BY <1>4, <3>1, <3>3, <4>1
      <4>3. /\ t \in TableFrames /\ Pointer(lv[t], P[t][i])
            /\ x = addr(P[t][i]) /\ x \in TableFrames \ {Root}
            /\ Visiting(m, x, L - 1, s)
        BY <1>1, <4>2, NextVisit
      <4> QED BY <4>1, <4>3
    <3> QED BY <3>2, <3>4
  <2>3. \A i \in tables : Removable(P, lv, below[i])
    <3>1. ASSUME NEW i \in tables PROVE Removable(P, lv, below[i])
      <4>1. below[i] = CleanP1(m, next(i), sub(i))
        OBVIOUS
      <4>2. Visiting(m, next(i), 1, sub(i)) /\ next(i) \in TableFrames
        BY <2>2
      <4> HIDE DEF tables, sub, next, below, gone
      <4> QED BY <4>1, <4>2, <1>3
    <3> QED BY <3>1
  <2>4. \A i \in gone : \A j \in Index :
          P[addr(P[t][i])][j] = {} \/ <<addr(P[t][i]), j>> \in below[i]
    <3>1. ASSUME NEW i \in gone, NEW j \in Index
          PROVE  P[addr(P[t][i])][j] = {} \/ <<addr(P[t][i]), j>> \in below[i]
      <4>1. i \in tables /\ (m[next(i)][j] = {} \/ <<next(i), j>> \in below[i])
        BY DEF AllUnused, is_unused
      <4>2. next(i) = addr(P[t][i]) /\ next(i) \in TableFrames \ {Root}
        BY <2>2, <4>1
      <4> HIDE DEF tables, sub, next, below, gone
      <4>3. P[next(i)][j] = m[next(i)][j]
        BY <1>1, <4>2, PlainSlots DEF Ordinary
      <4> QED BY <4>1, <4>2, <4>3
    <3> QED BY <3>1
  <2>5. RecCleanP2(m, t, q) = IF q.start > q.end THEN {} ELSE VisitClears(t, tables, below, gone)
    <3> DEFINE under(i) == CleanP1(m, next(i), sub(i))
               freed == {i \in tables : AllUnused(m, next(i), 2 - 1, sub(i), under(i))}
    <3>1. RecCleanP2(m, t, q) =
            IF q.start > q.end THEN {}
            ELSE (UNION {under(i) : i \in tables}) \cup {<<t, i>> : i \in freed}
      BY Zenon DEF RecCleanP2, RecVisit
    <3>2. \A i \in tables : below[i] = under(i)
      OBVIOUS
    <3>3. gone = freed
      BY <3>2
    <3> HIDE DEF tables, sub, next, below, gone, under, freed
    <3>4. {under(i) : i \in tables} = {below[i] : i \in tables}
      BY <3>2
    <3> QED BY <3>1, <3>3, <3>4 DEF VisitClears
  <2> HIDE DEF tables, sub, next, below, gone
  <2>6. Removable(P, lv, VisitClears(t, tables, below, gone))
    <3>1. t \in TableFrames
      BY <1>1, <1>4, VisitingLevel, FramesAssumption
    <3> QED BY <2>1, <2>2, <2>3, <2>4, <3>1, VisitRemovable DEF VisitOK
  <2> QED BY <2>5, <2>6, <1>2
<1>5. ASSUME NEW t, NEW q, Visiting(m, t, 3, q)
      PROVE  Removable(P, lv, RecCleanP3(m, t, q))
  <2> DEFINE tables == {i \in Visited(q, 3) : Enters(m[t][i], 3, i)}
             sub(i) == SubRange(q, 3, i)
             next(i) == CHOOSE f \in Walk(m, WindowOf(PageOf(sub(i).start), 6 - 3)) : TRUE
             below == [i \in tables |-> RecCleanP2(m, next(i), sub(i))]
             gone == {i \in tables : AllUnused(m, next(i), 3 - 1, sub(i), below[i])}
  <2>1. tables \in SUBSET Index /\ gone \in SUBSET tables
    BY DEF Visited
  <2>2. ASSUME NEW i \in tables
        PROVE  /\ t \in TableFrames /\ Pointer(lv[t], P[t][i])
               /\ next(i) = addr(P[t][i]) /\ next(i) \in TableFrames \ {Root}
               /\ Visiting(m, next(i), 3 - 1, sub(i))
    <3>1. i \in Visited(q, 3) /\ Enters(m[t][i], 3, i) /\ 3 \in 2 .. 4
      OBVIOUS
    <3>2. PICK s, x : s = sub(i) /\ x = next(i)
      OBVIOUS
    <3>3. s = SubRange(q, 3, i) /\ x = NextSeen(m, 3, s)
      BY <3>2 DEF NextSeen
    <3> HIDE DEF tables, sub, next, below, gone
    <3>4. /\ t \in TableFrames /\ Pointer(lv[t], P[t][i])
          /\ x = addr(P[t][i]) /\ x \in TableFrames \ {Root}
          /\ Visiting(m, x, 3 - 1, s)
      <4>1. PICK L \in 2 .. 4 : L = 3
        OBVIOUS
      <4>2. /\ Visiting(m, t, L, q) /\ i \in Visited(q, L) /\ Enters(m[t][i], L, i)
            /\ s = SubRange(q, L, i)
            /\ x = NextSeen(m, L, s)
        BY <1>5, <3>1, <3>3, <4>1
      <4>3. /\ t \in TableFrames /\ Pointer(lv[t], P[t][i])
            /\ x = addr(P[t][i]) /\ x \in TableFrames \ {Root}
            /\ Visiting(m, x, L - 1, s)
        BY <1>1, <4>2, NextVisit
      <4> QED BY <4>1, <4>3
    <3> QED BY <3>2, <3>4
  <2>3. \A i \in tables : Removable(P, lv, below[i])
    <3>1. ASSUME NEW i \in tables PROVE Removable(P, lv, below[i])
      <4>1. below[i] = RecCleanP2(m, next(i), sub(i))
        OBVIOUS
      <4>2. Visiting(m, next(i), 2, sub(i)) /\ next(i) \in TableFrames
        BY <2>2
      <4> HIDE DEF tables, sub, next, below, gone
      <4> QED BY <4>1, <4>2, <1>4
    <3> QED BY <3>1
  <2>4. \A i \in gone : \A j \in Index :
          P[addr(P[t][i])][j] = {} \/ <<addr(P[t][i]), j>> \in below[i]
    <3>1. ASSUME NEW i \in gone, NEW j \in Index
          PROVE  P[addr(P[t][i])][j] = {} \/ <<addr(P[t][i]), j>> \in below[i]
      <4>1. i \in tables /\ (m[next(i)][j] = {} \/ <<next(i), j>> \in below[i])
        BY DEF AllUnused, is_unused
      <4>2. next(i) = addr(P[t][i]) /\ next(i) \in TableFrames \ {Root}
        BY <2>2, <4>1
      <4> HIDE DEF tables, sub, next, below, gone
      <4>3. P[next(i)][j] = m[next(i)][j]
        BY <1>1, <4>2, PlainSlots DEF Ordinary
      <4> QED BY <4>1, <4>2, <4>3
    <3> QED BY <3>1
  <2>5. RecCleanP3(m, t, q) = IF q.start > q.end THEN {} ELSE VisitClears(t, tables, below, gone)
    <3> DEFINE under(i) == RecCleanP2(m, next(i), sub(i))
               freed == {i \in tables : AllUnused(m, next(i), 3 - 1, sub(i), under(i))}
    <3>1. RecCleanP3(m, t, q) =
            IF q.start > q.end THEN {}
            ELSE (UNION {under(i) : i \in tables}) \cup {<<t, i>> : i \in freed}
      BY Zenon DEF RecCleanP3, RecVisit
    <3>2. \A i \in tables : below[i] = under(i)
      OBVIOUS
    <3>3. gone = freed
      BY <3>2
    <3> HIDE DEF tables, sub, next, below, gone, under, freed
    <3>4. {under(i) : i \in tables} = {below[i] : i \in tables}
      BY <3>2
    <3> QED BY <3>1, <3>3, <3>4 DEF VisitClears
  <2> HIDE DEF tables, sub, next, below, gone
  <2>6. Removable(P, lv, VisitClears(t, tables, below, gone))
    <3>1. t \in TableFrames
      BY <1>1, <1>5, VisitingLevel, FramesAssumption
    <3> QED BY <2>1, <2>2, <2>3, <2>4, <3>1, VisitRemovable DEF VisitOK
  <2> QED BY <2>5, <2>6, <1>2
<1>6. ASSUME NEW q, Visiting(m, Root, 4, q)
      PROVE  Removable(P, lv, RecCleanP4(m, q))
  <2> DEFINE tables == {i \in Visited(q, 4) : Enters(m[Root][i], 4, i)}
             sub(i) == SubRange(q, 4, i)
             next(i) == CHOOSE f \in Walk(m, WindowOf(PageOf(sub(i).start), 6 - 4)) : TRUE
             below == [i \in tables |-> RecCleanP3(m, next(i), sub(i))]
             gone == {i \in tables : AllUnused(m, next(i), 4 - 1, sub(i), below[i])}
  <2>1. tables \in SUBSET Index /\ gone \in SUBSET tables
    BY DEF Visited
  <2>2. ASSUME NEW i \in tables
        PROVE  /\ Root \in TableFrames /\ Pointer(lv[Root], P[Root][i])
               /\ next(i) = addr(P[Root][i]) /\ next(i) \in TableFrames \ {Root}
               /\ Visiting(m, next(i), 4 - 1, sub(i))
    <3>1. i \in Visited(q, 4) /\ Enters(m[Root][i], 4, i) /\ 4 \in 2 .. 4
      OBVIOUS
    <3>2. PICK s, x : s = sub(i) /\ x = next(i)
      OBVIOUS
    <3>3. s = SubRange(q, 4, i) /\ x = NextSeen(m, 4, s)
      BY <3>2 DEF NextSeen
    <3> HIDE DEF tables, sub, next, below, gone
    <3>4. /\ Root \in TableFrames /\ Pointer(lv[Root], P[Root][i])
          /\ x = addr(P[Root][i]) /\ x \in TableFrames \ {Root}
          /\ Visiting(m, x, 4 - 1, s)
      <4>1. PICK L \in 2 .. 4 : L = 4
        OBVIOUS
      <4>2. /\ Visiting(m, Root, L, q) /\ i \in Visited(q, L) /\ Enters(m[Root][i], L, i)
            /\ s = SubRange(q, L, i)
            /\ x = NextSeen(m, L, s)
        BY <1>6, <3>1, <3>3, <4>1
      <4>3. /\ Root \in TableFrames /\ Pointer(lv[Root], P[Root][i])
            /\ x = addr(P[Root][i]) /\ x \in TableFrames \ {Root}
            /\ Visiting(m, x, L - 1, s)
        BY <1>1, <4>2, NextVisit
      <4> QED BY <4>1, <4>3
    <3> QED BY <3>2, <3>4
  <2>3. \A i \in tables : Removable(P, lv, below[i])
    <3>1. ASSUME NEW i \in tables PROVE Removable(P, lv, below[i])
      <4>1. below[i] = RecCleanP3(m, next(i), sub(i))
        OBVIOUS
      <4>2. Visiting(m, next(i), 3, sub(i)) /\ next(i) \in TableFrames
        BY <2>2
      <4> HIDE DEF tables, sub, next, below, gone
      <4> QED BY <4>1, <4>2, <1>5
    <3> QED BY <3>1
  <2>4. \A i \in gone : \A j \in Index :
          P[addr(P[Root][i])][j] = {} \/ <<addr(P[Root][i]), j>> \in below[i]
    <3>1. ASSUME NEW i \in gone, NEW j \in Index
          PROVE  P[addr(P[Root][i])][j] = {} \/ <<addr(P[Root][i]), j>> \in below[i]
      <4>1. i \in tables /\ (m[next(i)][j] = {} \/ <<next(i), j>> \in below[i])
        BY DEF AllUnused, is_unused
      <4>2. next(i) = addr(P[Root][i]) /\ next(i) \in TableFrames \ {Root}
        BY <2>2, <4>1
      <4> HIDE DEF tables, sub, next, below, gone
      <4>3. P[next(i)][j] = m[next(i)][j]
        BY <1>1, <4>2, PlainSlots DEF Ordinary
      <4> QED BY <4>1, <4>2, <4>3
    <3> QED BY <3>1
  <2>5. RecCleanP4(m, q) = IF q.start > q.end THEN {} ELSE VisitClears(Root, tables, below, gone)
    <3> DEFINE under(i) == RecCleanP3(m, next(i), sub(i))
               freed == {i \in tables : AllUnused(m, next(i), 4 - 1, sub(i), under(i))}
    <3>1. RecCleanP4(m, q) =
            IF q.start > q.end THEN {}
            ELSE (UNION {under(i) : i \in tables}) \cup {<<Root, i>> : i \in freed}
      BY Zenon DEF RecCleanP4, RecVisit
    <3>2. \A i \in tables : below[i] = under(i)
      OBVIOUS
    <3>3. gone = freed
      BY <3>2
    <3> HIDE DEF tables, sub, next, below, gone, under, freed
    <3>4. {under(i) : i \in tables} = {below[i] : i \in tables}
      BY <3>2
    <3> QED BY <3>1, <3>3, <3>4 DEF VisitClears
  <2> HIDE DEF tables, sub, next, below, gone
  <2>6. Removable(P, lv, VisitClears(Root, tables, below, gone))
    <3>1. Root \in TableFrames
      BY <1>1, <1>6, VisitingLevel, FramesAssumption
    <3> QED BY <2>1, <2>2, <2>3, <2>4, <3>1, VisitRemovable DEF VisitOK
  <2> QED BY <2>5, <2>6, <1>2
<1>7. Visiting(m, Root, 4, r)
  BY ReachStep DEF Visiting
<1> QED BY <1>0, <1>6, <1>7

GivesBack(m, S, h) ==
  \E f \in TableFrames, i \in Index : <<f, i>> \in S /\ addr(m[f][i]) = h

LEMMA FreedIs ==
  ASSUME NEW m, NEW lv, NEW S, Removable(m, lv, S), NEW h
  PROVE  h \in Freed(m, S) <=> GivesBack(m, S, h)
<1>1. ASSUME h \in Freed(m, S) PROVE GivesBack(m, S, h)
  <2>1. PICK s \in S : h = addr(m[s[1]][s[2]])
    BY <1>1 DEF Freed
  <2>2. s[1] \in TableFrames /\ s[2] \in Index /\ s = <<s[1], s[2]>>
    BY DEF Removable
  <2> QED BY <2>1, <2>2, Zenon DEF GivesBack
<1>2. ASSUME GivesBack(m, S, h) PROVE h \in Freed(m, S)
  <2>1. PICK f \in TableFrames, i \in Index : <<f, i>> \in S /\ addr(m[f][i]) = h
    BY <1>2 DEF GivesBack
  <2>2. <<f, i>>[1] = f /\ <<f, i>>[2] = i
    OBVIOUS
  <2> QED BY <2>1, <2>2, Zenon DEF Freed
<1> QED BY <1>1, <1>2

\* What clean_up leaves of the tables, with and without the recursive entry.
LEMMA RecCleaned ==
  ASSUME NEW m, NEW lv, RecTree(m, lv), NEW S, Removable(Plain(m), lv, S),
         NEW n, n = CleanedOut(m, S)
  PROVE  /\ n \in Memory /\ Own(n) /\ Plain(n) = CleanedOut(Plain(m), S)
         /\ Freed(m, S) = Freed(Plain(m), S)
<1>1. PICK P \in Memory : P = Plain(m)
  BY PlainSlots DEF RecTree
<1>2. m \in Memory /\ lv \in Books /\ IsTree(P, lv) /\ Own(m) /\ Removable(P, lv, S)
  BY <1>1 DEF RecTree
<1>3. Root \in TableFrames /\ recursive_index \in Index
  BY FramesAssumption, RecursiveAssumption
<1>4. ASSUME NEW f \in TableFrames, NEW i \in Index, <<f, i>> \in S
      PROVE  /\ Ordinary(f, i) /\ m[f][i] = P[f][i] /\ Pointer(lv[f], P[f][i])
             /\ addr(P[f][i]) \in TableFrames \ {Root}
  <2>1. Pointer(lv[f], P[f][i])
    BY <1>2, <1>4 DEF Removable
  <2>2. P[Root][recursive_index] = {}
    BY <1>1, <1>2, PlainSlots
  <2>3. Ordinary(f, i)
    BY <2>1, <2>2 DEF Pointer, Ordinary
  <2>4. m[f][i] = P[f][i]
    BY <1>1, <1>2, <2>3, PlainSlots
  <2>5. addr(P[f][i]) \in TableFrames /\ lv[addr(P[f][i])] = lv[f] - 1
    BY <1>2, <2>1 DEF IsTree, PointersDown
  <2>6. lv[Root] = 4 /\ lv[f] \in 0 .. 4
    BY <1>2, <1>3 DEF IsTree, RootIsTop, Books, Levels
  <2> QED BY <2>1, <2>3, <2>4, <2>5, <2>6
<1>5. Removable(m, lv, S)
  <2>1. S \subseteq TableFrames \X Index
    BY <1>2 DEF Removable
  <2>2. ASSUME NEW f \in TableFrames, NEW i \in Index, <<f, i>> \in S
        PROVE  /\ Pointer(lv[f], m[f][i])
               /\ \A j \in Index : m[addr(m[f][i])][j] = {} \/ <<addr(m[f][i]), j>> \in S
    <3>1. /\ m[f][i] = P[f][i] /\ Pointer(lv[f], P[f][i])
          /\ addr(P[f][i]) \in TableFrames \ {Root}
      BY <1>4, <2>2
    <3>2. \A j \in Index : P[addr(P[f][i])][j] = {} \/ <<addr(P[f][i]), j>> \in S
      BY <1>2, <2>2 DEF Removable
    <3>3. \A j \in Index : P[addr(P[f][i])][j] = m[addr(P[f][i])][j]
      BY <1>1, <1>2, <3>1, PlainSlots DEF Ordinary
    <3> QED BY <3>1, <3>2, <3>3
  <2> QED BY <2>1, <2>2 DEF Removable
<1>6. ASSUME NEW h
      PROVE  /\ h \in Freed(m, S) <=> h \in Freed(P, S)
             /\ h \in Freed(P, S) => h # Root
  <2>1. h \in Freed(m, S) <=>
          \E f \in TableFrames, i \in Index : <<f, i>> \in S /\ addr(m[f][i]) = h
    <3>1. h \in Freed(m, S) <=> GivesBack(m, S, h)
      BY <1>5, FreedIs
    <3> QED BY <3>1 DEF GivesBack
  <2>2. h \in Freed(P, S) <=>
          \E f \in TableFrames, i \in Index : <<f, i>> \in S /\ addr(P[f][i]) = h
    <3>1. h \in Freed(P, S) <=> GivesBack(P, S, h)
      BY <1>2, FreedIs
    <3> QED BY <3>1 DEF GivesBack
  <2> QED BY <1>4, <2>1, <2>2
<1>7. Freed(m, S) = Freed(P, S) /\ Root \notin Freed(m, S)
  BY <1>6
<1>8. <<Root, recursive_index>> \notin S
  BY <1>3, <1>4 DEF Ordinary
<1>9. PICK Q, G : Q = CleanedOut(P, S) /\ G = Freed(m, S)
  OBVIOUS
<1>10. /\ n = [f \in TableFrames |-> IF f \in G THEN GarbageTable
                ELSE [i \in Index |-> IF <<f, i>> \in S THEN {} ELSE m[f][i]]]
       /\ Q = [f \in TableFrames |-> IF f \in G THEN GarbageTable
                ELSE [i \in Index |-> IF <<f, i>> \in S THEN {} ELSE P[f][i]]]
  BY <1>7, <1>9 DEF CleanedOut
<1>11. n \in Memory /\ Q \in Memory
  <2>1. GarbageTable \in Table
    BY MapperAssumption DEF GarbageTable, Table
  <2>2. \A f \in TableFrames :
          /\ [i \in Index |-> IF <<f, i>> \in S THEN {} ELSE m[f][i]] \in Table
          /\ [i \in Index |-> IF <<f, i>> \in S THEN {} ELSE P[f][i]] \in Table
    BY <1>2 DEF Memory, Table, Entry
  <2> QED BY <1>10, <2>1, <2>2 DEF Memory
<1>12. /\ \A f \in TableFrames, i \in Index :
            f \in G => n[f][i] = GarbageEntry /\ Q[f][i] = GarbageEntry
       /\ \A f \in TableFrames, i \in Index :
            f \notin G => /\ n[f][i] = IF <<f, i>> \in S THEN {} ELSE m[f][i]
                          /\ Q[f][i] = IF <<f, i>> \in S THEN {} ELSE P[f][i]
  BY <1>10 DEF GarbageTable
<1>13. Own(n)
  BY <1>2, <1>3, <1>7, <1>8, <1>9, <1>12 DEF Own
<1>14. \A f \in TableFrames, i \in Index : Plain(n)[f][i] = Q[f][i]
  <2> SUFFICES ASSUME NEW f \in TableFrames, NEW i \in Index PROVE Plain(n)[f][i] = Q[f][i]
    OBVIOUS
  <2>1. CASE Ordinary(f, i)
    <3>1. Plain(n)[f][i] = n[f][i] /\ P[f][i] = m[f][i]
      BY <1>1, <1>2, <1>11, <2>1, PlainSlots
    <3> QED BY <1>12, <3>1
  <2>2. CASE ~Ordinary(f, i)
    <3>1. f = Root /\ i = recursive_index
      BY <2>2 DEF Ordinary
    <3>2. Plain(n)[f][i] = {} /\ P[f][i] = {}
      BY <1>1, <1>2, <1>11, <3>1, PlainSlots
    <3> QED BY <1>7, <1>9, <1>12, <3>1, <3>2
  <2> QED BY <2>1, <2>2
<1>15. Plain(n) = Q
  BY <1>11, <1>14, PlainSlots, MemoryEqual
<1> QED BY <1>1, <1>7, <1>9, <1>11, <1>13, <1>15

LEMMA RecCleanUpStep ==
  ASSUME RecContract, RecGood, strayed = {}, NEW r, r.start \in Nat, rec_clean_up_addr_range(r)
  PROVE  RecGood' /\ RecSpaceStep /\ strayed' = {}
<1>1. PICK P, N, lv, ln, tl, m, n, S, Q, T :
        /\ P = Plain(mem) /\ N = Plain(mem') /\ lv = level /\ ln = level' /\ tl = told
        /\ m = mem /\ n = mem' /\ S = RecCleanP4(mem, r) /\ Q = CleanedOut(P, S) /\ T = tlb
  OBVIOUS
<1>2. /\ P \in Memory /\ lv \in Books /\ IsTree(P, lv) /\ ToldOK(P, tl)
      /\ RecTree(m, lv) /\ PW(P, lv) /\ P = Plain(m)
      /\ m \in Memory /\ removed \in Nat /\ (removed = 0 => TlbOK(P, T))
  BY <1>1, PlainSlots DEF RecGood, RecTree
<1>3. Removable(P, lv, S)
  BY <1>1, <1>2, RecCleanUpIsRemovable
<1>4. /\ n = CleanedOut(m, S) /\ told' = told /\ panicked' = panicked
      /\ ln = [f \in TableFrames |-> IF f \in Freed(m, S) THEN 0 ELSE lv[f]]
      /\ tlb' = T \cup Translations(n) /\ strayed' = {}
      /\ removed' = removed + (IF S # {} THEN 1 ELSE 0)
  BY <1>1 DEF rec_clean_up_addr_range, CleanedOut, Freed, Cached
<1>5. n \in Memory /\ Own(n) /\ N = Q /\ Freed(m, S) = Freed(P, S)
  BY <1>1, <1>2, <1>3, <1>4, RecCleaned
<1>6. /\ Q = [f \in TableFrames |->
               IF f \in Freed(P, S) THEN GarbageTable
               ELSE [i \in Index |-> IF <<f, i>> \in S THEN {} ELSE P[f][i]]]
      /\ ln = [f \in TableFrames |-> IF f \in Freed(P, S) THEN 0 ELSE lv[f]]
  BY <1>1, <1>4, <1>5 DEF CleanedOut
<1>7. Q \in Memory /\ ln \in Books /\ IsTree(Q, ln)
  <2>1. Freed(P, S) = {addr(P[s[1]][s[2]]) : s \in S}
    BY DEF Freed
  <2> QED BY <1>2, <1>3, <1>6, <2>1, TreeKeptByCleanUp
<1>8. RecTree(n, ln)
  BY <1>1, <1>5, <1>7 DEF RecTree
<1>9. PW(N, ln)
  <2> SUFFICES ASSUME NEW f \in TableFrames, NEW i \in Index, Pointer(ln[f], Q[f][i])
               PROVE  {PRESENT, WRITABLE} \subseteq Q[f][i]
    BY <1>5 DEF PW
  <2>1. f \notin Freed(P, S)
    BY <1>6 DEF Pointer
  <2>2. ln[f] = lv[f] /\ Q[f][i] = P[f][i]
    BY <1>6, <2>1 DEF Pointer
  <2> QED BY <1>2, <2>2 DEF PW
<1>10. SameLeaves(P, Q) /\ SamePaths(P, Q)
  BY <1>1, <1>2, <1>3, CleanedOutLeaves
<1>11. ToldOK(N, tl)
  BY <1>2, <1>5, <1>10, ToldSame
<1>12. removed' \in Nat /\ (removed' = 0 => TlbOK(N, T \cup Translations(n)))
  <2>1. removed' \in Nat /\ (removed' = 0 => removed = 0 /\ S = {})
    BY <1>2, <1>4
  <2>2. TlbOK(N, Translations(n))
    BY <1>1, <1>8, TlbFresh
  <2>3. S = {} => N = P
    <3> SUFFICES ASSUME S = {} PROVE Q = P
      BY <1>5
    <3>1. Freed(P, S) = {}
      BY DEF Freed
    <3>2. \A f \in TableFrames, i \in Index : Q[f][i] = P[f][i]
      BY <1>6, <3>1
    <3> QED BY <1>2, <1>7, <3>2, MemoryEqual
  <2> QED BY <1>2, <2>1, <2>2, <2>3, TlbUnion
<1>13. RecGood'
  BY <1>1, <1>4, <1>8, <1>9, <1>11, <1>12 DEF RecGood
<1>14. RecSpaceStep
  <2>1. SpaceOf(N) = SpaceOf(P)
    BY <1>2, <1>5, <1>7, <1>10, <1>11, SpaceSame
  <2> QED BY <1>1, <2>1 DEF RecSpaceStep, SpaceStep
<1> QED BY <1>4, <1>13, <1>14

(***************************************************************************)
(* The calls that leave the tables.                                        *)
(***************************************************************************)
LEMMA FirstPart ==
  ASSUME NEW s \in Seq(Index), NEW k \in 1 .. 4, k <= Len(s), NEW u, u = SubSeq(s, 1, k)
  PROVE  u \in Seq(Index) /\ Len(u) = k /\ Same(u, s, k) /\ Path(u, k) /\ Path(s, k)
<1>1. Len(s) \in Nat /\ k \in Nat
  OBVIOUS
<1>2. u \in Seq(Index) /\ Len(u) = k
  BY <1>1
<1>3. ASSUME NEW j \in 1 .. k PROVE u[j] = s[j] /\ s[j] \in Index
  <2>1. j \in 1 .. Len(s)
    BY <1>1
  <2>2. u[j] = s[j]
    BY <1>1, <2>1
  <2> QED BY <2>1, <2>2
<1> QED BY <1>2, <1>3 DEF Same, Path

\* Until an entry is removed, no window that a call goes through is out of date.
LEMMA NoStaleWindow ==
  ASSUME RecGood, removed = 0, NEW s \in Seq(Index), UserSlot(s), NEW strict \in BOOLEAN,
         NEW k \in 2 .. 4, k <= Len(s), parents_error(mem, SubSeq(s, 1, k), strict) = "None"
  PROVE  Stale(tlb, mem, WindowOf(s, k)) = {}
<1>1. PICK m, lv, P, T, tl : m = mem /\ lv = level /\ P = Plain(mem) /\ T = tlb /\ tl = told
  OBVIOUS
<1>2. RecTree(m, lv) /\ P = Plain(m) /\ TlbOK(P, T) /\ ToldOK(P, tl) /\ FramesTold(tl)
  BY <1>1 DEF RecGood
<1>3. PICK u : u = SubSeq(s, 1, k)
  OBVIOUS
<1>4. /\ k \in 1 .. 4 /\ Len(u) = k /\ Same(u, s, k) /\ Path(u, k) /\ Path(s, k)
  <2>1. k \in 1 .. 4
    OBVIOUS
  <2> QED BY <1>3, <2>1, FirstPart
<1>5. UserSlot(u) /\ Same(u, s, k - 1) /\ Path(s, k - 1) /\ s[1] # recursive_index
  BY <1>4 DEF UserSlot, Same, Path
<1>6. Reach(P, u, k)
  <2>1. parents_error(m, u, strict) = "None"
    BY <1>1, <1>3
  <2>2. CASE strict = TRUE
    BY <1>2, <1>4, <1>5, <2>1, <2>2, ReachIsStrict
  <2>3. CASE strict = FALSE
    <3>1. parents_error(m, u, FALSE) = "None"
      BY <2>1, <2>3
    <3>2. \/ Reach(P, u, Len(u))
          \/ parents_error(m, u, FALSE) = "PageNotMapped"
          \/ parents_error(m, u, FALSE) = "stray"
      BY <1>2, <1>5, LaxParents
    <3> QED BY <1>4, <3>1, <3>2
  <2> QED BY <2>2, <2>3
<1>7. Reach(P, s, k)
  BY <1>4, <1>5, <1>6, ReachSame
<1>8. Only(Seen(m, s, k), Tab(P, s, k))
  BY <1>2, <1>4, <1>5, <1>7, SeenHere DEF Only
<1>9. Stale(T, m, WindowOf(s, k)) = {}
  BY <1>2, <1>5, <1>7, <1>8, NotStale
<1> QED BY <1>1, <1>9

\* So a call leaves the tables after an entry was removed, or inside a huge page.
LEMMA StraysHow ==
  ASSUME RecGood, NEW s \in Seq(Index), UserSlot(s), NEW strict \in BOOLEAN, Strays(s, strict)
  PROVE  \/ removed > 0
         \/ /\ strict = FALSE /\ ToldAbove(told, s)
            /\ TableOf(Plain(mem), s).err = "MappedToHugePage"
<1>1. removed \in Nat /\ RecTree(mem, level) /\ ToldOK(Plain(mem), told) /\ FramesTold(told)
  BY DEF RecGood
<1>2. CASE parents_error(mem, s, strict) = "stray"
  <2>1. CASE strict = TRUE
    <3>1. parents_error(mem, s, TRUE) = "stray"
      BY <1>2, <2>1
    <3>2. ~Reach(Plain(mem), s, Len(s))
      BY <1>1, <3>1, ReachIsStrict
    <3>3. PICK n \in 1 .. 4 : n = Len(s)
      BY DEF UserSlot
    <3>4. PICK k \in 1 .. n - 1 : Reach(Plain(mem), s, k) /\ ~Reach(Plain(mem), s, k + 1)
      BY <3>2, <3>3, EndOfWay
    <3>5. k \in 1 .. Len(s) - 1
      BY <3>3, <3>4
    <3>6. parents_error(mem, s, TRUE)
            = IF Slot(Plain(mem), s, k) = {} THEN "PageNotMapped" ELSE "ParentEntryHugePage"
      BY <1>1, <3>4, <3>5, WayEnds
    <3> QED BY <3>1, <3>6
  <2>2. CASE strict = FALSE
    <3>1. parents_error(mem, s, FALSE) = "stray"
      BY <1>2, <2>2
    <3>2. ToldAbove(told, s) /\ TableOf(Plain(mem), s).err = "MappedToHugePage"
      BY <1>1, <3>1, LaxParents
    <3> QED BY <2>2, <3>2
  <2> QED BY <2>1, <2>2
<1>3. CASE \E k \in 2 .. Len(s) : /\ parents_error(mem, SubSeq(s, 1, k), strict) = "None"
                                  /\ Stale(tlb, mem, WindowOf(s, k)) # {}
  <2>1. PICK k \in 2 .. Len(s) : /\ parents_error(mem, SubSeq(s, 1, k), strict) = "None"
                                 /\ Stale(tlb, mem, WindowOf(s, k)) # {}
    BY <1>3
  <2>2. k \in 2 .. 4 /\ k <= Len(s)
    <3>1. PICK n \in 1 .. 4 : n = Len(s)
      BY DEF UserSlot
    <3>2. k \in 2 .. n
      BY <3>1
    <3>3. k \in 2 .. 4 /\ k <= n
      BY <3>2
    <3> QED BY <3>1, <3>3
  <2>3. removed # 0
    BY <2>1, <2>2, NoStaleWindow
  <2> QED BY <1>1, <2>3
<1> QED BY <1>2, <1>3 DEF Strays

LEMMA ToldAboveInside ==
  ASSUME NEW page \in UserPages, ToldAbove(told, page) PROVE InsideHugePage(page)
<1>1. PICK q \in Pages : Len(q) < Len(page) /\ Same(page, q, Len(q)) /\ told[q] # NotTold
  BY DEF ToldAbove
<1>2. page \in Seq(Index) /\ page \in Pages /\ page[1] # recursive_index /\ q \in Seq(Index)
  BY MapperAssumption DEF UserPages
<1>3. PICK k \in 1 .. 4 : k = Len(q)
  BY PagePath
<1>4. PICK u : u = SubSeq(page, 1, Len(q))
  OBVIOUS
<1>5. u \in Seq(Index) /\ Len(u) = k /\ Same(u, page, k)
  <2>1. k <= Len(page)
    BY <1>1, <1>2, <1>3
  <2>2. u = SubSeq(page, 1, k)
    BY <1>3, <1>4
  <2> QED BY <1>2, <2>1, <2>2, FirstPart
<1>6. \A j \in 1 .. Len(q) : q[j] = u[j]
  BY <1>1, <1>3, <1>5 DEF Same
<1>7. q = u
  BY <1>2, <1>3, <1>5, <1>6
<1>8. q \in UserPages
  <2>1. q[1] = page[1]
    BY <1>1, <1>3 DEF Same
  <2> QED BY <1>2, <2>1 DEF UserPages
<1> QED BY <1>1, <1>4, <1>7, <1>8 DEF InsideHugePage

LEMMA RecStrayStep ==
  ASSUME RecGood, RecStray PROVE RecNeverFaults' /\ strayed' # {}
<1>0. ~panicked
  BY DEF RecGood
<1>1. ASSUME NEW c, NEW s, NEW strict, LeavesTables(c, s, strict)
      PROVE  /\ strayed' = {[call |-> c, page |-> s]} /\ panicked' = panicked
             /\ removed' = removed /\ told' = told /\ Strays(s, strict)
  BY <1>1 DEF LeavesTables, Stray
<1>2. ASSUME NEW c, NEW s, panicked' = panicked, removed' = removed, told' = told,
             strayed' = {[call |-> c, page |-> s]},
             removed > 0 \/ (c = "update_flags" /\ InsideHugePage(s))
      PROVE  RecNeverFaults' /\ strayed' # {}
  <2>1. InsideHugePage(s)' <=> InsideHugePage(s)
    BY <1>2 DEF InsideHugePage
  <2>2. ASSUME NEW x \in strayed'
        PROVE  removed' > 0 \/ (x.call = "update_flags" /\ InsideHugePage(x.page)')
    <3>1. x = [call |-> c, page |-> s]
      BY <1>2, <2>2
    <3>2. x.call = c /\ x.page = s
      BY <3>1
    <3> QED BY <1>2, <2>1, <3>2
  <2>3. strayed' # {}
    BY <1>2
  <2> QED BY <1>0, <1>2, <2>2, <2>3 DEF RecNeverFaults
<1>3. ASSUME NEW page \in UserPages
      PROVE  page \in Seq(Index) /\ UserSlot(page)
  BY MapperAssumption, UserPageSlot DEF UserPages
<1>4. CASE \E page \in UserPages : LeavesTables("unmap", page, TRUE)
  <2>1. PICK page \in UserPages : LeavesTables("unmap", page, TRUE)
    BY <1>4
  <2>2. removed > 0
    <3>1. TRUE \in BOOLEAN /\ Strays(page, TRUE)
      BY <1>1, <2>1
    <3> QED BY <1>3, <3>1, StraysHow
  <2> QED BY <1>1, <1>2, <2>1, <2>2
<1>5. CASE \E page \in UserPages : LeavesTables("update_flags", page, FALSE)
  <2>1. PICK page \in UserPages : LeavesTables("update_flags", page, FALSE)
    BY <1>5
  <2>2. removed > 0 \/ InsideHugePage(page)
    <3>1. FALSE \in BOOLEAN /\ Strays(page, FALSE)
      BY <1>1, <2>1
    <3> QED BY <1>3, <3>1, StraysHow, ToldAboveInside
  <2> QED BY <1>1, <1>2, <2>1, <2>2
<1>6. CASE \E page \in UserPages, k \in 1 .. 3 :
             /\ k < Len(page) /\ NamesTable(Plain(mem), SubSeq(page, 1, k))
             /\ LeavesTables("set_flags", SubSeq(page, 1, k), FALSE)
  <2>1. PICK page \in UserPages, k \in 1 .. 3 :
             /\ k < Len(page) /\ NamesTable(Plain(mem), SubSeq(page, 1, k))
             /\ LeavesTables("set_flags", SubSeq(page, 1, k), FALSE)
    BY <1>6
  <2>2. PICK s : s = SubSeq(page, 1, k)
    OBVIOUS
  <2>3. s \in Seq(Index) /\ UserSlot(s)
    <3>1. k \in 1 .. 4 /\ k <= Len(page) /\ page[1] # recursive_index
      BY <1>3, <2>1 DEF UserPages
    <3>2. s \in Seq(Index) /\ Len(s) = k /\ Same(s, page, k) /\ Path(s, k)
      BY <1>3, <2>2, <3>1, FirstPart
    <3> QED BY <3>1, <3>2 DEF UserSlot, Same
  <2>4. removed > 0
    <3>1. FALSE \in BOOLEAN /\ Strays(s, FALSE)
      BY <1>1, <2>1, <2>2
    <3>2. TableOf(Plain(mem), s).err = "None"
      BY <2>1, <2>2 DEF NamesTable
    <3> QED BY <2>3, <3>1, <3>2, StraysHow
  <2> QED BY <1>1, <1>2, <2>1, <2>4
<1>7. CASE \E a \in UserAddresses : LeavesTables("clean_up", a, TRUE)
  <2>1. PICK a \in UserAddresses : LeavesTables("clean_up", a, TRUE)
    BY <1>7
  <2>2. a \in Seq(Index) /\ UserSlot(a)
    <3>1. PICK k \in 2 .. 4 : k = 4
      OBVIOUS
    <3>2. a \in Addresses /\ a[1] # recursive_index
      BY DEF UserAddresses
    <3>3. a \in Seq(Index) /\ Len(a) = 4 /\ Path(a, k)
      BY <3>2, Around
    <3> QED BY <3>1, <3>2, <3>3 DEF UserSlot
  <2>3. removed > 0
    <3>1. TRUE \in BOOLEAN /\ Strays(a, TRUE)
      BY <1>1, <2>1
    <3> QED BY <2>2, <3>1, StraysHow
  <2> QED BY <1>1, <1>2, <2>1, <2>3
<1> QED BY <1>4, <1>5, <1>6, <1>7 DEF RecStray

(***************************************************************************)
(* Every step keeps RecInv, and is a step of the address space if it does  *)
(* not leave the tables.                                                   *)
(***************************************************************************)
LEMMA RecInitInv == ASSUME RecInit PROVE RecInv /\ SpaceOf(Plain(mem)) = {}
<1>1. PICK m, lv, tl, P :
        m = mem /\ lv = level /\ tl = told /\ P = Plain(mem)
  OBVIOUS
<1>0. Root \in TableFrames /\ recursive_index \in Index /\ RecursiveEntry \in Entry
  BY FramesAssumption, RecursiveAssumption, RecursiveEntryIs
<1>2. /\ m = [f \in TableFrames |->
               IF f = Root THEN [ZeroTable EXCEPT ![recursive_index] = RecursiveEntry]
               ELSE GarbageTable]
      /\ lv = [f \in TableFrames |-> IF f = Root THEN 4 ELSE 0]
      /\ tl = [p \in Pages |-> NotTold]
  BY <1>1 DEF RecInit
<1>3. m \in Memory /\ lv \in Books /\ Own(m)
  <2>1. ZeroTable \in Table /\ GarbageTable \in Table
    BY MapperAssumption DEF ZeroTable, GarbageTable, Table, Entry
  <2>2. [ZeroTable EXCEPT ![recursive_index] = RecursiveEntry] \in Table
    BY <1>0, <2>1 DEF Table
  <2>3. m \in Memory
    BY <1>2, <2>1, <2>2 DEF Memory
  <2>4. lv \in Books
    BY <1>2 DEF Books, Levels
  <2>5. m[Root][recursive_index] = RecursiveEntry
    BY <1>0, <1>2 DEF ZeroTable
  <2> QED BY <2>3, <2>4, <2>5 DEF Own
<1>4. P \in Memory
  BY <1>1, <1>3, PlainSlots
<1>5. \A i \in Index : P[Root][i] = {}
  <2> SUFFICES ASSUME NEW i \in Index PROVE P[Root][i] = {}
    OBVIOUS
  <2>1. CASE i = recursive_index
    BY <1>1, <1>3, <2>1, PlainSlots
  <2>2. CASE i # recursive_index
    <3>1. Ordinary(Root, i)
      BY <1>0, <2>2 DEF Ordinary
    <3>2. m[Root][i] = {}
      BY <1>0, <1>2, <2>2 DEF ZeroTable
    <3> QED BY <1>1, <1>3, <3>1, <3>2, PlainSlots
  <2> QED BY <2>1, <2>2
<1>6. \A f \in TableFrames, i \in Index : ~Pointer(lv[f], P[f][i])
  BY <1>2, <1>5 DEF Pointer
<1>7. IsTree(P, lv) /\ PW(P, lv)
  BY <1>0, <1>2, <1>5, <1>6 DEF IsTree, RootIsTop, PointersDown, NamedOnce, NoneLost, PW
<1>8. tl \in [Pages -> Told] /\ \A p \in Pages : tl[p] = NotTold
  BY <1>2 DEF Told, NotTold
<1>9. ASSUME NEW s, NEW e, NEW k \in 2 .. 4, Path(s, k), Leaf(P, s, k, e) PROVE FALSE
  <2>1. s[1] \in Index
    BY <1>9 DEF Path
  <2>2. ~Reach(P, s, 2)
    BY <1>5, <2>1 DEF Reach, Reach2, Pointer
  <2>3. Reach(P, s, 2)
    BY <1>9, ReachBefore DEF Leaf
  <2> QED BY <2>2, <2>3
<1>10. ToldOK(P, tl)
  BY <1>8, <1>9 DEF ToldOK
<1>11. TlbOK(P, {})
  BY DEF TlbOK
<1>12. RecInv
  <2>1. panicked = FALSE /\ tlb = {} /\ removed = 0 /\ strayed = {}
    BY DEF RecInit
  <2>2. FramesTold(tl)
    BY <1>8 DEF FramesTold
  <2>3. RecGood
    BY <1>1, <1>3, <1>7, <1>8, <1>10, <1>11, <2>1, <2>2 DEF RecGood, RecTree
  <2> QED BY <2>1, <2>3 DEF RecInv, RecNeverFaults
<1>13. ASSUME NEW x \in SpaceOf(P) PROVE FALSE
  <2>1. Maps(P, x)
    BY <1>3, <1>4, <1>7, <1>10, SpaceIsLeaves
  <2>2. PICK p \in Pages : \E e : Leaf(P, p, Len(p), e)
    BY <2>1 DEF Maps
  <2>3. PICK e : Leaf(P, p, Len(p), e)
    BY <2>2
  <2> QED BY <1>9, <2>3, PagePath
<1> QED BY <1>1, <1>12, <1>13

LEMMA RecReloadStep ==
  ASSUME RecGood, RecReload PROVE RecGood' /\ RecSpaceStep /\ strayed' = {}
<1>1. /\ tlb' = Translations(mem) /\ removed' = 0 /\ mem' = mem /\ level' = level
      /\ told' = told /\ panicked' = panicked /\ strayed' = {}
  BY DEF RecReload, Running
<1>2. TlbOK(Plain(mem), Translations(mem))
  BY TlbFresh DEF RecGood
<1>3. RecGood'
  BY <1>1, <1>2 DEF RecGood
<1> QED BY <1>1, <1>3 DEF RecSpaceStep, SpaceStep

LEMMA RecNextStep ==
  ASSUME RecContract, RecInv, [RecNext]_rec_vars
  PROVE  RecInv' /\ (strayed' = {} => RecSpaceStep)
<1>g. ASSUME RecGood', RecSpaceStep, strayed' = {}
      PROVE  RecInv' /\ (strayed' = {} => RecSpaceStep)
  <2>1. panicked' = FALSE \/ ~panicked'
    BY <1>g DEF RecGood
  <2>2. RecNeverFaults'
    BY <1>g, <2>1 DEF RecNeverFaults
  <2> QED BY <1>g, <2>2 DEF RecInv
<1>l. ASSUME StraysLate PROVE RecInv' /\ (strayed' = {} => RecSpaceStep)
  <2>1. RecNeverFaults'
    BY <1>l DEF StraysLate, RecNeverFaults
  <2> QED BY <1>l, <2>1 DEF RecInv, StraysLate
<1>r. ASSUME Running PROVE RecGood /\ strayed = {}
  BY <1>r DEF RecInv, Running
<1>1. CASE RecMapTo
  <2>1. PICK page \in UserPages :
          \E d \in AlignedFrames(page), f \in FlagsFor(page, MapFlags) :
            rec_map_to(page, d, f, f \cap {PRESENT, WRITABLE, USER_ACCESSIBLE})
    BY <1>1 DEF RecMapTo
  <2>2. PICK d \in AlignedFrames(page), f \in FlagsFor(page, MapFlags) :
          rec_map_to(page, d, f, f \cap {PRESENT, WRITABLE, USER_ACCESSIBLE})
    BY <2>1
  <2>3. PICK pf : pf = f \cap {PRESENT, WRITABLE, USER_ACCESSIBLE}
    OBVIOUS
  <2>4. FlagsOK(pf) /\ pf \subseteq ParentFlags
    <3>1. f \in SUBSET FlagBits
      BY MapperAssumption DEF FlagsFor
    <3> QED BY <2>3, <3>1, BitsAssumption DEF FlagsOK, ParentFlags
  <2>5. RecGood
    BY <1>1, <1>r DEF RecMapTo
  <2> QED BY <1>g, <1>l, <2>2, <2>3, <2>4, <2>5, RecMapToStep
<1>2. CASE RecMapToWithTableFlags
  <2>1. PICK page \in UserPages :
          \E d \in AlignedFrames(page), f \in FlagsFor(page, MapFlags), t \in TableFlags :
            rec_map_to(page, d, f, t)
    BY <1>2 DEF RecMapToWithTableFlags
  <2>2. PICK d \in AlignedFrames(page), f \in FlagsFor(page, MapFlags), t \in TableFlags :
          rec_map_to(page, d, f, t)
    BY <2>1
  <2>4. FlagsOK(t) /\ t \subseteq ParentFlags
    BY MapperAssumption, BitsAssumption DEF RecContract, FlagsOK, ParentFlags
  <2>5. RecGood
    BY <1>2, <1>r DEF RecMapToWithTableFlags
  <2> QED BY <1>g, <1>l, <2>2, <2>4, <2>5, RecMapToStep
<1>3. CASE RecUnmap
  <2>1. PICK page \in UserPages : rec_unmap(page)
    BY <1>3 DEF RecUnmap
  <2>2. RecGood /\ strayed = {}
    BY <1>3, <1>r DEF RecUnmap
  <2> QED BY <1>g, <2>1, <2>2, RecUnmapStep
<1>4. CASE RecUpdateFlags
  <2>1. PICK page \in UserPages : \E f \in FlagsFor(page, LeafFlags) :
          /\ Len(page) < 4 => ~NamesTable(Plain(mem), page)
          /\ rec_set_flags(page, LeafBits(page, f))
          /\ told' = Retold(told, page, f)
    BY <1>4 DEF RecUpdateFlags
  <2>2. PICK f \in FlagsFor(page, LeafFlags) :
          /\ Len(page) < 4 => ~NamesTable(Plain(mem), page)
          /\ rec_set_flags(page, LeafBits(page, f))
          /\ told' = Retold(told, page, f)
    BY <2>1
  <2>3. RecGood /\ strayed = {}
    BY <1>4, <1>r DEF RecUpdateFlags
  <2> QED BY <1>g, <2>2, <2>3, RecUpdateFlagsStep
<1>5. CASE RecSetFlagsEntry
  <2>1. PICK page \in UserPages, k \in 1 .. 3, f \in TableFlags :
          /\ k < Len(page) /\ {PRESENT, WRITABLE} \subseteq f
          /\ NamesTable(Plain(mem), SubSeq(page, 1, k))
          /\ rec_set_flags(SubSeq(page, 1, k), f)
          /\ UNCHANGED told
    BY <1>5 DEF RecSetFlagsEntry
  <2>2. RecGood /\ strayed = {}
    BY <1>5, <1>r DEF RecSetFlagsEntry
  <2> QED BY <1>g, <2>1, <2>2, RecSetFlagsEntryStep
<1>6. CASE RecCleanUp
  <2>1. WholeRange.start \in Nat
    BY DEF WholeRange
  <2>2. RecGood /\ strayed = {} /\ rec_clean_up_addr_range(WholeRange)
    BY <1>6, <1>r DEF RecCleanUp
  <2> QED BY <1>g, <2>1, <2>2, RecCleanUpStep
<1>7. CASE RecCleanUpAddrRange
  <2>1. PICK r \in Ranges : rec_clean_up_addr_range(r)
    BY <1>7 DEF RecCleanUpAddrRange
  <2>2. r.start \in Nat
    BY <2>1, RangesAssumption
  <2>3. RecGood /\ strayed = {}
    BY <1>7, <1>r DEF RecCleanUpAddrRange
  <2> QED BY <1>g, <2>1, <2>2, <2>3, RecCleanUpStep
<1>8. CASE RecStray
  <2>1. RecGood
    BY <1>8, <1>r DEF RecStray
  <2> QED BY <1>8, <2>1, RecStrayStep DEF RecInv
<1>9. CASE RecReload
  <2>1. RecGood
    BY <1>9, <1>r DEF RecReload
  <2> QED BY <1>9, <1>g, <2>1, RecReloadStep
<1>10. CASE UNCHANGED rec_vars
  <2>1. /\ mem' = mem /\ level' = level /\ told' = told /\ panicked' = panicked /\ tlb' = tlb
        /\ removed' = removed /\ strayed' = strayed
    BY <1>10 DEF rec_vars
  <2>2. RecGood => RecGood'
    BY <2>1 DEF RecGood
  <2>3. RecNeverFaults => RecNeverFaults'
    BY <2>1 DEF RecNeverFaults, InsideHugePage
  <2>4. RecSpaceStep
    BY <2>1 DEF RecSpaceStep, SpaceStep
  <2> QED BY <2>1, <2>2, <2>3, <2>4 DEF RecInv
<1> QED BY <1>1, <1>2, <1>3, <1>4, <1>5, <1>6, <1>7, <1>8, <1>9, <1>10 DEF RecNext

(***************************************************************************)
(* The answers.                                                            *)
(***************************************************************************)
\* The last table on the walk of an address.
LEMMA LastTable ==
  ASSUME NEW m, NEW s
  PROVE  \E k \in 1 .. 4 : Reach(m, s, k) /\ (k < 4 => ~Reach(m, s, k + 1))
<1>1. CASE Reach(m, s, 4)
  BY <1>1
<1>2. CASE ~Reach(m, s, 4)
  <2>1. PICK n \in 1 .. 4 : n = 4
    OBVIOUS
  <2>2. PICK k \in 1 .. n - 1 : Reach(m, s, k) /\ ~Reach(m, s, k + 1)
    BY <1>2, <2>1, EndOfWay
  <2>3. k \in 1 .. 4
    BY <2>1, <2>2
  <2> QED BY <2>2, <2>3
<1> QED BY <1>1, <1>2

StopsAt(m, a, k) ==
  k = 4 \/ is_unused(EntrySeen(m, a, k)) \/ HUGE_PAGE \in flags(EntrySeen(m, a, k))

\* translate stops at the entry of the last table.
LEMMA StopsThere ==
  ASSUME NEW m, NEW lv, RecTree(m, lv), NEW a \in UserAddresses,
         NEW k \in 1 .. 4, Reach(Plain(m), a, k), k < 4 => ~Reach(Plain(m), a, k + 1)
  PROVE  /\ StopsAt(m, a, k) /\ \A j \in 1 .. k - 1 : ~StopsAt(m, a, j)
         /\ InTable(m, a, k) /\ EntrySeen(m, a, k) = Slot(Plain(m), a, k)
         /\ Slot(Plain(m), a, k) # {} => Leaf(Plain(m), a, k, Slot(Plain(m), a, k))
<1>0. lv \in Books /\ IsTree(Plain(m), lv) /\ Plain(m) \in Memory
  BY PlainSlots DEF RecTree
<1>1. a[1] # recursive_index /\ \A j \in 1 .. 4 : a[j] \in Index
  BY DEF UserAddresses, Addresses
<1>2. \A j \in 1 .. 4 : Path(a, j) /\ Path(a, j - 1)
  BY <1>1 DEF Path
<1>3. ASSUME NEW j \in 1 .. 4, Reach(Plain(m), a, j)
      PROVE  EntrySeen(m, a, j) = Slot(Plain(m), a, j)
  BY <1>1, <1>2, <1>3, SeenHere
<1>4. ASSUME NEW j \in 1 .. k - 1 PROVE ~StopsAt(m, a, j)
  <2>1. j \in 1 .. 3 /\ j \in 1 .. 4 /\ j + 1 \in 1 .. k /\ j \in 1 .. k
    OBVIOUS
  <2>2. Reach(Plain(m), a, j) /\ Reach(Plain(m), a, j + 1)
    BY <2>1, ReachBefore
  <2>3. Pointer(5 - j, Slot(Plain(m), a, j))
    BY <2>1, <2>2, ReachStep
  <2>4. EntrySeen(m, a, j) = Slot(Plain(m), a, j)
    BY <1>3, <2>1, <2>2
  <2> QED BY <2>1, <2>3, <2>4 DEF StopsAt, Pointer, is_unused, flags
<1>5. EntrySeen(m, a, k) = Slot(Plain(m), a, k)
  BY <1>3
<1>6. k < 4 => ~Pointer(5 - k, Slot(Plain(m), a, k))
  <2>1. k < 4 => k \in 1 .. 3
    OBVIOUS
  <2> QED BY <2>1, ReachStep
<1>7. StopsAt(m, a, k)
  <2>1. CASE k = 4
    BY <2>1 DEF StopsAt
  <2>2. CASE k < 4
    <3>1. Slot(Plain(m), a, k) = {} \/ HUGE_PAGE \in Slot(Plain(m), a, k)
      BY <1>6, <2>2 DEF Pointer
    <3> QED BY <1>5, <3>1, BitsAssumption DEF StopsAt, is_unused, flags
  <2> QED BY <2>1, <2>2
<1>8. InTable(m, a, k)
  <2>1. Seen(m, a, k) = {Tab(Plain(m), a, k)}
    BY <1>1, <1>2, SeenHere
  <2>2. Tab(Plain(m), a, k) \in TableFrames
    BY <1>0, <1>2, ReachLevel
  <2> QED BY <2>1, <2>2 DEF InTable
<1>9. ASSUME Slot(Plain(m), a, k) # {}
      PROVE  Leaf(Plain(m), a, k, Slot(Plain(m), a, k))
  <2>1. CASE k = 4
    BY <1>9, <2>1 DEF Leaf, Pointer
  <2>2. CASE k < 4
    <3>1. k \in 1 .. 3 /\ Path(a, k)
      BY <1>2, <2>2
    <3> QED BY <1>0, <1>9, <2>2, <3>1, WalkFails
  <2> QED BY <2>1, <2>2
<1> QED BY <1>4, <1>5, <1>7, <1>8, <1>9

LEMMA TranslateAnswers ==
  ASSUME NEW m, NEW lv, RecTree(m, lv), NEW a \in UserAddresses
  PROVE  rec_translate(m, a) = translate(Plain(m), a)
<1> DEFINE depth == CHOOSE k \in 1 .. 4 : StopsAt(m, a, k) /\ \A j \in 1 .. k - 1 : ~StopsAt(m, a, j)
<1>0. PICK P : P = Plain(m)
  OBVIOUS
<1>1. lv \in Books /\ IsTree(P, lv) /\ P \in Memory /\ a \in Addresses
  BY <1>0, PlainSlots DEF RecTree, UserAddresses
<1>2. PICK k \in 1 .. 4 : Reach(P, a, k) /\ (k < 4 => ~Reach(P, a, k + 1))
  BY LastTable
<1>3. PICK e : e = Slot(P, a, k)
  OBVIOUS
<1>4. /\ StopsAt(m, a, k) /\ \A j \in 1 .. k - 1 : ~StopsAt(m, a, j)
      /\ InTable(m, a, k) /\ EntrySeen(m, a, k) = e
      /\ e # {} => Leaf(P, a, k, e)
  BY <1>0, <1>2, <1>3, StopsThere
<1>5. depth = k
  <2>1. /\ depth \in 1 .. 4 /\ StopsAt(m, a, depth)
        /\ \A j \in 1 .. depth - 1 : ~StopsAt(m, a, j)
    BY <1>4
  <2> HIDE DEF depth
  <2> QED BY <1>4, <2>1
<1>6. rec_translate(m, a) =
        CASE ~InTable(m, a, depth) -> [NotMapped EXCEPT !.result = "stray"]
          [] InTable(m, a, depth) /\ is_unused(EntrySeen(m, a, depth)) -> NotMapped
          [] InTable(m, a, depth) /\ ~is_unused(EntrySeen(m, a, depth)) /\ depth = 1 ->
               [NotMapped EXCEPT !.result = "panic"]
          [] OTHER -> [result |-> "Mapped", page |-> SubSeq(a, 1, depth),
                       frame |-> containing_address(addr(EntrySeen(m, a, depth)), depth),
                       flags |-> flags(EntrySeen(m, a, depth))]
  BY Zenon DEF rec_translate, StopsAt
<1> HIDE DEF depth
<1>7. CASE e = {}
  <2>1. rec_translate(m, a) = NotMapped
    BY <1>4, <1>5, <1>6, <1>7 DEF is_unused
  <2>2. ASSUME NEW j \in 2 .. 4, NEW d, Leaf(P, a, j, d) PROVE FALSE
    <3>1. Reach(P, a, j) /\ d = Slot(P, a, j) /\ d # {} /\ ~Pointer(5 - j, d) /\ j \in 1 .. 4
      BY <2>2 DEF Leaf
    <3>2. CASE j = k
      BY <1>3, <1>7, <3>1, <3>2
    <3>3. CASE j < k
      <4>1. j \in 1 .. 3 /\ j + 1 \in 1 .. k
        BY <3>3
      <4>2. Reach(P, a, j + 1)
        BY <1>2, <4>1, ReachBefore
      <4> QED BY <3>1, <4>1, <4>2, ReachStep
    <3>4. CASE k < j
      <4>1. k + 1 \in 1 .. j /\ k < 4
        BY <3>4
      <4>2. Reach(P, a, k + 1)
        BY <3>1, <4>1, ReachBefore
      <4> QED BY <1>2, <4>1, <4>2
    <3> QED BY <3>2, <3>3, <3>4
  <2>3. translate(P, a) = NotMapped
    BY <1>1, <2>2, TranslateFinds
  <2> QED BY <1>0, <2>1, <2>3
<1>8. CASE e # {}
  <2>1. Leaf(P, a, k, e) /\ k # 1
    BY <1>4, <1>8 DEF Leaf
  <2>2. rec_translate(m, a) = Found(SubSeq(a, 1, k), k, e)
    BY <1>4, <1>5, <1>6, <1>8, <2>1 DEF is_unused, Found
  <2>6. PICK j \in 2 .. 4 :
          \E d : Leaf(P, a, j, d) /\ translate(P, a) = Found(SubSeq(a, 1, j), j, d)
    BY <1>1, <2>1, TranslateFinds DEF Leaf
  <2>3. PICK d : Leaf(P, a, j, d) /\ translate(P, a) = Found(SubSeq(a, 1, j), j, d)
    BY <2>6
  <2>4. j = k
    BY <2>1, <2>3, LeafAlone
  <2>5. d = e
    BY <2>1, <2>3, <2>4 DEF Leaf
  <2> QED BY <1>0, <2>2, <2>3, <2>4, <2>5
<1> QED BY <1>7, <1>8

LEMMA WindowsWork == ASSUME RecInv PROVE WindowsReachTables
<1> SUFFICES ASSUME strayed = {}, NEW a \in UserAddresses, NEW k \in 2 .. 4,
                    NEW s, s = SubSeq(a, 1, k), TableOf(Plain(mem), s).err = "None"
             PROVE  /\ Walk(mem, WindowOf(a, k)) = {TableOf(Plain(mem), s).at}
                    /\ removed = 0 => Stale(tlb, mem, WindowOf(a, k)) = {}
  BY DEF WindowsReachTables
<1>1. PICK m, lv, T, P : m = mem /\ lv = level /\ T = tlb /\ P = Plain(mem)
  OBVIOUS
<1>2. /\ RecTree(m, lv) /\ lv \in Books /\ IsTree(P, lv) /\ P \in Memory /\ P = Plain(m)
      /\ (removed = 0 => TlbOK(P, T))
  BY <1>1, PlainSlots DEF RecInv, RecGood, RecTree
<1>3. a[1] # recursive_index /\ a \in [1 .. 4 -> Index]
  BY DEF UserAddresses, Addresses
<1>4. Len(s) = k /\ Same(s, a, k) /\ Path(a, k - 1) /\ Path(s, k - 1)
  <2>1. Len(s) = k /\ Same(s, a, k) /\ Path(a, k)
    BY <1>3, Around DEF Addresses
  <2> QED BY <2>1 DEF Same, Path
<1>5. Reach(P, s, k) /\ TableOf(P, s).at = Tab(P, s, k)
  <2>1. Len(s) \in 1 .. 4 /\ Path(s, Len(s) - 1)
    BY <1>4
  <2> QED BY <1>1, <1>2, <1>4, <2>1, EntryReached
<1>6. Reach(P, a, k) /\ Tab(P, a, k) = Tab(P, s, k)
  <2>1. Same(s, a, k - 1) /\ k \in 1 .. 4
    BY <1>4 DEF Same
  <2> QED BY <1>5, <2>1, ReachSame
<1>7. k \in 1 .. 4
  OBVIOUS
<1>8. Seen(m, a, k) = {Tab(P, a, k)}
  BY <1>2, <1>3, <1>4, <1>6, <1>7, SeenHere
<1>9. Walk(m, WindowOf(a, k)) = {Tab(P, a, k)}
  BY <1>8 DEF Seen
<1>10. removed = 0 => Stale(T, m, WindowOf(a, k)) = {}
  BY <1>2, <1>3, <1>4, <1>6, <1>8, NotStale DEF Only
<1> QED BY <1>1, <1>5, <1>6, <1>9, <1>10

(***************************************************************************)
(* The theorems.  The specification asks nothing of the caller about CR3:  *)
(* windows may be out of date, and calls may leave the tables.             *)
(***************************************************************************)
\* Until a call leaves the tables, the recursive mapper keeps its tables and what the
\* callers know of them in step; and what the processor has cached of the windows too,
\* until an entry that a window goes through is removed.
THEOREM RecInvariant == ASSUME RecContract PROVE RecSpec => []RecInv
<1>1. RecInit => RecInv
  BY RecInitInv
<1>2. RecInv /\ [RecNext]_rec_vars => RecInv'
  BY RecNextStep
<1> QED BY <1>1, <1>2, PTL DEF RecSpec

\* No call of the recursive mapper faults; and one leaves the tables only through a window
\* that is out of date, after an unmap of a huge page or a clean_up without a load of CR3,
\* or as update_flags of a page inside a mapped huge page.
THEOREM RecSafe == ASSUME RecContract PROVE RecSpec => []RecNeverFaults
<1>1. RecInv => RecNeverFaults
  BY DEF RecInv
<1> QED BY <1>1, RecInvariant, PTL

\* Until a call leaves the tables, the recursive entry stays what it was, the rest of the
\* tables is a tree in which every allocated frame is named once, and the entries of tables
\* are PRESENT and WRITABLE.
THEOREM RecTreeKept == ASSUME RecContract PROVE RecSpec => []RecTablesFormTree
<1>1. ASSUME RecInv PROVE RecTablesFormTree
  <2> SUFFICES ASSUME strayed = {}
               PROVE  /\ mem[Root][recursive_index] = RecursiveEntry
                      /\ IsTree(Plain(mem), level)
                      /\ \A f \in TableFrames, i \in Index :
                           Pointer(level[f], mem[f][i]) => {PRESENT, WRITABLE} \subseteq mem[f][i]
    BY DEF RecTablesFormTree
  <2>1. RecTree(mem, level) /\ PW(Plain(mem), level)
    BY <1>1 DEF RecInv, RecGood
  <2>2. ASSUME NEW f \in TableFrames, NEW i \in Index, Pointer(level[f], mem[f][i])
        PROVE  {PRESENT, WRITABLE} \subseteq mem[f][i]
    <3>1. CASE Ordinary(f, i)
      <4>1. Plain(mem)[f][i] = mem[f][i]
        BY <2>1, <3>1, PlainSlots DEF RecTree
      <4> QED BY <2>1, <2>2, <4>1 DEF PW
    <3>2. CASE ~Ordinary(f, i)
      BY <2>1, <3>2, RecursiveEntryIs DEF Ordinary, RecTree, Own
    <3> QED BY <3>1, <3>2
  <2> QED BY <2>1, <2>2 DEF RecTree, Own
<1> QED BY <1>1, RecInvariant, PTL

\* The processor walks the window of every table to this table, and has cached no other
\* translation of it unless an entry was removed since CR3 was last loaded.
THEOREM WindowsShowTables == ASSUME RecContract PROVE RecSpec => []WindowsReachTables
<1>1. RecInv => WindowsReachTables
  BY WindowsWork
<1> QED BY <1>1, RecInvariant, PTL

\* translate and unmap of the recursive mapper answer as the walk by pointers does on the
\* same tables, and so do translate_page and the flag updates, except for a page inside a
\* huge page: there, and nowhere else, these two leave the tables.
THEOREM SameAnswers == ASSUME RecContract PROVE RecSpec => []AnswersLikeMapped
<1>1. ASSUME RecInv, strayed = {}
      PROVE  /\ \A a \in UserAddresses : rec_translate(mem, a) = translate(Plain(mem), a)
             /\ \A p \in UserPages :
                  /\ rec_unmap_call(mem, p) = unmap_call(Plain(mem), p)
                  /\ IF TableOf(Plain(mem), p).err = "MappedToHugePage"
                     THEN /\ rec_translate_page(mem, p).err = "stray"
                          /\ rec_flag_update_error(mem, p) = "stray"
                     ELSE /\ rec_translate_page(mem, p) = translate_page(Plain(mem), p)
                          /\ rec_flag_update_error(mem, p) = flag_update_error(Plain(mem), p)
  <2>1. PICK m, lv, tl : m = mem /\ lv = level /\ tl = told
    OBVIOUS
  <2>2. RecTree(m, lv) /\ ToldOK(Plain(m), tl) /\ FramesTold(tl)
    BY <1>1, <2>1 DEF RecInv, RecGood
  <2>3. ASSUME NEW a \in UserAddresses PROVE rec_translate(m, a) = translate(Plain(m), a)
    BY <2>2, TranslateAnswers
  <2>4. ASSUME NEW p \in UserPages
        PROVE  rec_unmap_call(m, p) = unmap_call(Plain(m), p)
    BY <2>2, UnmapAnswers
  <2>5. ASSUME NEW p \in UserPages
        PROVE  IF TableOf(Plain(m), p).err = "MappedToHugePage"
               THEN rec_translate_page(m, p).err = "stray" /\ rec_flag_update_error(m, p) = "stray"
               ELSE /\ rec_translate_page(m, p) = translate_page(Plain(m), p)
                    /\ rec_flag_update_error(m, p) = flag_update_error(Plain(m), p)
    BY <2>2, LaxAnswers
  <2> QED BY <2>1, <2>3, <2>4, <2>5
<1>2. RecInv => AnswersLikeMapped
  BY <1>1 DEF AnswersLikeMapped
<1> QED BY <1>2, RecInvariant, PTL

\* The recursive mapper keeps the promise of the abstract address space: no call that stays
\* within the tables changes more than the one mapping it is about.
THEOREM RecSpaceImplemented == ASSUME RecContract PROVE RecSpec => RecImplementsAddressSpace
<1>1. RecInit => RecAS!Init
  BY RecInitInv DEF RecAS!Init
<1>2. RecInv /\ [RecNext]_rec_vars =>
        [strayed' = {} => RecAS!Next \/ SpaceOf(Plain(mem))' = SpaceOf(Plain(mem))]_rec_vars
  <2> SUFFICES ASSUME RecInv, [RecNext]_rec_vars, strayed' = {}
               PROVE  RecAS!Next \/ SpaceOf(Plain(mem))' = SpaceOf(Plain(mem))
    OBVIOUS
  <2>1. RecSpaceStep
    BY RecNextStep
  <2>2. PICK A, B : A = SpaceOf(Plain(mem)) /\ B = SpaceOf(Plain(mem'))
    OBVIOUS
  <2>3. SpaceStep(A, B)
    BY <2>1, <2>2 DEF RecSpaceStep
  <2>4. Added(A, B) => RecAS!Map
    <3>1. /\ RecAS!Mapping = AS!Mapping
          /\ \A p, q : RecAS!Overlap(p, q) <=> AS!Overlap(p, q)
      BY DEF RecAS!Mapping, AS!Mapping, RecAS!Overlap, AS!Overlap
    <3> QED BY <2>2, <3>1 DEF Added, RecAS!Map
  <2>5. Removed(A, B) => RecAS!Unmap
    BY <2>2 DEF Removed, RecAS!Unmap
  <2>6. Reflagged(A, B) => RecAS!SetFlags
    BY <2>2 DEF Reflagged, RecAS!SetFlags
  <2>7. B = A => SpaceOf(Plain(mem))' = SpaceOf(Plain(mem))
    BY <2>2
  <2> QED BY <2>3, <2>4, <2>5, <2>6, <2>7 DEF SpaceStep, RecAS!Next
<1> QED BY <1>1, <1>2, RecInvariant, PTL DEF RecSpec, RecImplementsAddressSpace
=============================================================================
