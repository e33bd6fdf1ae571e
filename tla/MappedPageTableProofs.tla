----------------------- MODULE MappedPageTableProofs -----------------------
(***************************************************************************)
(* Proofs about MappedPageTable, whatever the callers do within            *)
(* CallerContract, for every number of entries, frames and pages.          *)
(*                                                                         *)
(* First: the tables form a tree.  The lemmas say which writes to one      *)
(* entry keep IsTree, then that each operation makes only such writes.     *)
(*                                                                         *)
(* Second: what the callers are told is what the tables hold.  A mapping   *)
(* is a leaf: an entry in use that names no table, at the end of a walk    *)
(* from Root.  The walk to each depth is given in a form without errors;   *)
(* then what each kind of write does to the leaves; then how the leaves    *)
(* relate to the history told.                                             *)
(***************************************************************************)
EXTENDS MappedPageTable, TLAPS

(***************************************************************************)
(* Entries.                                                                *)
(***************************************************************************)
\* set_addr then addr gives the frame back if the flags have no address bit.
LEMMA AddrOfSetAddr ==
  ASSUME NEW a \in SUBSET AddrBits, NEW f \in SUBSET FlagBits, f \cap AddrBits = {}
  PROVE  /\ set_addr(a, f) \in Entry
         /\ addr(set_addr(a, f)) = a
         /\ \A b \in FlagBits \ AddrBits : b \in set_addr(a, f) <=> b \in f
<1>1. set_addr(a, f) \in Entry
  BY DEF set_addr, Entry
<1>2. addr(set_addr(a, f)) = a
  BY DEF set_addr, addr
<1>3. \A b \in FlagBits \ AddrBits : b \in set_addr(a, f) <=> b \in f
  BY DEF set_addr
<1> QED BY <1>1, <1>2, <1>3

\* set_flags keeps the address of the entry and replaces the other bits.
LEMMA AddrOfSetFlags ==
  ASSUME NEW e \in Entry, NEW f \in SUBSET FlagBits, f \cap AddrBits \subseteq e
  PROVE  /\ set_flags(e, f) \in Entry
         /\ addr(set_flags(e, f)) = addr(e)
         /\ \A b \in FlagBits \ AddrBits : b \in set_flags(e, f) <=> b \in f
<1>1. set_flags(e, f) \in Entry
  BY DEF set_flags, addr, Entry
<1>2. addr(set_flags(e, f)) = addr(e)
  BY DEF set_flags, addr
<1>3. \A b \in FlagBits \ AddrBits : b \in set_flags(e, f) <=> b \in f
  BY DEF set_flags, addr
<1> QED BY <1>1, <1>2, <1>3

Memory == [TableFrames -> Table]
Books == [TableFrames -> Levels]

\* Writing an entry that names no table over one that names none.
LEMMA TreeKeptByLeaf ==
  ASSUME NEW m \in Memory, NEW lv \in Books, IsTree(m, lv),
         NEW t \in TableFrames, NEW i \in Index, NEW e \in Entry,
         ~Pointer(lv[t], m[t][i]), ~Pointer(lv[t], e),
         lv[t] = 4 => HUGE_PAGE \notin e
  PROVE  /\ [m EXCEPT ![t][i] = e] \in Memory
         /\ IsTree([m EXCEPT ![t][i] = e], lv)
<1> DEFINE n == [m EXCEPT ![t][i] = e]
<1>1. n \in Memory
  BY DEF Memory, Table
<1>2. \A f \in TableFrames, j \in Index :
        n[f][j] = IF f = t /\ j = i THEN e ELSE m[f][j]
  BY DEF Memory, Table
<1>3. \A f \in TableFrames, j \in Index :
        Pointer(lv[f], n[f][j]) => n[f][j] = m[f][j] /\ Pointer(lv[f], m[f][j])
  BY <1>2
<1>4. \A f \in TableFrames, j \in Index :
        Pointer(lv[f], m[f][j]) => n[f][j] = m[f][j] /\ Pointer(lv[f], n[f][j])
  BY <1>2
<1> HIDE DEF n
<1>5. RootIsTop(n, lv)
  BY <1>2, FramesAssumption DEF IsTree, RootIsTop
<1>6. PointersDown(n, lv)
  BY <1>3 DEF IsTree, PointersDown
<1>7. NamedOnce(n, lv)
  BY <1>3 DEF IsTree, NamedOnce
<1>8. NoneLost(n, lv)
  BY <1>4, Zenon DEF IsTree, NoneLost
<1> QED BY <1>1, <1>5, <1>6, <1>7, <1>8 DEF n, IsTree

\* Replacing the flags of an entry that names a table, PRESENT and HUGE_PAGE
\* as they must be.
LEMMA TreeKeptByFlags ==
  ASSUME NEW m \in Memory, NEW lv \in Books, IsTree(m, lv),
         NEW t \in TableFrames, NEW i \in Index, NEW e \in Entry,
         Pointer(lv[t], m[t][i]), Pointer(lv[t], e),
         addr(e) = addr(m[t][i]), PRESENT \in e
  PROVE  /\ [m EXCEPT ![t][i] = e] \in Memory
         /\ IsTree([m EXCEPT ![t][i] = e], lv)
<1> DEFINE n == [m EXCEPT ![t][i] = e]
<1>1. n \in Memory
  BY DEF Memory, Table
<1>2. \A f \in TableFrames, j \in Index :
        n[f][j] = IF f = t /\ j = i THEN e ELSE m[f][j]
  BY DEF Memory, Table
<1>3. \A f \in TableFrames, j \in Index :
        /\ Pointer(lv[f], n[f][j]) <=> Pointer(lv[f], m[f][j])
        /\ addr(n[f][j]) = addr(m[f][j])
        /\ PRESENT \in m[f][j] => PRESENT \in n[f][j]
  BY <1>2
<1>4. \A j \in Index : HUGE_PAGE \notin n[Root][j]
  BY <1>2, FramesAssumption DEF IsTree, RootIsTop, Pointer
<1> HIDE DEF n
<1>5. RootIsTop(n, lv)
  BY <1>4 DEF IsTree, RootIsTop
<1>6. PointersDown(n, lv)
  BY <1>3 DEF IsTree, PointersDown
<1>7. NamedOnce(n, lv)
  BY <1>3 DEF IsTree, NamedOnce
<1>8. NoneLost(n, lv)
  <2> SUFFICES ASSUME NEW h \in TableFrames, lv[h] \in 1 .. 3
               PROVE  \E g \in TableFrames, j \in Index :
                        Pointer(lv[g], n[g][j]) /\ addr(n[g][j]) = h
    BY DEF NoneLost
  <2>1. PICK g \in TableFrames, j \in Index : Pointer(lv[g], m[g][j]) /\ addr(m[g][j]) = h
    BY DEF IsTree, NoneLost
  <2> QED BY <2>1, <1>3
<1> QED BY <1>1, <1>5, <1>6, <1>7, <1>8 DEF n, IsTree

\* Hanging a zeroed free frame below an unused entry.
LEMMA TreeKeptByNewTable ==
  ASSUME NEW m \in Memory, NEW lv \in Books, IsTree(m, lv),
         NEW t \in TableFrames, lv[t] \in 2 .. 4, NEW i \in Index, m[t][i] = {},
         NEW f \in TableFrames, lv[f] = 0,
         NEW e \in Entry, addr(e) = f, PRESENT \in e, HUGE_PAGE \notin e
  PROVE  LET n  == [[m EXCEPT ![t][i] = e] EXCEPT ![f] = ZeroTable]
             nl == [lv EXCEPT ![f] = lv[t] - 1]
         IN  n \in Memory /\ nl \in Books /\ IsTree(n, nl)
<1> DEFINE n  == [[m EXCEPT ![t][i] = e] EXCEPT ![f] = ZeroTable]
           nl == [lv EXCEPT ![f] = lv[t] - 1]
<1>1. n \in Memory /\ nl \in Books
  <2>1. ZeroTable \in Table
    BY DEF Table, ZeroTable, Entry
  <2>2. [m EXCEPT ![t][i] = e] \in Memory
    BY DEF Memory, Table
  <2>3. n \in Memory
    BY <2>1, <2>2 DEF Memory
  <2>4. nl \in Books
    BY DEF Books, Levels
  <2> QED BY <2>3, <2>4
<1>2. \A g \in TableFrames, j \in Index :
        n[g][j] = IF g = f THEN {} ELSE IF g = t /\ j = i THEN e ELSE m[g][j]
  BY DEF Memory, Table, ZeroTable
<1>3. \A g \in TableFrames : nl[g] = IF g = f THEN lv[t] - 1 ELSE lv[g]
  BY DEF Books
<1> HIDE DEF n, nl
<1>4. f # t /\ f # Root /\ e # {}
  BY FramesAssumption DEF IsTree, RootIsTop
<1>5. Pointer(nl[t], n[t][i]) /\ addr(n[t][i]) = f /\ nl[t] = lv[t]
  BY <1>2, <1>3, <1>4 DEF Pointer
\* The other pointers are those there were, and none of them names f.
<1>6. \A g \in TableFrames, j \in Index :
        Pointer(nl[g], n[g][j]) /\ ~(g = t /\ j = i) =>
          /\ n[g][j] = m[g][j] /\ nl[g] = lv[g] /\ Pointer(lv[g], m[g][j])
  BY <1>2, <1>3 DEF Pointer
<1>7. \A g \in TableFrames, j \in Index :
        Pointer(lv[g], m[g][j]) =>
          /\ n[g][j] = m[g][j] /\ nl[g] = lv[g] /\ Pointer(nl[g], n[g][j])
          /\ ~(g = t /\ j = i)
  BY <1>2, <1>3 DEF Pointer
<1>8. \A g \in TableFrames, j \in Index : Pointer(lv[g], m[g][j]) => addr(m[g][j]) # f
  BY DEF IsTree, PointersDown, Pointer, Books, Levels
<1>9. RootIsTop(n, nl)
  BY <1>2, <1>3, <1>4, FramesAssumption DEF IsTree, RootIsTop
<1>10. PointersDown(n, nl)
  <2> SUFFICES ASSUME NEW g \in TableFrames, NEW j \in Index, Pointer(nl[g], n[g][j])
               PROVE  /\ PRESENT \in n[g][j]
                      /\ addr(n[g][j]) \in TableFrames
                      /\ nl[addr(n[g][j])] = nl[g] - 1
    BY DEF PointersDown
  <2>1. CASE g = t /\ j = i
    BY <2>1, <1>2, <1>3, <1>4, <1>5
  <2>2. CASE ~(g = t /\ j = i)
    BY <2>2, <1>3, <1>6, <1>8 DEF IsTree, PointersDown
  <2> QED BY <2>1, <2>2
<1>11. NamedOnce(n, nl)
  BY <1>5, <1>6, <1>8 DEF IsTree, NamedOnce
<1>12. NoneLost(n, nl)
  <2> SUFFICES ASSUME NEW h \in TableFrames, nl[h] \in 1 .. 3
               PROVE  \E g \in TableFrames, j \in Index :
                        Pointer(nl[g], n[g][j]) /\ addr(n[g][j]) = h
    BY DEF NoneLost
  <2>1. CASE h = f
    BY <2>1, <1>5
  <2>2. CASE h # f
    BY <2>2, <1>3, <1>7 DEF IsTree, NoneLost
  <2> QED BY <2>1, <2>2
<1> QED BY <1>1, <1>9, <1>10, <1>11, <1>12 DEF n, nl, IsTree

(***************************************************************************)
(* clean_up_addr_range.  Removable(m, lv, S): the slots of S name tables   *)
(* that are unused once S is cleared.                                      *)
(***************************************************************************)
Removable(m, lv, S) ==
  /\ S \subseteq TableFrames \X Index
  /\ \A f \in TableFrames, i \in Index : <<f, i>> \in S =>
       /\ Pointer(lv[f], m[f][i])
       /\ \A j \in Index : m[addr(m[f][i])][j] = {} \/ <<addr(m[f][i]), j>> \in S

\* Clearing a removable set of slots and freeing the tables they name.
LEMMA TreeKeptByCleanUp ==
  ASSUME NEW m \in Memory, NEW lv \in Books, IsTree(m, lv),
         NEW S, Removable(m, lv, S)
  PROVE  LET freed == {addr(m[s[1]][s[2]]) : s \in S}
             n  == [f \in TableFrames |->
                      IF f \in freed THEN GarbageTable
                      ELSE [i \in Index |-> IF <<f, i>> \in S THEN {} ELSE m[f][i]]]
             nl == [f \in TableFrames |-> IF f \in freed THEN 0 ELSE lv[f]]
         IN  n \in Memory /\ nl \in Books /\ IsTree(n, nl)
<1> DEFINE freed == {addr(m[s[1]][s[2]]) : s \in S}
           n  == [f \in TableFrames |->
                    IF f \in freed THEN GarbageTable
                    ELSE [i \in Index |-> IF <<f, i>> \in S THEN {} ELSE m[f][i]]]
           nl == [f \in TableFrames |-> IF f \in freed THEN 0 ELSE lv[f]]
<1>1. \A h : h \in freed <=> \E f \in TableFrames, i \in Index :
                               <<f, i>> \in S /\ addr(m[f][i]) = h
  <2>1. ASSUME NEW h \in freed
        PROVE  \E f \in TableFrames, i \in Index : <<f, i>> \in S /\ addr(m[f][i]) = h
    <3>1. PICK s \in S : h = addr(m[s[1]][s[2]])
      OBVIOUS
    <3>2. s[1] \in TableFrames /\ s[2] \in Index /\ s = <<s[1], s[2]>>
      BY DEF Removable
    <3> QED BY <3>1, <3>2, Zenon
  <2>2. ASSUME NEW f \in TableFrames, NEW i \in Index, <<f, i>> \in S
        PROVE  addr(m[f][i]) \in freed
    <3>1. <<f, i>>[1] = f /\ <<f, i>>[2] = i
      OBVIOUS
    <3> QED BY <2>2, <3>1, Zenon
  <2> QED BY <2>1, <2>2, Zenon
<1> HIDE DEF freed
<1>2. n \in Memory
  <2>1. GarbageTable \in Table
    BY MapperAssumption DEF GarbageTable, Table
  <2>2. \A f \in TableFrames :
          [i \in Index |-> IF <<f, i>> \in S THEN {} ELSE m[f][i]] \in Table
    BY DEF Memory, Table, Entry
  <2> QED BY <2>1, <2>2 DEF Memory
<1>3. nl \in Books
  BY DEF Books, Levels
<1>4. \A g \in TableFrames : nl[g] = IF g \in freed THEN 0 ELSE lv[g]
  OBVIOUS
<1>5. \A g \in TableFrames, j \in Index :
        g \notin freed => n[g][j] = IF <<g, j>> \in S THEN {} ELSE m[g][j]
  OBVIOUS
<1> HIDE DEF n, nl
<1>6. \A h \in freed : h \in TableFrames /\ lv[h] \in 1 .. 3 /\ h # Root
  <2> SUFFICES ASSUME NEW h \in freed
               PROVE  h \in TableFrames /\ lv[h] \in 1 .. 3 /\ h # Root
    OBVIOUS
  <2>1. PICK f \in TableFrames, i \in Index : <<f, i>> \in S /\ addr(m[f][i]) = h
    BY <1>1
  <2>2. Pointer(lv[f], m[f][i])
    BY <2>1 DEF Removable
  <2>3. h \in TableFrames /\ lv[h] = lv[f] - 1 /\ lv[f] \in 2 .. 4
    BY <2>1, <2>2 DEF IsTree, PointersDown, Pointer
  <2> QED BY <2>3 DEF IsTree, RootIsTop
\* A pointer that is left was there before, and its table is not freed.
<1>7. \A g \in TableFrames, j \in Index : Pointer(nl[g], n[g][j]) =>
        /\ g \notin freed /\ <<g, j>> \notin S
        /\ nl[g] = lv[g] /\ n[g][j] = m[g][j] /\ Pointer(lv[g], m[g][j])
  BY <1>4, <1>5 DEF Pointer
<1>8. \A g \in TableFrames, j \in Index :
        Pointer(nl[g], n[g][j]) => addr(m[g][j]) \notin freed
  <2> SUFFICES ASSUME NEW g \in TableFrames, NEW j \in Index, Pointer(nl[g], n[g][j]),
                      addr(m[g][j]) \in freed
               PROVE  FALSE
    OBVIOUS
  <2>1. PICK f \in TableFrames, i \in Index : <<f, i>> \in S /\ addr(m[f][i]) = addr(m[g][j])
    BY <1>1
  <2>2. Pointer(lv[f], m[f][i]) /\ Pointer(lv[g], m[g][j])
    BY <2>1, <1>7 DEF Removable
  <2>3. f = g /\ i = j
    BY <2>1, <2>2 DEF IsTree, NamedOnce
  <2> QED BY <2>1, <2>3, <1>7
<1>9. RootIsTop(n, nl)
  <2>1. Root \in TableFrames /\ Root \notin freed
    BY <1>6, FramesAssumption
  <2>2. \A f \in TableFrames : nl[f] = 4 <=> f = Root
    BY <2>1, <1>4 DEF IsTree, RootIsTop
  <2>3. \A i \in Index : HUGE_PAGE \notin n[Root][i]
    BY <2>1, <1>5 DEF IsTree, RootIsTop
  <2> QED BY <2>2, <2>3 DEF RootIsTop
<1>10. PointersDown(n, nl)
  BY <1>4, <1>7, <1>8 DEF IsTree, PointersDown
<1>11. NamedOnce(n, nl)
  <2> SUFFICES ASSUME NEW g \in TableFrames, NEW h \in TableFrames,
                      NEW i \in Index, NEW j \in Index,
                      Pointer(nl[g], n[g][i]), Pointer(nl[h], n[h][j]),
                      addr(n[g][i]) = addr(n[h][j])
               PROVE  g = h /\ i = j
    BY DEF NamedOnce
  <2>1. Pointer(lv[g], m[g][i]) /\ n[g][i] = m[g][i]
    BY <1>7
  <2>2. Pointer(lv[h], m[h][j]) /\ n[h][j] = m[h][j]
    BY <1>7
  <2>3. addr(m[g][i]) = addr(m[h][j])
    BY <2>1, <2>2
  <2> QED BY <2>1, <2>2, <2>3 DEF IsTree, NamedOnce
<1>12. NoneLost(n, nl)
  <2> SUFFICES ASSUME NEW h \in TableFrames, nl[h] \in 1 .. 3
               PROVE  \E g \in TableFrames, j \in Index :
                        Pointer(nl[g], n[g][j]) /\ addr(n[g][j]) = h
    BY DEF NoneLost
  <2>1. h \notin freed /\ lv[h] \in 1 .. 3
    BY <1>4
  <2>2. PICK g \in TableFrames, j \in Index : Pointer(lv[g], m[g][j]) /\ addr(m[g][j]) = h
    BY <2>1 DEF IsTree, NoneLost
  <2>3. <<g, j>> \notin S
    BY <2>1, <2>2, <1>1
  \* Had the table that names h been freed, the slot of h would be in S.
  <2>4. g \notin freed
    BY <2>2, <2>3, <1>1 DEF Removable, Pointer
  <2> QED BY <2>2, <2>3, <2>4, <1>4, <1>5
<1> QED BY <1>2, <1>3, <1>9, <1>10, <1>11, <1>12 DEF n, nl, freed, IsTree

\* The visit of table t: tables are the entries it follows, below[i] the slots
\* cleared under entry i, gone the entries whose table is unused by then.
VisitClears(t, tables, below, gone) ==
  (UNION {below[i] : i \in tables}) \cup {<<t, i>> : i \in gone}
VisitOK(m, lv, t, tables, below, gone) ==
  /\ t \in TableFrames /\ tables \in SUBSET Index /\ gone \in SUBSET tables
  /\ \A i \in tables : Pointer(lv[t], m[t][i]) /\ Removable(m, lv, below[i])
  /\ \A i \in gone : \A j \in Index :
       m[addr(m[t][i])][j] = {} \/ <<addr(m[t][i]), j>> \in below[i]

\* The slots a visit clears are removable, if those cleared below are.
LEMMA VisitRemovable ==
  ASSUME NEW m, NEW lv, NEW t, NEW tables, NEW below, NEW gone,
         VisitOK(m, lv, t, tables, below, gone)
  PROVE  Removable(m, lv, VisitClears(t, tables, below, gone))
<1> USE DEF VisitOK
<1> DEFINE S == VisitClears(t, tables, below, gone)
<1>0. \A s : s \in S <=> \/ \E i \in tables : s \in below[i]
                         \/ \E i \in gone : s = <<t, i>>
  <2> DEFINE U == UNION {below[i] : i \in tables}
             V == {<<t, i>> : i \in gone}
  <2>1. \A s : s \in U <=> \E i \in tables : s \in below[i]
    BY Zenon
  <2>2. \A s : s \in V <=> \E i \in gone : s = <<t, i>>
    BY Zenon
  <2>3. S = U \cup V
    BY DEF VisitClears
  <2> HIDE DEF U, V
  <2> QED BY <2>1, <2>2, <2>3
<1> HIDE DEF S
<1>1. S \subseteq TableFrames \X Index
  BY <1>0 DEF Removable
<1>2. ASSUME NEW f \in TableFrames, NEW i \in Index, <<f, i>> \in S
      PROVE  /\ Pointer(lv[f], m[f][i])
             /\ \A j \in Index : m[addr(m[f][i])][j] = {} \/ <<addr(m[f][i]), j>> \in S
  <2>1. CASE \E k \in tables : <<f, i>> \in below[k]
    BY <2>1, <1>0 DEF Removable
  <2>2. CASE \E k \in gone : <<f, i>> = <<t, k>>
    <3>1. f = t /\ i \in gone
      BY <2>2
    <3> QED BY <3>1, <1>0
  <2> QED BY <2>1, <2>2, <1>0, <1>2
<1>3. Removable(m, lv, S)
  BY <1>1, <1>2 DEF Removable
<1> QED BY <1>3 DEF S

\* What next_table finds in an entry of a tree's table above level 1.
LEMMA NextTableIsPointer ==
  ASSUME NEW m \in Memory, NEW lv \in Books, IsTree(m, lv),
         NEW t \in TableFrames, lv[t] \in 2 .. 4, NEW i \in Index
  PROVE  /\ next_table(m[t][i]).err = "None" <=> Pointer(lv[t], m[t][i])
         /\ next_table(m[t][i]).err = "MappedToHugePage" <=> HUGE_PAGE \in m[t][i]
         /\ next_table(m[t][i]).at = addr(m[t][i])
         /\ next_table(m[t][i]).err = "None" =>
              /\ next_table(m[t][i]).at \in TableFrames
              /\ lv[next_table(m[t][i]).at] = lv[t] - 1
<1>1. m[t][i] \in Entry
  BY DEF Memory, Table
<1>2. PRESENT \in FlagBits /\ HUGE_PAGE \in FlagBits
  BY BitsAssumption
<1>3. Pointer(lv[t], m[t][i]) => PRESENT \in m[t][i]
  BY DEF IsTree, PointersDown
<1>4. /\ next_table(m[t][i]).err = "None" <=> HUGE_PAGE \notin m[t][i] /\ PRESENT \in m[t][i]
      /\ next_table(m[t][i]).err = "MappedToHugePage" <=> HUGE_PAGE \in m[t][i]
      /\ next_table(m[t][i]).at = addr(m[t][i])
  BY <1>2 DEF next_table, flags
<1>5. next_table(m[t][i]).err = "None" <=> Pointer(lv[t], m[t][i])
  BY <1>3, <1>4 DEF Pointer
<1> QED BY <1>4, <1>5 DEF IsTree, PointersDown

\* The visits clean_up_addr_range makes, from the level 2 tables up to Root.
LEMMA CleanUpIsRemovable ==
  ASSUME NEW m \in Memory, NEW lv \in Books, IsTree(m, lv), NEW r
  PROVE  Removable(m, lv, CleanP4(m, r))
<1>0. Removable(m, lv, {})
  BY DEF Removable
<1>1. \A t \in TableFrames : \A q : Removable(m, lv, CleanP1(m, t, q))
  BY <1>0 DEF CleanP1
<1>2. \A t \in TableFrames : \A q :
        lv[t] = 2 => Removable(m, lv, CleanP2(m, t, q))
  <2> SUFFICES ASSUME NEW t \in TableFrames, NEW q, lv[t] = 2
               PROVE  Removable(m, lv, CleanP2(m, t, q))
    OBVIOUS
  <2> DEFINE tables == {i \in Visited(q, 2) : next_table(m[t][i]).err = "None"}
             next(i) == next_table(m[t][i]).at
             below == [i \in tables |-> CleanP1(m, next(i), SubRange(q, 2, i))]
             gone == {i \in tables :
                       AllUnused(m, next(i), 2 - 1, SubRange(q, 2, i), below[i])}
  <2>1. tables \in SUBSET Index /\ gone \in SUBSET tables
    BY DEF Visited
  <2>2. \A i \in tables : /\ Pointer(lv[t], m[t][i]) /\ next(i) = addr(m[t][i])
                          /\ next(i) \in TableFrames /\ lv[next(i)] = 1
    BY <2>1, NextTableIsPointer
  <2>3. \A i \in tables : Removable(m, lv, below[i])
    BY <2>2, <1>1
  <2>4. \A i \in gone : \A j \in Index :
          m[addr(m[t][i])][j] = {} \/ <<addr(m[t][i]), j>> \in below[i]
    BY <2>2 DEF AllUnused, is_unused
  <2>5. CleanP2(m, t, q) = IF q.start > q.end THEN {}
                ELSE VisitClears(t, tables, below, gone)
    BY DEF CleanP2, VisitTable, VisitClears
  <2> HIDE DEF tables, next, below, gone
  <2>6. Removable(m, lv, VisitClears(t, tables, below, gone))
    BY <2>1, <2>2, <2>3, <2>4, VisitRemovable DEF VisitOK
  <2> QED BY <2>5, <2>6, <1>0
<1>3. \A t \in TableFrames : \A q :
        lv[t] = 3 => Removable(m, lv, CleanP3(m, t, q))
  <2> SUFFICES ASSUME NEW t \in TableFrames, NEW q, lv[t] = 3
               PROVE  Removable(m, lv, CleanP3(m, t, q))
    OBVIOUS
  <2> DEFINE tables == {i \in Visited(q, 3) : next_table(m[t][i]).err = "None"}
             next(i) == next_table(m[t][i]).at
             below == [i \in tables |-> CleanP2(m, next(i), SubRange(q, 3, i))]
             gone == {i \in tables :
                       AllUnused(m, next(i), 3 - 1, SubRange(q, 3, i), below[i])}
  <2>1. tables \in SUBSET Index /\ gone \in SUBSET tables
    BY DEF Visited
  <2>2. \A i \in tables : /\ Pointer(lv[t], m[t][i]) /\ next(i) = addr(m[t][i])
                          /\ next(i) \in TableFrames /\ lv[next(i)] = 2
    BY <2>1, NextTableIsPointer
  <2>3. \A i \in tables : Removable(m, lv, below[i])
    BY <2>2, <1>2
  <2>4. \A i \in gone : \A j \in Index :
          m[addr(m[t][i])][j] = {} \/ <<addr(m[t][i]), j>> \in below[i]
    BY <2>2 DEF AllUnused, is_unused
  <2>5. CleanP3(m, t, q) = IF q.start > q.end THEN {}
                ELSE VisitClears(t, tables, below, gone)
    BY DEF CleanP3, VisitTable, VisitClears
  <2> HIDE DEF tables, next, below, gone
  <2>6. Removable(m, lv, VisitClears(t, tables, below, gone))
    BY <2>1, <2>2, <2>3, <2>4, VisitRemovable DEF VisitOK
  <2> QED BY <2>5, <2>6, <1>0
<1>4. \A q : Removable(m, lv, CleanP4(m, q))
  <2> SUFFICES ASSUME NEW q PROVE Removable(m, lv, CleanP4(m, q))
    OBVIOUS
  <2> DEFINE t == Root
  <2>0. t \in TableFrames /\ lv[t] = 4
    BY FramesAssumption DEF IsTree, RootIsTop
  <2> DEFINE tables == {i \in Visited(q, 4) : next_table(m[t][i]).err = "None"}
             next(i) == next_table(m[t][i]).at
             below == [i \in tables |-> CleanP3(m, next(i), SubRange(q, 4, i))]
             gone == {i \in tables :
                       AllUnused(m, next(i), 4 - 1, SubRange(q, 4, i), below[i])}
  <2>1. tables \in SUBSET Index /\ gone \in SUBSET tables
    BY DEF Visited
  <2>2. \A i \in tables : /\ Pointer(lv[t], m[t][i]) /\ next(i) = addr(m[t][i])
                          /\ next(i) \in TableFrames /\ lv[next(i)] = 3
    BY <2>0, <2>1, NextTableIsPointer
  <2>3. \A i \in tables : Removable(m, lv, below[i])
    BY <2>2, <1>3
  <2>4. \A i \in gone : \A j \in Index :
          m[addr(m[t][i])][j] = {} \/ <<addr(m[t][i]), j>> \in below[i]
    BY <2>2 DEF AllUnused, is_unused
  <2>5. CleanP4(m, q) = IF q.start > q.end THEN {}
                ELSE VisitClears(t, tables, below, gone)
    BY DEF CleanP4, VisitTable, VisitClears
  <2> HIDE DEF t, tables, next, below, gone
  <2>6. Removable(m, lv, VisitClears(t, tables, below, gone))
    BY <2>0, <2>1, <2>2, <2>3, <2>4, VisitRemovable DEF VisitOK
  <2> QED BY <2>5, <2>6, <1>0
<1> QED BY <1>4

(***************************************************************************)
(* map_to_with_table_flags.  A call in progress never panics, keeps the    *)
(* tree and, while it has met no error, stands at a table of level n.      *)
(***************************************************************************)
Errors == {"None", "FrameAllocationFailed", "ParentEntryHugePage", "PageAlreadyMapped"}
Call == [mem : Memory, level : Books, at : SUBSET AddrBits, err : Errors]
CallOK(c, n) ==
  /\ c \in Call
  /\ IsTree(c.mem, c.level)
  /\ c.err = "None" => c.at \in TableFrames /\ c.level[c.at] = n

\* The parent flags CallerContract allows.
ParentOK(f) ==
  f \in SUBSET FlagBits /\ f \cap AddrBits = {} /\ PRESENT \in f /\ HUGE_PAGE \notin f

\* Every outcome of create_next_table is a well-formed call in progress: the
\* tables still form a tree, and without an error it stands one level lower.
LEMMA CreateNextTableOK ==
  ASSUME NEW c, NEW n \in 2 .. 4, CallOK(c, n), NEW i \in Index,
         NEW pf, ParentOK(pf), NEW d \in create_next_table(c, i, pf)
  PROVE  CallOK(d, n - 1)
<1> DEFINE e == c.mem[c.at][i]
           free == {f \in TableFrames : c.level[f] = 0}
           new(f) == Follow([c.mem EXCEPT ![c.at][i] = set_addr(f, pf)],
                            [c.level EXCEPT ![f] = c.level[c.at] - 1],
                            set_addr(f, pf), TRUE)
           w == InsertFlags(e, pf)
           old == Follow([c.mem EXCEPT ![c.at][i] = w], c.level, w, FALSE)
<1>0. /\ c \in Call /\ c.mem \in Memory /\ c.level \in Books
      /\ IsTree(c.mem, c.level)
      /\ pf \in SUBSET FlagBits /\ pf \cap AddrBits = {}
      /\ PRESENT \in pf /\ HUGE_PAGE \notin pf
  BY DEF CallOK, Call, ParentOK
<1>1. \/ c.err # "None" /\ d = c
      \/ c.err = "None" /\ e = {} /\ d = [c EXCEPT !.err = "FrameAllocationFailed"]
      \/ c.err = "None" /\ e = {} /\ \E f \in free : d = new(f)
      \/ c.err = "None" /\ e # {} /\ d = old
  BY DEF create_next_table, is_unused
<1>2. CASE c.err # "None" /\ d = c
  BY <1>2 DEF CallOK
<1>3. CASE d = [c EXCEPT !.err = "FrameAllocationFailed"]
  BY <1>0, <1>3 DEF CallOK, Call, Errors
<1>4. CASE c.err = "None" /\ e = {} /\ \E f \in free : d = new(f)
  <2>1. PICK f \in TableFrames : c.level[f] = 0 /\ d = new(f)
    BY <1>4
  <2> DEFINE x == set_addr(f, pf)
             m2 == [[c.mem EXCEPT ![c.at][i] = x] EXCEPT ![f] = ZeroTable]
             l2 == [c.level EXCEPT ![f] = c.level[c.at] - 1]
  <2>2. f \in SUBSET AddrBits
    BY FramesAssumption
  <2>3. x \in Entry /\ addr(x) = f /\ PRESENT \in x /\ HUGE_PAGE \notin x
    BY <1>0, <2>2, AddrOfSetAddr, BitsAssumption
  <2>4. c.at \in TableFrames /\ c.level[c.at] = n /\ c.mem[c.at][i] = {}
    BY <1>4 DEF CallOK
  <2>5. m2 \in Memory /\ l2 \in Books /\ IsTree(m2, l2)
    BY <1>0, <2>1, <2>3, <2>4, TreeKeptByNewTable
  <2>6. next_table(x) = [err |-> "None", at |-> f]
    BY <2>3, BitsAssumption DEF next_table, flags
  <2>7. d = [mem |-> m2, level |-> l2, at |-> f, err |-> "None"]
    BY <2>1, <2>6 DEF Follow
  <2>8. l2[f] = n - 1
    BY <1>0, <2>4 DEF Books
  <2> HIDE DEF m2, l2
  <2> QED BY <2>2, <2>5, <2>7, <2>8 DEF CallOK, Call, Errors
<1>5. CASE c.err = "None" /\ e # {} /\ d = old
  <2>1. c.at \in TableFrames /\ c.level[c.at] = n /\ e \in Entry
    BY <1>0, <1>5 DEF CallOK, Memory, Table
  <2>2. /\ w \in Entry /\ addr(w) = addr(e)
        /\ HUGE_PAGE \in w <=> HUGE_PAGE \in e
        /\ PRESENT \in w /\ w # {}
    <3>1. CASE pf \subseteq flags(e)
      <4>1. w = e
        BY <3>1 DEF InsertFlags
      <4> QED BY <4>1, <3>1, <1>0, <2>1 DEF flags
    <3>2. CASE ~(pf \subseteq flags(e))
      <4>1. w = set_flags(e, flags(e) \cup pf)
        BY <3>2, <1>0 DEF InsertFlags
      <4>2. flags(e) \cup pf \in SUBSET FlagBits
        BY <1>0 DEF flags
      <4>3. (flags(e) \cup pf) \cap AddrBits \subseteq e
        BY <1>0 DEF flags
      <4>4. HUGE_PAGE \in flags(e) \cup pf <=> HUGE_PAGE \in e
        BY <1>0, BitsAssumption DEF flags
      <4>5. PRESENT \in flags(e) \cup pf
        BY <1>0
      <4>6. {PRESENT, HUGE_PAGE} \subseteq FlagBits \ AddrBits
        BY BitsAssumption
      <4> HIDE DEF e, w
      <4> QED BY <4>1, <4>2, <4>3, <4>4, <4>5, <4>6, <2>1, AddrOfSetFlags
    <3> QED BY <3>1, <3>2
  <2> DEFINE m2 == [c.mem EXCEPT ![c.at][i] = w]
  <2>3. m2 \in Memory /\ IsTree(m2, c.level)
    <3>1. CASE Pointer(n, e)
      BY <3>1, <1>0, <2>1, <2>2, TreeKeptByFlags DEF Pointer
    <3>2. CASE ~Pointer(n, e)
      <4>1. HUGE_PAGE \in e /\ ~Pointer(n, w)
        BY <3>2, <2>2, <1>5 DEF Pointer
      <4>2. n # 4
        BY <4>1, <1>0, <2>1 DEF IsTree, RootIsTop
      <4> QED BY <3>2, <4>1, <4>2, <1>0, <2>1, <2>2, TreeKeptByLeaf
    <3> QED BY <3>1, <3>2
  <2>4. next_table(w) = [err |-> IF HUGE_PAGE \in w THEN "MappedToHugePage" ELSE "None",
                         at  |-> addr(e)]
    BY <2>2, BitsAssumption DEF next_table, flags
  <2>5. d = [mem |-> m2, level |-> c.level, at |-> addr(e),
             err |-> IF HUGE_PAGE \in w THEN "ParentEntryHugePage" ELSE "None"]
    BY <1>5, <2>4 DEF Follow
  <2>6. addr(e) \in SUBSET AddrBits
    BY DEF addr
  <2>7. HUGE_PAGE \notin e => addr(e) \in TableFrames /\ c.level[addr(e)] = n - 1
    BY <1>0, <1>5, <2>1 DEF IsTree, PointersDown, Pointer
  <2> HIDE DEF m2, w, e
  <2> QED BY <1>0, <2>2, <2>3, <2>5, <2>6, <2>7 DEF CallOK, Call, Errors
<1> QED BY <1>1, <1>2, <1>3, <1>4, <1>5

\* The level of the table that holds the entry of a page (or a slot).
LevelOf(s) == 5 - Len(s)

\* A page has two to four indices, and its entry lies in a level 3, 2 or 1 table.
LEMMA PageShape ==
  ASSUME NEW page \in Pages
  PROVE  /\ page \in Seq(Index) /\ Len(page) \in 2 .. 4 /\ page[Len(page)] \in Index
         /\ LevelOf(page) \in 1 .. 3
         /\ LevelOf(page) = 1 <=> Len(page) = 4
         /\ Len(page) # 4 => Len(page) < 4
<1>1. page \in Seq(Index) /\ Len(page) \in 2 .. 4
  BY MapperAssumption
<1>2. Len(page) \in 1 .. Len(page)
  BY <1>1
<1>3. page[Len(page)] \in Index
  BY <1>1, <1>2
<1>4. /\ LevelOf(page) \in 1 .. 3
      /\ LevelOf(page) = 1 <=> Len(page) = 4
      /\ Len(page) # 4 => Len(page) < 4
  <2>1. \A n \in 2 .. 4 : 5 - n \in 1 .. 3 /\ (5 - n = 1 <=> n = 4) /\ (n # 4 => n < 4)
    OBVIOUS
  <2> QED BY <1>1, <2>1, Zenon DEF LevelOf
<1> QED BY <1>1, <1>3, <1>4

\* The parent tables of a page, created or found.
LEMMA CreateParentsOK ==
  ASSUME NEW page \in Pages, NEW pf, ParentOK(pf), CallOK(Begin, 4),
         NEW c \in create_parents(page, pf)
  PROVE  CallOK(c, LevelOf(page))
<1>1. page \in Seq(Index) /\ Len(page) \in 2 .. 4
  BY MapperAssumption
<1>2. page[1] \in Index /\ page[2] \in Index
  BY <1>1
<1>3. \A d \in create_p3(page, pf) : CallOK(d, 3)
  <2>1. ASSUME NEW d \in create_p3(page, pf) PROVE CallOK(d, 4 - 1)
    BY <1>2, CreateNextTableOK DEF create_p3
  <2> QED BY <2>1
<1>4. \A d \in create_p2(page, pf) : CallOK(d, 2)
  <2>1. ASSUME NEW d \in create_p2(page, pf) PROVE CallOK(d, 3 - 1)
    <3>1. PICK b \in create_p3(page, pf) : d \in create_next_table(b, page[2], pf)
      BY DEF create_p2
    <3>2. CallOK(b, 3)
      BY <1>3
    <3> QED BY <3>1, <3>2, <1>2, CreateNextTableOK
  <2> QED BY <2>1
<1>5. Len(page) = 4 => \A d \in create_p1(page, pf) : CallOK(d, 1)
  <2>1. ASSUME Len(page) = 4, NEW d \in create_p1(page, pf) PROVE CallOK(d, 2 - 1)
    <3>1. PICK b \in create_p2(page, pf) : d \in create_next_table(b, page[3], pf)
      BY DEF create_p1
    <3>2. CallOK(b, 2)
      BY <1>4
    <3>3. 3 \in 1 .. Len(page)
      BY <2>1
    <3>4. page[3] \in Index
      BY <1>1, <3>3
    <3> QED BY <3>1, <3>2, <3>4, CreateNextTableOK
  <2> QED BY <2>1
<1>6. CASE Len(page) = 2
  BY <1>3, <1>6 DEF create_parents, LevelOf
<1>7. CASE Len(page) = 3
  BY <1>4, <1>7 DEF create_parents, LevelOf
<1>8. CASE Len(page) = 4
  BY <1>5, <1>8 DEF create_parents, LevelOf
<1> QED BY <1>1, <1>6, <1>7, <1>8

\* The entry for a page is not a pointer: it is huge or in a level 1 table.
LEMMA LeafIsNoPointer ==
  ASSUME NEW page \in Pages, NEW f \in SUBSET FlagBits
  PROVE  /\ LeafBits(page, f) \in SUBSET FlagBits
         /\ \A e : LeafBits(page, f) \subseteq e => ~Pointer(LevelOf(page), e)
<1>1. HUGE_PAGE \in FlagBits
  BY BitsAssumption
<1>2. CASE Len(page) = 4
  <2>1. LeafBits(page, f) = f
    BY <1>2 DEF LeafBits
  <2>2. LevelOf(page) = 1
    BY <1>2, PageShape
  <2> QED BY <2>1, <2>2 DEF Pointer
<1>3. CASE Len(page) # 4
  <2>1. LeafBits(page, f) = f \cup {HUGE_PAGE}
    BY <1>3 DEF LeafBits
  <2> QED BY <1>1, <2>1 DEF Pointer
<1> QED BY <1>2, <1>3

\* The last step of map_to keeps the tree: it writes a leaf over an unused entry,
\* or reports an error and writes nothing.
LEMMA WriteLeafOK ==
  ASSUME NEW page \in Pages, NEW frame \in SUBSET AddrBits, NEW f \in SUBSET FlagBits,
         NEW c, CallOK(c, LevelOf(page))
  PROVE  CallOK(WriteLeaf(c, page, frame, f), LevelOf(page))
<1> DEFINE i == page[Len(page)]
           e == set_addr(frame, LeafBits(page, f))
<1>1. LevelOf(page) \in 1 .. 3 /\ i \in Index
  BY PageShape
<1>2. e \in Entry /\ ~Pointer(LevelOf(page), e)
  BY LeafIsNoPointer DEF set_addr, Entry
<1>3. c \in Call /\ c.mem \in Memory /\ c.level \in Books
  BY DEF CallOK, Call
<1>4. CASE c.err # "None"
  BY <1>4 DEF WriteLeaf
<1>5. CASE c.err = "None" /\ c.mem[c.at][i] # {}
  <2>1. WriteLeaf(c, page, frame, f) = [c EXCEPT !.err = "PageAlreadyMapped"]
    BY <1>5 DEF WriteLeaf, is_unused
  <2> QED BY <2>1, <1>3 DEF CallOK, Call, Errors
<1>6. CASE c.err = "None" /\ c.mem[c.at][i] = {}
  <2> DEFINE m2 == [c.mem EXCEPT ![c.at][i] = e]
  <2>1. c.at \in TableFrames /\ c.level[c.at] = LevelOf(page)
    BY <1>6 DEF CallOK
  <2>2. WriteLeaf(c, page, frame, f) = [c EXCEPT !.mem = m2]
    BY <1>3, <1>6 DEF WriteLeaf, is_unused, Call
  <2>3. ~Pointer(c.level[c.at], c.mem[c.at][i])
    BY <1>6 DEF Pointer
  <2>4. m2 \in Memory /\ IsTree(m2, c.level)
    BY <1>1, <1>2, <1>3, <2>1, <2>3, TreeKeptByLeaf DEF CallOK
  <2> HIDE DEF m2
  <2> QED BY <1>3, <1>6, <2>1, <2>2, <2>4 DEF CallOK, Call
<1> QED BY <1>4, <1>5, <1>6

(***************************************************************************)
(* The walk of the other operations: it ends at a table of the right level *)
(* or in an error.                                                         *)
(***************************************************************************)
\* A walk without error ends at an allocated table of the level of the slot.
LEMMA WalkFindsTable ==
  ASSUME NEW m \in Memory, NEW lv \in Books, IsTree(m, lv),
         NEW s \in Seq(Index), Len(s) \in 1 .. 4, TableOf(m, s).err = "None"
  PROVE  TableOf(m, s).at \in TableFrames /\ lv[TableOf(m, s).at] = LevelOf(s)
<1> DEFINE OK(w, n) == w.err = "None" => w.at \in TableFrames /\ lv[w.at] = n
<1>1. OK(p4(m, s), 4)
  BY FramesAssumption DEF p4, IsTree, RootIsTop
<1>2. ASSUME NEW w, NEW n \in 2 .. 4, OK(w, n), NEW i \in Index
      PROVE  OK(Descend(m, w, i), n - 1)
  BY <1>2, NextTableIsPointer DEF Descend
<1>3. Len(s) > 1 => OK(p3(m, s), 4 - 1)
  BY <1>1, <1>2 DEF p3
<1>4. Len(s) > 2 => OK(p2(m, s), 3 - 1)
  BY <1>2, <1>3 DEF p2
<1>5. Len(s) > 3 => OK(p1(m, s), 2 - 1)
  BY <1>2, <1>4 DEF p1
<1>6. CASE Len(s) = 1
  BY <1>1, <1>6 DEF TableOf, LevelOf
<1>7. CASE Len(s) = 2
  BY <1>3, <1>7 DEF TableOf, LevelOf
<1>8. CASE Len(s) = 3
  BY <1>4, <1>8 DEF TableOf, LevelOf
<1>9. CASE Len(s) = 4
  BY <1>5, <1>9 DEF TableOf, LevelOf
<1> QED BY <1>6, <1>7, <1>8, <1>9

(***************************************************************************)
(* The inductive invariant.                                                *)
(***************************************************************************)
Inv == TypeOK /\ TablesFormTree /\ ~panicked

\* What Inv says of the memory, in the form the lemmas need.
LEMMA InvMemory ==
  ASSUME Inv
  PROVE  mem \in Memory /\ level \in Books /\ IsTree(mem, level)
BY DEF Inv, TypeOK, TablesFormTree, Memory, Books

\* The empty level 4 table the mapper is created with satisfies the invariant.
LEMMA InitInv == Init => Inv
<1> SUFFICES ASSUME Init PROVE Inv
  OBVIOUS
<1> USE DEF Init
<1>1. ZeroTable \in Table /\ GarbageTable \in Table
  BY MapperAssumption DEF ZeroTable, GarbageTable, Table, Entry
<1>2. mem \in [TableFrames -> Table]
  BY <1>1
<1>3. level \in [TableFrames -> Levels]
  BY DEF Levels
<1>4. told \in [Pages -> Told]
  BY DEF Told, NotTold
<1>5. \A i \in Index : mem[Root][i] = {}
  BY FramesAssumption DEF ZeroTable
<1>6. \A f \in TableFrames, i \in Index : ~Pointer(level[f], mem[f][i])
  BY <1>5 DEF Pointer
<1>7. TablesFormTree
  BY <1>5, <1>6, FramesAssumption
     DEF TablesFormTree, IsTree, RootIsTop, PointersDown, NamedOnce, NoneLost
<1> QED BY <1>2, <1>3, <1>4, <1>7 DEF Inv, TypeOK

\* map_to_with_table_flags, successful or failing at any level, keeps Inv.
LEMMA MapToInv ==
  ASSUME Inv, NEW page \in Pages, NEW frame \in DataFrames, NEW f \in MapFlags,
         NEW pf, ParentOK(pf), map_to_with_table_flags(page, frame, f, pf)
  PROVE  Inv'
<1>1. frame \in SUBSET AddrBits /\ f \in SUBSET FlagBits
  BY MapperAssumption
<1>2. CallOK(Begin, 4)
  BY InvMemory, FramesAssumption DEF CallOK, Call, Begin, Errors, IsTree, RootIsTop
<1>3. PICK b \in create_parents(page, pf) :
        LET c == WriteLeaf(b, page, frame, f)
        IN  /\ mem' = c.mem
            /\ level' = c.level
            /\ told' = IF c.err = "None"
                       THEN [told EXCEPT ![page] =
                               [frame |-> frame, flags |-> LeafBits(page, f)]]
                       ELSE told
            /\ panicked' = (c.err = "panic")
  BY DEF map_to_with_table_flags
<1> DEFINE c == WriteLeaf(b, page, frame, f)
<1>4. CallOK(c, LevelOf(page))
  BY <1>1, <1>2, <1>3, CreateParentsOK, WriteLeafOK
<1> HIDE DEF c
<1>5. mem' \in Memory /\ level' \in Books /\ IsTree(mem', level')
  BY <1>3, <1>4 DEF CallOK, Call, c
<1>6. ~panicked'
  BY <1>3, <1>4 DEF CallOK, Call, Errors, c
<1>7. told' \in [Pages -> Told]
  BY <1>1, <1>3, LeafIsNoPointer DEF Inv, TypeOK, Told, c
<1>8. panicked' \in BOOLEAN
  BY <1>3
<1> QED BY <1>5, <1>6, <1>7, <1>8 DEF Inv, TypeOK, TablesFormTree, Memory, Books

\* A walk ends with one of the two PageTableWalkErrors or with none.
LEMMA WalkErrors ==
  ASSUME NEW m, NEW s,
         TableOf(m, s).err # "MappedToHugePage", TableOf(m, s).err # "NotMapped"
  PROVE  TableOf(m, s).err = "None"
<1> DEFINE W == {"None", "MappedToHugePage", "NotMapped"}
<1>1. \A w, i : w.err \in W => Descend(m, w, i).err \in W
  BY DEF Descend, next_table
<1>2. p4(m, s).err \in W
  BY DEF p4
<1>3. p3(m, s).err \in W
  BY <1>1, <1>2 DEF p3
<1>4. p2(m, s).err \in W
  BY <1>1, <1>3 DEF p2
<1>5. p1(m, s).err \in W
  BY <1>1, <1>4 DEF p1
<1> QED BY <1>2, <1>3, <1>4, <1>5 DEF TableOf

\* A write to the entry of a page that is a leaf before and after.
LEMMA LeafWriteInv ==
  ASSUME Inv, NEW page \in Pages, NEW e \in Entry,
         TableOf(mem, page).err = "None",
         ~Pointer(LevelOf(page), EntryOf(mem, page)), ~Pointer(LevelOf(page), e),
         mem' = SetEntry(mem, page, e), UNCHANGED <<level, panicked>>,
         told' \in [Pages -> Told]
  PROVE  Inv'
<1> DEFINE t == TableOf(mem, page).at
           i == page[Len(page)]
<1>1. page \in Seq(Index) /\ Len(page) \in 2 .. 4 /\ i \in Index
  BY PageShape
<1>2. t \in TableFrames /\ level[t] = LevelOf(page)
  <2>1. Len(page) \in 1 .. 4
    BY <1>1
  <2> QED BY <2>1, <1>1, InvMemory, WalkFindsTable
<1>3. mem' = [mem EXCEPT ![t][i] = e] /\ EntryOf(mem, page) = mem[t][i]
  BY DEF SetEntry, EntryOf
<1> HIDE DEF t, i
<1>4. level[t] # 4
  BY <1>2, PageShape
<1>5. ~Pointer(level[t], mem[t][i]) /\ ~Pointer(level[t], e)
  BY <1>2, <1>3
<1>6. /\ [mem EXCEPT ![t][i] = e] \in Memory
      /\ IsTree([mem EXCEPT ![t][i] = e], level)
  BY <1>1, <1>2, <1>4, <1>5, InvMemory, TreeKeptByLeaf
<1>7. mem' \in Memory /\ IsTree(mem', level)
  BY <1>3, <1>6
<1> QED BY <1>7, InvMemory DEF Inv, TypeOK, TablesFormTree, Memory, Books

\* unmap clears the leaf entry of the page and nothing else, and keeps Inv.
LEMMA UnmapInv == ASSUME Inv, NEW page \in Pages, unmap(page) PROVE Inv'
<1>1. HUGE_PAGE \in FlagBits
  BY BitsAssumption
<1>2. /\ TableOf(mem, page).err \notin {"MappedToHugePage", "NotMapped"}
      /\ Len(page) < 4 => HUGE_PAGE \in flags(EntryOf(mem, page))
  BY DEF unmap, unmap_call
<1>3. TableOf(mem, page).err = "None"
  BY <1>2, WalkErrors
<1>4. ~Pointer(LevelOf(page), EntryOf(mem, page))
  <2>1. LevelOf(page) # 1 => Len(page) < 4
    BY PageShape
  <2> QED BY <2>1, <1>2 DEF Pointer, flags
<1>5. {} \in Entry /\ ~Pointer(LevelOf(page), {})
  BY DEF Entry, Pointer
<1>6. told' \in [Pages -> Told]
  BY DEF unmap, Inv, TypeOK, Told, NotTold
<1>7. mem' = SetEntry(mem, page, {}) /\ UNCHANGED <<level, panicked>>
  BY DEF unmap
<1> QED BY <1>3, <1>4, <1>5, <1>6, <1>7, LeafWriteInv

\* update_flags on a page that names no table keeps Inv.
LEMMA UpdateFlagsInv ==
  ASSUME Inv, NEW page \in Pages, NEW f \in LeafFlags,
         Len(page) < 4 => ~NamesTable(mem, page), update_flags(page, f)
  PROVE  Inv'
<1> DEFINE old == EntryOf(mem, page)
           e == set_flags(old, LeafBits(page, f))
<1>1. page \in Seq(Index) /\ Len(page) \in 2 .. 4 /\ f \in SUBSET FlagBits
  BY PageShape, MapperAssumption
<1>2. TableOf(mem, page).err \notin {"MappedToHugePage", "NotMapped"}
  BY DEF update_flags, flag_update_error
<1>3. TableOf(mem, page).err = "None"
  BY <1>2, WalkErrors
<1>4. TableOf(mem, page).at \in TableFrames /\ level[TableOf(mem, page).at] = LevelOf(page)
  <2>1. Len(page) \in 1 .. 4
    BY <1>1
  <2> QED BY <2>1, <1>1, <1>3, InvMemory, WalkFindsTable
<1>5. page[Len(page)] \in Index
  BY PageShape
<1>6. ~Pointer(LevelOf(page), old)
  <2>1. CASE Len(page) = 4
    BY <2>1, PageShape DEF Pointer
  <2>2. CASE Len(page) # 4
    <3>1. Len(page) < 4 /\ LevelOf(page) \in 2 .. 4
      BY <2>2, PageShape
    <3>2. next_table(old).err # "None"
      BY <1>3, <3>1 DEF NamesTable
    <3> QED BY <3>1, <3>2, <1>4, <1>5, InvMemory, NextTableIsPointer DEF EntryOf
  <2> QED BY <2>1, <2>2
<1>7. LeafBits(page, f) \in SUBSET FlagBits
  BY <1>1, LeafIsNoPointer
<1>8. e \in Entry /\ LeafBits(page, f) \subseteq e
  BY <1>7 DEF set_flags, addr, Entry
<1>9. ~Pointer(LevelOf(page), e)
  BY <1>1, <1>8, LeafIsNoPointer
<1>10. told' \in [Pages -> Told]
  <2>1. told \in [Pages -> Told] /\ told' = Retold(told, page, f)
    BY DEF update_flags, Inv, TypeOK
  <2>2. LeafBits(page, f) \cup (told[page].flags \cap AddrBits) \in SUBSET FlagBits
    BY <1>7, <2>1 DEF Told
  <2> QED BY <2>1, <2>2 DEF Retold, Told
<1>11. mem' = SetEntry(mem, page, e) /\ UNCHANGED <<level, panicked>>
  BY DEF update_flags
<1> QED BY <1>3, <1>6, <1>8, <1>9, <1>10, <1>11, LeafWriteInv

\* set_flags_pN_entry on an entry that names a table keeps Inv.
LEMMA SetFlagsEntryInv ==
  ASSUME CallerContract, Inv, NEW page \in Pages, NEW k \in 1 .. 3, NEW f \in TableFlags,
         set_flags_entry(page, k, f), NamesTable(mem, SubSeq(page, 1, k))
  PROVE  Inv'
<1> DEFINE s == SubSeq(page, 1, k)
           t == TableOf(mem, s).at
           i == s[Len(s)]
           e == set_flags(mem[t][i], f)
<1>1. page \in Seq(Index) /\ Len(page) \in 2 .. 4 /\ k < Len(page)
  BY MapperAssumption DEF set_flags_entry
<1>2. s \in Seq(Index) /\ Len(s) = k
  BY <1>1
<1>3. i \in Index
  BY <1>2
<1>4. TableOf(mem, s).err = "None" /\ next_table(mem[t][i]).err = "None"
  BY DEF NamesTable, EntryOf
<1>5. mem' = [mem EXCEPT ![t][i] = e] /\ UNCHANGED <<level, told, panicked>>
  BY DEF set_flags_entry, SetEntry, EntryOf
<1> HIDE DEF s, i
<1>6. t \in TableFrames /\ level[t] = 5 - k
  <2>1. Len(s) \in 1 .. 4
    BY <1>2
  <2>2. LevelOf(s) = 5 - k
    BY <1>2 DEF LevelOf
  <2> QED BY <2>1, <2>2, <1>2, <1>4, InvMemory, WalkFindsTable
<1> HIDE DEF t
<1>7. Pointer(level[t], mem[t][i]) /\ mem[t][i] \in Entry
  BY <1>3, <1>4, <1>6, InvMemory, NextTableIsPointer DEF Memory, Table
<1>8. f \in SUBSET FlagBits /\ f \cap AddrBits = {} /\ PRESENT \in f /\ HUGE_PAGE \notin f
  BY MapperAssumption DEF CallerContract
<1>9. /\ e \in Entry /\ addr(e) = addr(mem[t][i])
      /\ PRESENT \in e /\ HUGE_PAGE \notin e
  BY <1>7, <1>8, AddrOfSetFlags, BitsAssumption
<1>10. Pointer(level[t], e)
  BY <1>7, <1>9 DEF Pointer
<1> HIDE DEF e
<1>11. mem' \in Memory /\ IsTree(mem', level)
  BY <1>3, <1>5, <1>6, <1>7, <1>9, <1>10, InvMemory, TreeKeptByFlags
<1> QED BY <1>5, <1>11, InvMemory DEF Inv, TypeOK, TablesFormTree, Memory, Books

\* clean_up_addr_range keeps Inv: it frees only tables with no entry left.
LEMMA CleanUpInv == ASSUME Inv, NEW r, clean_up_addr_range(r) PROVE Inv'
<1>1. Removable(mem, level, CleanP4(mem, r))
  BY InvMemory, CleanUpIsRemovable
<1>2. mem' \in Memory /\ level' \in Books /\ IsTree(mem', level')
  BY <1>1, InvMemory, TreeKeptByCleanUp DEF clean_up_addr_range
<1> QED BY <1>2 DEF clean_up_addr_range, Inv, TypeOK, TablesFormTree, Memory, Books

\* Every step of the mapper keeps the invariant.
LEMMA NextInv == ASSUME CallerContract, Inv, [Next]_vars PROVE Inv'
<1>1. CASE MapTo
  <2>1. PICK page \in Pages, d \in DataFrames, f \in MapFlags : map_to(page, d, f)
    BY <1>1 DEF MapTo, AlignedFrames, FlagsFor
  <2>2. ParentOK(f \cap {PRESENT, WRITABLE, USER_ACCESSIBLE})
    <3>1. f \in SUBSET FlagBits /\ PRESENT \in f
      BY MapperAssumption DEF CallerContract
    <3> QED BY <3>1, BitsAssumption DEF ParentOK
  <2> QED BY <2>1, <2>2, MapToInv DEF map_to
<1>2. CASE MapToWithTableFlags
  <2>1. PICK page \in Pages, d \in DataFrames, f \in MapFlags, t \in TableFlags :
          map_to_with_table_flags(page, d, f, t)
    BY <1>2 DEF MapToWithTableFlags, AlignedFrames, FlagsFor
  <2>2. ParentOK(t)
    BY MapperAssumption DEF CallerContract, ParentOK
  <2> QED BY <2>1, <2>2, MapToInv
<1>3. CASE Unmap
  BY <1>3, UnmapInv DEF Unmap
<1>4. CASE UpdateFlags
  BY <1>4, UpdateFlagsInv DEF UpdateFlags, FlagsFor
<1>5. CASE SetFlagsEntry
  BY <1>5, SetFlagsEntryInv DEF SetFlagsEntry
<1>6. CASE CleanUp
  BY <1>6, CleanUpInv DEF CleanUp, clean_up
<1>7. CASE CleanUpAddrRange
  BY <1>7, CleanUpInv DEF CleanUpAddrRange
<1>8. CASE UNCHANGED vars
  BY <1>8 DEF vars, Inv, TypeOK, TablesFormTree
<1> QED BY <1>1, <1>2, <1>3, <1>4, <1>5, <1>6, <1>7, <1>8 DEF Next

\* Inv holds in every reachable state.
THEOREM MapperInvariant == ASSUME CallerContract PROVE Spec => []Inv
<1>1. Init => Inv
  BY InitInv
<1>2. Inv /\ [Next]_vars => Inv'
  BY NextInv
<1> QED BY <1>1, <1>2, PTL DEF Spec

\* The variables keep their types: no call writes outside the table frames, or a
\* table of another size or level.
THEOREM TypeCorrect == ASSUME CallerContract PROVE Spec => []TypeOK
<1>1. Inv => TypeOK
  BY DEF Inv
<1> QED BY <1>1, MapperInvariant, PTL

\* The page tables always form a tree in which every allocated frame is named
\* exactly once: create_next_table loses no frame and shares none, and clean_up
\* frees none that an entry still names.
THEOREM TreeCorrect == ASSUME CallerContract PROVE Spec => []TablesFormTree
<1>1. Inv => TablesFormTree
  BY DEF Inv
<1> QED BY <1>1, MapperInvariant, PTL

\* Neither create_next_table's nor translate's panic! is reached.
THEOREM PanicFree == ASSUME CallerContract PROVE Spec => []NeverPanics
<1>1. Inv => NeverPanics
  <2> SUFFICES ASSUME Inv, NEW a \in Addresses PROVE translate(mem, a).result # "panic"
    BY DEF Inv, NeverPanics
  <2>1. a[1] \in Index
    BY DEF Addresses
  <2>2. Root \in TableFrames /\ level[Root] = 4 /\ HUGE_PAGE \notin mem[Root][a[1]]
    BY <2>1, InvMemory, FramesAssumption DEF IsTree, RootIsTop
  <2>3. p3(mem, a).err # "MappedToHugePage"
    BY <2>1, <2>2, InvMemory, NextTableIsPointer DEF p3, p4, Descend
  <2>4. NotMapped.result # "panic" /\ \A s : Mapped(mem, s).result # "panic"
    BY DEF NotMapped, Mapped
  <2> QED BY <2>3, <2>4 DEF translate
<1> QED BY <1>1, MapperInvariant, PTL

(***************************************************************************)
(* Walks.  Tab(m, s, k) is the table in which index k of the tuple s is    *)
(* looked up, if Reach(m, s, k): the k - 1 entries before name tables.     *)
(***************************************************************************)
Tab2(m, s) == addr(m[Root][s[1]])
Tab3(m, s) == addr(m[Tab2(m, s)][s[2]])
Tab4(m, s) == addr(m[Tab3(m, s)][s[3]])
Tab(m, s, k) ==
  IF k = 1 THEN Root ELSE IF k = 2 THEN Tab2(m, s) ELSE IF k = 3 THEN Tab3(m, s) ELSE Tab4(m, s)
Slot(m, s, k) == m[Tab(m, s, k)][s[k]]

Reach2(m, s) == Pointer(4, m[Root][s[1]])
Reach3(m, s) == Reach2(m, s) /\ Pointer(3, m[Tab2(m, s)][s[2]])
Reach4(m, s) == Reach3(m, s) /\ Pointer(2, m[Tab3(m, s)][s[3]])
Reach(m, s, k) ==
  /\ k = 2 => Reach2(m, s)
  /\ k = 3 => Reach3(m, s)
  /\ k = 4 => Reach4(m, s)

Path(s, k) == \A j \in 1 .. k : s[j] \in Index
Same(s, q, k) == \A j \in 1 .. k : s[j] = q[j]

LEMMA ReachStep ==
  ASSUME NEW m, NEW s, NEW k \in 1 .. 3
  PROVE  /\ Reach(m, s, 1) /\ Tab(m, s, 1) = Root
         /\ Reach(m, s, k + 1) <=> Reach(m, s, k) /\ Pointer(5 - k, Slot(m, s, k))
         /\ Tab(m, s, k + 1) = addr(Slot(m, s, k))
<1>1. Reach(m, s, 1) /\ Tab(m, s, 1) = Root
  BY DEF Reach, Tab
<1>2. CASE k = 1
  BY <1>2 DEF Reach, Tab, Slot, Reach2, Tab2
<1>3. CASE k = 2
  BY <1>3 DEF Reach, Tab, Slot, Reach3, Tab3
<1>4. CASE k = 3
  BY <1>4 DEF Reach, Tab, Slot, Reach4, Tab4
<1> QED BY <1>1, <1>2, <1>3, <1>4

\* The table reached is an allocated one, of the level of its depth.
LEMMA ReachLevel ==
  ASSUME NEW m \in Memory, NEW lv \in Books, IsTree(m, lv), NEW s, NEW k \in 1 .. 4,
         Path(s, k - 1), Reach(m, s, k)
  PROVE  Tab(m, s, k) \in TableFrames /\ lv[Tab(m, s, k)] = 5 - k
<1> DEFINE OK(j) == Reach(m, s, j) => Tab(m, s, j) \in TableFrames /\ lv[Tab(m, s, j)] = 5 - j
<1>1. OK(1)
  BY FramesAssumption, ReachStep DEF IsTree, RootIsTop, Tab
<1>2. ASSUME NEW j \in 1 .. 3, j < k, OK(j) PROVE OK(j + 1)
  <2>1. s[j] \in Index
    BY <1>2 DEF Path
  <2> SUFFICES ASSUME Reach(m, s, j + 1)
               PROVE  Tab(m, s, j + 1) \in TableFrames /\ lv[Tab(m, s, j + 1)] = 5 - (j + 1)
    OBVIOUS
  <2>2. /\ Reach(m, s, j) /\ Pointer(5 - j, Slot(m, s, j))
        /\ Tab(m, s, j + 1) = addr(Slot(m, s, j))
    BY ReachStep
  <2>3. Tab(m, s, j) \in TableFrames /\ lv[Tab(m, s, j)] = 5 - j
    BY <1>2, <2>2
  <2> QED BY <2>1, <2>2, <2>3 DEF IsTree, PointersDown, Slot
<1> HIDE DEF OK
<1>3. k >= 2 => OK(2)
  BY <1>1, <1>2
<1>4. k >= 3 => OK(3)
  BY <1>2, <1>3
<1>5. k >= 4 => OK(4)
  BY <1>2, <1>4
<1>6. OK(k)
  BY <1>1, <1>3, <1>4, <1>5
<1> QED BY <1>6 DEF OK

\* Two walks to the same table came the same way.
LEMMA ReachOnce ==
  ASSUME NEW m \in Memory, NEW lv \in Books, IsTree(m, lv), NEW s, NEW q, NEW k \in 1 .. 4,
         Path(s, k - 1), Path(q, k - 1), Reach(m, s, k), Reach(m, q, k),
         Tab(m, s, k) = Tab(m, q, k)
  PROVE  Same(s, q, k - 1)
<1> DEFINE OK(j) == /\ Reach(m, s, j) /\ Reach(m, q, j) /\ Tab(m, s, j) = Tab(m, q, j)
                    => Same(s, q, j - 1)
<1>1. OK(1)
  BY DEF Same
<1>2. ASSUME NEW j \in 1 .. 3, j < k, OK(j) PROVE OK(j + 1)
  <2> SUFFICES ASSUME Reach(m, s, j + 1), Reach(m, q, j + 1), Tab(m, s, j + 1) = Tab(m, q, j + 1)
               PROVE  Same(s, q, j)
    OBVIOUS
  <2>1. s[j] \in Index /\ q[j] \in Index /\ Path(s, j - 1) /\ Path(q, j - 1)
    BY <1>2 DEF Path
  <2>2. /\ Reach(m, s, j) /\ Pointer(5 - j, Slot(m, s, j))
        /\ Tab(m, s, j + 1) = addr(Slot(m, s, j))
        /\ Reach(m, q, j) /\ Pointer(5 - j, Slot(m, q, j))
        /\ Tab(m, q, j + 1) = addr(Slot(m, q, j))
    BY ReachStep
  <2>3. /\ Tab(m, s, j) \in TableFrames /\ lv[Tab(m, s, j)] = 5 - j
        /\ Tab(m, q, j) \in TableFrames /\ lv[Tab(m, q, j)] = 5 - j
    BY <2>1, <2>2, ReachLevel
  <2>4. Tab(m, s, j) = Tab(m, q, j) /\ s[j] = q[j]
    BY <2>1, <2>2, <2>3 DEF IsTree, NamedOnce, Slot
  <2>5. Same(s, q, j - 1)
    BY <1>2, <2>2, <2>4
  <2> QED BY <2>4, <2>5 DEF Same
<1> HIDE DEF OK
<1>3. k >= 2 => OK(2)
  BY <1>1, <1>2
<1>4. k >= 3 => OK(3)
  BY <1>2, <1>3
<1>5. k >= 4 => OK(4)
  BY <1>2, <1>4
<1>6. OK(k)
  BY <1>1, <1>3, <1>4, <1>5
<1> QED BY <1>6 DEF OK

\* A walk looks at the indices before the last one only.
LEMMA ReachSame ==
  ASSUME NEW m, NEW s, NEW q, NEW k \in 1 .. 4, Same(s, q, k - 1)
  PROVE  (Reach(m, s, k) <=> Reach(m, q, k)) /\ Tab(m, s, k) = Tab(m, q, k)
<1>1. CASE k = 1
  BY <1>1 DEF Reach, Tab
<1>2. CASE k = 2
  BY <1>2 DEF Same, Reach, Tab, Reach2, Tab2
<1>3. CASE k = 3
  BY <1>3 DEF Same, Reach, Tab, Reach3, Tab3, Reach2, Tab2
<1>4. CASE k = 4
  BY <1>4 DEF Same, Reach, Tab, Reach4, Tab4, Reach3, Tab3, Reach2, Tab2
<1> QED BY <1>1, <1>2, <1>3, <1>4

(***************************************************************************)
(* Leaves.                                                                 *)
(***************************************************************************)
Leaf(m, s, k, e) ==
  k \in 2 .. 4 /\ Reach(m, s, k) /\ e = Slot(m, s, k) /\ e # {} /\ ~Pointer(5 - k, e)

\* No leaf lies under another.
LEMMA LeafAlone ==
  ASSUME NEW m, NEW s, NEW j, NEW k, NEW d, NEW e, Leaf(m, s, j, d), Leaf(m, s, k, e)
  PROVE  j = k
<1>1. ASSUME NEW x \in 2 .. 4, NEW y \in 2 .. 4, x < y, Reach(m, s, y)
      PROVE  Pointer(5 - x, Slot(m, s, x))
  <2>1. Reach(m, s, 4) => Reach(m, s, 3) /\ Pointer(5 - 3, Slot(m, s, 3))
    BY ReachStep
  <2>2. Reach(m, s, 3) => Pointer(5 - 2, Slot(m, s, 2))
    BY ReachStep
  <2> QED BY <1>1, <2>1, <2>2
<1> QED BY <1>1 DEF Leaf

NoLeaf(m, p) == \A e : ~Leaf(m, p, Len(p), e)
SameLeaves(m, n) ==
  \A q, d : \A j \in 2 .. 4 : Path(q, j) => (Leaf(n, q, j, d) <=> Leaf(m, q, j, d))
\* The leaf of path p, of k indices, becomes e, and no other changes.
LeafBecomes(m, n, p, k, e) ==
  \A q, d : \A j \in 2 .. 4 : Path(q, j) =>
    (Leaf(n, q, j, d) <=> IF j = k /\ Same(q, p, k) THEN d = e /\ e # {} ELSE Leaf(m, q, j, d))

\* One entry of a table is written.
Written(m, n, t, i, e) ==
  \A f \in TableFrames, j \in Index : n[f][j] = IF f = t /\ j = i THEN e ELSE m[f][j]

\* If it names the same table as before or none, walks stay as they are.
LEMMA WriteKeepsWalks ==
  ASSUME NEW m \in Memory, NEW lv \in Books, IsTree(m, lv), NEW n,
         NEW t \in TableFrames, NEW i \in Index, NEW e, Written(m, n, t, i, e),
         Pointer(lv[t], e) <=> Pointer(lv[t], m[t][i]),
         Pointer(lv[t], e) => addr(e) = addr(m[t][i]),
         NEW s, NEW k \in 1 .. 4, Path(s, k - 1)
  PROVE  /\ Reach(n, s, k) <=> Reach(m, s, k)
         /\ Reach(m, s, k) => Tab(n, s, k) = Tab(m, s, k)
<1> DEFINE OK(j) == /\ Reach(n, s, j) <=> Reach(m, s, j)
                    /\ Reach(m, s, j) => Tab(n, s, j) = Tab(m, s, j)
<1>1. OK(1)
  BY ReachStep
<1>2. ASSUME NEW j \in 1 .. 3, j < k, OK(j) PROVE OK(j + 1)
  <2>1. s[j] \in Index /\ Path(s, j - 1)
    BY <1>2 DEF Path
  <2>2. CASE Reach(m, s, j)
    <3>1. Tab(m, s, j) \in TableFrames /\ lv[Tab(m, s, j)] = 5 - j
      BY <2>1, <2>2, ReachLevel
    <3>2. /\ Pointer(5 - j, Slot(n, s, j)) <=> Pointer(5 - j, Slot(m, s, j))
          /\ Pointer(5 - j, Slot(m, s, j)) => addr(Slot(n, s, j)) = addr(Slot(m, s, j))
      BY <1>2, <2>1, <2>2, <3>1 DEF Written, Slot
    <3> QED BY <1>2, <2>2, <3>2, ReachStep
  <2>3. CASE ~Reach(m, s, j)
    BY <1>2, <2>3, ReachStep
  <2> QED BY <2>2, <2>3
<1> HIDE DEF OK
<1>3. k >= 2 => OK(2)
  BY <1>1, <1>2
<1>4. k >= 3 => OK(3)
  BY <1>2, <1>3
<1>5. k >= 4 => OK(4)
  BY <1>2, <1>4
<1>6. OK(k)
  BY <1>1, <1>3, <1>4, <1>5
<1> QED BY <1>6 DEF OK

SameWalks(m, n) ==
  \A s : \A k \in 1 .. 4 : Path(s, k - 1) =>
    /\ Reach(n, s, k) <=> Reach(m, s, k)
    /\ Reach(m, s, k) => Tab(n, s, k) = Tab(m, s, k)

LEMMA FlagsKeepWalks ==
  ASSUME NEW m \in Memory, NEW lv \in Books, IsTree(m, lv), NEW n,
         NEW t \in TableFrames, NEW i \in Index, NEW e, Written(m, n, t, i, e),
         Pointer(lv[t], e), Pointer(lv[t], m[t][i]), addr(e) = addr(m[t][i])
  PROVE  SameWalks(m, n)
<1>1. ASSUME NEW q, NEW j \in 1 .. 4, Path(q, j - 1)
      PROVE  /\ Reach(n, q, j) <=> Reach(m, q, j)
             /\ Reach(m, q, j) => Tab(n, q, j) = Tab(m, q, j)
  BY <1>1, WriteKeepsWalks
<1> QED BY <1>1 DEF SameWalks

\* New flags for an entry that names a table.
LEMMA FlagsKeepLeaves ==
  ASSUME NEW m \in Memory, NEW lv \in Books, IsTree(m, lv), NEW n,
         NEW t \in TableFrames, NEW i \in Index, NEW e, Written(m, n, t, i, e),
         Pointer(lv[t], e), Pointer(lv[t], m[t][i]), addr(e) = addr(m[t][i])
  PROVE  SameLeaves(m, n)
<1> SUFFICES ASSUME NEW q, NEW d, NEW j \in 2 .. 4, Path(q, j)
             PROVE  Leaf(n, q, j, d) <=> Leaf(m, q, j, d)
  BY DEF SameLeaves
<1>1. q[j] \in Index /\ Path(q, j - 1) /\ j \in 1 .. 4
  BY DEF Path
<1>2. /\ Reach(n, q, j) <=> Reach(m, q, j)
      /\ Reach(m, q, j) => Tab(n, q, j) = Tab(m, q, j)
  BY <1>1, WriteKeepsWalks
<1>3. CASE Reach(m, q, j)
  <2>1. Tab(m, q, j) \in TableFrames /\ lv[Tab(m, q, j)] = 5 - j
    BY <1>1, <1>3, ReachLevel
  <2>2. CASE Tab(m, q, j) = t /\ q[j] = i
    BY <1>1, <1>2, <1>3, <2>1, <2>2 DEF Leaf, Slot, Written
  <2>3. CASE ~(Tab(m, q, j) = t /\ q[j] = i)
    BY <1>1, <1>2, <1>3, <2>1, <2>3 DEF Leaf, Slot, Written
  <2> QED BY <2>2, <2>3
<1>4. CASE ~Reach(m, q, j)
  BY <1>2, <1>4 DEF Leaf
<1> QED BY <1>3, <1>4

\* A leaf, or an unused entry, is written.
LEMMA LeafWritten ==
  ASSUME NEW m \in Memory, NEW lv \in Books, IsTree(m, lv), NEW n,
         NEW p, NEW k \in 2 .. 4, Path(p, k), Reach(m, p, k),
         NEW e, Written(m, n, Tab(m, p, k), p[k], e),
         ~Pointer(5 - k, e), ~Pointer(5 - k, Slot(m, p, k))
  PROVE  LeafBecomes(m, n, p, k, e)
<1> DEFINE t == Tab(m, p, k)
<1>1. p[k] \in Index /\ Path(p, k - 1) /\ k \in 1 .. 4
  BY DEF Path
<1>2. t \in TableFrames /\ lv[t] = 5 - k
  BY <1>1, ReachLevel
<1> SUFFICES ASSUME NEW q, NEW d, NEW j \in 2 .. 4, Path(q, j)
             PROVE  Leaf(n, q, j, d) <=>
                      IF j = k /\ Same(q, p, k) THEN d = e /\ e # {} ELSE Leaf(m, q, j, d)
  BY DEF LeafBecomes
<1>3. q[j] \in Index /\ Path(q, j - 1) /\ j \in 1 .. 4
  BY DEF Path
<1>4. /\ Reach(n, q, j) <=> Reach(m, q, j)
      /\ Reach(m, q, j) => Tab(n, q, j) = Tab(m, q, j)
  <2>1. /\ ~Pointer(lv[t], e) /\ ~Pointer(lv[t], m[t][p[k]])
        /\ Written(m, n, t, p[k], e)
    BY <1>2 DEF Slot
  <2> HIDE DEF t
  <2>2. /\ Pointer(lv[t], e) <=> Pointer(lv[t], m[t][p[k]])
        /\ Pointer(lv[t], e) => addr(e) = addr(m[t][p[k]])
    BY <2>1
  <2>3. PICK i \in Index : i = p[k]
    BY <1>1
  <2> QED BY <1>2, <1>3, <2>1, <2>2, <2>3, WriteKeepsWalks
<1>5. CASE j = k /\ Same(q, p, k)
  <2>1. Same(p, q, k - 1) /\ q[k] = p[k]
    BY <1>5 DEF Same
  <2>2. Reach(m, q, j) /\ Tab(m, q, j) = t
    BY <1>1, <1>5, <2>1, ReachSame
  <2>3. Slot(n, q, j) = e
    BY <1>1, <1>2, <1>4, <1>5, <2>1, <2>2 DEF Slot, Written
  <2> QED BY <1>4, <1>5, <2>2, <2>3 DEF Leaf
<1>6. CASE ~(j = k /\ Same(q, p, k))
  <2>1. CASE Reach(m, q, j)
    <3>1. Tab(m, q, j) \in TableFrames /\ lv[Tab(m, q, j)] = 5 - j
      BY <1>3, <2>1, ReachLevel
    <3>2. ~(Tab(m, q, j) = t /\ q[j] = p[k])
      <4> SUFFICES ASSUME Tab(m, q, j) = t, q[j] = p[k] PROVE FALSE
        OBVIOUS
      <4>1. j = k
        BY <1>2, <3>1
      <4>2. Same(q, p, k - 1)
        BY <1>1, <1>3, <2>1, <4>1, ReachOnce
      <4> QED BY <1>6, <4>1, <4>2 DEF Same
    <3>3. Slot(n, q, j) = Slot(m, q, j)
      BY <1>3, <1>4, <2>1, <3>1, <3>2 DEF Slot, Written
    <3> QED BY <1>4, <1>6, <3>3 DEF Leaf
  <2>2. CASE ~Reach(m, q, j)
    BY <1>4, <1>6, <2>2 DEF Leaf
  <2> QED BY <2>1, <2>2
<1> QED BY <1>5, <1>6

\* A zeroed table f is hung below an unused entry: one more walk, or ENTRY_COUNT of
\* them further down, end in f, and the others stay.
Hung(m, n, t, i, e, f) ==
  \A g \in TableFrames, j \in Index :
    n[g][j] = IF g = f THEN {} ELSE IF g = t /\ j = i THEN e ELSE m[g][j]

LEMMA NewTableKeepsWalks ==
  ASSUME NEW m \in Memory, NEW lv \in Books, IsTree(m, lv), NEW n,
         NEW t \in TableFrames, NEW i \in Index, m[t][i] = {}, lv[t] \in 2 .. 4,
         NEW f \in TableFrames, lv[f] = 0, NEW e, addr(e) = f, Hung(m, n, t, i, e, f),
         NEW q, NEW k \in 1 .. 4, Path(q, k - 1)
  PROVE  /\ Reach(m, q, k) => Reach(n, q, k) /\ Tab(n, q, k) = Tab(m, q, k)
         /\ Reach(n, q, k) => Reach(m, q, k) \/ Tab(n, q, k) = f
<1> DEFINE OK(j) == /\ Reach(m, q, j) => Reach(n, q, j) /\ Tab(n, q, j) = Tab(m, q, j)
                    /\ Reach(n, q, j) => Reach(m, q, j) \/ Tab(n, q, j) = f
<1>1. OK(1)
  BY ReachStep
<1>2. ASSUME NEW j \in 1 .. 3, j < k, OK(j) PROVE OK(j + 1)
  <2>1. q[j] \in Index /\ Path(q, j - 1)
    BY <1>2 DEF Path
  <2>2. CASE Reach(m, q, j)
    <3>1. Tab(m, q, j) \in TableFrames /\ lv[Tab(m, q, j)] = 5 - j
      BY <2>1, <2>2, ReachLevel
    <3>2. Tab(m, q, j) # f
      BY <3>1
    <3>3. CASE Tab(m, q, j) = t /\ q[j] = i
      <4>1. Slot(m, q, j) = {} /\ Slot(n, q, j) = e
        BY <1>2, <2>1, <2>2, <3>2, <3>3 DEF Slot, Hung
      <4> QED BY <1>2, <2>2, <4>1, ReachStep DEF Pointer
    <3>4. CASE ~(Tab(m, q, j) = t /\ q[j] = i)
      <4>1. Slot(n, q, j) = Slot(m, q, j)
        BY <1>2, <2>1, <2>2, <3>1, <3>2, <3>4 DEF Slot, Hung
      <4> QED BY <1>2, <2>2, <4>1, ReachStep
    <3> QED BY <3>3, <3>4
  <2>3. CASE ~Reach(m, q, j)
    <3>1. Reach(n, q, j) => Slot(n, q, j) = {}
      BY <1>2, <2>1, <2>3 DEF Slot, Hung
    <3> QED BY <2>3, <3>1, ReachStep DEF Pointer
  <2> QED BY <2>2, <2>3
<1> HIDE DEF OK
<1>3. k >= 2 => OK(2)
  BY <1>1, <1>2
<1>4. k >= 3 => OK(3)
  BY <1>2, <1>3
<1>5. k >= 4 => OK(4)
  BY <1>2, <1>4
<1>6. OK(k)
  BY <1>1, <1>3, <1>4, <1>5
<1> QED BY <1>6 DEF OK

\* The new walks find nothing in f.
LEMMA NewTableKeepsLeaves ==
  ASSUME NEW m \in Memory, NEW lv \in Books, IsTree(m, lv), NEW n,
         NEW t \in TableFrames, NEW i \in Index, m[t][i] = {}, lv[t] \in 2 .. 4,
         NEW f \in TableFrames, lv[f] = 0, NEW e, addr(e) = f, Pointer(lv[t], e),
         Hung(m, n, t, i, e, f)
  PROVE  SameLeaves(m, n)
<1> SUFFICES ASSUME NEW q, NEW d, NEW k \in 2 .. 4, Path(q, k)
             PROVE  Leaf(n, q, k, d) <=> Leaf(m, q, k, d)
  BY DEF SameLeaves
<1>1. q[k] \in Index /\ Path(q, k - 1) /\ k \in 1 .. 4
  BY DEF Path
<1>2. /\ Reach(m, q, k) => Reach(n, q, k) /\ Tab(n, q, k) = Tab(m, q, k)
      /\ Reach(n, q, k) => Reach(m, q, k) \/ Tab(n, q, k) = f
  BY <1>1, NewTableKeepsWalks
<1>3. CASE Reach(m, q, k)
  <2>1. Tab(m, q, k) \in TableFrames /\ lv[Tab(m, q, k)] = 5 - k
    BY <1>1, <1>3, ReachLevel
  <2>2. Reach(n, q, k) /\ Tab(n, q, k) = Tab(m, q, k) /\ Tab(m, q, k) # f
    BY <1>2, <1>3, <2>1
  <2>3. CASE Tab(m, q, k) = t /\ q[k] = i
    <3>1. Slot(m, q, k) = {} /\ Slot(n, q, k) = e /\ Pointer(5 - k, e)
      BY <1>1, <2>1, <2>2, <2>3 DEF Slot, Hung
    <3>2. ~Leaf(m, q, k, d)
      BY <3>1 DEF Leaf
    <3> QED BY <3>1, <3>2 DEF Leaf
  <2>4. CASE ~(Tab(m, q, k) = t /\ q[k] = i)
    <3>1. Slot(n, q, k) = Slot(m, q, k)
      BY <1>1, <2>1, <2>2, <2>4 DEF Slot, Hung
    <3> QED BY <1>3, <2>2, <3>1 DEF Leaf
  <2> QED BY <2>3, <2>4
<1>4. CASE ~Reach(m, q, k)
  <2>1. Reach(n, q, k) => Slot(n, q, k) = {}
    BY <1>1, <1>2, <1>4 DEF Slot, Hung
  <2> QED BY <1>4, <2>1 DEF Leaf
<1> QED BY <1>3, <1>4

(***************************************************************************)
(* Entries on walks.  n widens m: every walk through tables of m is one of *)
(* n, to the same tables, and the entries on it have the flags they had.   *)
(***************************************************************************)
Widens(m, n) ==
  \A s : \A k \in 1 .. 3 : Path(s, k) /\ Reach(m, s, k + 1) =>
    /\ Reach(n, s, k + 1) /\ Tab(n, s, k + 1) = Tab(m, s, k + 1)
    /\ Slot(m, s, k) \subseteq Slot(n, s, k)

LEMMA ReachBefore ==
  ASSUME NEW m, NEW s, NEW k \in 1 .. 4, NEW j \in 1 .. k, Reach(m, s, k)
  PROVE  Reach(m, s, j)
<1>1. Reach(m, s, 4) => Reach(m, s, 3)
  BY ReachStep
<1>2. Reach(m, s, 3) => Reach(m, s, 2)
  BY ReachStep
<1>3. Reach(m, s, 1)
  BY ReachStep
<1> QED BY <1>1, <1>2, <1>3

LEMMA WriteWidens ==
  ASSUME NEW m \in Memory, NEW lv \in Books, IsTree(m, lv), NEW n,
         NEW t \in TableFrames, NEW i \in Index, NEW e, Written(m, n, t, i, e),
         Pointer(lv[t], e) <=> Pointer(lv[t], m[t][i]),
         Pointer(lv[t], e) => addr(e) = addr(m[t][i]) /\ m[t][i] \subseteq e
  PROVE  Widens(m, n)
<1> SUFFICES ASSUME NEW s, NEW k \in 1 .. 3, Path(s, k), Reach(m, s, k + 1)
             PROVE  /\ Reach(n, s, k + 1) /\ Tab(n, s, k + 1) = Tab(m, s, k + 1)
                    /\ Slot(m, s, k) \subseteq Slot(n, s, k)
  BY DEF Widens
<1>1. s[k] \in Index /\ Path(s, k - 1) /\ Path(s, (k + 1) - 1) /\ k \in 1 .. 4 /\ k + 1 \in 1 .. 4
  BY DEF Path
<1>2. Pointer(lv[t], e) => addr(e) = addr(m[t][i])
  OBVIOUS
<1>3. Reach(n, s, k + 1) /\ Tab(n, s, k + 1) = Tab(m, s, k + 1)
  <2>1. PICK j \in 1 .. 4 : j = k + 1
    BY <1>1
  <2>2. Path(s, j - 1) /\ Reach(m, s, j)
    BY <1>1, <2>1
  <2>3. /\ Reach(n, s, j) <=> Reach(m, s, j)
        /\ Reach(m, s, j) => Tab(n, s, j) = Tab(m, s, j)
    BY <1>2, <2>2, WriteKeepsWalks
  <2> QED BY <2>1, <2>2, <2>3
<1>4. Reach(m, s, k) /\ Pointer(5 - k, Slot(m, s, k))
  BY ReachStep
<1>5. Tab(n, s, k) = Tab(m, s, k)
  <2>1. PICK j \in 1 .. 4 : j = k
    OBVIOUS
  <2>2. Path(s, j - 1) /\ Reach(m, s, j)
    BY <1>1, <1>4, <2>1
  <2>3. Tab(n, s, j) = Tab(m, s, j)
    BY <1>2, <2>2, WriteKeepsWalks
  <2> QED BY <2>1, <2>3
<1>6. Tab(m, s, k) \in TableFrames /\ lv[Tab(m, s, k)] = 5 - k
  BY <1>1, <1>4, ReachLevel
<1>7. Slot(m, s, k) \subseteq Slot(n, s, k)
  <2>1. CASE Tab(m, s, k) = t /\ s[k] = i
    BY <1>1, <1>4, <1>5, <1>6, <2>1 DEF Slot, Written
  <2>2. CASE ~(Tab(m, s, k) = t /\ s[k] = i)
    BY <1>1, <1>5, <1>6, <2>2 DEF Slot, Written
  <2> QED BY <2>1, <2>2
<1> QED BY <1>3, <1>7

LEMMA NewTableWidens ==
  ASSUME NEW m \in Memory, NEW lv \in Books, IsTree(m, lv), NEW n,
         NEW t \in TableFrames, NEW i \in Index, m[t][i] = {}, lv[t] \in 2 .. 4,
         NEW f \in TableFrames, lv[f] = 0, NEW e, addr(e) = f, Hung(m, n, t, i, e, f)
  PROVE  Widens(m, n)
<1> SUFFICES ASSUME NEW s, NEW k \in 1 .. 3, Path(s, k), Reach(m, s, k + 1)
             PROVE  /\ Reach(n, s, k + 1) /\ Tab(n, s, k + 1) = Tab(m, s, k + 1)
                    /\ Slot(m, s, k) \subseteq Slot(n, s, k)
  BY DEF Widens
<1>1. s[k] \in Index /\ Path(s, k - 1) /\ Path(s, (k + 1) - 1) /\ k \in 1 .. 4 /\ k + 1 \in 1 .. 4
  BY DEF Path
<1>2. Reach(n, s, k + 1) /\ Tab(n, s, k + 1) = Tab(m, s, k + 1)
  <2>1. PICK j \in 1 .. 4 : j = k + 1
    BY <1>1
  <2>2. Path(s, j - 1) /\ Reach(m, s, j)
    BY <1>1, <2>1
  <2>3. /\ Reach(m, s, j) => Reach(n, s, j) /\ Tab(n, s, j) = Tab(m, s, j)
        /\ Reach(n, s, j) => Reach(m, s, j) \/ Tab(n, s, j) = f
    BY <2>2, NewTableKeepsWalks
  <2> QED BY <2>1, <2>2, <2>3
<1>3. Reach(m, s, k) /\ Pointer(5 - k, Slot(m, s, k))
  BY ReachStep
<1>4. Tab(n, s, k) = Tab(m, s, k)
  <2>1. PICK j \in 1 .. 4 : j = k
    OBVIOUS
  <2>2. Path(s, j - 1) /\ Reach(m, s, j)
    BY <1>1, <1>3, <2>1
  <2>3. /\ Reach(m, s, j) => Reach(n, s, j) /\ Tab(n, s, j) = Tab(m, s, j)
        /\ Reach(n, s, j) => Reach(m, s, j) \/ Tab(n, s, j) = f
    BY <2>2, NewTableKeepsWalks
  <2> QED BY <2>1, <2>2, <2>3
<1>5. Tab(m, s, k) \in TableFrames /\ lv[Tab(m, s, k)] = 5 - k
  BY <1>1, <1>3, ReachLevel
<1>6. Tab(m, s, k) # f /\ ~(Tab(m, s, k) = t /\ s[k] = i)
  BY <1>3, <1>5 DEF Slot, Pointer
<1>7. Slot(m, s, k) = Slot(n, s, k)
  BY <1>1, <1>4, <1>5, <1>6 DEF Slot, Hung
<1> QED BY <1>2, <1>7

LEMMA WidensTransitive ==
  ASSUME NEW m, NEW n, NEW o, Widens(m, n), Widens(n, o) PROVE Widens(m, o)
<1> SUFFICES ASSUME NEW s, NEW k \in 1 .. 3, Path(s, k), Reach(m, s, k + 1)
             PROVE  /\ Reach(o, s, k + 1) /\ Tab(o, s, k + 1) = Tab(m, s, k + 1)
                    /\ Slot(m, s, k) \subseteq Slot(o, s, k)
  BY DEF Widens
<1>1. /\ Reach(n, s, k + 1) /\ Tab(n, s, k + 1) = Tab(m, s, k + 1)
      /\ Slot(m, s, k) \subseteq Slot(n, s, k)
  BY DEF Widens
<1>2. /\ Reach(o, s, k + 1) /\ Tab(o, s, k + 1) = Tab(n, s, k + 1)
      /\ Slot(n, s, k) \subseteq Slot(o, s, k)
  BY <1>1 DEF Widens
<1> QED BY <1>1, <1>2

\* The slots of S are cleared, and the tables they named are given back.
Cleaned(m, n, S, freed) ==
  /\ \A h : h \in freed <=> \E f \in TableFrames, i \in Index : <<f, i>> \in S /\ addr(m[f][i]) = h
  /\ \A f \in TableFrames, i \in Index :
       f \notin freed => n[f][i] = IF <<f, i>> \in S THEN {} ELSE m[f][i]

\* The entries on the walk to a leaf are kept.
SamePaths(m, n) ==
  \A q, d : \A k \in 2 .. 4 : Path(q, k) /\ Leaf(m, q, k, d) =>
    \A j \in 1 .. k : Slot(n, q, j) = Slot(m, q, j)

\* Tables that are unused once S is cleared have no leaf below them.
LEMMA CleanUpKeepsLeaves ==
  ASSUME NEW m \in Memory, NEW lv \in Books, IsTree(m, lv), NEW S, Removable(m, lv, S),
         NEW n, NEW freed, Cleaned(m, n, S, freed)
  PROVE  SameLeaves(m, n) /\ SamePaths(m, n)
<1> SUFFICES ASSUME NEW q, NEW d, NEW k \in 2 .. 4, Path(q, k)
             PROVE  /\ Leaf(n, q, k, d) <=> Leaf(m, q, k, d)
                    /\ Leaf(m, q, k, d) => \A j \in 1 .. k : Slot(n, q, j) = Slot(m, q, j)
  BY DEF SameLeaves, SamePaths
<1>1. \A j \in 1 .. k : q[j] \in Index /\ Path(q, j - 1)
  BY DEF Path
<1>2. ASSUME NEW f \in TableFrames, NEW i \in Index, Pointer(lv[f], m[f][i]), <<f, i>> \notin S
      PROVE  addr(m[f][i]) \notin freed
  <2> SUFFICES ASSUME NEW g \in TableFrames, NEW j \in Index, <<g, j>> \in S,
                      addr(m[g][j]) = addr(m[f][i])
               PROVE  FALSE
    BY DEF Cleaned
  <2>1. Pointer(lv[g], m[g][j])
    BY DEF Removable
  <2>2. g = f /\ j = i
    BY <1>2, <2>1 DEF IsTree, NamedOnce
  <2> QED BY <1>2, <2>2
<1>3. Root \notin freed
  <2> SUFFICES ASSUME NEW g \in TableFrames, NEW j \in Index, <<g, j>> \in S,
                      addr(m[g][j]) = Root
               PROVE  FALSE
    BY DEF Cleaned
  <2>1. Pointer(lv[g], m[g][j])
    BY DEF Removable
  <2>2. lv[Root] = lv[g] - 1 /\ lv[Root] = 4 /\ lv[g] \in 2 .. 4
    BY <2>1, FramesAssumption DEF IsTree, PointersDown, RootIsTop, Pointer
  <2> QED BY <2>2
<1>4. ASSUME NEW f \in TableFrames, f \in freed, NEW i \in Index
      PROVE  m[f][i] = {} \/ <<f, i>> \in S
  <2>1. PICK g \in TableFrames, j \in Index : <<g, j>> \in S /\ addr(m[g][j]) = f
    BY <1>4 DEF Cleaned
  <2> QED BY <2>1 DEF Removable
<1>5. ASSUME Reach(n, q, k)
      PROVE  Reach(m, q, k) /\ Tab(n, q, k) = Tab(m, q, k) /\ Tab(m, q, k) \notin freed
  <2> DEFINE OK(j) == Reach(n, q, j) => /\ Reach(m, q, j) /\ Tab(n, q, j) = Tab(m, q, j)
                                        /\ Tab(m, q, j) \notin freed
  <2>1. OK(1)
    BY <1>3, ReachStep
  <2>2. ASSUME NEW j \in 1 .. 3, j < k, OK(j) PROVE OK(j + 1)
    <3> SUFFICES ASSUME Reach(n, q, j + 1)
                 PROVE  /\ Reach(m, q, j + 1) /\ Tab(n, q, j + 1) = Tab(m, q, j + 1)
                        /\ Tab(m, q, j + 1) \notin freed
      OBVIOUS
    <3>1. q[j] \in Index /\ Path(q, j - 1) /\ j \in 1 .. 4
      BY <1>1, <2>2
    <3>2. /\ Reach(n, q, j) /\ Pointer(5 - j, Slot(n, q, j))
          /\ Tab(n, q, j + 1) = addr(Slot(n, q, j))
      BY ReachStep
    <3>3. /\ Reach(m, q, j) /\ Tab(n, q, j) = Tab(m, q, j) /\ Tab(m, q, j) \notin freed
      BY <2>2, <3>2
    <3>4. Tab(m, q, j) \in TableFrames /\ lv[Tab(m, q, j)] = 5 - j
      BY <3>1, <3>3, ReachLevel
    <3>5. Slot(n, q, j) = Slot(m, q, j) /\ <<Tab(m, q, j), q[j]>> \notin S
      BY <3>1, <3>2, <3>3, <3>4 DEF Cleaned, Slot, Pointer
    <3>6. addr(Slot(m, q, j)) \notin freed
      BY <1>2, <3>1, <3>2, <3>4, <3>5 DEF Slot
    <3> QED BY <3>2, <3>3, <3>5, <3>6, ReachStep
  <2> HIDE DEF OK
  <2>3. k >= 2 => OK(2)
    BY <2>1, <2>2
  <2>4. k >= 3 => OK(3)
    BY <2>2, <2>3
  <2>5. k >= 4 => OK(4)
    BY <2>2, <2>4
  <2>6. OK(k)
    BY <2>3, <2>4, <2>5
  <2> QED BY <1>5, <2>6 DEF OK
<1>6. ASSUME Leaf(m, q, k, d)
      PROVE  /\ Reach(n, q, k) /\ Slot(n, q, k) = d
             /\ \A j \in 1 .. k : Slot(n, q, j) = Slot(m, q, j)
  <2> DEFINE Kept(j) == Tab(m, q, j) \notin freed /\ <<Tab(m, q, j), q[j]>> \notin S
  <2>1. \A j \in 1 .. 3 : j < k => Reach(m, q, j) /\ Pointer(5 - j, Slot(m, q, j))
    <3>1. Reach(m, q, 4) => Reach(m, q, 3) /\ Pointer(5 - 3, Slot(m, q, 3))
      BY ReachStep
    <3>2. Reach(m, q, 3) => Reach(m, q, 2) /\ Pointer(5 - 2, Slot(m, q, 2))
      BY ReachStep
    <3>3. Reach(m, q, 2) => Reach(m, q, 1) /\ Pointer(5 - 1, Slot(m, q, 1))
      BY ReachStep
    <3> QED BY <1>6, <3>1, <3>2, <3>3 DEF Leaf
  <2>2. \A j \in 1 .. k : Tab(m, q, j) \in TableFrames /\ lv[Tab(m, q, j)] = 5 - j
    <3> SUFFICES ASSUME NEW j \in 1 .. k
                 PROVE  Tab(m, q, j) \in TableFrames /\ lv[Tab(m, q, j)] = 5 - j
      OBVIOUS
    <3>1. Reach(m, q, j) /\ j \in 1 .. 4 /\ Path(q, j - 1)
      BY <1>1, <1>6, <2>1 DEF Leaf
    <3> QED BY <3>1, ReachLevel
  <2>3. Kept(k)
    <3>1. k \in 1 .. k /\ q[k] \in Index /\ Tab(m, q, k) \in TableFrames /\ lv[Tab(m, q, k)] = 5 - k
      BY <1>1, <2>2
    <3>2. m[Tab(m, q, k)][q[k]] # {} /\ ~Pointer(lv[Tab(m, q, k)], m[Tab(m, q, k)][q[k]])
      BY <1>6, <3>1 DEF Leaf, Slot
    <3>3. <<Tab(m, q, k), q[k]>> \notin S
      BY <3>1, <3>2 DEF Removable
    <3> QED BY <1>4, <3>1, <3>2, <3>3
  <2>4. ASSUME NEW j \in 1 .. 3, j < k, Kept(j + 1) PROVE Kept(j)
    <3>1. j \in 1 .. k /\ q[j] \in Index /\ Tab(m, q, j) \in TableFrames /\ lv[Tab(m, q, j)] = 5 - j
      BY <1>1, <2>2, <2>4
    <3>2. Pointer(5 - j, Slot(m, q, j)) /\ Tab(m, q, j + 1) = addr(Slot(m, q, j))
      BY <2>1, <2>4, ReachStep
    <3>3. <<Tab(m, q, j), q[j]>> \notin S
      BY <2>4, <3>1, <3>2 DEF Cleaned, Slot
    <3> QED BY <1>4, <3>1, <3>2, <3>3 DEF Slot, Pointer
  <2> HIDE DEF Kept
  <2>5. \A j \in 1 .. k : Kept(j)
    <3>1. CASE k = 2
      <4>1. Kept(1)
        BY <2>3, <2>4, <3>1
      <4> QED BY <2>3, <3>1, <4>1
    <3>2. CASE k = 3
      <4>1. Kept(2)
        BY <2>3, <2>4, <3>2
      <4>2. Kept(1)
        BY <2>4, <3>2, <4>1
      <4> QED BY <2>3, <3>2, <4>1, <4>2
    <3>3. CASE k = 4
      <4>1. Kept(3)
        BY <2>3, <2>4, <3>3
      <4>2. Kept(2)
        BY <2>4, <3>3, <4>1
      <4>3. Kept(1)
        BY <2>4, <3>3, <4>2
      <4> QED BY <2>3, <3>3, <4>1, <4>2, <4>3
    <3> QED BY <3>1, <3>2, <3>3
  <2>6. \A j \in 1 .. k : n[Tab(m, q, j)][q[j]] = m[Tab(m, q, j)][q[j]]
    BY <1>1, <2>2, <2>5 DEF Kept, Cleaned
  <2> DEFINE OK(j) == Reach(n, q, j) /\ Tab(n, q, j) = Tab(m, q, j)
  <2>7. OK(1)
    BY ReachStep
  <2>8. ASSUME NEW j \in 1 .. 3, j < k, OK(j) PROVE OK(j + 1)
    <3>1. Slot(n, q, j) = Slot(m, q, j)
      BY <2>6, <2>8 DEF Slot
    <3>2. Pointer(5 - j, Slot(m, q, j))
      BY <2>1, <2>8
    <3> QED BY <2>8, <3>1, <3>2, ReachStep
  <2> HIDE DEF OK
  <2>9. k >= 2 => OK(2)
    BY <2>7, <2>8
  <2>10. k >= 3 => OK(3)
    BY <2>8, <2>9
  <2>11. k >= 4 => OK(4)
    BY <2>8, <2>10
  <2>12. (\A j \in 1 .. k : OK(j)) /\ k \in 1 .. k
    BY <2>7, <2>9, <2>10, <2>11
  <2>13. \A j \in 1 .. k : Slot(n, q, j) = Slot(m, q, j)
    BY <2>6, <2>12 DEF OK, Slot
  <2> QED BY <1>6, <2>12, <2>13 DEF OK, Leaf
<1>7. ASSUME Leaf(n, q, k, d) PROVE Leaf(m, q, k, d)
  <2>1. /\ Reach(m, q, k) /\ Tab(n, q, k) = Tab(m, q, k) /\ Tab(m, q, k) \notin freed
        /\ k \in 1 .. k /\ k \in 1 .. 4
    BY <1>5, <1>7 DEF Leaf
  <2>2. Tab(m, q, k) \in TableFrames /\ q[k] \in Index
    BY <1>1, <2>1, ReachLevel
  <2>3. Slot(n, q, k) = Slot(m, q, k)
    BY <1>7, <2>1, <2>2 DEF Cleaned, Slot, Leaf
  <2> QED BY <1>7, <2>1, <2>3 DEF Leaf
<1> QED BY <1>6, <1>7 DEF Leaf

(***************************************************************************)
(* The walks of the code.                                                  *)
(***************************************************************************)
WalkTo(m, s, k) ==
  IF k = 1 THEN p4(m, s) ELSE IF k = 2 THEN p3(m, s) ELSE IF k = 3 THEN p2(m, s) ELSE p1(m, s)

LEMMA WalkStep ==
  ASSUME NEW m, NEW s, NEW k \in 1 .. 3
  PROVE  WalkTo(m, s, k + 1) = Descend(m, WalkTo(m, s, k), s[k])
BY DEF WalkTo, p3, p2, p1

LEMMA WalkReaches ==
  ASSUME NEW m \in Memory, NEW lv \in Books, IsTree(m, lv), NEW s, NEW k \in 1 .. 4,
         Path(s, k - 1)
  PROVE  /\ WalkTo(m, s, k).err = "None" <=> Reach(m, s, k)
         /\ Reach(m, s, k) => WalkTo(m, s, k).at = Tab(m, s, k)
<1> DEFINE OK(j) == /\ WalkTo(m, s, j).err = "None" <=> Reach(m, s, j)
                    /\ Reach(m, s, j) => WalkTo(m, s, j).at = Tab(m, s, j)
<1>1. OK(1)
  BY ReachStep DEF WalkTo, p4
<1>2. ASSUME NEW j \in 1 .. 3, j < k, OK(j) PROVE OK(j + 1)
  <2>1. s[j] \in Index /\ Path(s, j - 1)
    BY <1>2 DEF Path
  <2>2. WalkTo(m, s, j + 1) = Descend(m, WalkTo(m, s, j), s[j])
    BY WalkStep
  <2>3. CASE Reach(m, s, j)
    <3>1. Tab(m, s, j) \in TableFrames /\ lv[Tab(m, s, j)] = 5 - j /\ 5 - j \in 2 .. 4
      BY <2>1, <2>3, ReachLevel
    <3>2. WalkTo(m, s, j + 1) = next_table(Slot(m, s, j))
      BY <1>2, <2>2, <2>3 DEF Descend, Slot
    <3>3. /\ next_table(Slot(m, s, j)).err = "None" <=> Pointer(5 - j, Slot(m, s, j))
          /\ next_table(Slot(m, s, j)).at = addr(Slot(m, s, j))
      BY <2>1, <3>1, NextTableIsPointer DEF Slot
    <3> QED BY <2>3, <3>2, <3>3, ReachStep
  <2>4. CASE ~Reach(m, s, j)
    BY <1>2, <2>2, <2>4, ReachStep DEF Descend
  <2> QED BY <2>3, <2>4
<1> HIDE DEF OK
<1>3. k >= 2 => OK(2)
  BY <1>1, <1>2
<1>4. k >= 3 => OK(3)
  BY <1>2, <1>3
<1>5. k >= 4 => OK(4)
  BY <1>2, <1>4
<1>6. OK(k)
  BY <1>1, <1>3, <1>4, <1>5
<1> QED BY <1>6 DEF OK

\* The table and the entry of a page, or of a slot.
LEMMA EntryReached ==
  ASSUME NEW m \in Memory, NEW lv \in Books, IsTree(m, lv), NEW s, Len(s) \in 1 .. 4,
         Path(s, Len(s) - 1)
  PROVE  /\ TableOf(m, s).err = "None" <=> Reach(m, s, Len(s))
         /\ Reach(m, s, Len(s)) => /\ TableOf(m, s).at = Tab(m, s, Len(s))
                                   /\ EntryOf(m, s) = Slot(m, s, Len(s))
<1>1. TableOf(m, s) = WalkTo(m, s, Len(s))
  BY DEF TableOf, WalkTo
<1> QED BY <1>1, WalkReaches DEF EntryOf, Slot

\* What is not unused and not huge, above level 1, names a table.
LEMMA LeafIsHuge ==
  ASSUME NEW e, NEW n \in 2 .. 4
  PROVE  e # {} /\ ~Pointer(n, e) <=> HUGE_PAGE \in e
BY DEF Pointer

LEMMA PagePath ==
  ASSUME NEW p \in Pages
  PROVE  /\ Len(p) \in 2 .. 4 /\ Len(p) \in 1 .. 4 /\ Path(p, Len(p)) /\ Path(p, Len(p) - 1)
         /\ p[Len(p)] \in Index
<1>1. p \in Seq(Index) /\ Len(p) \in 2 .. 4
  BY MapperAssumption
<1>2. \A j \in 1 .. Len(p) : p[j] \in Index
  BY <1>1
<1> QED BY <1>1, <1>2 DEF Path

LEMMA SamePage ==
  ASSUME NEW p \in Pages, NEW q \in Pages, Len(p) = Len(q), Same(p, q, Len(p))
  PROVE  p = q
<1>1. p \in Seq(Index) /\ q \in Seq(Index)
  BY MapperAssumption
<1>2. \A j \in 1 .. Len(p) : p[j] = q[j]
  BY DEF Same
<1> QED BY <1>1, <1>2

(***************************************************************************)
(* The history.                                                            *)
(***************************************************************************)
\* The flags in the mask of addr() that a page of k indices may carry.
PatOK(f, k) == f \cap AddrBits \subseteq IF k = 4 THEN {} ELSE Below2MiB
EntrySays(e, t, k) ==
  /\ addr(e) = t.frame \cup (t.flags \cap AddrBits) /\ is_aligned(t.frame, k)
  /\ PatOK(t.flags, k)
  /\ t.flags \subseteq e /\ e \subseteq t.flags \cup ParentFlags \cup AddrBits

\* The caller was told of a page with the first k indices of s.
Expected(tl, s, k) == \E p \in Pages : Len(p) = k /\ Same(s, p, k) /\ tl[p] # NotTold

\* Every page that was mapped and not unmapped since has its leaf, and there are no others.
ToldOK(m, tl) ==
  /\ \A p \in Pages : tl[p] # NotTold =>
       \E e : Leaf(m, p, Len(p), e) /\ EntrySays(e, tl[p], Len(p))
  /\ \A s, e : \A k \in 2 .. 4 : Path(s, k) /\ Leaf(m, s, k, e) => Expected(tl, s, k)

LEMMA ToldSame ==
  ASSUME NEW m, NEW n, NEW tl, SameLeaves(m, n), ToldOK(m, tl)
  PROVE  ToldOK(n, tl)
<1>1. ASSUME NEW p \in Pages, tl[p] # NotTold
      PROVE  \E e : Leaf(n, p, Len(p), e) /\ EntrySays(e, tl[p], Len(p))
  <2>1. PICK e : Leaf(m, p, Len(p), e) /\ EntrySays(e, tl[p], Len(p))
    BY <1>1 DEF ToldOK
  <2>2. Leaf(n, p, Len(p), e)
    BY <2>1, PagePath DEF SameLeaves
  <2> QED BY <2>1, <2>2
<1>2. ASSUME NEW s, NEW e, NEW k \in 2 .. 4, Path(s, k), Leaf(n, s, k, e)
      PROVE  Expected(tl, s, k)
  <2>1. Leaf(m, s, k, e)
    BY <1>2 DEF SameLeaves
  <2> QED BY <1>2, <2>1 DEF ToldOK
<1> QED BY <1>1, <1>2 DEF ToldOK

\* A map_to that fails on a huge page has given it the flags of a parent.
LEMMA ToldWidened ==
  ASSUME NEW m, NEW n, NEW tl, ToldOK(m, tl), NEW s, NEW k \in 2 .. 4, Path(s, k),
         NEW e, Leaf(m, s, k, e), NEW pf, pf \subseteq ParentFlags, pf \cap AddrBits = {},
         LeafBecomes(m, n, s, k, e \cup pf)
  PROVE  ToldOK(n, tl)
<1>1. ASSUME NEW p \in Pages, tl[p] # NotTold
      PROVE  \E d : Leaf(n, p, Len(p), d) /\ EntrySays(d, tl[p], Len(p))
  <2>1. PICK d : Leaf(m, p, Len(p), d) /\ EntrySays(d, tl[p], Len(p))
    BY <1>1 DEF ToldOK
  <2>2. CASE Len(p) = k /\ Same(p, s, k)
    <3>1. Same(s, p, k - 1) /\ p[k] = s[k] /\ k \in 1 .. 4
      BY <2>2 DEF Same
    <3>2. Tab(m, s, k) = Tab(m, p, k)
      BY <3>1, ReachSame
    <3>3. d = e
      BY <2>1, <2>2, <3>1, <3>2 DEF Leaf, Slot
    <3>4. Leaf(n, p, Len(p), e \cup pf)
      <4>1. e \cup pf # {}
        BY DEF Leaf
      <4> QED BY <2>2, <4>1, PagePath DEF LeafBecomes
    <3>5. EntrySays(e \cup pf, tl[p], Len(p))
      BY <2>1, <3>3 DEF EntrySays, addr
    <3> QED BY <3>4, <3>5
  <2>3. CASE ~(Len(p) = k /\ Same(p, s, k))
    <3>1. Leaf(n, p, Len(p), d)
      BY <2>1, <2>3, PagePath DEF LeafBecomes
    <3> QED BY <2>1, <3>1
  <2> QED BY <2>2, <2>3
<1>2. ASSUME NEW q, NEW d, NEW j \in 2 .. 4, Path(q, j), Leaf(n, q, j, d)
      PROVE  Expected(tl, q, j)
  <2>1. CASE j = k /\ Same(q, s, k)
    <3>1. Expected(tl, s, k)
      BY DEF ToldOK
    <3>2. PICK p \in Pages : Len(p) = k /\ Same(s, p, k) /\ tl[p] # NotTold
      BY <3>1 DEF Expected
    <3>3. Same(q, p, j)
      BY <2>1, <3>2 DEF Same
    <3> QED BY <2>1, <3>2, <3>3 DEF Expected
  <2>2. CASE ~(j = k /\ Same(q, s, k))
    <3>1. Leaf(m, q, j, d)
      BY <1>2, <2>2 DEF LeafBecomes
    <3> QED BY <1>2, <3>1 DEF ToldOK
  <2> QED BY <2>1, <2>2
<1> QED BY <1>1, <1>2 DEF ToldOK

\* A page is mapped or unmapped, or its flags change, and the caller is told.
LEMMA ToldWritten ==
  ASSUME NEW m, NEW n, NEW tl, DOMAIN tl = Pages, ToldOK(m, tl), NEW page \in Pages,
         NEW e, LeafBecomes(m, n, page, Len(page), e), NEW x,
         \/ e # {} /\ EntrySays(e, x, Len(page)) /\ x # NotTold
         \/ e = {} /\ x = NotTold,
         NEW tn, tn = [tl EXCEPT ![page] = x]
  PROVE  ToldOK(n, tn)
<1>1. /\ tn[page] = x
      /\ \A p \in Pages : p # page => tn[p] = tl[p]
  OBVIOUS
<1>2. ASSUME NEW p \in Pages, tn[p] # NotTold
      PROVE  \E d : Leaf(n, p, Len(p), d) /\ EntrySays(d, tn[p], Len(p))
  <2>1. CASE p = page
    <3>1. e # {} /\ EntrySays(e, x, Len(page))
      BY <1>1, <1>2, <2>1
    <3>2. Same(page, page, Len(page))
      BY DEF Same
    <3>3. Leaf(n, page, Len(page), e)
      BY <3>1, <3>2, PagePath DEF LeafBecomes
    <3> QED BY <1>1, <2>1, <3>1, <3>3
  <2>2. CASE p # page
    <3>1. PICK d : Leaf(m, p, Len(p), d) /\ EntrySays(d, tl[p], Len(p))
      BY <1>1, <1>2, <2>2 DEF ToldOK
    <3>2. ~(Len(p) = Len(page) /\ Same(p, page, Len(page)))
      BY <2>2, SamePage
    <3>3. Leaf(n, p, Len(p), d)
      BY <3>1, <3>2, PagePath DEF LeafBecomes
    <3> QED BY <1>1, <2>2, <3>1, <3>3
  <2> QED BY <2>1, <2>2
<1>3. ASSUME NEW q, NEW d, NEW j \in 2 .. 4, Path(q, j), Leaf(n, q, j, d)
      PROVE  Expected(tn, q, j)
  <2>1. CASE j = Len(page) /\ Same(q, page, Len(page))
    <3>1. e # {}
      BY <1>3, <2>1 DEF LeafBecomes
    <3>2. tn[page] # NotTold
      BY <1>1, <3>1
    <3> QED BY <2>1, <3>2 DEF Expected
  <2>2. CASE ~(j = Len(page) /\ Same(q, page, Len(page)))
    <3>1. Leaf(m, q, j, d)
      BY <1>3, <2>2 DEF LeafBecomes
    <3>2. PICK p \in Pages : Len(p) = j /\ Same(q, p, j) /\ tl[p] # NotTold
      BY <1>3, <3>1 DEF ToldOK, Expected
    <3>3. p # page
      BY <2>2, <3>2
    <3> QED BY <1>1, <3>2, <3>3 DEF Expected
  <2> QED BY <2>1, <2>2
<1> QED BY <1>2, <1>3 DEF ToldOK

(***************************************************************************)
(* map_to_with_table_flags.                                                *)
(***************************************************************************)
\* What create_next_table does, by outcome.
NoFrame(c, d) == d.err = "FrameAllocationFailed" /\ d.mem = c.mem
NewTable(c, i, pf, d, f) ==
  /\ c.level[f] = 0 /\ c.mem[c.at][i] = {} /\ d.err = "None" /\ d.at = f
  /\ Hung(c.mem, d.mem, c.at, i, f \cup pf, f)
OldTable(c, i, pf, d) ==
  /\ c.mem[c.at][i] # {} /\ Written(c.mem, d.mem, c.at, i, c.mem[c.at][i] \cup pf)
  /\ d.err = "None" => d.at = addr(c.mem[c.at][i])
  /\ d.err = IF HUGE_PAGE \in c.mem[c.at][i] THEN "ParentEntryHugePage" ELSE "None"

\* New tables get the flags nf, tables found the flags pf besides those they have.
CreateStep(c, i, nf, pf, d) ==
  \/ NoFrame(c, d)
  \/ \E f \in TableFrames : NewTable(c, i, nf, d, f)
  \/ OldTable(c, i, pf, d)
FlagsOK(f) == f \in SUBSET FlagBits /\ f \cap AddrBits = {} /\ HUGE_PAGE \notin f

LEMMA InsertFlagsJoins ==
  ASSUME NEW e \in Entry, NEW pf \in SUBSET FlagBits
  PROVE  InsertFlags(e, pf) = e \cup pf
<1>1. CASE pf # {} /\ ~(pf \subseteq flags(e))
  <2>1. InsertFlags(e, pf) = addr(e) \cup (flags(e) \cup pf)
    BY <1>1 DEF InsertFlags, set_flags
  <2> QED BY <2>1 DEF addr, flags, Entry
<1>2. CASE ~(pf # {} /\ ~(pf \subseteq flags(e)))
  <2>1. InsertFlags(e, pf) = e
    BY <1>2 DEF InsertFlags
  <2> QED BY <1>2, <2>1 DEF flags
<1> QED BY <1>1, <1>2

LEMMA CreateNextTableCases ==
  ASSUME NEW c, NEW n \in 2 .. 4, CallOK(c, n), c.err = "None", NEW i \in Index,
         NEW pf, ParentOK(pf), NEW d \in create_next_table(c, i, pf)
  PROVE  CreateStep(c, i, pf, pf, d)
<1> DEFINE e == c.mem[c.at][i]
           free == {f \in TableFrames : c.level[f] = 0}
           new(f) == Follow([c.mem EXCEPT ![c.at][i] = set_addr(f, pf)],
                            [c.level EXCEPT ![f] = c.level[c.at] - 1],
                            set_addr(f, pf), TRUE)
           w == InsertFlags(e, pf)
           old == Follow([c.mem EXCEPT ![c.at][i] = w], c.level, w, FALSE)
<1>0. /\ c \in Call /\ c.mem \in Memory /\ c.level \in Books
      /\ c.at \in TableFrames /\ c.level[c.at] = n
      /\ pf \in SUBSET FlagBits /\ pf \cap AddrBits = {}
      /\ PRESENT \in pf /\ HUGE_PAGE \notin pf
  BY DEF CallOK, Call, ParentOK
<1>1. \/ e = {} /\ d = [c EXCEPT !.err = "FrameAllocationFailed"]
      \/ e = {} /\ \E f \in free : d = new(f)
      \/ e # {} /\ d = old
  BY DEF create_next_table, is_unused
<1>2. CASE d = [c EXCEPT !.err = "FrameAllocationFailed"]
  <2>1. NoFrame(c, d)
    BY <1>0, <1>2 DEF NoFrame, Call
  <2> QED BY <2>1 DEF CreateStep
<1>3. CASE e = {} /\ \E f \in free : d = new(f)
  <2>1. PICK f \in TableFrames : c.level[f] = 0 /\ d = new(f)
    BY <1>3
  <2> DEFINE x == set_addr(f, pf)
             m2 == [[c.mem EXCEPT ![c.at][i] = x] EXCEPT ![f] = ZeroTable]
  <2>2. f \in SUBSET AddrBits
    BY FramesAssumption
  <2>3. x \in Entry /\ addr(x) = f /\ PRESENT \in x /\ HUGE_PAGE \notin x
    BY <1>0, <2>2, AddrOfSetAddr, BitsAssumption
  <2>4. next_table(x) = [err |-> "None", at |-> f]
    BY <2>3, BitsAssumption DEF next_table, flags
  <2>5. d.mem = m2 /\ d.at = f /\ d.err = "None"
    BY <2>1, <2>4 DEF Follow
  <2>6. \A g \in TableFrames, j \in Index :
          m2[g][j] = IF g = f THEN {} ELSE IF g = c.at /\ j = i THEN x ELSE c.mem[g][j]
    BY <1>0 DEF Memory, Table, ZeroTable
  <2>7. NewTable(c, i, pf, d, f)
    <3> HIDE DEF m2
    <3> QED BY <1>3, <2>1, <2>5, <2>6 DEF NewTable, Hung, set_addr
  <2> QED BY <2>7 DEF CreateStep
<1>4. CASE e # {} /\ d = old
  <2>1. e \in Entry
    BY <1>0 DEF Memory, Table
  <2>2. w = e \cup pf
    BY <1>0, <2>1, InsertFlagsJoins
  <2>3. addr(w) = addr(e) /\ (HUGE_PAGE \in w <=> HUGE_PAGE \in e) /\ PRESENT \in w
    BY <1>0, <2>2 DEF addr
  <2>4. next_table(w) = [err |-> IF HUGE_PAGE \in w THEN "MappedToHugePage" ELSE "None",
                         at  |-> addr(e)]
    BY <2>3, BitsAssumption DEF next_table, flags
  <2> DEFINE m2 == [c.mem EXCEPT ![c.at][i] = w]
  <2>5. /\ d.mem = m2 /\ d.at = addr(e)
        /\ d.err = IF HUGE_PAGE \in e THEN "ParentEntryHugePage" ELSE "None"
    BY <1>4, <2>3, <2>4 DEF Follow
  <2>6. \A g \in TableFrames, j \in Index :
          m2[g][j] = IF g = c.at /\ j = i THEN w ELSE c.mem[g][j]
    BY <1>0 DEF Memory, Table
  <2>7. OldTable(c, i, pf, d)
    <3> HIDE DEF m2, w
    <3> QED BY <1>4, <2>2, <2>5, <2>6 DEF OldTable, Written
  <2> QED BY <2>7 DEF CreateStep
<1> QED BY <1>1, <1>2, <1>3, <1>4 DEF CreateStep

\* A huge page around page s, whose entry got the flags of a parent.
Blocked(m, n, s, pf) ==
  \E j \in 2 .. 3, e \in Entry :
    Path(s, j) /\ Leaf(m, s, j, e) /\ LeafBecomes(m, n, s, j, e \cup pf)

\* A call for the page s that began with memory m and stands at depth k: unless it met
\* a huge page on the way, the mappings are as they were.
Progress(m, c, s, k, pf) ==
  /\ Widens(m, c.mem)
  /\ c.err # "ParentEntryHugePage" => SameLeaves(m, c.mem)
  /\ c.err = "None" => /\ Reach(c.mem, s, k) /\ c.at = Tab(c.mem, s, k)
                       /\ \A j \in 1 .. k - 1 : pf \subseteq Slot(c.mem, s, j)
  /\ c.err = "ParentEntryHugePage" => Blocked(m, c.mem, s, pf)

LEMMA NextTableProgress ==
  ASSUME NEW c, NEW k \in 1 .. 3, CallOK(c, 5 - k), c.err = "None", NEW s, Path(s, k),
         Reach(c.mem, s, k), c.at = Tab(c.mem, s, k),
         NEW nf, ParentOK(nf), NEW pf, FlagsOK(pf), pf \subseteq nf,
         NEW d, CreateStep(c, s[k], nf, pf, d)
  PROVE  /\ Widens(c.mem, d.mem)
         /\ d.err # "ParentEntryHugePage" => SameLeaves(c.mem, d.mem)
         /\ d.err = "None" => /\ Reach(d.mem, s, k + 1) /\ d.at = Tab(d.mem, s, k + 1)
                              /\ pf \subseteq Slot(d.mem, s, k)
         /\ d.err = "ParentEntryHugePage" => Blocked(c.mem, d.mem, s, pf)
<1> DEFINE i == s[k]
           e == c.mem[c.at][i]
<1>1. i \in Index /\ Path(s, k - 1) /\ k \in 1 .. 4 /\ 5 - k \in 2 .. 4
  BY DEF Path
<1>2. /\ c.mem \in Memory /\ c.level \in Books /\ IsTree(c.mem, c.level)
      /\ c.at \in TableFrames /\ c.level[c.at] = 5 - k
      /\ nf \in SUBSET FlagBits /\ nf \cap AddrBits = {} /\ PRESENT \in nf /\ HUGE_PAGE \notin nf
      /\ pf \in SUBSET FlagBits /\ pf \cap AddrBits = {} /\ HUGE_PAGE \notin pf
  BY DEF CallOK, Call, ParentOK, FlagsOK
<1>3. \/ NoFrame(c, d)
      \/ \E f \in TableFrames : NewTable(c, i, nf, d, f)
      \/ OldTable(c, i, pf, d)
  BY DEF CreateStep
<1>4. Slot(c.mem, s, k) = e
  BY DEF Slot
<1>5. e \in Entry
  BY <1>1, <1>2 DEF Memory, Table
<1>6. CASE NoFrame(c, d)
  BY <1>6 DEF NoFrame, Widens, SameLeaves
<1>7. ASSUME NEW f \in TableFrames, NewTable(c, i, nf, d, f)
      PROVE  /\ Widens(c.mem, d.mem) /\ SameLeaves(c.mem, d.mem)
             /\ Reach(d.mem, s, k + 1) /\ d.at = Tab(d.mem, s, k + 1)
             /\ pf \subseteq Slot(d.mem, s, k) /\ d.err = "None"
  <2> DEFINE x == f \cup nf
  <2>1. /\ c.level[f] = 0 /\ e = {} /\ d.err = "None" /\ d.at = f
        /\ Hung(c.mem, d.mem, c.at, i, x, f)
    BY <1>7 DEF NewTable
  <2>2. addr(x) = f /\ Pointer(5 - k, x)
    BY <1>1, <1>2, FramesAssumption, BitsAssumption DEF addr, Pointer
  <2> HIDE DEF x, i
  <2>3. Widens(c.mem, d.mem)
    BY <1>1, <1>2, <2>1, <2>2, NewTableWidens
  <2>4. SameLeaves(c.mem, d.mem)
    BY <1>1, <1>2, <2>1, <2>2, NewTableKeepsLeaves
  <2>5. Reach(d.mem, s, k) /\ Tab(d.mem, s, k) = Tab(c.mem, s, k)
    <3>1. PICK j \in 1 .. 4 : j = k
      OBVIOUS
    <3>2. Path(s, j - 1) /\ Reach(c.mem, s, j)
      BY <1>1, <3>1
    <3>3. /\ Reach(c.mem, s, j) => Reach(d.mem, s, j) /\ Tab(d.mem, s, j) = Tab(c.mem, s, j)
          /\ Reach(d.mem, s, j) => Reach(c.mem, s, j) \/ Tab(d.mem, s, j) = f
      <4>1. PICK m \in Memory, lv \in Books, t \in TableFrames, h \in Index :
              m = c.mem /\ lv = c.level /\ t = c.at /\ h = i
        BY <1>1, <1>2
      <4>2. PICK n, y : n = d.mem /\ y = x
        OBVIOUS
      <4>3. /\ IsTree(m, lv) /\ m[t][h] = {} /\ lv[t] \in 2 .. 4 /\ lv[f] = 0
            /\ addr(y) = f /\ Hung(m, n, t, h, y, f) /\ Path(s, j - 1)
        BY <1>1, <1>2, <2>1, <2>2, <3>2, <4>1, <4>2
      <4>4. /\ Reach(m, s, j) => Reach(n, s, j) /\ Tab(n, s, j) = Tab(m, s, j)
            /\ Reach(n, s, j) => Reach(m, s, j) \/ Tab(n, s, j) = f
        BY <4>3, NewTableKeepsWalks
      <4> QED BY <4>1, <4>2, <4>4
    <3> QED BY <3>1, <3>2, <3>3
  <2>6. Slot(d.mem, s, k) = x
    <3>1. c.at # f
      BY <1>1, <1>2, <2>1
    <3> QED BY <1>1, <1>2, <2>1, <2>5, <3>1 DEF Slot, Hung, i
  <2>7. Reach(d.mem, s, k + 1) /\ Tab(d.mem, s, k + 1) = addr(x)
    BY <2>2, <2>5, <2>6, ReachStep
  <2> QED BY <2>1, <2>2, <2>3, <2>4, <2>6, <2>7 DEF x
<1>8. CASE OldTable(c, i, pf, d)
  <2> DEFINE w == e \cup pf
  <2>1. /\ e # {} /\ Written(c.mem, d.mem, c.at, i, w) /\ (d.err = "None" => d.at = addr(e))
        /\ d.err = IF HUGE_PAGE \in e THEN "ParentEntryHugePage" ELSE "None"
    BY <1>8 DEF OldTable
  <2>2. /\ addr(w) = addr(e) /\ e \subseteq w /\ w # {} /\ (HUGE_PAGE \in w <=> HUGE_PAGE \in e)
        /\ pf \subseteq w
    BY <1>2, <2>1 DEF addr
  <2>3. Pointer(5 - k, w) <=> Pointer(5 - k, e)
    BY <2>1, <2>2 DEF Pointer
  <2> HIDE DEF w, i
  <2>4. Widens(c.mem, d.mem)
    <3>1. /\ Pointer(c.level[c.at], w) <=> Pointer(c.level[c.at], c.mem[c.at][i])
          /\ Pointer(c.level[c.at], w) =>
               addr(w) = addr(c.mem[c.at][i]) /\ c.mem[c.at][i] \subseteq w
      BY <1>2, <2>2, <2>3
    <3> HIDE DEF e
    <3> QED BY <1>1, <1>2, <2>1, <3>1, WriteWidens
  <2>5. CASE HUGE_PAGE \notin e
    <3>1. Pointer(5 - k, e)
      BY <1>1, <2>1, <2>5 DEF Pointer
    <3>2. SameLeaves(c.mem, d.mem)
      <4>1. /\ Pointer(c.level[c.at], w) /\ Pointer(c.level[c.at], c.mem[c.at][i])
            /\ addr(w) = addr(c.mem[c.at][i])
        BY <1>2, <2>2, <2>3, <3>1
      <4> HIDE DEF e
      <4> QED BY <1>1, <1>2, <2>1, <4>1, FlagsKeepLeaves
    <3>3. Reach(d.mem, s, k) /\ Tab(d.mem, s, k) = Tab(c.mem, s, k)
      <4>1. /\ Pointer(c.level[c.at], w) /\ Pointer(c.level[c.at], c.mem[c.at][i])
            /\ addr(w) = addr(c.mem[c.at][i])
        BY <1>2, <2>2, <2>3, <3>1
      <4> HIDE DEF e
      <4>2. SameWalks(c.mem, d.mem)
        BY <1>1, <1>2, <2>1, <4>1, FlagsKeepWalks
      <4> QED BY <1>1, <4>2 DEF SameWalks
    <3>4. Slot(d.mem, s, k) = w
      BY <1>1, <1>2, <2>1, <3>3 DEF Slot, Written, i
    <3>5. Reach(d.mem, s, k + 1) /\ Tab(d.mem, s, k + 1) = addr(w)
      BY <2>3, <3>1, <3>3, <3>4, ReachStep
    <3> QED BY <2>1, <2>2, <2>4, <2>5, <3>2, <3>4, <3>5
  <2>6. CASE HUGE_PAGE \in e
    <3>1. k # 1
      <4>1. k = 1 => c.at = Root
        BY ReachStep
      <4> QED BY <1>1, <1>2, <2>6, <4>1 DEF IsTree, RootIsTop
    <3>2. k \in 2 .. 3 /\ k \in 2 .. 4 /\ ~Pointer(5 - k, e)
      BY <2>6, <3>1 DEF Pointer
    <3>3. Leaf(c.mem, s, k, e)
      BY <1>4, <2>1, <3>2 DEF Leaf
    <3>4. LeafBecomes(c.mem, d.mem, s, k, w)
      <4>1. Written(c.mem, d.mem, Tab(c.mem, s, k), s[k], w)
        BY <2>1 DEF i
      <4>2. ~Pointer(5 - k, w) /\ ~Pointer(5 - k, Slot(c.mem, s, k))
        BY <1>4, <2>3, <3>2
      <4> HIDE DEF e
      <4> QED BY <1>2, <3>2, <4>1, <4>2, LeafWritten
    <3>5. Blocked(c.mem, d.mem, s, pf)
      BY <1>5, <3>2, <3>3, <3>4 DEF Blocked, w
    <3> QED BY <2>1, <2>4, <2>6, <3>5
  <2> QED BY <2>5, <2>6
<1> QED BY <1>3, <1>6, <1>7, <1>8

LEMMA ProgressStep ==
  ASSUME NEW m, NEW c, NEW k \in 1 .. 3, CallOK(c, 5 - k), NEW s, Path(s, k),
         NEW nf, ParentOK(nf), NEW pf, FlagsOK(pf), pf \subseteq nf, Progress(m, c, s, k, pf),
         NEW d, c.err # "None" => d = c, c.err = "None" => CreateStep(c, s[k], nf, pf, d)
  PROVE  Progress(m, d, s, k + 1, pf)
<1>1. CASE c.err # "None"
  <2>1. d = c
    BY <1>1
  <2> QED BY <1>1, <2>1 DEF Progress
<1>2. CASE c.err = "None"
  <2>1. /\ Widens(m, c.mem) /\ SameLeaves(m, c.mem)
        /\ Reach(c.mem, s, k) /\ c.at = Tab(c.mem, s, k)
        /\ \A j \in 1 .. k - 1 : pf \subseteq Slot(c.mem, s, j)
    BY <1>2 DEF Progress
  <2>2. /\ Widens(c.mem, d.mem)
        /\ d.err # "ParentEntryHugePage" => SameLeaves(c.mem, d.mem)
        /\ d.err = "None" => /\ Reach(d.mem, s, k + 1) /\ d.at = Tab(d.mem, s, k + 1)
                             /\ pf \subseteq Slot(d.mem, s, k)
        /\ d.err = "ParentEntryHugePage" => Blocked(c.mem, d.mem, s, pf)
    BY <1>2, <2>1, NextTableProgress
  <2>3. Widens(m, d.mem)
    BY <2>1, <2>2, WidensTransitive
  <2>4. SameLeaves(c.mem, d.mem) => SameLeaves(m, d.mem)
    BY <2>1 DEF SameLeaves
  <2>5. ASSUME d.err = "None" PROVE \A j \in 1 .. k : pf \subseteq Slot(d.mem, s, j)
    <3> SUFFICES ASSUME NEW j \in 1 .. k PROVE pf \subseteq Slot(d.mem, s, j)
      OBVIOUS
    <3>1. CASE j = k
      BY <2>2, <2>5, <3>1
    <3>2. CASE j # k
      <4>1. j \in 1 .. 3 /\ j \in 1 .. k - 1 /\ j + 1 \in 1 .. k /\ k \in 1 .. 4 /\ Path(s, j)
        BY <3>2 DEF Path
      <4>2. Reach(c.mem, s, j + 1)
        BY <2>1, <4>1, ReachBefore
      <4>3. Slot(c.mem, s, j) \subseteq Slot(d.mem, s, j)
        BY <2>2, <4>1, <4>2 DEF Widens
      <4> QED BY <2>1, <4>1, <4>3
    <3> QED BY <3>1, <3>2
  <2>6. ASSUME Blocked(c.mem, d.mem, s, pf) PROVE Blocked(m, d.mem, s, pf)
    <3>1. PICK j \in 2 .. 3, e \in Entry :
            Path(s, j) /\ Leaf(c.mem, s, j, e) /\ LeafBecomes(c.mem, d.mem, s, j, e \cup pf)
      BY <2>6 DEF Blocked
    <3>2. LeafBecomes(m, d.mem, s, j, e \cup pf)
      BY <2>1, <3>1 DEF LeafBecomes, SameLeaves
    <3>3. Leaf(m, s, j, e)
      <4>1. j \in 2 .. 4
        OBVIOUS
      <4> QED BY <2>1, <3>1, <4>1 DEF SameLeaves
    <3> QED BY <3>1, <3>2, <3>3 DEF Blocked
  <2>7. (k + 1) - 1 = k
    OBVIOUS
  <2> QED BY <2>2, <2>3, <2>4, <2>5, <2>6, <2>7 DEF Progress
<1> QED BY <1>1, <1>2

LEMMA ParentsProgress ==
  ASSUME NEW page \in Pages, NEW pf, ParentOK(pf), CallOK(Begin, 4),
         NEW c \in create_parents(page, pf)
  PROVE  Progress(mem, c, page, Len(page), pf)
<1>1. page \in Seq(Index) /\ Len(page) \in 2 .. 4
  BY MapperAssumption
<1>0. FlagsOK(pf) /\ pf \subseteq pf
  BY DEF ParentOK, FlagsOK
<1>c. ASSUME NEW b, NEW n \in 2 .. 4, CallOK(b, n), NEW i \in Index,
             NEW d \in create_next_table(b, i, pf)
      PROVE  /\ b.err # "None" => d = b
             /\ b.err = "None" => CreateStep(b, i, pf, pf, d)
  <2>1. b.err # "None" => d = b
    BY <1>c DEF create_next_table
  <2> QED BY <1>c, <2>1, CreateNextTableCases
<1>2. page[1] \in Index /\ page[2] \in Index /\ Path(page, 1) /\ Path(page, 2)
  BY <1>1 DEF Path
<1>3. Progress(mem, Begin, page, 1, pf) /\ CallOK(Begin, 5 - 1)
  BY ReachStep DEF Progress, Begin, Widens, SameLeaves
<1>4. \A d \in create_p3(page, pf) : Progress(mem, d, page, 2, pf) /\ CallOK(d, 3)
  <2>1. ASSUME NEW d \in create_p3(page, pf)
        PROVE  Progress(mem, d, page, 1 + 1, pf) /\ CallOK(d, 4 - 1)
    <3>1. d \in create_next_table(Begin, page[1], pf)
      BY DEF create_p3
    <3>2. CallOK(d, 4 - 1)
      BY <1>2, <3>1, CreateNextTableOK
    <3>c. /\ Begin.err # "None" => d = Begin
          /\ Begin.err = "None" => CreateStep(Begin, page[1], pf, pf, d)
      BY <1>2, <1>c, <3>1
    <3>3. Progress(mem, d, page, 1 + 1, pf)
      BY <1>0, <1>2, <1>3, <3>c, ProgressStep
    <3> QED BY <3>2, <3>3
  <2> QED BY <2>1
<1>5. \A d \in create_p2(page, pf) : Progress(mem, d, page, 3, pf) /\ CallOK(d, 2)
  <2>1. ASSUME NEW d \in create_p2(page, pf)
        PROVE  Progress(mem, d, page, 2 + 1, pf) /\ CallOK(d, 3 - 1)
    <3>1. PICK b \in create_p3(page, pf) : d \in create_next_table(b, page[2], pf)
      BY DEF create_p2
    <3>2. CallOK(b, 3) /\ CallOK(b, 5 - 2) /\ Progress(mem, b, page, 2, pf)
      BY <1>4
    <3>3. CallOK(d, 3 - 1)
      BY <1>2, <3>1, <3>2, CreateNextTableOK
    <3>c. /\ b.err # "None" => d = b
          /\ b.err = "None" => CreateStep(b, page[2], pf, pf, d)
      BY <1>2, <1>c, <3>1, <3>2
    <3>4. Progress(mem, d, page, 2 + 1, pf)
      BY <1>0, <1>2, <3>2, <3>c, ProgressStep
    <3> QED BY <3>3, <3>4
  <2> QED BY <2>1
<1>6. Len(page) = 4 => \A d \in create_p1(page, pf) : Progress(mem, d, page, 4, pf)
  <2>1. ASSUME Len(page) = 4, NEW d \in create_p1(page, pf)
        PROVE  Progress(mem, d, page, 3 + 1, pf)
    <3>1. PICK b \in create_p2(page, pf) : d \in create_next_table(b, page[3], pf)
      BY DEF create_p1
    <3>2. CallOK(b, 5 - 3) /\ CallOK(b, 2) /\ Progress(mem, b, page, 3, pf)
      BY <1>5
    <3>3. Path(page, 3)
      <4>1. Path(page, 4)
        BY <2>1, PagePath
      <4> QED BY <4>1 DEF Path
    <3>c. /\ b.err # "None" => d = b
          /\ b.err = "None" => CreateStep(b, page[3], pf, pf, d)
      <4>1. page[3] \in Index
        BY <3>3 DEF Path
      <4> QED BY <1>c, <3>1, <3>2, <4>1
    <3> QED BY <1>0, <3>2, <3>3, <3>c, ProgressStep
  <2> QED BY <2>1
<1>7. CASE Len(page) = 2
  BY <1>4, <1>7 DEF create_parents
<1>8. CASE Len(page) = 3
  BY <1>5, <1>8 DEF create_parents
<1>9. CASE Len(page) = 4
  BY <1>6, <1>9 DEF create_parents
<1> QED BY <1>1, <1>7, <1>8, <1>9

LEMMA WriteLeafEffect ==
  ASSUME NEW page \in Pages, NEW frame \in SUBSET AddrBits, NEW f \in SUBSET FlagBits,
         NEW c, CallOK(c, LevelOf(page)), c.err = "None",
         Reach(c.mem, page, Len(page)), c.at = Tab(c.mem, page, Len(page)),
         NEW d, d = WriteLeaf(c, page, frame, f)
  PROVE  \/ d.err = "PageAlreadyMapped" /\ d.mem = c.mem
         \/ /\ d.err = "None" /\ Widens(c.mem, d.mem)
            /\ LeafBecomes(c.mem, d.mem, page, Len(page), set_addr(frame, LeafBits(page, f)))
            /\ NoLeaf(c.mem, page)
<1> DEFINE i == page[Len(page)]
           e == set_addr(frame, LeafBits(page, f))
<1>1. /\ i \in Index /\ Len(page) \in 2 .. 4 /\ Path(page, Len(page))
      /\ LevelOf(page) = 5 - Len(page)
  BY PagePath DEF LevelOf
<1>2. ~Pointer(LevelOf(page), e)
  BY LeafIsNoPointer DEF set_addr
<1>3. /\ c \in Call /\ c.mem \in Memory /\ c.level \in Books /\ IsTree(c.mem, c.level)
      /\ c.at \in TableFrames /\ c.level[c.at] = LevelOf(page)
  BY DEF CallOK, Call
<1>4. CASE c.mem[c.at][i] # {}
  <2>1. d = [c EXCEPT !.err = "PageAlreadyMapped"]
    BY <1>4 DEF WriteLeaf, is_unused
  <2> QED BY <2>1, <1>3 DEF Call
<1>5. CASE c.mem[c.at][i] = {}
  <2> DEFINE m2 == [c.mem EXCEPT ![c.at][i] = e]
  <2>1. d = [c EXCEPT !.mem = m2]
    BY <1>3, <1>5 DEF WriteLeaf, is_unused, Call
  <2>2. d.mem = m2 /\ d.err = "None"
    BY <1>3, <2>1 DEF Call
  <2>3. Written(c.mem, m2, c.at, i, e)
    BY <1>3 DEF Memory, Table, Written
  <2>4. ~Pointer(LevelOf(page), c.mem[c.at][i])
    BY <1>5 DEF Pointer
  <2> HIDE DEF m2, e
  <2>5. Widens(c.mem, d.mem)
    <3>1. ~Pointer(c.level[c.at], e) /\ ~Pointer(c.level[c.at], c.mem[c.at][i])
      BY <1>2, <1>3, <2>4
    <3>2. /\ Pointer(c.level[c.at], e) <=> Pointer(c.level[c.at], c.mem[c.at][i])
          /\ Pointer(c.level[c.at], e) => addr(e) = addr(c.mem[c.at][i]) /\ c.mem[c.at][i] \subseteq e
      BY <3>1
    <3>3. PICK j \in Index : j = i
      BY <1>1
    <3> QED BY <1>3, <2>2, <2>3, <3>2, <3>3, WriteWidens
  <2>6. LeafBecomes(c.mem, d.mem, page, Len(page), e)
    <3>1. PICK k \in 2 .. 4 : k = Len(page)
      BY <1>1
    <3>2. /\ ~Pointer(5 - k, e) /\ ~Pointer(5 - k, Slot(c.mem, page, k))
          /\ Written(c.mem, d.mem, Tab(c.mem, page, k), page[k], e)
          /\ Path(page, k) /\ Reach(c.mem, page, k)
      BY <1>1, <1>2, <2>2, <2>3, <2>4, <3>1 DEF Slot
    <3>3. LeafBecomes(c.mem, d.mem, page, k, e)
      BY <1>3, <3>2, LeafWritten
    <3> QED BY <3>1, <3>3
  <2>7. NoLeaf(c.mem, page)
    BY <1>5 DEF NoLeaf, Leaf, Slot
  <2> QED BY <2>2, <2>5, <2>6, <2>7 DEF e
<1> QED BY <1>4, <1>5

\* The three ways a map_to ends: nothing is mapped, or it is refused because of a huge
\* page, or the page is mapped and its caller told so.
MapRefused(m, n, tl, tn, page, pf) ==
  tn = tl /\ (SameLeaves(m, n) \/ Blocked(m, n, page, pf))
MapDone(m, n, tl, tn, page, frame, f, pf) ==
  /\ tn = [tl EXCEPT ![page] = [frame |-> frame, flags |-> LeafBits(page, f)]]
  /\ LeafBecomes(m, n, page, Len(page), set_addr(frame, LeafBits(page, f)))
  /\ NoLeaf(m, page)
  /\ \A j \in 1 .. Len(page) - 1 : pf \subseteq Slot(n, page, j)

\* The end of the call, from the parent tables b.
LEMMA MapEnds ==
  ASSUME NEW page \in Pages, NEW frame \in SUBSET AddrBits, NEW f \in SUBSET FlagBits,
         NEW m, NEW pf, NEW b, CallOK(b, LevelOf(page)), Progress(m, b, page, Len(page), pf),
         NEW c, c = WriteLeaf(b, page, frame, f), NEW n, n = c.mem, NEW tl, NEW tn,
         tn = IF c.err = "None"
              THEN [tl EXCEPT ![page] = [frame |-> frame, flags |-> LeafBits(page, f)]]
              ELSE tl
  PROVE  /\ Widens(m, n)
         /\ \/ MapRefused(m, n, tl, tn, page, pf)
            \/ MapDone(m, n, tl, tn, page, frame, f, pf)
<1>7. CASE b.err # "None"
  <2>1. c = b
    BY <1>7 DEF WriteLeaf
  <2> QED BY <1>7, <2>1 DEF Progress, MapRefused
<1>8. CASE b.err = "None"
  <2>1. /\ Widens(m, b.mem) /\ SameLeaves(m, b.mem)
        /\ Reach(b.mem, page, Len(page)) /\ b.at = Tab(b.mem, page, Len(page))
        /\ \A j \in 1 .. Len(page) - 1 : pf \subseteq Slot(b.mem, page, j)
    BY <1>8 DEF Progress
  <2> DEFINE e == set_addr(frame, LeafBits(page, f))
  <2>2. \/ c.err = "PageAlreadyMapped" /\ c.mem = b.mem
        \/ /\ c.err = "None" /\ Widens(b.mem, c.mem)
           /\ LeafBecomes(b.mem, c.mem, page, Len(page), e)
           /\ NoLeaf(b.mem, page)
    BY <1>8, <2>1, WriteLeafEffect
  <2> HIDE DEF e
  <2>3. CASE c.err = "PageAlreadyMapped" /\ c.mem = b.mem
    BY <2>1, <2>3 DEF MapRefused
  <2>4. CASE /\ c.err = "None" /\ Widens(b.mem, c.mem)
             /\ LeafBecomes(b.mem, c.mem, page, Len(page), e)
             /\ NoLeaf(b.mem, page)
    <3>1. Widens(m, n)
      BY <2>1, <2>4, WidensTransitive
    <3>2. LeafBecomes(m, n, page, Len(page), e)
      BY <2>1, <2>4 DEF LeafBecomes, SameLeaves
    <3>3. \A j \in 1 .. Len(page) - 1 : pf \subseteq Slot(n, page, j)
      <4> SUFFICES ASSUME NEW j \in 1 .. Len(page) - 1 PROVE pf \subseteq Slot(n, page, j)
        OBVIOUS
      <4>1. PICK k \in 1 .. 4 : k = Len(page)
        BY PagePath
      <4>2. j \in 1 .. 3 /\ j + 1 \in 1 .. k /\ Path(page, j)
        BY <4>1, PagePath DEF Path
      <4>3. Reach(b.mem, page, j + 1)
        BY <2>1, <4>1, <4>2, ReachBefore
      <4>4. Slot(b.mem, page, j) \subseteq Slot(c.mem, page, j)
        BY <2>4, <4>2, <4>3 DEF Widens
      <4> QED BY <2>1, <4>4
    <3>4. NoLeaf(m, page)
      BY <2>1, <2>4, PagePath DEF SameLeaves, NoLeaf
    <3>5. MapDone(m, n, tl, tn, page, frame, f, pf)
      BY <2>4, <3>2, <3>3, <3>4 DEF MapDone, e
    <3> QED BY <3>1, <3>5
  <2> QED BY <2>2, <2>3, <2>4
<1> QED BY <1>7, <1>8

LEMMA MapToEffect ==
  ASSUME Inv, NEW page \in Pages, NEW frame \in DataFrames, NEW f \in MapFlags,
         NEW pf, ParentOK(pf), map_to_with_table_flags(page, frame, f, pf)
  PROVE  /\ Widens(mem, mem')
         /\ \/ MapRefused(mem, mem', told, told', page, pf)
            \/ MapDone(mem, mem', told, told', page, frame, f, pf)
<1>1. frame \in SUBSET AddrBits /\ f \in SUBSET FlagBits
  BY MapperAssumption
<1>2. CallOK(Begin, 4)
  BY InvMemory, FramesAssumption DEF CallOK, Call, Begin, Errors, IsTree, RootIsTop
<1>3. PICK b \in create_parents(page, pf) :
        LET c == WriteLeaf(b, page, frame, f)
        IN  /\ mem' = c.mem
            /\ level' = c.level
            /\ told' = IF c.err = "None"
                       THEN [told EXCEPT ![page] =
                               [frame |-> frame, flags |-> LeafBits(page, f)]]
                       ELSE told
            /\ panicked' = (c.err = "panic")
  BY DEF map_to_with_table_flags
<1>4. CallOK(b, LevelOf(page)) /\ Progress(mem, b, page, Len(page), pf)
  BY <1>2, CreateParentsOK, ParentsProgress
<1>5. PICK c, n, tn : c = WriteLeaf(b, page, frame, f) /\ n = mem' /\ tn = told'
  OBVIOUS
<1>6. /\ n = c.mem
      /\ tn = IF c.err = "None"
              THEN [told EXCEPT ![page] = [frame |-> frame, flags |-> LeafBits(page, f)]]
              ELSE told
  BY <1>3, <1>5
<1>7. /\ Widens(mem, n)
      /\ \/ MapRefused(mem, n, told, tn, page, pf)
         \/ MapDone(mem, n, told, tn, page, frame, f, pf)
  BY <1>1, <1>4, <1>5, <1>6, MapEnds
<1> QED BY <1>5, <1>7

(***************************************************************************)
(* The other operations.                                                   *)
(***************************************************************************)
\* A leaf, or nothing, is written into the entry of a page that held one, or nothing.
LEMMA LeafSet ==
  ASSUME NEW m \in Memory, NEW lv \in Books, IsTree(m, lv), NEW page \in Pages,
         Reach(m, page, Len(page)), NEW e,
         ~Pointer(LevelOf(page), Slot(m, page, Len(page))), ~Pointer(LevelOf(page), e),
         NEW n, n = [m EXCEPT ![Tab(m, page, Len(page))][page[Len(page)]] = e]
  PROVE  LeafBecomes(m, n, page, Len(page), e) /\ Widens(m, n)
<1>1. PICK k \in 2 .. 4 : k = Len(page)
  BY PagePath
<1>2. k \in 1 .. 4 /\ LevelOf(page) = 5 - k
  BY <1>1 DEF LevelOf
<1>3. Path(page, k) /\ Path(page, k - 1) /\ page[k] \in Index /\ Reach(m, page, k)
  BY <1>1, PagePath
<1> DEFINE t == Tab(m, page, k)
<1>6. t \in TableFrames /\ lv[t] = 5 - k
  BY <1>2, <1>3, ReachLevel
<1>7. Written(m, n, t, page[k], e)
  <2>1. n = [m EXCEPT ![t][page[k]] = e]
    BY <1>1
  <2> QED BY <1>3, <1>6, <2>1 DEF Memory, Table, Written
<1>8. ~Pointer(5 - k, Slot(m, page, k)) /\ ~Pointer(5 - k, e)
  BY <1>1, <1>2
<1>9. LeafBecomes(m, n, page, k, e)
  BY <1>3, <1>7, <1>8, LeafWritten
<1>10. Widens(m, n)
  <2>1. ~Pointer(lv[t], e) /\ ~Pointer(lv[t], m[t][page[k]])
    BY <1>6, <1>8 DEF Slot
  <2> HIDE DEF t
  <2>2. /\ Pointer(lv[t], e) <=> Pointer(lv[t], m[t][page[k]])
        /\ Pointer(lv[t], e) => addr(e) = addr(m[t][page[k]]) /\ m[t][page[k]] \subseteq e
    BY <2>1
  <2>3. PICK i \in Index : i = page[k]
    BY <1>3
  <2> QED BY <1>6, <1>7, <2>2, <2>3, WriteWidens
<1> QED BY <1>1, <1>9, <1>10

LEMMA EntryWritten ==
  ASSUME Inv, NEW page \in Pages, NEW e, TableOf(mem, page).err = "None",
         ~Pointer(LevelOf(page), EntryOf(mem, page)), ~Pointer(LevelOf(page), e),
         mem' = SetEntry(mem, page, e)
  PROVE  /\ Reach(mem, page, Len(page)) /\ EntryOf(mem, page) = Slot(mem, page, Len(page))
         /\ LeafBecomes(mem, mem', page, Len(page), e) /\ Widens(mem, mem')
<1>1. mem \in Memory /\ level \in Books /\ IsTree(mem, level)
  BY InvMemory
<1>2. /\ Reach(mem, page, Len(page)) /\ EntryOf(mem, page) = Slot(mem, page, Len(page))
      /\ TableOf(mem, page).at = Tab(mem, page, Len(page))
  <2>1. Len(page) \in 1 .. 4 /\ Path(page, Len(page) - 1)
    BY PagePath
  <2>2. /\ TableOf(mem, page).err = "None" <=> Reach(mem, page, Len(page))
        /\ Reach(mem, page, Len(page)) => /\ TableOf(mem, page).at = Tab(mem, page, Len(page))
                                          /\ EntryOf(mem, page) = Slot(mem, page, Len(page))
    BY <1>1, <2>1, EntryReached
  <2> QED BY <2>2
<1>3. PICK n : n = mem'
  OBVIOUS
<1>4. n = [mem EXCEPT ![Tab(mem, page, Len(page))][page[Len(page)]] = e]
  BY <1>2, <1>3 DEF SetEntry
<1>5. ~Pointer(LevelOf(page), Slot(mem, page, Len(page)))
  BY <1>2
<1>6. LeafBecomes(mem, n, page, Len(page), e) /\ Widens(mem, n)
  BY <1>1, <1>2, <1>4, <1>5, LeafSet
<1> QED BY <1>2, <1>3, <1>6

LEMMA UnmapEffect ==
  ASSUME Inv, NEW page \in Pages, unmap(page)
  PROVE  /\ LeafBecomes(mem, mem', page, Len(page), {}) /\ Widens(mem, mem')
         /\ \E old : Leaf(mem, page, Len(page), old)
<1>1. HUGE_PAGE \in FlagBits
  BY BitsAssumption
<1>2. /\ TableOf(mem, page).err \notin {"MappedToHugePage", "NotMapped"}
      /\ Len(page) < 4 => HUGE_PAGE \in flags(EntryOf(mem, page))
      /\ PRESENT \in flags(EntryOf(mem, page))
  BY DEF unmap, unmap_call
<1>3. TableOf(mem, page).err = "None"
  BY <1>2, WalkErrors
<1>4. ~Pointer(LevelOf(page), EntryOf(mem, page))
  <2>1. LevelOf(page) # 1 => Len(page) < 4
    BY PageShape
  <2> QED BY <2>1, <1>2 DEF Pointer, flags
<1>5. ~Pointer(LevelOf(page), {}) /\ mem' = SetEntry(mem, page, {})
  BY DEF Pointer, unmap
<1>6. /\ Reach(mem, page, Len(page)) /\ EntryOf(mem, page) = Slot(mem, page, Len(page))
      /\ LeafBecomes(mem, mem', page, Len(page), {}) /\ Widens(mem, mem')
  BY <1>3, <1>4, <1>5, EntryWritten
<1>7. Leaf(mem, page, Len(page), EntryOf(mem, page))
  BY <1>2, <1>4, <1>6, PagePath DEF Leaf, LevelOf, flags
<1> QED BY <1>6, <1>7

LEMMA UpdateFlagsEffect ==
  ASSUME Inv, NEW page \in Pages, NEW f \in LeafFlags,
         Len(page) < 4 => ~NamesTable(mem, page), update_flags(page, f)
  PROVE  \E old \in Entry : /\ Leaf(mem, page, Len(page), old)
                            /\ LeafBecomes(mem, mem', page, Len(page),
                                           set_flags(old, LeafBits(page, f)))
<1> DEFINE old == EntryOf(mem, page)
           e == set_flags(old, LeafBits(page, f))
<1>1. page \in Seq(Index) /\ Len(page) \in 2 .. 4 /\ f \in SUBSET FlagBits
  BY PageShape, MapperAssumption
<1>2. TableOf(mem, page).err \notin {"MappedToHugePage", "NotMapped"} /\ old # {}
  BY DEF update_flags, flag_update_error, is_unused
<1>3. TableOf(mem, page).err = "None"
  BY <1>2, WalkErrors
<1>4. TableOf(mem, page).at \in TableFrames /\ level[TableOf(mem, page).at] = LevelOf(page)
  <2>1. Len(page) \in 1 .. 4
    BY <1>1
  <2> QED BY <2>1, <1>1, <1>3, InvMemory, WalkFindsTable
<1>5. page[Len(page)] \in Index
  BY PageShape
<1>6. ~Pointer(LevelOf(page), old)
  <2>1. CASE Len(page) = 4
    BY <2>1, PageShape DEF Pointer
  <2>2. CASE Len(page) # 4
    <3>1. Len(page) < 4 /\ LevelOf(page) \in 2 .. 4
      BY <2>2, PageShape
    <3>2. next_table(old).err # "None"
      BY <1>3, <3>1 DEF NamesTable
    <3> QED BY <3>1, <3>2, <1>4, <1>5, InvMemory, NextTableIsPointer DEF EntryOf
  <2> QED BY <2>1, <2>2
<1>7. ~Pointer(LevelOf(page), e)
  <2>1. LeafBits(page, f) \subseteq e
    BY DEF set_flags
  <2> QED BY <1>1, <2>1, LeafIsNoPointer
<1>8. mem' = SetEntry(mem, page, e)
  BY DEF update_flags
<1>9. old \in Entry
  BY <1>4, <1>5, InvMemory DEF EntryOf, Memory, Table
<1>10. /\ Reach(mem, page, Len(page)) /\ old = Slot(mem, page, Len(page))
       /\ LeafBecomes(mem, mem', page, Len(page), e)
  <2> HIDE DEF e
  <2> QED BY <1>3, <1>6, <1>7, <1>8, EntryWritten
<1>11. Leaf(mem, page, Len(page), old)
  <2>1. LevelOf(page) = 5 - Len(page)
    BY DEF LevelOf
  <2> HIDE DEF old
  <2> QED BY <1>1, <1>2, <1>6, <1>10, <2>1 DEF Leaf
<1> QED BY <1>9, <1>10, <1>11

LEMMA SetFlagsEntryEffect ==
  ASSUME CallerContract, Inv, NEW page \in Pages, NEW k \in 1 .. 3, NEW f \in TableFlags,
         set_flags_entry(page, k, f), NamesTable(mem, SubSeq(page, 1, k))
  PROVE  SameLeaves(mem, mem')
<1> DEFINE s == SubSeq(page, 1, k)
           t == TableOf(mem, s).at
           i == s[Len(s)]
           e == set_flags(mem[t][i], f)
<1>1. page \in Seq(Index) /\ Len(page) \in 2 .. 4 /\ k < Len(page)
  BY MapperAssumption DEF set_flags_entry
<1>2. s \in Seq(Index) /\ Len(s) = k
  BY <1>1
<1>3. i \in Index
  BY <1>2
<1>4. TableOf(mem, s).err = "None" /\ next_table(mem[t][i]).err = "None"
  BY DEF NamesTable, EntryOf
<1>5. mem' = [mem EXCEPT ![t][i] = e]
  BY DEF set_flags_entry, SetEntry, EntryOf
<1> HIDE DEF s, i
<1>6. t \in TableFrames /\ level[t] = 5 - k
  <2>1. Len(s) \in 1 .. 4
    BY <1>2
  <2>2. LevelOf(s) = 5 - k
    BY <1>2 DEF LevelOf
  <2> QED BY <2>1, <2>2, <1>2, <1>4, InvMemory, WalkFindsTable
<1> HIDE DEF t
<1>7. Pointer(level[t], mem[t][i]) /\ mem[t][i] \in Entry
  BY <1>3, <1>4, <1>6, InvMemory, NextTableIsPointer DEF Memory, Table
<1>8. f \in SUBSET FlagBits /\ f \cap AddrBits = {} /\ PRESENT \in f /\ HUGE_PAGE \notin f
  BY MapperAssumption DEF CallerContract
<1>9. addr(e) = addr(mem[t][i]) /\ PRESENT \in e /\ HUGE_PAGE \notin e
  BY <1>7, <1>8, AddrOfSetFlags, BitsAssumption
<1>10. Pointer(level[t], e)
  BY <1>7, <1>9 DEF Pointer
<1> HIDE DEF e
<1>11. Written(mem, mem', t, i, e)
  BY <1>3, <1>5, <1>6, InvMemory DEF Written, Memory, Table
<1> QED BY <1>3, <1>6, <1>7, <1>9, <1>10, <1>11, InvMemory, FlagsKeepLeaves

\* The tables that clean_up gives back when it clears the slots S, and the memory it leaves.
Freed(m, S) == {addr(m[s[1]][s[2]]) : s \in S}
CleanedOut(m, S) ==
  [f \in TableFrames |->
     IF f \in Freed(m, S) THEN GarbageTable
     ELSE [i \in Index |-> IF <<f, i>> \in S THEN {} ELSE m[f][i]]]

LEMMA FreedTables ==
  ASSUME NEW m, NEW lv, NEW S, Removable(m, lv, S), NEW h
  PROVE  h \in Freed(m, S) <=>
           \E f \in TableFrames, i \in Index : <<f, i>> \in S /\ addr(m[f][i]) = h
<1>1. ASSUME h \in Freed(m, S)
      PROVE  \E f \in TableFrames, i \in Index : <<f, i>> \in S /\ addr(m[f][i]) = h
  <2>1. PICK s \in S : h = addr(m[s[1]][s[2]])
    BY <1>1 DEF Freed
  <2>2. s[1] \in TableFrames /\ s[2] \in Index /\ s = <<s[1], s[2]>>
    BY DEF Removable
  <2> QED BY <2>1, <2>2, Zenon
<1>2. ASSUME NEW f \in TableFrames, NEW i \in Index, <<f, i>> \in S, addr(m[f][i]) = h
      PROVE  h \in Freed(m, S)
  <2>1. <<f, i>>[1] = f /\ <<f, i>>[2] = i
    OBVIOUS
  <2> QED BY <1>2, <2>1, Zenon DEF Freed
<1> QED BY <1>1, <1>2, Zenon

LEMMA CleanedOutLeaves ==
  ASSUME NEW m \in Memory, NEW lv \in Books, IsTree(m, lv), NEW S, Removable(m, lv, S)
  PROVE  SameLeaves(m, CleanedOut(m, S)) /\ SamePaths(m, CleanedOut(m, S))
<1> DEFINE freed == Freed(m, S)
           n == CleanedOut(m, S)
<1>1. n = [f \in TableFrames |->
             IF f \in freed THEN GarbageTable
             ELSE [i \in Index |-> IF <<f, i>> \in S THEN {} ELSE m[f][i]]]
  BY DEF CleanedOut
<1>2. \A h : h \in freed <=> \E f \in TableFrames, i \in Index :
                               <<f, i>> \in S /\ addr(m[f][i]) = h
  <2>1. ASSUME NEW g
        PROVE  g \in Freed(m, S) <=> \E f \in TableFrames, i \in Index :
                                       <<f, i>> \in S /\ addr(m[f][i]) = g
    BY FreedTables
  <2> QED BY <2>1, Zenon
<1> HIDE DEF freed, n
<1>3. Cleaned(m, n, S, freed)
  BY <1>1, <1>2 DEF Cleaned
<1>4. SameLeaves(m, n) /\ SamePaths(m, n)
  BY <1>3, CleanUpKeepsLeaves
<1> QED BY <1>4 DEF n

LEMMA CleanUpEffect ==
  ASSUME Inv, NEW r, clean_up_addr_range(r)
  PROVE  SameLeaves(mem, mem') /\ SamePaths(mem, mem')
<1>1. Removable(mem, level, CleanP4(mem, r))
  BY InvMemory, CleanUpIsRemovable
<1>2. mem' = CleanedOut(mem, CleanP4(mem, r))
  BY DEF clean_up_addr_range, CleanedOut, Freed
<1> QED BY <1>1, <1>2, InvMemory, CleanedOutLeaves

(***************************************************************************)
(* The history is kept.                                                    *)
(***************************************************************************)
LEMMA InitTold == ASSUME Init PROVE ToldOK(mem, told)
<1>1. \A p \in Pages : told[p] = NotTold
  BY DEF Init
<1>2. ASSUME NEW s, NEW e, NEW k \in 2 .. 4, Path(s, k), Leaf(mem, s, k, e) PROVE FALSE
  <2>1. s[1] \in Index
    BY <1>2 DEF Path
  <2>2. mem[Root][s[1]] = {}
    BY <2>1, FramesAssumption DEF Init, ZeroTable
  <2>3. ~Reach(mem, s, 2)
    BY <2>2 DEF Reach, Reach2, Pointer
  <2>4. Reach(mem, s, 2)
    BY <1>2, ReachBefore DEF Leaf
  <2> QED BY <2>3, <2>4
<1> QED BY <1>1, <1>2 DEF ToldOK

LEMMA PatAllowed ==
  ASSUME CallerContract, NEW page \in Pages, NEW f,
         f \in FlagsFor(page, MapFlags) \/ f \in FlagsFor(page, LeafFlags)
  PROVE  PatOK(f, Len(page)) /\ PatOK(LeafBits(page, f), Len(page))
<1>1. f \cap AddrBits \subseteq Below2MiB /\ (Len(page) = 4 => f \cap AddrBits = {})
  BY DEF CallerContract, FlagsFor
<1>2. LeafBits(page, f) \cap AddrBits = f \cap AddrBits
  BY BitsAssumption DEF LeafBits
<1> QED BY <1>1, <1>2 DEF PatOK

LEMMA MapTold ==
  ASSUME NEW m, NEW n, NEW tl, DOMAIN tl = Pages, ToldOK(m, tl), NEW tn,
         NEW page \in Pages, NEW frame \in SUBSET AddrBits, is_aligned(frame, Len(page)),
         NEW f \in SUBSET FlagBits, PatOK(LeafBits(page, f), Len(page)), PRESENT \in f,
         NEW pf, pf \cap AddrBits = {}, pf \subseteq ParentFlags,
         \/ MapRefused(m, n, tl, tn, page, pf)
         \/ MapDone(m, n, tl, tn, page, frame, f, pf)
  PROVE  ToldOK(n, tn)
<1>4. CASE tn = tl /\ SameLeaves(m, n)
  BY <1>4, ToldSame
<1>5. CASE tn = tl /\ Blocked(m, n, page, pf)
  <2>1. PICK j \in 2 .. 3, e \in Entry :
          Path(page, j) /\ Leaf(m, page, j, e) /\ LeafBecomes(m, n, page, j, e \cup pf)
    BY <1>5 DEF Blocked
  <2>2. j \in 2 .. 4
    OBVIOUS
  <2>3. ToldOK(n, tl)
    BY <2>1, <2>2, ToldWidened
  <2> QED BY <1>5, <2>3
<1>6. CASE MapDone(m, n, tl, tn, page, frame, f, pf)
  <2> DEFINE lb == LeafBits(page, f)
             e == set_addr(frame, lb)
             x == [frame |-> frame, flags |-> lb]
  <2>1. lb \in SUBSET FlagBits /\ PatOK(lb, Len(page)) /\ PRESENT \in lb
    BY BitsAssumption DEF LeafBits
  <2> HIDE DEF lb
  <2>2. addr(e) = frame \cup (lb \cap AddrBits) /\ lb \subseteq e /\ e \subseteq lb \cup AddrBits /\ e # {}
    BY <2>1 DEF set_addr, addr
  <2>3. x.frame = frame /\ x.flags = lb /\ x # NotTold
    BY <2>1 DEF NotTold
  <2>4. /\ tn = [tl EXCEPT ![page] = x]
        /\ LeafBecomes(m, n, page, Len(page), e)
    BY <1>6 DEF MapDone, lb
  <2> HIDE DEF e, x
  <2>5. EntrySays(e, x, Len(page))
    BY <2>1, <2>2, <2>3 DEF EntrySays
  <2> QED BY <2>2, <2>3, <2>4, <2>5, ToldWritten
<1> QED BY <1>4, <1>5, <1>6 DEF MapRefused

LEMMA MapToTold ==
  ASSUME CallerContract, Inv, ToldOK(mem, told),
         NEW page \in Pages, NEW frame \in AlignedFrames(page),
         NEW f \in FlagsFor(page, MapFlags), NEW pf, ParentOK(pf), pf \subseteq ParentFlags,
         map_to_with_table_flags(page, frame, f, pf)
  PROVE  ToldOK(mem', told')
<1>1. frame \in DataFrames /\ is_aligned(frame, Len(page))
  BY DEF AlignedFrames
<1>2. /\ frame \in SUBSET AddrBits /\ f \in MapFlags /\ f \in SUBSET FlagBits
      /\ PRESENT \in f /\ pf \cap AddrBits = {}
      /\ DOMAIN told = Pages
  BY <1>1, MapperAssumption DEF CallerContract, ParentOK, Inv, TypeOK, FlagsFor
<1>6. PatOK(LeafBits(page, f), Len(page))
  BY PatAllowed
<1>3. PICK n, tn : n = mem' /\ tn = told'
  OBVIOUS
<1>4. \/ MapRefused(mem, n, told, tn, page, pf)
      \/ MapDone(mem, n, told, tn, page, frame, f, pf)
  BY <1>1, <1>2, <1>3, MapToEffect
<1>5. ToldOK(n, tn)
  BY <1>1, <1>2, <1>4, <1>6, MapTold
<1> QED BY <1>3, <1>5

LEMMA UnmapTold ==
  ASSUME Inv, ToldOK(mem, told), NEW page \in Pages, unmap(page)
  PROVE  ToldOK(mem', told')
<1>1. LeafBecomes(mem, mem', page, Len(page), {})
  BY UnmapEffect
<1>2. told' = [told EXCEPT ![page] = NotTold] /\ DOMAIN told = Pages
  BY DEF unmap, Inv, TypeOK
<1> QED BY <1>1, <1>2, ToldWritten

LEMMA FlagsTold ==
  ASSUME NEW m, NEW n, NEW tl \in [Pages -> Told], ToldOK(m, tl), NEW page \in Pages,
         NEW f, PatOK(LeafBits(page, f), Len(page)), f # {},
         NEW old, Leaf(m, page, Len(page), old),
         LeafBecomes(m, n, page, Len(page), set_flags(old, LeafBits(page, f))),
         NEW tn, tn = Retold(tl, page, f)
  PROVE  ToldOK(n, tn)
<1> DEFINE lb == LeafBits(page, f)
           pat == tl[page].flags \cap AddrBits
           x == [tl[page] EXCEPT !.flags = lb \cup pat]
           e == set_flags(old, lb)
<1>2. tl[page] \in Told
  OBVIOUS
<1>3. tn = [tl EXCEPT ![page] = x] /\ DOMAIN tl = Pages
  BY <1>2 DEF Retold
<1>4. x.frame = tl[page].frame /\ x.flags = lb \cup pat
  BY <1>2 DEF Told
<1>5. PatOK(lb, Len(page)) /\ lb # {}
  BY BitsAssumption DEF LeafBits
<1>6. tl[page] # NotTold
  <2>1. Expected(tl, page, Len(page))
    BY PagePath DEF ToldOK
  <2>2. PICK p \in Pages : Len(p) = Len(page) /\ Same(page, p, Len(page)) /\ tl[p] # NotTold
    BY <2>1 DEF Expected
  <2>3. p = page
    BY <2>2, SamePage
  <2> QED BY <2>2, <2>3
<1>7. /\ addr(old) = tl[page].frame \cup pat /\ is_aligned(tl[page].frame, Len(page))
      /\ PatOK(tl[page].flags, Len(page))
  <2>1. PICK d : Leaf(m, page, Len(page), d) /\ EntrySays(d, tl[page], Len(page))
    BY <1>6 DEF ToldOK
  <2>2. d = old
    BY <2>1 DEF Leaf
  <2> QED BY <2>1, <2>2 DEF EntrySays
<1>11. LeafBecomes(m, n, page, Len(page), e)
  OBVIOUS
<1> HIDE DEF lb
<1>8. /\ addr(e) = tl[page].frame \cup ((lb \cup pat) \cap AddrBits)
      /\ lb \cup pat \subseteq e /\ e \subseteq lb \cup AddrBits /\ e # {}
  BY <1>5, <1>7 DEF set_flags, addr
<1>9. x # NotTold
  BY <1>4, <1>5 DEF NotTold
<1>12. PatOK(lb \cup pat, Len(page))
  BY <1>5, <1>7 DEF PatOK
<1> HIDE DEF e, x, pat
<1>10. EntrySays(e, x, Len(page))
  BY <1>4, <1>7, <1>8, <1>12 DEF EntrySays
<1> QED BY <1>3, <1>8, <1>9, <1>10, <1>11, ToldWritten

LEMMA UpdateFlagsTold ==
  ASSUME CallerContract, Inv, ToldOK(mem, told), NEW page \in Pages,
         NEW f \in FlagsFor(page, LeafFlags),
         Len(page) < 4 => ~NamesTable(mem, page), update_flags(page, f)
  PROVE  ToldOK(mem', told')
<1>1. PICK old \in Entry :
        /\ Leaf(mem, page, Len(page), old)
        /\ LeafBecomes(mem, mem', page, Len(page), set_flags(old, LeafBits(page, f)))
  BY UpdateFlagsEffect DEF FlagsFor
<1>2. told \in [Pages -> Told] /\ PatOK(LeafBits(page, f), Len(page)) /\ f # {}
  BY PatAllowed DEF Inv, TypeOK, CallerContract, FlagsFor
<1>3. PICK n, tn : n = mem' /\ tn = told'
  OBVIOUS
<1>4. tn = Retold(told, page, f)
  BY <1>3 DEF update_flags
<1>5. LeafBecomes(mem, n, page, Len(page), set_flags(old, LeafBits(page, f)))
  BY <1>1, <1>3
<1>6. ToldOK(n, tn)
  BY <1>1, <1>2, <1>4, <1>5, FlagsTold
<1> QED BY <1>3, <1>6

LEMMA NextTold ==
  ASSUME CallerContract, Inv, ToldOK(mem, told), [Next]_vars
  PROVE  ToldOK(mem', told')
<1>1. CASE MapTo
  <2>1. PICK page \in Pages, d \in DataFrames, f \in MapFlags :
          /\ d \in AlignedFrames(page) /\ f \in FlagsFor(page, MapFlags)
          /\ map_to(page, d, f)
    BY <1>1 DEF MapTo, AlignedFrames, FlagsFor
  <2> DEFINE pf == f \cap {PRESENT, WRITABLE, USER_ACCESSIBLE}
  <2>2. ParentOK(pf)
    <3>1. f \in SUBSET FlagBits /\ PRESENT \in f
      BY MapperAssumption DEF CallerContract
    <3> QED BY <3>1, BitsAssumption DEF ParentOK
  <2>3. pf \subseteq ParentFlags /\ map_to_with_table_flags(page, d, f, pf)
    BY <2>1 DEF ParentFlags, map_to
  <2> HIDE DEF pf
  <2> QED BY <2>1, <2>2, <2>3, MapToTold
<1>2. CASE MapToWithTableFlags
  <2>1. PICK page \in Pages, d \in DataFrames, f \in MapFlags, t \in TableFlags :
          /\ d \in AlignedFrames(page) /\ f \in FlagsFor(page, MapFlags)
          /\ map_to_with_table_flags(page, d, f, t)
    BY <1>2 DEF MapToWithTableFlags, AlignedFrames, FlagsFor
  <2>2. ParentOK(t)
    BY MapperAssumption DEF CallerContract, ParentOK
  <2>3. t \subseteq ParentFlags
    BY DEF ParentFlags
  <2> QED BY <2>1, <2>2, <2>3, MapToTold
<1>3. CASE Unmap
  BY <1>3, UnmapTold DEF Unmap
<1>4. CASE UpdateFlags
  BY <1>4, UpdateFlagsTold DEF UpdateFlags
<1>5. CASE SetFlagsEntry
  <2>1. SameLeaves(mem, mem') /\ told' = told
    BY <1>5, SetFlagsEntryEffect DEF SetFlagsEntry, set_flags_entry
  <2> QED BY <2>1, ToldSame
<1>6. CASE CleanUp
  <2>1. SameLeaves(mem, mem') /\ told' = told
    BY <1>6, CleanUpEffect DEF CleanUp, clean_up, clean_up_addr_range
  <2> QED BY <2>1, ToldSame
<1>7. CASE CleanUpAddrRange
  <2>1. SameLeaves(mem, mem') /\ told' = told
    BY <1>7, CleanUpEffect DEF CleanUpAddrRange, clean_up_addr_range
  <2> QED BY <2>1, ToldSame
<1>8. CASE UNCHANGED vars
  BY <1>8 DEF vars
<1> QED BY <1>1, <1>2, <1>3, <1>4, <1>5, <1>6, <1>7, <1>8 DEF Next

(***************************************************************************)
(* The answers.                                                            *)
(***************************************************************************)
\* Where a walk fails there is a leaf or nothing.
LEMMA WalkFails ==
  ASSUME NEW m \in Memory, NEW lv \in Books, IsTree(m, lv), NEW s, NEW k \in 1 .. 3,
         Path(s, k), Reach(m, s, k), ~Reach(m, s, k + 1)
  PROVE  \/ Slot(m, s, k) = {} /\ WalkTo(m, s, k + 1).err = "NotMapped"
         \/ /\ Slot(m, s, k) # {} /\ WalkTo(m, s, k + 1).err = "MappedToHugePage"
            /\ k # 1 /\ Leaf(m, s, k, Slot(m, s, k))
<1>1. s[k] \in Index /\ Path(s, k - 1) /\ k \in 1 .. 4
  BY DEF Path
<1>2. Tab(m, s, k) \in TableFrames /\ lv[Tab(m, s, k)] = 5 - k
  BY <1>1, ReachLevel
<1>3. WalkTo(m, s, k).err = "None" /\ WalkTo(m, s, k).at = Tab(m, s, k)
  BY <1>1, WalkReaches
<1>4. WalkTo(m, s, k + 1) = next_table(Slot(m, s, k))
  BY <1>3, WalkStep DEF Descend, Slot
<1>5. ~Pointer(5 - k, Slot(m, s, k))
  BY ReachStep
<1>6. CASE Slot(m, s, k) = {}
  BY <1>4, <1>6 DEF next_table, flags
<1>7. CASE Slot(m, s, k) # {}
  <2>1. HUGE_PAGE \in Slot(m, s, k) /\ HUGE_PAGE \in FlagBits
    BY <1>5, <1>7, BitsAssumption DEF Pointer
  <2>2. k # 1
    <3>1. k = 1 => Tab(m, s, k) = Root
      BY ReachStep
    <3> QED BY <1>1, <2>1, <3>1 DEF IsTree, RootIsTop, Slot
  <2>3. Leaf(m, s, k, Slot(m, s, k))
    BY <1>5, <1>7, <2>2 DEF Leaf
  <2> QED BY <1>4, <1>7, <2>1, <2>2, <2>3 DEF next_table, flags
<1> QED BY <1>6, <1>7

\* The page of k indices around an address.
LEMMA Around ==
  ASSUME NEW a \in Addresses, NEW k \in 2 .. 4
  PROVE  /\ a \in Seq(Index) /\ Len(a) = 4 /\ Path(a, k) /\ Path(a, k - 1)
         /\ SubSeq(a, 1, k) \in Seq(Index) /\ Len(SubSeq(a, 1, k)) = k
         /\ Same(SubSeq(a, 1, k), a, k)
         /\ k = 4 => SubSeq(a, 1, k) = a
<1>1. a \in Seq(Index) /\ Len(a) = 4
  BY DEF Addresses
<1>2. Path(a, k) /\ Path(a, k - 1)
  BY DEF Addresses, Path
<1>3. SubSeq(a, 1, k) \in Seq(Index) /\ Len(SubSeq(a, 1, k)) = k
  <2>1. Len(SubSeq(a, 1, k)) = k
    BY <1>1
  <2>2. SubSeq(a, 1, k) \in Seq(Index)
    BY <1>1
  <2> QED BY <2>1, <2>2
<1>4. Same(SubSeq(a, 1, k), a, k)
  BY <1>1 DEF Same
<1>5. ASSUME k = 4 PROVE SubSeq(a, 1, k) = a
  <2> DEFINE s == SubSeq(a, 1, k)
  <2>1. s \in Seq(Index) /\ Len(s) = Len(a)
    BY <1>1, <1>3, <1>5
  <2>2. \A j \in 1 .. Len(s) : s[j] = a[j]
    BY <1>3, <1>4 DEF Same
  <2> HIDE DEF s
  <2>3. s = a
    BY <1>1, <2>1, <2>2
  <2> QED BY <2>3 DEF s
<1> QED BY <1>1, <1>2, <1>3, <1>4, <1>5

Found(s, k, e) ==
  [result |-> "Mapped", page |-> s, frame |-> containing_address(addr(e), k), flags |-> flags(e)]

\* PAT_HUGE_PAGE makes the address of a huge page's entry misaligned, and nothing else does.
LEMMA PatMisaligns ==
  ASSUME NEW a, NEW f, NEW k \in 2 .. 4, is_aligned(a, k), PatOK(f, k),
         NEW c, c = a \cup (f \cap AddrBits)
  PROVE  /\ containing_address(c, k) = a
         /\ is_aligned(c, k) <=> f \cap AddrBits = {}
<1> DEFINE b == f \cap AddrBits
<1> HIDE DEF b
<1>0. b \subseteq IF k = 4 THEN {} ELSE Below2MiB
  BY DEF PatOK, b
<1>1. CASE k = 2
  <2>1. b \subseteq Below1GiB
    BY <1>0, <1>1, BitsAssumption
  <2> QED BY <1>1, <2>1 DEF is_aligned, containing_address, b
<1>2. CASE k = 3
  BY <1>0, <1>2 DEF is_aligned, containing_address, b
<1>3. CASE k = 4
  BY <1>0, <1>3 DEF is_aligned, containing_address, b
<1> QED BY <1>1, <1>2, <1>3

LEMMA PatHidden ==
  ASSUME NEW a, NEW f, NEW k \in 2 .. 4, PatOK(f, k), NEW c, c = a \cup (f \cap AddrBits)
  PROVE  containing_address(c, k) = containing_address(a, k)
<1> DEFINE b == f \cap AddrBits
<1> HIDE DEF b
<1>0. b \subseteq IF k = 4 THEN {} ELSE Below2MiB
  BY DEF PatOK, b
<1>1. CASE k = 2
  <2>1. b \subseteq Below1GiB
    BY <1>0, <1>1, BitsAssumption
  <2> QED BY <1>1, <2>1 DEF containing_address, b
<1>2. CASE k = 3
  BY <1>0, <1>2 DEF containing_address, b
<1>3. CASE k = 4
  BY <1>0, <1>3 DEF containing_address, b
<1> QED BY <1>1, <1>2, <1>3

LEMMA MappedIsLeaf ==
  ASSUME NEW m \in Memory, NEW lv \in Books, IsTree(m, lv), NEW a \in Addresses,
         NEW k \in 2 .. 4, NEW e, Leaf(m, a, k, e)
  PROVE  Mapped(m, SubSeq(a, 1, k)) = Found(SubSeq(a, 1, k), k, e)
<1> DEFINE s == SubSeq(a, 1, k)
<1>1. /\ Len(s) = k /\ Same(s, a, k) /\ Path(a, k) /\ Path(a, k - 1)
  BY Around
<1>2. /\ Same(s, a, k - 1) /\ s[k] = a[k] /\ Path(s, k - 1) /\ k \in 1 .. 4
  BY <1>1 DEF Same, Path
<1> HIDE DEF s
<1>3. Reach(m, s, k) /\ Slot(m, s, k) = e
  <2>1. (Reach(m, s, k) <=> Reach(m, a, k)) /\ Tab(m, s, k) = Tab(m, a, k)
    BY <1>2, ReachSame
  <2> QED BY <1>2, <2>1 DEF Leaf, Slot
<1>4. EntryOf(m, s) = e
  BY <1>1, <1>2, <1>3, EntryReached
<1> QED BY <1>1, <1>4 DEF Mapped, Found, s

LEMMA TranslateFinds ==
  ASSUME NEW m \in Memory, NEW lv \in Books, IsTree(m, lv), NEW a \in Addresses
  PROVE  \/ /\ translate(m, a) = NotMapped
            /\ \A k \in 2 .. 4 : \A e : ~Leaf(m, a, k, e)
         \/ \E k \in 2 .. 4 : \E e : /\ Leaf(m, a, k, e)
                                     /\ translate(m, a) = Found(SubSeq(a, 1, k), k, e)
<1> DEFINE w3 == p3(m, a)
           w2 == p2(m, a)
           w1 == p1(m, a)
<1>1. translate(m, a) =
        IF w3.err = "MappedToHugePage" THEN [NotMapped EXCEPT !.result = "panic"]
        ELSE IF w3.err = "NotMapped" THEN NotMapped
        ELSE IF w2.err = "MappedToHugePage" THEN Mapped(m, SubSeq(a, 1, 2))
        ELSE IF w2.err = "NotMapped" THEN NotMapped
        ELSE IF w1.err = "MappedToHugePage" THEN Mapped(m, SubSeq(a, 1, 3))
        ELSE IF w1.err = "NotMapped" THEN NotMapped
        ELSE IF is_unused(m[w1.at][a[4]]) THEN NotMapped
        ELSE Mapped(m, a)
  BY DEF translate, p2, p1
<1>2. w3 = WalkTo(m, a, 1 + 1) /\ w2 = WalkTo(m, a, 2 + 1) /\ w1 = WalkTo(m, a, 3 + 1)
  BY DEF WalkTo
<1>3. Path(a, 1) /\ Path(a, 2) /\ Path(a, 3) /\ Path(a, 4) /\ Reach(m, a, 1)
  BY ReachStep DEF Path, Addresses
<1>4. /\ Reach(m, a, 1 + 1) => w3.err = "None"
      /\ Reach(m, a, 2 + 1) => w2.err = "None"
      /\ Reach(m, a, 3 + 1) => w1.err = "None" /\ w1.at = Tab(m, a, 4)
  <2>1. Reach(m, a, 2) => WalkTo(m, a, 2).err = "None"
    BY <1>3, WalkReaches
  <2>2. Reach(m, a, 3) => WalkTo(m, a, 3).err = "None"
    BY <1>3, WalkReaches
  <2>3. Reach(m, a, 4) => WalkTo(m, a, 4).err = "None" /\ WalkTo(m, a, 4).at = Tab(m, a, 4)
    BY <1>3, WalkReaches
  <2> QED BY <1>2, <2>1, <2>2, <2>3
<1> HIDE DEF w3, w2, w1
<1>5. Reach(m, a, 4) => Reach(m, a, 3)
  BY ReachStep
<1>6. Reach(m, a, 3) => Reach(m, a, 2)
  BY ReachStep
<1>7. CASE ~Reach(m, a, 2)
  <2>1. w3.err = "NotMapped"
    <3>1. PICK k \in 1 .. 3 : k = 1
      OBVIOUS
    <3>2. Path(a, k) /\ Reach(m, a, k) /\ ~Reach(m, a, k + 1) /\ w3 = WalkTo(m, a, k + 1)
      BY <1>2, <1>3, <1>7, <3>1
    <3> QED BY <3>1, <3>2, WalkFails
  <2> QED BY <1>1, <1>5, <1>6, <1>7, <2>1 DEF Leaf
<1>8. ASSUME NEW k \in 2 .. 3, Reach(m, a, k), ~Reach(m, a, k + 1), NEW w, w = WalkTo(m, a, k + 1),
             w.err = "MappedToHugePage" => translate(m, a) = Mapped(m, SubSeq(a, 1, k)),
             w.err = "NotMapped" => translate(m, a) = NotMapped
      PROVE  \/ /\ translate(m, a) = NotMapped
                /\ \A j \in 2 .. 4 : \A e : ~Leaf(m, a, j, e)
             \/ \E j \in 2 .. 4 : \E e : /\ Leaf(m, a, j, e)
                                         /\ translate(m, a) = Found(SubSeq(a, 1, j), j, e)
  <2>1. \/ Slot(m, a, k) = {} /\ w.err = "NotMapped"
        \/ w.err = "MappedToHugePage" /\ Leaf(m, a, k, Slot(m, a, k))
    <3>1. Path(a, k) /\ k \in 1 .. 3
      BY <1>3
    <3> QED BY <1>8, <3>1, WalkFails
  <2>2. CASE Slot(m, a, k) = {} /\ w.err = "NotMapped"
    <3>1. \A j \in 2 .. 4 : Reach(m, a, j) => j <= k
      BY <1>5, <1>6, <1>8
    <3>2. \A j \in 2 .. 4 : j < k => j = 2 /\ k = 3
      OBVIOUS
    <3>3. k = 3 => Pointer(5 - 2, Slot(m, a, 2))
      BY <1>8, ReachStep
    <3>4. ASSUME NEW j \in 2 .. 4, NEW e, Leaf(m, a, j, e) PROVE FALSE
      <4>1. j <= k
        BY <3>1, <3>4 DEF Leaf
      <4>2. CASE j = k
        BY <2>2, <3>4, <4>2 DEF Leaf
      <4>3. CASE j < k
        <5>1. j = 2 /\ k = 3
          BY <3>2, <4>3
        <5> QED BY <3>3, <3>4, <5>1 DEF Leaf
      <4> QED BY <4>1, <4>2, <4>3
    <3> QED BY <1>8, <2>2, <3>4
  <2>3. CASE w.err = "MappedToHugePage" /\ Leaf(m, a, k, Slot(m, a, k))
    <3>1. k \in 2 .. 4
      OBVIOUS
    <3>2. translate(m, a) = Found(SubSeq(a, 1, k), k, Slot(m, a, k))
      BY <1>8, <2>3, <3>1, MappedIsLeaf
    <3> QED BY <2>3, <3>1, <3>2
  <2> QED BY <2>1, <2>2, <2>3
<1>9. CASE Reach(m, a, 2) /\ ~Reach(m, a, 3)
  <2>1. /\ w2.err = "MappedToHugePage" => translate(m, a) = Mapped(m, SubSeq(a, 1, 2))
        /\ w2.err = "NotMapped" => translate(m, a) = NotMapped
    BY <1>1, <1>4, <1>9
  <2>2. PICK k \in 2 .. 3 : k = 2
    OBVIOUS
  <2> QED BY <1>2, <1>8, <1>9, <2>1, <2>2
<1>10. CASE Reach(m, a, 3) /\ ~Reach(m, a, 4)
  <2>1. /\ w1.err = "MappedToHugePage" => translate(m, a) = Mapped(m, SubSeq(a, 1, 3))
        /\ w1.err = "NotMapped" => translate(m, a) = NotMapped
    BY <1>1, <1>4, <1>6, <1>10
  <2>2. PICK k \in 2 .. 3 : k = 3
    OBVIOUS
  <2> QED BY <1>2, <1>8, <1>10, <2>1, <2>2
<1>11. CASE Reach(m, a, 4)
  <2>1. translate(m, a) = IF Slot(m, a, 4) = {} THEN NotMapped ELSE Mapped(m, a)
    BY <1>1, <1>4, <1>5, <1>6, <1>11 DEF is_unused, Slot
  <2>2. CASE Slot(m, a, 4) # {}
    <3>1. Leaf(m, a, 4, Slot(m, a, 4))
      BY <1>11, <2>2 DEF Leaf, Pointer
    <3>2. Mapped(m, SubSeq(a, 1, 4)) = Found(SubSeq(a, 1, 4), 4, Slot(m, a, 4))
      BY <3>1, MappedIsLeaf
    <3>3. SubSeq(a, 1, 4) = a
      BY Around
    <3>4. translate(m, a) = Found(SubSeq(a, 1, 4), 4, Slot(m, a, 4))
      BY <2>1, <2>2, <3>2, <3>3
    <3> QED BY <3>1, <3>4
  <2>3. CASE Slot(m, a, 4) = {}
    <3>1. Pointer(5 - 2, Slot(m, a, 2)) /\ Pointer(5 - 3, Slot(m, a, 3))
      BY <1>5, <1>11, ReachStep
    <3>2. ASSUME NEW j \in 2 .. 4, NEW e, Leaf(m, a, j, e) PROVE FALSE
      <4>1. j = 2 \/ j = 3 \/ j = 4
        OBVIOUS
      <4> QED BY <2>3, <3>1, <3>2, <4>1 DEF Leaf
    <3> QED BY <2>1, <2>3, <3>2
  <2> QED BY <2>2, <2>3
<1> QED BY <1>7, <1>9, <1>10, <1>11

LEMMA TranslateIsTold ==
  ASSUME Inv, ToldOK(mem, told) PROVE TranslateAgrees
<1> SUFFICES ASSUME NEW a \in Addresses
             PROVE  LET r == translate(mem, a)
                        around == {p \in Pages : p = SubSeq(a, 1, Len(p)) /\ told[p] # NotTold}
                    IN  /\ r.result = "Mapped" <=> around # {}
                        /\ \A p \in around :
                             /\ r.page = p /\ r.frame = told[p].frame
                             /\ told[p].flags \subseteq r.flags
                             /\ r.flags \subseteq told[p].flags \cup ParentFlags \cup AddrBits
  BY DEF TranslateAgrees
<1> DEFINE r == translate(mem, a)
           around == {p \in Pages : p = SubSeq(a, 1, Len(p)) /\ told[p] # NotTold}
<1>1. mem \in Memory /\ level \in Books /\ IsTree(mem, level) /\ told \in [Pages -> Told]
  BY InvMemory DEF Inv, TypeOK
<1>2. \/ /\ r = NotMapped /\ \A k \in 2 .. 4 : \A e : ~Leaf(mem, a, k, e)
      \/ \E k \in 2 .. 4 : \E e : Leaf(mem, a, k, e) /\ r = Found(SubSeq(a, 1, k), k, e)
  BY <1>1, TranslateFinds
<1> HIDE DEF r
\* A page the caller was told of around the address has its leaf there.
<1>3. ASSUME NEW p \in Pages, p = SubSeq(a, 1, Len(p)), told[p] # NotTold
      PROVE  \E d : Leaf(mem, a, Len(p), d) /\ EntrySays(d, told[p], Len(p))
  <2>1. PICK d : Leaf(mem, p, Len(p), d) /\ EntrySays(d, told[p], Len(p))
    BY <1>3 DEF ToldOK
  <2>2. PICK k \in 2 .. 4 : k = Len(p)
    BY PagePath
  <2>3. Same(p, a, k) /\ k \in 1 .. 4
    <3>1. Same(SubSeq(a, 1, k), a, k)
      BY Around
    <3>2. SubSeq(a, 1, k) = p
      BY <1>3, <2>2
    <3>3. k \in 1 .. 4
      OBVIOUS
    <3> QED BY <3>1, <3>2, <3>3
  <2>4. Same(p, a, k - 1) /\ p[k] = a[k]
    BY <2>3 DEF Same
  <2>5. (Reach(mem, p, k) <=> Reach(mem, a, k)) /\ Tab(mem, p, k) = Tab(mem, a, k)
    BY <2>3, <2>4, ReachSame
  <2>6. Leaf(mem, a, k, d)
    BY <2>1, <2>2, <2>4, <2>5 DEF Leaf, Slot
  <2> QED BY <2>1, <2>2, <2>6
<1>4. CASE r = NotMapped /\ \A k \in 2 .. 4 : \A e : ~Leaf(mem, a, k, e)
  <2>1. r.result # "Mapped"
    BY <1>4 DEF NotMapped
  <2>2. ASSUME NEW p \in around PROVE FALSE
    <3>1. PICK d : Leaf(mem, a, Len(p), d)
      BY <1>3
    <3> QED BY <1>4, <3>1, PagePath
  <2> QED BY <2>1, <2>2 DEF r
<1>5. ASSUME NEW k \in 2 .. 4, NEW e, Leaf(mem, a, k, e), r = Found(SubSeq(a, 1, k), k, e)
      PROVE  /\ r.result = "Mapped" /\ around # {}
             /\ \A p \in around :
                  /\ r.page = p /\ r.frame = told[p].frame
                  /\ told[p].flags \subseteq r.flags
                  /\ r.flags \subseteq told[p].flags \cup ParentFlags \cup AddrBits
  <2>1. /\ r.result = "Mapped" /\ r.page = SubSeq(a, 1, k)
        /\ r.frame = containing_address(addr(e), k) /\ r.flags = flags(e)
    BY <1>5 DEF Found
  <2>2. around # {}
    <3>1. /\ a \in Seq(Index) /\ Path(a, k) /\ SubSeq(a, 1, k) \in Seq(Index)
          /\ Len(SubSeq(a, 1, k)) = k /\ Same(SubSeq(a, 1, k), a, k)
      BY Around
    <3>2. Expected(told, a, k)
      BY <1>5, <3>1 DEF ToldOK
    <3>3. PICK p \in Pages : Len(p) = k /\ Same(a, p, k) /\ told[p] # NotTold
      BY <3>2 DEF Expected
    <3> DEFINE s == SubSeq(a, 1, k)
    <3>4. \A j \in 1 .. k : p[j] = s[j]
      BY <3>1, <3>3 DEF Same
    <3>5. p \in Seq(Index) /\ s \in Seq(Index) /\ Len(s) = k
      BY <3>1, MapperAssumption
    <3> HIDE DEF s
    <3>6. p = s
      BY <3>3, <3>4, <3>5
    <3>7. p = SubSeq(a, 1, Len(p))
      BY <3>3, <3>6 DEF s
    <3> QED BY <3>3, <3>7
  <2>3. ASSUME NEW p \in around
        PROVE  /\ r.page = p /\ r.frame = told[p].frame
               /\ told[p].flags \subseteq r.flags
               /\ r.flags \subseteq told[p].flags \cup ParentFlags \cup AddrBits
    <3>1. PICK d : Leaf(mem, a, Len(p), d) /\ EntrySays(d, told[p], Len(p))
      BY <1>3
    <3>2. Len(p) = k
      BY <1>5, <3>1, LeafAlone
    <3>3. d = e
      BY <1>5, <3>1, <3>2 DEF Leaf
    <3>4. p = SubSeq(a, 1, k)
      BY <3>2
    <3>5. containing_address(addr(e), k) = told[p].frame
      <4>1. /\ is_aligned(told[p].frame, k) /\ PatOK(told[p].flags, k)
            /\ addr(e) = told[p].frame \cup (told[p].flags \cap AddrBits)
        BY <3>1, <3>2, <3>3 DEF EntrySays
      <4> QED BY <4>1, PatMisaligns
    <3>6. told[p].flags \subseteq FlagBits
      BY <1>1 DEF Told
    <3> HIDE DEF around
    <3> QED BY <2>1, <3>1, <3>3, <3>4, <3>5, <3>6 DEF EntrySays, flags
  <2> QED BY <2>1, <2>2, <2>3
<1> QED BY <1>2, <1>4, <1>5 DEF r

LEMMA AnswersAreTold ==
  ASSUME Inv, ToldOK(mem, told) PROVE AnswersAgree
<1> SUFFICES ASSUME NEW p \in Pages
             PROVE  /\ told[p] # NotTold => translate_page(mem, p) = Answer(told[p])
                    /\ PRESENT \in told[p].flags => unmap_call(mem, p) = Answer(told[p])
                    /\ told[p] = NotTold => unmap_call(mem, p).err # "None"
  BY DEF AnswersAgree
<1> DEFINE t == TableOf(mem, p)
           e == EntryOf(mem, p)
           n == Len(p)
<1>1. n \in 2 .. 4 /\ n \in 1 .. 4 /\ Path(p, n) /\ Path(p, n - 1) /\ told[p] \in Told
  BY PagePath DEF Inv, TypeOK
<1>2. /\ t.err = "None" <=> Reach(mem, p, n)
      /\ Reach(mem, p, n) => e = Slot(mem, p, n)
  BY <1>1, InvMemory, EntryReached
<1>3. {PRESENT, HUGE_PAGE} \subseteq FlagBits
  BY BitsAssumption
<1>4. ASSUME told[p] # NotTold
      PROVE  /\ t.err = "None" /\ e # {}
             /\ addr(e) = told[p].frame \cup (told[p].flags \cap AddrBits)
             /\ is_aligned(addr(e), n) <=> told[p].flags \cap AddrBits = {}
             /\ told[p].flags \subseteq e
             /\ n < 4 => HUGE_PAGE \in flags(e)
  <2>1. PICK d : Leaf(mem, p, n, d) /\ EntrySays(d, told[p], n)
    BY <1>4 DEF ToldOK
  <2>2. t.err = "None" /\ e = d /\ e # {} /\ ~Pointer(5 - n, e)
    BY <1>2, <2>1 DEF Leaf
  <2>3. n < 4 => HUGE_PAGE \in flags(e)
    <3> HIDE DEF n, e
    <3> QED BY <1>1, <1>3, <2>2 DEF Pointer, flags
  <2>4. /\ addr(e) = told[p].frame \cup (told[p].flags \cap AddrBits)
        /\ is_aligned(told[p].frame, n) /\ PatOK(told[p].flags, n) /\ told[p].flags \subseteq e
    BY <2>1, <2>2 DEF EntrySays
  <2>5. is_aligned(addr(e), n) <=> told[p].flags \cap AddrBits = {}
    <3> HIDE DEF n, e
    <3> QED BY <1>1, <2>4, PatMisaligns
  <2> QED BY <2>2, <2>3, <2>4, <2>5
<1>5. translate_page(mem, p) =
        [err |-> IF t.err = "MappedToHugePage" THEN "ParentEntryHugePage"
                 ELSE IF t.err = "NotMapped" THEN "PageNotMapped"
                 ELSE IF is_unused(e) THEN "PageNotMapped"
                 ELSE IF ~is_aligned(addr(e), n) THEN "InvalidFrameAddress"
                 ELSE "None",
         frame |-> IF t.err = "None" THEN addr(e) ELSE {}]
  BY DEF translate_page
<1>6. unmap_call(mem, p) =
        [err |-> IF t.err = "MappedToHugePage" THEN "ParentEntryHugePage"
                 ELSE IF t.err = "NotMapped" THEN "PageNotMapped"
                 ELSE IF PRESENT \notin flags(e) THEN "PageNotMapped"
                 ELSE IF n < 4 /\ HUGE_PAGE \notin flags(e) THEN "ParentEntryHugePage"
                 ELSE IF ~is_aligned(addr(e), n) THEN "InvalidFrameAddress"
                 ELSE "None",
         frame |-> IF t.err = "None" THEN addr(e) ELSE {}]
  BY DEF unmap_call
<1>7. t.err \in {"MappedToHugePage", "NotMapped", "None"}
  BY WalkErrors
<1> HIDE DEF t, e, n
<1>8. ASSUME told[p] # NotTold
      PROVE  translate_page(mem, p) = Answer(told[p])
  BY <1>4, <1>5, <1>8 DEF is_unused, Answer
<1>9. ASSUME PRESENT \in told[p].flags
      PROVE  unmap_call(mem, p) = Answer(told[p])
  <2>1. told[p] # NotTold
    BY <1>9 DEF NotTold
  <2>2. PRESENT \in flags(e)
    BY <1>3, <1>4, <1>9, <2>1 DEF flags
  <2> QED BY <1>4, <1>6, <2>1, <2>2 DEF Answer
<1>10. ASSUME told[p] = NotTold, unmap_call(mem, p).err = "None" PROVE FALSE
  <2>1. t.err # "MappedToHugePage" /\ t.err # "NotMapped" /\ PRESENT \in flags(e)
        /\ ~(n < 4 /\ HUGE_PAGE \notin flags(e))
    BY <1>6, <1>10
  <2>2. Reach(mem, p, n) /\ e = Slot(mem, p, n)
    BY <1>2, <1>7, <2>1
  <2>3. ~Pointer(5 - n, e) /\ e # {}
    BY <1>1, <2>1 DEF flags, Pointer
  <2>4. Leaf(mem, p, n, e)
    BY <1>1, <2>2, <2>3 DEF Leaf
  <2>5. Expected(told, p, n)
    BY <1>1, <2>4 DEF ToldOK
  <2>6. PICK q \in Pages : Len(q) = n /\ Same(p, q, n) /\ told[q] # NotTold
    BY <2>5 DEF Expected
  <2>7. p = q
    BY <2>6, SamePage DEF n
  <2> QED BY <1>10, <2>6, <2>7
<1> QED BY <1>8, <1>9, <1>10

\* Inv and ToldOK hold in every reachable state.
THEOREM MappingsInvariant ==
  ASSUME CallerContract PROVE Spec => [](Inv /\ ToldOK(mem, told))
<1>1. Init => Inv /\ ToldOK(mem, told)
  BY InitInv, InitTold
<1>2. (Inv /\ ToldOK(mem, told)) /\ [Next]_vars => (Inv /\ ToldOK(mem, told))'
  BY NextInv, NextTold
<1> QED BY <1>1, <1>2, PTL DEF Spec

\* translate finds exactly the pages that callers were told are mapped, with the frame
\* and the flags they were told: no map_to, unmap, update_flags or set_flags call, and no
\* clean_up, makes, moves or loses a mapping other than the one it is about.
THEOREM TranslateCorrect == ASSUME CallerContract PROVE Spec => []TranslateAgrees
<1>1. Inv /\ ToldOK(mem, told) => TranslateAgrees
  BY TranslateIsTold
<1> QED BY <1>1, MappingsInvariant, PTL

\* translate_page and unmap answer for the page they are asked about, with the frame it
\* was mapped to, and unmap succeeds on no page that was not mapped with its size.  A huge
\* page given PAT_HUGE_PAGE is refused by both with InvalidFrameAddress.
THEOREM AnswersCorrect == ASSUME CallerContract PROVE Spec => []AnswersAgree
<1>1. Inv /\ ToldOK(mem, told) => AnswersAgree
  BY AnswersAreTold
<1> QED BY <1>1, MappingsInvariant, PTL

(***************************************************************************)
(* The address space.  Its mappings are the leaves.                        *)
(***************************************************************************)
MapOf(p, e) ==
  [page |-> p, frame |-> containing_address(addr(e), Len(p)), flags |-> flags(e)]
Maps(m, x) == \E p \in Pages : \E e : Leaf(m, p, Len(p), e) /\ x = MapOf(p, e)

\* A page has an address.
LEMMA PageHasAddress ==
  ASSUME NEW p \in Pages
  PROVE  \E a \in Addresses : SubSeq(a, 1, Len(p)) = p /\ Same(p, a, Len(p))
<1>1. p \in Seq(Index) /\ Len(p) \in 2 .. 4
  BY MapperAssumption
<1>2. PICK k \in 2 .. 4 : k = Len(p)
  BY <1>1
<1> DEFINE a == [j \in 1 .. 4 |-> IF j <= k THEN p[j] ELSE p[1]]
<1>3. \A j \in 1 .. k : p[j] \in Index
  BY <1>1, <1>2
<1>4. a \in Addresses
  BY <1>3 DEF Addresses
<1>5. \A j \in 1 .. k : a[j] = p[j]
  OBVIOUS
<1> HIDE DEF a
<1> DEFINE s == SubSeq(a, 1, k)
<1>6. s \in Seq(Index) /\ Len(s) = k /\ Same(s, a, k)
  BY <1>4, Around
<1> HIDE DEF s
<1>7. \A j \in 1 .. k : s[j] = p[j]
  BY <1>5, <1>6 DEF Same
<1>8. s = p
  BY <1>1, <1>2, <1>6, <1>7
<1>9. Same(p, a, k)
  BY <1>5 DEF Same
<1> QED BY <1>2, <1>4, <1>8, <1>9 DEF s

LEMMA LeafSame ==
  ASSUME NEW m, NEW s, NEW q, NEW k \in 2 .. 4, Same(s, q, k), NEW e, Leaf(m, s, k, e)
  PROVE  Leaf(m, q, k, e)
<1>1. Same(s, q, k - 1) /\ s[k] = q[k] /\ k \in 1 .. 4
  BY DEF Same
<1>2. (Reach(m, s, k) <=> Reach(m, q, k)) /\ Tab(m, s, k) = Tab(m, q, k)
  BY <1>1, ReachSame
<1> QED BY <1>1, <1>2 DEF Leaf, Slot

LEMMA SpaceIsLeaves ==
  ASSUME NEW m \in Memory, NEW lv \in Books, IsTree(m, lv), NEW tl, ToldOK(m, tl), NEW x
  PROVE  x \in SpaceOf(m) <=> Maps(m, x)
<1> DEFINE Of(r) == [page |-> r.page, frame |-> r.frame, flags |-> r.flags]
<1>1. x \in SpaceOf(m) <=>
        \E a \in Addresses : translate(m, a).result = "Mapped" /\ x = Of(translate(m, a))
  <2> DEFINE R == {t \in {translate(m, a) : a \in Addresses} : t.result = "Mapped"}
  <2>1. SpaceOf(m) = {Of(r) : r \in R}
    BY DEF SpaceOf
  <2> HIDE DEF Of
  <2> QED BY <2>1, Zenon
<1>2. \A s, k, e : Of(Found(s, k, e)) =
                     [page |-> s, frame |-> containing_address(addr(e), k), flags |-> flags(e)]
  BY DEF Found
<1>3. \A s, k, e : Found(s, k, e).result = "Mapped"
  BY DEF Found
<1>4. NotMapped.result # "Mapped"
  BY DEF NotMapped
<1> HIDE DEF Of
<1>5. ASSUME NEW a \in Addresses, translate(m, a).result = "Mapped", x = Of(translate(m, a))
      PROVE  Maps(m, x)
  <2>e. PICK k \in 2 .. 4 : \E e : Leaf(m, a, k, e) /\ translate(m, a) = Found(SubSeq(a, 1, k), k, e)
    <3>1. \E k \in 2 .. 4 : \E e : /\ Leaf(m, a, k, e)
                                   /\ translate(m, a) = Found(SubSeq(a, 1, k), k, e)
      BY <1>4, <1>5, TranslateFinds
    <3> QED BY <3>1
  <2>1. PICK e : Leaf(m, a, k, e) /\ translate(m, a) = Found(SubSeq(a, 1, k), k, e)
    BY <2>e
  <2> DEFINE s == SubSeq(a, 1, k)
  <2>2. /\ Path(a, k) /\ s \in Seq(Index) /\ Len(s) = k /\ Same(s, a, k)
    BY Around
  <2>3. translate(m, a) = Found(s, k, e)
    BY <2>1
  <2> HIDE DEF s
  <2>4. Expected(tl, a, k)
    BY <2>1, <2>2 DEF ToldOK
  <2>5. PICK p \in Pages : Len(p) = k /\ Same(a, p, k)
    BY <2>4 DEF Expected
  <2>6. \A j \in 1 .. k : p[j] = s[j]
    BY <2>2, <2>5 DEF Same
  <2>7. p = s
    <3>1. p \in Seq(Index)
      BY MapperAssumption
    <3> QED BY <2>2, <2>5, <2>6, <3>1
  <2>8. Leaf(m, p, Len(p), e)
    BY <2>1, <2>5, LeafSame
  <2>9. x = MapOf(p, e)
    BY <1>2, <1>5, <2>3, <2>5, <2>7 DEF MapOf
  <2> QED BY <2>8, <2>9 DEF Maps
<1>6. ASSUME NEW p \in Pages, NEW e, Leaf(m, p, Len(p), e), x = MapOf(p, e)
      PROVE  \E a \in Addresses : translate(m, a).result = "Mapped" /\ x = Of(translate(m, a))
  <2>1. PICK a \in Addresses : SubSeq(a, 1, Len(p)) = p /\ Same(p, a, Len(p))
    BY PageHasAddress
  <2>2. PICK k \in 2 .. 4 : k = Len(p)
    BY PagePath
  <2>3. Leaf(m, a, k, e)
    BY <1>6, <2>1, <2>2, LeafSame
  <2>e. PICK j \in 2 .. 4 : \E d : Leaf(m, a, j, d) /\ translate(m, a) = Found(SubSeq(a, 1, j), j, d)
    <3>1. \E j \in 2 .. 4 : \E d : /\ Leaf(m, a, j, d)
                                   /\ translate(m, a) = Found(SubSeq(a, 1, j), j, d)
      BY <2>3, TranslateFinds
    <3> QED BY <3>1
  <2>4. PICK d : Leaf(m, a, j, d) /\ translate(m, a) = Found(SubSeq(a, 1, j), j, d)
    BY <2>e
  <2>5. j = k /\ d = e
    <3>1. j = k
      BY <2>3, <2>4, LeafAlone
    <3> QED BY <2>3, <2>4, <3>1 DEF Leaf
  <2>6. translate(m, a) = Found(p, k, e)
    BY <2>1, <2>2, <2>4, <2>5
  <2>7. x = Of(translate(m, a))
    BY <1>2, <1>6, <2>2, <2>6 DEF MapOf
  <2> QED BY <1>3, <2>6, <2>7
<1> QED BY <1>1, <1>5, <1>6 DEF Maps

LEMMA SpaceSame ==
  ASSUME NEW m \in Memory, NEW lv \in Books, IsTree(m, lv), NEW tl, ToldOK(m, tl),
         NEW n \in Memory, NEW ln \in Books, IsTree(n, ln), NEW tn, ToldOK(n, tn),
         SameLeaves(m, n)
  PROVE  SpaceOf(n) = SpaceOf(m)
<1>1. \A x : Maps(n, x) <=> Maps(m, x)
  <2>1. \A p \in Pages : \A e : Leaf(n, p, Len(p), e) <=> Leaf(m, p, Len(p), e)
    BY PagePath DEF SameLeaves
  <2> QED BY <2>1 DEF Maps
<1>2. \A x : x \in SpaceOf(n) <=> x \in SpaceOf(m)
  BY <1>1, SpaceIsLeaves
<1> QED BY <1>2

\* The leaf of one page changes: so does its mapping, and no other.
LEMMA SpaceChange ==
  ASSUME NEW m \in Memory, NEW lv \in Books, IsTree(m, lv), NEW tl, ToldOK(m, tl),
         NEW n \in Memory, NEW ln \in Books, IsTree(n, ln), NEW tn, ToldOK(n, tn),
         NEW page \in Pages, NEW e, LeafBecomes(m, n, page, Len(page), e), NEW x
  PROVE  x \in SpaceOf(n) <=> \/ e # {} /\ x = MapOf(page, e)
                              \/ x \in SpaceOf(m) /\ x.page # page
<1>1. /\ \A d : Leaf(n, page, Len(page), d) <=> d = e /\ e # {}
      /\ \A p \in Pages : \A d :
           p # page => (Leaf(n, p, Len(p), d) <=> Leaf(m, p, Len(p), d))
  <2>1. \A p \in Pages : Len(p) = Len(page) /\ Same(p, page, Len(page)) <=> p = page
    <3>1. Same(page, page, Len(page))
      BY DEF Same
    <3> QED BY <3>1, SamePage
  <2> QED BY <2>1, PagePath DEF LeafBecomes
<1>2. \A p, d : MapOf(p, d).page = p
  BY DEF MapOf
<1>3. Maps(n, x) => \/ e # {} /\ x = MapOf(page, e)
                    \/ Maps(m, x) /\ x.page # page
  <2> SUFFICES ASSUME NEW p \in Pages, NEW d, Leaf(n, p, Len(p), d), x = MapOf(p, d)
               PROVE  \/ e # {} /\ x = MapOf(page, e)
                      \/ Maps(m, x) /\ x.page # page
    BY DEF Maps
  <2>1. CASE p = page
    BY <1>1, <2>1
  <2>2. CASE p # page
    BY <1>1, <1>2, <2>2 DEF Maps
  <2> QED BY <2>1, <2>2
<1>4. e # {} /\ x = MapOf(page, e) => Maps(n, x)
  BY <1>1 DEF Maps
<1>5. Maps(m, x) /\ x.page # page => Maps(n, x)
  BY <1>1, <1>2 DEF Maps
<1> QED BY <1>3, <1>4, <1>5, SpaceIsLeaves

\* No leaf lies under another, so mappings do not overlap.
LEMMA LeavesApart ==
  ASSUME NEW m, NEW p \in Pages, NEW q \in Pages, NEW d, NEW e,
         Leaf(m, p, Len(p), d), Leaf(m, q, Len(q), e), AS!Overlap(p, q)
  PROVE  p = q
<1>1. PICK j \in 2 .. 4 : j = Len(p)
  BY PagePath
<1>2. PICK k \in 2 .. 4 : k = Len(q)
  BY PagePath
<1>3. \A i \in 1 .. 4 : i <= j /\ i <= k => p[i] = q[i]
  BY <1>1, <1>2 DEF AS!Overlap
<1>4. CASE j <= k
  <2>1. Same(p, q, j)
    BY <1>3, <1>4 DEF Same
  <2>2. Leaf(m, q, j, d)
    BY <1>1, <2>1, LeafSame
  <2>3. j = k
    BY <1>2, <2>2, LeafAlone
  <2> QED BY <1>1, <1>2, <2>1, <2>3, SamePage
<1>5. CASE k <= j
  <2>1. Same(q, p, k)
    BY <1>3, <1>5 DEF Same
  <2>2. Leaf(m, p, k, e)
    BY <1>2, <2>1, LeafSame
  <2>3. j = k
    BY <1>1, <2>2, LeafAlone
  <2> QED BY <1>1, <1>2, <2>1, <2>3, SamePage
<1> QED BY <1>4, <1>5

\* The steps of the address space, on its values before and after.
Added(A, B) ==
  \E x \in B :
    /\ x \in AS!Mapping
    /\ \A y \in A : ~AS!Overlap(x.page, y.page)
    /\ B = A \cup {x}
Removed(A, B) == \E x \in A : B = A \ {x}
Reflagged(A, B) ==
  \E x \in A, y \in B :
    /\ y.flags \in SUBSET FlagBits
    /\ y = [x EXCEPT !.flags = y.flags]
    /\ B = (A \ {x}) \cup {y}
SpaceStep(A, B) == B = A \/ Added(A, B) \/ Removed(A, B) \/ Reflagged(A, B)

LEMMA MapIsMap ==
  ASSUME NEW m \in Memory, NEW lv \in Books, IsTree(m, lv), NEW tl, ToldOK(m, tl),
         NEW n \in Memory, NEW ln \in Books, IsTree(n, ln), NEW tn, ToldOK(n, tn),
         NEW page \in Pages, NEW e, e # {}, LeafBecomes(m, n, page, Len(page), e), NoLeaf(m, page)
  PROVE  Added(SpaceOf(m), SpaceOf(n))
<1> DEFINE x == MapOf(page, e)
<1>2. \A y : y \in SpaceOf(n) <=> y = x \/ (y \in SpaceOf(m) /\ y.page # page)
  BY SpaceChange
<1>3. Leaf(n, page, Len(page), e)
  <2>1. Same(page, page, Len(page))
    BY DEF Same
  <2> QED BY <2>1, PagePath DEF LeafBecomes
<1>4. ASSUME NEW y \in SpaceOf(m) PROVE ~AS!Overlap(x.page, y.page) /\ y.page # page
  <2>e. PICK q \in Pages : \E d : Leaf(m, q, Len(q), d) /\ y = MapOf(q, d)
    <3>1. Maps(m, y)
      BY SpaceIsLeaves
    <3> QED BY <3>1 DEF Maps
  <2>1. PICK d : Leaf(m, q, Len(q), d) /\ y = MapOf(q, d)
    BY <2>e
  <2>2. x.page = page /\ y.page = q
    BY <2>1 DEF MapOf
  <2>3. q # page
    BY <2>1 DEF NoLeaf
  <2>4. Leaf(n, q, Len(q), d)
    <3>1. ~(Len(q) = Len(page) /\ Same(q, page, Len(page)))
      BY <2>3, SamePage
    <3> QED BY <2>1, <3>1, PagePath DEF LeafBecomes
  <2>5. ~AS!Overlap(page, q)
    BY <1>3, <2>3, <2>4, LeavesApart
  <2> HIDE DEF x
  <2> QED BY <2>2, <2>3, <2>5
<1>5. x \in AS!Mapping
  <2>1. \A k \in 2 .. 4 : containing_address(addr(e), k) \in SUBSET AddrBits
    BY DEF containing_address, addr
  <2>2. containing_address(addr(e), Len(page)) \in SUBSET AddrBits
    BY <2>1, PagePath
  <2>3. flags(e) \in SUBSET FlagBits
    BY DEF flags
  <2> QED BY <2>2, <2>3 DEF AS!Mapping, MapOf
<1> HIDE DEF x
<1>6. SpaceOf(n) = SpaceOf(m) \cup {x} /\ x \in SpaceOf(n)
  BY <1>2, <1>4
<1> QED BY <1>4, <1>5, <1>6 DEF Added

LEMMA UnmapIsUnmap ==
  ASSUME NEW m \in Memory, NEW lv \in Books, IsTree(m, lv), NEW tl, ToldOK(m, tl),
         NEW n \in Memory, NEW ln \in Books, IsTree(n, ln), NEW tn, ToldOK(n, tn),
         NEW page \in Pages, LeafBecomes(m, n, page, Len(page), {}), NEW old, Leaf(m, page, Len(page), old)
  PROVE  Removed(SpaceOf(m), SpaceOf(n))
<1> DEFINE x == MapOf(page, old)
<1>2. \A y : y \in SpaceOf(n) <=> y \in SpaceOf(m) /\ y.page # page
  BY SpaceChange
<1>3. x \in SpaceOf(m) /\ x.page = page
  <2>1. Maps(m, x)
    BY DEF Maps
  <2> QED BY <2>1, SpaceIsLeaves DEF MapOf
<1>4. ASSUME NEW y \in SpaceOf(m), y.page = page PROVE y = x
  <2>e. PICK q \in Pages : \E d : Leaf(m, q, Len(q), d) /\ y = MapOf(q, d)
    <3>1. Maps(m, y)
      BY SpaceIsLeaves
    <3> QED BY <3>1 DEF Maps
  <2>1. PICK d : Leaf(m, q, Len(q), d) /\ y = MapOf(q, d)
    BY <2>e
  <2>2. q = page
    BY <1>4, <2>1 DEF MapOf
  <2>3. d = old
    BY <2>1, <2>2 DEF Leaf
  <2> QED BY <2>1, <2>2, <2>3
<1> HIDE DEF x
<1>5. SpaceOf(n) = SpaceOf(m) \ {x}
  BY <1>2, <1>3, <1>4
<1> QED BY <1>3, <1>5 DEF Removed

LEMMA FlagsIsSetFlags ==
  ASSUME NEW m \in Memory, NEW lv \in Books, IsTree(m, lv), NEW tl, ToldOK(m, tl),
         NEW n \in Memory, NEW ln \in Books, IsTree(n, ln), NEW tn, ToldOK(n, tn),
         NEW page \in Pages, NEW old, Leaf(m, page, Len(page), old), NEW e, e # {},
         containing_address(addr(e), Len(page)) = containing_address(addr(old), Len(page)),
         LeafBecomes(m, n, page, Len(page), e)
  PROVE  Reflagged(SpaceOf(m), SpaceOf(n))
<1> DEFINE x == MapOf(page, old)
           z == MapOf(page, e)
<1>2. \A y : y \in SpaceOf(n) <=> y = z \/ (y \in SpaceOf(m) /\ y.page # page)
  BY SpaceChange
<1>3. x \in SpaceOf(m) /\ x.page = page
  <2>1. Maps(m, x)
    BY DEF Maps
  <2> QED BY <2>1, SpaceIsLeaves DEF MapOf
<1>4. ASSUME NEW y \in SpaceOf(m), y.page = page PROVE y = x
  <2>e. PICK q \in Pages : \E d : Leaf(m, q, Len(q), d) /\ y = MapOf(q, d)
    <3>1. Maps(m, y)
      BY SpaceIsLeaves
    <3> QED BY <3>1 DEF Maps
  <2>1. PICK d : Leaf(m, q, Len(q), d) /\ y = MapOf(q, d)
    BY <2>e
  <2>2. q = page
    BY <1>4, <2>1 DEF MapOf
  <2>3. d = old
    BY <2>1, <2>2 DEF Leaf
  <2> QED BY <2>1, <2>2, <2>3
<1>5. z.flags \in SUBSET FlagBits /\ z = [x EXCEPT !.flags = z.flags]
  <2>1. PICK fr : fr = containing_address(addr(e), Len(page))
    OBVIOUS
  <2>2. PICK fx, fz : fx = flags(old) /\ fz = flags(e)
    OBVIOUS
  <2>3. /\ x = [page |-> page, frame |-> fr, flags |-> fx]
        /\ z = [page |-> page, frame |-> fr, flags |-> fz]
    BY <2>1, <2>2 DEF MapOf
  <2>4. fz \in SUBSET FlagBits
    BY <2>2 DEF flags
  <2> HIDE DEF x, z
  <2> QED BY <2>3, <2>4
<1> HIDE DEF x, z
<1>6. SpaceOf(n) = (SpaceOf(m) \ {x}) \cup {z} /\ z \in SpaceOf(n)
  BY <1>2, <1>3, <1>4
<1> QED BY <1>3, <1>5, <1>6 DEF Reflagged

\* A map_to adds the mapping of its page, or widens the flags of the huge page in its way,
\* or does nothing to the address space.
LEMMA MapStep ==
  ASSUME NEW m \in Memory, NEW lv \in Books, IsTree(m, lv), NEW tl, ToldOK(m, tl),
         NEW n \in Memory, NEW ln \in Books, IsTree(n, ln), NEW tn, ToldOK(n, tn),
         NEW page \in Pages, NEW frame, NEW f, PRESENT \in f, NEW pf, pf \cap AddrBits = {},
         \/ MapRefused(m, n, tl, tn, page, pf)
         \/ MapDone(m, n, tl, tn, page, frame, f, pf)
  PROVE  SpaceStep(SpaceOf(m), SpaceOf(n))
<1>3. CASE SameLeaves(m, n)
  BY <1>3, SpaceSame DEF SpaceStep
<1>4. CASE Blocked(m, n, page, pf)
  <2>1. PICK j \in 2 .. 3, e \in Entry :
          Path(page, j) /\ Leaf(m, page, j, e) /\ LeafBecomes(m, n, page, j, e \cup pf)
    BY <1>4 DEF Blocked
  <2>2. j \in 2 .. 4 /\ e # {}
    BY <2>1 DEF Leaf
  <2>3. Expected(tl, page, j)
    BY <2>1, <2>2 DEF ToldOK
  <2>4. PICK q \in Pages : Len(q) = j /\ Same(page, q, j)
    BY <2>3 DEF Expected
  <2>5. Leaf(m, q, Len(q), e)
    BY <2>1, <2>2, <2>4, LeafSame
  <2>6. LeafBecomes(m, n, q, Len(q), e \cup pf)
    <3>1. \A s : Same(s, page, j) <=> Same(s, q, j)
      BY <2>4 DEF Same
    <3> QED BY <2>1, <2>4, <3>1 DEF LeafBecomes
  <2>7. e \cup pf # {} /\ addr(e \cup pf) = addr(e)
    BY <2>2 DEF addr
  <2>8. Reflagged(SpaceOf(m), SpaceOf(n))
    BY <2>5, <2>6, <2>7, FlagsIsSetFlags
  <2> QED BY <2>8 DEF SpaceStep
<1>5. CASE MapDone(m, n, tl, tn, page, frame, f, pf)
  <2> DEFINE e == set_addr(frame, LeafBits(page, f))
  <2>1. e # {}
    BY DEF set_addr, LeafBits
  <2>2. LeafBecomes(m, n, page, Len(page), e) /\ NoLeaf(m, page)
    BY <1>5 DEF MapDone
  <2> HIDE DEF e
  <2>3. Added(SpaceOf(m), SpaceOf(n))
    BY <2>1, <2>2, MapIsMap
  <2> QED BY <2>3 DEF SpaceStep
<1> QED BY <1>3, <1>4, <1>5 DEF MapRefused

LEMMA MapToStep ==
  ASSUME CallerContract, Inv, Inv', ToldOK(mem, told), ToldOK(mem', told'),
         NEW page \in Pages, NEW frame \in DataFrames, NEW f \in MapFlags,
         NEW pf, ParentOK(pf), map_to_with_table_flags(page, frame, f, pf)
  PROVE  SpaceStep(SpaceOf(mem), SpaceOf(mem'))
<1>1. mem \in Memory /\ level \in Books /\ IsTree(mem, level)
  BY InvMemory
<1>2. (mem \in Memory /\ level \in Books /\ IsTree(mem, level))'
  BY InvMemory, PTL
<1>3. PICK n, ln, tn : n = mem' /\ ln = level' /\ tn = told'
  OBVIOUS
<1>4. n \in Memory /\ ln \in Books /\ IsTree(n, ln) /\ ToldOK(n, tn)
  BY <1>2, <1>3
<1>5. \/ MapRefused(mem, n, told, tn, page, pf)
      \/ MapDone(mem, n, told, tn, page, frame, f, pf)
  BY <1>3, MapToEffect
<1>6. PRESENT \in f /\ pf \cap AddrBits = {}
  BY DEF CallerContract, ParentOK
<1>7. SpaceStep(SpaceOf(mem), SpaceOf(n))
  BY <1>1, <1>4, <1>5, <1>6, MapStep
<1> QED BY <1>3, <1>7

LEMMA SpaceNext ==
  ASSUME CallerContract, Inv, Inv', ToldOK(mem, told), ToldOK(mem', told'), [Next]_vars
  PROVE  SpaceStep(SpaceOf(mem), SpaceOf(mem'))
<1>m. mem \in Memory /\ level \in Books /\ IsTree(mem, level)
  BY InvMemory
<1>p. (mem \in Memory /\ level \in Books /\ IsTree(mem, level))'
  BY InvMemory, PTL
<1>n. PICK n, ln, tn : n = mem' /\ ln = level' /\ tn = told'
  OBVIOUS
<1>0. n \in Memory /\ ln \in Books /\ IsTree(n, ln) /\ ToldOK(n, tn)
  BY <1>p, <1>n
<1>s. SameLeaves(mem, n) => SpaceStep(SpaceOf(mem), SpaceOf(n))
  BY <1>m, <1>0, SpaceSame DEF SpaceStep
<1>1. CASE MapTo
  <2>1. PICK page \in Pages, d \in DataFrames, f \in MapFlags : map_to(page, d, f)
    BY <1>1 DEF MapTo, AlignedFrames, FlagsFor
  <2>2. ParentOK(f \cap {PRESENT, WRITABLE, USER_ACCESSIBLE})
    <3>1. f \in SUBSET FlagBits /\ PRESENT \in f
      BY MapperAssumption DEF CallerContract
    <3> QED BY <3>1, BitsAssumption DEF ParentOK
  <2> QED BY <2>1, <2>2, MapToStep DEF map_to
<1>2. CASE MapToWithTableFlags
  <2>1. PICK page \in Pages, d \in DataFrames, f \in MapFlags, t \in TableFlags :
          map_to_with_table_flags(page, d, f, t)
    BY <1>2 DEF MapToWithTableFlags, AlignedFrames, FlagsFor
  <2>2. ParentOK(t)
    BY MapperAssumption DEF CallerContract, ParentOK
  <2> QED BY <2>1, <2>2, MapToStep
<1>3. CASE Unmap
  <2>1. PICK page \in Pages : unmap(page)
    BY <1>3 DEF Unmap
  <2>2. LeafBecomes(mem, n, page, Len(page), {}) /\ \E old : Leaf(mem, page, Len(page), old)
    BY <1>n, <2>1, UnmapEffect
  <2>3. PICK old : Leaf(mem, page, Len(page), old)
    BY <2>2
  <2>4. Removed(SpaceOf(mem), SpaceOf(n))
    BY <1>m, <1>0, <2>2, <2>3, UnmapIsUnmap
  <2> QED BY <1>n, <2>4 DEF SpaceStep
<1>4. CASE UpdateFlags
  <2>1. PICK page \in Pages, f \in LeafFlags :
          /\ f \in FlagsFor(page, LeafFlags)
          /\ (Len(page) < 4 => ~NamesTable(mem, page)) /\ update_flags(page, f)
    BY <1>4 DEF UpdateFlags, FlagsFor
  <2>2. PICK old \in Entry :
          /\ Leaf(mem, page, Len(page), old)
          /\ LeafBecomes(mem, mem', page, Len(page), set_flags(old, LeafBits(page, f)))
    BY <2>1, UpdateFlagsEffect
  <2> DEFINE e == set_flags(old, LeafBits(page, f))
  <2>3. e # {} /\ containing_address(addr(e), Len(page)) = containing_address(addr(old), Len(page))
    <3>1. PatOK(LeafBits(page, f), Len(page)) /\ LeafBits(page, f) # {} /\ Len(page) \in 2 .. 4
      BY <2>1, PatAllowed, PagePath DEF CallerContract, LeafBits, FlagsFor
    <3>2. addr(e) = addr(old) \cup (LeafBits(page, f) \cap AddrBits) /\ e # {}
      BY <3>1 DEF set_flags, addr
    <3>3. PICK k, g, a, c :
            k \in 2 .. 4 /\ k = Len(page) /\ g = LeafBits(page, f) /\ a = addr(old) /\ c = addr(e)
      BY <3>1
    <3>4. k \in 2 .. 4 /\ PatOK(g, k) /\ c = a \cup (g \cap AddrBits)
      BY <3>1, <3>2, <3>3
    <3>5. containing_address(c, k) = containing_address(a, k)
      <4> HIDE DEF e
      <4> QED BY <3>4, PatHidden
    <3> QED BY <3>2, <3>3, <3>5
  <2>4. LeafBecomes(mem, n, page, Len(page), e)
    BY <1>n, <2>2
  <2> HIDE DEF e
  <2>5. Reflagged(SpaceOf(mem), SpaceOf(n))
    BY <1>m, <1>0, <2>2, <2>3, <2>4, FlagsIsSetFlags
  <2> QED BY <1>n, <2>5 DEF SpaceStep
<1>5. CASE SetFlagsEntry
  BY <1>5, <1>n, <1>s, SetFlagsEntryEffect DEF SetFlagsEntry
<1>6. CASE CleanUp
  BY <1>6, <1>n, <1>s, CleanUpEffect DEF CleanUp, clean_up
<1>7. CASE CleanUpAddrRange
  BY <1>7, <1>n, <1>s, CleanUpEffect DEF CleanUpAddrRange
<1>8. CASE UNCHANGED vars
  BY <1>8 DEF vars, SpaceStep
<1> QED BY <1>1, <1>2, <1>3, <1>4, <1>5, <1>6, <1>7, <1>8 DEF Next

\* The page tables implement the abstract address space: through translate, every call is
\* seen to add one mapping where none overlaps it, to remove one, to change the flags of
\* one, or to do nothing at all, even where it fails half way.
THEOREM SpaceImplemented == ASSUME CallerContract PROVE Spec => ImplementsAddressSpace
<1>1. Init => AS!Init
  <2> SUFFICES ASSUME Init PROVE SpaceOf(mem) = {}
    BY DEF AS!Init
  <2>1. Inv /\ ToldOK(mem, told)
    BY InitInv, InitTold
  <2>2. \A p \in Pages : told[p] = NotTold
    BY DEF Init
  <2>3. ASSUME NEW x \in SpaceOf(mem) PROVE FALSE
    <3>1. Maps(mem, x)
      BY <2>1, InvMemory, SpaceIsLeaves
    <3>e. PICK p \in Pages : \E e : Leaf(mem, p, Len(p), e)
      BY <3>1 DEF Maps
    <3>2. PICK e : Leaf(mem, p, Len(p), e)
      BY <3>e
    <3>3. Expected(told, p, Len(p))
      BY <2>1, <3>2, PagePath DEF ToldOK
    <3> QED BY <2>2, <3>3 DEF Expected
  <2> QED BY <2>3
<1>2. (Inv /\ ToldOK(mem, told)) /\ (Inv /\ ToldOK(mem, told))' /\ [Next]_vars
        => [AS!Next]_(SpaceOf(mem))
  <2> SUFFICES ASSUME SpaceStep(SpaceOf(mem), SpaceOf(mem'))
               PROVE  AS!Next \/ SpaceOf(mem') = SpaceOf(mem)
    BY SpaceNext
  <2>1. Added(SpaceOf(mem), SpaceOf(mem')) => AS!Map
    BY DEF Added, AS!Map
  <2>2. Removed(SpaceOf(mem), SpaceOf(mem')) => AS!Unmap
    BY DEF Removed, AS!Unmap
  <2>3. Reflagged(SpaceOf(mem), SpaceOf(mem')) => AS!SetFlags
    BY DEF Reflagged, AS!SetFlags
  <2> QED BY <2>1, <2>2, <2>3 DEF SpaceStep, AS!Next
<1> QED BY <1>1, <1>2, MappingsInvariant, PTL DEF Spec, ImplementsAddressSpace, AS!Spec

(***************************************************************************)
(* Rights.                                                                 *)
(***************************************************************************)
Rights == {PRESENT, WRITABLE, USER_ACCESSIBLE}
RightsOK(m, tl) ==
  \A p \in Pages : tl[p] # NotTold =>
    \A k \in 1 .. Len(p) - 1 : tl[p].flags \cap Rights \subseteq Slot(m, p, k)

\* A call that only widens the entries on walks takes no right away.
LEMMA RightsWiden ==
  ASSUME NEW m, NEW n, NEW tl, ToldOK(m, tl), RightsOK(m, tl), NEW p \in Pages,
         tl[p] # NotTold, NEW k \in 1 .. Len(p) - 1, Widens(m, n)
  PROVE  tl[p].flags \cap Rights \subseteq Slot(n, p, k)
<1>1. PICK i \in 1 .. 4 : i = Len(p)
  BY PagePath
<1>2. k \in 1 .. 3 /\ k + 1 \in 1 .. i
  BY <1>1
<1>3. Path(p, k)
  BY <1>1, <1>2, PagePath DEF Path
<1>4. Reach(m, p, i)
  BY <1>1 DEF ToldOK, Leaf
<1>5. Reach(m, p, k + 1)
  BY <1>2, <1>4, ReachBefore
<1>6. Slot(m, p, k) \subseteq Slot(n, p, k)
  BY <1>2, <1>3, <1>5 DEF Widens
<1> QED BY <1>6 DEF RightsOK

LEMMA RightsPaths ==
  ASSUME NEW m, NEW n, NEW tl, ToldOK(m, tl), RightsOK(m, tl), SamePaths(m, n)
  PROVE  RightsOK(n, tl)
<1> SUFFICES ASSUME NEW p \in Pages, tl[p] # NotTold, NEW k \in 1 .. Len(p) - 1
             PROVE  tl[p].flags \cap Rights \subseteq Slot(n, p, k)
  BY DEF RightsOK
<1>1. PICK e : Leaf(m, p, Len(p), e)
  BY DEF ToldOK
<1>2. k \in 1 .. Len(p)
  BY PagePath
<1>3. Slot(n, p, k) = Slot(m, p, k)
  BY <1>1, <1>2, PagePath DEF SamePaths
<1> QED BY <1>3 DEF RightsOK

LEMMA NextRights ==
  ASSUME CallerContract, LeafFlags = {}, TableFlags = {}, Inv, ToldOK(mem, told),
         RightsOK(mem, told), [Next]_vars
  PROVE  RightsOK(mem', told')
<1>1. CASE MapTo
  <2>1. PICK page \in Pages, d \in DataFrames, f \in MapFlags : map_to(page, d, f)
    BY <1>1 DEF MapTo, AlignedFrames, FlagsFor
  <2> DEFINE pf == f \cap {PRESENT, WRITABLE, USER_ACCESSIBLE}
  <2>2. ParentOK(pf)
    <3>1. f \in SUBSET FlagBits /\ PRESENT \in f
      BY MapperAssumption DEF CallerContract
    <3> QED BY <3>1, BitsAssumption DEF ParentOK
  <2>3. Widens(mem, mem') /\ (MapRefused(mem, mem', told, told', page, pf)
                               \/ MapDone(mem, mem', told, told', page, d, f, pf))
    BY <2>1, <2>2, MapToEffect DEF map_to
  <2>4. CASE MapRefused(mem, mem', told, told', page, pf)
    <3>1. told' = told
      BY <2>4 DEF MapRefused
    <3> QED BY <2>3, <3>1, RightsWiden DEF RightsOK
  <2>5. CASE MapDone(mem, mem', told, told', page, d, f, pf)
    <3> DEFINE x == [frame |-> d, flags |-> LeafBits(page, f)]
    <3>1. /\ told' = [told EXCEPT ![page] = x]
          /\ \A j \in 1 .. Len(page) - 1 : pf \subseteq Slot(mem', page, j)
      BY <2>5 DEF MapDone
    <3>2. x.flags \cap Rights = pf
      BY BitsAssumption DEF LeafBits, Rights
    <3> HIDE DEF x, pf
    <3>3. DOMAIN told = Pages
      BY DEF Inv, TypeOK
    <3> SUFFICES ASSUME NEW p \in Pages, told'[p] # NotTold, NEW k \in 1 .. Len(p) - 1
                 PROVE  told'[p].flags \cap Rights \subseteq Slot(mem', p, k)
      BY DEF RightsOK
    <3>4. CASE p = page
      BY <3>1, <3>2, <3>3, <3>4
    <3>5. CASE p # page
      <4>1. told'[p] = told[p]
        BY <3>1, <3>3, <3>5
      <4> QED BY <2>3, <4>1, RightsWiden
    <3> QED BY <3>4, <3>5
  <2> QED BY <2>3, <2>4, <2>5
<1>2. CASE MapToWithTableFlags
  BY <1>2 DEF MapToWithTableFlags
<1>3. CASE Unmap
  <2>1. PICK page \in Pages : unmap(page)
    BY <1>3 DEF Unmap
  <2>2. Widens(mem, mem')
    BY <2>1, UnmapEffect
  <2>3. told' = [told EXCEPT ![page] = NotTold] /\ DOMAIN told = Pages
    BY <2>1 DEF unmap, Inv, TypeOK
  <2> SUFFICES ASSUME NEW p \in Pages, told'[p] # NotTold, NEW k \in 1 .. Len(p) - 1
               PROVE  told'[p].flags \cap Rights \subseteq Slot(mem', p, k)
    BY DEF RightsOK
  <2>4. told'[p] = told[p]
    BY <2>3
  <2> QED BY <2>2, <2>4, RightsWiden
<1>4. CASE UpdateFlags
  BY <1>4 DEF UpdateFlags, FlagsFor
<1>5. CASE SetFlagsEntry
  BY <1>5 DEF SetFlagsEntry
<1>6. CASE CleanUp
  <2>1. SamePaths(mem, mem') /\ told' = told
    BY <1>6, CleanUpEffect DEF CleanUp, clean_up, clean_up_addr_range
  <2> QED BY <2>1, RightsPaths
<1>7. CASE CleanUpAddrRange
  <2>1. SamePaths(mem, mem') /\ told' = told
    BY <1>7, CleanUpEffect DEF CleanUpAddrRange, clean_up_addr_range
  <2> QED BY <2>1, RightsPaths
<1>8. CASE UNCHANGED vars
  BY <1>8 DEF vars
<1> QED BY <1>1, <1>2, <1>3, <1>4, <1>5, <1>6, <1>7, <1>8 DEF Next

\* Where the flags of pages and tables are left to map_to, every entry on the walk to a
\* page carries the rights the page was mapped with, whichever page its parent tables
\* were created for and whatever was unmapped and cleaned up since.
THEOREM RightsCorrect ==
  ASSUME CallerContract, LeafFlags = {}, TableFlags = {} PROVE Spec => []RightsReachPage
<1>1. Init => RightsOK(mem, told)
  BY DEF Init, RightsOK
<1>2. (Inv /\ ToldOK(mem, told)) /\ RightsOK(mem, told) /\ [Next]_vars => RightsOK(mem, told)'
  BY NextRights
<1>3. (Inv /\ ToldOK(mem, told)) /\ RightsOK(mem, told) => RightsReachPage
  <2> SUFFICES ASSUME Inv, ToldOK(mem, told), RightsOK(mem, told),
                      NEW p \in Pages, told[p] # NotTold, NEW k \in 1 .. Len(p) - 1
               PROVE  told[p].flags \cap Rights \subseteq EntryOf(mem, SubSeq(p, 1, k))
    BY DEF RightsReachPage, Rights
  <2> DEFINE s == SubSeq(p, 1, k)
  <2>1. p \in Seq(Index) /\ Len(p) \in 2 .. 4
    BY MapperAssumption
  <2>2. k \in 1 .. 4 /\ k \in 1 .. Len(p) /\ Len(p) \in 1 .. 4
    <3>1. PICK i \in 2 .. 4 : i = Len(p)
      BY <2>1
    <3>2. k \in 1 .. i - 1
      BY <3>1
    <3>3. k \in 1 .. 4 /\ k \in 1 .. i /\ i \in 1 .. 4
      BY <3>2
    <3> QED BY <3>1, <3>3
  <2>3. Len(s) = k
    BY <2>1, <2>2
  <2>4. \A j \in 1 .. k : s[j] = p[j] /\ p[j] \in Index
    BY <2>1, <2>2
  <2> HIDE DEF s
  <2>5. Same(s, p, k - 1) /\ s[k] = p[k] /\ Path(s, k - 1)
    BY <2>2, <2>4 DEF Same, Path
  <2>6. Reach(mem, p, Len(p))
    BY DEF ToldOK, Leaf
  <2>7. Reach(mem, p, k)
    BY <2>2, <2>6, ReachBefore
  <2>8. (Reach(mem, s, k) <=> Reach(mem, p, k)) /\ Tab(mem, s, k) = Tab(mem, p, k)
    BY <2>2, <2>5, ReachSame
  <2>9. EntryOf(mem, s) = Slot(mem, s, k)
    BY <2>2, <2>3, <2>5, <2>7, <2>8, InvMemory, EntryReached
  <2>10. EntryOf(mem, s) = Slot(mem, p, k)
    BY <2>5, <2>8, <2>9 DEF Slot
  <2> QED BY <2>10 DEF RightsOK, s
<1> QED BY <1>1, <1>2, <1>3, MappingsInvariant, PTL DEF Spec

(***************************************************************************)
(* What clean_up_addr_range gives back.  First, numbers of pages to an     *)
(* arbitrary base: d pages to an entry, n entries to a table.              *)
(***************************************************************************)
LEMMA Quotient ==
  ASSUME NEW d \in Nat \ {0}, NEW q \in Int, NEW c \in 0 .. d - 1
  PROVE  (q * d + c) % d = c /\ (q * d + c) \div d = q
<1>1. (q * d + c) % d = c
  OBVIOUS
<1>2. (q * d + c) \div d = q
  OBVIOUS
<1> QED BY <1>1, <1>2

LEMMA Divided ==
  ASSUME NEW d \in Nat \ {0}, NEW x \in Nat
  PROVE  \E q \in Nat, c \in 0 .. d - 1 : x = q * d + c /\ x % d = c /\ x \div d = q
<1>1. PICK q \in Int : q = x \div d
  OBVIOUS
<1>2. d * q <= x /\ x < d * (q + 1)
  <2>1. d \in Int /\ d > 0
    OBVIOUS
  <2>2. d * (x \div d) <= x
    BY <2>1
  <2>3. x < d * (x \div d + 1)
    BY <2>1
  <2> QED BY <1>1, <2>2, <2>3
<1>3. q \in Nat
  <2>1. ASSUME q < 0 PROVE FALSE
    <3>1. q + 1 <= 0
      BY <2>1
    <3>2. d * (q + 1) <= 0
      BY <3>1
    <3> QED BY <1>2, <3>2
  <2> QED BY <2>1
<1>4. PICK c \in 0 .. d - 1 : x = q * d + c
  <2>1. x - q * d \in 0 .. d - 1 /\ x = q * d + (x - q * d)
    BY <1>2
  <2> QED BY <2>1
<1>5. x % d = c
  BY <1>4, Quotient
<1> QED BY <1>1, <1>3, <1>4, <1>5

\* A digit below n * d, as a pair of digits.
LEMMA TwoDigits ==
  ASSUME NEW n \in Nat \ {0}, NEW d \in Nat \ {0}, NEW i \in 0 .. n - 1, NEW c \in 0 .. d - 1
  PROVE  i * d + c \in 0 .. (d * n) - 1
<1>1. i * d <= (n - 1) * d
  OBVIOUS
<1>2. i * d \in Nat /\ d * n \in Nat /\ (n - 1) * d = (d * n) - d
  OBVIOUS
<1> QED BY <1>1, <1>2

LEMMA DivideTwice ==
  ASSUME NEW d \in Nat \ {0}, NEW n \in Nat \ {0}, NEW x \in Nat
  PROVE  d * n \in Nat \ {0} /\ x \div (d * n) = (x \div d) \div n
<1>0. d * n \in Nat \ {0}
  OBVIOUS
<1>1. PICK q \in Nat, c \in 0 .. d - 1 : x = q * d + c /\ x \div d = q
  BY Divided
<1>2. PICK a \in Nat, i \in 0 .. n - 1 : q = a * n + i /\ q \div n = a
  BY Divided
<1>3. i * d + c \in 0 .. (d * n) - 1
  BY TwoDigits
<1>4. x = a * (d * n) + (i * d + c)
  BY <1>1, <1>2
<1>5. PICK e, b : e = d * n /\ b = i * d + c
  OBVIOUS
<1>6. x \div e = a
  BY <1>0, <1>3, <1>4, <1>5, Quotient
<1> QED BY <1>0, <1>1, <1>2, <1>5, <1>6

\* For d pages to an entry and n entries to a table: the entry of page x, and the
\* number of its table.
Digit(x, d, n) == (x \div d) % n
Block(x, d, n) == x \div (d * n)

LEMMA EntrySizes ==
  ASSUME NEW n, n = ENTRY_COUNT
  PROVE  /\ n \in Nat \ {0} /\ Index = 0 .. n - 1
         /\ PagesPerEntry(1) = 1 /\ PagesPerEntry(2) = n
         /\ PagesPerEntry(3) = n * n /\ PagesPerEntry(4) = (n * n) * n
         /\ \A L \in 1 .. 4 : PagesPerEntry(L) \in Nat \ {0}
<1>1. n \in Nat \ {0} /\ Index = 0 .. n - 1
  BY FramesAssumption DEF Index
<1>2. /\ PagesPerEntry(1) = 1 /\ PagesPerEntry(2) = n
      /\ PagesPerEntry(3) = n * n /\ PagesPerEntry(4) = (n * n) * n
  BY <1>1 DEF PagesPerEntry
<1>3. n * n \in Nat \ {0}
  BY <1>1
<1>4. (n * n) * n \in Nat \ {0}
  <2>1. PICK d \in Nat \ {0} : d = n * n
    BY <1>3
  <2>2. d * n \in Nat \ {0}
    BY <1>1
  <2> QED BY <2>1, <2>2
<1>5. ASSUME NEW L \in 1 .. 4 PROVE PagesPerEntry(L) \in Nat \ {0}
  <2>1. L = 1 \/ L = 2 \/ L = 3 \/ L = 4
    OBVIOUS
  <2> QED BY <1>1, <1>2, <1>3, <1>4, <2>1
<1> QED BY <1>1, <1>2, <1>5


LEMMA QuotientIs ==
  ASSUME NEW d \in Nat \ {0}, NEW w \in Nat, NEW v \in Int
  PROVE  w \div d = v <=> v * d <= w /\ w < v * d + d
<1>1. ASSUME w \div d = v PROVE v * d <= w /\ w < v * d + d
  <2>1. PICK q \in Nat, c \in 0 .. d - 1 : w = q * d + c /\ w \div d = q
    BY Divided
  <2>2. q = v
    BY <1>1, <2>1
  <2>3. PICK u \in Int : u = q * d
    OBVIOUS
  <2> QED BY <2>1, <2>2, <2>3
<1>2. ASSUME v * d <= w, w < v * d + d PROVE w \div d = v
  <2>1. PICK u \in Int : u = v * d
    OBVIOUS
  <2>2. PICK c \in 0 .. d - 1 : w = v * d + c
    <3>1. w - u \in 0 .. d - 1 /\ w = u + (w - u)
      BY <1>2, <2>1
    <3> QED BY <2>1, <3>1
  <2>3. (v * d + c) \div d = v
    BY Quotient
  <2> QED BY <2>2, <2>3
<1> QED BY <1>1, <1>2

LEMMA QuotientGrows ==
  ASSUME NEW d \in Nat \ {0}, NEW x \in Nat, NEW y \in Nat, x <= y
  PROVE  x \div d \in Nat /\ y \div d \in Nat /\ x \div d <= y \div d
<1>1. PICK q \in Nat, c \in 0 .. d - 1 : x = q * d + c /\ x \div d = q
  BY Divided
<1>2. PICK p \in Nat, b \in 0 .. d - 1 : y = p * d + b /\ y \div d = p
  BY Divided
<1>3. ASSUME p < q PROVE FALSE
  <2>1. (q - p) * d >= d
    BY <1>3
  <2>2. PICK u \in Int, v \in Int : u = q * d /\ v = p * d
    OBVIOUS
  <2>3. (q - p) * d = u - v
    BY <2>2
  <2> QED BY <1>1, <1>2, <2>1, <2>2, <2>3
<1> QED BY <1>1, <1>2, <1>3

\* The part of the pages x .. y under entry i of the table that x lies in.
PartFrom(x, d, n, i) ==
  LET z == x - (x % (d * n)) + d * i IN IF z > x THEN z ELSE x
PartTo(x, y, d, n, i) ==
  LET z == x - (x % (d * n)) + d * i + d - 1 IN IF z < y THEN z ELSE y

\* A page, its number among the entries of all tables of the level, and its index.
LEMMA Digits ==
  ASSUME NEW d \in Nat \ {0}, NEW n \in Nat \ {0}, NEW x \in Nat
  PROVE  \E u \in Nat, j \in 0 .. n - 1 :
           /\ u = Block(x, d, n) /\ j = Digit(x, d, n) /\ x \div d = u * n + j
           /\ (u * n + j) * d <= x /\ x < (u * n + j) * d + d
<1>1. PICK q \in Nat : q = x \div d
  BY Divided
<1>2. PICK u \in Nat, j \in 0 .. n - 1 : q = u * n + j /\ q % n = j /\ q \div n = u
  BY Divided
<1>3. x \div (d * n) = q \div n
  BY <1>1, DivideTwice
<1>4. q * d <= x /\ x < q * d + d
  BY <1>1, QuotientIs
<1> QED BY <1>1, <1>2, <1>3, <1>4 DEF Block, Digit

\* A .. B are the pages of x .. y with index i, and lie under one entry.
IsPart(A, B, x, y, d, n, i) ==
  /\ A \in Nat /\ B \in Int
  /\ A <= B => A \div d = B \div d
  /\ Digit(x, d, n) <= i /\ i <= Digit(y, d, n) => A <= B
  /\ \A w \in Nat : A <= w /\ w <= B <=> x <= w /\ w <= y /\ Digit(w, d, n) = i
  /\ \A w \in Nat : x <= w /\ w <= y =>
       Digit(x, d, n) <= Digit(w, d, n) /\ Digit(w, d, n) <= Digit(y, d, n)

LEMMA PartUnder ==
  ASSUME NEW d \in Nat \ {0}, NEW n \in Nat \ {0}, NEW x \in Nat, NEW y \in Nat, x <= y,
         Block(x, d, n) = Block(y, d, n), NEW i \in 0 .. n - 1,
         NEW A, A = PartFrom(x, d, n, i), NEW B, B = PartTo(x, y, d, n, i)
  PROVE  IsPart(A, B, x, y, d, n, i)
<1>1. PICK u \in Nat, j \in 0 .. n - 1 :
        /\ u = Block(x, d, n) /\ j = Digit(x, d, n) /\ x \div d = u * n + j
        /\ (u * n + j) * d <= x /\ x < (u * n + j) * d + d
  BY Digits
<1>2. PICK h \in 0 .. n - 1 :
        /\ h = Digit(y, d, n) /\ y \div d = u * n + h
        /\ (u * n + h) * d <= y /\ y < (u * n + h) * d + d
  <2>1. PICK v \in Nat, h \in 0 .. n - 1 :
          /\ v = Block(y, d, n) /\ h = Digit(y, d, n) /\ y \div d = v * n + h
          /\ (v * n + h) * d <= y /\ y < (v * n + h) * d + d
    BY Digits
  <2>2. v = u
    BY <1>1, <2>1
  <2> QED BY <2>1, <2>2
<1>3. PICK s \in Nat : s = (u * n + i) * d /\ s = x - (x % (d * n)) + d * i
  <2>1. PICK e \in Nat \ {0} : e = d * n
    BY DivideTwice
  <2>2. PICK a \in Nat, b \in 0 .. e - 1 : x = a * e + b /\ x % e = b /\ x \div e = a
    BY Divided
  <2>3. a = u
    BY <1>1, <2>1, <2>2 DEF Block
  <2>4. PICK g \in Nat, f \in Nat : g = a * e /\ f = d * i
    BY <2>2
  <2>5. x - (x % e) + d * i = g + f
    BY <2>2, <2>4
  <2>6. g + f = (u * n + i) * d
    <3>1. g = u * (d * n)
      BY <2>1, <2>3, <2>4
    <3>2. u * (d * n) = (u * n) * d
      OBVIOUS
    <3>3. (u * n + i) * d = (u * n) * d + i * d
      OBVIOUS
    <3> QED BY <2>4, <3>1, <3>2, <3>3
  <2> QED BY <2>1, <2>4, <2>5, <2>6
<1>4. /\ A = IF s > x THEN s ELSE x
      /\ B = IF s + d - 1 < y THEN s + d - 1 ELSE y
  BY <1>3 DEF PartFrom, PartTo
<1>5. A \in Nat /\ B \in Nat
  BY <1>4
<1>6. ASSUME NEW w \in Nat PROVE w \div d = u * n + i <=> s <= w /\ w <= s + d - 1
  <2>1. PICK v \in Int : v = u * n + i
    OBVIOUS
  <2>2. w \div d = v <=> v * d <= w /\ w < v * d + d
    BY QuotientIs
  <2> QED BY <1>3, <2>1, <2>2
<1>7. ASSUME NEW w \in Nat, x <= w, w <= y
      PROVE  /\ j <= Digit(w, d, n) /\ Digit(w, d, n) <= h
             /\ Digit(w, d, n) = i <=> w \div d = u * n + i
  <2>1. Block(w, d, n) = u
    <3>1. PICK e \in Nat \ {0} : e = d * n
      BY DivideTwice
    <3>2. x \div e <= w \div e /\ x \div e \in Nat /\ w \div e \in Nat
      BY <1>7, QuotientGrows
    <3>3. w \div e <= y \div e /\ y \div e \in Nat
      BY <1>7, QuotientGrows
    <3>4. PICK p, q, r : p = x \div e /\ q = w \div e /\ r = y \div e
      OBVIOUS
    <3>5. p = u /\ r = u
      BY <1>1, <3>1, <3>4 DEF Block
    <3>6. q = u
      BY <3>2, <3>3, <3>4, <3>5
    <3> QED BY <3>1, <3>4, <3>6 DEF Block
  <2>2. PICK g \in 0 .. n - 1 : g = Digit(w, d, n) /\ w \div d = u * n + g
    <3>1. PICK v \in Nat, g \in 0 .. n - 1 :
            /\ v = Block(w, d, n) /\ g = Digit(w, d, n) /\ w \div d = v * n + g
            /\ (v * n + g) * d <= w /\ w < (v * n + g) * d + d
      BY Digits
    <3>2. v = u
      BY <2>1, <3>1
    <3> QED BY <3>1, <3>2
  <2>3. PICK un \in Int : un = u * n
    OBVIOUS
  <2>4. u * n + j <= u * n + g
    <3>1. x \div d <= w \div d
      BY <1>7, QuotientGrows
    <3> QED BY <1>1, <2>2, <3>1
  <2>5. u * n + g <= u * n + h
    <3>1. w \div d <= y \div d
      BY <1>7, QuotientGrows
    <3> QED BY <1>2, <2>2, <3>1
  <2> QED BY <2>2, <2>3, <2>4, <2>5
<1>8. ASSUME A <= B PROVE A \div d = B \div d
  <2>1. s <= A /\ A <= s + d - 1 /\ s <= B /\ B <= s + d - 1
    BY <1>4, <1>8
  <2> QED BY <1>5, <1>6, <2>1
<1>9. ASSUME j <= i, i <= h PROVE A <= B
  <2>1. PICK un \in Int, a \in Int, b \in Int, c \in Int :
          un = u * n /\ a = (un + j) * d /\ b = (un + i) * d /\ c = (un + h) * d
    OBVIOUS
  <2>2. (un + j) * d <= (un + i) * d
    BY <1>9
  <2>3. (un + i) * d <= (un + h) * d
    BY <1>9
  <2>4. x < a + d /\ c <= y /\ s = b
    BY <1>1, <1>2, <1>3, <2>1
  <2>5. x <= s + d - 1 /\ s <= y
    BY <2>1, <2>2, <2>3, <2>4
  <2> QED BY <1>4, <2>5
<1>10. ASSUME NEW w \in Nat PROVE A <= w /\ w <= B <=> x <= w /\ w <= y /\ Digit(w, d, n) = i
  <2>1. A <= w /\ w <= B <=> x <= w /\ w <= y /\ s <= w /\ w <= s + d - 1
    BY <1>4
  <2> QED BY <1>6, <1>7, <2>1
<1> QED BY <1>1, <1>2, <1>5, <1>7, <1>8, <1>9, <1>10 DEF IsPart


(***************************************************************************)
(* Addresses and the numbers of their pages.                               *)
(***************************************************************************)
Pair(x, i) == x * ENTRY_COUNT + i

LEMMA NumberIs ==
  ASSUME NEW a \in Addresses
  PROVE  /\ Number(a) = Pair(Pair(Pair(a[1], a[2]), a[3]), a[4])
         /\ \A k \in 1 .. 4 : a[k] \in Index
BY DEF Number, Pair, Addresses

LEMMA PairDivides ==
  ASSUME NEW x \in Nat, NEW i \in Index, NEW n, n = ENTRY_COUNT
  PROVE  Pair(x, i) \in Nat /\ Pair(x, i) \div n = x /\ Pair(x, i) % n = i
<1>1. n \in Nat \ {0} /\ Index = 0 .. n - 1
  BY EntrySizes
<1>2. (x * n + i) % n = i /\ (x * n + i) \div n = x
  <2>1. i \in 0 .. n - 1 /\ x \in Int
    BY <1>1
  <2> QED BY <1>1, <2>1, Quotient
<1> QED BY <1>1, <1>2 DEF Pair

\* Each level's index of a page is that of its address.
LEMMA NumberDigits ==
  ASSUME NEW a \in Addresses, NEW n, n = ENTRY_COUNT, NEW L \in 1 .. 4
  PROVE  Number(a) \in Nat /\ Digit(Number(a), PagesPerEntry(L), n) = a[5 - L]
<1>1. /\ n \in Nat \ {0} /\ n * n \in Nat \ {0} /\ Index \subseteq Nat
      /\ PagesPerEntry(1) = 1 /\ PagesPerEntry(2) = n
      /\ PagesPerEntry(3) = n * n /\ PagesPerEntry(4) = (n * n) * n
  BY EntrySizes
<1>2. a[1] \in Index /\ a[2] \in Index /\ a[3] \in Index /\ a[4] \in Index
  BY NumberIs
<1>3. PICK x2, x3, x4 : x2 = Pair(a[1], a[2]) /\ x3 = Pair(x2, a[3]) /\ x4 = Pair(x3, a[4])
  OBVIOUS
<1>4. Number(a) = x4
  BY <1>3, NumberIs
<1>5. x2 \in Nat /\ x2 \div n = a[1] /\ x2 % n = a[2]
  BY <1>1, <1>2, <1>3, PairDivides
<1>6. x3 \in Nat /\ x3 \div n = x2 /\ x3 % n = a[3]
  BY <1>1, <1>2, <1>3, <1>5, PairDivides
<1>7. x4 \in Nat /\ x4 \div n = x3 /\ x4 % n = a[4]
  <2>1. PICK x \in Nat, i \in Index : x = x3 /\ i = a[4]
    BY <1>2, <1>6
  <2>2. x4 = Pair(x, i)
    BY <1>3, <2>1
  <2>3. Pair(x, i) \in Nat /\ Pair(x, i) \div n = x /\ Pair(x, i) % n = i
    BY PairDivides
  <2> QED BY <2>1, <2>2, <2>3
<1>8. x4 \div 1 = x4
  BY <1>7
<1>9. x4 \div (n * n) = x2
  BY <1>1, <1>6, <1>7, DivideTwice
<1>10. x4 \div ((n * n) * n) = a[1]
  <2>1. PICK d \in Nat \ {0} : d = n * n
    BY <1>1
  <2>2. x4 \div (d * n) = (x4 \div d) \div n
    BY <1>1, <1>7, DivideTwice
  <2> QED BY <1>5, <1>9, <2>1, <2>2
<1>11. a[1] % n = a[1]
  <2>1. PICK b, z : b = a[1] /\ z = 0
    OBVIOUS
  <2>2. b \in 0 .. n - 1 /\ z \in Int
    BY <1>2, <2>1, EntrySizes
  <2>3. (z * n + b) % n = b
    BY <1>1, <2>2, Quotient
  <2>4. z * n + b = b
    BY <1>1, <2>1, <2>2
  <2> QED BY <2>1, <2>3, <2>4
<1>12. L = 1 \/ L = 2 \/ L = 3 \/ L = 4
  OBVIOUS
<1>13. CASE L = 1
  BY <1>1, <1>4, <1>7, <1>8, <1>13 DEF Digit
<1>14. CASE L = 2
  BY <1>1, <1>4, <1>6, <1>7, <1>14 DEF Digit
<1>15. CASE L = 3
  BY <1>1, <1>4, <1>5, <1>7, <1>9, <1>15 DEF Digit
<1>16. CASE L = 4
  BY <1>1, <1>4, <1>7, <1>10, <1>11, <1>16 DEF Digit
<1> QED BY <1>12, <1>13, <1>14, <1>15, <1>16

LEMMA WholeEnd == WholeRange.end \in Nat
<1>1. PICK n, e : n = ENTRY_COUNT /\ e = PagesPerEntry(4)
  OBVIOUS
<1>2. n \in Nat \ {0} /\ e \in Nat \ {0}
  BY <1>1, EntrySizes
<1>3. e * n \in Nat \ {0}
  BY <1>2, DivideTwice
<1>4. WholeRange.end = e * n - 1
  BY <1>1 DEF WholeRange
<1> QED BY <1>3, <1>4

\* The numbers of all addresses are the pages of WholeRange.
LEMMA NumberWithin ==
  ASSUME NEW a \in Addresses PROVE Number(a) \in 0 .. WholeRange.end
<1>1. PICK n : n = ENTRY_COUNT
  OBVIOUS
<1>2. /\ n \in Nat \ {0} /\ Index = 0 .. n - 1 /\ PagesPerEntry(4) = (n * n) * n
  BY <1>1, EntrySizes
<1>3. a[1] \in Index /\ a[2] \in Index /\ a[3] \in Index /\ a[4] \in Index
  BY NumberIs
<1>4. ASSUME NEW e \in Nat \ {0}, NEW x \in 0 .. e - 1, NEW i \in Index
      PROVE  Pair(x, i) \in 0 .. (e * n) - 1 /\ e * n \in Nat \ {0}
  <2>1. x * n + i \in 0 .. (n * e) - 1
    BY <1>2, <1>4, TwoDigits
  <2>2. n * e = e * n /\ e * n \in Nat \ {0}
    BY <1>2
  <2> QED BY <1>1, <2>1, <2>2 DEF Pair
<1>5. PICK e2, e3, e4 : e2 = n * n /\ e3 = e2 * n /\ e4 = e3 * n
  OBVIOUS
<1>6. PICK x2, x3, x4 : x2 = Pair(a[1], a[2]) /\ x3 = Pair(x2, a[3]) /\ x4 = Pair(x3, a[4])
  OBVIOUS
<1>7. x2 \in 0 .. e2 - 1 /\ e2 \in Nat \ {0}
  BY <1>2, <1>3, <1>4, <1>5, <1>6
<1>8. x3 \in 0 .. e3 - 1 /\ e3 \in Nat \ {0}
  BY <1>3, <1>4, <1>5, <1>6, <1>7
<1>9. x4 \in 0 .. e4 - 1
  BY <1>3, <1>4, <1>5, <1>6, <1>8
<1>10. Number(a) = x4 /\ WholeRange.end = e4 - 1
  BY <1>1, <1>2, <1>5, <1>6, NumberIs DEF WholeRange
<1> QED BY <1>9, <1>10

\* Every page of WholeRange is the page of an address.
LEMMA NumberReached ==
  ASSUME NEW w \in 0 .. WholeRange.end
  PROVE  \E a \in Addresses : Number(a) = w
<1>1. PICK n : n = ENTRY_COUNT
  OBVIOUS
<1>2. /\ n \in Nat \ {0} /\ Index = 0 .. n - 1 /\ PagesPerEntry(4) = (n * n) * n
  BY <1>1, EntrySizes
<1>3. PICK e2 \in Nat \ {0}, e3 \in Nat \ {0}, e4 \in Nat \ {0} :
        e2 = n * n /\ e3 = e2 * n /\ e4 = e3 * n
  <2>1. PICK e2 \in Nat \ {0} : e2 = n * n
    BY <1>2, DivideTwice
  <2>2. PICK e3 \in Nat \ {0} : e3 = e2 * n
    BY <1>2, DivideTwice
  <2>3. e3 * n \in Nat \ {0}
    BY <1>2, DivideTwice
  <2> QED BY <2>1, <2>2, <2>3
<1>4. w \in 0 .. e4 - 1
  BY <1>1, <1>2, <1>3 DEF WholeRange
<1>5. ASSUME NEW e \in Nat \ {0}, NEW x \in 0 .. (e * n) - 1
      PROVE  \E y \in 0 .. e - 1, i \in Index : x = Pair(y, i)
  <2>1. PICK y \in Nat, i \in 0 .. n - 1 : x = y * n + i
    <3>1. x \in Nat
      BY <1>2
    <3> QED BY <1>2, <3>1, Divided
  <2>2. y < e
    <3>1. ASSUME y >= e PROVE FALSE
      <4>1. y * n >= e * n
        BY <1>2, <3>1
      <4>2. PICK u \in Int, v \in Int : u = y * n /\ v = e * n
        BY <1>2
      <4> QED BY <2>1, <4>1, <4>2
    <3> QED BY <2>1, <3>1
  <2>3. y \in 0 .. e - 1 /\ i \in Index /\ x = Pair(y, i)
    BY <1>1, <1>2, <2>1, <2>2 DEF Pair
  <2> QED BY <2>3
<1>6. PICK x3 \in 0 .. e3 - 1, i4 \in Index : w = Pair(x3, i4)
  BY <1>3, <1>4, <1>5
<1>7. PICK x2 \in 0 .. e2 - 1, i3 \in Index : x3 = Pair(x2, i3)
  BY <1>3, <1>5, <1>6
<1>8. PICK x1 \in 0 .. n - 1, i2 \in Index : x2 = Pair(x1, i2)
  BY <1>2, <1>3, <1>5, <1>7
<1>9. PICK a : a = [k \in 1 .. 4 |-> IF k = 1 THEN x1 ELSE IF k = 2 THEN i2
                                     ELSE IF k = 3 THEN i3 ELSE i4]
  OBVIOUS
<1>10. /\ a \in Addresses /\ a[1] = x1 /\ a[2] = i2 /\ a[3] = i3 /\ a[4] = i4
  BY <1>2, <1>6, <1>7, <1>8, <1>9 DEF Addresses
<1>11. Number(a) = w
  BY <1>6, <1>7, <1>8, <1>10, NumberIs
<1> QED BY <1>10, <1>11

(***************************************************************************)
(* What the visits find.  Visits(m, t, L, q): table t of level L is the    *)
(* one that the walks of all addresses of range q look at, and the range   *)
(* is not empty.  Finds(m, L, q, S): the slots S cleared by the visit are  *)
(* on these walks, and among them is every slot that names a table of such *)
(* a walk which is unused once S is cleared.                               *)
(***************************************************************************)
Hollow(m, f, S) == \A j \in Index : m[f][j] = {} \/ <<f, j>> \in S
Visits(m, t, L, q) ==
  /\ q.start \in Nat /\ q.end \in 0 .. WholeRange.end /\ q.start <= q.end
  /\ Block(q.start, PagesPerEntry(L), ENTRY_COUNT) = Block(q.end, PagesPerEntry(L), ENTRY_COUNT)
  /\ \A a \in In(q) : Reach(m, a, 5 - L) /\ Tab(m, a, 5 - L) = t
OnWalk(m, L, q, x) ==
  \E a \in In(q) : \E k \in 5 - L .. 3 : Reach(m, a, k + 1) /\ x = <<Tab(m, a, k), a[k]>>
Finds(m, L, q, S) ==
  /\ \A x \in S : OnWalk(m, L, q, x)
  /\ \A a \in In(q) : \A k \in 6 - L .. 4 :
       Reach(m, a, k) /\ Hollow(m, Tab(m, a, k), S) => <<Tab(m, a, k - 1), a[k - 1]>> \in S

\* sub is the part of range q with index i.
PartOf(q, L, i, sub) ==
  /\ i \in Index /\ sub.start \in Nat /\ sub.end \in 0 .. WholeRange.end
  /\ sub.start <= sub.end
  /\ Block(sub.start, PagesPerEntry(L - 1), ENTRY_COUNT)
       = Block(sub.end, PagesPerEntry(L - 1), ENTRY_COUNT)
  /\ \A a : a \in In(sub) <=> a \in In(q) /\ a[5 - L] = i

\* The range a visit passes on is the part of its range under the entry.
LEMMA Parts ==
  ASSUME NEW m, NEW t, NEW L \in 2 .. 4, NEW q, Visits(m, t, L, q), NEW i \in Visited(q, L),
         NEW sub, sub = SubRange(q, L, i)
  PROVE  PartOf(q, L, i, sub)
<1>1. PICK n, d, x, y, A, B :
        /\ n = ENTRY_COUNT /\ d = PagesPerEntry(L) /\ x = q.start /\ y = q.end
        /\ A = PartFrom(x, d, n, i) /\ B = PartTo(x, y, d, n, i)
  OBVIOUS
<1>2. /\ n \in Nat \ {0} /\ d \in Nat \ {0} /\ Index = 0 .. n - 1
      /\ d = PagesPerEntry(L - 1) * n
  <2>1. /\ n \in Nat \ {0} /\ d \in Nat \ {0} /\ Index = 0 .. n - 1
        /\ PagesPerEntry(1) = 1 /\ PagesPerEntry(2) = n
        /\ PagesPerEntry(3) = n * n /\ PagesPerEntry(4) = (n * n) * n
    BY <1>1, EntrySizes
  <2>2. L = 2 \/ L = 3 \/ L = 4
    OBVIOUS
  <2>3. n = 1 * n
    BY <2>1
  <2> QED BY <1>1, <2>1, <2>2, <2>3
<1>3. sub.start = A /\ sub.end = B
  BY <1>1 DEF SubRange, PartFrom, PartTo
<1>4. /\ i \in 0 .. n - 1 /\ Digit(x, d, n) <= i /\ i <= Digit(y, d, n)
  BY <1>1, <1>2 DEF Visited, page_table_index, Digit
<1>5. x \in Nat /\ y \in Nat /\ x <= y /\ Block(x, d, n) = Block(y, d, n) /\ y <= WholeRange.end
  BY <1>1 DEF Visits
<1>0. IsPart(A, B, x, y, d, n, i)
  BY <1>1, <1>2, <1>4, <1>5, PartUnder
<1>6. /\ A \in Nat /\ B \in Int
      /\ A <= B => A \div d = B \div d
      /\ Digit(x, d, n) <= i /\ i <= Digit(y, d, n) => A <= B
      /\ \A w \in Nat : A <= w /\ w <= B <=> x <= w /\ w <= y /\ Digit(w, d, n) = i
      /\ \A w \in Nat : x <= w /\ w <= y =>
           Digit(x, d, n) <= Digit(w, d, n) /\ Digit(w, d, n) <= Digit(y, d, n)
  BY <1>0 DEF IsPart
<1>7. A <= B /\ B \in Nat /\ B <= y
  <2>1. A <= B
    BY <1>4, <1>6
  <2>2. B \in Nat
    BY <1>6, <2>1
  <2> QED BY <1>6, <2>1, <2>2
<1>8. Block(sub.start, PagesPerEntry(L - 1), n) = Block(sub.end, PagesPerEntry(L - 1), n)
  BY <1>2, <1>3, <1>6, <1>7 DEF Block
<1>9. ASSUME NEW a PROVE a \in In(sub) <=> a \in In(q) /\ a[5 - L] = i
  <2>1. a \in In(sub) <=> a \in Addresses /\ A <= Number(a) /\ Number(a) <= B
    BY <1>3 DEF In
  <2>2. a \in In(q) <=> a \in Addresses /\ x <= Number(a) /\ Number(a) <= y
    BY <1>1 DEF In
  <2>3. a \in Addresses => Number(a) \in Nat /\ Digit(Number(a), d, n) = a[5 - L]
    BY <1>1, NumberDigits
  <2> QED BY <1>6, <2>1, <2>2, <2>3
<1>10. sub.start \in Nat /\ sub.end \in 0 .. WholeRange.end /\ sub.start <= sub.end
  <2>1. WholeRange.end \in Int
    BY WholeEnd
  <2> QED BY <1>3, <1>5, <1>6, <1>7, <2>1
<1> QED BY <1>1, <1>2, <1>4, <1>8, <1>9, <1>10 DEF PartOf

\* The loop looks at every entry that a walk of the range goes through.
LEMMA AllVisited ==
  ASSUME NEW m, NEW t, NEW L \in 2 .. 4, NEW q, Visits(m, t, L, q), NEW a \in In(q)
  PROVE  a[5 - L] \in Visited(q, L)
<1>1. PICK n, d, x, y, A, B, w, i :
        /\ n = ENTRY_COUNT /\ d = PagesPerEntry(L) /\ x = q.start /\ y = q.end
        /\ w = Number(a) /\ i = a[5 - L]
        /\ A = PartFrom(x, d, n, i) /\ B = PartTo(x, y, d, n, i)
  OBVIOUS
<1>2. n \in Nat \ {0} /\ d \in Nat \ {0} /\ Index = 0 .. n - 1
  BY <1>1, EntrySizes
<1>3. x \in Nat /\ y \in Nat /\ x <= y /\ Block(x, d, n) = Block(y, d, n)
  BY <1>1 DEF Visits
<1>4. a \in Addresses /\ x <= w /\ w <= y
  BY <1>1 DEF In
<1>5. w \in Nat /\ Digit(w, d, n) = i /\ i \in 0 .. n - 1
  BY <1>1, <1>2, <1>4, NumberDigits DEF Addresses
<1>6. \A v \in Nat : x <= v /\ v <= y =>
        Digit(x, d, n) <= Digit(v, d, n) /\ Digit(v, d, n) <= Digit(y, d, n)
  <2>1. IsPart(A, B, x, y, d, n, i)
    BY <1>1, <1>2, <1>3, <1>5, PartUnder
  <2> QED BY <2>1 DEF IsPart
<1>7. Digit(x, d, n) <= i /\ i <= Digit(y, d, n)
  BY <1>4, <1>5, <1>6
<1> QED BY <1>1, <1>2, <1>5, <1>7 DEF Visited, page_table_index, Digit

\* The visit of a table below.
LEMMA VisitBelow ==
  ASSUME NEW m, NEW t, NEW L \in 2 .. 4, NEW q, Visits(m, t, L, q), NEW i \in Visited(q, L),
         Pointer(L, m[t][i])
  PROVE  Visits(m, addr(m[t][i]), L - 1, SubRange(q, L, i))
<1>1. PICK sub : sub = SubRange(q, L, i)
  OBVIOUS
<1>2. /\ i \in Index /\ sub.start \in Nat /\ sub.end \in 0 .. WholeRange.end
      /\ sub.start <= sub.end
      /\ Block(sub.start, PagesPerEntry(L - 1), ENTRY_COUNT)
           = Block(sub.end, PagesPerEntry(L - 1), ENTRY_COUNT)
      /\ \A a : a \in In(sub) <=> a \in In(q) /\ a[5 - L] = i
  <2>1. PartOf(q, L, i, sub)
    BY <1>1, Parts
  <2> QED BY <2>1 DEF PartOf
<1>3. ASSUME NEW a \in In(sub)
      PROVE  Reach(m, a, 5 - (L - 1)) /\ Tab(m, a, 5 - (L - 1)) = addr(m[t][i])
  <2>1. PICK k \in 1 .. 3 : k = 5 - L
    OBVIOUS
  <2>2. Reach(m, a, k) /\ Tab(m, a, k) = t /\ a[k] = i
    BY <1>2, <1>3, <2>1 DEF Visits
  <2>3. Slot(m, a, k) = m[t][i] /\ 5 - k = L /\ 5 - (L - 1) = k + 1
    BY <2>1, <2>2 DEF Slot
  <2>4. /\ Reach(m, a, k + 1) <=> Reach(m, a, k) /\ Pointer(5 - k, Slot(m, a, k))
        /\ Tab(m, a, k + 1) = addr(Slot(m, a, k))
    BY ReachStep
  <2> QED BY <2>2, <2>3, <2>4
<1> QED BY <1>1, <1>2, <1>3 DEF Visits

LEMMA ReachBack ==
  ASSUME NEW m, NEW a, NEW k \in 1 .. 4, NEW j \in 1 .. k, Reach(m, a, k)
  PROVE  Reach(m, a, j)
<1>1. Reach(m, a, 1) /\ (Reach(m, a, 4) => Reach(m, a, 3)) /\ (Reach(m, a, 3) => Reach(m, a, 2))
  BY ReachStep
<1>2. j = 1 \/ j = 2 \/ j = 3 \/ j = 4
  OBVIOUS
<1> QED BY <1>1, <1>2

\* The table of a walk at one depth is not that of another walk at another depth.
LEMMA DepthOnce ==
  ASSUME NEW m \in Memory, NEW lv \in Books, IsTree(m, lv), NEW a \in Addresses,
         NEW b \in Addresses, NEW j \in 1 .. 4, NEW k \in 1 .. 4,
         Reach(m, a, j), Reach(m, b, k), Tab(m, a, j) = Tab(m, b, k)
  PROVE  j = k /\ Same(a, b, k - 1)
<1>1. /\ Path(a, j - 1) /\ Path(b, k - 1) /\ Path(a, k - 1)
  BY DEF Addresses, Path
<1>2. lv[Tab(m, a, j)] = 5 - j
  BY <1>1, ReachLevel
<1>3. lv[Tab(m, b, k)] = 5 - k
  BY <1>1, ReachLevel
<1>4. j = k
  BY <1>2, <1>3
<1>5. Same(a, b, k - 1)
  BY <1>1, <1>4, ReachOnce
<1> QED BY <1>4, <1>5

LEMMA ClearedIs ==
  ASSUME NEW t, NEW tables, NEW below, NEW gone, NEW s
  PROVE  s \in VisitClears(t, tables, below, gone) <=>
           (\E i \in tables : s \in below[i]) \/ (\E i \in gone : s = <<t, i>>)
<1> DEFINE U == UNION {below[i] : i \in tables}
           V == {<<t, i>> : i \in gone}
<1>1. s \in U <=> \E i \in tables : s \in below[i]
  BY Zenon
<1>2. s \in V <=> \E i \in gone : s = <<t, i>>
  BY Zenon
<1>3. VisitClears(t, tables, below, gone) = U \cup V
  BY DEF VisitClears
<1> HIDE DEF U, V
<1> QED BY <1>1, <1>2, <1>3

\* The visit of table t of level L, if the visits below it find what they should.
LEMMA VisitFinds ==
  ASSUME NEW m \in Memory, NEW lv \in Books, IsTree(m, lv), NEW t \in TableFrames,
         NEW L \in 2 .. 4, NEW q, Visits(m, t, L, q), NEW tables, NEW below, NEW gone,
         \A i : i \in tables <=> i \in Visited(q, L) /\ Pointer(L, m[t][i]),
         \A i \in tables : Finds(m, L - 1, SubRange(q, L, i), below[i]),
         \A i : i \in gone <=> i \in tables /\ Hollow(m, addr(m[t][i]), below[i])
  PROVE  Finds(m, L, q, VisitClears(t, tables, below, gone))
<1> DEFINE S == VisitClears(t, tables, below, gone)
<1>1. \A s : s \in S <=> (\E i \in tables : s \in below[i]) \/ (\E i \in gone : s = <<t, i>>)
  <2>1. ASSUME NEW s
        PROVE  s \in VisitClears(t, tables, below, gone) <=>
                 (\E i \in tables : s \in below[i]) \/ (\E i \in gone : s = <<t, i>>)
    BY ClearedIs
  <2> QED BY <2>1, Zenon
<1> HIDE DEF S
<1>2. PICK d \in 1 .. 3 : d = 5 - L /\ 6 - L = d + 1 /\ 5 - (L - 1) = d + 1 /\ 6 - (L - 1) = d + 2
                          /\ L = 5 - d
  <2>1. 5 - L \in 1 .. 3 /\ 6 - L = 5 - L + 1 /\ 5 - (L - 1) = 5 - L + 1 /\ 6 - (L - 1) = 5 - L + 2
        /\ L = 5 - (5 - L)
    OBVIOUS
  <2> QED BY <2>1
<1>3. \A a \in In(q) : a \in Addresses /\ Reach(m, a, d) /\ Tab(m, a, d) = t /\ a[d] \in Index
  BY <1>2 DEF Visits, In, Addresses
<1>4. \A i \in tables : \A a : a \in In(SubRange(q, L, i)) <=> a \in In(q) /\ a[d] = i
  <2>1. ASSUME NEW i \in tables PROVE PartOf(q, L, i, SubRange(q, L, i))
    <3>1. i \in Visited(q, L)
      BY <2>1
    <3> QED BY <3>1, Parts
  <2> QED BY <1>2, <2>1 DEF PartOf
<1>5. \A i \in tables : \A x \in below[i] :
        \E a \in In(q) : \E k \in d + 1 .. 3 :
          a[d] = i /\ Reach(m, a, k + 1) /\ x = <<Tab(m, a, k), a[k]>>
  <2> SUFFICES ASSUME NEW i \in tables, NEW x \in below[i]
               PROVE  \E a \in In(q) : \E k \in d + 1 .. 3 :
                        a[d] = i /\ Reach(m, a, k + 1) /\ x = <<Tab(m, a, k), a[k]>>
    OBVIOUS
  <2>1. OnWalk(m, L - 1, SubRange(q, L, i), x)
    BY DEF Finds
  <2>2. PICK a \in In(SubRange(q, L, i)) : \E k \in d + 1 .. 3 :
               Reach(m, a, k + 1) /\ x = <<Tab(m, a, k), a[k]>>
    BY <1>2, <2>1 DEF OnWalk
  <2> QED BY <1>4, <2>2
<1>6. ASSUME NEW x \in S PROVE OnWalk(m, L, q, x)
  <2>1. CASE \E i \in tables : x \in below[i]
    <3>1. PICK a \in In(q) : \E k \in d + 1 .. 3 :
                 Reach(m, a, k + 1) /\ x = <<Tab(m, a, k), a[k]>>
      BY <1>5, <2>1
    <3>2. PICK k \in d + 1 .. 3 : Reach(m, a, k + 1) /\ x = <<Tab(m, a, k), a[k]>>
      BY <3>1
    <3>3. k \in 5 - L .. 3
      BY <1>2, <3>2
    <3> QED BY <3>1, <3>2, <3>3 DEF OnWalk
  <2>2. CASE \E i \in gone : x = <<t, i>>
    <3>1. PICK i \in gone : x = <<t, i>>
      BY <2>2
    <3>2. i \in tables /\ i \in Visited(q, L) /\ Pointer(L, m[t][i])
      BY <3>1
    <3>3. PICK sub : sub = SubRange(q, L, i)
      OBVIOUS
    <3>4. sub.start \in Nat /\ sub.start <= sub.end /\ sub.end \in 0 .. WholeRange.end
      BY <3>2, <3>3, Parts DEF PartOf
    <3>5. PICK a \in Addresses : Number(a) = sub.start
      <4>1. sub.start \in 0 .. WholeRange.end
        BY <3>4, WholeEnd
      <4> QED BY <4>1, NumberReached
    <3>6. a \in In(sub)
      BY <3>4, <3>5 DEF In
    <3>7. a \in In(q) /\ a[d] = i
      BY <1>4, <3>2, <3>3, <3>6
    <3>8. Slot(m, a, d) = m[t][i]
      BY <1>3, <3>7 DEF Slot
    <3>9. Reach(m, a, d + 1)
      BY <1>2, <1>3, <3>2, <3>7, <3>8, ReachStep
    <3>10. d \in 5 - L .. 3 /\ x = <<Tab(m, a, d), a[d]>>
      BY <1>2, <1>3, <3>1, <3>7
    <3> QED BY <3>7, <3>9, <3>10 DEF OnWalk
  <2> QED BY <1>1, <1>6, <2>1, <2>2
<1>7. ASSUME NEW a \in In(q), NEW k \in d + 1 .. 4, Reach(m, a, k), Hollow(m, Tab(m, a, k), S)
      PROVE  <<Tab(m, a, k - 1), a[k - 1]>> \in S
  <2>1. a \in Addresses /\ Reach(m, a, d) /\ Tab(m, a, d) = t /\ a[d] \in Index
    BY <1>3
  <2>2. PICK i : i = a[d]
    OBVIOUS
  <2>3. Reach(m, a, d + 1)
    BY <1>7, ReachBack
  <2>4. /\ Pointer(L, m[t][i]) /\ Tab(m, a, d + 1) = addr(m[t][i])
    BY <1>2, <2>1, <2>2, <2>3, ReachStep DEF Slot
  <2>5. i \in Visited(q, L)
    BY <1>2, <2>2, AllVisited
  <2>6. i \in tables /\ a \in In(SubRange(q, L, i))
    BY <1>4, <2>2, <2>4, <2>5
  <2>7. ASSUME NEW j \in Index, <<Tab(m, a, k), j>> \in S
        PROVE  <<Tab(m, a, k), j>> \in below[i]
    <3>1. CASE \E h \in gone : <<Tab(m, a, k), j>> = <<t, h>>
      <4>1. Tab(m, a, k) = Tab(m, a, d)
        BY <2>1, <3>1
      <4>2. k \in 1 .. 4 /\ d \in 1 .. 4
        OBVIOUS
      <4>3. k = d
        BY <1>7, <2>1, <4>1, <4>2, DepthOnce
      <4> QED BY <4>3
    <3>2. CASE \E h \in tables : <<Tab(m, a, k), j>> \in below[h]
      <4>1. PICK h \in tables : <<Tab(m, a, k), j>> \in below[h]
        BY <3>2
      <4>2. PICK b \in In(q) : \E g \in d + 1 .. 3 :
              b[d] = h /\ Reach(m, b, g + 1) /\ <<Tab(m, a, k), j>> = <<Tab(m, b, g), b[g]>>
        BY <1>5, <4>1
      <4>3. PICK g \in d + 1 .. 3 :
              b[d] = h /\ Reach(m, b, g + 1) /\ <<Tab(m, a, k), j>> = <<Tab(m, b, g), b[g]>>
        BY <4>2
      <4>4. b \in Addresses /\ g \in 1 .. 3 /\ g \in 1 .. 4 /\ k \in 1 .. 4
        BY <1>3, <4>2, <4>3
      <4>5. Reach(m, b, g) /\ Tab(m, a, k) = Tab(m, b, g)
        BY <4>3, <4>4, ReachStep
      <4>6. k = g /\ Same(a, b, g - 1)
        BY <1>7, <2>1, <4>4, <4>5, DepthOnce
      <4>7. d \in 1 .. g - 1
        BY <4>3
      <4>8. a[d] = b[d]
        BY <4>6, <4>7 DEF Same
      <4> QED BY <2>2, <4>1, <4>3, <4>8
    <3> QED BY <1>1, <2>7, <3>1, <3>2
  <2>8. Hollow(m, Tab(m, a, k), below[i])
    BY <1>7, <2>7 DEF Hollow
  <2>9. CASE k = d + 1
    <3>1. i \in gone
      BY <2>4, <2>6, <2>8, <2>9
    <3>2. <<t, i>> \in S
      BY <1>1, <3>1
    <3>3. k - 1 = d
      BY <2>9
    <3> QED BY <2>1, <2>2, <3>2, <3>3
  <2>10. CASE k # d + 1
    <3>1. k \in 6 - (L - 1) .. 4
      BY <1>2, <2>10
    <3>2. Finds(m, L - 1, SubRange(q, L, i), below[i])
      BY <2>6
    <3>3. <<Tab(m, a, k - 1), a[k - 1]>> \in below[i]
      BY <1>7, <2>6, <2>8, <3>1, <3>2 DEF Finds
    <3> QED BY <1>1, <2>6, <3>3
  <2> QED BY <2>9, <2>10
<1>8. Finds(m, L, q, S)
  BY <1>2, <1>6, <1>7 DEF Finds
<1> QED BY <1>8 DEF S

\* The visits clean_up_addr_range makes, from the level 2 tables up to Root.
LEMMA CleanUpFinds ==
  ASSUME NEW m \in Memory, NEW lv \in Books, IsTree(m, lv),
         NEW r, r.start \in 0 .. WholeRange.end, r.end \in 0 .. WholeRange.end
  PROVE  Finds(m, 4, r, CleanP4(m, r))
<1>1. ASSUME NEW t \in TableFrames, NEW q PROVE Finds(m, 1, q, CleanP1(m, t, q))
  BY DEF Finds, CleanP1
<1>2. ASSUME NEW t \in TableFrames, lv[t] = 2, NEW q, Visits(m, t, 2, q)
      PROVE  Finds(m, 2, q, CleanP2(m, t, q))
  <2>0. t \in TableFrames /\ lv[t] = 2 /\ lv[t] \in 2 .. 4 /\ Visits(m, t, 2, q)
    BY <1>2
  <2> DEFINE tables == {i \in Visited(q, 2) : next_table(m[t][i]).err = "None"}
             next(i) == next_table(m[t][i]).at
             below == [i \in tables |-> CleanP1(m, next(i), SubRange(q, 2, i))]
             gone == {i \in tables :
                       AllUnused(m, next(i), 2 - 1, SubRange(q, 2, i), below[i])}
  <2>1. \A i : i \in tables <=> i \in Visited(q, 2) /\ Pointer(2, m[t][i])
    BY <2>0, NextTableIsPointer DEF Visited
  <2>2. ASSUME NEW i \in tables
        PROVE  /\ next(i) = addr(m[t][i]) /\ next(i) \in TableFrames /\ lv[next(i)] = 2 - 1
    BY <2>0, NextTableIsPointer DEF Visited
  <2>3. ASSUME NEW i \in tables
        PROVE  /\ SubRange(q, 2, i).start <= SubRange(q, 2, i).end
               /\ Visits(m, next(i), 2 - 1, SubRange(q, 2, i))
    <3>1. PICK K, sub : K \in 2 .. 4 /\ K = 2 /\ sub = SubRange(q, K, i)
      OBVIOUS
    <3>2. i \in Visited(q, K) /\ Pointer(K, m[t][i]) /\ Visits(m, t, K, q)
      BY <2>0, <2>1, <3>1
    <3>3. Visits(m, addr(m[t][i]), K - 1, SubRange(q, K, i))
      BY <3>1, <3>2, VisitBelow
    <3>4. sub.start <= sub.end
      BY <3>1, <3>3 DEF Visits
    <3> QED BY <2>2, <3>1, <3>3, <3>4
  <2>4. ASSUME NEW i \in tables PROVE Finds(m, 2 - 1, SubRange(q, 2, i), below[i])
    BY <2>2, <2>3, <1>1
  <2>5. \A i : i \in gone <=> i \in tables /\ Hollow(m, addr(m[t][i]), below[i])
    BY <2>2, <2>3 DEF AllUnused, is_unused, Hollow
  <2>6. CleanP2(m, t, q) = VisitClears(t, tables, below, gone)
    <3>1. CleanP2(m, t, q) = IF q.start > q.end THEN {} ELSE VisitClears(t, tables, below, gone)
      BY DEF CleanP2, VisitTable, VisitClears
    <3>2. ~(q.start > q.end)
      BY <2>0, WholeEnd DEF Visits
    <3> QED BY <3>1, <3>2
  <2> HIDE DEF tables, next, below, gone
  <2>7. PICK K \in 2 .. 4 : K = 2
    OBVIOUS
  <2>8. /\ \A i : i \in tables <=> i \in Visited(q, K) /\ Pointer(K, m[t][i])
        /\ \A i \in tables : Finds(m, K - 1, SubRange(q, K, i), below[i])
        /\ Visits(m, t, K, q)
    BY <2>0, <2>1, <2>4, <2>7
  <2>9. Finds(m, K, q, VisitClears(t, tables, below, gone))
    BY <2>0, <2>5, <2>8, VisitFinds
  <2> QED BY <2>6, <2>7, <2>9
<1>3. ASSUME NEW t \in TableFrames, lv[t] = 3, NEW q, Visits(m, t, 3, q)
      PROVE  Finds(m, 3, q, CleanP3(m, t, q))
  <2>0. t \in TableFrames /\ lv[t] = 3 /\ lv[t] \in 2 .. 4 /\ Visits(m, t, 3, q)
    BY <1>3
  <2> DEFINE tables == {i \in Visited(q, 3) : next_table(m[t][i]).err = "None"}
             next(i) == next_table(m[t][i]).at
             below == [i \in tables |-> CleanP2(m, next(i), SubRange(q, 3, i))]
             gone == {i \in tables :
                       AllUnused(m, next(i), 3 - 1, SubRange(q, 3, i), below[i])}
  <2>1. \A i : i \in tables <=> i \in Visited(q, 3) /\ Pointer(3, m[t][i])
    BY <2>0, NextTableIsPointer DEF Visited
  <2>2. ASSUME NEW i \in tables
        PROVE  /\ next(i) = addr(m[t][i]) /\ next(i) \in TableFrames /\ lv[next(i)] = 3 - 1
    BY <2>0, NextTableIsPointer DEF Visited
  <2>3. ASSUME NEW i \in tables
        PROVE  /\ SubRange(q, 3, i).start <= SubRange(q, 3, i).end
               /\ Visits(m, next(i), 3 - 1, SubRange(q, 3, i))
    <3>1. PICK K, sub : K \in 2 .. 4 /\ K = 3 /\ sub = SubRange(q, K, i)
      OBVIOUS
    <3>2. i \in Visited(q, K) /\ Pointer(K, m[t][i]) /\ Visits(m, t, K, q)
      BY <2>0, <2>1, <3>1
    <3>3. Visits(m, addr(m[t][i]), K - 1, SubRange(q, K, i))
      BY <3>1, <3>2, VisitBelow
    <3>4. sub.start <= sub.end
      BY <3>1, <3>3 DEF Visits
    <3> QED BY <2>2, <3>1, <3>3, <3>4
  <2>4. ASSUME NEW i \in tables PROVE Finds(m, 3 - 1, SubRange(q, 3, i), below[i])
    BY <2>2, <2>3, <1>2
  <2>5. \A i : i \in gone <=> i \in tables /\ Hollow(m, addr(m[t][i]), below[i])
    BY <2>2, <2>3 DEF AllUnused, is_unused, Hollow
  <2>6. CleanP3(m, t, q) = VisitClears(t, tables, below, gone)
    <3>1. CleanP3(m, t, q) = IF q.start > q.end THEN {} ELSE VisitClears(t, tables, below, gone)
      BY DEF CleanP3, VisitTable, VisitClears
    <3>2. ~(q.start > q.end)
      BY <2>0, WholeEnd DEF Visits
    <3> QED BY <3>1, <3>2
  <2> HIDE DEF tables, next, below, gone
  <2>7. PICK K \in 2 .. 4 : K = 3
    OBVIOUS
  <2>8. /\ \A i : i \in tables <=> i \in Visited(q, K) /\ Pointer(K, m[t][i])
        /\ \A i \in tables : Finds(m, K - 1, SubRange(q, K, i), below[i])
        /\ Visits(m, t, K, q)
    BY <2>0, <2>1, <2>4, <2>7
  <2>9. Finds(m, K, q, VisitClears(t, tables, below, gone))
    BY <2>0, <2>5, <2>8, VisitFinds
  <2> QED BY <2>6, <2>7, <2>9
<1>4. ASSUME NEW q, Visits(m, Root, 4, q) PROVE Finds(m, 4, q, CleanP4(m, q))
  <2> DEFINE t == Root
  <2>0. t \in TableFrames /\ lv[t] = 4 /\ lv[t] \in 2 .. 4 /\ Visits(m, t, 4, q)
    BY <1>4, FramesAssumption DEF IsTree, RootIsTop
  <2> DEFINE tables == {i \in Visited(q, 4) : next_table(m[t][i]).err = "None"}
             next(i) == next_table(m[t][i]).at
             below == [i \in tables |-> CleanP3(m, next(i), SubRange(q, 4, i))]
             gone == {i \in tables :
                       AllUnused(m, next(i), 4 - 1, SubRange(q, 4, i), below[i])}
  <2>1. \A i : i \in tables <=> i \in Visited(q, 4) /\ Pointer(4, m[t][i])
    BY <2>0, NextTableIsPointer DEF Visited
  <2>2. ASSUME NEW i \in tables
        PROVE  /\ next(i) = addr(m[t][i]) /\ next(i) \in TableFrames /\ lv[next(i)] = 4 - 1
    BY <2>0, NextTableIsPointer DEF Visited
  <2>3. ASSUME NEW i \in tables
        PROVE  /\ SubRange(q, 4, i).start <= SubRange(q, 4, i).end
               /\ Visits(m, next(i), 4 - 1, SubRange(q, 4, i))
    <3>1. PICK K, sub : K \in 2 .. 4 /\ K = 4 /\ sub = SubRange(q, K, i)
      OBVIOUS
    <3>2. i \in Visited(q, K) /\ Pointer(K, m[t][i]) /\ Visits(m, t, K, q)
      BY <2>0, <2>1, <3>1
    <3>3. Visits(m, addr(m[t][i]), K - 1, SubRange(q, K, i))
      BY <3>1, <3>2, VisitBelow
    <3>4. sub.start <= sub.end
      BY <3>1, <3>3 DEF Visits
    <3> QED BY <2>2, <3>1, <3>3, <3>4
  <2>4. ASSUME NEW i \in tables PROVE Finds(m, 4 - 1, SubRange(q, 4, i), below[i])
    BY <2>2, <2>3, <1>3
  <2>5. \A i : i \in gone <=> i \in tables /\ Hollow(m, addr(m[t][i]), below[i])
    BY <2>2, <2>3 DEF AllUnused, is_unused, Hollow
  <2>6. CleanP4(m, q) = VisitClears(t, tables, below, gone)
    <3>1. CleanP4(m, q) = IF q.start > q.end THEN {} ELSE VisitClears(t, tables, below, gone)
      BY DEF CleanP4, VisitTable, VisitClears
    <3>2. ~(q.start > q.end)
      BY <2>0, WholeEnd DEF Visits
    <3> QED BY <3>1, <3>2
  <2> HIDE DEF tables, next, below, gone, t
  <2>7. PICK K \in 2 .. 4 : K = 4
    OBVIOUS
  <2>8. /\ \A i : i \in tables <=> i \in Visited(q, K) /\ Pointer(K, m[t][i])
        /\ \A i \in tables : Finds(m, K - 1, SubRange(q, K, i), below[i])
        /\ Visits(m, t, K, q)
    BY <2>0, <2>1, <2>4, <2>7
  <2>9. Finds(m, K, q, VisitClears(t, tables, below, gone))
    BY <2>0, <2>5, <2>8, VisitFinds
  <2> QED BY <2>6, <2>7, <2>9
<1>5. CASE r.start > r.end
  <2>1. CleanP4(m, r) = {}
    BY <1>5 DEF CleanP4, VisitTable
  <2>2. ASSUME NEW a \in In(r) PROVE FALSE
    <3>1. Number(a) \in Nat /\ r.start <= Number(a) /\ Number(a) <= r.end
      BY <2>2, NumberWithin, WholeEnd DEF In
    <3> QED BY <1>5, <3>1, WholeEnd
  <2> QED BY <2>1, <2>2 DEF Finds
<1>6. CASE r.start <= r.end
  <2>1. Block(r.start, PagesPerEntry(4), ENTRY_COUNT) = Block(r.end, PagesPerEntry(4), ENTRY_COUNT)
    <3>1. PICK e, x, y, z : /\ e = PagesPerEntry(4) * ENTRY_COUNT /\ x = r.start /\ y = r.end /\ z = 0
      OBVIOUS
    <3>2. WholeRange.end = e - 1
      BY <3>1 DEF WholeRange
    <3>3. e \in Nat \ {0}
      <4>1. PICK n, d : n = ENTRY_COUNT /\ d = PagesPerEntry(4)
        OBVIOUS
      <4>2. n \in Nat \ {0} /\ d \in Nat \ {0}
        BY <4>1, EntrySizes
      <4> QED BY <3>1, <4>1, <4>2, DivideTwice
    <3>4. x \in 0 .. e - 1 /\ y \in 0 .. e - 1 /\ z \in Int
      BY <3>1, <3>2
    <3>5. (z * e + x) \div e = z /\ (z * e + y) \div e = z
      BY <3>3, <3>4, Quotient
    <3>6. z * e + x = x /\ z * e + y = y
      BY <3>1, <3>3, <3>4
    <3> QED BY <3>1, <3>5, <3>6 DEF Block
  <2>2. ASSUME NEW a \in In(r) PROVE Reach(m, a, 1) /\ Tab(m, a, 1) = Root
    BY ReachStep
  <2>3. Visits(m, Root, 4, r)
    BY <1>6, <2>1, <2>2, WholeEnd DEF Visits
  <2> QED BY <1>4, <2>3
<1>7. r.start \in Int /\ r.end \in Int
  BY WholeEnd
<1> QED BY <1>5, <1>6, <1>7

\* Nothing is mapped under a table that is unused once a removable set is cleared.
LEMMA HollowHasNoLeaf ==
  ASSUME NEW m \in Memory, NEW lv \in Books, IsTree(m, lv), NEW S, Removable(m, lv, S),
         NEW a \in Addresses, NEW j \in 2 .. 4, Reach(m, a, j), Hollow(m, Tab(m, a, j), S),
         NEW k \in 2 .. 4, NEW e, Leaf(m, a, k, e)
  PROVE  FALSE
<1> DEFINE OK(i) == Reach(m, a, i) /\ Hollow(m, Tab(m, a, i), S) => k < i
<1>1. ASSUME NEW i \in 2 .. 4 PROVE Path(a, i) /\ Path(a, i - 1) /\ a[i] \in Index
  BY DEF Addresses, Path
<1>2. ASSUME NEW i \in 2 .. 4, k = i PROVE ~Hollow(m, Tab(m, a, i), S)
  <2> SUFFICES ASSUME Hollow(m, Tab(m, a, i), S) PROVE FALSE
    OBVIOUS
  <2>1. Tab(m, a, i) \in TableFrames /\ lv[Tab(m, a, i)] = 5 - i
    BY <1>1, <1>2, ReachLevel DEF Leaf
  <2>2. m[Tab(m, a, i)][a[i]] # {} /\ ~Pointer(5 - i, m[Tab(m, a, i)][a[i]])
    BY <1>2 DEF Leaf, Slot
  <2>3. <<Tab(m, a, i), a[i]>> \in S
    BY <1>1, <2>2 DEF Hollow
  <2> QED BY <1>1, <2>1, <2>2, <2>3 DEF Removable
<1>3. ASSUME NEW i \in 2 .. 3, k > i, Reach(m, a, i), Hollow(m, Tab(m, a, i), S)
      PROVE  Reach(m, a, i + 1) /\ Hollow(m, Tab(m, a, i + 1), S)
  <2>1. Reach(m, a, i + 1)
    <3>1. i + 1 \in 1 .. k /\ k \in 1 .. 4
      BY <1>3
    <3> QED BY <3>1, ReachBack DEF Leaf
  <2>2. Pointer(5 - i, Slot(m, a, i)) /\ Tab(m, a, i + 1) = addr(Slot(m, a, i))
    <3>1. i \in 1 .. 3
      OBVIOUS
    <3> QED BY <2>1, <3>1, ReachStep
  <2>3. Tab(m, a, i) \in TableFrames /\ a[i] \in Index
    BY <1>1, <1>3, ReachLevel
  <2>4. <<Tab(m, a, i), a[i]>> \in S
    BY <1>3, <2>2, <2>3 DEF Hollow, Slot, Pointer
  <2>5. \A h \in Index : \/ m[addr(m[Tab(m, a, i)][a[i]])][h] = {}
                         \/ <<addr(m[Tab(m, a, i)][a[i]]), h>> \in S
    BY <2>3, <2>4 DEF Removable
  <2> QED BY <2>1, <2>2, <2>5 DEF Hollow, Slot
<1>4. OK(4)
  BY <1>2
<1>5. OK(3)
  <2>1. ASSUME k > 3, Reach(m, a, 3), Hollow(m, Tab(m, a, 3), S) PROVE FALSE
    BY <1>3, <1>4, <2>1
  <2> QED BY <1>2, <2>1
<1>6. OK(2)
  <2>1. ASSUME k > 2, Reach(m, a, 2), Hollow(m, Tab(m, a, 2), S) PROVE FALSE
    <3>1. Reach(m, a, 3) /\ Hollow(m, Tab(m, a, 3), S)
      BY <1>3, <2>1
    <3> QED BY <1>5, <2>1, <3>1
  <2> QED BY <1>2, <2>1
<1>7. k < j
  <2>1. j = 2 \/ j = 3 \/ j = 4
    OBVIOUS
  <2> QED BY <1>4, <1>5, <1>6, <2>1
<1>8. Pointer(5 - k, Slot(m, a, k))
  <2>1. k \in 1 .. 3 /\ k + 1 \in 1 .. j /\ j \in 1 .. 4
    BY <1>7
  <2>2. Reach(m, a, k + 1)
    BY <2>1, ReachBack
  <2> QED BY <2>1, <2>2, ReachStep
<1> QED BY <1>8 DEF Leaf

\* The walks after a clean-up are walks of before, and what they meet was not cleared.
LEMMA WalksAfter ==
  ASSUME NEW m \in Memory, NEW lv \in Books, IsTree(m, lv), NEW S, Removable(m, lv, S),
         NEW n, NEW freed, Cleaned(m, n, S, freed), NEW a \in Addresses, NEW k \in 1 .. 4,
         Reach(n, a, k)
  PROVE  /\ Reach(m, a, k) /\ Tab(n, a, k) = Tab(m, a, k) /\ Tab(m, a, k) \notin freed
         /\ k > 1 => <<Tab(m, a, k - 1), a[k - 1]>> \notin S
<1> DEFINE OK(j) == Reach(n, a, j) =>
                      /\ Reach(m, a, j) /\ Tab(n, a, j) = Tab(m, a, j) /\ Tab(m, a, j) \notin freed
                      /\ j > 1 => <<Tab(m, a, j - 1), a[j - 1]>> \notin S
<1>1. Root \notin freed
  <2> SUFFICES ASSUME NEW g \in TableFrames, NEW j \in Index, <<g, j>> \in S,
                      addr(m[g][j]) = Root
               PROVE  FALSE
    BY DEF Cleaned
  <2>1. Pointer(lv[g], m[g][j])
    BY DEF Removable
  <2>2. lv[Root] = lv[g] - 1 /\ lv[g] \in 2 .. 4 /\ lv[Root] = 4
    BY <2>1, FramesAssumption DEF IsTree, PointersDown, RootIsTop, Pointer
  <2> QED BY <2>2
<1>2. OK(1)
  BY <1>1, ReachStep
<1>3. ASSUME NEW j \in 1 .. 3, OK(j) PROVE OK(j + 1)
  <2> SUFFICES ASSUME Reach(n, a, j + 1)
               PROVE  /\ Reach(m, a, j + 1) /\ Tab(n, a, j + 1) = Tab(m, a, j + 1)
                      /\ Tab(m, a, j + 1) \notin freed /\ <<Tab(m, a, j), a[j]>> \notin S
    OBVIOUS
  <2>1. /\ Reach(n, a, j) /\ Pointer(5 - j, Slot(n, a, j)) /\ Tab(n, a, j + 1) = addr(Slot(n, a, j))
        /\ Reach(m, a, j + 1) <=> Reach(m, a, j) /\ Pointer(5 - j, Slot(m, a, j))
        /\ Tab(m, a, j + 1) = addr(Slot(m, a, j))
    BY ReachStep
  <2>2. Reach(m, a, j) /\ Tab(n, a, j) = Tab(m, a, j) /\ Tab(m, a, j) \notin freed
    BY <1>3, <2>1
  <2>3. Path(a, j - 1) /\ a[j] \in Index /\ j \in 1 .. 4
    BY DEF Addresses, Path
  <2>4. Tab(m, a, j) \in TableFrames /\ lv[Tab(m, a, j)] = 5 - j
    BY <2>2, <2>3, ReachLevel
  <2>5. PICK f \in TableFrames, i \in Index : f = Tab(m, a, j) /\ i = a[j]
    BY <2>3, <2>4
  <2>6. n[f][i] = IF <<f, i>> \in S THEN {} ELSE m[f][i]
    BY <2>2, <2>5 DEF Cleaned
  <2>7. Slot(n, a, j) = n[f][i] /\ Slot(m, a, j) = m[f][i]
    BY <2>2, <2>5 DEF Slot
  <2>8. <<f, i>> \notin S /\ Pointer(5 - j, m[f][i]) /\ n[f][i] = m[f][i]
    BY <2>1, <2>6, <2>7 DEF Pointer
  <2>9. addr(m[f][i]) \notin freed
    <3> SUFFICES ASSUME NEW g \in TableFrames, NEW h \in Index, <<g, h>> \in S,
                        addr(m[g][h]) = addr(m[f][i])
                 PROVE  FALSE
      BY DEF Cleaned
    <3>1. Pointer(lv[g], m[g][h])
      BY DEF Removable
    <3>2. g = f /\ h = i
      BY <2>4, <2>5, <2>8, <3>1 DEF IsTree, NamedOnce
    <3> QED BY <2>8, <3>2
  <2> QED BY <2>1, <2>2, <2>5, <2>7, <2>8, <2>9
<1> HIDE DEF OK
<1>4. OK(2)
  BY <1>2, <1>3
<1>5. OK(3)
  BY <1>3, <1>4
<1>6. OK(4)
  BY <1>3, <1>5
<1>7. OK(k)
  BY <1>2, <1>4, <1>5, <1>6
<1> QED BY <1>7 DEF OK

LEMMA WalkedIs ==
  ASSUME NEW m \in Memory, NEW lv \in Books, IsTree(m, lv), NEW a \in Addresses, NEW f
  PROVE  f \in Walked(m, a) <=> \E k \in 2 .. 4 : Reach(m, a, k) /\ f = Tab(m, a, k)
<1>1. f \in Walked(m, a) <=> \E k \in 2 .. 4 : WalkTo(m, a, k).err = "None" /\ f = WalkTo(m, a, k).at
  <2>1. WalkTo(m, a, 2) = p3(m, a) /\ WalkTo(m, a, 3) = p2(m, a) /\ WalkTo(m, a, 4) = p1(m, a)
    BY DEF WalkTo
  <2>2. f \in Walked(m, a) <=> \E w : /\ w = p3(m, a) \/ w = p2(m, a) \/ w = p1(m, a)
                                      /\ w.err = "None" /\ f = w.at
    BY Zenon DEF Walked
  <2>3. \A k : k \in 2 .. 4 <=> k = 2 \/ k = 3 \/ k = 4
    OBVIOUS
  <2> QED BY <2>1, <2>2, <2>3, Zenon
<1>2. ASSUME NEW k \in 2 .. 4
      PROVE  /\ WalkTo(m, a, k).err = "None" <=> Reach(m, a, k)
             /\ Reach(m, a, k) => WalkTo(m, a, k).at = Tab(m, a, k)
  <2>1. k \in 1 .. 4 /\ Path(a, k - 1)
    BY DEF Addresses, Path
  <2> QED BY <2>1, WalkReaches
<1> QED BY <1>1, <1>2

LEMMA MappedHasLeaf ==
  ASSUME NEW m \in Memory, NEW lv \in Books, IsTree(m, lv), NEW a \in Addresses
  PROVE  translate(m, a).result = "Mapped" <=> \E k \in 2 .. 4 : \E e : Leaf(m, a, k, e)
<1>1. NotMapped.result # "Mapped" /\ \A s, k, e : Found(s, k, e).result = "Mapped"
  BY DEF NotMapped, Found
<1> QED BY <1>1, TranslateFinds

\* The first promise: a table given back is on a walk of the range, with nothing mapped under it.
LEMMA FreedMayGo ==
  ASSUME NEW m \in Memory, NEW lv \in Books, IsTree(m, lv), NEW S, Removable(m, lv, S),
         NEW r, Finds(m, 4, r, S), NEW g \in TableFrames, NEW i \in Index, <<g, i>> \in S,
         NEW f, f = addr(m[g][i])
  PROVE  (\E a \in In(r) : f \in Walked(m, a)) /\ ~MappedUnder(m, f)
<1>1. PICK a \in In(r) : \E k \in 1 .. 3 : Reach(m, a, k + 1) /\ <<g, i>> = <<Tab(m, a, k), a[k]>>
  BY DEF Finds, OnWalk
<1>2. PICK k \in 1 .. 3 : Reach(m, a, k + 1) /\ g = Tab(m, a, k) /\ i = a[k]
  BY <1>1
<1>3. a \in Addresses
  BY <1>1 DEF In
<1>4. f = Tab(m, a, k + 1) /\ k + 1 \in 2 .. 4
  BY <1>2, ReachStep DEF Slot
<1>5. f \in Walked(m, a)
  BY <1>2, <1>3, <1>4, WalkedIs
<1>6. Hollow(m, f, S)
  BY DEF Removable, Hollow
<1>7. ~MappedUnder(m, f)
  <2> SUFFICES ASSUME NEW b \in Addresses, f \in Walked(m, b), translate(m, b).result = "Mapped"
               PROVE  FALSE
    BY DEF MappedUnder
  <2>1. PICK j \in 2 .. 4 : Reach(m, b, j) /\ f = Tab(m, b, j)
    BY WalkedIs
  <2>2. PICK h \in 2 .. 4 : \E e : Leaf(m, b, h, e)
    BY MappedHasLeaf
  <2>3. PICK e : Leaf(m, b, h, e)
    BY <2>2
  <2> QED BY <1>6, <2>1, <2>2, <2>3, HollowHasNoLeaf
<1> QED BY <1>1, <1>5, <1>7

\* The second promise: no table on a walk of the range is empty afterwards.
LEMMA NoneEmptyLeft ==
  ASSUME NEW m \in Memory, NEW lv \in Books, IsTree(m, lv), NEW S, Removable(m, lv, S),
         NEW n, NEW freed, Cleaned(m, n, S, freed), NEW r, Finds(m, 4, r, S),
         NEW a \in In(r), NEW k \in 2 .. 4, Reach(n, a, k)
  PROVE  Tab(n, a, k) \in TableFrames /\ \E i \in Index : n[Tab(n, a, k)][i] # {}
<1>1. a \in Addresses /\ k \in 1 .. 4 /\ Path(a, k - 1) /\ k > 1
  BY DEF In, Addresses, Path
<1>2. /\ Reach(m, a, k) /\ Tab(n, a, k) = Tab(m, a, k) /\ Tab(m, a, k) \notin freed
      /\ k > 1 => <<Tab(m, a, k - 1), a[k - 1]>> \notin S
  BY <1>1, WalksAfter
<1>3. PICK f \in TableFrames : f = Tab(m, a, k)
  BY <1>1, <1>2, ReachLevel
<1>4. ~Hollow(m, f, S)
  <2>1. k \in 6 - 4 .. 4
    OBVIOUS
  <2>2. Reach(m, a, k) /\ Hollow(m, Tab(m, a, k), S) => <<Tab(m, a, k - 1), a[k - 1]>> \in S
    BY <2>1 DEF Finds
  <2> QED BY <1>1, <1>2, <1>3, <2>2
<1>5. PICK i \in Index : m[f][i] # {} /\ <<f, i>> \notin S
  BY <1>4 DEF Hollow
<1>6. n[f][i] # {}
  BY <1>2, <1>3, <1>5 DEF Cleaned
<1> QED BY <1>2, <1>3, <1>5, <1>6

\* An address with index i at depth k, and otherwise those of a.
LEMMA OtherIndex ==
  ASSUME NEW a \in Addresses, NEW k \in 1 .. 4, NEW i \in Index
  PROVE  \E b \in Addresses : Same(a, b, k - 1) /\ b[k] = i
<1>1. PICK b : b = [a EXCEPT ![k] = i]
  OBVIOUS
<1>2. b \in Addresses /\ b[k] = i /\ \A j \in 1 .. 4 : j # k => b[j] = a[j]
  BY <1>1 DEF Addresses
<1> QED BY <1>2 DEF Same

\* Every allocated table is on the walk of an address.
LEMMA EveryTableWalked ==
  ASSUME NEW m \in Memory, NEW lv \in Books, IsTree(m, lv), NEW f \in TableFrames,
         lv[f] # 0, f # Root
  PROVE  \E a \in Addresses : \E k \in 2 .. 4 : Reach(m, a, k) /\ Tab(m, a, k) = f
<1> DEFINE OK(k) == \A g \in TableFrames :
                      lv[g] = 5 - k => \E a \in Addresses : Reach(m, a, k) /\ Tab(m, a, k) = g
<1>1. OK(1)
  <2>1. Addresses # {}
    <3>1. 0 \in Index
      BY FramesAssumption DEF Index
    <3>2. [j \in 1 .. 4 |-> 0] \in Addresses
      BY <3>1 DEF Addresses
    <3> QED BY <3>2
  <2>2. \A g \in TableFrames : lv[g] = 4 => g = Root
    BY DEF IsTree, RootIsTop
  <2> QED BY <2>1, <2>2, ReachStep
<1>2. ASSUME NEW k \in 1 .. 3, OK(k) PROVE OK(k + 1)
  <2> SUFFICES ASSUME NEW g \in TableFrames, lv[g] = 5 - (k + 1)
               PROVE  \E a \in Addresses : Reach(m, a, k + 1) /\ Tab(m, a, k + 1) = g
    OBVIOUS
  <2>1. lv[g] \in 1 .. 3
    OBVIOUS
  <2>2. PICK h \in TableFrames, i \in Index : Pointer(lv[h], m[h][i]) /\ addr(m[h][i]) = g
    BY <2>1 DEF IsTree, NoneLost
  <2>3. lv[g] = lv[h] - 1 /\ lv[h] \in Int
    BY <2>2 DEF IsTree, PointersDown, Pointer
  <2>4. lv[h] = 5 - k
    BY <2>3
  <2>5. PICK a \in Addresses : Reach(m, a, k) /\ Tab(m, a, k) = h
    BY <1>2, <2>2, <2>4
  <2>6. PICK b \in Addresses : Same(a, b, k - 1) /\ b[k] = i
    <3>1. k \in 1 .. 4
      OBVIOUS
    <3> QED BY <2>2, <2>5, <3>1, OtherIndex
  <2>7. Reach(m, b, k) /\ Tab(m, b, k) = h
    BY <2>5, <2>6, ReachSame
  <2>8. Slot(m, b, k) = m[h][i]
    BY <2>6, <2>7 DEF Slot
  <2>9. Reach(m, b, k + 1) /\ Tab(m, b, k + 1) = g
    BY <2>2, <2>4, <2>7, <2>8, ReachStep
  <2> QED BY <2>6, <2>9
<1> HIDE DEF OK
<1>3. OK(2)
  BY <1>1, <1>2
<1>4. OK(3)
  BY <1>2, <1>3
<1>5. OK(4)
  BY <1>2, <1>4
<1>6. lv[f] \in Levels /\ lv[f] # 4
  BY DEF IsTree, RootIsTop, Books
<1>7. PICK k \in 2 .. 4 : lv[f] = 5 - k /\ OK(k)
  <2>1. lv[f] = 1 \/ lv[f] = 2 \/ lv[f] = 3
    BY <1>6 DEF Levels
  <2> QED BY <1>3, <1>4, <1>5, <2>1
<1> QED BY <1>7 DEF OK

NoneEmpty(n) ==
  \A a \in Addresses : \A k \in 2 .. 4 :
    Reach(n, a, k) => \E i \in Index : n[Tab(n, a, k)][i] # {}

\* If no table is empty, there is a leaf under every table.
LEMMA LeafUnder ==
  ASSUME NEW n, NoneEmpty(n),
         NEW a \in Addresses, NEW k \in 2 .. 4, Reach(n, a, k)
  PROVE  \E b \in Addresses : Same(a, b, k - 1) /\ \E h \in 2 .. 4 : \E e : Leaf(n, b, h, e)
<1> DEFINE Has(b) == \E h \in 2 .. 4 : \E e : Leaf(n, b, h, e)
           OK(j) == \A c \in Addresses : Reach(n, c, j) =>
                      \E b \in Addresses : Same(c, b, j - 1) /\ Has(b)
<1>1. ASSUME NEW j \in 2 .. 4, NEW c \in Addresses, Reach(n, c, j)
      PROVE  \E b \in Addresses : /\ Same(c, b, j - 1)
                                  /\ Has(b) \/ (j < 4 /\ Reach(n, b, j + 1))
  <2>1. PICK i \in Index : n[Tab(n, c, j)][i] # {}
    BY <1>1 DEF NoneEmpty
  <2>2. j \in 1 .. 4
    OBVIOUS
  <2>3. PICK b \in Addresses : Same(c, b, j - 1) /\ b[j] = i
    BY <2>1, <2>2, OtherIndex
  <2>4. Reach(n, b, j) /\ Tab(n, b, j) = Tab(n, c, j)
    BY <1>1, <2>2, <2>3, ReachSame
  <2>5. Slot(n, b, j) # {}
    BY <2>1, <2>3, <2>4 DEF Slot
  <2>6. CASE Pointer(5 - j, Slot(n, b, j))
    <3>1. j \in 1 .. 3
      BY <2>6 DEF Pointer
    <3>2. Reach(n, b, j + 1)
      BY <2>4, <2>6, <3>1, ReachStep
    <3> QED BY <2>3, <3>1, <3>2
  <2>7. CASE ~Pointer(5 - j, Slot(n, b, j))
    <3>1. Leaf(n, b, j, Slot(n, b, j))
      BY <2>4, <2>5, <2>7 DEF Leaf
    <3> QED BY <2>3, <3>1
  <2> QED BY <2>6, <2>7
<1> HIDE DEF Has
<1>2. OK(4)
  BY <1>1
<1>3. ASSUME NEW j \in 2 .. 3, OK(j + 1) PROVE OK(j)
  <2> SUFFICES ASSUME NEW c \in Addresses, Reach(n, c, j)
               PROVE  \E b \in Addresses : Same(c, b, j - 1) /\ Has(b)
    OBVIOUS
  <2>1. PICK b \in Addresses : Same(c, b, j - 1) /\ (Has(b) \/ Reach(n, b, j + 1))
    BY <1>1
  <2>2. CASE Reach(n, b, j + 1)
    <3>1. PICK d \in Addresses : Same(b, d, j) /\ Has(d)
      <4>1. (j + 1) - 1 = j
        OBVIOUS
      <4> QED BY <1>3, <2>1, <2>2, <4>1
    <3>2. Same(c, d, j - 1)
      BY <2>1, <3>1 DEF Same
    <3> QED BY <3>1, <3>2
  <2> QED BY <2>1, <2>2
<1> HIDE DEF OK
<1>4. OK(3)
  BY <1>2, <1>3
<1>5. OK(2)
  BY <1>3, <1>4
<1>6. OK(k)
  <2>1. k = 2 \/ k = 3 \/ k = 4
    OBVIOUS
  <2> QED BY <1>2, <1>4, <1>5, <2>1
<1> QED BY <1>6 DEF OK, Has

\* The promises of clean_up_addr_range, for the memory and the books before and after.
LEMMA CleanUpExact ==
  ASSUME NEW m \in Memory, NEW lv \in Books, IsTree(m, lv),
         NEW r, r.start \in 0 .. WholeRange.end, r.end \in 0 .. WholeRange.end,
         NEW S, S = CleanP4(m, r), NEW n \in Memory, n = CleanedOut(m, S),
         NEW nl \in Books, IsTree(n, nl),
         \A f \in TableFrames : nl[f] = IF f \in Freed(m, S) THEN 0 ELSE lv[f]
  PROVE  /\ \A f \in TableFrames : lv[f] # 0 /\ nl[f] = 0 =>
              (\E a \in In(r) : f \in Walked(m, a)) /\ ~MappedUnder(m, f)
         /\ \A a \in In(r) : \A f \in Walked(n, a) : ~is_empty(n[f])
         /\ r = WholeRange => \A f \in TableFrames \ {Root} : nl[f] # 0 => MappedUnder(n, f)
<1>1. Removable(m, lv, S) /\ Finds(m, 4, r, S)
  BY CleanUpIsRemovable, CleanUpFinds
<1>2. PICK freed : freed = Freed(m, S)
  OBVIOUS
<1>3. Cleaned(m, n, S, freed)
  <2>1. ASSUME NEW h
        PROVE  h \in Freed(m, S) <=>
                 \E f \in TableFrames, i \in Index : <<f, i>> \in S /\ addr(m[f][i]) = h
    BY <1>1, FreedTables
  <2>2. ASSUME NEW f \in TableFrames, NEW i \in Index, f \notin freed
        PROVE  n[f][i] = IF <<f, i>> \in S THEN {} ELSE m[f][i]
    BY <1>2, <2>2 DEF CleanedOut
  <2>3. \A h : h \in freed <=> \E f \in TableFrames, i \in Index :
                                 <<f, i>> \in S /\ addr(m[f][i]) = h
    BY <1>2, <2>1, Zenon
  <2> QED BY <2>2, <2>3 DEF Cleaned
<1>4. ASSUME NEW f \in TableFrames, lv[f] # 0, nl[f] = 0
      PROVE  (\E a \in In(r) : f \in Walked(m, a)) /\ ~MappedUnder(m, f)
  <2>1. f \in freed
    BY <1>2, <1>4
  <2>2. PICK g \in TableFrames, i \in Index : <<g, i>> \in S /\ addr(m[g][i]) = f
    BY <1>3, <2>1 DEF Cleaned
  <2> QED BY <1>1, <2>2, FreedMayGo
<1>5. ASSUME NEW a \in In(r), NEW k \in 2 .. 4, Reach(n, a, k)
      PROVE  Tab(n, a, k) \in TableFrames /\ \E i \in Index : n[Tab(n, a, k)][i] # {}
  BY <1>1, <1>3, <1>5, NoneEmptyLeft
<1>6. ASSUME NEW a \in In(r), NEW f \in Walked(n, a) PROVE ~is_empty(n[f])
  <2>1. a \in Addresses
    BY DEF In
  <2>2. PICK k \in 2 .. 4 : Reach(n, a, k) /\ f = Tab(n, a, k)
    BY <1>6, <2>1, WalkedIs
  <2>3. \E i \in Index : n[f][i] # {}
    BY <1>5, <2>2
  <2> QED BY <2>3 DEF is_empty, is_unused
<1>7. ASSUME r = WholeRange, NEW f \in TableFrames, f # Root, nl[f] # 0 PROVE MappedUnder(n, f)
  <2>1. \A a \in Addresses : a \in In(r)
    BY <1>7, NumberWithin DEF In, WholeRange
  <2>2. PICK a \in Addresses : \E k \in 2 .. 4 : Reach(n, a, k) /\ Tab(n, a, k) = f
    BY <1>7, EveryTableWalked
  <2>3. PICK k \in 2 .. 4 : Reach(n, a, k) /\ Tab(n, a, k) = f
    BY <2>2
  <2>4. NoneEmpty(n)
    BY <1>5, <2>1 DEF NoneEmpty
  <2>5. PICK b \in Addresses : Same(a, b, k - 1) /\ \E h \in 2 .. 4 : \E e : Leaf(n, b, h, e)
    BY <2>2, <2>3, <2>4, LeafUnder
  <2>6. Reach(n, b, k) /\ Tab(n, b, k) = f
    <3>1. k \in 1 .. 4
      OBVIOUS
    <3> QED BY <2>3, <2>5, <3>1, ReachSame
  <2>7. f \in Walked(n, b)
    BY <2>3, <2>5, <2>6, WalkedIs
  <2>8. translate(n, b).result = "Mapped"
    BY <2>5, MappedHasLeaf
  <2> QED BY <2>5, <2>7, <2>8 DEF MappedUnder
<1> QED BY <1>4, <1>6, <1>7

LEMMA CleanUpStep ==
  ASSUME Inv, NEW r \in Ranges \cup {WholeRange} PROVE FreesExactly(r)
<1> SUFFICES ASSUME clean_up_addr_range(r)
             PROVE  /\ \A f \in TableFrames : level[f] # 0 /\ level'[f] = 0 =>
                         (\E a \in In(r) : f \in Walked(mem, a)) /\ ~MappedUnder(mem, f)
                    /\ \A a \in In(r) : \A f \in Walked(mem', a) : ~is_empty(mem'[f])
                    /\ r = WholeRange =>
                         \A f \in TableFrames \ {Root} : level'[f] # 0 => MappedUnder(mem', f)
  BY DEF FreesExactly
<1>1. r.start \in 0 .. WholeRange.end /\ r.end \in 0 .. WholeRange.end
  <2>1. CASE r \in Ranges
    BY <2>1, RangesAssumption
  <2>2. CASE r = WholeRange
    <3>1. WholeRange.start = 0
      BY DEF WholeRange
    <3> QED BY <2>2, <3>1, WholeEnd
  <2> QED BY <2>1, <2>2
<1>2. mem \in Memory /\ level \in Books /\ IsTree(mem, level)
  BY InvMemory
<1>3. Inv'
  BY CleanUpInv
<1>4. mem' \in Memory /\ level' \in Books /\ IsTree(mem', level')
  BY <1>3 DEF Inv, TypeOK, TablesFormTree, Memory, Books
<1>5. PICK S : S = CleanP4(mem, r)
  OBVIOUS
<1>6. mem' = CleanedOut(mem, S)
  BY <1>5 DEF clean_up_addr_range, CleanedOut, Freed
<1>7. \A f \in TableFrames : level'[f] = IF f \in Freed(mem, S) THEN 0 ELSE level[f]
  BY <1>5 DEF clean_up_addr_range, Freed
<1> QED BY <1>1, <1>2, <1>4, <1>5, <1>6, <1>7, CleanUpExact

\* CleanUpFreesExactly: clean_up and clean_up_addr_range give back the tables of their
\* range that have no mapping under them, all of them and no other.
THEOREM CleanUpCorrect == ASSUME CallerContract PROVE Spec => CleanUpFreesExactly
<1>1. Inv => \A r \in Ranges \cup {WholeRange} : FreesExactly(r)
  BY CleanUpStep
<1>2. Spec => []Inv
  BY MapperInvariant
<1> QED BY <1>1, <1>2, PTL DEF CleanUpFreesExactly
=============================================================================
