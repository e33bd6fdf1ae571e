------------------------ MODULE MCRecursivePageTable ------------------------
(***************************************************************************)
(* Tables of two entries: the second level 4 entry is the recursive one,   *)
(* so there are seven windows.                                             *)
(***************************************************************************)
EXTENDS RecursivePageTable, TLC

CONSTANTS bit12, bit30, bit40, RootBit, NewTables

MCAddrBits == {bit12, bit30, bit40, RootBit} \cup NewTables
MCFlagBits == {PRESENT, WRITABLE, USER_ACCESSIBLE, HUGE_PAGE, bit12}
MCBelow2MiB == {bit12}
MCBelow1GiB == {bit12}
MCRoot == {RootBit}
MCTableFrames == {MCRoot} \cup {{t} : t \in NewTables}
\* What a frame holds when the allocator hands it out; no entry is made of it.
MCGarbage == {PRESENT, bit40}

\* Pages of all sizes over one another, and beside.
MCPages == {<<0, 1>>, <<0, 1, 0>>, <<0, 1, 0, 0>>, <<0, 1, 1, 0>>}
MCDataFrames == {{bit30}}
MCMapFlags == {{PRESENT}}
MCLeafFlags == {{USER_ACCESSIBLE}, {PRESENT, bit12}}
MCTableFlags == {{WRITABLE}, {PRESENT, WRITABLE}}
MCRanges == {[start |-> 6, end |-> 6]}

ASSUME ContractHolds == RecContract

Symmetry == Permutations(NewTables)
=============================================================================
