------------------------- MODULE MCMappedPageTable -------------------------
(***************************************************************************)
(* Small instances of MappedPageTable: tables of two entries, the root and *)
(* the frames of NewTables for the rest.  Every bit is a model value.  As  *)
(* in the code two address bits are flags too: bit 12 (PAT_HUGE_PAGE) and  *)
(* bit 51 (BIT_51).                                                        *)
(***************************************************************************)
EXTENDS MappedPageTable, TLC

CONSTANTS bit12, bit21, bit30, bit51, RootBit, NewTables

ASSUME ContractHolds == CallerContract

MCAddrBits == {bit12, bit21, bit30, bit51, RootBit} \cup NewTables
MCFlagBits == {PRESENT, WRITABLE, USER_ACCESSIBLE, HUGE_PAGE, bit12, bit51}
MCBelow2MiB == {bit12}
MCBelow1GiB == {bit12, bit21}
MCRoot == {RootBit}
MCTableFrames == {MCRoot} \cup {{t} : t \in NewTables}
MCGarbage == {PRESENT, bit51}

\* All sizes of page over the same addresses, with every flags argument: HUGE_PAGE, which
\* is the PAT bit of a 4 KiB page; WRITABLE and the PAT bit of huge pages, for those only;
\* and update_flags that takes PRESENT away (the entry stays in use).
FlagPages == {<<0, 0>>, <<0, 0, 0>>, <<0, 0, 1>>, <<0, 0, 0, 0>>}
FlagMapFlags == {{PRESENT, HUGE_PAGE}, {PRESENT, WRITABLE, bit12}}
FlagLeafFlags == {{PRESENT}, {WRITABLE}}
FlagTableFlags == {{PRESENT, USER_ACCESSIBLE}}
FlagRanges == {[start |-> 0, end |-> 1]}
\* Frame 0, which is aligned to every size, and one only a 4 KiB page may use.
FlagDataFrames == {{}, {bit12}}

\* Pages under both level 4 entries; more tables to create than frames.
TreePages == {<<0, 1>>, <<0, 0, 1>>, <<0, 0, 0, 0>>, <<0, 0, 0, 1>>,
              <<0, 0, 1, 0>>, <<1, 1, 1, 1>>}
TreeMapFlags == {{PRESENT}, {PRESENT, WRITABLE}}
NoFlags == {}
\* Part of one level 1 table; from there into the next level 3 entry; empty.
TreeRanges == {[start |-> 1, end |-> 3], [start |-> 1, end |-> 9],
               [start |-> 2, end |-> 1]}
TreeDataFrames == {{bit30}}

Symmetry == Permutations(NewTables)
=============================================================================
