------------------------------- MODULE MCTlb -------------------------------
(***************************************************************************)
(* Two address spaces: the PCID of one is 0, that of the other is not      *)
(* among the bits of Cr3Flags.                                             *)
(***************************************************************************)
EXTENDS Tlb, TLC

CONSTANTS kernel, user, code, kdata, f1, f2, f3

MCPcidOf(s) == IF s = kernel THEN {} ELSE {0}
MCFlagSets == {{}}
MCFrames == {f1, f2, f3}
MCFramesFor(p) == IF p = kdata THEN {f3} ELSE {f1, f2}
FrameSymmetry == Permutations({f1, f2})

\* A kernel that takes flush_all at its word: no promise is left after it.
TrustingNext == MapperStep \/ FlushStep \/ FlushAll(due) \/ \E p \in Pages : Fill(p)
TrustingSpec == Init /\ [][TrustingNext]_vars
=============================================================================
