------------------------------- MODULE MCAddr -------------------------------
(***************************************************************************)
(* Three programs over the arithmetic of module Addr, one in a behaviour:  *)
(* a computation with VirtAddr values, a loop over a range of pages or     *)
(* frames, and a broadcast flush.  They share no state; the variables of   *)
(* the two that do not run stay as they are.                               *)
(*                                                                         *)
(* The widths are scaled down: u64 has 7 bits, addresses 5, so bits 4..6   *)
(* must be alike and the two halves have 16 addresses each.  Pages of 2    *)
(* bytes and tables of 2 entries: 2 * 2^4 addresses, as 4096 * 512^4 =     *)
(* 2^48.  The ranges are of pages of 2 and 8 bytes; the flushes of 8 pages *)
(* of 4 bytes or 4 of 8, up to three of them in one instruction.           *)
(***************************************************************************)
EXTENDS VirtAddr, PageRange, Invlpgb

AllWords == 0 .. U64 - 1
PowersOfTwo == {2 ^ k : k \in 0 .. 6}
MCSizes == {2, 8}
MCFlushSizes == {4, 8}

VARIABLE program    \* the one that runs: "addresses", "range" or "flush"
allVars == <<addrVars, rangeVars, flushVars, program>>

\* A loop over an empty range, at its end, and a builder nothing is asked of.
RangeAtRest ==
  /\ kind = "PageRange" /\ size = PAGE
  /\ start = 0 /\ end = 0
  /\ given = [start |-> start, end |-> end]
  /\ yielded = <<>>
  /\ status = "done"
FlushAtRest == FlushInit /\ invlpgb_count_max = U16_MAX /\ ~tlb_flush_nested

Init ==
  /\ AddrInit
  /\ \/ program = "addresses" /\ RangeAtRest /\ FlushAtRest
     \/ program = "range" /\ RangeInit /\ FlushAtRest
     \/ program = "flush" /\ RangeAtRest /\ FlushInit

Next ==
  /\ \/ program = "addresses" /\ AddrNext /\ UNCHANGED <<rangeVars, flushVars>>
     \/ program = "range" /\ RangeNext /\ UNCHANGED <<addrVars, flushVars>>
     \/ program = "flush" /\ FlushNext /\ UNCHANGED <<addrVars, rangeVars>>
  /\ UNCHANGED program

Spec ==
  /\ Init /\ [][Next]_allVars
  /\ WF_rangeVars(next)
  /\ WF_flushVars(FlushLoop)
=============================================================================
