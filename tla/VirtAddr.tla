------------------------------ MODULE VirtAddr ------------------------------
(***************************************************************************)
(* A program that computes with two VirtAddr values: every safe operation  *)
(* of addr.rs that answers a VirtAddr is an action on `current`, and       *)
(* `saved` keeps an earlier one.  A call that panics or answers None       *)
(* leaves the values alone, and so it is no step.                          *)
(***************************************************************************)
EXTENDS Addr

CONSTANTS Counts,   \* arguments of +, - and the steps
          Aligns    \* powers of two

ASSUME ArgumentsAssumption == Counts \subseteq Word /\ Aligns \subseteq Word \ {0}
\* Of two powers of two, the greater is a multiple of the other.
ASSUME AlignsAssumption == \A n \in Aligns : n <= HALF => HALF % n = 0
\* Four levels of tables of 2^9 entries cover 2^48 bytes, the two halves.
ASSUME LayoutAssumption ==
  /\ ENTRIES % 2 = 0
  /\ PAGE * ENTRIES * ENTRIES * ENTRIES * ENTRIES = 2 * HALF

VARIABLES saved, current
addrVars == <<saved, current>>

AddrInit == saved = 0 /\ current = 0        \* VirtAddr::zero()

Becomes(a) == a # None /\ current' = a /\ UNCHANGED saved

New(w) == Becomes(try_new(w))
NewTruncate(w) == Becomes(new_truncate(w))
Add(n) == Becomes(add(current, n))
Sub(n) == Becomes(sub(current, n))
AlignUp(n) == Becomes(virt_align_up(current, n))
AlignDown(n) == Becomes(virt_align_down(current, n))
Forward(n) == Becomes(forward_checked_u64(current, n))
Backward(n) == Becomes(backward_checked_u64(current, n))
Copy == saved' = current /\ UNCHANGED current

AddrNext ==
  \/ \E n \in Counts : \/ New(n) \/ NewTruncate(n) \/ Add(n) \/ Sub(n)
                       \/ Forward(n) \/ Backward(n)
  \/ \E n \in Aligns : AlignUp(n) \/ AlignDown(n)
  \/ Copy

AddrSpec == AddrInit /\ [][AddrNext]_addrVars

(***************************************************************************)
(* Properties.                                                             *)
(***************************************************************************)
\* VirtAddr "guarantees that it always represents a canonical address"
\* (addr.rs): no sequence of calls leaves the two halves, although the steps
\* end in new_unsafe.
AlwaysCanonical == saved \in Canonical /\ current \in Canonical

\* Reference: the place of an address among the canonical ones, in order.
Position(a) == IF a < HALF THEN a ELSE a - (U64 - 2 * HALF)
AtPosition(n) ==
  IF n < 0 \/ n >= 2 * HALF THEN None
  ELSE IF n < HALF THEN n ELSE n + (U64 - 2 * HALF)

\* Steps count canonical addresses only, across the gap, and are refused exactly
\* where the address space ends.
StepsAreLinear ==
  \A n \in Counts :
    /\ forward_checked_u64(current, n) = AtPosition(Position(current) + n)
    /\ backward_checked_u64(current, n) = AtPosition(Position(current) - n)

\* steps_between, forward and backward are inverse to each other.
StepsBetweenAgree ==
  LET steps == steps_between_u64(saved, current)
  IN  IF saved > current THEN steps = None
      ELSE /\ steps = Position(current) - Position(saved)
           /\ forward_checked_u64(saved, steps) = current
           /\ backward_checked_u64(current, steps) = saved

\* align_down answers the greatest aligned canonical address not above the given
\* one, align_up the least not below, for an alignment within a half.
Multiples(n) == {a \in Canonical : a % n = 0}
AlignIsNearest ==
  \A n \in {m \in Aligns : m <= HALF} :
    LET down == virt_align_down(current, n)
        up == virt_align_up(current, n)
    IN  /\ down \in Multiples(n) /\ down <= current
        /\ \A a \in Multiples(n) : a <= current => a <= down
        /\ up = None <=> \A a \in Multiples(n) : a < current
        /\ up # None => /\ up \in Multiples(n) /\ current <= up
                        /\ \A a \in Multiples(n) : current <= a => up <= a

\* The indices of a page name it, and pages in order have indices in order, so
\* that the page tables cover the two halves one after the other.
IndicesNamePages ==
  LET page == containing_address(current, PAGE)
      i(level) == page_table_index(current, level)
  IN  /\ from_page_table_indices(i(4), i(3), i(2), i(1)) = page
      /\ ((i(4) * ENTRIES + i(3)) * ENTRIES + i(2)) * ENTRIES + i(1)
           = Position(page) \div PAGE
=============================================================================
