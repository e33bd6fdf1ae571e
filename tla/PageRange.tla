----------------------------- MODULE PageRange ------------------------------
(***************************************************************************)
(* The four range iterators: PageRange and PageRangeInclusive (page.rs),   *)
(* PhysFrameRange and PhysFrameRangeInclusive (frame.rs), each driven by a *)
(* loop that calls next() until it answers None.  A page or frame is its   *)
(* start address (module Addr).                                            *)
(***************************************************************************)
EXTENDS Addr, Sequences, FiniteSets

CONSTANTS Kinds,    \* of the four range types
          Sizes     \* page sizes

AllKinds == {"PageRange", "PageRangeInclusive", "PhysFrameRange", "PhysFrameRangeInclusive"}
ASSUME RangeAssumption ==
  /\ Kinds \subseteq AllKinds
  /\ Sizes \subseteq Word \ {0}
  \* 4 KiB, 2 MiB and 1 GiB divide the halves and the physical memory.
  /\ \A s \in Sizes : HALF % s = 0 /\ s < HALF /\ PHYS % s = 0

VARIABLES
  kind, size,   \* the type of the range
  start, end,   \* its fields
  given,        \* history: the fields the loop began with
  yielded,      \* history: the items next() has answered
  status        \* "running", "done" after None, or "panicked"

rangeVars == <<kind, size, start, end, given, yielded, status>>

Inclusive(k) == k \in {"PageRangeInclusive", "PhysFrameRangeInclusive"}
PageKind(k) == k \in {"PageRange", "PageRangeInclusive"}
Items(k, s) == IF PageKind(k) THEN Pages(s) ELSE Frames(s)

\* Mutant: an inclusive range is taken for an exclusive one.
is_empty_Exclusive == start >= end

is_empty == IF Inclusive(kind) THEN start > end ELSE start >= end

\* Mutant: the inclusive end is not counted.
len_Exclusive == IF is_empty THEN 0 ELSE page_diff(end, start, size)

len == IF is_empty THEN 0
       ELSE page_diff(end, start, size) + IF Inclusive(kind) THEN 1 ELSE 0

RangeInit ==
  /\ kind \in Kinds /\ size \in Sizes
  /\ start \in Items(kind, size) /\ end \in Items(kind, size)
  /\ given = [start |-> start, end |-> end]
  /\ yielded = <<>>
  /\ status = "running"

\* self.start += 1, for the type of the range.
Successor ==
  IF PageKind(kind) THEN page_next(start, size) ELSE frame_next(start, size)

max_page_addr == U64 - 1 - (size - 1)

\* Mutant: the end of the address space is not treated apart.
NextFields_NoMax == [start |-> Successor, end |-> end]

\* Mutant: at the last page neither field moves.
NextFields_Stuck ==
  [start |-> IF kind = "PageRangeInclusive" /\ start >= max_page_addr
             THEN start ELSE Successor,
   end |-> end]

\* The fields after a call of next() on a range that is not empty.
NextFields ==
  IF kind = "PageRangeInclusive" /\ start >= max_page_addr
  THEN [start |-> start, end |-> page_prev(end, size)]
  ELSE [start |-> Successor, end |-> end]

\* The history is cut off after MaxYielded items, more than any range has: a
\* loop that went on for ever would still have finitely many states.
MaxYielded == PHYS + 2 * HALF
Record(item) ==
  yielded' = IF Len(yielded) < MaxYielded THEN Append(yielded, item) ELSE yielded

next ==
  /\ status = "running"
  /\ IF is_empty
     THEN status' = "done" /\ UNCHANGED <<start, end, yielded>>
     ELSE IF None \in {NextFields.start, NextFields.end}
     THEN status' = "panicked" /\ UNCHANGED <<start, end, yielded>>
     ELSE /\ start' = NextFields.start
          /\ end' = NextFields.end
          /\ Record(start)
          /\ UNCHANGED status
  /\ UNCHANGED <<kind, size, given>>

RangeFinished == status # "running" /\ UNCHANGED rangeVars

RangeNext == next \/ RangeFinished

\* The loop is sequential code: nothing stops it from calling next() again.
RangeSpec == RangeInit /\ [][RangeNext]_rangeVars /\ WF_rangeVars(next)

(***************************************************************************)
(* Properties.                                                             *)
(***************************************************************************)
\* Reference: the pages (or frames) that lie in the range.
InRange ==
  {a \in Items(kind, size) :
     given.start <= a /\ (a < given.end \/ (Inclusive(kind) /\ a = given.end))}
Yielded == {yielded[k] : k \in 1 .. Len(yielded)}

\* next() answers the pages of the range in order, none twice and none left out;
\* at None it has answered them all.
YieldsRangeInOrder ==
  /\ Yielded \subseteq InRange
  /\ \A j, k \in 1 .. Len(yielded) : j < k => yielded[j] < yielded[k]
  /\ \A a \in InRange, b \in Yielded : a < b => a \in Yielded
  /\ status = "done" => Yielded = InRange

\* The last item after which there is no next address: the end of the lower half
\* for pages, of physical memory for frames.
LastBefore == IF PageKind(kind) THEN HALF - size ELSE PHYS - size

\* A loop panics only at the last page before the gap, or the last frame, and
\* only if that page is in the range: everywhere else, the top of the address
\* space included, it runs to its end.
PanicsOnlyAtLast ==
  /\ status = "panicked" => start = LastBefore /\ LastBefore \in InRange
  /\ status = "done" => LastBefore \notin InRange

\* len() is the number of items next() has still to answer, all along the loop,
\* for a range of frames, or of pages on one side of the gap.
LenCountsRest ==
  \/ PageKind(kind) /\ given.start < HALF /\ given.end >= HALF
  \/ len = Cardinality(InRange \ Yielded)

\* Every loop over a range ends.
LoopEnds == <>(status # "running")
=============================================================================
