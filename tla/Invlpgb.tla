------------------------------ MODULE Invlpgb -------------------------------
(***************************************************************************)
(* The broadcast TLB flush of instructions/tlb.rs: an InvlpgbFlushBuilder  *)
(* collects the parameters, and flush() executes `invlpgb` until the range *)
(* of pages is covered.  A page is its start address (module Addr); the    *)
(* registers of one instruction are the record of what they encode.        *)
(***************************************************************************)
EXTENDS Addr, FiniteSets

CONSTANTS
  U16_MAX, USIZE_MAX,   \* u16::MAX and usize::MAX
  CountMaxes,           \* values the processor may report for invlpgb_count_max
  FlushSizes,           \* sizes of the pages (the code has 4 KiB and 2 MiB)
  Asids, Nasid,         \* ASID arguments; the number of ASIDs of the processor
  Pcids                 \* PCID arguments

ASSUME LimitsAssumption ==
  /\ U16_MAX \in Nat \ {0} /\ U16_MAX <= USIZE_MAX
  /\ USIZE_MAX \in Word
  /\ CountMaxes \subseteq 0 .. U16_MAX
  /\ FlushSizes \subseteq Word \ {0}
  /\ \A s \in FlushSizes : HALF % s = 0        \* a half is a whole number of pages
  /\ Asids \subseteq Nat /\ Nasid \in Nat

VARIABLES
  invlpgb_count_max, tlb_flush_nested,   \* struct Invlpgb, from cpuid
  builder,       \* the InvlpgbFlushBuilder
  pages,         \* flush(): the range still to cover
  sent,          \* history: the `invlpgb` instructions executed
  pc             \* "building", "flushing", "done" or "panicked"

cpu == <<invlpgb_count_max, tlb_flush_nested>>
flushVars == <<invlpgb_count_max, tlb_flush_nested, builder, pages, sent, pc>>

NoRange == [start |-> None, end |-> None, size |-> None]
RangeOf(s) == [start : Pages(s), end : Pages(s), size : {s}]

\* Invlpgb::new and build.
FlushInit ==
  /\ invlpgb_count_max \in CountMaxes
  /\ tlb_flush_nested \in BOOLEAN
  /\ builder = [page_range |-> NoRange, pcid |-> None, asid |-> None,
                include_global |-> FALSE, final_translation_only |-> FALSE,
                include_nested_translations |-> FALSE]
  /\ pages = NoRange
  /\ sent = {}
  /\ pc = "building"

(***************************************************************************)
(* The builder's methods.                                                  *)
(***************************************************************************)
Build(b) ==
  /\ pc = "building"
  /\ builder' = b
  /\ UNCHANGED <<cpu, pages, sent, pc>>

SetPages == \E s \in FlushSizes : \E r \in RangeOf(s) : Build([builder EXCEPT !.page_range = r])
SetPcid == \E p \in Pcids : Build([builder EXCEPT !.pcid = p])
SetAsid == \E a \in Asids : a < Nasid /\ Build([builder EXCEPT !.asid = a])
IncludeGlobal == Build([builder EXCEPT !.include_global = TRUE])
FinalTranslationOnly == Build([builder EXCEPT !.final_translation_only = TRUE])
IncludeNested ==
  \/ tlb_flush_nested /\ Build([builder EXCEPT !.include_nested_translations = TRUE])
  \/ /\ pc = "building" /\ ~tlb_flush_nested        \* assert!
     /\ pc' = "panicked"
     /\ UNCHANGED <<cpu, builder, pages, sent>>

(***************************************************************************)
(* flush().                                                                *)
(***************************************************************************)
\* flush_broadcast: one instruction with the builder's parameters.
flush_broadcast(va, count) ==
  sent' = sent \cup {[va |-> va, count |-> count, size |-> builder.page_range.size,
                      pcid |-> builder.pcid, asid |-> builder.asid,
                      include_global |-> builder.include_global,
                      final_translation_only |-> builder.final_translation_only,
                      include_nested_translations |-> builder.include_nested_translations]}

Flush ==
  /\ pc = "building"
  /\ IF builder.page_range = NoRange
     THEN flush_broadcast(None, 0) /\ pc' = "done" /\ UNCHANGED pages
     ELSE pages' = builder.page_range /\ pc' = "flushing" /\ UNCHANGED sent
  /\ UNCHANGED <<cpu, builder>>

Minimum(a, b) == IF a < b THEN a ELSE b
steps_between(start, end) == Minimum(page_steps_between(start, end, pages.size), USIZE_MAX)

\* PageRange::is_empty, the condition of the loop.
RangeEmpty == pages.start >= pages.end

\* Mutant: the start of the upper half is not looked for.
CountInHalf_OverGap == steps_between(pages.start, pages.end)

\* The pages up to the end of the range or of the lower half.
CountInHalf ==
  LET second_half_start == containing_address(U64 - HALF, pages.size)
      count == steps_between(pages.start, pages.end)
  IN  IF pages.start < second_half_start
      THEN Minimum(count, steps_between(pages.start, second_half_start))
      ELSE count

\* At most u16::MAX of them, and at most what the processor supports.
CountToFlush == Minimum(Minimum(CountInHalf, U16_MAX), invlpgb_count_max)

\* Mutants: a count of zero does not advance; the first page is counted apart.
Increment_Zero(count) == count
Increment_OneMore(count) == count + 1

\* Even with a count of zero, one page is flushed.
Increment(count) == IF count = 0 THEN 1 ELSE count

FlushLoop ==
  /\ pc = "flushing"
  /\ IF RangeEmpty
     THEN pc' = "done" /\ UNCHANGED <<pages, sent>>
     ELSE LET next == page_forward_checked(pages.start, Increment(CountToFlush), pages.size)
          IN  /\ flush_broadcast(pages.start, CountToFlush)
              /\ IF next = None
                 THEN pc' = "panicked" /\ UNCHANGED pages
                 ELSE pages' = [pages EXCEPT !.start = next] /\ UNCHANGED pc
  /\ UNCHANGED <<cpu, builder>>

FlushFinished == pc \in {"done", "panicked"} /\ UNCHANGED flushVars

FlushNext ==
  \/ SetPages \/ SetPcid \/ SetAsid \/ IncludeGlobal \/ FinalTranslationOnly
  \/ IncludeNested \/ Flush \/ FlushLoop \/ FlushFinished

\* Once called, flush() runs to its end.
FlushSpec == FlushInit /\ [][FlushNext]_flushVars /\ WF_flushVars(FlushLoop)

(***************************************************************************)
(* Properties.                                                             *)
(***************************************************************************)
\* What one `invlpgb` does: it flushes count pages from va on, one at least, where
\* pages are numbered by their place in the address space.
PageAt(n, s) == IF n * s < HALF THEN n * s ELSE n * s + (U64 - 2 * HALF)
NumberOf(a, s) == (IF a < HALF THEN a ELSE a - (U64 - 2 * HALF)) \div s
Flushed(x) ==
  LET first == NumberOf(x.va, x.size)
      count == IF x.count = 0 THEN 1 ELSE x.count
  IN  {PageAt(n, x.size) : n \in first .. first + count - 1}
FlushRange ==
  {a \in Pages(builder.page_range.size) :
     builder.page_range.start <= a /\ a < builder.page_range.end}

\* flush() covers exactly the pages of the range, whatever the limits of the
\* processor and across the gap: no stale translation of the range is left behind
\* and no page outside it is flushed.
FlushesExactlyRange ==
  pc \in {"flushing", "done"} /\ builder.page_range # NoRange =>
    LET flushed == UNION {Flushed(x) : x \in sent}
    IN  /\ flushed \subseteq FlushRange
        /\ pc = "done" => flushed = FlushRange

\* No instruction asks for more pages than invlpgb_count_max, none names pages of both
\* halves ("Make sure that we never jump the gap in the address space when flushing"),
\* and no page is flushed by two of them: the loop makes no more instructions than it
\* must.
RequestsWithinLimits ==
  LET ranged == {x \in sent : x.va # None}
  IN  /\ \A x \in sent : x.count <= invlpgb_count_max
      /\ \A x \in ranged : Flushed(x) \subseteq LowerHalf \/ Flushed(x) \subseteq UpperHalf
      /\ \A x, y \in ranged : Flushed(x) \cap Flushed(y) # {} => x = y

\* Every flush comes to its end, also with a processor that reports a maximum of zero
\* and for a range up to the last page, where there is no next one to unwrap.
FlushEnds == pc = "flushing" ~> pc = "done"
=============================================================================
