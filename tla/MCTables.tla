------------------------------ MODULE MCTables ------------------------------
(***************************************************************************)
(* A kernel that fills a GDT of six entries, as large as its numbers       *)
(* allow, and an IDT with the vectors at which the code branches.          *)
(***************************************************************************)
EXTENDS Idt

MCTssAddr == {3, 23, 24, 31, 32, 47, 63}
MCRawSlices == {<<>>, <<{0}>>, <<{}, KERNEL_CODE64>>, [i \in 1 .. 5 |-> {}], [i \in 1 .. 7 |-> {}]}

Range(from, start, to, end) == [from |-> from, start |-> start, to |-> to, end |-> end]
MCRanges == {
  Range("Unbounded", 0, "Unbounded", 0),
  Range("Included", 0, "Included", 255),
  Range("Included", 14, "Included", 14),
  Range("Excluded", 17, "Excluded", 33),
  Range("Included", 32, "Excluded", 33),
  Range("Included", 32, "Included", 255),
  Range("Excluded", 31, "Unbounded", 0),
  Range("Excluded", 255, "Unbounded", 0),
  Range("Included", 33, "Excluded", 32)}
=============================================================================
