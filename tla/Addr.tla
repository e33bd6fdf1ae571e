-------------------------------- MODULE Addr --------------------------------
(***************************************************************************)
(* VirtAddr, PhysAddr and Page arithmetic (addr.rs, structures/paging/     *)
(* page.rs and frame.rs).                                                  *)
(*                                                                         *)
(* An address is the number of its u64.  The widths of the code are        *)
(* constants: U64 is 2^64, HALF is 2^47 and PHYS is 2^52, so bits 47.. of  *)
(* an address are 0x1 exactly if HALF <= addr < 2*HALF, and 0x1ffff, the   *)
(* upper half, exactly if addr >= U64 - HALF.  A u64 operation that may    *)
(* overflow is checked_add, checked_sub or checked_mul.  None stands for   *)
(* the Option of that name and for the panic a call ends in instead of an  *)
(* answer.                                                                 *)
(***************************************************************************)
EXTENDS Integers

CONSTANTS
  U64,    \* values of a u64
  HALF,   \* addresses of each half of the canonical address space
  PHYS,   \* physical addresses
  PAGE,   \* bytes of a 4 KiB page
  ENTRIES \* entries of a page table

ASSUME WidthAssumption ==
  /\ U64 \in Nat /\ HALF \in Nat \ {0} /\ PHYS \in Nat \ {0}
  /\ U64 >= 8 * HALF /\ U64 % (2 * HALF) = 0
  /\ PHYS <= U64
  /\ PAGE \in Nat \ {0} /\ ENTRIES \in Nat \ {0}

None == -1
Word == 0 .. U64 - 1
ADDRESS_SPACE_SIZE == 2 * HALF

checked_add(a, b) == IF a # None /\ b # None /\ a + b < U64 THEN a + b ELSE None
checked_sub(a, b) == IF a # None /\ b # None /\ a >= b THEN a - b ELSE None
checked_mul(a, b) == IF a * b < U64 THEN a * b ELSE None

(***************************************************************************)
(* Canonical addresses.                                                    *)
(***************************************************************************)
LowerHalf == 0 .. HALF - 1
UpperHalf == U64 - HALF .. U64 - 1
Canonical == LowerHalf \cup UpperHalf
Physical == 0 .. PHYS - 1

\* Keep the low 48 bits and copy bit 47 to the bits above.
new_truncate(addr) ==
  LET low48 == addr % (2 * HALF)
  IN  IF low48 < HALF THEN low48 ELSE low48 + (U64 - 2 * HALF)
try_new(addr) == IF addr # None /\ new_truncate(addr) = addr THEN addr ELSE None
phys_try_new(addr) == IF addr # None /\ addr % PHYS = addr THEN addr ELSE None

\* impl Add<u64>, Sub<u64> and Sub<Self>; None where new or unwrap panics.
add(a, n) == try_new(checked_add(a, n))
sub(a, n) == try_new(checked_sub(a, n))
phys_add(a, n) == phys_try_new(checked_add(a, n))

\* The free functions align_down and align_up, and VirtAddr's.
align_down(addr, align) == addr - (addr % align)

\* Mutant: an aligned address is moved too.
align_up_Always(addr, align) == checked_add(align_down(addr, align), align)

align_up(addr, align) ==
  IF addr % align = 0 THEN addr ELSE checked_add(align_down(addr, align), align)
virt_align_down(addr, align) == new_truncate(align_down(addr, align))
virt_align_up(addr, align) ==
  IF align_up(addr, align) = None THEN None ELSE new_truncate(align_up(addr, align))

(***************************************************************************)
(* The steps of `Step for VirtAddr`, which jump the gap.                   *)
(***************************************************************************)
\* Mutant: the bits of the gap are not masked away.
steps_between_u64_Unmasked(start, end) == IF end >= start THEN end - start ELSE None

steps_between_u64(start, end) ==
  IF end >= start THEN (end - start) % ADDRESS_SPACE_SIZE ELSE None

\* Mutant: the jump into the upper half is forgotten.
forward_checked_u64_NoJump(start, count) ==
  IF count > ADDRESS_SPACE_SIZE THEN None ELSE checked_add(start, count)

forward_checked_u64(start, count) ==
  LET addr == checked_add(start, count)
  IN  IF count > ADDRESS_SPACE_SIZE THEN None
      ELSE IF HALF <= addr /\ addr < 2 * HALF             \* bits 47.. are 0x1
      THEN addr - HALF + (U64 - HALF)                     \* and become 0x1ffff
      ELSE IF 2 * HALF <= addr /\ addr < 3 * HALF         \* bits 47.. are 0x2
      THEN None
      ELSE addr

\* Mutant: the underflow of the lower half goes unnoticed.
backward_checked_u64_NoUnderflow(start, count) ==
  LET addr == checked_sub(start, count)
  IN  IF count > ADDRESS_SPACE_SIZE THEN None
      ELSE IF U64 - 2 * HALF <= addr /\ addr < U64 - HALF
      THEN addr - (U64 - 2 * HALF) ELSE addr

backward_checked_u64(start, count) ==
  LET addr == checked_sub(start, count)
  IN  IF count > ADDRESS_SPACE_SIZE THEN None
      ELSE IF U64 - 2 * HALF <= addr /\ addr < U64 - HALF      \* 0x1fffe
      THEN addr - (U64 - 2 * HALF)                             \* becomes 0
      ELSE IF U64 - 3 * HALF <= addr /\ addr < U64 - 2 * HALF  \* 0x1fffd
      THEN None
      ELSE addr

(***************************************************************************)
(* Table indices, four levels of ENTRIES entries (512) over pages of PAGE  *)
(* bytes (4096).                                                           *)
(***************************************************************************)
\* The pages below an entry of each level: the shifts by 0, 9, 18 and 27 bits.
PagesBelow == <<1, ENTRIES, ENTRIES * ENTRIES, ENTRIES * ENTRIES * ENTRIES>>

\* Mutant: the shift is by the level, not by the levels below it.
page_table_index_OneUp(addr, level) ==
  (addr \div (PAGE * ENTRIES * PagesBelow[level])) % ENTRIES

page_table_index(addr, level) == (addr \div (PAGE * PagesBelow[level])) % ENTRIES
from_page_table_indices(p4, p3, p2, p1) ==
  virt_align_down(new_truncate(PAGE * (((p4 * ENTRIES + p3) * ENTRIES + p2) * ENTRIES + p1)),
                  PAGE)

(***************************************************************************)
(* Pages and frames of a size, named by the aligned address they start at. *)
(***************************************************************************)
Pages(size) == {a \in Canonical : a % size = 0}
Frames(size) == {a \in Physical : a % size = 0}

containing_address(a, size) == IF a = None THEN None ELSE virt_align_down(a, size)
phys_containing_address(a, size) == IF a = None THEN None ELSE align_down(a, size)

\* page + 1, page - 1 and end - start, for Page and PhysFrame.
page_next(page, size) == containing_address(add(page, size), size)
page_prev(page, size) == containing_address(sub(page, size), size)
frame_next(frame, size) == phys_containing_address(phys_add(frame, size), size)
page_diff(end, start, size) == (end - start) \div size

page_forward_checked(page, count, size) ==
  LET bytes == checked_mul(count, size)
  IN  IF bytes = None THEN None ELSE forward_checked_u64(page, bytes)
page_steps_between(start, end, size) ==
  LET steps == steps_between_u64(start, end)
  IN  IF steps = None THEN 0 ELSE steps \div size
=============================================================================
