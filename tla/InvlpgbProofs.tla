--------------------------- MODULE InvlpgbProofs ----------------------------
(***************************************************************************)
(* Proofs about the broadcast flush, for every width of addresses, every   *)
(* size of pages that divides a half, every range and every limit of the   *)
(* processor, a maximal count of zero included.                            *)
(***************************************************************************)
EXTENDS Invlpgb, TLAPS

(***************************************************************************)
(* Quotients, remainders and multiples.                                    *)
(***************************************************************************)
LEMMA DivMod ==
  ASSUME NEW n \in Nat \ {0}, NEW q \in Int, NEW r \in 0 .. n - 1
  PROVE  (q * n + r) % n = r /\ (q * n + r) \div n = q
<1>1. (q * n + r) % n = r
  OBVIOUS
<1>2. (q * n + r) \div n = q
  OBVIOUS
<1> QED BY <1>1, <1>2

LEMMA Euclid ==
  ASSUME NEW n \in Nat \ {0}, NEW x \in Int
  PROVE  \E q \in Int, r \in 0 .. n - 1 : x = q * n + r /\ x % n = r /\ x \div n = q
<1>1. PICK q \in Int : q = x \div n
  OBVIOUS
<1>2. n * q <= x /\ x < n * (q + 1)
  <2>1. n \in Int /\ n > 0
    OBVIOUS
  <2>2. n * (x \div n) <= x
    BY <2>1
  <2>3. x < n * (x \div n + 1)
    BY <2>1
  <2> QED BY <1>1, <2>2, <2>3
<1>3. PICK r \in 0 .. n - 1 : x = q * n + r
  <2>1. x - q * n \in 0 .. n - 1 /\ x = q * n + (x - q * n)
    BY <1>2
  <2> QED BY <2>1
<1>4. (q * n + r) % n = r
  BY DivMod
<1> QED BY <1>1, <1>3, <1>4

LEMMA MultipleOf ==
  ASSUME NEW n \in Nat \ {0}, NEW x \in Int
  PROVE  x % n = 0 <=> \E q \in Int : x = q * n
<1>1. ASSUME x % n = 0 PROVE \E q \in Int : x = q * n
  <2>1. PICK q \in Int, r \in 0 .. n - 1 : x = q * n + r /\ x % n = r
    BY Euclid
  <2>2. x = q * n
    BY <1>1, <2>1
  <2> QED BY <2>2
<1>2. ASSUME NEW q \in Int, x = q * n PROVE x % n = 0
  <2>1. (q * n + 0) % n = 0
    BY DivMod
  <2>2. q * n + 0 = x
    BY <1>2
  <2> QED BY <2>1, <2>2
<1> QED BY <1>1, <1>2

LEMMA AlignDownIsMultiple ==
  ASSUME NEW n \in Nat \ {0}, NEW x \in Int
  PROVE  /\ align_down(x, n) \in Int /\ align_down(x, n) % n = 0
         /\ align_down(x, n) <= x /\ x < align_down(x, n) + n
         /\ x % n = 0 => align_down(x, n) = x
<1>1. PICK q \in Int, r \in 0 .. n - 1 : x = q * n + r /\ x % n = r
  BY Euclid
<1>2. align_down(x, n) = q * n
  BY <1>1 DEF align_down
<1>3. (q * n) % n = 0
  BY MultipleOf
<1> QED BY <1>1, <1>2, <1>3

(***************************************************************************)
(* Pages by number.                                                        *)
(***************************************************************************)
\* The place of an address in the address space, and the pages of a half.
Position(a) == IF a < HALF THEN a ELSE a - (U64 - 2 * HALF)
PerHalf(s) == HALF \div s

LEMMA StepsArePositions ==
  ASSUME NEW a \in Canonical, NEW b \in Canonical, a <= b
  PROVE  (b - a) % ADDRESS_SPACE_SIZE = Position(b) - Position(a)
<1> DEFINE n == 2 * HALF
           r == Position(b) - Position(a)
<1>1. n \in Nat \ {0} /\ ADDRESS_SPACE_SIZE = n
  BY WidthAssumption DEF ADDRESS_SPACE_SIZE
<1>2. r \in 0 .. n - 1 /\ (b - a = r \/ b - a = r + (U64 - n))
  BY WidthAssumption DEF Canonical, LowerHalf, UpperHalf, Position
<1>3. PICK k \in Int : U64 = k * n
  <2>1. PICK u \in Int : u = U64
    BY WidthAssumption
  <2>2. u % n = 0
    BY <2>1, WidthAssumption
  <2> HIDE DEF n
  <2>3. \E q \in Int, r0 \in 0 .. n - 1 : u = q * n + r0 /\ u % n = r0 /\ u \div n = q
    BY <1>1, Euclid
  <2>4. PICK q \in Int, r0 \in 0 .. n - 1 : u = q * n + r0 /\ u % n = r0
    BY <2>3
  <2>5. u = q * n
    BY <1>1, <2>2, <2>4
  <2> QED BY <2>1, <2>5
<1> HIDE DEF n, r
<1>4. PICK q \in Int : b - a = q * n + r
  <2>1. b - a = r => b - a = 0 * n + r
    BY <1>1, <1>2
  <2>2. b - a = r + (U64 - n) => b - a = (k - 1) * n + r
    BY <1>1, <1>2, <1>3
  <2> QED BY <1>2, <2>1, <2>2
<1>5. (q * n + r) % n = r
  BY <1>1, <1>2, DivMod
<1> QED BY <1>1, <1>4, <1>5 DEF r

\* A canonical address is what new_truncate makes of it.
LEMMA TruncateFixes ==
  \A a \in Canonical : new_truncate(a) = a
<1>1. PICK n \in Nat \ {0}, u \in Int : n = 2 * HALF /\ u = U64 /\ u % n = 0
  BY WidthAssumption
<1>2. PICK k \in Int : u = k * n
  BY <1>1, MultipleOf
<1>3. ASSUME NEW r \in 0 .. n - 1 PROVE r % n = r /\ (r + (u - n)) % n = r
  <2>1. (0 * n + r) % n = r
    BY DivMod
  <2>2. ((k - 1) * n + r) % n = r
    <3>1. k - 1 \in Int
      OBVIOUS
    <3> QED BY <3>1, DivMod
  <2>3. 0 * n + r = r /\ (k - 1) * n + r = r + (u - n)
    BY <1>1, <1>2
  <2> QED BY <2>1, <2>2, <2>3
<1>4. ASSUME NEW a \in LowerHalf PROVE new_truncate(a) = a
  <2>1. a \in 0 .. n - 1 /\ a < HALF
    BY <1>1, WidthAssumption DEF LowerHalf
  <2>2. a % n = a
    BY <1>3, <2>1
  <2> QED BY <1>1, <2>1, <2>2 DEF new_truncate
<1>5. ASSUME NEW a \in UpperHalf PROVE new_truncate(a) = a
  <2>1. PICK r \in 0 .. n - 1 : r = a - (u - n) /\ ~(r < HALF) /\ a = r + (u - n)
    <3>1. a - (u - n) \in 0 .. n - 1 /\ ~(a - (u - n) < HALF)
      BY <1>1, WidthAssumption DEF UpperHalf
    <3> QED BY <1>1, <3>1, WidthAssumption DEF UpperHalf
  <2>2. a % n = r
    BY <1>3, <2>1
  <2> QED BY <1>1, <2>1, <2>2 DEF new_truncate
<1> QED BY <1>4, <1>5 DEF Canonical

LEMMA SizeDivides ==
  ASSUME NEW s \in FlushSizes
  PROVE  s \in Nat \ {0} /\ PerHalf(s) \in Nat \ {0} /\ HALF = PerHalf(s) * s
<1>1. s \in Nat \ {0} /\ HALF % s = 0
  BY LimitsAssumption, WidthAssumption DEF Word
<1>2. PICK h \in Int : h = HALF /\ h > 0
  BY WidthAssumption
<1>3. PICK q \in Int, r \in 0 .. s - 1 : h = q * s + r /\ h % s = r /\ h \div s = q
  BY <1>1, <1>2, Euclid
<1>4. h = q * s /\ q = PerHalf(s)
  BY <1>1, <1>2, <1>3 DEF PerHalf
<1>5. q > 0
  <2> SUFFICES ASSUME q <= 0 PROVE FALSE
    BY <1>3
  <2>1. q * s <= 0
    BY <1>1
  <2> QED BY <1>2, <1>4, <2>1
<1>6. q \in Nat \ {0}
  BY <1>3, <1>5
<1> QED BY <1>1, <1>2, <1>4, <1>6

LEMMA TimesOrder ==
  ASSUME NEW s \in Nat \ {0}, NEW m \in Int, NEW n \in Int
  PROVE  m < n <=> m * s < n * s
<1>1. ASSUME NEW i \in Int, NEW j \in Int, i <= j PROVE i * s <= j * s
  <2>1. PICK d \in Nat : j = i + d
    <3>1. j - i \in Nat /\ j = i + (j - i)
      BY <1>1
    <3> QED BY <3>1
  <2>2. d * s >= 0 /\ j * s = i * s + d * s
    BY <2>1
  <2> QED BY <2>2
<1>2. ASSUME m < n PROVE m * s < n * s
  <2>1. (m + 1) * s <= n * s
    BY <1>1, <1>2
  <2> QED BY <2>1
<1>3. ASSUME ~(m < n) PROVE ~(m * s < n * s)
  BY <1>1, <1>3
<1> QED BY <1>2, <1>3

\* The number of a page is its place in units of the size.
LEMMA NumberOfPage ==
  ASSUME NEW s \in FlushSizes, NEW a \in Pages(s)
  PROVE  /\ NumberOf(a, s) \in 0 .. 2 * PerHalf(s) - 1
         /\ Position(a) = NumberOf(a, s) * s
         /\ PageAt(NumberOf(a, s), s) = a
         /\ a < HALF <=> NumberOf(a, s) < PerHalf(s)
<1>1. PICK p \in Nat \ {0} : p = PerHalf(s) /\ HALF = p * s /\ s \in Nat \ {0}
  BY SizeDivides
<1>2. PICK x \in Int : x = Position(a) /\ x >= 0 /\ x < 2 * HALF /\ (a < HALF <=> x < HALF)
  <2>1. a \in Canonical
    BY DEF Pages
  <2>2. Position(a) \in Int /\ Position(a) >= 0 /\ Position(a) < 2 * HALF
    BY <2>1, WidthAssumption DEF Position, Canonical, LowerHalf, UpperHalf
  <2>3. a < HALF <=> Position(a) < HALF
    BY <2>1, WidthAssumption DEF Position, Canonical, LowerHalf, UpperHalf
  <2> QED BY <2>2, <2>3
<1>3. x % s = 0
  <2>1. a % s = 0 /\ a \in Int
    BY WidthAssumption DEF Pages, Canonical, LowerHalf, UpperHalf
  <2>2. PICK q \in Int : a = q * s
    BY <1>1, <2>1, MultipleOf
  <2>3. PICK u \in Int, d \in Nat \ {0} : u = U64 /\ d = 2 * HALF /\ u % d = 0
    BY WidthAssumption
  <2>4. PICK k \in Int : u = k * d
    BY <2>3, MultipleOf
  <2>5. x = a \/ x = a - (u - d)
    BY <1>2, <2>3 DEF Position
  <2>6. u - d = ((k - 1) * 2 * p) * s
    BY <1>1, <2>3, <2>4
  <2>7. PICK j \in Int : x = j * s
    <3>1. CASE x = a
      BY <2>2, <3>1
    <3>2. CASE x = a - (u - d)
      <4>1. x = (q - (k - 1) * 2 * p) * s /\ q - (k - 1) * 2 * p \in Int
        BY <1>1, <2>2, <2>6, <3>2
      <4> QED BY <4>1
    <3> QED BY <2>5, <3>1, <3>2
  <2> QED BY <1>1, <2>7, MultipleOf
<1>4. PICK n \in Int, r \in 0 .. s - 1 : x = n * s + r /\ x % s = r /\ x \div s = n
  BY <1>1, Euclid
<1>5. n = NumberOf(a, s) /\ x = n * s
  BY <1>1, <1>2, <1>3, <1>4 DEF NumberOf, Position
<1>6. n >= 0
  <2>1. ~(n < 0)
    <3>1. PICK z \in Int : z = 0
      OBVIOUS
    <3>2. n < z <=> n * s < z * s
      BY <1>1, TimesOrder
    <3> QED BY <1>1, <1>2, <1>5, <3>1, <3>2
  <2> QED BY <2>1
<1>7. n < 2 * p
  <2>1. PICK t \in Int : t = 2 * p /\ t * s = 2 * HALF
    BY <1>1
  <2>2. n < t <=> n * s < t * s
    BY <1>1, TimesOrder
  <2> QED BY <1>1, <1>2, <1>5, <2>1, <2>2, WidthAssumption
<1>8. n < p <=> x < HALF
  BY <1>1, <1>5, TimesOrder
<1>9. PageAt(n, s) = a
  <2>1. a \in Int /\ (a = x \/ a = x + (U64 - 2 * HALF)) /\ (a < HALF <=> a = x)
    BY <1>2, WidthAssumption DEF Position, Pages, Canonical, LowerHalf, UpperHalf
  <2> QED BY <1>2, <1>5, <2>1 DEF PageAt
<1> QED BY <1>1, <1>2, <1>5, <1>6, <1>7, <1>8, <1>9

LEMMA PageOfNumber ==
  ASSUME NEW s \in FlushSizes, NEW n \in 0 .. 2 * PerHalf(s) - 1
  PROVE  PageAt(n, s) \in Pages(s) /\ NumberOf(PageAt(n, s), s) = n
<1>1. PICK p \in Nat \ {0} : p = PerHalf(s) /\ HALF = p * s /\ s \in Nat \ {0}
  BY SizeDivides
<1>2. PICK x \in Int : x = n * s /\ n \in Int /\ n >= 0 /\ n < 2 * p
  BY <1>1
<1>3. x >= 0 /\ x < 2 * HALF
  <2>1. x >= 0
    BY <1>1, <1>2
  <2>2. PICK t \in Int : t = 2 * p /\ t * s = 2 * HALF
    BY <1>1
  <2>3. n < t <=> n * s < t * s
    BY <1>1, <1>2, TimesOrder
  <2> QED BY <1>2, <2>1, <2>2, <2>3
<1>4. PICK a \in Int : a = PageAt(n, s)
  BY <1>2, WidthAssumption DEF PageAt
<1>5. a \in Canonical /\ Position(a) = x
  BY <1>2, <1>3, <1>4, WidthAssumption DEF PageAt, Canonical, LowerHalf, UpperHalf, Position
<1>6. a % s = 0
  <2>1. PICK u \in Int, d \in Nat \ {0} : u = U64 /\ d = 2 * HALF /\ u % d = 0
    BY WidthAssumption
  <2>2. PICK k \in Int : u = k * d
    BY <2>1, MultipleOf
  <2>3. u - d = ((k - 1) * 2 * p) * s
    BY <1>1, <2>1, <2>2
  <2>4. a = x \/ a = x + (u - d)
    BY <1>2, <1>4, <2>1 DEF PageAt
  <2>5. PICK j \in Int : a = j * s
    <3>1. CASE a = x
      BY <1>2, <3>1
    <3>2. CASE a = x + (u - d)
      <4>1. a = (n + (k - 1) * 2 * p) * s /\ n + (k - 1) * 2 * p \in Int
        BY <1>1, <1>2, <2>3, <3>2
      <4> QED BY <4>1
    <3> QED BY <2>4, <3>1, <3>2
  <2> QED BY <1>1, <2>5, MultipleOf
<1>7. NumberOf(a, s) = n
  <2>1. 0 \in 0 .. s - 1
    BY <1>1
  <2>2. (n * s + 0) \div s = n
    BY <1>1, <1>2, <2>1, DivMod
  <2>3. NumberOf(a, s) = (n * s + 0) \div s
    BY <1>2, <1>5 DEF NumberOf, Position
  <2> QED BY <2>2, <2>3
<1> QED BY <1>4, <1>5, <1>6, <1>7 DEF Pages

LEMMA NumberOrder ==
  ASSUME NEW s \in FlushSizes, NEW a \in Pages(s), NEW b \in Pages(s)
  PROVE  a < b <=> NumberOf(a, s) < NumberOf(b, s)
<1>1. PICK m \in Int, n \in Int : m = NumberOf(a, s) /\ n = NumberOf(b, s) /\ s \in Nat \ {0}
  BY NumberOfPage, SizeDivides
<1>2. Position(a) = m * s /\ Position(b) = n * s
  BY <1>1, NumberOfPage
<1>3. a < b <=> Position(a) < Position(b)
  BY WidthAssumption DEF Position, Pages, Canonical, LowerHalf, UpperHalf
<1>4. m < n <=> m * s < n * s
  BY <1>1, TimesOrder
<1> QED BY <1>1, <1>2, <1>3, <1>4

\* steps_between counts the pages from one to the other, across the gap.
LEMMA StepsAreNumbers ==
  ASSUME NEW s \in FlushSizes, NEW a \in Pages(s), NEW b \in Pages(s), a <= b
  PROVE  page_steps_between(a, b, s) = NumberOf(b, s) - NumberOf(a, s)
<1>1. PICK m \in Int, n \in Int : m = NumberOf(a, s) /\ n = NumberOf(b, s) /\ s \in Nat \ {0}
  BY NumberOfPage, SizeDivides
<1>2. Position(a) = m * s /\ Position(b) = n * s
  BY <1>1, NumberOfPage
<1>3. a \in Canonical /\ b \in Canonical /\ a \in Int /\ b \in Int
  BY WidthAssumption DEF Pages, Canonical, LowerHalf, UpperHalf
<1>4. steps_between_u64(a, b) = Position(b) - Position(a)
  BY <1>3, StepsArePositions DEF steps_between_u64
<1>5. Position(b) - Position(a) # None
  BY <1>3, WidthAssumption DEF Position, None, Canonical, LowerHalf, UpperHalf
<1>6. ((n - m) * s + 0) \div s = n - m
  <2>1. 0 \in 0 .. s - 1 /\ n - m \in Int
    BY <1>1
  <2> QED BY <1>1, <2>1, DivMod
<1>7. (n - m) * s + 0 = Position(b) - Position(a)
  BY <1>1, <1>2
<1> QED BY <1>1, <1>4, <1>5, <1>6, <1>7 DEF page_steps_between

\* A step forward that stays in the address space goes to the address as many places on.
LEMMA ForwardIsLinear ==
  ASSUME NEW a \in Canonical, NEW y \in Nat, Position(a) + y < 2 * HALF
  PROVE  forward_checked_u64(a, y) = IF Position(a) + y < HALF THEN Position(a) + y
                                     ELSE Position(a) + y + (U64 - 2 * HALF)
BY WidthAssumption DEF forward_checked_u64, checked_add, None, ADDRESS_SPACE_SIZE, Position,
   Canonical, LowerHalf, UpperHalf

\* A step forward goes to the page as many numbers on.
LEMMA ForwardIsNumber ==
  ASSUME NEW s \in FlushSizes, NEW a \in Pages(s), NEW i \in Nat,
         NumberOf(a, s) + i < 2 * PerHalf(s)
  PROVE  page_forward_checked(a, i, s) = PageAt(NumberOf(a, s) + i, s)
<1>1. PICK m \in Int, p \in Nat \ {0} :
        m = NumberOf(a, s) /\ p = PerHalf(s) /\ HALF = p * s /\ s \in Nat \ {0} /\ m >= 0
  BY NumberOfPage, SizeDivides
<1>2. PICK x \in Int, y \in Int : x = m * s /\ y = i * s /\ x = Position(a) /\ x >= 0
  <2>1. Position(a) = m * s /\ m * s \in Int /\ i * s \in Int
    BY <1>1, NumberOfPage
  <2>2. m * s >= 0
    BY <1>1
  <2> QED BY <2>1, <2>2
<1>3. y >= 0
  BY <1>1, <1>2
<1>4. x + y < 2 * HALF
  <2>1. PICK k \in Int, t \in Int : k = m + i /\ t = 2 * p /\ k < t
    BY <1>1
  <2>2. k * s < t * s
    BY <1>1, <2>1, TimesOrder
  <2>3. k * s = x + y /\ t * s = 2 * HALF
    BY <1>1, <1>2, <2>1
  <2> QED BY <2>2, <2>3
<1>5. (m + i) * s = x + y
  BY <1>1, <1>2
<1>6. checked_mul(i, s) = y /\ y # None
  BY <1>2, <1>3, <1>4, WidthAssumption DEF checked_mul, None
<1>7. a \in Canonical
  BY DEF Pages
<1>8. forward_checked_u64(a, y)
        = IF x + y < HALF THEN x + y ELSE x + y + (U64 - 2 * HALF)
  <2>1. y \in Nat /\ Position(a) + y < 2 * HALF
    BY <1>2, <1>3, <1>4
  <2> QED BY <1>2, <1>7, <2>1, ForwardIsLinear
<1>9. PageAt(m + i, s) = IF x + y < HALF THEN x + y ELSE x + y + (U64 - 2 * HALF)
  BY <1>5 DEF PageAt
<1> QED BY <1>1, <1>6, <1>8, <1>9 DEF page_forward_checked

(***************************************************************************)
(* The invariant.                                                          *)
(***************************************************************************)
\* The numbers of the pages an instruction flushes.
NumbersOf(x) == NumberOf(x.va, x.size) .. NumberOf(x.va, x.size) + Increment(x.count) - 1

\* An instruction for pages from number lo on and below hi, all in one half.
Request(x, s, lo, hi) ==
  /\ x.size = s /\ x.va \in Pages(s)
  /\ x.count \in Nat /\ x.count <= invlpgb_count_max
  /\ lo <= NumberOf(x.va, s) /\ NumberOf(x.va, s) + Increment(x.count) <= hi
  /\ NumberOf(x.va, s) < PerHalf(s) =>
       NumberOf(x.va, s) + Increment(x.count) <= PerHalf(s)

\* The pages of the range from number `first` up to `next` are flushed, each by one
\* instruction; `last` is the number of its end.
CoveredTo(s, first, next, last) ==
  /\ pages.size = s /\ pages.end = builder.page_range.end
  /\ first <= next
  /\ first <= last => next <= last
  /\ first > last => next = first
  /\ \A x \in sent : Request(x, s, first, next)
  /\ \A n \in first .. next - 1 : \E x \in sent : n \in NumbersOf(x)
  /\ \A x, y \in sent : x = y \/ NumbersOf(x) \cap NumbersOf(y) = {}

Covered ==
  /\ pages.start \in Pages(builder.page_range.size)
  /\ LET s == builder.page_range.size
     IN  CoveredTo(s, NumberOf(builder.page_range.start, s), NumberOf(pages.start, s),
                   NumberOf(builder.page_range.end, s))
  /\ pc = "done" => RangeEmpty

Builders ==
  [page_range : {NoRange} \cup UNION {RangeOf(s) : s \in FlushSizes},
   pcid : {None} \cup Pcids, asid : {None} \cup Asids, include_global : BOOLEAN,
   final_translation_only : BOOLEAN, include_nested_translations : BOOLEAN]

FlushInv ==
  /\ invlpgb_count_max \in Nat
  /\ builder \in Builders
  /\ pc \in {"building", "flushing", "done", "panicked"}
  /\ pc \in {"building", "panicked"} => sent = {}
  /\ builder.page_range = NoRange =>
       pc # "flushing" /\ \A x \in sent : x.va = None /\ x.count = 0
  /\ builder.page_range # NoRange /\ pc \in {"flushing", "done"} => Covered

\* The fields of a flush under way, by number.
LEMMA FlushFields ==
  ASSUME FlushInv, pc = "flushing"
  PROVE  \E s \in FlushSizes :
           /\ s = builder.page_range.size /\ s = pages.size
           /\ builder.page_range.start \in Pages(s) /\ builder.page_range.end \in Pages(s)
           /\ pages.start \in Pages(s) /\ pages.end = builder.page_range.end
           /\ builder.page_range # NoRange /\ Covered
<1>1. builder.page_range # NoRange /\ Covered
  BY DEF FlushInv
<1>2. PICK s \in FlushSizes : builder.page_range \in RangeOf(s)
  BY <1>1 DEF FlushInv, Builders
<1> QED BY <1>1, <1>2 DEF RangeOf, Covered, CoveredTo

LEMMA MinimumOf ==
  ASSUME NEW a \in Nat, NEW b \in Nat
  PROVE  /\ Minimum(a, b) \in Nat /\ Minimum(a, b) <= a /\ Minimum(a, b) <= b
BY DEF Minimum

\* The first page of the upper half.
LEMMA SecondHalf ==
  ASSUME NEW s \in FlushSizes
  PROVE  /\ containing_address(U64 - HALF, s) = U64 - HALF
         /\ U64 - HALF \in Pages(s) /\ NumberOf(U64 - HALF, s) = PerHalf(s)
<1>1. PICK p \in Nat \ {0} : p = PerHalf(s) /\ HALF = p * s /\ s \in Nat \ {0}
  BY SizeDivides
<1>2. p \in 0 .. 2 * PerHalf(s) - 1
  BY <1>1
<1>3. PageAt(p, s) = U64 - HALF
  BY <1>1, WidthAssumption DEF PageAt
<1>4. U64 - HALF \in Pages(s) /\ NumberOf(U64 - HALF, s) = p
  BY <1>2, <1>3, PageOfNumber
<1>5. PICK a \in Int : a = U64 - HALF /\ a # None /\ a \in Canonical /\ a % s = 0
  BY <1>4, WidthAssumption DEF Pages, None
<1>6. align_down(a, s) = a
  BY <1>1, <1>5, AlignDownIsMultiple
<1> QED BY <1>1, <1>4, <1>5, <1>6, TruncateFixes DEF containing_address, virt_align_down

\* One instruction flushes a page at least, within the range and the half.
LEMMA CountWithin ==
  ASSUME FlushInv, pc = "flushing", ~RangeEmpty,
         NEW s \in FlushSizes, s = pages.size, NEW m, m = NumberOf(pages.start, s),
         NEW e, e = NumberOf(pages.end, s)
  PROVE  /\ m \in Nat /\ e \in Nat /\ e < 2 * PerHalf(s)
         /\ CountToFlush \in Nat /\ CountToFlush <= invlpgb_count_max
         /\ Increment(CountToFlush) \in Nat \ {0}
         /\ m + Increment(CountToFlush) <= e
         /\ m < PerHalf(s) => m + Increment(CountToFlush) <= PerHalf(s)
<1>1. pages.start \in Pages(s) /\ pages.end \in Pages(s)
  BY FlushFields
<1>2. pages.start \in Int /\ pages.end \in Int /\ pages.start < pages.end
  BY <1>1, WidthAssumption DEF RangeEmpty, Pages, Canonical, LowerHalf, UpperHalf
<1>3. PICK p \in Nat \ {0} : p = PerHalf(s)
  BY SizeDivides
<1>4. m \in Nat /\ e \in Nat /\ e < 2 * p /\ m < e /\ (pages.start < HALF <=> m < p)
  BY <1>1, <1>2, <1>3, NumberOfPage, NumberOrder
<1>5. USIZE_MAX \in Nat \ {0} /\ U16_MAX \in Nat \ {0} /\ invlpgb_count_max \in Nat
  BY LimitsAssumption, WidthAssumption DEF Word, FlushInv
<1>6. /\ steps_between(pages.start, pages.end) \in Nat
      /\ steps_between(pages.start, pages.end) <= e - m
  <2>1. page_steps_between(pages.start, pages.end, s) = e - m /\ e - m \in Nat
    BY <1>1, <1>2, <1>4, StepsAreNumbers
  <2> QED BY <1>5, <2>1, MinimumOf DEF steps_between
<1>7. CountInHalf \in Nat /\ CountInHalf <= e - m /\ (m < p => CountInHalf <= p - m)
  <2> DEFINE half == containing_address(U64 - HALF, pages.size)
  <2>1. half = U64 - HALF /\ half \in Pages(s) /\ NumberOf(half, s) = p
    BY <1>3, SecondHalf
  <2>2. CASE pages.start < half
    <3>1. pages.start <= half /\ half \in Int
      BY <1>2, <2>1, <2>2, WidthAssumption
    <3>2. page_steps_between(pages.start, half, s) = p - m
      BY <1>1, <2>1, <3>1, StepsAreNumbers
    <3>3. m < p
      BY <1>1, <2>1, <2>2, NumberOrder
    <3>4. steps_between(pages.start, half) \in Nat /\ steps_between(pages.start, half) <= p - m
      <4>1. p - m \in Nat
        BY <1>3, <1>4, <3>3
      <4> QED BY <1>5, <3>2, <4>1, MinimumOf DEF steps_between
    <3>5. CountInHalf = Minimum(steps_between(pages.start, pages.end),
                                steps_between(pages.start, half))
      BY <2>2 DEF CountInHalf
    <3> HIDE DEF half
    <3> QED BY <1>4, <1>6, <3>4, <3>5 DEF Minimum
  <2>3. CASE ~(pages.start < half)
    <3>1. CountInHalf = steps_between(pages.start, pages.end)
      BY <2>3 DEF CountInHalf
    <3>2. ~(m < p)
      BY <1>2, <1>4, <2>1, <2>3, WidthAssumption
    <3> QED BY <1>6, <3>1, <3>2
  <2> QED BY <2>2, <2>3
<1>8. /\ CountToFlush \in Nat /\ CountToFlush <= CountInHalf
      /\ CountToFlush <= invlpgb_count_max
  BY <1>5, <1>7 DEF CountToFlush, Minimum
<1>9. PICK c \in Nat, h \in Nat : c = CountToFlush /\ h = CountInHalf
  BY <1>7, <1>8
<1> QED BY <1>3, <1>4, <1>7, <1>8, <1>9 DEF Increment

(***************************************************************************)
(* Every step keeps the invariant.                                         *)
(***************************************************************************)
LEMMA InitFlush == FlushInit => FlushInv
<1> SUFFICES ASSUME FlushInit PROVE FlushInv
  OBVIOUS
<1>1. invlpgb_count_max \in Nat
  BY LimitsAssumption, WidthAssumption DEF FlushInit, Word
<1>2. builder \in Builders
  BY DEF FlushInit, Builders
<1> QED BY <1>1, <1>2 DEF FlushInit, FlushInv

LEMMA BuildFlush ==
  ASSUME FlushInv, NEW b \in Builders, Build(b)
  PROVE  FlushInv'
BY DEF FlushInv, Build, cpu

LEMMA BuilderUpdates ==
  ASSUME FlushInv
  PROVE  /\ \A s \in FlushSizes : \A r \in RangeOf(s) : [builder EXCEPT !.page_range = r] \in Builders
         /\ \A p \in Pcids : [builder EXCEPT !.pcid = p] \in Builders
         /\ \A a \in Asids : [builder EXCEPT !.asid = a] \in Builders
         /\ [builder EXCEPT !.include_global = TRUE] \in Builders
         /\ [builder EXCEPT !.final_translation_only = TRUE] \in Builders
         /\ [builder EXCEPT !.include_nested_translations = TRUE] \in Builders
<1>1. builder \in Builders
  BY DEF FlushInv
<1>2. \A s \in FlushSizes : \A r \in RangeOf(s) :
        r \in {NoRange} \cup UNION {RangeOf(t) : t \in FlushSizes}
  OBVIOUS
<1>3. \A r \in {NoRange} \cup UNION {RangeOf(t) : t \in FlushSizes} :
        [builder EXCEPT !.page_range = r] \in Builders
  BY <1>1 DEF Builders
<1>4. \A p \in Pcids : [builder EXCEPT !.pcid = p] \in Builders
  BY <1>1 DEF Builders
<1>5. \A a \in Asids : [builder EXCEPT !.asid = a] \in Builders
  BY <1>1 DEF Builders
<1>6. [builder EXCEPT !.include_global = TRUE] \in Builders
  BY <1>1 DEF Builders
<1>7. [builder EXCEPT !.final_translation_only = TRUE] \in Builders
  BY <1>1 DEF Builders
<1>8. [builder EXCEPT !.include_nested_translations = TRUE] \in Builders
  BY <1>1 DEF Builders
<1> QED BY <1>2, <1>3, <1>4, <1>5, <1>6, <1>7, <1>8

\* flush() begins: nothing is covered yet.
LEMMA FlushBegins == ASSUME FlushInv, Flush PROVE FlushInv'
<1>1. pc = "building" /\ sent = {} /\ UNCHANGED <<invlpgb_count_max, builder>>
  BY DEF FlushInv, Flush, cpu
<1>2. CASE builder.page_range = NoRange
  <2>1. pc' = "done" /\ \A x \in sent' : x.va = None /\ x.count = 0
    BY <1>1, <1>2 DEF Flush, flush_broadcast
  <2> QED BY <1>1, <1>2, <2>1 DEF FlushInv
<1>3. CASE builder.page_range # NoRange
  <2>1. pages' = builder.page_range /\ pc' = "flushing" /\ sent' = {}
    BY <1>1, <1>3 DEF Flush
  <2>2. PICK s \in FlushSizes : builder.page_range \in RangeOf(s)
    BY <1>3 DEF FlushInv, Builders
  <2>3. /\ builder.page_range.size = s
        /\ builder.page_range.start \in Pages(s) /\ builder.page_range.end \in Pages(s)
    BY <2>2 DEF RangeOf
  <2>4. PICK m \in Nat, e \in Nat :
          m = NumberOf(builder.page_range.start, s) /\ e = NumberOf(builder.page_range.end, s)
    BY <2>3, NumberOfPage
  <2>5. CoveredTo(s, m, m, e)'
    BY <1>1, <2>1, <2>3, <2>4 DEF CoveredTo
  <2>6. Covered'
    BY <1>1, <2>1, <2>3, <2>4, <2>5 DEF Covered
  <2> QED BY <1>1, <1>3, <2>1, <2>6 DEF FlushInv
<1> QED BY <1>2, <1>3

\* One instruction of the loop covers the next pages.
LEMMA LoopCovers == ASSUME FlushInv, FlushLoop, ~RangeEmpty PROVE FlushInv'
<1>1. pc = "flushing" /\ UNCHANGED <<invlpgb_count_max, builder>>
  BY DEF FlushLoop, cpu
<1>2. PICK s \in FlushSizes :
        /\ s = builder.page_range.size /\ s = pages.size
        /\ builder.page_range.start \in Pages(s) /\ builder.page_range.end \in Pages(s)
        /\ pages.start \in Pages(s) /\ pages.end = builder.page_range.end
        /\ builder.page_range # NoRange /\ Covered
  BY <1>1, FlushFields
<1>3. PICK f \in Nat, m \in Nat, e \in Nat, p \in Nat \ {0} :
        /\ f = NumberOf(builder.page_range.start, s) /\ m = NumberOf(pages.start, s)
        /\ e = NumberOf(pages.end, s) /\ p = PerHalf(s)
  BY <1>2, NumberOfPage, SizeDivides
<1>4. PICK c \in Nat, i \in Nat \ {0} : c = CountToFlush /\ i = Increment(c)
  BY <1>1, <1>2, <1>3, CountWithin
<1>5. e < 2 * p /\ c <= invlpgb_count_max /\ m + i <= e /\ (m < p => m + i <= p)
  BY <1>1, <1>2, <1>3, <1>4, CountWithin
<1>6. /\ page_forward_checked(pages.start, i, s) = PageAt(m + i, s)
      /\ PageAt(m + i, s) \in Pages(s) /\ NumberOf(PageAt(m + i, s), s) = m + i
      /\ PageAt(m + i, s) # None
  <2>1. m + i < 2 * p /\ m + i \in 0 .. 2 * PerHalf(s) - 1 /\ i \in Nat
    BY <1>3, <1>5
  <2>2. page_forward_checked(pages.start, i, s) = PageAt(m + i, s)
    BY <1>2, <1>3, <2>1, ForwardIsNumber
  <2>3. PageAt(m + i, s) \in Pages(s) /\ NumberOf(PageAt(m + i, s), s) = m + i
    BY <2>1, PageOfNumber
  <2>4. PageAt(m + i, s) # None
    BY <2>3, WidthAssumption DEF Pages, Canonical, LowerHalf, UpperHalf, None
  <2> QED BY <2>2, <2>3, <2>4
<1>7. /\ flush_broadcast(pages.start, c)
      /\ pages' = [pages EXCEPT !.start = PageAt(m + i, s)] /\ pc' = pc
  BY <1>2, <1>4, <1>6 DEF FlushLoop
<1>8. PICK z : /\ sent' = sent \cup {z}
               /\ z.va = pages.start /\ z.count = c /\ z.size = s
  <2> DEFINE r == [va |-> pages.start, count |-> c, size |-> builder.page_range.size,
                   pcid |-> builder.pcid, asid |-> builder.asid,
                   include_global |-> builder.include_global,
                   final_translation_only |-> builder.final_translation_only,
                   include_nested_translations |-> builder.include_nested_translations]
  <2>1. sent' = sent \cup {r}
    BY <1>7 DEF flush_broadcast
  <2>2. r.va = pages.start /\ r.count = c /\ r.size = s
    BY <1>2
  <2> HIDE DEF r
  <2> QED BY <2>1, <2>2
<1>9. CoveredTo(s, f, m, e)
  BY <1>2, <1>3 DEF Covered
<1>10. NumbersOf(z) = m .. m + i - 1
  BY <1>3, <1>4, <1>8 DEF NumbersOf
<1>11. f <= m /\ m + i > m /\ f <= m + i
  BY <1>9 DEF CoveredTo
<1>12. Request(z, s, f, m + i)
  BY <1>2, <1>3, <1>4, <1>5, <1>8, <1>11 DEF Request
<1>13. ASSUME NEW x \in sent
       PROVE  /\ Request(x, s, f, m + i)
              /\ NumbersOf(x) \cap NumbersOf(z) = {}
  <2>1. Request(x, s, f, m)
    BY <1>9 DEF CoveredTo
  <2>2. PICK k \in Nat, d \in Nat : k = NumberOf(x.va, s) /\ d = Increment(x.count)
    BY <2>1, NumberOfPage DEF Request, Increment
  <2>3. k + d <= m /\ NumbersOf(x) = k .. k + d - 1
    BY <2>1, <2>2 DEF Request, NumbersOf
  <2>4. Request(x, s, f, m + i)
    BY <1>11, <2>1, <2>2, <2>3 DEF Request
  <2> QED BY <1>10, <2>3, <2>4
<1>14. pages'.start = PageAt(m + i, s) /\ pages'.size = s /\ pages'.end = pages.end
  BY <1>2, <1>7, <1>9 DEF FlushInv, CoveredTo
<1>15. CoveredTo(s, f, m + i, e)'
  <2>1. \A x \in sent' : Request(x, s, f, m + i)'
    BY <1>1, <1>8, <1>12, <1>13 DEF Request
  <2>2. ASSUME NEW n \in f .. m + i - 1 PROVE \E x \in sent' : n \in NumbersOf(x)
    <3>1. CASE n < m
      BY <1>8, <1>9, <3>1 DEF CoveredTo
    <3>2. CASE n >= m
      BY <1>8, <1>10, <3>2
    <3> QED BY <3>1, <3>2
  <2>3. ASSUME NEW x \in sent', NEW y \in sent'
        PROVE  x = y \/ NumbersOf(x) \cap NumbersOf(y) = {}
    BY <1>8, <1>9, <1>13 DEF CoveredTo
  <2>4. f <= m + i /\ (f <= e => m + i <= e) /\ (f > e => m + i = f)
    BY <1>5, <1>11
  <2>5. pages'.size = s /\ pages'.end = builder'.page_range.end
    BY <1>1, <1>2, <1>14
  <2> QED BY <2>1, <2>2, <2>3, <2>4, <2>5 DEF CoveredTo
<1>16. Covered'
  BY <1>1, <1>2, <1>3, <1>6, <1>7, <1>14, <1>15 DEF Covered
<1>17. builder'.page_range # NoRange /\ pc' = "flushing"
  BY <1>1, <1>2, <1>7
<1> QED BY <1>1, <1>16, <1>17 DEF FlushInv

LEMMA NextFlush == FlushInv /\ [FlushNext]_flushVars => FlushInv'
<1> SUFFICES ASSUME FlushInv, [FlushNext]_flushVars PROVE FlushInv'
  OBVIOUS
<1>1. CASE SetPages
  BY <1>1, BuilderUpdates, BuildFlush DEF SetPages
<1>2. CASE SetPcid
  BY <1>2, BuilderUpdates, BuildFlush DEF SetPcid
<1>3. CASE SetAsid
  BY <1>3, BuilderUpdates, BuildFlush DEF SetAsid
<1>4. CASE IncludeGlobal
  BY <1>4, BuilderUpdates, BuildFlush DEF IncludeGlobal
<1>5. CASE FinalTranslationOnly
  BY <1>5, BuilderUpdates, BuildFlush DEF FinalTranslationOnly
<1>6. CASE IncludeNested
  <2>1. CASE Build([builder EXCEPT !.include_nested_translations = TRUE])
    BY <2>1, BuilderUpdates, BuildFlush
  <2>2. CASE pc = "building" /\ pc' = "panicked" /\ UNCHANGED <<cpu, builder, pages, sent>>
    BY <2>2 DEF FlushInv, cpu
  <2> QED BY <1>6, <2>1, <2>2 DEF IncludeNested
<1>7. CASE Flush
  BY <1>7, FlushBegins
<1>8. CASE FlushLoop
  <2>1. CASE RangeEmpty
    <3>1. pc = "flushing" /\ pc' = "done"
          /\ UNCHANGED <<invlpgb_count_max, builder, pages, sent>>
      BY <1>8, <2>1 DEF FlushLoop, cpu
    <3>2. Covered'
      BY <2>1, <3>1 DEF FlushInv, Covered, CoveredTo, Request, RangeEmpty
    <3> QED BY <3>1, <3>2 DEF FlushInv
  <2> QED BY <1>8, <2>1, LoopCovers
<1>9. CASE UNCHANGED flushVars
  BY <1>9 DEF flushVars, FlushInv, Covered, CoveredTo, Request, RangeEmpty
<1> QED BY <1>1, <1>2, <1>3, <1>4, <1>5, <1>6, <1>7, <1>8, <1>9 DEF FlushNext, FlushFinished

\* Whatever the builder was given, flush() keeps its invariant.
THEOREM FlushInvariant == FlushSpec => []FlushInv
<1> QED BY InitFlush, NextFlush, PTL DEF FlushSpec

(***************************************************************************)
(* The properties.                                                         *)
(***************************************************************************)
\* What an instruction flushes are the pages of its numbers.
LEMMA FlushedNumbers ==
  ASSUME NEW x PROVE Flushed(x) = {PageAt(n, x.size) : n \in NumbersOf(x)}
BY DEF Flushed, NumbersOf, Increment

\* An instruction of the flush flushes pages of the range, by number.
LEMMA RequestFlushes ==
  ASSUME NEW s \in FlushSizes, NEW lo \in Nat, NEW hi \in Nat, hi <= 2 * PerHalf(s),
         NEW x, Request(x, s, lo, hi), NEW a \in Flushed(x)
  PROVE  /\ a \in Pages(s) /\ NumberOf(a, s) \in NumbersOf(x)
         /\ lo <= NumberOf(a, s) /\ NumberOf(a, s) < hi
         /\ NumberOf(x.va, s) < PerHalf(s) <=> NumberOf(a, s) < PerHalf(s)
<1>1. PICK n \in NumbersOf(x) : a = PageAt(n, s)
  BY FlushedNumbers DEF Request
<1>2. PICK k \in Nat, d \in Nat, p \in Nat \ {0} :
        k = NumberOf(x.va, s) /\ d = Increment(x.count) /\ p = PerHalf(s)
  BY NumberOfPage, SizeDivides DEF Request, Increment
<1>3. NumbersOf(x) = k .. k + d - 1 /\ lo <= k /\ k + d <= hi /\ (k < p => k + d <= p)
  BY <1>2 DEF Request, NumbersOf
<1>4. n \in k .. k + d - 1
  BY <1>1, <1>3
<1>5. n \in Nat /\ k <= n /\ n < k + d
  BY <1>4
<1>6. lo <= n /\ n < hi
  BY <1>3, <1>5
<1>7. k < p <=> n < p
  BY <1>3, <1>5
<1>8. n \in 0 .. 2 * PerHalf(s) - 1
  BY <1>2, <1>5, <1>6
<1>9. a \in Pages(s) /\ NumberOf(a, s) = n
  BY <1>1, <1>8, PageOfNumber
<1> QED BY <1>1, <1>2, <1>6, <1>7, <1>9

\* The range of a flush, its parts by number.
LEMMA CoveredFields ==
  ASSUME FlushInv, builder.page_range # NoRange, pc \in {"flushing", "done"}
  PROVE  \E s \in FlushSizes : \E f, m, e \in Nat :
           /\ s = builder.page_range.size
           /\ builder.page_range.start \in Pages(s) /\ builder.page_range.end \in Pages(s)
           /\ pages.start \in Pages(s) /\ pages.end = builder.page_range.end
           /\ f = NumberOf(builder.page_range.start, s)
           /\ m = NumberOf(pages.start, s) /\ m < 2 * PerHalf(s)
           /\ e = NumberOf(builder.page_range.end, s)
           /\ CoveredTo(s, f, m, e)
           /\ pc = "done" => RangeEmpty
<1>1. Covered
  BY DEF FlushInv
<1>2. PICK s \in FlushSizes : builder.page_range \in RangeOf(s)
  BY DEF FlushInv, Builders
<1>3. /\ s = builder.page_range.size
      /\ builder.page_range.start \in Pages(s) /\ builder.page_range.end \in Pages(s)
      /\ pages.start \in Pages(s)
  BY <1>1, <1>2 DEF RangeOf, Covered
<1>4. PerHalf(s) \in Nat
  BY SizeDivides
<1>5. PICK f \in Nat, m \in Nat, e \in Nat :
           /\ f = NumberOf(builder.page_range.start, s)
           /\ m = NumberOf(pages.start, s) /\ m < 2 * PerHalf(s)
           /\ e = NumberOf(builder.page_range.end, s)
  BY <1>3, <1>4, NumberOfPage
<1>6. CoveredTo(s, f, m, e) /\ (pc = "done" => RangeEmpty)
  BY <1>1, <1>3, <1>5 DEF Covered
<1>7. pages.end = builder.page_range.end
  BY <1>6 DEF CoveredTo
<1> QED BY <1>3, <1>5, <1>6, <1>7

LEMMA FlushesRange == FlushInv => FlushesExactlyRange
<1> SUFFICES ASSUME FlushInv, builder.page_range # NoRange, pc \in {"flushing", "done"}
             PROVE  /\ UNION {Flushed(x) : x \in sent} \subseteq FlushRange
                    /\ pc = "done" => FlushRange \subseteq UNION {Flushed(x) : x \in sent}
  BY DEF FlushesExactlyRange
<1>1. PICK s \in FlushSizes : \E f, m, e \in Nat :
           /\ s = builder.page_range.size
           /\ builder.page_range.start \in Pages(s) /\ builder.page_range.end \in Pages(s)
           /\ pages.start \in Pages(s) /\ pages.end = builder.page_range.end
           /\ f = NumberOf(builder.page_range.start, s)
           /\ m = NumberOf(pages.start, s) /\ m < 2 * PerHalf(s)
           /\ e = NumberOf(builder.page_range.end, s)
           /\ CoveredTo(s, f, m, e)
           /\ pc = "done" => RangeEmpty
  BY CoveredFields
<1>2. PICK f \in Nat, m \in Nat, e \in Nat :
           /\ s = builder.page_range.size
           /\ builder.page_range.start \in Pages(s) /\ builder.page_range.end \in Pages(s)
           /\ pages.start \in Pages(s) /\ pages.end = builder.page_range.end
           /\ f = NumberOf(builder.page_range.start, s)
           /\ m = NumberOf(pages.start, s) /\ m < 2 * PerHalf(s)
           /\ e = NumberOf(builder.page_range.end, s)
           /\ CoveredTo(s, f, m, e)
           /\ pc = "done" => RangeEmpty
  BY <1>1
<1>3. f <= m /\ (f <= e => m <= e) /\ (f > e => m = f) /\ m <= 2 * PerHalf(s)
  BY <1>2, SizeDivides DEF CoveredTo
<1>4. ASSUME NEW a \in Pages(s)
      PROVE  a \in FlushRange <=> f <= NumberOf(a, s) /\ NumberOf(a, s) < e
  <2>1. NumberOf(a, s) \in Nat /\ a \in Int
    BY NumberOfPage, WidthAssumption DEF Pages, Canonical, LowerHalf, UpperHalf
  <2>2. builder.page_range.start \in Int /\ builder.page_range.end \in Int
    BY <1>2, WidthAssumption DEF Pages, Canonical, LowerHalf, UpperHalf
  <2>3. a < builder.page_range.end <=> NumberOf(a, s) < e
    BY <1>2, NumberOrder
  <2>4. a < builder.page_range.start <=> NumberOf(a, s) < f
    BY <1>2, NumberOrder
  <2> QED BY <1>2, <2>1, <2>2, <2>3, <2>4 DEF FlushRange
<1>5. ASSUME NEW x \in sent, NEW a \in Flushed(x) PROVE a \in FlushRange
  <2>1. Request(x, s, f, m)
    BY <1>2 DEF CoveredTo
  <2>2. a \in Pages(s) /\ f <= NumberOf(a, s) /\ NumberOf(a, s) < m
    BY <1>3, <1>5, <2>1, RequestFlushes
  <2>3. NumberOf(a, s) \in Nat
    BY <2>2, NumberOfPage
  <2> QED BY <1>3, <1>4, <2>2, <2>3
<1>6. ASSUME pc = "done", NEW a \in FlushRange PROVE \E x \in sent : a \in Flushed(x)
  <2>1. a \in Pages(s)
    BY <1>2 DEF FlushRange
  <2>2. PICK n \in Nat : n = NumberOf(a, s) /\ PageAt(n, s) = a
    BY <2>1, NumberOfPage
  <2>3. f <= n /\ n < e
    BY <1>4, <2>1, <2>2
  <2>4. ~(m < e)
    <3>1. pages.start >= pages.end
      BY <1>2, <1>6 DEF RangeEmpty
    <3>2. ~(pages.start < pages.end)
      BY <1>2, <3>1, WidthAssumption DEF Pages, Canonical, LowerHalf, UpperHalf
    <3> QED BY <1>2, <3>2, NumberOrder
  <2>5. n \in f .. m - 1
    BY <2>3, <2>4
  <2>6. PICK x \in sent : n \in NumbersOf(x)
    BY <1>2, <2>5 DEF CoveredTo
  <2>7. x.size = s
    BY <1>2 DEF CoveredTo, Request
  <2>8. a \in Flushed(x)
    BY <2>2, <2>6, <2>7, FlushedNumbers
  <2> QED BY <2>8
<1> QED BY <1>5, <1>6

\* flush() covers exactly the pages of the range, whatever the limits of the processor
\* and across the gap.
THEOREM FlushCorrect == FlushSpec => []FlushesExactlyRange
<1> QED BY FlushInvariant, FlushesRange, PTL

LEMMA WithinLimits == FlushInv => RequestsWithinLimits
<1> SUFFICES ASSUME FlushInv PROVE RequestsWithinLimits
  OBVIOUS
<1>1. CASE sent = {}
  BY <1>1 DEF RequestsWithinLimits
<1>2. CASE builder.page_range = NoRange
  <2>1. \A x \in sent : x.va = None /\ x.count = 0
    BY <1>2 DEF FlushInv
  <2>2. \A x \in sent : x.count <= invlpgb_count_max
    BY <2>1 DEF FlushInv
  <2> QED BY <2>1, <2>2 DEF RequestsWithinLimits
<1>3. CASE builder.page_range # NoRange /\ pc \in {"flushing", "done"}
  <2>1. PICK s \in FlushSizes, f \in Nat, m \in Nat, e \in Nat :
           CoveredTo(s, f, m, e) /\ m <= 2 * PerHalf(s)
    <3>1. PICK s \in FlushSizes : \E f, m, e \in Nat :
             CoveredTo(s, f, m, e) /\ m < 2 * PerHalf(s)
      BY <1>3, CoveredFields
    <3>2. PerHalf(s) \in Nat
      BY SizeDivides
    <3> QED BY <3>1, <3>2
  <2>2. \A x \in sent : Request(x, s, f, m)
    BY <2>1 DEF CoveredTo
  <2>3. \A x \in sent : x.count <= invlpgb_count_max
    BY <2>2 DEF Request
  <2>4. ASSUME NEW x \in sent
        PROVE  Flushed(x) \subseteq LowerHalf \/ Flushed(x) \subseteq UpperHalf
    <3>1. ASSUME NEW a \in Flushed(x)
          PROVE  /\ a \in Canonical
                 /\ NumberOf(x.va, s) < PerHalf(s) <=> a < HALF
      <4>1. /\ a \in Pages(s)
            /\ NumberOf(x.va, s) < PerHalf(s) <=> NumberOf(a, s) < PerHalf(s)
        BY <2>1, <2>2, <3>1, RequestFlushes
      <4>2. a < HALF <=> NumberOf(a, s) < PerHalf(s)
        BY <4>1, NumberOfPage
      <4> QED BY <4>1, <4>2 DEF Pages
    <3>2. CASE NumberOf(x.va, s) < PerHalf(s)
      BY <3>1, <3>2, WidthAssumption DEF Canonical, LowerHalf, UpperHalf
    <3>3. CASE ~(NumberOf(x.va, s) < PerHalf(s))
      BY <3>1, <3>3, WidthAssumption DEF Canonical, LowerHalf, UpperHalf
    <3> QED BY <3>2, <3>3
  <2>5. ASSUME NEW x \in sent, NEW y \in sent, Flushed(x) \cap Flushed(y) # {} PROVE x = y
    <3>1. PICK a : a \in Flushed(x) /\ a \in Flushed(y)
      BY <2>5
    <3>2. NumberOf(a, s) \in NumbersOf(x) /\ NumberOf(a, s) \in NumbersOf(y)
      BY <2>1, <2>2, <3>1, RequestFlushes
    <3>3. x = y \/ NumbersOf(x) \cap NumbersOf(y) = {}
      BY <2>1 DEF CoveredTo
    <3> QED BY <3>2, <3>3
  <2> QED BY <2>3, <2>4, <2>5 DEF RequestsWithinLimits
<1> QED BY <1>1, <1>2, <1>3 DEF FlushInv

\* No instruction asks for more pages than the processor supports, none names pages of
\* both halves, and no page is flushed by two of them.
THEOREM LimitsCorrect == FlushSpec => []RequestsWithinLimits
<1> QED BY FlushInvariant, WithinLimits, PTL

\* The step of the loop that never happens: to unwrap the next page where there is none.
FlushRunsOn == pc = "flushing" => pc' # "panicked"

\* Once it runs, flush() never panics: the next page exists whenever the range is not
\* empty, up to the last page of all.
THEOREM FlushNeverPanics == FlushSpec => [][FlushRunsOn]_flushVars
<1>1. FlushInv /\ FlushInv' /\ [FlushNext]_flushVars => [FlushRunsOn]_flushVars
  <2> SUFFICES ASSUME FlushInv', FlushNext, pc = "flushing", pc' = "panicked" PROVE FALSE
    BY DEF FlushRunsOn
  <2>1. FlushLoop
    BY DEF FlushNext, SetPages, SetPcid, SetAsid, IncludeGlobal, FinalTranslationOnly,
       IncludeNested, Build, Flush, FlushFinished
  <2>2. flush_broadcast(pages.start, CountToFlush)
    BY <2>1 DEF FlushLoop
  <2>3. sent' = {}
    BY DEF FlushInv
  <2> QED BY <2>2, <2>3 DEF flush_broadcast
<1> QED BY <1>1, FlushInvariant, PTL DEF FlushSpec
=============================================================================
