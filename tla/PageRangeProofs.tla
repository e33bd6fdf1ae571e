-------------------------- MODULE PageRangeProofs ---------------------------
(***************************************************************************)
(* Proofs about the range iterators, for every width of words and          *)
(* addresses, every size of pages that divides a half and the physical     *)
(* memory, and every range.                                                *)
(***************************************************************************)
EXTENDS PageRange, FunctionTheorems, FiniteSetTheorems, TLAPS

(***************************************************************************)
(* Multiples of a size.                                                    *)
(***************************************************************************)
LEMMA DivMod ==
  ASSUME NEW n \in Nat \ {0}, NEW q \in Int, NEW r \in 0 .. n - 1
  PROVE  (q * n + r) % n = r /\ (q * n + r) \div n = q
<1>1. (q * n + r) % n = r
  OBVIOUS
<1>2. (q * n + r) \div n = q
  OBVIOUS
<1> QED BY <1>1, <1>2

LEMMA Euclid ==
  ASSUME NEW n \in Nat \ {0}, NEW x \in Int
  PROVE  \E q \in Int, r \in 0 .. n - 1 : x = q * n + r /\ x % n = r /\ x \div n = q
<1>1. PICK q \in Int : q = x \div n
  OBVIOUS
<1>2. n * q <= x /\ x < n * (q + 1)
  <2>1. n \in Int /\ n > 0
    OBVIOUS
  <2>2. n * (x \div n) <= x
    BY <2>1
  <2>3. x < n * (x \div n + 1)
    BY <2>1
  <2> QED BY <1>1, <2>2, <2>3
<1>3. PICK r \in 0 .. n - 1 : x = q * n + r
  <2>1. x - q * n \in 0 .. n - 1 /\ x = q * n + (x - q * n)
    BY <1>2
  <2> QED BY <2>1
<1>4. (q * n + r) % n = r
  BY DivMod
<1> QED BY <1>1, <1>3, <1>4

LEMMA MultipleOf ==
  ASSUME NEW n \in Nat \ {0}, NEW x \in Int
  PROVE  x % n = 0 <=> \E q \in Int : x = q * n
<1>1. ASSUME x % n = 0 PROVE \E q \in Int : x = q * n
  <2>1. PICK q \in Int, r \in 0 .. n - 1 : x = q * n + r /\ x % n = r
    BY Euclid
  <2>2. x = q * n
    BY <1>1, <2>1
  <2> QED BY <2>2
<1>2. ASSUME NEW q \in Int, x = q * n PROVE x % n = 0
  <2>1. (q * n + 0) % n = 0
    BY DivMod
  <2>2. q * n + 0 = x
    BY <1>2
  <2> QED BY <2>1, <2>2
<1> QED BY <1>1, <1>2

LEMMA MultipleSum ==
  ASSUME NEW n \in Nat \ {0}, NEW x \in Int, NEW y \in Int, x % n = 0, y % n = 0
  PROVE  (x + y) % n = 0 /\ (x - y) % n = 0
<1>1. PICK p \in Int : x = p * n
  BY MultipleOf
<1>2. PICK q \in Int : y = q * n
  BY MultipleOf
<1>3. x + y = (p + q) * n /\ x - y = (p - q) * n /\ p + q \in Int /\ p - q \in Int
  BY <1>1, <1>2
<1>4. x + y \in Int /\ x - y \in Int
  OBVIOUS
<1>5. (x + y) % n = 0
  BY <1>3, <1>4, MultipleOf
<1>6. (x - y) % n = 0
  BY <1>3, <1>4, MultipleOf
<1> QED BY <1>5, <1>6

LEMMA NextMultiple ==
  ASSUME NEW n \in Nat \ {0}, NEW x \in Int, NEW y \in Int, x % n = 0, y % n = 0, x < y
  PROVE  x + n <= y
<1>1. (y - x) % n = 0 /\ y - x \in Int
  <2>1. (y + x) % n = 0 /\ (y - x) % n = 0
    BY MultipleSum
  <2> QED BY <2>1
<1>2. PICK q \in Int : y - x = q * n
  BY <1>1, MultipleOf
<1>3. q >= 1
  <2>1. q * n > 0 /\ n > 0
    BY <1>2
  <2>2. ~(q <= 0)
    <3> SUFFICES ASSUME q <= 0 PROVE FALSE
      OBVIOUS
    <3>1. q * n <= 0
      BY <2>1
    <3> QED BY <2>1, <3>1
  <2> QED BY <2>2
<1>4. q * n >= n
  BY <1>3
<1> QED BY <1>2, <1>4

LEMMA AlignDownIsMultiple ==
  ASSUME NEW n \in Nat \ {0}, NEW x \in Int
  PROVE  /\ align_down(x, n) \in Int /\ align_down(x, n) % n = 0
         /\ align_down(x, n) <= x /\ x < align_down(x, n) + n
         /\ x % n = 0 => align_down(x, n) = x
<1>1. PICK q \in Int, r \in 0 .. n - 1 : x = q * n + r /\ x % n = r
  BY Euclid
<1>2. align_down(x, n) = q * n
  BY <1>1 DEF align_down
<1>3. (q * n) % n = 0
  BY MultipleOf
<1> QED BY <1>1, <1>2, <1>3

\* The other boundaries of the address space are multiples of a size too.
LEMMA SizeDivides ==
  ASSUME NEW s \in Sizes
  PROVE  /\ s \in Nat \ {0} /\ 2 * s <= HALF /\ s <= PHYS
         /\ HALF % s = 0 /\ PHYS % s = 0 /\ U64 % s = 0 /\ (U64 - HALF) % s = 0
<1>1. s \in Nat \ {0} /\ s \in Int /\ HALF % s = 0 /\ s < HALF /\ PHYS % s = 0
  BY RangeAssumption, WidthAssumption DEF Word
<1>2. HALF \in Int /\ U64 \in Int /\ PHYS \in Int /\ PHYS > 0
  BY WidthAssumption
<1>3. PICK u \in Int, h \in Int : u = U64 /\ h = HALF /\ h % s = 0
  BY <1>1, <1>2
<1>4. PICK d \in Nat \ {0} : d = 2 * h /\ u % d = 0
  BY <1>3, WidthAssumption
<1>5. PICK q \in Int : u = q * d
  BY <1>4, MultipleOf
<1>6. PICK p \in Int : h = p * s
  BY <1>1, <1>3, MultipleOf
<1>7. u = (2 * q * p) * s /\ 2 * q * p \in Int
  BY <1>1, <1>4, <1>5, <1>6
<1>8. u % s = 0
  BY <1>1, <1>7, MultipleOf
<1>9. (u - h) % s = 0
  BY <1>1, <1>3, <1>8, MultipleSum
<1>10. 0 % s = 0 /\ s % s = 0
  <2>1. 0 = 0 * s /\ s = 1 * s
    BY <1>1
  <2> QED BY <1>1, <2>1, MultipleOf
<1>11. s + s <= h
  BY <1>1, <1>3, <1>10, NextMultiple
<1>12. 0 + s <= PHYS
  BY <1>1, <1>2, <1>10, NextMultiple
<1> QED BY <1>1, <1>2, <1>3, <1>8, <1>9, <1>11, <1>12

\* new_truncate answers a canonical address, a canonical one itself.
LEMMA TruncateIsCanonical ==
  ASSUME NEW w \in Word
  PROVE  new_truncate(w) \in Canonical
<1> DEFINE low48 == w % (2 * HALF)
<1>1. low48 \in 0 .. 2 * HALF - 1
  BY WidthAssumption DEF Word
<1> HIDE DEF low48
<1>2. new_truncate(w) = IF low48 < HALF THEN low48 ELSE low48 + (U64 - 2 * HALF)
  BY DEF new_truncate, low48
<1> QED BY <1>1, <1>2, WidthAssumption DEF Canonical, LowerHalf, UpperHalf

LEMMA TruncateFixes ==
  \A a \in Canonical : new_truncate(a) = a
<1>1. PICK n \in Nat \ {0}, u \in Int : n = 2 * HALF /\ u = U64 /\ u % n = 0
  BY WidthAssumption
<1>2. PICK k \in Int : u = k * n
  BY <1>1, MultipleOf
<1>3. ASSUME NEW r \in 0 .. n - 1 PROVE r % n = r /\ (r + (u - n)) % n = r
  <2>1. (0 * n + r) % n = r
    BY DivMod
  <2>2. ((k - 1) * n + r) % n = r
    <3>1. k - 1 \in Int
      OBVIOUS
    <3> QED BY <3>1, DivMod
  <2>3. 0 * n + r = r /\ (k - 1) * n + r = r + (u - n)
    BY <1>1, <1>2
  <2> QED BY <2>1, <2>2, <2>3
<1>4. ASSUME NEW a \in LowerHalf PROVE new_truncate(a) = a
  <2>1. a \in 0 .. n - 1 /\ a < HALF
    BY <1>1, WidthAssumption DEF LowerHalf
  <2>2. a % n = a
    BY <1>3, <2>1
  <2> QED BY <1>1, <2>1, <2>2 DEF new_truncate
<1>5. ASSUME NEW a \in UpperHalf PROVE new_truncate(a) = a
  <2>1. PICK r \in 0 .. n - 1 : r = a - (u - n) /\ ~(r < HALF) /\ a = r + (u - n)
    <3>1. a - (u - n) \in 0 .. n - 1 /\ ~(a - (u - n) < HALF)
      BY <1>1, WidthAssumption DEF UpperHalf
    <3> QED BY <1>1, <3>1, WidthAssumption DEF UpperHalf
  <2>2. a % n = r
    BY <1>3, <2>1
  <2> QED BY <1>1, <2>1, <2>2 DEF new_truncate
<1> QED BY <1>4, <1>5 DEF Canonical

\* try_new and containing_address leave the start of a page alone.
LEMMA PageFixed ==
  ASSUME NEW s \in Sizes, NEW w \in Pages(s)
  PROVE  containing_address(try_new(w), s) = w /\ w # None
<1>1. w \in Canonical /\ w \in Int /\ w >= 0 /\ w % s = 0 /\ s \in Nat \ {0}
  BY SizeDivides, WidthAssumption DEF Pages, Canonical, LowerHalf, UpperHalf
<1>2. try_new(w) = w /\ w # None
  BY <1>1, TruncateFixes DEF try_new, None
<1>3. align_down(w, s) = w
  BY <1>1, AlignDownIsMultiple
<1> QED BY <1>1, <1>2, <1>3, TruncateFixes DEF containing_address, virt_align_down

\* page + 1: the page after, except at the last page of a half.
LEMMA PageNext ==
  ASSUME NEW s \in Sizes, NEW a \in Pages(s)
  PROVE  /\ a = HALF - s => page_next(a, s) = None
         /\ a = U64 - s => page_next(a, s) = None
         /\ a # HALF - s /\ a # U64 - s =>
              /\ page_next(a, s) = a + s
              /\ a + s \in Pages(s)
              /\ a < HALF <=> a + s < HALF
<1>1. s \in Nat \ {0} /\ HALF % s = 0 /\ U64 % s = 0 /\ 2 * s <= HALF
  BY SizeDivides
<1>2. a \in Int /\ a % s = 0 /\ a \in Canonical /\ a >= 0
  BY WidthAssumption DEF Pages, Canonical, LowerHalf, UpperHalf
<1>3. s % s = 0 /\ (a + s) % s = 0 /\ a + s \in Int
  <2>1. s = 1 * s /\ s \in Int
    BY <1>1
  <2>2. s % s = 0
    BY <1>1, <2>1, MultipleOf
  <2> QED BY <1>1, <1>2, <2>1, <2>2, MultipleSum
<1>4. page_next(a, s) = containing_address(try_new(checked_add(a, s)), s)
  BY DEF page_next, add
<1>5. CASE a = HALF - s
  <2>1. checked_add(a, s) = HALF /\ HALF # None /\ HALF \in Word /\ HALF \notin Canonical
    BY <1>1, <1>5, WidthAssumption
    DEF checked_add, None, Canonical, LowerHalf, UpperHalf, Word
  <2>2. try_new(HALF) = None
    BY <2>1, TruncateIsCanonical DEF try_new
  <2> QED BY <1>1, <1>4, <1>5, <2>1, <2>2, WidthAssumption DEF containing_address
<1>6. CASE a = U64 - s
  <2>1. checked_add(a, s) = None
    BY <1>1, <1>6, WidthAssumption DEF checked_add, None
  <2>2. try_new(None) = None
    BY DEF try_new
  <2> QED BY <1>1, <1>4, <1>6, <2>1, <2>2, WidthAssumption DEF containing_address
<1>7. CASE a # HALF - s /\ a # U64 - s
  <2>1. CASE a < HALF
    <3>1. a + s <= HALF
      <4>1. PICK h \in Int : h = HALF /\ h % s = 0 /\ a < h
        BY <1>1, <2>1, WidthAssumption
      <4>2. a + s <= h
        BY <1>1, <1>2, <4>1, NextMultiple
      <4> QED BY <4>1, <4>2
    <3> QED BY <1>1, <1>2, <1>3, <1>7, <2>1, <3>1, PageFixed, WidthAssumption
        DEF Canonical, LowerHalf, Pages, page_next, add, checked_add, None
  <2>2. CASE a >= HALF
    <3>1. a >= U64 - HALF /\ a < U64
      BY <1>2, <2>2, WidthAssumption DEF Canonical, LowerHalf, UpperHalf
    <3>2. a + s <= U64
      <4>1. PICK u \in Int : u = U64 /\ u % s = 0 /\ a < u
        BY <1>1, <3>1, WidthAssumption
      <4>2. a + s <= u
        BY <1>1, <1>2, <4>1, NextMultiple
      <4> QED BY <4>1, <4>2
    <3> QED BY <1>1, <1>2, <1>3, <1>7, <2>2, <3>1, <3>2, PageFixed, WidthAssumption
        DEF Canonical, UpperHalf, Pages, page_next, add, checked_add, None
  <2> QED BY <1>2, <2>1, <2>2, WidthAssumption
<1> QED BY <1>5, <1>6, <1>7

\* page - 1 at the last page of all is the page before.
LEMMA PagePrev ==
  ASSUME NEW s \in Sizes
  PROVE  page_prev(U64 - s, s) = U64 - s - s /\ U64 - s - s \in Pages(s)
<1>1. s \in Nat \ {0} /\ U64 % s = 0 /\ 2 * s <= HALF
  BY SizeDivides
<1>2. s % s = 0 /\ U64 \in Int /\ s \in Int
  <2>1. s = 1 * s /\ s \in Int
    BY <1>1
  <2> QED BY <1>1, <2>1, MultipleOf, WidthAssumption
<1>3. (U64 - s) % s = 0 /\ U64 - s \in Int
  BY <1>1, <1>2, MultipleSum
<1>4. (U64 - s - s) % s = 0
  BY <1>1, <1>2, <1>3, MultipleSum
<1>5. U64 - s - s \in Pages(s)
  BY <1>1, <1>4, WidthAssumption DEF Pages, Canonical, UpperHalf
<1>6. checked_sub(U64 - s, s) = U64 - s - s /\ U64 - s - s # None
  BY <1>1, WidthAssumption DEF checked_sub, None
<1> QED BY <1>5, <1>6, PageFixed DEF page_prev, sub

\* frame + 1: the frame after, except at the last frame.
LEMMA FrameNext ==
  ASSUME NEW s \in Sizes, NEW a \in Frames(s)
  PROVE  /\ a = PHYS - s => frame_next(a, s) = None
         /\ a # PHYS - s => frame_next(a, s) = a + s /\ a + s \in Frames(s)
<1>1. s \in Nat \ {0} /\ s \in Int /\ PHYS % s = 0 /\ s <= PHYS /\ PHYS \in Nat \ {0}
  BY SizeDivides, WidthAssumption
<1>2. a \in Int /\ a % s = 0 /\ a >= 0 /\ a < PHYS
  BY <1>1 DEF Frames, Physical
<1>3. s % s = 0 /\ (a + s) % s = 0 /\ a + s \in Int
  <2>1. s = 1 * s
    BY <1>1
  <2>2. s % s = 0
    BY <1>1, <2>1, MultipleOf
  <2> QED BY <1>1, <1>2, <2>2, MultipleSum
<1>4. CASE a = PHYS - s
  <2>1. PHYS % PHYS = 0
    <3>1. PHYS = 1 * PHYS
      BY <1>1
    <3> QED BY <1>1, <3>1, MultipleOf
  <2>2. checked_add(a, s) \in {PHYS, None}
    BY <1>1, <1>4 DEF checked_add
  <2>3. phys_try_new(PHYS) = None /\ phys_try_new(None) = None
    BY <1>1, <2>1 DEF phys_try_new
  <2> QED BY <1>1, <1>4, <2>2, <2>3 DEF frame_next, phys_add, phys_containing_address
<1>5. CASE a # PHYS - s
  <2>1. a + s <= PHYS
    <3>1. PICK p \in Int : p = PHYS /\ p % s = 0 /\ a < p
      BY <1>1, <1>2
    <3>2. a + s <= p
      BY <1>1, <1>2, <3>1, NextMultiple
    <3> QED BY <3>1, <3>2
  <2>2. PICK n \in Nat \ {0}, r \in Int : n = PHYS /\ r = a + s /\ r \in 0 .. n - 1
    BY <1>1, <1>2, <1>5, <2>1
  <2>3. r % n = r
    <3>1. 0 \in Int /\ r \in 0 .. n - 1
      BY <2>2
    <3>2. (0 * n + r) % n = r
      BY <3>1, DivMod
    <3> QED BY <3>2
  <2>4. checked_add(a, s) = a + s /\ a + s # None
    BY <1>1, <1>2, <2>2, WidthAssumption DEF checked_add, None
  <2>5. phys_try_new(a + s) = a + s
    BY <2>2, <2>3, <2>4 DEF phys_try_new
  <2>6. align_down(a + s, s) = a + s
    BY <1>1, <1>3, AlignDownIsMultiple
  <2>7. a + s \in Frames(s)
    BY <1>2, <1>3, <2>2 DEF Frames, Physical
  <2> QED BY <1>5, <2>4, <2>5, <2>6, <2>7 DEF frame_next, phys_add, phys_containing_address
<1> QED BY <1>4, <1>5

(***************************************************************************)
(* The k-th item from g on.                                                *)
(***************************************************************************)
Item(g, k, s) == g + (k - 1) * s

LEMMA ItemType ==
  ASSUME NEW g \in Int, NEW s \in Nat \ {0}, NEW k \in Int
  PROVE  /\ Item(g, k, s) \in Int
         /\ Item(g, 1, s) = g
         /\ Item(g, k + 1, s) = Item(g, k, s) + s
BY DEF Item

LEMMA ItemOrder ==
  ASSUME NEW g \in Int, NEW s \in Nat \ {0}, NEW j \in Int, NEW k \in Int
  PROVE  /\ j < k => Item(g, j, s) + s <= Item(g, k, s)
         /\ j <= k => Item(g, j, s) <= Item(g, k, s)
<1>1. ASSUME j < k PROVE Item(g, j, s) + s <= Item(g, k, s)
  <2>1. PICK d \in Nat : k = j + 1 + d
    <3>1. k - j - 1 \in Nat /\ k = j + 1 + (k - j - 1)
      BY <1>1
    <3> QED BY <3>1
  <2>2. d * s >= 0
    OBVIOUS
  <2>3. (k - 1) * s = (j - 1) * s + s + d * s
    BY <2>1
  <2> QED BY <2>2, <2>3 DEF Item
<1>2. ASSUME j = k PROVE Item(g, j, s) <= Item(g, k, s)
  BY <1>2 DEF Item
<1>3. Item(g, j, s) \in Int /\ Item(g, k, s) \in Int
  BY ItemType
<1>4. ASSUME j <= k PROVE Item(g, j, s) <= Item(g, k, s)
  <2>1. CASE j = k
    BY <1>2, <2>1
  <2>2. CASE j < k
    BY <1>1, <1>3, <2>2
  <2> QED BY <1>4, <2>1, <2>2
<1> QED BY <1>1, <1>4

LEMMA ItemFound ==
  ASSUME NEW g \in Int, NEW s \in Nat \ {0}, g % s = 0
  PROVE  /\ \A k \in Int : Item(g, k, s) % s = 0
         /\ \A a \in Int : a % s = 0 => \E k \in Int : a = Item(g, k, s)
<1>1. ASSUME NEW k \in Int PROVE Item(g, k, s) % s = 0
  <2>1. PICK y \in Int : y = (k - 1) * s
    OBVIOUS
  <2>2. y % s = 0
    <3>1. k - 1 \in Int /\ y = (k - 1) * s
      BY <2>1
    <3> QED BY <3>1, MultipleOf
  <2>3. (g + y) % s = 0
    BY <2>2, MultipleSum
  <2> QED BY <2>1, <2>3 DEF Item
<1>2. ASSUME NEW a \in Int, a % s = 0 PROVE \E k \in Int : a = Item(g, k, s)
  <2>1. (a - g) % s = 0
    <3>1. (a + g) % s = 0 /\ (a - g) % s = 0
      BY <1>2, MultipleSum
    <3> QED BY <3>1
  <2>2. PICK q \in Int : a - g = q * s
    <3>1. a - g \in Int
      OBVIOUS
    <3> QED BY <2>1, <3>1, MultipleOf
  <2>3. q + 1 \in Int /\ a = g + ((q + 1) - 1) * s
    BY <2>2
  <2> QED BY <2>3 DEF Item
<1> QED BY <1>1, <1>2

\* Counting from the first on, an item is at least its number.
LEMMA ItemBound ==
  ASSUME NEW g \in Nat, NEW s \in Nat \ {0}, NEW k \in Nat \ {0}
  PROVE  k <= Item(g, k, s) + 1
<1>1. (k - 1) * s >= k - 1
  <2>1. PICK j \in Nat, t \in Nat : j = k - 1 /\ t = s - 1
    OBVIOUS
  <2>2. j * t >= 0
    OBVIOUS
  <2>3. j * (t + 1) = j * t + j
    OBVIOUS
  <2> QED BY <2>1, <2>2, <2>3
<1> QED BY <1>1 DEF Item

(***************************************************************************)
(* The invariant of the loop.                                              *)
(***************************************************************************)
\* start has moved on by one item for each one yielded, and stayed in its half.
Moved ==
  /\ end = given.end
  /\ start \in Items(kind, size)
  /\ start = Item(given.start, Len(yielded) + 1, size)
  /\ PageKind(kind) => (start < HALF <=> given.start < HALF)
  /\ Len(yielded) > 0 =>
       start - size < given.end \/ (Inclusive(kind) /\ start - size = given.end)

\* At the last page of all end has moved back instead, and the range is empty.
Capped ==
  /\ kind = "PageRangeInclusive"
  /\ start = U64 - size /\ given.end = start /\ end = start - size
  /\ given.start >= HALF
  /\ Len(yielded) > 0 /\ start = Item(given.start, Len(yielded), size)

LoopInv ==
  /\ kind \in Kinds /\ size \in Sizes
  /\ given \in [start : Items(kind, size), end : Items(kind, size)]
  /\ yielded \in Seq(Int)
  /\ \A k \in 1 .. Len(yielded) : yielded[k] = Item(given.start, k, size)
  /\ Moved \/ Capped
  /\ status = "done" => is_empty
  /\ status = "panicked" => ~is_empty /\ start = LastBefore

\* What the pages and the frames have in common.
LEMMA ItemsType ==
  ASSUME NEW k \in Kinds, NEW s \in Sizes, NEW a \in Items(k, s)
  PROVE  a \in Int /\ a >= 0 /\ a % s = 0 /\ a < U64
BY WidthAssumption DEF Items, Pages, Frames, Canonical, LowerHalf, UpperHalf, Physical

LEMMA InitLoop == RangeInit => LoopInv
<1> SUFFICES ASSUME RangeInit PROVE LoopInv
  OBVIOUS
<1>1. start \in Int /\ size \in Nat \ {0}
  BY ItemsType, SizeDivides DEF RangeInit
<1>2. start = Item(start, 1, size)
  BY <1>1, ItemType
<1>3. given.start = start /\ given.end = end /\ Len(yielded) = 0 /\ yielded \in Seq(Int)
  BY DEF RangeInit
<1>4. Moved
  BY <1>2, <1>3 DEF RangeInit, Moved
<1> QED BY <1>3, <1>4 DEF RangeInit, LoopInv

\* The fields of the range before its end.
LEMMA LoopFacts ==
  ASSUME LoopInv
  PROVE  /\ size \in Nat \ {0} /\ 2 * size <= HALF /\ size <= PHYS
         /\ given.start \in Int /\ given.start >= 0 /\ given.start % size = 0
         /\ given.end \in Int /\ given.end >= 0 /\ given.end % size = 0
         /\ given.start \in Items(kind, size) /\ given.end \in Items(kind, size)
         /\ Len(yielded) \in Nat
         /\ start \in Int /\ end \in Int
<1>1. size \in Nat \ {0} /\ 2 * size <= HALF /\ size <= PHYS
  BY SizeDivides DEF LoopInv
<1>2. /\ given.start \in Int /\ given.start >= 0 /\ given.start % size = 0
      /\ given.end \in Int /\ given.end >= 0 /\ given.end % size = 0
      /\ given.start \in Items(kind, size) /\ given.end \in Items(kind, size)
  BY ItemsType DEF LoopInv
<1>3. Len(yielded) \in Nat
  BY DEF LoopInv
<1>4. start \in Int /\ end \in Int
  BY <1>1, <1>2, ItemsType, WidthAssumption DEF LoopInv, Moved, Capped
<1> QED BY <1>1, <1>2, <1>3, <1>4

\* A range of fewer items than MaxYielded: none of them is left out of the history.
LEMMA HistoryComplete ==
  ASSUME LoopInv, Moved
  PROVE  Len(yielded) < MaxYielded
<1>1. PICK g \in Nat, s \in Nat \ {0}, n \in Nat :
        g = given.start /\ s = size /\ n = Len(yielded)
  BY LoopFacts
<1>2. start \in Int /\ start = Item(g, n + 1, s) /\ start >= 0
  BY <1>1, LoopFacts, ItemsType DEF LoopInv, Moved
<1>3. start - g < PHYS + 2 * HALF
  <2>1. CASE PageKind(kind)
    <3>1. start \in Canonical /\ g \in Canonical /\ (start < HALF <=> g < HALF)
      BY <1>1, <2>1, LoopFacts DEF Moved, Items, Pages
    <3> QED BY <3>1, WidthAssumption DEF Canonical, LowerHalf, UpperHalf
  <2>2. CASE ~PageKind(kind)
    BY <1>1, <1>2, <2>2, WidthAssumption DEF Moved, Items, Frames, Physical
  <2> QED BY <2>1, <2>2
<1>4. Item(0, n + 1, s) = start - g
  BY <1>2 DEF Item
<1>5. n + 1 <= Item(0, n + 1, s) + 1
  BY ItemBound
<1> QED BY <1>1, <1>2, <1>3, <1>4, <1>5, WidthAssumption DEF MaxYielded

\* The call that answers the last page of all: end moves back.
LEMMA NextCapped ==
  ASSUME LoopInv, Moved, ~is_empty, kind = "PageRangeInclusive", start >= max_page_addr
  PROVE  start = U64 - size /\ given.end = start /\ given.start >= HALF
<1>1. start \in Pages(size) /\ given.end \in Pages(size) /\ start <= end
  BY LoopFacts DEF Moved, Items, PageKind, is_empty, Inclusive
<1>2. PICK s \in Nat \ {0} : s = size /\ s \in Sizes
  BY LoopFacts DEF LoopInv
<1>3. ASSUME NEW a \in Pages(s) PROVE a <= U64 - s
  <2>1. PICK u \in Int : u = U64 /\ u % s = 0 /\ a < u
    BY <1>2, SizeDivides, WidthAssumption DEF Pages, Canonical, LowerHalf, UpperHalf
  <2>2. a \in Int /\ a % s = 0
    BY WidthAssumption DEF Pages, Canonical, LowerHalf, UpperHalf
  <2>3. a + s <= u
    BY <2>1, <2>2, NextMultiple
  <2> QED BY <2>1, <2>2, <2>3
<1>4. start = U64 - size /\ given.end = start
  BY <1>1, <1>2, <1>3, LoopFacts, WidthAssumption DEF max_page_addr, Moved
<1>5. ~(start < HALF)
  BY <1>4, LoopFacts, WidthAssumption
<1> QED BY <1>4, <1>5, LoopFacts, WidthAssumption DEF Moved, PageKind

\* Every other call moves start on by one item, or panics at the last one.
LEMMA NextMoved ==
  ASSUME LoopInv, Moved, ~is_empty, kind # "PageRangeInclusive" \/ ~(start >= max_page_addr)
  PROVE  \/ Successor = None /\ start = LastBefore
         \/ /\ Successor = start + size /\ start + size \in Items(kind, size)
            /\ Successor # None
            /\ PageKind(kind) => (start < HALF <=> start + size < HALF)
<1>1. size \in Sizes /\ size \in Nat \ {0} /\ start \in Items(kind, size) /\ start \in Int
  BY LoopFacts DEF LoopInv, Moved
<1>2. CASE PageKind(kind)
  <2>1. start \in Pages(size)
    BY <1>1, <1>2 DEF Items
  <2>2. start # U64 - size
    <3>1. CASE kind = "PageRangeInclusive"
      BY <1>1, <3>1, WidthAssumption DEF max_page_addr
    <3>2. CASE kind = "PageRange"
      <4>1. start < end /\ end \in Pages(size)
        BY <1>1, <1>2, <3>2, LoopFacts DEF is_empty, Inclusive, Moved, Items
      <4>2. PICK e \in Int : e = end /\ e % size = 0 /\ start < e /\ e < U64
        BY <4>1, WidthAssumption DEF Pages, Canonical, LowerHalf, UpperHalf
      <4>3. start % size = 0
        BY <2>1 DEF Pages
      <4>4. start + size <= e
        BY <1>1, <4>2, <4>3, NextMultiple
      <4> QED BY <1>1, <4>2, <4>4, WidthAssumption
    <3> QED BY <1>2, <3>1, <3>2 DEF PageKind
  <2> QED BY <1>1, <1>2, <2>1, <2>2, PageNext, PageFixed DEF Successor, LastBefore, Items
<1>3. CASE ~PageKind(kind)
  <2>1. start \in Frames(size)
    BY <1>1, <1>3 DEF Items
  <2>2. start >= 0
    BY <2>1, WidthAssumption DEF Frames, Physical
  <2> QED BY <1>1, <1>3, <2>1, <2>2, FrameNext DEF Successor, LastBefore, Items, None
<1> QED BY <1>2, <1>3

\* A capped range is empty.
LEMMA CappedEmpty == ASSUME LoopInv, Capped PROVE is_empty
<1>1. size \in Nat \ {0} /\ start \in Int
  BY LoopFacts
<1> QED BY <1>1 DEF Capped, is_empty, Inclusive

\* A step that answers an item appends it to the history.
LEMMA Appended ==
  ASSUME LoopInv, Moved, Record(start)
  PROVE  /\ yielded' \in Seq(Int) /\ Len(yielded') = Len(yielded) + 1
         /\ \A k \in 1 .. Len(yielded') : yielded'[k] = Item(given.start, k, size)
<1>1. yielded' = Append(yielded, start)
  BY HistoryComplete DEF Record
<1>2. yielded \in Seq(Int) /\ start \in Int /\ Len(yielded) \in Nat
  BY LoopFacts DEF LoopInv
<1>3. yielded' \in Seq(Int) /\ Len(yielded') = Len(yielded) + 1
  BY <1>1, <1>2
<1>4. ASSUME NEW k \in 1 .. Len(yielded') PROVE yielded'[k] = Item(given.start, k, size)
  <2>1. CASE k = Len(yielded) + 1
    BY <1>1, <1>2, <2>1 DEF Moved
  <2>2. CASE k # Len(yielded) + 1
    <3>1. k \in 1 .. Len(yielded) /\ yielded'[k] = yielded[k]
      BY <1>1, <1>2, <1>3, <2>2
    <3> QED BY <3>1 DEF LoopInv
  <2> QED BY <2>1, <2>2
<1> QED BY <1>3, <1>4

LEMMA NextLoop == LoopInv /\ [RangeNext]_rangeVars => LoopInv'
<1> SUFFICES ASSUME LoopInv, [RangeNext]_rangeVars PROVE LoopInv'
  OBVIOUS
<1>1. ASSUME UNCHANGED rangeVars PROVE LoopInv'
  BY <1>1 DEF rangeVars, LoopInv, Moved, Capped, is_empty, LastBefore
<1>2. ASSUME next, is_empty PROVE LoopInv'
  BY <1>2 DEF next, LoopInv, Moved, Capped, is_empty, LastBefore
<1>3. ASSUME next, ~is_empty PROVE LoopInv'
  <2>1. Moved /\ status = "running"
    BY <1>3, CappedEmpty DEF LoopInv, next
  <2>2. UNCHANGED <<kind, size, given>>
    BY <1>3 DEF next
  <2>3. CASE kind = "PageRangeInclusive" /\ start >= max_page_addr
    <3>1. start = U64 - size /\ given.end = start /\ given.start >= HALF /\ start \in Int
      BY <1>3, <2>1, <2>3, NextCapped, LoopFacts
    <3>2. page_prev(end, size) = start - size /\ start - size # None /\ start # None
      BY <2>1, <3>1, PagePrev, PageFixed, LoopFacts, WidthAssumption
      DEF LoopInv, Moved, None
    <3>3. NextFields = [start |-> start, end |-> start - size]
      BY <2>3, <3>2 DEF NextFields
    <3>4. start' = start /\ end' = start - size /\ Record(start) /\ status' = status
      BY <1>3, <3>2, <3>3 DEF next
    <3>5. /\ yielded' \in Seq(Int) /\ Len(yielded') = Len(yielded) + 1
          /\ \A k \in 1 .. Len(yielded') : yielded'[k] = Item(given.start, k, size)
      BY <2>1, <3>4, Appended
    <3>6. Capped'
      BY <2>1, <2>2, <2>3, <3>1, <3>4, <3>5, LoopFacts DEF Capped, Moved
    <3> QED BY <2>1, <2>2, <3>4, <3>5, <3>6 DEF LoopInv
  <2>4. CASE kind # "PageRangeInclusive" \/ ~(start >= max_page_addr)
    <3>1. NextFields = [start |-> Successor, end |-> end]
      BY <2>4 DEF NextFields
    <3>2. end # None
      BY <2>1, LoopFacts DEF Moved, None
    <3>3. CASE Successor = None /\ start = LastBefore
      <4>1. status' = "panicked" /\ UNCHANGED <<start, end, yielded>>
        BY <1>3, <3>1, <3>3 DEF next
      <4> QED BY <1>3, <2>1, <2>2, <3>3, <4>1 DEF LoopInv, Moved, is_empty, LastBefore
    <3>4. CASE /\ Successor = start + size /\ start + size \in Items(kind, size)
               /\ Successor # None
               /\ PageKind(kind) => (start < HALF <=> start + size < HALF)
      <4>1. start' = start + size /\ end' = end /\ Record(start) /\ status' = status
        BY <1>3, <3>1, <3>2, <3>4 DEF next
      <4>2. /\ yielded' \in Seq(Int) /\ Len(yielded') = Len(yielded) + 1
            /\ \A k \in 1 .. Len(yielded') : yielded'[k] = Item(given.start, k, size)
        BY <2>1, <4>1, Appended
      <4>3. start' = Item(given.start, Len(yielded') + 1, size)
        <5>1. given.start \in Int /\ size \in Nat \ {0} /\ Len(yielded) + 1 \in Int
          BY LoopFacts
        <5>2. Item(given.start, Len(yielded) + 1 + 1, size)
                = Item(given.start, Len(yielded) + 1, size) + size
          BY <5>1, ItemType
        <5> QED BY <2>1, <4>1, <4>2, <5>2 DEF Moved
      <4>4. start' - size = start
        BY <4>1, LoopFacts
      <4>5. start < given.end \/ (Inclusive(kind) /\ start = given.end)
        BY <1>3, <2>1, LoopFacts DEF Moved, is_empty
      <4>6. Moved'
        BY <2>1, <2>2, <3>4, <4>1, <4>2, <4>3, <4>4, <4>5 DEF Moved
      <4> QED BY <2>1, <2>2, <4>1, <4>2, <4>6 DEF LoopInv
    <3> QED BY <1>3, <2>1, <2>4, <3>3, <3>4, NextMoved
  <2> QED BY <2>3, <2>4
<1> QED BY <1>1, <1>2, <1>3 DEF RangeNext, RangeFinished

\* The loop over a range keeps its invariant, to its end or its panic.
THEOREM LoopInvariant == RangeSpec => []LoopInv
<1> QED BY InitLoop, NextLoop, PTL DEF RangeSpec

(***************************************************************************)
(* The properties.                                                         *)
(***************************************************************************)
\* The items yielded are the first of the range.
LEMMA YieldedItems ==
  ASSUME LoopInv
  PROVE  \A y : y \in Yielded <=> \E k \in 1 .. Len(yielded) : y = Item(given.start, k, size)
BY DEF LoopInv, Yielded

\* Every item of the range has a number.
LEMMA NumberInRange ==
  ASSUME LoopInv, NEW a \in InRange
  PROVE  \E k \in Nat \ {0} : a = Item(given.start, k, size)
<1>1. PICK g \in Int, s \in Nat \ {0} : g = given.start /\ s = size /\ g % s = 0
  BY LoopFacts
<1>2. a \in Int /\ a % s = 0 /\ g <= a
  BY <1>1, ItemsType DEF InRange, LoopInv
<1>3. PICK k \in Int : a = Item(g, k, s)
  BY <1>1, <1>2, ItemFound
<1>4. k >= 1
  <2> SUFFICES ASSUME k < 1 PROVE FALSE
    BY <1>3
  <2>1. PICK one \in Int : one = 1 /\ k < one
    OBVIOUS
  <2>2. Item(g, k, s) + s <= Item(g, one, s)
    BY <2>1, ItemOrder
  <2>3. Item(g, 1, s) = g
    BY ItemType
  <2> QED BY <1>2, <1>3, <2>1, <2>2, <2>3
<1> QED BY <1>1, <1>3, <1>4

\* Of two items, the earlier one has the smaller number.
LEMMA NumberOrder ==
  ASSUME NEW g \in Int, NEW s \in Nat \ {0}, NEW j \in Int, NEW k \in Int
  PROVE  /\ Item(g, j, s) < Item(g, k, s) => j < k
         /\ Item(g, j, s) <= Item(g, k, s) => j <= k
<1>1. Item(g, j, s) \in Int /\ Item(g, k, s) \in Int
  BY ItemType
<1>2. k <= j => Item(g, k, s) <= Item(g, j, s)
  BY ItemOrder
<1>3. k < j => Item(g, k, s) + s <= Item(g, j, s)
  BY ItemOrder
<1> QED BY <1>1, <1>2, <1>3

\* What has been yielded lies in the range, up to the last one.
LEMMA LastYielded ==
  ASSUME LoopInv, NEW n \in Nat \ {0}, n = Len(yielded),
         NEW l, l = Item(given.start, n, size)
  PROVE  /\ l \in Int
         /\ l < given.end \/ (Inclusive(kind) /\ l = given.end)
         /\ PageKind(kind) => (l < HALF <=> given.start < HALF)
<1>1. PICK g \in Int, s \in Nat \ {0} : g = given.start /\ s = size
  BY LoopFacts
<1>2. Item(g, n + 1, s) = Item(g, n, s) + s /\ Item(g, n, s) \in Int /\ Item(g, 1, s) = g
  <2>1. n \in Int
    OBVIOUS
  <2> QED BY <2>1, ItemType
<1>3. g <= l
  <2>1. PICK one \in Int : one = 1 /\ one <= n /\ n \in Int
    OBVIOUS
  <2>2. Item(g, one, s) <= Item(g, n, s)
    BY <2>1, ItemOrder
  <2> QED BY <1>1, <1>2, <2>1, <2>2
<1>4. CASE Moved
  <2>1. l = start - size /\ start \in Int
    BY <1>1, <1>2, <1>4, LoopFacts DEF Moved
  <2> QED BY <1>1, <1>2, <1>3, <1>4, <2>1, WidthAssumption DEF Moved
<1>5. CASE Capped
  <2>1. l = start /\ start = given.end /\ start \in Int
    BY <1>1, <1>5, LoopFacts DEF Capped
  <2> QED BY <1>1, <1>2, <1>3, <1>5, <2>1, WidthAssumption DEF Capped, Inclusive
<1> QED BY <1>4, <1>5 DEF LoopInv

LEMMA YieldedInRange ==
  ASSUME LoopInv, NEW k \in 1 .. Len(yielded)
  PROVE  Item(given.start, k, size) \in InRange
<1>1. PICK g \in Int, s \in Nat \ {0}, n \in Nat \ {0} :
        g = given.start /\ s = size /\ n = Len(yielded) /\ g % s = 0 /\ g >= 0
  BY LoopFacts
<1>2. PICK l : l = Item(g, n, s)
  OBVIOUS
<1>3. /\ l \in Int
      /\ l < given.end \/ (Inclusive(kind) /\ l = given.end)
      /\ PageKind(kind) => (l < HALF <=> g < HALF)
  BY <1>1, <1>2, LastYielded
<1>4. PICK y \in Int : y = Item(g, k, s) /\ y % s = 0 /\ y <= l
  <2>1. k \in Int /\ n \in Int /\ k <= n
    BY <1>1
  <2>2. Item(g, k, s) \in Int
    BY <2>1, ItemType
  <2>3. Item(g, k, s) <= Item(g, n, s)
    BY <2>1, ItemOrder
  <2>4. Item(g, k, s) % s = 0
    BY <1>1, <2>1, ItemFound
  <2> QED BY <1>2, <2>2, <2>3, <2>4
<1>5. g <= y
  <2>1. PICK one \in Int : one = 1 /\ one <= k /\ k \in Int
    OBVIOUS
  <2>2. Item(g, one, s) <= Item(g, k, s)
    BY <2>1, ItemOrder
  <2>3. Item(g, 1, s) = g
    BY ItemType
  <2> QED BY <1>4, <2>1, <2>2, <2>3
<1>6. y \in Items(kind, size)
  <2>1. CASE PageKind(kind)
    <3>1. g \in Canonical /\ given.end \in Canonical
      BY <1>1, <2>1, LoopFacts DEF Items, Pages
    <3>2. y \in Canonical
      BY <1>1, <1>3, <1>4, <1>5, <2>1, <3>1, WidthAssumption
      DEF Canonical, LowerHalf, UpperHalf
    <3> QED BY <1>1, <1>4, <2>1, <3>2 DEF Items, Pages
  <2>2. CASE ~PageKind(kind)
    <3>1. given.end \in Physical
      BY <2>2, LoopFacts DEF Items, Frames
    <3>2. y \in Physical
      BY <1>1, <1>3, <1>4, <1>5, <3>1, WidthAssumption DEF Physical
    <3> QED BY <1>1, <1>4, <2>2, <3>2 DEF Items, Frames
  <2> QED BY <2>1, <2>2
<1> QED BY <1>1, <1>3, <1>4, <1>5, <1>6, LoopFacts DEF InRange

\* Of an empty range every item has been yielded.
LEMMA EmptyYielded ==
  ASSUME LoopInv, is_empty, NEW a \in InRange
  PROVE  a \in Yielded
<1>1. PICK g \in Int, s \in Nat \ {0}, n \in Nat :
        g = given.start /\ s = size /\ n = Len(yielded)
  BY LoopFacts
<1>2. PICK k \in Nat \ {0} : a = Item(g, k, s)
  BY <1>1, NumberInRange
<1>3. a \in Int /\ (a < given.end \/ (Inclusive(kind) /\ a = given.end))
  BY ItemsType DEF InRange, LoopInv
<1>4. k <= n
  <2>1. CASE Moved
    <3>1. a < start /\ start = Item(g, n + 1, s)
      BY <1>1, <1>3, <2>1, LoopFacts DEF Moved, is_empty
    <3>2. n + 1 \in Int /\ k \in Int
      OBVIOUS
    <3>3. k < n + 1
      BY <1>2, <3>1, <3>2, NumberOrder
    <3> QED BY <3>3
  <2>2. CASE Capped
    <3>1. a <= start /\ start = Item(g, n, s)
      BY <1>1, <1>3, <2>2, LoopFacts DEF Capped
    <3>2. n \in Int /\ k \in Int
      OBVIOUS
    <3> QED BY <1>2, <3>1, <3>2, NumberOrder
  <2> QED BY <2>1, <2>2 DEF LoopInv
<1>5. k \in 1 .. Len(yielded)
  BY <1>1, <1>4
<1> QED BY <1>1, <1>2, <1>5, YieldedItems

LEMMA YieldsInOrder == LoopInv => YieldsRangeInOrder
<1> SUFFICES ASSUME LoopInv PROVE YieldsRangeInOrder
  OBVIOUS
<1>1. PICK g \in Int, s \in Nat \ {0}, n \in Nat :
        g = given.start /\ s = size /\ n = Len(yielded)
  BY LoopFacts
<1>2. Yielded \subseteq InRange
  BY YieldedItems, YieldedInRange
<1>3. ASSUME NEW j \in 1 .. Len(yielded), NEW k \in 1 .. Len(yielded), j < k
      PROVE  yielded[j] < yielded[k]
  <2>1. yielded[j] = Item(g, j, s) /\ yielded[k] = Item(g, k, s) /\ j \in Int /\ k \in Int
    BY <1>1 DEF LoopInv
  <2>2. Item(g, j, s) + s <= Item(g, k, s) /\ Item(g, j, s) \in Int /\ Item(g, k, s) \in Int
    BY <1>3, <2>1, ItemOrder, ItemType
  <2> QED BY <2>1, <2>2
<1>4. ASSUME NEW a \in InRange, NEW b \in Yielded, a < b PROVE a \in Yielded
  <2>1. PICK j \in Nat \ {0} : a = Item(g, j, s)
    BY <1>1, NumberInRange
  <2>2. PICK k \in 1 .. Len(yielded) : b = Item(g, k, s)
    BY <1>1, YieldedItems
  <2>3. j \in Int /\ k \in Int
    OBVIOUS
  <2>4. j < k
    BY <1>4, <2>1, <2>2, <2>3, NumberOrder
  <2>5. j \in 1 .. Len(yielded)
    BY <1>1, <2>4
  <2> QED BY <1>1, <2>1, <2>5, YieldedItems
<1>5. ASSUME status = "done" PROVE Yielded = InRange
  <2>1. is_empty
    BY <1>5 DEF LoopInv
  <2> QED BY <1>2, <2>1, EmptyYielded
<1> QED BY <1>2, <1>3, <1>4, <1>5 DEF YieldsRangeInOrder

\* next() answers the pages of the range in order, none twice and none left out; at
\* None it has answered them all.
THEOREM YieldsCorrect == RangeSpec => []YieldsRangeInOrder
<1> QED BY LoopInvariant, YieldsInOrder, PTL

LEMMA PanicsLast == LoopInv => PanicsOnlyAtLast
<1> SUFFICES ASSUME LoopInv PROVE PanicsOnlyAtLast
  OBVIOUS
<1>1. PICK g \in Int, s \in Nat \ {0}, n \in Nat :
        g = given.start /\ s = size /\ n = Len(yielded)
  BY LoopFacts
<1>2. ASSUME status = "panicked" PROVE start = LastBefore /\ LastBefore \in InRange
  <2>1. ~is_empty /\ start = LastBefore /\ Moved
    BY <1>2, CappedEmpty DEF LoopInv
  <2>2. g <= start
    <3>1. PICK one \in Int, m \in Int : one = 1 /\ m = n + 1 /\ one <= m
      OBVIOUS
    <3>2. Item(g, one, s) <= Item(g, m, s)
      BY <3>1, ItemOrder
    <3>3. Item(g, 1, s) = g
      BY ItemType
    <3> QED BY <1>1, <2>1, <3>1, <3>2, <3>3 DEF Moved
  <2>3. start < given.end \/ (Inclusive(kind) /\ start = given.end)
    BY <2>1, LoopFacts DEF Moved, is_empty
  <2> QED BY <1>1, <2>1, <2>2, <2>3 DEF Moved, InRange
<1>3. ASSUME status = "done", LastBefore \in InRange PROVE FALSE
  <2>1. LastBefore \in Yielded /\ is_empty
    BY <1>3, EmptyYielded DEF LoopInv
  <2>2. PICK k \in 1 .. n : LastBefore = Item(g, k, s)
    BY <1>1, <2>1, YieldedItems
  <2>3. CASE Moved
    <3>1. PICK m \in Int, j \in Int : m = n + 1 /\ j = k /\ j < m
      BY <1>1
    <3>2. Item(g, j, s) + s <= Item(g, m, s)
      BY <3>1, ItemOrder
    <3>3. LastBefore + size <= start /\ start \in Int /\ size \in Nat
      BY <1>1, <2>2, <2>3, <3>1, <3>2, LoopFacts DEF Moved
    <3>4. CASE PageKind(kind)
      <4>1. given.start <= HALF - size
        BY <1>3, <3>4 DEF LastBefore, InRange
      <4>2. start < HALF
        BY <2>3, <3>4, <4>1, LoopFacts, WidthAssumption DEF Moved
      <4> QED BY <3>3, <3>4, <4>2, WidthAssumption DEF LastBefore
    <3>5. CASE ~PageKind(kind)
      <4>1. start < PHYS
        BY <2>3, <3>5, WidthAssumption DEF Moved, Items, Frames, Physical
      <4> QED BY <3>3, <3>5, <4>1, WidthAssumption DEF LastBefore
    <3> QED BY <3>4, <3>5
  <2>4. CASE Capped
    <3>1. given.start <= HALF - size /\ given.start >= HALF
      BY <1>3, <2>4 DEF Capped, LastBefore, InRange, PageKind
    <3> QED BY <3>1, LoopFacts, WidthAssumption
  <2> QED BY <2>3, <2>4 DEF LoopInv
<1> QED BY <1>2, <1>3 DEF PanicsOnlyAtLast

\* A loop panics only at the last page before the gap, or the last frame, and only if
\* that item is in the range.
THEOREM PanicsCorrect == RangeSpec => []PanicsOnlyAtLast
<1> QED BY LoopInvariant, PanicsLast, PTL

(***************************************************************************)
(* len() counts what is left.                                              *)
(***************************************************************************)
\* The items from b up to e, c of them: as many as 1 .. c.
LEMMA CountItems ==
  ASSUME NEW b \in Int, NEW s \in Nat \ {0}, NEW c \in Nat,
         NEW S, \A y : y \in S <=> \E k \in 1 .. c : y = Item(b, k, s)
  PROVE  Cardinality(S) = c
<1> DEFINE f == [k \in 1 .. c |-> Item(b, k, s)]
<1>1. f \in [1 .. c -> S]
  OBVIOUS
<1>2. ASSUME NEW j \in 1 .. c, NEW k \in 1 .. c, f[j] = f[k] PROVE j = k
  <2>1. Item(b, j, s) = Item(b, k, s) /\ j \in Int /\ k \in Int
    BY <1>2
  <2>2. Item(b, j, s) \in Int /\ Item(b, k, s) \in Int
    BY <2>1, ItemType
  <2>3. Item(b, j, s) <= Item(b, k, s) /\ Item(b, k, s) <= Item(b, j, s)
    BY <2>1, <2>2
  <2>4. j <= k
    BY <2>1, <2>3, NumberOrder
  <2>5. k <= j
    BY <2>1, <2>3, NumberOrder
  <2> QED BY <2>1, <2>4, <2>5
<1>3. \A y \in S : \E k \in 1 .. c : f[k] = y
  OBVIOUS
<1>4. f \in Bijection(1 .. c, S)
  <2> HIDE DEF f
  <2>1. f \in Injection(1 .. c, S)
    BY <1>1, <1>2 DEF Injection, IsInjective
  <2>2. f \in Surjection(1 .. c, S)
    BY <1>1, <1>3 DEF Surjection
  <2> QED BY <2>1, <2>2 DEF Bijection
<1>5. ExistsBijection(1 .. c, S)
  BY <1>4 DEF ExistsBijection
<1>6. IsFiniteSet(1 .. c) /\ Cardinality(1 .. c) = c
  <2>1. 1 \in Int /\ c \in Int
    OBVIOUS
  <2>2. IsFiniteSet(1 .. c) /\ Cardinality(1 .. c) = IF 1 > c THEN 0 ELSE c - 1 + 1
    BY <2>1, FS_Interval
  <2> QED BY <2>2
<1> QED BY <1>5, <1>6, FS_Bijection

\* Between start and end on one side of the gap, every multiple of the size is an item.
LEMMA BetweenItems ==
  ASSUME LoopInv, Moved, ~(PageKind(kind) /\ given.start < HALF /\ given.end >= HALF),
         NEW y \in Int, start <= y, y <= end, y % size = 0
  PROVE  y \in Items(kind, size)
<1>1. end = given.end /\ end \in Items(kind, size) /\ start \in Items(kind, size)
  BY LoopFacts DEF Moved
<1>2. CASE PageKind(kind)
  <2>1. start \in Canonical /\ end \in Canonical
    BY <1>1, <1>2 DEF Items, Pages
  <2>2. (start >= HALF) \/ end < HALF
    BY <1>1, <1>2, LoopFacts, WidthAssumption DEF Moved
  <2>3. y \in Canonical
    BY <2>1, <2>2, WidthAssumption DEF Canonical, LowerHalf, UpperHalf
  <2> QED BY <1>2, <2>3 DEF Items, Pages
<1>3. CASE ~PageKind(kind)
  <2>1. start \in Physical /\ end \in Physical
    BY <1>1, <1>3 DEF Items, Frames
  <2>2. y \in Physical
    BY <2>1, WidthAssumption DEF Physical
  <2> QED BY <1>3, <2>2 DEF Items, Frames
<1> QED BY <1>2, <1>3

\* The number of items up to the end.
LEMMA LenItems ==
  ASSUME LoopInv, Moved, ~is_empty
  PROVE  \E c \in Nat : /\ end = Item(start, c + 1, size)
                        /\ len = IF Inclusive(kind) THEN c + 1 ELSE c
<1>1. PICK s \in Nat \ {0}, b \in Int, e \in Int :
        s = size /\ b = start /\ e = end /\ b % s = 0 /\ e % s = 0 /\ b <= e
  BY LoopFacts, ItemsType DEF Moved, is_empty, LoopInv
<1>2. PICK k \in Int : e = Item(b, k, s)
  BY <1>1, ItemFound
<1>3. PICK c \in Int : c = k - 1 /\ e = Item(b, c + 1, s)
  BY <1>2
<1>4. c >= 0
  <2>1. PICK one \in Int, m \in Int : one = 1 /\ m = c + 1
    BY <1>3
  <2>2. Item(b, 1, s) = b
    BY ItemType
  <2>3. Item(b, one, s) <= Item(b, m, s)
    BY <1>1, <1>3, <2>1, <2>2
  <2>4. one <= m
    BY <2>3, NumberOrder
  <2> QED BY <2>1, <2>4
<1>5. page_diff(e, b, s) = c
  <2>1. 0 \in 0 .. s - 1
    OBVIOUS
  <2>2. (c * s + 0) \div s = c
    BY <2>1, DivMod
  <2>3. e - b = c * s + 0
    BY <1>3 DEF Item
  <2> QED BY <2>2, <2>3 DEF page_diff
<1>6. len = c + IF Inclusive(kind) THEN 1 ELSE 0
  BY <1>1, <1>5 DEF len
<1> QED BY <1>1, <1>3, <1>4, <1>6

LEMMA LenRest == LoopInv => LenCountsRest
<1> SUFFICES ASSUME LoopInv, ~(PageKind(kind) /\ given.start < HALF /\ given.end >= HALF)
             PROVE  len = Cardinality(InRange \ Yielded)
  BY DEF LenCountsRest
<1>1. CASE is_empty
  <2>1. InRange \ Yielded = {}
    BY <1>1, EmptyYielded
  <2> QED BY <1>1, <2>1, FS_EmptySet DEF len
<1>2. CASE ~is_empty
  <2>1. Moved
    BY <1>2, CappedEmpty DEF LoopInv
  <2>2. PICK g \in Int, s \in Nat \ {0}, n \in Nat, b \in Int, e \in Int :
          /\ g = given.start /\ s = size /\ n = Len(yielded) /\ b = start /\ e = end
          /\ b % s = 0 /\ e = given.end
    BY <2>1, LoopFacts, ItemsType DEF Moved, LoopInv
  <2>3. PICK c \in Nat : e = Item(b, c + 1, s) /\ len = IF Inclusive(kind) THEN c + 1 ELSE c
    BY <1>2, <2>1, <2>2, LenItems
  <2>4. b = Item(g, n + 1, s)
    BY <2>1, <2>2 DEF Moved
  <2>5. ASSUME NEW k \in Int PROVE Item(b, k, s) = Item(g, n + k, s)
    BY <2>4 DEF Item
  <2>6. len \in Nat
    BY <2>3
  <2>7. ASSUME NEW y, y \in InRange \ Yielded PROVE \E k \in 1 .. len : y = Item(b, k, s)
    <3>1. PICK m \in Nat \ {0} : y = Item(g, m, s)
      BY <2>2, <2>7, NumberInRange
    <3>2. m > n
      BY <2>2, <2>7, <3>1, YieldedItems
    <3>3. PICK k \in Nat \ {0} : m = n + k
      <4>1. m - n \in Nat \ {0} /\ m = n + (m - n)
        BY <3>2
      <4> QED BY <4>1
    <3>4. y = Item(b, k, s) /\ k \in Int /\ c + 1 \in Int
      BY <2>5, <3>1, <3>3
    <3>5. y < e \/ (Inclusive(kind) /\ y = e)
      BY <2>2, <2>7 DEF InRange
    <3>6. CASE y < e
      <4>1. k < c + 1
        BY <2>3, <3>4, <3>6, NumberOrder
      <4> QED BY <2>3, <3>3, <3>4, <4>1
    <3>7. CASE Inclusive(kind) /\ y = e
      <4>1. Item(b, k, s) <= Item(b, c + 1, s)
        BY <2>2, <2>3, <3>4, <3>7
      <4>2. k <= c + 1
        BY <3>4, <4>1, NumberOrder
      <4> QED BY <2>3, <3>3, <3>4, <3>7, <4>2
    <3> QED BY <3>5, <3>6, <3>7
  <2>8. ASSUME NEW k \in 1 .. len PROVE Item(b, k, s) \in InRange \ Yielded
    <3>1. PICK y : y = Item(b, k, s) /\ y = Item(g, n + k, s) /\ k \in Int /\ n + k \in Int
      BY <2>5
    <3>2. y \in Int /\ y % s = 0
      <4>1. Item(b, k, s) \in Int
        BY <3>1, ItemType
      <4>2. Item(b, k, s) % s = 0
        BY <2>2, <3>1, ItemFound
      <4> QED BY <3>1, <4>1, <4>2
    <3>3. b <= y
      <4>1. PICK one \in Int : one = 1 /\ one <= k
        OBVIOUS
      <4>2. Item(b, one, s) <= Item(b, k, s)
        BY <3>1, <4>1, ItemOrder
      <4>3. Item(b, 1, s) = b
        BY ItemType
      <4> QED BY <3>1, <4>1, <4>2, <4>3
    <3>4. g <= b
      <4>1. PICK one \in Int, m \in Int : one = 1 /\ m = n + 1 /\ one <= m
        BY <2>2
      <4>2. Item(g, one, s) <= Item(g, m, s)
        BY <4>1, ItemOrder
      <4>3. Item(g, 1, s) = g
        BY ItemType
      <4> QED BY <2>4, <4>1, <4>2, <4>3
    <3>5. y < e \/ (Inclusive(kind) /\ y = e)
      <4>1. PICK m \in Int : m = c + 1
        OBVIOUS
      <4>2. CASE k < m
        <5>1. Item(b, k, s) + s <= Item(b, m, s)
          BY <3>1, <4>2, ItemOrder
        <5> QED BY <2>2, <2>3, <3>1, <3>2, <4>1, <5>1
      <4>3. CASE ~(k < m)
        <5>1. Inclusive(kind) /\ k = c + 1
          BY <2>3, <3>1, <4>1, <4>3
        <5> QED BY <2>3, <3>1, <5>1
      <4> QED BY <4>2, <4>3
    <3>6. y <= e
      BY <2>2, <3>2, <3>5
    <3>7. y \in Items(kind, size)
      BY <2>1, <2>2, <3>2, <3>3, <3>6, BetweenItems
    <3>8. y \in InRange
      BY <2>2, <3>2, <3>3, <3>4, <3>5, <3>7 DEF InRange
    <3>9. ASSUME y \in Yielded PROVE FALSE
      <4>1. PICK j \in 1 .. n : y = Item(g, j, s)
        BY <2>2, <3>9, YieldedItems
      <4>2. PICK m \in Int, i \in Int : m = n + k /\ i = j /\ i < m
        BY <2>2, <3>1
      <4>3. Item(g, i, s) + s <= Item(g, m, s)
        BY <4>2, ItemOrder
      <4> QED BY <3>1, <3>2, <4>1, <4>2, <4>3
    <3> QED BY <3>1, <3>8, <3>9
  <2>9. Cardinality(InRange \ Yielded) = len
    <3>1. PICK S : S = InRange \ Yielded
      OBVIOUS
    <3>2. PICK l \in Nat : l = len
      BY <2>6
    <3>3. \A y : y \in S <=> \E k \in 1 .. l : y = Item(b, k, s)
      BY <2>7, <2>8, <3>1, <3>2
    <3>4. Cardinality(S) = l
      BY <3>3, CountItems
    <3> QED BY <3>1, <3>2, <3>4
  <2> QED BY <2>9
<1> QED BY <1>1, <1>2

\* len() is the number of items next() has still to answer, all along the loop, for a
\* range of frames, or of pages on one side of the gap.
THEOREM LenCorrect == RangeSpec => []LenCountsRest
<1> QED BY LoopInvariant, LenRest, PTL
=============================================================================
