--------------------------- MODULE VirtAddrProofs ---------------------------
(***************************************************************************)
(* Proofs about VirtAddr, for every width of words and addresses: U64 is a *)
(* multiple of the address space that leaves a gap of at least six halves  *)
(* between the lower and the upper half, and an alignment within a half    *)
(* divides it.                                                             *)
(***************************************************************************)
EXTENDS VirtAddr, TLAPS

\* new_truncate answers a canonical address.
LEMMA TruncateIsCanonical ==
  ASSUME NEW w \in Word
  PROVE  new_truncate(w) \in Canonical
<1> DEFINE low48 == w % (2 * HALF)
<1>1. low48 \in 0 .. 2 * HALF - 1
  BY WidthAssumption DEF Word
<1> HIDE DEF low48
<1>2. new_truncate(w) = IF low48 < HALF THEN low48 ELSE low48 + (U64 - 2 * HALF)
  BY DEF new_truncate, low48
<1> QED BY <1>1, <1>2, WidthAssumption DEF Canonical, LowerHalf, UpperHalf

\* A step forward from a canonical address goes to the address as many places on,
\* or there is none.
LEMMA ForwardIsLinear ==
  ASSUME NEW a \in Canonical, NEW n \in Word
  PROVE  forward_checked_u64(a, n) = AtPosition(Position(a) + n)
BY WidthAssumption DEF Canonical, LowerHalf, UpperHalf, Word, forward_checked_u64,
   checked_add, None, ADDRESS_SPACE_SIZE, AtPosition, Position

\* A step backward from a canonical address goes to the address as many places
\* before, or there is none.
LEMMA BackwardIsLinear ==
  ASSUME NEW a \in Canonical, NEW n \in Word
  PROVE  backward_checked_u64(a, n) = AtPosition(Position(a) - n)
BY WidthAssumption DEF Canonical, LowerHalf, UpperHalf, Word, backward_checked_u64,
   checked_sub, None, ADDRESS_SPACE_SIZE, AtPosition, Position

\* The address at a position is canonical.
LEMMA PositionIsCanonical ==
  ASSUME NEW n \in Int, AtPosition(n) # None
  PROVE  AtPosition(n) \in Canonical
BY WidthAssumption DEF Canonical, LowerHalf, UpperHalf, None, AtPosition

\* What try_new accepts is canonical.
LEMMA NewIsCanonical ==
  ASSUME NEW w \in Word \cup {None}, try_new(w) # None
  PROVE  try_new(w) \in Canonical
BY TruncateIsCanonical DEF try_new, None, Word

\* A canonical address is a word.
LEMMA CanonicalIsWord == Canonical \subseteq Word
BY WidthAssumption DEF Canonical, LowerHalf, UpperHalf, Word

\* align_down and align_up of a word are words, for any alignment.
LEMMA AlignIsWord ==
  ASSUME NEW w \in Word, NEW n \in Word \ {0}
  PROVE  /\ align_down(w, n) \in Word
         /\ align_up(w, n) \in Word \cup {None}
<1> DEFINE rest == w % n
<1>1. rest \in 0 .. n - 1
  BY WidthAssumption DEF Word
<1>2. w \in 0 .. n - 1 => rest = w
  BY WidthAssumption DEF Word
<1> HIDE DEF rest
<1>3. rest <= w
  BY <1>1, <1>2, WidthAssumption DEF Word
<1>4. align_down(w, n) = w - rest
  BY DEF align_down, rest
<1>5. align_down(w, n) \in Word
  BY <1>1, <1>3, <1>4, WidthAssumption DEF Word
<1>6. checked_add(align_down(w, n), n) \in Word \cup {None}
  BY <1>5, WidthAssumption DEF checked_add, None, Word
<1> QED BY <1>5, <1>6 DEF align_up

\* Whatever a call answers, other than None, is canonical.
LEMMA BecomesCanonical ==
  ASSUME AlwaysCanonical, NEW a, a # None => a \in Canonical, Becomes(a)
  PROVE  AlwaysCanonical'
BY DEF AlwaysCanonical, Becomes

\* No call of the program leaves the canonical addresses.
LEMMA NextCanonical == ASSUME AlwaysCanonical, [AddrNext]_addrVars PROVE AlwaysCanonical'
<1>1. saved \in Word /\ current \in Word /\ current \in Canonical /\ Position(current) \in Int
  BY CanonicalIsWord, WidthAssumption DEF AlwaysCanonical, Word, Position
<1>2. ASSUME NEW n \in Counts, New(n) PROVE AlwaysCanonical'
  <2>1. try_new(n) # None => try_new(n) \in Canonical
    BY NewIsCanonical, ArgumentsAssumption
  <2> QED BY <1>2, <2>1, BecomesCanonical DEF New
<1>3. ASSUME NEW n \in Counts, NewTruncate(n) PROVE AlwaysCanonical'
  <2>1. new_truncate(n) \in Canonical
    BY TruncateIsCanonical, ArgumentsAssumption
  <2> QED BY <1>3, <2>1, BecomesCanonical DEF NewTruncate
<1>4. ASSUME NEW n \in Counts, Add(n) PROVE AlwaysCanonical'
  <2>1. checked_add(current, n) \in Word \cup {None}
    BY <1>1, ArgumentsAssumption, WidthAssumption DEF checked_add, None, Word
  <2>2. add(current, n) # None => add(current, n) \in Canonical
    BY <2>1, NewIsCanonical DEF add
  <2> QED BY <1>4, <2>2, BecomesCanonical DEF Add
<1>5. ASSUME NEW n \in Counts, Sub(n) PROVE AlwaysCanonical'
  <2>1. checked_sub(current, n) \in Word \cup {None}
    BY <1>1, ArgumentsAssumption, WidthAssumption DEF checked_sub, None, Word
  <2>2. sub(current, n) # None => sub(current, n) \in Canonical
    BY <2>1, NewIsCanonical DEF sub
  <2> QED BY <1>5, <2>2, BecomesCanonical DEF Sub
<1>6. ASSUME NEW n \in Counts, Forward(n) PROVE AlwaysCanonical'
  <2>1. n \in Word /\ Position(current) + n \in Int
    BY <1>1, ArgumentsAssumption DEF Word
  <2>2. forward_checked_u64(current, n) # None => forward_checked_u64(current, n) \in Canonical
    BY <1>1, <2>1, ForwardIsLinear, PositionIsCanonical
  <2> QED BY <1>6, <2>2, BecomesCanonical DEF Forward
<1>7. ASSUME NEW n \in Counts, Backward(n) PROVE AlwaysCanonical'
  <2>1. n \in Word /\ Position(current) - n \in Int
    BY <1>1, ArgumentsAssumption DEF Word
  <2>2. backward_checked_u64(current, n) # None => backward_checked_u64(current, n) \in Canonical
    BY <1>1, <2>1, BackwardIsLinear, PositionIsCanonical
  <2> QED BY <1>7, <2>2, BecomesCanonical DEF Backward
<1>8. ASSUME NEW n \in Aligns, AlignUp(n) PROVE AlwaysCanonical'
  <2>1. align_up(current, n) \in Word \cup {None}
    BY <1>1, ArgumentsAssumption, AlignIsWord
  <2>2. virt_align_up(current, n) # None => virt_align_up(current, n) \in Canonical
    BY <2>1, TruncateIsCanonical DEF virt_align_up
  <2> QED BY <1>8, <2>2, BecomesCanonical DEF AlignUp
<1>9. ASSUME NEW n \in Aligns, AlignDown(n) PROVE AlwaysCanonical'
  <2>1. virt_align_down(current, n) \in Canonical
    BY <1>1, ArgumentsAssumption, AlignIsWord, TruncateIsCanonical DEF virt_align_down
  <2> QED BY <1>9, <2>1, BecomesCanonical DEF AlignDown
<1>10. CASE Copy
  BY <1>10 DEF Copy, AlwaysCanonical
<1>11. CASE UNCHANGED addrVars
  BY <1>11 DEF addrVars, AlwaysCanonical
<1> QED
  BY <1>2, <1>3, <1>4, <1>5, <1>6, <1>7, <1>8, <1>9, <1>10, <1>11 DEF AddrNext

\* A VirtAddr always represents a canonical address, as its documentation says.
THEOREM CanonicalCorrect == AddrSpec => []AlwaysCanonical
<1>1. AddrInit => AlwaysCanonical
  BY WidthAssumption DEF AddrInit, AlwaysCanonical, Canonical, LowerHalf
<1>2. AlwaysCanonical /\ [AddrNext]_addrVars => AlwaysCanonical'
  BY NextCanonical
<1> QED BY <1>1, <1>2, PTL DEF AddrSpec

\* forward_checked and backward_checked count canonical addresses, across the gap,
\* from every address the program can compute.
THEOREM StepsCorrect == AddrSpec => []StepsAreLinear
<1>1. AlwaysCanonical => StepsAreLinear
  BY ForwardIsLinear, BackwardIsLinear, ArgumentsAssumption
     DEF AlwaysCanonical, StepsAreLinear
<1> QED BY <1>1, CanonicalCorrect, PTL

(***************************************************************************)
(* Division, for divisors that are not known numbers.                      *)
(***************************************************************************)
\* A quotient and a remainder are the only ones.
LEMMA DivMod ==
  ASSUME NEW n \in Nat \ {0}, NEW q \in Int, NEW r \in 0 .. n - 1
  PROVE  (q * n + r) % n = r /\ (q * n + r) \div n = q
<1>1. (q * n + r) % n = r
  OBVIOUS
<1>2. (q * n + r) \div n = q
  OBVIOUS
<1> QED BY <1>1, <1>2

LEMMA Euclid ==
  ASSUME NEW n \in Nat \ {0}, NEW x \in Int
  PROVE  \E q \in Int, r \in 0 .. n - 1 : x = q * n + r /\ x % n = r /\ x \div n = q
<1>1. PICK q \in Int : q = x \div n
  OBVIOUS
<1>2. n * q <= x /\ x < n * (q + 1)
  <2>1. n \in Int /\ n > 0
    OBVIOUS
  <2>2. n * (x \div n) <= x
    BY <2>1
  <2>3. x < n * (x \div n + 1)
    BY <2>1
  <2> QED BY <1>1, <2>2, <2>3
<1>3. PICK r \in 0 .. n - 1 : x = q * n + r
  <2>1. x - q * n \in 0 .. n - 1 /\ x = q * n + (x - q * n)
    BY <1>2
  <2> QED BY <2>1
<1>4. (q * n + r) % n = r
  BY DivMod
<1> QED BY <1>1, <1>3, <1>4

(***************************************************************************)
(* steps_between.                                                          *)
(***************************************************************************)
LEMMA StepsArePositions ==
  ASSUME NEW a \in Canonical, NEW b \in Canonical, a <= b
  PROVE  (b - a) % ADDRESS_SPACE_SIZE = Position(b) - Position(a)
<1> DEFINE n == 2 * HALF
           r == Position(b) - Position(a)
<1>1. n \in Nat \ {0} /\ ADDRESS_SPACE_SIZE = n
  BY WidthAssumption DEF ADDRESS_SPACE_SIZE
<1>2. r \in 0 .. n - 1 /\ (b - a = r \/ b - a = r + (U64 - n))
  BY WidthAssumption DEF Canonical, LowerHalf, UpperHalf, Position
<1>3. PICK k \in Int : U64 = k * n
  <2>1. PICK u \in Int : u = U64
    BY WidthAssumption
  <2>2. u % n = 0
    BY <2>1, WidthAssumption
  <2> HIDE DEF n
  <2>3. \E q \in Int, r0 \in 0 .. n - 1 : u = q * n + r0 /\ u % n = r0 /\ u \div n = q
    BY <1>1, Euclid
  <2>4. PICK q \in Int, r0 \in 0 .. n - 1 : u = q * n + r0 /\ u % n = r0
    BY <2>3
  <2>5. u = q * n
    BY <1>1, <2>2, <2>4
  <2> QED BY <2>1, <2>5
<1> HIDE DEF n, r
<1>4. PICK q \in Int : b - a = q * n + r
  <2>1. b - a = r => b - a = 0 * n + r
    BY <1>1, <1>2
  <2>2. b - a = r + (U64 - n) => b - a = (k - 1) * n + r
    BY <1>1, <1>2, <1>3
  <2> QED BY <1>2, <2>1, <2>2
<1>5. (q * n + r) % n = r
  BY <1>1, <1>2, DivMod
<1> QED BY <1>1, <1>4, <1>5 DEF r

\* steps_between, forward_checked and backward_checked agree with each other and with
\* the places of the addresses, across the gap.
THEOREM StepsBetweenCorrect == AddrSpec => []StepsBetweenAgree
<1>1. AlwaysCanonical => StepsBetweenAgree
  <2> SUFFICES ASSUME saved \in Canonical, current \in Canonical PROVE StepsBetweenAgree
    BY DEF AlwaysCanonical
  <2> DEFINE steps == steps_between_u64(saved, current)
  <2>1. saved \in Int /\ current \in Int
    BY CanonicalIsWord DEF Word
  <2>2. CASE saved > current
    BY <2>1, <2>2 DEF StepsBetweenAgree, steps_between_u64
  <2>3. CASE saved <= current
    <3>1. steps = Position(current) - Position(saved)
      BY <2>1, <2>3, StepsArePositions DEF steps_between_u64
    <3>2. /\ steps \in Word /\ Position(saved) + steps = Position(current)
          /\ Position(current) - steps = Position(saved)
      BY <2>3, <3>1, WidthAssumption DEF Word, Canonical, LowerHalf, UpperHalf, Position
    <3>3. AtPosition(Position(current)) = current /\ AtPosition(Position(saved)) = saved
      BY WidthAssumption DEF AtPosition, Position, Canonical, LowerHalf, UpperHalf, None
    <3> HIDE DEF steps
    <3>4. forward_checked_u64(saved, steps) = current
      BY <3>2, <3>3, ForwardIsLinear
    <3>5. backward_checked_u64(current, steps) = saved
      BY <3>2, <3>3, BackwardIsLinear
    <3> QED BY <2>1, <2>3, <3>1, <3>4, <3>5 DEF StepsBetweenAgree, steps
  <2> QED BY <2>1, <2>2, <2>3
<1> QED BY <1>1, CanonicalCorrect, PTL

(***************************************************************************)
(* align_down and align_up.                                                *)
(***************************************************************************)
\* What the multiples of n need: sums and differences, the next one, the one below.
LEMMA MultipleOf ==
  ASSUME NEW n \in Nat \ {0}, NEW x \in Int
  PROVE  x % n = 0 <=> \E q \in Int : x = q * n
<1>1. ASSUME x % n = 0 PROVE \E q \in Int : x = q * n
  <2>1. PICK q \in Int, r \in 0 .. n - 1 : x = q * n + r /\ x % n = r
    BY Euclid
  <2>2. x = q * n
    BY <1>1, <2>1
  <2> QED BY <2>2
<1>2. ASSUME NEW q \in Int, x = q * n PROVE x % n = 0
  <2>1. (q * n + 0) % n = 0
    BY DivMod
  <2>2. q * n + 0 = x
    BY <1>2
  <2> QED BY <2>1, <2>2
<1> QED BY <1>1, <1>2

LEMMA MultipleSum ==
  ASSUME NEW n \in Nat \ {0}, NEW x \in Int, NEW y \in Int, x % n = 0, y % n = 0
  PROVE  (x + y) % n = 0 /\ (x - y) % n = 0
<1>1. PICK p \in Int : x = p * n
  BY MultipleOf
<1>2. PICK q \in Int : y = q * n
  BY MultipleOf
<1>3. x + y = (p + q) * n /\ x - y = (p - q) * n /\ p + q \in Int /\ p - q \in Int
  BY <1>1, <1>2
<1>4. x + y \in Int /\ x - y \in Int
  OBVIOUS
<1>5. (x + y) % n = 0
  BY <1>3, <1>4, MultipleOf
<1>6. (x - y) % n = 0
  BY <1>3, <1>4, MultipleOf
<1> QED BY <1>5, <1>6

LEMMA NextMultiple ==
  ASSUME NEW n \in Nat \ {0}, NEW x \in Int, NEW y \in Int, x % n = 0, y % n = 0, x < y
  PROVE  x + n <= y
<1>1. (y - x) % n = 0 /\ y - x \in Int
  <2>1. (y + x) % n = 0 /\ (y - x) % n = 0
    BY MultipleSum
  <2> QED BY <2>1
<1>2. PICK q \in Int : y - x = q * n
  BY <1>1, MultipleOf
<1>3. q >= 1
  <2>1. q * n > 0 /\ n > 0
    BY <1>2
  <2>2. ~(q <= 0)
    <3> SUFFICES ASSUME q <= 0 PROVE FALSE
      OBVIOUS
    <3>1. q * n <= 0
      BY <2>1
    <3> QED BY <2>1, <3>1
  <2> QED BY <2>2
<1>4. q * n >= n
  BY <1>3
<1> QED BY <1>2, <1>4

LEMMA AlignDownIsMultiple ==
  ASSUME NEW n \in Nat \ {0}, NEW x \in Int
  PROVE  /\ align_down(x, n) \in Int /\ align_down(x, n) % n = 0
         /\ align_down(x, n) <= x /\ x < align_down(x, n) + n
         /\ x % n = 0 => align_down(x, n) = x
<1>1. PICK q \in Int, r \in 0 .. n - 1 : x = q * n + r /\ x % n = r
  BY Euclid
<1>2. align_down(x, n) = q * n
  BY <1>1 DEF align_down
<1>3. (q * n) % n = 0
  BY MultipleOf
<1> QED BY <1>1, <1>2, <1>3

\* Of an alignment that divides a half, the other boundaries are multiples too.
LEMMA AlignsBoundaries ==
  ASSUME NEW n \in Nat \ {0}, HALF % n = 0
  PROVE  U64 % n = 0 /\ (U64 - HALF) % n = 0
<1>1. HALF \in Int /\ U64 \in Int
  BY WidthAssumption
<1>2. PICK u \in Int, h \in Int : u = U64 /\ h = HALF /\ h % n = 0
  BY <1>1
<1>3. PICK d \in Nat \ {0} : d = 2 * h /\ u % d = 0
  BY <1>2, WidthAssumption
<1>4. PICK q \in Int : u = q * d
  BY <1>3, MultipleOf
<1>5. PICK p \in Int : h = p * n
  BY <1>1, <1>2, MultipleOf
<1>6. u = (2 * q * p) * n /\ 2 * q * p \in Int
  BY <1>1, <1>3, <1>4, <1>5
<1>7. u % n = 0
  BY <1>1, <1>6, MultipleOf
<1>8. (u - h) % n = 0
  BY <1>1, <1>2, <1>7, MultipleSum
<1> QED BY <1>1, <1>2, <1>7, <1>8

\* A canonical address is what new_truncate makes of it; the first address after the
\* lower half becomes the first of the upper one.
LEMMA TruncateFixes ==
  /\ \A a \in Canonical : new_truncate(a) = a
  /\ new_truncate(HALF) = U64 - HALF
<1>1. PICK n \in Nat \ {0}, u \in Int : n = 2 * HALF /\ u = U64 /\ u % n = 0
  BY WidthAssumption
<1>2. PICK k \in Int : u = k * n
  BY <1>1, MultipleOf
<1>3. ASSUME NEW r \in 0 .. n - 1 PROVE r % n = r /\ (r + (u - n)) % n = r
  <2>1. (0 * n + r) % n = r
    BY DivMod
  <2>2. ((k - 1) * n + r) % n = r
    <3>1. k - 1 \in Int
      OBVIOUS
    <3> QED BY <3>1, DivMod
  <2>3. 0 * n + r = r /\ (k - 1) * n + r = r + (u - n)
    BY <1>1, <1>2
  <2> QED BY <2>1, <2>2, <2>3
<1>4. ASSUME NEW a \in LowerHalf PROVE new_truncate(a) = a
  <2>1. a \in 0 .. n - 1 /\ a < HALF
    BY <1>1, WidthAssumption DEF LowerHalf
  <2>2. a % n = a
    BY <1>3, <2>1
  <2> QED BY <1>1, <2>1, <2>2 DEF new_truncate
<1>5. ASSUME NEW a \in UpperHalf PROVE new_truncate(a) = a
  <2>1. PICK r \in 0 .. n - 1 : r = a - (u - n) /\ ~(r < HALF) /\ a = r + (u - n)
    <3>1. a - (u - n) \in 0 .. n - 1 /\ ~(a - (u - n) < HALF)
      BY <1>1, WidthAssumption DEF UpperHalf
    <3> QED BY <1>1, <3>1, WidthAssumption DEF UpperHalf
  <2>2. a % n = r
    BY <1>3, <2>1
  <2> QED BY <1>1, <2>1, <2>2 DEF new_truncate
<1>6. new_truncate(HALF) = U64 - HALF
  <2>1. PICK h \in 0 .. n - 1 : h = HALF
    BY <1>1, WidthAssumption
  <2>2. h % n = h
    BY <1>3
  <2> QED BY <1>1, <2>1, <2>2, WidthAssumption DEF new_truncate
<1> QED BY <1>4, <1>5, <1>6 DEF Canonical

\* Every alignment within a half is to the nearest aligned canonical address.
LEMMA AlignNearest ==
  ASSUME NEW n \in Nat \ {0}, HALF % n = 0, NEW e \in Canonical
  PROVE  LET down == virt_align_down(e, n)
             up == virt_align_up(e, n)
         IN  /\ down \in Multiples(n) /\ down <= e
             /\ \A a \in Multiples(n) : a <= e => a <= down
             /\ up = None <=> \A a \in Multiples(n) : a < e
             /\ up # None => /\ up \in Multiples(n) /\ e <= up
                             /\ \A a \in Multiples(n) : e <= a => up <= a
<1>1. /\ n \in Nat \ {0} /\ n \in Int /\ e \in Int /\ e >= 0 /\ HALF \in Int /\ U64 \in Int
      /\ U64 - HALF \in Int
      /\ HALF % n = 0 /\ U64 % n = 0 /\ (U64 - HALF) % n = 0
  <2>1. U64 % n = 0 /\ (U64 - HALF) % n = 0
    BY AlignsBoundaries
  <2> QED BY <2>1, WidthAssumption DEF Canonical, LowerHalf, UpperHalf
<1>2. PICK d \in Int : d = align_down(e, n)
  BY <1>1, AlignDownIsMultiple
<1>3. d % n = 0 /\ d <= e /\ e < d + n /\ (e % n = 0 => d = e)
  BY <1>1, <1>2, AlignDownIsMultiple
<1>4. ASSUME NEW a \in Int, a % n = 0 PROVE a <= e <=> a <= d
  <2>1. d < a => d + n <= a
    BY <1>1, <1>3, <1>4, NextMultiple
  <2> QED BY <1>1, <1>3, <2>1
<1>5. d \in Canonical
  <2>1. 0 % n = 0
    <3>1. (0 * n + 0) % n = 0
      BY <1>1, DivMod
    <3> QED BY <1>1, <3>1
  <2>2. 0 <= d
    BY <1>1, <1>4, <2>1
  <2>3. U64 - HALF <= e <=> U64 - HALF <= d
    BY <1>1, <1>4
  <2> QED BY <1>1, <1>3, <2>2, <2>3, WidthAssumption DEF Canonical, LowerHalf, UpperHalf
<1>6. virt_align_down(e, n) = d
  BY <1>2, <1>5, TruncateFixes DEF virt_align_down
<1>7. \A a \in Canonical : a \in Int
  BY WidthAssumption DEF Canonical, LowerHalf, UpperHalf
<1>8. /\ d \in Multiples(n) /\ d <= e
      /\ \A a \in Multiples(n) : a <= e => a <= d
  BY <1>3, <1>4, <1>5, <1>7 DEF Multiples
<1>9. PICK v : v = virt_align_up(e, n)
  OBVIOUS
<1>10. /\ v = None <=> \A a \in Multiples(n) : a < e
       /\ v # None => /\ v \in Multiples(n) /\ e <= v
                      /\ \A a \in Multiples(n) : e <= a => v <= a
  <2>1. CASE e % n = 0
    <3>1. v = e
      BY <1>9, <1>1, <2>1, TruncateFixes DEF virt_align_up, align_up, None
    <3>2. e \in Multiples(n) /\ e # None
      BY <1>1, <2>1 DEF Multiples, None
    <3> QED BY <1>1, <3>1, <3>2
  <2>2. CASE e % n # 0
    <3>1. d < e /\ d + n \in Int /\ (d + n) % n = 0
      <4>1. n % n = 0
        <5>1. (1 * n + 0) % n = 0
          BY <1>1, DivMod
        <5> QED BY <1>1, <5>1
      <4>2. (d + n) % n = 0
        BY <1>1, <1>3, <4>1, MultipleSum
      <4>3. d # e
        BY <1>3, <2>2
      <4> QED BY <1>1, <1>3, <4>2, <4>3
    <3>2. align_up(e, n) = IF d + n < U64 THEN d + n ELSE None
      BY <1>1, <1>2, <1>5, <1>7, <2>2, WidthAssumption
         DEF align_up, checked_add, None, Canonical, LowerHalf, UpperHalf
    <3>3. ASSUME NEW a \in Multiples(n) PROVE a \in Int /\ (e <= a <=> d + n <= a)
      <4>1. a \in Int /\ a % n = 0
        BY <1>7 DEF Multiples
      <4>2. d < a => d + n <= a
        BY <1>1, <1>3, <4>1, NextMultiple
      <4> QED BY <1>1, <1>3, <3>1, <4>1, <4>2
    <3>4. e < HALF => d + n <= HALF
      <4>1. d < HALF => d + n <= HALF
        BY <1>1, <1>3, NextMultiple
      <4> QED BY <1>1, <1>3, <4>1
    <3>5. d + n <= U64
      <4>1. d < U64 => d + n <= U64
        BY <1>1, <1>3, NextMultiple
      <4> QED BY <1>5, <4>1, WidthAssumption DEF Canonical, LowerHalf, UpperHalf
    <3>6. CASE d + n = U64
      <4>1. v = None
        BY <1>9, <3>2, <3>6, WidthAssumption DEF virt_align_up
      <4>2. \A a \in Multiples(n) : a < e
        <5> SUFFICES ASSUME NEW a \in Multiples(n) PROVE a < e
          OBVIOUS
        <5>1. a \in Int /\ a < U64
          BY WidthAssumption DEF Multiples, Canonical, LowerHalf, UpperHalf
        <5>2. e <= a <=> d + n <= a
          BY <3>3
        <5> QED BY <1>1, <3>6, <5>1, <5>2
      <4> QED BY <4>1, <4>2
    <3>7. CASE d + n = HALF
      <4>1. v = U64 - HALF
        <5>1. align_up(e, n) = HALF /\ HALF # None
          BY <3>2, <3>7, WidthAssumption DEF None
        <5> QED BY <1>9, <5>1, TruncateFixes DEF virt_align_up
      <4>2. v \in Multiples(n) /\ v # None
        BY <1>1, <4>1, WidthAssumption DEF Multiples, Canonical, UpperHalf, None
      <4>3. e <= v
        BY <1>1, <3>1, <3>7, <1>3, <4>1, WidthAssumption
      <4>4. \A a \in Multiples(n) : e <= a => v <= a
        <5> SUFFICES ASSUME NEW a \in Multiples(n), e <= a PROVE v <= a
          OBVIOUS
        <5>1. a \in Int /\ HALF <= a
          BY <3>3, <3>7
        <5> QED BY <4>1, <5>1, WidthAssumption DEF Multiples, Canonical, LowerHalf, UpperHalf
      <4>5. ~(v < e)
        BY <1>1, <4>1, <4>3
      <4> QED BY <4>2, <4>3, <4>4, <4>5
    <3>8. CASE d + n # U64 /\ d + n # HALF
      <4>1. d + n \in Canonical
        BY <1>1, <1>3, <1>5, <3>1, <3>4, <3>5, <3>8, WidthAssumption
           DEF Canonical, LowerHalf, UpperHalf
      <4>2. align_up(e, n) = d + n /\ d + n # None
        BY <1>1, <3>1, <3>2, <3>5, <3>8, <4>1, WidthAssumption
           DEF Canonical, LowerHalf, UpperHalf, None
      <4>3. v = d + n
        BY <1>9, <4>1, <4>2, TruncateFixes DEF virt_align_up
      <4>4. v \in Multiples(n) /\ v # None /\ e <= v /\ ~(v < e)
        BY <1>1, <1>3, <3>1, <4>1, <4>2, <4>3 DEF Multiples
      <4>5. \A a \in Multiples(n) : e <= a => v <= a
        BY <3>3, <4>3
      <4> QED BY <4>4, <4>5
    <3> QED BY <3>6, <3>7, <3>8
  <2> QED BY <2>1, <2>2
<1> QED BY <1>6, <1>8, <1>9, <1>10

\* align_down and align_up answer the nearest aligned canonical addresses, at the
\* ends of the gap and of the address space as well.
THEOREM AlignCorrect == AddrSpec => []AlignIsNearest
<1>1. AlwaysCanonical => AlignIsNearest
  <2>1. \A n \in {m \in Aligns : m <= HALF} : n \in Nat \ {0} /\ HALF % n = 0
    BY ArgumentsAssumption, AlignsAssumption, WidthAssumption DEF Word
  <2> QED BY <2>1, AlignNearest DEF AlwaysCanonical, AlignIsNearest
<1> QED BY <1>1, CanonicalCorrect, PTL

(***************************************************************************)
(* The indices of a page.                                                  *)
(***************************************************************************)
\* The digits of a position: its indices and its offset in the page.
LEMMA Digits ==
  ASSUME NEW pos \in 0 .. 2 * HALF - 1
  PROVE  \E i4, i3, i2, i1 \in 0 .. ENTRIES - 1, o \in 0 .. PAGE - 1 :
           pos = (((i4 * ENTRIES + i3) * ENTRIES + i2) * ENTRIES + i1) * PAGE + o
<1>1. PICK E \in Nat \ {0}, P \in Nat \ {0} : E = ENTRIES /\ P = PAGE
  BY WidthAssumption
<1>2. pos \in Int /\ 0 <= pos /\ pos < P * E * E * E * E
  BY <1>1, LayoutAssumption, WidthAssumption
<1>3. PICK n \in Int, o \in 0 .. P - 1 : pos = n * P + o
  BY <1>2, Euclid
<1>4. PICK a1 \in Int, i1 \in 0 .. E - 1 : n = a1 * E + i1
  BY Euclid
<1>5. PICK a2 \in Int, i2 \in 0 .. E - 1 : a1 = a2 * E + i2
  BY Euclid
<1>6. PICK i4 \in Int, i3 \in 0 .. E - 1 : a2 = i4 * E + i3
  BY Euclid
<1>7. ASSUME NEW x \in Int, NEW m \in Nat \ {0}, NEW b \in Int, NEW r \in 0 .. m - 1,
             0 <= x * m + r, x * m + r < b * m
      PROVE  0 <= x /\ x < b
  <2>1. (x * m + r) \div m = x
    BY DivMod
  <2>2. ~(x < 0)
    <3> SUFFICES ASSUME x < 0 PROVE FALSE
      OBVIOUS
    <3>1. x + 1 <= 0 /\ (x + 1) * m <= 0
      OBVIOUS
    <3>2. (x + 1) * m = x * m + m
      OBVIOUS
    <3> QED BY <1>7, <3>1, <3>2
  <2>3. ~(b <= x)
    <3> SUFFICES ASSUME b <= x PROVE FALSE
      OBVIOUS
    <3>1. b * m <= x * m
      OBVIOUS
    <3> QED BY <1>7, <3>1
  <2> QED BY <2>2, <2>3
<1>8. 0 <= n /\ n < E * E * E * E
  <2>1. E * E * E * E \in Int /\ n * P + o < (E * E * E * E) * P /\ 0 <= n * P + o
    BY <1>2, <1>3
  <2> QED BY <1>7, <2>1
<1>9. 0 <= a1 /\ a1 < E * E * E
  <2>1. E * E * E \in Int /\ a1 * E + i1 < (E * E * E) * E /\ 0 <= a1 * E + i1
    BY <1>4, <1>8
  <2> QED BY <1>7, <2>1
<1>10. 0 <= a2 /\ a2 < E * E
  <2>1. E * E \in Int /\ a2 * E + i2 < (E * E) * E /\ 0 <= a2 * E + i2
    BY <1>5, <1>9
  <2> QED BY <1>7, <2>1
<1>11. 0 <= i4 /\ i4 < E
  <2>1. i4 * E + i3 < E * E /\ 0 <= i4 * E + i3
    BY <1>6, <1>10
  <2> QED BY <1>7, <2>1
<1>12. i4 \in 0 .. E - 1
  BY <1>11
<1>13. pos = (((i4 * E + i3) * E + i2) * E + i1) * P + o
  BY <1>3, <1>4, <1>5, <1>6
<1> QED BY <1>1, <1>12, <1>13

\* The digits below a digit are less than what it counts.
LEMMA DigitsBelow ==
  ASSUME NEW E \in Nat \ {0}, NEW m \in Nat \ {0}, NEW i \in 0 .. E - 1, NEW L \in 0 .. m - 1
  PROVE  i * m + L \in 0 .. m * E - 1
<1>1. (E - 1) * m >= i * m /\ i * m >= 0
  OBVIOUS
<1>2. (E - 1) * m = m * E - m /\ i * m \in Int /\ m * E \in Int
  OBVIOUS
<1> QED BY <1>1, <1>2

\* The four indices of an address are the digits of its position.
LEMMA IndicesAreDigits ==
  ASSUME NEW i4 \in 0 .. ENTRIES - 1, NEW i3 \in 0 .. ENTRIES - 1,
         NEW i2 \in 0 .. ENTRIES - 1, NEW i1 \in 0 .. ENTRIES - 1,
         NEW o \in 0 .. PAGE - 1, NEW a \in Canonical,
         Position(a) = (((i4 * ENTRIES + i3) * ENTRIES + i2) * ENTRIES + i1) * PAGE + o
  PROVE  /\ page_table_index(a, 4) = i4 /\ page_table_index(a, 3) = i3
         /\ page_table_index(a, 2) = i2 /\ page_table_index(a, 1) = i1
<1>1. PICK E \in Nat \ {0}, P \in Nat \ {0} : E = ENTRIES /\ P = PAGE
  BY WidthAssumption
<1>2. /\ i4 \in 0 .. E - 1 /\ i3 \in 0 .. E - 1 /\ i2 \in 0 .. E - 1 /\ i1 \in 0 .. E - 1
      /\ o \in 0 .. P - 1
  BY <1>1
<1>3. PICK c \in Int : a = Position(a) + c * (P * E * E * E * E)
  <2>1. PICK u \in Int, d \in Nat \ {0} : u = U64 /\ d = 2 * HALF /\ u % d = 0
    BY WidthAssumption
  <2>2. PICK k \in Int : u = k * d
    BY <2>1, MultipleOf
  <2>3. d = P * E * E * E * E
    BY <1>1, <2>1, LayoutAssumption
  <2>4. a = Position(a) \/ a = Position(a) + (u - d)
    BY <2>1, WidthAssumption DEF Position, Canonical, LowerHalf, UpperHalf
  <2>5. Position(a) \in Int
    BY <2>1, WidthAssumption DEF Position, Canonical, LowerHalf, UpperHalf
  <2>6. u - d = (k - 1) * d /\ 0 * d = 0 /\ k - 1 \in Int
    BY <2>2
  <2>7. a = Position(a) + 0 * d \/ a = Position(a) + (k - 1) * d
    BY <2>4, <2>5, <2>6
  <2> QED BY <2>3, <2>6, <2>7
<1>4. PICK x \in Int : x = a
  BY WidthAssumption DEF Canonical, LowerHalf, UpperHalf
<1>5. x = (((i4 * E + i3) * E + i2) * E + i1) * P + o + c * (P * E * E * E * E)
  BY <1>1, <1>3, <1>4
<1>6. PICK m2 \in Nat \ {0}, m3 \in Nat \ {0}, m4 \in Nat \ {0} :
        m2 = P * E /\ m3 = m2 * E /\ m4 = m3 * E
  <2>1. ASSUME NEW p \in Nat \ {0}, NEW q \in Nat \ {0} PROVE p * q \in Nat \ {0}
    OBVIOUS
  <2> QED BY <2>1
<1>7. PICK L2 \in 0 .. m2 - 1 : L2 = i1 * P + o
  BY <1>2, <1>6, DigitsBelow
<1>8. PICK L3 \in 0 .. m3 - 1 : L3 = i2 * m2 + L2
  BY <1>2, <1>6, DigitsBelow
<1>9. PICK L4 \in 0 .. m4 - 1 : L4 = i3 * m3 + L3
  BY <1>2, <1>6, DigitsBelow
<1>10. PICK H3 \in Int, H2 \in Int, H1 \in Int :
         H3 = c * E + i4 /\ H2 = H3 * E + i3 /\ H1 = H2 * E + i2
  BY <1>2
<1>11. x = (H1 * E + i1) * P + o
  BY <1>2, <1>5, <1>10
<1>12. x = (H2 * E + i2) * m2 + L2
  BY <1>2, <1>6, <1>7, <1>10, <1>11
<1>13. x = (H3 * E + i3) * m3 + L3
  BY <1>2, <1>6, <1>8, <1>10, <1>12
<1>14. x = (c * E + i4) * m4 + L4
  BY <1>2, <1>6, <1>9, <1>10, <1>13
<1>15. (x \div P) % E = i1
  <2>1. PICK y \in Int : y = H1 * E + i1 /\ x = y * P + o
    BY <1>2, <1>11
  <2>2. (y * P + o) \div P = y
    <3>1. o \in 0 .. P - 1
      BY <1>2
    <3> QED BY <3>1, DivMod
  <2>3. (H1 * E + i1) % E = i1
    BY <1>2, DivMod
  <2> QED BY <2>1, <2>2, <2>3
<1>16. (x \div m2) % E = i2
  <2>1. PICK y \in Int : y = H2 * E + i2 /\ x = y * m2 + L2
    BY <1>2, <1>12
  <2>2. (y * m2 + L2) \div m2 = y
    BY <1>2, DivMod
  <2>3. (H2 * E + i2) % E = i2
    BY <1>2, DivMod
  <2> QED BY <2>1, <2>2, <2>3
<1>17. (x \div m3) % E = i3
  <2>1. PICK y \in Int : y = H3 * E + i3 /\ x = y * m3 + L3
    BY <1>2, <1>13
  <2>2. (y * m3 + L3) \div m3 = y
    BY <1>2, DivMod
  <2>3. (H3 * E + i3) % E = i3
    BY <1>2, DivMod
  <2> QED BY <2>1, <2>2, <2>3
<1>18. (x \div m4) % E = i4
  <2>1. PICK y \in Int : y = c * E + i4 /\ x = y * m4 + L4
    BY <1>2, <1>14
  <2>2. (y * m4 + L4) \div m4 = y
    BY <1>2, DivMod
  <2>3. (c * E + i4) % E = i4
    BY <1>2, DivMod
  <2> QED BY <2>1, <2>2, <2>3
<1>19. /\ PAGE * PagesBelow[1] = P /\ PAGE * PagesBelow[2] = m2
       /\ PAGE * PagesBelow[3] = m3 /\ PAGE * PagesBelow[4] = m4
  BY <1>1, <1>6 DEF PagesBelow
<1> QED BY <1>1, <1>4, <1>15, <1>16, <1>17, <1>18, <1>19 DEF page_table_index

LEMMA PageDividesHalf == HALF % PAGE = 0
<1>1. PICK E \in Nat \ {0}, P \in Nat \ {0}, h \in Int : E = ENTRIES /\ P = PAGE /\ h = HALF
  BY WidthAssumption
<1>2. PICK k \in Int : E = k * 2
  BY <1>1, LayoutAssumption
<1>3. h = (k * E * E * E) * P /\ k * E * E * E \in Int
  <2>1. P * E * E * E * E = 2 * h
    BY <1>1, LayoutAssumption
  <2>2. P * E * E * E * E = 2 * ((k * E * E * E) * P)
    BY <1>2
  <2> QED BY <2>1, <2>2
<1>4. h % P = 0
  BY <1>3, MultipleOf
<1> QED BY <1>1, <1>4

\* The page of an address begins an offset below it, in the same half.
LEMMA PageOfAddress ==
  ASSUME NEW a \in Canonical, NEW n \in Int, NEW o \in 0 .. PAGE - 1,
         Position(a) = n * PAGE + o
  PROVE  /\ containing_address(a, PAGE) \in Canonical
         /\ containing_address(a, PAGE) % PAGE = 0
         /\ Position(containing_address(a, PAGE)) = n * PAGE
         /\ n * PAGE \in 0 .. 2 * HALF - 1
<1>1. PICK P \in Nat \ {0} : P = PAGE /\ HALF % P = 0
  BY WidthAssumption, PageDividesHalf
<1>2. a # None /\ a \in Int
  BY WidthAssumption DEF Canonical, LowerHalf, UpperHalf, None
<1>3. PICK down : down = virt_align_down(a, P)
  OBVIOUS
<1>4. /\ down \in Multiples(P) /\ down <= a
      /\ \A b \in Multiples(P) : b <= a => b <= down
  BY <1>1, <1>3, AlignNearest
<1>5. down \in Canonical /\ down \in Int /\ down % P = 0
  BY <1>4, WidthAssumption DEF Multiples, Canonical, LowerHalf, UpperHalf
<1>6. U64 % P = 0 /\ (U64 - HALF) % P = 0
  BY <1>1, AlignsBoundaries
<1>7. U64 - HALF <= a => U64 - HALF <= down
  <2>1. U64 - HALF \in Multiples(P)
    BY <1>6, WidthAssumption DEF Multiples, Canonical, UpperHalf
  <2> QED BY <1>4, <2>1
<1>8. Position(a) - Position(down) = a - down /\ Position(a) \in Int
      /\ Position(down) \in 0 .. 2 * HALF - 1
  BY <1>2, <1>4, <1>5, <1>7, WidthAssumption DEF Position, Canonical, LowerHalf, UpperHalf
<1>9. a - down \in 0 .. P - 1
  <2>1. a - P < down
    <3>1. PICK d \in Int : d = align_down(a, P) /\ d % P = 0 /\ d <= a /\ a < d + P
      BY <1>1, <1>2, AlignDownIsMultiple
    <3>2. d > down => d >= down + P
      BY <1>5, <3>1, NextMultiple
    <3>3. down = d
      <4>1. d \in Canonical
        <5>1. 0 % P = 0 /\ (0 < d + P) /\ (U64 - HALF <= a => U64 - HALF < d + P)
          <6>1. (0 * P + 0) % P = 0
            BY DivMod
          <6> QED BY <1>2, <3>1, <6>1, WidthAssumption DEF Canonical, LowerHalf, UpperHalf
        <5>2. d < 0 => d + P <= 0
          BY <3>1, <5>1, NextMultiple
        <5>3. PICK b \in Int : b = U64 - HALF /\ b % P = 0
          BY <1>6, WidthAssumption
        <5>4. d < b => d + P <= b
          BY <3>1, <5>3, NextMultiple
        <5> QED BY <1>2, <3>1, <5>1, <5>2, <5>3, <5>4, WidthAssumption
               DEF Canonical, LowerHalf, UpperHalf
      <4> QED BY <1>3, <3>1, <4>1, TruncateFixes DEF virt_align_down
    <3> QED BY <1>2, <3>1, <3>3
  <2> QED BY <1>2, <1>4, <1>5, <2>1
<1>10. Position(down) = n * P
  <2>1. PICK w \in Int, s \in 0 .. P - 1 : w = Position(down) /\ s = a - down
    BY <1>8, <1>9
  <2>2. o \in 0 .. P - 1
    BY <1>1
  <2>3. n * P + o = w + s
    BY <1>1, <1>8, <2>1
  <2>4. w % P = 0
    <3>1. down < HALF => w = down
      BY <2>1 DEF Position
    <3>2. ~(down < HALF) => w = down - (U64 - HALF) + HALF
      BY <1>5, <2>1, WidthAssumption DEF Position
    <3>3. PICK b \in Int, h \in Int : b = U64 - HALF /\ b % P = 0 /\ h = HALF /\ h % P = 0
      BY <1>1, <1>6, WidthAssumption
    <3>4. (down - b) % P = 0 /\ down - b \in Int
      BY <1>5, <3>3, MultipleSum
    <3>5. (down - b + h) % P = 0
      BY <3>3, <3>4, MultipleSum
    <3> QED BY <1>5, <3>1, <3>2, <3>3, <3>5
  <2>5. PICK q \in Int : w = q * P
    BY <2>4, MultipleOf
  <2>6. (n * P + o) \div P = n /\ (q * P + s) \div P = q
    BY <2>2, DivMod
  <2>7. n = q
    BY <2>3, <2>5, <2>6
  <2> QED BY <2>1, <2>5, <2>7
<1> QED BY <1>1, <1>2, <1>3, <1>5, <1>8, <1>10 DEF containing_address

\* The indices of a page name it, and count the pages from the first one on.
THEOREM IndicesCorrect == AddrSpec => []IndicesNamePages
<1>1. ASSUME current \in Canonical PROVE IndicesNamePages
  <2>1. Position(current) \in 0 .. 2 * HALF - 1
    BY <1>1, WidthAssumption DEF Position, Canonical, LowerHalf, UpperHalf
  <2>2. PICK i4 \in 0 .. ENTRIES - 1, i3 \in 0 .. ENTRIES - 1, i2 \in 0 .. ENTRIES - 1,
             i1 \in 0 .. ENTRIES - 1, o \in 0 .. PAGE - 1 :
          Position(current) = (((i4 * ENTRIES + i3) * ENTRIES + i2) * ENTRIES + i1) * PAGE + o
    BY <2>1, Digits
  <2>3. /\ page_table_index(current, 4) = i4 /\ page_table_index(current, 3) = i3
        /\ page_table_index(current, 2) = i2 /\ page_table_index(current, 1) = i1
    BY <1>1, <2>2, IndicesAreDigits
  <2>4. PICK n \in Int : n = ((i4 * ENTRIES + i3) * ENTRIES + i2) * ENTRIES + i1
    BY WidthAssumption
  <2>5. PICK page : page = containing_address(current, PAGE)
    OBVIOUS
  <2>6. /\ page \in Canonical /\ page % PAGE = 0
        /\ Position(page) = n * PAGE /\ n * PAGE \in 0 .. 2 * HALF - 1
    BY <1>1, <2>2, <2>4, <2>5, PageOfAddress
  <2>7. Position(page) \div PAGE = n
    <3>1. PICK P \in Nat \ {0} : P = PAGE
      BY WidthAssumption
    <3>2. (n * P + 0) \div P = n
      BY DivMod
    <3> QED BY <2>6, <3>1, <3>2
  <2>8. new_truncate(PAGE * n) = page
    <3>1. PICK w \in 0 .. 2 * HALF - 1 : w = Position(page) /\ w = PAGE * n
      BY <2>6, WidthAssumption
    <3>2. w % (2 * HALF) = w
      BY WidthAssumption
    <3> QED BY <2>6, <3>1, <3>2, WidthAssumption
            DEF new_truncate, Position, Canonical, LowerHalf, UpperHalf
  <2>9. virt_align_down(page, PAGE) = page
    <3>1. PICK P \in Nat \ {0} : P = PAGE
      BY WidthAssumption
    <3>2. align_down(page, P) = page
      BY <2>6, <3>1, AlignDownIsMultiple, WidthAssumption DEF Canonical, LowerHalf, UpperHalf
    <3> QED BY <2>6, <3>1, <3>2, TruncateFixes DEF virt_align_down
  <2>10. from_page_table_indices(i4, i3, i2, i1) = page
    BY <2>4, <2>8, <2>9 DEF from_page_table_indices
  <2> QED BY <2>3, <2>4, <2>5, <2>7, <2>10 DEF IndicesNamePages
<1> QED BY <1>1, CanonicalCorrect, PTL DEF AlwaysCanonical
=============================================================================
