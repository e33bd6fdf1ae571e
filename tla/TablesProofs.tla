---------------------------- MODULE TablesProofs ----------------------------
(***************************************************************************)
(* Proofs about the descriptor tables (Gdt, Idt), for every size of the    *)
(* GDT that append allows, every sequence of calls, every address of the   *)
(* task state segment and every table from_raw_entries starts from.        *)
(***************************************************************************)
EXTENDS Idt, SequenceTheorems, TLAPS

Bits == 0 .. 63

(***************************************************************************)
(* Sets of bits.                                                           *)
(***************************************************************************)
LEMMA GetBits ==
  ASSUME NEW word \in SUBSET Bits, NEW lo \in Int, NEW hi \in Int, NEW x
  PROVE  x \in get_bits(word, lo, hi) <=> x \in Int /\ x >= 0 /\ x + lo < hi /\ x + lo \in word
<1>1. ASSUME x \in get_bits(word, lo, hi)
      PROVE  x \in Int /\ x >= 0 /\ x + lo < hi /\ x + lo \in word
  <2>1. PICK b \in word \cap lo .. (hi - 1) : x = b - lo
    BY <1>1 DEF get_bits
  <2> QED BY <2>1 DEF Bits
<1>2. ASSUME x \in Int, x >= 0, x + lo < hi, x + lo \in word
      PROVE  x \in get_bits(word, lo, hi)
  <2>1. x + lo \in word \cap lo .. (hi - 1) /\ x = (x + lo) - lo
    BY <1>2
  <2> QED BY <2>1 DEF get_bits
<1> QED BY <1>1, <1>2

LEMMA AtBits ==
  ASSUME NEW lo \in Int, NEW bits \in SUBSET Int, NEW x
  PROVE  x \in at(lo, bits) <=> x \in Int /\ x - lo \in bits
<1>1. ASSUME x \in at(lo, bits) PROVE x \in Int /\ x - lo \in bits
  <2>1. PICK b \in bits : x = b + lo
    BY <1>1 DEF at
  <2>2. b \in Int /\ x - lo = b
    BY <2>1
  <2> QED BY <2>1, <2>2
<1>2. ASSUME x \in Int, x - lo \in bits PROVE x \in at(lo, bits)
  <2>1. x = (x - lo) + lo
    BY <1>2
  <2> QED BY <1>2, <2>1 DEF at
<1> QED BY <1>1, <1>2

LEMMA GetBitsType ==
  ASSUME NEW word \in SUBSET Bits, NEW lo \in Int, NEW hi \in Int
  PROVE  get_bits(word, lo, hi) \in SUBSET Int
BY GetBits

\* The words of a TSS descriptor, bit by bit.
LEMMA TssWords ==
  /\ tss_segment[1] \in SUBSET Bits /\ tss_segment[2] \in SUBSET Bits /\ Len(tss_segment) = 2
  /\ \A x \in Bits :
       x \in tss_segment[1] <=>
         \/ x \in {0, 1, 2, 5, 6, 40, 43, 47}
         \/ x \in 16 .. 39 /\ x - 16 \in TssAddr
         \/ x \in 56 .. 63 /\ x - 32 \in TssAddr
  /\ \A x \in Bits : x \in tss_segment[2] <=> x <= 31 /\ x + 32 \in TssAddr
<1> DEFINE low == get_bits(TssAddr, 0, 24)
           mid == get_bits(TssAddr, 24, 32)
           high == get_bits(TssAddr, 32, 64)
<1>1. TssAddr \in SUBSET Bits /\ TssAddr \in SUBSET Int
  BY GdtAssumption DEF Bits
<1>2. /\ \A x : x \in low <=> x \in Int /\ x >= 0 /\ x < 24 /\ x \in TssAddr
      /\ \A x : x \in mid <=> x \in Int /\ x >= 0 /\ x + 24 < 32 /\ x + 24 \in TssAddr
      /\ \A x : x \in high <=> x \in Int /\ x >= 0 /\ x + 32 < 64 /\ x + 32 \in TssAddr
  <2>1. ASSUME NEW x PROVE x \in low <=> x \in Int /\ x >= 0 /\ x + 0 < 24 /\ x + 0 \in TssAddr
    BY <1>1, GetBits
  <2>2. ASSUME NEW x \in Int PROVE x + 0 = x
    OBVIOUS
  <2>3. ASSUME NEW x
        PROVE  x \in mid <=> x \in Int /\ x >= 0 /\ x + 24 < 32 /\ x + 24 \in TssAddr
    BY <1>1, GetBits
  <2>4. ASSUME NEW x
        PROVE  x \in high <=> x \in Int /\ x >= 0 /\ x + 32 < 64 /\ x + 32 \in TssAddr
    BY <1>1, GetBits
  <2> HIDE DEF low, mid, high
  <2> QED BY <2>1, <2>2, <2>3, <2>4
<1> HIDE DEF low, mid, high
<1>3. low \in SUBSET Int /\ mid \in SUBSET Int
  BY <1>2
<1>4. /\ \A x : x \in at(16, low) <=> x \in Int /\ x - 16 \in low
      /\ \A x : x \in at(56, mid) <=> x \in Int /\ x - 56 \in mid
  BY <1>3, AtBits
<1>5. /\ tss_segment[1] = {47} \cup at(16, low) \cup at(56, mid) \cup {0, 1, 2, 5, 6} \cup {40, 43}
      /\ tss_segment[2] = high /\ Len(tss_segment) = 2
  BY DEF tss_segment, low, mid, high, PRESENT
<1>6. \A x : x \in tss_segment[1] <=>
               \/ x \in {0, 1, 2, 5, 6, 40, 43, 47}
               \/ x \in 16 .. 39 /\ x - 16 \in TssAddr
               \/ x \in 56 .. 63 /\ x - 32 \in TssAddr
  <2> SUFFICES ASSUME NEW x PROVE
               x \in tss_segment[1] <=>
               \/ x \in {0, 1, 2, 5, 6, 40, 43, 47}
               \/ x \in 16 .. 39 /\ x - 16 \in TssAddr
               \/ x \in 56 .. 63 /\ x - 32 \in TssAddr
    OBVIOUS
  <2>1. x \in at(16, low) <=> x \in 16 .. 39 /\ x - 16 \in TssAddr
    BY <1>2, <1>4
  <2>2. x \in at(56, mid) <=> x \in 56 .. 63 /\ x - 32 \in TssAddr
    <3>1. ASSUME x \in Int PROVE (x - 56) + 24 = x - 32
      BY <3>1
    <3> QED BY <1>2, <1>4, <3>1
  <2> QED BY <1>5, <2>1, <2>2
<1>7. \A x : x \in tss_segment[2] <=> x \in Int /\ x >= 0 /\ x <= 31 /\ x + 32 \in TssAddr
  BY <1>2, <1>5
<1> QED BY <1>5, <1>6, <1>7 DEF Bits

LEMMA ConcatPair ==
  ASSUME NEW a, NEW b
  PROVE  <<a>> \o <<b>> = <<a, b>>
<1> DEFINE t == <<a>> \o <<b>>
           u == <<a, b>>
           S == {a, b}
<1>1. /\ <<a>> \in Seq(S) /\ Len(<<a>>) = 1 /\ <<a>>[1] = a
      /\ <<b>> \in Seq(S) /\ Len(<<b>>) = 1 /\ <<b>>[1] = b
      /\ u \in Seq(S) /\ Len(u) = 2 /\ u[1] = a /\ u[2] = b
  OBVIOUS
<1>2. t \in Seq(S) /\ Len(t) = 2 /\ t[1] = a /\ t[2] = b
  BY <1>1, ConcatProperties
<1> HIDE DEF t, u, S
<1>3. t = u
  BY <1>1, <1>2, SeqEqual
<1> QED BY <1>3 DEF t, u

(***************************************************************************)
(* Descriptors.                                                            *)
(***************************************************************************)
Words == SUBSET Bits

LEMMA LevelType == \A bits : Level(bits) \in 0 .. 3
BY DEF Level

LEMMA DescriptorFacts ==
  ASSUME NEW d \in Descriptors
  PROVE  /\ Len(d) \in {1, 2} /\ d \in Seq(Words) /\ dpl(d) \in 0 .. 3
         /\ d[1] \in Words /\ (Len(d) = 2 => d[2] \in Words)
         /\ USER_SEGMENT \in d[1] <=> Len(d) = 1
         /\ Len(d) = 2 <=> d = tss_segment
<1>1. dpl(d) \in 0 .. 3
  BY LevelType DEF dpl
<1>2. CASE d = tss_segment
  <2>1. Len(d) = 2 /\ d[1] \in Words /\ d[2] \in Words
    BY <1>2, TssWords DEF Words
  <2>2. d \in Seq(Words)
    <3>1. d = <<d[1], d[2]>>
      BY <1>2 DEF tss_segment
    <3> HIDE <1>2
    <3>2. ASSUME NEW a \in Words, NEW b \in Words PROVE <<a, b>> \in Seq(Words)
      OBVIOUS
    <3> QED BY <2>1, <3>1, <3>2
  <2>3. USER_SEGMENT \notin d[1]
    BY <1>2, TssWords DEF USER_SEGMENT, Bits
  <2> QED BY <1>1, <1>2, <2>1, <2>2, <2>3
<1>3. CASE d # tss_segment
  <2>1. PICK w : d = <<w>> /\ w \in {KERNEL_CODE64, KERNEL_DATA, USER_DATA, USER_CODE64}
    BY <1>3 DEF Descriptors
  <2>2. w \in Words /\ USER_SEGMENT \in w
    BY <2>1 DEF KERNEL_CODE64, KERNEL_DATA, USER_DATA, USER_CODE64, COMMON, Words, Bits,
                USER_SEGMENT, PRESENT, WRITABLE, ACCESSED, GRANULARITY, EXECUTABLE, LONG_MODE,
                LIMIT_0_15, LIMIT_16_19, DEFAULT_SIZE, DPL_RING_3
  <2>3. Len(d) = 1 /\ d[1] = w /\ d \in Seq(Words)
    BY <2>1, <2>2
  <2> QED BY <1>1, <1>3, <2>2, <2>3
<1> QED BY <1>2, <1>3

\* The bit that ltr sets is not one of those that hold the level or the kind.
LEMMA BusyApart ==
  ASSUME NEW a \in Words, NEW b \in Words, a \ {Busy} = b \ {Busy}
  PROVE  /\ Level(get_bits(a, 45, 47)) = Level(get_bits(b, 45, 47))
         /\ \A x : x # Busy => (x \in a <=> x \in b)
<1>1. \A x : x # Busy => (x \in a <=> x \in b)
  OBVIOUS
<1>2. 0 \in get_bits(a, 45, 47) <=> 0 \in get_bits(b, 45, 47)
  <2>1. 45 \in a <=> 45 \in b
    BY <1>1 DEF Busy
  <2> QED BY <2>1, GetBits DEF Words
<1>3. 1 \in get_bits(a, 45, 47) <=> 1 \in get_bits(b, 45, 47)
  <2>1. 46 \in a <=> 46 \in b
    BY <1>1 DEF Busy
  <2> QED BY <2>1, GetBits DEF Words
<1> QED BY <1>1, <1>2, <1>3 DEF Level

(***************************************************************************)
(* The inductive invariant of the GDT.                                     *)
(***************************************************************************)
\* The words of a descriptor at index i.  Its first word may have become busy.
Placed(i, words) ==
  /\ i \in Nat \ {0} /\ i + Len(words) <= Len(table)
  /\ table[i + 1] \ {Busy} = words[1] \ {Busy}
  /\ Len(words) = 2 => table[i + 2] = words[2]

Given(g) ==
  /\ g.words \in Descriptors /\ g.selector \in Nat
  /\ g.selector = index(g.selector) * 8 + dpl(g.words)
  /\ Placed(index(g.selector), g.words)

\* No descriptor begins in the second word of another.
Apart ==
  \A g, h \in given : Len(g.words) = 2 => index(h.selector) # index(g.selector) + 1

TableInv ==
  /\ table \in Seq(Words) /\ Len(table) >= 1 /\ Len(table) <= MAX
  /\ limit \in {None, Len(table) * 8 - 1}
  /\ \A g \in given : Given(g)
  /\ Apart

Names64(selector) == \E g \in given : g.words = <<KERNEL_CODE64>> /\ selector = g.selector
UseInv ==
  /\ cs # None => limit # None /\ Names64(cs)
  /\ tr # None => limit # None /\ \E g \in given : g.words = tss_segment /\ tr = g.selector
  /\ star # None => /\ limit # None
                    /\ \E a, b, c, d \in Selectors :
                         /\ starArgs = <<a, b, c, d>> /\ ~StarError(a, b, c, d)
                         /\ star = StarValue(a, b, c, d)

PanicInv == halted \in {1, 2} => Len(table) + halted > MAX

GInv == TableInv /\ UseInv /\ PanicInv

(***************************************************************************)
(* What it says of selectors.                                              *)
(***************************************************************************)
LEMMA SelectorParts ==
  ASSUME NEW i \in Nat, NEW l \in 0 .. 3
  PROVE  (i * 8 + l) \div 8 = i /\ (i * 8 + l) % 4 = l
OBVIOUS

\* The processor finds the words of a given descriptor.
LEMMA Fetched ==
  ASSUME TableInv, limit # None, NEW g \in given
  PROVE  LET i == index(g.selector)
         IN  /\ Len(g.words) = 1 => Fetch(g.selector) = <<table[i + 1]>>
             /\ Len(g.words) = 2 => Fetch(g.selector) = <<table[i + 1], table[i + 2]>>
             /\ table[i + 1] \in Words
             /\ dpl(Fetch(g.selector)) = dpl(g.words) /\ rpl_of(g.selector) = dpl(g.words)
             /\ g.selector \in 8 .. U16 - 1
<1> DEFINE i == index(g.selector)
           n == Len(table)
<1>1. /\ g.words \in Descriptors /\ g.selector = i * 8 + dpl(g.words)
      /\ i \in Nat \ {0} /\ i + Len(g.words) <= n
      /\ table[i + 1] \ {Busy} = g.words[1] \ {Busy}
  BY DEF TableInv, Given, Placed
<1>2. /\ Len(g.words) \in {1, 2} /\ dpl(g.words) \in 0 .. 3 /\ g.words[1] \in Words
      /\ USER_SEGMENT \in g.words[1] <=> Len(g.words) = 1
  BY <1>1, DescriptorFacts
<1>3. n \in Nat /\ n <= MAX /\ limit = n * 8 - 1 /\ MAX \in Nat /\ MAX * 8 <= U16 /\ U16 \in Nat
  BY GdtAssumption, LenProperties DEF TableInv
<1> HIDE DEF i, n
<1>4. i < n /\ WordAt(i) = <<table[i + 1]>>
  BY <1>1, <1>2, <1>3 DEF WordAt, n
<1>5. table[i + 1] \in Words
  <2>1. i + 1 \in 1 .. Len(table)
    BY <1>1, <1>3, <1>4 DEF n
  <2> QED BY <2>1, ElementOfSeq DEF TableInv
<1>6. USER_SEGMENT \in table[i + 1] <=> Len(g.words) = 1
  BY <1>1, <1>2, <1>5, BusyApart DEF USER_SEGMENT, Busy
<1>7. ASSUME Len(g.words) = 1 PROVE Fetch(g.selector) = <<table[i + 1]>>
  BY <1>4, <1>6, <1>7 DEF Fetch, i
<1>8. ASSUME Len(g.words) = 2 PROVE Fetch(g.selector) = <<table[i + 1], table[i + 2]>>
  <2>1. i + 1 < n /\ WordAt(i + 1) = <<table[i + 2]>>
    BY <1>1, <1>3, <1>8 DEF WordAt, n
  <2>2. Fetch(g.selector) = WordAt(i) \o WordAt(i + 1)
    BY <1>4, <1>6, <1>8 DEF Fetch, i
  <2> QED BY <1>4, <2>1, <2>2, ConcatPair
<1>9. dpl(Fetch(g.selector)) = dpl(g.words)
  <2>1. Fetch(g.selector)[1] = table[i + 1]
    BY <1>2, <1>7, <1>8
  <2> QED BY <1>1, <1>2, <1>5, <2>1, BusyApart DEF dpl
<1>10. rpl_of(g.selector) = dpl(g.words)
  BY <1>1, <1>2, SelectorParts DEF rpl_of
<1>11. g.selector \in 8 .. U16 - 1
  BY <1>1, <1>2, <1>3, <1>4
<1> QED BY <1>5, <1>7, <1>8, <1>9, <1>10, <1>11 DEF i

LEMMA SelectorsFromInv == GInv => SelectorsNameDescriptors
<1> SUFFICES ASSUME TableInv, limit # None, NEW g \in given
             PROVE  /\ Len(Fetch(g.selector)) = Len(g.words)
                    /\ \A k \in DOMAIN g.words :
                         Fetch(g.selector)[k] \ {Busy} = g.words[k] \ {Busy}
                    /\ rpl_of(g.selector) = dpl(Fetch(g.selector))
  BY DEF GInv, SelectorsNameDescriptors
<1> DEFINE i == index(g.selector)
<1>1. /\ Len(g.words) = 1 => Fetch(g.selector) = <<table[i + 1]>>
      /\ Len(g.words) = 2 => Fetch(g.selector) = <<table[i + 1], table[i + 2]>>
      /\ rpl_of(g.selector) = dpl(Fetch(g.selector))
  BY Fetched
<1>2. /\ g.words \in Descriptors /\ table[i + 1] \ {Busy} = g.words[1] \ {Busy}
      /\ Len(g.words) = 2 => table[i + 2] = g.words[2]
  BY DEF TableInv, Given, Placed
<1>3. Len(g.words) \in {1, 2} /\ DOMAIN g.words = 1 .. Len(g.words)
  BY <1>2, DescriptorFacts, LenProperties
<1> HIDE DEF i
<1>4. CASE Len(g.words) = 1
  BY <1>1, <1>2, <1>3, <1>4
<1>5. CASE Len(g.words) = 2
  BY <1>1, <1>2, <1>3, <1>5
<1> QED BY <1>3, <1>4, <1>5

LEMMA TaskStateFromInv == GInv => TaskStateFound
<1> SUFFICES ASSUME GInv, tr # None
             PROVE  /\ TssBase(Fetch(tr)) = TssAddr
                    /\ get_bits(Fetch(tr)[1], 0, 16) = {0, 1, 2, 5, 6}
                    /\ tr % 4 = 0
  BY DEF TaskStateFound
<1>1. PICK g \in given : g.words = tss_segment /\ tr = g.selector /\ limit # None
  BY DEF GInv, UseInv
<1> DEFINE i == index(tr)
           w1 == table[i + 1]
           w2 == table[i + 2]
<1>2. Len(tss_segment) = 2 /\ tss_segment[1] \in Words /\ tss_segment[2] \in Words
  BY TssWords DEF Words
<1>3. /\ Fetch(tr) = <<w1, w2>> /\ w1 \in Words
      /\ tr % 4 = dpl(tss_segment)
  BY <1>1, <1>2, Fetched DEF GInv, rpl_of
<1>4. w1 \ {Busy} = tss_segment[1] \ {Busy} /\ w2 = tss_segment[2]
  BY <1>1, <1>2 DEF GInv, TableInv, Given, Placed
<1> HIDE DEF i, w1, w2
<1>5. \A x \in Bits : x # 41 =>
        (x \in w1 <=> \/ x \in {0, 1, 2, 5, 6, 40, 43, 47}
                      \/ x \in 16 .. 39 /\ x - 16 \in TssAddr
                      \/ x \in 56 .. 63 /\ x - 32 \in TssAddr)
  BY <1>2, <1>3, <1>4, BusyApart, TssWords DEF Busy
<1>6. get_bits(w1, 0, 16) = {0, 1, 2, 5, 6}
  <2>1. \A x : x \in get_bits(w1, 0, 16) <=> x \in Int /\ x >= 0 /\ x + 0 < 16 /\ x + 0 \in w1
    BY <1>3, GetBits DEF Words
  <2>2. \A x : x \in get_bits(w1, 0, 16) <=> x \in 0 .. 15 /\ x \in w1
    BY <2>1
  <2>3. \A x \in 0 .. 15 : x \in w1 <=> x \in {0, 1, 2, 5, 6}
    BY <1>5 DEF Bits
  <2> QED BY <2>2, <2>3
<1>7. tr % 4 = 0
  <2>1. 45 \notin tss_segment[1] /\ 46 \notin tss_segment[1]
    BY TssWords DEF Bits
  <2>2. 0 \notin get_bits(tss_segment[1], 45, 47) /\ 1 \notin get_bits(tss_segment[1], 45, 47)
    BY <1>2, <2>1, GetBits DEF Words
  <2> QED BY <1>3, <2>2 DEF dpl, Level
<1>8. TssBase(Fetch(tr)) = TssAddr
  <2> DEFINE a == get_bits(w1, 16, 40)
             b == get_bits(w1, 56, 64)
  <2>1. /\ \A x : x \in a <=> x \in Int /\ x >= 0 /\ x + 16 < 40 /\ x + 16 \in w1
        /\ \A x : x \in b <=> x \in Int /\ x >= 0 /\ x + 56 < 64 /\ x + 56 \in w1
    BY <1>3, GetBits DEF Words
  <2> HIDE DEF a, b
  <2>2. TssBase(Fetch(tr)) = a \cup at(24, b) \cup at(32, w2)
    BY <1>3 DEF TssBase, a, b
  <2>3. b \in SUBSET Int /\ w2 \in SUBSET Int
    BY <1>2, <1>4, <2>1 DEF Words, Bits
  <2>4. /\ \A x : x \in at(24, b) <=> x \in Int /\ x - 24 \in b
        /\ \A x : x \in at(32, w2) <=> x \in Int /\ x - 32 \in w2
    BY <2>3, AtBits
  <2>5. TssAddr \subseteq Bits
    BY GdtAssumption DEF Bits
  <2>6. ASSUME NEW x PROVE x \in a <=> x \in 0 .. 23 /\ x \in TssAddr
    <3>1. CASE x \in 0 .. 23
      <4>1. x + 16 \in Bits /\ x + 16 # 41 /\ (x + 16) - 16 = x /\ x + 16 \in 16 .. 39
        BY <3>1 DEF Bits
      <4> QED BY <1>5, <2>1, <3>1, <4>1
    <3>2. CASE x \notin 0 .. 23
      BY <2>1, <3>2
    <3> QED BY <3>1, <3>2
  <2>7. ASSUME NEW x PROVE x \in at(24, b) <=> x \in 24 .. 31 /\ x \in TssAddr
    <3>1. CASE x \in 24 .. 31
      <4>1. /\ (x - 24) + 56 \in Bits /\ (x - 24) + 56 # 41
            /\ ((x - 24) + 56) - 32 = x /\ (x - 24) + 56 \in 56 .. 63
        BY <3>1 DEF Bits
      <4>2. x \in at(24, b) <=> (x - 24) + 56 \in w1
        BY <2>1, <2>4, <3>1
      <4> QED BY <1>5, <3>1, <4>1, <4>2
    <3>2. CASE x \notin 24 .. 31
      BY <2>1, <2>4, <3>2
    <3> QED BY <3>1, <3>2
  <2>8. ASSUME NEW x PROVE x \in at(32, w2) <=> x \in 32 .. 63 /\ x \in TssAddr
    <3>1. CASE x \in 32 .. 63
      <4>1. x - 32 \in Bits /\ (x - 32) + 32 = x /\ x - 32 <= 31
        BY <3>1 DEF Bits
      <4> QED BY <1>4, <2>4, <3>1, <4>1, TssWords
    <3>2. CASE x \notin 32 .. 63
      <4>1. ASSUME x \in Int, x - 32 \in w2 PROVE x \in 32 .. 63
        <5>1. x - 32 \in Bits /\ x - 32 <= 31
          BY <1>2, <1>4, <4>1, TssWords DEF Words
        <5> QED BY <4>1, <5>1 DEF Bits
      <4> QED BY <2>4, <3>2, <4>1
    <3> QED BY <3>1, <3>2
  <2>9. ASSUME NEW x PROVE x \in a \cup at(24, b) \cup at(32, w2) <=> x \in TssAddr
    <3>1. x \in TssAddr => x \in 0 .. 23 \/ x \in 24 .. 31 \/ x \in 32 .. 63
      BY <2>5 DEF Bits
    <3> QED BY <2>6, <2>7, <2>8, <3>1
  <2> QED BY <2>2, <2>9
<1> QED BY <1>3, <1>6, <1>7, <1>8

LEMMA SyscallFromInv == GInv => SyscallSelectors
<1> SUFFICES ASSUME GInv, star # None
             PROVE  /\ star_read = starArgs
                    /\ \A i \in {1, 2} : rpl_of(starArgs[i]) = 3 /\ dpl(Fetch(starArgs[i])) = 3
                    /\ \A i \in {3, 4} : rpl_of(starArgs[i]) = 0 /\ dpl(Fetch(starArgs[i])) = 0
  BY DEF SyscallSelectors
<1>1. PICK a \in Selectors, b \in Selectors, c \in Selectors, d \in Selectors :
        /\ starArgs = <<a, b, c, d>> /\ ~StarError(a, b, c, d) /\ star = StarValue(a, b, c, d)
        /\ limit # None
  BY DEF GInv, UseInv
<1>2. ASSUME NEW x \in Selectors
      PROVE  x \in 8 .. U16 - 1 /\ dpl(Fetch(x)) = rpl_of(x)
  BY <1>1, Fetched DEF Selectors, GInv
<1>3. a \in 8 .. U16 - 1 /\ b \in 8 .. U16 - 1 /\ c \in 8 .. U16 - 1 /\ d \in 8 .. U16 - 1
  BY <1>2
<1>4. a - 16 = b - 8 /\ c = d - 8 /\ b % 4 = 3 /\ d % 4 = 0
  BY <1>1 DEF StarError, rpl_of
<1>5. U16 \in Nat
  BY GdtAssumption
<1>6. a = b + 8 /\ d = c + 8
  BY <1>3, <1>4, <1>5
<1>7. star.sysret = b - 8 /\ star.syscall = c
  <2>1. (b - 8) % U16 = b - 8
    BY <1>3, <1>5
  <2> QED BY <1>1, <2>1 DEF StarValue
<1>8. star_read = <<a, b, c, d>>
  <2>1. ((b - 8) + 16) % U16 = a /\ ((b - 8) + 8) % U16 = b /\ (c + 8) % U16 = d
    <3>1. (b - 8) + 16 = a /\ (b - 8) + 8 = b /\ c + 8 = d
      BY <1>3, <1>5, <1>6
    <3>2. a % U16 = a /\ b % U16 = b /\ d % U16 = d
      BY <1>3, <1>5
    <3> QED BY <3>1, <3>2
  <2> QED BY <1>7, <2>1 DEF star_read
<1>9. rpl_of(a) = 3 /\ rpl_of(b) = 3 /\ rpl_of(c) = 0 /\ rpl_of(d) = 0
  <2>1. a % 4 = b % 4 /\ c % 4 = d % 4
    BY <1>3, <1>5, <1>6
  <2> QED BY <1>4, <2>1 DEF rpl_of
<1> QED BY <1>1, <1>2, <1>8, <1>9

LEMMA PanicsFromInv == GInv => PanicsOnlyWhenFull
BY DEF GInv, TableInv, PanicInv, PanicsOnlyWhenFull

(***************************************************************************)
(* The invariant is kept.                                                  *)
(***************************************************************************)
LEMMA GdtInitInv == GdtInit => GInv
<1> SUFFICES ASSUME GdtInit PROVE GInv
  OBVIOUS
<1>1. table = <<{}>> /\ table \in Seq(Words) /\ Len(table) = 1
  BY DEF GdtInit, empty, Words
<1>2. TableInv
  BY <1>1, GdtAssumption DEF GdtInit, TableInv, Apart
<1>3. UseInv /\ PanicInv
  BY GdtAssumption DEF GdtInit, UseInv, PanicInv
<1> QED BY <1>2, <1>3 DEF GInv

\* Steps that leave the table alone, but for a panic.
LEMMA PanicStep ==
  ASSUME GInv, UNCHANGED <<table, given, limit, cs, tr, star, starArgs>>, PanicInv'
  PROVE  GInv'
BY DEF GInv, TableInv, Given, Placed, Apart, UseInv, Names64, Selectors

LEMMA FromRawInv ==
  ASSUME GInv, NEW slice \in RawSlices, FromRawEntries(slice)
  PROVE  GInv'
<1>1. table = empty /\ limit = None /\ halted = None
  BY DEF FromRawEntries, Running
<1>2. given = {}
  <2>1. Len(table) = 1
    BY <1>1 DEF empty
  <2>2. ASSUME NEW g \in given PROVE FALSE
    <3>1. /\ g.words \in Descriptors /\ index(g.selector) \in Nat \ {0}
          /\ index(g.selector) + Len(g.words) <= Len(table)
      BY DEF GInv, TableInv, Given, Placed
    <3>2. Len(g.words) \in {1, 2}
      BY <3>1, DescriptorFacts
    <3>3. \A i \in Nat \ {0}, k \in {1, 2} : ~(i + k <= 1)
      OBVIOUS
    <3> QED BY <2>1, <3>1, <3>2, <3>3
  <2> QED BY <2>2
<1>3. CASE slice # <<>> /\ slice[1] = {} /\ Len(slice) <= MAX
  <2>1. table' = slice /\ UNCHANGED <<given, limit, cs, tr, star, starArgs, halted>>
    BY <1>3 DEF FromRawEntries
  <2>2. slice \in Seq(Words) /\ Len(slice) \in Nat /\ Len(slice) >= 1
    BY <1>3, GdtAssumption, EmptySeq DEF Words, Bits
  <2>3. TableInv'
    BY <1>1, <1>2, <1>3, <2>1, <2>2 DEF TableInv, Apart
  <2>4. UseInv' /\ PanicInv'
    BY <1>1, <1>2, <2>1, GdtAssumption DEF GInv, UseInv, PanicInv
  <2> QED BY <2>3, <2>4 DEF GInv
<1>4. CASE ~(slice # <<>> /\ slice[1] = {} /\ Len(slice) <= MAX)
  <2>1. halted' = 0 /\ UNCHANGED <<table, given, limit, cs, tr, star, starArgs>>
    BY <1>4 DEF FromRawEntries, Panic
  <2> QED BY <2>1, PanicStep DEF PanicInv
<1> QED BY <1>3, <1>4

LEMMA AppendInv ==
  ASSUME GInv, NEW d \in Descriptors, append(d)
  PROVE  GInv'
<1> PICK n : n = Len(table)
  OBVIOUS
<1>1. halted = None /\ limit = None
  BY DEF append, Running
<1>2. table \in Seq(Words) /\ n \in Nat \ {0} /\ n <= MAX /\ MAX \in Nat
  BY GdtAssumption, LenProperties DEF GInv, TableInv
<1>3. /\ Len(d) \in {1, 2} /\ d \in Seq(Words) /\ dpl(d) \in 0 .. 3
      /\ d[1] \in Words /\ (Len(d) = 2 => d[2] \in Words)
  BY DescriptorFacts
<1>4. CASE ~HasRoom(d)
  <2>1. halted' = Len(d) /\ UNCHANGED <<table, given, limit, cs, tr, star, starArgs>>
    BY <1>4 DEF append, Panic
  <2>2. n + Len(d) > MAX
    BY <1>2, <1>3, <1>4 DEF HasRoom
  <2> QED BY <2>1, <2>2, PanicStep DEF PanicInv
<1>5. CASE HasRoom(d)
  <2> PICK new : new = [selector |-> Selector(d), words |-> d]
    OBVIOUS
  <2>1. /\ table' = table \o d /\ given' = given \cup {new}
        /\ UNCHANGED <<limit, cs, tr, star, starArgs, halted>>
    BY <1>5 DEF append
  <2>2. n + Len(d) <= MAX
    <3>1. CASE Len(d) = 1
      BY <1>2, <1>5, <3>1 DEF HasRoom
    <3>2. CASE Len(d) = 2
      BY <1>2, <1>5, <3>2 DEF HasRoom
    <3> QED BY <1>3, <3>1, <3>2
  <2>3. /\ table' \in Seq(Words) /\ Len(table') = n + Len(d)
        /\ \A k \in 1 .. n : table'[k] = table[k]
        /\ \A k \in 1 .. Len(d) : table'[n + k] = d[k]
    <3> DEFINE t == table \o d
    <3>1. /\ t \in Seq(Words) /\ Len(t) = n + Len(d)
          /\ \A k \in 1 .. n + Len(d) : t[k] = IF k <= n THEN table[k] ELSE d[k - n]
      BY <1>2, <1>3, ConcatProperties
    <3> HIDE DEF t
    <3>2. \A k \in 1 .. n : t[k] = table[k]
      BY <1>2, <1>3, <3>1
    <3>3. ASSUME NEW k \in 1 .. Len(d) PROVE t[n + k] = d[k]
      <4>1. n + k \in 1 .. n + Len(d) /\ ~(n + k <= n) /\ (n + k) - n = k
        BY <1>2, <1>3
      <4> QED BY <3>1, <4>1
    <3>4. table' = t
      BY <2>1 DEF t
    <3> QED BY <3>1, <3>2, <3>3, <3>4
  <2>4. Selector(d) = n * 8 + dpl(d) /\ index(Selector(d)) = n /\ Selector(d) \in Nat
    <3>1. n * 8 < U16 /\ U16 \in Nat
      BY <1>2, <1>3, <2>2, GdtAssumption
    <3>2. (n * 8) % U16 = n * 8
      BY <1>2, <3>1
    <3>3. Selector(d) = n * 8 + dpl(d)
      BY <3>2 DEF Selector, SegmentSelector
    <3>4. (n * 8 + dpl(d)) \div 8 = n /\ n * 8 + dpl(d) \in Nat
      BY <1>2, <1>3, SelectorParts
    <3> QED BY <3>3, <3>4 DEF index
  <2>5. ASSUME NEW g \in given PROVE Given(g)' /\ index(g.selector) < n
    <3>1. /\ g.words \in Descriptors /\ g.selector \in Nat
          /\ g.selector = index(g.selector) * 8 + dpl(g.words)
          /\ index(g.selector) \in Nat \ {0} /\ index(g.selector) + Len(g.words) <= n
          /\ table[index(g.selector) + 1] \ {Busy} = g.words[1] \ {Busy}
          /\ Len(g.words) = 2 => table[index(g.selector) + 2] = g.words[2]
      BY DEF GInv, TableInv, Given, Placed
    <3>2. Len(g.words) \in {1, 2}
      BY <3>1, DescriptorFacts
    <3>3. /\ index(g.selector) + 1 \in 1 .. n /\ index(g.selector) < n
          /\ Len(g.words) = 2 => index(g.selector) + 2 \in 1 .. n
          /\ index(g.selector) + Len(g.words) <= n + Len(d)
      <4>1. ASSUME NEW i \in Nat \ {0}, NEW k \in {1, 2}, i + k <= n
            PROVE  /\ i + 1 \in 1 .. n /\ i < n /\ (k = 2 => i + 2 \in 1 .. n)
                   /\ i + k <= n + Len(d)
        BY <1>2, <1>3, <4>1
      <4> QED BY <3>1, <3>2, <4>1
    <3>4. Placed(index(g.selector), g.words)'
      BY <2>3, <3>1, <3>3 DEF Placed
    <3> QED BY <3>1, <3>3, <3>4 DEF Given, index, dpl
  <2>6. Given(new)'
    <3>1. new.words = d /\ new.selector = Selector(d)
      OBVIOUS
    <3>2. table'[n + 1] = d[1] /\ (Len(d) = 2 => table'[n + 2] = d[2])
      BY <1>3, <2>3
    <3>3. Placed(n, d)'
      BY <1>2, <1>3, <2>3, <3>2 DEF Placed
    <3>4. index(new.selector) = n /\ new.selector = n * 8 + dpl(d) /\ new.selector \in Nat
      BY <2>4, <3>1
    <3>5. new.selector = index(new.selector) * 8 + dpl(new.words)
      BY <3>1, <3>4
    <3>6. Placed(index(new.selector), new.words)'
      BY <3>1, <3>3, <3>4
    <3> QED BY <3>1, <3>4, <3>5, <3>6 DEF Given, index, dpl
  <2>7. Apart'
    <3> SUFFICES ASSUME NEW g \in given', NEW h \in given', Len(g.words) = 2
                 PROVE  index(h.selector) # index(g.selector) + 1
      BY DEF Apart, index
    <3>1. index(new.selector) = n
      BY <2>4
    <3>2. ASSUME NEW x \in given
          PROVE  index(x.selector) < n /\ index(x.selector) \in Nat
                 /\ (Len(x.words) = 2 => index(x.selector) + 1 < n)
      <4>1. /\ x.words \in Descriptors /\ index(x.selector) \in Nat \ {0}
            /\ index(x.selector) + Len(x.words) <= n
        BY DEF GInv, TableInv, Given, Placed
      <4>2. Len(x.words) \in {1, 2}
        BY <4>1, DescriptorFacts
      <4>3. ASSUME NEW i \in Nat \ {0}, NEW k \in {1, 2}, i + k <= n
            PROVE  i < n /\ (k = 2 => i + 1 < n)
        BY <1>2, <4>3
      <4> QED BY <4>1, <4>2, <4>3
    <3>3. CASE g \in given /\ h \in given
      BY <3>3 DEF GInv, TableInv, Apart
    <3>4. CASE g = new /\ h \in given
      BY <1>2, <3>1, <3>2, <3>4
    <3>5. CASE g \in given /\ h = new
      BY <1>2, <3>1, <3>2, <3>5
    <3>6. CASE g = new /\ h = new
      BY <1>2, <3>1, <3>6
    <3> QED BY <2>1, <3>3, <3>4, <3>5, <3>6
  <2>8. TableInv'
    BY <1>1, <1>2, <1>3, <2>1, <2>2, <2>3, <2>5, <2>6, <2>7 DEF TableInv
  <2>9. UseInv' /\ PanicInv'
    BY <1>1, <2>1, GdtAssumption DEF GInv, UseInv, PanicInv
  <2> QED BY <2>8, <2>9 DEF GInv
<1> QED BY <1>4, <1>5

LEMMA LoadInv ==
  ASSUME GInv, load
  PROVE  GInv'
<1>1. /\ limit' = (Len(table) * 8 - 1) % U16 /\ limit = None
      /\ UNCHANGED <<table, given, cs, tr, star, starArgs, halted>>
  BY DEF load, table_limit
<1>2. limit' = Len(table) * 8 - 1
  <2>1. Len(table) \in Nat /\ Len(table) >= 1 /\ Len(table) <= MAX /\ MAX * 8 <= U16
        /\ U16 \in Nat /\ MAX \in Nat
    BY GdtAssumption, LenProperties DEF GInv, TableInv
  <2>2. ASSUME NEW n \in Nat, n >= 1, n <= MAX PROVE (n * 8 - 1) % U16 = n * 8 - 1
    <3>1. n * 8 - 1 \in 0 .. U16 - 1
      BY <2>1, <2>2
    <3> QED BY <2>1, <3>1
  <2> QED BY <1>1, <2>1, <2>2
<1>3. TableInv'
  BY <1>1, <1>2 DEF GInv, TableInv, Apart, Given, Placed
<1>4. UseInv' /\ PanicInv'
  BY <1>1 DEF GInv, UseInv, PanicInv
<1> QED BY <1>3, <1>4 DEF GInv

LEMMA SetCsInv ==
  ASSUME GInv, NEW g \in given, SetCs(g)
  PROVE  GInv'
<1>1. /\ limit # None /\ g.words = <<KERNEL_CODE64>> /\ cs' = g.selector
      /\ UNCHANGED <<table, given, limit, tr, star, starArgs, halted>>
  BY DEF SetCs
<1>2. TableInv' /\ PanicInv'
  BY <1>1 DEF GInv, TableInv, Apart, Given, Placed, PanicInv
<1>3. UseInv'
  BY <1>1 DEF GInv, UseInv, Names64, Selectors
<1> QED BY <1>2, <1>3 DEF GInv

LEMMA StarWriteInv ==
  ASSUME GInv, NEW a \in Selectors, NEW b \in Selectors, NEW c \in Selectors,
         NEW d \in Selectors, StarWrite(<<a, b, c, d>>)
  PROVE  GInv'
<1>1. /\ limit # None /\ ~StarError(a, b, c, d) /\ star' = StarValue(a, b, c, d)
      /\ starArgs' = <<a, b, c, d>>
      /\ UNCHANGED <<table, given, limit, cs, tr, halted>>
  BY DEF StarWrite
<1>2. TableInv' /\ PanicInv'
  BY <1>1 DEF GInv, TableInv, Apart, Given, Placed, PanicInv
<1>3. UseInv'
  <2>1. Selectors' = Selectors
    BY <1>1 DEF Selectors
  <2>2. cs' # None => limit' # None /\ Names64(cs)'
    BY <1>1 DEF GInv, UseInv, Names64
  <2>3. \E x, y, z, w \in Selectors' :
           /\ starArgs' = <<x, y, z, w>> /\ ~StarError(x, y, z, w)
           /\ star' = StarValue(x, y, z, w)
    BY <1>1, <2>1
  <2> QED BY <1>1, <2>2, <2>3 DEF GInv, UseInv, Names64, StarError, StarValue
<1> QED BY <1>2, <1>3 DEF GInv

LEMMA LoadTssInv ==
  ASSUME GInv, NEW g \in given, LoadTss(g)
  PROVE  GInv'
<1> DEFINE i == index(g.selector)
<1>1. /\ limit # None /\ g.words = tss_segment /\ tr' = g.selector
      /\ table' = [table EXCEPT ![i + 1] = table[i + 1] \cup {Busy}]
      /\ UNCHANGED <<given, limit, cs, star, starArgs, halted>>
  BY DEF LoadTss
<1>2. i \in Nat \ {0} /\ i + 2 <= Len(table)
  BY <1>1, TssWords DEF GInv, TableInv, Given, Placed
<1>3. table \in Seq(Words) /\ Len(table) \in Nat
  BY LenProperties DEF GInv, TableInv
<1> HIDE DEF i
<1>4. i + 1 \in 1 .. Len(table)
  BY <1>2, <1>3
<1>5. table[i + 1] \cup {Busy} \in Words
  <2>1. table[i + 1] \in Words
    BY <1>3, <1>4, ElementOfSeq
  <2> QED BY <2>1 DEF Words, Bits, Busy
<1>6. /\ table' \in Seq(Words) /\ Len(table') = Len(table)
      /\ \A k \in 1 .. Len(table) :
           /\ table'[k] \ {Busy} = table[k] \ {Busy}
           /\ k # i + 1 => table'[k] = table[k]
  <2> DEFINE e == table[i + 1] \cup {Busy}
             t == [table EXCEPT ![i + 1] = e]
  <2>1. /\ t \in Seq(Words) /\ Len(t) = Len(table)
        /\ \A k \in 1 .. Len(table) : t[k] = IF k = i + 1 THEN e ELSE table[k]
    <3> HIDE DEF e
    <3> QED BY <1>3, <1>4, <1>5, ExceptSeq DEF e
  <2>2. e \ {Busy} = table[i + 1] \ {Busy}
    OBVIOUS
  <2> HIDE DEF t, e
  <2>3. table' = t
    BY <1>1 DEF t, e
  <2> QED BY <2>1, <2>2, <2>3
<1>7. ASSUME NEW h \in given PROVE Given(h)'
  <2> DEFINE j == index(h.selector)
  <2>1. /\ h.words \in Descriptors /\ h.selector \in Nat
        /\ h.selector = j * 8 + dpl(h.words)
        /\ j \in Nat \ {0} /\ j + Len(h.words) <= Len(table)
        /\ table[j + 1] \ {Busy} = h.words[1] \ {Busy}
        /\ Len(h.words) = 2 => table[j + 2] = h.words[2]
    BY DEF GInv, TableInv, Given, Placed
  <2>2. Len(h.words) \in {1, 2}
    BY <2>1, DescriptorFacts
  <2>3. Len(h.words) = 2 => i # j + 1
    BY DEF GInv, TableInv, Apart, i
  <2>4. /\ j + 1 \in 1 .. Len(table)
        /\ Len(h.words) = 2 => j + 2 \in 1 .. Len(table) /\ j + 2 # i + 1
    <3> HIDE DEF j
    <3>1. CASE Len(h.words) = 1
      BY <1>3, <2>1, <3>1
    <3>2. CASE Len(h.words) = 2
      BY <1>2, <1>3, <2>1, <2>3, <3>2
    <3> QED BY <2>2, <3>1, <3>2
  <2>5. Placed(j, h.words)'
    BY <1>6, <2>1, <2>4 DEF Placed, index
  <2> QED BY <2>1, <2>5 DEF Given, index, dpl
<1>8. TableInv'
  BY <1>1, <1>6, <1>7 DEF GInv, TableInv, Apart
<1>9. UseInv' /\ PanicInv'
  BY <1>1, <1>6 DEF GInv, UseInv, PanicInv, Names64, Selectors
<1> QED BY <1>8, <1>9 DEF GInv

LEMMA GdtNextInv ==
  ASSUME GInv, GdtNext
  PROVE  GInv'
<1>1. CASE \E slice \in RawSlices : FromRawEntries(slice)
  BY <1>1, FromRawInv
<1>2. CASE \E d \in Descriptors : append(d)
  BY <1>2, AppendInv
<1>3. CASE load
  BY <1>3, LoadInv
<1>4. CASE \E g \in given : SetCs(g)
  BY <1>4, SetCsInv
<1>5. CASE \E g \in given : LoadTss(g)
  BY <1>5, LoadTssInv
<1>6. CASE \E a, b, c, d \in Selectors : StarWrite(<<a, b, c, d>>)
  BY <1>6, StarWriteInv
<1> QED BY <1>1, <1>2, <1>3, <1>4, <1>5, <1>6 DEF GdtNext

(***************************************************************************)
(* The inductive invariant of the IDT.                                     *)
(***************************************************************************)
Gates == [low : Words, middle : Words, high : Words, options : [cs : Nat, bits : Words]]

StackNo(want) == IF want.stack = None THEN 0 ELSE want.stack + 1

\* The options of a gate, bit by bit.
BitsSay(bits, want) ==
  /\ {9, 10, 11} \subseteq bits
  /\ 8 \in bits <=> want.masks = FALSE
  /\ 15 \in bits <=> want.present = TRUE
  /\ 13 \in bits <=> want.level \in {1, 3}
  /\ 14 \in bits <=> want.level \in {2, 3}
  /\ StackNo(want) \in 0 .. 7
  /\ \A b \in 0 .. 2 : b \in bits <=> b \in Binary(StackNo(want))

\* The function f may be called by the processor for vector v.
Fits(v, f) ==
  /\ v \notin Reserved /\ (v < 32 => (try_from(v) \/ v = 9))
  /\ f \in AllFunctions
  /\ TakesErrorCode(f.type) <=> v \in WithErrorCode
  /\ v \in {8, 18} => Diverges(f.type)
  /\ f.passes \in {None, v}

SetGate(v) ==
  /\ BitsSay(idt[v].options.bits, asked[v])
  /\ handler_addr(idt[v]) = Address(asked[v].f)
  /\ Fits(v, asked[v].f)
  /\ limit # None /\ Names64(idt[v].options.cs)

IdtInv ==
  /\ idt \in [Vectors -> Gates]
  /\ asked \in [Vectors -> Wants \cup {None}]
  /\ held # None => held \in Vectors /\ asked[held] # None
  /\ \A v \in Vectors : IF asked[v] = None THEN 15 \notin idt[v].options.bits ELSE SetGate(v)

IInv == GInv /\ IdtInv

(***************************************************************************)
(* What it says of gates.                                                  *)
(***************************************************************************)
LEMMA LevelBits ==
  ASSUME NEW bits \in Words, NEW level \in 0 .. 3,
         13 \in bits <=> level \in {1, 3}, 14 \in bits <=> level \in {2, 3}
  PROVE  Level(get_bits(bits, 13, 15)) = level
<1>1. 0 \in get_bits(bits, 13, 15) <=> 13 \in bits
  BY GetBits DEF Words
<1>2. 1 \in get_bits(bits, 13, 15) <=> 14 \in bits
  BY GetBits DEF Words
<1> QED BY <1>1, <1>2 DEF Level

LEMMA BinaryBits ==
  ASSUME NEW n \in 0 .. 7
  PROVE  /\ 0 \in Binary(n) <=> n \in {1, 3, 5, 7}
         /\ 1 \in Binary(n) <=> n \in {2, 3, 6, 7}
         /\ 2 \in Binary(n) <=> n \in {4, 5, 6, 7}
         /\ Binary(n) \subseteq 0 .. 2
<1>1. 2^0 = 1 /\ 2^1 = 2 /\ 2^2 = 4
  OBVIOUS
<1>2. 0 \in Binary(n) <=> (n \div 1) % 2 = 1
  BY <1>1 DEF Binary
<1>3. 1 \in Binary(n) <=> (n \div 2) % 2 = 1
  BY <1>1 DEF Binary
<1>4. 2 \in Binary(n) <=> (n \div 4) % 2 = 1
  BY <1>1 DEF Binary
<1>5. Binary(n) \subseteq 0 .. 2
  BY DEF Binary
<1> QED BY <1>2, <1>3, <1>4, <1>5

LEMMA GateType ==
  ASSUME NEW bits \in Words, {9, 10, 11} \subseteq bits
  PROVE  get_bits(bits, 8, 12) = IF 8 \in bits THEN {0, 1, 2, 3} ELSE {1, 2, 3}
<1>1. \A x : x \in get_bits(bits, 8, 12) <=> x \in Int /\ x >= 0 /\ x + 8 < 12 /\ x + 8 \in bits
  BY GetBits DEF Words
<1>2. \A x : x \in get_bits(bits, 8, 12) <=> x \in 0 .. 3 /\ x + 8 \in bits
  BY <1>1
<1>3. \A x \in 0 .. 3 : x + 8 \in bits <=> x # 0 \/ 8 \in bits
  OBVIOUS
<1>4. CASE 8 \in bits
  BY <1>2, <1>3, <1>4
<1>5. CASE 8 \notin bits
  BY <1>2, <1>3, <1>5
<1> QED BY <1>4, <1>5

LEMMA GateSays ==
  ASSUME NEW gate \in Gates, NEW want \in Wants, BitsSay(gate.options.bits, want)
  PROVE  /\ IsGate(gate)
         /\ Present(gate) <=> want.present = TRUE
         /\ Masks(gate) <=> want.masks = TRUE
         /\ Level(get_bits(gate.options.bits, 13, 15)) = want.level
         /\ HardwareStack(gate) = StackNo(want)
<1> DEFINE bits == gate.options.bits
           n == StackNo(want)
<1>1. /\ bits \in Words /\ want.level \in 0 .. 3 /\ want.masks \in BOOLEAN
  BY DEF Gates, Wants
<1>2. IsGate(gate) /\ (Masks(gate) <=> want.masks = TRUE)
  <2>1. get_bits(bits, 8, 12) = IF 8 \in bits THEN {0, 1, 2, 3} ELSE {1, 2, 3}
    BY <1>1, GateType DEF BitsSay
  <2>2. {0, 1, 2, 3} # {1, 2, 3}
    <3>1. 0 \notin {1, 2, 3}
      OBVIOUS
    <3> QED BY <3>1
  <2>3. 8 \in bits <=> want.masks = FALSE
    BY DEF BitsSay
  <2>4. IsGate(gate)
    BY <2>1 DEF IsGate
  <2>5. Masks(gate) <=> 8 \notin bits
    BY <2>1, <2>2 DEF Masks
  <2> QED BY <1>1, <2>3, <2>4, <2>5
<1>3. Present(gate) <=> want.present = TRUE
  BY DEF Present, BitsSay
<1>4. Level(get_bits(bits, 13, 15)) = want.level
  BY <1>1, LevelBits DEF BitsSay
<1>5. HardwareStack(gate) = n
  <2>1. n \in 0 .. 7
    BY DEF BitsSay
  <2>2. \A b \in 0 .. 2 : b \in bits <=> b \in Binary(n)
    BY DEF BitsSay
  <2> HIDE DEF n, bits
  <2>3. /\ 0 \in bits <=> n \in {1, 3, 5, 7}
        /\ 1 \in bits <=> n \in {2, 3, 6, 7}
        /\ 2 \in bits <=> n \in {4, 5, 6, 7}
    BY <2>1, <2>2, BinaryBits
  <2>4. HardwareStack(gate) = ((IF 0 \in bits THEN 1 ELSE 0) + (IF 1 \in bits THEN 2 ELSE 0))
                               + (IF 2 \in bits THEN 4 ELSE 0)
    BY DEF HardwareStack, Level, bits
  <2> QED BY <2>1, <2>3, <2>4
<1> QED BY <1>2, <1>3, <1>4, <1>5

\* The three parts of an address are put together again.
LEMMA AddressParts ==
  ASSUME NEW a \in Words
  PROVE  get_bits(a, 0, 16) \cup at(16, get_bits(a, 16, 32)) \cup at(32, get_bits(a, 32, 64)) = a
<1> DEFINE low == get_bits(a, 0, 16)
           mid == get_bits(a, 16, 32)
           high == get_bits(a, 32, 64)
<1>1. /\ \A x : x \in low <=> x \in Int /\ x >= 0 /\ x + 0 < 16 /\ x + 0 \in a
      /\ \A x : x \in mid <=> x \in Int /\ x >= 0 /\ x + 16 < 32 /\ x + 16 \in a
      /\ \A x : x \in high <=> x \in Int /\ x >= 0 /\ x + 32 < 64 /\ x + 32 \in a
  BY GetBits DEF Words
<1> HIDE DEF low, mid, high
<1>2. mid \in SUBSET Int /\ high \in SUBSET Int
  BY <1>1
<1>3. /\ \A x : x \in at(16, mid) <=> x \in Int /\ x - 16 \in mid
      /\ \A x : x \in at(32, high) <=> x \in Int /\ x - 32 \in high
  BY <1>2, AtBits
<1>4. ASSUME NEW x PROVE x \in low <=> x \in 0 .. 15 /\ x \in a
  BY <1>1
<1>5. ASSUME NEW x PROVE x \in at(16, mid) <=> x \in 16 .. 31 /\ x \in a
  <2>1. x \in Int => (x - 16) + 16 = x
    OBVIOUS
  <2> QED BY <1>1, <1>3, <2>1
<1>6. ASSUME NEW x PROVE x \in at(32, high) <=> x \in 32 .. 63 /\ x \in a
  <2>1. x \in Int => (x - 32) + 32 = x
    OBVIOUS
  <2> QED BY <1>1, <1>3, <2>1
<1>7. ASSUME NEW x PROVE x \in low \cup at(16, mid) \cup at(32, high) <=> x \in a
  <2>1. x \in a => x \in 0 .. 15 \/ x \in 16 .. 31 \/ x \in 32 .. 63
    BY DEF Words, Bits
  <2> QED BY <1>4, <1>5, <1>6, <2>1
<1>8. low \cup at(16, mid) \cup at(32, high) = a
  BY <1>7
<1> QED BY <1>8 DEF low, mid, high

LEMMA GatesFromInv == IInv => GatesDeliverAsked /\ HandlersFitVectors
<1> SUFFICES ASSUME IInv PROVE GatesDeliverAsked /\ HandlersFitVectors
  OBVIOUS
<1>1. ASSUME NEW v \in Vectors
      PROVE  /\ idt[v] \in Gates
             /\ asked[v] = None => ~Present(idt[v])
             /\ asked[v] # None => asked[v] \in Wants /\ SetGate(v)
  BY DEF IInv, IdtInv, Present
<1>2. ASSUME NEW v \in Vectors, asked[v] # None
      PROVE  IsCode64(Fetch(idt[v].options.cs), 0)
  <2>1. SetGate(v)
    BY <1>1, <1>2
  <2>2. PICK g \in given : /\ g.words = <<KERNEL_CODE64>> /\ idt[v].options.cs = g.selector
                           /\ limit # None
    BY <2>1 DEF SetGate, Names64
  <2> DEFINE w == table[index(g.selector) + 1]
  <2>3. KERNEL_CODE64 \in Words
    BY DEF KERNEL_CODE64, COMMON, Words, Bits, USER_SEGMENT, PRESENT, WRITABLE, ACCESSED,
           GRANULARITY, EXECUTABLE, LONG_MODE, LIMIT_0_15, LIMIT_16_19
  <2>4. Fetch(g.selector) = <<w>> /\ w \in Words /\ dpl(Fetch(g.selector)) = dpl(g.words)
    BY <2>2, Fetched DEF IInv, GInv
  <2>5. w \ {Busy} = KERNEL_CODE64 \ {Busy}
    BY <2>2 DEF IInv, GInv, TableInv, Given, Placed
  <2> HIDE DEF w
  <2>6. /\ {PRESENT, USER_SEGMENT, EXECUTABLE, LONG_MODE} \subseteq w /\ DEFAULT_SIZE \notin w
    BY <2>5 DEF Busy, KERNEL_CODE64, COMMON, USER_SEGMENT, PRESENT, WRITABLE, ACCESSED,
           GRANULARITY, EXECUTABLE, LONG_MODE, LIMIT_0_15, LIMIT_16_19, DEFAULT_SIZE
  <2>7. dpl(<<KERNEL_CODE64>>) = 0
    <3>1. 45 \notin KERNEL_CODE64 /\ 46 \notin KERNEL_CODE64
      BY DEF KERNEL_CODE64, COMMON, USER_SEGMENT, PRESENT, WRITABLE, ACCESSED,
           GRANULARITY, EXECUTABLE, LONG_MODE, LIMIT_0_15, LIMIT_16_19
    <3>2. 0 \notin get_bits(KERNEL_CODE64, 45, 47) /\ 1 \notin get_bits(KERNEL_CODE64, 45, 47)
      BY <2>3, <3>1, GetBits DEF Words
    <3> QED BY <3>2 DEF dpl, Level
  <2> QED BY <2>2, <2>4, <2>6, <2>7 DEF IsCode64
<1>3. GatesDeliverAsked
  <2> SUFFICES ASSUME NEW v \in Vectors, asked[v] # None
               PROVE  /\ IsGate(idt[v])
                      /\ handler_addr(idt[v]) = Address(asked[v].f)
                      /\ Present(idt[v]) = asked[v].present
                      /\ Masks(idt[v]) = asked[v].masks
                      /\ Level(get_bits(idt[v].options.bits, 13, 15)) = asked[v].level
                      /\ HardwareStack(idt[v])
                           = (IF asked[v].stack = None THEN 0 ELSE asked[v].stack + 1)
                      /\ IsCode64(Fetch(idt[v].options.cs), 0)
    BY <1>1 DEF GatesDeliverAsked
  <2>1. idt[v] \in Gates /\ asked[v] \in Wants /\ SetGate(v)
    BY <1>1
  <2>2. asked[v].present \in BOOLEAN /\ asked[v].masks \in BOOLEAN
    BY <2>1 DEF Wants
  <2>3. /\ IsGate(idt[v])
        /\ Present(idt[v]) <=> asked[v].present = TRUE
        /\ Masks(idt[v]) <=> asked[v].masks = TRUE
        /\ Level(get_bits(idt[v].options.bits, 13, 15)) = asked[v].level
        /\ HardwareStack(idt[v]) = StackNo(asked[v])
    BY <2>1, GateSays DEF SetGate
  <2>4. Present(idt[v]) = asked[v].present /\ Masks(idt[v]) = asked[v].masks
    BY <2>2, <2>3 DEF Present, Masks
  <2> QED BY <1>2, <2>1, <2>3, <2>4 DEF SetGate, StackNo
<1>4. HandlersFitVectors
  <2> SUFFICES ASSUME NEW v \in Vectors, Present(idt[v])
               PROVE  /\ v \notin Reserved
                      /\ v < 32 => (try_from(v) \/ v = 9)
                      /\ \E f \in AllFunctions :
                           /\ Address(f) = handler_addr(idt[v])
                           /\ TakesErrorCode(f.type) = (v \in WithErrorCode)
                           /\ v \in {8, 18} => Diverges(f.type)
                           /\ f.passes \in {None, v}
    BY DEF HandlersFitVectors
  <2>1. SetGate(v)
    BY <1>1
  <2>2. TakesErrorCode(asked[v].f.type) = (v \in WithErrorCode)
    BY <2>1 DEF SetGate, Fits, TakesErrorCode
  <2> QED BY <2>1, <2>2 DEF SetGate, Fits
<1> QED BY <1>3, <1>4

(***************************************************************************)
(* The calls on the IDT.                                                   *)
(***************************************************************************)
LEMMA AddressType == \A f : Address(f) \in Words
<1> SUFFICES ASSUME NEW f PROVE Address(f) \in Words
  OBVIOUS
<1>1. BitsOf(f.passes) \in SUBSET Int /\ BitsOf(f.passes) \subseteq 0 .. 7
  BY DEF BitsOf
<1>2. at(12, BitsOf(f.passes)) \subseteq 12 .. 19
  BY <1>1, AtBits
<1> QED BY <1>2 DEF Address, Words, Bits

\* A call leaves the GDT alone and finds CS set.
LEMMA CallKeeps ==
  ASSUME IInv, IdtCall, halted' = halted \/ halted' = 0
  PROVE  /\ GInv' /\ limit' = limit /\ given' = given /\ limit # None /\ Names64(cs) /\ cs \in Nat
<1>1. /\ UNCHANGED <<table, given, limit, cs, tr, star, starArgs>> /\ cs # None
  BY DEF IdtCall
<1>2. PanicInv'
  BY <1>1 DEF IInv, GInv, PanicInv
<1>3. GInv'
  BY <1>1, <1>2, PanicStep DEF IInv
<1>4. limit # None /\ Names64(cs)
  BY <1>1 DEF IInv, GInv, UseInv
<1>5. cs \in Nat
  BY <1>4 DEF IInv, GInv, TableInv, Names64, Given
<1> QED BY <1>1, <1>3, <1>4, <1>5

\* The gate set_handler_addr makes.
LEMMA NewGate ==
  ASSUME NEW f \in AllFunctions, cs \in Nat
  PROVE  LET gate == set_handler_addr(Address(f))
         IN  /\ gate \in Gates /\ gate.options.cs = cs
             /\ BitsSay(gate.options.bits, Wanted(f))
             /\ handler_addr(gate) = Address(f)
             /\ Wanted(f) \in Wants /\ Wanted(f) # None /\ Wanted(f).f = f
<1> DEFINE a == Address(f)
           gate == set_handler_addr(a)
<1>1. a \in Words
  BY AddressType
<1>2. get_bits(a, 0, 16) \in Words /\ get_bits(a, 16, 32) \in Words /\ get_bits(a, 32, 64) \in Words
  <2>1. ASSUME NEW lo \in {0, 16, 32}, NEW hi \in {16, 32, 64}
        PROVE  get_bits(a, lo, hi) \in Words
    <3>1. \A x : x \in get_bits(a, lo, hi) <=> x \in Int /\ x >= 0 /\ x + lo < hi /\ x + lo \in a
      BY <1>1, GetBits DEF Words
    <3> QED BY <3>1 DEF Words, Bits
  <2> QED BY <2>1
<1>3. gate.options.cs = cs /\ gate.options.bits = {9, 10, 11, 15}
  BY DEF set_handler_addr, set_present, set_bit, minimal
<1>4. gate \in Gates
  BY <1>2 DEF set_handler_addr, set_present, set_bit, minimal, Gates, Words, Bits
<1>5. handler_addr(gate) = a
  <2>1. handler_addr(gate)
          = get_bits(a, 0, 16) \cup at(16, get_bits(a, 16, 32)) \cup at(32, get_bits(a, 32, 64))
    BY DEF handler_addr, set_handler_addr
  <2> QED BY <1>1, <2>1, AddressParts
<1>6. Wanted(f) \in Wants /\ Wanted(f).f = f
  BY DEF Wanted, Wants
<1>7. BitsSay({9, 10, 11, 15}, Wanted(f))
  <2>1. StackNo(Wanted(f)) = 0
    BY DEF StackNo, Wanted
  <2>2. 0 \notin Binary(0) /\ 1 \notin Binary(0) /\ 2 \notin Binary(0)
    BY BinaryBits
  <2>3. \A b \in 0 .. 2 : b \in {9, 10, 11, 15} <=> b \in Binary(0)
    BY <2>2
  <2> QED BY <2>1, <2>3 DEF BitsSay, Wanted
<1> QED BY <1>3, <1>4, <1>5, <1>6, <1>7, WantsAssumption

LEMMA SetInv ==
  ASSUME IInv, IdtCall, halted' = halted, NEW vs \in SUBSET Vectors, NEW fs,
         \A v \in vs : Fits(v, fs[v]),
         idt' = [v \in Vectors |-> IF v \in vs THEN set_handler_addr(Address(fs[v])) ELSE idt[v]],
         asked' = [v \in Vectors |-> IF v \in vs THEN Wanted(fs[v]) ELSE asked[v]],
         held' = None \/ held' \in vs
  PROVE  IInv'
<1>1. /\ GInv' /\ limit' = limit /\ given' = given /\ limit # None /\ Names64(cs) /\ cs \in Nat
  BY CallKeeps
<1>2. ASSUME NEW v \in vs
      PROVE  /\ idt'[v] \in Gates /\ asked'[v] \in Wants /\ asked'[v] # None
             /\ SetGate(v)'
  <2>1. fs[v] \in AllFunctions /\ Fits(v, fs[v])
    BY DEF Fits
  <2>2. idt'[v] = set_handler_addr(Address(fs[v])) /\ asked'[v] = Wanted(fs[v])
    OBVIOUS
  <2>3. /\ idt'[v] \in Gates /\ idt'[v].options.cs = cs
        /\ BitsSay(idt'[v].options.bits, asked'[v])
        /\ handler_addr(idt'[v]) = Address(fs[v])
        /\ asked'[v] \in Wants /\ asked'[v] # None /\ asked'[v].f = fs[v]
    BY <1>1, <2>1, <2>2, NewGate
  <2>4. Names64(idt[v].options.cs)'
    BY <1>1, <2>3 DEF Names64
  <2> QED BY <1>1, <2>1, <2>3, <2>4 DEF SetGate, handler_addr
<1>3. ASSUME NEW v \in Vectors, v \notin vs
      PROVE  /\ idt'[v] = idt[v] /\ asked'[v] = asked[v]
             /\ SetGate(v) => SetGate(v)'
  <2>1. idt'[v] = idt[v] /\ asked'[v] = asked[v]
    BY <1>3
  <2> QED BY <1>1, <2>1 DEF SetGate, Names64
<1>4. idt' \in [Vectors -> Gates]
  BY <1>2, <1>3 DEF IInv, IdtInv
<1>5. asked' \in [Vectors -> Wants \cup {None}]
  BY <1>2, <1>3 DEF IInv, IdtInv
<1>6. held' # None => held' \in Vectors /\ asked'[held'] # None
  BY <1>2
<1>7. ASSUME NEW v \in Vectors
      PROVE  IF asked'[v] = None THEN 15 \notin idt'[v].options.bits ELSE SetGate(v)'
  <2>1. CASE v \in vs
    BY <1>2, <2>1
  <2>2. CASE v \notin vs
    BY <1>3, <2>2 DEF IInv, IdtInv
  <2> QED BY <2>1, <2>2
<1>8. IdtInv'
  BY <1>4, <1>5, <1>6, <1>7 DEF IdtInv
<1> QED BY <1>1, <1>8 DEF IInv

\* Functions of the type of an entry, and of the plain type where the table has it.
LEMMA FieldFits ==
  ASSUME NEW v \in Vectors, NEW name \in Names, v < 32, v \notin Reserved
  PROVE  Fits(v, Function(name, FieldType(v)))
<1>1. v \in 0 .. 31
  BY IdtAssumption
<1>2. FieldType(v) \in Types
  BY <1>1 DEF Types
<1>3. Function(name, FieldType(v)) \in AllFunctions
  BY <1>2 DEF AllFunctions
<1>4. try_from(v) \/ v = 9
  BY <1>1 DEF Reserved, try_from
<1>5. TakesErrorCode(FieldType(v)) <=> v \in WithErrorCode
  BY <1>1 DEF TakesErrorCode, FieldType, WithErrorCode
<1>6. v \in {8, 18} => Diverges(FieldType(v))
  BY DEF Diverges, FieldType
<1> QED BY <1>3, <1>4, <1>5, <1>6 DEF Fits, Function

LEMMA PlainFits ==
  ASSUME NEW v \in Vectors, NEW name \in Names, ~IndexPanics(v)
  PROVE  Fits(v, Function(name, "HandlerFunc"))
<1>1. v \in 0 .. 255
  BY IdtAssumption
<1>2. FieldType(0) = "HandlerFunc" /\ 0 \in 0 .. 255
  BY DEF FieldType
<1>3. Function(name, "HandlerFunc") \in AllFunctions
  <2>1. "HandlerFunc" \in Types
    BY <1>2 DEF Types
  <2> QED BY <2>1 DEF AllFunctions
<1>4. v \notin Reserved /\ v \notin WithErrorCode /\ v # 18
  BY <1>1 DEF IndexPanics, Reserved, WithErrorCode
<1>5. v < 32 => (try_from(v) \/ v = 9)
  BY <1>1, <1>4 DEF Reserved, try_from
<1>6. ~TakesErrorCode("HandlerFunc")
  BY DEF TakesErrorCode
<1>7. v # 8
  BY <1>4 DEF WithErrorCode
<1> QED BY <1>3, <1>4, <1>5, <1>6, <1>7 DEF Fits, Function

LEMMA WrapperFits ==
  ASSUME NEW v \in Vectors, v \notin SkippedVectors
  PROVE  Fits(v, Wrapper(v, WrapperType(v)))
<1>1. v \in 0 .. 255
  BY IdtAssumption
<1>2. Wrapper(v, WrapperType(v)) \in AllFunctions
  BY DEF AllFunctions
<1>3. v \notin Reserved
  BY DEF Reserved, SkippedVectors
<1>4. v < 32 => (try_from(v) \/ v = 9)
  BY <1>1, <1>3 DEF Reserved, try_from
<1>5. TakesErrorCode(WrapperType(v)) <=> v \in WithErrorCode
  BY <1>1 DEF TakesErrorCode, WrapperType, WithErrorCode
<1>6. v \in {8, 18} => Diverges(WrapperType(v))
  BY DEF Diverges, WrapperType
<1> QED BY <1>2, <1>3, <1>4, <1>5, <1>6 DEF Fits, Wrapper

\* The entries slice_mut returns are those whose index the range contains.
LEMMA SliceIsRange ==
  ASSUME NEW range \in Ranges, ~SlicePanics(range)
  PROVE  /\ slice_mut(range) = {v \in Vectors : Contains(range, v)}
         /\ \A v \in slice_mut(range) : v >= 32
<1>1. /\ range.from \in Bounds /\ range.to \in Bounds
      /\ range.start \in 0 .. 255 /\ range.end \in 0 .. 255
  BY IdtAssumption
<1>2. PICK lo, hi : lo = condition_slice_bounds(range)[1] /\ hi = condition_slice_bounds(range)[2]
  OBVIOUS
<1>3. lo = CASE range.from = "Included" -> range.start
             [] range.from = "Excluded" -> range.start + 1
             [] range.from = "Unbounded" -> 0
  BY <1>2 DEF condition_slice_bounds
<1>4. hi = CASE range.to = "Included" -> range.end + 1
             [] range.to = "Excluded" -> range.end
             [] range.to = "Unbounded" -> 256
  BY <1>2 DEF condition_slice_bounds
<1>5. lo \in Int /\ hi \in Int
  BY <1>1, <1>3, <1>4 DEF Bounds
<1>6. lo >= 32
  BY <1>2, <1>5 DEF SlicePanics
<1>7. ASSUME NEW v \in Vectors
      PROVE  Contains(range, v) <=> lo <= v /\ v < hi
  <2>1. v \in 0 .. 255
    BY IdtAssumption
  <2> DEFINE above == CASE range.from = "Included" -> range.start <= v
                        [] range.from = "Excluded" -> range.start < v
                        [] range.from = "Unbounded" -> TRUE
             below == CASE range.to = "Included" -> v <= range.end
                        [] range.to = "Excluded" -> v < range.end
                        [] range.to = "Unbounded" -> TRUE
  <2>2. above <=> lo <= v
    <3>1. CASE range.from = "Included"
      BY <1>3, <3>1
    <3>2. CASE range.from = "Excluded"
      <4>1. lo = range.start + 1 /\ (above <=> range.start < v)
        BY <1>3, <3>2
      <4> HIDE DEF above
      <4> QED BY <1>1, <2>1, <4>1
    <3>3. CASE range.from = "Unbounded"
      BY <1>3, <2>1, <3>3
    <3> QED BY <1>1, <3>1, <3>2, <3>3 DEF Bounds
  <2>3. below <=> v < hi
    <3>1. CASE range.to = "Included"
      <4>1. hi = range.end + 1 /\ (below <=> v <= range.end)
        BY <1>4, <3>1
      <4> HIDE DEF below
      <4> QED BY <1>1, <2>1, <4>1
    <3>2. CASE range.to = "Excluded"
      BY <1>4, <3>2
    <3>3. CASE range.to = "Unbounded"
      BY <1>4, <2>1, <3>3
    <3> QED BY <1>1, <3>1, <3>2, <3>3 DEF Bounds
  <2> QED BY <2>2, <2>3 DEF Contains
<1>8. ASSUME NEW v \in Vectors
      PROVE  v - 32 \in (lo - 32) .. (hi - 33) <=> lo <= v /\ v < hi
  BY <1>5, IdtAssumption
<1>9. slice_mut(range) = {v \in Vectors : v - 32 \in (lo - 32) .. (hi - 33)}
  BY <1>2 DEF slice_mut
<1>10. ASSUME NEW v \in slice_mut(range) PROVE v >= 32
  <2>1. v \in Vectors
    BY <1>9
  <2>2. lo <= v
    BY <1>8, <1>9, <2>1
  <2>3. v \in 0 .. 255
    BY <2>1, IdtAssumption
  <2> QED BY <1>5, <1>6, <2>2, <2>3
<1> QED BY <1>7, <1>8, <1>9, <1>10

LEMMA IdtPanicInv ==
  ASSUME IInv, IdtCall, IdtPanic
  PROVE  IInv'
<1>1. GInv' /\ limit' = limit /\ given' = given
  BY CallKeeps DEF IdtPanic
<1>2. IdtInv'
  BY <1>1 DEF IInv, IdtInv, IdtPanic, SetGate, Names64
<1> QED BY <1>1, <1>2 DEF IInv

LEMMA SetFieldInv ==
  ASSUME IInv, NEW v \in Vectors, NEW name \in Names, SetField(v, name)
  PROVE  IInv'
<1> DEFINE fs == [u \in Vectors |-> Function(name, FieldType(u))]
<1>1. /\ IdtCall /\ halted' = halted /\ held' = v /\ v < 32 /\ v \notin Reserved
      /\ idt' = [u \in Vectors |-> IF u \in {v} THEN set_handler_addr(Address(fs[u])) ELSE idt[u]]
      /\ asked' = [u \in Vectors |-> IF u \in {v} THEN Wanted(fs[u]) ELSE asked[u]]
  BY DEF SetField, SetHandlers, Ask
<1>2. \A u \in {v} : Fits(u, fs[u])
  BY <1>1, FieldFits
<1> HIDE DEF fs
<1>3. PICK vs : vs = {v}
  OBVIOUS
<1> QED BY <1>1, <1>2, <1>3, SetInv

LEMMA SetIndexInv ==
  ASSUME IInv, NEW v \in Vectors, NEW name \in Names, SetIndex(v, name)
  PROVE  IInv'
<1>1. CASE IndexPanics(v)
  BY <1>1, IdtPanicInv DEF SetIndex
<1>2. CASE ~IndexPanics(v)
  <2> DEFINE fs == [u \in Vectors |-> Function(name, "HandlerFunc")]
  <2>1. /\ IdtCall /\ halted' = halted /\ held' = v
        /\ idt' = [u \in Vectors |-> IF u \in {v} THEN set_handler_addr(Address(fs[u])) ELSE idt[u]]
        /\ asked' = [u \in Vectors |-> IF u \in {v} THEN Wanted(fs[u]) ELSE asked[u]]
    BY <1>2 DEF SetIndex, SetHandlers, Ask
  <2>2. \A u \in {v} : Fits(u, fs[u])
    BY <1>2, PlainFits
  <2> HIDE DEF fs
  <2>3. PICK vs : vs = {v}
    OBVIOUS
  <2> QED BY <2>1, <2>2, <2>3, SetInv
<1> QED BY <1>1, <1>2

LEMMA SetSliceInv ==
  ASSUME IInv, NEW range \in Ranges, NEW name \in Names, SetSlice(range, name)
  PROVE  IInv'
<1>1. CASE SlicePanics(range)
  BY <1>1, IdtPanicInv DEF SetSlice
<1>2. CASE ~SlicePanics(range)
  <2> DEFINE fs == [u \in Vectors |-> Function(name, "HandlerFunc")]
             vs == slice_mut(range)
  <2>1. vs = {v \in Vectors : Contains(range, v)} /\ \A v \in vs : v >= 32
    BY <1>2, SliceIsRange
  <2>2. /\ IdtCall /\ halted' = halted /\ held' = None
        /\ idt' = [u \in Vectors |-> IF u \in vs THEN set_handler_addr(Address(fs[u])) ELSE idt[u]]
        /\ asked' = [u \in Vectors |-> IF u \in {v \in Vectors : Contains(range, v)}
                                       THEN Wanted(fs[u]) ELSE asked[u]]
    BY <1>2 DEF SetSlice, SetHandlers, Ask
  <2>3. vs \in SUBSET Vectors
    BY <2>1
  <2>4. ASSUME NEW u \in vs PROVE Fits(u, fs[u])
    <3>1. u \in Vectors /\ u >= 32
      BY <2>1, <2>3
    <3>2. u \in 0 .. 255
      BY <3>1, IdtAssumption
    <3>3. ~IndexPanics(u)
      BY <3>1, <3>2 DEF IndexPanics
    <3> QED BY <3>1, <3>3, PlainFits
  <2>5. asked' = [u \in Vectors |-> IF u \in vs THEN Wanted(fs[u]) ELSE asked[u]]
    BY <2>1, <2>2
  <2> HIDE DEF fs, vs
  <2> QED BY <2>2, <2>3, <2>4, <2>5, SetInv
<1> QED BY <1>1, <1>2

LEMMA GeneralInv ==
  ASSUME IInv, NEW range \in Ranges, set_general_handler(range)
  PROVE  IInv'
<1> DEFINE fs == [u \in Vectors |-> Wrapper(u, WrapperType(u))]
           vs == {v \in Vectors : Contains(range, v)}
           done == vs \ SkippedVectors
           bad == \E v \in done : WrapperType(v) = "HandlerFunc" /\ IndexPanics(v)
<1>1. CASE bad
  BY <1>1, IdtPanicInv DEF set_general_handler
<1>2. CASE ~bad
  <2>1. /\ IdtCall /\ halted' = halted /\ held' = None
        /\ idt' = [u \in Vectors |-> IF u \in done THEN set_handler_addr(Address(fs[u])) ELSE idt[u]]
        /\ asked' = [u \in Vectors |-> IF u \in vs \ Reserved THEN Wanted(fs[u]) ELSE asked[u]]
    BY <1>2 DEF set_general_handler, SetHandlers, Ask
  <2>2. done = vs \ Reserved
    <3>1. Reserved = SkippedVectors
      BY DEF Reserved, SkippedVectors
    <3> QED BY <3>1
  <2>3. \A u \in done : Fits(u, fs[u])
    BY WrapperFits
  <2>4. done \in SUBSET Vectors
    OBVIOUS
  <2>5. asked' = [u \in Vectors |-> IF u \in done THEN Wanted(fs[u]) ELSE asked[u]]
    BY <2>1, <2>2
  <2> HIDE DEF fs, done
  <2> QED BY <2>1, <2>3, <2>4, <2>5, SetInv
<1> QED BY <1>1, <1>2

LEMMA NoGates ==
  ASSUME idt = [v \in Vectors |-> missing], asked = [v \in Vectors |-> None], held = None
  PROVE  IdtInv
<1>1. missing \in Gates /\ 15 \notin missing.options.bits
  BY DEF missing, minimal, Gates, Words, Bits
<1> QED BY <1>1 DEF IdtInv

LEMMA ResetInv ==
  ASSUME IInv, reset
  PROVE  IInv'
<1>1. GInv'
  BY CallKeeps DEF reset
<1>2. missing \in Gates /\ 15 \notin missing.options.bits
  BY DEF missing, minimal, Gates, Words, Bits
<1>3. IdtInv'
  BY <1>2 DEF reset, IdtInv
<1> QED BY <1>1, <1>3 DEF IInv

(***************************************************************************)
(* Changing options.                                                       *)
(***************************************************************************)
\* One gate is given new bits, and its vector a new wish that they satisfy.
LEMMA OptionInv ==
  ASSUME IInv, NEW bits \in Words, NEW want \in Wants, SetBits(bits),
         want.f = asked[held].f, BitsSay(bits, want),
         asked' = [asked EXCEPT ![held] = want]
  PROVE  IInv'
<1>1. IdtCall /\ halted' = halted /\ held # None /\ held' = held
  BY DEF SetBits
<1>2. GInv' /\ limit' = limit /\ given' = given
  BY <1>1, CallKeeps
<1>3. /\ held \in Vectors /\ asked[held] # None /\ SetGate(held) /\ idt[held] \in Gates
      /\ idt \in [Vectors -> Gates] /\ asked \in [Vectors -> Wants \cup {None}]
  BY <1>1 DEF IInv, IdtInv
<1> DEFINE old == idt[held]
           new == [old EXCEPT !.options.bits = bits]
<1>4. idt' = [idt EXCEPT ![held] = new]
  BY DEF SetBits
<1>5. /\ new \in Gates /\ new.options.bits = bits /\ new.options.cs = old.options.cs
      /\ new.low = old.low /\ new.middle = old.middle /\ new.high = old.high
  BY <1>3 DEF Gates
<1> HIDE DEF new, old
<1>6. idt' \in [Vectors -> Gates] /\ asked' \in [Vectors -> Wants \cup {None}]
  BY <1>3, <1>4, <1>5
<1>7. idt'[held] = new /\ asked'[held] = want
  BY <1>3, <1>4
<1>8. \A v \in Vectors : v # held => idt'[v] = idt[v] /\ asked'[v] = asked[v]
  BY <1>3, <1>4
<1>9. want # None
  BY WantsAssumption
<1>10. SetGate(held)'
  <2>1. /\ handler_addr(old) = Address(asked[held].f) /\ Fits(held, asked[held].f)
        /\ limit # None /\ Names64(old.options.cs)
    BY <1>3 DEF SetGate, old
  <2>2. handler_addr(new) = handler_addr(old)
    BY <1>5 DEF handler_addr
  <2>3. BitsSay(idt'[held].options.bits, asked'[held])
    BY <1>5, <1>7
  <2>4. handler_addr(idt'[held]) = Address(asked'[held].f)
    BY <1>7, <2>1, <2>2
  <2>5. Names64(idt[held].options.cs)'
    BY <1>1, <1>2, <1>5, <1>7, <2>1 DEF Names64
  <2> QED BY <1>1, <1>2, <1>7, <2>1, <2>3, <2>4, <2>5 DEF SetGate, handler_addr
<1>11. ASSUME NEW v \in Vectors
       PROVE  IF asked'[v] = None THEN 15 \notin idt'[v].options.bits ELSE SetGate(v)'
  <2>1. CASE v = held
    BY <1>1, <1>7, <1>9, <1>10, <2>1
  <2>2. CASE v # held
    <3>1. idt'[v] = idt[v] /\ asked'[v] = asked[v]
      BY <1>8, <2>2
    <3>2. SetGate(v) => SetGate(v)'
      BY <1>2, <3>1 DEF SetGate, Names64
    <3> QED BY <3>1, <3>2 DEF IInv, IdtInv
  <2> QED BY <2>1, <2>2
<1>12. IdtInv'
  BY <1>1, <1>3, <1>6, <1>7, <1>9, <1>11 DEF IdtInv
<1> QED BY <1>2, <1>12 DEF IInv

\* What is known of the gate whose options the caller holds.
LEMMA HeldGate ==
  ASSUME IInv, held # None
  PROVE  /\ asked[held] \in Wants /\ idt[held].options.bits \in Words
         /\ BitsSay(idt[held].options.bits, asked[held])
         /\ held \in Vectors /\ asked \in [Vectors -> Wants \cup {None}]
<1>1. held \in Vectors /\ asked[held] # None /\ SetGate(held)
  BY DEF IInv, IdtInv
<1>2. idt[held] \in Gates /\ asked[held] \in Wants /\ asked \in [Vectors -> Wants \cup {None}]
  BY <1>1 DEF IInv, IdtInv
<1> QED BY <1>1, <1>2 DEF SetGate, Gates

LEMMA SetPresentInv ==
  ASSUME IInv, held # None, NEW b \in BOOLEAN, SetPresent(b)
  PROVE  IInv'
<1> DEFINE old == idt[held].options.bits
           bits == set_present(old, b)
           want == [asked[held] EXCEPT !.present = b]
<1>1. asked[held] \in Wants /\ old \in Words /\ BitsSay(old, asked[held])
  BY HeldGate
<1>2. SetBits(bits) /\ asked' = [asked EXCEPT ![held] = want]
  BY DEF SetPresent
<1>3. /\ want \in Wants /\ want.f = asked[held].f /\ want.masks = asked[held].masks
      /\ want.level = asked[held].level /\ want.stack = asked[held].stack /\ want.present = b
  BY <1>1 DEF Wants
<1>4. bits \in Words /\ (\A x : x # 15 => (x \in bits <=> x \in old)) /\ (15 \in bits <=> b = TRUE)
  <2>1. CASE b = TRUE
    BY <1>1, <2>1 DEF set_present, set_bit, Words, Bits
  <2>2. CASE b = FALSE
    BY <1>1, <2>2 DEF set_present, set_bit, Words, Bits
  <2> QED BY <2>1, <2>2
<1>5. StackNo(want) = StackNo(asked[held])
  BY <1>3 DEF StackNo
<1> HIDE DEF old, bits, want
<1>6. BitsSay(bits, want)
  BY <1>1, <1>3, <1>4, <1>5 DEF BitsSay
<1> QED BY <1>2, <1>3, <1>4, <1>6, OptionInv

LEMMA DisableInterruptsInv ==
  ASSUME IInv, held # None, NEW b \in BOOLEAN, DisableInterrupts(b)
  PROVE  IInv'
<1> DEFINE old == idt[held].options.bits
           bits == disable_interrupts(old, b)
           want == [asked[held] EXCEPT !.masks = b]
<1>1. asked[held] \in Wants /\ old \in Words /\ BitsSay(old, asked[held])
  BY HeldGate
<1>2. SetBits(bits) /\ asked' = [asked EXCEPT ![held] = want]
  BY DEF DisableInterrupts
<1>3. /\ want \in Wants /\ want.f = asked[held].f /\ want.present = asked[held].present
      /\ want.level = asked[held].level /\ want.stack = asked[held].stack /\ want.masks = b
  BY <1>1 DEF Wants
<1>4. bits \in Words /\ (\A x : x # 8 => (x \in bits <=> x \in old)) /\ (8 \in bits <=> b = FALSE)
  <2>1. CASE b = TRUE
    BY <1>1, <2>1 DEF disable_interrupts, set_bit, Words, Bits
  <2>2. CASE b = FALSE
    BY <1>1, <2>2 DEF disable_interrupts, set_bit, Words, Bits
  <2> QED BY <2>1, <2>2
<1>5. StackNo(want) = StackNo(asked[held])
  BY <1>3 DEF StackNo
<1> HIDE DEF old, bits, want
<1>6. BitsSay(bits, want)
  BY <1>1, <1>3, <1>4, <1>5 DEF BitsSay
<1> QED BY <1>2, <1>3, <1>4, <1>6, OptionInv

LEMMA SetPrivilegeLevelInv ==
  ASSUME IInv, held # None, NEW level \in 0 .. 3, SetPrivilegeLevel(level)
  PROVE  IInv'
<1> DEFINE old == idt[held].options.bits
           bits == set_privilege_level(old, level)
           want == [asked[held] EXCEPT !.level = level]
<1>1. asked[held] \in Wants /\ old \in Words /\ BitsSay(old, asked[held])
  BY HeldGate
<1>2. SetBits(bits) /\ asked' = [asked EXCEPT ![held] = want]
  BY DEF SetPrivilegeLevel
<1>3. /\ want \in Wants /\ want.f = asked[held].f /\ want.present = asked[held].present
      /\ want.masks = asked[held].masks /\ want.stack = asked[held].stack /\ want.level = level
  BY <1>1 DEF Wants
<1>4. /\ \A x : x \in at(13, Binary(level)) <=> x \in {13, 14} /\ x - 13 \in Binary(level)
      /\ 0 \in Binary(level) <=> level \in {1, 3}
      /\ 1 \in Binary(level) <=> level \in {2, 3}
  <2>1. /\ 0 \in Binary(level) <=> level \in {1, 3}
        /\ 1 \in Binary(level) <=> level \in {2, 3}
        /\ 2 \notin Binary(level) /\ Binary(level) \subseteq 0 .. 2
    BY BinaryBits
  <2>2. \A x : x \in at(13, Binary(level)) <=> x \in Int /\ x - 13 \in Binary(level)
    <3>1. Binary(level) \in SUBSET Int
      BY <2>1
    <3> QED BY <3>1, AtBits
  <2>3. ASSUME NEW x \in Int, x - 13 \in Binary(level) PROVE x \in {13, 14}
    <3>1. x - 13 \in {0, 1}
      BY <2>1, <2>3
    <3> QED BY <3>1
  <2> QED BY <2>1, <2>2, <2>3
<1>5. bits = (old \ {13, 14}) \cup at(13, Binary(level))
  BY DEF set_privilege_level
<1>6. StackNo(want) = StackNo(asked[held])
  BY <1>3 DEF StackNo
<1> HIDE DEF old, bits, want
<1>7. /\ bits \in Words /\ (\A x : x \notin {13, 14} => (x \in bits <=> x \in old))
      /\ 13 \in bits <=> level \in {1, 3}
      /\ 14 \in bits <=> level \in {2, 3}
  <2>1. bits \in Words /\ \A x : x \notin {13, 14} => (x \in bits <=> x \in old)
    <3>1. ASSUME NEW x PROVE x \in bits <=> (x \in old /\ x \notin {13, 14})
                                             \/ (x \in {13, 14} /\ x - 13 \in Binary(level))
      BY <1>4, <1>5
    <3>2. ASSUME NEW x \in bits PROVE x \in 0 .. 63
      <4>1. CASE x \in old
        BY <1>1, <4>1 DEF Words, Bits
      <4>2. CASE x \in {13, 14}
        BY <4>2
      <4> QED BY <3>1, <4>1, <4>2
    <3> QED BY <3>1, <3>2 DEF Words, Bits
  <2>2. (13 \in bits <=> 0 \in Binary(level)) /\ (14 \in bits <=> 1 \in Binary(level))
    <3>1. 13 - 13 = 0 /\ 14 - 13 = 1
      OBVIOUS
    <3>2. /\ 13 \in at(13, Binary(level)) <=> 0 \in Binary(level)
          /\ 14 \in at(13, Binary(level)) <=> 1 \in Binary(level)
      BY <1>4, <3>1
    <3> QED BY <1>5, <3>2
  <2> QED BY <1>4, <2>1, <2>2
<1>8. BitsSay(bits, want)
  <2>1. \A x \in {9, 10, 11, 8, 15} \cup 0 .. 2 : x \in bits <=> x \in old
    BY <1>7
  <2> QED BY <1>1, <1>3, <1>6, <1>7, <2>1 DEF BitsSay
<1> QED BY <1>2, <1>3, <1>7, <1>8, OptionInv

LEMMA SetStackIndexInv ==
  ASSUME IInv, held # None, NEW i \in StackIndices, SetStackIndex(i)
  PROVE  IInv'
<1>1. CASE ~stack_index_fits(i)
  BY <1>1, IdtPanicInv DEF SetStackIndex
<1>2. CASE stack_index_fits(i)
  <2> DEFINE old == idt[held].options.bits
             bits == set_stack_index(old, i)
             want == [asked[held] EXCEPT !.stack = i]
  <2>1. asked[held] \in Wants /\ old \in Words /\ BitsSay(old, asked[held])
    BY HeldGate
  <2>2. SetBits(bits) /\ asked' = [asked EXCEPT ![held] = want]
    BY <1>2 DEF SetStackIndex
  <2>3. i \in Nat
    BY IdtAssumption
  <2>4. /\ want \in Wants /\ want.f = asked[held].f /\ want.present = asked[held].present
        /\ want.masks = asked[held].masks /\ want.level = asked[held].level /\ want.stack = i
    BY <2>1, <2>3 DEF Wants
  <2>5. StackNo(want) = i + 1 /\ i + 1 \in 0 .. 7
    BY <1>2, <2>3, <2>4, GdtAssumption DEF StackNo, stack_index_fits
  <2>6. Binary(i + 1) \subseteq 0 .. 2
    BY <2>5, BinaryBits
  <2>7. bits = (old \ 0 .. 2) \cup Binary(i + 1)
    BY DEF set_stack_index
  <2> HIDE DEF old, bits, want
  <2>8. /\ bits \in Words /\ \A x : x \notin 0 .. 2 => (x \in bits <=> x \in old)
        /\ \A b \in 0 .. 2 : b \in bits <=> b \in Binary(i + 1)
    <3>1. ASSUME NEW x PROVE x \in bits <=> (x \in old /\ x \notin 0 .. 2) \/ x \in Binary(i + 1)
      BY <2>7
    <3>2. ASSUME NEW x \in bits PROVE x \in 0 .. 63
      <4>1. CASE x \in old
        BY <2>1, <4>1 DEF Words, Bits
      <4>2. CASE x \in 0 .. 2
        BY <4>2
      <4> QED BY <2>6, <3>1, <4>1, <4>2
    <3>3. \A x : x \notin 0 .. 2 => (x \in bits <=> x \in old)
      BY <2>6, <3>1
    <3>4. \A b \in 0 .. 2 : b \in bits <=> b \in Binary(i + 1)
      BY <3>1
    <3> QED BY <3>2, <3>3, <3>4 DEF Words, Bits
  <2>9. BitsSay(bits, want)
    <3>1. \A x \in {8, 9, 10, 11, 13, 14, 15} : x \in bits <=> x \in old
      BY <2>8
    <3> QED BY <2>1, <2>4, <2>5, <2>8, <3>1 DEF BitsSay
  <2> QED BY <2>2, <2>4, <2>8, <2>9, OptionInv
<1> QED BY <1>1, <1>2

LEMMA IdtNextInv ==
  ASSUME IInv, IdtNext
  PROVE  IInv'
<1>1. CASE \E v \in Vectors, name \in Names : SetField(v, name) \/ SetIndex(v, name)
  BY <1>1, SetFieldInv, SetIndexInv
<1>2. CASE \E range \in Ranges, name \in Names : SetSlice(range, name)
  BY <1>2, SetSliceInv
<1>3. CASE \E range \in Ranges : set_general_handler(range)
  BY <1>3, GeneralInv
<1>4. CASE reset
  BY <1>4, ResetInv
<1>5. CASE OptionCall
  <2>1. held # None
    BY <1>5 DEF OptionCall
  <2>2. CASE \E b \in BOOLEAN : SetPresent(b)
    BY <2>1, <2>2, SetPresentInv
  <2>3. CASE \E b \in BOOLEAN : DisableInterrupts(b)
    BY <2>1, <2>3, DisableInterruptsInv
  <2>4. CASE \E level \in 0 .. 3 : SetPrivilegeLevel(level)
    BY <2>1, <2>4, SetPrivilegeLevelInv
  <2>5. CASE \E i \in StackIndices : SetStackIndex(i)
    BY <2>1, <2>5, SetStackIndexInv
  <2> QED BY <1>5, <2>2, <2>3, <2>4, <2>5 DEF OptionCall
<1> QED BY <1>1, <1>2, <1>3, <1>4, <1>5 DEF IdtNext

(***************************************************************************)
(* The GDT under an IDT: what gates rely on is never taken back.           *)
(***************************************************************************)
LEMMA GdtGrows ==
  ASSUME GdtNext
  PROVE  given \subseteq given' /\ (limit # None => limit' # None)
<1>1. CASE \E slice \in RawSlices : FromRawEntries(slice)
  BY <1>1 DEF FromRawEntries, Panic
<1>2. CASE \E d \in Descriptors : append(d)
  BY <1>2 DEF append, Panic
<1>3. CASE load
  BY <1>3 DEF load
<1>4. CASE \E g \in given : SetCs(g) \/ LoadTss(g)
  BY <1>4 DEF SetCs, LoadTss
<1>5. CASE \E a, b, c, d \in Selectors : StarWrite(<<a, b, c, d>>)
  BY <1>5 DEF StarWrite
<1> QED BY <1>1, <1>2, <1>3, <1>4, <1>5 DEF GdtNext

LEMMA TablesInv == TablesSpec => []IInv
<1>1. TablesInit => IInv
  BY GdtInitInv, NoGates DEF TablesInit, IdtInit, IInv
<1>2. IInv /\ [TablesNext]_<<gdtVars, idtVars>> => IInv'
  <2> SUFFICES ASSUME IInv, [TablesNext]_<<gdtVars, idtVars>> PROVE IInv'
    OBVIOUS
  <2>1. CASE GdtNext /\ UNCHANGED idtVars
    <3>1. GInv' /\ given \subseteq given' /\ (limit # None => limit' # None)
      BY <2>1, GdtNextInv, GdtGrows DEF IInv
    <3>2. idt' = idt /\ asked' = asked /\ held' = held
      BY <2>1 DEF idtVars
    <3>3. ASSUME NEW v \in Vectors, SetGate(v) PROVE SetGate(v)'
      BY <3>1, <3>2, <3>3 DEF SetGate, Names64
    <3>4. IdtInv'
      BY <3>2, <3>3 DEF IInv, IdtInv
    <3> QED BY <3>1, <3>4 DEF IInv
  <2>2. CASE IdtNext
    BY <2>2, IdtNextInv
  <2>3. CASE UNCHANGED <<gdtVars, idtVars>>
    <3>1. /\ UNCHANGED <<table, given, limit, cs, tr, star, starArgs, halted>>
          /\ UNCHANGED <<idt, held, asked>>
      BY <2>3 DEF gdtVars, idtVars
    <3>2. PanicInv'
      BY <3>1 DEF IInv, GInv, PanicInv
    <3>3. GInv'
      BY <3>1, <3>2, PanicStep DEF IInv
    <3>4. IdtInv'
      BY <3>1 DEF IInv, IdtInv, SetGate, Names64
    <3> QED BY <3>3, <3>4 DEF IInv
  <2> QED BY <2>1, <2>2, <2>3 DEF TablesNext
<1> QED BY <1>1, <1>2, PTL DEF TablesSpec

(***************************************************************************)
(* Theorems.                                                               *)
(***************************************************************************)
\* Every selector that append returned names, once the table is loaded, all the words of
\* its descriptor at that descriptor's level (SelectorsNameDescriptors), for a table of
\* any size that fits in a 16-bit limit, built from any slice and in any order.
THEOREM SelectorsCorrect == TablesSpec => []SelectorsNameDescriptors
<1>1. IInv => SelectorsNameDescriptors
  BY SelectorsFromInv DEF IInv
<1> QED BY <1>1, TablesInv, PTL

\* append panics only when the words of the descriptor do not fit (PanicsOnlyWhenFull),
\* and no call makes the table longer than its array.
THEOREM PanicsCorrect == TablesSpec => []PanicsOnlyWhenFull
<1>1. IInv => PanicsOnlyWhenFull
  BY PanicsFromInv DEF IInv
<1> QED BY <1>1, TablesInv, PTL

\* After load_tss, the processor reads back the base and the limit of the task state
\* segment (TaskStateFound), wherever in memory it is.
THEOREM TaskStateCorrect == TablesSpec => []TaskStateFound
<1>1. IInv => TaskStateFound
  BY TaskStateFromInv DEF IInv
<1> QED BY <1>1, TablesInv, PTL

\* A Star::write that succeeds leaves selectors which SYSCALL and SYSRET load at the
\* levels they force, and which Star::read returns (SyscallSelectors).
THEOREM SyscallCorrect == TablesSpec => []SyscallSelectors
<1>1. IInv => SyscallSelectors
  BY SyscallFromInv DEF IInv
<1> QED BY <1>1, TablesInv, PTL

\* Every gate delivers what was last asked for its vector (GatesDeliverAsked), through
\* fields, indices, ranges and set_general_handler!, and after any changes of options.
THEOREM GatesCorrect == TablesSpec => []GatesDeliverAsked
<1>1. IInv => GatesDeliverAsked
  BY GatesFromInv
<1> QED BY <1>1, TablesInv, PTL

\* The function that a present gate leads to has the signature the processor calls it
\* with (HandlersFitVectors), for each of the 256 vectors.
THEOREM HandlersCorrect == TablesSpec => []HandlersFitVectors
<1>1. IInv => HandlersFitVectors
  BY GatesFromInv
<1> QED BY <1>1, TablesInv, PTL
=============================================================================
