-------------------------------- MODULE Gdt --------------------------------
(***************************************************************************)
(* The global descriptor table (structures/gdt.rs), the selectors that     *)
(* name its descriptors (registers/segmentation.rs), the registers that    *)
(* hold them (CS, TR) and the STAR register that SYSCALL and SYSRET take   *)
(* theirs from (registers/model_specific.rs).                              *)
(*                                                                         *)
(* A descriptor word is the set of its bits.  One table is built, loaded   *)
(* (load takes &'static self: nothing is appended later) and used.  The    *)
(* table is scaled down with the numbers that describe it: the code has    *)
(* MAX <= 2^13 entries of 8 bytes and U16 = 2^16.                          *)
(***************************************************************************)
EXTENDS Integers, Sequences, FiniteSets

CONSTANTS
  MAX,             \* entries of the table
  U16,             \* numbers of limits and of selectors
  TssAddr,         \* the bits of the address of the task state segment
  RawSlices,       \* what from_raw_entries is called with
  None

\* "A GDT cannot have 0 entries", "A GDT can only have at most 2^13 entries" (empty).
ASSUME GdtAssumption ==
  /\ MAX \in Nat /\ U16 \in Nat /\ None \notin Nat
  /\ MAX > 0 /\ MAX * 8 <= U16
  /\ TssAddr \subseteq 0 .. 63
  /\ RawSlices \subseteq Seq(SUBSET (0 .. 63))

VARIABLES
  table,           \* the entries below len
  given,           \* what append returned, for which descriptor
  limit,           \* in GDTR, if the table is loaded
  cs, tr,          \* CS and TR, if set from this table
  star,            \* the MSR, if written
  starArgs,        \* the selectors of the last successful Star::write
  halted           \* entries a panicking append needed, or 0

gdtVars == <<table, given, limit, cs, tr, star, starArgs, halted>>

(***************************************************************************)
(* Descriptors.                                                            *)
(***************************************************************************)
ACCESSED == 40
WRITABLE == 41
EXECUTABLE == 43
USER_SEGMENT == 44
DPL_RING_3 == {45, 46}
PRESENT == 47
LONG_MODE == 53
DEFAULT_SIZE == 54
GRANULARITY == 55
LIMIT_0_15 == 0 .. 15
LIMIT_16_19 == 48 .. 51

COMMON == {USER_SEGMENT, PRESENT, WRITABLE, ACCESSED, GRANULARITY} \cup LIMIT_0_15 \cup LIMIT_16_19
KERNEL_DATA == COMMON \cup {DEFAULT_SIZE}
KERNEL_CODE64 == COMMON \cup {EXECUTABLE, LONG_MODE}
USER_DATA == KERNEL_DATA \cup DPL_RING_3
USER_CODE64 == KERNEL_CODE64 \cup DPL_RING_3

\* get_bits(lo .. hi) and what set_bits writes at lo.
get_bits(word, lo, hi) == {b - lo : b \in word \cap lo .. (hi - 1)}
at(lo, bits) == {b + lo : b \in bits}

\* Mutant: bits 24 to 31 of the base are forgotten.
tss_segment_LowBase ==
  <<{PRESENT} \cup at(16, get_bits(TssAddr, 0, 24)) \cup {0, 1, 2, 5, 6} \cup {40, 43},
    get_bits(TssAddr, 32, 64)>>
\* A Descriptor is its words: one for a UserSegment, two for a SystemSegment.
\* The limit of the TSS is size_of::<TaskStateSegment>() - 1 = 0x67.
tss_segment ==
  <<{PRESENT} \cup at(16, get_bits(TssAddr, 0, 24)) \cup at(56, get_bits(TssAddr, 24, 32))
      \cup {0, 1, 2, 5, 6} \cup {40, 43},
    get_bits(TssAddr, 32, 64)>>

Descriptors == {<<KERNEL_CODE64>>, <<KERNEL_DATA>>, <<USER_DATA>>, <<USER_CODE64>>, tss_segment}

\* The value of two bits.
Level(bits) == (IF 0 \in bits THEN 1 ELSE 0) + (IF 1 \in bits THEN 2 ELSE 0)
dpl(descriptor) == Level(get_bits(descriptor[1], 45, 47))

SegmentSelector(i, rpl) == ((i * 8) % U16) + rpl
index(selector) == selector \div 8
rpl_of(selector) == selector % 4

(***************************************************************************)
(* The processor (external): the descriptor a selector names in the loaded *)
(* table, nothing if it ends above the limit.                              *)
(***************************************************************************)
Busy == 41                           \* of a TSS descriptor
WordAt(i) == IF i * 8 + 7 <= limit /\ i < MAX
             THEN IF i < Len(table) THEN <<table[i + 1]>> ELSE <<{}>>
             ELSE <<>>
Fetch(selector) ==
  LET low == WordAt(index(selector))
  IN  IF low = <<>> \/ USER_SEGMENT \in low[1] THEN low
      ELSE low \o WordAt(index(selector) + 1)

IsCode64(words, level) ==
  /\ Len(words) = 1
  /\ {PRESENT, USER_SEGMENT, EXECUTABLE, LONG_MODE} \subseteq words[1]
  /\ DEFAULT_SIZE \notin words[1]
  /\ dpl(words) = level

TssBase(words) ==
  get_bits(words[1], 16, 40) \cup at(24, get_bits(words[1], 56, 64)) \cup at(32, words[2])

(***************************************************************************)
(* Building the table.                                                     *)
(***************************************************************************)
Running == halted = None

Panic(why) ==
  /\ halted' = why
  /\ UNCHANGED <<table, given, limit, cs, tr, star, starArgs>>

empty == <<{}>>

\* from_raw_entries, instead of empty.
FromRawEntries(slice) ==
  /\ Running
  /\ table = empty /\ limit = None
  /\ IF slice # <<>> /\ slice[1] = {} /\ Len(slice) <= MAX
     THEN table' = slice /\ UNCHANGED <<given, limit, cs, tr, star, starArgs, halted>>
     ELSE Panic(0)

\* Mutant: one free entry will do for any descriptor.
HasRoom_OneWord(words) == ~ Len(table) > MAX - 1

\* append pushes both words of a system segment or panics before the first.
HasRoom(words) ==
  IF Len(words) = 1 THEN ~ Len(table) > MAX - 1
  ELSE ~ Len(table) > (IF MAX < 2 THEN 0 ELSE MAX - 2)

Selector(words) == SegmentSelector(Len(table), dpl(words))

append(descriptor) ==
  /\ Running
  /\ limit = None
  /\ IF HasRoom(descriptor)
     THEN /\ table' = table \o descriptor
          /\ given' = given \cup {[selector |-> Selector(descriptor), words |-> descriptor]}
          /\ UNCHANGED <<limit, cs, tr, star, starArgs, halted>>
     ELSE Panic(Len(descriptor))

(***************************************************************************)
(* Using it.                                                               *)
(***************************************************************************)
\* Mutant: the number of bytes.
table_limit_Bytes == (Len(table) * 8) % U16

\* limit: one less than the bytes of the table, as u16.
table_limit == (Len(table) * 8 - 1) % U16

load ==
  /\ Running
  /\ limit = None
  /\ limit' = table_limit
  /\ UNCHANGED <<table, given, cs, tr, star, starArgs, halted>>

\* CS::set_reg.  The caller passes the selector of a 64-bit kernel code segment.
SetCs(g) ==
  /\ Running
  /\ limit # None
  /\ g.words = <<KERNEL_CODE64>>
  /\ cs' = g.selector
  /\ UNCHANGED <<table, given, limit, tr, star, starArgs, halted>>

\* load_tss: ltr marks the descriptor busy.  The caller passes one that is not.
LoadTss(g) ==
  /\ Running
  /\ limit # None
  /\ g.words = tss_segment
  /\ Busy \notin table[index(g.selector) + 1]
  /\ tr' = g.selector
  /\ table' = [table EXCEPT ![index(g.selector) + 1] = @ \cup {Busy}]
  /\ UNCHANGED <<given, limit, cs, star, starArgs, halted>>

\* Star::write: the checks that make it fail, in i32, and the value it writes.
StarError(cs_sysret, ss_sysret, cs_syscall, ss_syscall) ==
  \/ cs_sysret - 16 # ss_sysret - 8
  \/ cs_syscall # ss_syscall - 8
  \/ rpl_of(ss_sysret) # 3
  \/ rpl_of(ss_syscall) # 0

\* Mutant: the offset of SS is taken from CS.
StarValue_Cs(cs_sysret, ss_sysret, cs_syscall, ss_syscall) ==
  [sysret |-> (cs_sysret - 8) % U16, syscall |-> cs_syscall]

StarValue(cs_sysret, ss_sysret, cs_syscall, ss_syscall) ==
  [sysret |-> (ss_sysret - 8) % U16, syscall |-> cs_syscall]

\* An error leaves the register alone.
StarWrite(args) ==
  /\ Running
  /\ limit # None
  /\ ~StarError(args[1], args[2], args[3], args[4])
  /\ star' = StarValue(args[1], args[2], args[3], args[4])
  /\ starArgs' = args
  /\ UNCHANGED <<table, given, limit, cs, tr, halted>>

\* Star::read.
star_read ==
  <<(star.sysret + 16) % U16, (star.sysret + 8) % U16,
    star.syscall, (star.syscall + 8) % U16>>

GdtInit ==
  /\ table = empty
  /\ given = {}
  /\ limit = None /\ cs = None /\ tr = None
  /\ star = None /\ starArgs = None
  /\ halted = None

Selectors == {g.selector : g \in given}

GdtNext ==
  \/ \E slice \in RawSlices : FromRawEntries(slice)
  \/ \E d \in Descriptors : append(d)
  \/ load
  \/ \E g \in given : SetCs(g) \/ LoadTss(g)
  \/ \E a, b, c, d \in Selectors : StarWrite(<<a, b, c, d>>)

(***************************************************************************)
(* Correctness.                                                            *)
(***************************************************************************)
\* Once the table is loaded, every selector that append returned names, within the
\* limit the processor was given, all the words of the descriptor that was appended for
\* it, at that descriptor's privilege level.  append, SegmentSelector::new and limit
\* each compute an index; the widths are at their edge when the table is full.
SelectorsNameDescriptors ==
  limit # None =>
    \A g \in given :
      /\ Len(Fetch(g.selector)) = Len(g.words)
      /\ \A i \in DOMAIN g.words : Fetch(g.selector)[i] \ {Busy} = g.words[i] \ {Busy}
      /\ rpl_of(g.selector) = dpl(Fetch(g.selector))

\* "Panics if the GDT doesn't have enough free entries" (append), and only then.
PanicsOnlyWhenFull ==
  /\ Len(table) <= MAX
  /\ halted \in {1, 2} => Len(table) + halted > MAX

\* The task register finds the task state segment: base and limit that tss_segment
\* scattered over two words come back together, whatever was appended around them.
TaskStateFound ==
  tr # None => /\ TssBase(Fetch(tr)) = TssAddr
               /\ get_bits(Fetch(tr)[1], 0, 16) = {0, 1, 2, 5, 6}
               /\ tr % 4 = 0

\* After a successful Star::write, SYSRET and SYSCALL load the four selectors that were
\* passed, with the privilege levels the two instructions force, and Star::read returns
\* them.
SyscallSelectors ==
  star # None =>
    /\ star_read = starArgs
    /\ \A i \in {1, 2} : rpl_of(starArgs[i]) = 3 /\ dpl(Fetch(starArgs[i])) = 3
    /\ \A i \in {3, 4} : rpl_of(starArgs[i]) = 0 /\ dpl(Fetch(starArgs[i])) = 0
=============================================================================
