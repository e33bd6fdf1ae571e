----------------------------- MODULE Registers -----------------------------
(***************************************************************************)
(* The registers that a kernel reads, modifies and writes back             *)
(* (registers/control.rs, xcontrol.rs, debug.rs, model_specific.rs), one   *)
(* instruction at a time, on a processor that takes interrupts between any *)
(* two of them (Interrupts).                                               *)
(*                                                                         *)
(* Registers do not share bits, so a behaviour is about one of them, reg.  *)
(* Its raw value is the SET OF ITS BITS, numbered as in the code; the      *)
(* masks of the code are intersections.                                    *)
(*                                                                         *)
(* The kernel is external: its calls are those of Calls(reg), and since    *)
(* its handlers make them too, each is made in a closure of                *)
(* without_interrupts.  The closure passed to an update may itself call    *)
(* without_interrupts.                                                     *)
(***************************************************************************)
EXTENDS Interrupts

CONSTANTS
  Regs,            \* the registers in question
  Calls(_),        \* the calls the kernel makes on each
  MaxCalls         \* how many it makes

VARIABLES
  reg,             \* the register of this behaviour
  raw,             \* its bits
  calls,           \* calls made so far
  told,            \* history: what the calls, one after the other, make of its fields
  panicked

regVars == <<reg, raw, calls, told, panicked>>
allVars == <<vars, regVars>>

(***************************************************************************)
(* The flags that the types of the code name.                              *)
(***************************************************************************)
Cr0Flags == {0, 1, 2, 3, 4, 5, 16, 18, 29, 30, 31}
Cr4Flags == 0 .. 14 \cup 16 .. 24
EferFlags == {0, 8} \cup 10 .. 15
RFlags == {0, 2, 4} \cup 6 .. 14 \cup 16 .. 21
CetFlags == 0 .. 5 \cup {10, 11}
ApicBaseFlags == {8, 10, 11}
Dr7Flags == 0 .. 9 \cup {11, 13}

X87 == 0
SSE == 1
AVX == 2
mpx == {3, 4}
avx512 == {5, 6, 7}
XCr0Flags == {X87, SSE, AVX} \cup mpx \cup avx512 \cup {9, 62}

PageBits == 12 .. 63      \* a page's address in IA32_U_CET and IA32_S_CET
FrameBits == 12 .. 51     \* a frame's in IA32_APIC_BASE

(***************************************************************************)
(* Dr7Value.                                                               *)
(***************************************************************************)
valid_bits == 16 .. 31 \cup Dr7Flags

insert_flags(v, bits) == v \cup bits
remove_flags(v, bits) == v \ bits
toggle_flags(v, bits) == (v \cup bits) \ (v \cap bits)

\* Two bits of a value as a number, and back.
TwoBits(v, lsb) == (IF lsb \in v THEN 1 ELSE 0) + (IF lsb + 1 \in v THEN 2 ELSE 0)
SetTwoBits(v, lsb, n) ==
  (v \ {lsb, lsb + 1}) \cup (IF n % 2 = 1 THEN {lsb} ELSE {})
                       \cup (IF n >= 2 THEN {lsb + 1} ELSE {})

\* Mutant: the conditions lie side by side, over the sizes.
condition_range_Dense(n) == 16 + 2 * n

\* BreakpointCondition::bit_range and BreakpointSize::bit_range.
condition_range(n) == 16 + 4 * n
size_range(n) == 18 + 4 * n

condition(v, n) == TwoBits(v, condition_range(n))
set_condition(v, n, c) == SetTwoBits(v, condition_range(n), c)
size(v, n) == TwoBits(v, size_range(n))
set_size(v, n, s) == SetTwoBits(v, size_range(n), s)

(***************************************************************************)
(* IA32_PAT: a byte per entry, of which a PatMemoryType uses three bits.   *)
(***************************************************************************)
PatMemoryType == {0, 1, 4, 5, 6, 7}
PatIndex == 0 .. 7

pat_write(table) == UNION {{8 * i + b : b \in {c \in 0 .. 2 : (table[i] \div 2 ^ c) % 2 = 1}}
                           : i \in PatIndex}
pat_read(v) == [i \in PatIndex |->
                  (IF 8 * i \in v THEN 1 ELSE 0) + (IF 8 * i + 1 \in v THEN 2 ELSE 0)
                  + (IF 8 * i + 2 \in v THEN 4 ELSE 0)]

(***************************************************************************)
(* What differs from register to register: the bits that read() answers    *)
(* and write() is given (known), the bits of the old value that write()    *)
(* does not keep (masked), and whether it reads the old value at all.      *)
(***************************************************************************)
Cr0 == [known |-> Cr0Flags, masked |-> Cr0Flags, rereads |-> TRUE]
Cr4 == [known |-> Cr4Flags, masked |-> Cr4Flags, rereads |-> TRUE]
Efer == [known |-> EferFlags, masked |-> EferFlags, rereads |-> TRUE]
XCr0 == [known |-> XCr0Flags, masked |-> XCr0Flags, rereads |-> TRUE]
Dr7 == [known |-> valid_bits, masked |-> valid_bits, rereads |-> TRUE]
SFMask == [known |-> RFlags, masked |-> 0 .. 63, rereads |-> FALSE]
UCet == [known |-> CetFlags \cup PageBits, masked |-> 0 .. 63, rereads |-> FALSE]
SCet == [known |-> CetFlags \cup PageBits, masked |-> 0 .. 63, rereads |-> FALSE]
Pat == [known |-> 0 .. 63, masked |-> 0 .. 63, rereads |-> FALSE]

\* The old value is masked with the flags alone.
ApicBase == [known |-> ApicBaseFlags \cup FrameBits, masked |-> ApicBaseFlags,
             rereads |-> TRUE]

Of(r) ==
  CASE r = "cr0" -> Cr0 [] r = "cr4" -> Cr4 [] r = "efer" -> Efer
    [] r = "xcr0" -> XCr0 [] r = "dr7" -> Dr7 [] r = "sfmask" -> SFMask
    [] r = "ucet" -> UCet [] r = "scet" -> SCet [] r = "pat" -> Pat
    [] r = "apic" -> ApicBase

\* The value a kernel finds, with bits that newer processors define (CR4.LAM_SUP,
\* EFER.AIBRSE, the AMX state of XCR0), bit 10 of DR7, the APIC at 0xfee0_0000.
InitialRaw(r) ==
  CASE r = "cr0" -> {0, 1, 4, 5, 16, 31} [] r = "cr4" -> {5, 7, 9, 28}
    [] r = "efer" -> {0, 8, 10, 11, 21} [] r = "xcr0" -> {X87, SSE, AVX, 17, 18}
    [] r = "dr7" -> {10} [] r = "sfmask" -> {9} [] r = "ucet" -> {} [] r = "scet" -> {}
    [] r = "pat" -> pat_write([i \in PatIndex |-> <<6, 4, 7, 0>>[(i % 4) + 1]])
    [] r = "apic" -> {8, 11} \cup {21, 22, 23} \cup 25 .. 31

\* Do the asserts of XCr0::write hold?
xcr0_asserts(flags) ==
  /\ X87 \in flags
  /\ AVX \in flags => SSE \in flags
  /\ flags \cap mpx # {} => mpx \subseteq flags
  /\ flags \cap avx512 # {} => AVX \in flags /\ avx512 \subseteq flags

Asserts(r, flags) == r = "xcr0" => xcr0_asserts(flags)

\* read(), or its panic: SFMask::read unwraps from_bits, the two CETs' read makes a
\* Page of the address bits, Pat::read unwraps each byte's from_bits.
Readable(r, v) ==
  CASE r = "sfmask" -> v \subseteq RFlags
    [] r \in {"ucet", "scet"} -> 47 .. 63 \subseteq v \/ 47 .. 63 \cap v = {}
    [] r = "pat" -> \A i \in PatIndex : /\ v \cap (8 * i + 3 .. 8 * i + 7) = {}
                                        /\ pat_read(v)[i] \in PatMemoryType
    [] OTHER -> TRUE
read(r, v) == v \cap Of(r).known

(***************************************************************************)
(* Calls.  A call is an update, whose change is what its argument does to  *)
(* the value it is given, or a write or write_raw of a value.              *)
(***************************************************************************)
Apply(change, v) ==
  CASE change.op = "all" -> change.bits
    [] change.op = "insert" -> insert_flags(v, change.bits)
    [] change.op = "remove" -> remove_flags(v, change.bits)
    [] change.op = "toggle" -> toggle_flags(v, change.bits)
    [] change.op = "page" -> (v \ PageBits) \cup change.bits
    [] change.op = "condition" -> set_condition(v, change.n, change.value)
    [] change.op = "size" -> set_size(v, change.n, change.value)

(***************************************************************************)
(* What the types of the code let a caller pass: flags, and of the CETs    *)
(* the Page, of Pat the eight PatMemoryTypes, of DR7 the numbers of its    *)
(* enums.  The caller of write_raw answers for the reserved bits; the      *)
(* kernel uses it where all of them read back.                             *)
(***************************************************************************)
FlagsOf(r) ==
  CASE r = "dr7" -> Dr7Flags [] r \in {"ucet", "scet"} -> CetFlags
    [] r = "apic" -> ApicBaseFlags [] OTHER -> Of(r).known
CanonicalPage(bits) == 47 .. 63 \subseteq bits \/ 47 .. 63 \cap bits = {}

MayWrite(r, bits) ==
  /\ bits \subseteq Of(r).known
  /\ r \in {"ucet", "scet"} => CanonicalPage(bits)
  /\ r = "pat" => /\ \A i \in PatIndex : pat_read(bits)[i] \in PatMemoryType
                  /\ bits = pat_write(pat_read(bits))
MayChange(r, change) ==
  \/ change.op \in {"insert", "remove", "toggle"} /\ change.bits \subseteq FlagsOf(r)
  \/ /\ change.op = "page" /\ r \in {"ucet", "scet"}
     /\ change.bits \subseteq PageBits /\ CanonicalPage(change.bits)
  \/ /\ change.op \in {"condition", "size"} /\ r = "dr7"
     /\ change.n \in 0 .. 3 /\ change.value \in 0 .. 3
MayCall(r, call) ==
  \/ call.proc = "update" /\ r \notin {"pat", "apic"} /\ MayChange(r, call.change)
  \/ /\ call.change.op = "all"
     /\ \/ call.proc = "write" /\ MayWrite(r, call.change.bits)
        \/ /\ call.proc = "write_raw" /\ r \in {"cr0", "cr4", "efer", "dr7"}
           /\ call.change.bits \subseteq 0 .. 63

ASSUME CallsAssumption ==
  \A r \in Regs :
    /\ r \in {"cr0", "cr4", "efer", "xcr0", "dr7", "sfmask", "ucet", "scet", "pat", "apic"}
    /\ \A call \in Calls(r) : MayCall(r, call)

CallFrame(call) ==
  [proc |-> call.proc,
   pc |-> CASE call.proc = "update" -> "read" [] call.proc = "write" -> "read_raw"
            [] call.proc = "write_raw" -> "write_raw",
   saved |-> FALSE, entry |-> interrupt_flag, called |-> FALSE,
   change |-> call.change, flags |-> Apply(call.change, {}), old |-> {}]

\* Neither an NMI's handler nor the argument of an update makes calls.
RegCall(call) ==
  /\ CanExecute /\ ~panicked
  /\ At("without_interrupts", "closure")
  /\ \A i \in 1 .. Len(stack) :
       /\ stack[i].proc # "nmi"
       /\ stack[i].proc = "update" => \E j \in i + 1 .. Len(stack) : stack[j].proc = "irq"
  /\ calls < MaxCalls
  /\ calls' = calls + 1
  /\ stack' = Append(stack, CallFrame(call))
  /\ KeepFlag /\ UNCHANGED <<work, reg, raw, told, panicked>>

\* let mut flags = Self::read();
Read ==
  /\ CanExecute /\ ~panicked /\ At("update", "read")
  /\ stack' = [stack EXCEPT ![Len(stack)].flags = read(reg, raw), ![Len(stack)].pc = "closure"]
  /\ panicked' = ~Readable(reg, raw)
  /\ KeepFlag /\ UNCHANGED <<work, reg, raw, calls, told>>

\* f(&mut flags);
Modify ==
  /\ CanExecute /\ ~panicked /\ At("update", "closure")
  /\ stack' = [stack EXCEPT ![Len(stack)].flags = Apply(Top.change, @),
                            ![Len(stack)].pc = "read_raw"]
  /\ KeepFlag /\ UNCHANGED <<work, reg, raw, calls, told, panicked>>

\* let old_value = Self::read_raw(); and the asserts.
ReadRaw ==
  /\ CanExecute /\ ~panicked /\ Top.pc = "read_raw"
  /\ stack' = [stack EXCEPT ![Len(stack)].old = IF Of(reg).rereads THEN raw ELSE {},
                            ![Len(stack)].pc = "write_raw"]
  /\ panicked' = ~Asserts(reg, Top.flags)
  /\ KeepFlag /\ UNCHANGED <<work, reg, raw, calls, told>>

\* Mutant: reserved bits are not ored in.
NewValue_Flags(old, flags) == flags

\* let new_value = reserved | flags.bits();
NewValue(old, flags) == (old \ Of(reg).masked) \cup flags

(***************************************************************************)
(* What a register holds, field by field; and what a call makes of that    *)
(* if nothing comes between its instructions.                              *)
(***************************************************************************)
Fields(r, v) ==
  [view |-> CASE r = "dr7" -> [flags |-> v \cap Dr7Flags,
                               condition |-> [n \in 0 .. 3 |-> condition(v, n)],
                               size |-> [n \in 0 .. 3 |-> size(v, n)]]
              [] r = "pat" -> pat_read(v)
              [] OTHER -> read(r, v),
   reserved |-> v \ Of(r).known]

ViewAfter(change, view) ==
  CASE change.op = "all" -> Fields(reg, change.bits).view
    [] change.op = "condition" -> [view EXCEPT !.condition[change.n] = change.value]
    [] change.op = "size" -> [view EXCEPT !.size[change.n] = change.value]
    [] change.op \in {"insert", "remove", "toggle", "page"} ->
         IF reg = "dr7" THEN [view EXCEPT !.flags = Apply(change, @)] ELSE Apply(change, view)

FieldsAfter(frame) ==
  [view |-> ViewAfter(frame.change, told.view),
   reserved |-> IF frame.proc = "write_raw" THEN frame.change.bits \ Of(reg).known
                ELSE IF Of(reg).rereads THEN told.reserved ELSE {}]

\* Self::write_raw(new_value); and the call returns.
WriteRaw ==
  /\ CanExecute /\ ~panicked /\ Top.pc = "write_raw"
  /\ raw' = IF Top.proc = "write_raw" THEN Top.flags ELSE NewValue(Top.old, Top.flags)
  /\ told' = FieldsAfter(Top)
  /\ stack' = Pop
  /\ KeepFlag /\ UNCHANGED <<work, reg, calls, panicked>>

RegInit ==
  /\ Init
  /\ reg \in Regs
  /\ raw = InitialRaw(reg)
  /\ told = Fields(reg, raw)
  /\ calls = 0
  /\ panicked = FALSE

RegNext ==
  \/ ~panicked /\ Next /\ UNCHANGED regVars
  \/ \E call \in Calls(reg) : RegCall(call)
  \/ Read \/ Modify \/ ReadRaw \/ WriteRaw

RegSpec == RegInit /\ [][RegNext]_allVars

(***************************************************************************)
(* Properties.                                                             *)
(***************************************************************************)
\* read() answers what the calls made of the register one after the other: an
\* update by a handler is not lost in one that it interrupts, however the calls
\* of without_interrupts around them and in them are nested; setting a
\* breakpoint's condition or size changes no other field of DR7; read never
\* panics on what write has written.
ReadsTellWrites == Fields(reg, raw).view = told.view /\ Readable(reg, raw)

\* "Preserves the value of reserved fields": write and update change none of the
\* bits their type does not name, also not to what they were before a write_raw.
ReservedKept == raw \ Of(reg).known = told.reserved
=============================================================================
