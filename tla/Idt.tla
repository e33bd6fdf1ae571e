-------------------------------- MODULE Idt --------------------------------
(***************************************************************************)
(* The interrupt descriptor table (structures/idt.rs), on top of the       *)
(* loaded global descriptor table its gates refer to.                      *)
(*                                                                         *)
(* A gate is the words of an Entry as sets of bits.  The processor reads   *)
(* gates by the layout of the architecture (Delivered) and finds functions *)
(* by address; asked is what the kernel asked for, in its own terms.  Only *)
(* the entries of Vectors are followed.                                    *)
(***************************************************************************)
EXTENDS Gdt

CONSTANTS
  Vectors,         \* entries that are followed, of 0 .. 255
  Names,           \* of the kernel's own handler functions
  Ranges,          \* the RangeBounds<u8> passed
  StackIndices,    \* what set_stack_index is called with
  MaxIdtCalls,     \* bound: calls on the table
  MaxBootLen       \* bound: entries of the GDT under an IDT

Bounds == {"Included", "Excluded", "Unbounded"}

ASSUME IdtAssumption ==
  /\ Vectors \subseteq 0 .. 255
  /\ Ranges \subseteq [from : Bounds, start : 0 .. 255, to : Bounds, end : 0 .. 255]
  /\ StackIndices \subseteq Nat

VARIABLES
  idt,             \* the entries
  held,            \* the vector of the &mut EntryOptions the caller holds
  asked,           \* what the kernel wants of each vector
  calls            \* calls made

idtVars == <<idt, held, asked, calls>>

(***************************************************************************)
(* Handler functions: their signature, and where they are.                 *)
(***************************************************************************)
Reserved == {15, 31} \cup 22 .. 27
WithErrorCode == {8, 17, 21, 29, 30} \cup 10 .. 14

\* Mutant: cp_protection_exception is declared like its neighbours.
FieldType_NoCp(v) ==
  CASE v = 8 -> "DivergingHandlerFuncWithErrCode"
    [] v \in {10, 11, 12, 13, 17, 29, 30} -> "HandlerFuncWithErrCode"
    [] v = 14 -> "PageFaultHandlerFunc"
    [] v = 18 -> "DivergingHandlerFunc"
    [] OTHER -> "HandlerFunc"

\* The handler type of each entry, as InterruptDescriptorTable declares it.
FieldType(v) ==
  CASE v = 8 -> "DivergingHandlerFuncWithErrCode"
    [] v \in {10, 11, 12, 13, 17, 21, 29, 30} -> "HandlerFuncWithErrCode"
    [] v = 14 -> "PageFaultHandlerFunc"
    [] v = 18 -> "DivergingHandlerFunc"
    [] OTHER -> "HandlerFunc"

Types == {FieldType(v) : v \in 0 .. 255}
TakesErrorCode(type) ==
  type \in {"DivergingHandlerFuncWithErrCode", "HandlerFuncWithErrCode", "PageFaultHandlerFunc"}
Diverges(type) == type \in {"DivergingHandlerFuncWithErrCode", "DivergingHandlerFunc"}

\* passes: the vector that a wrapper of a general handler is compiled for.
Function(name, type) == [name |-> name, type |-> type, passes |-> None]
Wrapper(v, type) == [name |-> "general", type |-> type, passes |-> v]

BitsOf(v) == {b \in 0 .. 7 : (v \div 2^b) % 2 = 1}

\* Addresses spread over the three words of a gate.
Address(f) ==
  IF f.name = "general" THEN {2} \cup at(12, BitsOf(f.passes)) \cup 47 .. 63
  ELSE {4, 15, 16, 31, 32, 46} \cup (IF f.name = "high" THEN 47 .. 63 ELSE {})
       \cup (IF TakesErrorCode(f.type) THEN {20} ELSE {})
       \cup (IF Diverges(f.type) THEN {33} ELSE {})
       \cup (IF f.type = "PageFaultHandlerFunc" THEN {40} ELSE {})

(***************************************************************************)
(* Entries.                                                                *)
(***************************************************************************)
minimal == [cs |-> 0, bits |-> {9, 10, 11}]
missing == [low |-> {}, middle |-> {}, high |-> {}, options |-> minimal]

set_bit(bits, b, value) == IF value THEN bits \cup {b} ELSE bits \ {b}
set_present(bits, present) == set_bit(bits, 15, present)
disable_interrupts(bits, disable) == set_bit(bits, 8, ~disable)
Binary(n) == {b \in 0 .. 2 : (n \div 2^b) % 2 = 1}
set_privilege_level(bits, level) == (bits \ {13, 14}) \cup at(13, Binary(level))
\* set_bits panics unless the value fits in the three bits.
stack_index_fits(i) == i + 1 < 8
set_stack_index(bits, i) == (bits \ 0 .. 2) \cup Binary(i + 1)

\* set_handler_addr: fresh options, with the CS of the moment.
set_handler_addr(addr) ==
  [low |-> get_bits(addr, 0, 16), middle |-> get_bits(addr, 16, 32),
   high |-> get_bits(addr, 32, 64),
   options |-> [cs |-> cs, bits |-> set_present(minimal.bits, TRUE)]]

handler_addr(gate) == gate.low \cup at(16, gate.middle) \cup at(32, gate.high)

(***************************************************************************)
(* Ranges of entries.                                                      *)
(***************************************************************************)
\* RangeBounds::contains (external).
Contains(range, v) ==
  /\ CASE range.from = "Included" -> range.start <= v
       [] range.from = "Excluded" -> range.start < v
       [] range.from = "Unbounded" -> TRUE
  /\ CASE range.to = "Included" -> v <= range.end
       [] range.to = "Excluded" -> v < range.end
       [] range.to = "Unbounded" -> TRUE

\* Mutant: the last entry of an inclusive range is left out.
condition_slice_bounds_ToIncluded(range) ==
  <<CASE range.from = "Included" -> range.start
      [] range.from = "Excluded" -> range.start + 1
      [] range.from = "Unbounded" -> 0,
    CASE range.to \in {"Included", "Excluded"} -> range.end
      [] range.to = "Unbounded" -> 256>>

condition_slice_bounds(range) ==
  <<CASE range.from = "Included" -> range.start
      [] range.from = "Excluded" -> range.start + 1
      [] range.from = "Unbounded" -> 0,
    CASE range.to = "Included" -> range.end + 1
      [] range.to = "Excluded" -> range.end
      [] range.to = "Unbounded" -> 256>>

\* slice_mut, and indexing with a range: it panics below 32, as slicing does when the
\* end is before the start.
SlicePanics(range) ==
  LET idx == condition_slice_bounds(range)
  IN  idx[1] < 32 \/ idx[2] < idx[1]
slice_mut(range) ==
  LET idx == condition_slice_bounds(range)
  IN  {v \in Vectors : v - 32 \in (idx[1] - 32) .. (idx[2] - 33)}

\* index_mut.
IndexPanics(v) == v < 32 /\ (v \in Reserved \/ v \in WithErrorCode \/ v = 18)

(***************************************************************************)
(* Calls.                                                                  *)
(***************************************************************************)
\* The caller has set CS from the loaded table.
IdtCall ==
  /\ Running
  /\ cs # None /\ Len(table) <= MaxBootLen /\ tr = None /\ star = None
  /\ calls < MaxIdtCalls /\ calls' = calls + 1
  /\ UNCHANGED <<table, given, limit, cs, tr, star, starArgs>>

IdtPanic == halted' = 0 /\ UNCHANGED <<idt, held, asked>>

Wanted(f) == [f |-> f, present |-> TRUE, masks |-> TRUE, level |-> 0, stack |-> None]

\* set_handler_fn on the entries of vs, each with its own function.
SetHandlers(vs, F(_)) ==
  /\ idt' = [v \in Vectors |-> IF v \in vs THEN set_handler_addr(Address(F(v))) ELSE idt[v]]
  /\ UNCHANGED halted

Ask(vs, F(_)) == asked' = [v \in Vectors |-> IF v \in vs THEN Wanted(F(v)) ELSE asked[v]]

\* idt.<field>.set_handler_fn(f): the compiler sees to the type.  The field of vector 9
\* is private.
SetField(v, name) ==
  LET F(u) == Function(name, FieldType(u))
  IN  /\ IdtCall
      /\ v < 32 /\ v \notin Reserved \cup {9}
      /\ SetHandlers({v}, F) /\ Ask({v}, F)
      /\ held' = v

\* idt[v].set_handler_fn(f).
SetIndex(v, name) ==
  LET F(u) == Function(name, "HandlerFunc")
  IN  /\ IdtCall
      /\ IF IndexPanics(v) THEN IdtPanic
         ELSE SetHandlers({v}, F) /\ Ask({v}, F) /\ held' = v

\* for entry in idt.slice_mut(range) { entry.set_handler_fn(f); }
SetSlice(range, name) ==
  LET F(u) == Function(name, "HandlerFunc")
  IN  /\ IdtCall
      /\ IF SlicePanics(range) THEN IdtPanic
         ELSE /\ SetHandlers(slice_mut(range), F)
              /\ Ask({v \in Vectors : Contains(range, v)}, F)
              /\ held' = None

\* set_general_handler_entry: the signature of the function that wraps the general
\* handler for the vector of eight bits; it does nothing for reserved ones, and reaches
\* the entries without a case of their own by index.
WrapperType(v) ==
  CASE v = 8 -> "DivergingHandlerFuncWithErrCode"
    [] v \in {10, 11, 12, 13, 17, 21, 29, 30} -> "HandlerFuncWithErrCode"
    [] v = 14 -> "PageFaultHandlerFunc"
    [] v = 18 -> "DivergingHandlerFunc"
    [] OTHER -> "HandlerFunc"
SkippedVectors == {15, 22, 23, 24, 25, 26, 27, 31}

\* set_general_handler!(idt, handler, range): all 256 indices are tried against the range.
set_general_handler(range) ==
  LET F(u) == Wrapper(u, WrapperType(u))
      vs == {v \in Vectors : Contains(range, v)}
      done == vs \ SkippedVectors
  IN  /\ IdtCall
      /\ IF \E v \in done : WrapperType(v) = "HandlerFunc" /\ IndexPanics(v) THEN IdtPanic
         ELSE SetHandlers(done, F) /\ Ask(vs \ Reserved, F) /\ held' = None

reset ==
  /\ IdtCall
  /\ idt' = [v \in Vectors |-> missing]
  /\ asked' = [v \in Vectors |-> None]
  /\ held' = None
  /\ UNCHANGED halted

\* The options a set_handler_fn returned can be changed while the caller holds them.
SetBits(bits) ==
  /\ IdtCall
  /\ held # None
  /\ idt' = [idt EXCEPT ![held].options.bits = bits]
  /\ UNCHANGED <<held, halted>>

SetPresent(present) ==
  /\ SetBits(set_present(idt[held].options.bits, present))
  /\ asked' = [asked EXCEPT ![held].present = present]
DisableInterrupts(disable) ==
  /\ SetBits(disable_interrupts(idt[held].options.bits, disable))
  /\ asked' = [asked EXCEPT ![held].masks = disable]
SetPrivilegeLevel(level) ==
  /\ SetBits(set_privilege_level(idt[held].options.bits, level))
  /\ asked' = [asked EXCEPT ![held].level = level]
SetStackIndex(i) ==
  IF stack_index_fits(i)
  THEN /\ SetBits(set_stack_index(idt[held].options.bits, i))
       /\ asked' = [asked EXCEPT ![held].stack = i]
  ELSE IdtCall /\ held # None /\ IdtPanic

OptionCall ==
  /\ held # None
  /\ \/ \E b \in BOOLEAN : SetPresent(b) \/ DisableInterrupts(b)
     \/ \E level \in 0 .. 3 : SetPrivilegeLevel(level)
     \/ \E i \in StackIndices : SetStackIndex(i)

IdtInit ==
  /\ idt = [v \in Vectors |-> missing]
  /\ held = None
  /\ asked = [v \in Vectors |-> None]
  /\ calls = 0

IdtNext ==
  \/ \E v \in Vectors, name \in Names : SetField(v, name) \/ SetIndex(v, name)
  \/ \E range \in Ranges, name \in Names : SetSlice(range, name)
  \/ \E range \in Ranges : set_general_handler(range)
  \/ reset
  \/ OptionCall

TablesInit == GdtInit /\ IdtInit
TablesNext == (GdtNext /\ calls = 0 /\ UNCHANGED idtVars) \/ IdtNext
TablesSpec == TablesInit /\ [][TablesNext]_<<gdtVars, idtVars>>

(***************************************************************************)
(* What the processor makes of a gate (external).                          *)
(***************************************************************************)
AllFunctions ==
  {Function(name, type) : name \in Names, type \in Types}
  \cup {Wrapper(v, WrapperType(v)) : v \in Vectors}

\* What a kernel may want of a vector, if anything.
Wants == [f : AllFunctions, present : BOOLEAN, masks : BOOLEAN, level : 0 .. 3,
          stack : Nat \cup {None}]

ASSUME WantsAssumption == None \notin Wants

\* Gate type 14 clears IF on the way in, 15 does not.
Masks(gate) == get_bits(gate.options.bits, 8, 12) = {1, 2, 3}
IsGate(gate) == get_bits(gate.options.bits, 8, 12) \in {{1, 2, 3}, {0, 1, 2, 3}}
Present(gate) == 15 \in gate.options.bits
HardwareStack(gate) == Level(gate.options.bits \cap {0, 1}) + (IF 2 \in gate.options.bits THEN 4 ELSE 0)

\* ExceptionVector::try_from succeeds.
try_from(v) == v \in (0 .. 8) \cup (10 .. 14) \cup (16 .. 21) \cup {28, 29, 30}

(***************************************************************************)
(* Correctness.                                                            *)
(***************************************************************************)
\* The processor reads in every gate what the kernel last asked of that vector: the
\* function, whether it is present, whether interrupts are masked on entry, who may
\* raise it and on which stack it runs, through whichever of fields, indices, ranges
\* and the macro it was set, and in whatever order options were changed.  Its selector
\* names a 64-bit kernel code segment within the limit of the loaded GDT.
GatesDeliverAsked ==
  \A v \in Vectors :
    LET gate == idt[v]
        want == asked[v]
    IN  IF want = None THEN ~Present(gate)
        ELSE /\ IsGate(gate)
             /\ handler_addr(gate) = Address(want.f)
             /\ Present(gate) = want.present
             /\ Masks(gate) = want.masks
             /\ Level(get_bits(gate.options.bits, 13, 15)) = want.level
             /\ HardwareStack(gate) = (IF want.stack = None THEN 0 ELSE want.stack + 1)
             /\ IsCode64(Fetch(gate.options.cs), 0)

\* Whatever function a gate leads to takes an error code exactly if the processor
\* pushes one for that vector (otherwise it returns to a wrong address), does not return
\* from a double fault or machine check, tells a general handler its own vector, and a
\* reserved vector never leads anywhere.  ExceptionVector knows every exception that has
\* a handler, but for vector 9.
HandlersFitVectors ==
  \A v \in Vectors :
    Present(idt[v]) =>
      /\ v \notin Reserved
      /\ v < 32 => (try_from(v) \/ v = 9)
      /\ \E f \in AllFunctions :
           /\ Address(f) = handler_addr(idt[v])
           /\ TakesErrorCode(f.type) = (v \in WithErrorCode)
           /\ v \in {8, 18} => Diverges(f.type)
           /\ f.passes \in {None, v}
=============================================================================
