---------------------------- MODULE MCRegisters ----------------------------
(***************************************************************************)
(* Kernels that change a few flags of a register and, of DR7 and the CETs, *)
(* the other fields.                                                       *)
(***************************************************************************)
EXTENDS Registers

Write(bits) == [proc |-> "write", change |-> [op |-> "all", bits |-> bits]]
Raw(bits) == [proc |-> "write_raw", change |-> [op |-> "all", bits |-> bits]]
Update(op, bits) == [proc |-> "update", change |-> [op |-> op, bits |-> bits]]
Field(op, n, value) == [proc |-> "update", change |-> [op |-> op, n |-> n, value |-> value]]

MCCalls(r) ==
  CASE r = "cr0" -> {Update("remove", {16}), Update("insert", {16}), Update("toggle", {3}),
                     Raw({0, 4, 31})}
    [] r = "cr4" -> {Update("insert", {18}), Update("remove", {7}), Write({5, 7}),
                     Raw({5, 7, 9})}
    [] r = "efer" -> {Update("insert", {12}), Write({8, 10})}
    [] r = "xcr0" -> {Update(op, bits) : op \in {"insert", "remove"},
                                         bits \in {{SSE}, {AVX}, {5}, {SSE, AVX}, mpx, avx512}}
                     \cup {Write({SSE}), Write({X87, 3})}
    [] r = "dr7" -> {Field("condition", 3, 3), Field("condition", 0, 2), Field("size", 0, 3),
                     Field("size", 2, 1), Update("insert", {7, 13}), Update("remove", {7}),
                     Update("toggle", {8})}
    [] r = "sfmask" -> {Update("insert", {8, 10}), Update("remove", {9}), Write(RFlags)}
    [] r \in {"ucet", "scet"} -> {Update("insert", {0, 2}), Update("page", 47 .. 63),
                                  Update("page", {12, 46}), Update("remove", {0}),
                                  Write(CetFlags \cup {13})}
    [] r = "pat" -> {Write(pat_write([i \in PatIndex |-> t])) : t \in PatMemoryType}
    [] r = "apic" -> {Write({8, 11} \cup {21, 22, 23} \cup 25 .. 31),
                      Write({8, 10, 11} \cup {12} \cup {21, 22, 23} \cup 25 .. 31)}
=============================================================================
