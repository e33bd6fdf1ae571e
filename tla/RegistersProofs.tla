-------------------------- MODULE RegistersProofs --------------------------
(***************************************************************************)
(* Proofs about the processor with its interrupt flag and its registers.   *)
(*                                                                         *)
(* The first part is about Interrupts, for every depth of the stack and    *)
(* every number of interrupts and NMIs.  Frames of other procedures, which *)
(* Interrupts has none of, are allowed for: they are called and return     *)
(* with the flag clear.  The second part is about Registers, where the     *)
(* accesses to registers are such frames, for every kernel whose calls are *)
(* well typed.                                                             *)
(***************************************************************************)
EXTENDS Registers, SequenceTheorems, TLAPS

(***************************************************************************)
(* The inductive invariant, of a stack s and the flag.                     *)
(***************************************************************************)
Handlers == {"irq", "nmi"}

\* The places in the code of each kind of frame.
Pcs(proc) ==
  IF proc = "without_interrupts" THEN {"read", "cli", "closure", "sti", "return"}
  ELSE IF proc = "main"
  THEN {"loop", "check", "busy", "enable", "enable_and_hlt", "hlt", "asleep"}
  ELSE IF proc \in Handlers THEN {"run", "iret"}
  ELSE {"read", "closure", "read_raw", "write_raw"}

FrameType(f) ==
  /\ f.pc \in Pcs(f.proc)
  /\ f.saved \in BOOLEAN /\ f.entry \in BOOLEAN /\ f.called \in BOOLEAN

\* The idle loop is at the bottom of the stack and nowhere else.  F is any set that has
\* all the frames.
StackType(F, s) ==
  /\ s \in Seq(F) /\ Len(s) > 0
  /\ \A i \in 1 .. Len(s) : FrameType(s[i]) /\ (s[i].proc = "main" <=> i = 1)

\* The flag that a frame leaves behind, and so the flag with which the frame below it
\* goes on.
LeftBy(f) == IF f.proc \in Handlers THEN f.saved ELSE f.entry
FlagOf(s, flag, i) == IF i = Len(s) THEN flag ELSE LeftBy(s[i + 1])

\* What a frame knows about its flag at each place of the code.
Other(proc) == proc \notin Handlers \cup {"main", "without_interrupts"}
FrameOK(f, flag) ==
  /\ f.proc = "irq" => f.saved = TRUE
  /\ f.proc = "nmi" => flag = FALSE
  /\ f.proc = "without_interrupts" =>
       /\ f.pc \in {"read", "cli", "return"} => flag = f.entry
       /\ f.pc \in {"cli", "closure", "sti"} => f.saved = f.entry
       /\ f.pc \in {"cli", "sti"} => f.saved = TRUE
       /\ f.pc \in {"closure", "sti"} => flag = FALSE
  /\ Other(f.proc) => flag = FALSE /\ f.entry = FALSE

FramesOK(s, flag) == \A i \in 1 .. Len(s) : FrameOK(s[i], FlagOf(s, flag, i))

InClosure(f) == f.proc = "without_interrupts" /\ f.pc = "closure"

\* Above a closure, the flag is clear in every frame, and no frame is the handler of a
\* maskable interrupt.
Quiet(s, flag) ==
  \A i, j \in 1 .. Len(s) :
    i < j /\ InClosure(s[i]) => s[j].proc # "irq" /\ FlagOf(s, flag, j) = FALSE

StackInv(F, s, flag) ==
  flag \in BOOLEAN /\ StackType(F, s) /\ FramesOK(s, flag) /\ Quiet(s, flag)

(***************************************************************************)
(* The three things an instruction does to the stack.                      *)
(***************************************************************************)
\* The running frame goes on to another place.
LEMMA StepInv ==
  ASSUME NEW F, NEW s, NEW flag, StackInv(F, s, flag),
         NEW f \in F, NEW new \in BOOLEAN, NEW top, top = s[Len(s)],
         FrameType(f), f.proc = top.proc, f.saved = top.saved \/ f.proc \notin Handlers,
         f.entry = top.entry, FrameOK(f, new),
         \/ new = FALSE \/ new = flag \/ top.proc = "main"
         \/ top.proc \notin Handlers /\ top.entry = TRUE
  PROVE  StackInv(F, [s EXCEPT ![Len(s)] = f], new)
<1> DEFINE t == [s EXCEPT ![Len(s)] = f]
           n == Len(s)
<1>1. /\ t \in Seq(F) /\ Len(t) = n /\ n \in Nat \ {0}
      /\ t[n] = f /\ \A i \in 1 .. n : i # n => t[i] = s[i]
  BY ExceptSeq DEF StackInv, StackType
<1> HIDE DEF t
<1>2. StackType(F, t)
  BY <1>1 DEF StackInv, StackType
<1>3. FlagOf(t, new, n) = new
  BY <1>1 DEF FlagOf
<1>4. ASSUME NEW i \in 1 .. n, i # n PROVE FlagOf(t, new, i) = FlagOf(s, flag, i)
  <2>1. CASE i + 1 = n BY <1>1, <1>4, <2>1 DEF FlagOf, LeftBy
  <2>2. CASE i + 1 # n BY <1>1, <1>4, <2>2 DEF FlagOf
  <2> QED BY <2>1, <2>2
<1> HIDE DEF n
<1>5. FramesOK(t, new)
  <2> SUFFICES ASSUME NEW i \in 1 .. n PROVE FrameOK(t[i], FlagOf(t, new, i))
    BY <1>1 DEF FramesOK
  <2>1. CASE i = n
    BY <1>1, <1>3, <2>1
  <2>2. CASE i # n
    <3>1. FrameOK(s[i], FlagOf(s, flag, i))
      BY DEF FramesOK, StackInv, n
    <3> QED BY <1>1, <1>4, <2>2, <3>1
  <2> QED BY <2>1, <2>2
<1>6. ASSUME NEW i \in 1 .. n, NEW j \in 1 .. n, i < j, InClosure(t[i])
      PROVE  t[j].proc # "irq" /\ FlagOf(t, new, j) = FALSE
  <2>1. i # n /\ t[i] = s[i]
    BY <1>1, <1>6
  <2>2. s[j].proc # "irq" /\ FlagOf(s, flag, j) = FALSE
    BY <1>6, <2>1 DEF StackInv, Quiet, n
  <2>3. t[j].proc # "irq"
    BY <1>1, <2>2 DEF n
  <2>4. CASE j # n
    BY <1>4, <2>2, <2>3, <2>4
  <2>5. CASE j = n
    <3>1. flag = FALSE
      BY <2>2, <2>5 DEF FlagOf, n
    <3>2. top.proc # "main"
      BY <1>6, <2>5, <1>1 DEF StackInv, StackType, n
    <3>3. FlagOf(s, flag, n - 1) = FALSE
      <4>1. CASE i = n - 1
        BY <2>1, <1>6, <4>1 DEF StackInv, FramesOK, FrameOK, InClosure, n
      <4>2. CASE i # n - 1
        <5>1. n - 1 \in 1 .. n /\ i < n - 1
          BY <1>1, <1>6, <2>5, <4>2
        <5> QED BY <1>6, <2>1, <5>1 DEF StackInv, Quiet, n
      <4> QED BY <4>1, <4>2
    <3>4. LeftBy(top) = FALSE
      <4>1. n - 1 # n /\ (n - 1) + 1 = n
        BY <1>1
      <4> QED BY <3>3, <4>1 DEF FlagOf, n
    <3>5. new = FALSE
      BY <3>1, <3>2, <3>4 DEF LeftBy
    <3> QED BY <1>3, <2>3, <2>5, <3>5
  <2> QED BY <2>3, <2>4, <2>5
<1>7. Quiet(t, new)
  BY <1>1, <1>6 DEF Quiet
<1> QED BY <1>2, <1>5, <1>7 DEF StackInv, t

\* A frame that is put on the stack while the flag is clear does not set it.
StaysQuiet(f, flag, new) == flag = FALSE => f.proc # "irq" /\ new = FALSE

\* A frame is put on top of the running one, which may be marked or woken before.
LEMMA PushInv ==
  ASSUME NEW F, NEW s, NEW flag, StackInv(F, s, flag),
         NEW g \in F, NEW f \in F, NEW new \in BOOLEAN, NEW top, top = s[Len(s)],
         NEW t, t = Append([s EXCEPT ![Len(s)] = g], f),
         FrameType(g), g.proc = top.proc, g.saved = top.saved, g.entry = top.entry,
         g.pc = top.pc \/ g.proc = "main",
         FrameType(f), f.proc # "main", LeftBy(f) = flag, FrameOK(f, new),
         StaysQuiet(f, flag, new)
  PROVE  StackInv(F, t, new)
<1> DEFINE mid == [s EXCEPT ![Len(s)] = g]
           n == Len(s)
<1>1. StackInv(F, mid, flag)
  <2>1. FrameOK(top, flag)
    BY LenProperties DEF StackInv, StackType, FramesOK, FlagOf
  <2>2. FrameOK(g, flag)
    BY <2>1 DEF FrameOK, Other, Handlers
  <2> QED BY <2>2, StepInv DEF StackInv
<1>2. mid \in Seq(F) /\ Len(mid) = n /\ n \in Nat \ {0}
  BY ExceptSeq DEF StackInv, StackType
<1> SUFFICES ASSUME t = Append(mid, f) PROVE StackInv(F, t, new)
  OBVIOUS
<1> HIDE DEF mid
<1> HIDE DEF n
<1>3. /\ t \in Seq(F) /\ Len(t) = n + 1 /\ t[n + 1] = f
      /\ \A i \in 1 .. n : t[i] = mid[i]
  <2> DEFINE u == Append(mid, f)
  <2>1. /\ u \in Seq(F) /\ Len(u) = n + 1 /\ u[n + 1] = f
        /\ \A i \in 1 .. n : u[i] = mid[i]
    BY <1>2, AppendProperties
  <2> HIDE DEF u
  <2>2. t = u
    BY DEF u
  <2> QED BY <2>1, <2>2
<1>4. StackType(F, t)
  <2> SUFFICES ASSUME NEW i \in 1 .. n + 1
               PROVE  FrameType(t[i]) /\ (t[i].proc = "main" <=> i = 1)
    BY <1>2, <1>3 DEF StackType
  <2>1. CASE i = n + 1
    BY <1>2, <1>3, <2>1
  <2>2. CASE i \in 1 .. n
    BY <1>1, <1>2, <1>3, <2>2 DEF StackInv, StackType
  <2> QED BY <1>2, <2>1, <2>2
<1>5. FlagOf(t, new, n + 1) = new
  BY <1>3 DEF FlagOf
<1>6. ASSUME NEW i \in 1 .. n PROVE FlagOf(t, new, i) = FlagOf(mid, flag, i)
  <2>1. CASE i = n BY <1>2, <1>3, <2>1 DEF FlagOf
  <2>2. CASE i # n
    <3>1. i + 1 \in 1 .. n /\ i # n + 1
      BY <1>2, <2>2
    <3> QED BY <1>2, <1>3, <2>2, <3>1 DEF FlagOf
  <2> QED BY <2>1, <2>2
<1>7. FramesOK(t, new)
  <2> SUFFICES ASSUME NEW i \in 1 .. n + 1 PROVE FrameOK(t[i], FlagOf(t, new, i))
    BY <1>3 DEF FramesOK
  <2>1. CASE i = n + 1
    BY <1>3, <1>5, <2>1
  <2>2. CASE i \in 1 .. n
    <3>1. FrameOK(mid[i], FlagOf(mid, flag, i))
      BY <1>1, <1>2, <2>2 DEF FramesOK, StackInv
    <3> QED BY <1>3, <1>6, <2>2, <3>1
  <2> QED BY <1>2, <2>1, <2>2
<1>8. ASSUME NEW i \in 1 .. n + 1, NEW j \in 1 .. n + 1, i < j, InClosure(t[i])
      PROVE  t[j].proc # "irq" /\ FlagOf(t, new, j) = FALSE
  <2>1. i \in 1 .. n /\ InClosure(mid[i])
    BY <1>2, <1>3, <1>8
  <2>2. CASE j \in 1 .. n
    <3>1. mid[j].proc # "irq" /\ FlagOf(mid, flag, j) = FALSE
      BY <1>1, <1>2, <1>8, <2>1, <2>2 DEF StackInv, Quiet
    <3> QED BY <1>3, <1>6, <2>2, <3>1
  <2>3. CASE j = n + 1
    <3>1. FlagOf(mid, flag, n) = FALSE
      <4>1. CASE i = n
        BY <1>1, <1>2, <2>1, <4>1 DEF StackInv, FramesOK, FrameOK, InClosure
      <4>2. CASE i # n
        BY <1>1, <1>2, <2>1, <4>2 DEF StackInv, Quiet
      <4> QED BY <4>1, <4>2
    <3>2. flag = FALSE
      BY <1>2, <3>1 DEF FlagOf
    <3>3. f.proc # "irq" /\ new = FALSE
      BY <3>2 DEF StaysQuiet
    <3> QED BY <1>3, <1>5, <2>3, <3>3
  <2>4. j \in 1 .. n \/ j = n + 1
    BY <1>2
  <2> QED BY <2>2, <2>3, <2>4
<1>9. Quiet(t, new)
  BY <1>3, <1>8 DEF Quiet
<1> QED BY <1>4, <1>7, <1>9 DEF StackInv

\* The running frame returns, and leaves the flag it promised.
LEMMA PopInv ==
  ASSUME NEW F, NEW s, NEW flag, StackInv(F, s, flag), s[Len(s)].proc # "main"
  PROVE  StackInv(F, SubSeq(s, 1, Len(s) - 1), LeftBy(s[Len(s)]))
<1> DEFINE n == Len(s)
           t == SubSeq(s, 1, n - 1)
           new == LeftBy(s[n])
<1>1. n \in Nat \ {0, 1} /\ s \in Seq(F)
  BY LenProperties DEF StackInv, StackType
<1>2. t \in Seq(F) /\ Len(t) = n - 1 /\ \A i \in 1 .. n - 1 : t[i] = s[i]
  <2>1. \A i \in 1 .. n - 1 : s[i] \in F
    BY <1>1, ElementOfSeq
  <2>2. n - 1 \in Int /\ 1 <= n - 1 /\ (n - 1) - 1 + 1 = n - 1
    <3> HIDE DEF n
    <3> QED BY <1>1
  <2>3. /\ t \in Seq(F) /\ Len(t) = n - 1
        /\ \A i \in 1 .. n - 1 : t[i] = s[1 + i - 1]
    <3> HIDE DEF n
    <3> QED BY <1>1, <2>1, <2>2, SubSeqProperties
  <2> QED BY <1>1, <2>3
<1>3. new \in BOOLEAN
  BY <1>1 DEF StackInv, StackType, FrameType, LeftBy
<1> HIDE DEF n, t, new
<1>4. StackType(F, t)
  BY <1>1, <1>2 DEF StackInv, StackType, n
<1>5. ASSUME NEW i \in 1 .. n - 1 PROVE FlagOf(t, new, i) = FlagOf(s, flag, i)
  <2>1. i # n /\ i \in 1 .. n
    BY <1>1
  <2>2. CASE i = n - 1
    <3>1. i + 1 = n BY <1>1, <2>2
    <3> QED BY <1>2, <2>1, <2>2, <3>1 DEF FlagOf, new, n
  <2>3. CASE i # n - 1
    <3>1. i + 1 \in 1 .. n - 1
      BY <1>1, <2>3
    <3> QED BY <1>2, <2>1, <2>3, <3>1 DEF FlagOf, n
  <2> QED BY <2>2, <2>3
<1>6. FramesOK(t, new)
  <2> SUFFICES ASSUME NEW i \in 1 .. n - 1 PROVE FrameOK(t[i], FlagOf(t, new, i))
    BY <1>2 DEF FramesOK
  <2>1. i \in 1 .. n
    BY <1>1
  <2>2. FrameOK(s[i], FlagOf(s, flag, i))
    BY <2>1 DEF FramesOK, StackInv, n
  <2> QED BY <1>2, <1>5, <2>2
<1>7. ASSUME NEW i \in 1 .. n - 1, NEW j \in 1 .. n - 1, i < j, InClosure(t[i])
      PROVE  t[j].proc # "irq" /\ FlagOf(t, new, j) = FALSE
  <2>1. i \in 1 .. n /\ j \in 1 .. n /\ InClosure(s[i])
    BY <1>1, <1>2, <1>7
  <2>2. s[j].proc # "irq" /\ FlagOf(s, flag, j) = FALSE
    BY <1>7, <2>1 DEF StackInv, Quiet, n
  <2> QED BY <1>2, <1>5, <2>2
<1>8. Quiet(t, new)
  BY <1>2, <1>7 DEF Quiet
<1> QED BY <1>3, <1>4, <1>6, <1>8 DEF StackInv, t, new, n

(***************************************************************************)
(* Frames, and the fields of a frame after an assignment to one of them.   *)
(***************************************************************************)
Places == Pcs("without_interrupts") \cup Pcs("main") \cup Pcs("irq")
FrameFields == {"proc", "pc", "saved", "entry", "called"}

FrameSet(F) ==
  /\ \A f \in F : FrameFields \subseteq DOMAIN f /\ f = [x \in DOMAIN f |-> f[x]]
  /\ \A f \in F, pc \in Places : [f EXCEPT !.pc = pc] \in F
  /\ \A f \in F, b \in BOOLEAN : [f EXCEPT !.called = b] \in F /\ [f EXCEPT !.saved = b] \in F
  /\ \A proc \in {"irq", "nmi", "without_interrupts"}, pc \in {"run", "read"},
        saved \in BOOLEAN, flag \in BOOLEAN : Frame(proc, pc, saved, flag) \in F

LEMMA SetPc ==
  ASSUME NEW F, FrameSet(F), NEW f \in F, NEW pc \in Places, NEW g, g = [f EXCEPT !.pc = pc]
  PROVE  /\ g \in F /\ g.pc = pc
         /\ g.proc = f.proc /\ g.saved = f.saved /\ g.entry = f.entry /\ g.called = f.called
BY DEF FrameSet, FrameFields
LEMMA SetSaved ==
  ASSUME NEW F, FrameSet(F), NEW f \in F, NEW b \in BOOLEAN, NEW g, g = [f EXCEPT !.saved = b]
  PROVE  /\ g \in F /\ g.saved = b
         /\ g.proc = f.proc /\ g.called = f.called /\ g.entry = f.entry /\ g.pc = f.pc
BY DEF FrameSet, FrameFields

\* The assignments of the model, as one to the whole frame.
LEMMA Assigned ==
  ASSUME NEW F, NEW s \in Seq(F), NEW n, n = Len(s), n > 0
  PROVE  /\ \A pc : [s EXCEPT ![n].pc = pc] = [s EXCEPT ![n] = [s[n] EXCEPT !.pc = pc]]
         /\ \A b : [s EXCEPT ![n].called = b] = [s EXCEPT ![n] = [s[n] EXCEPT !.called = b]]
<1>1. ASSUME NEW pc PROVE [s EXCEPT ![n].pc = pc] = [s EXCEPT ![n] = [s[n] EXCEPT !.pc = pc]]
  OBVIOUS
<1>2. ASSUME NEW b PROVE [s EXCEPT ![n].called = b] = [s EXCEPT ![n] = [s[n] EXCEPT !.called = b]]
  OBVIOUS
<1> QED BY <1>1, <1>2

(***************************************************************************)
(* The steps of the processor.                                             *)
(***************************************************************************)
\* What the invariant says of the running frame.
LEMMA TopOK ==
  ASSUME NEW F, StackInv(F, stack, interrupt_flag)
  PROVE  /\ stack \in Seq(F) /\ Len(stack) \in Nat \ {0} /\ Top \in F /\ FrameType(Top)
         /\ FrameOK(Top, interrupt_flag) /\ interrupt_flag \in BOOLEAN
         /\ Top.proc = "main" <=> Len(stack) = 1
<1>1. stack \in Seq(F) /\ Len(stack) \in Nat \ {0} /\ Len(stack) \in 1 .. Len(stack)
  BY LenProperties DEF StackInv, StackType
<1>2. Top \in F
  BY <1>1, ElementOfSeq DEF Top
<1>3. FrameType(Top) /\ (Top.proc = "main" <=> Len(stack) = 1) /\ interrupt_flag \in BOOLEAN
  BY <1>1 DEF StackInv, StackType, Top
<1>4. FrameOK(Top, interrupt_flag)
  BY <1>1 DEF StackInv, FramesOK, FlagOf, Top
<1> QED BY <1>1, <1>2, <1>3, <1>4

\* A step that only moves the running frame on.
LEMMA GotoInv ==
  ASSUME NEW F, FrameSet(F), StackInv(F, stack, interrupt_flag),
         NEW pc \in Places, pc \in Pcs(Top.proc), Goto(pc), interrupt_flag' \in BOOLEAN,
         \A f \in F : /\ f.pc = pc /\ f.proc = Top.proc
                      /\ f.saved = Top.saved /\ f.entry = Top.entry
                      => FrameOK(f, interrupt_flag'),
         \/ interrupt_flag' = FALSE \/ interrupt_flag' = interrupt_flag \/ Top.proc = "main"
         \/ Top.proc \notin Handlers /\ Top.entry = TRUE
  PROVE  StackInv(F, stack', interrupt_flag')
<1> DEFINE f == [Top EXCEPT !.pc = pc]
<1>1. /\ stack \in Seq(F) /\ Len(stack) \in Nat \ {0} /\ Top \in F /\ FrameType(Top)
  BY TopOK
<1>2. /\ f \in F /\ f.pc = pc
      /\ f.proc = Top.proc /\ f.saved = Top.saved /\ f.entry = Top.entry /\ f.called = Top.called
  BY <1>1, SetPc
<1>3. stack' = [stack EXCEPT ![Len(stack)] = f]
  BY <1>1, Assigned DEF Goto, Top
<1> HIDE DEF f
<1>4. FrameType(f) /\ FrameOK(f, interrupt_flag')
  BY <1>1, <1>2 DEF FrameType
<1> QED BY <1>2, <1>3, <1>4, StepInv DEF Top

\* What a step makes of the running frame before it puts another on top: it marks it, or
\* moves the idle loop behind its hlt.
Touched(mid) ==
  \/ mid = stack
  \/ mid = [stack EXCEPT ![Len(stack)].called = TRUE]
  \/ mid = [stack EXCEPT ![Len(stack)].pc = "loop"] /\ Top.pc \in {"asleep", "hlt"}
TopBecomes(mid, g) ==
  /\ mid = [stack EXCEPT ![Len(stack)] = g] /\ FrameType(g)
  /\ g.proc = Top.proc /\ g.saved = Top.saved /\ g.entry = Top.entry
  /\ g.pc = Top.pc \/ g.proc = "main"

LEMMA TouchedTop ==
  ASSUME NEW F, FrameSet(F), StackInv(F, stack, interrupt_flag), NEW mid, Touched(mid)
  PROVE  \E g \in F : TopBecomes(mid, g)
<1>1. /\ stack \in Seq(F) /\ Len(stack) \in Nat \ {0} /\ Top \in F /\ FrameType(Top)
  BY TopOK
<1>2. CASE mid = stack
  <2>1. mid = [stack EXCEPT ![Len(stack)] = Top]
    BY <1>1, <1>2 DEF Top
  <2> QED BY <1>1, <2>1 DEF TopBecomes
<1>3. CASE mid = [stack EXCEPT ![Len(stack)].called = TRUE]
  <2> DEFINE g == [Top EXCEPT !.called = TRUE]
  <2>1. /\ g \in F /\ g.called \in BOOLEAN
        /\ g.proc = Top.proc /\ g.saved = Top.saved /\ g.entry = Top.entry /\ g.pc = Top.pc
    BY <1>1 DEF FrameSet, FrameFields
  <2>2. mid = [stack EXCEPT ![Len(stack)] = g]
    BY <1>1, <1>3, Assigned DEF Top
  <2> HIDE DEF g
  <2>3. FrameType(g)
    BY <1>1, <2>1 DEF FrameType
  <2> QED BY <2>1, <2>2, <2>3 DEF TopBecomes
<1>4. CASE mid = [stack EXCEPT ![Len(stack)].pc = "loop"] /\ Top.pc \in {"asleep", "hlt"}
  <2> DEFINE g == [Top EXCEPT !.pc = "loop"]
  <2>1. Top.proc = "main" /\ "loop" \in Places
    BY <1>1, <1>4 DEF FrameType, Pcs, Handlers, Places
  <2>2. /\ g \in F /\ g.pc = "loop"
        /\ g.proc = Top.proc /\ g.saved = Top.saved /\ g.entry = Top.entry
        /\ g.called = Top.called
    BY <1>1, <2>1, SetPc
  <2>3. mid = [stack EXCEPT ![Len(stack)] = g]
    BY <1>1, <1>4, Assigned DEF Top
  <2> HIDE DEF g
  <2>4. FrameType(g)
    BY <1>1, <2>1, <2>2 DEF FrameType, Pcs
  <2> QED BY <2>1, <2>2, <2>3, <2>4 DEF TopBecomes
<1> QED BY <1>2, <1>3, <1>4 DEF Touched

LEMMA CallInv ==
  ASSUME NEW F, FrameSet(F), StackInv(F, stack, interrupt_flag), interrupt_flag' \in BOOLEAN,
         NEW f \in F, NEW mid, Touched(mid), stack' = Append(mid, f),
         FrameType(f), f.proc # "main", LeftBy(f) = interrupt_flag, FrameOK(f, interrupt_flag'),
         StaysQuiet(f, interrupt_flag, interrupt_flag')
  PROVE  StackInv(F, stack', interrupt_flag')
<1>1. PICK g \in F : TopBecomes(mid, g)
  BY TouchedTop
<1>2. stack' = Append([stack EXCEPT ![Len(stack)] = g], f)
  BY <1>1 DEF TopBecomes
<1>3. Top = stack[Len(stack)]
  BY DEF Top
<1> QED BY <1>1, <1>2, <1>3, PushInv DEF TopBecomes

LEMMA InterruptInv ==
  ASSUME NEW F, FrameSet(F), StackInv(F, stack, interrupt_flag), Deliver \/ Nmi
  PROVE  StackInv(F, stack', interrupt_flag')
<1>1. interrupt_flag \in BOOLEAN
  BY DEF StackInv
<1>2. CASE Deliver
  <2> DEFINE f == Frame("irq", "run", TRUE, TRUE)
  <2>1. f \in F
    BY DEF FrameSet
  <2>2. interrupt_flag = TRUE /\ interrupt_flag' \in BOOLEAN
    BY <1>1, <1>2 DEF Deliver, Deliverable
  <2>3. FrameType(f) /\ f.proc = "irq" /\ LeftBy(f) = TRUE /\ FrameOK(f, interrupt_flag')
    BY DEF Frame, FrameType, Pcs, LeftBy, FrameOK, Other, Handlers
  <2>4. PICK mid : Touched(mid) /\ stack' = Append(mid, f)
    BY <1>2 DEF Deliver, Interrupted, Touched
  <2> HIDE DEF f
  <2>5. StaysQuiet(f, interrupt_flag, interrupt_flag')
    BY <2>2, <2>3 DEF StaysQuiet
  <2> QED BY <2>1, <2>2, <2>3, <2>4, <2>5, CallInv
<1>3. CASE Nmi
  <2> DEFINE f == Frame("nmi", "run", interrupt_flag, interrupt_flag)
  <2>1. f \in F
    BY <1>1 DEF FrameSet
  <2>2. interrupt_flag' = FALSE
    BY <1>3 DEF Nmi, disable
  <2>3. FrameType(f) /\ f.proc = "nmi" /\ LeftBy(f) = interrupt_flag /\ FrameOK(f, FALSE)
    BY <1>1 DEF Frame, FrameType, Pcs, LeftBy, FrameOK, Other, Handlers
  <2>4. PICK mid : Touched(mid) /\ stack' = Append(mid, f)
    BY <1>3 DEF Nmi, Interrupted, Touched
  <2> HIDE DEF f
  <2>5. StaysQuiet(f, interrupt_flag, interrupt_flag')
    BY <2>2, <2>3 DEF StaysQuiet
  <2> QED BY <2>1, <2>2, <2>3, <2>4, <2>5, CallInv
<1> QED BY <1>2, <1>3

LEMMA InstructionInv ==
  ASSUME NEW F, FrameSet(F), StackInv(F, stack, interrupt_flag), Instruction
  PROVE  StackInv(F, stack', interrupt_flag')
<1>1. /\ stack \in Seq(F) /\ Len(stack) \in Nat \ {0} /\ Top \in F /\ FrameType(Top)
      /\ FrameOK(Top, interrupt_flag) /\ interrupt_flag \in BOOLEAN
      /\ Top.proc = "main" <=> Len(stack) = 1
  BY TopOK
<1>2. CASE HandlerWork
  <2>1. Top.proc \in Handlers
    BY <1>1, <1>2 DEF HandlerWork, FrameType, Pcs, Handlers
  <2>2. "iret" \in Places /\ "iret" \in Pcs(Top.proc) /\ Goto("iret")
        /\ interrupt_flag' = interrupt_flag
    BY <1>2, <2>1 DEF HandlerWork, KeepFlag, Places, Pcs, Handlers
  <2>3. ASSUME NEW f \in F, f.pc = "iret", f.proc = Top.proc, f.saved = Top.saved,
               f.entry = Top.entry
        PROVE  FrameOK(f, interrupt_flag')
    BY <1>1, <2>1, <2>2, <2>3 DEF FrameOK, Other, Handlers
  <2> QED BY <1>1, <2>2, <2>3, GotoInv
<1>3. CASE Iret
  <2>1. Top.proc \in Handlers /\ Top.proc # "main"
    BY <1>1, <1>3 DEF Iret, FrameType, Pcs, Handlers
  <2>2. interrupt_flag' = LeftBy(Top) /\ stack' = Pop
    BY <1>3, <2>1 DEF Iret, LeftBy
  <2> QED BY <2>1, <2>2, PopInv DEF Pop, Top
<1>4. CASE Call
  <2> DEFINE f == Frame("without_interrupts", "read", FALSE, interrupt_flag)
  <2>1. f \in F
    BY <1>1 DEF FrameSet
  <2>2. interrupt_flag' = interrupt_flag /\ interrupt_flag' \in BOOLEAN
    BY <1>1, <1>4 DEF Call, KeepFlag
  <2>3. /\ FrameType(f) /\ f.proc = "without_interrupts" /\ LeftBy(f) = interrupt_flag
        /\ FrameOK(f, interrupt_flag)
    BY <1>1 DEF Frame, FrameType, Pcs, LeftBy, FrameOK, Other, Handlers
  <2>4. PICK mid : Touched(mid) /\ stack' = Append(mid, f)
    BY <1>4 DEF Call, Touched
  <2> HIDE DEF f
  <2>5. StaysQuiet(f, interrupt_flag, interrupt_flag')
    BY <2>2, <2>3 DEF StaysQuiet
  <2> QED BY <2>1, <2>2, <2>3, <2>4, <2>5, CallInv
<1>5. CASE ReadFlag
  <2> DEFINE pc == IF interrupt_flag THEN "cli" ELSE "closure"
             g == [Top EXCEPT !.saved = interrupt_flag]
             f == [g EXCEPT !.pc = pc]
  <2>1. Top.proc = "without_interrupts" /\ Top.pc = "read" /\ interrupt_flag' = interrupt_flag
    BY <1>5 DEF ReadFlag, At, KeepFlag
  <2>2. stack' = [stack EXCEPT ![Len(stack)] = f]
    <3>1. stack' = [stack EXCEPT ![Len(stack)].saved = interrupt_flag, ![Len(stack)].pc = pc]
      BY <1>5 DEF ReadFlag
    <3> HIDE DEF pc
    <3> QED BY <1>1, <3>1 DEF Top
  <2>3. pc \in Places /\ pc \in Pcs("without_interrupts")
    BY DEF Places, Pcs
  <2>4. /\ interrupt_flag = TRUE => pc = "cli"
        /\ interrupt_flag = FALSE => pc = "closure"
    OBVIOUS
  <2>5. g \in F /\ g.saved = interrupt_flag /\ g.proc = Top.proc /\ g.entry = Top.entry
        /\ g.called = Top.called
    BY <1>1, SetSaved
  <2> HIDE DEF pc, g
  <2>6. f \in F /\ f.pc = pc /\ f.saved = g.saved /\ f.proc = g.proc /\ f.entry = g.entry
        /\ f.called = g.called
    BY <2>3, <2>5, SetPc
  <2> HIDE DEF f
  <2>7. FrameType(f)
    BY <1>1, <2>1, <2>3, <2>5, <2>6 DEF FrameType
  <2>8. interrupt_flag = Top.entry
    BY <1>1, <2>1 DEF FrameOK
  <2>9. FrameOK(f, interrupt_flag')
    <3>1. CASE interrupt_flag = TRUE
      BY <2>1, <2>4, <2>5, <2>6, <2>8, <3>1 DEF FrameOK, Other
    <3>2. CASE interrupt_flag = FALSE
      BY <2>1, <2>4, <2>5, <2>6, <2>8, <3>2 DEF FrameOK, Other
    <3> QED BY <1>1, <3>1, <3>2
  <2>10. f.proc \notin Handlers
    BY <2>1, <2>5, <2>6 DEF Handlers
  <2>11. Top = stack[Len(stack)] /\ f.proc = Top.proc /\ f.entry = Top.entry
         /\ interrupt_flag' \in BOOLEAN /\ interrupt_flag' = interrupt_flag /\ f \in F
    BY <1>1, <2>1, <2>5, <2>6 DEF Top
  <2> QED BY <2>2, <2>7, <2>9, <2>10, <2>11, StepInv
<1>6. CASE Cli
  <2>1. /\ Top.proc = "without_interrupts" /\ Top.pc = "cli" /\ interrupt_flag' = FALSE
        /\ Goto("closure")
    BY <1>6 DEF Cli, At, disable
  <2>2. "closure" \in Places /\ "closure" \in Pcs(Top.proc)
    BY <2>1 DEF Places, Pcs
  <2>3. ASSUME NEW f \in F, f.pc = "closure", f.proc = Top.proc, f.saved = Top.saved,
               f.entry = Top.entry
        PROVE  FrameOK(f, FALSE)
    BY <1>1, <2>1, <2>3 DEF FrameOK, Other
  <2> QED BY <2>1, <2>2, <2>3, GotoInv
<1>7. CASE Closure
  <2>1. /\ Top.proc = "without_interrupts" /\ Top.pc = "closure"
        /\ interrupt_flag' = interrupt_flag /\ interrupt_flag = FALSE
    BY <1>1, <1>7 DEF Closure, At, KeepFlag, FrameOK
  <2>2. PICK pc \in {"sti", "return"} : Goto(pc) /\ (pc = "sti" <=> Top.saved = TRUE)
    BY <1>1, <1>7 DEF Closure, AfterClosure, FrameType
  <2>3. pc \in Places /\ pc \in Pcs(Top.proc)
    BY <2>1 DEF Places, Pcs
  <2>4. ASSUME NEW f \in F, f.pc = pc, f.proc = Top.proc, f.saved = Top.saved,
               f.entry = Top.entry
        PROVE  FrameOK(f, FALSE)
    <3>1. f.saved = f.entry /\ f.saved \in BOOLEAN
      BY <1>1, <2>1, <2>4 DEF FrameOK, FrameType
    <3> QED BY <2>1, <2>2, <2>4, <3>1 DEF FrameOK, Other, Handlers
  <2> QED BY <2>1, <2>2, <2>3, <2>4, GotoInv
<1>8. CASE Sti
  <2>1. /\ Top.proc = "without_interrupts" /\ Top.pc = "sti" /\ interrupt_flag' = TRUE
        /\ Goto("return")
    BY <1>8 DEF Sti, At, enable
  <2>2. "return" \in Places /\ "return" \in Pcs(Top.proc) /\ Top.proc \notin Handlers
    BY <2>1 DEF Places, Pcs, Handlers
  <2>3. Top.saved = TRUE /\ Top.entry = TRUE
    BY <1>1, <2>1 DEF FrameOK
  <2>4. ASSUME NEW f \in F, f.pc = "return", f.proc = Top.proc, f.saved = Top.saved,
               f.entry = Top.entry
        PROVE  FrameOK(f, TRUE)
    BY <2>1, <2>3, <2>4 DEF FrameOK, Other
  <2> QED BY <2>1, <2>2, <2>3, <2>4, GotoInv
<1>9. CASE Return
  <2>1. /\ Top.proc = "without_interrupts" /\ Top.pc = "return"
        /\ interrupt_flag' = interrupt_flag /\ stack' = Pop
    BY <1>9 DEF Return, At, KeepFlag
  <2>2. interrupt_flag' = LeftBy(Top)
    BY <1>1, <2>1 DEF FrameOK, LeftBy, Handlers
  <2> QED BY <2>1, <2>2, PopInv DEF Pop, Top
<1>10. CASE MainDisable
  <2> DEFINE g == [Top EXCEPT !.pc = "check"]
             f == [g EXCEPT !.called = FALSE]
  <2>1. Top.proc = "main" /\ interrupt_flag' = FALSE
    BY <1>10 DEF MainDisable, At, disable
  <2>2. stack' = [stack EXCEPT ![Len(stack)] = f]
    <3>1. Len(stack) = 1
      BY <1>1, <2>1
    <3>2. stack' = [stack EXCEPT ![Len(stack)].pc = "check", ![Len(stack)].called = FALSE]
      BY <1>10, <3>1 DEF MainDisable
    <3> QED BY <1>1, <3>2 DEF Top
  <2>3. "check" \in Places
    BY DEF Places, Pcs
  <2>4. g \in F /\ g.pc = "check" /\ g.saved = Top.saved /\ g.proc = Top.proc
        /\ g.entry = Top.entry
    BY <1>1, <2>3, SetPc
  <2> HIDE DEF g
  <2>5. f \in F /\ f.pc = g.pc /\ f.saved = g.saved /\ f.proc = g.proc /\ f.entry = g.entry
        /\ f.called \in BOOLEAN
    BY <2>4 DEF FrameSet, FrameFields
  <2> HIDE DEF f
  <2>6. FrameType(f) /\ FrameOK(f, FALSE)
    BY <1>1, <2>1, <2>4, <2>5 DEF FrameType, FrameOK, Pcs, Other
  <2> QED BY <1>1, <2>1, <2>2, <2>4, <2>5, <2>6, StepInv DEF Top
<1>11. CASE MainCheck \/ MainTake \/ MainEnable \/ EnableAndHlt \/ Hlt
  <2>1. Top.proc = "main" /\ interrupt_flag' \in BOOLEAN
    BY <1>1, <1>11 DEF MainCheck, MainTake, MainEnable, EnableAndHlt, Hlt, At, KeepFlag, enable
  <2>2. PICK pc \in {"busy", "enable_and_hlt", "enable", "loop", "hlt", "asleep"} : Goto(pc)
    BY <1>11 DEF MainCheck, MainTake, MainEnable, EnableAndHlt, Hlt
  <2>3. pc \in Places /\ pc \in Pcs(Top.proc)
    BY <2>1, <2>2 DEF Places, Pcs
  <2>4. ASSUME NEW f \in F, f.proc = Top.proc
        PROVE  FrameOK(f, interrupt_flag')
    BY <2>1, <2>4 DEF FrameOK, Other
  <2> QED BY <2>1, <2>2, <2>3, <2>4, GotoInv
<1> QED BY <1>2, <1>3, <1>4, <1>5, <1>6, <1>7, <1>8, <1>9, <1>10, <1>11 DEF Instruction

\* Every step of Interrupts, whatever other frames there are.
LEMMA NextInv ==
  ASSUME NEW F, FrameSet(F), StackInv(F, stack, interrupt_flag), [Next]_vars
  PROVE  StackInv(F, stack', interrupt_flag')
<1>1. CASE Raise \/ UNCHANGED vars
  <2>1. stack' = stack /\ interrupt_flag' = interrupt_flag
    BY <1>1 DEF Raise, vars
  <2> QED BY <2>1
<1>2. CASE Deliver \/ Nmi
  BY <1>2, InterruptInv
<1>3. CASE Instruction
  BY <1>3, InstructionInv
<1> QED BY <1>1, <1>2, <1>3 DEF Next

(***************************************************************************)
(* Interrupts alone.                                                       *)
(***************************************************************************)
PlainFrames ==
  [proc : {"main", "irq", "nmi", "without_interrupts"}, pc : Places,
   saved : BOOLEAN, entry : BOOLEAN, called : BOOLEAN]

LEMMA PlainFrameSet == FrameSet(PlainFrames)
<1>1. \A f \in PlainFrames : FrameFields \subseteq DOMAIN f /\ f = [x \in DOMAIN f |-> f[x]]
  BY DEF PlainFrames, FrameFields
<1>2. \A f \in PlainFrames, pc \in Places : [f EXCEPT !.pc = pc] \in PlainFrames
  BY DEF PlainFrames
<1>3. \A f \in PlainFrames, b \in BOOLEAN :
        [f EXCEPT !.called = b] \in PlainFrames /\ [f EXCEPT !.saved = b] \in PlainFrames
  BY DEF PlainFrames
<1>4. \A proc \in {"irq", "nmi", "without_interrupts"}, pc \in {"run", "read"},
        saved \in BOOLEAN, flag \in BOOLEAN : Frame(proc, pc, saved, flag) \in PlainFrames
  BY DEF PlainFrames, Frame, Places, Pcs, Handlers
<1> QED BY <1>1, <1>2, <1>3, <1>4 DEF FrameSet

LEMMA InitInv ==
  ASSUME NEW F, Frame("main", "loop", FALSE, TRUE) \in F, Init
  PROVE  StackInv(F, stack, interrupt_flag)
<1> DEFINE f == Frame("main", "loop", FALSE, TRUE)
<1>1. stack = <<f>> /\ interrupt_flag = TRUE
  BY DEF Init
<1>2. FrameType(f) /\ f.proc = "main" /\ FrameOK(f, TRUE)
  BY DEF Frame, FrameType, FrameOK, Pcs, Other
<1> HIDE DEF f
<1>3. stack \in Seq(F) /\ Len(stack) = 1 /\ stack[1] = f
  <2>1. f \in F
    BY DEF f
  <2> QED BY <1>1, <2>1
<1>4. StackType(F, stack)
  BY <1>2, <1>3 DEF StackType
<1>5. FramesOK(stack, TRUE)
  <2>1. FlagOf(stack, TRUE, 1) = TRUE
    BY <1>3 DEF FlagOf
  <2> SUFFICES ASSUME NEW i \in 1 .. 1 PROVE FrameOK(stack[i], FlagOf(stack, TRUE, i))
    BY <1>3 DEF FramesOK
  <2>2. i = 1
    OBVIOUS
  <2> QED BY <1>2, <1>3, <2>1, <2>2
<1>6. Quiet(stack, TRUE)
  BY <1>3 DEF Quiet
<1> QED BY <1>1, <1>4, <1>5, <1>6 DEF StackInv

\* What the invariant is for.
LEMMA InvSuffices ==
  ASSUME NEW F, StackInv(F, stack, interrupt_flag)
  PROVE  ClosureUndisturbed /\ FlagRestored
<1>1. ClosureUndisturbed
  BY DEF StackInv, Quiet, InClosure, ClosureUndisturbed
<1>2. FlagRestored
  BY TopOK DEF FlagRestored, At, FrameOK
<1> QED BY <1>1, <1>2

LEMMA StackCorrect == Spec => []StackInv(PlainFrames, stack, interrupt_flag)
<1>1. Init => StackInv(PlainFrames, stack, interrupt_flag)
  <2>1. Frame("main", "loop", FALSE, TRUE) \in PlainFrames
    BY DEF PlainFrames, Frame, Places, Pcs
  <2> QED BY <2>1, InitInv
<1>2. StackInv(PlainFrames, stack, interrupt_flag) /\ [Next]_vars
        => StackInv(PlainFrames, stack, interrupt_flag)'
  BY NextInv, PlainFrameSet
<1> QED BY <1>1, <1>2, PTL DEF Spec

\* However deep calls of without_interrupts and handlers are nested, and wherever an
\* interrupt or an NMI arrives, no handler of a maskable interrupt runs on top of a closure
\* of without_interrupts.
THEOREM ClosureUndisturbedCorrect == Spec => []ClosureUndisturbed
<1>1. StackInv(PlainFrames, stack, interrupt_flag) => ClosureUndisturbed
  BY InvSuffices
<1> QED BY <1>1, StackCorrect, PTL

\* without_interrupts always returns with the flag as it was when it was called.
THEOREM FlagRestoredCorrect == Spec => []FlagRestored
<1>1. StackInv(PlainFrames, stack, interrupt_flag) => FlagRestored
  BY InvSuffices
<1> QED BY <1>1, StackCorrect, PTL

(***************************************************************************)
(* Values of registers.                                                    *)
(***************************************************************************)
\* IA32_APIC_BASE is left out: its write keeps bits of the old frame address.
Correct == {"cr0", "cr4", "efer", "xcr0", "dr7", "sfmask", "ucet", "scet", "pat"}
Rereading == {"cr0", "cr4", "efer", "xcr0", "dr7"}

LEMMA OfRereading ==
  ASSUME NEW r \in Rereading
  PROVE  Of(r).masked = Of(r).known /\ Of(r).rereads = TRUE
BY DEF Rereading, Of, Cr0, Cr4, Efer, XCr0, Dr7

LEMMA OfOthers ==
  ASSUME NEW r \in Correct \ Rereading
  PROVE  Of(r).rereads = FALSE
BY DEF Correct, Rereading, Of, SFMask, UCet, SCet, Pat

\* A change keeps to the bits that the type of the register names.
LEMMA ChangeKnown ==
  ASSUME NEW r \in Correct, r # "pat", NEW change, MayChange(r, change),
         NEW v, v \subseteq Of(r).known
  PROVE  Apply(change, v) \subseteq Of(r).known
<1>1. FlagsOf(r) \subseteq Of(r).known
  <2>1. CASE r = "dr7"
    BY <2>1 DEF FlagsOf, Of, Dr7, valid_bits
  <2>2. CASE r \in {"ucet", "scet"}
    BY <2>2 DEF FlagsOf, Of, UCet, SCet
  <2>3. CASE r \notin {"dr7", "ucet", "scet"}
    BY <2>3 DEF FlagsOf, Correct
  <2> QED BY <2>1, <2>2, <2>3
<1>2. CASE change.op \in {"insert", "remove", "toggle"} /\ change.bits \subseteq FlagsOf(r)
  <2>1. change.bits \subseteq Of(r).known
    BY <1>1, <1>2
  <2>2. Apply(change, v) \in {v \cup change.bits, v \ change.bits,
                              (v \cup change.bits) \ (v \cap change.bits)}
    BY <1>2 DEF Apply, insert_flags, remove_flags, toggle_flags
  <2> QED BY <2>1, <2>2
<1>3. CASE change.op = "page" /\ r \in {"ucet", "scet"} /\ change.bits \subseteq PageBits
  <2>1. Apply(change, v) = (v \ PageBits) \cup change.bits
    BY <1>3 DEF Apply
  <2>2. PageBits \subseteq Of(r).known
    BY <1>3 DEF Of, UCet, SCet
  <2> QED BY <1>3, <2>1, <2>2
<1>4. CASE /\ change.op \in {"condition", "size"} /\ r = "dr7"
           /\ change.n \in 0 .. 3 /\ change.value \in 0 .. 3
  <2>1. PICK lsb \in 16 .. 30 : Apply(change, v) = SetTwoBits(v, lsb, change.value)
    <3>1. CASE change.op = "condition"
      BY <1>4, <3>1 DEF Apply, set_condition, condition_range
    <3>2. CASE change.op = "size"
      BY <1>4, <3>2 DEF Apply, set_size, size_range
    <3> QED BY <1>4, <3>1, <3>2
  <2>2. lsb \in valid_bits /\ lsb + 1 \in valid_bits
    BY DEF valid_bits
  <2>3. Of(r).known = valid_bits
    BY <1>4 DEF Of, Dr7
  <2> QED BY <2>1, <2>2, <2>3 DEF SetTwoBits
<1> QED BY <1>2, <1>3, <1>4 DEF MayChange

(***************************************************************************)
(* DR7: conditions, sizes and flags do not share bits.                     *)
(***************************************************************************)
LEMMA TwoBitsSet ==
  ASSUME NEW v, NEW lsb \in Int, NEW n \in 0 .. 3, NEW other \in Int
  PROVE  /\ TwoBits(SetTwoBits(v, lsb, n), lsb) = n
         /\ other # lsb /\ other # lsb + 1 /\ other + 1 # lsb
              => TwoBits(SetTwoBits(v, lsb, n), other) = TwoBits(v, other)
         /\ \A x : x # lsb /\ x # lsb + 1 => (x \in SetTwoBits(v, lsb, n) <=> x \in v)
<1> DEFINE w == SetTwoBits(v, lsb, n)
<1>1. /\ lsb \in w <=> n % 2 = 1
      /\ lsb + 1 \in w <=> n >= 2
      /\ \A x : x # lsb /\ x # lsb + 1 => (x \in w <=> x \in v)
  BY DEF SetTwoBits
<1> HIDE DEF w
<1>2. TwoBits(w, lsb) = n
  BY <1>1 DEF TwoBits
<1>3. ASSUME other # lsb, other # lsb + 1, other + 1 # lsb PROVE TwoBits(w, other) = TwoBits(v, other)
  <2>1. other + 1 # lsb + 1
    BY <1>3
  <2> QED BY <1>1, <1>3, <2>1 DEF TwoBits
<1> QED BY <1>1, <1>2, <1>3 DEF w

\* The fields of DR7 depend on the valid bits alone.
SameFields(v, w) ==
  /\ v \cap Dr7Flags = w \cap Dr7Flags
  /\ \A n \in 0 .. 3 : condition(v, n) = condition(w, n) /\ size(v, n) = size(w, n)

LEMMA ValidFields ==
  ASSUME NEW v, NEW w, \A x \in valid_bits : x \in v <=> x \in w
  PROVE  SameFields(v, w)
<1>1. \A x \in 16 .. 31 : x \in v <=> x \in w
  BY DEF valid_bits
<1>2. v \cap Dr7Flags = w \cap Dr7Flags
  BY DEF valid_bits
<1>3. ASSUME NEW n \in 0 .. 3
      PROVE  condition(v, n) = condition(w, n) /\ size(v, n) = size(w, n)
  <2>1. /\ 16 + 4 * n \in 16 .. 31 /\ (16 + 4 * n) + 1 \in 16 .. 31
        /\ 18 + 4 * n \in 16 .. 31 /\ (18 + 4 * n) + 1 \in 16 .. 31
    OBVIOUS
  <2> QED BY <1>1, <2>1 DEF condition, size, condition_range, size_range, TwoBits
<1> QED BY <1>2, <1>3 DEF SameFields

Dr7View(v) == [flags |-> v \cap Dr7Flags, condition |-> [n \in 0 .. 3 |-> condition(v, n)],
               size |-> [n \in 0 .. 3 |-> size(v, n)]]

LEMMA Dr7ViewSame ==
  ASSUME NEW v, NEW w, SameFields(v, w)
  PROVE  Dr7View(v) = Dr7View(w)
BY DEF SameFields, Dr7View

WithCondition(view, n, value) == [view EXCEPT !.condition[n] = value]
WithSize(view, n, value) == [view EXCEPT !.size[n] = value]

\* Setting a condition, a size or flags changes that field of DR7 and no other.
LEMMA Dr7Set ==
  ASSUME NEW v, NEW n \in 0 .. 3, NEW value \in 0 .. 3
  PROVE  /\ Dr7View(set_condition(v, n, value)) = WithCondition(Dr7View(v), n, value)
         /\ Dr7View(set_size(v, n, value)) = WithSize(Dr7View(v), n, value)
<1> DEFINE c == set_condition(v, n, value)
           s == set_size(v, n, value)
<1>1. /\ \A x : x # 16 + 4 * n /\ x # (16 + 4 * n) + 1 => (x \in c <=> x \in v)
      /\ \A x : x # 18 + 4 * n /\ x # (18 + 4 * n) + 1 => (x \in s <=> x \in v)
  BY TwoBitsSet DEF set_condition, set_size, condition_range, size_range
<1>2. /\ c \cap Dr7Flags = v \cap Dr7Flags
      /\ s \cap Dr7Flags = v \cap Dr7Flags
  <2>1. ASSUME NEW x \in Dr7Flags
        PROVE  x # 16 + 4 * n /\ x # (16 + 4 * n) + 1 /\ x # 18 + 4 * n /\ x # (18 + 4 * n) + 1
    BY DEF Dr7Flags
  <2> HIDE DEF c, s
  <2> QED BY <1>1, <2>1
<1>3. /\ condition(c, n) = value /\ size(s, n) = value
  BY TwoBitsSet DEF condition, size, set_condition, set_size, condition_range, size_range
<1>4. ASSUME NEW m \in 0 .. 3
      PROVE  /\ m # n => condition(c, m) = condition(v, m) /\ size(s, m) = size(v, m)
             /\ size(c, m) = size(v, m) /\ condition(s, m) = condition(v, m)
  <2>1. /\ m # n => LET o == 16 + 4 * m IN o # 16 + 4 * n /\ o # (16 + 4 * n) + 1 /\ o + 1 # 16 + 4 * n
        /\ m # n => LET o == 18 + 4 * m IN o # 18 + 4 * n /\ o # (18 + 4 * n) + 1 /\ o + 1 # 18 + 4 * n
        /\ LET o == 18 + 4 * m IN o # 16 + 4 * n /\ o # (16 + 4 * n) + 1 /\ o + 1 # 16 + 4 * n
        /\ LET o == 16 + 4 * m IN o # 18 + 4 * n /\ o # (18 + 4 * n) + 1 /\ o + 1 # 18 + 4 * n
    OBVIOUS
  <2>2. 16 + 4 * m \in Int /\ 18 + 4 * m \in Int /\ 16 + 4 * n \in Int /\ 18 + 4 * n \in Int
    OBVIOUS
  <2>3. m # n => condition(c, m) = condition(v, m)
    BY <2>1, <2>2, TwoBitsSet DEF condition, set_condition, condition_range
  <2>4. m # n => size(s, m) = size(v, m)
    BY <2>1, <2>2, TwoBitsSet DEF size, set_size, size_range
  <2>5. size(c, m) = size(v, m)
    BY <2>1, <2>2, TwoBitsSet DEF size, set_condition, size_range, condition_range
  <2>6. condition(s, m) = condition(v, m)
    BY <2>1, <2>2, TwoBitsSet DEF condition, set_size, size_range, condition_range
  <2> QED BY <2>3, <2>4, <2>5, <2>6
<1> HIDE DEF c, s
<1> DEFINE Conditions(w) == [m \in 0 .. 3 |-> condition(w, m)]
           Lengths(w) == [m \in 0 .. 3 |-> size(w, m)]
<1>5. /\ Conditions(c) = [Conditions(v) EXCEPT ![n] = value] /\ Lengths(c) = Lengths(v)
      /\ Conditions(s) = Conditions(v) /\ Lengths(s) = [Lengths(v) EXCEPT ![n] = value]
  BY <1>3, <1>4
<1>6. \A w : Dr7View(w) = [flags |-> w \cap Dr7Flags, condition |-> Conditions(w), size |-> Lengths(w)]
  BY DEF Dr7View
<1> HIDE DEF Conditions, Lengths
<1>7. Dr7View(c) = [Dr7View(v) EXCEPT !.condition[n] = value]
  BY <1>2, <1>5, <1>6
<1>8. Dr7View(s) = [Dr7View(v) EXCEPT !.size[n] = value]
  BY <1>2, <1>5, <1>6
<1> QED BY <1>7, <1>8 DEF c, s, WithCondition, WithSize

LEMMA Dr7Change ==
  ASSUME NEW v, NEW change, change.op \in {"insert", "remove", "toggle"},
         change.bits \subseteq Dr7Flags
  PROVE  Dr7View(Apply(change, v)) = [Dr7View(v) EXCEPT !.flags = Apply(change, @)]
<1> DEFINE w == Apply(change, v)
<1>1. w \cap Dr7Flags = Apply(change, v \cap Dr7Flags)
  <2>1. CASE change.op = "insert"
    BY <2>1 DEF Apply, insert_flags
  <2>2. CASE change.op = "remove"
    BY <2>2 DEF Apply, remove_flags
  <2>3. CASE change.op = "toggle"
    BY <2>3 DEF Apply, toggle_flags
  <2> QED BY <2>1, <2>2, <2>3
<1>2. \A x : x \notin Dr7Flags => (x \in w <=> x \in v)
  <2>1. CASE change.op = "insert"
    BY <2>1 DEF Apply, insert_flags
  <2>2. CASE change.op = "remove"
    BY <2>2 DEF Apply, remove_flags
  <2>3. CASE change.op = "toggle"
    BY <2>3 DEF Apply, toggle_flags
  <2> QED BY <2>1, <2>2, <2>3
<1> HIDE DEF w
<1>3. ASSUME NEW n \in 0 .. 3
      PROVE  condition(w, n) = condition(v, n) /\ size(w, n) = size(v, n)
  <2>1. /\ 16 + 4 * n \notin Dr7Flags /\ (16 + 4 * n) + 1 \notin Dr7Flags
        /\ 18 + 4 * n \notin Dr7Flags /\ (18 + 4 * n) + 1 \notin Dr7Flags
    BY DEF Dr7Flags
  <2> QED BY <1>2, <2>1 DEF condition, size, condition_range, size_range, TwoBits
<1> DEFINE Conditions(x) == [m \in 0 .. 3 |-> condition(x, m)]
           Lengths(x) == [m \in 0 .. 3 |-> size(x, m)]
<1>4. Conditions(w) = Conditions(v) /\ Lengths(w) = Lengths(v)
  BY <1>3
<1>5. \A x : Dr7View(x) = [flags |-> x \cap Dr7Flags, condition |-> Conditions(x), size |-> Lengths(x)]
  BY DEF Dr7View
<1> HIDE DEF Conditions, Lengths
<1>6. Dr7View(w) = [Dr7View(v) EXCEPT !.flags = Apply(change, v \cap Dr7Flags)]
  <2>1. PICK C, S, new, old : /\ C = Conditions(v) /\ S = Lengths(v) /\ old = v \cap Dr7Flags
                              /\ new = Apply(change, v \cap Dr7Flags)
    OBVIOUS
  <2>2. Dr7View(v) = [flags |-> old, condition |-> C, size |-> S]
    BY <1>5, <2>1
  <2>3. Dr7View(w) = [flags |-> new, condition |-> C, size |-> S]
    BY <1>1, <1>4, <1>5, <2>1
  <2>4. Dr7View(w) = [Dr7View(v) EXCEPT !.flags = new]
    BY <2>2, <2>3
  <2> QED BY <2>1, <2>4
<1>7. Dr7View(v).flags = v \cap Dr7Flags
  BY <1>5
<1> QED BY <1>6, <1>7 DEF w

(***************************************************************************)
(* IA32_PAT: what write makes of eight memory types, read accepts.         *)
(***************************************************************************)
LEMMA PatReadable ==
  ASSUME NEW v, MayWrite("pat", v)
  PROVE  Readable("pat", v)
<1>1. /\ \A i \in PatIndex : pat_read(v)[i] \in PatMemoryType
      /\ v = pat_write(pat_read(v))
  BY DEF MayWrite
<1>2. ASSUME NEW i \in PatIndex PROVE v \cap (8 * i + 3 .. 8 * i + 7) = {}
  <2> SUFFICES ASSUME NEW x \in v, x \in 8 * i + 3 .. 8 * i + 7 PROVE FALSE
    OBVIOUS
  <2>1. PICK j \in PatIndex, b \in 0 .. 2 : x = 8 * j + b
    BY <1>1 DEF pat_write
  <2> QED BY <2>1 DEF PatIndex
<1> QED BY <1>1, <1>2 DEF Readable

(***************************************************************************)
(* The CETs: the address stays canonical.                                  *)
(***************************************************************************)
LEMMA CetReadable ==
  ASSUME NEW r \in {"ucet", "scet"}, NEW v, Readable(r, v), NEW change, MayChange(r, change)
  PROVE  Readable(r, Apply(change, read(r, v)))
<1> DEFINE old == read(r, v)
           new == Apply(change, old)
<1>1. \A w : Readable(r, w) <=> CanonicalPage(w)
  BY DEF Readable, CanonicalPage
<1>2. \A x \in 47 .. 63 : x \in old <=> x \in v
  BY DEF read, Of, UCet, SCet, PageBits
<1> HIDE DEF old
<1>3. CASE change.op \in {"insert", "remove", "toggle"} /\ change.bits \subseteq FlagsOf(r)
  <2>1. change.bits \cap 47 .. 63 = {}
    BY <1>3 DEF FlagsOf, CetFlags
  <2>2. new \in {old \cup change.bits, old \ change.bits,
                 (old \cup change.bits) \ (old \cap change.bits)}
    BY <1>3 DEF Apply, insert_flags, remove_flags, toggle_flags
  <2> HIDE DEF new
  <2>3. \A x \in 47 .. 63 : x \in new <=> x \in v
    BY <1>2, <2>1, <2>2
  <2>4. CanonicalPage(new)
    BY <1>1, <2>3 DEF CanonicalPage
  <2> QED BY <1>1, <2>4 DEF new, old
<1>4. CASE /\ change.op = "page" /\ change.bits \subseteq PageBits /\ CanonicalPage(change.bits)
  <2>1. new = (old \ PageBits) \cup change.bits
    BY <1>4 DEF Apply
  <2> HIDE DEF new
  <2>2. \A x \in 47 .. 63 : x \in new <=> x \in change.bits
    BY <2>1 DEF PageBits
  <2>3. CanonicalPage(new)
    BY <1>4, <2>2 DEF CanonicalPage
  <2> QED BY <1>1, <2>3 DEF new, old
<1> QED BY <1>3, <1>4 DEF MayChange

(***************************************************************************)
(* What a call that nothing disturbs does to its register.                 *)
(***************************************************************************)
\* The value that the call of frame f gives to write, or to write_raw.
Meant(f) == IF f.proc = "update" THEN Apply(f.change, read(reg, raw)) ELSE f.change.bits
OldOf == IF Of(reg).rereads THEN raw ELSE {}
Result(f) == IF f.proc = "write_raw" THEN Meant(f) ELSE NewValue(OldOf, Meant(f))

Agrees(r, v, fields) ==
  Fields(r, v).view = fields.view /\ Readable(r, v) /\ v \ Of(r).known = fields.reserved

LEMMA Written ==
  ASSUME reg \in Correct, Agrees(reg, raw, told), NEW f, MayCall(reg, f)
  PROVE  /\ Agrees(reg, Result(f), FieldsAfter(f))
         /\ f.proc # "write_raw" => read(reg, Result(f)) = Meant(f)
<1> DEFINE K == Of(reg).known
           v == Result(f)
           flags == Meant(f)
<1>1. CASE f.proc = "write_raw"
  <2>1. /\ f.change.op = "all" /\ reg \in {"cr0", "cr4", "efer", "dr7"} /\ v = f.change.bits
    BY <1>1 DEF MayCall, Result, Meant
  <2>2. Readable(reg, v)
    BY <2>1 DEF Readable
  <2>3. FieldsAfter(f).view = Fields(reg, v).view /\ FieldsAfter(f).reserved = v \ K
    BY <1>1, <2>1 DEF FieldsAfter, ViewAfter
  <2> QED BY <1>1, <2>2, <2>3 DEF Agrees
<1>2. CASE f.proc # "write_raw"
  <2>1. \/ f.proc = "update" /\ reg # "pat" /\ MayChange(reg, f.change)
        \/ f.proc = "write" /\ f.change.op = "all" /\ MayWrite(reg, f.change.bits)
    BY <1>2 DEF MayCall
  <2>2. /\ f.proc = "update" => flags = Apply(f.change, read(reg, raw))
        /\ f.proc = "write" => flags = f.change.bits
    BY DEF Meant
  <2>3. read(reg, raw) \subseteq K /\ \A w : read(reg, w) = w \cap K
    BY DEF read
  <2> HIDE DEF flags, K
  <2>4. flags \subseteq K
    <3>1. CASE f.proc = "update"
      BY <2>1, <2>2, <2>3, <3>1, ChangeKnown DEF K
    <3>2. CASE f.proc = "write"
      BY <2>1, <2>2, <3>2 DEF MayWrite, K
    <3> QED BY <2>1, <3>1, <3>2
  <2>5. v = NewValue(OldOf, flags)
    BY <1>2 DEF Result, flags
  <2>6. /\ reg \in Rereading => v = (raw \ K) \cup flags /\ Of(reg).rereads = TRUE
        /\ reg \notin Rereading => v = flags /\ Of(reg).rereads = FALSE
    BY <2>5, OfRereading, OfOthers DEF NewValue, OldOf, K
  <2> HIDE DEF v
  <2>7. v \cap K = flags
    BY <2>4, <2>6
  <2>8. v \ K = FieldsAfter(f).reserved
    <3>1. reg \in Rereading => v \ K = raw \ K
      BY <2>4, <2>6
    <3>2. reg \notin Rereading => v \ K = {}
      BY <2>4, <2>6
    <3>3. raw \ K = told.reserved
      BY DEF Agrees, K
    <3> QED BY <1>2, <2>6, <3>1, <3>2, <3>3 DEF FieldsAfter
  <2>9. Readable(reg, v)
    <3>1. CASE reg \in Rereading
      BY <3>1 DEF Readable, Rereading
    <3>2. CASE reg = "sfmask"
      BY <2>4, <2>6, <3>2 DEF Readable, Rereading, K, Of, SFMask
    <3>3. CASE reg \in {"ucet", "scet"}
      <4>1. v = flags
        BY <2>6, <3>3 DEF Rereading
      <4>2. CASE f.proc = "update"
        BY <2>1, <2>2, <3>3, <4>1, <4>2, CetReadable DEF Agrees
      <4>3. CASE f.proc = "write"
        BY <2>1, <2>2, <3>3, <4>1, <4>3 DEF MayWrite, Readable, CanonicalPage
      <4> QED BY <2>1, <4>2, <4>3
    <3>4. CASE reg = "pat"
      BY <2>1, <2>2, <2>6, <3>4, PatReadable DEF Rereading
    <3> QED BY <3>1, <3>2, <3>3, <3>4 DEF Correct, Rereading
  <2>10. FieldsAfter(f).view = ViewAfter(f.change, told.view) /\ told.view = Fields(reg, raw).view
    BY DEF FieldsAfter, Agrees
  <2>11. Fields(reg, v).view = FieldsAfter(f).view
    <3>1. CASE reg \notin {"dr7", "pat"}
      <4>1. \A w : Fields(reg, w).view = w \cap K
        BY <2>3, <3>1 DEF Fields
      <4>2. CASE f.proc = "write"
        <5>1. FieldsAfter(f).view = f.change.bits \cap K
          BY <2>1, <2>10, <4>1, <4>2 DEF ViewAfter
        <5> QED BY <2>2, <2>4, <2>7, <4>1, <4>2, <5>1
      <4>3. CASE f.proc = "update"
        <5>1. f.change.op \in {"insert", "remove", "toggle", "page"}
          BY <2>1, <3>1, <4>3 DEF MayChange
        <5>2. FieldsAfter(f).view = Apply(f.change, told.view)
          BY <2>10, <3>1, <5>1 DEF ViewAfter
        <5>3. told.view = read(reg, raw)
          BY <2>3, <2>10, <4>1
        <5> QED BY <2>2, <2>7, <4>1, <4>3, <5>2, <5>3
      <4> QED BY <2>1, <4>2, <4>3
    <3>2. CASE reg = "pat"
      <4>1. f.proc = "write" /\ v = f.change.bits
        BY <2>1, <2>2, <2>6, <3>2 DEF Rereading
      <4> QED BY <2>1, <2>10, <4>1 DEF ViewAfter
    <3>3. CASE reg = "dr7"
      <4>1. /\ \A w : Fields(reg, w).view = Dr7View(w)
            /\ K = valid_bits
        BY <3>3 DEF Fields, Dr7View, K, Of, Dr7
      <4>2. ASSUME NEW a, NEW b, a \cap K = b \cap K PROVE Dr7View(a) = Dr7View(b)
        BY <4>1, <4>2, ValidFields, Dr7ViewSame
      <4>3. Dr7View(v) = Dr7View(flags)
        BY <2>4, <2>7, <4>2
      <4>4. CASE f.proc = "write"
        BY <2>1, <2>2, <2>10, <4>1, <4>3, <4>4 DEF ViewAfter
      <4>5. CASE f.proc = "update"
        <5>1. Dr7View(raw) = Dr7View(read(reg, raw))
          BY <2>3, <4>2
        <5>2. told.view = Dr7View(read(reg, raw))
          BY <2>10, <4>1, <5>1
        <5>3. CASE f.change.op \in {"insert", "remove", "toggle"}
          <6>1. f.change.bits \subseteq Dr7Flags
            BY <2>1, <3>3, <4>5, <5>3 DEF MayChange, FlagsOf
          <6>2. Dr7View(flags) = [told.view EXCEPT !.flags = Apply(f.change, @)]
            BY <2>2, <4>5, <5>2, <5>3, <6>1, Dr7Change
          <6> QED BY <2>10, <3>3, <4>1, <4>3, <5>3, <6>2 DEF ViewAfter
        <5>4. CASE f.change.op = "condition"
          <6>1. f.change.n \in 0 .. 3 /\ f.change.value \in 0 .. 3
            BY <2>1, <4>5, <5>4 DEF MayChange
          <6>2. flags = set_condition(read(reg, raw), f.change.n, f.change.value)
            BY <2>2, <4>5, <5>4 DEF Apply
          <6>3. Dr7View(flags) = WithCondition(told.view, f.change.n, f.change.value)
            BY <5>2, <6>1, <6>2, Dr7Set
          <6> QED BY <2>10, <4>1, <4>3, <5>4, <6>3 DEF ViewAfter, WithCondition
        <5>5. CASE f.change.op = "size"
          <6>1. f.change.n \in 0 .. 3 /\ f.change.value \in 0 .. 3
            BY <2>1, <4>5, <5>5 DEF MayChange
          <6>2. flags = set_size(read(reg, raw), f.change.n, f.change.value)
            BY <2>2, <4>5, <5>5 DEF Apply
          <6>3. Dr7View(flags) = WithSize(told.view, f.change.n, f.change.value)
            BY <5>2, <6>1, <6>2, Dr7Set
          <6> QED BY <2>10, <4>1, <4>3, <5>5, <6>3 DEF ViewAfter, WithSize
        <5> QED BY <2>1, <3>3, <4>5, <5>3, <5>4, <5>5 DEF MayChange
      <4> QED BY <2>1, <4>4, <4>5
    <3> QED BY <3>1, <3>2, <3>3
  <2> QED BY <2>3, <2>7, <2>8, <2>9, <2>11 DEF Agrees, v, flags, K
<1> QED BY <1>1, <1>2

(***************************************************************************)
(* The inductive invariant.                                                *)
(***************************************************************************)
RegProcs == {"update", "write", "write_raw"}
Changes == UNION {{call.change : call \in Calls(r)} : r \in Regs}
RegFrames ==
  [proc : RegProcs, pc : Places \cup {"read_raw", "write_raw"},
   saved : BOOLEAN, entry : BOOLEAN, called : BOOLEAN,
   change : Changes, flags : SUBSET Int, old : SUBSET Int]
AllFrames == PlainFrames \cup RegFrames

\* How far the call of frame f has come, and what it has read.
FrameSays(f) ==
  /\ MayCall(reg, f)
  /\ f.proc = "write" => f.pc \in {"read_raw", "write_raw"}
  /\ f.proc = "write_raw" => f.pc = "write_raw"
  /\ f.pc = "closure" => f.flags = read(reg, raw)
  /\ f.pc \in {"read_raw", "write_raw"} => f.flags = Meant(f)
  /\ f.pc = "write_raw" /\ f.proc # "write_raw" =>
       f.old = OldOf /\ (panicked = FALSE => Asserts(reg, f.flags))

IsReg(i) == stack[i].proc \in RegProcs

\* A call is made in a closure of without_interrupts, so that no handler of a maskable
\* interrupt comes on top of it; on top of a write, only that of an NMI.
RegFrameOK(i) ==
  /\ i > 1 /\ InClosure(stack[i - 1])
  /\ stack[i].proc # "update" /\ i < Len(stack) => stack[i + 1].proc = "nmi"
  /\ FrameSays(stack[i])

RInv ==
  /\ StackInv(AllFrames, stack, interrupt_flag)
  /\ reg \in Regs \cap Correct
  /\ raw \in SUBSET Int
  /\ panicked \in BOOLEAN
  /\ \A i \in 1 .. Len(stack) : IsReg(i) => RegFrameOK(i)
  /\ \A i, j \in 1 .. Len(stack) : IsReg(i) /\ IsReg(j) => i = j
  /\ Agrees(reg, raw, told)

LEMMA AllFrameSet == FrameSet(AllFrames)
<1>1. FrameSet(PlainFrames)
  BY PlainFrameSet
<1>2. \A f \in RegFrames : FrameFields \subseteq DOMAIN f /\ f = [x \in DOMAIN f |-> f[x]]
  BY DEF RegFrames, FrameFields
<1>3. \A f \in RegFrames, pc \in Places : [f EXCEPT !.pc = pc] \in RegFrames
  BY DEF RegFrames
<1>4. \A f \in RegFrames, b \in BOOLEAN :
        [f EXCEPT !.called = b] \in RegFrames /\ [f EXCEPT !.saved = b] \in RegFrames
  BY DEF RegFrames
<1> QED BY <1>1, <1>2, <1>3, <1>4 DEF FrameSet, AllFrames

LEMMA RegFrameFields ==
  ASSUME NEW f \in AllFrames
  PROVE  /\ f.proc \in RegProcs <=> f \in RegFrames
         /\ f.proc \in RegProcs <=> Other(f.proc)
<1>1. CASE f \in PlainFrames
  BY <1>1 DEF PlainFrames, RegProcs, Other, Handlers, RegFrames
<1>2. CASE f \in RegFrames
  BY <1>2 DEF RegFrames, RegProcs, Other, Handlers
<1> QED BY <1>1, <1>2 DEF AllFrames

(***************************************************************************)
(* What an instruction of Interrupts does to the frames of calls: nothing. *)
(***************************************************************************)
SameCall(g, f) ==
  g.proc = f.proc /\ g.pc = f.pc /\ g.change = f.change /\ g.flags = f.flags /\ g.old = f.old

SameBelow(t, s) == \A i \in 1 .. Len(s) - 1 : t[i] = s[i]
Moves(s, t) ==
  /\ Len(t) = Len(s) /\ SameBelow(t, s)
  /\ t[Len(s)].proc = s[Len(s)].proc /\ s[Len(s)].proc \notin RegProcs
Pushes(s, t) ==
  /\ Len(t) = Len(s) + 1 /\ SameBelow(t, s) /\ t[Len(s)].proc = s[Len(s)].proc
  /\ s[Len(s)].proc \in RegProcs => SameCall(t[Len(s)], s[Len(s)])
  /\ t[Len(s) + 1].proc \notin RegProcs
  /\ s[Len(s)].proc \in {"write", "write_raw"} => t[Len(s) + 1].proc = "nmi"
Pops(s, t) ==
  /\ Len(t) = Len(s) - 1 /\ SameBelow(t, s) /\ s[Len(s)].proc \notin RegProcs

LEMMA TopMoves ==
  ASSUME NEW F, NEW s \in Seq(F), Len(s) > 0, NEW f \in F, NEW t, t = [s EXCEPT ![Len(s)] = f],
         f.proc = s[Len(s)].proc, f.proc \notin RegProcs
  PROVE  Moves(s, t)
<1>1. Len(s) \in Nat /\ Len(s) \in 1 .. Len(s)
  BY LenProperties
<1>2. t \in Seq(F) /\ Len(t) = Len(s) /\ t[Len(s)] = f /\ \A i \in 1 .. Len(s) : i # Len(s) => t[i] = s[i]
  BY <1>1, ExceptSeq
<1>3. \A i \in 1 .. Len(s) - 1 : t[i] = s[i]
  <2>1. \A i \in 1 .. Len(s) - 1 : i \in 1 .. Len(s) /\ i # Len(s)
    BY <1>1
  <2> QED BY <1>2, <2>1
<1> QED BY <1>2, <1>3 DEF Moves, SameBelow

LEMMA GotoMoves ==
  ASSUME RInv, NEW pc \in Places, Goto(pc), Top.proc \notin RegProcs
  PROVE  Moves(stack, stack')
<1>1. /\ stack \in Seq(AllFrames) /\ Len(stack) \in Nat \ {0} /\ Top \in AllFrames
  BY TopOK DEF RInv
<1>2. PICK f : f = [Top EXCEPT !.pc = pc]
  OBVIOUS
<1>3. f \in AllFrames /\ f.proc = Top.proc
  BY <1>1, <1>2, SetPc, AllFrameSet
<1>4. stack' = [stack EXCEPT ![Len(stack)] = f]
  BY <1>1, <1>2, Assigned DEF Goto, Top
<1>5. Len(stack) > 0 /\ f.proc = stack[Len(stack)].proc /\ f.proc \notin RegProcs
  BY <1>1, <1>3 DEF Top
<1> QED BY <1>1, <1>3, <1>4, <1>5, TopMoves

LEMMA PopBelow ==
  ASSUME RInv, Top.proc # "main"
  PROVE  Len(Pop) = Len(stack) - 1 /\ SameBelow(Pop, stack)
<1>1. PICK n : n = Len(stack)
  OBVIOUS
<1>2. stack \in Seq(AllFrames) /\ n \in Nat \ {0, 1}
  BY <1>1, TopOK DEF RInv
<1>3. \A i \in 1 .. n - 1 : stack[i] \in AllFrames
  BY <1>1, <1>2, ElementOfSeq
<1>4. n - 1 \in Int /\ 1 <= n - 1 /\ (n - 1) - 1 + 1 = n - 1
  BY <1>2
<1>5. /\ Len(SubSeq(stack, 1, n - 1)) = n - 1
      /\ \A i \in 1 .. n - 1 : SubSeq(stack, 1, n - 1)[i] = stack[1 + i - 1]
  BY <1>2, <1>3, <1>4, SubSeqProperties
<1>6. \A i \in 1 .. n - 1 : 1 + i - 1 = i
  BY <1>2
<1> QED BY <1>1, <1>5, <1>6 DEF Pop, SameBelow

LEMMA PopPops ==
  ASSUME RInv, stack' = Pop, Top.proc \notin RegProcs, Top.proc # "main"
  PROVE  Pops(stack, stack')
BY PopBelow DEF Pops, Top

LEMMA TouchPushes ==
  ASSUME RInv, NEW mid, Touched(mid), NEW f \in AllFrames, stack' = Append(mid, f),
         f.proc \notin RegProcs, Top.proc \in {"write", "write_raw"} => f.proc = "nmi"
  PROVE  Pushes(stack, stack')
<1>1. /\ stack \in Seq(AllFrames) /\ Len(stack) \in Nat \ {0} /\ Top \in AllFrames
      /\ FrameType(Top) /\ Len(stack) \in 1 .. Len(stack)
  BY TopOK DEF RInv
<1>2. PICK g \in AllFrames : /\ mid = [stack EXCEPT ![Len(stack)] = g] /\ g.proc = Top.proc
                             /\ Top.proc \in RegProcs => SameCall(g, Top)
  <2>1. CASE mid = stack
    <3>1. mid = [stack EXCEPT ![Len(stack)] = Top]
      BY <1>1, <2>1 DEF Top
    <3>2. SameCall(Top, Top)
      BY DEF SameCall
    <3> QED BY <1>1, <3>1, <3>2
  <2>2. CASE mid = [stack EXCEPT ![Len(stack)].called = TRUE]
    <3> DEFINE g == [Top EXCEPT !.called = TRUE]
    <3>1. g \in AllFrames /\ g.proc = Top.proc
      BY <1>1, AllFrameSet DEF FrameSet, FrameFields
    <3>2. mid = [stack EXCEPT ![Len(stack)] = g]
      BY <1>1, <2>2, Assigned DEF Top
    <3>3. Top.proc \in RegProcs => SameCall(g, Top)
      <4>1. Top.proc \in RegProcs => Top \in RegFrames
        BY <1>1, RegFrameFields
      <4> QED BY <4>1 DEF RegFrames, SameCall
    <3> HIDE DEF g
    <3> QED BY <3>1, <3>2, <3>3
  <2>3. CASE mid = [stack EXCEPT ![Len(stack)].pc = "loop"] /\ Top.pc \in {"asleep", "hlt"}
    <3> DEFINE g == [Top EXCEPT !.pc = "loop"]
    <3>1. Top.proc = "main" /\ "loop" \in Places
      BY <1>1, <2>3 DEF FrameType, Pcs, Handlers, Places
    <3>2. g \in AllFrames /\ g.proc = Top.proc
      BY <1>1, <3>1, SetPc, AllFrameSet
    <3>3. mid = [stack EXCEPT ![Len(stack)] = g]
      BY <1>1, <2>3, Assigned DEF Top
    <3>4. Top.proc \notin RegProcs
      BY <3>1 DEF RegProcs
    <3> HIDE DEF g
    <3> QED BY <3>2, <3>3, <3>4
  <2> QED BY <2>1, <2>2, <2>3 DEF Touched
<1>3. /\ mid \in Seq(AllFrames) /\ Len(mid) = Len(stack) /\ mid[Len(stack)] = g
      /\ \A i \in 1 .. Len(stack) : i # Len(stack) => mid[i] = stack[i]
  BY <1>1, <1>2, ExceptSeq
<1>4. /\ Len(stack') = Len(mid) + 1 /\ stack'[Len(mid) + 1] = f
      /\ \A i \in 1 .. Len(mid) : stack'[i] = mid[i]
  BY <1>3, AppendProperties
<1>5. SameBelow(stack', stack) /\ stack'[Len(stack)] = g
  BY <1>1, <1>3, <1>4 DEF SameBelow
<1> QED BY <1>2, <1>3, <1>4, <1>5 DEF Pushes, Top

LEMMA NextShape ==
  ASSUME RInv, Next
  PROVE  \/ stack' = stack
         \/ Moves(stack, stack') \/ Pushes(stack, stack') \/ Pops(stack, stack')
<1>1. /\ stack \in Seq(AllFrames) /\ Len(stack) \in Nat \ {0} /\ Top \in AllFrames
      /\ FrameType(Top) /\ FrameOK(Top, interrupt_flag) /\ interrupt_flag \in BOOLEAN
      /\ Top.proc = "main" <=> Len(stack) = 1
  BY TopOK DEF RInv
<1>2. Top.proc \in RegProcs <=> Other(Top.proc)
  BY <1>1, RegFrameFields
<1>3. "irq" \notin RegProcs /\ "nmi" \notin RegProcs /\ "main" \notin RegProcs
      /\ "without_interrupts" \notin RegProcs /\ "nmi" # "main"
  BY DEF RegProcs
<1>4. CASE Raise
  BY <1>4 DEF Raise
<1>5. CASE Deliver
  <2>1. Top.proc \notin RegProcs
    BY <1>1, <1>2, <1>5 DEF Deliver, Deliverable, FrameOK
  <2>2. PICK mid, f : /\ f = Frame("irq", "run", TRUE, TRUE) /\ stack' = Append(mid, f)
                      /\ mid = Interrupted({"asleep"})
    BY <1>5 DEF Deliver
  <2>3. Touched(mid)
    BY <2>2 DEF Interrupted, Touched
  <2>4. f \in AllFrames /\ f.proc = "irq"
    BY <2>2, AllFrameSet DEF FrameSet, Frame
  <2>5. Top.proc \notin {"write", "write_raw"}
    BY <2>1 DEF RegProcs
  <2> QED BY <1>3, <2>2, <2>3, <2>4, <2>5, TouchPushes
<1>6. CASE Nmi
  <2>1. PICK mid, f : /\ f = Frame("nmi", "run", interrupt_flag, interrupt_flag)
                      /\ stack' = Append(mid, f) /\ mid = Interrupted({"asleep", "hlt"})
    BY <1>6 DEF Nmi
  <2>2. Touched(mid)
    BY <2>1 DEF Interrupted, Touched
  <2>3. f \in AllFrames /\ f.proc = "nmi"
    BY <1>1, <2>1, AllFrameSet DEF FrameSet, Frame
  <2> QED BY <1>3, <2>1, <2>2, <2>3, TouchPushes
<1>7. CASE HandlerWork
  <2>1. Top.proc \in Handlers /\ "iret" \in Places /\ Goto("iret")
    BY <1>1, <1>7 DEF HandlerWork, FrameType, Pcs, Handlers, Places
  <2>2. Top.proc \notin RegProcs
    BY <1>3, <2>1 DEF Handlers
  <2> QED BY <2>1, <2>2, GotoMoves
<1>8. CASE Iret
  <2>1. Top.proc \in Handlers /\ stack' = Pop
    BY <1>1, <1>8 DEF Iret, FrameType, Pcs, Handlers
  <2>2. Top.proc \notin RegProcs /\ Top.proc # "main"
    BY <1>3, <2>1 DEF Handlers
  <2> QED BY <2>1, <2>2, PopPops
<1>9. CASE Call
  <2>1. PICK mid, f : /\ f = Frame("without_interrupts", "read", FALSE, interrupt_flag)
                      /\ stack' = Append(mid, f)
                      /\ mid = [stack EXCEPT ![Len(stack)].called = TRUE]
    BY <1>9 DEF Call
  <2>2. Touched(mid)
    BY <2>1 DEF Touched
  <2>3. f \in AllFrames /\ f.proc = "without_interrupts"
    BY <1>1, <2>1, AllFrameSet DEF FrameSet, Frame
  <2>4. Top.proc \notin {"write", "write_raw"}
    <3> SUFFICES ASSUME Top.proc \in {"write", "write_raw"} PROVE FALSE
      OBVIOUS
    <3>1. FrameSays(Top)
      <4>1. IsReg(Len(stack)) /\ Len(stack) \in 1 .. Len(stack)
        BY <1>1 DEF IsReg, RegProcs, Top
      <4> QED BY <4>1 DEF RInv, RegFrameOK, Top
    <3> QED BY <1>9, <3>1 DEF Call, FrameSays
  <2> QED BY <1>3, <2>1, <2>2, <2>3, <2>4, TouchPushes
<1>10. CASE ReadFlag
  <2> DEFINE pc == IF interrupt_flag THEN "cli" ELSE "closure"
             g == [Top EXCEPT !.saved = interrupt_flag]
             f == [g EXCEPT !.pc = pc]
  <2>1. Top.proc = "without_interrupts"
    BY <1>10 DEF ReadFlag, At
  <2>2. stack' = [stack EXCEPT ![Len(stack)] = f]
    <3>1. stack' = [stack EXCEPT ![Len(stack)].saved = interrupt_flag, ![Len(stack)].pc = pc]
      BY <1>10 DEF ReadFlag
    <3> HIDE DEF pc
    <3> QED BY <1>1, <3>1 DEF Top
  <2>3. pc \in Places
    BY DEF Places, Pcs
  <2>4. g \in AllFrames /\ g.proc = Top.proc
    BY <1>1, SetSaved, AllFrameSet
  <2> HIDE DEF pc, g
  <2>5. f \in AllFrames /\ f.proc = g.proc
    BY <2>3, <2>4, SetPc, AllFrameSet
  <2> HIDE DEF f
  <2>6. Len(stack) > 0 /\ f.proc = stack[Len(stack)].proc /\ f.proc \notin RegProcs
    BY <1>1, <1>3, <2>1, <2>4, <2>5 DEF Top
  <2> QED BY <1>1, <2>2, <2>5, <2>6, TopMoves
<1>11. CASE Cli \/ Closure \/ Sti
  <2>1. Top.proc = "without_interrupts"
    BY <1>11 DEF Cli, Closure, Sti, At
  <2>2. PICK pc \in {"closure", "sti", "return"} : Goto(pc)
    BY <1>11 DEF Cli, Closure, Sti, AfterClosure
  <2>3. pc \in Places
    BY <2>2 DEF Places, Pcs
  <2> QED BY <1>3, <2>1, <2>2, <2>3, GotoMoves
<1>12. CASE Return
  <2>1. Top.proc = "without_interrupts" /\ stack' = Pop
    BY <1>12 DEF Return, At
  <2> QED BY <1>3, <2>1, PopPops
<1>13. CASE MainDisable
  <2> DEFINE g == [Top EXCEPT !.pc = "check"]
             f == [g EXCEPT !.called = FALSE]
  <2>1. Top.proc = "main"
    BY <1>13 DEF MainDisable, At
  <2>2. stack' = [stack EXCEPT ![Len(stack)] = f]
    <3>1. Len(stack) = 1
      BY <1>1, <2>1
    <3>2. stack' = [stack EXCEPT ![Len(stack)].pc = "check", ![Len(stack)].called = FALSE]
      BY <1>13, <3>1 DEF MainDisable
    <3> QED BY <1>1, <3>2 DEF Top
  <2>3. "check" \in Places
    BY DEF Places, Pcs
  <2>4. g \in AllFrames /\ g.proc = Top.proc
    BY <1>1, <2>3, SetPc, AllFrameSet
  <2> HIDE DEF g
  <2>5. f \in AllFrames /\ f.proc = g.proc
    BY <2>4, AllFrameSet DEF FrameSet, FrameFields
  <2> HIDE DEF f
  <2>6. Len(stack) > 0 /\ f.proc = stack[Len(stack)].proc /\ f.proc \notin RegProcs
    BY <1>1, <1>3, <2>1, <2>4, <2>5 DEF Top
  <2> QED BY <1>1, <2>2, <2>5, <2>6, TopMoves
<1>14. CASE MainCheck \/ MainTake \/ MainEnable \/ EnableAndHlt \/ Hlt
  <2>1. Top.proc = "main"
    BY <1>14 DEF MainCheck, MainTake, MainEnable, EnableAndHlt, Hlt, At
  <2>2. PICK pc \in {"busy", "enable_and_hlt", "enable", "loop", "hlt", "asleep"} : Goto(pc)
    BY <1>14 DEF MainCheck, MainTake, MainEnable, EnableAndHlt, Hlt
  <2>3. pc \in Places
    BY <2>2 DEF Places, Pcs
  <2> QED BY <1>3, <2>1, <2>2, <2>3, GotoMoves
<1> QED BY <1>4, <1>5, <1>6, <1>7, <1>8, <1>9, <1>10, <1>11, <1>12, <1>13, <1>14
        DEF Next, Instruction

\* The frame of a call after such a step is one from before.
LEMMA NextFrames ==
  ASSUME RInv, Next, NEW i \in 1 .. Len(stack'), stack'[i].proc \in RegProcs
  PROVE  /\ i \in 1 .. Len(stack) /\ IsReg(i) /\ SameCall(stack'[i], stack[i])
         /\ i > 1 => stack'[i - 1] = stack[i - 1]
         /\ stack[i].proc # "update" /\ i < Len(stack') => stack'[i + 1].proc = "nmi"
<1>1. PICK n : n = Len(stack)
  OBVIOUS
<1>2. n \in Nat \ {0} /\ Len(stack') \in Nat
  BY <1>1, TopOK, NextShape DEF RInv, Moves, Pushes, Pops
<1>3. \A j \in 1 .. n : IsReg(j) /\ stack[j].proc # "update" /\ j < n => stack[j + 1].proc = "nmi"
  BY <1>1 DEF RInv, RegFrameOK
<1>4. CASE stack' = stack
  BY <1>1, <1>2, <1>3, <1>4 DEF IsReg, SameCall
<1>5. CASE Moves(stack, stack')
  <2>1. /\ Len(stack') = n /\ (\A j \in 1 .. n - 1 : stack'[j] = stack[j])
        /\ stack'[n].proc = stack[n].proc /\ stack[n].proc \notin RegProcs
    BY <1>1, <1>5 DEF Moves, SameBelow
  <2>2. i \in 1 .. n - 1 /\ stack'[i] = stack[i] /\ IsReg(i)
    BY <1>2, <2>1 DEF IsReg
  <2>3. stack'[i + 1].proc = stack[i + 1].proc
    BY <1>2, <2>1, <2>2
  <2> QED BY <1>1, <1>2, <1>3, <2>1, <2>2, <2>3 DEF SameCall
<1>6. CASE Pushes(stack, stack')
  <2>1. /\ Len(stack') = n + 1 /\ (\A j \in 1 .. n - 1 : stack'[j] = stack[j])
        /\ stack'[n].proc = stack[n].proc /\ stack'[n + 1].proc \notin RegProcs
        /\ stack[n].proc \in RegProcs => SameCall(stack'[n], stack[n])
        /\ stack[n].proc \in {"write", "write_raw"} => stack'[n + 1].proc = "nmi"
    BY <1>1, <1>6 DEF Pushes, SameBelow
  <2>2. i \in 1 .. n
    BY <1>2, <2>1
  <2>3. CASE i = n
    BY <1>1, <1>2, <2>1, <2>2, <2>3 DEF IsReg, RegProcs
  <2>4. CASE i # n
    <3>1. i \in 1 .. n - 1 /\ stack'[i] = stack[i] /\ IsReg(i)
      BY <1>2, <2>1, <2>2, <2>4 DEF IsReg
    <3>2. stack'[i + 1].proc = stack[i + 1].proc
      BY <1>2, <2>1, <3>1
    <3> QED BY <1>1, <1>2, <1>3, <2>1, <3>1, <3>2 DEF SameCall
  <2> QED BY <2>3, <2>4
<1>7. CASE Pops(stack, stack')
  <2>1. /\ Len(stack') = n - 1 /\ (\A j \in 1 .. n - 1 : stack'[j] = stack[j])
    BY <1>1, <1>7 DEF Pops, SameBelow
  <2>2. i \in 1 .. n - 1 /\ stack'[i] = stack[i] /\ IsReg(i)
    BY <1>2, <2>1 DEF IsReg
  <2> QED BY <1>1, <1>2, <1>3, <2>1, <2>2 DEF SameCall
<1> QED BY <1>4, <1>5, <1>6, <1>7, NextShape

LEMMA NextKeeps ==
  ASSUME RInv, Next \/ UNCHANGED vars, UNCHANGED regVars
  PROVE  RInv'
<1>1. /\ reg' = reg /\ raw' = raw /\ told' = told /\ panicked' = panicked
  BY DEF regVars
<1>2. StackInv(AllFrames, stack', interrupt_flag')
  BY NextInv, AllFrameSet DEF RInv
<1>3. ASSUME NEW i \in 1 .. Len(stack'), stack'[i].proc \in RegProcs
      PROVE  /\ i \in 1 .. Len(stack) /\ IsReg(i) /\ SameCall(stack'[i], stack[i])
             /\ i > 1 => stack'[i - 1] = stack[i - 1]
             /\ stack[i].proc # "update" /\ i < Len(stack') => stack'[i + 1].proc = "nmi"
  <2>1. CASE Next
    BY <1>3, <2>1, NextFrames
  <2>2. CASE UNCHANGED vars
    <3>1. stack' = stack
      BY <2>2 DEF vars
    <3> QED BY <1>3, <3>1 DEF IsReg, SameCall, RInv, RegFrameOK
  <2> QED BY <2>1, <2>2
<1>4. ASSUME NEW i \in 1 .. Len(stack'), stack'[i].proc \in RegProcs
      PROVE  RegFrameOK(i)'
  <2>1. RegFrameOK(i) /\ SameCall(stack'[i], stack[i])
    BY <1>3, <1>4 DEF RInv
  <2>2. i > 1 /\ InClosure(stack[i - 1])'
    BY <1>3, <1>4, <2>1 DEF RegFrameOK, InClosure
  <2>3. stack'[i].proc # "update" /\ i < Len(stack') => stack'[i + 1].proc = "nmi"
    BY <1>3, <1>4, <2>1 DEF SameCall
  <2>4. FrameSays(stack[i])'
    <3>1. FrameSays(stack[i])
      BY <2>1 DEF RegFrameOK
    <3>2. PICK f, g : f = stack[i] /\ g = stack'[i]
      OBVIOUS
    <3>3. FrameSays(f) /\ SameCall(g, f)
      BY <2>1, <3>1, <3>2
    <3>4. MayCall(reg, g) <=> MayCall(reg, f)
      BY <3>3 DEF SameCall, MayCall
    <3>5. Meant(g) = Meant(f)
      BY <3>3 DEF SameCall, Meant
    <3>6. FrameSays(g)
      BY <3>3, <3>4, <3>5 DEF SameCall, FrameSays
    <3> QED BY <1>1, <3>2, <3>6 DEF FrameSays, Meant, OldOf, Asserts, read
  <2> QED BY <2>2, <2>3, <2>4 DEF RegFrameOK
<1>5. \A i, j \in 1 .. Len(stack') : stack'[i].proc \in RegProcs /\ stack'[j].proc \in RegProcs => i = j
  BY <1>3 DEF RInv
<1>6. Agrees(reg, raw, told)'
  BY <1>1 DEF RInv, Agrees
<1> QED BY <1>1, <1>2, <1>4, <1>5, <1>6 DEF RInv, IsReg

(***************************************************************************)
(* The instructions of calls.                                              *)
(***************************************************************************)
LEMMA KnownInt == \A r \in Correct : Of(r).known \subseteq Int
BY DEF Correct, Of, Cr0, Cr4, Efer, XCr0, Dr7, SFMask, UCet, SCet, Pat, Cr0Flags, Cr4Flags,
       EferFlags, XCr0Flags, X87, SSE, AVX, mpx, avx512, valid_bits, Dr7Flags, RFlags, CetFlags,
       PageBits

\* The running frame is that of a call: it is the only one, with the flag clear.
LEMMA TopCall ==
  ASSUME RInv, Top.proc \in RegProcs
  PROVE  /\ Top \in RegFrames /\ FrameType(Top) /\ FrameSays(Top)
         /\ interrupt_flag = FALSE /\ Top.entry = FALSE /\ Top.proc \notin Handlers \cup {"main"}
         /\ Len(stack) > 1 /\ InClosure(stack[Len(stack) - 1])
         /\ \A i \in 1 .. Len(stack) : IsReg(i) => i = Len(stack)
<1>1. /\ stack \in Seq(AllFrames) /\ Len(stack) \in Nat \ {0} /\ Top \in AllFrames
      /\ FrameType(Top) /\ FrameOK(Top, interrupt_flag)
  BY TopOK DEF RInv
<1>2. Top \in RegFrames /\ Other(Top.proc)
  BY <1>1, RegFrameFields
<1>3. IsReg(Len(stack)) /\ Len(stack) \in 1 .. Len(stack)
  BY <1>1 DEF IsReg, Top
<1>4. RegFrameOK(Len(stack))
  BY <1>3 DEF RInv
<1>5. \A i \in 1 .. Len(stack) : IsReg(i) => i = Len(stack)
  BY <1>3 DEF RInv
<1> QED BY <1>1, <1>2, <1>4, <1>5 DEF RegFrameOK, FrameOK, Other, Top

\* A call goes on.
LEMMA CallGoesOn ==
  ASSUME RInv, Top.proc \in RegProcs, NEW f \in RegFrames,
         f.proc = Top.proc, f.saved = Top.saved, f.entry = Top.entry, f.called = Top.called,
         f.pc \in {"closure", "read_raw", "write_raw"},
         stack' = [stack EXCEPT ![Len(stack)] = f], interrupt_flag' = interrupt_flag,
         reg' = reg, raw' = raw, told' = told, panicked' \in BOOLEAN,
         MayCall(reg, f),
         f.proc = "write" => f.pc \in {"read_raw", "write_raw"},
         f.proc = "write_raw" => f.pc = "write_raw",
         f.pc = "closure" => f.flags = read(reg, raw),
         f.pc \in {"read_raw", "write_raw"} => f.flags = Meant(f),
         f.pc = "write_raw" /\ f.proc # "write_raw" =>
           f.old = OldOf /\ (panicked' = FALSE => Asserts(reg, f.flags))
  PROVE  RInv'
<1>1. PICK n : n = Len(stack)
  OBVIOUS
<1>2. /\ Top \in RegFrames /\ FrameType(Top) /\ FrameSays(Top)
      /\ interrupt_flag = FALSE /\ Top.entry = FALSE /\ Top.proc \notin Handlers \cup {"main"}
      /\ n > 1 /\ InClosure(stack[n - 1])
      /\ \A i \in 1 .. n : IsReg(i) => i = n
  BY <1>1, TopCall
<1>3. stack \in Seq(AllFrames) /\ n \in Nat \ {0} /\ f \in AllFrames
  BY <1>1, TopOK DEF RInv, AllFrames
<1>4. FrameType(f)
  <2>1. f.pc \in Pcs(f.proc)
    BY DEF Pcs, RegProcs, Handlers
  <2> QED BY <1>2, <2>1 DEF FrameType
<1>5. FrameOK(f, FALSE)
  BY <1>2 DEF FrameOK, RegProcs, Handlers
<1>6. StackInv(AllFrames, stack', interrupt_flag')
  <2>1. FALSE \in BOOLEAN
    OBVIOUS
  <2>2. StackInv(AllFrames, [stack EXCEPT ![Len(stack)] = f], interrupt_flag)
    <3>1. interrupt_flag \in BOOLEAN /\ FrameOK(f, interrupt_flag)
      BY <1>2, <1>5
    <3> QED BY <1>3, <1>4, <3>1, StepInv DEF RInv, Top
  <2> QED BY <2>2
<1>7. /\ Len(stack') = n /\ stack'[n] = f
      /\ \A i \in 1 .. n : i # n => stack'[i] = stack[i]
  BY <1>1, <1>3, ExceptSeq
<1>8. \A i \in 1 .. n : stack'[i].proc \in RegProcs => i = n
  BY <1>2, <1>7 DEF IsReg
<1>9. RegFrameOK(n)'
  <2>1. InClosure(stack'[n - 1])
    BY <1>2, <1>3, <1>7
  <2>2. FrameSays(f)'
    BY DEF FrameSays, Meant, OldOf, read, Asserts
  <2>3. n > 1 /\ ~(n < Len(stack'))
    BY <1>2, <1>3, <1>7
  <2> QED BY <1>7, <2>1, <2>2, <2>3 DEF RegFrameOK, InClosure, FrameSays, Meant, OldOf
<1>10. Agrees(reg, raw, told)'
  BY DEF RInv, Agrees
<1> QED BY <1>6, <1>7, <1>8, <1>9, <1>10 DEF RInv, IsReg

\* The assignments of the model to two fields of the running frame, as one to the whole.
SetFlags(f, v, pc) == [f EXCEPT !.flags = v, !.pc = pc]
SetOld(f, v, pc) == [f EXCEPT !.old = v, !.pc = pc]
FlagsAssigned(s, v, pc) == [s EXCEPT ![Len(s)].flags = v, ![Len(s)].pc = pc]
OldAssigned(s, v, pc) == [s EXCEPT ![Len(s)].old = v, ![Len(s)].pc = pc]
TopAssigned(s, f) == [s EXCEPT ![Len(s)] = f]

LEMMA FrameAssigned ==
  ASSUME NEW F, NEW s \in Seq(F), Len(s) > 0, NEW pc, NEW v
  PROVE  /\ FlagsAssigned(s, v, pc) = TopAssigned(s, SetFlags(s[Len(s)], v, pc))
         /\ OldAssigned(s, v, pc) = TopAssigned(s, SetOld(s[Len(s)], v, pc))
<1>1. FlagsAssigned(s, v, pc) = TopAssigned(s, SetFlags(s[Len(s)], v, pc))
  BY DEF FlagsAssigned, TopAssigned, SetFlags
<1>2. OldAssigned(s, v, pc) = TopAssigned(s, SetOld(s[Len(s)], v, pc))
  BY DEF OldAssigned, TopAssigned, SetOld
<1> QED BY <1>1, <1>2

LEMMA WithFlags ==
  ASSUME NEW f \in RegFrames, NEW v \in SUBSET Int,
         NEW pc \in {"closure", "read_raw", "write_raw"}, NEW g, g = SetFlags(f, v, pc)
  PROVE  /\ g \in RegFrames /\ g.flags = v /\ g.pc = pc /\ g.proc = f.proc
         /\ g.saved = f.saved /\ g.entry = f.entry /\ g.called = f.called
         /\ g.change = f.change /\ g.old = f.old
BY DEF RegFrames, Places, Pcs, SetFlags

LEMMA WithOld ==
  ASSUME NEW f \in RegFrames, NEW v \in SUBSET Int,
         NEW pc \in {"closure", "read_raw", "write_raw"}, NEW g, g = SetOld(f, v, pc)
  PROVE  /\ g \in RegFrames /\ g.old = v /\ g.pc = pc /\ g.proc = f.proc
         /\ g.saved = f.saved /\ g.entry = f.entry /\ g.called = f.called
         /\ g.change = f.change /\ g.flags = f.flags
BY DEF RegFrames, Places, Pcs, SetOld

\* What a call is about to write has no bits but those of the register.
LEMMA MeantInt ==
  ASSUME RInv, NEW f, MayCall(reg, f), NEW v, v \subseteq Of(reg).known
  PROVE  Apply(f.change, v) \in SUBSET Int /\ Meant(f) \in SUBSET Int
<1>1. reg \in Correct /\ Of(reg).known \subseteq Int /\ read(reg, raw) \subseteq Of(reg).known
  BY KnownInt DEF RInv, read
<1>2. CASE f.proc = "update" /\ reg \notin {"pat", "apic"} /\ MayChange(reg, f.change)
  <2>1. /\ Apply(f.change, v) \subseteq Of(reg).known
        /\ Apply(f.change, read(reg, raw)) \subseteq Of(reg).known
    BY <1>1, <1>2, ChangeKnown
  <2> QED BY <1>1, <1>2, <2>1 DEF Meant
<1>3. CASE /\ f.change.op = "all" /\ f.proc \in {"write", "write_raw"}
           /\ f.change.bits \subseteq Of(reg).known \/ f.change.bits \subseteq 0 .. 63
  <2>1. f.change.bits \in SUBSET Int
    BY <1>1, <1>3
  <2> QED BY <1>3, <2>1 DEF Meant, Apply
<1> QED BY <1>2, <1>3 DEF MayCall, MayWrite

LEMMA ReadInv ==
  ASSUME RInv, Read
  PROVE  RInv'
<1>1. /\ Top.proc = "update" /\ Top.proc \in RegProcs
      /\ stack' = FlagsAssigned(stack, read(reg, raw), "closure")
      /\ interrupt_flag' = interrupt_flag /\ reg' = reg /\ raw' = raw /\ told' = told
      /\ panicked' \in BOOLEAN
  BY DEF Read, At, KeepFlag, RegProcs, FlagsAssigned
<1>2. Top \in RegFrames /\ FrameSays(Top)
  BY <1>1, TopCall
<1>3. read(reg, raw) \in SUBSET Int
  BY KnownInt DEF RInv, read
<1>4. PICK f : f = SetFlags(Top, read(reg, raw), "closure")
  OBVIOUS
<1>5. /\ f \in RegFrames /\ f.flags = read(reg, raw) /\ f.pc = "closure" /\ f.proc = Top.proc
      /\ f.saved = Top.saved /\ f.entry = Top.entry /\ f.called = Top.called
      /\ f.change = Top.change
  BY <1>2, <1>3, <1>4, WithFlags
<1>6. stack' = [stack EXCEPT ![Len(stack)] = f]
  <2>1. stack \in Seq(AllFrames) /\ Len(stack) > 0
    BY TopOK DEF RInv
  <2> QED BY <1>1, <1>4, <2>1, FrameAssigned DEF Top, TopAssigned
<1>7. MayCall(reg, f)
  BY <1>2, <1>5 DEF FrameSays, MayCall
<1> QED BY <1>1, <1>5, <1>6, <1>7, CallGoesOn

LEMMA ModifyInv ==
  ASSUME RInv, Modify
  PROVE  RInv'
<1>1. PICK v : v = Apply(Top.change, Top.flags)
  OBVIOUS
<1>2. /\ Top.proc = "update" /\ Top.pc = "closure" /\ Top.proc \in RegProcs
      /\ interrupt_flag' = interrupt_flag /\ reg' = reg /\ raw' = raw /\ told' = told
      /\ panicked' = panicked
  BY DEF Modify, At, KeepFlag, RegProcs
<1>3. /\ Top \in RegFrames /\ FrameSays(Top) /\ MayCall(reg, Top)
      /\ Top.flags = read(reg, raw) /\ panicked' \in BOOLEAN
  BY <1>2, TopCall DEF FrameSays, RInv
<1>4. v = Meant(Top) /\ v \in SUBSET Int
  BY <1>1, <1>2, <1>3, MeantInt DEF Meant, read
<1>5. PICK f : f = SetFlags(Top, v, "read_raw")
  OBVIOUS
<1>6. /\ f \in RegFrames /\ f.flags = v /\ f.pc = "read_raw" /\ f.proc = Top.proc
      /\ f.saved = Top.saved /\ f.entry = Top.entry /\ f.called = Top.called
      /\ f.change = Top.change
  BY <1>3, <1>4, <1>5, WithFlags
<1>7. stack' = [stack EXCEPT ![Len(stack)] = f]
  <2>1. stack \in Seq(AllFrames) /\ Len(stack) > 0 /\ Len(stack) \in DOMAIN stack
    BY TopOK DEF RInv
  <2>2. stack' = FlagsAssigned(stack, v, "read_raw")
    BY <1>1, <2>1 DEF Modify, Top, FlagsAssigned
  <2> QED BY <1>5, <2>1, <2>2, FrameAssigned DEF Top, TopAssigned
<1>8. MayCall(reg, f) /\ Meant(f) = v
  BY <1>3, <1>4, <1>6 DEF MayCall, Meant
<1> QED BY <1>2, <1>3, <1>6, <1>7, <1>8, CallGoesOn

LEMMA ReadRawInv ==
  ASSUME RInv, ReadRaw
  PROVE  RInv'
<1>1. /\ Top.pc = "read_raw"
      /\ stack' = OldAssigned(stack, OldOf, "write_raw")
      /\ interrupt_flag' = interrupt_flag /\ reg' = reg /\ raw' = raw /\ told' = told
      /\ panicked' = ~Asserts(reg, Top.flags)
  BY DEF ReadRaw, KeepFlag, OldOf, OldAssigned
<1>2. Top.proc \in RegProcs
  <2>1. FrameType(Top) /\ Top \in AllFrames
    BY TopOK DEF RInv
  <2>2. Other(Top.proc)
    BY <1>1, <2>1 DEF FrameType, Pcs, Other, Handlers
  <2> QED BY <2>1, <2>2, RegFrameFields
<1>3. Top \in RegFrames /\ FrameSays(Top)
  BY <1>2, TopCall
<1>4. /\ MayCall(reg, Top) /\ Top.flags = Meant(Top) /\ Top.proc # "write_raw"
  BY <1>1, <1>3 DEF FrameSays
<1>5. OldOf \in SUBSET Int
  BY DEF OldOf, RInv
<1>6. PICK f : f = SetOld(Top, OldOf, "write_raw")
  OBVIOUS
<1>7. /\ f \in RegFrames /\ f.old = OldOf /\ f.pc = "write_raw" /\ f.proc = Top.proc
      /\ f.saved = Top.saved /\ f.entry = Top.entry /\ f.called = Top.called
      /\ f.change = Top.change /\ f.flags = Top.flags
  BY <1>3, <1>5, <1>6, WithOld
<1>8. stack' = [stack EXCEPT ![Len(stack)] = f]
  <2>1. stack \in Seq(AllFrames) /\ Len(stack) > 0
    BY TopOK DEF RInv
  <2> QED BY <1>1, <1>6, <2>1, FrameAssigned DEF Top, TopAssigned
<1>9. MayCall(reg, f) /\ Meant(f) = f.flags
  BY <1>4, <1>7 DEF MayCall, Meant
<1>10. panicked' \in BOOLEAN /\ (panicked' = FALSE => Asserts(reg, f.flags))
  BY <1>1, <1>7
<1> QED BY <1>1, <1>2, <1>7, <1>8, <1>9, <1>10, CallGoesOn

\* When a call is made, no other is under way.
LEMMA NoOther ==
  ASSUME RInv, NEW call, RegCall(call)
  PROVE  /\ InClosure(Top) /\ interrupt_flag = FALSE
         /\ \A i \in 1 .. Len(stack) : ~IsReg(i)
<1>1. PICK n : n = Len(stack)
  OBVIOUS
<1>2. n \in Nat \ {0} /\ FrameOK(Top, interrupt_flag)
  BY <1>1, TopOK DEF RInv
<1>3. InClosure(Top) /\ interrupt_flag = FALSE
  BY <1>2 DEF RegCall, At, InClosure, FrameOK
<1>4. ASSUME NEW i \in 1 .. n, IsReg(i) PROVE FALSE
  <2>1. RegFrameOK(i)
    BY <1>1, <1>4 DEF RInv
  <2>2. i # n
    BY <1>1, <1>3, <1>4 DEF IsReg, RegProcs, InClosure, Top
  <2>3. i + 1 \in 1 .. n /\ i < n /\ (i > 1 => i - 1 \in 1 .. n)
    BY <1>2, <2>2
  <2>4. stack[i].proc = "update"
    BY <1>1, <2>1, <2>3 DEF RegFrameOK, RegCall
  <2>5. PICK j \in i + 1 .. n : stack[j].proc = "irq"
    BY <1>1, <2>4 DEF RegCall
  <2>6. i - 1 \in 1 .. n /\ j \in 1 .. n /\ i - 1 < j /\ InClosure(stack[i - 1])
    BY <1>2, <2>1, <2>3 DEF RegFrameOK
  <2> QED BY <1>1, <2>5, <2>6 DEF RInv, StackInv, Quiet
<1> QED BY <1>1, <1>3, <1>4

LEMMA RegCallInv ==
  ASSUME RInv, NEW call \in Calls(reg), RegCall(call)
  PROVE  RInv'
<1>1. PICK n : n = Len(stack)
  OBVIOUS
<1>2. PICK f : f = CallFrame(call)
  OBVIOUS
<1>3. /\ stack' = Append(stack, f) /\ interrupt_flag' = interrupt_flag
      /\ reg' = reg /\ raw' = raw /\ told' = told /\ panicked' = panicked
  BY <1>2 DEF RegCall, KeepFlag
<1>4. /\ InClosure(Top) /\ interrupt_flag = FALSE
      /\ \A i \in 1 .. n : ~IsReg(i)
  BY <1>1, NoOther
<1>5. MayCall(reg, call) /\ call.change \in Changes /\ call.proc \in RegProcs
  <2>1. reg \in Regs
    BY DEF RInv
  <2>2. MayCall(reg, call)
    BY <2>1, CallsAssumption
  <2>3. call.change \in Changes
    BY <2>1 DEF Changes
  <2> QED BY <2>2, <2>3 DEF MayCall, RegProcs
<1>6. /\ f.proc = call.proc /\ f.change = call.change /\ f.saved = FALSE
      /\ f.entry = interrupt_flag /\ f.called = FALSE /\ f.old = {}
      /\ f.flags = Apply(call.change, {})
      /\ f.proc = "update" => f.pc = "read"
      /\ f.proc = "write" => f.pc = "read_raw"
      /\ f.proc = "write_raw" => f.pc = "write_raw"
  BY <1>2 DEF CallFrame
<1>7. f.flags \in SUBSET Int
  <2>1. {} \subseteq Of(reg).known
    OBVIOUS
  <2> QED BY <1>5, <1>6, <2>1, MeantInt
<1>8. f \in RegFrames
  <2>1. f.pc \in Places \cup {"read_raw", "write_raw"}
    BY <1>5, <1>6 DEF RegProcs, Places, Pcs
  <2>2. f = [proc |-> f.proc, pc |-> f.pc, saved |-> f.saved, entry |-> f.entry,
             called |-> f.called, change |-> f.change, flags |-> f.flags, old |-> f.old]
    BY <1>2 DEF CallFrame
  <2> QED BY <1>4, <1>5, <1>6, <1>7, <2>1, <2>2 DEF RegFrames
<1>9. FrameType(f) /\ FrameOK(f, FALSE) /\ f.proc # "main" /\ LeftBy(f) = FALSE /\ f.proc # "irq"
  BY <1>4, <1>5, <1>6 DEF FrameType, Pcs, FrameOK, Handlers, LeftBy, RegProcs
<1>10. StackInv(AllFrames, stack', interrupt_flag')
  <2>1. f \in AllFrames /\ Touched(stack)
    BY <1>8 DEF AllFrames, Touched
  <2>2. /\ interrupt_flag' \in BOOLEAN /\ LeftBy(f) = interrupt_flag
        /\ FrameOK(f, interrupt_flag') /\ StaysQuiet(f, interrupt_flag, interrupt_flag')
    BY <1>3, <1>4, <1>9 DEF StaysQuiet
  <2>3. StackInv(AllFrames, stack, interrupt_flag)
    BY DEF RInv
  <2> QED BY <1>3, <1>9, <2>1, <2>2, <2>3, AllFrameSet, CallInv
<1>11. n \in Nat \ {0} /\ stack \in Seq(AllFrames)
  BY <1>1, TopOK DEF RInv
<1>12. /\ Len(stack') = n + 1 /\ stack'[n + 1] = f
       /\ \A i \in 1 .. n : stack'[i] = stack[i]
  BY <1>1, <1>3, <1>8, <1>11, AppendProperties DEF AllFrames
<1>13. \A i \in 1 .. n + 1 : stack'[i].proc \in RegProcs => i = n + 1
  BY <1>4, <1>11, <1>12 DEF IsReg
<1>14. RegFrameOK(n + 1)'
  <2>1. n + 1 > 1 /\ (n + 1) - 1 = n /\ ~(n + 1 < Len(stack')) /\ n \in 1 .. n
    BY <1>11, <1>12
  <2>2. InClosure(stack'[n])
    BY <1>1, <1>4, <1>12, <2>1 DEF Top
  <2>3. MayCall(reg, f)
    BY <1>5, <1>6 DEF MayCall
  <2>4. /\ f.proc = "write" => f.pc \in {"read_raw", "write_raw"}
        /\ f.proc = "write_raw" => f.pc = "write_raw"
        /\ f.pc # "closure"
        /\ ~(f.pc = "write_raw" /\ f.proc # "write_raw")
    BY <1>5, <1>6 DEF RegProcs
  <2>5. f.pc \in {"read_raw", "write_raw"} => f.flags = Meant(f)
    <3>1. f.pc \in {"read_raw", "write_raw"} => f.proc \in {"write", "write_raw"}
      BY <1>5, <1>6 DEF RegProcs
    <3>2. f.proc \in {"write", "write_raw"} => f.change.op = "all"
      BY <2>3 DEF MayCall
    <3> QED BY <1>6, <3>1, <3>2 DEF Meant, Apply
  <2>6. FrameSays(f)
    BY <2>3, <2>4, <2>5 DEF FrameSays
  <2>7. FrameSays(f)'
    BY <1>3, <2>6 DEF FrameSays, Meant, OldOf, read, Asserts
  <2> QED BY <1>12, <2>1, <2>2, <2>7 DEF RegFrameOK, InClosure, FrameSays, Meant, OldOf
<1>15. Agrees(reg, raw, told)'
  BY <1>3 DEF RInv, Agrees
<1>16. reg' \in Regs \cap Correct /\ raw' \in SUBSET Int /\ panicked' \in BOOLEAN
  BY <1>3 DEF RInv
<1> QED BY <1>10, <1>12, <1>13, <1>14, <1>15, <1>16 DEF RInv, IsReg

LEMMA WriteRawInv ==
  ASSUME RInv, WriteRaw
  PROVE  RInv'
<1>1. /\ Top.pc = "write_raw" /\ panicked = FALSE
      /\ raw' = IF Top.proc = "write_raw" THEN Top.flags ELSE NewValue(Top.old, Top.flags)
      /\ told' = FieldsAfter(Top) /\ stack' = Pop
      /\ interrupt_flag' = interrupt_flag /\ reg' = reg /\ panicked' = panicked
  BY DEF WriteRaw, KeepFlag, RInv
<1>2. Top.proc \in RegProcs
  <2>1. FrameType(Top) /\ Top \in AllFrames
    BY TopOK DEF RInv
  <2>2. Other(Top.proc)
    BY <1>1, <2>1 DEF FrameType, Pcs, Other, Handlers
  <2> QED BY <2>1, <2>2, RegFrameFields
<1>3. PICK n : n = Len(stack)
  OBVIOUS
<1>4. /\ Top \in RegFrames /\ FrameSays(Top) /\ interrupt_flag = FALSE /\ Top.entry = FALSE
      /\ Top.proc \notin Handlers \cup {"main"} /\ n > 1
      /\ \A i \in 1 .. n : IsReg(i) => i = n
  BY <1>2, <1>3, TopCall
<1>5. /\ MayCall(reg, Top) /\ Top.flags = Meant(Top)
      /\ Top.proc # "write_raw" => Top.old = OldOf /\ Asserts(reg, Top.flags)
  BY <1>1, <1>4 DEF FrameSays
<1>6. raw' = Result(Top)
  BY <1>1, <1>5 DEF Result
<1>7. reg \in Correct /\ Agrees(reg, raw, told)
  BY DEF RInv
<1>8. /\ Agrees(reg, Result(Top), FieldsAfter(Top))
      /\ Top.proc # "write_raw" => read(reg, Result(Top)) = Meant(Top)
  BY <1>5, <1>7, Written
<1>9. Agrees(reg', raw', told')
  BY <1>1, <1>6, <1>8
<1>10. raw' \in SUBSET Int
  <2>1. Meant(Top) \in SUBSET Int /\ OldOf \in SUBSET Int
    <3>1. {} \subseteq Of(reg).known
      OBVIOUS
    <3> QED BY <1>5, <3>1, MeantInt DEF OldOf, RInv
  <2> QED BY <1>6, <2>1 DEF Result, NewValue
<1>11. StackInv(AllFrames, stack', interrupt_flag')
  <2>1. LeftBy(Top) = interrupt_flag'
    BY <1>1, <1>4 DEF LeftBy
  <2>2. Top.proc # "main" /\ StackInv(AllFrames, stack, interrupt_flag)
    BY <1>4 DEF RInv
  <2> QED BY <1>1, <2>1, <2>2, PopInv DEF Pop, Top
<1>12. Len(stack') = n - 1 /\ \A i \in 1 .. n - 1 : stack'[i] = stack[i]
  BY <1>1, <1>3, <1>4, PopBelow DEF SameBelow
<1>13. \A i \in 1 .. Len(stack') : stack'[i].proc \notin RegProcs
  <2>1. n \in Nat
    BY <1>3, TopOK DEF RInv
  <2>2. \A i \in 1 .. n - 1 : i \in 1 .. n /\ i # n
    BY <2>1
  <2> QED BY <1>4, <1>12, <2>2 DEF IsReg
<1>14. reg' \in Regs \cap Correct /\ panicked' \in BOOLEAN
  BY <1>1 DEF RInv
<1> QED BY <1>9, <1>10, <1>11, <1>13, <1>14 DEF RInv, IsReg, Agrees

(***************************************************************************)
(* The initial values.                                                     *)
(***************************************************************************)
LEMMA InitialInt == \A r \in Correct : InitialRaw(r) \in SUBSET Int
<1>1. \A r \in Correct : r # "pat" => InitialRaw(r) \in SUBSET Int
  BY DEF Correct, InitialRaw, X87, SSE, AVX
<1>2. InitialRaw("pat") \in SUBSET Int
  BY DEF InitialRaw, pat_write, PatIndex
<1> QED BY <1>1, <1>2

LEMMA PatWritten ==
  ASSUME NEW table \in [PatIndex -> PatMemoryType]
  PROVE  pat_read(pat_write(table)) = table
<1> DEFINE v == pat_write(table)
<1>1. ASSUME NEW i \in PatIndex, NEW b \in 0 .. 2
      PROVE  8 * i + b \in v <=> (table[i] \div 2 ^ b) % 2 = 1
  <2>1. ASSUME 8 * i + b \in v PROVE (table[i] \div 2 ^ b) % 2 = 1
    <3>1. PICK j \in PatIndex, c \in 0 .. 2 : /\ 8 * i + b = 8 * j + c
                                              /\ (table[j] \div 2 ^ c) % 2 = 1
      BY <2>1 DEF pat_write
    <3>2. i = j /\ b = c
      BY <3>1 DEF PatIndex
    <3> QED BY <3>1, <3>2
  <2>2. ASSUME (table[i] \div 2 ^ b) % 2 = 1 PROVE 8 * i + b \in v
    BY <2>2 DEF pat_write
  <2> QED BY <2>1, <2>2
<1> HIDE DEF v
<1>2. ASSUME NEW i \in PatIndex PROVE pat_read(v)[i] = table[i]
  <2>1. /\ 8 * i \in v <=> (table[i] \div 1) % 2 = 1
        /\ 8 * i + 1 \in v <=> (table[i] \div 2) % 2 = 1
        /\ 8 * i + 2 \in v <=> (table[i] \div 4) % 2 = 1
    <3>1. 2 ^ 0 = 1 /\ 2 ^ 1 = 2 /\ 2 ^ 2 = 4 /\ 8 * i + 0 = 8 * i
      BY DEF PatIndex
    <3>2. 0 \in 0 .. 2 /\ 1 \in 0 .. 2 /\ 2 \in 0 .. 2
      OBVIOUS
    <3> QED BY <1>1, <3>1, <3>2
  <2>2. table[i] \in {0, 1, 4, 5, 6, 7}
    BY DEF PatMemoryType
  <2>3. pat_read(v)[i] = (IF 8 * i \in v THEN 1 ELSE 0) + (IF 8 * i + 1 \in v THEN 2 ELSE 0)
                         + (IF 8 * i + 2 \in v THEN 4 ELSE 0)
    BY DEF pat_read
  <2> QED BY <2>1, <2>2, <2>3
<1>3. pat_read(v) = [i \in PatIndex |-> pat_read(v)[i]]
  BY DEF pat_read
<1> QED BY <1>2, <1>3 DEF v

LEMMA InitialReadable == \A r \in Correct : Readable(r, InitialRaw(r))
<1>1. ASSUME NEW r \in Correct, r \notin {"pat", "ucet", "scet", "sfmask"}
      PROVE  Readable(r, InitialRaw(r))
  BY <1>1 DEF Readable
<1>2. ASSUME NEW r \in {"ucet", "scet", "sfmask"} PROVE Readable(r, InitialRaw(r))
  <2>1. CASE r = "sfmask"
    BY <2>1 DEF Readable, InitialRaw, RFlags
  <2>2. CASE r \in {"ucet", "scet"}
    <3>1. InitialRaw(r) = {}
      BY <2>2 DEF InitialRaw
    <3> QED BY <2>2, <3>1 DEF Readable
  <2> QED BY <1>2, <2>1, <2>2
<1>3. Readable("pat", InitialRaw("pat"))
  <2>1. PICK table : table = [i \in PatIndex |-> <<6, 4, 7, 0>>[(i % 4) + 1]]
    OBVIOUS
  <2>2. table \in [PatIndex -> PatMemoryType]
    <3>1. ASSUME NEW i \in PatIndex PROVE <<6, 4, 7, 0>>[(i % 4) + 1] \in PatMemoryType
      <4>1. (i % 4) + 1 \in {1, 2, 3, 4}
        BY DEF PatIndex
      <4> QED BY <4>1 DEF PatMemoryType
    <3> QED BY <2>1, <3>1
  <2>3. InitialRaw("pat") = pat_write(table)
    BY <2>1 DEF InitialRaw
  <2>4. pat_read(pat_write(table)) = table
    BY <2>2, PatWritten
  <2>5. pat_write(table) \subseteq 0 .. 63
    BY DEF pat_write, PatIndex
  <2>6. MayWrite("pat", pat_write(table))
    BY <2>2, <2>4, <2>5 DEF MayWrite, Of, Pat
  <2> QED BY <2>3, <2>6, PatReadable
<1> QED BY <1>1, <1>2, <1>3 DEF Correct

LEMMA RegInitInv ==
  ASSUME "apic" \notin Regs, RegInit
  PROVE  RInv
<1>1. Init /\ reg \in Regs /\ raw = InitialRaw(reg) /\ told = Fields(reg, raw) /\ panicked = FALSE
  BY DEF RegInit
<1>2. reg \in Correct
  BY <1>1, CallsAssumption DEF Correct
<1>3. StackInv(AllFrames, stack, interrupt_flag)
  <2>1. Frame("main", "loop", FALSE, TRUE) \in AllFrames
    BY DEF AllFrames, PlainFrames, Frame, Places, Pcs
  <2> QED BY <1>1, <2>1, InitInv
<1>4. \A i \in 1 .. Len(stack) : ~IsReg(i)
  BY <1>1 DEF Init, Frame, IsReg, RegProcs
<1>5. raw \in SUBSET Int /\ Readable(reg, raw)
  BY <1>1, <1>2, InitialInt, InitialReadable
<1>6. Agrees(reg, raw, told)
  BY <1>1, <1>5 DEF Agrees, Fields
<1> QED BY <1>1, <1>2, <1>3, <1>4, <1>5, <1>6 DEF RInv

LEMMA RegNextInv ==
  ASSUME RInv, [RegNext]_allVars
  PROVE  RInv'
<1>1. CASE Next /\ UNCHANGED regVars
  BY <1>1, NextKeeps
<1>2. CASE UNCHANGED allVars
  <2>1. UNCHANGED vars /\ UNCHANGED regVars
    BY <1>2 DEF allVars
  <2> QED BY <2>1, NextKeeps
<1>3. CASE \E call \in Calls(reg) : RegCall(call)
  BY <1>3, RegCallInv
<1> QED BY <1>1, <1>2, <1>3, ReadInv, ModifyInv, ReadRawInv, WriteRawInv DEF RegNext

LEMMA RegCorrect ==
  ASSUME "apic" \notin Regs
  PROVE  RegSpec => []RInv
<1>1. RegInit => RInv
  BY RegInitInv
<1>2. RInv /\ [RegNext]_allVars => RInv'
  BY RegNextInv
<1> QED BY <1>1, <1>2, PTL DEF RegSpec

\* Of every register but IA32_APIC_BASE, read() answers what the calls of write, write_raw
\* and update made of it one after the other, and never panics: no update of a handler is
\* lost, whatever calls of without_interrupts, handlers and NMIs come between the
\* instructions of a call.
THEOREM ReadsCorrect ==
  ASSUME "apic" \notin Regs
  PROVE  RegSpec => []ReadsTellWrites
<1>1. RInv => ReadsTellWrites
  BY DEF RInv, Agrees, ReadsTellWrites
<1> QED BY <1>1, RegCorrect, PTL

\* write and update of every register but IA32_APIC_BASE keep the bits that the types of
\* the code do not name, interrupted or not.
THEOREM ReservedCorrect ==
  ASSUME "apic" \notin Regs
  PROVE  RegSpec => []ReservedKept
<1>1. RInv => ReservedKept
  BY DEF RInv, Agrees, ReservedKept
<1> QED BY <1>1, RegCorrect, PTL
=============================================================================
