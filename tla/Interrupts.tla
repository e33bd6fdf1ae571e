----------------------------- MODULE Interrupts -----------------------------
(***************************************************************************)
(* The interrupt flag of one processor (instructions/interrupts.rs):       *)
(* without_interrupts and enable_and_hlt, instruction by instruction, with *)
(* interrupts that arrive between any two of them.                         *)
(*                                                                         *)
(* The kernel around them is external: the idle loop that the              *)
(* documentation of enable_and_hlt gives, and handlers that leave work for *)
(* it.  All of them may call without_interrupts, also from a closure of    *)
(* without_interrupts.                                                     *)
(***************************************************************************)
EXTENDS Integers, Sequences

CONSTANTS
  MaxDepth,        \* calls are made on a stack of less than MaxDepth frames
  MaxInterrupts,   \* maskable interrupts that arrive
  MaxNmis          \* non-maskable ones

ASSUME InterruptsAssumption == {MaxDepth, MaxInterrupts, MaxNmis} \subseteq Nat

VARIABLES
  interrupt_flag,  \* RFLAGS.IF
  shadow,          \* the last instruction was an sti that set the flag
  stack,           \* the running code on top of what it interrupted or was called by
  pending,         \* maskable interrupts that wait
  raised,          \* how many have arrived
  nmis,            \* NMIs that have arrived
  work             \* a handler left something to do

vars == <<interrupt_flag, shadow, stack, pending, raised, nmis, work>>

\* saved: the local of without_interrupts, or the flag on a handler's stack frame;
\* entry: history, the flag when the frame was made; called: it has made its call.
Frame(proc, pc, saved, entry) ==
  [proc |-> proc, pc |-> pc, saved |-> saved, entry |-> entry, called |-> FALSE]
Top == stack[Len(stack)]
Pop == SubSeq(stack, 1, Len(stack) - 1)
At(proc, pc) == Top.proc = proc /\ Top.pc = pc
Goto(pc) == stack' = [stack EXCEPT ![Len(stack)].pc = pc]

(***************************************************************************)
(* The processor: an interrupt that waits is taken before the next         *)
(* instruction, if the flag is set and no sti has just set it.             *)
(***************************************************************************)
Deliverable == pending > 0 /\ interrupt_flag /\ ~shadow
CanExecute == ~Deliverable /\ UNCHANGED <<pending, raised, nmis>>

enable == interrupt_flag' = TRUE /\ shadow' = ~interrupt_flag
disable == interrupt_flag' = FALSE /\ shadow' = FALSE
KeepFlag == shadow' = FALSE /\ UNCHANGED interrupt_flag

\* What is interrupted goes on behind its hlt.
Interrupted(pcs) == IF Top.pc \in pcs THEN [stack EXCEPT ![Len(stack)].pc = "loop"] ELSE stack

Raise ==
  /\ raised < MaxInterrupts
  /\ raised' = raised + 1 /\ pending' = pending + 1
  /\ UNCHANGED <<interrupt_flag, shadow, stack, nmis, work>>

\* An entry of the IDT disables interrupts for its handler or not.
Deliver ==
  /\ Deliverable
  /\ pending' = pending - 1
  /\ \E keeps \in BOOLEAN : interrupt_flag' = keeps
  /\ shadow' = FALSE
  /\ stack' = Append(Interrupted({"asleep"}), Frame("irq", "run", TRUE, TRUE))
  /\ UNCHANGED <<raised, nmis, work>>

\* An NMI minds neither the flag nor the shadow; another has to wait for its
\* iret.  Its handler skips an hlt it finds itself in front of, as the
\* documentation of enable_and_hlt recommends.
Nmi ==
  /\ nmis < MaxNmis
  /\ \A i \in 1 .. Len(stack) : stack[i].proc # "nmi"
  /\ nmis' = nmis + 1
  /\ disable
  /\ stack' = Append(Interrupted({"asleep", "hlt"}),
                     Frame("nmi", "run", interrupt_flag, interrupt_flag))
  /\ UNCHANGED <<pending, raised, work>>

\* The handler of an NMI leaves no work: the flag could not keep it away from
\* the code between MainCheck and hlt.
HandlerWork ==
  /\ CanExecute /\ Top.pc = "run"
  /\ work' = (work \/ Top.proc = "irq")
  /\ Goto("iret")
  /\ KeepFlag
Iret ==
  /\ CanExecute /\ Top.pc = "iret"
  /\ interrupt_flag' = Top.saved /\ shadow' = FALSE
  /\ stack' = Pop
  /\ UNCHANGED work

(***************************************************************************)
(* without_interrupts.                                                     *)
(***************************************************************************)
Call ==
  /\ CanExecute /\ Len(stack) < MaxDepth
  /\ Top.pc \in {"loop", "check", "busy", "run", "closure"} /\ ~Top.called
  /\ stack' = Append([stack EXCEPT ![Len(stack)].called = TRUE],
                     Frame("without_interrupts", "read", FALSE, interrupt_flag))
  /\ KeepFlag /\ UNCHANGED work

\* saved_intpt_flag = are_enabled()
ReadFlag ==
  /\ CanExecute /\ At("without_interrupts", "read")
  /\ stack' = [stack EXCEPT ![Len(stack)].saved = interrupt_flag,
                            ![Len(stack)].pc = IF interrupt_flag THEN "cli" ELSE "closure"]
  /\ KeepFlag /\ UNCHANGED work

\* Mutant: interrupts stay as they are.
Cli_Missing ==
  /\ CanExecute /\ At("without_interrupts", "cli")
  /\ KeepFlag
  /\ Goto("closure") /\ UNCHANGED work

Cli ==
  /\ CanExecute /\ At("without_interrupts", "cli")
  /\ disable
  /\ Goto("closure") /\ UNCHANGED work

\* Mutant: interrupts are enabled whatever they were.
AfterClosure_Always == "sti"

\* Where the code goes after the closure.
AfterClosure == IF Top.saved THEN "sti" ELSE "return"

\* ret = f()
Closure ==
  /\ CanExecute /\ At("without_interrupts", "closure")
  /\ Goto(AfterClosure)
  /\ KeepFlag /\ UNCHANGED work
Sti ==
  /\ CanExecute /\ At("without_interrupts", "sti")
  /\ enable
  /\ Goto("return") /\ UNCHANGED work
Return ==
  /\ CanExecute /\ At("without_interrupts", "return")
  /\ stack' = Pop
  /\ KeepFlag /\ UNCHANGED work

(***************************************************************************)
(* enable_and_hlt, and the idle loop around it.                            *)
(***************************************************************************)
MainDisable ==
  /\ CanExecute /\ At("main", "loop")
  /\ disable
  /\ stack' = [stack EXCEPT ![1].pc = "check", ![1].called = FALSE]
  /\ UNCHANGED work
\* if nothing_to_do()
MainCheck ==
  /\ CanExecute /\ At("main", "check")
  /\ Goto(IF work THEN "busy" ELSE "enable_and_hlt")
  /\ KeepFlag /\ UNCHANGED work
MainTake ==
  /\ CanExecute /\ At("main", "busy")
  /\ work' = FALSE
  /\ Goto("enable")
  /\ KeepFlag
MainEnable ==
  /\ CanExecute /\ At("main", "enable")
  /\ enable
  /\ Goto("loop") /\ UNCHANGED work

\* Mutant: another instruction between sti and hlt has the shadow.
EnableAndHlt_Apart ==
  /\ CanExecute /\ At("main", "enable_and_hlt")
  /\ interrupt_flag' = TRUE /\ shadow' = FALSE
  /\ Goto("hlt") /\ UNCHANGED work

EnableAndHlt ==
  /\ CanExecute /\ At("main", "enable_and_hlt")
  /\ enable
  /\ Goto("hlt") /\ UNCHANGED work
Hlt ==
  /\ CanExecute /\ At("main", "hlt")
  /\ Goto("asleep")
  /\ KeepFlag /\ UNCHANGED work

Init ==
  /\ interrupt_flag = TRUE /\ shadow = FALSE /\ work = FALSE
  /\ pending = 0 /\ raised = 0 /\ nmis = 0
  /\ stack = <<Frame("main", "loop", FALSE, TRUE)>>

Instruction ==
  \/ HandlerWork \/ Iret
  \/ Call \/ ReadFlag \/ Cli \/ Closure \/ Sti \/ Return
  \/ MainDisable \/ MainCheck \/ MainTake \/ MainEnable \/ EnableAndHlt \/ Hlt
Next == Raise \/ Deliver \/ Nmi \/ Instruction

\* The processor goes on; nothing is assumed of the arrival of interrupts.
Spec == Init /\ [][Next]_vars /\ WF_vars(Deliver) /\ WF_vars(Instruction)

(***************************************************************************)
(* Properties.                                                             *)
(***************************************************************************)
\* "do `f` while interrupts are disabled": no handler of a maskable interrupt ever
\* runs on top of a closure of without_interrupts, however deep the calls and
\* handlers are nested and wherever the flag was read.
ClosureUndisturbed ==
  \A i, j \in 1 .. Len(stack) :
    i < j /\ stack[i].proc = "without_interrupts" /\ stack[i].pc = "closure"
      => stack[j].proc # "irq"

\* "interrupts are enabling again if they were enabled before", and only then:
\* without_interrupts leaves the flag as it was when it was called, even if a
\* handler ran between the call, the read of the flag and the cli.
FlagRestored == At("without_interrupts", "return") => interrupt_flag = Top.entry

\* enable_and_hlt is there "to put the CPU to sleep without missing interrupts
\* that occur immediately before the `hlt`": work that a handler left is always
\* taken up, even if no other interrupt arrives.
WorkGetsDone == work ~> ~work
=============================================================================
