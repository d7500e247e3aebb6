-------------------------- MODULE KernelInterrupts --------------------------
(***************************************************************************)
(* The running kernel: main (start, kernel_init, hlt_loop), the interrupt  *)
(* and exception handlers, the spin locks they share, the scratch-register *)
(* wrappers and the 8259 PIC.                                              *)
(*                                                                         *)
(* One CPU runs a stack of contexts: main at the bottom, each interrupted  *)
(* context below the handler that interrupted it.  What a context still    *)
(* has to do is a sequence of operations, each one atomic for the CPU; an  *)
(* interrupt can arrive between any two while the flag IF is set.          *)
(***************************************************************************)
EXTENDS Integers, Sequences, FiniteSets, Functions, FiniteSetsExt

CONSTANTS
  Lines,      \* the lines that devices raise: 0 to 7 of the master PIC, 8 to 15 of the slave
  Unmasked,   \* the ones the mask, as the BIOS left it, lets through
  MaxRaised   \* bound: how often a device raises its line

Cascade == 2
SlaveLines == 8 .. 15

ASSUME LinesAssumption ==
  Lines \subseteq 0 .. 15 \ {Cascade} /\ Unmasked \subseteq Lines /\ MaxRaised \in Nat

VARIABLES
  contexts,   \* [ops, line, saved, flag] of each context, the running one last
  IF_,        \* RFLAGS.IF
  owner,      \* depth of the context that holds each lock, 0 when it is free
  irr,        \* PICs: lines requested
  isr,        \* master PIC: inputs in service
  slave_isr,  \* slave PIC: lines in service
  remapped,   \* PICs: vectors moved from 8 to MASTER_PIC_OFFSET
  cs,         \* code segment loaded: the boot loader's or the kernel's
  gates,      \* code segment in the IDT's gates, "none" before it is loaded
  regs,       \* whose value each scratch register holds
  message,    \* depth of the context whose message is half sent, or 0
  raised      \* how often each device raised its line

vars == <<contexts, IF_, owner, irr, isr, slave_isr, remapped, cs, gates, regs, message, raised>>

Locks == {"SERIAL", "PICS", "ALLOCATOR"}
Timer == 0
Keyboard == 1
NoLine == 16
depth == Len(contexts)
running == contexts[depth]

-----------------------------------------------------------------------------
(* Programs.  Code that touches no shared state is left out. *)

Op(name) == <<name, "">>
Lock(l) == <<"lock", l>>
Unlock(l) == <<"unlock", l>>

(* _print: the guard lives until the whole message is written. *)
print == <<Lock("SERIAL"), Op("send_first"), Op("send_last"), Unlock("SERIAL")>>

(* PICS.lock().notify_end_of_interrupt(..) *)
Notify == <<Lock("PICS"), Op("eoi"), Unlock("PICS")>>

(* Mutant: the handler returns without telling the PIC. *)
timer_interrupt_handler_silent == print \o <<Op("iretq")>>

timer_interrupt_handler == print \o Notify \o <<Op("iretq")>>

(* Mutant: the handler loops like those of the fatal exceptions. *)
keyboard_interrupt_handler_loop == print \o Notify \o <<Op("loop")>>

keyboard_interrupt_handler == print \o Notify \o <<Op("iretq")>>

(* The exception handlers that report and return, and those that report    *)
(* and never return.                                                       *)
reporting_handler == print \o <<Op("iretq")>>
fatal_handler == print \o <<Op("loop")>>

double_fault_handler == print \o print \o <<Op("loop")>>

(* The gates that are present.  The interrupt of a gate that is not        *)
(* present raises the exception SegmentNotPresent instead.                 *)
MASTER_PIC_OFFSET == 32
Breakpoint == 3
SegmentNotPresent == 11
IDT ==
  [v \in {0, 1, 2, Breakpoint, 6, 7, 8, 10, SegmentNotPresent, 12, 14, 17,
          MASTER_PIC_OFFSET + Timer, MASTER_PIC_OFFSET + Keyboard} |->
     CASE v \in {1, 2, Breakpoint, 7} -> reporting_handler
       [] v = 8 -> double_fault_handler
       [] v = MASTER_PIC_OFFSET + Timer -> timer_interrupt_handler
       [] v = MASTER_PIC_OFFSET + Keyboard -> keyboard_interrupt_handler
       [] OTHER -> fatal_handler]

HandlerOf(v) == IDT[IF v \in DOMAIN IDT THEN v ELSE SegmentNotPresent]

(* Mutant: the IDT is loaded before the segment registers. *)
init_early_idt ==
  <<Op("load_idt"), Op("load_gdt")>> \o <<Lock("PICS"), Op("remap"), Unlock("PICS")>>
    \o <<Op("sti")>>

(* Mutant: the guard of PICS is bound to a name and lives on. *)
init_guard_alive ==
  <<Op("load_gdt")>> \o print \o <<Op("load_idt")>>
    \o <<Lock("PICS"), Op("remap"), Op("sti"), Unlock("PICS")>>

(* interrupts::init: GDT and segment registers, IDT, PIC, sti.  IDT.load() *)
(* prints its address.                                                     *)
init ==
  <<Op("load_gdt")>> \o print \o <<Op("load_idt")>>
    \o <<Lock("PICS"), Op("remap"), Unlock("PICS")>> \o <<Op("sti")>>

(* start: kernel_init with init_heap, the two self tests, int3, hlt_loop.  *)
(* The first test prints while it holds the allocator.  Prints in a row,   *)
(* and uses of the allocator in a row, stand as one.                       *)
start ==
  print \o init
    \o <<Lock("ALLOCATOR"), Unlock("ALLOCATOR")>> \o print
    \o <<Lock("ALLOCATOR")>> \o print \o <<Unlock("ALLOCATOR")>>
    \o <<Lock("ALLOCATOR"), Unlock("ALLOCATOR")>> \o print
    \o <<Op("int3")>> \o <<Op("hlt")>>

-----------------------------------------------------------------------------
(* push_scratch_registers and pop_scratch_registers. *)

PushOrder == <<"rax", "rcx", "rdx", "rsi", "rdi", "r8", "r9", "r10", "r11">>
PopOrder  == <<"rax", "rcx", "rdx", "rsi", "rdi", "r8", "r9", "r10", "r11">>
ScratchRegisters == Range(PushOrder)

Pushed(r) == [i \in 1 .. Len(PushOrder) |-> r[PushOrder[i]]]

(* The first pop takes what was pushed last. *)
Popped(saved) ==
  [r \in ScratchRegisters |->
     LET i == CHOOSE i \in 1 .. Len(PopOrder) : PopOrder[i] = r
     IN  saved[Len(saved) + 1 - i]]

-----------------------------------------------------------------------------
Init ==
  /\ contexts = <<[ops |-> start, line |-> NoLine, saved |-> << >>, flag |-> FALSE]>>
  /\ IF_ = FALSE
  /\ owner = [l \in Locks |-> 0]
  /\ irr = {}
  /\ isr = {} /\ slave_isr = {}
  /\ remapped = FALSE
  /\ cs = "boot"
  /\ gates = "none"
  /\ regs = [r \in ScratchRegisters |-> r]
  /\ message = 0
  /\ raised = [l \in Lines |-> 0]

(* The running context is about to do op; next is its program after it. *)
At(op) == Head(running.ops) = op
next == [contexts EXCEPT ![depth].ops = Tail(@)]

(* Mutant: lock takes the lock whoever holds it. *)
lock_unchecked(l) ==
  /\ At(Lock(l))
  /\ owner' = [owner EXCEPT ![l] = depth]
  /\ contexts' = next
  /\ UNCHANGED <<IF_, irr, isr, slave_isr, remapped, cs, gates, regs, message, raised>>

(* Mutex::lock: the compare_exchange succeeds. *)
lock(l) ==
  /\ At(Lock(l))
  /\ owner[l] = 0
  /\ owner' = [owner EXCEPT ![l] = depth]
  /\ contexts' = next
  /\ UNCHANGED <<IF_, irr, isr, slave_isr, remapped, cs, gates, regs, message, raised>>

(* Mutex::lock: the lock is taken, the loop goes round. *)
spin(l) == At(Lock(l)) /\ owner[l] # 0 /\ UNCHANGED vars

(* MutexGuard::drop. *)
unlock(l) ==
  /\ At(Unlock(l))
  /\ owner' = [owner EXCEPT ![l] = 0]
  /\ contexts' = next
  /\ UNCHANGED <<IF_, irr, isr, slave_isr, remapped, cs, gates, regs, message, raised>>

(* SerialPort::write_str, the first and the last byte of a message. *)
send ==
  /\ \/ At(Op("send_first")) /\ message' = depth
     \/ At(Op("send_last")) /\ message' = 0
  /\ contexts' = next
  /\ UNCHANGED <<IF_, owner, irr, isr, slave_isr, remapped, cs, gates, regs, raised>>

(* A non-specific EOI: the PIC ends the line in service that has the       *)
(* highest priority.                                                       *)
EndOfInterrupt(lines) == IF lines = {} THEN {} ELSE lines \ {Min(lines)}

(* The vector of a line, which the handlers of the two lines pass on. *)
as_remapped_idt_number(line) == line + MASTER_PIC_OFFSET

(* ChainedPics::notify_end_of_interrupt.  Its test for a line of the slave *)
(* gets a vector, so that the slave is always told too.                    *)
eoi ==
  /\ At(Op("eoi"))
  /\ slave_isr' = IF as_remapped_idt_number(running.line) >= 8 THEN EndOfInterrupt(slave_isr)
                  ELSE slave_isr
  /\ isr' = EndOfInterrupt(isr)
  /\ contexts' = next
  /\ UNCHANGED <<IF_, owner, irr, remapped, cs, gates, regs, message, raised>>

(* GDT.0.load() and the writes to the segment registers. *)
load_gdt ==
  /\ At(Op("load_gdt"))
  /\ cs' = "kernel"
  /\ contexts' = next
  /\ UNCHANGED <<IF_, owner, irr, isr, slave_isr, remapped, gates, regs, message, raised>>

(* IDT.load(): the first use of the lazy IDT builds it, and each gate gets *)
(* the code segment loaded at that time.                                   *)
load_idt ==
  /\ At(Op("load_idt"))
  /\ gates' = cs
  /\ contexts' = next
  /\ UNCHANGED <<IF_, owner, irr, isr, slave_isr, remapped, cs, regs, message, raised>>

(* ChainedPics::init: the initialisation words reset both PICs. *)
remap ==
  /\ At(Op("remap"))
  /\ remapped' = TRUE
  /\ irr' = {}
  /\ isr' = {} /\ slave_isr' = {}
  /\ contexts' = next
  /\ UNCHANGED <<IF_, owner, cs, gates, regs, message, raised>>

(* interrupts::enable. *)
sti ==
  /\ At(Op("sti"))
  /\ IF_' = TRUE
  /\ contexts' = next
  /\ UNCHANGED <<owner, irr, isr, slave_isr, remapped, cs, gates, regs, message, raised>>

(* hlt, and the loop {} of a handler that never returns. *)
wait == (At(Op("hlt")) \/ At(Op("loop"))) /\ UNCHANGED vars

(* Mutant: a trap gate, interrupts stay enabled in the handler. *)
enter_trap_gate(below, handler, line) ==
  /\ contexts' = Append(below,
       [ops |-> handler, line |-> line, saved |-> Pushed(regs), flag |-> IF_])
  /\ IF_' = IF_
  /\ regs' = [r \in ScratchRegisters |-> "handler"]

(* Through an interrupt gate: the CPU clears IF, the wrapper saves the     *)
(* scratch registers, the handler uses them.                               *)
enter(below, handler, line) ==
  /\ contexts' = Append(below,
       [ops |-> handler, line |-> line, saved |-> Pushed(regs), flag |-> IF_])
  /\ IF_' = FALSE
  /\ regs' = [r \in ScratchRegisters |-> "handler"]

(* int3 in main. *)
int3 ==
  /\ At(Op("int3"))
  /\ enter(next, HandlerOf(Breakpoint), NoLine)
  /\ UNCHANGED <<owner, irr, isr, slave_isr, remapped, cs, gates, message, raised>>

(* Before the remapping the master's vectors are those of exceptions;      *)
(* SLAVE_PIC_OFFSET is MASTER_PIC_OFFSET + 8.                              *)
vector(line) ==
  line + (IF remapped THEN MASTER_PIC_OFFSET ELSE IF line \in SlaveLines THEN 112 - 8 ELSE 8)

(* The master's input for a line, and its priority before another line. *)
Input(line) == IF line \in SlaveLines THEN Cascade ELSE line
Before(line, l) == Input(line) < Input(l) \/ (Input(line) = Input(l) /\ line < l)

(* The PICs deliver the line of the highest priority that is requested,    *)
(* unmasked and above all lines in service.                                *)
interrupt(line) ==
  /\ IF_
  /\ line \in irr \cap Unmasked
  /\ \A l \in (irr \cap Unmasked) \ {line} : Before(line, l)
  /\ \A i \in isr : Input(line) < i
  /\ \A l \in slave_isr : line \in SlaveLines => line < l
  /\ isr' = isr \cup {Input(line)}
  /\ slave_isr' = slave_isr \cup ({line} \cap SlaveLines)
  /\ irr' = irr \ {line}
  /\ enter(contexts, HandlerOf(vector(line)), line)
  /\ UNCHANGED <<owner, remapped, cs, gates, message, raised>>

(* The end of the wrapper: pop the scratch registers, iretq restores IF. *)
iretq ==
  /\ At(Op("iretq"))
  /\ contexts' = SubSeq(contexts, 1, depth - 1)
  /\ IF_' = running.flag
  /\ regs' = Popped(running.saved)
  /\ UNCHANGED <<owner, irr, isr, slave_isr, remapped, cs, gates, message, raised>>

(* A device raises its line. *)
raise(line) ==
  /\ raised[line] < MaxRaised
  /\ raised' = [raised EXCEPT ![line] = @ + 1]
  /\ irr' = irr \cup {line}
  /\ UNCHANGED <<contexts, IF_, owner, isr, slave_isr, remapped, cs, gates, regs, message>>

Instruction ==
  \/ \E l \in Locks : lock(l) \/ spin(l) \/ unlock(l)
  \/ send \/ eoi \/ load_gdt \/ load_idt \/ remap \/ sti \/ int3 \/ iretq \/ wait

Next ==
  \/ Instruction
  \/ \E line \in Lines : interrupt(line) \/ raise(line)

(* The CPU keeps executing the running context. *)
Spec == Init /\ [][Next]_vars /\ WF_vars(Instruction)

-----------------------------------------------------------------------------
(* Properties. *)

MaxDepth == 2

Operations ==
  {"lock", "unlock"} \X Locks
    \cup {Op(o) : o \in {"send_first", "send_last", "eoi", "load_gdt", "load_idt", "remap",
                         "sti", "int3", "hlt", "loop", "iretq"}}

Contexts ==
  [ops : Seq(Operations),
   line : Lines \cup {NoLine},
   saved : Seq(ScratchRegisters),
   flag : BOOLEAN]

(* The stack never grows past one handler above main: no interrupt is      *)
(* taken inside a handler.                                                 *)
TypeOK ==
  /\ contexts \in Seq(Contexts) /\ depth \in 1 .. MaxDepth
  /\ IF_ \in BOOLEAN /\ remapped \in BOOLEAN
  /\ owner \in [Locks -> 0 .. MaxDepth]
  /\ irr \subseteq Lines /\ isr \subseteq 0 .. 7 /\ slave_isr \subseteq SlaveLines
  /\ cs \in {"boot", "kernel"} /\ gates \in {"none", "boot", "kernel"}
  /\ regs \in [ScratchRegisters -> ScratchRegisters \cup {"handler"}]
  /\ message \in 0 .. MaxDepth
  /\ raised \in [Lines -> 0 .. MaxRaised]

(* When an interrupt can arrive, the PIC's vectors are clear of the        *)
(* exceptions and the gates lead into the kernel's code segment.           *)
InterruptsReady == IF_ => remapped /\ gates = "kernel" /\ cs = "kernel"

(* A context that took line and has not told the PIC that it is done. *)
OwesEoi(c) ==
  c.line # NoLine /\ (c.line \in {Timer, Keyboard} => Op("eoi") \in Range(c.ops))

(* At both PICs the lines in service are these. *)
InService(lines) == isr = {Input(l) : l \in lines} /\ slave_isr = lines \cap SlaveLines

(* The lines in service, at either PIC, are those of the handlers on the   *)
(* stack that have not acknowledged yet: no EOI is missing, and none ends  *)
(* the line of another handler, although the slave gets one with each of   *)
(* the master's.                                                           *)
EoiMatchesHandler == InService({c.line : c \in {x \in Range(contexts) : OwesEoi(x)}})

(* The bytes of two messages never mix on the serial line. *)
MessagesWhole ==
  /\ At(Op("send_first")) => message = 0
  /\ At(Op("send_last")) => message = depth

(* A timer or keyboard handler that finds the serial port free returns to  *)
(* the code it interrupted.                                                *)
HandlersReturn ==
  \A line \in {Timer, Keyboard} :
    (running.line = line /\ owner["SERIAL"] = 0) ~> (depth = 1)

(* No context waits for a lock held by a context it has interrupted, which *)
(* cannot run again before the waiting one returns.                        *)
NoSelfDeadlock == \A l \in Locks : At(Lock(l)) => owner[l] \notin 1 .. depth - 1

(* What keeps main from its hlt for good: a handler above it that waits    *)
(* for main's own message to end, or a received byte, for which            *)
(* SerialPort::init enabled an interrupt and the IDT has no gate.          *)
WaitsForMain == At(Lock("SERIAL")) /\ owner["SERIAL"] = 1 /\ depth > 1
DiedOnLine == At(Op("loop")) /\ running.line \notin {Timer, Keyboard, NoLine}

(* The kernel's start ends in hlt_loop, whatever interrupts come in        *)
(* between, unless it stopped in one of these two ways: no other lock and  *)
(* no other handler of start, interrupts::init or the self tests can hang. *)
BootCompletes == <>((depth = 1 /\ At(Op("hlt"))) \/ WaitsForMain \/ DiedOnLine)

(* After an interrupt main finds its own values in the scratch registers. *)
ScratchPreserved == depth = 1 => \A r \in ScratchRegisters : regs[r] = r

-----------------------------------------------------------------------------
(* The inductive invariant: what can be said of the rest of a program,     *)
(* wherever the context is in it, and what its next operation tells of the *)
(* locks, the message, the PIC and the CPU.                                *)

(* An operation of a is followed by one of b, and only it is. *)
Follows(s, a, b) == \A i \in 1 .. Len(s) - 1 : s[i] \in a <=> s[i + 1] \in b

(* The bodies of the locks SERIAL and PICS. *)
Rules ==
  {<<{Lock("SERIAL")}, {Op("send_first")}>>, <<{Op("send_first")}, {Op("send_last")}>>,
   <<{Op("send_last")}, {Unlock("SERIAL")}>>, <<{Lock("PICS")}, {Op("eoi"), Op("remap")}>>,
   <<{Op("eoi"), Op("remap")}, {Unlock("PICS")}>>}

Stops == {Op("hlt"), Op("loop"), Op("iretq")}

Structured(s) ==
  /\ s \in Seq(Operations) \ {<< >>}
  /\ \A r \in Rules : Follows(s, r[1], r[2])
  /\ \A i \in 1 .. Len(s) : s[i] \in Stops <=> i = Len(s)

(* In s every op has another one before it. *)
Preceded(s, op, other) ==
  \A i \in 1 .. Len(s) : s[i] = op => \E j \in 1 .. i - 1 : s[j] = other

MainOperations == Operations \ {Op("eoi"), Op("loop"), Op("iretq")}

MainProgram(s) ==
  /\ Structured(s) /\ s \in Seq(MainOperations)
  /\ remapped \/ Preceded(s, Op("sti"), Op("remap"))
  /\ gates = "kernel" \/ Preceded(s, Op("sti"), Op("load_idt"))
  /\ cs = "kernel" \/ Preceded(s, Op("load_idt"), Op("load_gdt"))

HandlerOperations ==
  {Lock("SERIAL"), Unlock("SERIAL"), Lock("PICS"), Unlock("PICS"), Op("send_first"),
   Op("send_last"), Op("eoi"), Op("loop"), Op("iretq")}

(* An EOI is the last thing a handler does before it returns. *)
HandlerProgram(s, line) ==
  /\ Structured(s) /\ s \in Seq(HandlerOperations)
  /\ \A i \in 1 .. Len(s) :
       /\ s[i] = Op("eoi") => line \in {Timer, Keyboard} /\ i + 2 = Len(s)
       /\ s[i] = Op("iretq") => line \in {Timer, Keyboard, NoLine}

(* The context at depth d, about to do op, holds a lock or sends. *)
Holds(d, op) ==
  /\ owner["SERIAL"] = d <=> op \in {Op("send_first"), Op("send_last"), Unlock("SERIAL")}
  /\ owner["PICS"] = d <=> op \in {Op("eoi"), Op("remap"), Unlock("PICS")}
  /\ message = d <=> op = Op("send_last")

Ready == remapped /\ gates = "kernel" /\ cs = "kernel"

KernelInv ==
  /\ TypeOK /\ EoiMatchesHandler
  /\ MainProgram(contexts[1].ops) /\ contexts[1].line = NoLine
  /\ \A d \in 1 .. depth : Holds(d, Head(contexts[d].ops))
  /\ owner["SERIAL"] <= depth /\ owner["PICS"] <= depth /\ owner["ALLOCATOR"] <= 1
  /\ message <= depth
  /\ gates = "kernel" => cs = "kernel"
  /\ IF_ => depth = 1 /\ Ready
  /\ depth = 1 => regs \in [ScratchRegisters -> ScratchRegisters]
  /\ depth = 2 =>
       /\ HandlerProgram(contexts[2].ops, contexts[2].line)
       /\ contexts[2].saved \in [1 .. Len(PushOrder) -> ScratchRegisters]
       /\ contexts[2].flag => Ready

=============================================================================
