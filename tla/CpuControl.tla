----------------------------- MODULE CpuControl -----------------------------
(***************************************************************************)
(* The control flow of the 8086 core: PcI8086::step looks for a trap or an *)
(* interrupt request and then executes one instruction, or several in a    *)
(* row after an instruction that inhibits interrupts.  PrefixOps are        *)
(* instructions of their own that leave a count behind; interrupts, calls  *)
(* and stack frames go through the stack in memory.  What an instruction   *)
(* computes is CpuArithmetic's and CpuInstructions' matter.                *)
(*                                                                         *)
(* Code is memory: a record per byte, operand bytes being "data".  Stack   *)
(* pointers count words.                                                   *)
(***************************************************************************)
EXTENDS Integers, Sequences, FiniteSets

CONSTANTS
  Code,         \* [code segment -> sequence of [op, arg]]
  Vector,       \* [interrupt number -> <<cs, ip>>], as the guest set it up
  HostHandled,  \* interrupts the BIOS handles without entering guest code
  Request,      \* the interrupt number of the requesting device
  Stacks, StackWords,
  Asks          \* bound: requests the device makes

ASSUME ControlAssumption ==
  /\ StackWords \in Nat \ {0} /\ Asks \in Nat
  /\ Request \in DOMAIN Vector /\ {0, 1} \subseteq DOMAIN Vector

VARIABLES
  cpu,     \* registers, flags, stack memory and decoder state of PcI8086
  phase,   \* step looks for interrupts, or executes inside its loop
  slot,    \* s_pendingIRQ
  asked,   \* requests so far
  start,   \* history: where the current instruction begins, prefixes included
  frames,  \* history: what the CPU was when each open interrupt was entered
  recent   \* history: [op] executed last, and what ran since tracing resumed
vars == <<cpu, phase, slot, asked, start, frames, recent>>

Registers == {"AX", "CX", "DX", "BX", "SP", "BP", "SI", "DI"}
PrefixOps == {"SEG", "REP"}
SsLoads == {"MOVSS", "POPSS"}

Init ==
  /\ cpu = [cs |-> 0, ip |-> 0, ss |-> 0, flags |-> {}, seg |-> 0, rep |-> 0,
            inhibit |-> FALSE, halted |-> FALSE,
            regs |-> [r \in Registers |-> IF r = "SP" THEN StackWords ELSE 0],
            memory |-> [s \in Stacks |-> [i \in 0 .. StackWords - 1 |-> 0]]]
  /\ phase = "look" /\ slot = FALSE /\ asked = 0 /\ start = <<0, 0>> /\ frames = <<>>
  /\ recent = [op |-> "none", traced |-> 0]

Byte(s) == Code[s.cs][s.ip + 1]
Skip(s, n) == [s EXCEPT !.ip = @ + n]

\* The flags as a word; set_flags holds the first trap after TF rises back.
FlagBit == [f \in {"CF", "TF", "IF"} |-> CASE f = "CF" -> 1 [] f = "TF" -> 2 [] f = "IF" -> 4]
FlagWord(flags) ==
  LET bit(f) == IF f \in flags THEN FlagBit[f] ELSE 0
  IN  bit("CF") + bit("TF") + bit("IF")
FlagsOf(word) == {f \in DOMAIN FlagBit : (word \div FlagBit[f]) % 2 = 1}
SetFlags_NoInhibit(s, word) ==
  [s EXCEPT !.flags = FlagsOf(word), !.inhibit = FALSE]
SetFlags(s, word) ==
  [s EXCEPT !.flags = FlagsOf(word),
            !.inhibit = /\ "TF" \in FlagsOf(word)
                        /\ "TF" \in s.flags => @]

\* The stack, as MEM16(16 * SS + SP) reads and writes it.
Push(s, value) ==
  [s EXCEPT !.regs.SP = @ - 1, !.memory[s.ss][s.regs.SP - 1] = value]
Word(s, i) == s.memory[s.ss][s.regs.SP + i]
Drop(s, n) == [s EXCEPT !.regs.SP = @ + n]
PushFar(s, ip) == Push(Push(s, s.cs), ip)

\* Bound: the guest stays in its code, and its stack pointer in a stack.
Inside(s) ==
  /\ s.cs \in DOMAIN Code /\ s.ip \in Nat /\ s.ip < Len(Code[s.cs])
  /\ s.ss \in Stacks /\ s.regs.SP \in 0 .. StackWords

\* An interrupt wakes a halted CPU; one the BIOS does not handle by itself
\* leaves flags, CS and IP on the stack and clears TF and IF.
Awake(s) == IF s.halted THEN [Skip(s, 1) EXCEPT !.halted = FALSE] ELSE s
Enter(s, n) ==
  LET pushed == PushFar(Push(s, FlagWord(s.flags)), s.ip)
  IN  [pushed EXCEPT !.cs = Vector[n][1], !.ip = Vector[n][2],
                     !.flags = @ \ {"TF", "IF"}, !.inhibit = FALSE]
PcInterrupt(s, n) == IF n \in HostHandled THEN Awake(s) ELSE Enter(Awake(s), n)

\* A divide fault goes back to the first prefix, as far as prefixes are in use.
FirstPrefix(s) ==
  LET prefix(i) == i > 0 /\ Code[s.cs][i].op \in PrefixOps
  IN  IF s.seg = 0 /\ s.rep = 0 THEN s.ip
      ELSE CHOOSE i \in 0 .. s.ip : /\ ~prefix(i)
                                    /\ \A j \in i + 1 .. s.ip : prefix(j)
DivideFault_Here(s) == PcInterrupt(s, 0)
DivideFault(s) == PcInterrupt([s EXCEPT !.ip = FirstPrefix(s)], 0)

-----------------------------------------------------------------------------
\* What an interrupt entered from s must come back to.
Entered(s, n, from) ==
  IF n \in HostHandled THEN UNCHANGED frames
  ELSE frames' = Append(frames, [number |-> n, at |-> from, flags |-> s.flags,
                                 regs |-> s.regs, ss |-> s.ss, stack |-> s.memory[s.ss]])
Fresh == start' = <<cpu'.cs, cpu'.ip>>

Prefixed(s) == s.seg > 0 \/ s.rep > 0
TakesRequest_Awake(s) == "IF" \in s.flags /\ slot /\ ~Prefixed(s) /\ ~s.halted
TakesRequest(s) == "IF" \in s.flags /\ slot /\ ~Prefixed(s)
TakesTrap(s) == "TF" \in s.flags /\ ~Prefixed(s)
\* The head of step: the trap first, and a request only where no trap can be.
Trap ==
  /\ phase = "look" /\ TakesTrap(cpu)
  /\ phase' = "execute" /\ UNCHANGED <<slot, asked>>
  /\ IF cpu.inhibit
     THEN /\ cpu' = [cpu EXCEPT !.inhibit = FALSE]
          /\ UNCHANGED <<start, frames, recent>>
     ELSE /\ cpu' = PcInterrupt(cpu, 1) /\ Inside(cpu')
          /\ Entered(Awake(cpu), 1, <<Awake(cpu).cs, Awake(cpu).ip>>)
          /\ Fresh /\ recent' = [recent EXCEPT !.traced = 0]
TakeRequest ==
  /\ phase = "look" /\ ~TakesTrap(cpu) /\ TakesRequest(cpu)
  /\ cpu' = PcInterrupt(cpu, Request) /\ Inside(cpu')
  /\ slot' = FALSE /\ phase' = "execute" /\ UNCHANGED asked
  /\ Entered(Awake(cpu), Request, <<Awake(cpu).cs, Awake(cpu).ip>>)
  /\ Fresh /\ UNCHANGED recent
LookInVain ==
  /\ phase = "look" /\ ~TakesTrap(cpu) /\ ~TakesRequest(cpu)
  /\ phase' = "execute" /\ UNCHANGED <<cpu, slot, asked, start, frames, recent>>

\* A device asks between two steps, if the slot is free.
Ask ==
  /\ phase = "look" /\ ~slot /\ asked < Asks
  /\ slot' = TRUE /\ asked' = asked + 1 /\ UNCHANGED <<cpu, phase, start, frames, recent>>

-----------------------------------------------------------------------------
\* Every turn of step's loop counts the prefixes down first.
Counted(s) == [s EXCEPT !.seg = IF @ > 0 THEN @ - 1 ELSE 0,
                        !.rep = IF @ > 0 THEN @ - 1 ELSE 0]
\* STI and its kin, POP sreg and MOV to a segment register run on into the next
\* instruction without looking for interrupts.
RunsOn_FlagsOnly(op) == op \in {"STI", "CLI"}
RunsOn(op) == op \in {"STI", "CLI"} \cup SsLoads
\* Instructions an interrupted trace does not count: the CPU looks for a trap
\* neither right after an inhibiting one nor right after a prefixed one.
Uncounted(s, op) == RunsOn(op) \/ Prefixed(Counted(s)) \/ op \in PrefixOps
Execute(ops, next(_, _)) ==
  /\ phase = "execute" /\ Byte(cpu).op \in ops
  /\ cpu' = next(Counted(cpu), Byte(cpu)) /\ Inside(cpu')
  /\ phase' = IF RunsOn(Byte(cpu).op) THEN "execute" ELSE "look"
  /\ UNCHANGED <<slot, asked>>
  /\ recent' = [op |-> Byte(cpu).op,
                traced |-> IF "TF" \notin cpu.flags THEN 0
                           ELSE recent.traced + (IF Uncounted(cpu, Byte(cpu).op) THEN 0 ELSE 1)]

\* A prefix holds for one more instruction, and prolongs the other kind.
AfterPrefix(s, b) ==
  LET other == IF b.op = "SEG" THEN "rep" ELSE "seg"
      mine  == IF b.op = "SEG" THEN "seg" ELSE "rep"
  IN  [Skip(s, 1) EXCEPT ![mine] = 2, ![other] = IF @ > 0 THEN @ + 1 ELSE 0]
ExecutePrefix == Execute(PrefixOps, AfterPrefix) /\ UNCHANGED <<start, frames>>

\* Instructions on registers; SIZE is an operand size prefix, skipped as an
\* instruction of its own, and LOAD reads memory through its segment override.
AfterData(s, b) ==
  CASE b.op = "SIZE" -> Skip(s, 1)
    [] b.op = "LOAD" -> [Skip(s, 3) EXCEPT !.regs.AX = IF s.seg > 0 THEN 1 ELSE 2]
    [] b.op = "MOV"  -> [Skip(s, 3) EXCEPT !.regs[b.arg[1]] = b.arg[2]]
    [] b.op = "ADD"  -> [Skip(s, 3) EXCEPT !.regs.AX = @ + b.arg]
ExecuteData ==
  Execute({"SIZE", "LOAD", "MOV", "ADD"}, AfterData) /\ Fresh /\ UNCHANGED frames

AfterFlag(s, b) ==
  [Skip(s, 1) EXCEPT !.flags = IF b.op = "STI" THEN @ \cup {"IF"} ELSE @ \ {"IF"}]
AfterSsLoad(s, b) ==
  IF b.op = "MOVSS" THEN [Skip(s, 2) EXCEPT !.ss = s.regs.AX]
  ELSE [Skip(Drop(s, 1), 1) EXCEPT !.ss = Word(s, 0)]
ExecuteInhibiting ==
  (Execute({"STI", "CLI"}, AfterFlag) \/ Execute(SsLoads, AfterSsLoad))
    /\ Fresh /\ UNCHANGED frames

\* PUSH, POP and the 80186's PUSHA and POPA, in the order of their pushes, and
\* ENTER, which copies the frame pointers of the enclosing procedures.
Saved == <<"AX", "CX", "DX", "BX", "SP", "BP", "SI", "DI">>
PushAll(s) ==
  [Drop(s, -8) EXCEPT !.memory[s.ss] = [i \in DOMAIN @ |->
     IF s.regs.SP - i \in 1 .. 8 THEN s.regs[Saved[s.regs.SP - i]] ELSE @[i]]]
PopAll(s) ==
  [Drop(s, 8) EXCEPT !.regs = [r \in Registers |->
     IF r = "SP" THEN s.regs.SP + 8
     ELSE Word(s, 8 - CHOOSE i \in 1 .. 8 : Saved[i] = r)]]
EnterFrame(s, size, level) ==
  LET frame == s.regs.SP - 1
      row[i \in 0 .. level] ==
        IF i = 0 THEN [s.memory[s.ss] EXCEPT ![frame] = s.regs.BP]
        ELSE [row[i - 1] EXCEPT ![frame - i] =
                IF i = level THEN frame ELSE row[i - 1][s.regs.BP - i]]
  IN  [s EXCEPT !.regs.BP = frame, !.regs.SP = frame - level - size,
                !.memory[s.ss] = row[level]]
AfterStack(s, b) ==
  CASE b.op = "PUSH"  -> Skip([Push(s, 0) EXCEPT !.memory[s.ss][s.regs.SP - 1] =
                           IF b.arg = "SP" THEN s.regs.SP - 1 ELSE s.regs[b.arg]], 1)
    [] b.op = "POP"   -> Skip([Drop(s, 1) EXCEPT !.regs[b.arg] = Word(s, 0)], 1)
    [] b.op = "PUSHI" -> Skip(Push(s, b.arg), 3)
    [] b.op = "PUSHF" -> Skip(Push(s, FlagWord(s.flags)), 1)
    [] b.op = "POPF"  -> Skip(SetFlags(Drop(s, 1), Word(s, 0)), 1)
    [] b.op = "PUSHA" -> Skip(PushAll(s), 1)
    [] b.op = "POPA"  -> Skip(PopAll(s), 1)
    [] b.op = "ENTER" -> Skip(EnterFrame(s, b.arg[1], b.arg[2]), 4)
    [] b.op = "LEAVE" -> LET at == s.memory[s.ss][s.regs.BP]
                         IN  Skip([s EXCEPT !.regs.SP = s.regs.BP + 1, !.regs.BP = at], 1)
ExecuteStack ==
  Execute({"PUSH", "POP", "PUSHI", "PUSHF", "POPF", "PUSHA", "POPA", "ENTER", "LEAVE"}, AfterStack)
    /\ Fresh /\ UNCHANGED frames

\* Jumps, loops, calls and returns; POPCS is opcode 0Fh.
Jump(s, cs, ip) == [s EXCEPT !.cs = cs, !.ip = ip]
Near(s, b, size, taken) == Skip(s, size + (IF taken THEN b.arg ELSE 0))
Loop(s, b) ==
  LET counted == [s EXCEPT !.regs.CX = @ - 1] IN Near(counted, b, 2, counted.regs.CX # 0)
\* An indirect far call of 0000:0000 counts as an absent callback.
CallFar(s, b) ==
  IF b.arg = <<0, 0>> THEN Skip(s, 5)
  ELSE Jump(PushFar(s, s.ip + 5), b.arg[1], b.arg[2])
PopCs(s) == Jump(Drop(s, 1), Word(s, 0), s.ip + 1)
Return(s, n) == Jump(Drop(s, 1 + n), s.cs, Word(s, 0))
FarReturn(s, n) == Jump(Drop(s, 2 + n), Word(s, 1), Word(s, 0))
AfterFlow(s, b) ==
  CASE b.op = "JMP"   -> Near(s, b, 2, TRUE)
    [] b.op = "JCXZ"  -> Near(s, b, 2, s.regs.CX = 0)
    [] b.op = "LOOP"  -> Loop(s, b)
    [] b.op = "JMPF"  -> Jump(s, b.arg[1], b.arg[2])
    [] b.op = "CALL"  -> Near(Push(s, s.ip + 3), b, 3, TRUE)
    [] b.op = "RET"   -> Return(s, b.arg)
    [] b.op = "CALLF" -> CallFar(s, b)
    [] b.op = "RETF"  -> FarReturn(s, b.arg)
    [] b.op = "POPCS" -> PopCs(s)
ExecuteFlow ==
  Execute({"JMP", "JCXZ", "LOOP", "JMPF", "CALL", "RET", "CALLF", "RETF", "POPCS"}, AfterFlow)
    /\ Fresh /\ UNCHANGED frames

\* HLT stays where it is.
AfterHalt(s, b) == [s EXCEPT !.halted = TRUE]
ExecuteHalt == Execute({"HLT"}, AfterHalt) /\ Fresh /\ UNCHANGED frames

\* INT n and INT 3; DIV by CX and BOUND of AX, which fault.
Size(b) == IF b.op = "INT3" THEN 1 ELSE 2
Fault(s, b) == CASE b.op = "DIV"   -> s.regs.CX = 0
                 [] b.op = "BOUND" -> s.regs.AX > b.arg
AfterInt(s, b) == PcInterrupt(Skip(s, Size(b)), IF b.op = "INT3" THEN 3 ELSE b.arg)
AfterFault(s, b) ==
  CASE b.op = "DIV" /\ Fault(s, b)   -> DivideFault(s)
    [] b.op = "BOUND" /\ Fault(s, b) -> PcInterrupt(s, 5)
    [] OTHER -> Skip(s, Size(b))
ExecuteInt ==
  /\ Execute({"INT", "INT3"}, AfterInt)
  /\ LET b == Byte(cpu)
     IN  Entered(cpu, IF b.op = "INT3" THEN 3 ELSE b.arg, <<cpu.cs, cpu.ip + Size(b)>>)
  /\ Fresh
ExecuteFault ==
  /\ Execute({"DIV", "BOUND"}, AfterFault)
  /\ IF Fault(cpu, Byte(cpu))
     THEN Entered(cpu, IF Byte(cpu).op = "DIV" THEN 0 ELSE 5, start)
     ELSE UNCHANGED frames
  /\ Fresh

AfterReturn(s, b) ==
  SetFlags(Jump(Drop(s, 3), Word(s, 1), Word(s, 0)), Word(s, 2))
ExecuteReturn ==
  /\ Execute({"IRET"}, AfterReturn)
  /\ frames' = SubSeq(frames, 1, Len(frames) - 1) /\ Fresh

Step == \/ Trap \/ TakeRequest \/ LookInVain \/ ExecutePrefix \/ ExecuteData
        \/ ExecuteInhibiting \/ ExecuteStack \/ ExecuteFlow \/ ExecuteHalt
        \/ ExecuteInt \/ ExecuteFault \/ ExecuteReturn
Next == Step \/ Ask
Spec == Init /\ [][Next]_vars /\ WF_vars(Step)

-----------------------------------------------------------------------------
\* An instruction runs under exactly the prefixes that stand before it, however
\* interrupts, traps and faults fall between them, and a segment register that
\* was just loaded with a stack is never pushed to before the pointer is loaded.
BoundariesKept ==
  LET between == {Code[cpu.cs][i].op : i \in start[2] + 1 .. cpu.ip}
  IN  /\ cpu.seg > 1 <=> "SEG" \in between
      /\ cpu.rep > 1 <=> "REP" \in between
      /\ phase = "look" => recent.op \notin SsLoads

\* A handler that saves what it changes is invisible: IRET resumes after the
\* interrupted instruction, after the HLT it ended, or at the first prefix of
\* the one that faulted, with flags, stack and registers as they were.  A fault's
\* handler changes the operand that faulted.
FaultOperand == [n \in {0, 5} |-> IF n = 0 THEN "CX" ELSE "AX"]
Kept(frame) == IF frame.number \in DOMAIN FaultOperand
               THEN Registers \ {FaultOperand[frame.number]} ELSE Registers
ReturnsTo(frame, s) ==
  /\ frame.at = <<s.cs, s.ip>>
  /\ frame.flags = s.flags /\ frame.ss = s.ss
  /\ \A r \in Kept(frame) : frame.regs[r] = s.regs[r]
  /\ \A i \in s.regs.SP .. StackWords - 1 : frame.stack[i] = s.memory[s.ss][i]
InterruptsTransparent ==
  [][ExecuteReturn => ReturnsTo(frames[Len(frames)], cpu')]_vars

\* A trace advances: between two single-step traps exactly one instruction runs
\* that is neither prefixed nor inhibiting, so none is trapped twice and none of
\* those is skipped.
TracedOnce ==
  [][phase = "look" /\ TakesTrap(cpu) /\ ~cpu.inhibit => recent.traced = 1]_vars

\* A device's request is taken in the end, though it is looked for only between
\* instructions that neither inhibit nor carry a prefix, and never while a trace
\* is on.
RequestTaken == slot ~> ~slot
=============================================================================
