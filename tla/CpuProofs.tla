------------------------------ MODULE CpuProofs -----------------------------
(***************************************************************************)
(* The processor, for every value of the constants.  First the step loop,  *)
(* for every guest program that stays in its code and stack, and every     *)
(* vector: an instruction runs under the prefixes that stand before it,    *)
(* a stack switch is never cut in two, and a trace advances by one         *)
(* instruction per trap, whatever interrupts, traps and faults fall in     *)
(* between.  Then single instructions: a word and a block are where the    *)
(* CPU finds their bytes, for every layout of the address space; every     *)
(* opcode has the length and the memory operand of the opcode map; result  *)
(* and flags are those of whole number arithmetic, of decimal digits and   *)
(* of steps of one bit, for every set of operands and counts; and a string *)
(* instruction leaves, for every segment, what it would leave if all its   *)
(* steps were taken at once.                                               *)
(***************************************************************************)
EXTENDS CpuControl, CpuInstructions, SequenceInduction, FiniteSetTheorems

\* The fields of cpu, of whatever values.
Fields == {"cs", "ip", "ss", "flags", "seg", "rep", "inhibit", "halted", "regs", "memory"}
IsCpu(s) == s = [f \in Fields |-> s[f]]

\* Nothing the decoder counts, no flag and no inhibition differs.
SamePrefixes(s, t) == IsCpu(t) /\ t.seg = s.seg /\ t.rep = s.rep
SameFlags(s, t) == t.flags = s.flags /\ t.inhibit = s.inhibit
OnlyData(s, t) == SamePrefixes(s, t) /\ SameFlags(s, t)

(* Changing other fields keeps them.                                         *)
LEMMA FieldChanges ==
  ASSUME NEW s, IsCpu(s), NEW x
  PROVE  /\ OnlyData(s, [s EXCEPT !.cs = x])
         /\ OnlyData(s, [s EXCEPT !.ip = x])
         /\ OnlyData(s, [s EXCEPT !.ss = x])
         /\ OnlyData(s, [s EXCEPT !.regs = x])
         /\ OnlyData(s, [s EXCEPT !.memory = x])
         /\ OnlyData(s, [s EXCEPT !.halted = x])
BY DEF OnlyData, SamePrefixes, SameFlags, IsCpu, Fields

LEMMA CellChange ==
  ASSUME NEW s, IsCpu(s), NEW x, NEW y, NEW z
  PROVE  OnlyData(s, [s EXCEPT !.memory[x][y] = z])
BY DEF OnlyData, SamePrefixes, SameFlags, IsCpu, Fields

LEMMA DataComposes ==
  ASSUME NEW s, NEW t, NEW u, OnlyData(s, t), OnlyData(t, u)
  PROVE  OnlyData(s, u)
BY DEF OnlyData, SamePrefixes, SameFlags

(* Moving, pushing, dropping and jumping change data only.                   *)
LEMMA Moves ==
  ASSUME NEW s, IsCpu(s), NEW x, NEW y
  PROVE  /\ OnlyData(s, Skip(s, x))
         /\ OnlyData(s, Drop(s, x))
         /\ OnlyData(s, Push(s, x))
         /\ OnlyData(s, Jump(s, x, y))
BY DEF OnlyData, SamePrefixes, SameFlags, IsCpu, Fields, Skip, Drop, Push, Jump

LEMMA PrefixesCompose ==
  ASSUME NEW s, NEW t, NEW u, SamePrefixes(s, t), SamePrefixes(t, u)
  PROVE  SamePrefixes(s, u)
BY DEF SamePrefixes

LEMMA PushFarKeeps ==
  ASSUME NEW s, IsCpu(s), NEW x
  PROVE  OnlyData(s, PushFar(s, x))
<1>1. OnlyData(s, Push(s, s.cs))
  BY Moves
<1>2. OnlyData(Push(s, s.cs), Push(Push(s, s.cs), x))
  BY <1>1, Moves DEF OnlyData, SamePrefixes
<1> QED BY <1>1, <1>2, DataComposes DEF PushFar

-----------------------------------------------------------------------------
(* What an instruction may do to a trace: TF goes, or stays with the         *)
(* inhibition as it was, or is set for the first time and inhibited.         *)
Traced(s) == "TF" \in s.flags
TraceFollows(s, t) ==
  /\ s.inhibit \in BOOLEAN => t.inhibit \in BOOLEAN
  /\ Traced(t) => t.inhibit = (Traced(s) => s.inhibit)
Advances(s, t) == SamePrefixes(s, t) /\ TraceFollows(s, t)

LEMMA DataAdvances ==
  ASSUME NEW s, NEW t, OnlyData(s, t), s.inhibit \in BOOLEAN
  PROVE  Advances(s, t)
BY DEF OnlyData, SameFlags, Advances, TraceFollows, Traced

(* An interrupt keeps the prefix counts; one that enters guest code ends a   *)
(* trace, and one the BIOS handles leaves it alone.                          *)
LEMMA InterruptKeeps ==
  ASSUME NEW s, IsCpu(s), s.inhibit \in BOOLEAN, NEW n
  PROVE  /\ Advances(s, PcInterrupt(s, n))
         /\ Traced(PcInterrupt(s, n)) => OnlyData(s, PcInterrupt(s, n))
<1>1. OnlyData(s, Awake(s))
  <2>1. OnlyData(s, Skip(s, 1)) /\ IsCpu(Skip(s, 1))
    BY Moves DEF OnlyData, SamePrefixes
  <2>2. OnlyData(Skip(s, 1), [Skip(s, 1) EXCEPT !.halted = FALSE])
    BY <2>1, FieldChanges
  <2>3. OnlyData(s, s)
    BY DEF OnlyData, SamePrefixes, SameFlags
  <2> QED BY <2>1, <2>2, <2>3, DataComposes DEF Awake
<1> DEFINE a == Awake(s)
           word == Push(a, FlagWord(a.flags))
           p == PushFar(word, a.ip)
<1>2. IsCpu(a)
  BY <1>1 DEF OnlyData, SamePrefixes
<1>3. OnlyData(a, word) /\ IsCpu(word)
  BY <1>2, Moves DEF OnlyData, SamePrefixes
<1>4. OnlyData(a, p) /\ IsCpu(p)
  BY <1>3, PushFarKeeps, DataComposes DEF OnlyData, SamePrefixes
<1>5. SamePrefixes(p, Enter(a, n)) /\ Enter(a, n).inhibit = FALSE /\ ~Traced(Enter(a, n))
  <2> HIDE DEF p
  <2>1. SamePrefixes(p, [p EXCEPT !.cs = Vector[n][1], !.ip = Vector[n][2],
                                  !.flags = @ \ {"TF", "IF"}, !.inhibit = FALSE])
    BY <1>4 DEF SamePrefixes, IsCpu, Fields
  <2>2. [p EXCEPT !.cs = Vector[n][1], !.ip = Vector[n][2],
                  !.flags = @ \ {"TF", "IF"}, !.inhibit = FALSE].inhibit = FALSE
    BY <1>4 DEF IsCpu, Fields
  <2>3. ~Traced([p EXCEPT !.cs = Vector[n][1], !.ip = Vector[n][2],
                          !.flags = @ \ {"TF", "IF"}, !.inhibit = FALSE])
    BY <1>4 DEF IsCpu, Fields, Traced
  <2> QED BY <2>1, <2>2, <2>3 DEF Enter, p
<1>6. SamePrefixes(s, Enter(a, n))
  BY <1>1, <1>4, <1>5, PrefixesCompose DEF OnlyData
<1>7. Advances(s, Enter(a, n))
  BY <1>5, <1>6 DEF Advances, TraceFollows
<1> HIDE DEF a
<1>8. CASE n \in HostHandled
  BY <1>1, <1>8, DataAdvances DEF PcInterrupt, a
<1>9. CASE n \notin HostHandled
  <2>1. PcInterrupt(s, n) = Enter(a, n)
    BY <1>9 DEF PcInterrupt, a
  <2> QED BY <2>1, <1>5, <1>7
<1> QED BY <1>8, <1>9

LEMMA DataSteps ==
  ASSUME NEW s, IsCpu(s), NEW b, b.op \in {"SIZE", "LOAD", "MOV", "ADD"}
  PROVE  OnlyData(s, AfterData(s, b))
BY DEF AfterData, OnlyData, SamePrefixes, SameFlags, IsCpu, Fields, Skip

LEMMA FlagSteps ==
  ASSUME NEW s, IsCpu(s), s.inhibit \in BOOLEAN, NEW b
  PROVE  Advances(s, AfterFlag(s, b)) /\ (Traced(AfterFlag(s, b)) <=> Traced(s))
<1>1. /\ SamePrefixes(s, AfterFlag(s, b))
      /\ AfterFlag(s, b).inhibit = s.inhibit
      /\ AfterFlag(s, b).flags = IF b.op = "STI" THEN s.flags \cup {"IF"}
                                 ELSE s.flags \ {"IF"}
  BY DEF AfterFlag, SamePrefixes, IsCpu, Fields, Skip
<1>2. Traced(AfterFlag(s, b)) <=> Traced(s)
  BY <1>1 DEF Traced
<1> QED BY <1>1, <1>2 DEF Advances, TraceFollows

LEMMA StackLoads ==
  ASSUME NEW s, IsCpu(s), NEW b
  PROVE  OnlyData(s, AfterSsLoad(s, b))
BY DEF AfterSsLoad, OnlyData, SamePrefixes, SameFlags, IsCpu, Fields, Skip, Drop

(* POPF and IRET.                                                            *)
LEMMA FlagLoads ==
  ASSUME NEW s, IsCpu(s), s.inhibit \in BOOLEAN, NEW word
  PROVE  Advances(s, SetFlags(s, word))
<1> DEFINE t == SetFlags(s, word)
<1>1. SamePrefixes(s, t)
  BY DEF SetFlags, SamePrefixes, IsCpu, Fields
<1>2. /\ t.flags = FlagsOf(word)
      /\ t.inhibit = ("TF" \in FlagsOf(word) /\ ("TF" \in s.flags => s.inhibit))
  BY DEF SetFlags, IsCpu, Fields
<1> HIDE DEF t
<1> QED BY <1>1, <1>2 DEF Advances, TraceFollows, Traced, t

LEMMA AdvancesCompose ==
  ASSUME NEW s, NEW t, NEW u, s.inhibit \in BOOLEAN,
         \/ OnlyData(s, t) /\ Advances(t, u)
         \/ Advances(s, t) /\ OnlyData(t, u)
  PROVE  Advances(s, u)
BY DEF Advances, OnlyData, SamePrefixes, SameFlags, TraceFollows, Traced

LEMMA OthersStack ==
  ASSUME NEW s, IsCpu(s), NEW b,
         b.op \in {"PUSH", "POP", "PUSHI", "PUSHF", "PUSHA", "POPA", "ENTER", "LEAVE"}
  PROVE  OnlyData(s, AfterStack(s, b))
<1>1. CASE b.op = "PUSH"
  <2> DEFINE t == [Push(s, 0) EXCEPT !.memory[s.ss][s.regs.SP - 1] =
                     IF b.arg = "SP" THEN s.regs.SP - 1 ELSE s.regs[b.arg]]
  <2>1. OnlyData(s, Push(s, 0)) /\ IsCpu(Push(s, 0))
    BY Moves DEF OnlyData, SamePrefixes
  <2>2. OnlyData(s, t) /\ IsCpu(t)
    <3> DEFINE p == Push(s, 0)
    <3>1. \A x, y, z : OnlyData(p, [p EXCEPT !.memory[x][y] = z])
      BY <2>1, CellChange
    <3>2. OnlyData(p, t)
      BY <3>1, Zenon
    <3>3. OnlyData(s, t)
      BY <2>1, <3>2, DataComposes
    <3> QED BY <3>3 DEF OnlyData, SamePrefixes
  <2>3. AfterStack(s, b) = Skip(t, 1)
    BY <1>1 DEF AfterStack
  <2> HIDE DEF t
  <2> QED BY <2>2, <2>3, Moves, DataComposes
<1>2. CASE b.op = "POP"
  <2>1. AfterStack(s, b) = Skip([Drop(s, 1) EXCEPT !.regs[b.arg] = Word(s, 0)], 1)
    BY <1>2 DEF AfterStack
  <2> QED BY <2>1 DEF OnlyData, SamePrefixes, SameFlags, IsCpu, Fields, Skip, Drop
<1>3. CASE b.op \in {"PUSHI", "PUSHF"}
  <2>1. PICK x, n : AfterStack(s, b) = Skip(Push(s, x), n)
    BY <1>3 DEF AfterStack
  <2>2. OnlyData(s, Push(s, x)) /\ IsCpu(Push(s, x))
    BY Moves DEF OnlyData, SamePrefixes
  <2> QED BY <2>1, <2>2, Moves, DataComposes
<1>4. CASE b.op = "PUSHA"
  <2>1. AfterStack(s, b) = Skip(PushAll(s), 1)
    BY <1>4 DEF AfterStack
  <2>2. OnlyData(s, PushAll(s)) /\ IsCpu(PushAll(s))
    BY DEF OnlyData, SamePrefixes, SameFlags, IsCpu, Fields, PushAll, Drop
  <2> QED BY <2>1, <2>2, Moves, DataComposes
<1>5. CASE b.op = "POPA"
  <2>1. AfterStack(s, b) = Skip(PopAll(s), 1)
    BY <1>5 DEF AfterStack
  <2>2. OnlyData(s, PopAll(s)) /\ IsCpu(PopAll(s))
    BY DEF OnlyData, SamePrefixes, SameFlags, IsCpu, Fields, PopAll, Drop
  <2> QED BY <2>1, <2>2, Moves, DataComposes
<1>6. CASE b.op = "ENTER"
  <2>1. AfterStack(s, b) = Skip(EnterFrame(s, b.arg[1], b.arg[2]), 4)
    BY <1>6 DEF AfterStack
  <2>2. ASSUME NEW x, NEW y, NEW z
        PROVE  LET t == [s EXCEPT !.regs.BP = x, !.regs.SP = y, !.memory[s.ss] = z]
               IN  OnlyData(s, t) /\ IsCpu(t)
    <3> DEFINE t == [s EXCEPT !.regs.BP = x, !.regs.SP = y, !.memory[s.ss] = z]
    <3>1. IsCpu(t)
      BY DEF IsCpu, Fields
    <3>2. t.seg = s.seg /\ t.rep = s.rep /\ t.flags = s.flags /\ t.inhibit = s.inhibit
      BY DEF IsCpu, Fields
    <3> QED BY <3>1, <3>2 DEF OnlyData, SamePrefixes, SameFlags
  <2>3. LET t == EnterFrame(s, b.arg[1], b.arg[2]) IN OnlyData(s, t) /\ IsCpu(t)
    BY <2>2, Zenon DEF EnterFrame
  <2> QED BY <2>1, <2>3, Moves, DataComposes
<1>7. CASE b.op = "LEAVE"
  <2>1. AfterStack(s, b) = Skip([s EXCEPT !.regs.SP = s.regs.BP + 1,
                                          !.regs.BP = s.memory[s.ss][s.regs.BP]], 1)
    BY <1>7 DEF AfterStack
  <2> QED BY <2>1 DEF OnlyData, SamePrefixes, SameFlags, IsCpu, Fields, Skip
<1> QED BY <1>1, <1>2, <1>3, <1>4, <1>5, <1>6, <1>7

LEMMA StackSteps ==
  ASSUME NEW s, IsCpu(s), s.inhibit \in BOOLEAN, NEW b,
         b.op \in {"PUSH", "POP", "PUSHI", "PUSHF", "POPF", "PUSHA", "POPA", "ENTER", "LEAVE"}
  PROVE  Advances(s, AfterStack(s, b))
<1>1. CASE b.op = "POPF"
  <2> DEFINE d == Drop(s, 1)
             t == SetFlags(d, Word(s, 0))
  <2>1. AfterStack(s, b) = Skip(t, 1)
    BY <1>1 DEF AfterStack
  <2>2. OnlyData(s, d) /\ IsCpu(d) /\ d.inhibit \in BOOLEAN
    BY Moves DEF OnlyData, SamePrefixes, SameFlags
  <2>3. Advances(d, t) /\ IsCpu(t)
    BY <2>2, FlagLoads DEF Advances, SamePrefixes
  <2>4. Advances(s, t)
    BY <2>2, <2>3, AdvancesCompose
  <2>5. OnlyData(t, Skip(t, 1))
    BY <2>3, Moves
  <2> QED BY <2>1, <2>4, <2>5, AdvancesCompose
<1>2. CASE b.op # "POPF"
  BY <1>2, OthersStack, DataAdvances
<1> QED BY <1>1, <1>2

LEMMA FlowSteps ==
  ASSUME NEW s, IsCpu(s), NEW b,
         b.op \in {"JMP", "JCXZ", "LOOP", "JMPF", "CALL", "RET", "CALLF", "RETF", "POPCS"}
  PROVE  OnlyData(s, AfterFlow(s, b))
<1>1. ASSUME NEW t, OnlyData(s, t), NEW x, NEW y
      PROVE  OnlyData(s, Skip(t, x)) /\ OnlyData(s, Jump(t, x, y))
  <2>1. IsCpu(t)
    BY <1>1 DEF OnlyData, SamePrefixes
  <2> QED BY <1>1, <2>1, Moves, DataComposes
<1>2. OnlyData(s, s)
  BY DEF OnlyData, SamePrefixes, SameFlags
<1>3. \A x : /\ OnlyData(s, Drop(s, x)) /\ OnlyData(s, Push(s, x))
             /\ OnlyData(s, PushFar(s, x))
             /\ OnlyData(s, [s EXCEPT !.regs.CX = x])
  BY Moves, PushFarKeeps, FieldChanges
<1>4. CASE b.op \in {"JMP", "JCXZ"}
  <2>1. PICK x : AfterFlow(s, b) = Skip(s, x)
    BY <1>4 DEF AfterFlow, Near
  <2> QED BY <1>1, <1>2, <2>1
<1>5. CASE b.op = "LOOP"
  <2>1. PICK x, y : AfterFlow(s, b) = Skip([s EXCEPT !.regs.CX = y], x)
    BY <1>5 DEF AfterFlow, Loop, Near
  <2> QED BY <1>1, <1>3, <2>1
<1>6. CASE b.op = "CALL"
  <2>1. PICK x, y : AfterFlow(s, b) = Skip(Push(s, x), y)
    BY <1>6 DEF AfterFlow, Near
  <2> QED BY <1>1, <1>3, <2>1
<1>7. CASE b.op = "JMPF"
  <2>1. AfterFlow(s, b) = Jump(s, b.arg[1], b.arg[2])
    BY <1>7 DEF AfterFlow
  <2> QED BY <1>1, <1>2, <2>1
<1>8. CASE b.op = "CALLF"
  <2>1. AfterFlow(s, b) \in {Skip(s, 5), Jump(PushFar(s, s.ip + 5), b.arg[1], b.arg[2])}
    BY <1>8 DEF AfterFlow, CallFar
  <2> QED BY <1>1, <1>2, <1>3, <2>1
<1>9. CASE b.op \in {"RET", "RETF", "POPCS"}
  <2>1. PICK n, x, y : AfterFlow(s, b) = Jump(Drop(s, n), x, y)
    BY <1>9 DEF AfterFlow, Return, FarReturn, PopCs
  <2> QED BY <1>1, <1>3, <2>1
<1> QED BY <1>4, <1>5, <1>6, <1>7, <1>8, <1>9

LEMMA HaltSteps ==
  ASSUME NEW s, IsCpu(s), NEW b
  PROVE  OnlyData(s, AfterHalt(s, b))
BY FieldChanges DEF AfterHalt

(* INT and the faults.                                                       *)
LEMMA InterruptSteps ==
  ASSUME NEW s, IsCpu(s), s.inhibit \in BOOLEAN, NEW b
  PROVE  Advances(s, AfterInt(s, b)) /\ Advances(s, AfterFault(s, b))
<1>1. \A n, x : Advances(s, PcInterrupt(Skip(s, x), n))
  <2>1. ASSUME NEW x, NEW n PROVE Advances(s, PcInterrupt(Skip(s, x), n))
    <3>1. OnlyData(s, Skip(s, x))
      BY Moves
    <3>2. IsCpu(Skip(s, x)) /\ Skip(s, x).inhibit \in BOOLEAN
      BY <3>1 DEF OnlyData, SamePrefixes, SameFlags
    <3>3. Advances(Skip(s, x), PcInterrupt(Skip(s, x), n))
      BY <3>2, InterruptKeeps
    <3> QED BY <3>1, <3>3, AdvancesCompose
  <2> QED BY <2>1
<1>2. Advances(s, DivideFault(s))
  <2> DEFINE t == [s EXCEPT !.ip = FirstPrefix(s)]
  <2>1. OnlyData(s, t) /\ IsCpu(t) /\ t.inhibit \in BOOLEAN
    BY FieldChanges DEF OnlyData, SamePrefixes, SameFlags
  <2>2. Advances(t, PcInterrupt(t, 0))
    BY <2>1, InterruptKeeps
  <2> QED BY <2>1, <2>2, AdvancesCompose DEF DivideFault
<1>3. Advances(s, PcInterrupt(s, 5))
  BY InterruptKeeps
<1>4. \A x : Advances(s, Skip(s, x))
  BY Moves, DataAdvances
<1>5. Advances(s, AfterInt(s, b))
  BY <1>1 DEF AfterInt
<1>6. AfterFault(s, b) \in {DivideFault(s), PcInterrupt(s, 5), Skip(s, Size(b))}
  BY DEF AfterFault
<1> QED BY <1>2, <1>3, <1>4, <1>5, <1>6

LEMMA ReturnSteps ==
  ASSUME NEW s, IsCpu(s), s.inhibit \in BOOLEAN, NEW b
  PROVE  Advances(s, AfterReturn(s, b))
<1> DEFINE d == Drop(s, 3)
           t == Jump(d, Word(s, 1), Word(s, 0))
<1>1. OnlyData(s, d) /\ IsCpu(d)
  BY Moves DEF OnlyData, SamePrefixes
<1>2. OnlyData(s, t) /\ IsCpu(t) /\ t.inhibit \in BOOLEAN
  BY <1>1, Moves, DataComposes DEF OnlyData, SamePrefixes, SameFlags
<1>3. Advances(t, SetFlags(t, Word(s, 2)))
  BY <1>2, FlagLoads
<1> QED BY <1>2, <1>3, AdvancesCompose DEF AfterReturn

-----------------------------------------------------------------------------
(* The state between two steps of the loop.                                  *)

\* The decoder counts up to 2, and start is where a run of prefixes began.
DecoderInv ==
  /\ IsCpu(cpu) /\ cpu.ip \in Nat /\ cpu.inhibit \in BOOLEAN
  /\ cpu.seg \in 0 .. 2 /\ cpu.rep \in 0 .. 2
  /\ phase \in {"look", "execute"}
  /\ start[2] \in 0 .. cpu.ip
  /\ recent = [op |-> recent.op, traced |-> recent.traced] /\ recent.traced \in Nat
  /\ BoundariesKept

\* What an instruction that is no prefix does; one that runs on starts no trace.
Plain ==
  /\ phase = "execute" /\ Byte(cpu).op \notin PrefixOps
  /\ Advances(Counted(cpu), cpu') /\ Inside(cpu') /\ Fresh
  /\ phase' = IF RunsOn(Byte(cpu).op) THEN "execute" ELSE "look"
  /\ RunsOn(Byte(cpu).op) /\ Traced(cpu') => Traced(cpu)
  /\ recent' = [op |-> Byte(cpu).op,
                traced |-> IF "TF" \notin cpu.flags THEN 0
                           ELSE recent.traced + (IF Uncounted(cpu, Byte(cpu).op) THEN 0 ELSE 1)]

\* What a trap or a request does.
Interrupted ==
  /\ phase = "look" /\ ~Prefixed(cpu) /\ phase' = "execute"
  /\ SamePrefixes(cpu, cpu') /\ cpu'.inhibit \in BOOLEAN /\ Inside(cpu') /\ Fresh
  /\ Traced(cpu') => OnlyData(cpu, cpu')
  /\ \/ Traced(cpu) /\ ~cpu.inhibit /\ recent' = [recent EXCEPT !.traced = 0]
     \/ ~Traced(cpu) /\ recent' = recent

LEMMA CountedPrefixes ==
  ASSUME NEW s, IsCpu(s), s.seg \in 0 .. 2, s.rep \in 0 .. 2
  PROVE  /\ IsCpu(Counted(s))
         /\ Counted(s).seg = (IF s.seg > 0 THEN s.seg - 1 ELSE 0)
         /\ Counted(s).rep = (IF s.rep > 0 THEN s.rep - 1 ELSE 0)
         /\ Counted(s).cs = s.cs /\ Counted(s).ip = s.ip
         /\ SameFlags(s, Counted(s))
BY DEF Counted, IsCpu, Fields, SameFlags

LEMMA PlainSteps ==
  ASSUME DecoderInv,
         \/ ExecuteData \/ ExecuteInhibiting \/ ExecuteStack \/ ExecuteFlow
         \/ ExecuteHalt \/ ExecuteInt \/ ExecuteFault \/ ExecuteReturn
  PROVE  Plain
<1> DEFINE s == Counted(cpu)
           b == Byte(cpu)
<1>1. IsCpu(s) /\ s.inhibit \in BOOLEAN /\ s.flags = cpu.flags
  BY CountedPrefixes DEF DecoderInv, SameFlags
<1> HIDE DEF s, b
<1>2. CASE ExecuteData
  <2>1. b.op \in {"SIZE", "LOAD", "MOV", "ADD"} /\ cpu' = AfterData(s, b)
    BY <1>2 DEF ExecuteData, Execute, s, b
  <2>2. Advances(s, cpu')
    BY <1>1, <2>1, DataSteps, DataAdvances
  <2> QED BY <1>2, <2>1, <2>2 DEF ExecuteData, Execute, Plain, PrefixOps, RunsOn, SsLoads, s, b
<1>3. CASE ExecuteInhibiting
  <2>1. CASE Execute({"STI", "CLI"}, AfterFlag) /\ Fresh
    <3>1. b.op \in {"STI", "CLI"} /\ cpu' = AfterFlag(s, b)
      BY <2>1 DEF Execute, s, b
    <3>2. Advances(s, cpu') /\ (Traced(cpu') <=> Traced(s))
      BY <1>1, <3>1, FlagSteps
    <3> QED BY <1>1, <2>1, <3>1, <3>2 DEF Execute, Plain, PrefixOps, Traced, s, b
  <2>2. CASE Execute(SsLoads, AfterSsLoad) /\ Fresh
    <3>1. b.op \in SsLoads /\ cpu' = AfterSsLoad(s, b)
      BY <2>2 DEF Execute, s, b
    <3>2. Advances(s, cpu') /\ cpu'.flags = s.flags
      BY <1>1, <3>1, StackLoads, DataAdvances DEF OnlyData, SameFlags
    <3> QED BY <1>1, <2>2, <3>1, <3>2 DEF Execute, Plain, PrefixOps, SsLoads, Traced, s, b
  <2> QED BY <1>3, <2>1, <2>2 DEF ExecuteInhibiting
<1>4. CASE ExecuteStack
  <2>1. /\ b.op \in {"PUSH", "POP", "PUSHI", "PUSHF", "POPF", "PUSHA", "POPA", "ENTER", "LEAVE"}
        /\ cpu' = AfterStack(s, b)
    BY <1>4 DEF ExecuteStack, Execute, s, b
  <2>2. Advances(s, cpu')
    BY <1>1, <2>1, StackSteps
  <2> QED BY <1>4, <2>1, <2>2 DEF ExecuteStack, Execute, Plain, PrefixOps, RunsOn, SsLoads, s, b
<1>5. CASE ExecuteFlow
  <2>1. /\ b.op \in {"JMP", "JCXZ", "LOOP", "JMPF", "CALL", "RET", "CALLF", "RETF", "POPCS"}
        /\ cpu' = AfterFlow(s, b)
    BY <1>5 DEF ExecuteFlow, Execute, s, b
  <2>2. Advances(s, cpu')
    BY <1>1, <2>1, FlowSteps, DataAdvances
  <2> QED BY <1>5, <2>1, <2>2 DEF ExecuteFlow, Execute, Plain, PrefixOps, RunsOn, SsLoads, s, b
<1>6. CASE ExecuteHalt
  <2>1. b.op = "HLT" /\ cpu' = AfterHalt(s, b)
    BY <1>6 DEF ExecuteHalt, Execute, s, b
  <2>2. Advances(s, cpu')
    BY <1>1, <2>1, HaltSteps, DataAdvances
  <2> QED BY <1>6, <2>1, <2>2 DEF ExecuteHalt, Execute, Plain, PrefixOps, RunsOn, SsLoads, s, b
<1>7. CASE ExecuteInt
  <2>1. b.op \in {"INT", "INT3"} /\ cpu' = AfterInt(s, b)
    BY <1>7 DEF ExecuteInt, Execute, s, b
  <2>2. Advances(s, cpu')
    BY <1>1, <2>1, InterruptSteps
  <2> QED BY <1>7, <2>1, <2>2 DEF ExecuteInt, Execute, Plain, PrefixOps, RunsOn, SsLoads, s, b
<1>8. CASE ExecuteFault
  <2>1. b.op \in {"DIV", "BOUND"} /\ cpu' = AfterFault(s, b)
    BY <1>8 DEF ExecuteFault, Execute, s, b
  <2>2. Advances(s, cpu')
    BY <1>1, <2>1, InterruptSteps
  <2> QED BY <1>8, <2>1, <2>2 DEF ExecuteFault, Execute, Plain, PrefixOps, RunsOn, SsLoads, s, b
<1>9. CASE ExecuteReturn
  <2>1. b.op = "IRET" /\ cpu' = AfterReturn(s, b)
    BY <1>9 DEF ExecuteReturn, Execute, s, b
  <2>2. Advances(s, cpu')
    BY <1>1, <2>1, ReturnSteps
  <2> QED BY <1>9, <2>1, <2>2 DEF ExecuteReturn, Execute, Plain, PrefixOps, RunsOn, SsLoads, s, b
<1> QED BY <1>2, <1>3, <1>4, <1>5, <1>6, <1>7, <1>8, <1>9

LEMMA InterruptsTaken ==
  ASSUME DecoderInv, TakeRequest \/ (Trap /\ ~cpu.inhibit)
  PROVE  Interrupted
<1>1. \A n : LET t == PcInterrupt(cpu, n)
             IN  /\ SamePrefixes(cpu, t) /\ t.inhibit \in BOOLEAN
                 /\ Traced(t) => OnlyData(cpu, t)
  BY InterruptKeeps DEF DecoderInv, Advances, TraceFollows
<1>2. CASE TakeRequest
  <2>1. cpu' = PcInterrupt(cpu, Request)
    BY <1>2 DEF TakeRequest
  <2> QED BY <1>1, <1>2, <2>1
          DEF TakeRequest, TakesTrap, TakesRequest, Interrupted, Traced
<1>3. CASE Trap /\ ~cpu.inhibit
  <2>1. cpu' = PcInterrupt(cpu, 1)
    BY <1>3 DEF Trap
  <2> QED BY <1>1, <1>3, <2>1 DEF Trap, TakesTrap, Interrupted, Traced
<1> QED BY <1>2, <1>3

(* A prefix counts for itself and prolongs the other kind.                   *)
LEMMA PrefixStep ==
  ASSUME DecoderInv, ExecutePrefix
  PROVE  LET op == Byte(cpu).op
         IN  /\ IsCpu(cpu') /\ cpu'.cs = cpu.cs /\ cpu'.ip = cpu.ip + 1
             /\ cpu'.seg = (IF op = "SEG" THEN 2 ELSE IF cpu.seg > 1 THEN cpu.seg ELSE 0)
             /\ cpu'.rep = (IF op = "SEG" THEN IF cpu.rep > 1 THEN cpu.rep ELSE 0 ELSE 2)
             /\ SameFlags(cpu, cpu')
<1> DEFINE s == Counted(cpu)
           b == Byte(cpu)
<1>1. /\ IsCpu(s) /\ s.cs = cpu.cs /\ s.ip = cpu.ip /\ SameFlags(cpu, s)
      /\ s.seg = (IF cpu.seg > 0 THEN cpu.seg - 1 ELSE 0)
      /\ s.rep = (IF cpu.rep > 0 THEN cpu.rep - 1 ELSE 0)
  BY CountedPrefixes DEF DecoderInv
<1>2. cpu' = AfterPrefix(s, b)
  BY DEF ExecutePrefix, Execute
<1> HIDE DEF s, b
<1>3. LET t == AfterPrefix(s, b)
      IN  /\ IsCpu(t) /\ t.cs = s.cs /\ t.ip = s.ip + 1 /\ SameFlags(s, t)
          /\ t.seg = (IF b.op = "SEG" THEN 2 ELSE IF s.seg > 0 THEN s.seg + 1 ELSE 0)
          /\ t.rep = (IF b.op = "SEG" THEN IF s.rep > 0 THEN s.rep + 1 ELSE 0 ELSE 2)
  <2>1. CASE b.op = "SEG"
    BY <1>1, <2>1 DEF AfterPrefix, Skip, IsCpu, Fields, SameFlags
  <2>2. CASE b.op # "SEG"
    BY <1>1, <2>2 DEF AfterPrefix, Skip, IsCpu, Fields, SameFlags
  <2> QED BY <2>1, <2>2
<1>4. cpu.seg \in 0 .. 2 /\ cpu.rep \in 0 .. 2
  BY DEF DecoderInv
<1> QED BY <1>1, <1>2, <1>3, <1>4 DEF b, SameFlags

(* After a step that starts afresh no prefix is pending.                     *)
LEMMA FreshStart ==
  ASSUME IsCpu(cpu'), cpu'.inhibit \in BOOLEAN, Inside(cpu'), Fresh,
         cpu'.seg \in 0 .. 1, cpu'.rep \in 0 .. 1,
         phase' \in {"look", "execute"},
         recent' = [op |-> recent'.op, traced |-> recent'.traced],
         recent'.traced \in Nat,
         phase' = "look" => recent'.op \notin SsLoads
  PROVE  DecoderInv'
<1>1. cpu'.ip \in Nat /\ start'[2] = cpu'.ip
  BY DEF Inside, Fresh
<1>2. start'[2] + 1 .. cpu'.ip = {}
  BY <1>1
<1>3. BoundariesKept'
  BY <1>2 DEF BoundariesKept
<1> QED BY <1>1, <1>3 DEF DecoderInv

LEMMA PrefixBoundaries ==
  ASSUME DecoderInv, ExecutePrefix
  PROVE  DecoderInv'
<1> DEFINE op == Byte(cpu).op
           between == {Code[cpu.cs][i].op : i \in start[2] + 1 .. cpu.ip}
           after   == {Code[cpu'.cs][i].op : i \in start'[2] + 1 .. cpu'.ip}
<1>1. /\ op \in {"SEG", "REP"} /\ phase' = "look" /\ start' = start
      /\ recent'.op = op /\ recent'.traced \in Nat
      /\ recent' = [op |-> recent'.op, traced |-> recent'.traced]
  BY DEF ExecutePrefix, Execute, PrefixOps, RunsOn, SsLoads, DecoderInv
<1>2. /\ IsCpu(cpu') /\ cpu'.cs = cpu.cs /\ cpu'.ip = cpu.ip + 1
      /\ cpu'.seg = (IF op = "SEG" THEN 2 ELSE IF cpu.seg > 1 THEN cpu.seg ELSE 0)
      /\ cpu'.rep = (IF op = "SEG" THEN IF cpu.rep > 1 THEN cpu.rep ELSE 0 ELSE 2)
      /\ cpu'.inhibit = cpu.inhibit
  BY PrefixStep DEF SameFlags
<1>3. after = between \cup {op}
  <2>1. cpu.ip \in Nat /\ start[2] \in 0 .. cpu.ip
    BY DEF DecoderInv
  <2>2. start'[2] + 1 .. cpu'.ip = (start[2] + 1 .. cpu.ip) \cup {cpu.ip + 1}
    BY <1>1, <1>2, <2>1
  <2>3. op = Code[cpu.cs][cpu.ip + 1].op
    BY DEF Byte
  <2> HIDE DEF op
  <2> QED BY <1>2, <2>2, <2>3
<1>4. (cpu.seg > 1 <=> "SEG" \in between) /\ (cpu.rep > 1 <=> "REP" \in between)
  BY DEF DecoderInv, BoundariesKept
<1>5. cpu.seg \in 0 .. 2 /\ cpu.rep \in 0 .. 2 /\ cpu.ip \in Nat /\ start[2] \in 0 .. cpu.ip
      /\ cpu.inhibit \in BOOLEAN
  BY DEF DecoderInv
<1> HIDE DEF op, between, after
<1>6. (cpu'.seg > 1 <=> "SEG" \in after) /\ (cpu'.rep > 1 <=> "REP" \in after)
  BY <1>1, <1>2, <1>3, <1>4, <1>5
<1>7. BoundariesKept'
  BY <1>1, <1>6 DEF BoundariesKept, SsLoads, after
<1> QED BY <1>1, <1>2, <1>5, <1>7 DEF DecoderInv

LEMMA PlainBoundaries ==
  ASSUME DecoderInv, Plain
  PROVE  DecoderInv'
<1>1. IsCpu(cpu') /\ cpu'.seg \in 0 .. 1 /\ cpu'.rep \in 0 .. 1 /\ cpu'.inhibit \in BOOLEAN
  <2>1. /\ Counted(cpu).seg \in 0 .. 1 /\ Counted(cpu).rep \in 0 .. 1
        /\ Counted(cpu).inhibit \in BOOLEAN
    BY CountedPrefixes DEF DecoderInv, SameFlags
  <2> QED BY <2>1 DEF Plain, Advances, SamePrefixes, TraceFollows
<1>2. /\ recent' = [op |-> recent'.op, traced |-> recent'.traced]
      /\ recent'.traced \in Nat /\ recent'.op = Byte(cpu).op
  BY DEF Plain, DecoderInv
<1>3. phase' \in {"look", "execute"} /\ (phase' = "look" => recent'.op \notin SsLoads)
  BY <1>2 DEF Plain, RunsOn, SsLoads
<1> QED BY <1>1, <1>2, <1>3, FreshStart DEF Plain

LEMMA InterruptBoundaries ==
  ASSUME DecoderInv, Interrupted
  PROVE  DecoderInv'
<1>1. IsCpu(cpu') /\ cpu'.seg \in 0 .. 1 /\ cpu'.rep \in 0 .. 1 /\ cpu'.inhibit \in BOOLEAN
  BY DEF DecoderInv, Interrupted, SamePrefixes, Prefixed
<1>2. /\ recent' = [op |-> recent'.op, traced |-> recent'.traced]
      /\ recent'.traced \in Nat
  BY DEF DecoderInv, Interrupted
<1> QED BY <1>1, <1>2, FreshStart DEF Interrupted

\* The trap that inhibition puts off.
PutOff == Trap /\ cpu.inhibit

LEMMA PutOffStep ==
  ASSUME DecoderInv, PutOff
  PROVE  /\ SamePrefixes(cpu, cpu') /\ cpu'.flags = cpu.flags /\ cpu'.inhibit = FALSE
         /\ cpu'.cs = cpu.cs /\ cpu'.ip = cpu.ip
         /\ phase' = "execute" /\ UNCHANGED <<start, recent>>
BY DEF PutOff, Trap, DecoderInv, SamePrefixes, IsCpu, Fields

LEMMA PutOffBoundaries ==
  ASSUME DecoderInv, PutOff
  PROVE  DecoderInv'
BY PutOffStep DEF DecoderInv, SamePrefixes, BoundariesKept

LEMMA OtherBoundaries ==
  ASSUME DecoderInv, LookInVain \/ Ask \/ UNCHANGED vars
  PROVE  DecoderInv'
BY DEF LookInVain, Ask, vars, DecoderInv, BoundariesKept

LEMMA StepCases ==
  ASSUME DecoderInv, [Next]_vars
  PROVE  \/ Plain \/ Interrupted \/ PutOff \/ ExecutePrefix
         \/ LookInVain \/ Ask \/ UNCHANGED vars
BY PlainSteps, InterruptsTaken DEF Next, Step, PutOff

LEMMA DecoderStep == DecoderInv /\ [Next]_vars => DecoderInv'
BY StepCases, PlainBoundaries, InterruptBoundaries, PutOffBoundaries,
   PrefixBoundaries, OtherBoundaries

LEMMA DecoderStart == Init => DecoderInv
<1> SUFFICES ASSUME Init PROVE DecoderInv
  OBVIOUS
<1>1. IsCpu(cpu) /\ cpu.ip = 0 /\ cpu.inhibit = FALSE /\ cpu.seg = 0 /\ cpu.rep = 0
  BY DEF Init, IsCpu, Fields
<1>2. start[2] = 0 /\ phase = "look" /\ recent = [op |-> "none", traced |-> 0]
  BY DEF Init
<1>3. start[2] + 1 .. cpu.ip = {}
  BY <1>1, <1>2
<1>4. BoundariesKept
  BY <1>1, <1>2, <1>3 DEF BoundariesKept, SsLoads
<1>5. recent = [op |-> recent.op, traced |-> recent.traced] /\ recent.traced \in Nat
  BY <1>2
<1>6. cpu.ip \in Nat /\ cpu.seg \in 0 .. 2 /\ cpu.rep \in 0 .. 2 /\ start[2] \in 0 .. cpu.ip
  BY <1>1, <1>2
<1> QED BY <1>1, <1>2, <1>4, <1>5, <1>6 DEF DecoderInv

(* An instruction runs under exactly the prefixes before it, and no interrupt *)
(* falls between the load of a stack segment and the next instruction, for   *)
(* every program (PcI8086::step, the prefix counts and the running on).      *)
THEOREM BoundariesHold == Spec => []BoundariesKept
<1>1. DecoderInv => BoundariesKept
  BY DEF DecoderInv
<1> QED BY DecoderStart, DecoderStep, <1>1, PTL DEF Spec

-----------------------------------------------------------------------------
(* Tracing.                                                                  *)

\* No prefixed POPF or IRET turns tracing on: the first trap of such a trace
\* comes one instruction late.
TracingStartsPlain == [][~Traced(cpu) /\ Traced(cpu') => ~Prefixed(cpu')]_vars

\* What ran since the last trap, or since tracing began with the trap inhibited.
TraceInv ==
  Traced(cpu) =>
    /\ phase = "execute" \/ Prefixed(cpu) => recent.traced = 0 /\ ~cpu.inhibit
    /\ phase = "look" /\ ~Prefixed(cpu) => recent.traced = IF cpu.inhibit THEN 0 ELSE 1

LEMMA PlainTraced ==
  ASSUME DecoderInv, TraceInv, Plain,
         ~Traced(cpu) /\ Traced(cpu') => ~Prefixed(cpu')
  PROVE  TraceInv'
<1> SUFFICES ASSUME Traced(cpu')
             PROVE  /\ phase' = "execute" \/ Prefixed(cpu') => recent'.traced = 0 /\ ~cpu'.inhibit
                    /\ phase' = "look" /\ ~Prefixed(cpu')
                         => recent'.traced = IF cpu'.inhibit THEN 0 ELSE 1
  BY DEF TraceInv
<1>1. SameFlags(cpu, Counted(cpu)) /\ cpu.inhibit \in BOOLEAN
  BY CountedPrefixes DEF DecoderInv
<1>2. cpu'.inhibit = (Traced(cpu) => cpu.inhibit)
  BY <1>1 DEF Plain, Advances, TraceFollows, SameFlags, Traced
<1>3. Prefixed(cpu') <=> Prefixed(Counted(cpu))
  BY DEF Plain, Advances, SamePrefixes, Prefixed
<1>4. CASE Traced(cpu)
  <2>1. recent.traced = 0 /\ ~cpu.inhibit
    BY <1>4 DEF TraceInv, Plain
  <2>2. recent'.traced = IF Uncounted(cpu, Byte(cpu).op) THEN 0 ELSE 1
    BY <1>4, <2>1 DEF Plain, Traced
  <2>3. Uncounted(cpu, Byte(cpu).op) <=> phase' = "execute" \/ Prefixed(cpu')
    BY <1>3 DEF Plain, Uncounted
  <2>4. phase' = "look" => phase' # "execute"
    OBVIOUS
  <2> QED BY <1>2, <1>4, <2>1, <2>2, <2>3, <2>4
<1>5. CASE ~Traced(cpu)
  <2>1. recent'.traced = 0 /\ cpu'.inhibit = TRUE /\ ~Prefixed(cpu')
    BY <1>2, <1>5 DEF Plain, Traced
  <2>2. phase' = "look"
    BY <1>5 DEF Plain
  <2> QED BY <2>1, <2>2
<1> QED BY <1>4, <1>5

LEMMA PrefixTraced ==
  ASSUME DecoderInv, TraceInv, ExecutePrefix
  PROVE  TraceInv'
<1>1. /\ phase = "execute" /\ phase' = "look"
      /\ Traced(cpu) => recent'.traced = recent.traced
  <2>1. RunsOn(Byte(cpu).op) = FALSE /\ Uncounted(cpu, Byte(cpu).op)
    BY DEF ExecutePrefix, Execute, PrefixOps, RunsOn, SsLoads, Uncounted
  <2> QED BY <2>1 DEF ExecutePrefix, Execute, Traced, DecoderInv
<1>2. (Traced(cpu') <=> Traced(cpu)) /\ cpu'.inhibit = cpu.inhibit
  BY PrefixStep DEF SameFlags, Traced
<1>3. Prefixed(cpu')
  BY PrefixStep DEF Prefixed
<1> QED BY <1>1, <1>2, <1>3 DEF TraceInv

LEMMA InterruptTraced ==
  ASSUME DecoderInv, TraceInv, Interrupted
  PROVE  TraceInv'
<1> SUFFICES ASSUME Traced(cpu')
             PROVE  phase' = "execute" /\ recent'.traced = 0 /\ ~cpu'.inhibit
  BY DEF TraceInv
<1>1. Traced(cpu) /\ cpu'.inhibit = cpu.inhibit
  BY DEF Interrupted, OnlyData, SameFlags, Traced
<1>2. ~cpu.inhibit /\ recent' = [recent EXCEPT !.traced = 0]
  BY <1>1 DEF Interrupted
<1> QED BY <1>1, <1>2 DEF Interrupted, DecoderInv

LEMMA PutOffTraced ==
  ASSUME DecoderInv, TraceInv, PutOff
  PROVE  TraceInv'
<1>1. Traced(cpu) /\ ~Prefixed(cpu) /\ phase = "look" /\ cpu.inhibit
  BY DEF PutOff, Trap, TakesTrap, Traced
<1>2. recent.traced = 0
  BY <1>1 DEF TraceInv
<1>3. phase' = "execute" /\ recent' = recent /\ cpu'.inhibit = FALSE
  BY PutOffStep
<1> QED BY <1>2, <1>3 DEF TraceInv

LEMMA OtherTraced ==
  ASSUME DecoderInv, TraceInv, LookInVain \/ Ask \/ UNCHANGED vars
  PROVE  TraceInv'
<1>1. CASE LookInVain
  <2>1. Traced(cpu) => Prefixed(cpu)
    BY <1>1 DEF LookInVain, TakesTrap, Traced
  <2> QED BY <1>1, <2>1 DEF LookInVain, TraceInv, Traced, Prefixed
<1>2. CASE Ask \/ UNCHANGED vars
  BY <1>2 DEF Ask, vars, TraceInv, Traced, Prefixed
<1> QED BY <1>1, <1>2

LEMMA TraceStep ==
  ASSUME DecoderInv, TraceInv, [Next]_vars,
         [~Traced(cpu) /\ Traced(cpu') => ~Prefixed(cpu')]_vars
  PROVE  TraceInv'
<1>1. CASE Plain /\ (~Traced(cpu) /\ Traced(cpu') => ~Prefixed(cpu'))
  BY <1>1, PlainTraced
<1>2. CASE UNCHANGED vars
  BY <1>2, OtherTraced
<1> QED BY <1>1, <1>2, StepCases, PrefixTraced, InterruptTraced, PutOffTraced,
           OtherTraced

(* Between two single-step traps exactly one instruction runs that is        *)
(* neither prefixed nor inhibiting, for every program in which no prefixed   *)
(* POPF or IRET turns tracing on (PcI8086::step and set_flags).              *)
THEOREM TracesAdvance == Spec /\ TracingStartsPlain => TracedOnce
<1>1. Init => TraceInv
  BY DEF Init, TraceInv, Traced
<1>2. DecoderInv /\ TraceInv /\ [Next]_vars
        /\ [~Traced(cpu) /\ Traced(cpu') => ~Prefixed(cpu')]_vars
      => TraceInv'
  BY TraceStep
<1>3. TraceInv
        => [phase = "look" /\ TakesTrap(cpu) /\ ~cpu.inhibit => recent.traced = 1]_vars
  BY DEF TraceInv, TakesTrap, Traced
<1> QED BY DecoderStart, DecoderStep, <1>1, <1>2, <1>3, PTL
        DEF Spec, TracingStartsPlain, TracedOnce

-----------------------------------------------------------------------------
(* Which instructions each action executes.                                  *)
LEMMA Executed ==
  /\ ExecuteTwoOperand => done'.op \in TwoOperand
  /\ ExecuteTest => done'.op = "TEST"
  /\ ExecuteImmediate => done'.op \in TwoOperand
  /\ ExecuteOneOperand => done'.op \in {"INC", "DEC", "NEG", "NOT"}
  /\ ExecuteFastForm => done'.op \in {"ADD", "ADC", "INC", "DEC"}
  /\ ExecuteShift => done'.op \in Rotates \cup Shifts
  /\ ExecuteMultiply => done'.op \in {"MUL", "IMUL"}
  /\ ExecuteMultiplyImmediate => done'.op = "IMUL3"
  /\ ExecuteDivide => done'.op \in {"DIV", "IDIV"}
  /\ ExecutePacked => done'.op \in {"DAA", "DAS"}
  /\ ExecuteUnpacked => done'.op \in {"AAA", "AAS"}
  /\ ExecuteDigits => done'.op \in {"AAM", "AAD"}
  /\ ExecuteExtend => done'.op = "extend"
  /\ Finish => done'.op = "none"
  /\ Decode => done'.op = "decode"
  /\ Access => done'.op = "access"
  /\ ExecuteMove => done'.op \in {"MOVS", "STOS", "LODS"}
  /\ ExecuteCompare => done'.op \in {"CMPS", "SCAS"}
  /\ ExecutePort => done'.op = "INS"
<1>1. ExecuteTwoOperand => done'.op \in TwoOperand
  BY DEF ExecuteTwoOperand, Record
<1>2. ExecuteTest => done'.op = "TEST"
  BY DEF ExecuteTest, Record
<1>3. ExecuteImmediate => done'.op \in TwoOperand
  BY DEF ExecuteImmediate, Record
<1>4. ExecuteOneOperand => done'.op \in {"INC", "DEC", "NEG", "NOT"}
  BY DEF ExecuteOneOperand, Record
<1>5. ExecuteFastForm => done'.op \in {"ADD", "ADC", "INC", "DEC"}
  BY DEF ExecuteFastForm, Record
<1>6. ExecuteShift => done'.op \in Rotates \cup Shifts
  BY DEF ExecuteShift, Record
<1>7. ExecuteMultiply => done'.op \in {"MUL", "IMUL"}
  BY DEF ExecuteMultiply, Record
<1>8. ExecuteMultiplyImmediate => done'.op = "IMUL3"
  BY DEF ExecuteMultiplyImmediate, Record
<1>9. ExecuteDivide => done'.op \in {"DIV", "IDIV"}
  BY DEF ExecuteDivide, Record
<1>10. ExecutePacked => done'.op \in {"DAA", "DAS"}
  BY DEF ExecutePacked, Record
<1>11. ExecuteUnpacked => done'.op \in {"AAA", "AAS"}
  BY DEF ExecuteUnpacked, Record
<1>12. ExecuteDigits => done'.op \in {"AAM", "AAD"}
  BY DEF ExecuteDigits, Record
<1>13. ExecuteExtend => done'.op = "extend"
  BY DEF ExecuteExtend, Record
<1>14. Finish => done'.op = "none"
  BY DEF Finish
<1>15. Decode => done'.op = "decode"
  BY DEF Decode, Record
<1>16. Access => done'.op = "access"
  BY DEF Access, Record
<1>17. ExecuteMove => done'.op \in {"MOVS", "STOS", "LODS"}
  BY DEF ExecuteMove, Record
<1>18. ExecuteCompare => done'.op \in {"CMPS", "SCAS"}
  BY DEF ExecuteCompare, Record
<1>19. ExecutePort => done'.op = "INS"
  BY DEF ExecutePort, Record
<1> QED BY <1>1, <1>2, <1>3, <1>4, <1>5, <1>6, <1>7, <1>8, <1>9, <1>10, <1>11,
           <1>12, <1>13, <1>14, <1>15, <1>16, <1>17, <1>18, <1>19

(* No address is in the video memory and in the window.                      *)
LEMMA Apart ==
  ASSUME NEW active \in BOOLEAN, NEW a \in VideoStart .. VideoEnd - 1
  PROVE  ~InEms(active, a) /\ ~InEms(active, a + 1)
BY LayoutAssumption DEF InEms

(* An address below the top stands for itself; the one after the last is 0.  *)
LEMMA Wrapped ==
  /\ \A a \in 0 .. Top - 1 : a % Top = a
  /\ Top % Top = 0
BY LayoutAssumption

LEMMA WordAgrees ==
  ASSUME NEW active \in BOOLEAN, NEW a \in 0 .. Top - 1,
         a \notin {VideoStart - 1, VideoEnd - 1}
  PROVE  WordHome(active, a) = <<ByteHome(active, a), ByteHome(active, a + 1)>>
<1>1. a % Top = a /\ a \in Nat
  BY Wrapped, LayoutAssumption
<1>2. CASE a = Top - 1
  <2>1. (a + 1) % Top = 0
    BY <1>2, Wrapped, LayoutAssumption
  <2>2. /\ a \notin VideoStart .. VideoEnd - 1 /\ 0 \notin VideoStart .. VideoEnd - 1
        /\ ~InEms(active, a) /\ ~InEms(active, a + 1) /\ ~InEms(active, 0)
    BY <1>1, <1>2, LayoutAssumption DEF InEms
  <2>3. /\ ByteHome(active, a) = Home("ram", a)
        /\ ByteHome(active, a + 1) = Home("ram", 0)
    BY <1>1, <2>1, <2>2 DEF ByteHome
  <2>4. WordHome(active, a) = <<Home("ram", a), Home("ram", 0)>>
    <3>1. InEms(active, a) = FALSE /\ InEms(active, a + 1) = FALSE
      BY <2>2 DEF InEms
    <3>2. ~(InEms(active, a) # InEms(active, a + 1))
      BY <3>1
    <3> QED BY <1>1, <2>1, <2>2, <3>2, ZenonT(30) DEF WordHome
  <2> QED BY <2>3, <2>4
<1>3. CASE a < Top - 1
  <2>1. (a + 1) % Top = a + 1
    BY <1>3, Wrapped, LayoutAssumption
  <2>2. a \in VideoStart .. VideoEnd - 1 <=> a + 1 \in VideoStart .. VideoEnd - 1
    BY <1>1, LayoutAssumption
  <2>3. CASE InEms(active, a) # InEms(active, a + 1)
    <3>1. a \notin VideoStart .. VideoEnd - 1
      BY <2>3, Apart DEF InEms
    <3> QED BY <1>1, <2>3, <3>1 DEF WordHome
  <2>4. CASE InEms(active, a) = InEms(active, a + 1)
    <3>1. WordHome(active, a) =
            CASE a \in VideoStart .. VideoEnd - 1 -> <<Home("video", a), Home("video", a + 1)>>
              [] InEms(active, a) -> <<Home("ems", a), Home("ems", a + 1)>>
              [] OTHER -> <<Home("ram", a), Home("ram", (a + 1) % Top)>>
      BY <1>1, <2>4 DEF WordHome
    <3>2. CASE a \in VideoStart .. VideoEnd - 1
      <4>1. ~InEms(active, a) /\ ~InEms(active, a + 1)
        BY <3>2, Apart
      <4>2. /\ ByteHome(active, a) = Home("video", a)
            /\ ByteHome(active, a + 1) = Home("video", a + 1)
        BY <1>1, <2>1, <2>2, <3>2, <4>1 DEF ByteHome
      <4> QED BY <3>1, <3>2, <4>1, <4>2
    <3>3. CASE a \notin VideoStart .. VideoEnd - 1 /\ InEms(active, a)
      <4>1. /\ ByteHome(active, a) = Home("ems", a)
            /\ ByteHome(active, a + 1) = Home("ems", a + 1)
        BY <1>1, <2>1, <2>2, <2>4, <3>3 DEF ByteHome
      <4> QED BY <3>1, <3>3, <4>1
    <3>4. CASE a \notin VideoStart .. VideoEnd - 1 /\ ~InEms(active, a)
      <4>1. /\ ByteHome(active, a) = Home("ram", a)
            /\ ByteHome(active, a + 1) = Home("ram", a + 1)
        BY <1>1, <2>1, <2>2, <2>4, <3>4 DEF ByteHome
      <4> QED BY <2>1, <3>1, <3>4, <4>1
    <3> QED BY <3>2, <3>3, <3>4
  <2> QED BY <2>3, <2>4
<1> QED BY <1>2, <1>3, LayoutAssumption

LEMMA FetchAgrees ==
  ASSUME NEW active \in BOOLEAN, NEW a \in 0 .. Top - 1, NEW i \in 1 .. Fetched
  PROVE  FetchHome(active, a)[i] = ByteHome(active, a + i - 1)
<1> DEFINE overlaps(from, to) == a < to /\ a + Fetched > from
           oneByOne == \/ a > Top - Fetched
                       \/ overlaps(VideoStart, VideoEnd)
                       \/ active /\ overlaps(EmsBase, EmsEnd)
<1>1. a % Top = a /\ i \in Int /\ 1 <= i /\ i <= 6 /\ a \in Int
  BY Wrapped, LayoutAssumption DEF Fetched
<1>2. FetchHome(active, a)[i] = IF oneByOne THEN ByteHome(active, a + i - 1)
                                ELSE Home("ram", a + i - 1)
  BY <1>1 DEF FetchHome
<1>3. ASSUME ~oneByOne PROVE ByteHome(active, a + i - 1) = Home("ram", a + i - 1)
  <2>1. a + i - 1 \in 0 .. Top - 1
    BY <1>1, <1>3, LayoutAssumption DEF Fetched
  <2>2. (a + i - 1) % Top = a + i - 1
    BY <2>1, Wrapped
  <2>3. a + i - 1 \notin VideoStart .. VideoEnd - 1
    BY <1>1, <1>3, LayoutAssumption DEF Fetched
  <2>4. ~InEms(active, a + i - 1)
    BY <1>1, <1>3, LayoutAssumption DEF Fetched, InEms
  <2> QED BY <2>2, <2>3, <2>4 DEF ByteHome
<1> QED BY <1>2, <1>3

LEMMA BlockAgrees ==
  ASSUME NEW active \in BOOLEAN, NEW a \in 0 .. Top - 1, NEW size \in Nat,
         NEW i \in DOMAIN BlockHome(active, a, size)
  PROVE  LET byte == ByteHome(active, a + i - 1)
         IN  BlockHome(active, a, size)[i] = byte \/ byte.kind = "video"
<1> DEFINE at == a + i - 1
           mapped == active /\ a < EmsEnd /\ a + size > EmsBase
<1>1. CASE a + size > Top
  <2>1. BlockHome(active, a, size) = <<>>
    BY <1>1 DEF BlockHome
  <2> QED BY <2>1
<1>2. CASE a + size <= Top
  <2>1. /\ i \in 1 .. size
        /\ BlockHome(active, a, size)[i] =
             IF mapped THEN HostHome(active, at) ELSE Home("ram", at)
    BY <1>2, LayoutAssumption DEF BlockHome
  <2>2. at \in 0 .. Top - 1 /\ at % Top = at
    BY <1>2, <2>1, Wrapped, LayoutAssumption
  <2>3. InEms(active, at) => mapped
    BY <2>1, LayoutAssumption DEF InEms
  <2>4. CASE at \in VideoStart .. VideoEnd - 1
    <3>1. ~InEms(active, at)
      BY <2>4, Apart
    <3> QED BY <2>2, <2>4, <3>1 DEF ByteHome, Home
  <2>5. CASE at \notin VideoStart .. VideoEnd - 1
    <3>1. ~(at >= Top)
      BY <2>2, LayoutAssumption
    <3>2. HostHome(active, at) = IF InEms(active, at) THEN Home("ems", at)
                                 ELSE Home("ram", at)
      BY <3>1 DEF HostHome
    <3>3. ByteHome(active, at) = IF InEms(active, at) THEN Home("ems", at)
                                 ELSE Home("ram", at)
      BY <2>2, <2>5 DEF ByteHome
    <3>4. ~mapped => ~InEms(active, at)
      BY <2>3
    <3> QED BY <2>1, <3>2, <3>3, <3>4
  <2> QED BY <2>4, <2>5
<1> QED BY <1>1, <1>2, LayoutAssumption

(* MemoryAgrees for every layout of the address space in which the video     *)
(* memory lies below the EMS window and the window below the top, for every  *)
(* address and every size of a block: the word, the six bytes of a fetch and *)
(* a block are the bytes RMEM8 finds one by one.                             *)
THEOREM MemoryCorrect == InstructionSpec => []MemoryAgrees
<1>1. NothingExecuted => MemoryAgrees
  BY DEF NothingExecuted, MemoryAgrees
<1>2. ASSUME Access PROVE MemoryAgrees'
  <2>1. PICK active \in BOOLEAN, a \in 0 .. Top - 1, size \in 1 .. Fetched :
          done' = [op |-> "access", w |-> 16, a |-> a, b |-> active, before |-> {},
                   out |-> [word |-> WordHome(active, a), fetch |-> FetchHome(active, a),
                            block |-> BlockHome(active, a, size)]]
    BY <1>2 DEF Access, Record
  <2>2. /\ done'.a = a /\ done'.b = active /\ done'.out.word = WordHome(active, a)
        /\ done'.out.fetch = FetchHome(active, a)
        /\ done'.out.block = BlockHome(active, a, size)
    BY <2>1
  <2>3. a + 1 - 1 = a /\ a + 2 - 1 = a + 1 /\ size \in Nat
    BY LayoutAssumption
  <2>4. a \notin {VideoStart - 1, VideoEnd - 1} =>
          done'.out.word = <<ByteHome(active, a + 1 - 1), ByteHome(active, a + 2 - 1)>>
    BY <2>2, <2>3, WordAgrees
  <2>5. \A i \in 1 .. Fetched : done'.out.fetch[i] = ByteHome(active, a + i - 1)
    BY <2>2, FetchAgrees
  <2>6. \A i \in DOMAIN done'.out.block :
          \/ done'.out.block[i] = ByteHome(active, a + i - 1)
          \/ ByteHome(active, a + i - 1).kind = "video"
    BY <2>2, <2>3, BlockAgrees
  <2> QED BY <2>2, <2>4, <2>5, <2>6 DEF MemoryAgrees
<1>3. MemoryAgrees /\ [InstructionNext]_done => MemoryAgrees'
  <2> SUFFICES ASSUME MemoryAgrees, [InstructionNext]_done, ~Access PROVE MemoryAgrees'
    BY <1>2
  <2>1. CASE UNCHANGED done
    BY <2>1 DEF MemoryAgrees
  <2>2. ASSUME InstructionNext PROVE done'.op # "access"
    BY <2>2, Executed
       DEF InstructionNext, ArithmeticNext, TwoOperand, Rotates, Shifts
  <2> QED BY <2>1, <2>2 DEF MemoryAgrees
<1> QED BY <1>1, <1>3, PTL DEF InstructionSpec

-----------------------------------------------------------------------------
(* The tables of sizes, with their rows told apart.                          *)
LEMMA Sizes ==
  ASSUME NEW op \in 0 .. 255
  PROVE  BaseSize(op) =
           IF op \in {154, 194, 195} \cup (202 .. 207) \cup (232 .. 235) THEN 0
           ELSE IF op = 200 THEN 4
           ELSE IF op \in {104, 192, 193} \cup (160 .. 163) THEN 3
           ELSE IF \/ HasMod(op)
                   \/ op \in {15, 106, 212, 213, 241} \cup (112 .. 127) \cup (224 .. 231)
                THEN 2 ELSE 1
<1> DEFINE none == op \in {154, 194, 195} \cup (202 .. 207) \cup (232 .. 235)
           three == op \in {104, 192, 193} \cup (160 .. 163)
           fields == HasMod(op) /\ op \notin {192, 193}
           two == op \in {15, 106, 212, 213, 241} \cup (112 .. 127) \cup (224 .. 231)
<1>1. /\ none => op # 200 /\ ~three /\ ~fields /\ ~two
      /\ op = 200 => ~three /\ ~fields /\ ~two
      /\ three => ~fields /\ ~two
      /\ fields => ~two
      /\ ~three => (HasMod(op) => fields)
  BY DEF HasMod, Arithmetic
<1>2. BaseSize(op) = CASE none -> 0 [] op = 200 -> 4 [] three -> 3 [] fields -> 2
                       [] two -> 2 [] OTHER -> 1
  BY DEF BaseSize
<1> HIDE DEF none, three, fields, two
<1>3. BaseSize(op) = IF none THEN 0 ELSE IF op = 200 THEN 4 ELSE IF three THEN 3
                     ELSE IF fields \/ two THEN 2 ELSE 1
  BY <1>1, <1>2
<1>4. BaseSize(op) = IF none THEN 0 ELSE IF op = 200 THEN 4 ELSE IF three THEN 3
                     ELSE IF HasMod(op) \/ two THEN 2 ELSE 1
  BY <1>1, <1>3 DEF fields
<1> QED BY <1>4 DEF none, three, two

LEMMA Displacements ==
  ASSUME NEW mod \in 0 .. 3, NEW rm \in 0 .. 7
  PROVE  /\ Displacement(mod, rm) = IF mod = 0 THEN IF rm = 6 THEN 2 ELSE 0
                                    ELSE IF mod = 3 THEN 0 ELSE mod
         /\ Displacement(mod, rm) \in Nat
<1>1. ~(mod = 0 /\ mod = 3)
  OBVIOUS
<1>2. Displacement(mod, rm) = IF mod = 0 THEN IF rm = 6 THEN 2 ELSE 0
                              ELSE IF mod = 3 THEN 0 ELSE mod
  BY <1>1 DEF Displacement
<1> QED BY <1>2

LEMMA Immediates ==
  ASSUME NEW op \in 0 .. 255, NEW reg \in 0 .. 7
  PROVE  RefImmediate(op, reg) =
           IF op < 64 /\ op % 8 \in {4, 5} THEN 1 + (op % 2)
           ELSE IF op \in {246, 247} /\ reg = 0 THEN 1 + (op % 2)
           ELSE IF op \in {154, 234} THEN 4
           ELSE IF op = 200 THEN 3
           ELSE IF op \in {104, 105, 129, 169, 194, 199, 202, 232, 233}
                          \cup (160 .. 163) \cup (184 .. 191) THEN 2
           ELSE IF op \in {106, 107, 128, 130, 131, 168, 192, 193, 198, 205, 212, 213, 235}
                          \cup (112 .. 127) \cup (176 .. 183) \cup (224 .. 231) THEN 1
           ELSE 0
<1> DEFINE short == op < 64 /\ op % 8 \in {4, 5}
           test == op \in {246, 247} /\ reg = 0
           far == op \in {154, 234}
           word == op \in {104, 105, 129, 169, 194, 199, 202, 232, 233}
                          \cup (160 .. 163) \cup (184 .. 191)
           byte == op \in {106, 107, 128, 130, 131, 168, 192, 193, 198, 205, 212, 213, 235}
                          \cup (112 .. 127) \cup (176 .. 183) \cup (224 .. 231)
<1>1. /\ short => ~test /\ ~far /\ op # 200 /\ ~word /\ ~byte
      /\ test => ~far /\ op # 200 /\ ~word /\ ~byte
      /\ far => op # 200 /\ ~word /\ ~byte
      /\ op = 200 => ~word /\ ~byte
      /\ word => ~byte
  OBVIOUS
<1>2. RefImmediate(op, reg) =
        CASE short -> 1 + (op % 2) [] test -> 1 + (op % 2) [] far -> 4 [] op = 200 -> 3
          [] word -> 2 [] byte -> 1 [] OTHER -> 0
  BY DEF RefImmediate
<1> HIDE DEF short, test, far, word, byte
<1>3. RefImmediate(op, reg) =
        IF short THEN 1 + (op % 2) ELSE IF test THEN 1 + (op % 2) ELSE IF far THEN 4
        ELSE IF op = 200 THEN 3 ELSE IF word THEN 2 ELSE IF byte THEN 1 ELSE 0
  BY <1>1, <1>2
<1> QED BY <1>3 DEF short, test, far, word, byte

(* The bytes that fields and displacement take, by the manual.               *)
FieldBytes(op, mod, rm) ==
  IF ~RefHasMod(op) THEN 0
  ELSE 1 + (CASE mod = 1 -> 1
              [] mod = 2 \/ (mod = 0 /\ rm = 6) -> 2
              [] OTHER -> 0)

LEMMA FieldSizes ==
  ASSUME NEW op \in 0 .. 255, NEW mod \in 0 .. 3, NEW rm \in 0 .. 7
  PROVE  FieldBytes(op, mod, rm) = IF RefHasMod(op) THEN 1 + Displacement(mod, rm) ELSE 0
<1>1. ~(mod = 1 /\ (mod = 2 \/ (mod = 0 /\ rm = 6)))
  OBVIOUS
<1>2. (CASE mod = 1 -> 1 [] mod = 2 \/ (mod = 0 /\ rm = 6) -> 2 [] OTHER -> 0) =
        IF mod = 1 THEN 1 ELSE IF mod = 2 \/ (mod = 0 /\ rm = 6) THEN 2 ELSE 0
  BY <1>1
<1>3. Displacement(mod, rm) = IF mod = 1 THEN 1
                              ELSE IF mod = 2 \/ (mod = 0 /\ rm = 6) THEN 2 ELSE 0
  BY Displacements
<1> QED BY <1>2, <1>3 DEF FieldBytes

LEMMA LengthAgrees ==
  ASSUME NEW op \in 0 .. 255, NEW mod \in 0 .. 3, NEW reg \in 0 .. 7, NEW rm \in 0 .. 7,
         ~Undocumented(op, mod, reg), ~Leaves(op)
  PROVE  Length(op, mod, reg, rm) = 1 + FieldBytes(op, mod, rm) + RefImmediate(op, reg)
<1> DEFINE accumulator == Arithmetic(op) /\ op % 8 > 3
           immediate == op \in 128 .. 131
           test == op \in {246, 247} /\ reg = 0
           unary == op \in {246, 247} /\ reg > 1
           special == op \in {98, 105, 107}
           three == op \in (160 .. 163) \cup {232, 233} \cup (184 .. 191)
           two == op \in (112 .. 127) \cup (224 .. 227) \cup (176 .. 183) \cup {205, 235}
           one == op \in {204, 206}
           extra == IF op = 98 THEN 0 ELSE 1 + (107 - op) \div 2
<1>1. /\ accumulator => ~immediate /\ ~test /\ ~unary /\ ~special /\ ~three /\ ~two /\ op # 154 /\ ~one
      /\ immediate => ~test /\ ~unary /\ ~special /\ ~three /\ ~two /\ op # 154 /\ ~one
      /\ test => ~unary /\ ~special /\ ~three /\ ~two /\ op # 154 /\ ~one
      /\ unary => ~special /\ ~three /\ ~two /\ op # 154 /\ ~one
      /\ special => ~three /\ ~two /\ op # 154 /\ ~one
      /\ three => ~two /\ op # 154 /\ ~one
      /\ two => op # 154 /\ ~one
      /\ op = 154 => ~one
  BY DEF Arithmetic
<1>2. Length(op, mod, reg, rm) =
        CASE accumulator -> -1 + Immediate(op) + Computed(8 * (op \div 8), 3, rm)
          [] immediate -> Immediate(op) + Computed(8 * reg, mod, rm)
          [] test -> 1 + (op % 2) + Computed(32, mod, rm)
          [] unary -> Computed(40, mod, rm)
          [] special -> 2 + Displacement(mod, rm) + extra
          [] three -> 3 [] two -> 2 [] op = 154 -> 5 [] one -> 1
          [] OTHER -> Computed(op, mod, rm)
  BY DEF Length
<1> HIDE DEF accumulator, immediate, test, unary, special, three, two, one, extra
<1>3. Length(op, mod, reg, rm) =
        IF accumulator THEN -1 + Immediate(op) + Computed(8 * (op \div 8), 3, rm)
        ELSE IF immediate THEN Immediate(op) + Computed(8 * reg, mod, rm)
        ELSE IF test THEN 1 + (op % 2) + Computed(32, mod, rm)
        ELSE IF unary THEN Computed(40, mod, rm)
        ELSE IF special THEN 2 + Displacement(mod, rm) + extra
        ELSE IF three THEN 3 ELSE IF two THEN 2 ELSE IF op = 154 THEN 5
        ELSE IF one THEN 1 ELSE Computed(op, mod, rm)
  BY <1>1, <1>2
<1>4. CASE accumulator
  <2>1. 8 * (op \div 8) \in 0 .. 255 /\ 8 * (op \div 8) < 64 /\ (8 * (op \div 8)) % 8 = 0
    BY <1>4 DEF accumulator, Arithmetic
  <2>2. Computed(8 * (op \div 8), 3, rm) = 2
    BY <2>1, Sizes, Displacements DEF Computed, HasMod, Arithmetic, AddsWidth
  <2>3. Immediate(op) = 1 + (op % 2)
    BY <1>4 DEF accumulator, Arithmetic, Immediate, ImmediateByte
  <2>4. FieldBytes(op, mod, rm) = 0 /\ RefImmediate(op, reg) = 1 + (op % 2)
    BY <1>4, Immediates DEF accumulator, Arithmetic, FieldBytes, RefHasMod
  <2> QED BY <1>3, <1>4, <2>2, <2>3, <2>4
<1>5. CASE immediate
  <2>1. 8 * reg \in 0 .. 255 /\ 8 * reg < 64 /\ (8 * reg) % 8 = 0
    OBVIOUS
  <2>2. Computed(8 * reg, mod, rm) = 2 + Displacement(mod, rm)
    BY <2>1, Sizes, Displacements DEF Computed, HasMod, Arithmetic, AddsWidth
  <2>3. FieldBytes(op, mod, rm) = 1 + Displacement(mod, rm)
    BY <1>5, FieldSizes DEF immediate, RefHasMod
  <2>4. RefImmediate(op, reg) = IF op = 129 THEN 2 ELSE 1
    BY <1>5, Immediates DEF immediate
  <2>5. Immediate(op) = IF op = 129 THEN 2 ELSE 1
    BY <1>5 DEF immediate, Immediate, ImmediateByte
  <2>6. Displacement(mod, rm) \in Nat
    BY Displacements
  <2> QED BY <1>1, <1>3, <1>5, <2>2, <2>3, <2>4, <2>5, <2>6
<1>6. CASE test
  <2>1. Computed(32, mod, rm) = 2 + Displacement(mod, rm)
    BY Sizes, Displacements DEF Computed, HasMod, Arithmetic, AddsWidth
  <2>2. FieldBytes(op, mod, rm) = 1 + Displacement(mod, rm)
    BY <1>6, FieldSizes DEF test, RefHasMod
  <2>3. RefImmediate(op, reg) = 1 + (op % 2)
    BY <1>6, Immediates DEF test
  <2>4. Displacement(mod, rm) \in Nat /\ op % 2 \in Nat
    BY Displacements
  <2> QED BY <1>1, <1>3, <1>6, <2>1, <2>2, <2>3, <2>4
<1>7. CASE unary
  <2>1. Computed(40, mod, rm) = 2 + Displacement(mod, rm)
    BY Sizes, Displacements DEF Computed, HasMod, Arithmetic, AddsWidth
  <2>2. FieldBytes(op, mod, rm) = 1 + Displacement(mod, rm)
    BY <1>7, FieldSizes DEF unary, RefHasMod
  <2>3. RefImmediate(op, reg) = 0
    BY <1>7, Immediates DEF unary
  <2>4. Displacement(mod, rm) \in Nat
    BY Displacements
  <2> QED BY <1>1, <1>3, <1>7, <2>1, <2>2, <2>3, <2>4
<1>8. CASE special
  <2>1. extra = RefImmediate(op, reg) /\ extra \in Nat
    BY <1>8, Immediates DEF special, extra
  <2>2. FieldBytes(op, mod, rm) = 1 + Displacement(mod, rm)
    BY <1>8, FieldSizes DEF special, RefHasMod
  <2>3. Displacement(mod, rm) \in Nat
    BY Displacements
  <2> QED BY <1>1, <1>3, <1>8, <2>1, <2>2, <2>3
<1>9. CASE three
  <2>1. ~RefHasMod(op)
    BY <1>9 DEF three, RefHasMod
  <2>2. FieldBytes(op, mod, rm) = 0
    BY <2>1, FieldSizes
  <2>3. RefImmediate(op, reg) = 2
    BY <1>9, Immediates DEF three
  <2> QED BY <1>1, <1>3, <1>9, <2>2, <2>3
<1>10. CASE two
  <2>1. ~RefHasMod(op)
    BY <1>10 DEF two, RefHasMod
  <2>2. FieldBytes(op, mod, rm) = 0
    BY <2>1, FieldSizes
  <2>3. RefImmediate(op, reg) = 1
    BY <1>10, Immediates DEF two
  <2> QED BY <1>1, <1>3, <1>10, <2>2, <2>3
<1>11. CASE op = 154
  <2>1. ~RefHasMod(op)
    BY <1>11 DEF RefHasMod
  <2>2. FieldBytes(op, mod, rm) = 0
    BY <2>1, FieldSizes
  <2>3. RefImmediate(op, reg) = 4
    BY <1>11, Immediates
  <2> QED BY <1>1, <1>3, <1>11, <2>2, <2>3
<1>12. CASE one
  <2>1. ~RefHasMod(op)
    BY <1>12 DEF one, RefHasMod
  <2>2. FieldBytes(op, mod, rm) = 0
    BY <2>1, FieldSizes
  <2>3. RefImmediate(op, reg) = 0
    BY <1>12, Immediates DEF one
  <2> QED BY <1>1, <1>3, <1>12, <2>2, <2>3
<1>13. CASE ~(accumulator \/ immediate \/ test \/ unary \/ special \/ three \/ two
              \/ op = 154 \/ one)
  <2>1. Length(op, mod, reg, rm) = Computed(op, mod, rm)
    BY <1>3, <1>13
  <2>2. op \notin {15, 98, 105, 107, 246, 247} /\ ~(op < 64 /\ op % 8 \in {4, 5})
    BY <1>13 DEF Undocumented, accumulator, Arithmetic, test, unary, special
  <2>3. HasMod(op) <=> RefHasMod(op)
    BY <2>2 DEF HasMod, RefHasMod, Arithmetic
  <2>4. FieldBytes(op, mod, rm) = IF HasMod(op) THEN 1 + Displacement(mod, rm) ELSE 0
    BY <2>3, FieldSizes
  <2>5. BaseSize(op) + (IF AddsWidth(op) THEN 1 + (op % 2) ELSE 0)
          = 1 + (IF HasMod(op) THEN 1 ELSE 0) + RefImmediate(op, reg)
    BY <1>13, <2>2, Sizes, Immediates
       DEF accumulator, immediate, special, three, two, one, AddsWidth, HasMod, Arithmetic,
           Undocumented, Leaves
  <2>6. Displacement(mod, rm) \in Nat /\ BaseSize(op) \in Nat /\ RefImmediate(op, reg) \in Nat
    BY Displacements, Sizes, Immediates
  <2>7. (IF AddsWidth(op) THEN 1 + (op % 2) ELSE 0) \in Nat
    OBVIOUS
  <2> QED BY <2>1, <2>4, <2>5, <2>6, <2>7 DEF Computed
<1> QED BY <1>4, <1>5, <1>6, <1>7, <1>8, <1>9, <1>10, <1>11, <1>12, <1>13

LEMMA OperandAgrees ==
  ASSUME NEW mod \in 0 .. 3, NEW rm \in 0 .. 7
  PROVE  LET direct == mod = 0 /\ rm = 6
             operand == Operand(mod, rm)
         IN  /\ operand.registers = IF direct THEN {} ELSE RefRegisters(rm)
             /\ operand.segment = IF "BP" \in operand.registers THEN "SS" ELSE "DS"
             /\ operand.displaced <=> mod # 0 \/ direct
<1> DEFINE direct == mod = 0 /\ rm = 6
           operand == Operand(mod, rm)
<1>1. operand.registers = {First(mod, rm), Second(rm)} \ {"zero"}
      /\ operand.displaced = (mod # 0 \/ rm = 6)
      /\ operand.segment = DefaultSegment(mod, rm)
  BY DEF Operand
<1>2. CASE direct
  <2>1. First(mod, rm) = "zero" /\ Second(rm) = "zero" /\ DefaultSegment(mod, rm) = "DS"
    BY <1>2 DEF First, Second, DefaultSegment
  <2>2. operand.registers = {}
    BY <1>1, <2>1
  <2> QED BY <1>1, <1>2, <2>1, <2>2
<1>3. CASE ~direct
  <2>1. /\ First(mod, rm) = <<"BX", "BX", "BP", "BP", "SI", "DI", "BP", "BX">>[rm + 1]
        /\ DefaultSegment(mod, rm) = <<"DS", "DS", "SS", "SS", "DS", "DS", "SS", "DS">>[rm + 1]
    BY <1>3 DEF First, DefaultSegment
  <2>2. /\ rm = 0 => First(mod, rm) = "BX" /\ Second(rm) = "SI" /\ DefaultSegment(mod, rm) = "DS"
        /\ rm = 1 => First(mod, rm) = "BX" /\ Second(rm) = "DI" /\ DefaultSegment(mod, rm) = "DS"
        /\ rm = 2 => First(mod, rm) = "BP" /\ Second(rm) = "SI" /\ DefaultSegment(mod, rm) = "SS"
        /\ rm = 3 => First(mod, rm) = "BP" /\ Second(rm) = "DI" /\ DefaultSegment(mod, rm) = "SS"
        /\ rm = 4 => First(mod, rm) = "SI" /\ Second(rm) = "zero" /\ DefaultSegment(mod, rm) = "DS"
        /\ rm = 5 => First(mod, rm) = "DI" /\ Second(rm) = "zero" /\ DefaultSegment(mod, rm) = "DS"
        /\ rm = 6 => First(mod, rm) = "BP" /\ Second(rm) = "zero" /\ DefaultSegment(mod, rm) = "SS"
        /\ rm = 7 => First(mod, rm) = "BX" /\ Second(rm) = "zero" /\ DefaultSegment(mod, rm) = "DS"
    BY <2>1 DEF Second
  <2>3. rm \in {0, 1, 2, 3, 4, 5, 6, 7}
    OBVIOUS
  <2>4. operand.registers = RefRegisters(rm)
    <3>1. /\ rm = 0 => RefRegisters(rm) = {"BX", "SI"}
          /\ rm = 1 => RefRegisters(rm) = {"BX", "DI"}
          /\ rm = 2 => RefRegisters(rm) = {"BP", "SI"}
          /\ rm = 3 => RefRegisters(rm) = {"BP", "DI"}
          /\ rm = 4 => RefRegisters(rm) = {"SI"}
          /\ rm = 5 => RefRegisters(rm) = {"DI"}
          /\ rm = 6 => RefRegisters(rm) = {"BP"}
          /\ rm = 7 => RefRegisters(rm) = {"BX"}
      BY DEF RefRegisters
    <3> QED BY <1>1, <2>2, <2>3, <3>1
  <2>5. operand.segment = IF "BP" \in operand.registers THEN "SS" ELSE "DS"
    BY <1>1, <2>2, <2>3
  <2> QED BY <1>1, <1>3, <2>4, <2>5
<1> QED BY <1>2, <1>3

(* DecodeAgrees for every opcode, every mod, reg and r/m field: the length   *)
(* that the tables and the re-decoding cases add up to is the processor's,   *)
(* and the operand's registers, displacement and segment are the manual's.   *)
THEOREM DecodeCorrect == InstructionSpec => []DecodeAgrees
<1>1. NothingExecuted => DecodeAgrees
  BY DEF NothingExecuted, DecodeAgrees
<1>2. ASSUME Decode PROVE DecodeAgrees'
  <2>1. PICK op \in 0 .. 255, mod \in 0 .. 3, reg \in 0 .. 7, rm \in 0 .. 7 :
          done' = [op |-> "decode", w |-> 16, a |-> op, b |-> [mod |-> mod, reg |-> reg, rm |-> rm],
                   before |-> {},
                   out |-> [length |-> Length(op, mod, reg, rm),
                            operand |-> IF mod = 3 THEN {} ELSE {Operand(mod, rm)}]]
    BY <1>2 DEF Decode, Record
  <2>2. /\ done'.a = op /\ done'.b.mod = mod /\ done'.b.reg = reg /\ done'.b.rm = rm
        /\ done'.out.length = Length(op, mod, reg, rm)
        /\ done'.out.operand = IF mod = 3 THEN {} ELSE {Operand(mod, rm)}
    BY <2>1
  <2>3. ASSUME ~Undocumented(op, mod, reg), ~Leaves(op)
        PROVE  done'.out.length = 1 + FieldBytes(op, mod, rm) + RefImmediate(op, reg)
    <3>1. Length(op, mod, reg, rm) = 1 + FieldBytes(op, mod, rm) + RefImmediate(op, reg)
      BY <2>3, LengthAgrees, Zenon
    <3> QED BY <2>2, <3>1, Zenon
  <2>4. ASSUME NEW operand \in done'.out.operand
        PROVE  LET direct == mod = 0 /\ rm = 6
               IN  /\ operand.registers = IF direct THEN {} ELSE RefRegisters(rm)
                   /\ operand.segment = IF "BP" \in operand.registers THEN "SS" ELSE "DS"
                   /\ operand.displaced <=> mod # 0 \/ direct
    <3>1. operand = Operand(mod, rm)
      BY <2>2, <2>4, Zenon
    <3> QED BY <3>1, OperandAgrees, Zenon
  <2>5. DecodeAgrees' <=>
          (done'.op = "decode" =>
             /\ ~Undocumented(done'.a, done'.b.mod, done'.b.reg) /\ ~Leaves(done'.a) =>
                  done'.out.length = 1 + FieldBytes(done'.a, done'.b.mod, done'.b.rm)
                                       + RefImmediate(done'.a, done'.b.reg)
             /\ \A operand \in done'.out.operand :
                  LET direct == done'.b.mod = 0 /\ done'.b.rm = 6
                  IN  /\ operand.registers = IF direct THEN {} ELSE RefRegisters(done'.b.rm)
                      /\ operand.segment = IF "BP" \in operand.registers THEN "SS" ELSE "DS"
                      /\ operand.displaced <=> done'.b.mod # 0 \/ direct)
    BY Zenon DEF DecodeAgrees, FieldBytes
  <2> QED BY <2>2, <2>3, <2>4, <2>5
<1>3. DecodeAgrees /\ [InstructionNext]_done => DecodeAgrees'
  <2> SUFFICES ASSUME DecodeAgrees, [InstructionNext]_done, ~Decode PROVE DecodeAgrees'
    BY <1>2
  <2>1. CASE UNCHANGED done
    BY <2>1 DEF DecodeAgrees
  <2>2. ASSUME InstructionNext PROVE done'.op # "decode"
    BY <2>2, Executed
       DEF InstructionNext, ArithmeticNext, TwoOperand, Rotates, Shifts
  <2> QED BY <2>1, <2>2 DEF DecodeAgrees
<1> QED BY <1>1, <1>3, PTL DEF InstructionSpec

-----------------------------------------------------------------------------
(* Words and their bits.                                                     *)
Bits(n) == [0 .. n - 1 -> {0, 1}]
ByteOf(p) == p[0] + 2 * p[1] + 4 * p[2] + 8 * p[3]
               + 16 * p[4] + 32 * p[5] + 64 * p[6] + 128 * p[7]

LEMMA BitNumbers ==
  /\ 0 .. 7 = {0, 1, 2, 3, 4, 5, 6, 7}
  /\ 0 .. 15 = {0, 1, 2, 3, 4, 5, 6, 7, 8, 9, 10, 11, 12, 13, 14, 15}
OBVIOUS

(* Powers of two, and division by one.                                       *)
LEMMA PowerValues ==
  ASSUME NEW i
  PROVE  /\ i = 0 => 2^i = 1
         /\ i = 1 => 2^i = 2
         /\ i = 2 => 2^i = 4
         /\ i = 3 => 2^i = 8
         /\ i = 4 => 2^i = 16
         /\ i = 5 => 2^i = 32
         /\ i = 6 => 2^i = 64
         /\ i = 7 => 2^i = 128
         /\ i = 8 => 2^i = 256
         /\ i = 9 => 2^i = 512
         /\ i = 10 => 2^i = 1024
         /\ i = 11 => 2^i = 2048
         /\ i = 12 => 2^i = 4096
         /\ i = 13 => 2^i = 8192
         /\ i = 14 => 2^i = 16384
         /\ i = 15 => 2^i = 32768
         /\ i = 16 => 2^i = 65536
<1>1. i = 0 => 2^i = 1
  OBVIOUS
<1>2. i = 1 => 2^i = 2
  OBVIOUS
<1>3. i = 2 => 2^i = 4
  OBVIOUS
<1>4. i = 3 => 2^i = 8
  OBVIOUS
<1>5. i = 4 => 2^i = 16
  OBVIOUS
<1>6. i = 5 => 2^i = 32
  OBVIOUS
<1>7. i = 6 => 2^i = 64
  OBVIOUS
<1>8. i = 7 => 2^i = 128
  OBVIOUS
<1>9. i = 8 => 2^i = 256
  OBVIOUS
<1>10. i = 9 => 2^i = 512
  OBVIOUS
<1>11. i = 10 => 2^i = 1024
  OBVIOUS
<1>12. i = 11 => 2^i = 2048
  OBVIOUS
<1>13. i = 12 => 2^i = 4096
  OBVIOUS
<1>14. i = 13 => 2^i = 8192
  OBVIOUS
<1>15. i = 14 => 2^i = 16384
  OBVIOUS
<1>16. i = 15 => 2^i = 32768
  OBVIOUS
<1>17. i = 16 => 2^i = 65536
  OBVIOUS
<1> QED BY <1>1, <1>2, <1>3, <1>4, <1>5, <1>6, <1>7, <1>8, <1>9, <1>10,
           <1>11, <1>12, <1>13, <1>14, <1>15, <1>16, <1>17

LEMMA Powers ==
  /\ \A i \in 0 .. 15 : 2^i \in Nat \ {0} /\ 2^(i + 1) = 2 * 2^i
  /\ \A i \in 0 .. 7 : 2^(i + 8) = 256 * 2^i
<1>1. ASSUME NEW i \in 0 .. 15 PROVE 2^i \in Nat \ {0} /\ 2^(i + 1) = 2 * 2^i
  <2>1. i \in {0, 1, 2, 3, 4, 5, 6, 7, 8, 9, 10, 11, 12, 13, 14, 15}
    BY BitNumbers
  <2> QED BY <2>1, PowerValues
<1>2. ASSUME NEW i \in 0 .. 7 PROVE 2^(i + 8) = 256 * 2^i
  <2>1. i \in {0, 1, 2, 3, 4, 5, 6, 7}
    BY BitNumbers
  <2> QED BY <2>1, PowerValues
<1> QED BY <1>1, <1>2

LEMMA Quotient ==
  ASSUME NEW d \in Nat \ {0}, NEW q \in Int, NEW r \in 0 .. d - 1
  PROVE  (d * q + r) \div d = q /\ (d * q + r) % d = r
OBVIOUS

LEMMA Division ==
  ASSUME NEW d \in Nat \ {0}, NEW x \in Int
  PROVE  /\ x = d * (x \div d) + (x % d)
         /\ x % d \in 0 .. d - 1 /\ x \div d \in Int
OBVIOUS

LEMMA Halved ==
  ASSUME NEW b \in {0, 1}, NEW y \in Int
  PROVE  (b + 2 * y) \div 2 = y /\ (b + 2 * y) % 2 = b
OBVIOUS

(* Dividing twice is dividing by the product.                                *)
LEMMA DividedTwice ==
  ASSUME NEW x \in Int, NEW d \in Nat \ {0}, NEW e \in Nat \ {0}
  PROVE  (x \div d) \div e = x \div (d * e)
<1> DEFINE q == x \div d
           r == x % d
           h == q \div e
           b == q % e
<1>1. x = d * q + r /\ r \in 0 .. d - 1 /\ q \in Int
  BY Division
<1>2. q = e * h + b /\ b \in 0 .. e - 1 /\ h \in Int
  BY <1>1, Division
<1> HIDE DEF q, r, h, b
<1>3. d * b \in Nat /\ d * b <= d * (e - 1) /\ d * (e - 1) = d * e - d
  BY <1>2
<1>4. d * e \in Nat \ {0} /\ d * b + r \in 0 .. d * e - 1
  BY <1>1, <1>3
<1>5. d * q = (d * e) * h + d * b
  BY <1>2
<1>6. x = (d * e) * h + (d * b + r)
  BY <1>1, <1>2, <1>3, <1>4, <1>5
<1>7. x \div (d * e) = h
  BY <1>2, <1>4, <1>6, Quotient
<1> QED BY <1>7 DEF h, q

LEMMA BitValue ==
  ASSUME NEW x \in Int, NEW i \in 0 .. 15
  PROVE  BitAt(x, i) \in {0, 1}
<1>1. x \div 2^i \in Int
  BY Powers, Division
<1> QED BY <1>1 DEF BitAt

LEMMA BitForms ==
  ASSUME NEW x
  PROVE  /\ BitAt(x, 0) = (x \div 1) % 2
         /\ BitAt(x, 1) = (x \div 2) % 2
         /\ BitAt(x, 2) = (x \div 4) % 2
         /\ BitAt(x, 3) = (x \div 8) % 2
         /\ BitAt(x, 4) = (x \div 16) % 2
         /\ BitAt(x, 5) = (x \div 32) % 2
         /\ BitAt(x, 6) = (x \div 64) % 2
         /\ BitAt(x, 7) = (x \div 128) % 2
         /\ BitAt(x, 8) = (x \div 256) % 2
         /\ BitAt(x, 9) = (x \div 512) % 2
         /\ BitAt(x, 10) = (x \div 1024) % 2
         /\ BitAt(x, 11) = (x \div 2048) % 2
         /\ BitAt(x, 12) = (x \div 4096) % 2
         /\ BitAt(x, 13) = (x \div 8192) % 2
         /\ BitAt(x, 14) = (x \div 16384) % 2
         /\ BitAt(x, 15) = (x \div 32768) % 2
BY PowerValues DEF BitAt

(* The digits of a sum of eight bits are the bits.                           *)
LEMMA Halvings ==
  ASSUME NEW x \in Nat
  PROVE  /\ x \div 4 = (x \div 2) \div 2 /\ x \div 8 = (x \div 4) \div 2
         /\ x \div 16 = (x \div 8) \div 2 /\ x \div 32 = (x \div 16) \div 2
         /\ x \div 64 = (x \div 32) \div 2 /\ x \div 128 = (x \div 64) \div 2
OBVIOUS

(* A byte is the sum of its bits, and a sum of bits has these bits.          *)
LEMMA BitsOfByte ==
  ASSUME NEW p \in Bits(8)
  PROVE  ByteOf(p) \in 0 .. 255 /\ \A i \in 0 .. 7 : BitAt(ByteOf(p), i) = p[i]
<1>1. /\ p[0] \in {0, 1} /\ p[1] \in {0, 1} /\ p[2] \in {0, 1} /\ p[3] \in {0, 1}
      /\ p[4] \in {0, 1} /\ p[5] \in {0, 1} /\ p[6] \in {0, 1} /\ p[7] \in {0, 1}
  BY DEF Bits
<1>2. PICK b0, b1, b2, b3, b4, b5, b6, b7 \in {0, 1} :
        /\ b0 = p[0] /\ b1 = p[1] /\ b2 = p[2] /\ b3 = p[3]
        /\ b4 = p[4] /\ b5 = p[5] /\ b6 = p[6] /\ b7 = p[7]
  BY <1>1
<1>3. PICK x : /\ x = ByteOf(p)
               /\ x = b0 + 2 * b1 + 4 * b2 + 8 * b3 + 16 * b4 + 32 * b5 + 64 * b6 + 128 * b7
  BY <1>2 DEF ByteOf
<1>4. PICK y7, y6, y5, y4, y3, y2, y1 \in Nat :
        /\ y7 = b7 /\ y6 = b6 + 2 * y7 /\ y5 = b5 + 2 * y6 /\ y4 = b4 + 2 * y5
        /\ y3 = b3 + 2 * y4 /\ y2 = b2 + 2 * y3 /\ y1 = b1 + 2 * y2
  OBVIOUS
<1>5. x = b0 + 2 * y1 /\ x \in Nat /\ x <= 255
  BY <1>3, <1>4
<1>6. x \div 1 = x /\ x \div 2 = y1 /\ x % 2 = b0
  BY <1>4, <1>5
<1>7. x \div 4 = y2 /\ y1 % 2 = b1
  BY <1>4, <1>5, <1>6, Halvings, Halved
<1>8. x \div 8 = y3 /\ y2 % 2 = b2
  BY <1>4, <1>5, <1>7, Halvings, Halved
<1>9. x \div 16 = y4 /\ y3 % 2 = b3
  BY <1>4, <1>5, <1>8, Halvings, Halved
<1>10. x \div 32 = y5 /\ y4 % 2 = b4
  BY <1>4, <1>5, <1>9, Halvings, Halved
<1>11. x \div 64 = y6 /\ y5 % 2 = b5
  BY <1>4, <1>5, <1>10, Halvings, Halved
<1>12. x \div 128 = y7 /\ y6 % 2 = b6 /\ y7 % 2 = b7
  BY <1>4, <1>5, <1>11, Halvings, Halved
<1>13. /\ BitAt(x, 0) = (x \div 1) % 2 /\ BitAt(x, 1) = (x \div 2) % 2 /\ BitAt(x, 2) = (x \div 4) % 2
       /\ BitAt(x, 3) = (x \div 8) % 2 /\ BitAt(x, 4) = (x \div 16) % 2
       /\ BitAt(x, 5) = (x \div 32) % 2 /\ BitAt(x, 6) = (x \div 64) % 2
       /\ BitAt(x, 7) = (x \div 128) % 2
  BY BitForms
<1>14. /\ BitAt(x, 0) = p[0] /\ BitAt(x, 1) = p[1] /\ BitAt(x, 2) = p[2] /\ BitAt(x, 3) = p[3]
       /\ BitAt(x, 4) = p[4] /\ BitAt(x, 5) = p[5] /\ BitAt(x, 6) = p[6] /\ BitAt(x, 7) = p[7]
  BY ONLY <1>2, <1>6, <1>7, <1>8, <1>9, <1>10, <1>11, <1>12, <1>13
<1> QED BY <1>3, <1>5, <1>14, BitNumbers

(* The low and the high byte of a word have its bits.                        *)
LEMMA HalvesOfWord ==
  ASSUME NEW x \in Nat, x < 256 * 256
  PROVE  /\ x = (x % 256) + 256 * (x \div 256)
         /\ x % 256 \in 0 .. 255 /\ x \div 256 \in 0 .. 255
         /\ \A i \in 0 .. 7 : /\ BitAt(x, i) = BitAt(x % 256, i)
                              /\ BitAt(x, i + 8) = BitAt(x \div 256, i)
<1> DEFINE l == x % 256
           h == x \div 256
<1>1. l \in 0 .. 255 /\ h \in 0 .. 255 /\ x = l + 256 * h
  OBVIOUS
<1> HIDE DEF l, h
<1>2. /\ (x \div 1) % 2 = (l \div 1) % 2 /\ (x \div 2) % 2 = (l \div 2) % 2
      /\ (x \div 4) % 2 = (l \div 4) % 2 /\ (x \div 8) % 2 = (l \div 8) % 2
  BY <1>1
<1>3. /\ (x \div 16) % 2 = (l \div 16) % 2 /\ (x \div 32) % 2 = (l \div 32) % 2
      /\ (x \div 64) % 2 = (l \div 64) % 2 /\ (x \div 128) % 2 = (l \div 128) % 2
  BY <1>1
<1>4. ASSUME NEW i \in 0 .. 7 PROVE BitAt(x, i) = BitAt(l, i)
  <2>1. i \in {0, 1, 2, 3, 4, 5, 6, 7}
    BY BitNumbers
  <2>2. (x \div 2^i) % 2 = (l \div 2^i) % 2
    BY <1>2, <1>3, <2>1, PowerValues
  <2> QED BY <2>2 DEF BitAt
<1>5. ASSUME NEW i \in 0 .. 7 PROVE BitAt(x, i + 8) = BitAt(h, i)
  <2>1. i \in 0 .. 15
    OBVIOUS
  <2>2. 2^i \in Nat \ {0} /\ 2^(i + 8) = 256 * 2^i
    BY <2>1, Powers
  <2>3. \A e \in Nat \ {0} : (x \div 256) \div e = x \div (256 * e)
    <3> DEFINE d == 256
    <3>1. x \in Int /\ d \in Nat \ {0}
      OBVIOUS
    <3> HIDE DEF d
    <3>2. \A e \in Nat \ {0} : (x \div d) \div e = x \div (d * e)
      BY <3>1, DividedTwice
    <3> QED BY <3>2 DEF d
  <2> QED BY <2>2, <2>3 DEF BitAt, h
<1> QED BY <1>1, <1>4, <1>5 DEF l, h

(* What the bitwise operators do to the bits.                                *)
IsWord(x) == x \in Nat /\ x < 256 * 256
Made(ones, x, y) == IF <<x, y>> \in ones THEN 1 ELSE 0

LEMMA BitwiseBytes ==
  ASSUME NEW ones, NEW a \in Nat, NEW b \in Nat
  PROVE  LET r == BitwiseByte(ones, a, b)
         IN  /\ r \in 0 .. 255
             /\ \A i \in 0 .. 7 : BitAt(r, i) =
                                    Made(ones, BitAt(a, i), BitAt(b, i))
<1> DEFINE p == [i \in 0 .. 7 |-> Made(ones, BitAt(a, i), BitAt(b, i))]
<1>1. \A i \in 0 .. 7 : p[i] = Made(ones, BitAt(a, i), BitAt(b, i))
  OBVIOUS
<1>2. p \in Bits(8)
  BY DEF Bits, Made
<1>3. BitwiseByte(ones, a, b) = ByteOf(p)
  BY <1>1, BitNumbers DEF BitwiseByte, ByteOf, Made
<1> HIDE DEF p
<1> QED BY <1>1, <1>2, <1>3, BitsOfByte

LEMMA BitwiseWords ==
  ASSUME NEW ones, NEW a, IsWord(a), NEW b, IsWord(b)
  PROVE  LET r == Bitwise(ones, a, b)
         IN  /\ IsWord(r)
             /\ a <= 255 /\ b <= 255 /\ <<0, 0>> \notin ones => r <= 255
             /\ \A i \in 0 .. 15 : BitAt(r, i) =
                                     Made(ones, BitAt(a, i), BitAt(b, i))
<1> DEFINE l == BitwiseByte(ones, a % 256, b % 256)
           h == BitwiseByte(ones, a \div 256, b \div 256)
           r == Bitwise(ones, a, b)
<1>1. /\ a \in Nat /\ a < 256 * 256 /\ b \in Nat /\ b < 256 * 256
      /\ a % 256 \in Nat /\ a \div 256 \in Nat /\ b % 256 \in Nat /\ b \div 256 \in Nat
  BY DEF IsWord
<1>2. l \in 0 .. 255 /\ h \in 0 .. 255 /\ r = l + 256 * h
  BY <1>1, BitwiseBytes DEF Bitwise
<1>3. \A i \in 0 .. 7 :
        /\ BitAt(l, i) = Made(ones, BitAt(a % 256, i), BitAt(b % 256, i))
        /\ BitAt(h, i) = Made(ones, BitAt(a \div 256, i), BitAt(b \div 256, i))
  <2>1. ASSUME NEW x \in Nat, NEW y \in Nat
        PROVE  \A i \in 0 .. 7 : BitAt(BitwiseByte(ones, x, y), i) =
                                  Made(ones, BitAt(x, i), BitAt(y, i))
    BY BitwiseBytes
  <2>2. \A i \in 0 .. 7 : BitAt(l, i) =
                           Made(ones, BitAt(a % 256, i), BitAt(b % 256, i))
    BY <1>1, <2>1
  <2>3. \A i \in 0 .. 7 : BitAt(h, i) =
                           Made(ones, BitAt(a \div 256, i), BitAt(b \div 256, i))
    BY <1>1, <2>1
  <2> QED BY <2>2, <2>3
<1>4. a <= 255 /\ b <= 255 /\ <<0, 0>> \notin ones => h = 0
  <2> SUFFICES ASSUME a <= 255, b <= 255, <<0, 0>> \notin ones
               PROVE  h = 0
    OBVIOUS
  <2>1. a \div 256 = 0 /\ b \div 256 = 0
    BY <1>1
  <2>2. /\ BitAt(0, 0) = 0 /\ BitAt(0, 1) = 0 /\ BitAt(0, 2) = 0 /\ BitAt(0, 3) = 0
        /\ BitAt(0, 4) = 0 /\ BitAt(0, 5) = 0 /\ BitAt(0, 6) = 0 /\ BitAt(0, 7) = 0
    BY BitForms
  <2>3. BitwiseByte(ones, 0, 0) = 0
    BY <2>2 DEF BitwiseByte
  <2> QED BY <2>1, <2>3
<1> HIDE DEF l, h, r
<1>5. r \in Nat /\ r < 256 * 256 /\ r % 256 = l /\ r \div 256 = h
  BY <1>2
<1>6. ASSUME NEW i \in 0 .. 7
      PROVE  /\ BitAt(r, i) = Made(ones, BitAt(a, i), BitAt(b, i))
             /\ BitAt(r, i + 8) = Made(ones, BitAt(a, i + 8), BitAt(b, i + 8))
  <2>1. BitAt(r, i) = BitAt(l, i) /\ BitAt(r, i + 8) = BitAt(h, i)
    BY <1>5, HalvesOfWord
  <2>2. BitAt(a, i) = BitAt(a % 256, i) /\ BitAt(a, i + 8) = BitAt(a \div 256, i)
    BY <1>1, HalvesOfWord
  <2>3. BitAt(b, i) = BitAt(b % 256, i) /\ BitAt(b, i + 8) = BitAt(b \div 256, i)
    BY <1>1, HalvesOfWord
  <2> QED BY ONLY <1>3, <2>1, <2>2, <2>3
<1>7. ASSUME NEW i \in 0 .. 15
      PROVE  BitAt(r, i) = Made(ones, BitAt(a, i), BitAt(b, i))
  <2>1. i \in 0 .. 7 \/ \E j \in 0 .. 7 : i = j + 8
    <3>1. i \in 8 .. 15 => i - 8 \in 0 .. 7 /\ i = (i - 8) + 8
      OBVIOUS
    <3> QED BY <3>1
  <2> QED BY <1>6, <2>1
<1>8. a <= 255 /\ b <= 255 /\ <<0, 0>> \notin ones => r <= 255
  BY <1>2, <1>4
<1> QED BY <1>5, <1>7, <1>8 DEF IsWord, r

(* Exclusive or counts the ones among two bits modulo two.                   *)
LEMMA XorBits ==
  ASSUME NEW a, IsWord(a), NEW b, IsWord(b)
  PROVE  /\ IsWord(Xor(a, b)) /\ (a <= 255 /\ b <= 255 => Xor(a, b) <= 255)
         /\ \A i \in 0 .. 15 : BitAt(Xor(a, b), i) = (BitAt(a, i) + BitAt(b, i)) % 2
<1> DEFINE ones == {<<0, 1>>, <<1, 0>>}
<1>1. <<0, 0>> \notin ones
  OBVIOUS
<1>2. \A x, y \in {0, 1} : Made(ones, x, y) = (x + y) % 2
  BY DEF Made
<1> HIDE DEF ones
<1>3. \A i \in 0 .. 15 : BitAt(a, i) \in {0, 1} /\ BitAt(b, i) \in {0, 1}
  BY BitValue DEF IsWord
<1>4. PICK r : r = Xor(a, b) /\ r = Bitwise(ones, a, b)
  BY DEF Xor, ones
<1>5. /\ IsWord(r) /\ (a <= 255 /\ b <= 255 => r <= 255)
      /\ \A i \in 0 .. 15 : BitAt(r, i) = Made(ones, BitAt(a, i), BitAt(b, i))
  BY <1>1, <1>4, BitwiseWords
<1>6. \A i \in 0 .. 15 : BitAt(r, i) = (BitAt(a, i) + BitAt(b, i)) % 2
  BY <1>2, <1>3, <1>5
<1> QED BY <1>4, <1>5, <1>6
LEMMA AndBits ==
  ASSUME NEW a, IsWord(a), NEW b, IsWord(b)
  PROVE  /\ IsWord(And(a, b)) /\ (a <= 255 /\ b <= 255 => And(a, b) <= 255)
         /\ \A i \in 0 .. 15 : BitAt(And(a, b), i) = 1 <=> BitAt(a, i) = 1 /\ BitAt(b, i) = 1
<1> DEFINE ones == {<<1, 1>>}
<1>1. <<0, 0>> \notin ones
  OBVIOUS
<1>2. \A x, y \in {0, 1} : Made(ones, x, y) = 1 <=> x = 1 /\ y = 1
  BY DEF Made
<1> HIDE DEF ones
<1>3. \A i \in 0 .. 15 : BitAt(a, i) \in {0, 1} /\ BitAt(b, i) \in {0, 1}
  BY BitValue DEF IsWord
<1>4. PICK r : r = And(a, b) /\ r = Bitwise(ones, a, b)
  BY DEF And, ones
<1>5. /\ IsWord(r) /\ (a <= 255 /\ b <= 255 => r <= 255)
      /\ \A i \in 0 .. 15 : BitAt(r, i) = Made(ones, BitAt(a, i), BitAt(b, i))
  BY <1>1, <1>4, BitwiseWords
<1>6. \A i \in 0 .. 15 : (BitAt(r, i) = 1 <=> BitAt(a, i) = 1 /\ BitAt(b, i) = 1)
  BY <1>2, <1>3, <1>5
<1> QED BY <1>4, <1>5, <1>6
LEMMA OrBits ==
  ASSUME NEW a, IsWord(a), NEW b, IsWord(b)
  PROVE  /\ IsWord(Or(a, b)) /\ (a <= 255 /\ b <= 255 => Or(a, b) <= 255)
         /\ \A i \in 0 .. 15 : BitAt(Or(a, b), i) = 1 <=> BitAt(a, i) = 1 \/ BitAt(b, i) = 1
<1> DEFINE ones == {<<0, 1>>, <<1, 0>>, <<1, 1>>}
<1>1. <<0, 0>> \notin ones
  OBVIOUS
<1>2. \A x, y \in {0, 1} : Made(ones, x, y) = 1 <=> x = 1 \/ y = 1
  BY DEF Made
<1> HIDE DEF ones
<1>3. \A i \in 0 .. 15 : BitAt(a, i) \in {0, 1} /\ BitAt(b, i) \in {0, 1}
  BY BitValue DEF IsWord
<1>4. PICK r : r = Or(a, b) /\ r = Bitwise(ones, a, b)
  BY DEF Or, ones
<1>5. /\ IsWord(r) /\ (a <= 255 /\ b <= 255 => r <= 255)
      /\ \A i \in 0 .. 15 : BitAt(r, i) = Made(ones, BitAt(a, i), BitAt(b, i))
  BY <1>1, <1>4, BitwiseWords
<1>6. \A i \in 0 .. 15 : (BitAt(r, i) = 1 <=> BitAt(a, i) = 1 \/ BitAt(b, i) = 1)
  BY <1>2, <1>3, <1>5
<1> QED BY <1>4, <1>5, <1>6

-----------------------------------------------------------------------------
(* The flags of a result.                                                    *)

\* The number of ones among the first n bits of p.
OnesBelow(p, n) == {i \in 0 .. n - 1 : p[i] = 1}

LEMMA OneMore ==
  ASSUME NEW p \in Bits(8), NEW n \in 0 .. 7, IsFiniteSet(OnesBelow(p, n))
  PROVE  /\ IsFiniteSet(OnesBelow(p, n + 1))
         /\ Cardinality(OnesBelow(p, n + 1)) = Cardinality(OnesBelow(p, n)) + p[n]
<1>1. p[n] \in {0, 1}
  BY DEF Bits
<1>2. n \notin OnesBelow(p, n)
  BY DEF OnesBelow
<1>3. OnesBelow(p, n + 1) = IF p[n] = 1 THEN OnesBelow(p, n) \cup {n} ELSE OnesBelow(p, n)
  BY DEF OnesBelow
<1>4. Cardinality(OnesBelow(p, n)) \in Nat
  BY FS_CardinalityType
<1> QED BY <1>1, <1>2, <1>3, <1>4, FS_AddElement

LEMMA OnesCounted ==
  ASSUME NEW p \in Bits(8)
  PROVE  Cardinality(OnesBelow(p, 8)) =
           p[0] + p[1] + p[2] + p[3] + p[4] + p[5] + p[6] + p[7]
<1> DEFINE C(n) == Cardinality(OnesBelow(p, n))
           F(n) == IsFiniteSet(OnesBelow(p, n))
<1>1. OnesBelow(p, 0) = {}
  BY DEF OnesBelow
<1>2. F(0) /\ C(0) = 0
  BY <1>1, FS_EmptySet
<1>3. ASSUME NEW n \in 0 .. 7 PROVE F(n) => F(n + 1) /\ C(n + 1) = C(n) + p[n]
  BY OneMore
<1> HIDE DEF C, F
<1>4. /\ F(0) => F(1) /\ C(1) = C(0) + p[0]
      /\ F(1) => F(2) /\ C(2) = C(1) + p[1]
      /\ F(2) => F(3) /\ C(3) = C(2) + p[2]
      /\ F(3) => F(4) /\ C(4) = C(3) + p[3]
      /\ F(4) => F(5) /\ C(5) = C(4) + p[4]
      /\ F(5) => F(6) /\ C(6) = C(5) + p[5]
      /\ F(6) => F(7) /\ C(7) = C(6) + p[6]
      /\ F(7) => F(8) /\ C(8) = C(7) + p[7]
  BY <1>3, BitNumbers
<1>5. /\ p[0] \in Int /\ p[1] \in Int /\ p[2] \in Int /\ p[3] \in Int
      /\ p[4] \in Int /\ p[5] \in Int /\ p[6] \in Int /\ p[7] \in Int
  BY DEF Bits
<1>6. C(8) = p[0] + p[1] + p[2] + p[3] + p[4] + p[5] + p[6] + p[7]
  BY <1>2, <1>4, <1>5
<1> QED BY <1>6 DEF C

\* Table 11's row: whether four bits have an even number of ones.
LEMMA RowParity ==
  ASSUME NEW b0 \in {0, 1}, NEW b1 \in {0, 1}, NEW b2 \in {0, 1}, NEW b3 \in {0, 1}
  PROVE  ParityRow[1 + (b0 + 2 * b1 + 4 * b2 + 8 * b3)] = (1 + b0 + b1 + b2 + b3) % 2
BY DEF ParityRow

LEMMA ByteParity ==
  ASSUME NEW x \in 0 .. 255
  PROVE  ParityOf(x) <=> EvenParity(x)
<1> DEFINE p == [i \in 0 .. 7 |-> BitAt(x, i)]
<1>1. \A i \in 0 .. 7 : p[i] \in {0, 1} /\ p[i] = BitAt(x, i)
  BY BitValue
<1>2. p \in Bits(8)
  BY <1>1 DEF Bits
<1>3. EvenParity(x) <=> Cardinality(OnesBelow(p, 8)) % 2 = 0
  <2>1. OnesBelow(p, 8) = {i \in 0 .. 7 : (x \div 2^i) % 2 = 1}
    BY <1>1 DEF OnesBelow, BitAt
  <2> QED BY <2>1 DEF EvenParity
<1> HIDE DEF p
<1>4. PICK b0, b1, b2, b3, b4, b5, b6, b7 \in {0, 1} :
        /\ b0 = p[0] /\ b1 = p[1] /\ b2 = p[2] /\ b3 = p[3]
        /\ b4 = p[4] /\ b5 = p[5] /\ b6 = p[6] /\ b7 = p[7]
        /\ b0 = BitAt(x, 0) /\ b1 = BitAt(x, 1) /\ b2 = BitAt(x, 2) /\ b3 = BitAt(x, 3)
        /\ b4 = BitAt(x, 4) /\ b5 = BitAt(x, 5) /\ b6 = BitAt(x, 6) /\ b7 = BitAt(x, 7)
  BY <1>1, BitNumbers
<1>5. EvenParity(x) <=> (b0 + b1 + b2 + b3 + b4 + b5 + b6 + b7) % 2 = 0
  BY <1>2, <1>3, <1>4, OnesCounted
<1>6. /\ b0 = (x \div 1) % 2 /\ b1 = (x \div 2) % 2 /\ b2 = (x \div 4) % 2
      /\ b3 = (x \div 8) % 2 /\ b4 = (x \div 16) % 2 /\ b5 = (x \div 32) % 2
      /\ b6 = (x \div 64) % 2 /\ b7 = (x \div 128) % 2
  BY <1>4, BitForms
<1>7. x % 16 = b0 + 2 * b1 + 4 * b2 + 8 * b3
  BY ONLY <1>6, x \in 0 .. 255
<1>8. x \div 16 = b4 + 2 * b5 + 4 * b6 + 8 * b7
  <2>1. PICK y \in 0 .. 15 : y = x \div 16
    OBVIOUS
  <2>2. x \div 32 = y \div 2 /\ x \div 64 = y \div 4 /\ x \div 128 = y \div 8
    BY ONLY <2>1, x \in 0 .. 255
  <2>3. b4 = y % 2 /\ b5 = (y \div 2) % 2 /\ b6 = (y \div 4) % 2 /\ b7 = (y \div 8) % 2
    BY <1>6, <2>1, <2>2
  <2> QED BY ONLY <2>1, <2>3
<1>9. ParityOf(x) <=> (1 + b0 + b1 + b2 + b3) % 2 = (1 + b4 + b5 + b6 + b7) % 2
  <2>1. ParityRow[1 + (b0 + 2 * b1 + 4 * b2 + 8 * b3)] = (1 + b0 + b1 + b2 + b3) % 2
    BY RowParity
  <2>2. ParityRow[1 + (b4 + 2 * b5 + 4 * b6 + 8 * b7)] = (1 + b4 + b5 + b6 + b7) % 2
    BY RowParity
  <2> QED BY ONLY <1>7, <1>8, <2>1, <2>2 DEF ParityOf
<1>10. PICK low, high \in 0 .. 4 : low = b0 + b1 + b2 + b3 /\ high = b4 + b5 + b6 + b7
  OBVIOUS
<1>11. EvenParity(x) <=> (low + high) % 2 = 0
  BY <1>5, <1>10
<1>12. ParityOf(x) <=> (1 + low) % 2 = (1 + high) % 2
  BY <1>9, <1>10
<1> QED BY ONLY <1>11, <1>12, low \in 0 .. 4, high \in 0 .. 4

\* The parity of a word is that of its low byte.
LEMMA WordParity ==
  ASSUME NEW x, IsWord(x)
  PROVE  ParityOf(x % 256) <=> EvenParity(x)
<1>1. x % 256 \in 0 .. 255 /\ \A i \in 0 .. 7 : BitAt(x, i) = BitAt(x % 256, i)
  BY HalvesOfWord DEF IsWord
<1>2. {i \in 0 .. 7 : (x \div 2^i) % 2 = 1} = {i \in 0 .. 7 : ((x % 256) \div 2^i) % 2 = 1}
  BY <1>1, ZenonT(40) DEF BitAt
<1>3. EvenParity(x) <=> EvenParity(x % 256)
  BY <1>2 DEF EvenParity
<1> QED BY <1>1, <1>3, ByteParity

\* A width, with its number of words P, the value H of its sign bit, and m.
Width(w, P, H, m) ==
  /\ w \in {8, 16} /\ P = 2^w /\ H = 2^(w - 1)
  /\ m \in 1 .. 256 /\ H = 128 * m /\ P = 256 * m

LEMMA Widths ==
  ASSUME NEW w \in {8, 16}
  PROVE  \E P, H, m : Width(w, P, H, m)
<1>1. CASE w = 8
  <2>1. 2^w = 256 * 1 /\ 2^(w - 1) = 128 * 1 /\ 1 \in 1 .. 256
    BY <1>1
  <2>2. Width(w, 2^w, 2^(w - 1), 1)
    BY <2>1 DEF Width
  <2> QED BY <2>2
<1>2. CASE w = 16
  <2>1. 2^w = 256 * 256 /\ 2^(w - 1) = 128 * 256 /\ 256 \in 1 .. 256
    BY <1>2
  <2>2. Width(w, 2^w, 2^(w - 1), 256)
    BY <2>1 DEF Width
  <2> QED BY <2>2
<1> QED BY <1>1, <1>2

LEMMA WidthFacts ==
  ASSUME NEW w, NEW P, NEW H, NEW m, Width(w, P, H, m)
  PROVE  /\ P = 2 * H /\ H \in Nat /\ P \in Nat /\ H >= 128 /\ P = 32 * (8 * m) /\ m \in Nat
         /\ w - 1 \in 0 .. 15 /\ 2^w = P /\ 2^(w - 1) = H /\ P <= 256 * 256
         /\ (w = 8 => P = 256) /\ (w = 16 => P = 256 * 256)
<1>1. (w = 8 => 2^w = 256) /\ (w = 16 => 2^w = 256 * 256)
  <2>1. w = 8 => 2^w = 256
    OBVIOUS
  <2>2. w = 16 => 2^w = 256 * 256
    OBVIOUS
  <2> QED BY <2>1, <2>2
<1> QED BY <1>1 DEF Width

\* The sign bit, of a result kept in the width or not.
LEMMA TopBit ==
  ASSUME NEW w, NEW P, NEW H, NEW m, Width(w, P, H, m), NEW x \in Int
  PROVE  /\ x \in 0 .. P - 1 => BitAt(x, w - 1) = IF x >= H THEN 1 ELSE 0
         /\ x \in -P .. -1 => BitAt(x, w - 1) = BitAt(x + P, w - 1)
<1>1. P = 2 * H /\ H \in Nat /\ H >= 128 /\ BitAt(x, w - 1) = (x \div H) % 2
      /\ BitAt(x + P, w - 1) = ((x + P) \div H) % 2
  BY WidthFacts DEF BitAt
<1>2. PICK q, r : q \in Int /\ r \in 0 .. H - 1 /\ x = H * q + r /\ q = x \div H
  <2>1. /\ x = H * (x \div H) + (x % H)
        /\ x % H \in 0 .. H - 1 /\ x \div H \in Int
    BY <1>1, Division
  <2> QED BY <2>1
<1>3. (x + P) \div H = q + 2
  <2>1. x + P = H * (q + 2) + r
    BY <1>1, <1>2
  <2>2. H \in Nat \ {0} /\ q + 2 \in Int /\ r \in 0 .. H - 1
    BY <1>1, <1>2
  <2> QED BY <2>1, <2>2, Quotient
<1>4. x \in 0 .. P - 1 => q = IF x >= H THEN 1 ELSE 0
  BY <1>1, <1>2
<1> QED BY <1>1, <1>2, <1>3, <1>4

\* Reducing to a width, where the number is less than a turn away.
LEMMA Reduce ==
  ASSUME NEW P \in Nat, P > 0, NEW x \in Int
  PROVE  /\ x \in 0 .. P - 1 => x % P = x
         /\ x \in -P .. -1 => x % P = x + P
         /\ x \in P .. (2 * P - 1) => x % P = x - P
OBVIOUS

\* What SetSzp does, flag by flag.
LEMMA SzpFlags ==
  ASSUME NEW w, NEW P, NEW H, NEW m, Width(w, P, H, m),
         NEW x \in -(P - 1) .. P - 1, NEW flags, NEW f
  PROVE  f \in SetSzp(flags, x, w) <=>
           IF f \in {"SF", "ZF", "PF"} THEN f \in ResultFlags(x % P, w) ELSE f \in flags
<1> DEFINE r == x % P
<1>1. P = 2 * H /\ H \in Nat /\ H >= 128 /\ 2^(w - 1) = H /\ 2^w = P /\ P = 256 * m
      /\ m \in Nat /\ P <= 256 * 256 /\ P \in Nat
  BY WidthFacts DEF Width
<1>2. r \in 0 .. P - 1 /\ (r = 0 <=> x = 0)
  BY <1>1, Reduce
<1>3. BitAt(x, w - 1) = BitAt(r, w - 1)
  BY <1>1, <1>2, Reduce, TopBit
<1>4. BitAt(r, w - 1) = 1 <=> AsSigned(r, w) < 0
  BY <1>1, <1>2, TopBit DEF AsSigned
<1>5. IsWord(r) /\ r % 256 = x % 256
  <2>1. r = x \/ r = x + 256 * m
    BY <1>1, Reduce
  <2> QED BY <1>1, <1>2, <2>1 DEF IsWord
<1>6. ParityOf(x % 256) <=> EvenParity(r)
  BY <1>5, WordParity
<1> HIDE DEF r
<1>7. /\ (BitAt(x, w - 1) = 1) \in BOOLEAN /\ (x = 0) \in BOOLEAN
      /\ ParityOf(x % 256) \in BOOLEAN
  BY DEF ParityOf
<1>8. f \in SetSzp(flags, x, w) <=>
        IF f = "PF" THEN ParityOf(x % 256)
        ELSE IF f = "ZF" THEN x = 0
        ELSE IF f = "SF" THEN BitAt(x, w - 1) = 1 ELSE f \in flags
  BY DEF SetSzp, Put
<1>9. f \in ResultFlags(r, w) <=>
        (\/ f = "SF" /\ AsSigned(r, w) < 0
         \/ f = "ZF" /\ r = 0
         \/ f = "PF" /\ EvenParity(r))
  BY DEF ResultFlags
<1> QED BY <1>2, <1>3, <1>4, <1>6, <1>8, <1>9 DEF r

AllFlags == {"CF", "AF", "OF", "SF", "ZF", "PF"}

\* What differs between operands and result, bit by bit.
LEMMA ChangedBits ==
  ASSUME NEW d, IsWord(d), NEW s, IsWord(s), NEW r, IsWord(r), NEW i \in 0 .. 15
  PROVE  BitAt(Xor(Xor(d, s), r), i) = (BitAt(d, i) + BitAt(s, i) + BitAt(r, i)) % 2
<1>1. PICK x : x = Xor(d, s) /\ IsWord(x) /\ BitAt(x, i) = (BitAt(d, i) + BitAt(s, i)) % 2
  BY XorBits
<1>2. BitAt(Xor(x, r), i) = (BitAt(x, i) + BitAt(r, i)) % 2
  BY <1>1, XorBits
<1>3. BitAt(d, i) \in {0, 1} /\ BitAt(s, i) \in {0, 1} /\ BitAt(r, i) \in {0, 1}
  BY BitValue DEF IsWord
<1> QED BY <1>1, <1>2, <1>3

\* Bit 4 of operands and result shows the carry out of the low four bits.
LEMMA HalfCarry ==
  ASSUME NEW d \in Nat, NEW s \in Nat, NEW r \in Nat, NEW k \in Nat, NEW c \in {0, 1}
  PROVE  LET odd == (BitAt(d, 4) + BitAt(s, 4) + BitAt(r, 4)) % 2 = 1
         IN  /\ r = d + s + c \/ r = d + s + c - 32 * k =>
                  (odd <=> (d % 16) + (s % 16) + c >= 16)
             /\ r = d - s - c \/ r = d - s - c + 32 * k =>
                  (odd <=> d % 16 < (s % 16) + c)
<1>1. /\ BitAt(d, 4) = (d \div 16) % 2 /\ BitAt(s, 4) = (s \div 16) % 2
      /\ BitAt(r, 4) = (r \div 16) % 2
  BY BitForms
<1>2. PICK D, S, R \in Nat : D = d \div 16 /\ S = s \div 16 /\ R = r \div 16
  OBVIOUS
<1>3. PICK dl, sl, rl \in 0 .. 15 : /\ dl = d % 16 /\ sl = s % 16 /\ rl = r % 16
                                    /\ d = 16 * D + dl /\ s = 16 * S + sl /\ r = 16 * R + rl
  <2>1. ASSUME NEW n \in Nat PROVE n % 16 \in 0 .. 15 /\ n = 16 * (n \div 16) + (n % 16)
    OBVIOUS
  <2>2. /\ d % 16 \in 0 .. 15 /\ d = 16 * (d \div 16) + (d % 16)
        /\ s % 16 \in 0 .. 15 /\ s = 16 * (s \div 16) + (s % 16)
        /\ r % 16 \in 0 .. 15 /\ r = 16 * (r \div 16) + (r % 16)
    BY <2>1
  <2> QED BY <1>2, <2>2, Zenon
<1>4. ASSUME r = d + s + c \/ r = d + s + c - 32 * k
      PROVE  ((D + S + R) % 2 = 1) <=> dl + sl + c >= 16
  <2>1. PICK e \in {0, 1} : e = 1 <=> dl + sl + c >= 16
    OBVIOUS
  <2>2. D + S + e = R \/ D + S + e = R + 2 * k
    BY <1>3, <1>4, <2>1
  <2> QED BY ONLY <2>1, <2>2, D \in Nat, S \in Nat, R \in Nat, k \in Nat
<1>5. ASSUME r = d - s - c \/ r = d - s - c + 32 * k
      PROVE  ((D + S + R) % 2 = 1) <=> dl < sl + c
  <2>1. PICK e \in {0, 1} : e = 1 <=> dl < sl + c
    OBVIOUS
  <2>2. D - S - e = R \/ D - S - e = R - 2 * k
    BY <1>3, <1>5, <2>1
  <2> QED BY ONLY <2>1, <2>2, D \in Nat, S \in Nat, R \in Nat, k \in Nat
<1>6. (BitAt(d, 4) + BitAt(s, 4) + BitAt(r, 4)) % 2 = (D + S + R) % 2
  BY ONLY <1>1, <1>2
<1> QED BY <1>3, <1>4, <1>5, <1>6

\* The flags of an instruction whose result is r and whose carry is carried.
ArithmeticFlags(d, s, r, carried, w) ==
  ResultFlags(r, w) \cup
    {f \in {"CF", "AF", "OF"} :
       \/ f = "CF" /\ carried
       \/ f = "AF" /\ (BitAt(d, 4) + BitAt(s, 4) + BitAt(r, 4)) % 2 = 1
       \/ f = "OF" /\ (carried <=> (BitAt(d, w - 1) + BitAt(s, w - 1) + BitAt(r, w - 1)) % 2 = 0)}

\* The flags after a result, from any flags before: those of the arithmetic.
LEMMA FlagsAfter ==
  ASSUME NEW w, NEW P, NEW H, NEW m, Width(w, P, H, m),
         NEW d \in 0 .. P - 1, NEW s \in 0 .. P - 1, NEW x \in -(P - 1) .. P - 1,
         NEW flags \in SUBSET AllFlags, NEW carried \in BOOLEAN,
         x = d => (carried <=> BitAt(s, w - 1) = 1)
  PROVE  SetAfOf(SetSzp(Put(flags, "CF", carried), x, w), d, s, x, w)
           = ArithmeticFlags(d, s, x % P, carried, w)
<1> DEFINE r == x % P
           szp == SetSzp(Put(flags, "CF", carried), x, w)
           changed == Xor(Xor(d, s), r)
<1>1. r \in 0 .. P - 1 /\ P \in Nat /\ P <= 256 * 256 /\ 2^w = P /\ w - 1 \in 0 .. 15 /\ 4 \in 0 .. 15
  BY WidthFacts, Reduce
<1>2. IsWord(d) /\ IsWord(s) /\ IsWord(r)
  BY <1>1 DEF IsWord
<1>3. /\ BitAt(changed, 4) = (BitAt(d, 4) + BitAt(s, 4) + BitAt(r, 4)) % 2
      /\ BitAt(changed, w - 1) = (BitAt(d, w - 1) + BitAt(s, w - 1) + BitAt(r, w - 1)) % 2
  BY <1>1, <1>2, ChangedBits
<1>4. \A f : f \in szp <=> IF f \in {"SF", "ZF", "PF"} THEN f \in ResultFlags(r, w)
                           ELSE IF f = "CF" THEN carried ELSE f \in flags
  <2>1. \A f : f \in szp <=> IF f \in {"SF", "ZF", "PF"} THEN f \in ResultFlags(r, w)
                             ELSE f \in Put(flags, "CF", carried)
    BY SzpFlags
  <2>2. \A f : f \in Put(flags, "CF", carried) <=> IF f = "CF" THEN carried ELSE f \in flags
    BY DEF Put
  <2> QED BY <2>1, <2>2
<1>5. Carry(szp) = IF carried THEN 1 ELSE 0
  BY <1>4 DEF Carry
<1>6. /\ BitAt(changed, w - 1) \in {0, 1}
      /\ x = d => BitAt(changed, w - 1) = BitAt(s, w - 1)
  <2>1. BitAt(d, w - 1) \in {0, 1} /\ BitAt(s, w - 1) \in {0, 1} /\ BitAt(r, w - 1) \in {0, 1}
    BY <1>1, <1>2, BitValue DEF IsWord
  <2>2. x = d => r = d
    BY <1>1, Reduce
  <2> QED BY <1>3, <2>1, <2>2
<1>7. (x # d /\ Carry(szp) # BitAt(changed, w - 1)) <=> (carried <=> BitAt(changed, w - 1) = 0)
  BY <1>5, <1>6
<1> HIDE DEF r, szp, changed
<1>8. \A f : f \in SetAfOf(szp, d, s, x, w) <=>
               IF f = "OF" THEN x # d /\ Carry(szp) # BitAt(changed, w - 1)
               ELSE IF f = "AF" THEN BitAt(changed, 4) = 1 ELSE f \in szp
  <2>1. \A f : f \in Put(szp, "AF", BitAt(changed, 4) = 1) <=>
                 IF f = "AF" THEN BitAt(changed, 4) = 1 ELSE f \in szp
    BY DEF Put
  <2>2. SetAfOf(szp, d, s, x, w) = Put(Put(szp, "AF", BitAt(changed, 4) = 1),
          "OF", x # d /\ (Carry(szp) # BitAt(changed, w - 1)))
    BY <1>1 DEF SetAfOf, changed, r
  <2> QED BY <2>1, <2>2 DEF Put
<1>9. \A f : f \in ArithmeticFlags(d, s, r, carried, w) <=>
               IF f \in {"SF", "ZF", "PF"} THEN f \in ResultFlags(r, w)
               ELSE \/ f = "CF" /\ carried
                    \/ f = "AF" /\ BitAt(changed, 4) = 1
                    \/ f = "OF" /\ (carried <=> BitAt(changed, w - 1) = 0)
  <2>1. ResultFlags(r, w) \subseteq {"SF", "ZF", "PF"}
    BY DEF ResultFlags
  <2> QED BY <1>3, <2>1 DEF ArithmeticFlags
<1>10. \A f : f \in SetAfOf(szp, d, s, x, w) <=> f \in ArithmeticFlags(d, s, r, carried, w)
  BY <1>4, <1>7, <1>8, <1>9 DEF AllFlags
<1> QED BY <1>10 DEF r, szp

(* The flags of a sum and of a difference are those of the reference.        *)
LEMMA SumFlags ==
  ASSUME NEW w, NEW P, NEW H, NEW m, Width(w, P, H, m),
         NEW d \in 0 .. P - 1, NEW s \in 0 .. P - 1, NEW c \in {0, 1}
  PROVE  RefSum(d, s, c, w) =
           Outcome((d + s + c) % P, ArithmeticFlags(d, s, (d + s + c) % P, d + s + c >= P, w))
<1> DEFINE r == (d + s + c) % P
           carried == d + s + c >= P
<1>1. P = 2 * H /\ H \in Nat /\ H >= 128 /\ P = 32 * (8 * m) /\ 8 * m \in Nat
      /\ 2^w = P /\ 2^(w - 1) = H /\ P \in Nat /\ w - 1 \in 0 .. 15
  BY WidthFacts
<1>2. r \in 0 .. P - 1 /\ r = (IF carried THEN d + s + c - P ELSE d + s + c)
  BY <1>1, Reduce
<1> HIDE DEF r
<1>3. (BitAt(d, 4) + BitAt(s, 4) + BitAt(r, 4)) % 2 = 1 <=> (d % 16) + (s % 16) + c >= 16
  <2>1. PICK k \in Nat : k = 8 * m /\ P = 32 * k
    BY <1>1
  <2>2. d \in Nat /\ s \in Nat /\ r \in Nat
    BY <1>2
  <2>3. r = d + s + c \/ r = d + s + c - 32 * k
    BY <1>2, <2>1
  <2> QED BY <2>2, <2>3, HalfCarry, ZenonT(40)
<1>4. (carried <=> (BitAt(d, w - 1) + BitAt(s, w - 1) + BitAt(r, w - 1)) % 2 = 0)
        <=> ~Fits(AsSigned(d, w) + AsSigned(s, w) + c, w)
  <2>1. /\ BitAt(d, w - 1) = (IF d >= H THEN 1 ELSE 0) /\ BitAt(s, w - 1) = (IF s >= H THEN 1 ELSE 0)
        /\ BitAt(r, w - 1) = (IF r >= H THEN 1 ELSE 0)
    BY <1>1, <1>2, TopBit
  <2>2. /\ AsSigned(d, w) = (IF d >= H THEN d - P ELSE d)
        /\ AsSigned(s, w) = (IF s >= H THEN s - P ELSE s)
        /\ \A x : Fits(x, w) <=> x \in -H .. H - 1
    BY <1>1 DEF AsSigned, Fits
  <2> HIDE DEF carried
  <2>3. carried <=> d + s + c >= P
    BY DEF carried
  <2> QED BY <1>1, <1>2, <2>1, <2>2, <2>3
<1>5. RefSum(d, s, c, w) = [value |-> r, flags |-> ResultFlags(r, w) \cup
         {f \in {"CF", "AF", "OF"} :
            \/ f = "CF" /\ carried
            \/ f = "AF" /\ (d % 16) + (s % 16) + c >= 16
            \/ f = "OF" /\ ~Fits(AsSigned(d, w) + AsSigned(s, w) + c, w)}]
  BY <1>1 DEF RefSum, Wrap, r
<1> HIDE DEF carried
<1>6. RefSum(d, s, c, w) = Outcome(r, ArithmeticFlags(d, s, r, carried, w))
  BY <1>3, <1>4, <1>5 DEF Outcome, ArithmeticFlags
<1> QED BY <1>6 DEF r, carried

LEMMA DifferenceFlags ==
  ASSUME NEW w, NEW P, NEW H, NEW m, Width(w, P, H, m),
         NEW d \in 0 .. P - 1, NEW s \in 0 .. P - 1, NEW c \in {0, 1}
  PROVE  RefDifference(d, s, c, w) =
           Outcome((d - s - c) % P, ArithmeticFlags(d, s, (d - s - c) % P, d < s + c, w))
<1> DEFINE r == (d - s - c) % P
           carried == d < s + c
<1>1. P = 2 * H /\ H \in Nat /\ H >= 128 /\ P = 32 * (8 * m) /\ 8 * m \in Nat
      /\ 2^w = P /\ 2^(w - 1) = H /\ P \in Nat /\ w - 1 \in 0 .. 15
  BY WidthFacts
<1>2. r \in 0 .. P - 1 /\ r = (IF carried THEN d - s - c + P ELSE d - s - c)
  BY <1>1, Reduce
<1> HIDE DEF r
<1>3. (BitAt(d, 4) + BitAt(s, 4) + BitAt(r, 4)) % 2 = 1 <=> d % 16 < (s % 16) + c
  <2>1. PICK k \in Nat : k = 8 * m /\ P = 32 * k
    BY <1>1
  <2>2. d \in Nat /\ s \in Nat /\ r \in Nat
    BY <1>2
  <2>3. r = d - s - c \/ r = d - s - c + 32 * k
    BY <1>2, <2>1
  <2> QED BY <2>2, <2>3, HalfCarry
<1>4. (carried <=> (BitAt(d, w - 1) + BitAt(s, w - 1) + BitAt(r, w - 1)) % 2 = 0)
        <=> ~Fits(AsSigned(d, w) - AsSigned(s, w) - c, w)
  <2>1. /\ BitAt(d, w - 1) = (IF d >= H THEN 1 ELSE 0) /\ BitAt(s, w - 1) = (IF s >= H THEN 1 ELSE 0)
        /\ BitAt(r, w - 1) = (IF r >= H THEN 1 ELSE 0)
    BY <1>1, <1>2, TopBit
  <2>2. /\ AsSigned(d, w) = (IF d >= H THEN d - P ELSE d)
        /\ AsSigned(s, w) = (IF s >= H THEN s - P ELSE s)
        /\ \A x : Fits(x, w) <=> x \in -H .. H - 1
    BY <1>1 DEF AsSigned, Fits
  <2> HIDE DEF carried
  <2>3. carried <=> d < s + c
    BY DEF carried
  <2> QED BY <1>1, <1>2, <2>1, <2>2, <2>3
<1>5. RefDifference(d, s, c, w) = [value |-> r, flags |-> ResultFlags(r, w) \cup
         {f \in {"CF", "AF", "OF"} :
            \/ f = "CF" /\ carried
            \/ f = "AF" /\ d % 16 < (s % 16) + c
            \/ f = "OF" /\ ~Fits(AsSigned(d, w) - AsSigned(s, w) - c, w)}]
  BY <1>1 DEF RefDifference, Wrap, r
<1> HIDE DEF carried
<1>6. RefDifference(d, s, c, w) = Outcome(r, ArithmeticFlags(d, s, r, carried, w))
  BY <1>3, <1>4, <1>5 DEF Outcome, ArithmeticFlags
<1> QED BY <1>6 DEF r, carried

(* The general path of ADD to CMP, row by row.                               *)
LEMMA RawResults ==
  ASSUME NEW d, NEW s, NEW c, NEW w
  PROVE  /\ RawResult("ADD", d, s, c, w) = (d + s) % 2^w
         /\ RawResult("ADC", d, s, c, w) = (d + c + s) % 2^w
         /\ RawResult("SBB", d, s, c, w) = (d - (c + s)) % 2^w
         /\ RawResult("SUB", d, s, c, w) = (d - s) % 2^w
         /\ RawResult("CMP", d, s, c, w) = d - s
         /\ RawResult("OR", d, s, c, w) = Or(d, s)
         /\ RawResult("AND", d, s, c, w) = And(d, s)
         /\ RawResult("TEST", d, s, c, w) = And(d, s)
         /\ RawResult("XOR", d, s, c, w) = Xor(d, s)
BY DEF RawResult

LEMMA CarriesOut ==
  ASSUME NEW d, NEW r, NEW c
  PROVE  /\ CarryOut("ADD", d, r, c) <=> r < d
         /\ CarryOut("ADC", d, r, c) <=> (c = 1 /\ r = d) \/ r < d
         /\ CarryOut("SBB", d, r, c) <=> (c = 1 /\ r = d) \/ r > d
         /\ CarryOut("SUB", d, r, c) <=> r < 0 \/ r > d
         /\ CarryOut("CMP", d, r, c) <=> r < 0 \/ r > d
         /\ \A op \in {"OR", "AND", "XOR", "TEST"} : ~CarryOut(op, d, r, c)
BY Zenon DEF CarryOut

\* ADD to CMP are the sum and the difference.
LEMMA ArithSums ==
  ASSUME NEW w \in {8, 16}, NEW d \in 0 .. 2^w - 1, NEW s \in 0 .. 2^w - 1,
         NEW flags \in SUBSET AllFlags
  PROVE  /\ Arith("ADD", d, s, flags, w) = RefSum(d, s, 0, w)
         /\ Arith("ADC", d, s, flags, w) = RefSum(d, s, Carry(flags), w)
         /\ Arith("SUB", d, s, flags, w) = RefDifference(d, s, 0, w)
         /\ Arith("CMP", d, s, flags, w) = RefDifference(d, s, 0, w)
         /\ Arith("SBB", d, s, flags, w) = RefDifference(d, s, Carry(flags), w)
<1>1. PICK P, H, m : Width(w, P, H, m)
  BY Widths
<1>2. P = 2 * H /\ H \in Nat /\ H >= 128 /\ 2^w = P /\ P \in Nat /\ d \in 0 .. P - 1 /\ s \in 0 .. P - 1
      /\ BitAt(s, w - 1) = (IF s >= H THEN 1 ELSE 0)
  BY <1>1, WidthFacts, TopBit
<1>3. PICK c : c = Carry(flags) /\ c \in {0, 1}
  BY DEF Carry
<1>4. ASSUME NEW k \in {0, 1}
       PROVE  RefSum(d, s, k, w) =
                Outcome((d + s + k) % P, ArithmeticFlags(d, s, (d + s + k) % P, d + s + k >= P, w))
  BY <1>1, <1>2, SumFlags
<1>5. ASSUME NEW k \in {0, 1}
       PROVE  RefDifference(d, s, k, w) =
                Outcome((d - s - k) % P, ArithmeticFlags(d, s, (d - s - k) % P, d < s + k, w))
  BY <1>1, <1>2, DifferenceFlags
<1>6. ASSUME NEW op, ~Logical(op), NEW x \in -(P - 1) .. P - 1, NEW carried \in BOOLEAN,
             RawResult(op, d, s, Carry(flags), w) = x,
             CarryOut(op, d, x, Carry(flags)) <=> carried,
             x = d => (carried <=> BitAt(s, w - 1) = 1)
      PROVE  Arith(op, d, s, flags, w)
               = Outcome(x % P, ArithmeticFlags(d, s, x % P, carried, w))
  <2>1. Put(flags, "CF", CarryOut(op, d, x, Carry(flags))) = Put(flags, "CF", carried)
    BY <1>6 DEF Put
  <2>2. Arith(op, d, s, flags, w) =
          Outcome(x % P, SetAfOf(SetSzp(Put(flags, "CF", carried), x, w), d, s, x, w))
    BY <1>2, <1>6, <2>1 DEF Arith
  <2>3. SetAfOf(SetSzp(Put(flags, "CF", carried), x, w), d, s, x, w)
          = ArithmeticFlags(d, s, x % P, carried, w)
    BY <1>1, <1>2, <1>6, FlagsAfter
  <2> QED BY <2>2, <2>3
<1>7. Arith("ADD", d, s, flags, w) = RefSum(d, s, 0, w)
  <2> DEFINE carried == d + s + 0 >= P
  <2>1. PICK x : x = (d + s) % P
    OBVIOUS
  <2>2. carried \in BOOLEAN /\ (carried <=> d + s + 0 >= P)
    OBVIOUS
  <2>3. RefSum(d, s, 0, w)
          = Outcome((d + s + 0) % P, ArithmeticFlags(d, s, (d + s + 0) % P, carried, w))
    BY <1>2, <1>3, <1>4
  <2> HIDE DEF carried
  <2>4. x \in -(P - 1) .. P - 1 /\ x \in 0 .. P - 1 /\ x = (IF carried THEN (d + s + 0) - P ELSE d + s + 0)
    <3>1. PICK y \in 0 .. 2 * P - 1 : y = d + s /\ y = d + s + 0 /\ (carried <=> y >= P)
      BY <1>2, <1>3, <2>2
    <3>2. x = y % P
      BY <2>1, <3>1
    <3>3. P \in Nat /\ P > 0 /\ y \in 0 .. 2 * P - 1 /\ (carried <=> y >= P)
      BY <1>2, <3>1
    <3>4. x \in 0 .. P - 1 /\ x = (IF carried THEN y - P ELSE y)
      BY ONLY <3>2, <3>3, Reduce
    <3>5. 0 .. P - 1 \subseteq -(P - 1) .. P - 1
      BY <3>3
    <3> QED BY <3>1, <3>4, <3>5, Zenon
  <2>5. x % P = (d + s + 0) % P
    <3>1. x % P = x
      BY <1>2, <2>4
    <3>2. d + s = d + s + 0
      BY <1>2, <1>3
    <3> QED BY <2>1, <3>1, <3>2
  <2>6. RawResult("ADD", d, s, Carry(flags), w) = x /\ ~Logical("ADD")
    <3>1. ~Logical("ADD")
      BY DEF Logical
    <3>2. RawResult("ADD", d, s, Carry(flags), w) = (d + s) % 2^w
      BY DEF RawResult
    <3> QED BY <1>2, <1>3, <2>1, <3>1, <3>2, Zenon
  <2>7. CarryOut("ADD", d, x, Carry(flags)) <=> carried
    <3>1. CarryOut("ADD", d, x, c) <=> carried
      BY <1>2, <1>3, <2>2, <2>4, CarriesOut
    <3> QED BY <1>3, <3>1
  <2>8. x = d => (carried <=> BitAt(s, w - 1) = 1)
    BY <1>2, <1>3, <2>2, <2>4
  <2>9. Arith("ADD", d, s, flags, w) = Outcome(x % P, ArithmeticFlags(d, s, x % P, carried, w))
    BY ONLY <1>6, <2>2, <2>4, <2>6, <2>7, <2>8
  <2> QED BY <2>5, <2>9, <2>3
<1>8. Arith("ADC", d, s, flags, w) = RefSum(d, s, c, w)
  <2> DEFINE carried == d + s + c >= P
  <2>1. PICK x : x = (d + c + s) % P
    OBVIOUS
  <2>2. carried \in BOOLEAN /\ (carried <=> d + s + c >= P)
    OBVIOUS
  <2>3. RefSum(d, s, c, w)
          = Outcome((d + s + c) % P, ArithmeticFlags(d, s, (d + s + c) % P, carried, w))
    BY <1>2, <1>3, <1>4
  <2> HIDE DEF carried
  <2>4. x \in -(P - 1) .. P - 1 /\ x \in 0 .. P - 1 /\ x = (IF carried THEN (d + s + c) - P ELSE d + s + c)
    <3>1. PICK y \in 0 .. 2 * P - 1 : y = d + c + s /\ y = d + s + c /\ (carried <=> y >= P)
      BY <1>2, <1>3, <2>2
    <3>2. x = y % P
      BY <2>1, <3>1
    <3>3. P \in Nat /\ P > 0 /\ y \in 0 .. 2 * P - 1 /\ (carried <=> y >= P)
      BY <1>2, <3>1
    <3>4. x \in 0 .. P - 1 /\ x = (IF carried THEN y - P ELSE y)
      BY ONLY <3>2, <3>3, Reduce
    <3>5. 0 .. P - 1 \subseteq -(P - 1) .. P - 1
      BY <3>3
    <3> QED BY <3>1, <3>4, <3>5, Zenon
  <2>5. x % P = (d + s + c) % P
    <3>1. x % P = x
      BY <1>2, <2>4
    <3>2. d + c + s = d + s + c
      BY <1>2, <1>3
    <3> QED BY <2>1, <3>1, <3>2
  <2>6. RawResult("ADC", d, s, Carry(flags), w) = x /\ ~Logical("ADC")
    <3>1. ~Logical("ADC")
      BY DEF Logical
    <3>2. RawResult("ADC", d, s, Carry(flags), w) = (d + Carry(flags) + s) % 2^w
      BY DEF RawResult
    <3> QED BY <1>2, <1>3, <2>1, <3>1, <3>2, Zenon
  <2>7. CarryOut("ADC", d, x, Carry(flags)) <=> carried
    <3>1. CarryOut("ADC", d, x, c) <=> carried
      BY <1>2, <1>3, <2>2, <2>4, CarriesOut
    <3> QED BY <1>3, <3>1
  <2>8. x = d => (carried <=> BitAt(s, w - 1) = 1)
    BY <1>2, <1>3, <2>2, <2>4
  <2>9. Arith("ADC", d, s, flags, w) = Outcome(x % P, ArithmeticFlags(d, s, x % P, carried, w))
    BY ONLY <1>6, <2>2, <2>4, <2>6, <2>7, <2>8
  <2> QED BY <2>5, <2>9, <2>3
<1>9. Arith("SUB", d, s, flags, w) = RefDifference(d, s, 0, w)
  <2> DEFINE carried == d < s + 0
  <2>1. PICK x : x = (d - s) % P
    OBVIOUS
  <2>2. carried \in BOOLEAN /\ (carried <=> d < s + 0)
    OBVIOUS
  <2>3. RefDifference(d, s, 0, w)
          = Outcome((d - s - 0) % P, ArithmeticFlags(d, s, (d - s - 0) % P, carried, w))
    BY <1>2, <1>3, <1>5
  <2> HIDE DEF carried
  <2>4. x \in -(P - 1) .. P - 1 /\ x \in 0 .. P - 1 /\ x = (IF carried THEN d - s - 0 + P ELSE d - s - 0)
    <3>1. PICK y \in -P .. P - 1 : y = d - s /\ y = d - s - 0 /\ (carried <=> y < 0)
      BY <1>2, <1>3, <2>2
    <3>2. x = y % P
      BY <2>1, <3>1
    <3>3. P \in Nat /\ P > 0 /\ y \in -P .. P - 1 /\ (carried <=> y < 0)
      BY <1>2, <3>1
    <3>4. x \in 0 .. P - 1 /\ x = (IF carried THEN y + P ELSE y)
      BY ONLY <3>2, <3>3, Reduce
    <3>5. 0 .. P - 1 \subseteq -(P - 1) .. P - 1
      BY <3>3
    <3> QED BY <3>1, <3>4, <3>5, Zenon
  <2>5. x % P = (d - s - 0) % P
    <3>1. x % P = x
      BY <1>2, <2>4
    <3>2. d - s = d - s - 0
      BY <1>2, <1>3
    <3> QED BY <2>1, <3>1, <3>2
  <2>6. RawResult("SUB", d, s, Carry(flags), w) = x /\ ~Logical("SUB")
    <3>1. ~Logical("SUB")
      BY DEF Logical
    <3>2. RawResult("SUB", d, s, Carry(flags), w) = (d - s) % 2^w
      BY DEF RawResult
    <3> QED BY <1>2, <1>3, <2>1, <3>1, <3>2, Zenon
  <2>7. CarryOut("SUB", d, x, Carry(flags)) <=> carried
    <3>1. CarryOut("SUB", d, x, c) <=> carried
      BY <1>2, <1>3, <2>2, <2>4, CarriesOut
    <3> QED BY <1>3, <3>1
  <2>8. x = d => (carried <=> BitAt(s, w - 1) = 1)
    BY <1>2, <1>3, <2>2, <2>4
  <2>9. Arith("SUB", d, s, flags, w) = Outcome(x % P, ArithmeticFlags(d, s, x % P, carried, w))
    BY ONLY <1>6, <2>2, <2>4, <2>6, <2>7, <2>8
  <2> QED BY <2>5, <2>9, <2>3
<1>10. Arith("CMP", d, s, flags, w) = RefDifference(d, s, 0, w)
  <2> DEFINE carried == d < s + 0
  <2>1. PICK x : x = d - s
    OBVIOUS
  <2>2. carried \in BOOLEAN /\ (carried <=> d < s + 0)
    OBVIOUS
  <2>3. RefDifference(d, s, 0, w)
          = Outcome((d - s - 0) % P, ArithmeticFlags(d, s, (d - s - 0) % P, carried, w))
    BY <1>2, <1>3, <1>5
  <2> HIDE DEF carried
  <2>4. x \in -(P - 1) .. P - 1 /\ x = d - s - 0
    BY <1>2, <1>3, <2>1, <2>2
  <2>5. x % P = (d - s - 0) % P
    BY <1>2, <2>4
  <2>6. RawResult("CMP", d, s, Carry(flags), w) = x /\ ~Logical("CMP")
    <3>1. ~Logical("CMP")
      BY DEF Logical
    <3>2. RawResult("CMP", d, s, Carry(flags), w) = d - s
      BY DEF RawResult
    <3> QED BY <1>2, <1>3, <2>1, <3>1, <3>2, Zenon
  <2>7. CarryOut("CMP", d, x, Carry(flags)) <=> carried
    <3>1. CarryOut("CMP", d, x, c) <=> carried
      BY <1>2, <1>3, <2>2, <2>4, CarriesOut
    <3> QED BY <1>3, <3>1
  <2>8. x = d => (carried <=> BitAt(s, w - 1) = 1)
    BY <1>2, <1>3, <2>2, <2>4
  <2>9. Arith("CMP", d, s, flags, w) = Outcome(x % P, ArithmeticFlags(d, s, x % P, carried, w))
    BY ONLY <1>6, <2>2, <2>4, <2>6, <2>7, <2>8
  <2> QED BY <2>5, <2>9, <2>3
<1>11. Arith("SBB", d, s, flags, w) = RefDifference(d, s, c, w)
  <2> DEFINE carried == d < s + c
  <2>1. PICK x : x = (d - (c + s)) % P
    OBVIOUS
  <2>2. carried \in BOOLEAN /\ (carried <=> d < s + c)
    OBVIOUS
  <2>3. RefDifference(d, s, c, w)
          = Outcome((d - s - c) % P, ArithmeticFlags(d, s, (d - s - c) % P, carried, w))
    BY <1>2, <1>3, <1>5
  <2> HIDE DEF carried
  <2>4. x \in -(P - 1) .. P - 1 /\ x \in 0 .. P - 1 /\ x = (IF carried THEN d - s - c + P ELSE d - s - c)
    <3>1. PICK y \in -P .. P - 1 : y = d - (c + s) /\ y = d - s - c /\ (carried <=> y < 0)
      BY <1>2, <1>3, <2>2
    <3>2. x = y % P
      BY <2>1, <3>1
    <3>3. P \in Nat /\ P > 0 /\ y \in -P .. P - 1 /\ (carried <=> y < 0)
      BY <1>2, <3>1
    <3>4. x \in 0 .. P - 1 /\ x = (IF carried THEN y + P ELSE y)
      BY ONLY <3>2, <3>3, Reduce
    <3>5. 0 .. P - 1 \subseteq -(P - 1) .. P - 1
      BY <3>3
    <3> QED BY <3>1, <3>4, <3>5, Zenon
  <2>5. x % P = (d - s - c) % P
    <3>1. x % P = x
      BY <1>2, <2>4
    <3>2. d - (c + s) = d - s - c
      BY <1>2, <1>3
    <3> QED BY <2>1, <3>1, <3>2
  <2>6. RawResult("SBB", d, s, Carry(flags), w) = x /\ ~Logical("SBB")
    <3>1. ~Logical("SBB")
      BY DEF Logical
    <3>2. RawResult("SBB", d, s, Carry(flags), w) = (d - (Carry(flags) + s)) % 2^w
      BY DEF RawResult
    <3> QED BY <1>2, <1>3, <2>1, <3>1, <3>2, Zenon
  <2>7. CarryOut("SBB", d, x, Carry(flags)) <=> carried
    <3>1. CarryOut("SBB", d, x, c) <=> carried
      BY <1>2, <1>3, <2>2, <2>4, CarriesOut
    <3> QED BY <1>3, <3>1
  <2>8. x = d => (carried <=> BitAt(s, w - 1) = 1)
    BY <1>2, <1>3, <2>2, <2>4
  <2>9. Arith("SBB", d, s, flags, w) = Outcome(x % P, ArithmeticFlags(d, s, x % P, carried, w))
    BY ONLY <1>6, <2>2, <2>4, <2>6, <2>7, <2>8
  <2> QED BY <2>5, <2>9, <2>3
<1> QED BY <1>3, <1>7, <1>8, <1>9, <1>10, <1>11

\* The flags of a set built by SetSzp around an overflow and a half carry.
LEMMA FlagSets ==
  ASSUME NEW w, NEW P, NEW H, NEW m, Width(w, P, H, m),
         NEW d \in 0 .. P - 1, NEW s \in 0 .. P - 1, NEW r \in 0 .. P - 1,
         NEW flags, NEW over \in BOOLEAN, NEW f
  PROVE  LET half == (BitAt(d, 4) + BitAt(s, 4) + BitAt(r, 4)) % 2 = 1
             expected == IF f \in {"SF", "ZF", "PF"} THEN f \in ResultFlags(r, w)
                         ELSE IF f = "OF" THEN over
                         ELSE IF f = "AF" THEN half ELSE f \in flags
         IN  /\ f \in Put(SetSzp(SetAfOf(flags, d, s, r, w), r, w), "OF", over) <=> expected
             /\ f \in SetSzp(Put(Put(flags, "AF", BitAt(Xor(Xor(d, s), r), 4) = 1), "OF", over), r, w)
                  <=> expected
<1> DEFINE half == (BitAt(d, 4) + BitAt(s, 4) + BitAt(r, 4)) % 2 = 1
           changed == Xor(Xor(d, s), r)
<1>1. P \in Nat /\ P <= 256 * 256 /\ 2^w = P /\ w - 1 \in 0 .. 15 /\ 4 \in 0 .. 15
      /\ r % P = r /\ r \in -(P - 1) .. P - 1
  BY WidthFacts, Reduce
<1>2. BitAt(changed, 4) = 1 <=> half
  <2>1. IsWord(d) /\ IsWord(s) /\ IsWord(r)
    BY <1>1 DEF IsWord
  <2> QED BY <1>1, <2>1, ChangedBits
<1>3. \A set : f \in SetSzp(set, r, w) <=>
        IF f \in {"SF", "ZF", "PF"} THEN f \in ResultFlags(r, w) ELSE f \in set
  BY <1>1, SzpFlags
<1>4. SetAfOf(flags, d, s, r, w) =
        Put(Put(flags, "AF", BitAt(changed, 4) = 1),
            "OF", r # d /\ (Carry(flags) # BitAt(changed, w - 1)))
  BY <1>1 DEF SetAfOf
<1> HIDE DEF half, changed
<1>5. f # "OF" => (f \in SetAfOf(flags, d, s, r, w) <=> IF f = "AF" THEN half ELSE f \in flags)
  BY <1>2, <1>4 DEF Put
<1>6. f \in Put(Put(flags, "AF", BitAt(changed, 4) = 1), "OF", over) <=>
        IF f = "OF" THEN over ELSE IF f = "AF" THEN half ELSE f \in flags
  BY <1>2 DEF Put
<1>7. f \in SetSzp(Put(Put(flags, "AF", BitAt(changed, 4) = 1), "OF", over), r, w) <=>
        IF f \in {"SF", "ZF", "PF"} THEN f \in ResultFlags(r, w)
        ELSE IF f = "OF" THEN over ELSE IF f = "AF" THEN half ELSE f \in flags
  BY <1>3, <1>6
<1>8. f \in Put(SetSzp(SetAfOf(flags, d, s, r, w), r, w), "OF", over) <=>
        IF f = "OF" THEN over ELSE f \in SetSzp(SetAfOf(flags, d, s, r, w), r, w)
  BY DEF Put
<1>9. f \in Put(SetSzp(SetAfOf(flags, d, s, r, w), r, w), "OF", over) <=>
        IF f \in {"SF", "ZF", "PF"} THEN f \in ResultFlags(r, w)
        ELSE IF f = "OF" THEN over ELSE IF f = "AF" THEN half ELSE f \in flags
  BY <1>3, <1>5, <1>8
<1> QED BY <1>7, <1>9 DEF half, changed

\* The members of the reference's sets of flags.
LEMMA ReferenceFlags ==
  ASSUME NEW w, NEW P, NEW H, NEW m, Width(w, P, H, m),
         NEW d \in 0 .. P - 1, NEW s \in 0 .. P - 1, NEW c \in {0, 1}, NEW f
  PROVE  /\ LET r == (d + s + c) % P
            IN  f \in RefSum(d, s, c, w).flags <=>
                  IF f \in {"SF", "ZF", "PF"} THEN f \in ResultFlags(r, w)
                  ELSE \/ f = "CF" /\ d + s + c >= P
                       \/ f = "AF" /\ (BitAt(d, 4) + BitAt(s, 4) + BitAt(r, 4)) % 2 = 1
                       \/ f = "OF" /\ ~Fits(AsSigned(d, w) + AsSigned(s, w) + c, w)
         /\ LET r == (d - s - c) % P
            IN  f \in RefDifference(d, s, c, w).flags <=>
                  IF f \in {"SF", "ZF", "PF"} THEN f \in ResultFlags(r, w)
                  ELSE \/ f = "CF" /\ d < s + c
                       \/ f = "AF" /\ (BitAt(d, 4) + BitAt(s, 4) + BitAt(r, 4)) % 2 = 1
                       \/ f = "OF" /\ ~Fits(AsSigned(d, w) - AsSigned(s, w) - c, w)
<1>1. 2^w = P
  BY WidthFacts
<1>2. \A r : ResultFlags(r, w) \subseteq {"SF", "ZF", "PF"}
  BY DEF ResultFlags
<1>3. \A r, carried : f = "AF" => (f \in ArithmeticFlags(d, s, r, carried, w)
                                     <=> (BitAt(d, 4) + BitAt(s, 4) + BitAt(r, 4)) % 2 = 1)
  BY <1>2 DEF ArithmeticFlags
<1>4. RefSum(d, s, c, w).flags
        = ArithmeticFlags(d, s, (d + s + c) % P, d + s + c >= P, w)
  BY SumFlags DEF Outcome
<1>5. RefDifference(d, s, c, w).flags
        = ArithmeticFlags(d, s, (d - s - c) % P, d < s + c, w)
  BY DifferenceFlags DEF Outcome
<1>6. f # "AF" => (f \in RefSum(d, s, c, w).flags <=>
         IF f \in {"SF", "ZF", "PF"} THEN f \in ResultFlags((d + s + c) % P, w)
         ELSE \/ f = "CF" /\ d + s + c >= P
              \/ f = "OF" /\ ~Fits(AsSigned(d, w) + AsSigned(s, w) + c, w))
  BY <1>1, <1>2 DEF RefSum, Wrap
<1>7. f # "AF" => (f \in RefDifference(d, s, c, w).flags <=>
         IF f \in {"SF", "ZF", "PF"} THEN f \in ResultFlags((d - s - c) % P, w)
         ELSE \/ f = "CF" /\ d < s + c
              \/ f = "OF" /\ ~Fits(AsSigned(d, w) - AsSigned(s, w) - c, w))
  BY <1>1, <1>2 DEF RefDifference, Wrap
<1>8. f = "AF" => (f \in RefSum(d, s, c, w).flags <=>
                     (BitAt(d, 4) + BitAt(s, 4) + BitAt((d + s + c) % P, 4)) % 2 = 1)
  BY <1>3, <1>4
<1>9. f = "AF" => (f \in RefDifference(d, s, c, w).flags <=>
                     (BitAt(d, 4) + BitAt(s, 4) + BitAt((d - s - c) % P, 4)) % 2 = 1)
  BY <1>3, <1>5
<1> QED BY <1>6, <1>7, <1>8, <1>9

\* A reference result, but for the carry.
KeepingCarry(ref, flags) == [ref EXCEPT !.flags = Put(@, "CF", "CF" \in flags)]

\* The parts of a reference outcome.
LEMMA RefParts ==
  ASSUME NEW d, NEW s, NEW c, NEW w
  PROVE  /\ RefSum(d, s, c, w) = Outcome(Wrap(d + s + c, w), RefSum(d, s, c, w).flags)
         /\ RefDifference(d, s, c, w) = Outcome(Wrap(d - s - c, w), RefDifference(d, s, c, w).flags)
<1>1. \A v, old : Outcome(v, old).flags = old
  BY DEF Outcome
<1>2. \E old : RefSum(d, s, c, w) = Outcome(Wrap(d + s + c, w), old)
  BY DEF RefSum, Outcome
<1>3. \E old : RefDifference(d, s, c, w) = Outcome(Wrap(d - s - c, w), old)
  BY DEF RefDifference, Outcome
<1> QED BY <1>1, <1>2, <1>3

LEMMA RefForms ==
  ASSUME NEW d, NEW s, NEW c, NEW w, NEW flags
  PROVE  /\ KeepingCarry(RefSum(d, s, c, w), flags) =
              Outcome(Wrap(d + s + c, w), Put(RefSum(d, s, c, w).flags, "CF", "CF" \in flags))
         /\ KeepingCarry(RefDifference(d, s, c, w), flags) =
              Outcome(Wrap(d - s - c, w), Put(RefDifference(d, s, c, w).flags, "CF", "CF" \in flags))
<1>1. \A v, old : KeepingCarry(Outcome(v, old), flags) = Outcome(v, Put(old, "CF", "CF" \in flags))
  BY DEF KeepingCarry, Outcome
<1> QED BY <1>1, RefParts

\* INC and DEC, on both paths, are a sum and a difference that keep the carry.
LEMMA Increments ==
  ASSUME NEW w \in {8, 16}, NEW d \in 0 .. 2^w - 1, NEW flags \in SUBSET AllFlags
  PROVE  /\ IncDec("INC", d, flags, w) = KeepingCarry(RefSum(d, 1, 0, w), flags)
         /\ FastIncDec("INC", d, flags, w) = KeepingCarry(RefSum(d, 1, 0, w), flags)
<1>1. PICK P, H, m : Width(w, P, H, m)
  BY Widths
<1>2. P = 2 * H /\ H \in Nat /\ H >= 128 /\ 2^w = P /\ 2^(w - 1) = H /\ P \in Nat
      /\ d \in 0 .. P - 1 /\ 1 \in 0 .. P - 1 /\ d \in Int
  BY <1>1, WidthFacts
<1> DEFINE r == (d + 1) % P
           over == d + 1 = H
           ref == RefSum(d, 1, 0, w).flags
<1>3. r \in 0 .. P - 1 /\ (d + 1 + 0) % P = r /\ Wrap(d + 1 + 0, w) = r
  BY <1>2 DEF Wrap
<1>4. over <=> ~Fits(AsSigned(d, w) + AsSigned(1, w) + 0, w)
  BY <1>2 DEF AsSigned, Fits
<1>5. over \in BOOLEAN /\ (d = H - 1) = over
  BY <1>2
<1>6. /\ IncDec("INC", d, flags, w)
           = Outcome(r, Put(SetSzp(SetAfOf(flags, d, 1, r, w), r, w), "OF", over))
      /\ FastIncDec("INC", d, flags, w)
           = Outcome(r, SetSzp(Put(Put(flags, "AF", BitAt(Xor(Xor(d, 1), r), 4) = 1), "OF", over), r, w))
  BY <1>2, <1>5 DEF IncDec, FastIncDec
<1>7. \A f : f \in ref <=>
               IF f \in {"SF", "ZF", "PF"} THEN f \in ResultFlags(r, w)
               ELSE \/ f = "CF" /\ d + 1 + 0 >= P
                    \/ f = "AF" /\ (BitAt(d, 4) + BitAt(1, 4) + BitAt(r, 4)) % 2 = 1
                    \/ f = "OF" /\ over
  BY <1>1, <1>2, <1>3, <1>4, ReferenceFlags
<1> HIDE DEF r, over, ref
<1>8. \A f : f \in Put(ref, "CF", "CF" \in flags) <=>
               IF f \in {"SF", "ZF", "PF"} THEN f \in ResultFlags(r, w)
               ELSE IF f = "OF" THEN over
               ELSE IF f = "AF" THEN (BitAt(d, 4) + BitAt(1, 4) + BitAt(r, 4)) % 2 = 1
               ELSE f \in flags
  BY <1>7 DEF Put, AllFlags
<1>9. /\ Put(SetSzp(SetAfOf(flags, d, 1, r, w), r, w), "OF", over) = Put(ref, "CF", "CF" \in flags)
      /\ SetSzp(Put(Put(flags, "AF", BitAt(Xor(Xor(d, 1), r), 4) = 1), "OF", over), r, w)
           = Put(ref, "CF", "CF" \in flags)
  <2>1. \A f : LET half == (BitAt(d, 4) + BitAt(1, 4) + BitAt(r, 4)) % 2 = 1
                   expected == IF f \in {"SF", "ZF", "PF"} THEN f \in ResultFlags(r, w)
                               ELSE IF f = "OF" THEN over
                               ELSE IF f = "AF" THEN half ELSE f \in flags
               IN  /\ f \in Put(SetSzp(SetAfOf(flags, d, 1, r, w), r, w), "OF", over) <=> expected
                   /\ f \in SetSzp(Put(Put(flags, "AF", BitAt(Xor(Xor(d, 1), r), 4) = 1), "OF", over), r, w)
                        <=> expected
    BY <1>1, <1>2, <1>3, <1>5, FlagSets
  <2> QED BY <1>8, <2>1
<1>10. KeepingCarry(RefSum(d, 1, 0, w), flags) = Outcome(r, Put(ref, "CF", "CF" \in flags))
  BY <1>3, RefForms DEF ref
<1> QED BY <1>6, <1>9, <1>10

LEMMA Decrements ==
  ASSUME NEW w \in {8, 16}, NEW d \in 0 .. 2^w - 1, NEW flags \in SUBSET AllFlags
  PROVE  /\ IncDec("DEC", d, flags, w) = KeepingCarry(RefDifference(d, 1, 0, w), flags)
         /\ FastIncDec("DEC", d, flags, w) = KeepingCarry(RefDifference(d, 1, 0, w), flags)
<1>1. PICK P, H, m : Width(w, P, H, m)
  BY Widths
<1>2. P = 2 * H /\ H \in Nat /\ H >= 128 /\ 2^w = P /\ 2^(w - 1) = H /\ P \in Nat
      /\ d \in 0 .. P - 1 /\ 1 \in 0 .. P - 1 /\ d \in Int
  BY <1>1, WidthFacts
<1> DEFINE r == (d - 1) % P
           over == d = H
           ref == RefDifference(d, 1, 0, w).flags
<1>3. r \in 0 .. P - 1 /\ (d - 1 - 0) % P = r /\ Wrap(d - 1 - 0, w) = r
  BY <1>2 DEF Wrap
<1>4. over <=> ~Fits(AsSigned(d, w) - AsSigned(1, w) - 0, w)
  BY <1>2 DEF AsSigned, Fits
<1>5. over \in BOOLEAN
  OBVIOUS
<1>6. /\ IncDec("DEC", d, flags, w)
           = Outcome(r, Put(SetSzp(SetAfOf(flags, d, 1, r, w), r, w), "OF", over))
      /\ FastIncDec("DEC", d, flags, w)
           = Outcome(r, SetSzp(Put(Put(flags, "AF", BitAt(Xor(Xor(d, 1), r), 4) = 1), "OF", over), r, w))
  BY <1>2, <1>5 DEF IncDec, FastIncDec
<1>7. \A f : f \in ref <=>
               IF f \in {"SF", "ZF", "PF"} THEN f \in ResultFlags(r, w)
               ELSE \/ f = "CF" /\ d < 1 + 0
                    \/ f = "AF" /\ (BitAt(d, 4) + BitAt(1, 4) + BitAt(r, 4)) % 2 = 1
                    \/ f = "OF" /\ over
  BY <1>1, <1>2, <1>3, <1>4, ReferenceFlags
<1> HIDE DEF r, over, ref
<1>8. \A f : f \in Put(ref, "CF", "CF" \in flags) <=>
               IF f \in {"SF", "ZF", "PF"} THEN f \in ResultFlags(r, w)
               ELSE IF f = "OF" THEN over
               ELSE IF f = "AF" THEN (BitAt(d, 4) + BitAt(1, 4) + BitAt(r, 4)) % 2 = 1
               ELSE f \in flags
  BY <1>7 DEF Put, AllFlags
<1>9. /\ Put(SetSzp(SetAfOf(flags, d, 1, r, w), r, w), "OF", over) = Put(ref, "CF", "CF" \in flags)
      /\ SetSzp(Put(Put(flags, "AF", BitAt(Xor(Xor(d, 1), r), 4) = 1), "OF", over), r, w)
           = Put(ref, "CF", "CF" \in flags)
  <2>1. \A f : LET half == (BitAt(d, 4) + BitAt(1, 4) + BitAt(r, 4)) % 2 = 1
                   expected == IF f \in {"SF", "ZF", "PF"} THEN f \in ResultFlags(r, w)
                               ELSE IF f = "OF" THEN over
                               ELSE IF f = "AF" THEN half ELSE f \in flags
               IN  /\ f \in Put(SetSzp(SetAfOf(flags, d, 1, r, w), r, w), "OF", over) <=> expected
                   /\ f \in SetSzp(Put(Put(flags, "AF", BitAt(Xor(Xor(d, 1), r), 4) = 1), "OF", over), r, w)
                        <=> expected
    BY <1>1, <1>2, <1>3, <1>5, FlagSets
  <2> QED BY <1>8, <2>1
<1>10. KeepingCarry(RefDifference(d, 1, 0, w), flags) = Outcome(r, Put(ref, "CF", "CF" \in flags))
  BY <1>3, RefForms DEF ref
<1> QED BY <1>6, <1>9, <1>10

\* NEG is a difference from zero.
LEMMA Negation ==
  ASSUME NEW w \in {8, 16}, NEW s \in 0 .. 2^w - 1, NEW flags \in SUBSET AllFlags
  PROVE  Negate(s, flags, w) = RefDifference(0, s, 0, w)
<1>1. PICK P, H, m : Width(w, P, H, m)
  BY Widths
<1>2. P = 2 * H /\ H \in Nat /\ H >= 128 /\ 2^w = P /\ P \in Nat
      /\ s \in 0 .. P - 1 /\ 0 \in 0 .. P - 1 /\ s \in Int
      /\ BitAt(s, w - 1) = (IF s >= H THEN 1 ELSE 0)
  BY <1>1, WidthFacts, TopBit
<1> DEFINE carried == 0 < s + 0
<1>3. RefDifference(0, s, 0, w)
        = Outcome((0 - s - 0) % P, ArithmeticFlags(0, s, (0 - s - 0) % P, carried, w))
  BY <1>1, <1>2, DifferenceFlags
<1>4. carried \in BOOLEAN /\ (carried <=> s > 0)
  BY <1>2
<1> HIDE DEF carried
<1>5. PICK r : r = (-s) % P /\ r = (0 - s - 0) % P
  BY <1>2
<1>6. r \in 0 .. P - 1 /\ r \in -(P - 1) .. P - 1 /\ r % P = r /\ (r > 0 <=> carried) /\ r \in Int
  BY <1>2, <1>4, <1>5
<1>7. Put(flags, "CF", r > 0) = Put(flags, "CF", carried)
  BY <1>6 DEF Put
<1>8. r = 0 => (carried <=> BitAt(s, w - 1) = 1)
  BY <1>2, <1>4, <1>6
<1>9. SetAfOf(SetSzp(Put(flags, "CF", carried), r, w), 0, s, r, w)
        = ArithmeticFlags(0, s, r % P, carried, w)
  BY <1>1, <1>2, <1>4, <1>6, <1>8, FlagsAfter
<1>10. Negate(s, flags, w) = Outcome(r, SetAfOf(SetSzp(Put(flags, "CF", carried), r, w), 0, s, r, w))
  BY <1>2, <1>5, <1>7 DEF Negate
<1> QED BY <1>3, <1>5, <1>6, <1>9, <1>10

(* The register-only additions.                                              *)
LEMMA FastSums ==
  ASSUME NEW w \in {8, 16}, NEW d \in 0 .. 2^w - 1, NEW s \in 0 .. 2^w - 1,
         NEW c \in {0, 1}, NEW flags \in SUBSET AllFlags
  PROVE  FastAdd(d, s, c, flags, w) = RefSum(d, s, c, w)
<1>1. PICK P, H, m : Width(w, P, H, m)
  BY Widths
<1>2. P = 2 * H /\ H \in Nat /\ H >= 128 /\ 2^w = P /\ 2^(w - 1) = H /\ P \in Nat /\ P <= 256 * 256
      /\ w - 1 \in 0 .. 15 /\ d \in 0 .. P - 1 /\ s \in 0 .. P - 1
      /\ (w = 8 => P = 256) /\ (w = 16 => P = 256 * 256)
  BY <1>1, WidthFacts
<1> DEFINE r == (d + s + c) % P
           same == P - 1 - Xor(d, s)
           over == BitAt(And(same, Xor(d, r)), w - 1) = 1
           carried == d + s + c >= P
<1>3. r \in 0 .. P - 1 /\ (d + s + c) % P = r /\ Wrap(d + s + c, w) = r
      /\ r = (IF d + s + c >= P THEN d + s + c - P ELSE d + s + c)
  BY <1>2, Reduce DEF Wrap
<1> HIDE DEF r
<1>4. IsWord(d) /\ IsWord(s) /\ IsWord(r)
  BY <1>2, <1>3 DEF IsWord
<1>5. /\ Xor(d, s) \in 0 .. P - 1
      /\ BitAt(Xor(d, s), w - 1) = (BitAt(d, w - 1) + BitAt(s, w - 1)) % 2
      /\ IsWord(Xor(d, r))
      /\ BitAt(Xor(d, r), w - 1) = (BitAt(d, w - 1) + BitAt(r, w - 1)) % 2
  <2>1. IsWord(Xor(d, s)) /\ (d <= 255 /\ s <= 255 => Xor(d, s) <= 255)
    BY <1>4, XorBits
  <2>2. Xor(d, s) \in 0 .. P - 1
    <3>1. CASE w = 8
      BY <1>2, <2>1, <3>1 DEF IsWord
    <3>2. CASE w = 16
      BY <1>2, <2>1, <3>2 DEF IsWord
    <3> QED BY <3>1, <3>2
  <2> QED BY <1>2, <1>4, <2>2, XorBits
<1>6. same \in 0 .. P - 1 /\ IsWord(same)
      /\ BitAt(same, w - 1) = 1 - BitAt(Xor(d, s), w - 1)
  <2>1. PICK x \in 0 .. P - 1 : x = Xor(d, s) /\ same = P - 1 - x
    BY <1>5
  <2>2. same \in 0 .. P - 1
    BY <1>2, <2>1
  <2>3. BitAt(x, w - 1) = (IF x >= H THEN 1 ELSE 0)
        /\ BitAt(same, w - 1) = (IF same >= H THEN 1 ELSE 0)
    BY <1>1, <1>2, <2>2, TopBit
  <2>4. BitAt(same, w - 1) = 1 - BitAt(x, w - 1)
    BY <1>2, <2>1, <2>3
  <2> QED BY <1>2, <2>1, <2>2, <2>4 DEF IsWord
<1> HIDE DEF same
<1>7. over <=> BitAt(same, w - 1) = 1 /\ BitAt(Xor(d, r), w - 1) = 1
  BY <1>2, <1>5, <1>6, AndBits
<1>8. /\ BitAt(d, w - 1) = (IF d >= H THEN 1 ELSE 0) /\ BitAt(s, w - 1) = (IF s >= H THEN 1 ELSE 0)
      /\ BitAt(r, w - 1) = (IF r >= H THEN 1 ELSE 0)
  BY <1>1, <1>2, <1>3, TopBit
<1>9. over \in BOOLEAN /\ carried \in BOOLEAN
  OBVIOUS
<1> HIDE DEF over
<1>10. over <=> ~Fits(AsSigned(d, w) + AsSigned(s, w) + c, w)
  <2>1. /\ AsSigned(d, w) = (IF d >= H THEN d - P ELSE d)
        /\ AsSigned(s, w) = (IF s >= H THEN s - P ELSE s)
        /\ \A x : Fits(x, w) <=> x \in -H .. H - 1
    BY <1>2 DEF AsSigned, Fits
  <2>2. over <=> ((d >= H <=> s >= H) /\ ~(d >= H <=> r >= H))
    BY <1>5, <1>6, <1>7, <1>8
  <2> QED BY <1>2, <1>3, <2>1, <2>2
<1>11. FastAdd(d, s, c, flags, w) =
         Outcome(r, SetSzp(Put(Put(Put(flags, "CF", carried), "AF", BitAt(Xor(Xor(d, s), r), 4) = 1),
                               "OF", over), r, w))
  BY <1>2, <1>3 DEF FastAdd, over, same
<1>12. \A f : f \in RefSum(d, s, c, w).flags <=>
                IF f \in {"SF", "ZF", "PF"} THEN f \in ResultFlags(r, w)
                ELSE \/ f = "CF" /\ carried
                     \/ f = "AF" /\ (BitAt(d, 4) + BitAt(s, 4) + BitAt(r, 4)) % 2 = 1
                     \/ f = "OF" /\ over
  BY <1>1, <1>2, <1>3, <1>10, ReferenceFlags
<1> HIDE DEF carried
<1>13. \A f : f \in SetSzp(Put(Put(Put(flags, "CF", carried), "AF", BitAt(Xor(Xor(d, s), r), 4) = 1),
                               "OF", over), r, w) <=>
                IF f \in {"SF", "ZF", "PF"} THEN f \in ResultFlags(r, w)
                ELSE IF f = "OF" THEN over
                ELSE IF f = "AF" THEN (BitAt(d, 4) + BitAt(s, 4) + BitAt(r, 4)) % 2 = 1
                ELSE f \in Put(flags, "CF", carried)
  <2>1. ASSUME NEW set, NEW f
        PROVE  LET half == (BitAt(d, 4) + BitAt(s, 4) + BitAt(r, 4)) % 2 = 1
                   expected == IF f \in {"SF", "ZF", "PF"} THEN f \in ResultFlags(r, w)
                               ELSE IF f = "OF" THEN over
                               ELSE IF f = "AF" THEN half ELSE f \in set
               IN  /\ f \in Put(SetSzp(SetAfOf(set, d, s, r, w), r, w), "OF", over) <=> expected
                   /\ f \in SetSzp(Put(Put(set, "AF", BitAt(Xor(Xor(d, s), r), 4) = 1), "OF", over), r, w)
                        <=> expected
    <3>1. d \in 0 .. P - 1 /\ s \in 0 .. P - 1 /\ r \in 0 .. P - 1 /\ over \in BOOLEAN
      BY <1>2, <1>3, <1>9
    <3> QED BY ONLY <1>1, <3>1, FlagSets
  <2> QED BY <2>1
<1>14. SetSzp(Put(Put(Put(flags, "CF", carried), "AF", BitAt(Xor(Xor(d, s), r), 4) = 1),
                  "OF", over), r, w) = RefSum(d, s, c, w).flags
  <2>1. \A f : f \in Put(flags, "CF", carried) <=> IF f = "CF" THEN carried ELSE f \in flags
    BY DEF Put
  <2> QED BY <1>12, <1>13, <2>1 DEF AllFlags
<1>15. RefSum(d, s, c, w) = Outcome(r, RefSum(d, s, c, w).flags)
  BY <1>3, RefParts
<1> QED BY <1>11, <1>14, <1>15

\* A width is the product of what a shift by i keeps and what it makes room for.
LEMMA PowerSplit ==
  ASSUME NEW w \in {8, 16}, NEW i \in 0 .. w
  PROVE  2^i \in Nat \ {0} /\ 2^(w - i) \in Nat \ {0} /\ 2^w = 2^i * 2^(w - i)
<1>1. CASE w = 8
  <2>1. i \in {0, 1, 2, 3, 4, 5, 6, 7, 8}
    BY <1>1
  <2>2. (i = 0 /\ w - i = 8) \/ (i = 1 /\ w - i = 7) \/ (i = 2 /\ w - i = 6)
          \/ (i = 3 /\ w - i = 5) \/ (i = 4 /\ w - i = 4) \/ (i = 5 /\ w - i = 3)
          \/ (i = 6 /\ w - i = 2) \/ (i = 7 /\ w - i = 1) \/ (i = 8 /\ w - i = 0)
    BY <1>1, <2>1
  <2>3. PICK a, b : a = 2^i /\ b = 2^(w - i)
    OBVIOUS
  <2>4. (a = 1 /\ b = 256) \/ (a = 2 /\ b = 128) \/ (a = 4 /\ b = 64)
        \/ (a = 8 /\ b = 32) \/ (a = 16 /\ b = 16) \/ (a = 32 /\ b = 8)
        \/ (a = 64 /\ b = 4) \/ (a = 128 /\ b = 2) \/ (a = 256 /\ b = 1)
    BY <2>2, <2>3, PowerValues
  <2>5. a \in Nat \ {0} /\ b \in Nat \ {0} /\ a * b = 256
    BY <2>4
  <2> QED BY <1>1, <2>3, <2>5, PowerValues
<1>2. CASE w = 16
  <2>1. i \in {0, 1, 2, 3, 4, 5, 6, 7, 8, 9, 10, 11, 12, 13, 14, 15, 16}
    BY <1>2
  <2>2. (i = 0 /\ w - i = 16) \/ (i = 1 /\ w - i = 15) \/ (i = 2 /\ w - i = 14)
          \/ (i = 3 /\ w - i = 13) \/ (i = 4 /\ w - i = 12) \/ (i = 5 /\ w - i = 11)
          \/ (i = 6 /\ w - i = 10) \/ (i = 7 /\ w - i = 9) \/ (i = 8 /\ w - i = 8)
          \/ (i = 9 /\ w - i = 7) \/ (i = 10 /\ w - i = 6) \/ (i = 11 /\ w - i = 5)
          \/ (i = 12 /\ w - i = 4) \/ (i = 13 /\ w - i = 3) \/ (i = 14 /\ w - i = 2)
          \/ (i = 15 /\ w - i = 1) \/ (i = 16 /\ w - i = 0)
    BY <1>2, <2>1
  <2>3. PICK a, b : a = 2^i /\ b = 2^(w - i)
    OBVIOUS
  <2>4. (a = 1 /\ b = 65536) \/ (a = 2 /\ b = 32768) \/ (a = 4 /\ b = 16384)
        \/ (a = 8 /\ b = 8192) \/ (a = 16 /\ b = 4096) \/ (a = 32 /\ b = 2048)
        \/ (a = 64 /\ b = 1024) \/ (a = 128 /\ b = 512) \/ (a = 256 /\ b = 256)
        \/ (a = 512 /\ b = 128) \/ (a = 1024 /\ b = 64) \/ (a = 2048 /\ b = 32)
        \/ (a = 4096 /\ b = 16) \/ (a = 8192 /\ b = 8) \/ (a = 16384 /\ b = 4)
        \/ (a = 32768 /\ b = 2) \/ (a = 65536 /\ b = 1)
    BY <2>2, <2>3, PowerValues
  <2>5. a \in Nat \ {0} /\ b \in Nat \ {0} /\ a * b = 65536
    BY <2>4
  <2> QED BY <1>2, <2>3, <2>5, PowerValues
<1> QED BY <1>1, <1>2

LEMMA PowerDoubles ==
  ASSUME NEW i \in 0 .. 16
  PROVE  2^i \in Nat \ {0} /\ (i < 16 => 2^(i + 1) = 2 * 2^i) /\ (i > 0 => 2^i = 2 * 2^(i - 1))
<1>1. i \in {0, 1, 2, 3, 4, 5, 6, 7, 8, 9, 10, 11, 12, 13, 14, 15, 16}
  OBVIOUS
<1> QED BY <1>1, PowerValues

\* NOT inverts each bit.
LEMMA ComplementBits ==
  ASSUME NEW w \in {8, 16}, NEW x \in 0 .. 2^w - 1, NEW i \in 0 .. w - 1
  PROVE  BitAt(2^w - 1 - x, i) = 1 - BitAt(x, i)
<1>1. PICK A, B : /\ A \in Nat \ {0} /\ B \in Nat \ {0} /\ A = 2^i /\ 2^w = A * (2 * B)
  <2>1. i \in 0 .. w /\ w - i \in 0 .. 16 /\ w - i > 0
    OBVIOUS
  <2>2. 2^i \in Nat \ {0} /\ 2^w = 2^i * 2^(w - i)
    BY <2>1, PowerSplit
  <2>3. 2^(w - i) = 2 * 2^(w - i - 1)
    BY <2>1, PowerDoubles
  <2>4. 2^(w - i - 1) \in Nat \ {0}
    <3>1. w - i - 1 \in 0 .. 16
      OBVIOUS
    <3> QED BY <3>1, PowerDoubles
  <2> QED BY <2>2, <2>3, <2>4
<1>2. x \in Int /\ x < A * (2 * B)
  BY <1>1
<1> DEFINE q == x \div A
           r == x % A
<1>3. x = A * q + r /\ r \in 0 .. A - 1 /\ q \in Int
  BY <1>1, <1>2, Division
<1> HIDE DEF q, r
<1>4. A * (2 * B) - 1 - x = A * (2 * B - 1 - q) + (A - 1 - r)
  BY <1>1, <1>2, <1>3
<1>5. (A * (2 * B) - 1 - x) \div A = 2 * B - 1 - q
  <2>1. 2 * B - 1 - q \in Int /\ A - 1 - r \in 0 .. A - 1
    BY <1>1, <1>3
  <2>2. PICK q2, r2, z : /\ q2 = 2 * B - 1 - q /\ r2 = A - 1 - r /\ z = A * (2 * B) - 1 - x
                         /\ z = A * q2 + r2
    BY <1>4
  <2>3. A \in Nat \ {0} /\ q2 \in Int /\ r2 \in 0 .. A - 1
    BY <1>1, <2>1, <2>2
  <2>4. (A * q2 + r2) \div A = q2
    BY ONLY <2>3, Quotient
  <2> QED BY <2>2, <2>4
<1>6. (2 * B - 1 - q) % 2 = 1 - (q % 2)
  BY <1>1, <1>3
<1> QED BY <1>1, <1>5, <1>6 DEF BitAt, q

\* The logical instructions.
LEMMA LogicBits ==
  ASSUME NEW op, NEW w, NEW d, NEW s, NEW flags,
         op \in {"OR", "AND", "XOR", "TEST"}, w \in {8, 16},
         d \in 0 .. 2^w - 1, s \in 0 .. 2^w - 1, flags \in SUBSET AllFlags
  PROVE  LET out == Arith(op, d, s, flags, w)
             A == Ones(d, w)
             B == Ones(s, w)
             R == Ones(out.value, w)
         IN  /\ op = "OR" => R = A \cup B
             /\ op = "XOR" => R = (A \cup B) \ (A \cap B)
             /\ op \in {"AND", "TEST"} => R = A \cap B
             /\ out.flags \ {"AF"} = ResultFlags(out.value, w)
<1>1. PICK P, H, m : Width(w, P, H, m)
  BY Widths
<1>2. 2^w = P /\ P \in Nat /\ P <= 256 * 256 /\ d \in 0 .. P - 1 /\ s \in 0 .. P - 1 /\ P > 0
      /\ w - 1 \in 0 .. 15 /\ (w = 8 => P = 256) /\ (w = 16 => P = 256 * 256)
  BY <1>1, WidthFacts
<1>3. IsWord(d) /\ IsWord(s)
  BY <1>2 DEF IsWord
<1>4. PICK r : r = RawResult(op, d, s, Carry(flags), w)
  OBVIOUS
<1>5. /\ op = "OR" => r = Or(d, s)
      /\ op = "XOR" => r = Xor(d, s)
      /\ op \in {"AND", "TEST"} => r = And(d, s)
  BY <1>4, RawResults
<1>6. \A i \in 0 .. 15 :
        /\ op = "OR" => (BitAt(r, i) = 1 <=> BitAt(d, i) = 1 \/ BitAt(s, i) = 1)
        /\ op = "XOR" => BitAt(r, i) = (BitAt(d, i) + BitAt(s, i)) % 2
        /\ op \in {"AND", "TEST"} => (BitAt(r, i) = 1 <=> BitAt(d, i) = 1 /\ BitAt(s, i) = 1)
  BY <1>3, <1>5, OrBits, XorBits, AndBits
<1>7. r \in 0 .. P - 1 /\ r \in -(P - 1) .. P - 1 /\ r % P = r
  <2>1. IsWord(r) /\ (d <= 255 /\ s <= 255 => r <= 255)
    BY <1>3, <1>5, OrBits, XorBits, AndBits
  <2>2. r \in 0 .. P - 1
    <3>1. CASE w = 8
      BY <1>2, <2>1, <3>1 DEF IsWord
    <3>2. CASE w = 16
      BY <1>2, <2>1, <3>2 DEF IsWord
    <3> QED BY <3>1, <3>2
  <2> QED BY <1>2, <2>2, Reduce
<1> DEFINE szp == SetSzp(Put(flags, "CF", CarryOut(op, d, r, Carry(flags))), r, w)
           out == Arith(op, d, s, flags, w)
<1>8. out = Outcome(r, szp \ {"OF"})
  <2>1. Logical(op)
    BY DEF Logical
  <2> QED BY <1>2, <1>4, <1>7, <2>1 DEF Arith
<1>9. out.value = r /\ out.flags = szp \ {"OF"}
  BY <1>8 DEF Outcome
<1>10. \A f : f \in szp <=> IF f \in {"SF", "ZF", "PF"} THEN f \in ResultFlags(r, w)
                            ELSE f \in flags /\ f # "CF"
  <2>1. ~CarryOut(op, d, r, Carry(flags))
    BY CarriesOut
  <2>2. Put(flags, "CF", CarryOut(op, d, r, Carry(flags))) = flags \ {"CF"}
    BY <2>1 DEF Put
  <2>3. \A f : f \in szp <=> IF f \in {"SF", "ZF", "PF"} THEN f \in ResultFlags(r, w)
                             ELSE f \in flags \ {"CF"}
    BY <1>1, <1>7, <2>2, SzpFlags
  <2> QED BY <2>3
<1> HIDE DEF out, szp
<1>11. out.flags \ {"AF"} = ResultFlags(r, w)
  <2>1. ResultFlags(r, w) \subseteq {"SF", "ZF", "PF"}
    BY DEF ResultFlags
  <2> QED BY <1>9, <1>10, <2>1 DEF AllFlags
<1>12. \A x : Ones(x, w) = {i \in 0 .. w - 1 : BitAt(x, i) = 1}
  BY DEF Ones, BitAt
<1>13. 0 .. w - 1 \subseteq 0 .. 15
  OBVIOUS
<1>14. \A i \in 0 .. 15 : BitAt(d, i) \in {0, 1} /\ BitAt(s, i) \in {0, 1}
  BY <1>2, BitValue
<1>15. op = "OR" => Ones(r, w) = Ones(d, w) \cup Ones(s, w)
  BY <1>6, <1>12, <1>13
<1>16. op = "XOR" => Ones(r, w) = (Ones(d, w) \cup Ones(s, w)) \ (Ones(d, w) \cap Ones(s, w))
  <2>1. \A x, y \in {0, 1} : (x + y) % 2 = 1 <=> (x = 1 \/ y = 1) /\ ~(x = 1 /\ y = 1)
    OBVIOUS
  <2>2. op = "XOR" => \A i \in 0 .. 15 : BitAt(r, i) = 1 <=>
          (BitAt(d, i) = 1 \/ BitAt(s, i) = 1) /\ ~(BitAt(d, i) = 1 /\ BitAt(s, i) = 1)
    BY <1>6, <1>14, <2>1
  <2> QED BY <1>12, <1>13, <2>2
<1>17. op \in {"AND", "TEST"} => Ones(r, w) = Ones(d, w) \cap Ones(s, w)
  BY <1>6, <1>12, <1>13
<1> QED BY <1>9, <1>11, <1>15, <1>16, <1>17 DEF out

\* Tables 15 to 18, for the comparisons.
LEMMA JumpForms ==
  ASSUME NEW flags
  PROVE  LET C == "CF" \in flags
             Z == "ZF" \in flags
             N == ("SF" \in flags) # ("OF" \in flags)
         IN  /\ (JumpTaken(2, flags) <=> C) /\ (JumpTaken(3, flags) <=> ~C)
             /\ (JumpTaken(4, flags) <=> Z) /\ (JumpTaken(5, flags) <=> ~Z)
             /\ (JumpTaken(6, flags) <=> C \/ Z) /\ (JumpTaken(7, flags) <=> ~(C \/ Z))
             /\ (JumpTaken(12, flags) <=> N) /\ (JumpTaken(13, flags) <=> ~N)
             /\ (JumpTaken(14, flags) <=> Z \/ N) /\ (JumpTaken(15, flags) <=> ~(Z \/ N))
<1> DEFINE table == <<{"OF"}, {"CF"}, {"ZF"}, {"CF", "ZF"}, {"SF"}, {"PF"}, {}, {"ZF"}>>
           taken(k) == \/ table[k + 1] \cap flags # {}
                       \/ k \in {6, 7} /\ ("SF" \in flags) # ("OF" \in flags)
<1>1. /\ 2 \div 2 = 1 /\ 3 \div 2 = 1 /\ 4 \div 2 = 2 /\ 5 \div 2 = 2 /\ 6 \div 2 = 3
      /\ 7 \div 2 = 3 /\ 12 \div 2 = 6 /\ 13 \div 2 = 6 /\ 14 \div 2 = 7 /\ 15 \div 2 = 7
      /\ 2 % 2 = 0 /\ 3 % 2 = 1 /\ 4 % 2 = 0 /\ 5 % 2 = 1 /\ 6 % 2 = 0
      /\ 7 % 2 = 1 /\ 12 % 2 = 0 /\ 13 % 2 = 1 /\ 14 % 2 = 0 /\ 15 % 2 = 1
  OBVIOUS
<1>2. \A k : JumpTaken(k, flags) <=> ~(taken(k \div 2) <=> k % 2 = 1)
  BY DEF JumpTaken
<1>3. table[2] = {"CF"} /\ table[3] = {"ZF"} /\ table[4] = {"CF", "ZF"} /\ table[7] = {} /\ table[8] = {"ZF"}
  OBVIOUS
<1>4. /\ taken(1) <=> "CF" \in flags
      /\ taken(2) <=> "ZF" \in flags
      /\ taken(3) <=> "CF" \in flags \/ "ZF" \in flags
      /\ taken(6) <=> ("SF" \in flags) # ("OF" \in flags)
      /\ taken(7) <=> "ZF" \in flags \/ ("SF" \in flags) # ("OF" \in flags)
  BY <1>3
<1> HIDE DEF taken, table
<1>5. /\ JumpTaken(2, flags) <=> taken(1)
      /\ JumpTaken(3, flags) <=> ~taken(1)
      /\ JumpTaken(4, flags) <=> taken(2)
      /\ JumpTaken(5, flags) <=> ~taken(2)
      /\ JumpTaken(6, flags) <=> taken(3)
      /\ JumpTaken(7, flags) <=> ~taken(3)
      /\ JumpTaken(12, flags) <=> taken(6)
      /\ JumpTaken(13, flags) <=> ~taken(6)
      /\ JumpTaken(14, flags) <=> taken(7)
      /\ JumpTaken(15, flags) <=> ~taken(7)
  BY <1>1, <1>2
<1> QED BY <1>4, <1>5

\* After a comparison a jump is taken exactly when the numbers compare that way.
LEMMA JumpsCompare ==
  ASSUME NEW w \in {8, 16}, NEW a \in 0 .. 2^w - 1, NEW b \in 0 .. 2^w - 1,
         NEW x, x.w = w, x.a = a, x.b = b, x.out = RefDifference(a, b, 0, w)
  PROVE  JumpsAgree(x)
<1>1. PICK P, H, m : Width(w, P, H, m)
  BY Widths
<1>2. P = 2 * H /\ H \in Nat /\ H >= 128 /\ 2^w = P /\ 2^(w - 1) = H /\ P \in Nat
      /\ a \in 0 .. P - 1 /\ b \in 0 .. P - 1
  BY <1>1, WidthFacts
<1> DEFINE flags == x.out.flags
           r == (a - b - 0) % P
           p == AsSigned(a, w)
           q == AsSigned(b, w)
<1>3. r \in 0 .. P - 1 /\ r = (IF a < b THEN a - b + P ELSE a - b)
  <2>1. PICK y \in -P .. P - 1 : y = a - b - 0 /\ y = a - b
    BY <1>2
  <2> QED BY <1>2, <2>1, Reduce
<1>4. \A f : f \in flags <=>
               IF f \in {"SF", "ZF", "PF"} THEN f \in ResultFlags(r, w)
               ELSE \/ f = "CF" /\ a < b + 0
                    \/ f = "AF" /\ (BitAt(a, 4) + BitAt(b, 4) + BitAt(r, 4)) % 2 = 1
                    \/ f = "OF" /\ ~Fits(p - q - 0, w)
  BY <1>1, <1>2, ReferenceFlags
<1>5. /\ p = (IF a >= H THEN a - P ELSE a) /\ q = (IF b >= H THEN b - P ELSE b)
      /\ Fits(p - q - 0, w) <=> p - q - 0 \in -H .. H - 1
      /\ AsSigned(r, w) = (IF r >= H THEN r - P ELSE r)
  BY <1>2 DEF AsSigned, Fits
<1>6. ("SF" \in ResultFlags(r, w) <=> AsSigned(r, w) < 0) /\ ("ZF" \in ResultFlags(r, w) <=> r = 0)
  BY DEF ResultFlags
<1> HIDE DEF flags, r, p, q
<1>7. /\ "CF" \in flags <=> a < b
      /\ "ZF" \in flags <=> r = 0
      /\ "SF" \in flags <=> r >= H
      /\ "OF" \in flags <=> ~(p - q \in -H .. H - 1)
  <2>1. p \in Int /\ q \in Int /\ (a < b + 0 <=> a < b)
    BY <1>2, <1>5
  <2>2. "SF" \in flags <=> AsSigned(r, w) < 0
    BY <1>4, <1>6
  <2>3. p - q - 0 = p - q
    BY <2>1
  <2> QED BY <1>2, <1>3, <1>4, <1>5, <1>6, <2>1, <2>2, <2>3
<1>8. /\ "CF" \in flags <=> a < b
      /\ "ZF" \in flags <=> a = b
      /\ ("SF" \in flags) # ("OF" \in flags) <=> p < q
      /\ a = b <=> p = q
  <2>1. /\ r = 0 <=> a = b
        /\ a = b <=> p = q
    BY <1>2, <1>3, <1>5
  <2>2. ~(r >= H <=> ~(p - q \in -H .. H - 1)) <=> p < q
    BY <1>2, <1>3, <1>5
  <2> QED BY <1>7, <2>1, <2>2
<1> DEFINE holds == [below |-> a < b, equal |-> a = b, notAbove |-> a <= b,
                     less |-> p < q, notGreater |-> p <= q]
<1>9. /\ holds.below = (a < b) /\ holds.equal = (a = b) /\ holds.notAbove = (a <= b)
      /\ holds.less = (p < q) /\ holds.notGreater = (p <= q)
  OBVIOUS
<1>10. /\ Jumps.below = 2 /\ Jumps.equal = 4 /\ Jumps.notAbove = 6
       /\ Jumps.less = 12 /\ Jumps.notGreater = 14
       /\ DOMAIN Jumps = {"below", "equal", "notAbove", "less", "notGreater"}
  BY DEF Jumps
<1>11. JumpsAgree(x) <=> \A name \in DOMAIN Jumps :
                           /\ JumpTaken(Jumps[name], flags) = holds[name]
                           /\ JumpTaken(Jumps[name] + 1, flags) = ~holds[name]
  BY DEF JumpsAgree, flags, p, q
<1> HIDE DEF holds
<1>12. p \in Int /\ q \in Int
  BY <1>2, <1>5
<1>13. \A k : JumpTaken(k, flags) \in BOOLEAN
  BY DEF JumpTaken
<1> QED BY <1>2, <1>8, <1>9, <1>10, <1>11, <1>12, <1>13, JumpForms

(* Products.                                                                 *)
\* A product of two words, or of two signed words, fits in two words.
LEMMA ProductBounds ==
  ASSUME NEW P \in Nat, NEW H \in Nat, P = 2 * H, H > 0
  PROVE  /\ \A a, b \in 0 .. P - 1 : a * b \in 0 .. P * P - 1
         /\ \A a, b \in -H .. H - 1 : a * b \in -(H * H) .. H * H
<1>1. ASSUME NEW a \in 0 .. P - 1, NEW b \in 0 .. P - 1
      PROVE  a * b \in 0 .. P * P - 1
  <2>1. a * b >= 0 /\ a * b <= a * P /\ a * P <= (P - 1) * P
    OBVIOUS
  <2>2. (P - 1) * P = P * P - P /\ a * b \in Int /\ P * P \in Int
    OBVIOUS
  <2> QED BY <2>1, <2>2
<1>2. ASSUME NEW a \in 0 .. H, NEW b \in 0 .. H
      PROVE  a * b \in 0 .. H * H
  <2>1. a * b >= 0 /\ a * b <= a * H /\ a * H <= H * H
    OBVIOUS
  <2> QED BY <2>1
<1>3. ASSUME NEW a \in -H .. H - 1, NEW b \in -H .. H - 1
      PROVE  a * b \in -(H * H) .. H * H
  <2>1. PICK c \in 0 .. H : c = a \/ c = -a
    OBVIOUS
  <2>2. PICK d \in 0 .. H : d = b \/ d = -b
    OBVIOUS
  <2>3. c * d \in 0 .. H * H
    BY <1>2
  <2>4. a * b = c * d \/ a * b = -(c * d)
    BY <2>1, <2>2
  <2>5. c * d \in Int /\ H * H \in Int
    OBVIOUS
  <2> QED BY <2>3, <2>4, <2>5
<1> QED BY <1>1, <1>3

\* The halves of a number are its digits to the base of the width.
LEMMA HalvesOfProduct ==
  ASSUME NEW w \in {8, 16}, NEW P, NEW H, NEW m, Width(w, P, H, m), NEW x \in Int
  PROVE  /\ x \in 0 .. P * P - 1 => Halves(x, w).high * P + Halves(x, w).low = x
         /\ x \in -(H * H) .. H * H => AsSigned(Halves(x, w).high, w) * P + Halves(x, w).low = x
<1>1. P = 2 * H /\ H \in Nat /\ H >= 128 /\ 2^w = P /\ 2^(w - 1) = H /\ P \in Nat
  BY WidthFacts
<1> DEFINE q == x \div P
           r == x % P
<1>2. x = P * q + r /\ r \in 0 .. P - 1 /\ q \in Int
  <2>1. P \in Nat \ {0}
    BY ONLY <1>1
  <2>2. x = P * (x \div P) + (x % P) /\ x % P \in 0 .. P - 1 /\ x \div P \in Int
    BY <2>1, Division
  <2> QED BY ONLY <2>2
<1>3. Halves(x, w).high = q % P /\ Halves(x, w).low = r
  BY <1>1 DEF Halves
<1> HIDE DEF q, r
<1>4. ASSUME x \in 0 .. P * P - 1 PROVE q \in 0 .. P - 1
  <2>1. P * q < P * P /\ P * q > -P
    BY <1>1, <1>2, <1>4
  <2>2. q < P
    <3>1. q >= P => P * q >= P * P
      BY <1>1, <1>2
    <3> QED BY <1>1, <1>2, <2>1, <3>1
  <2>3. q >= 0
    <3>1. q <= -1 => P * q <= -P
      BY <1>1, <1>2
    <3> QED BY <1>1, <1>2, <2>1, <3>1
  <2> QED BY <1>1, <1>2, <2>2, <2>3
<1>5. ASSUME x \in -(H * H) .. H * H PROVE q \in -H .. H - 1
  <2>1. P * q <= H * H /\ P * q > -(H * H) - P
    BY <1>1, <1>2, <1>5
  <2>2. q < H
    <3>1. q >= H => P * q >= P * H
      BY <1>1, <1>2
    <3>2. P * H = 2 * (H * H) /\ H * H > 0
      BY <1>1
    <3> QED BY <1>1, <1>2, <2>1, <3>1, <3>2
  <2>3. q >= -H
    <3>1. q <= -H - 1 => P * q <= P * (-H - 1)
      BY <1>1, <1>2
    <3>2. P * (-H - 1) = -(2 * (H * H)) - P /\ H * H > 0
      BY <1>1
    <3> QED BY <1>1, <1>2, <2>1, <3>1, <3>2
  <2> QED BY <1>1, <1>2, <2>2, <2>3
<1>6. ASSUME x \in 0 .. P * P - 1 PROVE Halves(x, w).high * P + Halves(x, w).low = x
  <2>1. q % P = q
    BY <1>1, <1>4, <1>6
  <2>2. P * q = q * P
    BY ONLY <1>1, <1>2
  <2> QED BY ONLY <1>2, <1>3, <2>1, <2>2
<1>7. ASSUME x \in -(H * H) .. H * H
      PROVE AsSigned(Halves(x, w).high, w) * P + Halves(x, w).low = x
  <2>1. q \in -H .. H - 1
    BY <1>5, <1>7
  <2>2. AsSigned(q % P, w) = q
    <3>1. q % P = IF q < 0 THEN q + P ELSE q
      BY <1>1, <2>1, Reduce
    <3> QED BY <1>1, <2>1, <3>1 DEF AsSigned
  <2>3. P * q = q * P
    BY ONLY <1>1, <1>2
  <2> QED BY ONLY <1>2, <1>3, <2>2, <2>3
<1> QED BY <1>6, <1>7

LEMMA SignedRange ==
  ASSUME NEW w, NEW P, NEW H, NEW m, Width(w, P, H, m), NEW x \in 0 .. P - 1
  PROVE  AsSigned(x, w) \in -H .. H - 1 /\ (AsSigned(x, w) = x \/ AsSigned(x, w) = x - P)
<1>1. P = 2 * H /\ H \in Nat /\ 2^w = P /\ 2^(w - 1) = H /\ P \in Nat
  BY WidthFacts
<1> QED BY <1>1 DEF AsSigned

\* MUL and IMUL: the two halves make the product, and CF and OF tell whether the
\* low one suffices.
LEMMA ProductsAgree ==
  ASSUME NEW op \in {"MUL", "IMUL"}, NEW w \in {8, 16},
         NEW a \in 0 .. 2^w - 1, NEW b \in 0 .. 2^w - 1, NEW flags,
         NEW x, x.op = op, x.w = w, x.a = a, x.b = b, x.out = Multiply(op, a, b, flags, w)
  PROVE  ProductAgrees(x, IF op = "MUL" THEN a * b ELSE AsSigned(a, w) * AsSigned(b, w))
<1>1. PICK P, H, m : Width(w, P, H, m)
  BY Widths
<1>2. P = 2 * H /\ H \in Nat /\ H >= 128 /\ H > 0 /\ 2^w = P /\ P \in Nat
      /\ a \in 0 .. P - 1 /\ b \in 0 .. P - 1
  BY <1>1, WidthFacts
<1> DEFINE product == IF op = "MUL" THEN a * b ELSE AsSigned(a, w) * AsSigned(b, w)
           wide == IF op = "MUL" THEN product >= P ELSE ~Fits(product, w)
<1>3. product \in Int /\ (IF op = "MUL" THEN product \in 0 .. P * P - 1
                          ELSE product \in -(H * H) .. H * H)
  <2>1. op = "MUL" => product \in 0 .. P * P - 1 /\ product \in Int
    BY <1>2, ProductBounds
  <2>2. op = "IMUL" => product \in -(H * H) .. H * H /\ product \in Int
    <3>1. PICK p, q \in -H .. H - 1 : p = AsSigned(a, w) /\ q = AsSigned(b, w)
      BY <1>1, <1>2, SignedRange
    <3>2. p * q \in -(H * H) .. H * H /\ p * q \in Int
      BY <1>2, ProductBounds
    <3> QED BY <3>1, <3>2
  <2> QED BY <2>1, <2>2
<1>4. wide \in BOOLEAN
  <2>1. (product >= P) \in BOOLEAN /\ (~Fits(product, w)) \in BOOLEAN
    BY <1>2, <1>3 DEF Fits
  <2> QED BY ONLY <2>1, Zenon
<1>5. x.out = Outcome(Halves(product, w), SetSzp(Put(Put(flags, "CF", wide), "OF", wide), product, w))
  BY <1>2 DEF Multiply
<1> HIDE DEF product, wide
<1>6. x.out.value = Halves(product, w)
      /\ x.out.flags = SetSzp(Put(Put(flags, "CF", wide), "OF", wide), product, w)
  BY <1>5 DEF Outcome
<1>7. {"CF", "OF"} \subseteq x.out.flags <=> wide
  BY <1>6 DEF SetSzp, Put
<1>8. (IF op = "MUL" THEN x.out.value.high ELSE AsSigned(x.out.value.high, w)) * P
        + x.out.value.low = product
  BY <1>1, <1>3, <1>6, HalvesOfProduct
<1>9. ProductAgrees(x, product)
  BY <1>2, <1>7, <1>8 DEF ProductAgrees, wide
<1> QED BY <1>9 DEF product

\* The three-operand product keeps the low half, which is the product unless
\* the carry says otherwise.
LEMMA ShortProducts ==
  ASSUME NEW a, NEW b, NEW flags, AsSigned(a, 16) \in Int, AsSigned(b, 16) \in Int
  PROVE  LET out == MultiplyImmediate(a, b, flags)
         IN  /\ out.flags \ {"CF", "OF"} = flags \ {"CF", "OF"}
             /\ "CF" \notin out.flags =>
                  AsSigned(out.value, 16) = AsSigned(a, 16) * AsSigned(b, 16)
<1> DEFINE product == AsSigned(a, 16) * AsSigned(b, 16)
           wide == ~Fits(product, 16)
           out == MultiplyImmediate(a, b, flags)
<1>1. out.value = product % 2^16 /\ out.flags = Put(Put(flags, "CF", wide), "OF", wide)
  BY DEF MultiplyImmediate, Outcome
<1>2. product \in Int
  OBVIOUS
<1>3. "CF" \in out.flags <=> wide
  BY <1>1 DEF Put
<1>4. out.flags \ {"CF", "OF"} = flags \ {"CF", "OF"}
  BY <1>1 DEF Put
<1>5. ASSUME Fits(product, 16) PROVE AsSigned(out.value, 16) = product
  <2>1. PICK P, H, m : Width(16, P, H, m)
    BY Widths
  <2>2. P = 2 * H /\ H \in Nat /\ H >= 128 /\ 2^16 = P /\ 2^(16 - 1) = H /\ P \in Nat
    BY <2>1, WidthFacts
  <2> HIDE DEF product
  <2>3. product \in -H .. H - 1
    BY <1>5, <2>2 DEF Fits
  <2>4. product % P = IF product < 0 THEN product + P ELSE product
    BY <1>2, <2>2, <2>3, Reduce
  <2>5. out.value = product % P
    BY <1>1, <2>2
  <2> HIDE DEF out
  <2> QED BY <1>2, <2>2, <2>3, <2>4, <2>5 DEF AsSigned
<1> QED BY <1>3, <1>4, <1>5

\* Division toward zero: the quotient of the absolute values, and a remainder
\* with the sign of the dividend.
LEMMA Truncation ==
  ASSUME NEW n \in Int, NEW d \in Int, d # 0
  PROVE  LET q == Truncated(n, d)
             r == n - d * q
         IN  /\ q \in Int /\ r \in Int
             /\ \E Q, R \in Nat : /\ Abs(n) = Abs(d) * Q + R /\ R < Abs(d)
                                  /\ r = IF n < 0 THEN -R ELSE R
                                  /\ q = IF (n < 0) = (d < 0) THEN Q ELSE -Q
<1> DEFINE q == Truncated(n, d)
           r == n - d * q
<1>1. PICK N \in Nat : N = Abs(n) /\ n = IF n < 0 THEN -N ELSE N
  BY DEF Abs
<1>2. PICK D \in Nat \ {0} : D = Abs(d) /\ d = IF d < 0 THEN -D ELSE D
  BY DEF Abs
<1>3. PICK Q \in Nat, R \in Nat : N = D * Q + R /\ R < D /\ N \div D = Q
  <2>1. N = D * (N \div D) + (N % D) /\ N % D \in 0 .. D - 1 /\ N \div D \in Int
    BY Division
  <2>2. N \div D >= 0
    <3> DEFINE k == N \div D
               j == N % D
    <3>1. N = D * k + j /\ j \in 0 .. D - 1 /\ k \in Int
      BY ONLY <2>1
    <3> HIDE DEF k, j
    <3>2. k <= -1 => D * k <= -D
      BY <3>1
    <3>3. k >= 0
      BY <3>1, <3>2
    <3> QED BY <3>3 DEF k
  <2> QED BY <2>1, <2>2
<1>4. q = IF (n < 0) = (d < 0) THEN Q ELSE -Q
  BY <1>1, <1>2, <1>3 DEF Truncated
<1> HIDE DEF q
<1>5. D * (-Q) = -(D * Q) /\ (-D) * Q = -(D * Q) /\ (-D) * (-Q) = D * Q /\ D * Q \in Nat
  OBVIOUS
<1>6. r = IF n < 0 THEN -R ELSE R
  <2>1. CASE n < 0 /\ d < 0
    <3>1. n = -N /\ d = -D /\ q = Q
      BY <1>1, <1>2, <1>4, <2>1
    <3>2. r = -N + D * Q
      BY <1>5, <3>1
    <3> QED BY <1>3, <1>5, <2>1, <3>2
  <2>2. CASE n < 0 /\ ~(d < 0)
    <3>1. n = -N /\ d = D /\ q = -Q
      BY <1>1, <1>2, <1>4, <2>2
    <3>2. r = -N + D * Q
      BY <1>5, <3>1
    <3> QED BY <1>3, <1>5, <2>2, <3>2
  <2>3. CASE ~(n < 0) /\ d < 0
    <3>1. n = N /\ d = -D /\ q = -Q
      BY <1>1, <1>2, <1>4, <2>3
    <3>2. r = N - D * Q
      BY <1>5, <3>1
    <3> QED BY <1>3, <1>5, <2>3, <3>2
  <2>4. CASE ~(n < 0) /\ ~(d < 0)
    <3>1. n = N /\ d = D /\ q = Q
      BY <1>1, <1>2, <1>4, <2>4
    <3>2. r = N - D * Q
      BY <1>5, <3>1
    <3> QED BY <1>3, <1>5, <2>4, <3>2
  <2> QED BY <2>1, <2>2, <2>3, <2>4
<1>7. q \in Int /\ r \in Int
  BY <1>4, <1>6
<1>8. Abs(n) = Abs(d) * Q + R /\ R < Abs(d)
  BY <1>1, <1>2, <1>3
<1> HIDE DEF r
<1>9. \E Q1, R1 \in Nat : /\ Abs(n) = Abs(d) * Q1 + R1 /\ R1 < Abs(d)
                          /\ r = IF n < 0 THEN -R1 ELSE R1
                          /\ q = IF (n < 0) = (d < 0) THEN Q1 ELSE -Q1
  BY <1>4, <1>6, <1>8
<1> QED BY <1>7, <1>9 DEF q, r

\* DIV and IDIV: the quotient and the remainder make the dividend.
LEMMA QuotientsAgree ==
  ASSUME NEW op \in {"DIV", "IDIV"}, NEW w \in {8, 16}, NEW n \in Int, NEW d \in Int,
         op = "DIV" => n >= 0 /\ d \in 0 .. 2^w - 1,
         op = "IDIV" => d \in -(2^(w - 1)) .. 2^(w - 1) - 1,
         NEW x, x.op = op, x.w = w, x.a = n, x.b = d, x.out = Divide(op, n, d, w)
  PROVE  QuotientAgrees(x)
<1>1. PICK P, H, m : Width(w, P, H, m)
  BY Widths
<1>2. P = 2 * H /\ H \in Nat /\ H >= 128 /\ 2^w = P /\ 2^(w - 1) = H /\ P \in Nat
  BY <1>1, WidthFacts
<1>3. /\ op = "DIV" => n >= 0 /\ d \in 0 .. P - 1
      /\ op = "IDIV" => d \in -H .. H - 1
  BY <1>2
<1> DEFINE q == Truncated(n, d)
           r == n - d * q
           fits == IF op = "DIV" THEN q < P ELSE q \in -H .. H - 1
           signed(v) == IF op = "DIV" THEN v ELSE AsSigned(v, w)
<1>4. QuotientFits(op, q, w) <=> fits
  BY <1>2 DEF QuotientFits, Fits
<1>5. CASE d = 0
  BY <1>5 DEF QuotientAgrees, Divide
<1>6. CASE d # 0
  <2>1. q \in Int /\ r \in Int
    BY <1>6, Truncation
  <2>2. PICK Q, R \in Nat : /\ Abs(n) = Abs(d) * Q + R /\ R < Abs(d)
                            /\ r = IF n < 0 THEN -R ELSE R
                            /\ q = IF (n < 0) = (d < 0) THEN Q ELSE -Q
    BY <1>6, Truncation
  <2>3. Abs(d) \in Nat \ {0} /\ Abs(n) \in Nat
    BY <1>6 DEF Abs
  <2>4. n = d * q + r
    <3>1. d * q \in Int
      BY <2>1
    <3> HIDE DEF q
    <3> QED BY <3>1
  <2> HIDE DEF q, r
  <2>5. CASE ~fits
    <3>1. x.out.raised
      BY <1>4, <1>6, <2>5 DEF Divide, q
    <3>2. Q >= (IF op = "DIV" THEN P ELSE H)
      <4>1. op = "DIV" => q = Q
        BY <1>3, <1>6, <2>2
      <4>2. op = "IDIV" => q = Q \/ q = -Q
        BY <2>2
      <4> QED BY <1>2, <2>1, <2>5, <4>1, <4>2
    <3> DEFINE k == IF op = "DIV" THEN P ELSE H
               D == Abs(d)
    <3>3. k \in Nat /\ D \in Nat /\ Q \in Nat /\ Q >= k
      BY <1>2, <2>3, <3>2
    <3> HIDE DEF k, D
    <3>4. D * Q >= D * k
      BY ONLY <3>3
    <3>5. Abs(n) = D * Q + R /\ D * Q \in Nat /\ D * k \in Nat
      BY <2>2, <3>3 DEF D
    <3>6. Abs(n) >= D * k
      BY ONLY <3>4, <3>5, R \in Nat
    <3>7. k = IF x.op = "DIV" THEN 2^x.w ELSE 2^(x.w - 1)
      BY <1>2 DEF k
    <3> QED BY ONLY <3>1, <3>6, <3>7, x.a = n, x.b = d DEF QuotientAgrees, D
  <2>6. CASE fits
    <3>1. /\ x.out.raised = FALSE
          /\ x.out.quotient = q % P /\ x.out.remainder = r % P
      BY <1>2, <1>4, <1>6, <2>6 DEF Divide, q, r
    <3>2. signed(q % P) = q
      <4>1. CASE op = "DIV"
        <5>1. q \in 0 .. P - 1
          <6>1. q = Q
            BY <1>3, <1>6, <2>2, <4>1
          <6>2. q < P
            BY <2>6, <4>1
          <6> QED BY ONLY <1>2, <6>1, <6>2, Q \in Nat
        <5>2. q % P = q
          BY <1>2, <2>1, <5>1, Reduce
        <5> QED BY <4>1, <5>2
      <4>2. CASE op = "IDIV"
        <5>1. q \in -H .. H - 1
          BY <2>6, <4>2
        <5>2. q % P = IF q < 0 THEN q + P ELSE q
          BY <1>2, <2>1, <5>1, Reduce
        <5> QED BY <1>2, <4>2, <5>1, <5>2 DEF AsSigned
      <4> QED BY <4>1, <4>2
    <3>3. signed(r % P) = r
      <4>1. CASE op = "DIV"
        <5>1. r \in 0 .. P - 1
          BY <1>2, <1>3, <2>1, <2>2, <4>1 DEF Abs
        <5>2. r % P = r
          BY <1>2, <2>1, <5>1, Reduce
        <5> QED BY <4>1, <5>2
      <4>2. CASE op = "IDIV"
        <5>1. r \in -H .. H - 1
          BY <1>2, <1>3, <2>1, <2>2, <4>2 DEF Abs
        <5>2. r % P = IF r < 0 THEN r + P ELSE r
          BY <1>2, <2>1, <5>1, Reduce
        <5> QED BY <1>2, <4>2, <5>1, <5>2 DEF AsSigned
      <4> QED BY <4>1, <4>2
    <3>4. q * d + r = n
      <4>1. q * d = d * q
        BY <2>1
      <4> QED BY ONLY <2>4, <4>1
    <3>5. Abs(r) < Abs(d) /\ (r # 0 => (r < 0) = (n < 0))
      BY <2>1, <2>2, <2>3 DEF Abs
    <3> QED BY ONLY <3>1, <3>2, <3>3, <3>4, <3>5, x.a = n, x.b = d, x.op = op, x.w = w
            DEF QuotientAgrees
  <2> QED BY <2>5, <2>6
<1> QED BY <1>5, <1>6

\* CBW and CWD extend the sign.
LEMMA Extension ==
  ASSUME NEW w \in {8, 16}, NEW x \in 0 .. 2^w - 1
  PROVE  AsSigned(SignExtend(x, w), w) * 2^w + x = AsSigned(x, w)
<1>1. PICK P, H, m : Width(w, P, H, m)
  BY Widths
<1>2. P = 2 * H /\ H \in Nat /\ H >= 128 /\ 2^w = P /\ 2^(w - 1) = H /\ P \in Nat
      /\ x \in 0 .. P - 1
  BY <1>1, WidthFacts
<1>3. BitAt(x, w - 1) = IF x >= H THEN 1 ELSE 0
  BY <1>1, <1>2, TopBit
<1>4. AsSigned(SignExtend(x, w), w) = IF x >= H THEN -1 ELSE 0
  BY <1>2, <1>3 DEF AsSigned, SignExtend
<1>5. (-1) * P = -P /\ 0 * P = 0
  BY <1>2
<1>6. AsSigned(x, w) = IF x >= H THEN x - P ELSE x
  BY <1>2 DEF AsSigned
<1> QED BY <1>2, <1>4, <1>5, <1>6

LEMMA ComplementsAgree ==
  ASSUME NEW w \in {8, 16}, NEW x \in 0 .. 2^w - 1
  PROVE  Ones(2^w - 1 - x, w) = (0 .. w - 1) \ Ones(x, w)
<1>1. ASSUME NEW i \in 0 .. w - 1
      PROVE  BitAt(2^w - 1 - x, i) = 1 <=> ~(BitAt(x, i) = 1)
  <2>1. BitAt(2^w - 1 - x, i) = 1 - BitAt(x, i)
    BY ComplementBits
  <2>2. BitAt(x, i) \in {0, 1}
    <3>1. PICK P, H, m : Width(w, P, H, m)
      BY Widths
    <3>2. x \in Int /\ i \in 0 .. 15
      BY <3>1, WidthFacts
    <3> QED BY <3>2, BitValue
  <2> QED BY <2>1, <2>2
<1> QED BY <1>1 DEF Ones, BitAt

\* What BinaryAgrees says of the instruction executed last, by instruction.
LEMMA BinaryCases ==
  ASSUME NEW x, done' = x
  PROVE  /\ x.op = "ADD" /\ x.out = RefSum(x.a, x.b, 0, x.w) => BinaryAgrees'
         /\ x.op = "ADC" /\ x.out = RefSum(x.a, x.b, Carry(x.before), x.w) => BinaryAgrees'
         /\ x.op \in {"SUB", "CMP"} /\ x.out = RefDifference(x.a, x.b, 0, x.w) /\ JumpsAgree(x)
              => BinaryAgrees'
         /\ x.op = "SBB" /\ x.out = RefDifference(x.a, x.b, Carry(x.before), x.w)
              => BinaryAgrees'
         /\ x.op = "INC" /\ x.out = KeepingCarry(RefSum(x.a, 1, 0, x.w), x.before)
              => BinaryAgrees'
         /\ x.op = "DEC" /\ x.out = KeepingCarry(RefDifference(x.a, 1, 0, x.w), x.before)
              => BinaryAgrees'
         /\ x.op = "NEG" /\ x.out = RefDifference(0, x.a, 0, x.w) => BinaryAgrees'
         /\ x.op = "NOT" /\ Ones(x.out.value, x.w) = (0 .. x.w - 1) \ Ones(x.a, x.w)
              /\ x.out.flags = x.before => BinaryAgrees'
         /\ x.op \in {"OR", "AND", "XOR", "TEST"} /\ BitsAgree(x) => BinaryAgrees'
         /\ x.op = "MUL" /\ ProductAgrees(x, x.a * x.b) => BinaryAgrees'
         /\ x.op = "IMUL" /\ ProductAgrees(x, AsSigned(x.a, x.w) * AsSigned(x.b, x.w))
              => BinaryAgrees'
         /\ x.op \in {"DIV", "IDIV"} /\ QuotientAgrees(x) => BinaryAgrees'
         /\ x.op = "extend" /\ AsSigned(x.out.value, x.w) * 2^x.w + x.a = AsSigned(x.a, x.w)
              => BinaryAgrees'
         /\ x.op \notin {"ADD", "ADC", "SUB", "CMP", "SBB", "INC", "DEC", "NEG", "NOT", "OR",
                         "AND", "XOR", "TEST", "MUL", "IMUL", "IMUL3", "DIV", "IDIV", "extend"}
              => BinaryAgrees'
BY DEF BinaryAgrees, KeepingCarry, Logical

\* The operands tried are bytes and words.
LEMMA Samples ==
  /\ \A w \in {8, 16} : \A x \in Operands(w) : x \in 0 .. 2^w - 1
  /\ FlagsBefore \subseteq SUBSET AllFlags
  /\ \A s \in Bytes : AsSigned(s, 8) % 2^16 \in 0 .. 2^16 - 1
  /\ \A x \in Words : x \in 0 .. 2^16 - 1
  /\ \A flags : Carry(flags) \in {0, 1}
  /\ \A x \in Decimals : x \in 0 .. 99
  /\ \A x \in Counts : x \in 0 .. 31
<1>1. /\ Bytes \subseteq 0 .. 2^8 - 1 /\ Words \subseteq 0 .. 2^16 - 1
      /\ Counts \subseteq 0 .. 31 /\ Decimals \subseteq 0 .. 99
  BY SamplesAssumption, ZenonT(40)
<1>2. \A x \in Bytes : x \in 0 .. 2^8 - 1
  BY <1>1
<1>3. \A x \in Words : x \in 0 .. 2^16 - 1
  BY <1>1
<1>4. ASSUME NEW s \in Bytes PROVE AsSigned(s, 8) % 2^16 \in 0 .. 2^16 - 1
  <2>1. AsSigned(s, 8) \in Int
    <3>1. s \in Int
      BY <1>2
    <3>2. 2^8 = 256
      BY PowerValues
    <3> QED BY <3>1, <3>2 DEF AsSigned
  <2>2. 2^16 \in Nat \ {0}
    BY PowerValues
  <2> QED BY ONLY <2>1, <2>2, Division
<1>5. FlagsBefore \subseteq SUBSET AllFlags
  <2>1. ASSUME NEW f \in FlagsBefore PROVE f \subseteq AllFlags
    <3>1. PICK c \in SUBSET {"CF", "AF"}, o \in {{}, {"OF", "ZF", "PF", "SF"}} : f = c \cup o
      BY DEF FlagsBefore
    <3>2. c \subseteq AllFlags /\ o \subseteq AllFlags
      BY DEF AllFlags
    <3> QED BY <3>1, <3>2
  <2> QED BY <2>1
<1>6. \A flags : Carry(flags) \in {0, 1}
  BY DEF Carry
<1>7. \A w \in {8, 16} : \A x \in Operands(w) : x \in 0 .. 2^w - 1
  BY <1>2, <1>3 DEF Operands
<1>8. \A x \in Decimals : x \in 0 .. 99
  BY <1>1
<1>9. \A x \in Counts : x \in 0 .. 31
  BY <1>1
<1> QED BY <1>3, <1>4, <1>5, <1>6, <1>7, <1>8, <1>9

\* The two-operand instructions, by whichever opcode they come.
LEMMA TwoOperandsAgree ==
  ASSUME NEW op \in TwoOperand \cup {"TEST"}, NEW w \in {8, 16},
         NEW d \in 0 .. 2^w - 1, NEW s \in 0 .. 2^w - 1, NEW flags \in SUBSET AllFlags,
         Record(op, w, d, s, flags, Arith(op, d, s, flags, w))
  PROVE  BinaryAgrees'
<1> DEFINE x == [op |-> op, w |-> w, a |-> d, b |-> s, before |-> flags,
                 out |-> Arith(op, d, s, flags, w)]
<1>1. done' = x
  BY DEF Record
<1>2. /\ x.op = op /\ x.w = w /\ x.a = d /\ x.b = s /\ x.before = flags
      /\ x.out = Arith(op, d, s, flags, w)
  OBVIOUS
<1> HIDE DEF x
<1>3. /\ Arith("ADD", d, s, flags, w) = RefSum(d, s, 0, w)
      /\ Arith("ADC", d, s, flags, w) = RefSum(d, s, Carry(flags), w)
      /\ Arith("SUB", d, s, flags, w) = RefDifference(d, s, 0, w)
      /\ Arith("CMP", d, s, flags, w) = RefDifference(d, s, 0, w)
      /\ Arith("SBB", d, s, flags, w) = RefDifference(d, s, Carry(flags), w)
  BY ArithSums, Zenon
<1>4. CASE op = "ADD"
  BY <1>1, <1>2, <1>3, <1>4, BinaryCases
<1>5. CASE op = "ADC"
  BY <1>1, <1>2, <1>3, <1>5, BinaryCases
<1>6. CASE op = "SBB"
  BY <1>1, <1>2, <1>3, <1>6, BinaryCases
<1>7. CASE op \in {"SUB", "CMP"}
  <2>1. x.out = RefDifference(d, s, 0, w)
    BY <1>2, <1>3, <1>7
  <2>2. JumpsAgree(x)
    BY <1>2, <2>1, JumpsCompare, Zenon
  <2> QED BY <1>1, <1>2, <1>7, <2>1, <2>2, BinaryCases
<1>8. CASE op \in {"OR", "AND", "XOR", "TEST"}
  <2>1. BitsAgree(x)
    <3>1. PICK o \in {"OR", "AND", "XOR", "TEST"} : o = op
      BY <1>8
    <3>2. LET out == Arith(o, d, s, flags, w)
              A == Ones(d, w)
              B == Ones(s, w)
              R == Ones(out.value, w)
          IN  /\ o = "OR" => R = A \cup B
              /\ o = "XOR" => R = (A \cup B) \ (A \cap B)
              /\ o \in {"AND", "TEST"} => R = A \cap B
              /\ out.flags \ {"AF"} = ResultFlags(out.value, w)
      BY ONLY LogicBits, o \in {"OR", "AND", "XOR", "TEST"}, w \in {8, 16},
              d \in 0 .. 2^w - 1, s \in 0 .. 2^w - 1, flags \in SUBSET AllFlags
    <3> QED BY <1>2, <3>1, <3>2 DEF BitsAgree
  <2> QED BY <1>1, <1>2, <1>8, <2>1, BinaryCases
<1> QED BY <1>4, <1>5, <1>6, <1>7, <1>8 DEF TwoOperand

\* The instructions, one action after the other.
LEMMA OneOperandsAgree ==
  ExecuteOneOperand => BinaryAgrees'
<1> SUFFICES ASSUME ExecuteOneOperand PROVE BinaryAgrees'
  OBVIOUS
<1>1. PICK op \in {"INC", "DEC", "NEG", "NOT"}, w \in {8, 16}, flags \in FlagsBefore :
         \E d \in Operands(w) : Record(op, w, d, 1, flags,
                CASE op = "NEG" -> Negate(d, flags, w)
                  [] op = "NOT" -> Complement(d, flags, w)
                  [] OTHER -> IncDec(op, d, flags, w))
  BY Zenon DEF ExecuteOneOperand
<1>2. PICK d \in Operands(w) : Record(op, w, d, 1, flags,
                CASE op = "NEG" -> Negate(d, flags, w)
                  [] op = "NOT" -> Complement(d, flags, w)
                  [] OTHER -> IncDec(op, d, flags, w))
  BY <1>1, Zenon
<1>3. PICK out : /\ Record(op, w, d, 1, flags, out)
                 /\ op = "NEG" => out = Negate(d, flags, w)
                 /\ op = "NOT" => out = Complement(d, flags, w)
                 /\ op \in {"INC", "DEC"} => out = IncDec(op, d, flags, w)
  BY <1>2, Zenon
<1>4. PICK x : done' = x /\ x = [op |-> op, w |-> w, a |-> d, b |-> 1, before |-> flags, out |-> out]
  BY <1>3 DEF Record
<1>5. /\ x.op = op /\ x.w = w /\ x.a = d /\ x.before = flags /\ x.out = out
      /\ d \in 0 .. 2^w - 1 /\ flags \in SUBSET AllFlags
  BY <1>4, Samples, ZenonT(40)
<1>6. CASE op = "INC"
  BY <1>3, <1>4, <1>5, <1>6, Increments, BinaryCases, Zenon
<1>7. CASE op = "DEC"
  BY <1>3, <1>4, <1>5, <1>7, Decrements, BinaryCases, ZenonT(40)
<1>8. CASE op = "NEG"
  BY <1>3, <1>4, <1>5, <1>8, Negation, BinaryCases, ZenonT(40)
<1>9. CASE op = "NOT"
  <2>1. out = [value |-> 2^w - 1 - d, flags |-> flags]
    BY <1>3, <1>9 DEF Complement, Outcome
  <2> QED BY <1>4, <1>5, <1>9, <2>1, ComplementsAgree, BinaryCases, Zenon
<1> QED BY <1>6, <1>7, <1>8, <1>9

LEMMA FastFormsAgree ==
  ExecuteFastForm => BinaryAgrees'
<1> SUFFICES ASSUME ExecuteFastForm PROVE BinaryAgrees'
  OBVIOUS
<1>1. CASE \E w \in {8, 16}, flags \in FlagsBefore :
             \E d, s \in Operands(w) :
               IF w = 8 THEN Record("ADD", w, d, s, flags, FastAdd(d, s, 0, flags, w))
               ELSE Record("ADC", w, d, s, flags, FastAdd(d, s, Carry(flags), flags, w))
  <2>1. PICK w \in {8, 16}, flags \in FlagsBefore : \E d, s \in Operands(w) :
               IF w = 8 THEN Record("ADD", w, d, s, flags, FastAdd(d, s, 0, flags, w))
               ELSE Record("ADC", w, d, s, flags, FastAdd(d, s, Carry(flags), flags, w))
    BY <1>1, Zenon
  <2>2. PICK d \in Operands(w), s \in Operands(w) :
               IF w = 8 THEN Record("ADD", w, d, s, flags, FastAdd(d, s, 0, flags, w))
               ELSE Record("ADC", w, d, s, flags, FastAdd(d, s, Carry(flags), flags, w))
    BY <2>1, Zenon
  <2>3. d \in 0 .. 2^w - 1 /\ s \in 0 .. 2^w - 1 /\ flags \in SUBSET AllFlags
        /\ Carry(flags) \in {0, 1} /\ 0 \in {0, 1}
    BY Samples, ZenonT(40)
  <2>4. FastAdd(d, s, 0, flags, w) = RefSum(d, s, 0, w)
    BY <2>3, FastSums, Zenon
  <2>5. FastAdd(d, s, Carry(flags), flags, w) = RefSum(d, s, Carry(flags), w)
    BY <2>3, FastSums, Zenon
  <2>6. PICK x : /\ done' = x /\ x.w = w /\ x.a = d /\ x.b = s /\ x.before = flags
                 /\ \/ x.op = "ADD" /\ x.out = RefSum(d, s, 0, w)
                    \/ x.op = "ADC" /\ x.out = RefSum(d, s, Carry(flags), w)
    BY <2>2, <2>4, <2>5 DEF Record
  <2> QED BY <2>6, BinaryCases
<1>2. CASE \E op \in {"INC", "DEC"}, w \in {8, 16}, flags \in FlagsBefore :
             \E d \in Operands(w) : Record(op, w, d, 1, flags, FastIncDec(op, d, flags, w))
  <2>1. PICK op \in {"INC", "DEC"}, w \in {8, 16}, flags \in FlagsBefore :
             \E d \in Operands(w) : Record(op, w, d, 1, flags, FastIncDec(op, d, flags, w))
    BY <1>2
  <2>2. PICK d \in Operands(w) : Record(op, w, d, 1, flags, FastIncDec(op, d, flags, w))
    BY <2>1
  <2>3. d \in 0 .. 2^w - 1 /\ flags \in SUBSET AllFlags
    BY Samples
  <2>4. PICK x : /\ done' = x /\ x.op = op /\ x.w = w /\ x.a = d /\ x.before = flags
                 /\ x.out = FastIncDec(op, d, flags, w)
    BY <2>2 DEF Record
  <2>5. CASE op = "INC"
    <3>1. x.out = KeepingCarry(RefSum(d, 1, 0, w), flags)
      BY <2>3, <2>4, <2>5, Increments
    <3> QED BY <2>4, <2>5, <3>1, BinaryCases
  <2>6. CASE op = "DEC"
    <3>1. x.out = KeepingCarry(RefDifference(d, 1, 0, w), flags)
      BY <2>3, <2>4, <2>6, Decrements
    <3> QED BY <2>4, <2>6, <3>1, BinaryCases
  <2> QED BY <2>5, <2>6
<1> QED BY <1>1, <1>2 DEF ExecuteFastForm

LEMMA MultipliesAgree ==
  /\ ExecuteMultiply => BinaryAgrees'
  /\ ExecuteMultiplyImmediate => BinaryAgrees'
<1>1. ASSUME ExecuteMultiply PROVE BinaryAgrees'
  <2>1. PICK op \in {"MUL", "IMUL"}, w \in {8, 16}, flags \in FlagsBefore :
             \E a, b \in Operands(w) : Record(op, w, a, b, flags, Multiply(op, a, b, flags, w))
    BY <1>1 DEF ExecuteMultiply
  <2>2. PICK a \in Operands(w), b \in Operands(w) :
             Record(op, w, a, b, flags, Multiply(op, a, b, flags, w))
    BY <2>1
  <2>3. a \in 0 .. 2^w - 1 /\ b \in 0 .. 2^w - 1
    BY Samples, Zenon
  <2>4. PICK x : /\ done' = x /\ x.op = op /\ x.w = w /\ x.a = a /\ x.b = b
                 /\ x.out = Multiply(op, a, b, flags, w)
    BY <2>2 DEF Record
  <2>5. ProductAgrees(x, IF op = "MUL" THEN a * b ELSE AsSigned(a, w) * AsSigned(b, w))
    BY <2>3, <2>4, ProductsAgree, ZenonT(40)
  <2> QED BY <2>4, <2>5, BinaryCases
<1>2. ASSUME ExecuteMultiplyImmediate PROVE BinaryAgrees'
  <2>1. PICK a \in 0 .. 2^16 - 1, b \in 0 .. 2^16 - 1, flags \in FlagsBefore :
               Record("IMUL3", 16, a, b, flags, MultiplyImmediate(a, b, flags))
    BY <1>2, Samples, Zenon DEF ExecuteMultiplyImmediate
  <2>2. AsSigned(a, 16) \in Int /\ AsSigned(b, 16) \in Int
    <3>1. 2^16 = 65536 /\ 2^(16 - 1) = 32768
      BY PowerValues
    <3> QED BY <3>1 DEF AsSigned
  <2>3. PICK x : /\ done' = x /\ x.op = "IMUL3" /\ x.w = 16 /\ x.a = a /\ x.b = b
                 /\ x.before = flags /\ x.out = MultiplyImmediate(a, b, flags)
    BY <2>1 DEF Record
  <2> QED BY <2>2, <2>3, ShortProducts DEF BinaryAgrees, Logical
<1> QED BY <1>1, <1>2

LEMMA DividesAgree ==
  ExecuteDivide => BinaryAgrees'
<1> SUFFICES ASSUME ExecuteDivide PROVE BinaryAgrees'
  OBVIOUS
<1>1. PICK op \in {"DIV", "IDIV"}, w \in {8, 16} : \E high, low, e \in Operands(w) :
         LET n == (IF op = "IDIV" \/ w = 16 THEN AsSigned(high, w) ELSE high) * 2^w + low
             divisor == IF op = "IDIV" THEN AsSigned(e, w) ELSE e
         IN  /\ n \in (IF op = "DIV" THEN 0 ELSE -MaxInt) .. MaxInt
             /\ Record(op, w, n, divisor, {}, Divide(op, n, divisor, w))
  BY Zenon DEF ExecuteDivide
<1>2. PICK high \in Operands(w), low \in Operands(w), e \in Operands(w) :
         LET n == (IF op = "IDIV" \/ w = 16 THEN AsSigned(high, w) ELSE high) * 2^w + low
             divisor == IF op = "IDIV" THEN AsSigned(e, w) ELSE e
         IN  /\ n \in (IF op = "DIV" THEN 0 ELSE -MaxInt) .. MaxInt
             /\ Record(op, w, n, divisor, {}, Divide(op, n, divisor, w))
  BY <1>1, Zenon
<1>3. PICK n, d : /\ d = (IF op = "IDIV" THEN AsSigned(e, w) ELSE e)
                  /\ n \in (IF op = "DIV" THEN 0 ELSE -MaxInt) .. MaxInt
                  /\ Record(op, w, n, d, {}, Divide(op, n, d, w))
  BY <1>2, Zenon
<1>4. n \in Int /\ (op = "DIV" => n >= 0)
  BY <1>3
<1>5. /\ op = "DIV" => d \in 0 .. 2^w - 1
      /\ op = "IDIV" => d \in -(2^(w - 1)) .. 2^(w - 1) - 1
      /\ d \in Int
  <2>1. PICK P, H, m : Width(w, P, H, m)
    BY Widths
  <2>2. P = 2 * H /\ H \in Nat /\ 2^w = P /\ 2^(w - 1) = H /\ P \in Nat /\ e \in 0 .. P - 1
    BY <2>1, WidthFacts, Samples
  <2> QED BY <1>3, <2>2 DEF AsSigned
<1>6. PICK x : /\ done' = x /\ x.op = op /\ x.w = w /\ x.a = n /\ x.b = d
               /\ x.out = Divide(op, n, d, w)
  BY <1>3 DEF Record
<1>7. QuotientAgrees(x)
  BY <1>4, <1>5, <1>6, QuotientsAgree, Zenon
<1> QED BY <1>6, <1>7, BinaryCases

LEMMA ExtensionsAgree ==
  ExecuteExtend => BinaryAgrees'
<1> SUFFICES ASSUME ExecuteExtend PROVE BinaryAgrees'
  OBVIOUS
<1>1. PICK w \in {8, 16} :
        \E a \in Operands(w) : Record("extend", w, a, 0, {}, Outcome(SignExtend(a, w), {}))
  BY DEF ExecuteExtend
<1>2. PICK a \in Operands(w) : Record("extend", w, a, 0, {}, Outcome(SignExtend(a, w), {}))
  BY <1>1
<1>3. a \in 0 .. 2^w - 1
  BY Samples
<1>4. PICK x : /\ done' = x /\ x.op = "extend" /\ x.w = w /\ x.a = a
               /\ x.out.value = SignExtend(a, w)
  BY <1>2 DEF Record, Outcome
<1> QED BY <1>3, <1>4, Extension, BinaryCases

LEMMA BinaryStep ==
  BinaryAgrees /\ [InstructionNext]_done => BinaryAgrees'
<1> SUFFICES ASSUME BinaryAgrees, [InstructionNext]_done PROVE BinaryAgrees'
  OBVIOUS
<1>1. CASE ExecuteTwoOperand
  <2>1. PICK op \in TwoOperand, w \in {8, 16}, flags \in FlagsBefore :
             \E d, s \in Operands(w) : Record(op, w, d, s, flags, Arith(op, d, s, flags, w))
    BY <1>1 DEF ExecuteTwoOperand
  <2>2. PICK d \in Operands(w), s \in Operands(w) :
             Record(op, w, d, s, flags, Arith(op, d, s, flags, w))
    BY <2>1
  <2> QED BY <2>2, Samples, TwoOperandsAgree, Zenon
<1>2. CASE ExecuteTest
  <2>1. PICK w \in {8, 16}, flags \in FlagsBefore :
             \E d, s \in Operands(w) : Record("TEST", w, d, s, flags, Arith("TEST", d, s, flags, w))
    BY <1>2 DEF ExecuteTest
  <2>2. PICK d \in Operands(w), s \in Operands(w) :
             Record("TEST", w, d, s, flags, Arith("TEST", d, s, flags, w))
    BY <2>1
  <2> QED BY <2>2, Samples, TwoOperandsAgree, Zenon
<1>3. CASE ExecuteImmediate
  <2>1. PICK op \in TwoOperand, d \in Words, t \in Bytes, flags \in FlagsBefore :
             Record(op, 16, d, AsSigned(t, 8) % 2^16, flags,
                    Arith(op, d, AsSigned(t, 8) % 2^16, flags, 16))
    BY <1>3 DEF ExecuteImmediate
  <2>2. PICK s \in 0 .. 2^16 - 1 : Record(op, 16, d, s, flags, Arith(op, d, s, flags, 16))
    BY <2>1, Samples, Zenon
  <2> QED BY <2>2, Samples, TwoOperandsAgree, Zenon
<1>4. CASE ExecuteOneOperand \/ ExecuteFastForm \/ ExecuteMultiply
           \/ ExecuteMultiplyImmediate \/ ExecuteDivide \/ ExecuteExtend
  BY <1>4, OneOperandsAgree, FastFormsAgree, MultipliesAgree, DividesAgree, ExtensionsAgree
<1>5. CASE ExecuteShift \/ ExecutePacked \/ ExecuteUnpacked \/ ExecuteDigits \/ Finish
           \/ Decode \/ Access \/ ExecuteMove \/ ExecuteCompare \/ ExecutePort
  <2>1. done'.op \notin {"ADD", "ADC", "SUB", "CMP", "SBB", "INC", "DEC", "NEG", "NOT", "OR",
                         "AND", "XOR", "TEST", "MUL", "IMUL", "IMUL3", "DIV", "IDIV", "extend"}
    BY <1>5, Executed DEF Rotates, Shifts
  <2> QED BY <2>1, BinaryCases
<1>6. CASE UNCHANGED done
  BY <1>6 DEF BinaryAgrees
<1> QED BY <1>1, <1>2, <1>3, <1>4, <1>5, <1>6 DEF InstructionNext, ArithmeticNext

(* Decimal numbers.                                                          *)
LEMMA TwoDigits ==
  ASSUME NEW h \in 0 .. 9, NEW l \in 0 .. 9
  PROVE  /\ (10 * h + l) \div 10 = h /\ (10 * h + l) % 10 = l
         /\ Packed(10 * h + l) = 16 * h + l
<1>1. (10 * h + l) \div 10 = h /\ (10 * h + l) % 10 = l
  OBVIOUS
<1> QED BY <1>1 DEF Packed

\* The sum and the difference the adjustments start from.
LEMMA ByteSums ==
  ASSUME NEW d \in 0 .. 255, NEW s \in 0 .. 255, NEW flags \in SUBSET AllFlags
  PROVE  /\ Arith("ADC", d, s, flags, 8) = RefSum(d, s, Carry(flags), 8)
         /\ Arith("SBB", d, s, flags, 8) = RefDifference(d, s, Carry(flags), 8)
<1>1. PICK w \in {8, 16} : w = 8
  OBVIOUS
<1>2. d \in 0 .. 2^w - 1 /\ s \in 0 .. 2^w - 1
  BY <1>1, PowerValues
<1>3. /\ Arith("ADC", d, s, flags, w) = RefSum(d, s, Carry(flags), w)
      /\ Arith("SBB", d, s, flags, w) = RefDifference(d, s, Carry(flags), w)
  BY <1>2, ArithSums, Zenon
<1> QED BY <1>1, <1>3

LEMMA ReferenceSum ==
  ASSUME NEW d, NEW s, NEW c, d \in 0 .. 255, s \in 0 .. 255, c \in {0, 1}
  PROVE  LET sum == RefSum(d, s, c, 8)
         IN  /\ sum.value = (d + s + c) % 256
             /\ "CF" \in sum.flags <=> d + s + c >= 256
             /\ "AF" \in sum.flags <=> (d % 16) + (s % 16) + c >= 16
BY PowerValues DEF RefSum, Wrap, ResultFlags

LEMMA ReferenceDifference ==
  ASSUME NEW d, NEW s, NEW c, d \in 0 .. 255, s \in 0 .. 255, c \in {0, 1}
  PROVE  LET difference == RefDifference(d, s, c, 8)
         IN  /\ difference.value = (d - s - c) % 256
             /\ "CF" \in difference.flags <=> d < s + c
             /\ "AF" \in difference.flags <=> d % 16 < (s % 16) + c
BY PowerValues DEF RefDifference, Wrap, ResultFlags

\* SF, ZF and PF do not touch the carry.
LEMMA CarryKept ==
  ASSUME NEW flags, NEW r, NEW w
  PROVE  "CF" \in SetSzp(flags, r, w) <=> "CF" \in flags
BY DEF SetSzp, Put

\* The number, tens and ones, of two digits and a carry into either.
LEMMA DigitSum ==
  ASSUME NEW hi \in 0 .. 18, NEW lo \in 0 .. 19
  PROVE  LET al == (16 * hi + lo) % 256
         IN  /\ (al % 16 > 9 \/ lo >= 16) <=> lo > 9
             /\ (al > 153 \/ 16 * hi + lo >= 256) <=> 10 * hi + lo >= 100
             /\ (al + (IF 10 * hi + lo >= 100 THEN 96 ELSE 0) + (IF lo > 9 THEN 6 ELSE 0)) % 256
                  = Packed((10 * hi + lo) % 100)
<1> DEFINE al == (16 * hi + lo) % 256
<1>1. al = IF 16 * hi + lo >= 256 THEN 16 * hi + lo - 256 ELSE 16 * hi + lo
  OBVIOUS
<1>2. al % 16 = IF lo >= 16 THEN lo - 16 ELSE lo
  BY <1>1
<1>3. PICK l \in 0 .. 9 : l = IF lo > 9 THEN lo - 10 ELSE lo
  OBVIOUS
<1>4. PICK h \in 0 .. 9 :
        h = (IF lo > 9 THEN hi + 1 ELSE hi) - (IF 10 * hi + lo >= 100 THEN 10 ELSE 0)
  OBVIOUS
<1>5. (10 * hi + lo) % 100 = 10 * h + l
  BY <1>3, <1>4
<1>6. (al + (IF 10 * hi + lo >= 100 THEN 96 ELSE 0) + (IF lo > 9 THEN 6 ELSE 0)) % 256 = 16 * h + l
  BY <1>1, <1>3, <1>4
<1>7. Packed(10 * h + l) = 16 * h + l
  BY TwoDigits
<1> QED BY <1>1, <1>2, <1>5, <1>6, <1>7

LEMMA DigitDifference ==
  ASSUME NEW hi \in -9 .. 9, NEW lo \in -10 .. 9
  PROVE  LET al == (16 * hi + lo) % 256
         IN  /\ (al % 16 > 9 \/ lo < 0) <=> lo < 0
             /\ (al > 153 \/ 16 * hi + lo < 0) <=> 10 * hi + lo < 0
             /\ lo < 0 /\ al < 6 => 10 * hi + lo < 0
             /\ (al - (IF 10 * hi + lo < 0 THEN 96 ELSE 0) - (IF lo < 0 THEN 6 ELSE 0)) % 256
                  = Packed((10 * hi + lo) % 100)
<1> DEFINE al == (16 * hi + lo) % 256
<1>1. al = IF 16 * hi + lo < 0 THEN 16 * hi + lo + 256 ELSE 16 * hi + lo
  OBVIOUS
<1>2. lo >= 0 => al % 16 = lo
  BY <1>1
<1>3. PICK l \in 0 .. 9 : l = IF lo < 0 THEN lo + 10 ELSE lo
  OBVIOUS
<1>4. PICK h \in 0 .. 9 :
        h = (IF lo < 0 THEN hi - 1 ELSE hi) + (IF 10 * hi + lo < 0 THEN 10 ELSE 0)
  OBVIOUS
<1>5. (10 * hi + lo) % 100 = 10 * h + l
  BY <1>3, <1>4
<1>6. (al - (IF 10 * hi + lo < 0 THEN 96 ELSE 0) - (IF lo < 0 THEN 6 ELSE 0)) % 256 = 16 * h + l
  BY <1>1, <1>3, <1>4
<1>7. Packed(10 * h + l) = 16 * h + l
  BY TwoDigits
<1> QED BY <1>1, <1>2, <1>5, <1>6, <1>7

\* A number below 100 has two digits, and packed they are a byte.
LEMMA PackedForm ==
  ASSUME NEW a \in 0 .. 99
  PROVE  \E h, l \in 0 .. 9 : a = 10 * h + l /\ Packed(a) = 16 * h + l
                             /\ Packed(a) \in 0 .. 255 /\ Packed(a) % 16 = l
<1>1. PICK h \in 0 .. 9, l \in 0 .. 9 : a = 10 * h + l
  <2>1. a = 10 * (a \div 10) + (a % 10) /\ a \div 10 \in 0 .. 9 /\ a % 10 \in 0 .. 9
    OBVIOUS
  <2> QED BY ONLY <2>1
<1>2. Packed(a) = 16 * h + l
  BY <1>1, TwoDigits
<1>3. (16 * h + l) \in 0 .. 255 /\ (16 * h + l) % 16 = l
  OBVIOUS
<1>4. Packed(a) \in 0 .. 255 /\ Packed(a) % 16 = l
  BY <1>2, <1>3
<1> QED BY <1>1, <1>2, <1>4, Zenon

\* DAA and DAS after a sum and a difference of packed digits.
LEMMA PackedSum ==
  ASSUME NEW a, NEW b, NEW flags, a \in 0 .. 99, b \in 0 .. 99, flags \in SUBSET AllFlags,
         NEW sum, sum = Arith("ADC", Packed(a), Packed(b), flags, 8)
  PROVE  LET n == a + b + Carry(flags)
             out == Daa(sum.value, sum.flags)
         IN  out.value = Packed(n % 100) /\ ("CF" \in out.flags <=> n >= 100)
<1>1. PICK c \in {0, 1} : c = Carry(flags)
  BY Samples
<1>2. PICK a1, a0 \in 0 .. 9 : a = 10 * a1 + a0 /\ Packed(a) = 16 * a1 + a0
                              /\ Packed(a) \in 0 .. 255 /\ Packed(a) % 16 = a0
  BY PackedForm, Zenon
<1>3. PICK b1, b0 \in 0 .. 9 : b = 10 * b1 + b0 /\ Packed(b) = 16 * b1 + b0
                              /\ Packed(b) \in 0 .. 255 /\ Packed(b) % 16 = b0
  BY PackedForm, Zenon
<1>4. PICK hi \in 0 .. 18, lo \in 0 .. 19 : hi = a1 + b1 /\ lo = a0 + b0 + c
  BY ONLY c \in {0, 1}, a1 \in 0 .. 9, a0 \in 0 .. 9, b1 \in 0 .. 9, b0 \in 0 .. 9
<1>5. Packed(a) + Packed(b) + c = 16 * hi + lo /\ a + b + c = 10 * hi + lo
  BY ONLY <1>2, <1>3, <1>4, c \in {0, 1}, a1 \in 0 .. 9, a0 \in 0 .. 9, b1 \in 0 .. 9, b0 \in 0 .. 9
<1> DEFINE al == sum.value
<1>6. /\ al = (16 * hi + lo) % 256
      /\ "CF" \in sum.flags <=> 16 * hi + lo >= 256
      /\ "AF" \in sum.flags <=> lo >= 16
  <2>1. /\ al = (Packed(a) + Packed(b) + c) % 256
        /\ "CF" \in sum.flags <=> Packed(a) + Packed(b) + c >= 256
        /\ "AF" \in sum.flags <=> (Packed(a) % 16) + (Packed(b) % 16) + c >= 16
    <3>1. PICK d, s \in 0 .. 255 : d = Packed(a) /\ s = Packed(b)
      BY <1>2, <1>3, ZenonT(40)
    <3>2. sum = RefSum(d, s, c, 8)
      BY <1>1, <3>1, ByteSums, Zenon
    <3>3. LET r == RefSum(d, s, c, 8)
          IN  /\ r.value = (d + s + c) % 256
              /\ "CF" \in r.flags <=> d + s + c >= 256
              /\ "AF" \in r.flags <=> (d % 16) + (s % 16) + c >= 16
      BY ONLY ReferenceSum, d \in 0 .. 255, s \in 0 .. 255, c \in {0, 1}
    <3> QED BY ONLY <3>1, <3>2, <3>3
  <2> QED BY ONLY <1>2, <1>3, <1>4, <1>5, <2>1
<1>7. /\ (al % 16 > 9 \/ lo >= 16) <=> lo > 9
      /\ (al > 153 \/ 16 * hi + lo >= 256) <=> 10 * hi + lo >= 100
      /\ (al + (IF 10 * hi + lo >= 100 THEN 96 ELSE 0) + (IF lo > 9 THEN 6 ELSE 0)) % 256
           = Packed((10 * hi + lo) % 100)
  <2>1. LET k == (16 * hi + lo) % 256
        IN  /\ (k % 16 > 9 \/ lo >= 16) <=> lo > 9
            /\ (k > 153 \/ 16 * hi + lo >= 256) <=> 10 * hi + lo >= 100
            /\ (k + (IF 10 * hi + lo >= 100 THEN 96 ELSE 0) + (IF lo > 9 THEN 6 ELSE 0)) % 256
                 = Packed((10 * hi + lo) % 100)
    BY DigitSum
  <2> QED BY ONLY <1>6, <2>1
<1> DEFINE half == DecimalDigit(al, sum.flags)
           top == DecimalTop(al, sum.flags)
           r == (al + (IF top THEN 96 ELSE 0) + (IF half THEN 6 ELSE 0)) % 256
<1>8. half <=> lo > 9
  BY ONLY <1>6, <1>7 DEF DecimalDigit
<1>9. top <=> 10 * hi + lo >= 100
  BY ONLY <1>6, <1>7 DEF DecimalTop
<1>10. Daa(al, sum.flags) = [value |-> r,
                             flags |-> SetSzp(Put(Put(sum.flags, "AF", half), "CF", top), r, 8)]
  BY DEF Daa, Outcome
<1> HIDE DEF half, top
<1>11. r = Packed((10 * hi + lo) % 100)
  BY ONLY <1>7, <1>8, <1>9
<1> HIDE DEF r, al
<1>12. "CF" \in Put(Put(sum.flags, "AF", half), "CF", top) <=> top
  BY DEF Put
<1>13. Daa(al, sum.flags).value = r /\ ("CF" \in Daa(al, sum.flags).flags <=> top)
  BY <1>10, <1>12, CarryKept
<1> QED BY ONLY <1>1, <1>5, <1>9, <1>11, <1>13 DEF al

LEMMA PackedDifference ==
  ASSUME NEW a, NEW b, NEW flags, a \in 0 .. 99, b \in 0 .. 99, flags \in SUBSET AllFlags,
         NEW sum, sum = Arith("SBB", Packed(a), Packed(b), flags, 8)
  PROVE  LET n == a - b - Carry(flags)
             out == Das(sum.value, sum.flags)
         IN  out.value = Packed(n % 100) /\ ("CF" \in out.flags <=> n < 0)
<1>1. PICK c \in {0, 1} : c = Carry(flags)
  BY Samples
<1>2. PICK a1, a0 \in 0 .. 9 : a = 10 * a1 + a0 /\ Packed(a) = 16 * a1 + a0
                              /\ Packed(a) \in 0 .. 255 /\ Packed(a) % 16 = a0
  BY PackedForm, ZenonT(40)
<1>3. PICK b1, b0 \in 0 .. 9 : b = 10 * b1 + b0 /\ Packed(b) = 16 * b1 + b0
                              /\ Packed(b) \in 0 .. 255 /\ Packed(b) % 16 = b0
  BY PackedForm, Zenon
<1>4. PICK hi \in -9 .. 9, lo \in -10 .. 9 : hi = a1 - b1 /\ lo = a0 - b0 - c
  BY ONLY c \in {0, 1}, a1 \in 0 .. 9, a0 \in 0 .. 9, b1 \in 0 .. 9, b0 \in 0 .. 9
<1>5. Packed(a) - Packed(b) - c = 16 * hi + lo /\ a - b - c = 10 * hi + lo
      /\ (Packed(a) < Packed(b) + c <=> 16 * hi + lo < 0) /\ (a0 < b0 + c <=> lo < 0)
  <2>1. PICK p \in 0 .. 255, q \in 0 .. 255 : p = Packed(a) /\ q = Packed(b)
    BY <1>2, <1>3, Zenon
  <2>2. p - q - c = 16 * hi + lo /\ a - b - c = 10 * hi + lo
    BY ONLY <1>2, <1>3, <1>4, <2>1, c \in {0, 1}, a1 \in 0 .. 9, a0 \in 0 .. 9,
            b1 \in 0 .. 9, b0 \in 0 .. 9
  <2>3. (p < q + c <=> 16 * hi + lo < 0) /\ (a0 < b0 + c <=> lo < 0)
    BY ONLY <1>4, <2>2, c \in {0, 1}, a0 \in 0 .. 9, b0 \in 0 .. 9, hi \in -9 .. 9,
            lo \in -10 .. 9, p \in 0 .. 255, q \in 0 .. 255
  <2> QED BY ONLY <2>1, <2>2, <2>3
<1> DEFINE al == sum.value
<1>6. /\ al = (16 * hi + lo) % 256
      /\ "CF" \in sum.flags <=> 16 * hi + lo < 0
      /\ "AF" \in sum.flags <=> lo < 0
  <2>1. /\ al = (Packed(a) - Packed(b) - c) % 256
        /\ "CF" \in sum.flags <=> Packed(a) < Packed(b) + c
        /\ "AF" \in sum.flags <=> Packed(a) % 16 < (Packed(b) % 16) + c
    <3>1. PICK d, s \in 0 .. 255 : d = Packed(a) /\ s = Packed(b)
      BY <1>2, <1>3, ZenonT(40)
    <3>2. sum = RefDifference(d, s, c, 8)
      BY <1>1, <3>1, ByteSums, Zenon
    <3>3. LET r == RefDifference(d, s, c, 8)
          IN  /\ r.value = (d - s - c) % 256
              /\ "CF" \in r.flags <=> d < s + c
              /\ "AF" \in r.flags <=> d % 16 < (s % 16) + c
      BY ONLY ReferenceDifference, d \in 0 .. 255, s \in 0 .. 255, c \in {0, 1}
    <3> QED BY ONLY <3>1, <3>2, <3>3
  <2> QED BY ONLY <1>2, <1>3, <1>5, <2>1
<1>7. /\ (al % 16 > 9 \/ lo < 0) <=> lo < 0
      /\ (al > 153 \/ 16 * hi + lo < 0) <=> 10 * hi + lo < 0
      /\ lo < 0 /\ al < 6 => 10 * hi + lo < 0
      /\ (al - (IF 10 * hi + lo < 0 THEN 96 ELSE 0) - (IF lo < 0 THEN 6 ELSE 0)) % 256
           = Packed((10 * hi + lo) % 100)
  <2>1. LET k == (16 * hi + lo) % 256
        IN  /\ (k % 16 > 9 \/ lo < 0) <=> lo < 0
            /\ (k > 153 \/ 16 * hi + lo < 0) <=> 10 * hi + lo < 0
            /\ lo < 0 /\ k < 6 => 10 * hi + lo < 0
            /\ (k - (IF 10 * hi + lo < 0 THEN 96 ELSE 0) - (IF lo < 0 THEN 6 ELSE 0)) % 256
                 = Packed((10 * hi + lo) % 100)
    BY DigitDifference
  <2> QED BY ONLY <1>6, <2>1
<1> DEFINE half == DecimalDigit(al, sum.flags)
           top == DecimalTop(al, sum.flags)
           r == (al - (IF top THEN 96 ELSE 0) - (IF half THEN 6 ELSE 0)) % 256
           borrow == top \/ (half /\ al < 6)
<1>8. half <=> lo < 0
  BY ONLY <1>6, <1>7 DEF DecimalDigit
<1>9. top <=> 10 * hi + lo < 0
  BY ONLY <1>6, <1>7 DEF DecimalTop
<1>10. Das(al, sum.flags) = [value |-> r,
                             flags |-> SetSzp(Put(Put(sum.flags, "AF", half), "CF", borrow), r, 8)]
  BY DEF Das, Outcome
<1> HIDE DEF half, top
<1>11. r = Packed((10 * hi + lo) % 100)
  BY ONLY <1>7, <1>8, <1>9
<1>12. borrow <=> 10 * hi + lo < 0
  BY ONLY <1>7, <1>8, <1>9
<1> HIDE DEF r, al, borrow
<1>13. "CF" \in Put(Put(sum.flags, "AF", half), "CF", borrow) <=> borrow
  BY DEF Put
<1>14. Das(al, sum.flags).value = r /\ ("CF" \in Das(al, sum.flags).flags <=> borrow)
  BY <1>10, <1>13, CarryKept
<1> QED BY ONLY <1>1, <1>5, <1>11, <1>14, <1>12 DEF al

SumAdjusted(high, a, b, c, out) ==
  LET n == 10 * high + a + b + c
  IN  /\ out.value = 256 * (n \div 10) + (n % 10)
      /\ "CF" \in out.flags <=> a + b + c > 9
DifferenceAdjusted(high, a, b, c, out) ==
  LET n == 10 * high + a - b - c
  IN  /\ out.value = 256 * (n \div 10) + (n % 10)
      /\ "CF" \in out.flags <=> a < b + c

AdjustsSum(high, a, b, flags) ==
  LET sum == Arith("ADC", a, b, flags, 8)
  IN  SumAdjusted(high, a, b, Carry(flags), AsciiAdjust("AAA", 256 * high + sum.value, sum.flags))
AdjustsDifference(high, a, b, flags) ==
  LET sum == Arith("SBB", a, b, flags, 8)
  IN  DifferenceAdjusted(high, a, b, Carry(flags), AsciiAdjust("AAS", 256 * high + sum.value, sum.flags))
\* A sum of two unpacked digits, adjusted above the tens it belongs to.
LEMMA UnpackedSum ==
  ASSUME NEW a, NEW b, NEW high, NEW flags,
         a \in 0 .. 9, b \in 0 .. 9, high \in 1 .. 9, flags \in SUBSET AllFlags
  PROVE  AdjustsSum(high, a, b, flags)
<1> DEFINE sum == Arith("ADC", a, b, flags, 8)
<1>1. PICK c \in {0, 1} : c = Carry(flags)
  BY Samples
<1>2. PICK lo \in 0 .. 19 : lo = a + b + c
  BY ONLY c \in {0, 1}, a \in 0 .. 9, b \in 0 .. 9
<1>3. sum.value = lo /\ ("AF" \in sum.flags <=> lo >= 16)
  <2>1. PICK d \in 0 .. 255, s \in 0 .. 255 : d = a /\ s = b
    <3>1. a \in 0 .. 255 /\ b \in 0 .. 255
      OBVIOUS
    <3> QED BY ONLY <3>1, ZenonT(40)
  <2>2. sum = RefSum(d, s, c, 8)
    BY <1>1, <2>1, ByteSums, Zenon DEF sum
  <2>3. LET r == RefSum(d, s, c, 8)
        IN  /\ r.value = (d + s + c) % 256
            /\ "CF" \in r.flags <=> d + s + c >= 256
            /\ "AF" \in r.flags <=> (d % 16) + (s % 16) + c >= 16
    BY ONLY ReferenceSum, d \in 0 .. 255, s \in 0 .. 255, c \in {0, 1}
  <2>4. (d + s + c) % 256 = lo /\ (d % 16) + (s % 16) + c = lo
    BY ONLY <1>2, <2>1, a \in 0 .. 9, b \in 0 .. 9, c \in {0, 1}
  <2> QED BY ONLY <2>2, <2>3, <2>4
<1> HIDE DEF sum
<1>4. (256 * high + lo) % 256 = lo
  OBVIOUS
<1> DEFINE ax == 256 * high + sum.value
           half == DecimalDigit(ax % 256, sum.flags)
           total == (ax + (IF half THEN 262 ELSE 0)) % 65536
           r == 256 * (total \div 256) + (total % 16)
<1>5. half <=> lo > 9
  <2>1. lo % 16 = IF lo >= 16 THEN lo - 16 ELSE lo
    OBVIOUS
  <2> QED BY ONLY <1>3, <1>4, <2>1, lo \in 0 .. 19 DEF DecimalDigit
<1>6. AsciiAdjust("AAA", ax, sum.flags) =
        [value |-> r, flags |-> SetSzp(Put(Put(sum.flags, "AF", half), "CF", half), total % 16, 16)]
  BY DEF AsciiAdjust, Outcome
<1>7. ax = 256 * high + lo
  BY <1>3
<1> HIDE DEF ax, half
<1>8. total = IF lo > 9 THEN 256 * (high + 1) + (lo + 6) ELSE 256 * high + lo
  BY ONLY <1>5, <1>7, high \in 1 .. 9, lo \in 0 .. 19
<1> HIDE DEF total
<1>9. r = IF lo > 9 THEN 256 * (high + 1) + (lo - 10) ELSE 256 * high + lo
  BY ONLY <1>8, high \in 1 .. 9, lo \in 0 .. 19
<1> HIDE DEF r
<1>10. (10 * high + lo) \div 10 = (IF lo > 9 THEN high + 1 ELSE high)
       /\ (10 * high + lo) % 10 = (IF lo > 9 THEN lo - 10 ELSE lo)
  BY ONLY high \in 1 .. 9, lo \in 0 .. 19
<1>11. r = 256 * ((10 * high + lo) \div 10) + ((10 * high + lo) % 10)
  BY ONLY <1>9, <1>10
<1>12. "CF" \in SetSzp(Put(Put(sum.flags, "AF", half), "CF", half), total % 16, 16) <=> half
  <2>1. "CF" \in Put(Put(sum.flags, "AF", half), "CF", half) <=> half
    BY DEF Put
  <2> QED BY <2>1, CarryKept
<1>13. 10 * high + a + b + c = 10 * high + lo
  BY ONLY <1>2, high \in 1 .. 9, a \in 0 .. 9, b \in 0 .. 9, c \in {0, 1}
<1>14. SumAdjusted(high, a, b, c, AsciiAdjust("AAA", ax, sum.flags))
  BY ONLY <1>2, <1>5, <1>6, <1>11, <1>12, <1>13 DEF SumAdjusted
<1> QED BY ONLY <1>1, <1>14 DEF ax, sum, AdjustsSum

LEMMA UnpackedDifference ==
  ASSUME NEW a, NEW b, NEW high, NEW flags,
         a \in 0 .. 9, b \in 0 .. 9, high \in 1 .. 9, flags \in SUBSET AllFlags
  PROVE  AdjustsDifference(high, a, b, flags)
<1> DEFINE sum == Arith("SBB", a, b, flags, 8)
<1>1. PICK c \in {0, 1} : c = Carry(flags)
  BY Samples
<1>2. PICK lo \in -10 .. 9 : lo = a - b - c
  BY ONLY c \in {0, 1}, a \in 0 .. 9, b \in 0 .. 9
<1>3. sum.value = (IF lo < 0 THEN lo + 256 ELSE lo) /\ ("AF" \in sum.flags <=> lo < 0)
  <2>1. PICK d \in 0 .. 255, s \in 0 .. 255 : d = a /\ s = b
    <3>1. a \in 0 .. 255 /\ b \in 0 .. 255
      OBVIOUS
    <3> QED BY ONLY <3>1, ZenonT(40)
  <2>2. sum = RefDifference(d, s, c, 8)
    BY <1>1, <2>1, ByteSums, Zenon DEF sum
  <2>3. LET r == RefDifference(d, s, c, 8)
        IN  /\ r.value = (d - s - c) % 256
            /\ "CF" \in r.flags <=> d < s + c
            /\ "AF" \in r.flags <=> d % 16 < (s % 16) + c
    BY ONLY ReferenceDifference, d \in 0 .. 255, s \in 0 .. 255, c \in {0, 1}
  <2>4. (d - s - c) % 256 = (IF lo < 0 THEN lo + 256 ELSE lo) /\ (d % 16 < (s % 16) + c <=> lo < 0)
    BY ONLY <1>2, <2>1, a \in 0 .. 9, b \in 0 .. 9, c \in {0, 1}
  <2> QED BY ONLY <2>2, <2>3, <2>4
<1> DEFINE low == IF lo < 0 THEN lo + 256 ELSE lo
<1> HIDE DEF sum
<1>4. (256 * high + low) % 256 = low /\ (lo >= 0 => low % 16 <= 9)
  OBVIOUS
<1> DEFINE ax == 256 * high + sum.value
           half == DecimalDigit(ax % 256, sum.flags)
           total == (ax + (IF half THEN -262 ELSE 0)) % 65536
           r == 256 * (total \div 256) + (total % 16)
<1>5. half <=> lo < 0
  BY ONLY <1>3, <1>4, lo \in -10 .. 9 DEF DecimalDigit
<1>6. AsciiAdjust("AAS", ax, sum.flags) =
        [value |-> r, flags |-> SetSzp(Put(Put(sum.flags, "AF", half), "CF", half), total % 16, 16)]
  BY DEF AsciiAdjust, Outcome
<1>7. ax = 256 * high + low
  BY <1>3
<1> HIDE DEF ax, half
<1>8. total = IF lo < 0 THEN 256 * (high - 1) + (250 + lo) ELSE 256 * high + lo
  BY ONLY <1>5, <1>7, high \in 1 .. 9, lo \in -10 .. 9
<1> HIDE DEF total
<1>9. r = IF lo < 0 THEN 256 * (high - 1) + (lo + 10) ELSE 256 * high + lo
  BY ONLY <1>8, high \in 1 .. 9, lo \in -10 .. 9
<1> HIDE DEF r
<1>10. (10 * high + lo) \div 10 = (IF lo < 0 THEN high - 1 ELSE high)
       /\ (10 * high + lo) % 10 = (IF lo < 0 THEN lo + 10 ELSE lo)
  BY ONLY high \in 1 .. 9, lo \in -10 .. 9
<1>11. r = 256 * ((10 * high + lo) \div 10) + ((10 * high + lo) % 10)
  BY ONLY <1>9, <1>10
<1>12. "CF" \in SetSzp(Put(Put(sum.flags, "AF", half), "CF", half), total % 16, 16) <=> half
  <2>1. "CF" \in Put(Put(sum.flags, "AF", half), "CF", half) <=> half
    BY DEF Put
  <2> QED BY <2>1, CarryKept
<1>13. 10 * high + a - b - c = 10 * high + lo /\ (a < b + c <=> lo < 0)
  BY ONLY <1>2, high \in 1 .. 9, a \in 0 .. 9, b \in 0 .. 9, c \in {0, 1}
<1>14. DifferenceAdjusted(high, a, b, c, AsciiAdjust("AAS", ax, sum.flags))
  BY ONLY <1>5, <1>6, <1>11, <1>12, <1>13 DEF DifferenceAdjusted
<1> QED BY ONLY <1>1, <1>14 DEF ax, sum, AdjustsDifference

\* The adjustments give decimal digits, whatever is executed next.
LEMMA DecimalStep ==
  DecimalsAgree /\ [InstructionNext]_done => DecimalsAgree'
<1> SUFFICES ASSUME DecimalsAgree, [InstructionNext]_done PROVE DecimalsAgree'
  OBVIOUS
<1>1. CASE ExecutePacked
  <2>1. PICK op \in {"DAA", "DAS"}, a \in Decimals, b \in Decimals, flags \in FlagsBefore :
          LET sum == Arith(IF op = "DAA" THEN "ADC" ELSE "SBB", Packed(a), Packed(b), flags, 8)
          IN  Record(op, 8, a, b, flags, IF op = "DAA" THEN Daa(sum.value, sum.flags)
                                         ELSE Das(sum.value, sum.flags))
    BY <1>1, Zenon DEF ExecutePacked
  <2>2. a \in 0 .. 99 /\ b \in 0 .. 99 /\ flags \in SUBSET AllFlags
    BY Samples
  <2>3. CASE op = "DAA"
    <3>1. PICK sum : /\ sum = Arith("ADC", Packed(a), Packed(b), flags, 8)
                     /\ Record("DAA", 8, a, b, flags, Daa(sum.value, sum.flags))
      BY <2>1, <2>3
    <3>2. PICK x : /\ done' = x /\ x.op = "DAA" /\ x.a = a /\ x.b = b /\ x.before = flags
                   /\ x.out = Daa(sum.value, sum.flags)
      BY <3>1 DEF Record
    <3>3. LET n == a + b + Carry(flags)
              out == Daa(sum.value, sum.flags)
          IN  out.value = Packed(n % 100) /\ ("CF" \in out.flags <=> n >= 100)
      BY <2>2, <3>1, PackedSum
    <3> QED BY <3>2, <3>3 DEF DecimalsAgree
  <2>4. CASE op = "DAS"
    <3>1. PICK sum : /\ sum = Arith("SBB", Packed(a), Packed(b), flags, 8)
                     /\ Record("DAS", 8, a, b, flags, Das(sum.value, sum.flags))
      BY <2>1, <2>4
    <3>2. PICK x : /\ done' = x /\ x.op = "DAS" /\ x.a = a /\ x.b = b /\ x.before = flags
                   /\ x.out = Das(sum.value, sum.flags)
      BY <3>1 DEF Record
    <3>3. LET n == a - b - Carry(flags)
              out == Das(sum.value, sum.flags)
          IN  out.value = Packed(n % 100) /\ ("CF" \in out.flags <=> n < 0)
      BY <2>2, <3>1, PackedDifference
    <3> QED BY <3>2, <3>3 DEF DecimalsAgree
  <2> QED BY <2>3, <2>4
<1>2. CASE ExecuteUnpacked
  <2>1. PICK op \in {"AAA", "AAS"}, a \in 0 .. 9, b \in 0 .. 9, high \in 1 .. 9,
             flags \in FlagsBefore :
          LET sum == Arith(IF op = "AAA" THEN "ADC" ELSE "SBB", a, b, flags, 8)
          IN  Record(op, 16, 10 * high + a, b, flags,
                     AsciiAdjust(op, 256 * high + sum.value, sum.flags))
    BY <1>2, Zenon DEF ExecuteUnpacked
  <2>2. flags \in SUBSET AllFlags
    BY Samples
  <2>3. (10 * high + a) % 10 = a
    OBVIOUS
  <2>4. CASE op = "AAA"
    <3>1. PICK sum : /\ sum = Arith("ADC", a, b, flags, 8)
                     /\ Record("AAA", 16, 10 * high + a, b, flags,
                               AsciiAdjust("AAA", 256 * high + sum.value, sum.flags))
      BY <2>1, <2>4
    <3>2. PICK x : /\ done' = x /\ x.op = "AAA" /\ x.a = 10 * high + a /\ x.b = b /\ x.before = flags
                   /\ x.out = AsciiAdjust("AAA", 256 * high + sum.value, sum.flags)
      BY <3>1 DEF Record
    <3>3. SumAdjusted(high, a, b, Carry(flags), AsciiAdjust("AAA", 256 * high + sum.value, sum.flags))
      <4>1. AdjustsSum(high, a, b, flags)
        BY <2>2, UnpackedSum
      <4> QED BY ONLY <3>1, <4>1 DEF AdjustsSum
    <3>4. PICK c \in {0, 1} : c = Carry(flags)
      BY Samples
    <3>5. PICK n : n = 10 * high + a /\ n \in Int /\ n % 10 = a
      BY <2>3
    <3>6. Carry(x.before) = c /\ x.a = n /\ x.b = b /\ x.op = "AAA"
      BY ONLY <3>2, <3>4, <3>5
    <3>7. LET t == n + b + c
          IN  x.out.value = 256 * (t \div 10) + (t % 10) /\ ("CF" \in x.out.flags <=> a + b + c > 9)
      BY ONLY <3>2, <3>3, <3>4, <3>5 DEF SumAdjusted
    <3> QED BY ONLY <3>2, <3>5, <3>6, <3>7 DEF DecimalsAgree
  <2>5. CASE op = "AAS"
    <3>1. PICK sum : /\ sum = Arith("SBB", a, b, flags, 8)
                     /\ Record("AAS", 16, 10 * high + a, b, flags,
                               AsciiAdjust("AAS", 256 * high + sum.value, sum.flags))
      BY <2>1, <2>5
    <3>2. PICK x : /\ done' = x /\ x.op = "AAS" /\ x.a = 10 * high + a /\ x.b = b /\ x.before = flags
                   /\ x.out = AsciiAdjust("AAS", 256 * high + sum.value, sum.flags)
      BY <3>1 DEF Record
    <3>3. DifferenceAdjusted(high, a, b, Carry(flags), AsciiAdjust("AAS", 256 * high + sum.value, sum.flags))
      <4>1. AdjustsDifference(high, a, b, flags)
        BY <2>2, UnpackedDifference
      <4> QED BY ONLY <3>1, <4>1 DEF AdjustsDifference
    <3>4. PICK c \in {0, 1} : c = Carry(flags)
      BY Samples
    <3>5. PICK n : n = 10 * high + a /\ n \in Int /\ n % 10 = a
      BY <2>3
    <3>6. Carry(x.before) = c /\ x.a = n /\ x.b = b /\ x.op = "AAS"
      BY ONLY <3>2, <3>4, <3>5
    <3>7. LET t == n - b - c
          IN  x.out.value = 256 * (t \div 10) + (t % 10) /\ ("CF" \in x.out.flags <=> a < b + c)
      BY ONLY <3>2, <3>3, <3>4, <3>5 DEF DifferenceAdjusted
    <3> QED BY ONLY <3>2, <3>5, <3>6, <3>7 DEF DecimalsAgree
  <2> QED BY <2>4, <2>5
<1>3. CASE ExecuteDigits
  <2>1. PICK op \in {"AAM", "AAD"}, a \in Decimals, flags \in FlagsBefore :
          Record(op, 8, a, 10, flags,
                 IF op = "AAM" THEN Aam(a, 10, flags)
                 ELSE Aad(256 * (a \div 10) + (a % 10), 10, flags))
    BY <1>3, Zenon DEF ExecuteDigits
  <2>2. a \in 0 .. 99
    BY Samples
  <2>3. CASE op = "AAM"
    BY <2>1, <2>3 DEF DecimalsAgree, Record, Aam, Outcome
  <2>4. CASE op = "AAD"
    <3>1. PICK h \in 0 .. 9, l \in 0 .. 9 : a = 10 * h + l /\ h = a \div 10 /\ l = a % 10
      <4>1. a = 10 * (a \div 10) + (a % 10) /\ a \div 10 \in 0 .. 9 /\ a % 10 \in 0 .. 9
        BY <2>2
      <4> QED BY ONLY <4>1
    <3>2. (256 * h + l) % 256 = l /\ (256 * h + l) \div 256 = h /\ (l + 10 * h) % 256 = 10 * h + l
      OBVIOUS
    <3>3. Aad(256 * h + l, 10, flags).value = a
      BY <3>1, <3>2 DEF Aad, Outcome
    <3> QED BY <2>1, <2>4, <3>1, <3>3 DEF DecimalsAgree, Record
  <2> QED BY <2>3, <2>4
<1>4. CASE done'.op \notin {"DAA", "DAS", "AAA", "AAS", "AAM", "AAD"}
  BY <1>4 DEF DecimalsAgree
<1>5. CASE UNCHANGED done
  BY <1>5 DEF DecimalsAgree
<1>6. InstructionNext => \/ ExecutePacked \/ ExecuteUnpacked \/ ExecuteDigits
                         \/ done'.op \notin {"DAA", "DAS", "AAA", "AAS", "AAM", "AAD"}
  BY Executed DEF InstructionNext, ArithmeticNext, TwoOperand, Rotates, Shifts
<1> QED BY <1>1, <1>2, <1>3, <1>4, <1>5, <1>6

-----------------------------------------------------------------------------
(* Shifts and rotates.                                                       *)

\* A run of one-bit steps is the only one of its length.
LEMMA StepsAre ==
  ASSUME NEW kind, NEW v, NEW c, NEW n, NEW w, n \in Nat, NEW f,
         f[0] = <<v, c>>,
         \A i \in 0 .. n - 1 : f[i + 1] = RefStep(kind, f[i][1], f[i][2], w)
  PROVE  RefSteps(kind, v, c, n, w) = f[n]
<1> DEFINE From(h, i) == IF i = 0 THEN <<v, c>> ELSE RefStep(kind, h[i - 1][1], h[i - 1][2], w)
           Is(h) == h = [i \in 0 .. n |-> From(h, i)]
           after == CHOOSE h : Is(h)
           g == [i \in 0 .. n |-> f[i]]
<1>1. RefSteps(kind, v, c, n, w) = after[n]
  BY Zenon DEF RefSteps
<1>2. Is(g)
  <2>1. ASSUME NEW i \in 0 .. n PROVE g[i] = From(g, i)
    <3>1. CASE i = 0
      BY <3>1
    <3>2. CASE i # 0
      <4>1. i - 1 \in 0 .. n - 1 /\ i - 1 \in 0 .. n /\ (i - 1) + 1 = i
        BY <3>2
      <4>2. g[i] = f[i] /\ g[i - 1] = f[i - 1]
        BY <4>1
      <4>3. f[i] = RefStep(kind, f[i - 1][1], f[i - 1][2], w)
        BY <4>1
      <4> QED BY <3>2, <4>2, <4>3
    <3> QED BY <3>1, <3>2
  <2> QED BY <2>1
<1>3. Is(after)
  BY <1>2
<1> HIDE DEF after, g
<1> DEFINE T == {i \in 0 .. n : after[i] = f[i]}
<1>4. \A i \in 0 .. n : after[i] = From(after, i)
  BY <1>3
<1>5. 0 \in T
  <2>1. 0 \in 0 .. n
    OBVIOUS
  <2>2. after[0] = <<v, c>>
    BY <1>4, <2>1
  <2> QED BY <2>1, <2>2
<1>6. ASSUME NEW i \in 0 .. n - 1, i \in T PROVE i + 1 \in T
  <2>1. i + 1 \in 0 .. n /\ i + 1 # 0 /\ (i + 1) - 1 = i
    OBVIOUS
  <2>2. after[i] = f[i]
    BY <1>6
  <2>3. after[i + 1] = RefStep(kind, after[i][1], after[i][2], w)
    BY <1>4, <2>1
  <2> QED BY <2>1, <2>2, <2>3
<1> HIDE DEF T
<1>7. 0 .. n \subseteq T
  BY <1>5, <1>6, UpTo
<1>8. after[n] = f[n]
  <2>1. n \in 0 .. n
    OBVIOUS
  <2> QED BY <1>7, <2>1 DEF T
<1> QED BY <1>1, <1>8

\* What is left of a number below M * B, cut at B.
LEMMA Below ==
  ASSUME NEW M, NEW B, NEW y, NEW z,
         M \in Nat \ {0}, B \in Nat \ {0}, y \in 0 .. B - 1, z \in 0 .. M - 1
  PROVE  M * y + z \in 0 .. M * B - 1
OBVIOUS

\* One step to the left and one to the right.
LEMMA LeftStep ==
  ASSUME NEW H, NEW t, NEW y, H \in Nat \ {0}, t \in {0, 1}, y \in 0 .. H - 1
  PROVE  /\ (2 * (H * t + y)) % (2 * H) = 2 * y
         /\ (H * t + y) \div H = t
<1>1. (H * t + y) \div H = t
  <2>1. CASE t = 0
    BY <2>1
  <2>2. CASE t = 1
    BY <2>2
  <2> QED BY <2>1, <2>2
<1>2. (2 * (H * t + y)) % (2 * H) = 2 * y
  <2>1. CASE t = 0
    BY <2>1
  <2>2. CASE t = 1
    BY <2>2
  <2> QED BY <2>1, <2>2
<1> QED BY <1>1, <1>2

LEMMA RightStep ==
  ASSUME NEW t \in {0, 1}, NEW y \in Nat
  PROVE  (2 * y + t) \div 2 = y /\ (2 * y + t) % 2 = t
OBVIOUS

\* A word v cut at bit k: the bits hi above it, the bit t, the bits lo below it;
\* A is the value of bit k, and B words of bits fit above it.
Pieces(v, w, k, A, B, hi, t, lo) ==
  /\ A \in Nat \ {0} /\ B \in Nat \ {0}
  /\ 2^k = A /\ 2^(k + 1) = 2 * A /\ 2^(w - 1 - k) = B /\ 2^(w - k) = 2 * B
  /\ 2^(w - 1) = A * B /\ 2^w = 2 * (A * B)
  /\ hi \in 0 .. B - 1 /\ t \in {0, 1} /\ lo \in 0 .. A - 1
  /\ v = A * (2 * hi + t) + lo
  /\ v \div 2^k = 2 * hi + t /\ v \div 2^(k + 1) = hi
  /\ v % 2^k = lo /\ v % 2^(k + 1) = A * t + lo /\ BitAt(v, k) = t

\* A bit k of a word v of w bits.
IsBit(v, w, k) == w \in {8, 16} /\ v \in 0 .. 2^w - 1 /\ k \in 0 .. w - 1

\* Any word can be cut at any of its bits.
LEMMA CutAt ==
  ASSUME NEW v, NEW w, NEW k, IsBit(v, w, k)
  PROVE  \E A, B, hi, t, lo : Pieces(v, w, k, A, B, hi, t, lo)
<1>0. w \in {8, 16} /\ v \in 0 .. 2^w - 1 /\ k \in 0 .. w - 1
  BY DEF IsBit
<1>1. PICK A, B : /\ A \in Nat \ {0} /\ B \in Nat \ {0} /\ 2^k = A /\ 2^(w - 1 - k) = B
                  /\ 2^(k + 1) = 2 * A /\ 2^(w - k) = 2 * B /\ 2^w = 2 * (A * B) /\ 2^(w - 1) = A * B
  <2>1. /\ k \in 0 .. 16 /\ k < 16 /\ w - k \in 0 .. 16 /\ w - k > 0 /\ w - 1 - k \in 0 .. 16
        /\ (w - k) - 1 = w - 1 - k /\ k \in 0 .. w /\ w \in 0 .. 16 /\ w > 0
    BY <1>0
  <2>2. PICK A : A \in Nat \ {0} /\ 2^k = A /\ 2^(k + 1) = 2 * A
    BY <2>1, PowerDoubles
  <2>3. PICK B : B \in Nat \ {0} /\ 2^(w - 1 - k) = B /\ 2^(w - k) = 2 * B
    <3>1. 2^(w - 1 - k) \in Nat \ {0} /\ 2^(w - k) = 2 * 2^((w - k) - 1)
      BY <2>1, PowerDoubles
    <3> QED BY <2>1, <3>1
  <2>4. 2^w = A * (2 * B)
    <3>1. 2^w = 2^k * 2^(w - k)
      BY <1>0, <2>1, PowerSplit
    <3> QED BY <2>2, <2>3, <3>1
  <2>5. PICK p : p = A * B /\ p \in Nat /\ A * (2 * B) = 2 * p
    BY <2>2, <2>3
  <2>6. 2^(w - 1) = p
    <3>1. 2^w = 2 * 2^(w - 1) /\ 2^(w - 1) \in Nat
      <4>1. w - 1 \in 0 .. 16
        BY <1>0
      <4> QED BY <2>1, <4>1, PowerDoubles
    <3> QED BY <2>4, <2>5, <3>1
  <2> QED BY <2>2, <2>3, <2>4, <2>5, <2>6
<1>2. PICK q, lo : /\ v = A * q + lo /\ lo \in 0 .. A - 1 /\ q \in Int
                   /\ v \div 2^k = q /\ v % 2^k = lo
  <2>1. v \in Int
    BY <1>0, <1>1
  <2> QED BY <1>1, <2>1, Division
<1>3. PICK hi \in Int, t \in {0, 1} : q = 2 * hi + t /\ t = q % 2
  <2>1. q = 2 * (q \div 2) + (q % 2) /\ q % 2 \in {0, 1} /\ q \div 2 \in Int
    BY <1>2
  <2> QED BY <2>1
<1>4. A * t + lo \in 0 .. 2 * A - 1
  <2>1. CASE t = 0
    BY <1>1, <1>2, <2>1
  <2>2. CASE t = 1
    BY <1>1, <1>2, <2>2
  <2> QED BY <2>1, <2>2
<1>5. v = (2 * A) * hi + (A * t + lo)
  BY <1>1, <1>2, <1>3
<1>6. v \div (2 * A) = hi /\ v % (2 * A) = A * t + lo
  <2>1. PICK d \in Nat \ {0} : d = 2 * A
    BY <1>1
  <2>2. PICK r \in 0 .. d - 1 : r = A * t + lo
    BY <1>4, <2>1
  <2>3. v = d * hi + r
    BY <1>5, <2>1, <2>2
  <2>4. (d * hi + r) \div d = hi /\ (d * hi + r) % d = r
    BY ONLY Quotient, d \in Nat \ {0}, hi \in Int, r \in 0 .. d - 1
  <2> QED BY <2>1, <2>2, <2>3, <2>4
<1>7. hi \in 0 .. B - 1
  <2>1. v >= 0 /\ v < 2 * (A * B)
    BY <1>0, <1>1
  <2>2. PICK r \in 0 .. 2 * A - 1 : r = A * t + lo
    BY <1>4
  <2>3. v = 2 * (A * hi) + r
    BY <1>1, <1>3, <1>5, <2>2
  <2>4. hi >= 0
    <3> SUFFICES ASSUME hi <= -1 PROVE FALSE
      BY <1>3
    <3>1. A * hi <= -A
      BY <1>1, <1>3
    <3> QED BY <1>1, <1>3, <2>1, <2>2, <2>3, <3>1
  <2>5. hi < B
    <3> SUFFICES ASSUME hi >= B PROVE FALSE
      BY <1>1, <1>3
    <3>1. A * hi >= A * B
      BY <1>1, <1>3
    <3> QED BY <1>1, <1>3, <2>1, <2>2, <2>3, <3>1
  <2> QED BY <1>1, <1>3, <2>4, <2>5
<1>8. BitAt(v, k) = t
  BY <1>2, <1>3 DEF BitAt
<1>9. Pieces(v, w, k, A, B, hi, t, lo)
  BY <1>1, <1>2, <1>3, <1>6, <1>7, <1>8 DEF Pieces
<1> QED BY <1>9

\* What a shift leaves in the word, as the code computes it.
LeftWord(v, n, w) == IF n >= w THEN 0 ELSE (v * 2^n) % 2^w
RightWord(v, n, w) == IF n >= w THEN 0 ELSE v \div 2^n
CarryBit(c, n, at) == IF n = 0 THEN 0 ELSE c * 2^at
AroundBits(v, n, k, w) == IF n = 0 THEN 0 ELSE (v % 2^(n - k)) * 2^(w + k - n)
SignBits(v, n, w) ==
  IF BitAt(v, w - 1) = 1 THEN 2^w - 1 - (IF n >= w THEN 0 ELSE (2^w - 1) \div 2^n) ELSE 0

\* The seven kinds by those parts, and the single steps they are compared with.
LEMMA ShiftedForms ==
  ASSUME NEW v, NEW n, NEW c, NEW w
  PROVE  /\ Shifted("ROL", v, n, c, w) = LeftWord(v, n, w) + v \div 2^(w - n)
         /\ Shifted("ROR", v, n, c, w) = RightWord(v, n, w) + AroundBits(v, n, 0, w)
         /\ Shifted("RCL", v, n, c, w)
              = LeftWord(v, n, w) + CarryBit(c, n, n - 1) + v \div 2^(w + 1 - n)
         /\ Shifted("RCR", v, n, c, w)
              = RightWord(v, n, w) + CarryBit(c, n, w - n) + AroundBits(v, n, 1, w)
         /\ Shifted("SHL", v, n, c, w) = LeftWord(v, n, w)
         /\ Shifted("SHR", v, n, c, w) = RightWord(v, n, w)
         /\ Shifted("SAR", v, n, c, w) = RightWord(v, n, w) + SignBits(v, n, w)
<1>1. Shifted("ROL", v, n, c, w) = LeftWord(v, n, w) + v \div 2^(w - n)
  BY DEF Shifted, LeftWord
<1>2. Shifted("ROR", v, n, c, w) = RightWord(v, n, w) + AroundBits(v, n, 0, w)
  BY DEF Shifted, RightWord, AroundBits
<1>3. Shifted("RCL", v, n, c, w)
        = LeftWord(v, n, w) + CarryBit(c, n, n - 1) + v \div 2^(w + 1 - n)
  BY DEF Shifted, LeftWord, CarryBit
<1>4. Shifted("RCR", v, n, c, w)
        = RightWord(v, n, w) + CarryBit(c, n, w - n) + AroundBits(v, n, 1, w)
  BY DEF Shifted, RightWord, CarryBit, AroundBits
<1>5. Shifted("SHL", v, n, c, w) = LeftWord(v, n, w) /\ Shifted("SHR", v, n, c, w) = RightWord(v, n, w)
  BY DEF Shifted, LeftWord, RightWord
<1>6. Shifted("SAR", v, n, c, w) = RightWord(v, n, w) + SignBits(v, n, w)
  BY DEF Shifted, RightWord, SignBits
<1> QED BY <1>1, <1>2, <1>3, <1>4, <1>5, <1>6

LEMMA StepForms ==
  ASSUME NEW v, NEW c, NEW w
  PROVE  LET low == v % 2
             top == v \div 2^(w - 1)
             rest == v \div 2
             double == (2 * v) % 2^w
         IN  /\ RefStep("ROL", v, c, w) = <<double + top, top>>
             /\ RefStep("ROR", v, c, w) = <<rest + low * 2^(w - 1), low>>
             /\ RefStep("RCL", v, c, w) = <<double + c, top>>
             /\ RefStep("RCR", v, c, w) = <<rest + c * 2^(w - 1), low>>
             /\ RefStep("SHL", v, c, w) = <<double, top>>
             /\ RefStep("SHR", v, c, w) = <<rest, low>>
             /\ RefStep("SAR", v, c, w) = <<rest + top * 2^(w - 1), low>>
BY DEF RefStep, Wrap

\* A word cut below its i upper bits, as shifting it to the left does: the bits
\* hi that have left it, the bit t that leaves it next, the bits lo that stay.
LeftPieces(v, w, i, M, B, hi, t, lo) ==
  /\ M \in Nat \ {0} /\ B \in Nat \ {0}
  /\ 2^i = M /\ 2^(i + 1) = 2 * M /\ 2^(w - 1) = M * B /\ 2^w = 2 * (M * B)
  /\ hi \in 0 .. M - 1 /\ t \in {0, 1} /\ lo \in 0 .. B - 1
  /\ v = B * (2 * hi + t) + lo
  /\ v \div 2^(w - i) = hi /\ v \div 2^(w - (i + 1)) = 2 * hi + t
  /\ LeftWord(v, i, w) = (M * B) * t + M * lo /\ LeftWord(v, i + 1, w) = 2 * (M * lo)
  /\ BitAt(v, w - (i + 1)) = t

\* A word can be cut for a shift to the left.
LEMMA CutLeft ==
  ASSUME NEW v, NEW w, NEW i, IsBit(v, w, i)
  PROVE  \E M, B, hi, t, lo : LeftPieces(v, w, i, M, B, hi, t, lo)
<1>1. PICK k : k = w - 1 - i /\ k \in 0 .. w - 1 /\ k + 1 = w - i /\ w - 1 - k = i /\ w - k = i + 1
               /\ k = w - (i + 1) /\ i + 1 <= w /\ i \in Nat /\ w \in Nat
  BY DEF IsBit
<1>2. PICK B, M, hi, t, lo : Pieces(v, w, k, B, M, hi, t, lo)
  <2>1. IsBit(v, w, k)
    BY <1>1 DEF IsBit
  <2> QED BY ONLY <2>1, CutAt
<1>3. /\ M \in Nat \ {0} /\ B \in Nat \ {0}
      /\ 2^i = M /\ 2^(i + 1) = 2 * M /\ 2^(w - 1) = M * B /\ 2^w = 2 * (M * B)
      /\ hi \in 0 .. M - 1 /\ t \in {0, 1} /\ lo \in 0 .. B - 1
      /\ v = B * (2 * hi + t) + lo
      /\ v \div 2^(w - i) = hi /\ v \div 2^(w - (i + 1)) = 2 * hi + t
      /\ BitAt(v, w - (i + 1)) = t /\ B = 2^k
  BY <1>1, <1>2 DEF Pieces
<1>4. PICK H, y : H = M * B /\ H \in Nat \ {0} /\ y = M * lo /\ y \in 0 .. H - 1
  <2>1. M * lo + 0 \in 0 .. M * B - 1
    <3>1. 0 \in 0 .. M - 1
      BY <1>3
    <3> QED BY ONLY <1>3, <3>1, Below
  <2>2. M * B \in Nat \ {0} /\ M * lo \in Nat
    BY ONLY <1>3
  <2> QED BY <2>1, <2>2
<1>5. v * M = (2 * H) * hi + (H * t + y)
  BY ONLY <1>3, <1>4
<1>6. (v * M) % (2 * H) = H * t + y
  <2>1. PICK d \in Nat \ {0} : d = 2 * H
    BY <1>4
  <2>2. PICK r \in 0 .. d - 1 : r = H * t + y
    <3>1. CASE t = 0
      BY <1>4, <2>1, <3>1
    <3>2. CASE t = 1
      BY <1>4, <2>1, <3>2
    <3> QED BY <1>3, <3>1, <3>2
  <2>3. hi \in Int
    BY <1>3
  <2>4. (d * hi + r) % d = r
    BY ONLY Quotient, d \in Nat \ {0}, <2>3, r \in 0 .. d - 1
  <2> QED BY <1>5, <2>1, <2>2, <2>4
<1>7. LeftWord(v, i, w) = H * t + y
  BY <1>1, <1>3, <1>4, <1>6 DEF LeftWord
<1>8. LeftWord(v, i + 1, w) = 2 * y
  <2>1. CASE i + 1 < w
    <3>1. v * (2 * M) = (2 * H) * (2 * hi + t) + 2 * y
      <4>1. PICK s \in Nat : s = 2 * hi + t /\ v = B * s + lo
        BY <1>3
      <4>2. (B * s + lo) * (2 * M) = 2 * ((M * B) * s) + 2 * (M * lo)
        BY ONLY <1>3, s \in Nat
      <4>3. (2 * H) * s = 2 * (H * s)
        BY ONLY <1>4, s \in Nat
      <4> QED BY ONLY <1>4, <4>1, <4>2, <4>3
    <3>2. PICK d \in Nat \ {0} : d = 2 * H
      BY <1>4
    <3>3. PICK r \in 0 .. d - 1 : r = 2 * y
      BY <1>4, <3>2
    <3>4. 2 * hi + t \in Int
      BY <1>3
    <3>5. (d * (2 * hi + t) + r) % d = r
      BY ONLY Quotient, d \in Nat \ {0}, <3>4, r \in 0 .. d - 1
    <3>6. (v * (2 * M)) % (2 * H) = 2 * y
      BY <3>1, <3>2, <3>3, <3>5
    <3>7. LeftWord(v, i + 1, w) = (v * 2^(i + 1)) % 2^w
      BY ONLY <1>1, <2>1 DEF LeftWord
    <3> QED BY ONLY <1>3, <1>4, <3>6, <3>7
  <2>2. CASE i + 1 >= w
    <3>1. k = 0
      BY <1>1, <2>2
    <3>2. lo = 0
      BY <1>3, <3>1, PowerValues
    <3>3. y = 0
      BY <1>3, <1>4, <3>2
    <3>4. LeftWord(v, i + 1, w) = 0
      BY ONLY <2>2 DEF LeftWord
    <3> QED BY ONLY <3>3, <3>4
  <2> QED BY <1>1, <2>1, <2>2
<1>9. LeftPieces(v, w, i, M, B, hi, t, lo)
  BY <1>3, <1>4, <1>7, <1>8 DEF LeftPieces
<1> QED BY <1>9

\* The carry after n steps, where a rotate has not come round.
CarryAfter(kind, v, c, n, w) ==
  IF n = 0 THEN c
  ELSE IF kind \in {"ROL", "RCL", "SHL"} THEN IF n > w THEN 0 ELSE BitAt(v, w - n)
  ELSE IF kind = "SAR" /\ n >= w THEN BitAt(v, w - 1)
  ELSE BitAt(v, n - 1)

\* Operand and carry after n steps, by the code's two shifts and an addition.
After(kind, v, c, n, w) == <<Shifted(kind, v, n, c, w), CarryAfter(kind, v, c, n, w)>>
OneStep(kind, pair, w) == RefStep(kind, pair[1], pair[2], w)

\* One more step after n steps.
LEMMA StepsOf ==
  ASSUME NEW kind, NEW v, NEW c, NEW n, NEW w
  PROVE  OneStep(kind, After(kind, v, c, n, w), w)
           = RefStep(kind, Shifted(kind, v, n, c, w), CarryAfter(kind, v, c, n, w), w)
BY DEF OneStep, After

\* SHL and ROL, then RCL: one step more is a count one larger.
LEMMA ShiftLeftStep ==
  ASSUME NEW v, NEW w, NEW i, IsBit(v, w, i), NEW c
  PROVE  /\ OneStep("SHL", After("SHL", v, c, i, w), w) = After("SHL", v, c, i + 1, w)
         /\ OneStep("ROL", After("ROL", v, c, i, w), w) = After("ROL", v, c, i + 1, w)
<1>1. PICK M, B, hi, t, lo : LeftPieces(v, w, i, M, B, hi, t, lo)
  BY CutLeft
<1>2. PICK H, y : H = M * B /\ y = M * lo
  OBVIOUS
<1>3. /\ H \in Nat \ {0} /\ 2^(w - 1) = H /\ 2^w = 2 * H /\ t \in {0, 1} /\ hi \in Nat
      /\ LeftWord(v, i, w) = H * t + y /\ LeftWord(v, i + 1, w) = 2 * y
      /\ v \div 2^(w - i) = hi /\ v \div 2^(w - (i + 1)) = 2 * hi + t /\ BitAt(v, w - (i + 1)) = t
      /\ i \in Nat /\ i + 1 # 0 /\ ~(i + 1 > w)
  BY <1>1, <1>2 DEF LeftPieces, IsBit
<1>4. y + 0 \in 0 .. H - 1 /\ y + hi \in 0 .. H - 1 /\ y \in Nat
  <2>1. M \in Nat \ {0} /\ B \in Nat \ {0} /\ lo \in 0 .. B - 1 /\ hi \in 0 .. M - 1 /\ 0 \in 0 .. M - 1
    BY <1>1 DEF LeftPieces
  <2>2. M * lo + hi \in 0 .. M * B - 1 /\ M * lo + 0 \in 0 .. M * B - 1
    BY ONLY <2>1, Below
  <2>3. M * lo \in Nat
    BY ONLY <2>1
  <2> QED BY ONLY <1>2, <2>2, <2>3
<1>5. /\ CarryAfter("SHL", v, c, i + 1, w) = t /\ CarryAfter("ROL", v, c, i + 1, w) = t
  BY <1>3 DEF CarryAfter
<1>6. OneStep("SHL", After("SHL", v, c, i, w), w) = After("SHL", v, c, i + 1, w)
  <2>1. PICK x : x = H * t + y /\ Shifted("SHL", v, i, c, w) = x /\ Shifted("SHL", v, i + 1, c, w) = 2 * y
    BY <1>3, ShiftedForms
  <2>2. (2 * x) % (2 * H) = 2 * y /\ x \div H = t
    <3>1. y \in 0 .. H - 1
      BY ONLY <1>4
    <3> QED BY ONLY <1>3, <2>1, <3>1, LeftStep
  <2>3. RefStep("SHL", x, CarryAfter("SHL", v, c, i, w), w) = <<2 * y, t>>
    BY <1>3, <2>2, StepForms
  <2> QED BY <1>5, <2>1, <2>3, StepsOf DEF After
<1>7. OneStep("ROL", After("ROL", v, c, i, w), w) = After("ROL", v, c, i + 1, w)
  <2>1. PICK x, z : /\ z = y + hi /\ z \in 0 .. H - 1 /\ x = H * t + z
                    /\ Shifted("ROL", v, i, c, w) = x /\ Shifted("ROL", v, i + 1, c, w) = 2 * z + t
    <3>1. PICK z : z = y + hi /\ z \in 0 .. H - 1
      BY <1>4
    <3>2. (H * t + y) + hi = H * t + z /\ 2 * y + (2 * hi + t) = 2 * z + t
      BY ONLY <1>3, <1>4, <3>1
    <3>3. Shifted("ROL", v, i, c, w) = (H * t + y) + hi
          /\ Shifted("ROL", v, i + 1, c, w) = 2 * y + (2 * hi + t)
      BY <1>3, ShiftedForms
    <3> QED BY ONLY <3>1, <3>2, <3>3
  <2>2. (2 * x) % (2 * H) = 2 * z /\ x \div H = t
    BY ONLY <1>3, <2>1, LeftStep
  <2>3. RefStep("ROL", x, CarryAfter("ROL", v, c, i, w), w) = <<2 * z + t, t>>
    BY <1>3, <2>2, StepForms
  <2> QED BY <1>5, <2>1, <2>3, StepsOf DEF After
<1> QED BY <1>6, <1>7

\* RCL, up to the step that puts the first carry at the top of the word.
LEMMA RotateLeftStep ==
  ASSUME NEW v, NEW w, NEW i, IsBit(v, w, i), NEW c \in {0, 1}
  PROVE  OneStep("RCL", After("RCL", v, c, i, w), w) = After("RCL", v, c, i + 1, w)
<1>1. PICK M, B, hi, t, lo : LeftPieces(v, w, i, M, B, hi, t, lo)
  BY CutLeft
<1>2. PICK H, y : H = M * B /\ y = M * lo
  OBVIOUS
<1>3. /\ H \in Nat \ {0} /\ 2^(w - 1) = H /\ 2^w = 2 * H /\ t \in {0, 1} /\ hi \in Nat
      /\ LeftWord(v, i, w) = H * t + y /\ LeftWord(v, i + 1, w) = 2 * y
      /\ v \div 2^(w - i) = hi /\ v \div 2^(w - (i + 1)) = 2 * hi + t /\ BitAt(v, w - (i + 1)) = t
      /\ i \in Nat /\ i + 1 # 0 /\ ~(i + 1 > w) /\ (i + 1) - 1 = i /\ w + 1 - (i + 1) = w - i
      /\ M \in Nat \ {0} /\ B \in Nat \ {0} /\ lo \in 0 .. B - 1 /\ hi \in 0 .. M - 1
      /\ 2^i = M
  BY <1>1, <1>2 DEF LeftPieces, IsBit
<1>4. y \in Nat
  BY ONLY <1>2, <1>3
<1>5. CarryAfter("RCL", v, c, i + 1, w) = t
  BY <1>3 DEF CarryAfter
<1>6. Shifted("RCL", v, i + 1, c, w) = 2 * y + c * M + hi
  BY <1>3, ShiftedForms DEF CarryBit
<1>7. PICK z, e : /\ z \in 0 .. M - 1 /\ 2 * z + e = c * M + hi /\ e = CarryAfter("RCL", v, c, i, w)
                  /\ e \in {0, 1} /\ Shifted("RCL", v, i, c, w) = (H * t + y) + z
  <2>1. CASE i = 0
    <3>1. M = 1 /\ hi = 0 /\ CarryAfter("RCL", v, c, i, w) = c
      BY <1>3, <2>1, PowerValues DEF CarryAfter
    <3>2. v \div 2^(w + 1 - i) = 0
      <4>1. PICK k, Q : k = w + 1 - i /\ Q = 2^k
        OBVIOUS
      <4>2. (w = 8 /\ k = 9) \/ (w = 16 /\ k = 17)
        BY <2>1, <4>1 DEF IsBit
      <4>3. k = 17 => 2^k = 131072
        OBVIOUS
      <4>4. (2^w = 256 /\ Q = 512) \/ (2^w = 65536 /\ Q = 131072)
        BY ONLY <4>1, <4>2, <4>3, PowerValues
      <4>5. v \in 0 .. 2^w - 1
        BY DEF IsBit
      <4>6. v \div Q = 0
        BY ONLY <4>4, <4>5
      <4> QED BY ONLY <4>1, <4>6
    <3>3. Shifted("RCL", v, i, c, w) = (H * t + y) + 0 + 0
      BY <1>3, <2>1, <3>2, ShiftedForms DEF CarryBit
    <3>4. Shifted("RCL", v, i, c, w) = (H * t + y) + 0
      BY ONLY <1>3, <1>4, <3>3
    <3>5. 0 \in 0 .. M - 1 /\ 2 * 0 + c = c * M + hi
      BY ONLY <3>1, c \in {0, 1}
    <3> QED BY ONLY <3>1, <3>4, <3>5, c \in {0, 1}
  <2>2. CASE i # 0
    <3>1. PICK N : N \in Nat \ {0} /\ 2^(i - 1) = N /\ M = 2 * N
      <4>1. i \in 0 .. 16 /\ i > 0 /\ i - 1 \in 0 .. 16
        BY <2>2 DEF IsBit
      <4> QED BY <1>3, <4>1, PowerDoubles
    <3>2. PICK k \in Nat : k = i - 1 /\ k + 1 = i /\ k < w - 1
      BY <1>3, <2>2 DEF IsBit
    <3>3. PICK h, e : h = hi \div 2 /\ e = hi % 2 /\ hi = 2 * h + e /\ e \in {0, 1} /\ h \in 0 .. N - 1
      <4>1. hi = 2 * (hi \div 2) + (hi % 2) /\ hi % 2 \in {0, 1} /\ hi \div 2 \in Nat
        BY ONLY <1>3
      <4>2. hi \div 2 < N
        BY ONLY <1>3, <3>1, <4>1
      <4> QED BY ONLY <4>1, <4>2, <3>1
    <3>4. BitAt(v, w - i) = e
      BY <1>3, <3>3 DEF BitAt
    <3>5. CarryAfter("RCL", v, c, i, w) = e
      BY <1>3, <2>2, <3>4 DEF CarryAfter, IsBit
    <3>6. v \div 2^(w + 1 - i) = h
      <4>1. IsBit(v, w, k) /\ w + 1 - i = w - k /\ w - (k + 1) = w - i
        BY <3>2 DEF IsBit
      <4>2. PICK M2, B2, hi2, t2, lo2 : LeftPieces(v, w, k, M2, B2, hi2, t2, lo2)
        BY <4>1, CutLeft
      <4>3. v \div 2^(w + 1 - i) = hi2 /\ hi = 2 * hi2 + t2 /\ t2 \in {0, 1} /\ hi2 \in Nat
        BY <1>3, <4>1, <4>2 DEF LeftPieces
      <4> QED BY ONLY <3>3, <4>3
    <3>7. Shifted("RCL", v, i, c, w) = (H * t + y) + c * N + h
      BY <1>3, <2>2, <3>1, <3>6, ShiftedForms DEF CarryBit
    <3>8. PICK z : z = c * N + h /\ z \in 0 .. M - 1 /\ 2 * z + e = c * M + hi
      <4>1. CASE c = 0
        BY ONLY <1>3, <3>1, <3>3, <4>1
      <4>2. CASE c = 1
        BY ONLY <1>3, <3>1, <3>3, <4>2
      <4> QED BY ONLY <4>1, <4>2, c \in {0, 1}
    <3>9. Shifted("RCL", v, i, c, w) = (H * t + y) + z
      BY ONLY <1>3, <1>4, <3>1, <3>3, <3>7, <3>8, c \in {0, 1}
    <3> QED BY ONLY <3>3, <3>5, <3>8, <3>9
  <2> QED BY <2>1, <2>2
<1>8. PICK u : u = y + z /\ u \in 0 .. H - 1
  BY ONLY <1>2, <1>3, <1>7, Below
<1>9. PICK x : x = H * t + u /\ Shifted("RCL", v, i, c, w) = x
  BY ONLY <1>3, <1>4, <1>7, <1>8
<1>10. (2 * x) % (2 * H) = 2 * u /\ x \div H = t
  <2>1. H \in Nat \ {0} /\ t \in {0, 1} /\ u \in 0 .. H - 1
    BY ONLY <1>3, <1>8
  <2> QED BY ONLY <1>9, <2>1, LeftStep
<1>11. RefStep("RCL", x, e, w) = <<2 * u + e, t>>
  BY <1>3, <1>10, StepForms
<1>12. 2 * u + e = 2 * y + c * M + hi
  <2>1. c * M \in Nat
    BY ONLY <1>3, c \in {0, 1}
  <2> QED BY ONLY <1>3, <1>4, <1>7, <1>8, <2>1
<1> QED BY <1>5, <1>6, <1>7, <1>9, <1>11, <1>12, StepsOf DEF After

\* A word cut above its i lower bits, as shifting it to the right does.
RightPieces(v, w, i, M, B, hi, t, lo) ==
  /\ M \in Nat \ {0} /\ B \in Nat \ {0}
  /\ 2^i = M /\ 2^(w - i) = 2 * B /\ 2^(w - (i + 1)) = B /\ 2^(w - 1) = M * B /\ 2^w = 2 * (M * B)
  /\ hi \in 0 .. B - 1 /\ t \in {0, 1} /\ lo \in 0 .. M - 1
  /\ v = M * (2 * hi + t) + lo
  /\ v % 2^i = lo /\ v % 2^(i + 1) = M * t + lo
  /\ RightWord(v, i, w) = 2 * hi + t /\ RightWord(v, i + 1, w) = hi
  /\ BitAt(v, i) = t /\ i \in Nat /\ w \in Nat /\ i + 1 <= w

\* A word can be cut for a shift to the right.
LEMMA CutRight ==
  ASSUME NEW v, NEW w, NEW i, IsBit(v, w, i)
  PROVE  \E M, B, hi, t, lo : RightPieces(v, w, i, M, B, hi, t, lo)
<1>1. PICK M, B, hi, t, lo : Pieces(v, w, i, M, B, hi, t, lo)
  BY CutAt
<1>2. i \in Nat /\ w \in Nat /\ i + 1 <= w /\ w - (i + 1) = w - 1 - i
  BY DEF IsBit
<1>3. RightWord(v, i, w) = 2 * hi + t
  BY <1>1, <1>2 DEF RightWord, Pieces
<1>4. RightWord(v, i + 1, w) = hi
  <2>1. CASE i + 1 < w
    BY <1>1, <1>2, <2>1 DEF RightWord, Pieces
  <2>2. CASE i + 1 >= w
    <3>1. w - 1 - i = 0
      BY <1>2, <2>2
    <3>2. hi = 0
      BY <1>1, <3>1, PowerValues DEF Pieces
    <3> QED BY <2>2, <3>2 DEF RightWord
  <2> QED BY <1>2, <2>1, <2>2
<1>5. RightPieces(v, w, i, M, B, hi, t, lo)
  BY <1>1, <1>2, <1>3, <1>4 DEF RightPieces, Pieces
<1> QED BY <1>5

\* SHR, ROR and RCR: one step more is a count one larger.
LEMMA ShiftRightStep ==
  ASSUME NEW v, NEW w, NEW i, IsBit(v, w, i), NEW c
  PROVE  OneStep("SHR", After("SHR", v, c, i, w), w) = After("SHR", v, c, i + 1, w)
<1>1. PICK M, B, hi, t, lo : RightPieces(v, w, i, M, B, hi, t, lo)
  BY CutRight
<1>2. /\ t \in {0, 1} /\ hi \in Nat /\ i + 1 # 0 /\ (i + 1) - 1 = i
      /\ RightWord(v, i, w) = 2 * hi + t /\ RightWord(v, i + 1, w) = hi /\ BitAt(v, i) = t
  BY <1>1 DEF RightPieces
<1>3. CarryAfter("SHR", v, c, i + 1, w) = t
  BY <1>2 DEF CarryAfter
<1>4. (2 * hi + t) \div 2 = hi /\ (2 * hi + t) % 2 = t
  BY <1>2, RightStep
<1>5. RefStep("SHR", 2 * hi + t, CarryAfter("SHR", v, c, i, w), w) = <<hi, t>>
  BY <1>4, StepForms
<1>6. Shifted("SHR", v, i, c, w) = 2 * hi + t /\ Shifted("SHR", v, i + 1, c, w) = hi
  BY <1>2, ShiftedForms
<1> QED BY <1>3, <1>5, <1>6, StepsOf DEF After

LEMMA RightTurnStep ==
  ASSUME NEW v, NEW w, NEW i, IsBit(v, w, i), NEW c
  PROVE  OneStep("ROR", After("ROR", v, c, i, w), w) = After("ROR", v, c, i + 1, w)
<1>1. PICK M, B, hi, t, lo : RightPieces(v, w, i, M, B, hi, t, lo)
  BY CutRight
<1>2. /\ M \in Nat \ {0} /\ B \in Nat \ {0} /\ 2^i = M /\ 2^(w - i) = 2 * B /\ 2^(w - (i + 1)) = B
      /\ 2^(w - 1) = M * B
      /\ hi \in 0 .. B - 1 /\ t \in {0, 1} /\ lo \in 0 .. M - 1 /\ i + 1 # 0 /\ (i + 1) - 1 = i
      /\ RightWord(v, i, w) = 2 * hi + t /\ RightWord(v, i + 1, w) = hi /\ BitAt(v, i) = t
      /\ v % 2^i = lo /\ v % 2^(i + 1) = M * t + lo /\ i \in Nat /\ w \in Nat
      /\ i - 0 = i /\ (i + 1) - 0 = i + 1 /\ w + 0 - i = w - i /\ w + 0 - (i + 1) = w - (i + 1)
  BY <1>1 DEF RightPieces
<1>3. CarryAfter("ROR", v, c, i + 1, w) = t
  BY <1>2 DEF CarryAfter
<1>4. PICK H, y : H = M * B /\ y = lo * B /\ H \in Nat /\ y \in Nat
  <2>1. M * B \in Nat /\ lo * B \in Nat
    BY ONLY <1>2
  <2> QED BY ONLY <2>1
<1>5. Shifted("ROR", v, i, c, w) = (2 * hi + t) + lo * (2 * B)
  <2>1. AroundBits(v, i, 0, w) = lo * (2 * B)
    <3>1. CASE i = 0
      <4>1. M = 1
        BY <1>2, <3>1, PowerValues
      <4>2. lo = 0
        BY ONLY <1>2, <4>1
      <4>3. lo * (2 * B) = 0
        BY ONLY <1>2, <4>2
      <4> QED BY ONLY <3>1, <4>3 DEF AroundBits
    <3>2. CASE i # 0
      BY <1>2, <3>2 DEF AroundBits
    <3> QED BY <3>1, <3>2
  <2> QED BY <1>2, <2>1, ShiftedForms
<1>6. Shifted("ROR", v, i + 1, c, w) = hi + (M * t + lo) * B
  <2>1. AroundBits(v, i + 1, 0, w) = (M * t + lo) * B
    BY <1>2 DEF AroundBits
  <2> QED BY <1>2, <2>1, ShiftedForms
<1>7. PICK z \in Nat : z = hi + y /\ Shifted("ROR", v, i, c, w) = 2 * z + t
                       /\ Shifted("ROR", v, i + 1, c, w) = z + t * H
  <2>1. (2 * hi + t) + lo * (2 * B) = 2 * (hi + lo * B) + t
    BY ONLY <1>2
  <2>2. hi + (M * t + lo) * B = (hi + lo * B) + t * (M * B)
    BY ONLY <1>2
  <2>3. hi + lo * B \in Nat
    BY ONLY <1>2, <1>4
  <2> QED BY ONLY <1>4, <1>5, <1>6, <2>1, <2>2, <2>3
<1>8. (2 * z + t) \div 2 = z /\ (2 * z + t) % 2 = t
  BY <1>2, RightStep
<1>9. RefStep("ROR", 2 * z + t, CarryAfter("ROR", v, c, i, w), w) = <<z + t * H, t>>
  <2>1. PICK x : x = 2 * z + t
    OBVIOUS
  <2>2. RefStep("ROR", x, CarryAfter("ROR", v, c, i, w), w) = <<x \div 2 + (x % 2) * 2^(w - 1), x % 2>>
    BY ONLY StepForms
  <2>3. x \div 2 = z /\ x % 2 = t /\ 2^(w - 1) = H
    BY ONLY <1>2, <1>4, <1>8, <2>1
  <2> QED BY ONLY <2>1, <2>2, <2>3
<1> QED BY <1>3, <1>7, <1>9, StepsOf DEF After

\* RCR, up to the step that puts the first carry at the bottom of the word.
LEMMA RotateRightStep ==
  ASSUME NEW v, NEW w, NEW i, IsBit(v, w, i), NEW c \in {0, 1}
  PROVE  OneStep("RCR", After("RCR", v, c, i, w), w) = After("RCR", v, c, i + 1, w)
<1>1. PICK M, B, hi, t, lo : RightPieces(v, w, i, M, B, hi, t, lo)
  BY CutRight
<1>2. /\ M \in Nat \ {0} /\ B \in Nat \ {0} /\ 2^i = M /\ 2^(w - i) = 2 * B /\ 2^(w - (i + 1)) = B
      /\ 2^(w - 1) = M * B
      /\ hi \in 0 .. B - 1 /\ t \in {0, 1} /\ lo \in 0 .. M - 1 /\ i + 1 # 0 /\ (i + 1) - 1 = i
      /\ RightWord(v, i, w) = 2 * hi + t /\ RightWord(v, i + 1, w) = hi /\ BitAt(v, i) = t
      /\ v % 2^i = lo /\ i \in Nat /\ w \in Nat /\ w + 1 - (i + 1) = w - i
  BY <1>1 DEF RightPieces
<1>3. CarryAfter("RCR", v, c, i + 1, w) = t
  BY <1>2 DEF CarryAfter
<1>4. Shifted("RCR", v, i + 1, c, w) = hi + c * B + lo * (2 * B)
  <2>1. CarryBit(c, i + 1, w - (i + 1)) = c * B
    BY ONLY <1>2 DEF CarryBit
  <2>2. AroundBits(v, i + 1, 1, w) = lo * (2 * B)
    BY ONLY <1>2 DEF AroundBits
  <2>3. Shifted("RCR", v, i + 1, c, w)
          = RightWord(v, i + 1, w) + CarryBit(c, i + 1, w - (i + 1)) + AroundBits(v, i + 1, 1, w)
    BY ONLY ShiftedForms
  <2> QED BY ONLY <1>2, <2>1, <2>2, <2>3
<1>5. PICK z, e : /\ z \in Nat /\ e \in {0, 1} /\ e = CarryAfter("RCR", v, c, i, w)
                  /\ Shifted("RCR", v, i, c, w) = 2 * z + t
                  /\ z + e * (M * B) = hi + c * B + lo * (2 * B)
  <2>1. CASE i = 0
    <3>1. M = 1
      BY <1>2, <2>1, PowerValues
    <3>2. lo = 0
      BY ONLY <1>2, <3>1
    <3>3. hi + c * (M * B) = hi + c * B + lo * (2 * B)
      BY ONLY <1>2, <3>1, <3>2, c \in {0, 1}
    <3>4. Shifted("RCR", v, i, c, w) = (2 * hi + t) + 0 + 0
      BY <1>2, <2>1, ShiftedForms DEF CarryBit, AroundBits
    <3>5. Shifted("RCR", v, i, c, w) = 2 * hi + t /\ hi \in Nat
      BY ONLY <1>2, <3>4
    <3>6. CarryAfter("RCR", v, c, i, w) = c
      BY <2>1 DEF CarryAfter
    <3> QED BY ONLY <3>3, <3>5, <3>6, c \in {0, 1}
  <2>2. CASE i # 0
    <3>1. PICK k \in Nat : k = i - 1 /\ k + 1 = i /\ w + 1 - i = w - k /\ IsBit(v, w, k)
      BY <1>2, <2>2 DEF IsBit
    <3>2. PICK N, B2, h, e, l : RightPieces(v, w, k, N, B2, h, e, l)
      BY <3>1, CutRight
    <3>3. /\ N \in Nat \ {0} /\ 2^k = N /\ 2^(w + 1 - i) = 2 * B2 /\ 2 * B = B2
          /\ e \in {0, 1} /\ l \in 0 .. N - 1 /\ v % 2^(i - 1) = l /\ lo = N * e + l
          /\ BitAt(v, i - 1) = e
      BY <1>2, <3>1, <3>2 DEF RightPieces
    <3>4. M = 2 * N
      <4>1. k \in 0 .. 16 /\ k < 16
        BY <3>1 DEF IsBit
      <4> QED BY <1>2, <3>1, <3>3, <4>1, PowerDoubles
    <3>5. CarryAfter("RCR", v, c, i, w) = e
      BY <2>2, <3>3 DEF CarryAfter
    <3>6. Shifted("RCR", v, i, c, w) = (2 * hi + t) + c * (2 * B) + l * (2 * (2 * B))
      BY <1>2, <2>2, <3>3, ShiftedForms DEF CarryBit, AroundBits
    <3>7. PICK z : z = hi + c * B + l * (2 * B) /\ z \in Nat
      <4>1. l * (2 * B) \in Nat /\ c * B \in Nat
        BY ONLY <1>2, <3>3, c \in {0, 1}
      <4> QED BY ONLY <1>2, <4>1
    <3>8. (2 * hi + t) + c * (2 * B) + l * (2 * (2 * B)) = 2 * z + t
      <4>1. PICK p, q \in Nat : p = c * B /\ q = l * (2 * B)
        BY ONLY <1>2, <3>3, c \in {0, 1}
      <4>2. c * (2 * B) = 2 * p /\ l * (2 * (2 * B)) = 2 * q
        BY ONLY <1>2, <3>3, <4>1, c \in {0, 1}
      <4>3. z = hi + p + q
        BY ONLY <3>7, <4>1
      <4> QED BY ONLY <1>2, <4>1, <4>2, <4>3
    <3>9. z + e * (M * B) = hi + c * B + lo * (2 * B)
      <4>1. lo * (2 * B) = e * (M * B) + l * (2 * B)
        <5>1. (N * e + l) * (2 * B) = e * ((2 * N) * B) + l * (2 * B)
          BY ONLY <1>2, <3>3
        <5> QED BY ONLY <3>3, <3>4, <5>1
      <4>2. PICK p, q, r \in Nat : p = c * B /\ q = l * (2 * B) /\ r = e * (M * B)
        BY ONLY <1>2, <3>3, c \in {0, 1}
      <4> QED BY ONLY <1>2, <3>7, <4>1, <4>2
    <3> QED BY ONLY <3>3, <3>5, <3>6, <3>7, <3>8, <3>9
  <2> QED BY <2>1, <2>2
<1>6. (2 * z + t) \div 2 = z /\ (2 * z + t) % 2 = t
  BY <1>2, <1>5, RightStep
<1>7. RefStep("RCR", 2 * z + t, e, w) = <<z + e * (M * B), t>>
  <2>1. PICK x : x = 2 * z + t
    OBVIOUS
  <2>2. RefStep("RCR", x, e, w) = <<x \div 2 + e * 2^(w - 1), x % 2>>
    BY ONLY StepForms
  <2>3. x \div 2 = z /\ x % 2 = t /\ 2^(w - 1) = M * B
    BY ONLY <1>2, <1>6, <2>1
  <2> QED BY ONLY <2>1, <2>2, <2>3
<1> QED BY <1>3, <1>4, <1>5, <1>7, StepsOf DEF After

\* The copies of the sign that SAR shifts in.
LEMMA SignAt ==
  ASSUME NEW v, NEW w, NEW i, IsBit(v, w, i)
  PROVE  /\ SignBits(v, i, w) = IF BitAt(v, w - 1) = 1 THEN 2^w - 2^(w - i) ELSE 0
         /\ SignBits(v, i + 1, w) = IF BitAt(v, w - 1) = 1 THEN 2^w - 2^(w - (i + 1)) ELSE 0
<1>1. ASSUME NEW k, IsBit(v, w, k)
      PROVE  SignBits(v, k, w) = IF BitAt(v, w - 1) = 1 THEN 2^w - 2^(w - k) ELSE 0
  <2>1. PICK M, B, hi, t, lo : RightPieces(v, w, k, M, B, hi, t, lo)
    BY <1>1, CutRight
  <2>2. /\ M \in Nat \ {0} /\ B \in Nat \ {0} /\ 2^k = M /\ 2^(w - k) = 2 * B /\ 2^w = 2 * (M * B)
        /\ ~(k >= w)
    BY <2>1 DEF RightPieces
  <2>3. (M * (2 * B - 1) + (M - 1)) \div M = 2 * B - 1
    <3>1. PICK q, r : q = 2 * B - 1 /\ r = M - 1 /\ q \in Int /\ r \in 0 .. M - 1
      BY ONLY <2>2
    <3>2. (M * q + r) \div M = q
      BY ONLY <2>2, <3>1, Quotient
    <3> QED BY ONLY <3>1, <3>2
  <2>4. M * (2 * B - 1) + (M - 1) = 2 * (M * B) - 1
    BY ONLY <2>2
  <2>5. PICK p : p = M * B /\ p \in Nat
    BY ONLY <2>2
  <2>6. (2 * p - 1) \div M = 2 * B - 1
    BY ONLY <2>3, <2>4, <2>5
  <2>7. 2^w - 1 - (2^w - 1) \div 2^k = 2^w - 2^(w - k)
    BY ONLY <2>2, <2>5, <2>6
  <2> QED BY ONLY <2>2, <2>7 DEF SignBits
<1>2. SignBits(v, i + 1, w) = IF BitAt(v, w - 1) = 1 THEN 2^w - 2^(w - (i + 1)) ELSE 0
  <2>1. CASE i + 1 < w
    <3>1. IsBit(v, w, i + 1)
      BY <2>1 DEF IsBit
    <3> QED BY <1>1, <3>1
  <2>2. CASE i + 1 >= w
    <3>1. w - (i + 1) = 0
      BY <2>2 DEF IsBit
    <3>2. 2^(w - (i + 1)) = 1
      BY <3>1, PowerValues
    <3>3. 2^w - 1 - 0 = 2^w - 1
      <4>1. 2^w \in Int
        <5>1. w \in 0 .. 16
          BY DEF IsBit
        <5> QED BY <5>1, PowerDoubles
      <4> QED BY <4>1
    <3> QED BY ONLY <2>2, <3>2, <3>3 DEF SignBits
  <2>3. i \in Nat /\ w \in Nat
    BY DEF IsBit
  <2> QED BY <2>1, <2>2, <2>3
<1> QED BY <1>1, <1>2

\* The sign of a word.
LEMMA SignOf ==
  ASSUME NEW v, NEW w, w \in {8, 16}, v \in 0 .. 2^w - 1
  PROVE  \E H : /\ H \in Nat /\ H >= 128 /\ 2^(w - 1) = H /\ 2^w = 2 * H /\ v \in 0 .. 2 * H - 1
                /\ BitAt(v, w - 1) = (IF v >= H THEN 1 ELSE 0)
                /\ 2^(w - 2) \in Nat \ {0} /\ H = 2 * 2^(w - 2)
<1>1. PICK P, H, m : Width(w, P, H, m)
  BY Widths
<1>2. P = 2 * H /\ H \in Nat /\ H >= 128 /\ 2^w = P /\ 2^(w - 1) = H /\ v \in 0 .. P - 1
      /\ BitAt(v, w - 1) = (IF v >= H THEN 1 ELSE 0)
  BY <1>1, WidthFacts, TopBit
<1>3. 2^(w - 2) \in Nat \ {0} /\ 2^(w - 1) = 2 * 2^(w - 2)
  <2>1. w - 1 \in 0 .. 16 /\ w - 2 \in 0 .. 16 /\ w - 1 > 0 /\ (w - 1) - 1 = w - 2
    OBVIOUS
  <2> QED BY <2>1, PowerDoubles
<1> QED BY <1>2, <1>3

\* SAR: one step more is a count one larger.
LEMMA SignedRightStep ==
  ASSUME NEW v, NEW w, NEW i, IsBit(v, w, i), NEW c
  PROVE  OneStep("SAR", After("SAR", v, c, i, w), w) = After("SAR", v, c, i + 1, w)
<1>1. PICK M, B, hi, t, lo : RightPieces(v, w, i, M, B, hi, t, lo)
  BY CutRight
<1>2. /\ M \in Nat \ {0} /\ B \in Nat \ {0} /\ 2^(w - i) = 2 * B /\ 2^(w - (i + 1)) = B
      /\ 2^(w - 1) = M * B /\ 2^w = 2 * (M * B) /\ v = M * (2 * hi + t) + lo
      /\ hi \in 0 .. B - 1 /\ t \in {0, 1} /\ lo \in 0 .. M - 1 /\ i + 1 # 0 /\ (i + 1) - 1 = i
      /\ RightWord(v, i, w) = 2 * hi + t /\ RightWord(v, i + 1, w) = hi /\ BitAt(v, i) = t
      /\ i \in Nat /\ w \in Nat /\ i + 1 <= w
  BY <1>1 DEF RightPieces
<1>3. CarryAfter("SAR", v, c, i + 1, w) = t
  <2>1. i + 1 >= w => i = w - 1
    BY <1>2
  <2> QED BY <1>2, <2>1 DEF CarryAfter
<1>4. PICK H : H = M * B /\ H \in Nat /\ H >= B /\ H > 0
  BY ONLY <1>2
<1>5. PICK s \in {0, 1} : s = BitAt(v, w - 1) /\ (s = 1 <=> v >= H)
  <2>1. w \in {8, 16} /\ v \in 0 .. 2^w - 1
    BY DEF IsBit
  <2>2. PICK G : G \in Nat /\ 2^(w - 1) = G /\ BitAt(v, w - 1) = (IF v >= G THEN 1 ELSE 0)
    BY ONLY <2>1, SignOf
  <2> QED BY <1>2, <1>4, <2>2
<1>6. PICK z : z = 2 * hi + t /\ z \in Nat /\ z <= 2 * B - 1 /\ (s = 1 => z >= B) /\ (s = 0 => z < B)
  <2>1. PICK z : z = 2 * hi + t /\ z \in Nat /\ z <= 2 * B - 1 /\ v = M * z + lo
    BY <1>2
  <2>2. z <= B - 1 => M * z <= M * B - M
    BY ONLY <1>2, <2>1
  <2>3. z >= B => M * z >= M * B
    BY ONLY <1>2, <2>1
  <2>4. PICK p \in Nat : p = M * z
    BY ONLY <1>2, <2>1
  <2> QED BY ONLY <1>2, <1>4, <1>5, <2>1, <2>2, <2>3, <2>4
<1>7. PICK x, r : /\ x \in Nat /\ r \in Nat /\ x \div 2 + s * H = r /\ x % 2 = t /\ x \div H = s
                  /\ Shifted("SAR", v, i, c, w) = x /\ Shifted("SAR", v, i + 1, c, w) = r
  <2>1. CASE s = 0
    <3>1. Shifted("SAR", v, i, c, w) = z + 0 /\ Shifted("SAR", v, i + 1, c, w) = hi + 0
      BY <1>2, <1>5, <1>6, <2>1, SignAt, ShiftedForms
    <3>2. z \div 2 = hi /\ z % 2 = t /\ z \div H = 0
      BY ONLY <1>2, <1>4, <1>6, <2>1
    <3> QED BY ONLY <1>2, <1>4, <1>6, <2>1, <3>1, <3>2
  <2>2. CASE s = 1
    <3>1. Shifted("SAR", v, i, c, w) = z + (2 * H - 2 * B) /\ Shifted("SAR", v, i + 1, c, w) = hi + (2 * H - B)
      BY <1>2, <1>4, <1>5, <1>6, <2>2, SignAt, ShiftedForms
    <3>2. PICK x : x = z + (2 * H - 2 * B) /\ x = 2 * (hi + H - B) + t
      BY ONLY <1>2, <1>4, <1>6
    <3>3. x \div 2 = hi + H - B /\ x % 2 = t /\ x \in H .. 2 * H - 1
      BY ONLY <1>2, <1>4, <1>6, <2>2, <3>2
    <3>4. x \div H = 1
      BY ONLY <1>4, <3>3
    <3>5. hi + H - B + 1 * H = hi + (2 * H - B) /\ x \in Nat /\ hi + (2 * H - B) \in Nat
      BY ONLY <1>2, <1>4, <3>3
    <3> QED BY ONLY <2>2, <3>1, <3>2, <3>3, <3>4, <3>5
  <2> QED BY <2>1, <2>2
<1>8. RefStep("SAR", x, CarryAfter("SAR", v, c, i, w), w) = <<r, t>>
  <2>1. RefStep("SAR", x, CarryAfter("SAR", v, c, i, w), w)
          = <<x \div 2 + (x \div 2^(w - 1)) * 2^(w - 1), x % 2>>
    BY ONLY StepForms
  <2>2. 2^(w - 1) = H
    BY ONLY <1>2, <1>4
  <2> QED BY ONLY <1>7, <2>1, <2>2
<1> QED BY <1>3, <1>7, <1>8, StepsOf DEF After

\* Bits above a word are zero.
LEMMA HighPowers ==
  ASSUME NEW i \in Nat
  PROVE  /\ i = 17 => 2^i = 131072
         /\ i = 18 => 2^i = 262144
         /\ i = 19 => 2^i = 524288
         /\ i = 20 => 2^i = 1048576
         /\ i = 21 => 2^i = 2097152
         /\ i = 22 => 2^i = 4194304
         /\ i = 23 => 2^i = 8388608
         /\ i = 24 => 2^i = 16777216
         /\ i = 25 => 2^i = 33554432
         /\ i = 26 => 2^i = 67108864
         /\ i = 27 => 2^i = 134217728
         /\ i = 28 => 2^i = 268435456
         /\ i = 29 => 2^i = 536870912
         /\ i = 30 => 2^i = 1073741824
<1>1. i = 17 => 2^i = 131072
  OBVIOUS
<1>2. i = 18 => 2^i = 262144
  OBVIOUS
<1>3. i = 19 => 2^i = 524288
  OBVIOUS
<1>4. i = 20 => 2^i = 1048576
  OBVIOUS
<1>5. i = 21 => 2^i = 2097152
  OBVIOUS
<1>6. i = 22 => 2^i = 4194304
  OBVIOUS
<1>7. i = 23 => 2^i = 8388608
  OBVIOUS
<1>8. i = 24 => 2^i = 16777216
  OBVIOUS
<1>9. i = 25 => 2^i = 33554432
  OBVIOUS
<1>10. i = 26 => 2^i = 67108864
  OBVIOUS
<1>11. i = 27 => 2^i = 134217728
  OBVIOUS
<1>12. i = 28 => 2^i = 268435456
  OBVIOUS
<1>13. i = 29 => 2^i = 536870912
  OBVIOUS
<1>14. i = 30 => 2^i = 1073741824
  OBVIOUS
<1> QED BY <1>1, <1>2, <1>3, <1>4, <1>5, <1>6, <1>7, <1>8, <1>9, <1>10, <1>11, <1>12, <1>13, <1>14

IsAbove(v, w, i) == w \in {8, 16} /\ v \in 0 .. 2^w - 1 /\ i \in w .. 30

\* A word has no bits above its width.
LEMMA HighBits ==
  ASSUME NEW v, NEW w, NEW i, IsAbove(v, w, i)
  PROVE  BitAt(v, i) = 0
<1>0. w \in {8, 16} /\ v \in 0 .. 2^w - 1 /\ i \in w .. 30
  BY DEF IsAbove
<1>1. PICK p : p = 2^i /\ p \in Nat \ {0} /\ (w = 8 => p >= 256) /\ (w = 16 => p >= 65536)
  <2>1. i \in {8, 9, 10, 11, 12, 13, 14, 15, 16} \/ i \in {17, 18, 19, 20, 21, 22, 23}
          \/ i \in {24, 25, 26, 27, 28, 29, 30}
    BY <1>0
  <2>2. CASE i \in {8, 9, 10, 11, 12, 13, 14, 15, 16}
    BY <1>0, <2>2, PowerValues
  <2>3. CASE i \in {17, 18, 19, 20, 21, 22, 23}
    BY <2>3, HighPowers
  <2>4. CASE i \in {24, 25, 26, 27, 28, 29, 30}
    BY <2>4, HighPowers
  <2> QED BY <1>0, <2>1, <2>2, <2>3, <2>4
<1>2. (w = 8 => 2^w = 256) /\ (w = 16 => 2^w = 65536)
  BY PowerValues
<1>3. v \in Nat /\ v < p
  BY <1>0, <1>1, <1>2
<1>4. v \div p = 0
  BY ONLY <1>1, <1>3
<1> QED BY ONLY <1>1, <1>4 DEF BitAt

\* A shift of the width and more leaves zeros, or copies of the sign.
LEMMA EmptyStep ==
  ASSUME NEW v, NEW w, NEW i, NEW c, IsAbove(v, w, i)
  PROVE  /\ OneStep("SHL", After("SHL", v, c, i, w), w) = After("SHL", v, c, i + 1, w)
         /\ OneStep("SHR", After("SHR", v, c, i, w), w) = After("SHR", v, c, i + 1, w)
         /\ OneStep("SAR", After("SAR", v, c, i, w), w) = After("SAR", v, c, i + 1, w)
<1>1. i >= w /\ i + 1 >= w /\ i + 1 > w /\ i + 1 # 0 /\ (i + 1) - 1 = i
  BY DEF IsAbove
<1>2. PICK H : H \in Nat /\ H >= 128 /\ 2^(w - 1) = H /\ 2^w = 2 * H
               /\ BitAt(v, w - 1) = (IF v >= H THEN 1 ELSE 0)
  <2>1. w \in {8, 16} /\ v \in 0 .. 2^w - 1
    BY DEF IsAbove
  <2> QED BY ONLY <2>1, SignOf
<1>3. PICK s \in {0, 1} : s = BitAt(v, w - 1)
  BY <1>2
<1>4. /\ Shifted("SHL", v, i, c, w) = 0 /\ Shifted("SHL", v, i + 1, c, w) = 0
      /\ Shifted("SHR", v, i, c, w) = 0 /\ Shifted("SHR", v, i + 1, c, w) = 0
  BY <1>1, ShiftedForms DEF LeftWord, RightWord
<1>5. PICK x : /\ x = (IF s = 1 THEN 2 * H - 1 ELSE 0)
               /\ Shifted("SAR", v, i, c, w) = x /\ Shifted("SAR", v, i + 1, c, w) = x
  <2>1. /\ SignBits(v, i, w) = IF s = 1 THEN 2 * H - 1 - 0 ELSE 0
        /\ SignBits(v, i + 1, w) = IF s = 1 THEN 2 * H - 1 - 0 ELSE 0
    BY <1>1, <1>2, <1>3 DEF SignBits
  <2>2. RightWord(v, i, w) = 0 /\ RightWord(v, i + 1, w) = 0
    BY <1>1 DEF RightWord
  <2> QED BY <1>2, <2>1, <2>2, ShiftedForms
<1>6. /\ CarryAfter("SHL", v, c, i + 1, w) = 0 /\ CarryAfter("SHR", v, c, i + 1, w) = 0
      /\ CarryAfter("SAR", v, c, i + 1, w) = s
  <2>1. BitAt(v, i) = 0
    BY HighBits
  <2>2. CarryAfter("SHL", v, c, i + 1, w) = 0
    BY ONLY <1>1 DEF CarryAfter
  <2>3. CarryAfter("SHR", v, c, i + 1, w) = BitAt(v, i)
    BY ONLY <1>1 DEF CarryAfter
  <2>4. CarryAfter("SAR", v, c, i + 1, w) = s
    BY ONLY <1>1, <1>3 DEF CarryAfter
  <2> QED BY ONLY <2>1, <2>2, <2>3, <2>4
<1>7. /\ RefStep("SHL", 0, CarryAfter("SHL", v, c, i, w), w) = <<0, 0>>
      /\ RefStep("SHR", 0, CarryAfter("SHR", v, c, i, w), w) = <<0, 0>>
  <2>1. (2 * 0) % (2 * H) = 0 /\ 0 \div H = 0 /\ 0 \div 2 = 0 /\ 0 % 2 = 0
    BY <1>2
  <2> QED BY <1>2, <2>1, StepForms
<1>8. RefStep("SAR", x, CarryAfter("SAR", v, c, i, w), w) = <<x, s>>
  <2>1. RefStep("SAR", x, CarryAfter("SAR", v, c, i, w), w)
          = <<x \div 2 + (x \div 2^(w - 1)) * 2^(w - 1), x % 2>>
    BY ONLY StepForms
  <2>2. x \div 2 + (x \div H) * H = x /\ x % 2 = s
    <3>1. CASE s = 0
      BY ONLY <1>2, <1>5, <3>1
    <3>2. CASE s = 1
      <4>1. x = 2 * H - 1 /\ x \in H .. 2 * H - 1
        BY ONLY <1>2, <1>5, <3>2
      <4>2. x \div H = 1 /\ x \div 2 = H - 1 /\ x % 2 = 1
        BY ONLY <1>2, <4>1
      <4> QED BY ONLY <1>2, <3>2, <4>1, <4>2
    <3> QED BY <3>1, <3>2
  <2> QED BY ONLY <1>2, <2>1, <2>2
<1> QED BY <1>4, <1>5, <1>6, <1>7, <1>8, StepsOf DEF After

\* A word of w bits and a carry.
IsOperand(v, w, c) == w \in {8, 16} /\ v \in 0 .. 2^w - 1 /\ c \in {0, 1}

\* A rotate by nothing, and by the width, and the rest of the way round through
\* the carry.
LEMMA Unmoved ==
  ASSUME NEW kind, kind \in Rotates \cup Shifts, NEW v, NEW w, NEW c, IsOperand(v, w, c)
  PROVE  After(kind, v, c, 0, w) = <<v, c>>
<1>0. w \in {8, 16} /\ v \in 0 .. 2^w - 1
  BY DEF IsOperand
<1>1. PICK H : H \in Nat /\ H >= 128 /\ 2^w = 2 * H /\ v \in 0 .. 2 * H - 1
  BY ONLY <1>0, SignOf
<1>2. 2^0 = 1 /\ ~(0 >= w) /\ w - 0 = w /\ w + 1 - 0 = w + 1
  BY <1>0
<1>3. LeftWord(v, 0, w) = v /\ RightWord(v, 0, w) = v
  <2>1. (v * 1) % (2 * H) = v /\ v \div 1 = v
    BY ONLY <1>1
  <2> QED BY ONLY <1>1, <1>2, <2>1 DEF LeftWord, RightWord
<1>4. v \div 2^(w - 0) = 0 /\ v \div 2^(w + 1 - 0) = 0
  <2>1. PICK k, Q : k = w + 1 /\ Q = 2^k
    OBVIOUS
  <2>2. (w = 8 /\ k = 9) \/ (w = 16 /\ k = 17)
    BY <1>0, <2>1
  <2>3. k = 17 => 2^k = 131072
    BY HighPowers
  <2>4. (2^w = 256 /\ Q = 512) \/ (2^w = 65536 /\ Q = 131072)
    BY ONLY <2>1, <2>2, <2>3, PowerValues
  <2>5. v \div Q = 0 /\ v \div 2^w = 0
    BY ONLY <1>0, <2>4
  <2> QED BY ONLY <1>2, <2>1, <2>5
<1>5. SignBits(v, 0, w) = 0
  <2>1. IsBit(v, w, 0)
    BY <1>0 DEF IsBit
  <2>2. 2^w - 2^(w - 0) = 0
    BY <1>1, <1>2
  <2> QED BY ONLY <2>1, <2>2, SignAt
<1>6. CarryBit(c, 0, 0 - 1) = 0 /\ CarryBit(c, 0, w - 0) = 0
      /\ AroundBits(v, 0, 0, w) = 0 /\ AroundBits(v, 0, 1, w) = 0
  BY DEF CarryBit, AroundBits
<1>7. v + 0 = v /\ v + 0 + 0 = v
  BY <1>1
<1>8. Shifted(kind, v, 0, c, w) = v
  <2>1. CASE kind = "ROL"
    BY ONLY <1>3, <1>4, <1>7, <2>1, ShiftedForms
  <2>2. CASE kind = "ROR"
    BY ONLY <1>3, <1>6, <1>7, <2>2, ShiftedForms
  <2>3. CASE kind = "RCL"
    BY ONLY <1>3, <1>4, <1>6, <1>7, <2>3, ShiftedForms
  <2>4. CASE kind = "RCR"
    BY ONLY <1>3, <1>6, <1>7, <2>4, ShiftedForms
  <2>5. CASE kind = "SHL" \/ kind = "SHR"
    BY ONLY <1>3, <2>5, ShiftedForms
  <2>6. CASE kind = "SAR"
    BY ONLY <1>3, <1>5, <1>7, <2>6, ShiftedForms
  <2> QED BY <2>1, <2>2, <2>3, <2>4, <2>5, <2>6 DEF Rotates, Shifts
<1> QED BY <1>8 DEF After, CarryAfter

LEMMA WholeTurns ==
  ASSUME NEW v, NEW w, NEW c, IsOperand(v, w, c)
  PROVE  /\ Shifted("ROL", v, w, c, w) = v /\ Shifted("ROR", v, w, c, w) = v
         /\ OneStep("RCL", After("RCL", v, c, w, w), w) = <<v, c>>
         /\ OneStep("RCR", After("RCR", v, c, w, w), w) = <<v, c>>
<1>0. w \in {8, 16} /\ v \in 0 .. 2^w - 1 /\ c \in {0, 1}
  BY DEF IsOperand
<1>1. PICK H : H \in Nat /\ H >= 128 /\ 2^(w - 1) = H /\ 2^w = 2 * H /\ v \in 0 .. 2 * H - 1
               /\ BitAt(v, w - 1) = (IF v >= H THEN 1 ELSE 0)
  BY ONLY <1>0, SignOf
<1>2. /\ w >= w /\ w # 0 /\ w - w = 0 /\ w + 1 - w = 1 /\ w - 0 = w /\ w + 0 - w = 0 /\ ~(w > w)
      /\ 2^0 = 1 /\ 2^1 = 2
  BY <1>0
<1>3. LeftWord(v, w, w) = 0 /\ RightWord(v, w, w) = 0
  BY <1>2 DEF LeftWord, RightWord
<1>4. v \div 1 = v /\ v % (2 * H) = v /\ v * 1 = v
  BY <1>1
<1>5. Shifted("ROL", v, w, c, w) = v
  <2>1. v \div 2^(w - w) = v
    BY ONLY <1>2, <1>4
  <2>2. Shifted("ROL", v, w, c, w) = 0 + v
    BY ONLY <1>3, <2>1, ShiftedForms
  <2> QED BY ONLY <1>1, <2>2
<1>6. Shifted("ROR", v, w, c, w) = v
  <2>1. AroundBits(v, w, 0, w) = v
    BY ONLY <1>1, <1>2, <1>4 DEF AroundBits
  <2>2. Shifted("ROR", v, w, c, w) = 0 + v
    BY ONLY <1>3, <2>1, ShiftedForms
  <2> QED BY ONLY <1>1, <2>2
<1>7. OneStep("RCL", After("RCL", v, c, w, w), w) = <<v, c>>
  <2>1. PICK h, e : h = v \div 2 /\ e = v % 2 /\ v = 2 * h + e /\ h \in 0 .. H - 1 /\ e \in {0, 1}
    <3>1. v = 2 * (v \div 2) + (v % 2) /\ v % 2 \in {0, 1} /\ v \div 2 \in 0 .. H - 1
      BY ONLY <1>1
    <3> QED BY ONLY <3>1
  <2>2. CarryAfter("RCL", v, c, w, w) = e
    BY <1>2, <1>4, <2>1 DEF CarryAfter, BitAt
  <2>3. Shifted("RCL", v, w, c, w) = 0 + c * H + h
    <3>1. CarryBit(c, w, w - 1) = c * H
      BY ONLY <1>1, <1>2 DEF CarryBit
    <3>2. v \div 2^(w + 1 - w) = h
      BY ONLY <1>2, <2>1
    <3> QED BY ONLY <1>3, <3>1, <3>2, ShiftedForms
  <2>4. PICK x : x = H * c + h /\ x = 0 + c * H + h
    BY ONLY <1>1, <2>1, <1>0
  <2>5. (2 * x) % (2 * H) = 2 * h /\ x \div H = c
    <3>1. H \in Nat \ {0} /\ h \in 0 .. H - 1
      BY ONLY <1>1, <2>1
    <3> QED BY ONLY <2>4, <3>1, LeftStep, <1>0
  <2>6. RefStep("RCL", x, e, w) = <<((2 * x) % 2^w) + e, x \div 2^(w - 1)>>
    BY ONLY StepForms
  <2>7. RefStep("RCL", x, e, w) = <<v, c>>
    BY ONLY <1>1, <2>1, <2>5, <2>6
  <2> QED BY ONLY <2>2, <2>3, <2>4, <2>7, StepsOf
<1>8. OneStep("RCR", After("RCR", v, c, w, w), w) = <<v, c>>
  <2>1. PICK e \in {0, 1}, l \in 0 .. H - 1 : v = e * H + l /\ e = BitAt(v, w - 1) /\ l = v % H
    <3>1. CASE v >= H
      <4>1. v % H = v - H
        BY ONLY <1>1, <3>1
      <4> QED BY ONLY <1>1, <3>1, <4>1
    <3>2. CASE v < H
      <4>1. v % H = v
        BY ONLY <1>1, <3>2
      <4> QED BY ONLY <1>1, <3>2, <4>1
    <3> QED BY <1>1, <3>1, <3>2
  <2>2. CarryAfter("RCR", v, c, w, w) = e
    BY <1>2, <2>1 DEF CarryAfter
  <2>3. Shifted("RCR", v, w, c, w) = 0 + c * 1 + l * 2
    <3>1. CarryBit(c, w, w - w) = c * 1
      BY ONLY <1>2 DEF CarryBit
    <3>2. AroundBits(v, w, 1, w) = l * 2
      BY ONLY <1>1, <1>2, <2>1 DEF AroundBits
    <3> QED BY ONLY <1>3, <3>1, <3>2, ShiftedForms
  <2>4. PICK x : x = 2 * l + c /\ x = 0 + c * 1 + l * 2
    BY ONLY <2>1, <1>0
  <2>5. x \div 2 = l /\ x % 2 = c
    BY ONLY <1>1, <2>1, <2>4, <1>0
  <2>6. RefStep("RCR", x, e, w) = <<x \div 2 + e * 2^(w - 1), x % 2>>
    BY ONLY StepForms
  <2>7. l + e * H = v
    BY ONLY <1>1, <2>1
  <2>8. RefStep("RCR", x, e, w) = <<v, c>>
    BY ONLY <1>1, <2>5, <2>6, <2>7
  <2> QED BY ONLY <2>2, <2>3, <2>4, <2>8, StepsOf
<1> QED BY <1>5, <1>6, <1>7, <1>8

\* Where in a turn of m steps the i-th step ends.
TurnOf(i, m) == IF i = 0 THEN 0 ELSE ((i - 1) % m) + 1

\* One step further in a turn, or in the next one.
LEMMA TurnSteps ==
  ASSUME NEW m \in Nat \ {0}, NEW i \in Nat
  PROVE  /\ TurnOf(i, m) \in 0 .. m /\ TurnOf(0, m) = 0
         /\ TurnOf(i, m) < m => TurnOf(i + 1, m) = TurnOf(i, m) + 1
         /\ TurnOf(i, m) = m => TurnOf(i + 1, m) = 1
         /\ TurnOf(i, m) = i % m \/ (i % m = 0 /\ TurnOf(i, m) = m)
<1>1. i + 1 # 0 /\ (i + 1) - 1 = i
  OBVIOUS
<1>2. TurnOf(i + 1, m) = (i % m) + 1
  BY <1>1 DEF TurnOf
<1>3. CASE i = 0
  <2>1. 0 % m = 0
    OBVIOUS
  <2> QED BY <1>2, <1>3, <2>1 DEF TurnOf
<1>4. CASE i # 0
  <2>1. PICK q, r : i - 1 = m * q + r /\ q \in Int /\ r \in 0 .. m - 1 /\ r = (i - 1) % m
    <3>1. i - 1 \in Int
      OBVIOUS
    <3> QED BY <3>1, Division
  <2>2. TurnOf(i, m) = r + 1 /\ TurnOf(0, m) = 0
    BY <1>4, <2>1 DEF TurnOf
  <2>3. CASE r = m - 1
    <3>1. i = m * (q + 1) + 0
      BY <2>1, <2>3
    <3>2. PICK p \in Int : p = q + 1
      BY <2>1
    <3>3. (m * p + 0) % m = 0
      <4>1. 0 \in 0 .. m - 1
        OBVIOUS
      <4> QED BY ONLY <4>1, Quotient, m \in Nat \ {0}, p \in Int
    <3>4. i % m = 0
      BY <3>1, <3>2, <3>3
    <3> QED BY <1>2, <2>1, <2>2, <2>3, <3>4
  <2>4. CASE r # m - 1
    <3>1. PICK k \in 0 .. m - 1 : k = r + 1
      BY <2>1, <2>4
    <3>2. i = m * q + k
      BY <2>1, <3>1
    <3>3. (m * q + k) % m = k
      BY ONLY Quotient, m \in Nat \ {0}, <2>1, k \in 0 .. m - 1
    <3> QED BY <1>2, <2>1, <2>2, <2>4, <3>1, <3>2, <3>3
  <2> QED BY <2>3, <2>4
<1> QED BY <1>3, <1>4

\* The results s[0], ..., s[m] of a turn of m steps, after which it starts over.
IsTurn(s, kind, v, c, w, m) ==
  /\ m \in Nat \ {0} /\ s[0] = <<v, c>>
  /\ \A j \in 0 .. m - 1 : s[j + 1] = OneStep(kind, s[j], w)
  /\ OneStep(kind, s[m], w) = OneStep(kind, s[0], w)

\* Steps that come round after m of them depend on the count modulo m.
LEMMA TurnsAre ==
  ASSUME NEW kind, NEW v, NEW c, NEW w, NEW s, NEW n \in Nat, NEW m,
         IsTurn(s, kind, v, c, w, m)
  PROVE  RefSteps(kind, v, c, n, w) = s[TurnOf(n, m)]
<1>0. /\ m \in Nat \ {0} /\ s[0] = <<v, c>>
      /\ \A j \in 0 .. m - 1 : s[j + 1] = OneStep(kind, s[j], w)
      /\ OneStep(kind, s[m], w) = OneStep(kind, s[0], w)
  BY DEF IsTurn
<1> DEFINE f == [i \in Nat |-> s[TurnOf(i, m)]]
<1>1. f[0] = <<v, c>>
  BY <1>0, TurnSteps
<1>2. ASSUME NEW i \in 0 .. n - 1 PROVE f[i + 1] = RefStep(kind, f[i][1], f[i][2], w)
  <2>1. i \in Nat /\ i + 1 \in Nat
    OBVIOUS
  <2>2. PICK j : j = TurnOf(i, m) /\ j \in 0 .. m
    BY <1>0, <2>1, TurnSteps
  <2>3. f[i + 1] = OneStep(kind, s[j], w)
    <3>1. CASE j < m
      <4>1. TurnOf(i + 1, m) = j + 1 /\ j \in 0 .. m - 1
        BY <2>1, <2>2, <3>1, <1>0, TurnSteps
      <4> QED BY <1>0, <2>1, <4>1
    <3>2. CASE j = m
      <4>1. TurnOf(i + 1, m) = 0 + 1 /\ 0 \in 0 .. m - 1
        <5>1. TurnOf(i + 1, m) = 1
          BY <2>1, <2>2, <3>2, <1>0, TurnSteps
        <5>2. 0 + 1 = 1 /\ 0 \in 0 .. m - 1
          BY <1>0
        <5> QED BY ONLY <5>1, <5>2
      <4>2. s[0 + 1] = OneStep(kind, s[0], w)
        BY <1>0, <4>1
      <4>3. f[i + 1] = s[TurnOf(i + 1, m)]
        BY <2>1
      <4>4. OneStep(kind, s[j], w) = OneStep(kind, s[0], w)
        BY <1>0, <3>2
      <4> QED BY ONLY <4>1, <4>2, <4>3, <4>4
    <3> QED BY <1>0, <2>2, <3>1, <3>2
  <2>4. f[i] = s[j]
    BY <2>1, <2>2
  <2> QED BY <2>3, <2>4 DEF OneStep
<1>3. RefSteps(kind, v, c, n, w) = f[n]
  <2> HIDE DEF f
  <2> QED BY <1>1, <1>2, StepsAre
<1> QED BY <1>3

\* A word of w bits, a carry, and a number of steps.
IsCounted(v, w, c, n) == w \in {8, 16} /\ v \in 0 .. 2^w - 1 /\ c \in {0, 1} /\ n \in 0 .. 31

\* A shift by n is n steps of one bit; so is a rotate, by the count that is left
\* after whole turns, through the carry or not.
LEMMA ShiftsStep ==
  ASSUME NEW kind, kind \in Shifts, NEW v, NEW w, NEW c, NEW n, IsCounted(v, w, c, n)
  PROVE  RefSteps(kind, v, c, n, w) = After(kind, v, c, n, w)
<1>0. w \in {8, 16} /\ v \in 0 .. 2^w - 1 /\ c \in {0, 1} /\ n \in 0 .. 31
      /\ IsOperand(v, w, c) /\ kind \in Rotates \cup Shifts
  BY DEF IsCounted, IsOperand
<1> DEFINE f == [i \in Nat |-> After(kind, v, c, i, w)]
<1>1. f[0] = <<v, c>>
  BY <1>0, Unmoved
<1>2. ASSUME NEW i \in 0 .. n - 1 PROVE f[i + 1] = RefStep(kind, f[i][1], f[i][2], w)
  <2>1. i \in Nat /\ i + 1 \in Nat /\ (i \in 0 .. w - 1 \/ i \in w .. 30)
    BY <1>0
  <2>2. CASE i \in 0 .. w - 1
    <3>1. IsBit(v, w, i)
      BY <1>0, <2>2 DEF IsBit
    <3>2. OneStep(kind, After(kind, v, c, i, w), w) = After(kind, v, c, i + 1, w)
      BY <3>1, ShiftLeftStep, ShiftRightStep, SignedRightStep DEF Shifts
    <3> QED BY <2>1, <3>2 DEF OneStep
  <2>3. CASE i \in w .. 30
    <3>1. IsAbove(v, w, i)
      BY <1>0, <2>3 DEF IsAbove
    <3>2. OneStep(kind, After(kind, v, c, i, w), w) = After(kind, v, c, i + 1, w)
      BY <3>1, EmptyStep DEF Shifts
    <3> QED BY <2>1, <3>2 DEF OneStep
  <2> QED BY <2>1, <2>2, <2>3
<1>3. n \in Nat /\ f[n] = After(kind, v, c, n, w)
  BY <1>0
<1> HIDE DEF f
<1>4. RefSteps(kind, v, c, n, w) = f[n]
  BY <1>1, <1>2, <1>3, StepsAre
<1> QED BY <1>3, <1>4

LEMMA TurnsStep ==
  ASSUME NEW kind, kind \in {"ROL", "ROR"}, NEW v, NEW w, NEW c, NEW n, IsCounted(v, w, c, n)
  PROVE  /\ RefSteps(kind, v, c, n, w)[1] = Shifted(kind, v, n % w, c, w)
         /\ n % w # 0 => RefSteps(kind, v, c, n, w)[2] = CarryAfter(kind, v, c, n % w, w)
<1>0. w \in {8, 16} /\ v \in 0 .. 2^w - 1 /\ c \in {0, 1} /\ n \in Nat /\ w \in Nat \ {0}
      /\ IsOperand(v, w, c) /\ kind \in Rotates \cup Shifts
  BY DEF IsCounted, IsOperand, Rotates
<1> DEFINE s == [j \in Nat |-> After(kind, v, c, j, w)]
<1>1. s[0] = <<v, c>>
  BY <1>0, Unmoved
<1>2. ASSUME NEW j \in 0 .. w - 1 PROVE s[j + 1] = OneStep(kind, s[j], w)
  <2>1. j \in Nat /\ j + 1 \in Nat /\ IsBit(v, w, j)
    BY <1>0 DEF IsBit
  <2>2. OneStep(kind, After(kind, v, c, j, w), w) = After(kind, v, c, j + 1, w)
    BY <2>1, ShiftLeftStep, RightTurnStep
  <2> QED BY <2>1, <2>2
<1>3. Shifted(kind, v, w, c, w) = v /\ Shifted(kind, v, 0, c, w) = v
  <2>1. After(kind, v, c, 0, w) = <<v, c>>
    BY <1>0, Unmoved
  <2> QED BY <1>0, <2>1, WholeTurns DEF After
<1>4. OneStep(kind, s[w], w) = OneStep(kind, s[0], w)
  <2>1. \A x, a, b : OneStep(kind, <<x, a>>, w) = OneStep(kind, <<x, b>>, w)
    <3>1. ASSUME NEW x, NEW a, NEW b
          PROVE  /\ RefStep("ROL", x, a, w) = RefStep("ROL", x, b, w)
                 /\ RefStep("ROR", x, a, w) = RefStep("ROR", x, b, w)
      BY ONLY StepForms
    <3> QED BY <3>1 DEF OneStep
  <2>2. s[w] = <<v, CarryAfter(kind, v, c, w, w)>>
    BY <1>0, <1>3 DEF After
  <2> QED BY <1>1, <2>1, <2>2
<1>5. \A j \in Nat : s[j] = After(kind, v, c, j, w)
  OBVIOUS
<1> HIDE DEF s
<1>6. RefSteps(kind, v, c, n, w) = s[TurnOf(n, w)]
  <2>1. IsTurn(s, kind, v, c, w, w)
    BY <1>0, <1>1, <1>2, <1>4 DEF IsTurn
  <2> QED BY ONLY <1>0, <2>1, TurnsAre
<1>7. PICK k : k = TurnOf(n, w) /\ k \in Nat /\ (k = n % w \/ (n % w = 0 /\ k = w))
  BY <1>0, TurnSteps
<1>8. RefSteps(kind, v, c, n, w) = After(kind, v, c, k, w)
  BY <1>5, <1>6, <1>7
<1>9. Shifted(kind, v, k, c, w) = Shifted(kind, v, n % w, c, w)
  BY <1>3, <1>7
<1> QED BY <1>7, <1>8, <1>9 DEF After

LEMMA CarryTurnsStep ==
  ASSUME NEW kind, kind \in {"RCL", "RCR"}, NEW v, NEW w, NEW c, NEW n, IsCounted(v, w, c, n)
  PROVE  RefSteps(kind, v, c, n, w) = After(kind, v, c, n % (w + 1), w)
<1>0. w \in {8, 16} /\ v \in 0 .. 2^w - 1 /\ c \in {0, 1} /\ n \in Nat /\ w + 1 \in Nat \ {0}
      /\ w \in Nat /\ w # w + 1 /\ 0 # w + 1 /\ (w + 1) - 1 = w
      /\ IsOperand(v, w, c) /\ kind \in Rotates \cup Shifts
  BY DEF IsCounted, IsOperand, Rotates
<1> DEFINE s == [j \in Nat |-> IF j = w + 1 THEN <<v, c>> ELSE After(kind, v, c, j, w)]
<1>1. s[0] = <<v, c>>
  BY <1>0, Unmoved
<1>2. ASSUME NEW j \in 0 .. (w + 1) - 1 PROVE s[j + 1] = OneStep(kind, s[j], w)
  <2>1. j \in Nat /\ j + 1 \in Nat /\ j # w + 1 /\ (j \in 0 .. w - 1 \/ j = w)
    BY <1>0
  <2>2. s[j] = After(kind, v, c, j, w)
    BY <2>1
  <2>3. CASE j \in 0 .. w - 1
    <3>1. IsBit(v, w, j) /\ j + 1 # w + 1
      BY <1>0, <2>3 DEF IsBit
    <3>2. OneStep(kind, After(kind, v, c, j, w), w) = After(kind, v, c, j + 1, w)
      BY <1>0, <3>1, RotateLeftStep, RotateRightStep
    <3> QED BY <2>1, <2>2, <3>1, <3>2
  <2>4. CASE j = w
    <3>1. OneStep(kind, After(kind, v, c, w, w), w) = <<v, c>>
      BY <1>0, <2>4, WholeTurns
    <3> QED BY <1>0, <2>1, <2>2, <2>4, <3>1
  <2> QED BY <2>1, <2>3, <2>4
<1>3. s[w + 1] = <<v, c>>
  BY <1>0
<1>4. OneStep(kind, s[w + 1], w) = OneStep(kind, s[0], w)
  BY <1>1, <1>3
<1>5. \A j \in Nat : j # w + 1 => s[j] = After(kind, v, c, j, w)
  OBVIOUS
<1> HIDE DEF s
<1>6. RefSteps(kind, v, c, n, w) = s[TurnOf(n, w + 1)]
  <2>1. IsTurn(s, kind, v, c, w, w + 1)
    BY <1>0, <1>1, <1>2, <1>4 DEF IsTurn
  <2> QED BY ONLY <1>0, <2>1, TurnsAre
<1>7. PICK k : k = TurnOf(n, w + 1) /\ k \in Nat /\ (k = n % (w + 1) \/ (n % (w + 1) = 0 /\ k = w + 1))
  BY <1>0, TurnSteps
<1>8. CASE k = w + 1
  <2>1. n % (w + 1) = 0 /\ s[k] = <<v, c>>
    <3>1. n % (w + 1) \in 0 .. w
      <4>1. n \in Int
        BY <1>0
      <4> QED BY <1>0, <4>1, Division
    <3> QED BY <1>0, <1>3, <1>7, <1>8, <3>1
  <2>2. After(kind, v, c, 0, w) = <<v, c>>
    BY <1>0, Unmoved
  <2> QED BY <1>6, <1>7, <2>1, <2>2
<1>9. CASE k # w + 1
  BY <1>5, <1>6, <1>7, <1>9
<1> QED BY <1>8, <1>9

\* Bits of a word and the carry are bits.
LEMMA BitsAreBits ==
  ASSUME NEW v, NEW w, NEW c, NEW n, IsCounted(v, w, c, n), NEW kind
  PROVE  CarryAfter(kind, v, c, n, w) \in {0, 1}
<1>0. w \in {8, 16} /\ v \in 0 .. 2^w - 1 /\ c \in {0, 1} /\ n \in 0 .. 31
  BY DEF IsCounted
<1>1. ASSUME NEW k \in 0 .. w - 1 PROVE BitAt(v, k) \in {0, 1}
  <2>1. IsBit(v, w, k)
    BY <1>0 DEF IsBit
  <2>2. PICK A, B, hi, t, lo : Pieces(v, w, k, A, B, hi, t, lo)
    BY ONLY <2>1, CutAt
  <2> QED BY ONLY <2>2 DEF Pieces
<1>2. ASSUME n # 0 PROVE BitAt(v, n - 1) \in {0, 1}
  <2>1. PICK k : k = n - 1 /\ (k \in 0 .. w - 1 \/ k \in w .. 30)
    BY <1>0, <1>2
  <2>2. CASE k \in 0 .. w - 1
    BY <1>1, <2>1, <2>2
  <2>3. CASE k \in w .. 30
    <3>1. IsAbove(v, w, k)
      BY <1>0, <2>3 DEF IsAbove
    <3> QED BY ONLY <2>1, <3>1, HighBits
  <2> QED BY <2>1, <2>2, <2>3
<1>3. ASSUME n # 0, ~(n > w) PROVE BitAt(v, w - n) \in {0, 1}
  <2>1. w - n \in 0 .. w - 1
    BY <1>0, <1>3
  <2> QED BY <1>1, <2>1
<1>4. BitAt(v, w - 1) \in {0, 1}
  <2>1. w - 1 \in 0 .. w - 1
    BY <1>0
  <2> QED BY <1>1, <2>1
<1> QED BY ONLY <1>0, <1>2, <1>3, <1>4 DEF CarryAfter

\* What ShiftFlags does to CF and OF, by kind.
Marked(flags, cf, of) == Put(Put(flags, "CF", cf = 1), "OF", of = 1)

\* What marking CF and OF leaves.
LEMMA MarkedFlags ==
  ASSUME NEW flags, NEW cf \in {0, 1}, NEW of
  PROVE  /\ Carry(Marked(flags, cf, of)) = cf
         /\ "OF" \in Marked(flags, cf, of) <=> of = 1
         /\ \A f : f \notin {"CF", "OF"} => (f \in Marked(flags, cf, of) <=> f \in flags)
BY DEF Marked, Put, Carry

CarryMark(kind, v, r, n, w) ==
  CASE kind = "ROL" -> r % 2
    [] kind = "ROR" -> BitAt(r, w - 1)
    [] kind \in {"RCL", "SHL"} -> IF n > w THEN 0 ELSE BitAt(v, w - n)
    [] kind \in {"RCR", "SHR"} -> BitAt(v, n - 1)
OverMark(kind, v, r, n, w) ==
  CASE kind = "ROL" -> (BitAt(r, w - 1) + r) % 2
    [] kind \in {"ROR", "RCR"} -> (BitAt(r, w - 1) + BitAt(r, w - 2)) % 2
    [] kind \in {"RCL", "SHL"} -> (BitAt(r, w - 1) + (IF n > w THEN 0 ELSE BitAt(v, w - n))) % 2
    [] kind = "SHR" -> BitAt(v, w - 1)

\* ShiftFlags marks CF and OF.
LEMMA FlagForms ==
  ASSUME NEW kind, kind \in {"ROL", "ROR", "RCL", "RCR", "SHL", "SHR"},
         NEW v, NEW r, NEW n, n # 0, NEW flags, NEW w
  PROVE  ShiftFlags(kind, v, r, n, flags, w)
           = Marked(flags, CarryMark(kind, v, r, n, w), OverMark(kind, v, r, n, w))
<1>1. CASE kind = "ROL"
  BY <1>1 DEF ShiftFlags, Marked, CarryMark, OverMark
<1>2. CASE kind = "ROR"
  BY <1>2 DEF ShiftFlags, Marked, CarryMark, OverMark
<1>3. CASE kind \in {"RCL", "SHL"}
  <2>1. PICK out : out = (IF n > w \/ n = 0 THEN 0 ELSE BitAt(v, w - n))
                   /\ out = (IF n > w THEN 0 ELSE BitAt(v, w - n))
    OBVIOUS
  <2>2. ShiftFlags(kind, v, r, n, flags, w) = Marked(flags, out, (BitAt(r, w - 1) + out) % 2)
    BY <1>3, <2>1 DEF ShiftFlags, Marked
  <2>3. CarryMark(kind, v, r, n, w) = out /\ OverMark(kind, v, r, n, w) = (BitAt(r, w - 1) + out) % 2
    BY <1>3, <2>1 DEF CarryMark, OverMark
  <2> QED BY ONLY <2>2, <2>3
<1>4. CASE kind = "RCR"
  BY <1>4 DEF ShiftFlags, Marked, CarryMark, OverMark
<1>5. CASE kind = "SHR"
  BY <1>5 DEF ShiftFlags, Marked, CarryMark, OverMark
<1> QED BY <1>1, <1>2, <1>3, <1>4, <1>5

\* An arithmetic shift to the right clears OF, even by zero.
LEMMA SignedByNone ==
  ASSUME NEW v, NEW r, NEW n, n = 0, NEW flags, NEW w, ~(n >= w)
  PROVE  ShiftFlags("SAR", v, r, n, flags, w) = Put(flags, "OF", FALSE)
BY DEF ShiftFlags

LEMMA SignedForm ==
  ASSUME NEW v, NEW r, NEW n, n > 0, n # 0, NEW flags, NEW w
  PROVE  ShiftFlags("SAR", v, r, n, flags, w)
           = Marked(flags, IF n >= w THEN BitAt(v, w - 1) ELSE BitAt(v, n - 1), 0)
<1>1. ShiftFlags("SAR", v, r, n, flags, w)
        = Put(IF n >= w THEN Put(flags, "CF", BitAt(v, w - 1) = 1)
              ELSE Put(flags, "CF", BitAt(v, n - 1) = 1), "OF", FALSE)
  BY Zenon DEF ShiftFlags
<1>2. Marked(flags, IF n >= w THEN BitAt(v, w - 1) ELSE BitAt(v, n - 1), 0)
        = Put(IF n >= w THEN Put(flags, "CF", BitAt(v, w - 1) = 1)
              ELSE Put(flags, "CF", BitAt(v, n - 1) = 1), "OF", FALSE)
  BY DEF Marked, Put
<1> QED BY ONLY <1>1, <1>2

\* A rotate leaves the bit it moves last at the end where it comes in again.
LEMMA TurnedBits ==
  ASSUME NEW v, NEW w, NEW i, IsBit(v, w, i), NEW c
  PROVE  /\ Shifted("ROL", v, i + 1, c, w) % 2 = BitAt(v, w - (i + 1))
         /\ BitAt(Shifted("ROR", v, i + 1, c, w), w - 1) = BitAt(v, i)
<1>1. Shifted("ROL", v, i + 1, c, w) % 2 = BitAt(v, w - (i + 1))
  <2>1. PICK M, B, hi, t, lo : LeftPieces(v, w, i, M, B, hi, t, lo)
    BY CutLeft
  <2>2. Shifted("ROL", v, i + 1, c, w) = 2 * (M * lo) + (2 * hi + t) /\ BitAt(v, w - (i + 1)) = t
    BY ONLY <2>1, ShiftedForms DEF LeftPieces
  <2>3. PICK q \in Nat : q = M * lo + hi
    <3>1. M \in Nat /\ lo \in Nat /\ hi \in Nat
      BY ONLY <2>1 DEF LeftPieces
    <3>2. M * lo + hi \in Nat
      BY ONLY <3>1
    <3> QED BY <3>2
  <2>4. 2 * (M * lo) + (2 * hi + t) = 2 * q + t /\ t \in {0, 1}
    <3>1. PICK y \in Nat : y = M * lo
      <4>1. M \in Nat /\ lo \in Nat
        BY ONLY <2>1 DEF LeftPieces
      <4>2. M * lo \in Nat
        BY ONLY <4>1
      <4> QED BY ONLY <4>2
    <3>2. hi \in Nat /\ t \in {0, 1}
      BY ONLY <2>1 DEF LeftPieces
    <3> QED BY ONLY <2>3, <3>1, <3>2
  <2>5. (2 * q + t) % 2 = t
    BY ONLY <2>3, <2>4
  <2> QED BY ONLY <2>2, <2>4, <2>5
<1>2. BitAt(Shifted("ROR", v, i + 1, c, w), w - 1) = BitAt(v, i)
  <2>1. PICK M, B, hi, t, lo : RightPieces(v, w, i, M, B, hi, t, lo)
    BY CutRight
  <2>2. /\ M \in Nat \ {0} /\ B \in Nat \ {0} /\ 2^(w - (i + 1)) = B /\ 2^(w - 1) = M * B
        /\ hi \in 0 .. B - 1 /\ t \in {0, 1} /\ lo \in 0 .. M - 1
        /\ v % 2^(i + 1) = M * t + lo /\ RightWord(v, i + 1, w) = hi /\ BitAt(v, i) = t
        /\ i + 1 # 0 /\ (i + 1) - 0 = i + 1 /\ w + 0 - (i + 1) = w - (i + 1)
    BY <2>1 DEF RightPieces
  <2>3. Shifted("ROR", v, i + 1, c, w) = hi + (M * t + lo) * B
    <3>1. AroundBits(v, i + 1, 0, w) = (M * t + lo) * B
      BY ONLY <2>2 DEF AroundBits
    <3> QED BY ONLY <2>2, <3>1, ShiftedForms
  <2>4. PICK H, y : /\ H = M * B /\ H \in Nat \ {0} /\ y = B * lo + hi /\ y \in 0 .. H - 1
    <3>1. B * lo + hi \in 0 .. B * M - 1
      BY ONLY <2>2, Below
    <3>2. M * B \in Nat \ {0} /\ B * M = M * B
      BY ONLY <2>2
    <3> QED BY ONLY <3>1, <3>2
  <2>5. hi + (M * t + lo) * B = H * t + y
    BY ONLY <2>2, <2>4
  <2>6. (H * t + y) \div H = t
    <3>1. t \in Int
      BY ONLY <2>2
    <3> QED BY ONLY <2>4, <3>1, Quotient
  <2>7. t % 2 = t
    BY ONLY <2>2
  <2> QED BY ONLY <2>2, <2>3, <2>4, <2>5, <2>6, <2>7 DEF BitAt
<1> QED BY <1>1, <1>2

\* The results of the shifts are words.
LEMMA ShiftsFit ==
  ASSUME NEW v, NEW w, NEW c, NEW n, IsCounted(v, w, c, n)
  PROVE  /\ Shifted("SHL", v, n, c, w) \in 0 .. 2^w - 1
         /\ Shifted("SHR", v, n, c, w) \in 0 .. 2^w - 1
         /\ Shifted("SAR", v, n, c, w) \in 0 .. 2^w - 1
<1>0. w \in {8, 16} /\ v \in 0 .. 2^w - 1 /\ c \in {0, 1} /\ n \in 0 .. 31 /\ IsOperand(v, w, c)
  BY DEF IsCounted, IsOperand
<1>1. PICK H : H \in Nat /\ H >= 128 /\ 2^w = 2 * H /\ v \in 0 .. 2 * H - 1
  BY ONLY <1>0, SignOf
<1>2. CASE n = 0
  <2>1. ASSUME NEW kind, kind \in Rotates \cup Shifts PROVE Shifted(kind, v, 0, c, w) = v
    BY ONLY <1>0, <2>1, Unmoved DEF After
  <2>2. /\ "SHL" \in Rotates \cup Shifts /\ "SHR" \in Rotates \cup Shifts
        /\ "SAR" \in Rotates \cup Shifts
    BY DEF Shifts
  <2>3. Shifted("SHL", v, 0, c, w) = v /\ Shifted("SHR", v, 0, c, w) = v /\ Shifted("SAR", v, 0, c, w) = v
    BY ONLY <2>1, <2>2
  <2> QED BY ONLY <1>0, <1>2, <2>3
<1>3. CASE n \in 1 .. w
  <2>1. PICK i : n = i + 1 /\ IsBit(v, w, i)
    <3>1. n = (n - 1) + 1 /\ n - 1 \in 0 .. w - 1
      BY <1>0, <1>3
    <3> QED BY ONLY <1>0, <3>1 DEF IsBit
  <2>2. PICK M, B, hi, t, lo : RightPieces(v, w, i, M, B, hi, t, lo)
    BY ONLY <2>1, CutRight
  <2>3. M \in Nat \ {0} /\ B \in Nat \ {0} /\ 2^(w - n) = B /\ 2^w = 2 * (M * B)
        /\ hi \in 0 .. B - 1 /\ RightWord(v, n, w) = hi
    BY ONLY <2>1, <2>2 DEF RightPieces
  <2>4. B <= H /\ H = M * B
    <3>1. M * B >= B
      BY ONLY <2>3
    <3>2. PICK y \in Nat : y = M * B
      BY ONLY <2>3
    <3> QED BY ONLY <1>1, <2>3, <3>1, <3>2
  <2>5. SignBits(v, n, w) = (IF BitAt(v, w - 1) = 1 THEN 2^w - 2^(w - n) ELSE 0)
    BY ONLY <2>1, SignAt
  <2>6. SignBits(v, n, w) = 0 \/ SignBits(v, n, w) = 2 * H - B
    BY ONLY <1>1, <2>3, <2>5
  <2>7. hi \in 0 .. 2 * H - 1 /\ hi + 0 \in 0 .. 2 * H - 1 /\ hi + (2 * H - B) \in 0 .. 2 * H - 1
    BY ONLY <1>1, <2>3, <2>4
  <2>8. Shifted("SHR", v, n, c, w) = hi /\ Shifted("SAR", v, n, c, w) = hi + SignBits(v, n, w)
    BY ONLY <2>3, ShiftedForms
  <2>9. Shifted("SHL", v, n, c, w) \in 0 .. 2 * H - 1
    <3>1. PICK N, C, hj, s, mo : LeftPieces(v, w, i, N, C, hj, s, mo)
      BY ONLY <2>1, CutLeft
    <3>2. /\ N \in Nat \ {0} /\ C \in Nat \ {0} /\ 2^w = 2 * (N * C) /\ mo \in 0 .. C - 1
          /\ LeftWord(v, n, w) = 2 * (N * mo)
      BY ONLY <2>1, <3>1 DEF LeftPieces
    <3>3. N * mo + 0 \in 0 .. N * C - 1
      <4>1. 0 \in 0 .. N - 1
        BY ONLY <3>2
      <4> QED BY ONLY <3>2, <4>1, Below
    <3>4. PICK y, z : y = N * mo /\ z = N * C /\ y \in Nat /\ z \in Nat
      <4>1. N * mo \in Nat /\ N * C \in Nat
        BY ONLY <3>2
      <4> QED BY ONLY <4>1
    <3>5. 2 * y \in 0 .. 2 * H - 1
      BY ONLY <1>1, <3>2, <3>3, <3>4
    <3>6. Shifted("SHL", v, n, c, w) = 2 * y
      BY ONLY <3>2, <3>4, ShiftedForms
    <3> QED BY ONLY <3>5, <3>6
  <2> QED BY ONLY <1>1, <2>6, <2>7, <2>8, <2>9
<1>4. CASE n > w
  <2>1. n >= w
    BY <1>0, <1>4
  <2>2. LeftWord(v, n, w) = 0 /\ RightWord(v, n, w) = 0
    BY ONLY <2>1 DEF LeftWord, RightWord
  <2>3. SignBits(v, n, w) = 2^w - 1 - 0 \/ SignBits(v, n, w) = 0
    BY ONLY <2>1 DEF SignBits
  <2> QED BY ONLY <1>1, <2>2, <2>3, ShiftedForms
<1> QED BY <1>0, <1>2, <1>3, <1>4

\* What a single step makes of a word with the sign t, the last bit e and the
\* bits l between them; Q is the value of the bit below the sign.
SingleStep(v, w, c, Q, t, l, e) ==
  /\ Q \in Nat \ {0} /\ 2^(w - 2) = Q /\ 2^(w - 1) = 2 * Q /\ 2^w = 4 * Q
  /\ t = BitAt(v, w - 1) /\ t \in {0, 1} /\ l \in 0 .. Q - 1 /\ e \in {0, 1}
  /\ v = Q * (2 * t) + 2 * l + e
  /\ Shifted("ROL", v, 1, c, w) = 2 * (2 * l + e) + t
  /\ Shifted("RCL", v, 1, c, w) = 2 * (2 * l + e) + c
  /\ Shifted("SHL", v, 1, c, w) = 2 * (2 * l + e)
  /\ Shifted("ROR", v, 1, c, w) = Q * (2 * e + t) + l
  /\ Shifted("RCR", v, 1, c, w) = Q * (2 * c + t) + l
  /\ Shifted("SHR", v, 1, c, w) = Q * t + l
  /\ Shifted("SAR", v, 1, c, w) = Q * (2 * t + t) + l

\* Every word has such a sign, last bit and bits between.
LEMMA SingleSteps ==
  ASSUME NEW v, NEW w, NEW c, IsOperand(v, w, c)
  PROVE  \E Q, t, l, e : SingleStep(v, w, c, Q, t, l, e)
<1>0. w \in {8, 16} /\ v \in 0 .. 2^w - 1 /\ c \in {0, 1} /\ ~(1 >= w) /\ w \in Nat
      /\ w + 1 - 1 = w /\ w + 0 - 1 = w - 1 /\ 1 - 0 = 1 /\ 1 - 1 = 0 /\ w + 1 - 1 = w
      /\ 0 + 1 = 1 /\ w - (0 + 1) = w - 1
  BY DEF IsOperand
<1>1. PICK H, Q : /\ H \in Nat /\ H >= 128 /\ Q \in Nat \ {0} /\ H = 2 * Q /\ 2^(w - 2) = Q
                  /\ 2^(w - 1) = H /\ 2^w = 2 * H /\ v \in 0 .. 2 * H - 1
                  /\ BitAt(v, w - 1) = (IF v >= H THEN 1 ELSE 0)
  BY ONLY <1>0, SignOf, ZenonT(40)
<1>2. PICK t, lo : t \in {0, 1} /\ lo \in 0 .. H - 1 /\ v = H * t + lo /\ t = BitAt(v, w - 1)
  <2>1. CASE v >= H
    <3>1. v = H * 1 + (v - H) /\ v - H \in 0 .. H - 1
      BY ONLY <1>1, <2>1
    <3> QED BY ONLY <1>1, <2>1, <3>1
  <2>2. CASE ~(v >= H)
    <3>1. v = H * 0 + v /\ v \in 0 .. H - 1
      BY ONLY <1>1, <2>2
    <3> QED BY ONLY <1>1, <2>2, <3>1
  <2> QED BY ONLY <2>1, <2>2
<1>3. PICK l, e : lo = 2 * l + e /\ e \in {0, 1} /\ l \in 0 .. Q - 1
  <2>1. lo = 2 * (lo \div 2) + (lo % 2) /\ lo % 2 \in {0, 1} /\ lo \div 2 \in 0 .. Q - 1
    BY ONLY <1>1, <1>2
  <2> QED BY ONLY <2>1
<1>4. 2^0 = 1 /\ 2^1 = 2
  BY PowerValues
<1>5. LeftWord(v, 1, w) = 2 * lo
  <2>1. (v * 2) % (2 * H) = 2 * lo
    <3>1. v * 2 = (2 * H) * t + 2 * lo /\ 2 * H \in Nat \ {0} /\ 2 * lo \in 0 .. 2 * H - 1
      BY ONLY <1>1, <1>2
    <3> QED BY ONLY <1>2, <3>1
  <2> QED BY ONLY <1>0, <1>1, <1>4, <2>1 DEF LeftWord
<1>6. RightWord(v, 1, w) = Q * t + l
  <2>1. v \div 2 = Q * t + l
    BY ONLY <1>1, <1>2, <1>3
  <2> QED BY ONLY <1>0, <1>4, <2>1 DEF RightWord
<1>7. v \div 2^(w - 1) = t /\ v \div 2^w = 0 /\ v % 2 = e
  <2>0. H \in Nat /\ H >= 128 /\ lo \in 0 .. H - 1 /\ v = H * t + lo
    <3>1. H \in Nat /\ H >= 128
      BY ONLY <1>1
    <3>2. lo \in 0 .. H - 1 /\ v = H * t + lo
      BY ONLY <1>2
    <3> QED BY ONLY <3>1, <3>2
  <2>1. v % 2 = e
    <3>1. CASE t = 0
      <4>1. v = 2 * l + e
        BY ONLY <1>3, <2>0, <3>1
      <4> QED BY ONLY <1>1, <1>3, <4>1
    <3>2. CASE t = 1
      <4>1. v = 2 * (Q + l) + e
        BY ONLY <1>1, <1>3, <2>0, <3>2
      <4> QED BY ONLY <1>1, <1>3, <4>1
    <3> QED BY ONLY <1>2, <3>1, <3>2
  <2>2. v \div H = t /\ v \div (2 * H) = 0
    <3>1. CASE t = 0
      <4>1. v = lo
        BY ONLY <2>0, <3>1
      <4> QED BY ONLY <2>0, <3>1, <4>1
    <3>2. CASE t = 1
      <4>1. v = H + lo
        BY ONLY <2>0, <3>2
      <4> QED BY ONLY <2>0, <3>2, <4>1
    <3> QED BY ONLY <1>2, <3>1, <3>2
  <2> QED BY ONLY <1>1, <2>1, <2>2
<1>8. SignBits(v, 1, w) = H * t
  <2>1. IsBit(v, w, 0)
    BY <1>0 DEF IsBit
  <2>2. SignBits(v, 0 + 1, w) = (IF t = 1 THEN 2^w - 2^(w - (0 + 1)) ELSE 0)
    BY ONLY <1>2, <2>1, SignAt
  <2> QED BY ONLY <1>0, <1>1, <1>2, <2>2
<1>9. CarryBit(c, 1, 0) = c /\ CarryBit(c, 1, w - 1) = c * H
      /\ AroundBits(v, 1, 0, w) = e * H /\ AroundBits(v, 1, 1, w) = 0
  <2>1. c * 1 = c /\ v % 1 = 0 /\ 0 * 2^w = 0
    BY ONLY <1>0, <1>1
  <2>2. CarryBit(c, 1, 0) = c * 2^0 /\ CarryBit(c, 1, w - 1) = c * 2^(w - 1)
    BY DEF CarryBit
  <2>3. AroundBits(v, 1, 0, w) = (v % 2^(1 - 0)) * 2^(w + 0 - 1)
    BY DEF AroundBits
  <2>4. AroundBits(v, 1, 1, w) = (v % 2^(1 - 1)) * 2^(w + 1 - 1)
    BY DEF AroundBits
  <2> QED BY ONLY <1>0, <1>1, <1>4, <1>7, <2>1, <2>2, <2>3, <2>4
<1>10. /\ Shifted("ROL", v, 1, c, w) = 2 * lo + t
       /\ Shifted("RCL", v, 1, c, w) = 2 * lo + c + 0
       /\ Shifted("SHL", v, 1, c, w) = 2 * lo
       /\ Shifted("ROR", v, 1, c, w) = (Q * t + l) + e * H
       /\ Shifted("RCR", v, 1, c, w) = (Q * t + l) + c * H + 0
       /\ Shifted("SHR", v, 1, c, w) = Q * t + l
       /\ Shifted("SAR", v, 1, c, w) = (Q * t + l) + H * t
  <2>1. Shifted("ROL", v, 1, c, w) = 2 * lo + t
    BY ONLY <1>5, <1>7, ShiftedForms
  <2>2. Shifted("RCL", v, 1, c, w) = 2 * lo + c + 0
    <3>1. Shifted("RCL", v, 1, c, w) = LeftWord(v, 1, w) + CarryBit(c, 1, 1 - 1) + v \div 2^(w + 1 - 1)
      BY ONLY ShiftedForms
    <3> QED BY ONLY <1>0, <1>5, <1>7, <1>9, <3>1
  <2>3. Shifted("ROR", v, 1, c, w) = (Q * t + l) + e * H
    BY ONLY <1>6, <1>9, ShiftedForms
  <2>4. Shifted("RCR", v, 1, c, w) = (Q * t + l) + c * H + 0
    BY ONLY <1>6, <1>9, ShiftedForms
  <2>5. Shifted("SHL", v, 1, c, w) = 2 * lo /\ Shifted("SHR", v, 1, c, w) = Q * t + l
        /\ Shifted("SAR", v, 1, c, w) = (Q * t + l) + H * t
    BY ONLY <1>5, <1>6, <1>8, ShiftedForms
  <2> QED BY ONLY <2>1, <2>2, <2>3, <2>4, <2>5
<1>11. /\ (Q * t + l) + e * H = Q * (2 * e + t) + l
       /\ (Q * t + l) + c * H + 0 = Q * (2 * c + t) + l
       /\ (Q * t + l) + H * t = Q * (2 * t + t) + l
       /\ v = Q * (2 * t) + 2 * l + e /\ 2 * lo + c + 0 = 2 * lo + c /\ 2^w = 4 * Q
  BY ONLY <1>0, <1>1, <1>2, <1>3
<1>12. SingleStep(v, w, c, Q, t, l, e)
  BY ONLY <1>0, <1>1, <1>2, <1>3, <1>10, <1>11 DEF SingleStep
<1> QED BY <1>12

\* CF after a shift or rotate is the bit moved out last.
LEMMA ShiftCarry ==
  ASSUME NEW kind, kind \in Rotates \cup Shifts, NEW v, NEW w, NEW c, NEW n, NEW flags,
         IsCounted(v, w, c, n), n # 0, kind \in {"ROL", "ROR"} => n < w
  PROVE  Carry(ShiftFlags(kind, v, Shifted(kind, v, n, c, w), n, flags, w))
           = CarryAfter(kind, v, c, n, w)
<1>0. n \in Nat /\ w \in Nat /\ (n = 0 => ~(n >= w)) /\ (n < w => ~(n > w)) /\ 0 \in {0, 1}
  BY DEF IsCounted
<1>1. PICK b \in {0, 1} : b = CarryAfter(kind, v, c, n, w)
  BY BitsAreBits
<1>2. PICK r : r = Shifted(kind, v, n, c, w)
  OBVIOUS
<1>3. \A of : Carry(Marked(flags, b, of)) = b
  BY MarkedFlags
<1>4. CASE kind \in {"ROL", "ROR"}
  <2>1. PICK i : n = i + 1 /\ i = n - 1 /\ IsBit(v, w, i)
    <3>1. n = (n - 1) + 1 /\ n - 1 \in 0 .. w - 1 /\ w \in {8, 16} /\ v \in 0 .. 2^w - 1
      BY <1>4 DEF IsCounted
    <3> QED BY ONLY <3>1 DEF IsBit
  <2>2. CASE kind = "ROL"
    <3>1. r % 2 = BitAt(v, w - n)
      BY ONLY <1>2, <2>1, <2>2, TurnedBits
    <3>2. CarryAfter("ROL", v, c, n, w) = BitAt(v, w - n)
      BY <1>0, <2>2 DEF CarryAfter
    <3>3. \E of : ShiftFlags("ROL", v, r, n, flags, w) = Marked(flags, r % 2, of)
      BY FlagForms DEF CarryMark
    <3> QED BY ONLY <1>1, <1>2, <1>3, <2>2, <3>1, <3>2, <3>3
  <2>3. CASE kind = "ROR"
    <3>1. BitAt(r, w - 1) = BitAt(v, n - 1)
      BY ONLY <1>2, <2>1, <2>3, TurnedBits
    <3>2. CarryAfter("ROR", v, c, n, w) = BitAt(v, n - 1)
      BY DEF CarryAfter
    <3>3. \E of : ShiftFlags("ROR", v, r, n, flags, w) = Marked(flags, BitAt(r, w - 1), of)
      BY FlagForms DEF CarryMark
    <3> QED BY ONLY <1>1, <1>2, <1>3, <2>3, <3>1, <3>2, <3>3
  <2> QED BY <1>4, <2>2, <2>3
<1>5. CASE kind \in {"RCL", "SHL"}
  <2>1. CarryAfter(kind, v, c, n, w) = IF n > w THEN 0 ELSE BitAt(v, w - n)
    BY <1>5 DEF CarryAfter
  <2>2. \E of : ShiftFlags(kind, v, r, n, flags, w)
                  = Marked(flags, IF n > w THEN 0 ELSE BitAt(v, w - n), of)
    BY <1>5, FlagForms DEF CarryMark
  <2> QED BY ONLY <1>1, <1>2, <1>3, <2>1, <2>2
<1>6. CASE kind \in {"RCR", "SHR"}
  <2>1. CarryAfter(kind, v, c, n, w) = BitAt(v, n - 1)
    BY <1>6 DEF CarryAfter
  <2>2. \E of : ShiftFlags(kind, v, r, n, flags, w) = Marked(flags, BitAt(v, n - 1), of)
    BY <1>6, FlagForms DEF CarryMark
  <2> QED BY ONLY <1>1, <1>2, <1>3, <2>1, <2>2
<1>7. CASE kind = "SAR"
  <2>1. CarryAfter(kind, v, c, n, w) = IF n >= w THEN BitAt(v, w - 1) ELSE BitAt(v, n - 1)
    BY <1>7 DEF CarryAfter
  <2>2. ShiftFlags("SAR", v, r, n, flags, w)
          = Marked(flags, IF n >= w THEN BitAt(v, w - 1) ELSE BitAt(v, n - 1), 0)
    <3>1. n > 0
      BY <1>0
    <3> QED BY ONLY <3>1, n # 0, SignedForm
  <2> QED BY ONLY <1>1, <1>2, <1>3, <1>7, <2>1, <2>2
<1> QED BY <1>4, <1>5, <1>6, <1>7 DEF Rotates, Shifts

\* OF after a single step tells that it changed the sign.
LEMMA ShiftOverflow ==
  ASSUME NEW kind, kind \in Rotates \cup Shifts, NEW v, NEW w, NEW c, NEW flags,
         IsOperand(v, w, c)
  PROVE  "OF" \in ShiftFlags(kind, v, Shifted(kind, v, 1, c, w), 1, flags, w)
           <=> SignChanged(v, Shifted(kind, v, 1, c, w), w)
<1>0. 1 # 0 /\ 1 \in Nat /\ 1 - 1 = 0 /\ ~(1 > w) /\ (1 = 0 => ~(1 >= w))
  BY DEF IsOperand
<1>1. PICK Q, t, l, e : SingleStep(v, w, c, Q, t, l, e)
  BY SingleSteps
<1>2. /\ Q \in Nat \ {0} /\ t \in {0, 1} /\ l \in 0 .. Q - 1 /\ e \in {0, 1} /\ c \in {0, 1}
      /\ v = Q * (2 * t) + 2 * l + e
  BY <1>1 DEF SingleStep, IsOperand
<1>3. 2^(w - 2) = Q /\ 2^(w - 1) = 2 * Q /\ 2^w = 4 * Q /\ t = BitAt(v, w - 1)
  BY <1>1 DEF SingleStep
<1>4. AsSigned(v, w) < 0 <=> t = 1
  <2>1. CASE t = 0
    <3>1. v = 2 * l + e /\ v \in 0 .. 2 * Q - 1
      BY ONLY <1>2, <2>1
    <3> QED BY ONLY <1>2, <1>3, <2>1, <3>1 DEF AsSigned
  <2>2. CASE t = 1
    <3>1. v = 2 * Q + 2 * l + e /\ v \in 2 * Q .. 4 * Q - 1
      BY ONLY <1>2, <2>2
    <3> QED BY ONLY <1>2, <1>3, <2>2, <3>1 DEF AsSigned
  <2> QED BY ONLY <1>2, <2>1, <2>2
<1>5. ASSUME NEW r, r \in 0 .. 4 * Q - 1
      PROVE  /\ BitAt(r, w - 1) = IF r >= 2 * Q THEN 1 ELSE 0
             /\ SignChanged(v, r, w) <=> (t = 1 <=> r < 2 * Q)
  <2>1. r \div (2 * Q) = IF r >= 2 * Q THEN 1 ELSE 0
    BY ONLY <1>2, <1>5
  <2>2. AsSigned(r, w) >= 0 <=> r < 2 * Q
    BY ONLY <1>2, <1>3, <1>5 DEF AsSigned
  <2> QED BY ONLY <1>2, <1>4, <1>5, <2>1, <2>2, <1>3 DEF BitAt, SignChanged
<1>6. \A cf, of : "OF" \in Marked(flags, cf, of) <=> of = 1
  BY DEF Marked, Put
<1>7. ASSUME NEW r, kind # "SAR"
       PROVE  "OF" \in ShiftFlags(kind, v, r, 1, flags, w) <=> OverMark(kind, v, r, 1, w) = 1
  <2>1. kind \in {"ROL", "ROR", "RCL", "RCR", "SHL", "SHR"}
    BY <1>7 DEF Rotates, Shifts
  <2>2. PICK n : n = 1 /\ n # 0
    OBVIOUS
  <2>3. ShiftFlags(kind, v, r, n, flags, w)
          = Marked(flags, CarryMark(kind, v, r, n, w), OverMark(kind, v, r, n, w))
    BY ONLY <2>1, <2>2, FlagForms
  <2> QED BY ONLY <1>6, <2>2, <2>3
<1>8. CASE kind \in {"ROL", "RCL", "SHL"}
  <2>1. PICK r, b : /\ r = Shifted(kind, v, 1, c, w) /\ r = 2 * (2 * l + e) + b /\ b \in {0, 1}
                    /\ kind = "ROL" => b = t
    <3>1. CASE kind = "ROL"
      BY <1>1, <1>2, <3>1 DEF SingleStep
    <3>2. CASE kind = "RCL"
      BY <1>1, <1>2, <3>2 DEF SingleStep
    <3>3. CASE kind = "SHL"
      <4>1. Shifted("SHL", v, 1, c, w) = 2 * (2 * l + e) + 0
        BY ONLY <1>1, <1>2 DEF SingleStep
      <4> QED BY <3>3, <4>1
    <3> QED BY ONLY <1>8, <3>1, <3>2, <3>3
  <2>2. r \in 0 .. 4 * Q - 1 /\ r % 2 = b
    BY ONLY <1>2, <2>1
  <2>3. PICK top : top = BitAt(r, w - 1) /\ top \in {0, 1} /\ (top = 1 <=> ~(r < 2 * Q))
    BY ONLY <1>2, <1>5, <2>2
  <2>4. "OF" \in ShiftFlags(kind, v, r, 1, flags, w) <=> (top + t) % 2 = 1
    <3>1. CASE kind = "ROL"
      <4>1. OverMark("ROL", v, r, 1, w) = (BitAt(r, w - 1) + r) % 2
        BY DEF OverMark
      <4>2. (top + r) % 2 = (top + t) % 2
        BY ONLY <1>2, <2>1, <2>2, <2>3, <3>1
      <4> QED BY ONLY <1>7, <2>3, <3>1, <4>1, <4>2
    <3>2. CASE kind \in {"RCL", "SHL"}
      <4>1. OverMark(kind, v, r, 1, w) = (BitAt(r, w - 1) + BitAt(v, w - 1)) % 2
        BY ONLY <1>0, <3>2 DEF OverMark
      <4> QED BY ONLY <1>3, <1>7, <2>3, <3>2, <4>1
    <3> QED BY ONLY <1>8, <3>1, <3>2
  <2>5. SignChanged(v, r, w) <=> (t = 1 <=> r < 2 * Q)
    BY ONLY <1>5, <2>2
  <2>6. (top + t) % 2 = 1 <=> (t = 1 <=> top = 0)
    BY ONLY <1>2, <2>3
  <2> QED BY ONLY <2>1, <2>3, <2>4, <2>5, <2>6
<1>9. CASE kind \in {"ROR", "RCR"}
  <2>1. PICK r, b : /\ r = Shifted(kind, v, 1, c, w) /\ r = Q * (2 * b + t) + l /\ b \in {0, 1}
    <3>1. CASE kind = "ROR"
      BY <1>1, <1>2, <3>1 DEF SingleStep
    <3>2. CASE kind = "RCR"
      BY <1>1, <1>2, <3>2 DEF SingleStep
    <3> QED BY ONLY <1>9, <3>1, <3>2
  <2>2. r \in 0 .. 4 * Q - 1
    <3>1. PICK k \in 0 .. 3 : k = 2 * b + t
      BY ONLY <1>2, <2>1
    <3>2. Q * k + l \in 0 .. Q * 4 - 1
      <4>1. k = 0 \/ k = 1 \/ k = 2 \/ k = 3
        OBVIOUS
      <4>2. Q * 0 = 0 /\ Q * 1 = Q /\ Q * 2 = 2 * Q /\ Q * 3 = 3 * Q /\ Q * 4 = 4 * Q
        BY ONLY <1>2
      <4> QED BY ONLY <1>2, <4>1, <4>2
    <3> QED BY ONLY <1>2, <2>1, <3>1, <3>2
  <2>3. BitAt(r, w - 2) = t
    <3>1. PICK k : k = 2 * b + t /\ k \in Int /\ k % 2 = t
      BY ONLY <1>2, <2>1
    <3>2. (Q * k + l) \div Q = k
      BY ONLY <1>2, <3>1, Quotient
    <3> QED BY ONLY <1>2, <2>1, <3>1, <3>2, <1>3 DEF BitAt
  <2>4. PICK top : top = BitAt(r, w - 1) /\ top \in {0, 1} /\ (top = 1 <=> ~(r < 2 * Q))
    BY ONLY <1>2, <1>5, <2>2
  <2>5. "OF" \in ShiftFlags(kind, v, r, 1, flags, w) <=> (top + t) % 2 = 1
    <3>1. OverMark(kind, v, r, 1, w) = (BitAt(r, w - 1) + BitAt(r, w - 2)) % 2
      BY ONLY <1>9 DEF OverMark
    <3> QED BY ONLY <1>9, <1>7, <2>3, <2>4, <3>1
  <2>6. SignChanged(v, r, w) <=> (t = 1 <=> r < 2 * Q)
    BY ONLY <1>5, <2>2
  <2>7. (top + t) % 2 = 1 <=> (t = 1 <=> top = 0)
    BY ONLY <1>2, <2>4
  <2> QED BY ONLY <2>1, <2>4, <2>5, <2>6, <2>7
<1>10. CASE kind = "SHR"
  <2>1. PICK r : r = Shifted("SHR", v, 1, c, w) /\ r = Q * t + l
    BY <1>1 DEF SingleStep
  <2>2. r \in 0 .. 4 * Q - 1 /\ r < 2 * Q
    BY ONLY <1>2, <2>1
  <2>3. "OF" \in ShiftFlags("SHR", v, r, 1, flags, w) <=> t = 1
    <3>1. OverMark("SHR", v, r, 1, w) = BitAt(v, w - 1)
      BY DEF OverMark
    <3> QED BY ONLY <1>10, <1>3, <1>7, <3>1
  <2>4. SignChanged(v, r, w) <=> t = 1
    BY ONLY <1>5, <2>2
  <2> QED BY ONLY <1>10, <2>1, <2>3, <2>4
<1>11. CASE kind = "SAR"
  <2>1. PICK r : r = Shifted("SAR", v, 1, c, w) /\ r = Q * (2 * t + t) + l
    BY <1>1 DEF SingleStep
  <2>2. r \in 0 .. 4 * Q - 1 /\ (r < 2 * Q <=> t = 0)
    <3>1. CASE t = 0
      BY ONLY <1>2, <2>1, <3>1
    <3>2. CASE t = 1
      BY ONLY <1>2, <2>1, <3>2
    <3> QED BY ONLY <1>2, <3>1, <3>2
  <2>3. "OF" \notin ShiftFlags("SAR", v, r, 1, flags, w)
    <3>1. PICK n : n = 1 /\ n # 0 /\ n > 0
      BY <1>0
    <3>2. ShiftFlags("SAR", v, r, n, flags, w)
            = Marked(flags, IF n >= w THEN BitAt(v, w - 1) ELSE BitAt(v, n - 1), 0)
      BY ONLY <3>1, SignedForm
    <3>3. 0 # 1
      OBVIOUS
    <3> QED BY ONLY <1>6, <3>1, <3>2, <3>3
  <2>4. ~SignChanged(v, r, w)
    BY ONLY <1>2, <1>5, <2>2
  <2> QED BY ONLY <1>11, <2>1, <2>3, <2>4
<1> QED BY <1>8, <1>9, <1>10, <1>11 DEF Rotates, Shifts

\* What a shift or rotate leaves, by the steps of one bit.
ShiftAgrees(kind, v, n, flags, w, out) ==
  LET ref == RefSteps(kind, v, Carry(flags), n, w)
  IN  /\ out.value = ref[1]
      /\ ~(kind \in {"ROL", "ROR"} /\ n % w = 0) => Carry(out.flags) = ref[2]
      /\ n = 1 => ("OF" \in out.flags <=> SignChanged(v, out.value, w))
      /\ out.flags \cap {"SF", "ZF", "PF"} =
           IF kind \in Shifts /\ n # 0 THEN ResultFlags(out.value, w)
           ELSE flags \cap {"SF", "ZF", "PF"}
      /\ n = 0 /\ kind # "SAR" => out.flags = flags

\* Neither shifts nor rotates touch SF, ZF and PF by themselves.
LEMMA MovedFlags ==
  ASSUME NEW kind, kind \in Rotates \cup Shifts, NEW v, NEW r, NEW n \in Nat, NEW flags, NEW w,
         n = 0 => ~(n >= w)
  PROVE  /\ \A f : f \notin {"CF", "OF"} =>
                     (f \in ShiftFlags(kind, v, r, n, flags, w) <=> f \in flags)
         /\ n = 0 /\ kind # "SAR" => ShiftFlags(kind, v, r, n, flags, w) = flags
         /\ n = 0 => Carry(ShiftFlags(kind, v, r, n, flags, w)) = Carry(flags)
<1>0. \A cf, of, f : f \notin {"CF", "OF"} => (f \in Marked(flags, cf, of) <=> f \in flags)
  BY DEF Marked, Put
<1>1. CASE kind = "SAR" /\ n = 0
  <2>1. ShiftFlags("SAR", v, r, n, flags, w) = Put(flags, "OF", FALSE)
    <3>1. ~(n >= w)
      BY <1>1
    <3> QED BY ONLY <1>1, <3>1, SignedByNone
  <2> QED BY ONLY <1>1, <2>1 DEF Put, Carry
<1>2. CASE kind = "SAR" /\ n # 0
  <2>1. ShiftFlags("SAR", v, r, n, flags, w)
          = Marked(flags, IF n >= w THEN BitAt(v, w - 1) ELSE BitAt(v, n - 1), 0)
    <3>1. n > 0
      BY <1>2
    <3> QED BY ONLY <1>2, <3>1, SignedForm
  <2> QED BY ONLY <1>0, <1>2, <2>1
<1>3. CASE kind # "SAR" /\ n = 0
  <2>1. ShiftFlags(kind, v, r, n, flags, w) = flags
    BY <1>3, Zenon DEF ShiftFlags
  <2> QED BY ONLY <1>3, <2>1
<1>4. CASE kind # "SAR" /\ n # 0
  <2>1. kind \in {"ROL", "ROR", "RCL", "RCR", "SHL", "SHR"}
    BY <1>4 DEF Rotates, Shifts
  <2>2. ShiftFlags(kind, v, r, n, flags, w)
          = Marked(flags, CarryMark(kind, v, r, n, w), OverMark(kind, v, r, n, w))
    BY ONLY <1>4, <2>1, FlagForms
  <2> QED BY ONLY <1>0, <1>4, <2>2
<1> QED BY ONLY <1>1, <1>2, <1>3, <1>4

\* The plain shifts.
LEMMA ShiftsAre ==
  ASSUME NEW kind, kind \in Shifts, NEW v, NEW w, NEW n, NEW flags,
         IsCounted(v, w, Carry(flags), n)
  PROVE  ShiftAgrees(kind, v, n, flags, w, Shift(kind, v, n, flags, w))
<1> DEFINE c == Carry(flags)
           r == Shifted(kind, v, n, c, w)
           moved == ShiftFlags(kind, v, r, n, flags, w)
           out == Shift(kind, v, n, flags, w)
<1>0. w \in {8, 16} /\ v \in 0 .. 2^w - 1 /\ c \in {0, 1} /\ n \in Nat /\ IsOperand(v, w, c)
      /\ (n = 0 => ~(n >= w)) /\ kind \in Rotates \cup Shifts /\ kind \notin Rotates
  BY DEF IsCounted, IsOperand, Rotates, Shifts
<1>1. Reduced(kind, n, w) = n
  BY <1>0, Zenon DEF Reduced, Rotates
<1>2. out.value = r /\ out.flags = IF n # 0 THEN SetSzp(moved, r, w) ELSE moved
  BY <1>1 DEF Shift, Outcome
<1>3. RefSteps(kind, v, c, n, w) = <<r, CarryAfter(kind, v, c, n, w)>>
  BY ShiftsStep DEF After
<1>4. r \in 0 .. 2^w - 1
  BY ShiftsFit DEF Shifts
<1> HIDE DEF r, moved, out
<1>5. \A f : f \in SetSzp(moved, r, w) <=>
               IF f \in {"SF", "ZF", "PF"} THEN f \in ResultFlags(r, w) ELSE f \in moved
  <2>1. PICK P, H, m : Width(w, P, H, m)
    BY <1>0, Widths
  <2>2. 2^w = P /\ P \in Nat /\ r \in -(P - 1) .. P - 1 /\ r % P = r
    <3>1. 2^w = P /\ P \in Nat /\ P > 0
      BY <2>1, WidthFacts
    <3> QED BY ONLY <1>4, <3>1
  <2> QED BY <2>1, <2>2, SzpFlags
<1>6. Carry(out.flags) = Carry(moved)
  BY <1>2, <1>5 DEF Carry
<1>7. Carry(moved) = CarryAfter(kind, v, c, n, w)
  <2>1. CASE n = 0
    <3>1. Carry(moved) = c
      BY <1>0, <2>1, MovedFlags DEF moved
    <3>2. CarryAfter(kind, v, c, n, w) = c
      BY <2>1 DEF CarryAfter
    <3> QED BY <3>1, <3>2
  <2>2. CASE n # 0
    <3>1. kind \notin {"ROL", "ROR"}
      BY <1>0 DEF Rotates
    <3> QED BY <1>0, <2>2, <3>1, ShiftCarry DEF moved, r
  <2> QED BY <2>1, <2>2
<1>8. n = 1 => ("OF" \in out.flags <=> SignChanged(v, r, w))
  <2>1. n = 1 => ("OF" \in moved <=> SignChanged(v, r, w))
    BY <1>0, ShiftOverflow DEF moved, r
  <2>2. "OF" \in out.flags <=> "OF" \in moved
    BY <1>2, <1>5
  <2> QED BY <2>1, <2>2
<1>9. out.flags \cap {"SF", "ZF", "PF"} =
        IF kind \in Shifts /\ n # 0 THEN ResultFlags(r, w) ELSE flags \cap {"SF", "ZF", "PF"}
  <2>1. ResultFlags(r, w) \subseteq {"SF", "ZF", "PF"}
    BY DEF ResultFlags
  <2>2. \A f : f \notin {"CF", "OF"} => (f \in moved <=> f \in flags)
    BY <1>0, MovedFlags DEF moved
  <2> QED BY <1>2, <1>5, <2>1, <2>2
<1>10. n = 0 /\ kind # "SAR" => out.flags = flags
  BY <1>0, <1>2, MovedFlags DEF moved
<1> QED BY <1>2, <1>3, <1>6, <1>7, <1>8, <1>9, <1>10 DEF ShiftAgrees, out

\* The rotates, by what is left of the count after whole turns.
LEMMA RotatesAre ==
  ASSUME NEW kind, kind \in Rotates, NEW v, NEW w, NEW n, NEW flags,
         IsCounted(v, w, Carry(flags), n)
  PROVE  ShiftAgrees(kind, v, n, flags, w, Shift(kind, v, n, flags, w))
<1> DEFINE c == Carry(flags)
           k == Reduced(kind, n, w)
           r == Shifted(kind, v, k, c, w)
           moved == ShiftFlags(kind, v, r, k, flags, w)
           out == Shift(kind, v, n, flags, w)
<1>0. w \in {8, 16} /\ v \in 0 .. 2^w - 1 /\ c \in {0, 1} /\ n \in 0 .. 31 /\ IsOperand(v, w, c)
      /\ kind \in Rotates \cup Shifts /\ kind \notin Shifts /\ kind # "SAR"
  BY DEF IsCounted, IsOperand, Rotates, Shifts
<1>1. /\ kind \in {"ROL", "ROR"} => k = n % w
      /\ kind \in {"RCL", "RCR"} => k = n % (w + 1)
  <2>1. kind \in {"RCL", "RCR"} => kind \notin {"ROL", "ROR"}
    OBVIOUS
  <2> QED BY <2>1, Zenon DEF Reduced
<1>2. out.value = r /\ out.flags = moved
  BY <1>0 DEF Shift, Outcome
<1> HIDE DEF k
<1>3. /\ k \in Nat /\ IsCounted(v, w, c, k) /\ (k = 0 => ~(k >= w))
      /\ (kind \in {"ROL", "ROR"} => k < w) /\ (n = 0 => k = 0) /\ (n = 1 => k = 1)
  <2>1. kind \in {"ROL", "ROR"} \/ kind \in {"RCL", "RCR"}
    BY DEF Rotates
  <2>2. n % w \in 0 .. w - 1 /\ n % (w + 1) \in 0 .. w /\ 0 % w = 0 /\ 0 % (w + 1) = 0
        /\ 1 % w = 1 /\ 1 % (w + 1) = 1
    BY ONLY <1>0
  <2> QED BY <1>0, <1>1, <2>1, <2>2 DEF IsCounted
<1> HIDE DEF r, moved, out
<1>4. /\ RefSteps(kind, v, c, n, w)[1] = r
      /\ ~(kind \in {"ROL", "ROR"} /\ n % w = 0) =>
           RefSteps(kind, v, c, n, w)[2] = CarryAfter(kind, v, c, k, w)
  <2>1. CASE kind \in {"ROL", "ROR"}
    BY <1>1, <2>1, TurnsStep DEF r
  <2>2. CASE kind \in {"RCL", "RCR"}
    BY <1>1, <2>2, CarryTurnsStep DEF r, After
  <2> QED BY <2>1, <2>2 DEF Rotates
<1>5. Carry(moved) = CarryAfter(kind, v, c, k, w)
  <2>1. CASE k = 0
    <3>1. Carry(moved) = c
      BY <1>0, <1>3, <2>1, MovedFlags DEF moved
    <3>2. CarryAfter(kind, v, c, k, w) = c
      BY <2>1 DEF CarryAfter
    <3> QED BY <3>1, <3>2
  <2>2. CASE k # 0
    BY <1>0, <1>3, <2>2, ShiftCarry DEF moved, r
  <2> QED BY <2>1, <2>2
<1>6. n = 1 => ("OF" \in moved <=> SignChanged(v, r, w))
  BY <1>0, <1>3, ShiftOverflow DEF moved, r
<1>7. moved \cap {"SF", "ZF", "PF"} = flags \cap {"SF", "ZF", "PF"}
  <2>1. \A f : f \notin {"CF", "OF"} => (f \in moved <=> f \in flags)
    BY <1>0, <1>3, MovedFlags DEF moved
  <2> QED BY <2>1
<1>8. n = 0 => moved = flags
  BY <1>0, <1>3, MovedFlags DEF moved
<1> QED BY <1>0, <1>2, <1>4, <1>5, <1>6, <1>7, <1>8 DEF ShiftAgrees, out

\* ShiftsAgree is kept: a shift or rotate establishes it, and no other action is one.
LEMMA ShiftStep ==
  ShiftsAgree /\ [InstructionNext]_done => ShiftsAgree'
<1> SUFFICES ASSUME ShiftsAgree, [InstructionNext]_done PROVE ShiftsAgree'
  OBVIOUS
<1>1. CASE ExecuteShift
  <2>1. PICK kind \in Rotates \cup Shifts, from \in {"one", "CL", "imm"}, i \in Counts,
             w \in {8, 16}, flags \in FlagsBefore :
          \E v \in Operands(w) :
            Record(kind, w, v, CountOf(from, i), flags, Shift(kind, v, CountOf(from, i), flags, w))
    BY <1>1, Zenon DEF ExecuteShift
  <2>2. PICK v \in Operands(w) :
          Record(kind, w, v, CountOf(from, i), flags, Shift(kind, v, CountOf(from, i), flags, w))
    BY <2>1, Zenon
  <2>3. PICK n : n = CountOf(from, i) /\ n \in 0 .. 31
    <3>1. i \in 0 .. 31 /\ i % 32 \in 0 .. 31 /\ 1 \in 0 .. 31
      BY Samples
    <3> QED BY <3>1 DEF CountOf
  <2>4. PICK x : /\ done' = x /\ x.op = kind /\ x.w = w /\ x.a = v /\ x.b = n /\ x.before = flags
                 /\ x.out = Shift(kind, v, n, flags, w)
    BY <2>2, <2>3 DEF Record
  <2>5. IsCounted(v, w, Carry(flags), n)
    BY <2>3, Samples DEF IsCounted
  <2>6. ShiftAgrees(kind, v, n, flags, w, x.out)
    BY <2>4, <2>5, ShiftsAre, RotatesAre
  <2> QED BY ONLY <2>4, <2>6 DEF ShiftsAgree, ShiftAgrees
<1>2. CASE done'.op \notin Rotates \cup Shifts
  BY <1>2 DEF ShiftsAgree
<1>3. CASE UNCHANGED done
  BY <1>3 DEF ShiftsAgree
<1>4. InstructionNext => ExecuteShift \/ done'.op \notin Rotates \cup Shifts
  BY Executed DEF InstructionNext, ArithmeticNext, TwoOperand, Rotates, Shifts
<1> QED BY <1>1, <1>2, <1>3, <1>4

\* Every instruction executed leaves the result and the flags of whole number
\* arithmetic, or those of as many steps of one bit, whichever operands are tried.
THEOREM ArithmeticCorrect == InstructionSpec => []ArithmeticAgrees
<1>1. NothingExecuted => ArithmeticAgrees
  BY DEF NothingExecuted, ArithmeticAgrees, BinaryAgrees, ShiftsAgree, DecimalsAgree,
         Logical, Rotates, Shifts
<1>2. ArithmeticAgrees /\ [InstructionNext]_done => ArithmeticAgrees'
  BY BinaryStep, ShiftStep, DecimalStep DEF ArithmeticAgrees
<1> QED BY <1>1, <1>2, PTL DEF InstructionSpec

-----------------------------------------------------------------------------
(* Strings.                                                                  *)

\* Places and steps without the remainder.
IsPlace(back, offset, k, o) ==
  /\ o \in 0 .. SegmentBytes - 1
  /\ back => o = IF k > offset THEN (offset - k) + SegmentBytes ELSE offset - k
  /\ ~back => o = IF offset + k >= SegmentBytes THEN (offset + k) - SegmentBytes ELSE offset + k
IsSteps(back, offset, o, k) ==
  /\ k \in 0 .. SegmentBytes - 1
  /\ back => k = IF o > offset THEN (offset - o) + SegmentBytes ELSE offset - o
  /\ ~back => k = IF offset > o THEN (o - offset) + SegmentBytes ELSE o - offset

LEMMA SegmentFacts ==
  /\ SegmentBytes \in Nat /\ SegmentBytes > 0 /\ Offsets = 0 .. SegmentBytes - 1
  /\ \A k \in Offsets : k \in 0 .. SegmentBytes /\ k + 1 \in 0 .. SegmentBytes
  /\ 0 \in Offsets /\ 1 \in 0 .. SegmentBytes
BY SegmentAssumption DEF Offsets

LEMMA PlaceForms ==
  ASSUME NEW back, NEW offset \in Offsets, NEW k \in 0 .. SegmentBytes
  PROVE  IsPlace(back, offset, k, Place(back, offset, k))
<1>1. PICK N : N = SegmentBytes /\ N \in Nat /\ N > 0
  BY SegmentFacts
<1>2. PICK x : x = offset + (IF back THEN -k ELSE k)
  OBVIOUS
<1>3. offset \in 0 .. N - 1 /\ k \in 0 .. N
  BY <1>1, SegmentFacts
<1>4. x \in Int /\ (back => x = offset - k) /\ (~back => x = offset + k)
  BY <1>2, <1>3
<1>5. Place(back, offset, k) = x % N
  BY <1>1, <1>2 DEF Place
<1>6. x \in -N .. (2 * N - 1)
  BY <1>1, <1>3, <1>4
<1>7. x % N = IF x < 0 THEN x + N ELSE IF x >= N THEN x - N ELSE x
  BY ONLY <1>1, <1>4, <1>6, Reduce
<1>8. x % N \in 0 .. N - 1
  BY <1>1, <1>6, <1>7
<1> QED BY <1>1, <1>3, <1>4, <1>5, <1>7, <1>8 DEF IsPlace

LEMMA StepsForms ==
  ASSUME NEW back, NEW offset \in Offsets, NEW o \in Offsets
  PROVE  IsSteps(back, offset, o, StepsTo(back, offset, o))
<1>1. PICK N : N = SegmentBytes /\ N \in Nat /\ N > 0
  BY SegmentFacts
<1>2. PICK x : x = IF back THEN offset - o ELSE o - offset
  OBVIOUS
<1>3. offset \in 0 .. N - 1 /\ o \in 0 .. N - 1
  BY <1>1, SegmentFacts
<1>4. x \in Int /\ (back => x = offset - o) /\ (~back => x = o - offset)
  BY <1>2, <1>3
<1>5. StepsTo(back, offset, o) = x % N
  BY <1>1, <1>2 DEF StepsTo
<1>6. x \in -N .. N - 1
  BY <1>1, <1>3, <1>4
<1>7. x % N = IF x < 0 THEN x + N ELSE x
  BY ONLY <1>1, <1>4, <1>6, Reduce
<1>8. x % N \in 0 .. N - 1
  BY <1>1, <1>6, <1>7
<1> QED BY <1>1, <1>3, <1>4, <1>5, <1>7, <1>8 DEF IsSteps

\* The offsets of a segment are the places from any one of them, each once.
LEMMA PlaceZero ==
  ASSUME NEW back, NEW offset \in Offsets
  PROVE  Place(back, offset, 0) = offset
<1>1. IsPlace(back, offset, 0, Place(back, offset, 0))
  BY SegmentFacts, PlaceForms
<1> QED BY <1>1, SegmentFacts DEF IsPlace

LEMMA PlaceSteps ==
  ASSUME NEW back, NEW offset \in Offsets, NEW k \in Offsets
  PROVE  /\ Place(back, offset, k) \in Offsets
         /\ StepsTo(back, offset, Place(back, offset, k)) = k
<1>1. PICK o : o = Place(back, offset, k) /\ IsPlace(back, offset, k, o)
  BY SegmentFacts, PlaceForms
<1>2. o \in Offsets
  BY <1>1, SegmentFacts DEF IsPlace
<1>3. IsSteps(back, offset, o, StepsTo(back, offset, o))
  BY <1>2, StepsForms
<1> QED BY <1>1, <1>2, <1>3, SegmentFacts DEF IsPlace, IsSteps

LEMMA StepsPlace ==
  ASSUME NEW back, NEW offset \in Offsets, NEW o \in Offsets
  PROVE  /\ StepsTo(back, offset, o) \in Offsets
         /\ Place(back, offset, StepsTo(back, offset, o)) = o
<1>1. PICK k : k = StepsTo(back, offset, o) /\ IsSteps(back, offset, o, k)
  BY StepsForms
<1>2. k \in Offsets
  BY <1>1, SegmentFacts DEF IsSteps
<1>3. IsPlace(back, offset, k, Place(back, offset, k))
  BY <1>2, SegmentFacts, PlaceForms
<1> QED BY <1>1, <1>2, <1>3, SegmentFacts DEF IsPlace, IsSteps

\* Advancing goes to the next place.
LEMMA AdvancePlace ==
  ASSUME NEW back, NEW offset \in Offsets, NEW k \in Offsets
  PROVE  Advance(Place(back, offset, k), back) = Place(back, offset, k + 1)
<1>1. PICK o : o = Place(back, offset, k) /\ IsPlace(back, offset, k, o)
  BY SegmentFacts, PlaceForms
<1>2. o \in Offsets
  BY <1>1, SegmentFacts DEF IsPlace
<1>3. Advance(o, back) = Place(back, o, 1)
  BY DEF Advance, Place
<1>4. IsPlace(back, o, 1, Place(back, o, 1))
  BY <1>2, SegmentFacts, PlaceForms
<1>5. IsPlace(back, offset, k + 1, Place(back, offset, k + 1))
  BY SegmentFacts, PlaceForms
<1> QED BY <1>1, <1>2, <1>3, <1>4, <1>5, SegmentFacts DEF IsPlace

\* The source of step k lies gap steps behind on the way of the destination:
\* the byte written gap steps ago, as soon as there is one.
LEMMA Behind ==
  ASSUME NEW back, NEW si \in Offsets, NEW di \in Offsets, NEW k \in Offsets,
         NEW gap, gap = StepsTo(back, si, di)
  PROVE  StepsTo(back, di, Place(back, si, k)) = IF k >= gap THEN k - gap
                                                 ELSE (k - gap) + SegmentBytes
<1>1. PICK o : o = Place(back, si, k) /\ IsPlace(back, si, k, o)
  BY SegmentFacts, PlaceForms
<1>2. o \in Offsets
  BY <1>1, SegmentFacts DEF IsPlace
<1>3. IsSteps(back, di, o, StepsTo(back, di, o))
  BY <1>2, StepsForms
<1>4. IsSteps(back, si, di, gap)
  BY StepsForms
<1>5. PICK N : N = SegmentBytes /\ N \in Nat /\ N > 0 /\ si \in 0 .. N - 1 /\ di \in 0 .. N - 1
                /\ k \in 0 .. N - 1
  BY SegmentFacts
<1>6. PICK j : j = StepsTo(back, di, o) /\ j \in 0 .. N - 1 /\ gap \in 0 .. N - 1 /\ o \in 0 .. N - 1
  BY <1>1, <1>3, <1>4, <1>5 DEF IsPlace, IsSteps
<1>7. CASE back
  <2>1. /\ o = IF k > si THEN (si - k) + N ELSE si - k
        /\ j = IF o > di THEN (di - o) + N ELSE di - o
        /\ gap = IF di > si THEN (si - di) + N ELSE si - di
    BY <1>1, <1>3, <1>4, <1>5, <1>6, <1>7 DEF IsPlace, IsSteps
  <2>2. j = IF k >= gap THEN k - gap ELSE (k - gap) + N
    BY ONLY <1>5, <1>6, <2>1
  <2> QED BY <1>1, <1>5, <1>6, <2>2
<1>8. CASE ~back
  <2>1. /\ o = IF si + k >= N THEN (si + k) - N ELSE si + k
        /\ j = IF di > o THEN (o - di) + N ELSE o - di
        /\ gap = IF si > di THEN (di - si) + N ELSE di - si
    BY <1>1, <1>3, <1>4, <1>5, <1>6, <1>8 DEF IsPlace, IsSteps
  <2>2. j = IF k >= gap THEN k - gap ELSE (k - gap) + N
    BY ONLY <1>5, <1>6, <2>1
  <2> QED BY <1>1, <1>5, <1>6, <2>2
<1> QED BY <1>7, <1>8

\* Counting around a gap.
LEMMA AroundGap ==
  ASSUME NEW gap \in Nat \ {0}, NEW k \in Nat
  PROVE  /\ k < gap => k % gap = k
         /\ k >= gap => (k - gap) % gap = k % gap
<1>1. k < gap => k % gap = k
  OBVIOUS
<1>2. ASSUME k >= gap PROVE (k - gap) % gap = k % gap
  <2>1. k \in Int /\ k = gap * (k \div gap) + (k % gap) /\ k % gap \in 0 .. gap - 1
        /\ k \div gap \in Int
    BY Division
  <2>2. PICK q, r : q = k \div gap /\ r = k % gap
    OBVIOUS
  <2>3. q \in Int /\ r \in 0 .. gap - 1 /\ k = gap * q + r
    BY <2>1, <2>2
  <2>4. gap * (q - 1) + r = k - gap /\ q - 1 \in Int
    BY ONLY <2>3, gap \in Nat
  <2>5. (gap * (q - 1) + r) % gap = r
    BY <2>3, <2>4, Quotient
  <2> QED BY <2>2, <2>4, <2>5
<1> QED BY <1>1, <1>2

\* Two runs that start alike and go on alike are the same.
LEMMA SameRuns ==
  ASSUME NEW n \in Nat, NEW h, NEW g, h[0] = g[0],
         \A i \in 0 .. n - 1 : h[i] = g[i] => h[i + 1] = g[i + 1]
  PROVE  \A i \in 0 .. n : h[i] = g[i]
<1> DEFINE T == {i \in 0 .. n : h[i] = g[i]}
<1>1. 0 \in T
  OBVIOUS
<1>2. ASSUME NEW i \in 0 .. n - 1, i \in T PROVE i + 1 \in T
  <2>1. i + 1 \in 0 .. n /\ h[i] = g[i]
    BY <1>2
  <2> QED BY <2>1
<1> HIDE DEF T
<1>3. 0 .. n \subseteq T
  BY <1>1, <1>2, UpTo
<1> QED BY <1>3 DEF T

\* A run of moves, whichever way; what a repeat leaves in cx.
IsRun(kind, back, f) ==
  \A i \in 0 .. SegmentBytes - 1 : f[i + 1] = MoveOnce(kind, back, f[i])
Emptied(t) == [t EXCEPT !.cx = 0]

\* A run that takes one step after another is the one the code's loop makes.
LEMMA MovesAre ==
  ASSUME NEW kind, NEW back, NEW s, NEW f, f[0] = s, IsRun(kind, back, f),
         s.cx \in 0 .. SegmentBytes, NEW repeated
  PROVE  Move(kind, back, repeated, s) = IF repeated THEN Emptied(f[s.cx]) ELSE f[1]
<1> DEFINE From(h, i) == IF i = 0 THEN s ELSE MoveOnce(kind, back, h[i - 1])
           Is(h) == h = [i \in 0 .. SegmentBytes |-> From(h, i)]
           after == CHOOSE h : Is(h)
           g == [i \in 0 .. SegmentBytes |-> f[i]]
<1>1. Move(kind, back, repeated, s) = IF repeated THEN Emptied(after[s.cx]) ELSE after[1]
  BY Zenon DEF Move, Emptied
<1>2. Is(g)
  <2>1. ASSUME NEW i \in 0 .. SegmentBytes PROVE g[i] = From(g, i)
    <3>1. CASE i = 0
      BY <3>1
    <3>2. CASE i # 0
      <4>1. i - 1 \in 0 .. SegmentBytes - 1 /\ i - 1 \in 0 .. SegmentBytes /\ (i - 1) + 1 = i
        BY <3>2, SegmentFacts
      <4>2. g[i] = f[i] /\ g[i - 1] = f[i - 1]
        BY <4>1
      <4>3. f[i] = MoveOnce(kind, back, f[i - 1])
        BY <4>1 DEF IsRun
      <4> QED BY <3>2, <4>2, <4>3
    <3> QED BY <3>1, <3>2
  <2> QED BY <2>1
<1>3. Is(after)
  BY <1>2
<1> HIDE DEF after, g
<1>4. \A i \in 0 .. SegmentBytes : after[i] = From(after, i)
  BY <1>3
<1>5. \A i \in 0 .. SegmentBytes : after[i] = f[i]
  <2>1. after[0] = f[0]
    BY <1>4, SegmentFacts
  <2>2. ASSUME NEW i \in 0 .. SegmentBytes - 1, after[i] = f[i] PROVE after[i + 1] = f[i + 1]
    <3>1. i + 1 \in 0 .. SegmentBytes /\ i + 1 # 0 /\ (i + 1) - 1 = i
      BY SegmentFacts
    <3>2. after[i + 1] = MoveOnce(kind, back, after[i])
      BY <1>4, <3>1
    <3>3. f[i + 1] = MoveOnce(kind, back, f[i])
      BY DEF IsRun
    <3> QED BY <2>2, <3>2, <3>3
  <2>3. \A i \in 0 .. SegmentBytes - 1 : after[i] = f[i] => after[i + 1] = f[i + 1]
    BY <2>2
  <2> QED BY ONLY <2>1, <2>3, SegmentFacts, SameRuns
<1> QED BY <1>1, <1>5, SegmentFacts

IsWalk(back, f) == \A i \in 0 .. SegmentBytes - 1 : f[i + 1] = Advance(f[i], back)
Walked(s, f, n) == [i \in 1 .. n |-> s.memory[f[i - 1]]]

LEMMA PortOutIs ==
  ASSUME NEW back, NEW s, NEW f, f[0] = s.si, IsWalk(back, f),
         NEW repeated, NEW n, n = Repeats(repeated, s), n \in 0 .. SegmentBytes
  PROVE  PortOut(back, repeated, s).written = Walked(s, f, Repeats(repeated, s))
<1> DEFINE From(h, i) == IF i = 0 THEN s.si ELSE Advance(h[i - 1], back)
           Is(h) == h = [i \in 0 .. SegmentBytes |-> From(h, i)]
           offset == CHOOSE h : Is(h)
           g == [i \in 0 .. SegmentBytes |-> f[i]]
<1>1. PortOut(back, repeated, s).written = [i \in 1 .. n |-> s.memory[offset[i - 1]]]
  BY Zenon DEF PortOut, Repeats
<1>2. Is(g)
  <2>1. ASSUME NEW i \in 0 .. SegmentBytes PROVE g[i] = From(g, i)
    <3>1. CASE i = 0
      BY <3>1
    <3>2. CASE i # 0
      <4>1. i - 1 \in 0 .. SegmentBytes - 1 /\ i - 1 \in 0 .. SegmentBytes /\ (i - 1) + 1 = i
        BY <3>2, SegmentFacts
      <4>2. g[i] = f[i] /\ g[i - 1] = f[i - 1]
        BY <4>1
      <4>3. f[i] = Advance(f[i - 1], back)
        BY <4>1 DEF IsWalk
      <4> QED BY <3>2, <4>2, <4>3
    <3> QED BY <3>1, <3>2
  <2> QED BY <2>1
<1>3. Is(offset)
  BY <1>2
<1> HIDE DEF offset, g
<1>4. \A i \in 0 .. SegmentBytes : offset[i] = From(offset, i)
  BY <1>3
<1>5. \A i \in 0 .. SegmentBytes : offset[i] = f[i]
  <2>1. offset[0] = f[0]
    BY <1>4, SegmentFacts
  <2>2. ASSUME NEW i \in 0 .. SegmentBytes - 1, offset[i] = f[i] PROVE offset[i + 1] = f[i + 1]
    <3>1. i + 1 \in 0 .. SegmentBytes /\ i + 1 # 0 /\ (i + 1) - 1 = i
      BY SegmentFacts
    <3>2. offset[i + 1] = Advance(offset[i], back)
      BY <1>4, <3>1
    <3>3. f[i + 1] = Advance(f[i], back)
      BY DEF IsWalk
    <3> QED BY <2>2, <3>2, <3>3
  <2>3. \A i \in 0 .. SegmentBytes - 1 : offset[i] = f[i] => offset[i + 1] = f[i + 1]
    BY <2>2
  <2> QED BY ONLY <2>1, <2>3, SegmentFacts, SameRuns
<1>6. \A i \in 1 .. n : i - 1 \in 0 .. SegmentBytes
  BY SegmentFacts
<1> QED BY <1>1, <1>5, <1>6 DEF Walked

\* A run of comparisons, and where it stops.
IsSearch(kind, back, f) ==
  \A i \in 0 .. SegmentBytes - 1 : f[i + 1] = CountedDown(CompareOnce(kind, back, f[i]))
StopsAt(prefix, f, last) ==
  /\ Stops(prefix = "repe", f[last])
  /\ \A j \in 1 .. last - 1 : ~Stops(prefix = "repe", f[j])

LEMMA ComparesAre ==
  ASSUME NEW kind, NEW back, NEW s, NEW f, f[0] = s, IsSearch(kind, back, f),
         NEW prefix, prefix # "none", s.cx \in 1 .. SegmentBytes,
         NEW last \in 1 .. s.cx, StopsAt(prefix, f, last)
  PROVE  Compare(kind, back, prefix, s) = f[last]
<1> DEFINE From(h, i) == IF i = 0 THEN s ELSE CountedDown(CompareOnce(kind, back, h[i - 1]))
           Is(h) == h = [i \in 0 .. SegmentBytes |-> From(h, i)]
           after == CHOOSE h : Is(h)
           g == [i \in 0 .. SegmentBytes |-> f[i]]
           Ends(h, i) == /\ Stops(prefix = "repe", h[i])
                         /\ \A j \in 1 .. i - 1 : ~Stops(prefix = "repe", h[j])
<1>1. Compare(kind, back, prefix, s) = after[CHOOSE i \in 1 .. s.cx : Ends(after, i)]
  <2>1. s.cx # 0
    OBVIOUS
  <2> QED BY <2>1, Zenon DEF Compare
<1>2. Is(g)
  <2>1. ASSUME NEW i \in 0 .. SegmentBytes PROVE g[i] = From(g, i)
    <3>1. CASE i = 0
      BY <3>1
    <3>2. CASE i # 0
      <4>1. i - 1 \in 0 .. SegmentBytes - 1 /\ i - 1 \in 0 .. SegmentBytes /\ (i - 1) + 1 = i
        BY <3>2, SegmentFacts
      <4>2. g[i] = f[i] /\ g[i - 1] = f[i - 1]
        BY <4>1
      <4>3. f[i] = CountedDown(CompareOnce(kind, back, f[i - 1]))
        BY <4>1 DEF IsSearch
      <4> QED BY <3>2, <4>2, <4>3
    <3> QED BY <3>1, <3>2
  <2> QED BY <2>1
<1>3. Is(after)
  BY <1>2
<1> HIDE DEF after, g
<1>4. \A i \in 0 .. SegmentBytes : after[i] = From(after, i)
  BY <1>3
<1>5. \A i \in 0 .. SegmentBytes : after[i] = f[i]
  <2>1. after[0] = f[0]
    BY <1>4, SegmentFacts
  <2>2. ASSUME NEW i \in 0 .. SegmentBytes - 1, after[i] = f[i] PROVE after[i + 1] = f[i + 1]
    <3>1. i + 1 \in 0 .. SegmentBytes /\ i + 1 # 0 /\ (i + 1) - 1 = i
      BY SegmentFacts
    <3>2. after[i + 1] = CountedDown(CompareOnce(kind, back, after[i]))
      BY <1>4, <3>1
    <3>3. f[i + 1] = CountedDown(CompareOnce(kind, back, f[i]))
      BY DEF IsSearch
    <3> QED BY <2>2, <3>2, <3>3
  <2>3. \A i \in 0 .. SegmentBytes - 1 : after[i] = f[i] => after[i + 1] = f[i + 1]
    BY <2>2
  <2> QED BY ONLY <2>1, <2>3, SegmentFacts, SameRuns
<1>6. \A i \in 1 .. s.cx : Stops(prefix = "repe", after[i]) <=> Stops(prefix = "repe", f[i])
  BY <1>5, SegmentFacts
<1> DEFINE S(i) == Stops(prefix = "repe", after[i])
<1>7. S(last) /\ \A j \in 1 .. last - 1 : ~S(j)
  BY <1>6 DEF StopsAt
<1> HIDE DEF S
<1>8. ASSUME NEW i \in 1 .. s.cx, S(i), \A j \in 1 .. i - 1 : ~S(j) PROVE i = last
  <2>1. i \in Nat /\ last \in Nat /\ i >= 1 /\ last >= 1
    OBVIOUS
  <2>2. ~(i < last) /\ ~(last < i)
    BY <1>7, <1>8, <2>1
  <2> QED BY <2>1, <2>2
<1>9. (CHOOSE i \in 1 .. s.cx : Ends(after, i)) = last
  <2>1. \A i : i \in 1 .. s.cx /\ Ends(after, i) <=> i = last
    BY <1>7, <1>8, Zenon DEF S
  <2> QED BY <2>1, Zenon
<1>10. last \in 0 .. SegmentBytes
  BY SegmentFacts
<1> QED BY <1>1, <1>5, <1>9, <1>10

Received(s, byte, back) ==
  [s EXCEPT !.memory[s.di] = byte, !.di = Advance(@, back)]

IsReceipt(bytes, back, f) ==
  \A i \in 0 .. SegmentBytes - 1 : f[i + 1] = Received(f[i], bytes[i + 1], back)
Tallied(t, repeated) == [t EXCEPT !.cx = IF repeated THEN 0 ELSE @]

LEMMA PortInIs ==
  ASSUME NEW back, NEW s, NEW f, NEW bytes, f[0] = s, IsReceipt(bytes, back, f),
         NEW repeated, Repeats(repeated, s) \in 0 .. SegmentBytes
  PROVE  PortIn(back, repeated, s, bytes) = Tallied(f[Repeats(repeated, s)], repeated)
<1> DEFINE From(h, i) == IF i = 0 THEN s ELSE Received(h[i - 1], bytes[i], back)
           Is(h) == h = [i \in 0 .. SegmentBytes |-> From(h, i)]
           after == CHOOSE h : Is(h)
           g == [i \in 0 .. SegmentBytes |-> f[i]]
<1>1. PortIn(back, repeated, s, bytes)
        = Tallied(after[Repeats(repeated, s)], repeated)
  BY Zenon DEF PortIn, Received, Tallied, Repeats
<1>2. Is(g)
  <2>1. ASSUME NEW i \in 0 .. SegmentBytes PROVE g[i] = From(g, i)
    <3>1. CASE i = 0
      BY <3>1
    <3>2. CASE i # 0
      <4>1. i - 1 \in 0 .. SegmentBytes - 1 /\ i - 1 \in 0 .. SegmentBytes /\ (i - 1) + 1 = i
        BY <3>2, SegmentFacts
      <4>2. g[i] = f[i] /\ g[i - 1] = f[i - 1]
        BY <4>1
      <4>3. f[i] = Received(f[i - 1], bytes[i], back)
        BY <4>1 DEF IsReceipt
      <4> QED BY <3>2, <4>2, <4>3
    <3> QED BY <3>1, <3>2
  <2> QED BY <2>1
<1>3. Is(after)
  BY <1>2
<1> HIDE DEF after, g
<1>4. \A i \in 0 .. SegmentBytes : after[i] = From(after, i)
  BY <1>3
<1>5. \A i \in 0 .. SegmentBytes : after[i] = f[i]
  <2>1. after[0] = f[0]
    BY <1>4, SegmentFacts
  <2>2. ASSUME NEW i \in 0 .. SegmentBytes - 1, after[i] = f[i] PROVE after[i + 1] = f[i + 1]
    <3>1. i + 1 \in 0 .. SegmentBytes /\ i + 1 # 0 /\ (i + 1) - 1 = i
      BY SegmentFacts
    <3>2. after[i + 1] = Received(after[i], bytes[i + 1], back)
      BY <1>4, <3>1
    <3>3. f[i + 1] = Received(f[i], bytes[i + 1], back)
      BY DEF IsReceipt
    <3> QED BY <2>2, <3>2, <3>3
  <2>3. \A i \in 0 .. SegmentBytes - 1 : after[i] = f[i] => after[i + 1] = f[i + 1]
    BY <2>2
  <2> QED BY ONLY <2>1, <2>3, SegmentFacts, SameRuns
<1> QED BY <1>1, <1>5, SegmentFacts

\* The state of a string instruction, field by field.
StringState(m, si, di, cx, ax, e, b) ==
  [memory |-> m, si |-> si, di |-> di, cx |-> cx, ax |-> ax, equal |-> e, below |-> b]
StateFields == {"memory", "si", "di", "cx", "ax", "equal", "below"}
IsState(t) == t = [f \in StateFields |-> t[f]]

LEMMA StateForms ==
  ASSUME NEW s \in Strings
  PROVE  /\ IsState(s)
         /\ s = StringState(s.memory, s.si, s.di, s.cx, s.ax, s.equal, s.below)
         /\ s.memory = [o \in Offsets |-> s.memory[o]]
         /\ s.si \in Offsets /\ s.di \in Offsets
         /\ s.cx \in 0 .. SegmentBytes - 1
<1>1. /\ s.memory \in [Offsets -> CellValues]
      /\ s.si \in Offsets /\ s.di \in Offsets
      /\ s.cx \in 0 .. SegmentBytes - 1
  BY DEF Strings
<1>2. s = StringState(s.memory, s.si, s.di, s.cx, s.ax, s.equal, s.below)
  BY DEF Strings, StringState
<1>3. IsState(s)
  BY DEF Strings, IsState, StateFields
<1> QED BY <1>1, <1>2, <1>3

LEMMA FieldsOf ==
  ASSUME NEW m, NEW si, NEW di, NEW cx, NEW ax, NEW e, NEW b,
         NEW t, t = StringState(m, si, di, cx, ax, e, b)
  PROVE  /\ IsState(t)
         /\ t.memory = m /\ t.si = si /\ t.di = di /\ t.cx = cx /\ t.ax = ax
         /\ t.equal = e /\ t.below = b
<1>1. IsState(t)
  BY DEF StringState, IsState, StateFields
<1>2. /\ t.memory = m /\ t.si = si /\ t.di = di /\ t.cx = cx /\ t.ax = ax
      /\ t.equal = e /\ t.below = b
  BY DEF StringState
<1> QED BY <1>1, <1>2

\* Changing fields leaves the others.
LEMMA FourChanges ==
  ASSUME NEW S, NEW t, NEW x, NEW y, NEW z, NEW u, NEW a, NEW b, NEW c, NEW d,
         {a, b, c, d} \subseteq S, t = [f \in S |-> t[f]]
  PROVE  [t EXCEPT ![a] = x, ![b] = y, ![c] = z, ![d] = u]
           = [f \in S |-> IF f = d THEN u ELSE IF f = c THEN z ELSE IF f = b THEN y
                          ELSE IF f = a THEN x ELSE t[f]]
OBVIOUS

Moved(t, x, y, z, u) == [t EXCEPT !.memory = x, !.ax = y, !.si = z, !.di = u]
Compared(t, x, y, z, u) == [t EXCEPT !.equal = x, !.below = y, !.si = z, !.di = u]

LEMMA StateChanges ==
  ASSUME NEW t, IsState(t), NEW x, NEW y, NEW z, NEW u
  PROVE  /\ Moved(t, x, y, z, u)
              = StringState(x, z, u, t.cx, y, t.equal, t.below)
         /\ Compared(t, x, y, z, u)
              = StringState(t.memory, z, u, t.cx, t.ax, x, y)
<1>1. Moved(t, x, y, z, u)
        = [f \in StateFields |-> IF f = "di" THEN u ELSE IF f = "si" THEN z
                                 ELSE IF f = "ax" THEN y ELSE IF f = "memory" THEN x ELSE t[f]]
  <2>1. {"memory", "ax", "si", "di"} \subseteq StateFields
    BY DEF StateFields
  <2> QED BY <2>1, FourChanges DEF IsState, Moved, Compared
<1>2. [f \in StateFields |-> IF f = "di" THEN u ELSE IF f = "si" THEN z
                             ELSE IF f = "ax" THEN y ELSE IF f = "memory" THEN x ELSE t[f]]
        = StringState(x, z, u, t.cx, y, t.equal, t.below)
  BY DEF StateFields, StringState
<1>3. Compared(t, x, y, z, u)
        = [f \in StateFields |-> IF f = "di" THEN u ELSE IF f = "si" THEN z
                                 ELSE IF f = "below" THEN y ELSE IF f = "equal" THEN x ELSE t[f]]
  <2>1. {"equal", "below", "si", "di"} \subseteq StateFields
    BY DEF StateFields
  <2> QED BY <2>1, FourChanges DEF IsState, Moved, Compared
<1>4. [f \in StateFields |-> IF f = "di" THEN u ELSE IF f = "si" THEN z
                             ELSE IF f = "below" THEN y ELSE IF f = "equal" THEN x ELSE t[f]]
        = StringState(t.memory, z, u, t.cx, t.ax, x, y)
  BY DEF StateFields, StringState
<1> QED BY <1>1, <1>2, <1>3, <1>4

\* One step of each instruction.
LEMMA MoveForms ==
  ASSUME NEW t, IsState(t), NEW back
  PROVE  /\ MoveOnce("MOVS", back, t)
              = StringState([t.memory EXCEPT ![t.di] = t.memory[t.si]], Advance(t.si, back),
                            Advance(t.di, back), t.cx, t.ax, t.equal, t.below)
         /\ MoveOnce("STOS", back, t)
              = StringState([t.memory EXCEPT ![t.di] = t.ax], t.si, Advance(t.di, back),
                            t.cx, t.ax, t.equal, t.below)
         /\ MoveOnce("LODS", back, t)
              = StringState(t.memory, Advance(t.si, back), t.di, t.cx, t.memory[t.si],
                            t.equal, t.below)
<1>1. MoveOnce("MOVS", back, t)
        = Moved(t, [t.memory EXCEPT ![t.di] = t.memory[t.si]], t.ax, Advance(t.si, back),
                Advance(t.di, back))
  BY DEF MoveOnce, Moved
<1>2. MoveOnce("STOS", back, t)
        = Moved(t, [t.memory EXCEPT ![t.di] = t.ax], t.ax, t.si, Advance(t.di, back))
  BY DEF MoveOnce, Moved
<1>3. MoveOnce("LODS", back, t)
        = Moved(t, t.memory, t.memory[t.si], Advance(t.si, back), t.di)
  BY DEF MoveOnce, Moved
<1> QED BY <1>1, <1>2, <1>3, StateChanges

LEMMA CompareForms ==
  ASSUME NEW t, IsState(t), NEW back
  PROVE  /\ CompareOnce("CMPS", back, t)
              = StringState(t.memory, Advance(t.si, back), Advance(t.di, back), t.cx, t.ax,
                            t.memory[t.si] = t.memory[t.di], t.memory[t.si] < t.memory[t.di])
         /\ CompareOnce("SCAS", back, t)
              = StringState(t.memory, t.si, Advance(t.di, back), t.cx, t.ax,
                            t.ax = t.memory[t.di], t.ax < t.memory[t.di])
         /\ CountedDown(t)
              = StringState(t.memory, t.si, t.di, t.cx - 1, t.ax, t.equal, t.below)
<1>1. CompareOnce("CMPS", back, t)
        = Compared(t, t.memory[t.si] = t.memory[t.di], t.memory[t.si] < t.memory[t.di],
                   Advance(t.si, back), Advance(t.di, back))
  BY DEF CompareOnce, Compared
<1>2. CompareOnce("SCAS", back, t)
        = Compared(t, t.ax = t.memory[t.di], t.ax < t.memory[t.di], t.si, Advance(t.di, back))
  BY DEF CompareOnce, Compared
<1>3. CountedDown(t) = StringState(t.memory, t.si, t.di, t.cx - 1, t.ax, t.equal, t.below)
  BY DEF CountedDown, StringState, IsState, StateFields
<1> QED BY <1>1, <1>2, <1>3, StateChanges

LEMMA ReceivedForm ==
  ASSUME NEW t, IsState(t), NEW back, NEW byte
  PROVE  Received(t, byte, back)
           = StringState([t.memory EXCEPT ![t.di] = byte], t.si, Advance(t.di, back),
                         t.cx, t.ax, t.equal, t.below)
<1>1. Received(t, byte, back)
        = Moved(t, [t.memory EXCEPT ![t.di] = byte], t.ax, t.si, Advance(t.di, back))
  BY DEF Received, Moved, IsState, StateFields
<1> QED BY <1>1, StateChanges

LEMMA WriteNone ==
  ASSUME NEW s \in Strings, NEW back, NEW value
  PROVE  Written(back, s, 0, value) = s.memory
<1>1. ASSUME NEW o \in Offsets PROVE ~(StepsTo(back, s.di, o) < 0)
  <2>1. IsSteps(back, s.di, o, StepsTo(back, s.di, o))
    BY StateForms, StepsForms
  <2> QED BY <2>1, SegmentFacts DEF IsSteps
<1>2. Written(back, s, 0, value) = [o \in Offsets |-> s.memory[o]]
  BY <1>1 DEF Written
<1> QED BY <1>2, StateForms

LEMMA WriteNext ==
  ASSUME NEW s \in Strings, NEW back, NEW value, NEW k \in Offsets
  PROVE  [Written(back, s, k, value) EXCEPT ![Place(back, s.di, k)] = value[k]]
           = Written(back, s, k + 1, value)
<1>1. PICK p : p = Place(back, s.di, k)
  OBVIOUS
<1>2. p \in Offsets /\ k \in Nat /\ s.di \in Offsets
  <2>1. s.di \in Offsets
    BY StateForms
  <2>2. Place(back, s.di, k) \in Offsets
    BY <2>1, PlaceSteps
  <2> QED BY <1>1, <2>1, <2>2, SegmentFacts
<1>3. ASSUME NEW o \in Offsets
      PROVE  [Written(back, s, k, value) EXCEPT ![p] = value[k]][o]
               = Written(back, s, k + 1, value)[o]
  <2>1. PICK j : j = StepsTo(back, s.di, o) /\ j \in Nat
    <3>1. StepsTo(back, s.di, o) \in Offsets
      BY <1>2, StepsPlace
    <3> QED BY <3>1, SegmentFacts
  <2>2. o = p <=> j = k
    <3>1. StepsTo(back, s.di, Place(back, s.di, k)) = k
      BY <1>2, PlaceSteps
    <3>2. Place(back, s.di, StepsTo(back, s.di, o)) = o
      BY <1>2, StepsPlace
    <3> QED BY <1>1, <2>1, <3>1, <3>2, Zenon
  <2>3. Written(back, s, k, value)[o] = IF j < k THEN value[j] ELSE s.memory[o]
    BY <2>1 DEF Written
  <2>4. Written(back, s, k + 1, value)[o] = IF j < k + 1 THEN value[j] ELSE s.memory[o]
    BY <2>1 DEF Written
  <2>5. [Written(back, s, k, value) EXCEPT ![p] = value[k]][o]
          = IF o = p THEN value[k] ELSE Written(back, s, k, value)[o]
    BY DEF Written
  <2>6. j < k + 1 <=> j < k \/ j = k
    BY <1>2, <2>1
  <2> QED BY <2>2, <2>3, <2>4, <2>5, <2>6
<1>4. /\ [Written(back, s, k, value) EXCEPT ![p] = value[k]]
            = [o \in Offsets |-> [Written(back, s, k, value) EXCEPT ![p] = value[k]][o]]
      /\ Written(back, s, k + 1, value)
            = [o \in Offsets |-> Written(back, s, k + 1, value)[o]]
  BY DEF Written
<1> QED BY <1>1, <1>3, <1>4

\* A copy onto itself reads what the copies write.
LEMMA SourceRead ==
  ASSUME NEW s \in Strings, NEW back, NEW k \in Offsets
  PROVE  Written(back, s, k, Copies(back, s))[Place(back, s.si, k)] = Copies(back, s)[k]
<1>1. s.si \in Offsets /\ s.di \in Offsets
  BY StateForms
<1>2. PICK gap : gap = StepsTo(back, s.si, s.di) /\ gap \in Offsets
  BY <1>1, StepsPlace
<1>3. PICK o : o = Place(back, s.si, k) /\ o \in Offsets
  BY <1>1, PlaceSteps
<1>4. PICK j : /\ j = StepsTo(back, s.di, o) /\ j \in Offsets
               /\ j = IF k >= gap THEN k - gap ELSE (k - gap) + SegmentBytes
  <2>1. StepsTo(back, s.di, o) \in Offsets
    BY <1>1, <1>3, StepsPlace
  <2>2. StepsTo(back, s.di, Place(back, s.si, k))
          = IF k >= gap THEN k - gap ELSE (k - gap) + SegmentBytes
    BY <1>1, <1>2, Behind
  <2> QED BY <1>3, <2>1, <2>2
<1>5. Written(back, s, k, Copies(back, s))[o]
        = IF j < k THEN Copies(back, s)[j] ELSE s.memory[o]
  BY <1>3, <1>4 DEF Written
<1>6. /\ Copies(back, s)[k] = s.memory[Place(back, s.si, Around(gap, k))]
      /\ Copies(back, s)[j] = s.memory[Place(back, s.si, Around(gap, j))]
  BY <1>2, <1>4 DEF Copies
<1>7. k \in Nat /\ gap \in Nat /\ j \in Nat /\ k < SegmentBytes /\ gap < SegmentBytes
      /\ SegmentBytes \in Nat
  BY <1>2, <1>4, SegmentFacts
<1>8. CASE k < gap \/ gap = 0
  <2>1. ~(j < k)
    BY <1>4, <1>7, <1>8
  <2>2. Around(gap, k) = k
    BY <1>7, <1>8, AroundGap DEF Around
  <2> QED BY <1>3, <1>5, <1>6, <2>1, <2>2
<1>9. CASE k >= gap /\ gap # 0
  <2>1. j < k /\ j = k - gap
    BY <1>4, <1>7, <1>9
  <2>2. Around(gap, j) = Around(gap, k)
    BY <1>7, <1>9, <2>1, AroundGap DEF Around
  <2> QED BY <1>3, <1>5, <1>6, <2>1, <2>2
<1> QED BY <1>7, <1>8, <1>9

LEMMA RepeatsFit ==
  ASSUME NEW s \in Strings, NEW repeated, NEW n, n = Repeats(repeated, s)
  PROVE  n \in 0 .. SegmentBytes /\ s.cx \in 0 .. SegmentBytes /\ 1 \in 0 .. SegmentBytes
BY StateForms, SegmentFacts DEF Repeats

\* A state with some fields changed, as one of all fields.
Ending(s, m, si, di, cx, ax) == StringState(m, si, di, cx, ax, s.equal, s.below)
Replaced(s, m, si, di, cx, ax) ==
  [s EXCEPT !.memory = m, !.si = si, !.di = di, !.cx = cx, !.ax = ax]

LEMMA FiveChanges ==
  ASSUME NEW S, NEW t, NEW x, NEW y, NEW z, NEW u, NEW v, NEW a, NEW b, NEW c, NEW d, NEW e,
         {a, b, c, d, e} \subseteq S, t = [f \in S |-> t[f]]
  PROVE  [t EXCEPT ![a] = x, ![b] = y, ![c] = z, ![d] = u, ![e] = v]
           = [f \in S |-> IF f = e THEN v ELSE IF f = d THEN u ELSE IF f = c THEN z
                          ELSE IF f = b THEN y ELSE IF f = a THEN x ELSE t[f]]
OBVIOUS

LEMMA ReplacedIs ==
  ASSUME NEW s \in Strings, NEW m, NEW si, NEW di, NEW cx, NEW ax
  PROVE  Replaced(s, m, si, di, cx, ax) = Ending(s, m, si, di, cx, ax)
<1>1. IsState(s)
  BY StateForms
<1>2. {"memory", "si", "di", "cx", "ax"} \subseteq StateFields
  BY DEF StateFields
<1>3. Replaced(s, m, si, di, cx, ax)
        = [f \in StateFields |-> IF f = "ax" THEN ax ELSE IF f = "cx" THEN cx
                                 ELSE IF f = "di" THEN di ELSE IF f = "si" THEN si
                                 ELSE IF f = "memory" THEN m ELSE s[f]]
  BY <1>1, <1>2, FiveChanges DEF IsState, Replaced
<1>4. [f \in StateFields |-> IF f = "ax" THEN ax ELSE IF f = "cx" THEN cx
                             ELSE IF f = "di" THEN di ELSE IF f = "si" THEN si
                             ELSE IF f = "memory" THEN m ELSE s[f]]
        = StringState(m, si, di, cx, ax, s.equal, s.below)
  BY DEF StateFields, StringState
<1> QED BY <1>3, <1>4 DEF Ending

\* A move leaves what its run has after the last one, with the count used up.
LEMMA RunEnds ==
  ASSUME NEW s \in Strings, NEW kind, NEW back, NEW repeated,
         NEW f, f[0] = s, IsRun(kind, back, f), NEW m, NEW si, NEW di, NEW ax,
         f[Repeats(repeated, s)] = Ending(s, m, si, di, s.cx, ax)
  PROVE  Move(kind, back, repeated, s)
           = Ending(s, m, si, di, IF repeated THEN 0 ELSE s.cx, ax)
<1>1. PICK t : t = f[Repeats(repeated, s)]
  OBVIOUS
<1>2. s.cx \in 0 .. SegmentBytes
  BY RepeatsFit
<1>3. Move(kind, back, repeated, s) = IF repeated THEN Emptied(f[s.cx]) ELSE f[1]
  BY ONLY f[0] = s, IsRun(kind, back, f), <1>2, MovesAre
<1>4. Move(kind, back, repeated, s) = IF repeated THEN Emptied(t) ELSE t
  BY <1>1, <1>3 DEF Repeats
<1>5. t = StringState(m, si, di, s.cx, ax, s.equal, s.below)
  BY <1>1 DEF Ending
<1>6. Emptied(t) = StringState(m, si, di, 0, ax, s.equal, s.below)
  BY <1>5 DEF Emptied, StringState
<1> QED BY <1>4, <1>5, <1>6 DEF Ending

\* After n copies.
LEMMA CopiesAre ==
  ASSUME NEW s \in Strings, NEW back, NEW repeated
  PROVE  Move("MOVS", back, repeated, s) = RefMove("MOVS", back, repeated, s)
<1> DEFINE At(i) == StringState(Written(back, s, i, Copies(back, s)), Place(back, s.si, i),
                                Place(back, s.di, i), s.cx, s.ax, s.equal, s.below)
           f == [i \in 0 .. SegmentBytes |-> At(i)]
<1>1. s.si \in Offsets /\ s.di \in Offsets
  BY StateForms
<1>2. f[0] = s
  <2>1. f[0] = At(0)
    BY SegmentFacts
  <2>2. At(0) = StringState(s.memory, s.si, s.di, s.cx, s.ax, s.equal, s.below)
    BY <1>1, WriteNone, PlaceZero
  <2> QED BY <2>1, <2>2, StateForms
<1>3. ASSUME NEW i \in 0 .. SegmentBytes - 1
      PROVE  f[i + 1] = MoveOnce("MOVS", back, f[i])
  <2>1. i \in Offsets /\ f[i] = At(i) /\ f[i + 1] = At(i + 1)
    BY SegmentFacts
  <2>2. PICK t : t = f[i] /\ t = At(i)
    BY <2>1
  <2> HIDE DEF f
  <2>3. /\ IsState(t) /\ t.memory = Written(back, s, i, Copies(back, s))
        /\ t.si = Place(back, s.si, i) /\ t.di = Place(back, s.di, i) /\ t.cx = s.cx /\ t.ax = s.ax
        /\ t.equal = s.equal /\ t.below = s.below
    BY <2>2, FieldsOf
  <2>4. MoveOnce("MOVS", back, t)
          = StringState([t.memory EXCEPT ![t.di] = t.memory[t.si]], Advance(t.si, back),
                        Advance(t.di, back), t.cx, t.ax, t.equal, t.below)
    BY <2>3, MoveForms
  <2>5. [t.memory EXCEPT ![t.di] = t.memory[t.si]] = Written(back, s, i + 1, Copies(back, s))
    <3>1. t.memory[t.si] = Copies(back, s)[i]
      BY <2>1, <2>3, SourceRead
    <3>2. [Written(back, s, i, Copies(back, s)) EXCEPT ![Place(back, s.di, i)] = Copies(back, s)[i]]
            = Written(back, s, i + 1, Copies(back, s))
      BY <2>1, WriteNext
    <3> QED BY <2>3, <3>1, <3>2
  <2>6. Advance(t.si, back) = Place(back, s.si, i + 1) /\ Advance(t.di, back) = Place(back, s.di, i + 1)
    BY <1>1, <2>1, <2>3, AdvancePlace
  <2>7. MoveOnce("MOVS", back, t) = At(i + 1)
    BY <2>3, <2>4, <2>5, <2>6
  <2> QED BY <2>1, <2>2, <2>7
<1>4. PICK n, cx : n = Repeats(repeated, s) /\ cx = IF repeated THEN 0 ELSE s.cx
  OBVIOUS
<1>5. n \in 0 .. SegmentBytes
  BY <1>4, RepeatsFit
<1>6. f[n] = Ending(s, Written(back, s, n, Copies(back, s)), Place(back, s.si, n), Place(back, s.di, n), s.cx, s.ax)
  BY <1>5 DEF Ending
<1>7. IsRun("MOVS", back, f)
  BY <1>3 DEF IsRun
<1> HIDE DEF f
<1>8. Move("MOVS", back, repeated, s)
        = Ending(s, Written(back, s, n, Copies(back, s)), Place(back, s.si, n), Place(back, s.di, n), cx, s.ax)
  BY <1>2, <1>4, <1>6, <1>7, RunEnds
<1>9. RefMove("MOVS", back, repeated, s)
        = Replaced(s, Written(back, s, n, Copies(back, s)), Place(back, s.si, n), Place(back, s.di, n), cx, s.ax)
  BY <1>4 DEF RefMove, Replaced
<1> QED BY <1>8, <1>9, ReplacedIs

\* After n stores.
LEMMA StoresAre ==
  ASSUME NEW s \in Strings, NEW back, NEW repeated
  PROVE  Move("STOS", back, repeated, s) = RefMove("STOS", back, repeated, s)
<1> DEFINE At(i) == StringState(Written(back, s, i, Stores(s)), s.si,
                                Place(back, s.di, i), s.cx, s.ax, s.equal, s.below)
           f == [i \in 0 .. SegmentBytes |-> At(i)]
<1>1. s.di \in Offsets
  BY StateForms
<1>2. f[0] = s
  <2>1. f[0] = At(0)
    BY SegmentFacts
  <2>2. At(0) = StringState(s.memory, s.si, s.di, s.cx, s.ax, s.equal, s.below)
    BY <1>1, WriteNone, PlaceZero
  <2> QED BY <2>1, <2>2, StateForms
<1>3. ASSUME NEW i \in 0 .. SegmentBytes - 1
      PROVE  f[i + 1] = MoveOnce("STOS", back, f[i])
  <2>1. i \in Offsets /\ f[i] = At(i) /\ f[i + 1] = At(i + 1)
    BY SegmentFacts
  <2>2. PICK t : t = f[i] /\ t = At(i)
    BY <2>1
  <2> HIDE DEF f
  <2>3. /\ IsState(t) /\ t.memory = Written(back, s, i, Stores(s))
        /\ t.si = s.si /\ t.di = Place(back, s.di, i) /\ t.cx = s.cx /\ t.ax = s.ax
        /\ t.equal = s.equal /\ t.below = s.below
    BY <2>2, FieldsOf
  <2>4. MoveOnce("STOS", back, t)
          = StringState([t.memory EXCEPT ![t.di] = t.ax], t.si, Advance(t.di, back),
                        t.cx, t.ax, t.equal, t.below)
    BY <2>3, MoveForms
  <2>5. [t.memory EXCEPT ![t.di] = t.ax] = Written(back, s, i + 1, Stores(s))
    <3>1. t.ax = Stores(s)[i]
      BY <2>1, <2>3 DEF Stores
    <3>2. [Written(back, s, i, Stores(s)) EXCEPT ![Place(back, s.di, i)] = Stores(s)[i]]
            = Written(back, s, i + 1, Stores(s))
      BY <2>1, WriteNext
    <3> QED BY <2>3, <3>1, <3>2
  <2>6. Advance(t.di, back) = Place(back, s.di, i + 1)
    BY <1>1, <2>1, <2>3, AdvancePlace
  <2>7. MoveOnce("STOS", back, t) = At(i + 1)
    BY <2>3, <2>4, <2>5, <2>6
  <2> QED BY <2>1, <2>2, <2>7
<1>4. PICK n, cx : n = Repeats(repeated, s) /\ cx = IF repeated THEN 0 ELSE s.cx
  OBVIOUS
<1>5. n \in 0 .. SegmentBytes
  BY <1>4, RepeatsFit
<1>6. f[n] = Ending(s, Written(back, s, n, Stores(s)), s.si, Place(back, s.di, n), s.cx, s.ax)
  BY <1>5 DEF Ending
<1>7. IsRun("STOS", back, f)
  BY <1>3 DEF IsRun
<1> HIDE DEF f
<1>8. Move("STOS", back, repeated, s)
        = Ending(s, Written(back, s, n, Stores(s)), s.si, Place(back, s.di, n), cx, s.ax)
  BY <1>2, <1>4, <1>6, <1>7, RunEnds
<1>9. RefMove("STOS", back, repeated, s)
        = Replaced(s, Written(back, s, n, Stores(s)), s.si, Place(back, s.di, n), cx, s.ax)
  BY <1>4 DEF RefMove, Replaced
<1> QED BY <1>8, <1>9, ReplacedIs

\* After n loads.
LEMMA LoadsAre ==
  ASSUME NEW s \in Strings, NEW back, NEW repeated
  PROVE  Move("LODS", back, repeated, s) = RefMove("LODS", back, repeated, s)
<1> DEFINE At(i) == StringState(s.memory, Place(back, s.si, i), s.di, s.cx,
                                Loaded(back, s, i), s.equal, s.below)
           f == [i \in 0 .. SegmentBytes |-> At(i)]
<1>1. s.si \in Offsets
  BY StateForms
<1>2. f[0] = s
  <2>1. f[0] = At(0)
    BY SegmentFacts
  <2>2. At(0) = StringState(s.memory, s.si, s.di, s.cx, s.ax, s.equal, s.below)
    BY <1>1, PlaceZero DEF Loaded
  <2> QED BY <2>1, <2>2, StateForms
<1>3. ASSUME NEW i \in 0 .. SegmentBytes - 1
      PROVE  f[i + 1] = MoveOnce("LODS", back, f[i])
  <2>1. i \in Offsets /\ f[i] = At(i) /\ f[i + 1] = At(i + 1)
    BY SegmentFacts
  <2>2. PICK t : t = f[i] /\ t = At(i)
    BY <2>1
  <2> HIDE DEF f
  <2>3. /\ IsState(t) /\ t.memory = s.memory /\ t.si = Place(back, s.si, i) /\ t.di = s.di
        /\ t.cx = s.cx /\ t.equal = s.equal /\ t.below = s.below
    BY <2>2, FieldsOf
  <2>4. MoveOnce("LODS", back, t)
          = StringState(t.memory, Advance(t.si, back), t.di, t.cx, t.memory[t.si],
                        t.equal, t.below)
    BY <2>3, MoveForms
  <2>5. t.memory[t.si] = Loaded(back, s, i + 1)
    <3>1. i + 1 # 0 /\ (i + 1) - 1 = i
      OBVIOUS
    <3> QED BY <2>3, <3>1 DEF Loaded
  <2>6. Advance(t.si, back) = Place(back, s.si, i + 1)
    BY <1>1, <2>1, <2>3, AdvancePlace
  <2>7. MoveOnce("LODS", back, t) = At(i + 1)
    BY <2>3, <2>4, <2>5, <2>6
  <2> QED BY <2>1, <2>2, <2>7
<1>4. PICK n, cx : n = Repeats(repeated, s) /\ cx = IF repeated THEN 0 ELSE s.cx
  OBVIOUS
<1>5. n \in 0 .. SegmentBytes
  BY <1>4, RepeatsFit
<1>6. f[n] = Ending(s, s.memory, Place(back, s.si, n), s.di, s.cx, Loaded(back, s, n))
  BY <1>5 DEF Ending
<1>7. IsRun("LODS", back, f)
  BY <1>3 DEF IsRun
<1> HIDE DEF f
<1>8. Move("LODS", back, repeated, s)
        = Ending(s, s.memory, Place(back, s.si, n), s.di, cx, Loaded(back, s, n))
  BY <1>2, <1>4, <1>6, <1>7, RunEnds
<1>9. RefMove("LODS", back, repeated, s)
        = Replaced(s, s.memory, Place(back, s.si, n), s.di, cx, Loaded(back, s, n))
  BY <1>4 DEF RefMove, Replaced
<1> QED BY <1>8, <1>9, ReplacedIs

\* The state after i comparisons, the count counting down.
Looking(kind, back, s, i) == IF kind = "SCAS" THEN s.si ELSE Place(back, s.si, i)
Looked(kind, back, s, i, cx) ==
  StringState(s.memory, Looking(kind, back, s, i), Place(back, s.di, i), cx, s.ax,
              IF i = 0 THEN s.equal ELSE Alike(kind, back, s, i),
              IF i = 0 THEN s.below ELSE Lower(kind, back, s, i))

LEMMA LookedNone ==
  ASSUME NEW s \in Strings, NEW kind, NEW back
  PROVE  Looked(kind, back, s, 0, s.cx) = s
<1>1. s.si \in Offsets /\ s.di \in Offsets
  BY StateForms
<1>2. Looking(kind, back, s, 0) = s.si /\ Place(back, s.di, 0) = s.di
  BY <1>1, PlaceZero DEF Looking
<1>3. Looked(kind, back, s, 0, s.cx)
        = StringState(s.memory, s.si, s.di, s.cx, s.ax, s.equal, s.below)
  BY <1>2 DEF Looked
<1> QED BY <1>3, StateForms

LEMMA LookedFields ==
  ASSUME NEW s, NEW kind, NEW back, NEW i, NEW cx, NEW t, t = Looked(kind, back, s, i, cx)
  PROVE  /\ IsState(t) /\ t.memory = s.memory /\ t.si = Looking(kind, back, s, i)
         /\ t.di = Place(back, s.di, i) /\ t.cx = cx /\ t.ax = s.ax
         /\ i # 0 => /\ t.equal = Alike(kind, back, s, i)
                     /\ t.below = Lower(kind, back, s, i)
<1>1. PICK e, b : /\ e = IF i = 0 THEN s.equal ELSE Alike(kind, back, s, i)
                  /\ b = IF i = 0 THEN s.below ELSE Lower(kind, back, s, i)
  OBVIOUS
<1>2. t = StringState(s.memory, Looking(kind, back, s, i), Place(back, s.di, i), cx, s.ax, e, b)
  BY <1>1 DEF Looked
<1>3. /\ IsState(t) /\ t.memory = s.memory /\ t.si = Looking(kind, back, s, i)
      /\ t.di = Place(back, s.di, i) /\ t.cx = cx /\ t.ax = s.ax /\ t.equal = e /\ t.below = b
  BY <1>2, FieldsOf
<1> QED BY <1>1, <1>3

LEMMA LookedNext ==
  ASSUME NEW s \in Strings, NEW kind \in {"CMPS", "SCAS"}, NEW back, NEW i \in Offsets, NEW cx
  PROVE  /\ CompareOnce(kind, back, Looked(kind, back, s, i, cx)) = Looked(kind, back, s, i + 1, cx)
         /\ CountedDown(Looked(kind, back, s, i + 1, cx)) = Looked(kind, back, s, i + 1, cx - 1)
<1>1. PICK t : t = Looked(kind, back, s, i, cx)
  OBVIOUS
<1>2. /\ IsState(t) /\ t.memory = s.memory /\ t.si = Looking(kind, back, s, i)
      /\ t.di = Place(back, s.di, i) /\ t.cx = cx /\ t.ax = s.ax
  BY <1>1, LookedFields
<1>3. s.si \in Offsets /\ s.di \in Offsets
  BY StateForms
<1>4. i + 1 # 0 /\ (i + 1) - 1 = i
  BY SegmentFacts
<1>5. Advance(t.di, back) = Place(back, s.di, i + 1)
  BY <1>2, <1>3, AdvancePlace
<1>6. Met(back, s, i + 1) = t.memory[t.di]
  BY <1>2, <1>4 DEF Met
<1>7. ASSUME kind = "CMPS"
      PROVE  CompareOnce(kind, back, Looked(kind, back, s, i, cx)) = Looked(kind, back, s, i + 1, cx)
  <2>1. Advance(t.si, back) = Looking(kind, back, s, i + 1)
    BY <1>2, <1>3, <1>7, AdvancePlace DEF Looking
  <2>2. Sought(kind, back, s, i + 1) = t.memory[t.si]
    BY <1>2, <1>4, <1>7 DEF Sought, Looking
  <2>3. CompareOnce("CMPS", back, t)
          = StringState(t.memory, Advance(t.si, back), Advance(t.di, back), t.cx, t.ax,
                        t.memory[t.si] = t.memory[t.di], t.memory[t.si] < t.memory[t.di])
    BY <1>2, CompareForms
  <2>4. CompareOnce(kind, back, t)
          = StringState(s.memory, Looking(kind, back, s, i + 1), Place(back, s.di, i + 1), cx, s.ax,
                        Alike(kind, back, s, i + 1), Lower(kind, back, s, i + 1))
    BY <1>2, <1>5, <1>6, <1>7, <2>1, <2>2, <2>3 DEF Alike, Lower
  <2> QED BY <1>1, <1>4, <2>4 DEF Looked
<1>8. ASSUME kind = "SCAS"
      PROVE  CompareOnce(kind, back, Looked(kind, back, s, i, cx)) = Looked(kind, back, s, i + 1, cx)
  <2>1. t.si = Looking(kind, back, s, i + 1)
    BY <1>2, <1>8 DEF Looking
  <2>2. Sought(kind, back, s, i + 1) = t.ax
    BY <1>2, <1>8 DEF Sought
  <2>3. CompareOnce("SCAS", back, t)
          = StringState(t.memory, t.si, Advance(t.di, back), t.cx, t.ax,
                        t.ax = t.memory[t.di], t.ax < t.memory[t.di])
    BY <1>2, CompareForms
  <2>4. CompareOnce(kind, back, t)
          = StringState(s.memory, Looking(kind, back, s, i + 1), Place(back, s.di, i + 1), cx, s.ax,
                        Alike(kind, back, s, i + 1), Lower(kind, back, s, i + 1))
    BY <1>2, <1>5, <1>6, <1>8, <2>1, <2>2, <2>3 DEF Alike, Lower
  <2> QED BY <1>1, <1>4, <2>4 DEF Looked
<1>9. CompareOnce(kind, back, Looked(kind, back, s, i, cx)) = Looked(kind, back, s, i + 1, cx)
  BY <1>7, <1>8
<1>10. CountedDown(Looked(kind, back, s, i + 1, cx)) = Looked(kind, back, s, i + 1, cx - 1)
  <2>1. PICK u : u = Looked(kind, back, s, i + 1, cx)
    OBVIOUS
  <2>2. /\ IsState(u) /\ u.memory = s.memory /\ u.si = Looking(kind, back, s, i + 1)
        /\ u.di = Place(back, s.di, i + 1) /\ u.cx = cx /\ u.ax = s.ax
        /\ u.equal = Alike(kind, back, s, i + 1)
        /\ u.below = Lower(kind, back, s, i + 1)
    BY <1>4, <2>1, LookedFields
  <2>3. CountedDown(u) = StringState(u.memory, u.si, u.di, u.cx - 1, u.ax, u.equal, u.below)
    BY <2>2, CompareForms
  <2> QED BY <1>4, <2>1, <2>2, <2>3 DEF Looked
<1> QED BY <1>9, <1>10

\* Where a search for hits in the first c comparisons ends.
LEMMA FirstHit ==
  ASSUME NEW c \in Nat \ {0}, NEW hits \in SUBSET (1 .. c), NEW last, last = EndOf(c, hits)
  PROVE  /\ last \in 1 .. c /\ (last \in hits \/ last = c)
         /\ \A j \in 1 .. last - 1 : j \notin hits
<1>1. CASE hits = {}
  BY <1>1 DEF EndOf
<1>2. CASE hits # {}
  <2>1. hits \in SUBSET Nat
    OBVIOUS
  <2>2. \E k \in hits : \A j \in hits : k <= j
    BY <1>2, <2>1, LeastNatural
  <2>3. last \in hits /\ \A j \in hits : last <= j
    BY <1>2, <2>2 DEF EndOf
  <2>4. ASSUME NEW j \in 1 .. last - 1 PROVE j \notin hits
    BY <2>1, <2>3
  <2> QED BY <2>3, <2>4
<1> QED BY <1>1, <1>2

StopsByCount(kind, back, s, prefix, i, t) ==
  Stops(prefix = "repe", t) <=> i = s.cx \/ Alike(kind, back, s, i) # (prefix = "repe")

LEMMA LookedStops ==
  ASSUME NEW s, NEW kind, NEW back, NEW prefix, NEW i \in Nat \ {0}, s.cx \in Nat, i <= s.cx
  PROVE  StopsByCount(kind, back, s, prefix, i, Looked(kind, back, s, i, s.cx - i))
<1>0. PICK t : t = Looked(kind, back, s, i, s.cx - i)
  OBVIOUS
<1>1. t.cx = s.cx - i /\ t.equal = Alike(kind, back, s, i)
  BY <1>0, LookedFields
<1>2. t.cx = 0 <=> i = s.cx
  BY <1>1
<1> QED BY <1>0, <1>1, <1>2, Zenon DEF Stops, StopsByCount

LEMMA RepeatedCompares ==
  ASSUME NEW s \in Strings, NEW kind \in {"CMPS", "SCAS"}, NEW back, NEW prefix, prefix # "none",
         NEW last, last = EndOf(s.cx, Hits(kind, back, prefix = "repe", s)), s.cx # 0
  PROVE  Compare(kind, back, prefix, s) = Looked(kind, back, s, last, s.cx - last)
<1> DEFINE f == [i \in 0 .. SegmentBytes |-> Looked(kind, back, s, i, s.cx - i)]
<1>1. s.cx \in Nat \ {0} /\ s.cx \in 1 .. SegmentBytes
  <2>1. PICK c : c = s.cx /\ c \in 0 .. SegmentBytes - 1
    BY StateForms
  <2> QED BY <2>1, SegmentFacts
<1>2. f[0] = s
  <2>1. f[0] = Looked(kind, back, s, 0, s.cx - 0) /\ s.cx - 0 = s.cx
    BY <1>1, SegmentFacts
  <2> QED BY <2>1, LookedNone
<1>3. ASSUME NEW i \in 0 .. SegmentBytes - 1
      PROVE  f[i + 1] = CountedDown(CompareOnce(kind, back, f[i]))
  <2>1. /\ i \in Offsets /\ f[i] = Looked(kind, back, s, i, s.cx - i)
        /\ f[i + 1] = Looked(kind, back, s, i + 1, s.cx - (i + 1))
    BY SegmentFacts
  <2>2. (s.cx - i) - 1 = s.cx - (i + 1)
    BY <1>1
  <2> HIDE DEF f
  <2>3. CountedDown(CompareOnce(kind, back, Looked(kind, back, s, i, s.cx - i)))
          = Looked(kind, back, s, i + 1, (s.cx - i) - 1)
    BY <2>1, LookedNext
  <2> QED BY <2>1, <2>2, <2>3
<1>4. Hits(kind, back, prefix = "repe", s) \in SUBSET (1 .. s.cx)
  BY DEF Hits
<1>5. /\ last \in 1 .. s.cx
      /\ last \in Hits(kind, back, prefix = "repe", s) \/ last = s.cx
      /\ \A j \in 1 .. last - 1 : j \notin Hits(kind, back, prefix = "repe", s)
  BY <1>1, <1>4, FirstHit
<1>6. ASSUME NEW i \in 1 .. s.cx
      PROVE  Stops(prefix = "repe", f[i])
               <=> i = s.cx \/ i \in Hits(kind, back, prefix = "repe", s)
  <2>1. i \in Nat \ {0} /\ s.cx \in Nat /\ i <= s.cx /\ i \in 0 .. SegmentBytes
    BY <1>1, SegmentFacts
  <2>2. f[i] = Looked(kind, back, s, i, s.cx - i)
    BY <2>1
  <2> HIDE DEF f
  <2>3. Stops(prefix = "repe", f[i])
          <=> i = s.cx \/ Alike(kind, back, s, i) # (prefix = "repe")
    <3>1. StopsByCount(kind, back, s, prefix, i, Looked(kind, back, s, i, s.cx - i))
      BY <2>1, LookedStops
    <3> QED BY <2>2, <3>1, Zenon DEF StopsByCount
  <2>4. i \in Hits(kind, back, prefix = "repe", s)
          <=> Alike(kind, back, s, i) # (prefix = "repe")
    BY Zenon DEF Hits
  <2> QED BY <2>3, <2>4, Zenon
<1> HIDE DEF f
<1>7. Stops(prefix = "repe", f[last])
  BY <1>5, <1>6, Zenon
<1>8. \A j \in 1 .. last - 1 : ~Stops(prefix = "repe", f[j])
  <2>1. \A j \in 1 .. last - 1 : j \in 1 .. s.cx /\ j # s.cx
    BY <1>1, <1>5
  <2> QED BY <1>5, <1>6, <2>1, Zenon
<1>9. Compare(kind, back, prefix, s) = f[last]
  <2>1. StopsAt(prefix, f, last)
    BY <1>7, <1>8 DEF StopsAt
  <2>2. IsSearch(kind, back, f)
    BY <1>3 DEF IsSearch
  <2> QED BY ONLY <1>1, <1>2, <1>5, <2>1, <2>2, prefix # "none", ComparesAre
<1>10. f[last] = Looked(kind, back, s, last, s.cx - last)
  <2>1. last \in 0 .. SegmentBytes
    BY <1>1, <1>5, SegmentFacts
  <2> QED BY <2>1 DEF f
<1> QED BY <1>9, <1>10

\* A comparison, repeated or not.
Found(s, si, di, cx, e, b) == StringState(s.memory, si, di, cx, s.ax, e, b)
Sees(s, si, di, cx, e, b) ==
  [s EXCEPT !.si = si, !.di = di, !.cx = cx, !.equal = e, !.below = b]

LEMMA SeesIs ==
  ASSUME NEW s \in Strings, NEW si, NEW di, NEW cx, NEW e, NEW b
  PROVE  Sees(s, si, di, cx, e, b) = Found(s, si, di, cx, e, b)
<1>1. IsState(s)
  BY StateForms
<1>2. {"si", "di", "cx", "equal", "below"} \subseteq StateFields
  BY DEF StateFields
<1>3. Sees(s, si, di, cx, e, b)
        = [f \in StateFields |-> IF f = "below" THEN b ELSE IF f = "equal" THEN e
                                 ELSE IF f = "cx" THEN cx ELSE IF f = "di" THEN di
                                 ELSE IF f = "si" THEN si ELSE s[f]]
  BY <1>1, <1>2, FiveChanges DEF IsState, Sees
<1>4. [f \in StateFields |-> IF f = "below" THEN b ELSE IF f = "equal" THEN e
                             ELSE IF f = "cx" THEN cx ELSE IF f = "di" THEN di
                             ELSE IF f = "si" THEN si ELSE s[f]]
        = StringState(s.memory, si, di, cx, s.ax, e, b)
  BY DEF StateFields, StringState
<1> QED BY <1>3, <1>4 DEF Found

LEMMA ComparesEnd ==
  ASSUME NEW s \in Strings, NEW kind \in {"CMPS", "SCAS"}, NEW back, NEW prefix
  PROVE  Compare(kind, back, prefix, s) = RefCompare(kind, back, prefix, s)
<1>1. PICK n, cx :
        /\ n = IF prefix = "none" THEN 1 ELSE EndOf(s.cx, Hits(kind, back, prefix = "repe", s))
        /\ cx = IF prefix = "none" THEN s.cx ELSE s.cx - n
  OBVIOUS
<1>2. PICK e, b : /\ e = IF n = 0 THEN s.equal ELSE Alike(kind, back, s, n)
                  /\ b = IF n = 0 THEN s.below ELSE Lower(kind, back, s, n)
  OBVIOUS
<1>3. RefCompare(kind, back, prefix, s)
        = Sees(s, IF kind = "SCAS" THEN s.si ELSE Place(back, s.si, n), Place(back, s.di, n),
               cx, e, b)
  BY <1>1, <1>2, Zenon DEF RefCompare, Sees
<1>4. RefCompare(kind, back, prefix, s) = Looked(kind, back, s, n, cx)
  <2>1. RefCompare(kind, back, prefix, s)
          = Found(s, Looking(kind, back, s, n), Place(back, s.di, n), cx, e, b)
    BY <1>3, SeesIs DEF Looking
  <2> QED BY <1>2, <2>1 DEF Found, Looked
<1>5. s.cx \in Nat
  <2>1. PICK c : c = s.cx /\ c \in 0 .. SegmentBytes - 1
    BY StateForms
  <2> QED BY <2>1
<1>6. CASE prefix = "none"
  <2>1. Compare(kind, back, prefix, s) = CompareOnce(kind, back, s)
    BY <1>6 DEF Compare
  <2>2. CompareOnce(kind, back, Looked(kind, back, s, 0, s.cx)) = Looked(kind, back, s, 1, s.cx)
    <3>1. 0 \in Offsets /\ 0 + 1 = 1
      BY SegmentFacts
    <3>2. CompareOnce(kind, back, Looked(kind, back, s, 0, s.cx)) = Looked(kind, back, s, 0 + 1, s.cx)
      BY <3>1, LookedNext
    <3> QED BY <3>1, <3>2
  <2>3. Compare(kind, back, prefix, s) = Looked(kind, back, s, 1, s.cx)
    BY <2>1, <2>2, LookedNone
  <2>4. n = 1 /\ cx = s.cx
    BY <1>1, <1>6
  <2> QED BY <1>4, <2>3, <2>4
<1>7. CASE prefix # "none" /\ s.cx = 0
  <2>1. Compare(kind, back, prefix, s) = s
    BY <1>7, Zenon DEF Compare
  <2>2. Hits(kind, back, prefix = "repe", s) = {}
    BY <1>7 DEF Hits
  <2>3. n = 0
    BY <1>1, <1>7, <2>2 DEF EndOf
  <2>4. cx = s.cx
    BY <1>1, <1>5, <1>7, <2>3
  <2> QED BY <1>4, <2>1, <2>3, <2>4, LookedNone
<1>8. CASE prefix # "none" /\ s.cx # 0
  <2>1. n = EndOf(s.cx, Hits(kind, back, prefix = "repe", s)) /\ cx = s.cx - n
    BY <1>1, <1>8, Zenon
  <2>2. Compare(kind, back, prefix, s) = Looked(kind, back, s, n, s.cx - n)
    BY <1>8, <2>1, RepeatedCompares
  <2> QED BY <1>4, <2>1, <2>2
<1> QED BY <1>6, <1>7, <1>8

\* What OUTS writes, and INS of it leaves.
LEMMA PortWrites ==
  ASSUME NEW s \in Strings, NEW back, NEW repeated, NEW n, n = Repeats(repeated, s)
  PROVE  PortOut(back, repeated, s).written = [i \in 1 .. n |-> s.memory[Place(back, s.si, i - 1)]]
<1> DEFINE f == [i \in 0 .. SegmentBytes |-> Place(back, s.si, i)]
<1>1. s.si \in Offsets /\ n \in 0 .. SegmentBytes
  BY StateForms, RepeatsFit
<1>2. f[0] = s.si
  BY <1>1, PlaceZero, SegmentFacts
<1>3. IsWalk(back, f)
  <2>1. ASSUME NEW i \in 0 .. SegmentBytes - 1 PROVE f[i + 1] = Advance(f[i], back)
    <3>1. i \in Offsets /\ f[i] = Place(back, s.si, i) /\ f[i + 1] = Place(back, s.si, i + 1)
      BY SegmentFacts
    <3> HIDE DEF f
    <3> QED BY <1>1, <3>1, AdvancePlace
  <2> QED BY <2>1 DEF IsWalk
<1>4. \A i \in 1 .. n : f[i - 1] = Place(back, s.si, i - 1)
  BY <1>1, SegmentFacts
<1> HIDE DEF f
<1>5. PortOut(back, repeated, s).written = Walked(s, f, n)
  BY <1>1, <1>2, <1>3, PortOutIs
<1> QED BY <1>4, <1>5 DEF Walked

LEMMA PortLeaves ==
  ASSUME NEW s \in Strings, NEW back, NEW repeated, NEW bytes, NEW n, n = Repeats(repeated, s)
  PROVE  PortIn(back, repeated, s, bytes)
           = Ending(s, Written(back, s, n, [k \in Offsets |-> bytes[k + 1]]), s.si,
                    Place(back, s.di, n), IF repeated THEN 0 ELSE s.cx, s.ax)
<1> DEFINE value == [k \in Offsets |-> bytes[k + 1]]
           At(i) == StringState(Written(back, s, i, value), s.si, Place(back, s.di, i), s.cx,
                                s.ax, s.equal, s.below)
           f == [i \in 0 .. SegmentBytes |-> At(i)]
<1>1. s.di \in Offsets /\ n \in 0 .. SegmentBytes
  BY StateForms, RepeatsFit
<1>2. f[0] = s
  <2>1. f[0] = At(0)
    BY SegmentFacts
  <2>2. At(0) = StringState(s.memory, s.si, s.di, s.cx, s.ax, s.equal, s.below)
    <3> HIDE DEF value
    <3> QED BY <1>1, WriteNone, PlaceZero
  <2> QED BY <2>1, <2>2, StateForms
<1>3. IsReceipt(bytes, back, f)
  <2>1. ASSUME NEW i \in 0 .. SegmentBytes - 1
        PROVE  f[i + 1] = Received(f[i], bytes[i + 1], back)
    <3>1. i \in Offsets /\ f[i] = At(i) /\ f[i + 1] = At(i + 1) /\ value[i] = bytes[i + 1]
      BY SegmentFacts
    <3>2. PICK t : t = f[i] /\ t = At(i)
      BY <3>1
    <3> HIDE DEF f, value
    <3>3. /\ IsState(t) /\ t.memory = Written(back, s, i, value) /\ t.si = s.si
          /\ t.di = Place(back, s.di, i) /\ t.cx = s.cx /\ t.ax = s.ax
          /\ t.equal = s.equal /\ t.below = s.below
      BY <3>2, FieldsOf
    <3>4. Received(t, value[i], back)
            = StringState([t.memory EXCEPT ![t.di] = value[i]], t.si, Advance(t.di, back),
                          t.cx, t.ax, t.equal, t.below)
      BY <3>3, ReceivedForm
    <3>5. [t.memory EXCEPT ![t.di] = value[i]] = Written(back, s, i + 1, value)
      <4>1. [Written(back, s, i, value) EXCEPT ![Place(back, s.di, i)] = value[i]]
              = Written(back, s, i + 1, value)
        BY <3>1, WriteNext
      <4> QED BY <3>3, <4>1
    <3>6. Advance(t.di, back) = Place(back, s.di, i + 1)
      BY <1>1, <3>1, <3>3, AdvancePlace
    <3>7. Received(t, value[i], back) = At(i + 1)
      BY <3>3, <3>4, <3>5, <3>6
    <3> QED BY <3>1, <3>2, <3>7
  <2> HIDE DEF f
  <2> QED BY <2>1 DEF IsReceipt
<1>4. f[n] = At(n)
  BY <1>1
<1> HIDE DEF f, value
<1>5. PICK t : t = f[n] /\ t = At(n)
  BY <1>4
<1>6. PortIn(back, repeated, s, bytes) = Tallied(t, repeated)
  <2>1. PortIn(back, repeated, s, bytes) = Tallied(f[Repeats(repeated, s)], repeated)
    BY <1>1, <1>2, <1>3, PortInIs
  <2> QED BY <1>5, <2>1
<1>7. Tallied(t, repeated)
        = StringState(Written(back, s, n, value), s.si, Place(back, s.di, n),
                      IF repeated THEN 0 ELSE s.cx, s.ax, s.equal, s.below)
  <2>1. PICK m, di : m = Written(back, s, n, value) /\ di = Place(back, s.di, n)
    OBVIOUS
  <2>2. t = StringState(m, s.si, di, s.cx, s.ax, s.equal, s.below)
    BY <1>5, <2>1
  <2>3. Tallied(t, repeated)
          = StringState(m, s.si, di, IF repeated THEN 0 ELSE s.cx, s.ax, s.equal, s.below)
    BY <2>2 DEF Tallied, StringState
  <2> QED BY <2>1, <2>3
<1> QED BY <1>6, <1>7 DEF value, Ending

\* What OUTS writes is what INS places.
LEMMA PortsEnd ==
  ASSUME NEW s \in Strings, NEW back, NEW repeated
  PROVE  PortIn(back, repeated, s, PortOut(back, repeated, s).written)
           = RefPort(back, repeated, s)
<1>1. PICK n, bytes : n = Repeats(repeated, s) /\ bytes = PortOut(back, repeated, s).written
  OBVIOUS
<1> DEFINE received == [k \in Offsets |-> bytes[k + 1]]
           passed == [k \in Offsets |-> s.memory[Place(back, s.si, k)]]
<1>2. n \in 0 .. SegmentBytes /\ s.di \in Offsets
  BY <1>1, RepeatsFit, StateForms
<1>3. bytes = [i \in 1 .. n |-> s.memory[Place(back, s.si, i - 1)]]
  BY <1>1, PortWrites
<1>4. \A k \in Offsets : k < n => received[k] = passed[k]
  <2>1. ASSUME NEW k \in Offsets, k < n PROVE bytes[k + 1] = s.memory[Place(back, s.si, k)]
    <3>1. k + 1 \in 1 .. n /\ (k + 1) - 1 = k
      BY <1>2, <2>1, SegmentFacts
    <3> QED BY <1>3, <3>1
  <2> QED BY <2>1
<1>5. PortIn(back, repeated, s, bytes)
        = Ending(s, Written(back, s, n, received), s.si, Place(back, s.di, n),
                 IF repeated THEN 0 ELSE s.cx, s.ax)
  BY <1>1, PortLeaves
<1>6. RefPort(back, repeated, s)
        = Replaced(s, Written(back, s, n, passed), s.si, Place(back, s.di, n),
                   IF repeated THEN 0 ELSE s.cx, s.ax)
  <2> HIDE DEF received
  <2>1. PICK m, di, cx : /\ m = Written(back, s, n, passed) /\ di = Place(back, s.di, n)
                         /\ cx = IF repeated THEN 0 ELSE s.cx
    OBVIOUS
  <2>2. RefPort(back, repeated, s) = [s EXCEPT !.memory = m, !.di = di, !.cx = cx]
    BY <1>1, <2>1, Zenon DEF RefPort
  <2>3. [s EXCEPT !.memory = m, !.di = di, !.cx = cx] = Replaced(s, m, s.si, di, cx, s.ax)
    <3>1. IsState(s)
      BY StateForms
    <3> QED BY <3>1 DEF Replaced, IsState, StateFields
  <2> QED BY <2>1, <2>2, <2>3
<1> HIDE DEF received, passed
<1>7. Written(back, s, n, received) = Written(back, s, n, passed)
  <2>1. \A o \in Offsets : StepsTo(back, s.di, o) \in Offsets
    BY <1>2, StepsPlace
  <2> QED BY <1>4, <2>1 DEF Written
<1> QED BY <1>1, <1>5, <1>6, <1>7, ReplacedIs

LEMMA MoveStep ==
  ASSUME ExecuteMove
  PROVE  StringsAgree'
<1>1. PICK kind \in {"MOVS", "STOS", "LODS"}, back \in BOOLEAN, repeated \in BOOLEAN,
           s \in Strings :
        Record(kind, 8, s, [backward |-> back, repeated |-> repeated], {},
               Move(kind, back, repeated, s))
  BY Zenon DEF ExecuteMove
<1>2. PICK x : /\ done' = x /\ x.op = kind /\ x.a = s
               /\ x.b = [backward |-> back, repeated |-> repeated]
               /\ x.out = Move(kind, back, repeated, s)
  BY <1>1 DEF Record
<1>3. x.b.backward = back /\ x.b.repeated = repeated
  BY <1>2
<1>4. x.out = RefMove(kind, back, repeated, s)
  BY <1>2, CopiesAre, StoresAre, LoadsAre
<1>5. kind \notin {"CMPS", "SCAS", "INS"}
  OBVIOUS
<1> QED BY ONLY <1>2, <1>3, <1>4, <1>5 DEF StringsAgree

LEMMA CompareStep ==
  ASSUME ExecuteCompare
  PROVE  StringsAgree'
<1>1. PICK kind \in {"CMPS", "SCAS"}, back \in BOOLEAN, prefix \in {"none", "repe", "repne"},
           s \in Strings :
        Record(kind, 8, s, [backward |-> back, prefix |-> prefix], {},
               Compare(kind, back, prefix, s))
  BY Zenon DEF ExecuteCompare
<1>2. PICK x : /\ done' = x /\ x.op = kind /\ x.a = s
               /\ x.b = [backward |-> back, prefix |-> prefix]
               /\ x.out = Compare(kind, back, prefix, s)
  BY <1>1 DEF Record
<1>3. x.b.backward = back /\ x.b.prefix = prefix
  BY <1>2
<1>4. x.out = RefCompare(kind, back, prefix, s)
  BY <1>2, ComparesEnd
<1>5. kind \notin {"MOVS", "STOS", "LODS", "INS"}
  OBVIOUS
<1> QED BY ONLY <1>2, <1>3, <1>4, <1>5 DEF StringsAgree

LEMMA PortStep ==
  ASSUME ExecutePort
  PROVE  StringsAgree'
<1>1. PICK back \in BOOLEAN, repeated \in BOOLEAN, s \in Strings :
        Record("INS", 8, s, [backward |-> back, repeated |-> repeated], {},
               PortIn(back, repeated, s, PortOut(back, repeated, s).written))
  BY Zenon DEF ExecutePort
<1>2. PICK x : /\ done' = x /\ x.op = "INS" /\ x.a = s
               /\ x.b = [backward |-> back, repeated |-> repeated]
               /\ x.out = PortIn(back, repeated, s, PortOut(back, repeated, s).written)
  BY <1>1 DEF Record
<1>3. x.b.backward = back /\ x.b.repeated = repeated
  BY <1>2
<1>4. x.out = RefPort(back, repeated, s)
  BY <1>2, PortsEnd
<1> QED BY ONLY <1>2, <1>3, <1>4 DEF StringsAgree

\* StringsAgree for every size of the segment, every content, place, count,
\* direction and prefix: what the loops of cases 17, 18, 59 and 60 leave is the
\* reference's whole state, also when source and destination overlap or wrap
\* around the segment.
THEOREM StringsCorrect == InstructionSpec => []StringsAgree
<1>1. NothingExecuted => StringsAgree
  BY DEF NothingExecuted, StringsAgree
<1>2. StringsAgree /\ [InstructionNext]_done => StringsAgree'
  <2> SUFFICES ASSUME StringsAgree, [InstructionNext]_done PROVE StringsAgree'
    OBVIOUS
  <2>1. CASE ExecuteMove \/ ExecuteCompare \/ ExecutePort
    BY <2>1, MoveStep, CompareStep, PortStep
  <2>2. CASE done'.op \notin {"MOVS", "STOS", "LODS", "CMPS", "SCAS", "INS"}
    BY <2>2 DEF StringsAgree
  <2>3. CASE UNCHANGED done
    BY <2>3 DEF StringsAgree
  <2>4. InstructionNext => \/ ExecuteMove \/ ExecuteCompare \/ ExecutePort
                           \/ done'.op \notin {"MOVS", "STOS", "LODS", "CMPS", "SCAS", "INS"}
    BY Executed DEF InstructionNext, ArithmeticNext, TwoOperand, Rotates, Shifts
  <2> QED BY <2>1, <2>2, <2>3, <2>4
<1> QED BY <1>1, <1>2, PTL DEF InstructionSpec
=============================================================================
