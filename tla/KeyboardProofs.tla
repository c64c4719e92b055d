--------------------------- MODULE KeyboardProofs ---------------------------
(***************************************************************************)
(* For every queue size, scan code table and set of command bytes: the     *)
(* flags of the keyboard controller agree, its state has its types, and    *)
(* what a guest makes of the bytes it reads are the keys that were         *)
(* reported, look-alikes apart.  The last adds up over the queue: a        *)
(* decoder reads a report's codes key by key, and an answer not at all.    *)
(***************************************************************************)
EXTENDS KeyboardGuest, SequenceInduction

\* The inductive invariant: the flags, and the shape of the command byte that
\* makes updating one of its bits leave the others alone.
FlagsInv ==
  /\ command \in CommandByte
  /\ DisabledAgrees
  /\ DeferredOnlyWhileDisabled
  /\ LineHonest

(* Putting bytes into the queue keeps the interrupt line honest, and never   *)
(* lowers it while interrupts stay enabled.                                  *)
LEMMA EnqueueLine ==
  ASSUME NEW bytes, NEW cmd, Enqueue(bytes, cmd), LineHonest
  PROVE  /\ LineHonest'
         /\ cmd.irq = command.irq /\ LineUp =>
              (queue' # <<>> /\ cmd.irq => irqPending')
BY DEF Enqueue, LineHonest, LineUp

LEMMA DisableKeepsIrq ==
  ASSUME command \in CommandByte, NEW b \in BOOLEAN, SetDisabled(b)
  PROVE  /\ command' \in CommandByte
         /\ command'.disable = b
         /\ command'.irq = command.irq
         /\ disabled' = b
BY DEF SetDisabled, CommandByte

(* Applying a deferred report, or finding none, leaves none behind.          *)
LEMMA ApplyLine ==
  ASSUME NEW ack, NEW cmd, ApplyDeferred(ack, cmd), LineHonest
  PROVE  /\ deferred' = NoReport
         /\ LineHonest'
         /\ cmd.irq = command.irq /\ LineUp =>
              (queue' # <<>> /\ cmd.irq => irqPending')
<1>1. CASE deferred = NoReport /\ Enqueue(ack, cmd) /\ UNCHANGED <<last, deferred>>
  BY <1>1, EnqueueLine
<1>2. CASE Process(ack, deferred, cmd)
  BY <1>2, EnqueueLine DEF Process
<1> QED BY <1>1, <1>2 DEF ApplyDeferred

LEMMA FlagsInit == Init => FlagsInv
BY DEF Init, FlagsInv, PowerOn, CommandByte, DisabledAgrees,
       DeferredOnlyWhileDisabled, LineHonest

\* What one step must show: the invariant again, and who may silence the line.
StepOK == FlagsInv' /\ (LineUp /\ ~LineUp' => pendingWrite = "CommandByte")

LEMMA PortStep ==
  ASSUME FlagsInv, NEW c, WriteCommandPort(c)
  PROVE  StepOK
<1> USE DEF FlagsInv, StepOK, LineUp, DisabledAgrees, DeferredOnlyWhileDisabled
<1>1. CASE Enqueue(<<Reply>>, command) /\ UNCHANGED <<command, disabled, deferred>>
  BY <1>1, EnqueueLine
<1>2. CASE UNCHANGED <<command, disabled, irqPending, deferred, queue>>
  BY <1>2 DEF LineHonest
<1>3. CASE SetDisabled(TRUE) /\ UNCHANGED <<irqPending, deferred, queue>>
  BY <1>3, DisableKeepsIrq DEF LineHonest
<1>4. CASE SetDisabled(FALSE) /\ ApplyDeferred(<<>>, command')
  BY <1>4, DisableKeepsIrq, ApplyLine
<1> QED BY <1>1, <1>2, <1>3, <1>4 DEF WriteCommandPort

LEMMA CommandStep ==
  ASSUME FlagsInv, NEW c, KeyboardCommand(c)
  PROVE  StepOK
<1> USE DEF FlagsInv, StepOK, LineUp, DisabledAgrees, DeferredOnlyWhileDisabled
<1>1. CASE /\ \E n : Enqueue(n, command)
           /\ UNCHANGED <<command, disabled, deferred>>
  BY <1>1, EnqueueLine
<1>2. CASE SetDisabled(FALSE) /\ ApplyDeferred(<<Reply>>, command')
  BY <1>2, DisableKeepsIrq, ApplyLine
<1>3. CASE /\ SetDisabled(c = "F5")
           /\ ClearPressed
           /\ Enqueue(<<Reply>>, command')
  BY <1>3, DisableKeepsIrq, EnqueueLine DEF ClearPressed
<1>4. CASE /\ Enqueue(<<Reply, Reply>>, command)
           /\ ClearPressed
           /\ UNCHANGED <<command, disabled>>
  BY <1>4, EnqueueLine DEF ClearPressed
<1> QED BY <1>1, <1>2, <1>3, <1>4 DEF KeyboardCommand

LEMMA CommandByteStep ==
  ASSUME FlagsInv, NEW cb \in CommandBytes, WriteCommandByte(cb)
  PROVE  StepOK
<1>1. cb \in CommandByte
  BY CommandBytesAssumption
<1>2. CASE disabled /\ ~disabled' /\ ApplyDeferred(<<>>, cb)
  BY <1>1, <1>2, ApplyLine DEF FlagsInv, StepOK, WriteCommandByte,
     DisabledAgrees, DeferredOnlyWhileDisabled
<1>3. CASE /\ ~(disabled /\ ~disabled')
           /\ UNCHANGED <<irqPending, last, deferred, queue>>
  BY <1>1, <1>3 DEF FlagsInv, StepOK, WriteCommandByte, DisabledAgrees,
     DeferredOnlyWhileDisabled, LineHonest, CommandByte
<1> QED BY <1>2, <1>3 DEF WriteCommandByte

LEMMA DeviceStep ==
  ASSUME FlagsInv, (\E r \in Report : HidReport(r)) \/ UsbDisconnected
  PROVE  StepOK
<1> USE DEF FlagsInv, StepOK, LineUp, DisabledAgrees, DeferredOnlyWhileDisabled
<1>1. ASSUME NEW r \in Report, HidReport(r)
      PROVE  StepOK
  <2>1. CASE disabled /\ UNCHANGED <<irqPending, queue>>
    BY <1>1, <2>1 DEF HidReport, LineHonest
  <2>2. CASE ~disabled /\ Process(<<>>, r, command)
    BY <1>1, <2>2, EnqueueLine DEF HidReport, Process
  <2> QED BY <1>1, <2>1, <2>2 DEF HidReport
<1>2. CASE UsbDisconnected
  <2>1. CASE UNCHANGED <<irqPending, queue>>
    BY <1>2, <2>1 DEF UsbDisconnected, ClearPressed, LineHonest
  <2>2. CASE Enqueue(Transitions(Set1Output(command), last, EmptyReport), command)
    BY <1>2, <2>2, EnqueueLine DEF UsbDisconnected, ClearPressed
  <2> QED BY <1>2, <2>1, <2>2 DEF UsbDisconnected
<1> QED BY <1>1, <1>2

LEMMA FlagsStep == FlagsInv /\ [Next]_vars => StepOK
<1> SUFFICES ASSUME FlagsInv, [Next]_vars PROVE StepOK
  OBVIOUS
<1> USE DEF DisabledAgrees, DeferredOnlyWhileDisabled, LineUp
<1>1. CASE Reset
  BY <1>1 DEF Reset, PowerOn, ClearPressed, CommandByte, FlagsInv, StepOK,
     LineHonest
<1>2. CASE (\E r \in Report : HidReport(r)) \/ UsbDisconnected
  BY <1>2, DeviceStep
<1>3. CASE ReadDataPort
  BY <1>3 DEF ReadDataPort, FlagsInv, StepOK, LineHonest
<1>4. CASE AcknowledgeIrq
  BY <1>4 DEF AcknowledgeIrq, FlagsInv, StepOK, LineHonest
<1>5. CASE \E c \in ControllerCommands : WriteCommandPort(c) /\ UNCHANGED scanCodeSet
  BY <1>5, PortStep
<1>6. CASE \E cb \in CommandBytes : WriteCommandByte(cb)
  BY <1>6, CommandByteStep
<1>7. CASE WriteParameter
  BY <1>7, EnqueueLine DEF WriteParameter, FlagsInv, StepOK
<1>8. CASE \E n \in ScanCodeSets \cup {0, 4} : WriteScanCodeSet(n)
  BY <1>8, EnqueueLine DEF WriteScanCodeSet, FlagsInv, StepOK
<1>9. CASE \E c \in KeyboardCommands : KeyboardCommand(c)
  BY <1>9, CommandStep
<1>10. CASE UNCHANGED vars
  BY <1>10 DEF vars, FlagsInv, StepOK, LineHonest
<1> QED BY <1>1, <1>2, <1>3, <1>4, <1>5, <1>6, <1>7, <1>8, <1>9, <1>10 DEF Next

LEMMA FlagsCorrect == Spec => []FlagsInv
<1>1. FlagsInv /\ [Next]_vars => FlagsInv'
  BY FlagsStep DEF StepOK
<1> QED BY FlagsInit, <1>1, PTL DEF Spec

(* The disable flag and the command byte a guest reads back never disagree.  *)
THEOREM DisableCorrect == Spec => []DisabledAgrees
<1>1. FlagsInv => DisabledAgrees
  BY DEF FlagsInv
<1> QED BY <1>1, FlagsCorrect, PTL

(* No report is held back while the keyboard is enabled.                     *)
THEOREM DeferredCorrect == Spec => []DeferredOnlyWhileDisabled
<1>1. FlagsInv => DeferredOnlyWhileDisabled
  BY DEF FlagsInv
<1> QED BY <1>1, FlagsCorrect, PTL

(* A keyboard interrupt always finds a byte to read.                         *)
THEOREM InterruptCorrect == Spec => []LineHonest
<1>1. FlagsInv => LineHonest
  BY DEF FlagsInv
<1> QED BY <1>1, FlagsCorrect, PTL

(* Of all steps only a write of the command byte can leave queued bytes      *)
(* without an interrupt.                                                     *)
THEOREM SilenceCorrect == Spec => OnlyCommandByteSilences
<1>1. FlagsInv /\ [Next]_vars =>
        [LineUp /\ ~LineUp' => pendingWrite = "CommandByte"]_vars
  BY FlagsStep DEF StepOK
<1> QED BY <1>1, FlagsCorrect, PTL DEF Spec, OnlyCommandByteSilences
-----------------------------------------------------------------------------
(* What a decoder makes of a sequence of bytes.                              *)

\* Folding q from g over every set of positions up to m.
FoldsTo(h, g, q, m) ==
  \A s \in SUBSET (1 .. m) :
    h[s] = IF s = {} THEN g ELSE Decode(h[s \ {Max(s)}], q[Max(s)])

(* Such a fold exists: it is built one position at a time.                   *)
LEMMA FoldExists ==
  ASSUME NEW g, NEW q, NEW n \in Nat
  PROVE  \E h : FoldsTo(h, g, q, n)
<1> DEFINE T == {m \in Nat : \E h : FoldsTo(h, g, q, m)}
<1>1. 0 \in T
  <2>1. FoldsTo([s \in {{}} |-> g], g, q, 0)
    BY DEF FoldsTo
  <2> QED BY <2>1
<1>2. ASSUME NEW m \in T PROVE m + 1 \in T
  <2>1. PICK h : FoldsTo(h, g, q, m)
    OBVIOUS
  <2>2. m \in Nat
    OBVIOUS
  <2> DEFINE k == [s \in SUBSET (1 .. m + 1) |->
                     IF m + 1 \in s THEN Decode(h[s \ {m + 1}], q[m + 1]) ELSE h[s]]
  <2>3. ASSUME NEW s \in SUBSET (1 .. m + 1)
        PROVE  k[s] = IF s = {} THEN g ELSE Decode(k[s \ {Max(s)}], q[Max(s)])
    <3>1. CASE m + 1 \in s
      <4>1. Max(s) = m + 1
        <5>1. m + 1 \in Nat /\ s # {}
          BY <2>2, <3>1
        <5>2. Max(s) \in s /\ m + 1 <= Max(s)
          BY <3>1, <5>1, MaxOfPositions
        <5>3. Max(s) \in 1 .. m + 1
          BY <5>2
        <5> QED BY <2>2, <5>2, <5>3
      <4>2. s \ {m + 1} \in SUBSET (1 .. m + 1) /\ m + 1 \notin s \ {m + 1}
        OBVIOUS
      <4>3. k[s \ {m + 1}] = h[s \ {m + 1}]
        BY <4>2
      <4> QED BY <3>1, <4>1, <4>3
    <3>2. CASE m + 1 \notin s
      <4>1. s \in SUBSET (1 .. m) /\ s \ {Max(s)} \in SUBSET (1 .. m)
        <5>1. ASSUME NEW x \in s PROVE x \in 1 .. m
          <6>1. x \in 1 .. m + 1 /\ x # m + 1
            BY <3>2
          <6> QED BY <2>2, <6>1
        <5> QED BY <5>1
      <4>2. s \ {Max(s)} \in SUBSET (1 .. m + 1) /\ m + 1 \notin s \ {Max(s)}
        BY <2>2, <3>2
      <4>3. k[s] = h[s] /\ k[s \ {Max(s)}] = h[s \ {Max(s)}]
        BY <3>2, <4>2
      <4> QED BY <2>1, <4>1, <4>3 DEF FoldsTo
    <3> QED BY <3>1, <3>2
  <2> HIDE DEF k
  <2>4. FoldsTo(k, g, q, m + 1)
    BY <2>3 DEF FoldsTo
  <2> QED BY <2>2, <2>4
<1> HIDE DEF T
<1>3. T = Nat
  <2>1. T \in SUBSET Nat
    BY DEF T
  <2> QED BY <1>1, <1>2, <2>1, NatSet
<1> QED BY <1>3 DEF T

(* and Decoded is its value for all positions.                               *)
LEMMA DecodedFolds ==
  ASSUME NEW g, NEW q, NEW n \in Nat, DOMAIN q = 1 .. n
  PROVE  \E h : FoldsTo(h, g, q, n) /\ Decoded(g, q) = h[1 .. n]
<1> DEFINE Is(h) == h = [s \in SUBSET (1 .. n) |->
                     IF s = {} THEN g ELSE Decode(h[s \ {Max(s)}], q[Max(s)])]
           iter == CHOOSE h : Is(h)
<1>1. Decoded(g, q) = iter[1 .. n]
  BY DEF Decoded, FoldLeft, MapThenFoldSet
<1>2. PICK h : FoldsTo(h, g, q, n)
  BY FoldExists
<1> DEFINE k == [s \in SUBSET (1 .. n) |-> h[s]]
<1>3. ASSUME NEW s \in SUBSET (1 .. n)
      PROVE  k[s] = IF s = {} THEN g ELSE Decode(k[s \ {Max(s)}], q[Max(s)])
  <2>1. s \ {Max(s)} \in SUBSET (1 .. n)
    OBVIOUS
  <2> QED BY <1>2, <2>1 DEF FoldsTo
<1>4. Is(k)
  BY <1>3
<1>5. Is(iter)
  BY <1>4
<1> HIDE DEF iter
<1>6. FoldsTo(iter, g, q, n)
  BY <1>5 DEF FoldsTo
<1> QED BY <1>1, <1>6


\* d[i] is the decoder after i bytes.
IsRun(d, g, q) ==
  d[0] = g /\ \A i \in 1 .. Len(q) : d[i] = Decode(d[i - 1], q[i])

LEMMA FoldRuns ==
  ASSUME NEW g, NEW q \in Seq(Byte), NEW h, FoldsTo(h, g, q, Len(q))
  PROVE  IsRun([i \in 0 .. Len(q) |-> h[1 .. i]], g, q)
<1> DEFINE n == Len(q)
           d == [i \in 0 .. n |-> h[1 .. i]]
<1>1. n \in Nat
  OBVIOUS
<1>2. d[0] = g
  <2>1. 1 .. 0 = {} /\ {} \in SUBSET (1 .. n) /\ 0 \in 0 .. n
    BY <1>1
  <2> QED BY <2>1 DEF FoldsTo
<1>3. ASSUME NEW i \in 1 .. n PROVE d[i] = Decode(d[i - 1], q[i])
  <2>1. i \in Nat /\ i - 1 \in 0 .. n /\ i \in 0 .. n
    BY <1>1
  <2>2. 1 .. i \in SUBSET (1 .. n) /\ i \in 1 .. i
    BY <1>1
  <2>3. Max(1 .. i) = i
    <3>1. Max(1 .. i) \in 1 .. i /\ i <= Max(1 .. i)
      BY <2>1, <2>2, MaxOfPositions
    <3> QED BY <2>1, <3>1
  <2>4. (1 .. i) \ {i} = 1 .. i - 1
    BY <2>1
  <2>5. h[1 .. i] = Decode(h[1 .. i - 1], q[i])
    BY <2>2, <2>3, <2>4 DEF FoldsTo
  <2> QED BY <2>1, <2>5
<1> HIDE DEF d
<1>4. IsRun(d, g, q)
  BY <1>2, <1>3 DEF IsRun
<1> QED BY <1>4 DEF d

LEMMA DecodedRuns ==
  ASSUME NEW g, NEW q \in Seq(Byte)
  PROVE  \E d : IsRun(d, g, q) /\ Decoded(g, q) = d[Len(q)]
<1>1. Len(q) \in Nat /\ DOMAIN q = 1 .. Len(q)
  OBVIOUS
<1>2. PICK h : FoldsTo(h, g, q, Len(q)) /\ Decoded(g, q) = h[1 .. Len(q)]
  BY <1>1, DecodedFolds
<1> DEFINE d == [i \in 0 .. Len(q) |-> h[1 .. i]]
<1>3. IsRun(d, g, q)
  BY <1>2, FoldRuns
<1>4. d[Len(q)] = h[1 .. Len(q)]
  BY <1>1
<1> HIDE DEF d
<1> QED BY <1>2, <1>3, <1>4

(* Any run of the decoder over the bytes ends where Decoded says.            *)
LEMMA DecodedBy ==
  ASSUME NEW g, NEW q \in Seq(Byte), NEW e, IsRun(e, g, q)
  PROVE  Decoded(g, q) = e[Len(q)]
<1> DEFINE n == Len(q)
<1>1. n \in Nat
  OBVIOUS
<1>2. PICK d : IsRun(d, g, q) /\ Decoded(g, q) = d[n]
  BY DecodedRuns
<1> DEFINE T == {i \in 0 .. n : d[i] = e[i]}
<1>3. 0 \in T
  BY <1>1, <1>2 DEF IsRun
<1>4. ASSUME NEW i \in 0 .. n - 1, i \in T PROVE i + 1 \in T
  <2>1. i + 1 \in 1 .. n /\ i + 1 \in 0 .. n /\ (i + 1) - 1 = i
    BY <1>1
  <2>2. d[i + 1] = Decode(d[i], q[i + 1]) /\ e[i + 1] = Decode(e[i], q[i + 1])
    BY <1>2, <2>1 DEF IsRun
  <2> QED BY <1>4, <2>1, <2>2
<1>5. 0 .. n \subseteq T
  BY <1>1, <1>3, <1>4, UpTo
<1> QED BY <1>1, <1>2, <1>5

(* Reading nothing, one byte, and one sequence after another.                *)
LEMMA DecodedEmpty == ASSUME NEW g PROVE Decoded(g, <<>>) = g
<1>1. <<>> \in Seq(Byte) /\ Len(<<>>) = 0
  OBVIOUS
<1>2. PICK d : IsRun(d, g, <<>>) /\ Decoded(g, <<>>) = d[0]
  BY <1>1, DecodedRuns
<1> QED BY <1>2 DEF IsRun

LEMMA DecodedConcat ==
  ASSUME NEW g, NEW q \in Seq(Byte), NEW b \in Seq(Byte)
  PROVE  Decoded(g, q \o b) = Decoded(Decoded(g, q), b)
<1> DEFINE n == Len(q)
           m == Len(b)
<1>1. n \in Nat /\ m \in Nat
  OBVIOUS
<1>2. PICK d : IsRun(d, g, q) /\ Decoded(g, q) = d[n]
  BY DecodedRuns
<1>3. PICK e : IsRun(e, d[n], b) /\ Decoded(d[n], b) = e[m]
  BY DecodedRuns
<1> DEFINE r == [i \in 0 .. n + m |-> IF i <= n THEN d[i] ELSE e[i - n]]
<1>4. /\ q \o b \in Seq(Byte)
      /\ Len(q \o b) = n + m
      /\ \A i \in 1 .. n + m : (q \o b)[i] = IF i <= n THEN q[i] ELSE b[i - n]
  BY ConcatProperties
<1>5. ASSUME NEW i \in 1 .. n + m
      PROVE  r[i] = Decode(r[i - 1], (q \o b)[i])
  <2>0. i \in 0 .. n + m /\ i - 1 \in 0 .. n + m
    BY <1>1
  <2>1. CASE i <= n
    <3>1. i \in 1 .. n /\ i - 1 <= n
      BY <1>1, <2>1
    <3>2. r[i] = d[i] /\ r[i - 1] = d[i - 1]
      BY <2>0, <2>1, <3>1
    <3> QED BY <1>2, <1>4, <2>1, <3>1, <3>2 DEF IsRun
  <2>2. CASE i = n + 1
    <3>0. 1 \in 1 .. m /\ ~(i <= n) /\ i - n = 1 /\ i - 1 = n
      BY <1>1, <2>2
    <3>1. r[i] = e[1] /\ r[i - 1] = d[n]
      <4>1. r[i] = e[i - n]
        BY <2>0, <3>0
      <4>2. r[i - 1] = d[i - 1]
        BY <1>1, <2>0, <3>0
      <4> QED BY <3>0, <4>1, <4>2
    <3>2. (q \o b)[i] = b[1]
      BY <1>4, <3>0
    <3>3. e[1] = Decode(e[0], b[1]) /\ e[0] = d[n]
      BY <1>3, <3>0 DEF IsRun
    <3> QED BY <3>1, <3>2, <3>3
  <2>3. CASE i > n + 1
    <3>1. i - n \in 1 .. m /\ (i - 1) - n = (i - n) - 1
      BY <1>1, <2>3
    <3>2. r[i] = e[i - n] /\ r[i - 1] = e[(i - n) - 1]
      BY <1>1, <2>0, <2>3, <3>1
    <3>3. (q \o b)[i] = b[i - n]
      BY <1>1, <1>4, <2>3
    <3>4. e[i - n] = Decode(e[(i - n) - 1], b[i - n])
      BY <1>3, <3>1 DEF IsRun
    <3> QED BY <3>2, <3>3, <3>4
  <2> QED BY <1>1, <2>1, <2>2, <2>3
<1>6. r[0] = g /\ r[n + m] = e[m]
  <2>1. r[0] = d[0] /\ d[0] = g
    BY <1>1, <1>2 DEF IsRun
  <2>2. CASE m = 0
    <3>1. n + m \in 0 .. n + m /\ n + m <= n /\ n + m = n
      BY <1>1, <2>2
    <3>2. r[n + m] = d[n] /\ e[0] = d[n]
      BY <1>3, <3>1 DEF IsRun
    <3> QED BY <2>1, <2>2, <3>2
  <2>3. CASE m # 0
    <3>1. n + m \in 0 .. n + m /\ ~(n + m <= n) /\ (n + m) - n = m
      BY <1>1, <2>3
    <3>2. r[n + m] = e[(n + m) - n]
      BY <3>1
    <3> QED BY <2>1, <3>1, <3>2
  <2> QED BY <2>1, <2>2, <2>3
<1> HIDE DEF r
<1>7. IsRun(r, g, q \o b)
  BY <1>4, <1>5, <1>6 DEF IsRun
<1> QED BY <1>2, <1>3, <1>4, <1>6, <1>7, DecodedBy

LEMMA DecodedOne ==
  ASSUME NEW g, NEW b \in Byte
  PROVE  Decoded(g, <<b>>) = Decode(g, b)
<1>1. <<b>> \in Seq(Byte) /\ Len(<<b>>) = 1 /\ <<b>>[1] = b
  OBVIOUS
<1>2. PICK d : IsRun(d, g, <<b>>) /\ Decoded(g, <<b>>) = d[1]
  BY <1>1, DecodedRuns
<1>3. d[0] = g /\ d[1] = Decode(d[0], b)
  BY <1>1, <1>2 DEF IsRun
<1> QED BY <1>2, <1>3

-----------------------------------------------------------------------------
(* What the codes of a report do to a decoder between two codes.             *)
Clean(held) == [held |-> held, e0 |-> FALSE, f0 |-> FALSE]

\* The keys whose code is that of one of ks: the decoder cannot tell them apart.
Alike(set1, ks) ==
  {j \in Key : \E k \in ks : ScanCode[IF set1 THEN 1 ELSE 2][j]
                              = ScanCode[IF set1 THEN 1 ELSE 2][k]}

(* A code stands for every key that has it.                                  *)
LEMMA KeysOfCode ==
  ASSUME NEW k \in Key
  PROVE  /\ \A s \in {1, 2} : /\ ScanCode[s][k].extended \in BOOLEAN
                             /\ ScanCode[s][k].code \in Code
         /\ KeyFor(1, ScanCode[1][k].extended, ScanCode[1][k].code) = Alike(TRUE, {k})
         /\ KeyFor(2, ScanCode[2][k].extended, ScanCode[2][k].code) = Alike(FALSE, {k})
<1>1. \A s \in {1, 2} : ScanCode[s][k] \in [extended : BOOLEAN, code : Code]
  BY ScanCodeAssumption
<1>2. \A s \in {1, 2} : ScanCode[s][k] = [extended |-> ScanCode[s][k].extended,
                                         code |-> ScanCode[s][k].code]
  BY <1>1
<1> QED BY <1>1, <1>2 DEF KeyFor, Alike

LEMMA ByteKinds ==
  /\ E0 \in Byte /\ F0 \in Byte /\ Reply \in Byte
  /\ \A c \in Code, up \in BOOLEAN : Set1(c, up) \in Byte
  /\ \A c \in Code : Set2(c) \in Byte
BY DEF Byte

LEMMA PrefixRead ==
  ASSUME NEW held, NEW x \in BOOLEAN
  PROVE  Decoded(Clean(held), IF x THEN <<E0>> ELSE <<>>)
           = [held |-> held, e0 |-> x, f0 |-> FALSE]
<1>1. CASE x
  <2>1. Decode(Clean(held), E0) = [held |-> held, e0 |-> TRUE, f0 |-> FALSE]
    BY DEF Decode, Clean, E0
  <2> QED BY <1>1, <2>1, DecodedOne, ByteKinds
<1>2. CASE ~x
  BY <1>2, DecodedEmpty DEF Clean
<1> QED BY <1>1, <1>2

\* A key's codes: the decoder takes it for pressed, or for released.
After(held, S, up) == IF up THEN held \ S ELSE held \cup S

LEMMA Set1Read ==
  ASSUME NEW held, NEW k \in Key, NEW up \in BOOLEAN
  PROVE  /\ ScanCodeBytes(TRUE, k, up) \in Seq(Byte)
         /\ Decoded(Clean(held), ScanCodeBytes(TRUE, k, up)) = Clean(After(held, Alike(TRUE, {k}), up))
<1> DEFINE x == ScanCode[1][k].extended
           c == ScanCode[1][k].code
           A == IF x THEN <<E0>> ELSE <<>>
           g == [held |-> held, e0 |-> x, f0 |-> FALSE]
<1>1. x \in BOOLEAN /\ c \in Code /\ KeyFor(1, x, c) = Alike(TRUE, {k})
  BY KeysOfCode
<1>2. ScanCodeBytes(TRUE, k, up) = A \o <<Set1(c, up)>>
  BY DEF ScanCodeBytes
<1> HIDE DEF x, c
<1>3. A \in Seq(Byte) /\ Set1(c, up) \in Byte /\ <<Set1(c, up)>> \in Seq(Byte)
  BY <1>1, ByteKinds
<1>4. Decoded(Clean(held), A) = g
  BY <1>1, PrefixRead
<1>5. Decode(g, Set1(c, up)) = Clean(After(held, Alike(TRUE, {k}), up))
  BY <1>1 DEF Decode, Set1, Clean, After
<1> HIDE DEF A, g
<1>6. Decoded(Clean(held), A \o <<Set1(c, up)>>) = Decoded(g, <<Set1(c, up)>>)
  BY <1>3, <1>4, DecodedConcat
<1>7. A \o <<Set1(c, up)>> \in Seq(Byte)
  BY <1>3, ConcatProperties
<1> QED BY <1>2, <1>3, <1>5, <1>6, <1>7, DecodedOne

LEMMA Set2Read ==
  ASSUME NEW held, NEW k \in Key, NEW up \in BOOLEAN
  PROVE  /\ ScanCodeBytes(FALSE, k, up) \in Seq(Byte)
         /\ Decoded(Clean(held), ScanCodeBytes(FALSE, k, up)) = Clean(After(held, Alike(FALSE, {k}), up))
<1> DEFINE x == ScanCode[2][k].extended
           c == ScanCode[2][k].code
           A == IF x THEN <<E0>> ELSE <<>>
           F == IF up THEN <<F0>> ELSE <<>>
           g == [held |-> held, e0 |-> x, f0 |-> FALSE]
           h == [held |-> held, e0 |-> x, f0 |-> up]
<1>1. x \in BOOLEAN /\ c \in Code /\ KeyFor(2, x, c) = Alike(FALSE, {k})
  BY KeysOfCode
<1>2. ScanCodeBytes(FALSE, k, up) = A \o (F \o <<Set2(c)>>)
  BY DEF ScanCodeBytes
<1> HIDE DEF x, c
<1>3. /\ A \in Seq(Byte) /\ F \in Seq(Byte)
      /\ Set2(c) \in Byte /\ <<Set2(c)>> \in Seq(Byte)
  BY <1>1, ByteKinds
<1>4. Decoded(Clean(held), A) = g
  BY <1>1, PrefixRead
<1>5. Decoded(g, F) = h
  <2>1. CASE up
    <3>1. Decode(g, F0) = h
      BY <1>1, <2>1 DEF Decode, F0
    <3> QED BY <2>1, <3>1, DecodedOne, ByteKinds
  <2>2. CASE ~up
    BY <2>2, DecodedEmpty
  <2> QED BY <2>1, <2>2
<1>6. Decode(h, Set2(c)) = Clean(After(held, Alike(FALSE, {k}), up))
  BY <1>1 DEF Decode, Set2, Clean, After
<1> HIDE DEF A, F, g, h
<1>7. Decoded(g, F \o <<Set2(c)>>) = Decoded(h, <<Set2(c)>>)
  BY <1>3, <1>5, DecodedConcat
<1>8. F \o <<Set2(c)>> \in Seq(Byte)
  BY <1>3, ConcatProperties
<1>9. Decoded(Clean(held), A \o (F \o <<Set2(c)>>)) = Decoded(g, F \o <<Set2(c)>>)
  BY <1>3, <1>4, <1>8, DecodedConcat
<1>10. A \o (F \o <<Set2(c)>>) \in Seq(Byte)
  BY <1>3, <1>8, ConcatProperties
<1> QED BY <1>2, <1>3, <1>6, <1>7, <1>9, <1>10, DecodedOne

LEMMA KeyRead ==
  ASSUME NEW set1 \in BOOLEAN, NEW held, NEW k \in Key, NEW up \in BOOLEAN
  PROVE  /\ ScanCodeBytes(set1, k, up) \in Seq(Byte)
         /\ Decoded(Clean(held), ScanCodeBytes(set1, k, up)) = Clean(After(held, Alike(set1, {k}), up))
<1>1. CASE set1 = TRUE
  BY <1>1, Set1Read
<1>2. CASE set1 = FALSE
  BY <1>2, Set2Read
<1> QED BY <1>1, <1>2

\* A decoder between two codes that believes before takes b for after.
Reads(before, b, after) ==
  b \in Seq(Byte) /\ Decoded(Clean(before), b) = Clean(after)

(* The keys of a list that are in S, one after another.                      *)
LEMMA EmitRead ==
  ASSUME NEW set1 \in BOOLEAN, NEW held, NEW ks \in Seq(Key), NEW S,
         NEW up \in BOOLEAN
  PROVE  Reads(held, Emit(set1, ks, S, up),
               After(held, Alike(set1, ToSet(ks) \cap S), up))
<1> DEFINE n == Len(ks)
           seqs == [i \in DOMAIN ks |->
                      IF ks[i] \in S THEN ScanCodeBytes(set1, ks[i], up) ELSE <<>>]
           Sent(i) == {ks[j] : j \in 1 .. i} \cap S
           Seen(i) == Alike(set1, Sent(i))
           Good(b, i) == /\ b \in Seq(Byte)
                         /\ Decoded(Clean(held), b) = Clean(After(held, Seen(i), up))
<1>1. n \in Nat /\ DOMAIN ks = 1 .. n /\ \A i \in 1 .. n : ks[i] \in Key
  OBVIOUS
<1>2. \A i \in 1 .. n : seqs[i] \in Seq(Byte)
  <2>1. <<>> \in Seq(Byte)
    BY EmptySeq
  <2> QED BY <1>1, <2>1, KeyRead
<1>3. seqs \in Seq(Seq(Byte)) /\ Len(seqs) = n
  <2>1. DOMAIN seqs = 1 .. n
    BY <1>1
  <2>2. seqs \in [1 .. n -> Seq(Byte)]
    BY <1>1, <1>2, <2>1
  <2> HIDE DEF seqs
  <2> QED BY <1>1, <2>2
<1>4. PICK f : FlattenRun(f, seqs) /\ FlattenSeq(seqs) = f[n]
  BY <1>3, FlattenRuns
<1> DEFINE T == {i \in 0 .. n : Good(f[i], i)}
<1>5. 0 \in T
  <2>1. f[0] = <<>> /\ <<>> \in Seq(Byte) /\ Decoded(Clean(held), <<>>) = Clean(held)
    BY <1>4, EmptySeq, DecodedEmpty DEF FlattenRun
  <2>2. After(held, Seen(0), up) = held
    BY DEF After, Alike
  <2> HIDE DEF Seen
  <2>3. Good(f[0], 0)
    BY <2>1, <2>2
  <2> HIDE DEF Good
  <2> QED BY <1>1, <2>3
<1>6. ASSUME NEW i \in 0 .. n - 1, i \in T PROVE i + 1 \in T
  <2>1. i + 1 \in 1 .. n /\ i + 1 \in 0 .. n /\ (i + 1) - 1 = i
    BY <1>1
  <2> DEFINE k == ks[i + 1]
             b == IF k \in S THEN ScanCodeBytes(set1, k, up) ELSE <<>>
             before == After(held, Seen(i), up)
  <2>2. seqs[i + 1] = b
    BY <1>1, <2>1
  <2>3. f[i + 1] = f[i] \o b
    BY <1>3, <1>4, <2>1, <2>2 DEF FlattenRun
  <2>4. Good(f[i], i)
    BY <1>6
  <2>5. k \in Key /\ b \in Seq(Byte)
    BY <1>1, <1>2, <2>1, <2>2
  <2>6. Sent(i + 1) = Sent(i) \cup ({k} \cap S)
    <3>1. \A j \in 1 .. i + 1 : j \in 1 .. i \/ j = i + 1
      BY <2>1
    <3>2. \A j \in 1 .. i : j \in 1 .. i + 1
      BY <2>1
    <3>3. i + 1 \in 1 .. i + 1
      BY <2>1
    <3> QED BY <3>1, <3>2, <3>3
  <2> HIDE DEF Sent, k
  <2>7. Decoded(Clean(before), b) = Clean(After(held, Seen(i + 1), up))
    <3>1. CASE k \in S
      <4>1. Decoded(Clean(before), b) = Clean(After(before, Alike(set1, {k}), up))
        BY <2>5, <3>1, KeyRead
      <4>2. Seen(i + 1) = Seen(i) \cup Alike(set1, {k})
        BY <2>6, <3>1 DEF Alike
      <4>3. After(before, Alike(set1, {k}), up) = After(held, Seen(i + 1), up)
        BY <4>2 DEF After
      <4> QED BY <4>1, <4>3
    <3>2. CASE k \notin S
      <4>1. Seen(i + 1) = Seen(i)
        BY <2>6, <3>2
      <4> QED BY <3>2, <4>1, DecodedEmpty
    <3> QED BY <3>1, <3>2
  <2> HIDE DEF b
  <2>8. Good(f[i + 1], i + 1)
    BY <2>3, <2>4, <2>5, <2>7, DecodedConcat, ConcatProperties
  <2> QED BY <2>1, <2>8
<1> HIDE DEF T
<1>7. n \in T
  <2>1. 0 .. n \subseteq T
    BY <1>1, <1>5, <1>6, UpTo
  <2> QED BY <1>1, <2>1
<1>8. Emit(set1, ks, S, up) = f[n]
  BY <1>4 DEF Emit
<1>9. Seen(n) = Alike(set1, ToSet(ks) \cap S)
  BY <1>1 DEF ToSet
<1> QED BY <1>7, <1>8, <1>9 DEF T, Reads

LEMMA EmitDown ==
  ASSUME NEW set1 \in BOOLEAN, NEW held, NEW ks \in Seq(Key), NEW S,
         S \subseteq ToSet(ks)
  PROVE  Reads(held, Emit(set1, ks, S, Down), held \cup Alike(set1, S))
<1>1. ToSet(ks) \cap S = S /\ After(held, Alike(set1, S), Down) = held \cup Alike(set1, S)
  BY DEF After, Down, Up
<1>2. Down \in BOOLEAN
  BY DEF Down, Up
<1>3. Reads(held, Emit(set1, ks, S, Down),
            After(held, Alike(set1, ToSet(ks) \cap S), Down))
  BY <1>2, EmitRead
<1> QED BY <1>1, <1>3

LEMMA EmitUp ==
  ASSUME NEW set1 \in BOOLEAN, NEW held, NEW ks \in Seq(Key), NEW S,
         S \subseteq ToSet(ks)
  PROVE  Reads(held, Emit(set1, ks, S, Up), held \ Alike(set1, S))
<1>1. ToSet(ks) \cap S = S /\ After(held, Alike(set1, S), Up) = held \ Alike(set1, S)
  BY DEF After, Down, Up
<1>2. Up \in BOOLEAN
  BY DEF Down, Up
<1>3. Reads(held, Emit(set1, ks, S, Up),
            After(held, Alike(set1, ToSet(ks) \cap S), Up))
  BY <1>2, EmitRead
<1> QED BY <1>1, <1>3

\* What a report's list of keys is.
LEMMA ReportTyped ==
  ASSUME NEW r \in Report
  PROVE  /\ r.keys \in Seq(Key) /\ ToSet(r.keys) \subseteq Keys
         /\ r.mods \subseteq Modifier
         /\ KeysOf(r) \subseteq Key
<1>1. PICK n \in 0 .. MaxKeys : r.keys \in [1 .. n -> Keys]
  BY DEF Report, KeyLists
<1>2. n \in Nat
  BY SizesAssumption
<1>3. r.keys \in Seq(Key)
  BY <1>1, <1>2 DEF Key
<1>4. ToSet(r.keys) \subseteq Keys
  BY <1>1 DEF ToSet
<1>5. r.mods \subseteq Modifier
  BY DEF Report
<1> QED BY <1>3, <1>4, <1>5 DEF KeysOf, Key

\* The keys a decoder believes held once report old has become report new.
Replaced(set1, held, old, new) ==
  (((held \cup Alike(set1, new.mods \ old.mods))
      \cup Alike(set1, ToSet(new.keys) \ ToSet(old.keys)))
    \ Alike(set1, ToSet(old.keys) \ ToSet(new.keys)))
  \ Alike(set1, old.mods \ new.mods)

(* Turning report old into report new: the decoder takes every look-alike of *)
(* a key pressed, then drops every one of a key let go.                      *)
LEMMA TransitionsRead ==
  ASSUME NEW set1 \in BOOLEAN, NEW held, NEW old \in Report, NEW new \in Report
  PROVE  /\ Transitions(set1, old, new) \in Seq(Byte)
         /\ Decoded(Clean(held), Transitions(set1, old, new))
              = Clean(Replaced(set1, held, old, new))
<1> DEFINE oldKeys  == old.keys
           newKeys  == new.keys
           modsDown == new.mods \ old.mods
           keysDown == ToSet(newKeys) \ ToSet(oldKeys)
           keysUp   == ToSet(oldKeys) \ ToSet(newKeys)
           modsUp   == old.mods \ new.mods
           h1 == held \cup Alike(set1, modsDown)
           h2 == h1 \cup Alike(set1, keysDown)
           h3 == h2 \ Alike(set1, keysUp)
           h4 == h3 \ Alike(set1, modsUp)
<1>1. /\ Modifiers \in Seq(Key) /\ ToSet(Modifiers) = Modifier
      /\ Keys \cap Modifier = {}
  <2>1. Modifiers \in Seq(Modifier) /\ Modifier \subseteq Key
    BY KeysAssumption DEF Key
  <2>2. Modifiers \in Seq(Key)
    BY <2>1, SeqMonotonic
  <2> QED BY <2>2, KeysAssumption DEF Modifier
<1>2. /\ oldKeys \in Seq(Key) /\ ToSet(oldKeys) \subseteq Keys /\ old.mods \subseteq Modifier
      /\ newKeys \in Seq(Key) /\ ToSet(newKeys) \subseteq Keys /\ new.mods \subseteq Modifier
  BY ReportTyped
<1>3. /\ modsDown \subseteq ToSet(Modifiers) /\ modsUp \subseteq ToSet(Modifiers)
      /\ keysDown \subseteq ToSet(newKeys) /\ keysUp \subseteq ToSet(oldKeys)
  BY <1>1, <1>2
<1>4. h4 = Replaced(set1, held, old, new)
  BY DEF Replaced
<1> DEFINE md == Emit(set1, Modifiers, modsDown, Down)
           kd == Emit(set1, newKeys, keysDown, Down)
           ku == Emit(set1, oldKeys, keysUp, Up)
           mu == Emit(set1, Modifiers, modsUp, Up)
<1>5. Transitions(set1, old, new) = ((md \o kd) \o ku) \o mu
  BY DEF Transitions
<1> HIDE DEF oldKeys, newKeys, modsDown, keysDown, keysUp, modsUp
<1>6. Reads(held, md, h1)
  BY <1>1, <1>3, EmitDown
<1> HIDE DEF h1
<1>7. Reads(h1, kd, h2)
  BY <1>2, <1>3, EmitDown
<1> HIDE DEF h2
<1>8. Reads(h2, ku, h3)
  BY <1>2, <1>3, EmitUp
<1> HIDE DEF h3
<1>9. Reads(h3, mu, h4)
  BY <1>1, <1>3, EmitUp
<1> HIDE DEF h4, md, kd, ku, mu
<1> DEFINE b2 == md \o kd
           b3 == b2 \o ku
           b4 == b3 \o mu
<1>10. b2 \in Seq(Byte) /\ Decoded(Clean(held), b2) = Clean(h2)
  BY <1>6, <1>7, DecodedConcat, ConcatProperties DEF Reads
<1> HIDE DEF b2
<1>11. b3 \in Seq(Byte) /\ Decoded(Clean(held), b3) = Clean(h3)
  BY <1>8, <1>10, DecodedConcat, ConcatProperties DEF Reads
<1> HIDE DEF b3
<1>12. b4 \in Seq(Byte) /\ Decoded(Clean(held), b4) = Clean(h4)
  BY <1>9, <1>11, DecodedConcat, ConcatProperties DEF Reads
<1> QED BY <1>4, <1>5, <1>12 DEF b2, b3


\* Believing held is right about the keys of ks but for those of but.
Right(held, ks, but) == \A k \in Key \ but : k \in held <=> k \in ks

\* The keys whose codes turning report old into report new sends.
Changed(old, new) == (KeysOf(new) \ KeysOf(old)) \cup (KeysOf(old) \ KeysOf(new))

(* A decoder that was right about a key still is, and is right about a key   *)
(* that was just pressed or let go, unless a look-alike was too.             *)
LEMMA ReplacedRight ==
  ASSUME NEW set1 \in BOOLEAN, NEW old \in Report, NEW new \in Report,
         NEW held, NEW stay, NEW but, Right(held, KeysOf(old) \cup stay, but)
  PROVE  Right(Replaced(set1, held, old, new),
               KeysOf(new) \cup (stay \ (KeysOf(old) \ KeysOf(new))),
               (but \ Changed(old, new)) \cup Eclipsed(set1, Changed(old, new)))
<1> DEFINE modsDown == new.mods \ old.mods
           keysDown == ToSet(new.keys) \ ToSet(old.keys)
           keysUp   == ToSet(old.keys) \ ToSet(new.keys)
           modsUp   == old.mods \ new.mods
           changed  == Changed(old, new)
<1>1. /\ modsDown \subseteq changed /\ keysDown \subseteq changed
      /\ keysUp \subseteq changed /\ modsUp \subseteq changed
      /\ modsDown \cup keysDown = KeysOf(new) \ KeysOf(old)
      /\ keysUp \cup modsUp = KeysOf(old) \ KeysOf(new)
  BY ReportTyped, KeysAssumption DEF Changed, KeysOf
<1> SUFFICES ASSUME NEW k \in Key, k \notin Eclipsed(set1, changed),
                    k \in but => k \in changed
             PROVE  k \in Replaced(set1, held, old, new)
                      <=> k \in KeysOf(new) \cup (stay \ (KeysOf(old) \ KeysOf(new)))
  BY DEF Right
<1>2. \A ks \in SUBSET changed : k \in Alike(set1, ks) <=> k \in ks
  BY DEF Alike, Eclipsed
<1>3. k \in Replaced(set1, held, old, new)
        <=> /\ k \in held \/ k \in modsDown \/ k \in keysDown
            /\ k \notin keysUp /\ k \notin modsUp
  BY <1>1, <1>2 DEF Replaced
<1>4. k \notin changed => (k \in held <=> k \in KeysOf(old) \cup stay)
  BY DEF Right
<1> HIDE DEF modsDown, keysDown, keysUp, modsUp
<1> QED BY <1>1, <1>3, <1>4 DEF Changed

-----------------------------------------------------------------------------
(* Types: the queue holds bytes, never more than it has room for.            *)
LEMMA EmptyTyped == EmptyReport \in Report /\ KeysOf(EmptyReport) = {}
<1>1. <<>> \in [1 .. 0 -> Keys] /\ Injective(<<>>) /\ 0 \in 0 .. MaxKeys
  BY SizesAssumption DEF Injective
<1>2. <<>> \in KeyLists
  BY <1>1 DEF KeyLists
<1>3. ToSet(<<>>) = {}
  BY DEF ToSet
<1> QED BY <1>2, <1>3 DEF EmptyReport, Report, KeysOf

LEMMA FittingTyped ==
  ASSUME NEW q \in Seq(Byte), Len(q) <= QueueSize, NEW b \in Seq(Byte)
  PROVE  /\ Fitting(q, b) \in Seq(Byte)
         /\ Len(Fitting(q, b)) <= QueueSize
         /\ Len(Fitting(q, b)) # QueueSize => Fitting(q, b) = q \o b
<1> DEFINE room == QueueSize - Len(q)
           n == IF Len(b) < room THEN Len(b) ELSE room
           part == SubSeq(b, 1, n)
<1>1. Len(q) \in Nat /\ Len(b) \in Nat /\ room \in Nat /\ QueueSize \in Nat
  BY SizesAssumption
<1>2. n \in Nat /\ n <= Len(b) /\ n <= room /\ (n # room => n = Len(b))
  BY <1>1
<1>3. Fitting(q, b) = q \o part
  BY DEF Fitting
<1> HIDE DEF n
<1>4. part \in Seq(Byte) /\ Len(part) = n /\ (n = Len(b) => part = b)
  <2>1. 1 \in Int /\ n \in Int /\ \A i \in 1 .. n : b[i] \in Byte
    BY <1>1, <1>2
  <2>2. part \in Seq(Byte) /\ Len(part) = IF 1 <= n THEN n - 1 + 1 ELSE 0
    BY <2>1, SubSeqProperties
  <2>3. Len(part) = n
    BY <1>2, <2>2
  <2> QED BY <2>2, <2>3, SubSeqFull
<1> HIDE DEF part
<1>5. q \o part \in Seq(Byte) /\ Len(q \o part) = Len(q) + n
  BY <1>4, ConcatProperties
<1> QED BY <1>1, <1>2, <1>3, <1>4, <1>5

LEMMA EnqueueTyped ==
  ASSUME TypeOK, NEW b \in Seq(Byte), NEW cmd \in CommandByte, Enqueue(b, cmd)
  PROVE  /\ queue' \in Seq(Byte) /\ Len(queue') <= QueueSize
         /\ Len(queue') # QueueSize => queue' = queue \o b
         /\ irqPending' \in BOOLEAN
<1>1. queue' = Fitting(queue, b) /\ queue \in Seq(Byte) /\ Len(queue) <= QueueSize
  BY DEF TypeOK, Enqueue
<1>2. irqPending' \in BOOLEAN
  <2>1. irqPending \in BOOLEAN /\ cmd.irq \in BOOLEAN
    BY DEF TypeOK, CommandByte
  <2> QED BY <2>1 DEF Enqueue
<1> QED BY <1>1, <1>2, FittingTyped

LEMMA CodesTyped ==
  ASSUME TypeOK, NEW cmd \in CommandByte, NEW r \in Report
  PROVE  /\ Set1Output(cmd) \in BOOLEAN
         /\ Transitions(Set1Output(cmd), last, r) \in Seq(Byte)
<1>1. Set1Output(cmd) \in BOOLEAN
  BY DEF Set1Output, CommandByte
<1>2. last \in Report
  BY DEF TypeOK
<1> HIDE DEF Set1Output
<1> QED BY <1>1, <1>2, TransitionsRead

\* The answers of the controller and the keyboard, in bytes.
Answers == {<<>>, <<Reply>>, <<Reply, Reply>>, <<Reply, Reply, Reply>>}

(* No answer makes a decoder that is between two codes believe anything.     *)
LEMMA AnswersRead ==
  ASSUME NEW b \in Answers
  PROVE  b \in Seq(Byte) /\ \A held : Decoded(Clean(held), b) = Clean(held)
<1> DEFINE one   == <<Reply>>
           two   == one \o one
           three == two \o one
<1>1. Answers = {<<>>, one, two, three}
  BY DEF Answers
<1>2. one \in Seq(Byte) /\ \A held : Decoded(Clean(held), one) = Clean(held)
  <2>1. \A held : Decode(Clean(held), Reply) = Clean(held)
    BY DEF Decode, Reply
  <2> QED BY <2>1, DecodedOne, ByteKinds
<1> HIDE DEF one
<1>3. two \in Seq(Byte) /\ \A held : Decoded(Clean(held), two) = Clean(held)
  BY <1>2, DecodedConcat, ConcatProperties
<1> HIDE DEF two
<1>4. three \in Seq(Byte) /\ \A held : Decoded(Clean(held), three) = Clean(held)
  BY <1>2, <1>3, DecodedConcat, ConcatProperties
<1>5. <<>> \in Seq(Byte) /\ \A held : Decoded(Clean(held), <<>>) = Clean(held)
  BY EmptySeq, DecodedEmpty
<1> HIDE DEF three
<1> QED BY <1>1, <1>2, <1>3, <1>4, <1>5

LEMMA ProcessTyped ==
  ASSUME TypeOK, NEW ack \in Answers, NEW r \in Report, NEW cmd \in CommandByte,
         Process(ack, r, cmd)
  PROVE  /\ ack \o Transitions(Set1Output(cmd), last, r) \in Seq(Byte)
         /\ queue' \in Seq(Byte) /\ Len(queue') <= QueueSize
         /\ irqPending' \in BOOLEAN
         /\ last' \in Report
         /\ deferred' \in Report \cup {NoReport}
<1> DEFINE b == ack \o Transitions(Set1Output(cmd), last, r)
<1>1. b \in Seq(Byte)
  <2>1. Transitions(Set1Output(cmd), last, r) \in Seq(Byte) /\ ack \in Seq(Byte)
    BY CodesTyped, AnswersRead
  <2> QED BY <2>1, ConcatProperties
<1>2. Enqueue(b, cmd) /\ last' = r /\ deferred' = NoReport
  BY DEF Process
<1> HIDE DEF b
<1>3. queue' \in Seq(Byte) /\ Len(queue') <= QueueSize /\ irqPending' \in BOOLEAN
  BY <1>1, <1>2, EnqueueTyped
<1> QED BY <1>1, <1>2, <1>3 DEF b

LEMMA ApplyTyped ==
  ASSUME TypeOK, NEW ack \in Answers, NEW cmd \in CommandByte,
         ApplyDeferred(ack, cmd)
  PROVE  /\ queue' \in Seq(Byte) /\ Len(queue') <= QueueSize
         /\ irqPending' \in BOOLEAN
         /\ last' \in Report
         /\ deferred' \in Report \cup {NoReport}
<1>1. ack \in Seq(Byte)
  BY AnswersRead
<1>2. CASE deferred = NoReport /\ Enqueue(ack, cmd) /\ UNCHANGED <<last, deferred>>
  BY <1>1, <1>2, EnqueueTyped DEF TypeOK
<1>3. CASE deferred # NoReport /\ Process(ack, deferred, cmd)
  <2>1. deferred \in Report
    BY <1>3 DEF TypeOK
  <2> QED BY <1>3, <2>1, ProcessTyped
<1> QED BY <1>2, <1>3 DEF ApplyDeferred

LEMMA AnswerTyped ==
  ASSUME TypeOK, NEW b \in Answers, NEW cmd \in CommandByte, Enqueue(b, cmd)
  PROVE  /\ queue' \in Seq(Byte) /\ Len(queue') <= QueueSize
         /\ irqPending' \in BOOLEAN
<1>1. b \in Seq(Byte)
  BY AnswersRead
<1> QED BY <1>1, EnqueueTyped

LEMMA DisableTyped ==
  ASSUME TypeOK, NEW b \in BOOLEAN, SetDisabled(b)
  PROVE  command' \in CommandByte /\ disabled' \in BOOLEAN
<1>1. command \in CommandByte
  BY DEF TypeOK
<1> QED BY <1>1, DisableKeepsIrq

LEMMA CommandTypes ==
  ASSUME TypeOK, NEW c, KeyboardCommand(c)
  PROVE  TypeOK'
<1>0. command \in CommandByte /\ EmptyReport \in Report
  BY EmptyTyped DEF TypeOK
<1>1. CASE /\ c \in {"ED", "F0"}
           /\ Enqueue(<<Reply>>, command)
           /\ pendingWrite' = IF c = "F0" THEN "ScanCodeSet" ELSE "Parameter"
           /\ UNCHANGED <<command, disabled, scanCodeSet, last, deferred>>
  <2>1. <<Reply>> \in Answers
    BY DEF Answers
  <2>2. queue' \in Seq(Byte) /\ Len(queue') <= QueueSize /\ irqPending' \in BOOLEAN
    BY <1>0, <1>1, <2>1, AnswerTyped
  <2> QED BY <1>1, <2>2 DEF TypeOK, PendingWrite
<1>2. CASE /\ c \in {"F2", "other"}
           /\ Enqueue(IF c = "F2" THEN <<Reply, Reply, Reply>> ELSE <<Reply>>, command)
           /\ UNCHANGED <<command, disabled, scanCodeSet, pendingWrite, last, deferred>>
  <2> DEFINE b == IF c = "F2" THEN <<Reply, Reply, Reply>> ELSE <<Reply>>
  <2>1. b \in Answers
    BY DEF Answers
  <2>2. queue' \in Seq(Byte) /\ Len(queue') <= QueueSize /\ irqPending' \in BOOLEAN
    BY <1>0, <1>2, <2>1, AnswerTyped
  <2> QED BY <1>2, <2>2 DEF TypeOK
<1>3. CASE /\ SetDisabled(FALSE)
           /\ ApplyDeferred(<<Reply>>, command')
           /\ UNCHANGED <<scanCodeSet, pendingWrite>>
  <2>1. <<Reply>> \in Answers
    BY DEF Answers
  <2>2. command' \in CommandByte /\ disabled' \in BOOLEAN
    BY <1>3, DisableTyped
  <2>3. /\ queue' \in Seq(Byte) /\ Len(queue') <= QueueSize
        /\ irqPending' \in BOOLEAN
        /\ last' \in Report
        /\ deferred' \in Report \cup {NoReport}
    BY <1>3, <2>1, <2>2, ApplyTyped
  <2> QED BY <1>3, <2>2, <2>3 DEF TypeOK
<1>4. CASE /\ SetDisabled(c = "F5")
           /\ scanCodeSet' = 2
           /\ ClearPressed
           /\ Enqueue(<<Reply>>, command')
           /\ UNCHANGED pendingWrite
  <2>1. <<Reply>> \in Answers
    BY DEF Answers
  <2>2. command' \in CommandByte /\ disabled' \in BOOLEAN
    BY <1>4, DisableTyped
  <2>3. queue' \in Seq(Byte) /\ Len(queue') <= QueueSize /\ irqPending' \in BOOLEAN
    BY <1>4, <2>1, <2>2, AnswerTyped
  <2> QED BY <1>0, <1>4, <2>2, <2>3 DEF TypeOK, ScanCodeSets, ClearPressed
<1>5. CASE /\ Enqueue(<<Reply, Reply>>, command)
           /\ ClearPressed
           /\ UNCHANGED <<command, disabled, scanCodeSet, pendingWrite>>
  <2>1. <<Reply, Reply>> \in Answers
    BY DEF Answers
  <2>2. queue' \in Seq(Byte) /\ Len(queue') <= QueueSize /\ irqPending' \in BOOLEAN
    BY <1>0, <1>5, <2>1, AnswerTyped
  <2> QED BY <1>0, <1>5, <2>2 DEF TypeOK, ClearPressed
<1> QED BY <1>1, <1>2, <1>3, <1>4, <1>5 DEF KeyboardCommand

LEMMA PortTypes ==
  ASSUME TypeOK, NEW c, WriteCommandPort(c), UNCHANGED scanCodeSet
  PROVE  TypeOK'
<1>0. command \in CommandByte
  BY DEF TypeOK
<1>1. CASE /\ Enqueue(<<Reply>>, command)
           /\ UNCHANGED <<command, disabled, pendingWrite, last, deferred>>
  <2>1. <<Reply>> \in Answers
    BY DEF Answers
  <2>2. queue' \in Seq(Byte) /\ Len(queue') <= QueueSize /\ irqPending' \in BOOLEAN
    BY <1>0, <1>1, <2>1, AnswerTyped
  <2> QED BY <1>1, <2>2 DEF TypeOK
<1>2. CASE /\ pendingWrite' = IF c = "60" THEN "CommandByte" ELSE "Parameter"
           /\ UNCHANGED <<command, disabled, irqPending, last, deferred, queue>>
  BY <1>2 DEF TypeOK, PendingWrite
<1>3. CASE /\ SetDisabled(TRUE)
           /\ UNCHANGED <<irqPending, pendingWrite, last, deferred, queue>>
  <2>1. command' \in CommandByte /\ disabled' \in BOOLEAN
    BY <1>3, DisableTyped
  <2> QED BY <1>3, <2>1 DEF TypeOK
<1>4. CASE /\ SetDisabled(FALSE)
           /\ ApplyDeferred(<<>>, command')
           /\ UNCHANGED pendingWrite
  <2>1. <<>> \in Answers
    BY DEF Answers
  <2>2. command' \in CommandByte /\ disabled' \in BOOLEAN
    BY <1>4, DisableTyped
  <2>3. /\ queue' \in Seq(Byte) /\ Len(queue') <= QueueSize
        /\ irqPending' \in BOOLEAN
        /\ last' \in Report
        /\ deferred' \in Report \cup {NoReport}
    BY <1>4, <2>1, <2>2, ApplyTyped
  <2> QED BY <1>4, <2>2, <2>3 DEF TypeOK
<1> QED BY <1>1, <1>2, <1>3, <1>4 DEF WriteCommandPort

LEMMA CommandByteTypes ==
  ASSUME TypeOK, NEW cb \in CommandBytes, WriteCommandByte(cb)
  PROVE  TypeOK'
<1>1. cb \in CommandByte /\ cb.disable \in BOOLEAN
  BY CommandBytesAssumption DEF CommandByte
<1>2. /\ command' \in CommandByte /\ disabled' \in BOOLEAN
      /\ pendingWrite' \in PendingWrite /\ scanCodeSet' \in ScanCodeSets
  BY <1>1 DEF WriteCommandByte, TypeOK, PendingWrite
<1>3. CASE ApplyDeferred(<<>>, cb)
  <2>1. <<>> \in Answers
    BY DEF Answers
  <2>2. /\ queue' \in Seq(Byte) /\ Len(queue') <= QueueSize
        /\ irqPending' \in BOOLEAN
        /\ last' \in Report
        /\ deferred' \in Report \cup {NoReport}
    BY <1>1, <1>3, <2>1, ApplyTyped
  <2> QED BY <1>2, <2>2 DEF TypeOK
<1>4. CASE UNCHANGED <<irqPending, last, deferred, queue>>
  BY <1>2, <1>4 DEF TypeOK
<1> QED BY <1>3, <1>4 DEF WriteCommandByte

LEMMA ParameterTypes ==
  ASSUME TypeOK, WriteParameter \/ \E n \in ScanCodeSets \cup {0, 4} : WriteScanCodeSet(n)
  PROVE  TypeOK'
<1>0. command \in CommandByte
  BY DEF TypeOK
<1>1. CASE WriteParameter
  <2>1. <<Reply>> \in Answers
    BY DEF Answers
  <2>2. queue' \in Seq(Byte) /\ Len(queue') <= QueueSize /\ irqPending' \in BOOLEAN
    BY <1>0, <1>1, <2>1, AnswerTyped DEF WriteParameter
  <2> QED BY <1>1, <2>2 DEF TypeOK, WriteParameter, PendingWrite
<1>2. ASSUME NEW n \in ScanCodeSets \cup {0, 4}, WriteScanCodeSet(n) PROVE TypeOK'
  <2> DEFINE b == IF n = 0 THEN <<Reply, Reply>> ELSE <<Reply>>
  <2>1. b \in Answers /\ Enqueue(b, command)
    BY <1>2 DEF Answers, WriteScanCodeSet
  <2> HIDE DEF b
  <2>2. queue' \in Seq(Byte) /\ Len(queue') <= QueueSize /\ irqPending' \in BOOLEAN
    BY <1>0, <2>1, AnswerTyped
  <2>3. scanCodeSet' \in ScanCodeSets
    BY <1>2 DEF TypeOK, WriteScanCodeSet
  <2> QED BY <1>2, <2>2, <2>3 DEF TypeOK, WriteScanCodeSet, PendingWrite
<1> QED BY <1>1, <1>2

LEMMA DeviceTypes ==
  ASSUME TypeOK, (\E r \in Report : HidReport(r)) \/ UsbDisconnected
  PROVE  TypeOK'
<1>0. command \in CommandByte /\ EmptyReport \in Report
  BY EmptyTyped DEF TypeOK
<1>1. ASSUME NEW r \in Report, HidReport(r) PROVE TypeOK'
  <2>1. CASE disabled /\ deferred' = r /\ UNCHANGED <<irqPending, last, queue>>
    BY <1>1, <2>1 DEF HidReport, TypeOK
  <2>2. CASE Process(<<>>, r, command)
    <3>1. <<>> \in Answers
      BY DEF Answers
    <3>2. /\ queue' \in Seq(Byte) /\ Len(queue') <= QueueSize
          /\ irqPending' \in BOOLEAN
          /\ last' \in Report
          /\ deferred' \in Report \cup {NoReport}
      BY <1>0, <2>2, <3>1, ProcessTyped
    <3> QED BY <1>1, <3>2 DEF HidReport, TypeOK
  <2> QED BY <1>1, <2>1, <2>2 DEF HidReport
<1>2. CASE UsbDisconnected
  <2> DEFINE b == Transitions(Set1Output(command), last, EmptyReport)
  <2>1. CASE UNCHANGED <<irqPending, queue>>
    BY <1>0, <1>2, <2>1 DEF UsbDisconnected, ClearPressed, TypeOK
  <2>2. CASE Enqueue(b, command)
    <3>1. b \in Seq(Byte)
      BY <1>0, CodesTyped
    <3> HIDE DEF b
    <3>2. queue' \in Seq(Byte) /\ Len(queue') <= QueueSize /\ irqPending' \in BOOLEAN
      BY <1>0, <2>2, <3>1, EnqueueTyped
    <3> QED BY <1>0, <1>2, <3>2 DEF UsbDisconnected, ClearPressed, TypeOK
  <2> QED BY <1>2, <2>1, <2>2 DEF UsbDisconnected
<1> QED BY <1>1, <1>2

LEMMA TypeInit == ASSUME Init PROVE TypeOK
<1>1. <<>> \in Seq(Byte) /\ Len(<<>>) <= QueueSize
  BY EmptySeq, SizesAssumption
<1> QED BY <1>1, EmptyTyped
    DEF Init, TypeOK, PowerOn, CommandByte, PendingWrite, ScanCodeSets

LEMMA TypeStep == TypeOK /\ [Next]_vars => TypeOK'
<1> SUFFICES ASSUME TypeOK, [Next]_vars PROVE TypeOK'
  OBVIOUS
<1>1. CASE Reset
  <2>1. <<>> \in Seq(Byte) /\ Len(<<>>) <= QueueSize
    BY EmptySeq, SizesAssumption
  <2> QED BY <1>1, <2>1, EmptyTyped
      DEF Reset, TypeOK, PowerOn, ClearPressed, CommandByte, PendingWrite, ScanCodeSets
<1>2. CASE (\E r \in Report : HidReport(r)) \/ UsbDisconnected
  BY <1>2, DeviceTypes
<1>3. CASE ReadDataPort
  <2>1. queue' \in Seq(Byte) /\ Len(queue') <= QueueSize
    <3>1. queue \in Seq(Byte) /\ queue # <<>> /\ queue' = Tail(queue) /\ Len(queue) <= QueueSize
      BY <1>3 DEF ReadDataPort, TypeOK
    <3>2. queue' \in Seq(Byte) /\ Len(queue') = Len(queue) - 1 /\ Len(queue) \in Nat
      BY <3>1, HeadTailProperties
    <3> QED BY <3>1, <3>2, SizesAssumption
  <2>2. irqPending' \in BOOLEAN
    BY <1>3 DEF ReadDataPort
  <2> QED BY <1>3, <2>1, <2>2 DEF ReadDataPort, TypeOK
<1>4. CASE AcknowledgeIrq
  <2>1. irqPending' \in BOOLEAN
    BY <1>4 DEF AcknowledgeIrq
  <2> QED BY <1>4, <2>1 DEF AcknowledgeIrq, TypeOK
<1>5. CASE \E c \in ControllerCommands : WriteCommandPort(c) /\ UNCHANGED scanCodeSet
  BY <1>5, PortTypes
<1>6. CASE \E cb \in CommandBytes : WriteCommandByte(cb)
  BY <1>6, CommandByteTypes
<1>7. CASE WriteParameter \/ \E n \in ScanCodeSets \cup {0, 4} : WriteScanCodeSet(n)
  BY <1>7, ParameterTypes
<1>8. CASE \E c \in KeyboardCommands : KeyboardCommand(c)
  BY <1>8, CommandTypes
<1>9. CASE UNCHANGED vars
  BY <1>9 DEF vars, TypeOK
<1> QED BY <1>1, <1>2, <1>3, <1>4, <1>5, <1>6, <1>7, <1>8, <1>9 DEF Next

(* The controller's state has its types: in particular the reports it keeps  *)
(* are reports, and its queue holds scan codes and replies, never more than  *)
(* fit.                                                                      *)
THEOREM TypeCorrect == Spec => []TypeOK
BY TypeInit, TypeStep, PTL DEF Spec

-----------------------------------------------------------------------------
(* The guest.                                                                *)

\* GuestSeesReportedKeys, in the form that adds up over the bytes.
Sees ==
  guest # Lost =>
    \E held : /\ Decoded(guest, queue) = Clean(held)
              /\ Right(held, KeysOf(last) \cup orphans, eclipsed)

GuestInv == TypeOK /\ Sees

(* If the guest is not lost after a step it was not before, and everything   *)
(* the step put into the queue is there.                                     *)
LEMMA BelievesFits ==
  ASSUME GuestInv, NEW g, NEW stuck, Believes(g, stuck), guest' # Lost
  PROVE  /\ guest # Lost /\ Len(queue') # QueueSize
         /\ guest' = g
         /\ orphans' = stuck \cup (orphans \ (KeysOf(last) \ KeysOf(last')))
         /\ \E held : /\ Decoded(guest, queue) = Clean(held)
                      /\ Right(held, KeysOf(last) \cup orphans, eclipsed)
<1>1. ~(guest = Lost \/ Len(queue') = QueueSize)
  BY DEF Believes
<1>2. /\ guest' = g
      /\ orphans' = stuck \cup (orphans \ (KeysOf(last) \ KeysOf(last')))
  BY <1>1 DEF Believes
<1> QED BY <1>1, <1>2 DEF GuestInv, Sees

(* A step that presses and releases nothing eclipses no key; one that sends  *)
(* a report's codes, the look-alikes of the keys that changed.               *)
LEMMA EclipsedBy ==
  ASSUME NEW g, NEW stuck, Believes(g, stuck), guest' # Lost
  PROVE  /\ (last' = last \/ (KeysOf(last') = {} /\ stuck = KeysOf(last)))
              => eclipsed' = eclipsed
         /\ stuck = {} =>
              eclipsed' = (eclipsed \ Changed(last, last'))
                            \cup Eclipsed(Set1Output(command'), Changed(last, last'))
<1> DEFINE sent == (KeysOf(last') \ KeysOf(last))
                     \cup ((KeysOf(last) \ KeysOf(last')) \ stuck)
<1>1. ~(guest = Lost \/ Len(queue') = QueueSize)
  BY DEF Believes
<1>2. eclipsed' = (eclipsed \ sent) \cup Eclipsed(Set1Output(command'), sent)
  BY <1>1 DEF Believes
<1>3. ASSUME last' = last \/ (KeysOf(last') = {} /\ stuck = KeysOf(last))
      PROVE  eclipsed' = eclipsed
  <2>1. sent = {}
    BY <1>3
  <2> HIDE DEF sent
  <2>2. Eclipsed(Set1Output(command'), sent) = {}
    BY <2>1 DEF Eclipsed
  <2> QED BY <1>2, <2>1, <2>2
<1>4. stuck = {} => sent = Changed(last, last')
  BY DEF Changed
<1> HIDE DEF sent
<1> QED BY <1>2, <1>3, <1>4

\* A step that queues b, which the guest's decoder reads as what it is told.
LEMMA EnqueueSeen ==
  ASSUME GuestInv, NEW b \in Seq(Byte), NEW cmd \in CommandByte, Enqueue(b, cmd),
         NEW stuck, Believes(guest, stuck), guest' # Lost,
         NEW before, Decoded(guest, queue) = Clean(before),
         NEW after, Decoded(Clean(before), b) = Clean(after),
         Right(after, KeysOf(last') \cup orphans', eclipsed')
  PROVE  Sees'
<1>1. Len(queue') # QueueSize /\ guest' = guest
  BY BelievesFits
<1>2. queue' = queue \o b /\ queue \in Seq(Byte)
  BY <1>1, EnqueueTyped DEF GuestInv, TypeOK
<1>3. Decoded(guest, queue \o b) = Decoded(Decoded(guest, queue), b)
  BY <1>2, DecodedConcat
<1>4. Decoded(guest', queue') = Clean(after)
  BY <1>1, <1>2, <1>3
<1> QED BY <1>4 DEF Sees

LEMMA AnswerSeen ==
  ASSUME GuestInv, NEW b \in Answers, NEW cmd \in CommandByte, Enqueue(b, cmd),
         last' = last, Believes(guest, {})
  PROVE  Sees'
<1> SUFFICES ASSUME guest' # Lost PROVE Sees'
  BY DEF Sees
<1>1. b \in Seq(Byte) /\ \A held : Decoded(Clean(held), b) = Clean(held)
  BY AnswersRead
<1>2. PICK held : /\ Decoded(guest, queue) = Clean(held)
                  /\ Right(held, KeysOf(last) \cup orphans, eclipsed)
  BY BelievesFits
<1>3. orphans' = {} \cup (orphans \ (KeysOf(last) \ KeysOf(last')))
  BY BelievesFits
<1>4. eclipsed' = eclipsed /\ orphans' = orphans
  BY <1>3, EclipsedBy
<1> QED BY <1>1, <1>2, <1>4, EnqueueSeen

LEMMA UnchangedSeen ==
  ASSUME GuestInv, queue' = queue, last' = last, Believes(guest, {})
  PROVE  Sees'
<1> SUFFICES ASSUME guest' # Lost PROVE Sees'
  BY DEF Sees
<1>1. /\ guest # Lost /\ guest' = guest
      /\ orphans' = {} \cup (orphans \ (KeysOf(last) \ KeysOf(last')))
  BY BelievesFits
<1>2. orphans' = orphans /\ eclipsed' = eclipsed
  BY <1>1, EclipsedBy
<1> QED BY <1>1, <1>2 DEF GuestInv, Sees

(* The keys a forgetful command clears become orphans.                       *)
LEMMA ClearedSeen ==
  ASSUME GuestInv, ClearPressed, Believes(guest, KeysOf(last)),
         \/ queue' = queue
         \/ \E b \in Answers, cmd \in CommandByte : Enqueue(b, cmd)
  PROVE  Sees'
<1> SUFFICES ASSUME guest' # Lost PROVE Sees'
  BY DEF Sees
<1>1. KeysOf(last') = {}
  BY EmptyTyped DEF ClearPressed
<1>2. /\ guest' = guest
      /\ orphans' = KeysOf(last) \cup (orphans \ (KeysOf(last) \ KeysOf(last')))
  BY BelievesFits
<1>3. PICK held : /\ Decoded(guest, queue) = Clean(held)
                  /\ Right(held, KeysOf(last) \cup orphans, eclipsed)
  BY BelievesFits
<1>4. KeysOf(last') \cup orphans' = KeysOf(last) \cup orphans
  BY <1>1, <1>2
<1>5. eclipsed' = eclipsed
  BY <1>1, EclipsedBy
<1>6. Right(held, KeysOf(last') \cup orphans', eclipsed')
  BY <1>3, <1>4, <1>5
<1>7. CASE queue' = queue
  BY <1>2, <1>3, <1>6, <1>7 DEF Sees
<1>8. ASSUME NEW b \in Answers, NEW cmd \in CommandByte, Enqueue(b, cmd)
      PROVE  Sees'
  <2>1. b \in Seq(Byte) /\ Decoded(Clean(held), b) = Clean(held)
    BY AnswersRead
  <2> QED BY <1>3, <1>6, <1>8, <2>1, EnqueueSeen
<1> QED BY <1>7, <1>8

(* The codes of a new report, behind an answer or none.                      *)
LEMMA CodesSeen ==
  ASSUME GuestInv, NEW ack \in Answers, NEW r \in Report, NEW cmd \in CommandByte,
         Enqueue(ack \o Transitions(Set1Output(cmd), last, r), cmd),
         command' = cmd, last' = r, Believes(guest, {})
  PROVE  Sees'
<1> SUFFICES ASSUME guest' # Lost PROVE Sees'
  BY DEF Sees
<1> DEFINE set1 == Set1Output(cmd)
           t == Transitions(set1, last, r)
<1>1. set1 \in BOOLEAN /\ last \in Report
  BY CodesTyped DEF GuestInv, TypeOK
<1>2. PICK held : /\ Decoded(guest, queue) = Clean(held)
                  /\ Right(held, KeysOf(last) \cup orphans, eclipsed)
  BY BelievesFits
<1> DEFINE after == Replaced(set1, held, last, r)
<1>3. orphans' = {} \cup (orphans \ (KeysOf(last) \ KeysOf(last')))
  BY BelievesFits
<1>4. eclipsed' = (eclipsed \ Changed(last, r)) \cup Eclipsed(set1, Changed(last, r))
  BY EclipsedBy
<1>5. Enqueue(ack \o t, cmd)
  OBVIOUS
<1> HIDE DEF set1
<1>6. Right(after, KeysOf(r) \cup (orphans \ (KeysOf(last) \ KeysOf(r))),
            (eclipsed \ Changed(last, r)) \cup Eclipsed(set1, Changed(last, r)))
  BY <1>1, <1>2, ReplacedRight
<1>7. Right(after, KeysOf(last') \cup orphans', eclipsed')
  <2>1. orphans' = orphans \ (KeysOf(last) \ KeysOf(r))
    BY <1>3
  <2> HIDE DEF after
  <2> QED BY <1>4, <1>6, <2>1
<1>8. ack \in Seq(Byte) /\ Decoded(Clean(held), ack) = Clean(held)
  BY AnswersRead
<1>9. t \in Seq(Byte) /\ Decoded(Clean(held), t) = Clean(after)
  BY <1>1, TransitionsRead
<1> HIDE DEF t, after
<1>10. ack \o t \in Seq(Byte) /\ Decoded(Clean(held), ack \o t) = Clean(after)
  BY <1>8, <1>9, ConcatProperties, DecodedConcat
<1> QED BY <1>2, <1>5, <1>7, <1>10, EnqueueSeen

LEMMA ApplySeen ==
  ASSUME GuestInv, NEW ack \in Answers, NEW cmd \in CommandByte,
         ApplyDeferred(ack, cmd), command' = cmd, Believes(guest, {})
  PROVE  Sees'
<1>1. CASE deferred = NoReport /\ Enqueue(ack, cmd) /\ UNCHANGED <<last, deferred>>
  BY <1>1, AnswerSeen
<1>2. CASE deferred # NoReport /\ Process(ack, deferred, cmd)
  <2>1. deferred \in Report
    BY <1>2 DEF GuestInv, TypeOK
  <2> QED BY <1>2, <2>1, CodesSeen DEF Process
<1> QED BY <1>1, <1>2 DEF ApplyDeferred

LEMMA ReadSeen ==
  ASSUME GuestInv, GReadDataPort
  PROVE  Sees'
<1> SUFFICES ASSUME guest' # Lost PROVE Sees'
  BY DEF Sees
<1> DEFINE b == Head(queue)
<1>1. /\ queue \in Seq(Byte) /\ queue # <<>> /\ queue' = Tail(queue)
      /\ last' = last /\ Believes(Decode(guest, b), {})
  BY DEF GReadDataPort, ReadDataPort, GuestInv, TypeOK
<1>2. /\ guest # Lost /\ guest' = Decode(guest, b)
      /\ orphans' = {} \cup (orphans \ (KeysOf(last) \ KeysOf(last')))
  BY <1>1, BelievesFits
<1>3. orphans' = orphans /\ eclipsed' = eclipsed
  BY <1>1, <1>2, EclipsedBy
<1>4. /\ b \in Byte /\ <<b>> \in Seq(Byte) /\ Tail(queue) \in Seq(Byte)
      /\ queue = <<b>> \o Tail(queue)
  BY <1>1
<1> HIDE DEF b
<1> DEFINE rest == Tail(queue)
           one  == <<b>>
<1>5. Decoded(guest, queue) = Decoded(Decoded(guest, one), rest)
  <2>1. one \in Seq(Byte) /\ rest \in Seq(Byte) /\ queue = one \o rest
    BY <1>4
  <2> HIDE DEF one, rest
  <2>2. Decoded(guest, one \o rest) = Decoded(Decoded(guest, one), rest)
    BY <2>1, DecodedConcat
  <2> QED BY <2>1, <2>2
<1>6. Decoded(guest, <<b>>) = Decode(guest, b)
  BY <1>4, DecodedOne
<1>7. Decoded(guest', queue') = Decoded(guest, queue)
  BY <1>1, <1>2, <1>5, <1>6
<1> QED BY <1>1, <1>2, <1>3, <1>7 DEF GuestInv, Sees

LEMMA FreshSeen == <<>> \in Seq(Byte) /\ Decoded(FreshGuest, <<>>) = Clean({})
BY DecodedEmpty DEF FreshGuest, Clean

LEMMA DeviceSeen ==
  ASSUME GuestInv, GReset \/ (\E r \in Report : GHidReport(r)) \/ GUsbDisconnected
  PROVE  Sees'
<1>0. command \in CommandByte /\ <<>> \in Answers
  BY DEF GuestInv, TypeOK, Answers
<1>1. CASE GReset
  <2>1. /\ guest' = FreshGuest /\ queue' = <<>> /\ orphans' = {}
        /\ KeysOf(last') = {}
    BY <1>1, EmptyTyped DEF GReset, Reset, ClearPressed
  <2> QED BY <2>1, FreshSeen DEF Sees, Right
<1>2. ASSUME NEW r \in Report, GHidReport(r) PROVE Sees'
  <2>1. HidReport(r) /\ Believes(guest, {})
    BY <1>2 DEF GHidReport
  <2>2. CASE UNCHANGED <<irqPending, last, queue>>
    BY <2>1, <2>2, UnchangedSeen
  <2>3. CASE Process(<<>>, r, command)
    <3>1. command' = command
      BY <2>1 DEF HidReport
    <3> QED BY <1>0, <2>1, <2>3, <3>1, CodesSeen DEF Process
  <2> QED BY <2>1, <2>2, <2>3 DEF HidReport
<1>3. CASE GUsbDisconnected
  <2>1. ClearPressed /\ Believes(guest, IF disabled THEN KeysOf(last) ELSE {})
    BY <1>3 DEF GUsbDisconnected, UsbDisconnected
  <2>2. CASE disabled /\ UNCHANGED <<irqPending, queue>>
    BY <2>1, <2>2, ClearedSeen
  <2> DEFINE codes == Transitions(Set1Output(command), last, EmptyReport)
  <2>3. CASE ~disabled /\ Enqueue(codes, command)
    <3>1. codes \in Seq(Byte)
      BY <1>0, EmptyTyped, CodesTyped DEF GuestInv
    <3>2. codes = <<>> \o codes
      BY <3>1
    <3>3. Enqueue(<<>> \o codes, command)
      BY <2>3, <3>2
    <3>4. last' = EmptyReport /\ Believes(guest, {}) /\ command' = command
      BY <1>3, <2>1, <2>3 DEF ClearPressed, GUsbDisconnected, UsbDisconnected
    <3> QED BY <1>0, <3>3, <3>4, EmptyTyped, CodesSeen
  <2> QED BY <1>3, <2>2, <2>3 DEF GUsbDisconnected, UsbDisconnected
<1> QED BY <1>1, <1>2, <1>3

LEMMA KeyboardCommandSeen ==
  ASSUME GuestInv, NEW c, GKeyboardCommand(c)
  PROVE  Sees'
<1>0. /\ command \in CommandByte
      /\ <<Reply>> \in Answers /\ <<Reply, Reply>> \in Answers
      /\ <<Reply, Reply, Reply>> \in Answers
  BY DEF GuestInv, TypeOK, Answers
<1>1. KeyboardCommand(c)
  BY DEF GKeyboardCommand
<1>2. CASE c \in {"F5", "F6", "FF"}
  <2>1. Believes(guest, KeysOf(last))
    BY <1>2 DEF GKeyboardCommand
  <2>2. CASE SetDisabled(c = "F5") /\ ClearPressed /\ Enqueue(<<Reply>>, command')
    <3>1. command' \in CommandByte
      BY <2>2, DisableTyped DEF GuestInv
    <3> QED BY <1>0, <2>1, <2>2, <3>1, ClearedSeen
  <2>3. CASE ClearPressed /\ Enqueue(<<Reply, Reply>>, command)
    BY <1>0, <2>1, <2>3, ClearedSeen
  <2> QED BY <1>1, <1>2, <2>2, <2>3 DEF KeyboardCommand
<1>3. CASE c \notin {"F5", "F6", "FF"}
  <2>1. Believes(guest, {})
    BY <1>3 DEF GKeyboardCommand
  <2>2. CASE SetDisabled(FALSE) /\ ApplyDeferred(<<Reply>>, command')
    <3>1. command' \in CommandByte
      BY <2>2, DisableTyped DEF GuestInv
    <3> QED BY <1>0, <2>1, <2>2, <3>1, ApplySeen
  <2>3. CASE \E b \in Answers : Enqueue(b, command) /\ last' = last
    BY <1>0, <2>1, <2>3, AnswerSeen
  <2> QED BY <1>0, <1>1, <1>3, <2>2, <2>3 DEF KeyboardCommand
<1> QED BY <1>2, <1>3

LEMMA ControlSeen ==
  ASSUME GuestInv, GControl
  PROVE  Sees'
<1>0. /\ command \in CommandByte /\ Believes(guest, {})
      /\ <<>> \in Answers /\ <<Reply>> \in Answers /\ <<Reply, Reply>> \in Answers
  BY DEF GuestInv, TypeOK, Answers, GControl
<1>1. CASE queue' = queue /\ last' = last
  BY <1>0, <1>1, UnchangedSeen
<1>2. CASE \E b \in Answers : Enqueue(b, command) /\ last' = last
  BY <1>0, <1>2, AnswerSeen
<1>3. CASE \E cmd \in CommandByte : ApplyDeferred(<<>>, cmd) /\ command' = cmd
  BY <1>0, <1>3, ApplySeen
<1>4. CASE AcknowledgeIrq
  BY <1>1, <1>4 DEF AcknowledgeIrq
<1>5. ASSUME NEW c, WriteCommandPort(c) PROVE Sees'
  <2>1. CASE SetDisabled(FALSE) /\ ApplyDeferred(<<>>, command')
    BY <1>3, <2>1, DisableTyped DEF GuestInv
  <2> QED BY <1>0, <1>1, <1>2, <1>5, <2>1 DEF WriteCommandPort
<1>6. ASSUME NEW cb \in CommandBytes, WriteCommandByte(cb) PROVE Sees'
  BY <1>1, <1>3, <1>6, CommandBytesAssumption DEF WriteCommandByte
<1>7. CASE WriteParameter
  BY <1>0, <1>2, <1>7 DEF WriteParameter
<1>8. ASSUME NEW n, WriteScanCodeSet(n) PROVE Sees'
  BY <1>0, <1>2, <1>8 DEF WriteScanCodeSet
<1> QED BY <1>4, <1>5, <1>6, <1>7, <1>8 DEF GControl

LEMMA GuestSteps == GNext => Next
BY DEF GNext, Next, GReset, GHidReport, GUsbDisconnected, GReadDataPort,
       GKeyboardCommand, GControl

LEMMA GuestStep == GuestInv /\ [GNext]_hvars => GuestInv'
<1> SUFFICES ASSUME GuestInv, [GNext]_hvars PROVE GuestInv'
  OBVIOUS
<1>1. TypeOK'
  BY GuestSteps, TypeStep DEF GuestInv, hvars
<1>2. Sees'
  <2>1. CASE UNCHANGED hvars
    BY <2>1 DEF hvars, vars, GuestInv, Sees
  <2> QED BY <2>1, DeviceSeen, ReadSeen, KeyboardCommandSeen, ControlSeen DEF GNext
<1> QED BY <1>1, <1>2 DEF GuestInv

LEMMA GuestStart == GInit => GuestInv
<1> SUFFICES ASSUME GInit PROVE GuestInv
  OBVIOUS
<1>1. TypeOK
  BY TypeInit DEF GInit
<1>2. guest = FreshGuest /\ queue = <<>> /\ orphans = {} /\ KeysOf(last) = {}
  BY EmptyTyped DEF GInit, Init
<1> QED BY <1>1, <1>2, FreshSeen DEF GuestInv, Sees, Right

(* Unless the queue was ever full, a guest that reads every byte in order    *)
(* is right about every key whose look-alike was not pressed or let go after *)
(* it: for every scan code table, through code set changes, disabling, held  *)
(* back reports and resets.                                                  *)
THEOREM GuestCorrect == GSpec => []GuestSeesReportedKeys
<1>1. GuestInv => GuestSeesReportedKeys
  BY DEF GuestInv, Sees, GuestSeesReportedKeys, Clean, Right
<1> QED BY GuestStart, GuestStep, <1>1, PTL DEF GSpec

LEMMA NewestStep == TypeOK /\ NewestReportKept /\ [GNext]_hvars => NewestReportKept'
<1> SUFFICES ASSUME TypeOK, NewestReportKept, [GNext]_hvars PROVE NewestReportKept'
  OBVIOUS
<1> DEFINE Kept == KeysOf(IF deferred = NoReport THEN last ELSE deferred)
<1>0. KeysOf(EmptyReport) = {}
  BY EmptyTyped
<1>1. CASE UNCHANGED <<physical, last, deferred>>
  BY <1>1 DEF NewestReportKept
<1>2. CASE ClearPressed /\ physical' \in {{}, Lost}
  BY <1>0, <1>2 DEF NewestReportKept, ClearPressed
<1>3. ASSUME UNCHANGED physical, NEW ack, NEW cmd, ApplyDeferred(ack, cmd)
      PROVE  NewestReportKept'
  BY <1>3 DEF NewestReportKept, ApplyDeferred, Process
<1>4. CASE GReset
  BY <1>2, <1>4 DEF GReset, Reset
<1>5. ASSUME NEW r \in Report, GHidReport(r) PROVE NewestReportKept'
  BY <1>5, NoReportAssumption DEF GHidReport, HidReport, Process, NewestReportKept
<1>6. CASE GUsbDisconnected
  BY <1>2, <1>6 DEF GUsbDisconnected, UsbDisconnected
<1>7. CASE GReadDataPort
  BY <1>1, <1>7 DEF GReadDataPort, ReadDataPort
<1>8. ASSUME NEW c, GKeyboardCommand(c) PROVE NewestReportKept'
  <2>1. KeyboardCommand(c)
    BY <1>8 DEF GKeyboardCommand
  <2>2. CASE c \in {"F5", "F6", "FF"}
    <3>1. ClearPressed /\ physical' \in {{}, Lost}
      BY <1>8, <2>1, <2>2 DEF GKeyboardCommand, KeyboardCommand
    <3> QED BY <1>2, <3>1
  <2>3. CASE c \notin {"F5", "F6", "FF"}
    <3>1. UNCHANGED physical
      BY <1>8, <2>3 DEF GKeyboardCommand
    <3>2. UNCHANGED <<last, deferred>> \/ ApplyDeferred(<<Reply>>, command')
      BY <2>1, <2>3 DEF KeyboardCommand
    <3> QED BY <1>1, <1>3, <3>1, <3>2
  <2> QED BY <2>2, <2>3
<1>9. CASE GControl
  <2>1. UNCHANGED physical
    BY <1>9 DEF GControl
  <2>2. UNCHANGED <<last, deferred>> \/ \E cmd : ApplyDeferred(<<>>, cmd)
    BY <1>9 DEF GControl, AcknowledgeIrq, WriteCommandPort, WriteCommandByte,
                WriteParameter, WriteScanCodeSet
  <2> QED BY <1>1, <1>3, <2>1, <2>2
<1>10. CASE UNCHANGED hvars
  BY <1>1, <1>10 DEF hvars, vars
<1> QED BY <1>4, <1>5, <1>6, <1>7, <1>8, <1>9, <1>10 DEF GNext

(* The report the controller keeps is the newest: held back or turned into   *)
(* codes, it holds the keys that are really down.                            *)
THEOREM NewestCorrect == GSpec => []NewestReportKept
<1>1. GInit => TypeOK /\ NewestReportKept
  BY TypeInit, EmptyTyped DEF GInit, Init, NewestReportKept
<1>2. TypeOK /\ NewestReportKept /\ [GNext]_hvars => (TypeOK /\ NewestReportKept)'
  <2>1. [GNext]_hvars => [Next]_vars
    BY GuestSteps DEF hvars
  <2> QED BY <2>1, NewestStep, TypeStep
<1> QED BY <1>1, <1>2, PTL DEF GSpec
=============================================================================
