-------------------------- MODULE KeyDeliveryProofs --------------------------
(***************************************************************************)
(* For any number of keys, any queue and ring and any nesting of handlers: *)
(* the program gets its keys in order and none twice, a key is lost only   *)
(* where LossExplained says, and the in-service flag is left without an    *)
(* owner only by a delivery to the BIOS after the guest gave the vector    *)
(* back (which needs only that queue and frames are sequences).            *)
(***************************************************************************)
EXTENDS KeyDelivery, SequenceInduction

SeqInv ==
  /\ queue \in Seq(Byte)
  /\ pressed \in 0 .. MaxKeys
  /\ frames \in Seq(Frame)
  /\ ints \in BOOLEAN

(* A new innermost handler.                                                  *)
LEMMA FreshFrame ==
  ASSUME ints \in BOOLEAN
  PROVE  [key |-> NoKey, read |-> FALSE, finished |-> FALSE, ints |-> ints] \in Frame
BY DEF Frame, Byte

(* What fetchKey leaves in the queue is a sequence of bytes.                 *)
LEMMA FetchType ==
  ASSUME NEW b, SeqInv, FetchAndStore(b)
  PROVE  queue' \in Seq(Byte)
<1>1. PICK n \in 0 .. Len(queue) : queue' = SubSeq(queue, n + 1, Len(queue))
  BY DEF FetchAndStore, Fetches
<1> QED BY <1>1 DEF SeqInv

LEMMA InitSeqInv == Init => SeqInv
<1>1. <<>> \in Seq(Byte) /\ <<>> \in Seq(Frame) /\ 0 \in 0 .. MaxKeys
  BY SizesAssumption, EmptySeq
<1> QED BY <1>1 DEF Init, SeqInv

(* INT 09h keeps them sequences, and a guest handler starts as their last.   *)
LEMMA InterruptType ==
  ASSUME SeqInv, KeyboardInterrupt
  PROVE  queue' \in Seq(Byte) /\ frames' \in Seq(Frame) /\ ints' \in BOOLEAN
<1>1. CASE ~hooked
  BY <1>1, FetchType DEF KeyboardInterrupt, SeqInv
<1>2. CASE hooked
  BY <1>2, FreshFrame, AppendProperties DEF KeyboardInterrupt, SeqInv
<1> QED BY <1>1, <1>2

(* The ways a handler changes its frame.                                     *)
LEMMA FrameUpdates ==
  \A f \in Frame :
    /\ \A k \in Byte : [[f EXCEPT !.read = TRUE] EXCEPT !.key = k] \in Frame
    /\ [f EXCEPT !.key = NoKey] \in Frame
    /\ [f EXCEPT !.key = NoKey, !.read = TRUE, !.finished = TRUE] \in Frame
    /\ [f EXCEPT !.finished = TRUE] \in Frame
    /\ f.ints \in BOOLEAN
BY DEF Frame, Byte

(* Two of them leave the interrupt as it was.                                *)
LEMMA FinishedKept ==
  \A f \in Frame :
    /\ \A k \in Byte : [[f EXCEPT !.read = TRUE] EXCEPT !.key = k].finished = f.finished
    /\ [f EXCEPT !.key = NoKey].finished = f.finished
BY DEF Frame, Byte

LEMMA HandlerType ==
  ASSUME SeqInv, Handler
  PROVE  queue' \in Seq(Byte) /\ frames' \in Seq(Frame) /\ ints' \in BOOLEAN
<1>1. Top \in Frame
  <2>1. frames \in Seq(Frame) /\ frames # <<>>
    BY DEF Handler, SeqInv
  <2> QED BY <2>1 DEF Top
<1>2. ASSUME NEW f \in Frame, SetTop(f)
      PROVE  frames' \in Seq(Frame)
  <2>1. frames \in Seq(Frame) /\ Len(frames) \in 1 .. Len(frames)
    BY EmptySeq DEF Handler, SeqInv
  <2> QED BY <1>2, <2>1, ExceptSeq DEF SetTop
<1>3. CASE ReadPort
  <2>1. \A k \in Byte : [Top EXCEPT !.read = TRUE, !.key = k] \in Frame
    BY <1>1, FrameUpdates, Zenon
  <2>2. (IF queue = <<>> THEN NoKey ELSE Head(queue)) \in Byte
    BY DEF SeqInv, Byte
  <2>3. frames' \in Seq(Frame)
    BY <1>2, <1>3, <2>1, <2>2 DEF ReadPort
  <2> QED BY <1>3, <2>3 DEF ReadPort, SeqInv
<1>4. CASE FillRing
  <2>1. [Top EXCEPT !.key = NoKey] \in Frame
    BY <1>1, FrameUpdates, Zenon
  <2> QED BY <1>2, <1>4, <2>1 DEF FillRing, SeqInv
<1>5. CASE Chain
  <2>1. [Top EXCEPT !.key = NoKey, !.read = TRUE, !.finished = TRUE] \in Frame
    BY <1>1, FrameUpdates, Zenon
  <2> QED BY <1>2, <1>5, <2>1, FetchType DEF Chain, SeqInv
<1>6. CASE EndOfInterrupt
  <2>1. [Top EXCEPT !.finished = TRUE] \in Frame
    BY <1>1, FrameUpdates, Zenon
  <2> QED BY <1>2, <1>6, <2>1 DEF EndOfInterrupt, SeqInv
<1>7. CASE Return
  <2>1. frames' = SubSeq(frames, 1, Len(frames) - 1)
    BY <1>7 DEF Return, Front
  <2>2. frames' \in Seq(Frame)
    BY <2>1 DEF Handler, SeqInv
  <2>3. Top.ints \in BOOLEAN
    BY <1>1, FrameUpdates, Zenon
  <2> QED BY <1>7, <2>2, <2>3 DEF Return, SeqInv
<1> QED BY <1>3, <1>4, <1>5, <1>6, <1>7 DEF Handler

LEMMA ProgramType ==
  ASSUME SeqInv, Program
  PROVE  queue' \in Seq(Byte) /\ frames' \in Seq(Frame) /\ ints' \in BOOLEAN
<1>1. UNCHANGED <<frames, ints>>
  BY DEF Program, ReadKey, CheckKey, ShiftFlags, StuffKey, Halt, SetVector,
         OtherInstruction
<1>2. CASE ReadKey
  <2>1. CASE UNCHANGED queue
    BY <1>1, <2>1 DEF SeqInv
  <2>2. CASE \E n \in Fetches(queue) : queue' = SubSeq(queue, n + 1, Len(queue))
    BY <1>1, <2>2 DEF Fetches, SeqInv
  <2> QED BY <1>1, <1>2, <2>1, <2>2 DEF ReadKey, SeqInv
<1>3. CASE CheckKey
  BY <1>1, <1>3, FetchType DEF CheckKey, LookForKey, SeqInv
<1>4. CASE ShiftFlags
  BY <1>1, <1>4, EmptySeq DEF ShiftFlags, SeqInv
<1>5. CASE UNCHANGED queue
  BY <1>1, <1>5 DEF SeqInv
<1> QED
  BY <1>2, <1>3, <1>4, <1>5
     DEF Program, StuffKey, Halt, SetVector, OtherInstruction

LEMMA NextSeqInv == SeqInv /\ [Next]_vars => SeqInv'
<1> SUFFICES ASSUME SeqInv, [Next]_vars PROVE SeqInv'
  OBVIOUS
<1>1. CASE UNCHANGED vars
  BY <1>1 DEF SeqInv, vars
<1>2. CASE Offer
  <2>1. pressed' = pressed
    BY <1>2 DEF Offer
  <2>2. CASE UNCHANGED <<queue, frames, ints>>
    BY <2>1, <2>2 DEF SeqInv
  <2>3. CASE KeyboardInterrupt
    BY <2>1, <2>3, InterruptType DEF SeqInv
  <2> QED BY <1>2, <2>2, <2>3 DEF Offer
<1>3. CASE Take
  <2>1. pressed' = pressed
    BY <1>3 DEF Take
  <2>2. CASE UNCHANGED <<queue, frames, ints>>
    BY <2>1, <2>2 DEF SeqInv
  <2>3. CASE KeyboardInterrupt
    BY <2>1, <2>3, InterruptType DEF SeqInv
  <2> QED BY <1>3, <2>2, <2>3 DEF Take, TimerInterrupt
<1>4. CASE SetFlag
  BY <1>4 DEF SetFlag, SeqInv
<1>5. CASE Execute /\ ~SetFlag
  BY <1>5, ProgramType, HandlerType DEF Execute, SeqInv
<1>6. CASE Press
  <2>1. pressed' \in Byte /\ pressed' \in 0 .. MaxKeys
    BY <1>6, SizesAssumption DEF Press, SeqInv, Byte, Typed
  <2>2. queue' \in Seq(Byte)
    BY <1>6, <2>1, AppendProperties DEF Press, SeqInv
  <2> QED BY <1>6, <2>1, <2>2 DEF Press, SeqInv
<1>7. CASE OtherByte
  <2>1. queue' \in Seq(Byte)
    BY <1>7, AppendProperties DEF OtherByte, SeqInv, Byte
  <2> QED BY <1>7, <2>1 DEF OtherByte, SeqInv
<1> QED
  BY <1>1, <1>2, <1>3, <1>4, <1>5, <1>6, <1>7 DEF Next, StepCpu

-----------------------------------------------------------------------------
(* The other variables.                                                      *)
ControlInv ==
  /\ phase \in {"poll", "take", "execute", "inhibited"}
  /\ countdown \in 1 .. TimerSteps
  /\ slot \in {"free", "timer", "keyboard"}
  /\ ints \in BOOLEAN /\ halted \in BOOLEAN
  /\ inService \in BOOLEAN /\ hooked \in BOOLEAN
  /\ stuffed \in 0 .. MaxStuffed

LEMMA ControlInvStep == ControlInv /\ ints' \in BOOLEAN /\ [Next]_vars => ControlInv'
<1> SUFFICES ASSUME ControlInv, ints' \in BOOLEAN, [Next]_vars PROVE ControlInv'
  OBVIOUS
<1> USE DEF ControlInv
<1>1. CASE UNCHANGED vars \/ Press \/ OtherByte
  BY <1>1 DEF vars, Press, OtherByte
<1>2. CASE Offer
  <2>1. countdown' \in 1 .. TimerSteps
    BY <1>2, TimerAssumption DEF Offer, NextLook
  <2>2. SlotsAfterTimer \subseteq {"free", "timer", "keyboard"}
    BY DEF SlotsAfterTimer
  <2>3. /\ slot' \in {"free", "timer", "keyboard"}
        /\ halted' \in BOOLEAN /\ inService' \in BOOLEAN
    BY <1>2, <2>2 DEF Offer, KeyboardInterrupt
  <2> QED BY <1>2, <2>1, <2>3 DEF Offer
<1>3. CASE Take
  BY <1>3 DEF Take, TimerInterrupt, KeyboardInterrupt
<1>4. CASE SetFlag
  BY <1>4 DEF SetFlag
<1>5. CASE Execute /\ ~SetFlag /\ Program
  <2>1. /\ inService' = inService
        /\ halted' \in {halted, TRUE} /\ hooked' \in {hooked, ~hooked}
        /\ \/ stuffed' = stuffed
           \/ stuffed < MaxStuffed /\ stuffed' = stuffed + 1
    BY <1>5 DEF Program, Handler, ReadKey, CheckKey, ShiftFlags, StuffKey, Halt,
                SetVector, OtherInstruction
  <2>2. stuffed' \in 0 .. MaxStuffed
    BY <2>1, SizesAssumption
  <2> QED BY <1>5, <2>1, <2>2 DEF Execute
<1>6. CASE Execute /\ ~SetFlag /\ Handler
  BY <1>6 DEF Execute, Handler, ReadPort, FillRing, Chain, EndOfInterrupt, Return
<1> QED
  BY <1>1, <1>2, <1>3, <1>4, <1>5, <1>6 DEF Next, StepCpu, Execute

(* Type correctness of the delivery, for any number of keys and any nesting:  *)
(* the single slot holds one request, the countdown never misses a look.     *)
THEOREM DeliveryTypes == Spec => []TypeOK
<1>1. SeqInv /\ ControlInv => TypeOK
  BY DEF SeqInv, ControlInv, TypeOK
<1>2. Init => ControlInv
  <2>1. 1 \in 1 .. TimerSteps /\ 0 \in 0 .. MaxStuffed
    BY TimerAssumption, SizesAssumption
  <2> QED BY <2>1 DEF Init, ControlInv
<1>3. SeqInv /\ SeqInv' /\ ControlInv /\ [Next]_vars => ControlInv'
  BY ControlInvStep DEF SeqInv
<1> QED BY InitSeqInv, NextSeqInv, <1>1, <1>2, <1>3, PTL DEF Spec

-----------------------------------------------------------------------------
Unfinished(fs) == \E i \in DOMAIN fs : ~fs[i].finished

(* A handler INT 09h starts is unfinished.                                   *)
LEMMA InterruptOwner ==
  ASSUME SeqInv, KeyboardInterrupt, hooked
  PROVE  Unfinished(frames')
<1> DEFINE f == [key |-> NoKey, read |-> FALSE, finished |-> FALSE, ints |-> ints]
<1>1. frames' = Append(frames, f) /\ frames \in Seq(Frame) /\ f \in Frame
  BY FreshFrame DEF KeyboardInterrupt, SeqInv
<1>2. Len(frames) + 1 \in DOMAIN frames' /\ frames'[Len(frames) + 1] = f
  BY <1>1, AppendProperties
<1> QED BY <1>2 DEF Unfinished

(* Replacing the innermost frame by one that is as unfinished as it was.     *)
LEMMA SameOwner ==
  ASSUME SeqInv, frames # <<>>, NEW f \in Frame, SetTop(f),
         f.finished = Top.finished, Unfinished(frames)
  PROVE  Unfinished(frames')
<1>1. frames \in Seq(Frame) /\ Len(frames) \in 1 .. Len(frames)
  BY EmptySeq DEF SeqInv
<1>2. PICK i \in 1 .. Len(frames) : ~frames[i].finished
  BY <1>1 DEF Unfinished
<1>3. Len(frames') = Len(frames) /\ frames' \in Seq(Frame)
      /\ frames'[i] = IF i = Len(frames) THEN f ELSE frames[i]
  BY <1>1, ExceptSeq DEF SetTop
<1>4. ~frames'[i].finished
  BY <1>2, <1>3 DEF Top
<1>5. i \in DOMAIN frames'
  BY <1>3
<1> QED BY <1>4, <1>5 DEF Unfinished

(* Who owns the interrupt: the step lemma behind the theorem.                *)
LEMMA OwnedStep ==
  ASSUME SeqInv, [Next]_vars, Owned, ~(slot = "keyboard" /\ ~hooked)
  PROVE  Owned'
<1> USE DEF Owned, Unfinished
<1>1. CASE UNCHANGED vars
  BY <1>1 DEF vars
<1>2. CASE Offer
  <2>1. CASE UNCHANGED <<inService, frames>> /\ slot' # slot
    BY <1>2, <2>1 DEF Offer, SlotsAfterTimer
  <2>2. CASE UNCHANGED <<inService, frames, slot>>
    BY <2>2
  <2>3. CASE inService' = hooked /\ KeyboardInterrupt
    BY <2>3, InterruptOwner
  <2>4. CASE slot' = "keyboard"
    BY <2>4
  <2> QED BY <1>2, <2>1, <2>2, <2>3, <2>4 DEF Offer
<1>3. CASE Take
  <2>1. CASE UNCHANGED <<slot, inService, frames>>
    BY <2>1
  <2>2. CASE slot = "timer" /\ TimerInterrupt
    BY <2>2 DEF TimerInterrupt
  <2>3. CASE slot = "keyboard" /\ KeyboardInterrupt
    BY <2>3, InterruptOwner
  <2> QED BY <1>3, <2>1, <2>2, <2>3 DEF Take
<1>4. CASE SetFlag
  BY <1>4 DEF SetFlag
<1>5. CASE Execute /\ ~SetFlag /\ Program
  <2>1. UNCHANGED <<slot, inService, frames>>
    BY <1>5 DEF Execute, Program, Handler, ReadKey, CheckKey, ShiftFlags, StuffKey,
                Halt, SetVector, OtherInstruction
  <2> QED BY <2>1
<1>6. CASE Execute /\ ~SetFlag /\ Handler
  <2>1. frames # <<>> /\ slot' = slot /\ frames \in Seq(Frame) /\ Top \in Frame
    <3>1. frames # <<>> /\ slot' = slot /\ frames \in Seq(Frame)
      BY <1>6 DEF Execute, Handler, SeqInv
    <3> QED BY <3>1 DEF Top
  <2>2. CASE ReadPort
    <3> DEFINE k == IF queue = <<>> THEN NoKey ELSE Head(queue)
               f == [Top EXCEPT !.read = TRUE, !.key = k]
    <3>1. k \in Byte
      BY DEF SeqInv, Byte
    <3>2. f \in Frame /\ f.finished = Top.finished
      BY <2>1, <3>1, FrameUpdates, FinishedKept, Zenon
    <3>3. SetTop(f) /\ inService' = inService
      BY <2>2 DEF ReadPort
    <3> HIDE DEF f
    <3> QED BY <2>1, <3>2, <3>3, SameOwner
  <2>3. CASE FillRing
    <3> DEFINE f == [Top EXCEPT !.key = NoKey]
    <3>1. f \in Frame /\ f.finished = Top.finished
      BY <2>1, FrameUpdates, FinishedKept, Zenon
    <3>2. SetTop(f) /\ inService' = inService
      BY <2>3 DEF FillRing
    <3> HIDE DEF f
    <3> QED BY <2>1, <3>1, <3>2, SameOwner
  <2>4. CASE Chain \/ EndOfInterrupt
    BY <2>4 DEF Chain, EndOfInterrupt
  <2>5. CASE Return
    <3>1. CASE ~inService \/ slot = "keyboard"
      BY <2>1, <2>5, <3>1 DEF Return
    <3>2. CASE Unfinished(frames)
      <4>1. frames' = SubSeq(frames, 1, Len(frames) - 1) /\ Top.finished
        BY <2>5 DEF Return, Front
      <4>2. PICK i \in 1 .. Len(frames) : ~frames[i].finished
        BY <2>1, <3>2
      <4>3. i \in 1 .. Len(frames) - 1
        BY <2>1, <4>1, <4>2 DEF Top
      <4>4. i \in DOMAIN frames' /\ frames'[i] = frames[i]
        BY <2>1, <4>1, <4>3
      <4> QED BY <4>2, <4>4
    <3> QED BY <3>1, <3>2
  <2> QED BY <1>6, <2>2, <2>3, <2>4, <2>5 DEF Handler
<1>7. CASE Press \/ OtherByte
  BY <1>7 DEF Press, OtherByte
<1> QED
  BY <1>1, <1>2, <1>3, <1>4, <1>5, <1>6, <1>7 DEF Next, StepCpu, Execute

(* The keyboard interrupt stays in service with nobody to end it only when    *)
(* the guest gives the vector back between acceptance and delivery, for any   *)
(* number of keys, queue, ring and nesting (stepCpu, completeKeyboardIrqService). *)
THEOREM OrphansExplained == Spec => OrphanedByVectorOnly
<1>1. SeqInv /\ [Next]_vars
      => [Owned /\ ~Owned' => slot = "keyboard" /\ ~hooked]_vars
  BY OwnedStep
<1> QED BY InitSeqInv, NextSeqInv, <1>1, PTL DEF Spec, OrphanedByVectorOnly

-----------------------------------------------------------------------------
(* The order of the keys.                                                    *)

Bda == [ring : Seq(Keys), tail : 0 .. RingSize - 1,
        shadow : Byte, seen : 0 .. RingSize - 1]

\* Every typed key of s was pressed before every one of u.
Precede(s, u) ==
  \A i \in DOMAIN s, j \in DOMAIN u :
    s[i] \in Typed /\ u[j] \in Typed => s[i] < u[j]

Pressed(s, p) == \A i \in DOMAIN s : s[i] <= p

\* The tail has moved by the keys put into the ring since the shadowed key was
\* read; they are all still there, so it cannot have come round to where it was.
Tracks(b) ==
  \E d \in 0 .. Len(b.ring) :
    b.tail = IF b.seen + d < RingSize THEN b.seen + d ELSE b.seen + d - RingSize

\* The shadowed key will be put into the ring unless another key was.
ShadowCounts(b) == b.shadow # NoKey /\ b.tail = b.seen

\* line is what the program took and what it finds in the ring of b.
Ordered(line, b, q, p) ==
  /\ line \in Seq(Keys) /\ b \in Bda /\ Len(b.ring) < RingSize
  /\ q \in Seq(Byte)
  /\ Increasing(line) /\ Increasing(q) /\ Precede(line, q)
  /\ Precede(<<b.shadow>>, q)
  /\ b.shadow # NoKey => Tracks(b)
  /\ ShadowCounts(b) => Precede(line, <<b.shadow>>)
  /\ Pressed(line, p) /\ Pressed(q, p) /\ b.shadow <= p

\* A handler that may still fill the ring has read the shadowed key, and nothing
\* was put into the ring since: interrupts have been off from its start.
PendingIsShadow ==
  /\ halted => frames = <<>>
  /\ \A i \in DOMAIN frames : i # 1 => frames[i].ints
  /\ frames # <<>> /\ ~ints /\ ~Top.finished /\ Top.key # NoKey
       => bda.shadow = Top.key /\ bda.tail = bda.seen

OrderInv ==
  /\ SeqInv
  /\ taken \in Seq(Keys)
  /\ Ordered(taken \o bda.ring, bda, queue, pressed)
  /\ PendingIsShadow

\* k may follow line and come before q.
Between(line, k, q, p) == Precede(line, <<k>>) /\ Precede(<<k>>, q) /\ k <= p

LEMMA ConcatAppend ==
  ASSUME NEW s \in Seq(Keys), NEW r \in Seq(Keys), NEW k \in Keys
  PROVE  /\ s \o Append(r, k) = Append(s \o r, k)
         /\ s \o r \in Seq(Keys)
OBVIOUS

LEMMA NextSlot ==
  ASSUME NEW i \in 0 .. RingSize - 1
  PROVE  (i + 1) % RingSize = IF i + 1 < RingSize THEN i + 1 ELSE 0
BY SizesAssumption

LEMMA AppendOrdered ==
  ASSUME NEW line \in Seq(Keys), NEW k \in Keys, NEW q \in Seq(Byte), NEW p \in Nat,
         Increasing(line), Precede(line, q), Pressed(line, p), Between(line, k, q, p)
  PROVE  /\ Append(line, k) \in Seq(Keys)
         /\ Increasing(Append(line, k))
         /\ Precede(Append(line, k), q)
         /\ Pressed(Append(line, k), p)
<1> DEFINE s == Append(line, k)
<1>1. /\ s \in Seq(Keys) /\ Len(s) = Len(line) + 1 /\ Len(line) \in Nat
      /\ \A i \in DOMAIN s : s[i] = IF i = Len(line) + 1 THEN k ELSE line[i]
      /\ \A i \in DOMAIN s : i # Len(line) + 1 => i \in DOMAIN line
      /\ DOMAIN s = 1 .. Len(line) + 1
  BY AppendProperties
<1> HIDE DEF s
<1>2. /\ \A i \in DOMAIN line : line[i] \in Typed /\ k \in Typed => line[i] < k
      /\ \A j \in DOMAIN q : k \in Typed /\ q[j] \in Typed => k < q[j]
      /\ k <= p
  BY DEF Between, Precede
<1>3. Increasing(s)
  <2> SUFFICES ASSUME NEW i \in DOMAIN s, NEW j \in DOMAIN s, i < j,
                      s[i] \in Typed, s[j] \in Typed
               PROVE  s[i] < s[j]
    BY DEF Increasing
  <2>1. i # Len(line) + 1 /\ i \in DOMAIN line
    BY <1>1
  <2> QED BY <1>1, <1>2, <2>1 DEF Increasing
<1>4. Precede(s, q)
  BY <1>1, <1>2 DEF Precede
<1>5. Pressed(s, p)
  BY <1>1, <1>2 DEF Pressed
<1> QED BY <1>1, <1>3, <1>4, <1>5 DEF s

(* Putting a key that may follow into the ring.                              *)
LEMMA StoreOrdered ==
  ASSUME NEW s \in Seq(Keys), NEW b, NEW q, NEW p \in Nat,
         Ordered(s \o b.ring, b, q, p),
         NEW k \in Keys \cup {NoKey}, Between(s \o b.ring, k, q, p)
  PROVE  Ordered(s \o Store(b, k).ring, Store(b, k), q, p)
<1>1. CASE k = NoKey \/ RingFull(b)
  BY <1>1 DEF Store
<1>2. CASE ~(k = NoKey \/ RingFull(b))
  <2> DEFINE c == [b EXCEPT !.ring = Append(@, k), !.tail = (@ + 1) % RingSize]
             line == s \o b.ring
  <2>0. Store(b, k) = c /\ k \in Keys
    BY <1>2 DEF Store
  <2>1. /\ b \in Bda /\ q \in Seq(Byte) /\ line \in Seq(Keys)
        /\ b.ring \in Seq(Keys) /\ Len(b.ring) \in Nat /\ Len(b.ring) < RingSize - 1
        /\ b.tail \in 0 .. RingSize - 1 /\ b.seen \in 0 .. RingSize - 1
        /\ b.shadow \in Byte
    BY <1>2, SizesAssumption DEF Ordered, Bda, RingFull
  <2>2. (b.tail + 1) % RingSize = IF b.tail + 1 < RingSize THEN b.tail + 1 ELSE 0
    BY <2>1, NextSlot
  <2>3. /\ c \in Bda /\ c.ring = Append(b.ring, k) /\ Len(c.ring) = Len(b.ring) + 1
        /\ c.tail = (b.tail + 1) % RingSize
        /\ c.shadow = b.shadow /\ c.seen = b.seen
    <3>1. (b.tail + 1) % RingSize \in 0 .. RingSize - 1
      BY <2>1, <2>2, SizesAssumption
    <3>2. Append(b.ring, k) \in Seq(Keys) /\ Len(Append(b.ring, k)) = Len(b.ring) + 1
      BY <2>0, <2>1
    <3> QED BY <2>1, <3>1, <3>2 DEF Bda
  <2>4. s \o c.ring = Append(line, k)
    BY <2>0, <2>1, <2>3, ConcatAppend
  <2>5. /\ Append(line, k) \in Seq(Keys) /\ Increasing(Append(line, k))
        /\ Precede(Append(line, k), q) /\ Pressed(Append(line, k), p)
    <3>1. Increasing(line) /\ Precede(line, q) /\ Pressed(line, p)
      BY DEF Ordered
    <3> HIDE DEF line
    <3> QED BY <2>0, <2>1, <3>1, AppendOrdered DEF line
  <2> HIDE DEF c, line
  <2>6. b.shadow # NoKey => Tracks(c) /\ c.tail # c.seen
    <3> SUFFICES ASSUME b.shadow # NoKey PROVE Tracks(c) /\ c.tail # c.seen
      OBVIOUS
    <3>1. PICK d \in 0 .. Len(b.ring) :
            b.tail = IF b.seen + d < RingSize THEN b.seen + d ELSE b.seen + d - RingSize
      BY DEF Ordered, Tracks
    <3>2. d + 1 \in 0 .. Len(c.ring) /\ d + 1 < RingSize
      BY <2>1, <2>3, SizesAssumption
    <3>3. c.tail = IF c.seen + (d + 1) < RingSize THEN c.seen + (d + 1)
                   ELSE c.seen + (d + 1) - RingSize
      <4>1. c.tail = IF b.tail + 1 < RingSize THEN b.tail + 1 ELSE 0
        BY <2>2, <2>3
      <4>2. d \in Nat
        BY <2>1
      <4>3. c.tail = IF b.seen + (d + 1) < RingSize THEN b.seen + (d + 1)
                     ELSE b.seen + (d + 1) - RingSize
        <5> DEFINE seen == b.seen
                   tail == b.tail
                   next == c.tail
        <5>1. /\ seen \in 0 .. RingSize - 1 /\ d + 1 < RingSize
              /\ tail = IF seen + d < RingSize THEN seen + d ELSE seen + d - RingSize
              /\ next = IF tail + 1 < RingSize THEN tail + 1 ELSE 0
          BY <2>1, <3>1, <3>2, <4>1
        <5> HIDE DEF seen, tail, next
        <5>2. next = IF seen + (d + 1) < RingSize THEN seen + (d + 1)
                     ELSE seen + (d + 1) - RingSize
          BY <4>2, <5>1, SizesAssumption
        <5> QED BY <5>2 DEF seen, next
      <4> QED BY <2>3, <4>3
    <3>4. c.tail # c.seen
      BY <2>1, <2>3, <3>2, <3>3, SizesAssumption
    <3> QED BY <3>2, <3>3, <3>4 DEF Tracks
  <2>7. Len(c.ring) < RingSize
    BY <2>1, <2>3, SizesAssumption
  <2> QED BY <2>0, <2>1, <2>3, <2>4, <2>5, <2>6, <2>7 DEF Ordered, ShadowCounts
<1> QED BY <1>1, <1>2

(* Forgetting the shadowed key, and remembering one.                         *)
LEMMA ShadowOrdered ==
  ASSUME NEW line, NEW b, NEW q, NEW p \in Nat, Ordered(line, b, q, p)
  PROVE  /\ Ordered(line, [b EXCEPT !.shadow = NoKey], q, p)
         /\ \A k \in Byte : Between(line, k, q, p) =>
              Ordered(line, [b EXCEPT !.shadow = k, !.seen = b.tail], q, p)
<1>1. /\ b \in Bda /\ b.ring \in Seq(Keys) /\ b.tail \in 0 .. RingSize - 1
      /\ 0 \in 0 .. Len(b.ring)
  BY DEF Ordered, Bda
<1>2. NoKey \in Byte /\ NoKey \notin Typed /\ NoKey <= p
  BY DEF NoKey, Byte, Typed
<1>3. Ordered(line, [b EXCEPT !.shadow = NoKey], q, p)
  <2> DEFINE c == [b EXCEPT !.shadow = NoKey]
  <2>1. c \in Bda /\ c.ring = b.ring /\ c.shadow = NoKey
    BY <1>1, <1>2 DEF Bda
  <2> HIDE DEF c
  <2>2. Precede(<<c.shadow>>, q)
    BY <1>2, <2>1 DEF Precede
  <2> QED BY <1>2, <2>1, <2>2 DEF Ordered, ShadowCounts, c
<1>4. ASSUME NEW k \in Byte, Between(line, k, q, p)
      PROVE  Ordered(line, [b EXCEPT !.shadow = k, !.seen = b.tail], q, p)
  <2> DEFINE c == [b EXCEPT !.shadow = k, !.seen = b.tail]
  <2>1. c \in Bda /\ c.ring = b.ring /\ c.shadow = k /\ c.seen = b.tail /\ c.tail = b.tail
    BY <1>1 DEF Bda
  <2> HIDE DEF c
  <2>2. Tracks(c)
    <3>1. c.tail = IF c.seen + 0 < RingSize THEN c.seen + 0 ELSE c.seen + 0 - RingSize
      BY <1>1, <2>1, SizesAssumption
    <3> QED BY <1>1, <2>1, <3>1 DEF Tracks
  <2> QED BY <1>4, <2>1, <2>2 DEF Ordered, ShadowCounts, Between, c
<1> QED BY <1>3, <1>4

LEMMA FlushOrdered ==
  ASSUME NEW s \in Seq(Keys), NEW b, NEW q, NEW p \in Nat, Ordered(s \o b.ring, b, q, p)
  PROVE  /\ Ordered(s \o FlushShadow(b).ring, FlushShadow(b), q, p)
         /\ FlushShadow(b).shadow = NoKey
<1> DEFINE c == [b EXCEPT !.shadow = NoKey]
<1>1. b \in Bda
  BY DEF Ordered
<1>2. c.ring = b.ring /\ c.shadow = NoKey /\ c \in Bda
  BY <1>1 DEF Bda, Byte
<1>3. Ordered(s \o c.ring, c, q, p)
  BY <1>2, ShadowOrdered
<1>4. CASE b.tail # b.seen
  BY <1>2, <1>3, <1>4 DEF FlushShadow
<1>5. CASE b.tail = b.seen
  <2>1. FlushShadow(b) = Store(c, b.shadow)
    BY <1>5 DEF FlushShadow
  <2>2. b.shadow \in Keys \cup {NoKey}
    BY <1>1 DEF Bda, Byte, Keys
  <2>3. Between(s \o c.ring, b.shadow, q, p)
    <3>1. CASE b.shadow # NoKey
      BY <1>2, <1>5, <3>1 DEF Ordered, ShadowCounts, Between
    <3>2. CASE b.shadow = NoKey
      <4>1. NoKey \notin Typed /\ NoKey <= p
        BY DEF NoKey, Typed
      <4> QED BY <3>2, <4>1 DEF Between, Precede
    <3> QED BY <3>1, <3>2
  <2> HIDE DEF c
  <2>4. Store(c, b.shadow).shadow = NoKey
    BY <1>2 DEF Store, Bda
  <2> QED BY <1>3, <2>1, <2>2, <2>3, <2>4, StoreOrdered
<1> QED BY <1>4, <1>5

\* What is left of q without its first n bytes.
Rest(q, n) == SubSeq(q, n + 1, Len(q))

LEMMA RestElements ==
  ASSUME NEW q \in Seq(Byte), NEW n \in 0 .. Len(q)
  PROVE  /\ Rest(q, n) \in Seq(Byte) /\ Len(Rest(q, n)) = Len(q) - n
         /\ \A i \in DOMAIN Rest(q, n) :
              /\ Rest(q, n)[i] = q[n + i]
              /\ i \in Nat /\ n + i \in DOMAIN q /\ n < n + i
BY DEF Rest

(* Fewer bytes wait, and the last one that was taken may follow.             *)
LEMMA RestOrdered ==
  ASSUME NEW line, NEW b, NEW q, NEW p \in Nat, Ordered(line, b, q, p),
         NEW n \in 0 .. Len(q)
  PROVE  /\ Ordered(line, b, Rest(q, n), p)
         /\ Between(line, Fetched(q, n), Rest(q, n), p)
         /\ Fetched(q, n) \in Byte
<1> DEFINE r == Rest(q, n)
<1>1. /\ q \in Seq(Byte) /\ r \in Seq(Byte) /\ Len(q) \in Nat
      /\ \A i \in DOMAIN r :
           r[i] = q[n + i] /\ i \in Nat /\ n + i \in DOMAIN q /\ n < n + i
  BY RestElements DEF Ordered
<1> HIDE DEF r
<1>2. Increasing(r)
  <2> SUFFICES ASSUME NEW i \in DOMAIN r, NEW j \in DOMAIN r, i < j,
                      r[i] \in Typed, r[j] \in Typed
               PROVE  r[i] < r[j]
    BY DEF Increasing
  <2>1. n + i < n + j /\ n + i \in DOMAIN q /\ n + j \in DOMAIN q
    BY <1>1
  <2> QED BY <1>1, <2>1 DEF Ordered, Increasing
<1>3. \A x : Precede(x, q) => Precede(x, r)
  BY <1>1 DEF Precede
<1>4. Pressed(r, p)
  BY <1>1 DEF Ordered, Pressed
<1>5. Ordered(line, b, r, p)
  BY <1>1, <1>2, <1>3, <1>4 DEF Ordered
<1>6. CASE n = 0
  <2>1. Fetched(q, n) = NoKey /\ NoKey \notin Typed /\ NoKey <= p /\ NoKey \in Byte
    BY <1>6 DEF Fetched, NoKey, Typed, Byte
  <2> QED BY <1>5, <2>1 DEF Between, Precede, r
<1>7. CASE n # 0
  <2>1. Fetched(q, n) = q[n] /\ n \in DOMAIN q /\ q[n] \in Byte
    BY <1>1, <1>7 DEF Fetched
  <2>2. Precede(line, <<q[n]>>)
    BY <2>1 DEF Ordered, Precede
  <2>3. Precede(<<q[n]>>, r)
    <3> SUFFICES ASSUME NEW j \in DOMAIN r, q[n] \in Typed, r[j] \in Typed
                 PROVE  q[n] < r[j]
      BY DEF Precede
    <3>1. r[j] = q[n + j] /\ n + j \in DOMAIN q /\ n < n + j
      BY <1>1
    <3> QED BY <2>1, <3>1 DEF Ordered, Increasing
  <2>4. q[n] <= p
    BY <2>1 DEF Ordered, Pressed
  <2> QED BY <1>5, <2>1, <2>2, <2>3, <2>4 DEF Between, r
<1> QED BY <1>6, <1>7

(* fetchKey and storeBdaKey.                                                 *)
LEMMA FetchOrdered ==
  ASSUME NEW s \in Seq(Keys), NEW b, NEW q, NEW p \in Nat,
         Ordered(s \o b.ring, b, q, p), NEW n \in 0 .. Len(q)
  PROVE  Ordered(s \o Store(b, Fetched(q, n)).ring, Store(b, Fetched(q, n)),
                 Rest(q, n), p)
<1> DEFINE k == Fetched(q, n)
<1>1. /\ Ordered(s \o b.ring, b, Rest(q, n), p)
      /\ Between(s \o b.ring, k, Rest(q, n), p)
      /\ k \in Byte
  <2> DEFINE line == s \o b.ring
  <2>1. Ordered(line, b, q, p)
    OBVIOUS
  <2> HIDE DEF line
  <2>2. /\ Ordered(line, b, Rest(q, n), p)
        /\ Between(line, k, Rest(q, n), p)
        /\ k \in Byte
    BY <2>1, RestOrdered
  <2> QED BY <2>2 DEF line
<1>2. k \in Keys \cup {NoKey}
  BY <1>1 DEF Byte, Keys
<1> HIDE DEF k
<1> DEFINE r == Rest(q, n)
<1> HIDE DEF r
<1>3. Ordered(s \o b.ring, b, r, p) /\ Between(s \o b.ring, k, r, p)
  BY <1>1 DEF r
<1>4. Ordered(s \o Store(b, k).ring, Store(b, k), r, p)
  BY <1>2, <1>3, StoreOrdered
<1> QED BY <1>4 DEF k, r

(* A handler reads a byte from port 60h.                                     *)
LEMMA ObserveOrdered ==
  ASSUME NEW s \in Seq(Keys), NEW b, NEW q, NEW p \in Nat,
         Ordered(s \o b.ring, b, q, p), NEW n \in 0 .. Len(q)
  PROVE  LET k == Fetched(q, n)
         IN  Ordered(s \o Observe(b, k).ring, Observe(b, k), Rest(q, n), p)
<1> DEFINE k == Fetched(q, n)
           f == FlushShadow(b)
           line == s \o f.ring
           r == Rest(q, n)
           c == [f EXCEPT !.shadow = k, !.seen = f.tail]
<1>1. Ordered(line, f, q, p)
  BY FlushOrdered
<1>2. f \in Bda
  BY <1>1 DEF Ordered
<1>3. c.ring = f.ring
  BY <1>2 DEF Bda
<1>4. Ordered(line, f, r, p) /\ Between(line, k, r, p) /\ k \in Byte
  <2> HIDE DEF line, f
  <2> QED BY <1>1, RestOrdered
<1>5. Ordered(line, c, r, p)
  <2> HIDE DEF line, f, k, r
  <2> QED BY <1>4, ShadowOrdered
<1>6. Observe(b, k) = IF k = NoKey THEN f ELSE c
  BY DEF Observe
<1> QED BY <1>3, <1>4, <1>5, <1>6

(* Keys leave the ring for the program, with nothing shadowed.               *)
LEMMA TakeOrdered ==
  ASSUME NEW line, NEW b, NEW q, NEW p, Ordered(line, b, q, p), b.shadow = NoKey,
         NEW r \in Seq(Keys), Len(r) <= Len(b.ring)
  PROVE  Ordered(line, [b EXCEPT !.ring = r], q, p)
<1> DEFINE c == [b EXCEPT !.ring = r]
<1>1. b \in Bda /\ b.ring \in Seq(Keys)
  BY DEF Ordered, Bda
<1>2. c \in Bda /\ c.ring = r /\ c.shadow = NoKey
  BY <1>1 DEF Bda
<1>4. Len(c.ring) < RingSize
  <2>1. Len(b.ring) \in Nat /\ Len(r) \in Nat /\ Len(b.ring) < RingSize
    BY <1>1 DEF Ordered
  <2> QED BY <1>2, <2>1, SizesAssumption
<1> HIDE DEF c
<1>3. Ordered(line, c, q, p)
  BY <1>2, <1>4, Zenon DEF Ordered, ShadowCounts
<1> QED BY <1>3 DEF c

\* p keys were pressed before the byte k enters the queue, and m after it.
Enters(k, p, m) == (k = NoKey /\ m = p) \/ (k = p + 1 /\ m = p + 1)

(* A byte enters the queue: the newest key, or one that makes no key.        *)
LEMMA ByteOrdered ==
  ASSUME NEW line, NEW b, NEW q, NEW p \in Nat, Ordered(line, b, q, p),
         NEW k \in Byte, NEW m \in Nat, Enters(k, p, m)
  PROVE  Ordered(line, b, Append(q, k), m)
<1> DEFINE u == Append(q, k)
<1>1. /\ u \in Seq(Byte) /\ Len(q) \in Nat /\ DOMAIN u = 1 .. Len(q) + 1
      /\ DOMAIN q = 1 .. Len(q)
      /\ \A i \in DOMAIN u : u[i] = IF i = Len(q) + 1 THEN k ELSE q[i]
      /\ \A i \in DOMAIN u : i # Len(q) + 1 => i \in DOMAIN q
  BY AppendProperties DEF Ordered
<1> HIDE DEF u
<1>2. /\ line \in Seq(Keys) /\ q \in Seq(Byte) /\ b.shadow \in Byte
      /\ \A x \in Keys \cup Byte : x \in Int /\ (x <= p => x <= m)
  BY DEF Enters, Ordered, Bda, Keys, Byte, Typed, Stuffed, NoKey
<1>3. /\ \A i \in DOMAIN line : line[i] <= p /\ line[i] \in Keys
      /\ \A i \in DOMAIN q : q[i] <= p /\ q[i] \in Byte
  BY <1>2 DEF Ordered, Pressed
<1>4. k <= m /\ k \in Int /\ (k \in Typed => \A x \in Int : x <= p => x < k)
  BY <1>2 DEF Enters, NoKey, Typed
<1>5. Pressed(line, m) /\ Pressed(u, m) /\ b.shadow <= m
  BY <1>1, <1>2, <1>3, <1>4 DEF Pressed, Ordered
<1>6. Increasing(u)
  <2> SUFFICES ASSUME NEW i \in DOMAIN u, NEW j \in DOMAIN u, i < j,
                      u[i] \in Typed, u[j] \in Typed
               PROVE  u[i] < u[j]
    BY DEF Increasing
  <2>1. i \in DOMAIN q /\ u[i] = q[i]
    BY <1>1
  <2>2. CASE j = Len(q) + 1
    BY <1>1, <1>2, <1>3, <1>4, <2>1, <2>2
  <2>3. CASE j # Len(q) + 1
    BY <1>1, <2>1, <2>3 DEF Ordered, Increasing
  <2> QED BY <2>2, <2>3
<1>7. Precede(line, u)
  BY <1>1, <1>2, <1>3, <1>4 DEF Precede, Ordered
<1>8. Precede(<<b.shadow>>, u)
  <2> SUFFICES ASSUME b.shadow \in Typed, NEW j \in DOMAIN u, u[j] \in Typed
               PROVE  b.shadow < u[j]
    BY DEF Precede
  <2>1. CASE j = Len(q) + 1
    <3>1. b.shadow \in Int /\ b.shadow <= p /\ u[j] = k
      BY <1>1, <1>2, <2>1 DEF Ordered
    <3> QED BY <1>4, <3>1
  <2>2. CASE j # Len(q) + 1
    <3>1. j \in DOMAIN q /\ u[j] = q[j]
      BY <1>1, <2>2
    <3> QED BY <3>1 DEF Precede, Ordered
  <2> QED BY <2>1, <2>2
<1> QED BY <1>1, <1>5, <1>6, <1>7, <1>8 DEF Ordered, u

LEMMA NoKeyOrdered ==
  ASSUME NEW line, NEW b, NEW q, NEW p \in Nat, Ordered(line, b, q, p)
  PROVE  Ordered(line, b, Append(q, NoKey), p)
<1>1. NoKey \in Byte
  BY DEF Byte
<1>2. Enters(NoKey, p, p)
  BY DEF Enters
<1> QED BY <1>1, <1>2, ByteOrdered

-----------------------------------------------------------------------------
(* INT 16h AH=02h stores the bytes of the queue one after the other.         *)
Stored(b, q) == FoldLeft(Store, b, q)

\* Storing the bytes of q at every set of positions up to m.
StoresTo(h, b, q, m) ==
  \A s \in SUBSET (1 .. m) :
    h[s] = IF s = {} THEN b ELSE Store(h[s \ {Max(s)}], q[Max(s)])

(* Such a fold exists: it is built one position at a time.                   *)
LEMMA StoresExist ==
  ASSUME NEW b, NEW q, NEW n \in Nat
  PROVE  \E h : StoresTo(h, b, q, n)
<1> DEFINE T == {m \in Nat : \E h : StoresTo(h, b, q, m)}
<1>1. 0 \in T
  <2>1. StoresTo([s \in {{}} |-> b], b, q, 0)
    BY DEF StoresTo
  <2> QED BY <2>1
<1>2. ASSUME NEW m \in T PROVE m + 1 \in T
  <2>1. PICK h : StoresTo(h, b, q, m)
    OBVIOUS
  <2>2. m \in Nat
    OBVIOUS
  <2> DEFINE k == [s \in SUBSET (1 .. m + 1) |->
                     IF m + 1 \in s THEN Store(h[s \ {m + 1}], q[m + 1]) ELSE h[s]]
  <2>3. ASSUME NEW s \in SUBSET (1 .. m + 1)
        PROVE  k[s] = IF s = {} THEN b ELSE Store(k[s \ {Max(s)}], q[Max(s)])
    <3>1. CASE m + 1 \in s
      <4>1. Max(s) = m + 1
        <5>1. m + 1 \in Nat /\ s # {}
          BY <2>2, <3>1
        <5>2. Max(s) \in s /\ m + 1 <= Max(s)
          BY <3>1, <5>1, MaxOfPositions
        <5>3. Max(s) \in 1 .. m + 1
          BY <5>2
        <5> QED BY <2>2, <5>2, <5>3
      <4>2. s \ {m + 1} \in SUBSET (1 .. m + 1) /\ m + 1 \notin s \ {m + 1}
        OBVIOUS
      <4>3. k[s \ {m + 1}] = h[s \ {m + 1}]
        BY <4>2
      <4> QED BY <3>1, <4>1, <4>3
    <3>2. CASE m + 1 \notin s
      <4>1. s \in SUBSET (1 .. m) /\ s \ {Max(s)} \in SUBSET (1 .. m)
        <5>1. ASSUME NEW x \in s PROVE x \in 1 .. m
          <6>1. x \in 1 .. m + 1 /\ x # m + 1
            BY <3>2
          <6> QED BY <2>2, <6>1
        <5> QED BY <5>1
      <4>2. s \ {Max(s)} \in SUBSET (1 .. m + 1) /\ m + 1 \notin s \ {Max(s)}
        BY <2>2, <3>2
      <4>3. k[s] = h[s] /\ k[s \ {Max(s)}] = h[s \ {Max(s)}]
        BY <3>2, <4>2
      <4> QED BY <2>1, <4>1, <4>3 DEF StoresTo
    <3> QED BY <3>1, <3>2
  <2> HIDE DEF k
  <2>4. StoresTo(k, b, q, m + 1)
    BY <2>3 DEF StoresTo
  <2> QED BY <2>2, <2>4
<1> HIDE DEF T
<1>3. T = Nat
  <2>1. T \in SUBSET Nat
    BY DEF T
  <2> QED BY <1>1, <1>2, <2>1, NatSet
<1> QED BY <1>3 DEF T

(* and Stored is its value for all positions.                                *)
LEMMA StoredFolds ==
  ASSUME NEW b, NEW q, NEW n \in Nat, DOMAIN q = 1 .. n
  PROVE  \E h : StoresTo(h, b, q, n) /\ Stored(b, q) = h[1 .. n]
<1> DEFINE Is(h) == h = [s \in SUBSET (1 .. n) |->
                     IF s = {} THEN b ELSE Store(h[s \ {Max(s)}], q[Max(s)])]
           iter == CHOOSE h : Is(h)
<1>1. Stored(b, q) = iter[1 .. n]
  BY DEF Stored, FoldLeft, MapThenFoldSet
<1>2. PICK h : StoresTo(h, b, q, n)
  BY StoresExist
<1> DEFINE k == [s \in SUBSET (1 .. n) |-> h[s]]
<1>3. ASSUME NEW s \in SUBSET (1 .. n)
      PROVE  k[s] = IF s = {} THEN b ELSE Store(k[s \ {Max(s)}], q[Max(s)])
  <2>1. s \ {Max(s)} \in SUBSET (1 .. n)
    OBVIOUS
  <2> QED BY <1>2, <2>1 DEF StoresTo
<1>4. Is(k)
  BY <1>3
<1>5. Is(iter)
  BY <1>4
<1> HIDE DEF iter
<1>6. StoresTo(iter, b, q, n)
  BY <1>5 DEF StoresTo
<1> QED BY <1>1, <1>6

\* d[i] is the data area after i bytes.
IsStoring(d, b, q) ==
  d[0] = b /\ \A i \in 1 .. Len(q) : d[i] = Store(d[i - 1], q[i])

LEMMA StoreRuns ==
  ASSUME NEW b, NEW q \in Seq(Byte), NEW h, StoresTo(h, b, q, Len(q))
  PROVE  IsStoring([i \in 0 .. Len(q) |-> h[1 .. i]], b, q)
<1> DEFINE n == Len(q)
           d == [i \in 0 .. n |-> h[1 .. i]]
<1>1. n \in Nat
  OBVIOUS
<1>2. d[0] = b
  <2>1. 1 .. 0 = {} /\ {} \in SUBSET (1 .. n) /\ 0 \in 0 .. n
    BY <1>1
  <2> QED BY <2>1 DEF StoresTo
<1>3. ASSUME NEW i \in 1 .. n PROVE d[i] = Store(d[i - 1], q[i])
  <2>1. i \in Nat /\ i - 1 \in 0 .. n /\ i \in 0 .. n
    BY <1>1
  <2>2. 1 .. i \in SUBSET (1 .. n) /\ i \in 1 .. i
    BY <1>1
  <2>3. Max(1 .. i) = i
    <3>1. Max(1 .. i) \in 1 .. i /\ i <= Max(1 .. i)
      BY <2>1, <2>2, MaxOfPositions
    <3> QED BY <2>1, <3>1
  <2>4. (1 .. i) \ {i} = 1 .. i - 1
    BY <2>1
  <2>5. h[1 .. i] = Store(h[1 .. i - 1], q[i])
    BY <2>2, <2>3, <2>4 DEF StoresTo
  <2> QED BY <2>1, <2>5
<1> HIDE DEF d
<1>4. IsStoring(d, b, q)
  BY <1>2, <1>3 DEF IsStoring
<1> QED BY <1>4 DEF d

LEMMA StoredRuns ==
  ASSUME NEW b, NEW q \in Seq(Byte)
  PROVE  \E d : IsStoring(d, b, q) /\ Stored(b, q) = d[Len(q)]
<1>1. Len(q) \in Nat /\ DOMAIN q = 1 .. Len(q)
  OBVIOUS
<1>2. PICK h : StoresTo(h, b, q, Len(q)) /\ Stored(b, q) = h[1 .. Len(q)]
  BY <1>1, StoredFolds
<1> DEFINE d == [i \in 0 .. Len(q) |-> h[1 .. i]]
<1>3. IsStoring(d, b, q)
  BY <1>2, StoreRuns
<1>4. d[Len(q)] = h[1 .. Len(q)]
  BY <1>1
<1> HIDE DEF d
<1> QED BY <1>2, <1>3, <1>4

(* Moving the whole queue to the ring keeps the order.                       *)
LEMMA ShiftOrdered ==
  ASSUME NEW s \in Seq(Keys), NEW b, NEW q, NEW p \in Nat, Ordered(s \o b.ring, b, q, p)
  PROVE  Ordered(s \o Stored(b, q).ring, Stored(b, q), <<>>, p)
<1> DEFINE n == Len(q)
<1>1. q \in Seq(Byte) /\ n \in Nat
  BY DEF Ordered
<1>2. PICK d : IsStoring(d, b, q) /\ Stored(b, q) = d[n]
  BY <1>1, StoredRuns
<1> DEFINE T == {i \in 0 .. n : Ordered(s \o d[i].ring, d[i], Rest(q, i), p)}
<1>3. 0 \in T
  <2>1. Rest(q, 0) = q /\ 0 \in 0 .. n /\ d[0] = b
    BY <1>1, <1>2 DEF Rest, IsStoring
  <2> QED BY <2>1
<1>4. ASSUME NEW i \in 0 .. n - 1, i \in T PROVE i + 1 \in T
  <2> DEFINE u == Rest(q, i)
  <2>1. /\ i \in 0 .. n /\ i + 1 \in 1 .. n /\ i + 1 \in 0 .. n /\ (i + 1) - 1 = i
        /\ u \in Seq(Byte) /\ Len(u) = n - i /\ 1 \in 0 .. Len(u)
    BY <1>1, RestElements
  <2>2. Fetched(u, 1) = q[i + 1]
    <3>1. 1 \in DOMAIN u
      BY <1>1, <2>1
    <3>2. u[1] = q[i + 1]
      BY <1>1, <2>1, <3>1, RestElements
    <3> QED BY <3>2 DEF Fetched
  <2>3. Rest(u, 1) = Rest(q, i + 1)
    BY <1>1, <2>1 DEF Rest
  <2>4. Ordered(s \o d[i].ring, d[i], u, p)
    BY <1>4
  <2> HIDE DEF u
  <2> DEFINE e == d[i]
  <2>5. Ordered(s \o e.ring, e, u, p)
    BY <2>4
  <2> HIDE DEF e
  <2>6. Ordered(s \o Store(e, Fetched(u, 1)).ring, Store(e, Fetched(u, 1)), Rest(u, 1), p)
    BY <2>1, <2>5, FetchOrdered
  <2>7. Store(e, Fetched(u, 1)) = d[i + 1]
    BY <1>2, <2>1, <2>2 DEF IsStoring, e
  <2> QED BY <2>1, <2>3, <2>6, <2>7
<1> HIDE DEF T
<1>5. 0 .. n \subseteq T
  BY <1>1, <1>3, <1>4, UpTo
<1>6. n \in T
  BY <1>1, <1>5
<1>7. Rest(q, n) = <<>>
  BY <1>1 DEF Rest
<1> QED BY <1>2, <1>6, <1>7 DEF T

-----------------------------------------------------------------------------
(* The steps.                                                                *)
LineOrdered == Ordered(taken \o bda.ring, bda, queue, pressed)

LEMMA FetchStep ==
  ASSUME OrderInv, NEW b, Ordered(taken \o b.ring, b, queue, pressed),
         FetchAndStore(b), UNCHANGED <<taken, pressed>>
  PROVE  LineOrdered'
<1>1. PICK n \in 0 .. Len(queue) :
        bda' = Store(b, Fetched(queue, n)) /\ queue' = Rest(queue, n)
  BY DEF FetchAndStore, Fetches, Rest
<1>2. taken \in Seq(Keys) /\ pressed \in Nat
  BY SizesAssumption DEF OrderInv, SeqInv
<1> QED BY <1>1, <1>2, FetchOrdered DEF LineOrdered

LEMMA InterruptStep ==
  ASSUME OrderInv, KeyboardInterrupt, UNCHANGED <<taken, pressed>>
  PROVE  LineOrdered'
<1>1. CASE ~hooked /\ FetchAndStore(bda)
  BY <1>1, FetchStep DEF OrderInv
<1>2. CASE UNCHANGED <<queue, bda>>
  BY <1>2 DEF OrderInv, LineOrdered
<1> QED BY <1>1, <1>2 DEF KeyboardInterrupt

(* The key at the ring's head, given to the program, stays in line.          *)
LEMMA HeadMoves ==
  ASSUME NEW s \in Seq(Keys), NEW r \in Seq(Keys), r # <<>>
  PROVE  /\ Append(s, Head(r)) \o Tail(r) = s \o r
         /\ Append(s, Head(r)) \in Seq(Keys)
         /\ Tail(r) \in Seq(Keys) /\ Len(Tail(r)) <= Len(r)
<1>1. /\ Head(r) \in Keys /\ Tail(r) \in Seq(Keys) /\ Len(r) \in Nat
      /\ Len(Tail(r)) = Len(r) - 1
  OBVIOUS
<1>2. Append(s, Head(r)) \in Seq(Keys)
  BY <1>1
<1>3. Append(s, Head(r)) \o Tail(r) = s \o r
  BY <1>1
<1> QED BY <1>1, <1>2, <1>3

LEMMA ReadKeyOrdered ==
  ASSUME OrderInv, ReadKey, pressed' = pressed
  PROVE  taken' \in Seq(Keys) /\ LineOrdered'
<1> DEFINE f == FlushShadow(bda)
<1>1. taken \in Seq(Keys) /\ pressed \in Nat
  BY SizesAssumption DEF OrderInv, SeqInv
<1>2. /\ Ordered(taken \o f.ring, f, queue, pressed) /\ f.shadow = NoKey
      /\ f \in Bda /\ f.ring \in Seq(Keys)
  <2>1. Ordered(taken \o f.ring, f, queue, pressed) /\ f.shadow = NoKey
    BY <1>1, FlushOrdered DEF OrderInv
  <2> QED BY <2>1 DEF Ordered, Bda
<1> HIDE DEF f
<1>3. CASE /\ f.ring # <<>>
           /\ taken' = Append(taken, Head(f.ring))
           /\ bda' = [f EXCEPT !.ring = Tail(@)]
           /\ UNCHANGED queue
  <2>1. /\ taken' \in Seq(Keys) /\ taken' \o Tail(f.ring) = taken \o f.ring
        /\ Tail(f.ring) \in Seq(Keys) /\ Len(Tail(f.ring)) <= Len(f.ring)
    BY <1>1, <1>2, <1>3, HeadMoves
  <2>2. bda' = [f EXCEPT !.ring = Tail(f.ring)] /\ bda'.ring = Tail(f.ring)
    BY <1>2, <1>3 DEF Bda
  <2>3. Ordered(taken \o f.ring, [f EXCEPT !.ring = Tail(f.ring)], queue, pressed)
    BY <1>2, <2>1, TakeOrdered
  <2> QED BY <1>3, <2>1, <2>2, <2>3 DEF LineOrdered
<1>4. ASSUME NEW n \in 0 .. Len(queue), queue' = Rest(queue, n),
             bda' = [Store(f, Fetched(queue, n)) EXCEPT !.ring = <<>>],
             taken' = taken \o Store(f, Fetched(queue, n)).ring
      PROVE  taken' \in Seq(Keys) /\ LineOrdered'
  <2> DEFINE b == Store(f, Fetched(queue, n))
  <2>1. Ordered(taken \o b.ring, b, queue', pressed)
    BY <1>1, <1>2, <1>4, FetchOrdered
  <2>2. b.shadow = NoKey
    BY <1>2 DEF Store, Bda
  <2>3. bda' = [b EXCEPT !.ring = <<>>] /\ taken' = taken \o b.ring
    BY <1>4
  <2> HIDE DEF b
  <2>4. b \in Bda /\ taken' \in Seq(Keys) /\ b.ring \in Seq(Keys)
    BY <2>1, <2>3 DEF Ordered, Bda
  <2>5. <<>> \in Seq(Keys) /\ Len(<<>>) <= Len(b.ring)
    BY <2>4
  <2>6. Ordered(taken', [b EXCEPT !.ring = <<>>], queue', pressed)
    BY <2>1, <2>2, <2>3, <2>5, TakeOrdered
  <2>7. bda'.ring = <<>> /\ taken' \o <<>> = taken'
    BY <2>3, <2>4 DEF Bda
  <2> QED BY <2>3, <2>4, <2>6, <2>7 DEF LineOrdered
<1> QED BY <1>3, <1>4 DEF ReadKey, Fetches, Rest, f

LEMMA ProgramOrdered ==
  ASSUME OrderInv, Program, pressed' = pressed
  PROVE  taken' \in Seq(Keys) /\ LineOrdered'
<1>1. taken \in Seq(Keys) /\ pressed \in Nat /\ LineOrdered
  BY SizesAssumption DEF OrderInv, SeqInv, LineOrdered
<1>2. CASE ReadKey
  BY <1>2, ReadKeyOrdered
<1>3. CASE CheckKey
  <2> DEFINE f == FlushShadow(bda)
  <2>1. Ordered(taken \o f.ring, f, queue, pressed)
    BY <1>1, FlushOrdered DEF LineOrdered
  <2>2. taken' = taken
    BY <1>3 DEF CheckKey
  <2>3. CASE FetchAndStore(f)
    <3> HIDE DEF f
    <3> QED BY <1>1, <2>1, <2>2, <2>3, FetchStep
  <2>4. CASE bda' = f /\ UNCHANGED queue
    BY <1>1, <2>1, <2>2, <2>4 DEF LineOrdered
  <2> QED BY <1>3, <2>3, <2>4 DEF CheckKey, LookForKey
<1>4. CASE ShiftFlags
  <2>1. bda' = Stored(bda, queue) /\ queue' = <<>> /\ taken' = taken
    BY <1>4 DEF ShiftFlags, Stored
  <2>2. Ordered(taken \o Stored(bda, queue).ring, Stored(bda, queue), <<>>, pressed)
    BY <1>1, ShiftOrdered DEF LineOrdered
  <2> QED BY <1>1, <2>1, <2>2 DEF LineOrdered
<1>5. CASE StuffKey
  <2>1. Stuffed \in Keys \cup {NoKey} /\ Stuffed \notin Typed /\ Stuffed <= pressed
    BY <1>1 DEF Keys, Stuffed, Typed
  <2>2. Between(taken \o bda.ring, Stuffed, queue, pressed)
    BY <2>1 DEF Between, Precede
  <2>3. Ordered(taken \o Store(bda, Stuffed).ring, Store(bda, Stuffed), queue, pressed)
    BY <1>1, <2>1, <2>2, StoreOrdered DEF LineOrdered
  <2> QED BY <1>1, <1>5, <2>3 DEF StuffKey, LineOrdered
<1>6. CASE UNCHANGED <<bda, queue, taken>>
  BY <1>1, <1>6 DEF LineOrdered
<1> QED BY <1>2, <1>3, <1>4, <1>5, <1>6
        DEF Program, Halt, SetVector, OtherInstruction

(* Changing the innermost handler.                                           *)
LEMMA TopChanges ==
  ASSUME OrderInv, frames # <<>>, NEW f \in Frame, SetTop(f), f.ints = Top.ints
  PROVE  /\ frames' # <<>> /\ Top' = f
         /\ \A i \in DOMAIN frames' : i # 1 => frames'[i].ints
<1>1. frames \in Seq(Frame) /\ Len(frames) \in 1 .. Len(frames)
  BY EmptySeq DEF OrderInv, SeqInv
<1>2. /\ Len(frames') = Len(frames) /\ frames' \in Seq(Frame)
      /\ \A i \in 1 .. Len(frames) :
           frames'[i] = IF i = Len(frames) THEN f ELSE frames[i]
  BY <1>1, ExceptSeq DEF SetTop
<1>3. Top' = f /\ frames' # <<>>
  BY <1>1, <1>2 DEF Top
<1>4. ASSUME NEW i \in DOMAIN frames', i # 1 PROVE frames'[i].ints
  <2>1. i \in 1 .. Len(frames) /\ i \in DOMAIN frames
    BY <1>1, <1>2
  <2>2. frames[i].ints
    BY <1>4, <2>1 DEF OrderInv, PendingIsShadow
  <2> QED BY <1>2, <2>1, <2>2 DEF Top
<1> QED BY <1>3, <1>4

LEMMA ReadPortOrdered ==
  ASSUME OrderInv, Handler, ReadPort, pressed' = pressed
  PROVE  LineOrdered' /\ PendingIsShadow'
<1> DEFINE n == IF queue = <<>> THEN 0 ELSE 1
           k == IF queue = <<>> THEN NoKey ELSE Head(queue)
           f == [Top EXCEPT !.read = TRUE, !.key = k]
<1>1. /\ taken \in Seq(Keys) /\ taken' = taken /\ pressed \in Nat
      /\ queue \in Seq(Byte) /\ frames \in Seq(Frame) /\ frames # <<>>
      /\ halted' = halted /\ ~halted
  BY SizesAssumption DEF OrderInv, SeqInv, Handler, PendingIsShadow
<1>2. n \in 0 .. Len(queue) /\ k = Fetched(queue, n) /\ queue' = Rest(queue, n)
  BY <1>1 DEF Fetched, Rest, ReadPort
<1>3. bda' = Observe(bda, k) /\ SetTop(f)
  BY DEF ReadPort
<1>4. LineOrdered'
  <2>1. Ordered(taken \o bda.ring, bda, queue, pressed)
    BY DEF OrderInv
  <2> HIDE DEF n, k
  <2>2. Ordered(taken \o Observe(bda, k).ring, Observe(bda, k), Rest(queue, n), pressed)
    BY <1>1, <1>2, <2>1, ObserveOrdered
  <2> QED BY <1>1, <1>2, <1>3, <2>2 DEF LineOrdered
<1>5. k \in Byte /\ Top \in Frame
  BY <1>1 DEF Byte, Top
<1>6. f \in Frame /\ f.key = k /\ f.ints = Top.ints
  <2> HIDE DEF k
  <2> QED BY <1>5 DEF Frame
<1>7. k # NoKey => bda'.shadow = k /\ bda'.tail = bda'.seen
  <2> DEFINE g == FlushShadow(bda)
  <2>1. g \in Bda
    BY <1>1, FlushOrdered DEF OrderInv, Ordered
  <2>2. k # NoKey => bda' = [g EXCEPT !.shadow = k, !.seen = g.tail]
    BY <1>3 DEF Observe
  <2> HIDE DEF g, k
  <2> QED BY <2>1, <2>2 DEF Bda
<1> HIDE DEF f, k
<1>8. Top' = f /\ \A i \in DOMAIN frames' : i # 1 => frames'[i].ints
  BY <1>1, <1>3, <1>6, TopChanges
<1> QED BY <1>1, <1>4, <1>6, <1>7, <1>8 DEF PendingIsShadow

LEMMA HandlerOrdered ==
  ASSUME OrderInv, Handler, pressed' = pressed
  PROVE  LineOrdered' /\ PendingIsShadow'
<1>1. /\ taken \in Seq(Keys) /\ taken' = taken /\ pressed \in Nat
      /\ queue \in Seq(Byte) /\ frames \in Seq(Frame) /\ frames # <<>>
      /\ halted' = halted /\ ~halted /\ LineOrdered
  BY SizesAssumption DEF OrderInv, SeqInv, Handler, PendingIsShadow, LineOrdered
<1>2. Top \in Frame
  BY <1>1 DEF Top
<1>3. ASSUME NEW f \in Frame, SetTop(f), f.ints = Top.ints, f.key = NoKey \/ f.finished
      PROVE  PendingIsShadow'
  BY <1>1, <1>3, TopChanges DEF PendingIsShadow
<1>4. CASE FillRing
  <2> DEFINE k == Top.key
             f == [Top EXCEPT !.key = NoKey]
  <2>1. f \in Frame /\ f.ints = Top.ints /\ f.key = NoKey /\ k \in Byte
    BY <1>2 DEF Frame, Byte
  <2>2. k # NoKey /\ bda.shadow = k /\ bda.tail = bda.seen
    BY <1>1, <1>4 DEF FillRing, OrderInv, PendingIsShadow
  <2>3. Between(taken \o bda.ring, k, queue, pressed)
    BY <1>1, <2>2 DEF LineOrdered, Ordered, ShadowCounts, Between
  <2>4. k \in Keys \cup {NoKey}
    BY <2>1 DEF Byte, Keys
  <2> HIDE DEF k
  <2>5. Ordered(taken \o Store(bda, k).ring, Store(bda, k), queue, pressed)
    BY <1>1, <2>3, <2>4, StoreOrdered DEF LineOrdered
  <2>6. bda' = Store(bda, k) /\ queue' = queue /\ SetTop(f)
    BY <1>4 DEF FillRing, k
  <2>7. LineOrdered'
    BY <1>1, <2>5, <2>6 DEF LineOrdered
  <2> HIDE DEF f
  <2> QED BY <1>3, <2>1, <2>6, <2>7
<1>5. CASE Chain
  <2> DEFINE f == [Top EXCEPT !.key = NoKey, !.read = TRUE, !.finished = TRUE]
  <2>1. f \in Frame /\ f.ints = Top.ints /\ f.key = NoKey
    BY <1>2 DEF Frame, Byte
  <2>2. SetTop(f) /\ FetchAndStore(bda)
    BY <1>5 DEF Chain
  <2> HIDE DEF f
  <2>3. LineOrdered'
    BY <1>1, <2>2, FetchStep DEF OrderInv
  <2> QED BY <1>3, <2>1, <2>2, <2>3
<1>6. CASE EndOfInterrupt
  <2> DEFINE f == [Top EXCEPT !.finished = TRUE]
  <2>1. f \in Frame /\ f.ints = Top.ints /\ f.finished
    BY <1>2 DEF Frame
  <2>2. SetTop(f) /\ UNCHANGED <<queue, bda>>
    BY <1>6 DEF EndOfInterrupt
  <2> HIDE DEF f
  <2>3. LineOrdered'
    BY <1>1, <2>2 DEF LineOrdered
  <2> QED BY <1>3, <2>1, <2>2, <2>3
<1>7. CASE Return
  <2> DEFINE m == Len(frames)
  <2>1. /\ frames' = SubSeq(frames, 1, m - 1) /\ m \in Nat /\ m # 0
        /\ ints' = frames[m].ints /\ UNCHANGED <<queue, bda>>
    BY <1>1, <1>7 DEF Return, Front, Top
  <2>2. /\ Len(frames') = m - 1 /\ DOMAIN frames' = 1 .. m - 1
        /\ \A i \in 1 .. m - 1 : frames'[i] = frames[i]
    <3>1. 1 \in 1 .. m /\ m - 1 \in 0 .. m
      BY <2>1
    <3>2. Len(frames') = m - 1 /\ DOMAIN frames' = 1 .. m - 1
      <4>1. \A i \in 1 .. m - 1 : frames[i] \in Frame
        BY <1>1, <2>1
      <4>2. /\ frames' \in Seq(Frame)
            /\ Len(frames') = IF 1 <= m - 1 THEN (m - 1) - 1 + 1 ELSE 0
        BY <2>1, <4>1, SubSeqProperties
      <4>3. Len(frames') = m - 1
        <5> DEFINE n == Len(frames')
        <5>1. n = IF 1 <= m - 1 THEN (m - 1) - 1 + 1 ELSE 0
          BY <4>2
        <5>2. m \in Nat /\ m # 0
          BY <2>1
        <5> HIDE DEF m, n
        <5>3. n = m - 1
          BY <5>1, <5>2
        <5> QED BY <5>3 DEF n
      <4> QED BY <4>2, <4>3
    <3>3. ASSUME NEW i \in 1 .. m - 1 PROVE frames'[i] = frames[i]
      BY <1>1, <2>1, <3>2, <3>3
    <3> QED BY <3>2, <3>3
  <2>3. \A i \in 1 .. m : i # 1 => frames[i].ints
    BY <1>1 DEF OrderInv, PendingIsShadow
  <2>4. \A i \in DOMAIN frames' : i # 1 => frames'[i].ints
    <3>1. \A i \in 1 .. m - 1 : i \in 1 .. m
      BY <2>1
    <3> QED BY <2>2, <2>3, <3>1
  <2>5. frames' # <<>> => ints'
    <3> SUFFICES ASSUME frames' # <<>> PROVE ints'
      OBVIOUS
    <3>1. m \in 1 .. m /\ m # 1
      BY <2>1, <2>2
    <3> QED BY <2>1, <2>3, <3>1
  <2>6. LineOrdered'
    BY <1>1, <2>1 DEF LineOrdered
  <2> QED BY <1>1, <2>4, <2>5, <2>6 DEF PendingIsShadow
<1> QED BY <1>1, <1>4, <1>5, <1>6, <1>7, ReadPortOrdered DEF Handler

(* A handler starts with nothing pending, and only where interrupts were on  *)
(* or the program was halted.                                                *)
LEMMA InterruptPending ==
  ASSUME OrderInv, KeyboardInterrupt, halted \/ ints
  PROVE  PendingIsShadow'
<1>1. frames \in Seq(Frame) /\ ints \in BOOLEAN /\ ~halted'
  BY DEF OrderInv, SeqInv, KeyboardInterrupt
<1>2. CASE UNCHANGED <<frames, ints>>
  BY <1>1, <1>2 DEF OrderInv, PendingIsShadow
<1>3. CASE hooked
  <2> DEFINE f == [key |-> NoKey, read |-> FALSE, finished |-> FALSE, ints |-> ints]
             m == Len(frames)
  <2>1. frames' = Append(frames, f) /\ f \in Frame /\ f.key = NoKey /\ f.ints = ints
    BY <1>1, <1>3, FreshFrame DEF KeyboardInterrupt
  <2> HIDE DEF f
  <2>2. /\ m \in Nat /\ Len(frames') = m + 1 /\ DOMAIN frames' = 1 .. m + 1
        /\ \A i \in 1 .. m : frames'[i] = frames[i]
        /\ frames'[m + 1] = f
    BY <1>1, <2>1, AppendProperties
  <2>3. Top'.key = NoKey
    BY <2>1, <2>2 DEF Top
  <2>4. ASSUME NEW i \in DOMAIN frames', i # 1 PROVE frames'[i].ints
    <3>1. CASE i = m + 1
      <4>1. frames # <<>>
        BY <1>1, <2>2, <2>4, <3>1
      <4>2. ints
        BY <4>1 DEF OrderInv, PendingIsShadow
      <4> QED BY <2>1, <2>2, <3>1, <4>2
    <3>2. CASE i # m + 1
      <4>1. i \in DOMAIN frames
        BY <1>1, <2>2, <2>4, <3>2
      <4> QED BY <1>1, <2>2, <2>4, <4>1 DEF OrderInv, PendingIsShadow
    <3> QED BY <3>1, <3>2
  <2> QED BY <1>1, <2>3, <2>4 DEF PendingIsShadow
<1> QED BY <1>2, <1>3 DEF KeyboardInterrupt

LEMMA CpuOrdered ==
  ASSUME OrderInv, Offer \/ Take \/ SetFlag
  PROVE  taken' \in Seq(Keys) /\ LineOrdered' /\ PendingIsShadow'
<1>1. taken' = taken /\ pressed' = pressed /\ taken \in Seq(Keys) /\ LineOrdered
  BY DEF Offer, Take, SetFlag, OrderInv, LineOrdered
<1>2. CASE UNCHANGED <<queue, ints, halted, frames, bda>>
  <2>1. LineOrdered' /\ PendingIsShadow'
    BY <1>1, <1>2 DEF LineOrdered, OrderInv, PendingIsShadow, Top
  <2> QED BY <1>1, <2>1
<1>3. CASE KeyboardInterrupt /\ (halted \/ ints)
  BY <1>1, <1>3, InterruptStep, InterruptPending
<1>4. CASE TimerInterrupt
  <2>1. LineOrdered'
    BY <1>1, <1>4 DEF TimerInterrupt, LineOrdered
  <2>2. PendingIsShadow'
    BY <1>4 DEF TimerInterrupt, OrderInv, PendingIsShadow, Top
  <2> QED BY <1>1, <2>1, <2>2
<1>5. CASE SetFlag
  <2>1. LineOrdered'
    BY <1>1, <1>5 DEF SetFlag, LineOrdered
  <2>2. PendingIsShadow'
    BY <1>5 DEF SetFlag, OrderInv, PendingIsShadow, Top
  <2> QED BY <1>1, <2>1, <2>2
<1> QED BY <1>2, <1>3, <1>4, <1>5 DEF Offer, Take

LEMMA DeviceOrdered ==
  ASSUME OrderInv, Press \/ OtherByte
  PROVE  taken' \in Seq(Keys) /\ LineOrdered' /\ PendingIsShadow'
<1>1. /\ taken' = taken /\ taken \in Seq(Keys) /\ bda' = bda
      /\ pressed \in Nat /\ pressed <= MaxKeys
      /\ Ordered(taken \o bda.ring, bda, queue, pressed)
  BY SizesAssumption DEF Press, OtherByte, OrderInv, SeqInv
<1>2. PendingIsShadow'
  BY DEF Press, OtherByte, OrderInv, PendingIsShadow, Top
<1>3. CASE Press
  <2>1. /\ pressed' = pressed + 1 /\ queue' = Append(queue, pressed')
        /\ pressed' \in Byte /\ pressed' \in Nat
        /\ Enters(pressed', pressed, pressed')
    BY <1>1, <1>3, SizesAssumption DEF Press, Byte, Typed, Enters
  <2>2. Ordered(taken \o bda.ring, bda, Append(queue, pressed'), pressed')
    BY <1>1, <2>1, ByteOrdered
  <2> QED BY <1>1, <1>2, <2>1, <2>2 DEF LineOrdered
<1>4. CASE OtherByte
  <2>1. pressed' = pressed /\ queue' = Append(queue, NoKey) /\ NoKey \in Byte
    BY <1>4 DEF OtherByte, Byte
  <2>2. Ordered(taken \o bda.ring, bda, Append(queue, NoKey), pressed)
    BY <1>1, NoKeyOrdered
  <2> QED BY <1>1, <1>2, <2>1, <2>2 DEF LineOrdered
<1> QED BY <1>3, <1>4

LEMMA OrderStep == OrderInv /\ [Next]_vars => OrderInv'
<1> SUFFICES ASSUME OrderInv, [Next]_vars PROVE OrderInv'
  OBVIOUS
<1>1. SeqInv'
  BY NextSeqInv DEF OrderInv
<1>2. taken' \in Seq(Keys) /\ LineOrdered' /\ PendingIsShadow'
  <2>1. CASE UNCHANGED vars
    BY <2>1 DEF vars, OrderInv, LineOrdered, PendingIsShadow, Top
  <2>2. CASE Program /\ pressed' = pressed
    <3>1. taken' \in Seq(Keys) /\ LineOrdered'
      BY <2>2, ProgramOrdered
    <3>2. PendingIsShadow'
      BY <2>2 DEF Program, PendingIsShadow
    <3> QED BY <3>1, <3>2
  <2>3. CASE Handler /\ pressed' = pressed
    BY <2>3, HandlerOrdered DEF Handler, OrderInv
  <2> QED BY <2>1, <2>2, <2>3, CpuOrdered, DeviceOrdered
          DEF Next, StepCpu, Execute
<1> QED BY <1>1, <1>2 DEF OrderInv, LineOrdered

LEMMA OrderStart == Init => OrderInv
<1> SUFFICES ASSUME Init PROVE OrderInv
  OBVIOUS
<1>1. <<>> \in Seq(Keys) /\ <<>> \in Seq(Byte) /\ NoKey \in Byte
  BY EmptySeq DEF Byte
<1>2. /\ bda.ring = <<>> /\ bda.tail = 0 /\ bda.seen = 0 /\ bda.shadow = NoKey
      /\ bda \in Bda
  BY <1>1, SizesAssumption DEF Init, Bda
<1>3. taken = <<>> /\ taken \o bda.ring = <<>> /\ queue = <<>> /\ pressed = 0
  BY <1>2 DEF Init
<1>4. Ordered(<<>>, bda, <<>>, 0)
  <2>1. Len(<<>>) < RingSize /\ NoKey <= 0
    BY SizesAssumption DEF NoKey
  <2> QED BY <1>1, <1>2, <2>1
          DEF Ordered, Increasing, Precede, Pressed, ShadowCounts
<1>5. PendingIsShadow
  BY DEF Init, PendingIsShadow
<1> QED BY <1>1, <1>3, <1>4, <1>5, InitSeqInv DEF OrderInv

(* The program gets keys in the order they were pressed and none twice, for  *)
(* any number of keys, any queue and ring, any nesting of handlers, and      *)
(* whichever of the BIOS and the handlers brings each key to the ring.       *)
THEOREM OrderCorrect == Spec => []KeysInOrder
<1>1. OrderInv => KeysInOrder
  BY DEF OrderInv, Ordered, KeysInOrder
<1> QED BY OrderStart, OrderStep, <1>1, PTL DEF Spec

-----------------------------------------------------------------------------
(* Where a key may get lost.                                                 *)

\* Typed keys that wait in q or in the data area b.
Waiting(b, q) == Typed \cap (ToSet(q) \cup ToSet(b.ring) \cup {b.shadow})

LEMMA AppendHolds ==
  ASSUME NEW s \in Seq(Keys), NEW k \in Keys
  PROVE  ToSet(Append(s, k)) = ToSet(s) \cup {k}
<1> DEFINE u == Append(s, k)
<1>1. /\ Len(s) \in Nat /\ DOMAIN u = 1 .. Len(s) + 1 /\ DOMAIN s = 1 .. Len(s)
      /\ \A i \in DOMAIN u : u[i] = IF i = Len(s) + 1 THEN k ELSE s[i]
  BY AppendProperties
<1> HIDE DEF u
<1>2. ASSUME NEW x \in ToSet(u) PROVE x \in ToSet(s) \cup {k}
  <2>1. PICK i \in DOMAIN u : x = u[i]
    BY DEF ToSet
  <2>2. CASE i = Len(s) + 1
    BY <1>1, <2>1, <2>2
  <2>3. CASE i # Len(s) + 1
    <3>1. i \in DOMAIN s /\ x = s[i]
      BY <1>1, <2>1, <2>3
    <3> QED BY <3>1 DEF ToSet
  <2> QED BY <2>2, <2>3
<1>3. ASSUME NEW x \in ToSet(s) PROVE x \in ToSet(u)
  <2>1. PICK i \in DOMAIN s : x = s[i]
    BY DEF ToSet
  <2>2. i \in DOMAIN u /\ u[i] = x
    BY <1>1, <2>1
  <2> QED BY <2>2 DEF ToSet
<1>4. k \in ToSet(u)
  <2>1. Len(s) + 1 \in DOMAIN u /\ u[Len(s) + 1] = k
    BY <1>1
  <2> QED BY <2>1 DEF ToSet
<1> QED BY <1>2, <1>3, <1>4 DEF u

(* A key that is stored is in the ring unless that was full; nothing leaves. *)
LEMMA StoreHolds ==
  ASSUME NEW b \in Bda, NEW k \in Keys \cup {NoKey}
  PROVE  /\ Store(b, k) \in Bda
         /\ Store(b, k).shadow = b.shadow
         /\ ToSet(b.ring) \subseteq ToSet(Store(b, k).ring)
         /\ k \in Typed /\ ~RingFull(b) => k \in ToSet(Store(b, k).ring)
         /\ RingFull(b) => Store(b, k) = b
<1>1. CASE k = NoKey \/ RingFull(b)
  BY <1>1 DEF Store, NoKey, Typed
<1>2. CASE ~(k = NoKey \/ RingFull(b))
  <2>1. /\ b.ring \in Seq(Keys) /\ k \in Keys /\ Append(b.ring, k) \in Seq(Keys)
        /\ (b.tail + 1) % RingSize \in 0 .. RingSize - 1
    <3>1. b.ring \in Seq(Keys) /\ k \in Keys /\ b.tail \in 0 .. RingSize - 1
      BY <1>2 DEF Bda
    <3>2. (b.tail + 1) % RingSize \in 0 .. RingSize - 1
      BY <3>1, NextSlot, SizesAssumption
    <3> QED BY <3>1, <3>2
  <2>2. /\ Store(b, k) \in Bda /\ Store(b, k).shadow = b.shadow
        /\ Store(b, k).ring = Append(b.ring, k)
    BY <1>2, <2>1 DEF Store, Bda
  <2> QED BY <1>2, <2>1, <2>2, AppendHolds
<1> QED BY <1>1, <1>2

(* Flushing puts the shadowed key into the ring, unless that is full or      *)
(* another key was put there first.                                          *)
LEMMA FlushHolds ==
  ASSUME NEW b \in Bda
  PROVE  /\ FlushShadow(b) \in Bda
         /\ ToSet(b.ring) \subseteq ToSet(FlushShadow(b).ring)
         /\ RingFull(b) => RingFull(FlushShadow(b))
         /\ b.shadow \in Typed /\ ~RingFull(b) /\ b.tail = b.seen =>
              b.shadow \in ToSet(FlushShadow(b).ring)
<1> DEFINE c == [b EXCEPT !.shadow = NoKey]
<1>1. c \in Bda /\ c.ring = b.ring /\ b.shadow \in Keys \cup {NoKey}
  BY DEF Bda, Byte, Keys
<1>2. RingFull(c) <=> RingFull(b)
  BY <1>1 DEF RingFull
<1>3. FlushShadow(b) = IF b.tail = b.seen THEN Store(c, b.shadow) ELSE c
  BY DEF FlushShadow
<1> HIDE DEF c
<1> QED BY <1>1, <1>2, <1>3, StoreHolds

(* The bytes fetchKey skips make no key.                                     *)
LEMMA RestHolds ==
  ASSUME NEW q \in Seq(Byte), NEW n \in Fetches(q)
  PROVE  /\ Typed \cap ToSet(q) \subseteq ToSet(Rest(q, n)) \cup {Fetched(q, n)}
         /\ Fetched(q, n) \in Keys \cup {NoKey}
<1>1. n \in 0 .. Len(q) /\ Len(q) \in Nat /\ \A i \in 1 .. n - 1 : q[i] = NoKey
  BY DEF Fetches
<1>2. ASSUME NEW k \in Typed \cap ToSet(q), k # Fetched(q, n)
      PROVE  k \in ToSet(Rest(q, n))
  <2>1. PICK i \in 1 .. Len(q) : k = q[i]
    BY DEF ToSet
  <2>2. i > n
    <3>1. k # NoKey
      BY DEF NoKey, Typed
    <3>2. i \notin 1 .. n - 1
      BY <1>1, <2>1, <3>1
    <3>3. i # n
      BY <1>1, <1>2, <2>1 DEF Fetched
    <3> QED BY <1>1, <2>1, <3>2, <3>3
  <2>3. i - n \in DOMAIN Rest(q, n) /\ n + (i - n) = i
    <3>1. Rest(q, n) \in Seq(Byte) /\ Len(Rest(q, n)) = Len(q) - n
      BY <1>1, RestElements
    <3> QED BY <1>1, <2>2, <3>1
  <2>4. Rest(q, n)[i - n] = k
    BY <1>1, <2>1, <2>3, RestElements
  <2> QED BY <2>3, <2>4 DEF ToSet
<1>3. Fetched(q, n) \in Keys \cup {NoKey}
  <2>1. n # 0 => q[n] \in Byte
    BY <1>1
  <2> QED BY <2>1 DEF Fetched, Byte, Keys
<1> QED BY <1>2, <1>3

LEMMA FetchHolds ==
  ASSUME NEW b \in Bda, queue \in Seq(Byte), FetchAndStore(b)
  PROVE  ~RingFull(b) => Waiting(b, queue) \subseteq Waiting(bda', queue')
<1>1. PICK n \in Fetches(queue) :
        bda' = Store(b, Fetched(queue, n)) /\ queue' = Rest(queue, n)
  BY DEF FetchAndStore, Rest
<1> DEFINE k == Fetched(queue, n)
<1>2. Typed \cap ToSet(queue) \subseteq ToSet(queue') \cup {k} /\ k \in Keys \cup {NoKey}
  BY <1>1, RestHolds
<1>3. bda' = Store(b, k)
  BY <1>1
<1> HIDE DEF k
<1>4. /\ bda'.shadow = b.shadow /\ ToSet(b.ring) \subseteq ToSet(bda'.ring)
      /\ k \in Typed /\ ~RingFull(b) => k \in ToSet(bda'.ring)
  BY <1>2, <1>3, StoreHolds
<1> QED BY <1>2, <1>4 DEF Waiting

(* Storing a whole queue loses a key only if the ring ends up full.          *)
LEMMA ShiftHolds ==
  ASSUME NEW b \in Bda, NEW q \in Seq(Byte), ~RingFull(Stored(b, q))
  PROVE  Waiting(b, q) \subseteq Waiting(Stored(b, q), <<>>)
<1> DEFINE n == Len(q)
<1>1. n \in Nat
  OBVIOUS
<1>2. PICK d : IsStoring(d, b, q) /\ Stored(b, q) = d[n]
  BY StoredRuns
<1> DEFINE Holds(i) ==
             /\ d[i] \in Bda /\ d[i].shadow = b.shadow
             /\ ToSet(b.ring) \subseteq ToSet(d[i].ring)
             /\ \A j \in 1 .. i :
                  q[j] \in Typed => RingFull(d[i]) \/ q[j] \in ToSet(d[i].ring)
           T == {i \in 0 .. n : Holds(i)}
<1>3. 0 \in T
  BY <1>1, <1>2 DEF IsStoring
<1>4. ASSUME NEW i \in 0 .. n - 1, i \in T PROVE i + 1 \in T
  <2>1. i + 1 \in 1 .. n /\ i + 1 \in 0 .. n /\ (i + 1) - 1 = i
    BY <1>1
  <2> DEFINE e == d[i]
             c == d[i + 1]
             k == q[i + 1]
  <2>2. c = Store(e, k) /\ k \in Keys \cup {NoKey}
    <3>1. k \in Byte
      BY <2>1
    <3> QED BY <1>2, <2>1, <3>1 DEF IsStoring, Byte, Keys
  <2>3. /\ e \in Bda /\ e.shadow = b.shadow /\ ToSet(b.ring) \subseteq ToSet(e.ring)
        /\ \A j \in 1 .. i : q[j] \in Typed => RingFull(e) \/ q[j] \in ToSet(e.ring)
    BY <1>4
  <2> HIDE DEF e, c, k
  <2>4. /\ c \in Bda /\ c.shadow = e.shadow /\ ToSet(e.ring) \subseteq ToSet(c.ring)
        /\ k \in Typed /\ ~RingFull(e) => k \in ToSet(c.ring)
        /\ RingFull(e) => RingFull(c)
    BY <2>2, <2>3, StoreHolds
  <2>5. ASSUME NEW j \in 1 .. i + 1, q[j] \in Typed
        PROVE  RingFull(c) \/ q[j] \in ToSet(c.ring)
    <3>1. CASE j = i + 1
      BY <2>4, <2>5, <3>1 DEF k
    <3>2. CASE j # i + 1
      <4>1. j \in 1 .. i
        BY <2>1, <3>2
      <4> QED BY <2>3, <2>4, <2>5, <4>1
    <3> QED BY <3>1, <3>2
  <2>6. Holds(i + 1)
    BY <2>3, <2>4, <2>5 DEF c
  <2> QED BY <2>1, <2>6
<1>5. 0 .. n \subseteq T
  <2> HIDE DEF T
  <2> QED BY <1>1, <1>3, <1>4, UpTo
<1>6. Holds(n)
  BY <1>1, <1>5
<1>7. \A k \in Typed \cap ToSet(q) : k \in ToSet(d[n].ring)
  BY <1>2, <1>6 DEF ToSet
<1> QED BY <1>2, <1>6, <1>7 DEF Waiting

\* The ways LossExplained lets a key disappear.
Excused(k) ==
  \/ k \in ToSet(taken')
  \/ RingFull(bda) \/ RingFull(bda)'
  \/ Overtaken /\ k = bda.shadow

\* Each key that waits does so after the step, or is excused.
NoneLost == \A k \in Waiting(bda, queue) : k \in Waiting(bda', queue') \/ Excused(k)

LEMMA AreaTypes ==
  ASSUME OrderInv
  PROVE  /\ bda \in Bda /\ queue \in Seq(Byte) /\ taken \in Seq(Keys)
         /\ frames \in Seq(Frame)
         /\ NoKey \notin Typed /\ Typed \subseteq Keys
BY DEF OrderInv, SeqInv, Ordered, NoKey, Typed, Keys

\* A key that waits still waits once the shadowed key is flushed.
LEMMA FlushedWaits ==
  ASSUME OrderInv, NEW k \in Waiting(bda, queue), ~Excused(k)
  PROVE  /\ FlushShadow(bda) \in Bda
         /\ k \in Typed /\ k \in ToSet(queue) \cup ToSet(FlushShadow(bda).ring)
<1>1. bda \in Bda /\ NoKey \notin Typed /\ ~RingFull(bda)
  BY AreaTypes DEF Excused
<1>2. k = bda.shadow => bda.tail = bda.seen
  BY <1>1 DEF Excused, Overtaken, Waiting
<1> QED BY <1>1, <1>2, FlushHolds DEF Waiting

LEMMA EmptyNotFull == ASSUME NEW b, b.ring = <<>> PROVE ~RingFull(b)
BY SizesAssumption DEF RingFull

LEMMA ReadKeyLoses == ASSUME OrderInv, ReadKey PROVE NoneLost
<1> SUFFICES ASSUME NEW k \in Waiting(bda, queue), ~Excused(k)
             PROVE  k \in Waiting(bda', queue')
  BY DEF NoneLost
<1> DEFINE f == FlushShadow(bda)
<1>1. f \in Bda /\ k \in Typed /\ k \in ToSet(queue) \cup ToSet(f.ring)
  BY FlushedWaits
<1>2. taken \in Seq(Keys) /\ queue \in Seq(Byte) /\ k \in Keys /\ k \notin ToSet(taken')
  BY <1>1, AreaTypes DEF Excused
<1>3. CASE /\ f.ring # <<>>
           /\ taken' = Append(taken, Head(f.ring))
           /\ bda' = [f EXCEPT !.ring = Tail(@)]
           /\ UNCHANGED queue
  <2> HIDE DEF f
  <2>1. f.ring \in Seq(Keys) /\ Head(f.ring) \in Keys /\ bda'.ring = Tail(f.ring)
    BY <1>1, <1>3 DEF Bda
  <2>2. k # Head(f.ring)
    BY <1>2, <1>3, <2>1, AppendHolds
  <2>3. k \in ToSet(f.ring) => k \in ToSet(Tail(f.ring))
    <3> SUFFICES ASSUME k \in ToSet(f.ring) PROVE k \in ToSet(Tail(f.ring))
      OBVIOUS
    <3>1. PICK i \in 1 .. Len(f.ring) : k = f.ring[i]
      BY <2>1 DEF ToSet
    <3>2. i # 1 /\ Len(f.ring) \in Nat
      BY <1>3, <2>1, <2>2, <3>1
    <3>3. /\ i - 1 \in 1 .. Len(Tail(f.ring)) /\ Tail(f.ring) \in Seq(Keys)
          /\ Tail(f.ring)[i - 1] = k
      BY <1>3, <2>1, <3>1, <3>2
    <3> QED BY <3>3 DEF ToSet
  <2> QED BY <1>1, <1>3, <2>1, <2>3 DEF Waiting
<1>4. ASSUME f.ring = <<>>, NEW n \in Fetches(queue), queue' = Rest(queue, n),
             taken' = taken \o Store(f, Fetched(queue, n)).ring
      PROVE  k \in Waiting(bda', queue')
  <2> DEFINE x == Fetched(queue, n)
             b == Store(f, x)
  <2>1. k \in ToSet(queue)
    BY <1>1, <1>4 DEF ToSet
  <2>2. k \in ToSet(queue') \/ k = x
    BY <1>1, <1>2, <1>4, <2>1, RestHolds
  <2>3. k # x
    <3> SUFFICES ASSUME k = x PROVE FALSE
      OBVIOUS
    <3>1. x \in Keys \cup {NoKey} /\ ~RingFull(f)
      BY <1>2, <1>4, RestHolds, EmptyNotFull
    <3>2. b \in Bda /\ k \in ToSet(b.ring) /\ taken' = taken \o b.ring
      <4> HIDE DEF f, x
      <4> QED BY <1>1, <1>4, <3>1, StoreHolds DEF x
    <3> HIDE DEF b
    <3>3. b.ring \in Seq(Keys)
      BY <3>2 DEF Bda
    <3>4. PICK i \in 1 .. Len(b.ring) : k = b.ring[i]
      BY <3>2, <3>3 DEF ToSet
    <3>5. Len(taken) + i \in DOMAIN taken' /\ taken'[Len(taken) + i] = k
      BY <1>2, <3>2, <3>3, <3>4, ConcatProperties
    <3> QED BY <1>2, <3>5 DEF ToSet
  <2> QED BY <1>1, <2>2, <2>3 DEF Waiting
<1> QED BY <1>3, <1>4 DEF ReadKey, Rest, f

LEMMA ProgramLoses == ASSUME OrderInv, Program PROVE NoneLost
<1>1. bda \in Bda /\ queue \in Seq(Byte)
  BY AreaTypes
<1>2. CASE ReadKey
  BY <1>2, ReadKeyLoses
<1>3. CASE CheckKey
  <2> SUFFICES ASSUME NEW k \in Waiting(bda, queue), ~Excused(k)
               PROVE  k \in Waiting(bda', queue')
    BY DEF NoneLost
  <2> DEFINE f == FlushShadow(bda)
  <2>1. f \in Bda /\ k \in Waiting(f, queue)
    BY FlushedWaits DEF Waiting
  <2>2. CASE f.ring = <<>> /\ FetchAndStore(f)
    <3> HIDE DEF f
    <3> QED BY <1>1, <2>1, <2>2, FetchHolds, EmptyNotFull
  <2>3. CASE bda' = f /\ UNCHANGED queue
    BY <2>1, <2>3
  <2> QED BY <1>3, <2>2, <2>3 DEF CheckKey, LookForKey
<1>4. CASE ShiftFlags
  <2>1. bda' = Stored(bda, queue) /\ queue' = <<>>
    BY <1>4 DEF ShiftFlags, Stored
  <2>2. CASE RingFull(bda')
    BY <2>2 DEF NoneLost, Excused, RingFull
  <2>3. CASE ~RingFull(bda')
    BY <1>1, <2>1, <2>3, ShiftHolds DEF NoneLost
  <2> QED BY <2>2, <2>3
<1>5. CASE StuffKey
  <2>1. Stuffed \in Keys \cup {NoKey}
    BY DEF Keys
  <2>2. bda'.shadow = bda.shadow /\ ToSet(bda.ring) \subseteq ToSet(bda'.ring)
    BY <1>1, <1>5, <2>1, StoreHolds DEF StuffKey
  <2> QED BY <1>5, <2>2 DEF StuffKey, NoneLost, Waiting
<1>6. CASE UNCHANGED <<bda, queue>>
  BY <1>6 DEF NoneLost
<1> QED BY <1>2, <1>3, <1>4, <1>5, <1>6
        DEF Program, Halt, SetVector, OtherInstruction

LEMMA ReadPortLoses == ASSUME OrderInv, ReadPort PROVE NoneLost
<1> SUFFICES ASSUME NEW k \in Waiting(bda, queue), ~Excused(k)
             PROVE  k \in Waiting(bda', queue')
  BY DEF NoneLost
<1> DEFINE f == FlushShadow(bda)
           x == IF queue = <<>> THEN NoKey ELSE Head(queue)
<1>1. f \in Bda /\ k \in Typed /\ k \in ToSet(queue) \cup ToSet(f.ring)
  BY FlushedWaits
<1>2. queue \in Seq(Byte) /\ NoKey \notin Typed
  BY AreaTypes
<1>3. /\ bda' = Observe(bda, x)
      /\ queue' = IF queue = <<>> THEN <<>> ELSE Tail(queue)
  BY DEF ReadPort
<1>4. k \in ToSet(queue) => k = x \/ k \in ToSet(queue')
  <2> SUFFICES ASSUME k \in ToSet(queue), k # x PROVE k \in ToSet(queue')
    OBVIOUS
  <2>1. PICK i \in 1 .. Len(queue) : k = queue[i]
    BY <1>2 DEF ToSet
  <2>2. queue # <<>> /\ i # 1 /\ Len(queue) \in Nat
    BY <1>2, <2>1
  <2>3. queue' \in Seq(Byte) /\ i - 1 \in 1 .. Len(queue') /\ queue'[i - 1] = k
    BY <1>2, <1>3, <2>1, <2>2
  <2> QED BY <2>3 DEF ToSet
<1> HIDE DEF f, x
<1>5. bda' = IF x = NoKey THEN f ELSE [f EXCEPT !.shadow = x, !.seen = f.tail]
  BY <1>3 DEF Observe, f
<1>6. bda'.ring = f.ring /\ (x # NoKey => bda'.shadow = x)
  BY <1>1, <1>5 DEF Bda
<1> QED BY <1>1, <1>2, <1>4, <1>6 DEF Waiting

LEMMA HandlerLoses == ASSUME OrderInv, Handler PROVE NoneLost
<1>1. bda \in Bda /\ queue \in Seq(Byte) /\ frames \in Seq(Frame) /\ frames # <<>>
  BY AreaTypes DEF Handler
<1>2. CASE FillRing
  <2> DEFINE k == Top.key
  <2>1. k \in Keys \cup {NoKey}
    <3>1. Top \in Frame
      BY <1>1 DEF Top
    <3> QED BY <3>1 DEF Frame, Byte, Keys
  <2>2. bda' = Store(bda, k) /\ queue' = queue
    BY <1>2 DEF FillRing
  <2> HIDE DEF k
  <2>3. bda'.shadow = bda.shadow /\ ToSet(bda.ring) \subseteq ToSet(bda'.ring)
    BY <1>1, <2>1, <2>2, StoreHolds
  <2> QED BY <2>2, <2>3 DEF NoneLost, Waiting
<1>3. CASE FetchAndStore(bda)
  BY <1>1, <1>3, FetchHolds DEF NoneLost, Excused
<1>4. CASE UNCHANGED <<bda, queue>>
  BY <1>4 DEF NoneLost
<1> QED BY <1>2, <1>3, <1>4, ReadPortLoses DEF Handler, Chain, EndOfInterrupt, Return

LEMMA LossStep == OrderInv /\ [Next]_vars => NoneLost
<1> SUFFICES ASSUME OrderInv, [Next]_vars PROVE NoneLost
  OBVIOUS
<1>1. bda \in Bda /\ queue \in Seq(Byte)
  BY AreaTypes
<1>2. CASE UNCHANGED <<bda, queue>>
  BY <1>2 DEF NoneLost
<1>3. CASE KeyboardInterrupt
  BY <1>1, <1>2, <1>3, FetchHolds DEF KeyboardInterrupt, NoneLost, Excused
<1>4. CASE Press \/ OtherByte
  <2>1. PICK k \in Byte : queue' = Append(queue, k) /\ bda' = bda
    BY <1>4, SizesAssumption DEF Press, OtherByte, Byte, Typed, OrderInv, SeqInv
  <2>2. ToSet(queue) \subseteq ToSet(queue')
    <3>1. /\ Len(queue) \in Nat /\ DOMAIN queue' = 1 .. Len(queue) + 1
          /\ \A i \in 1 .. Len(queue) : i \in DOMAIN queue' /\ queue'[i] = queue[i]
      BY <1>1, <2>1, AppendProperties
    <3> QED BY <1>1, <3>1 DEF ToSet
  <2> QED BY <2>1, <2>2 DEF NoneLost, Waiting
<1> QED
  BY <1>2, <1>3, <1>4, ProgramLoses, HandlerLoses
     DEF Next, StepCpu, Offer, Take, TimerInterrupt, Execute, SetFlag, vars

(* A key that was pressed reaches the program unless the ring was full, or   *)
(* it was shadowed and another key moved the ring's tail before it was put   *)
(* there: for any number of keys, queue, ring and nesting.                   *)
THEOREM LossesExplained == Spec => LossExplained
<1>1. OrderInv /\ [Next]_vars =>
        [\A k \in InFlight \ InFlight' :
           \/ k \in ToSet(taken')
           \/ RingFull(bda) \/ RingFull(bda)'
           \/ Overtaken /\ k = bda.shadow]_vars
  BY LossStep DEF NoneLost, Excused, InFlight, Waiting
<1> QED BY OrderStart, OrderStep, <1>1, PTL DEF Spec, LossExplained
=============================================================================
