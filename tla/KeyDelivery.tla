----------------------------- MODULE KeyDelivery -----------------------------
(***************************************************************************)
(* How a key gets from the keyboard controller to a DOS program: stepCpu   *)
(* offers the timer and the keyboard interrupt to the CPU's single pending *)
(* slot, the CPU takes it between two instructions, and INT 09h - the BIOS *)
(* or a handler the guest hooked in - moves the key to the ring in the     *)
(* BIOS data area, where INT 16h finds it.  A key a guest handler reads    *)
(* from port 60h is "shadowed": kept aside, and put into the ring later    *)
(* unless the handler put it there itself.                                 *)
(* Keys are numbered in the order they are pressed; NoKey is a byte that   *)
(* makes no key (a release, a prefix, a modifier).  The controller's line  *)
(* is up while bytes wait (KeyboardController's LineHonest and LineUp).    *)
(***************************************************************************)
EXTENDS Integers, Sequences, FiniteSets, SequencesExt

CONSTANTS
  MaxKeys,     \* bound: keys pressed in one run
  MaxStuffed,  \* bound: keys the program stuffs into the ring itself
  QueueSize,   \* bound: bytes waiting in the controller
  RingSize,    \* slots of the ring in the BIOS data area (16)
  TimerSteps,  \* CPU steps between two looks at the timer (1024)
  MaxDepth     \* bound: nested guest handlers

NoKey   == 0
Stuffed == -1
Typed   == 1 .. MaxKeys
Keys    == Typed \cup {Stuffed}

Byte    == {NoKey} \cup Typed

ASSUME SizesAssumption ==
  /\ MaxKeys \in Nat /\ MaxStuffed \in Nat
  /\ QueueSize \in Nat /\ MaxDepth \in Nat
  /\ RingSize \in Nat \ {0, 1}
ASSUME TimerAssumption == TimerSteps \in Nat \ {0, 1}

VARIABLES
  queue,      \* bytes in the keyboard controller
  pressed,    \* history: keys pressed so far
  phase,      \* where stepCpu is: "poll" (the start), "take" (in step, before
              \* the instruction), "execute", "inhibited" (after CLI or STI)
  countdown,  \* m_timerUpdateCountdown
  slot,       \* s_pendingIRQ, s_pendingIRQIndex
  ints,       \* the CPU's interrupt flag
  halted,     \* s_halted
  inService,  \* m_keyboardIrqInService
  hooked,     \* the guest's own handler is in the INT 09h vector
  frames,     \* guest handlers running, the innermost last
  bda,        \* the ring, its tail, and the shadowed key with the tail it saw
  taken,      \* history: keys INT 16h gave to the program
  stuffed     \* history: keys stuffed so far

vars == <<queue, pressed, phase, countdown, slot, ints, halted, inService,
          hooked, frames, bda, taken, stuffed>>

\* A running handler: the key it read and has yet to deal with, whether it has
\* read port 60h, whether its interrupt is completed, and the saved flag.
Frame == [key : Byte, read : BOOLEAN, finished : BOOLEAN,
          ints : BOOLEAN]

\* The data area's types belong to the invariant that keeps the keys in order.
TypeOK ==
  /\ queue \in Seq(Byte)
  /\ pressed \in 0 .. MaxKeys
  /\ phase \in {"poll", "take", "execute", "inhibited"}
  /\ countdown \in 1 .. TimerSteps
  /\ slot \in {"free", "timer", "keyboard"}
  /\ ints \in BOOLEAN /\ halted \in BOOLEAN
  /\ inService \in BOOLEAN /\ hooked \in BOOLEAN
  /\ frames \in Seq(Frame)
  /\ stuffed \in 0 .. MaxStuffed

\* PcMachine::reset, prepareBootCpu: interrupts are off until DOS enables them.
Init ==
  /\ queue = <<>> /\ pressed = 0
  /\ phase = "poll"
  /\ countdown = 1
  /\ slot = "free"
  /\ ints = FALSE /\ halted = FALSE
  /\ inService = FALSE /\ hooked = FALSE
  /\ frames = <<>>
  /\ bda = [ring |-> <<>>, tail |-> 0, shadow |-> NoKey, seen |-> 0]
  /\ taken = <<>> /\ stuffed = 0

-----------------------------------------------------------------------------
(* The BIOS data area.                                                       *)
RingFull(b) == Len(b.ring) = RingSize - 1

\* storeBdaKey: NoKey and what does not fit are dropped.
Store(b, k) ==
  IF k = NoKey \/ RingFull(b) THEN b
  ELSE [b EXCEPT !.ring = Append(@, k), !.tail = (@ + 1) % RingSize]

\* flushShadowKey
FlushShadow_Always(b) == Store([b EXCEPT !.shadow = NoKey], b.shadow)
FlushShadow_Drops(b) == [b EXCEPT !.shadow = NoKey]

FlushShadow(b) ==
  LET cleared == [b EXCEPT !.shadow = NoKey]
  IN  IF b.tail = b.seen THEN Store(cleared, b.shadow) ELSE cleared

\* observeKeyboardScancode
Observe(b, k) ==
  LET flushed == FlushShadow(b)
  IN  IF k = NoKey THEN flushed
      ELSE [flushed EXCEPT !.shadow = k, !.seen = flushed.tail]

\* fetchKey reads n bytes: up to the first that makes a key, or all of them.
Fetches(q) ==
  {n \in 0 .. Len(q) :
     /\ \A i \in 1 .. n - 1 : q[i] = NoKey
     /\ n = Len(q) \/ (n > 0 /\ q[n] # NoKey)}
Fetched(q, n) == IF n = 0 THEN NoKey ELSE q[n]

\* fetchKey, storeBdaKey
FetchAndStore(b) ==
  \E n \in Fetches(queue) :
    /\ bda' = Store(b, Fetched(queue, n))
    /\ queue' = SubSeq(queue, n + 1, Len(queue))

-----------------------------------------------------------------------------
(* Interrupts.                                                               *)

\* INT 09h: the BIOS's own runs at once and leaves the interrupt flag alone; a
\* guest handler starts with interrupts off.
KeyboardInterrupt ==
  /\ halted' = FALSE
  /\ \/ ~hooked /\ FetchAndStore(bda) /\ UNCHANGED <<frames, ints>>
     \/ /\ hooked
        /\ frames' = Append(frames, [key |-> NoKey, read |-> FALSE,
                                    finished |-> FALSE, ints |-> ints])
        /\ ints' = FALSE
        /\ UNCHANGED <<queue, bda>>

\* INT 08h: the BIOS's own does not touch the PIC, a guest's ends with an EOI.
TimerInterrupt ==
  /\ halted' = FALSE
  /\ inService' \in {inService, FALSE}
  /\ UNCHANGED <<queue, ints, frames, bda>>

\* serviceTimerInterrupt: every TimerSteps steps, if the period is over and
\* IRQ0 not masked; a tick is lost when the slot is taken.
SlotsAfterTimer ==
  IF countdown = 1 /\ slot = "free" THEN {"free", "timer"} ELSE {slot}

NextLook_EveryStep == 1
NextLook == IF countdown = 1 THEN TimerSteps ELSE countdown - 1

\* The first half of stepCpu.
Offer ==
  /\ phase = "poll"
  /\ phase' = "take"
  /\ countdown' = NextLook
  /\ \E s \in SlotsAfterTimer :
       \/ /\ queue = <<>> \/ inService \/ (~halted /\ s # "free")
          /\ slot' = s
          /\ UNCHANGED <<queue, ints, halted, inService, frames, bda>>
       \/ /\ queue # <<>> /\ ~inService /\ halted
          /\ slot' = s
          /\ inService' = hooked
          /\ KeyboardInterrupt
       \/ /\ queue # <<>> /\ ~inService /\ ~halted /\ s = "free"
          /\ slot' = "keyboard"
          /\ inService' = hooked
          /\ UNCHANGED <<queue, ints, halted, frames, bda>>
  /\ UNCHANGED <<pressed, hooked, taken, stuffed>>

\* PcI8086::step takes the pending interrupt before its instruction.
Take ==
  /\ phase = "take"
  /\ phase' = "execute"
  /\ \/ /\ ~ints \/ slot = "free"
        /\ UNCHANGED <<queue, slot, ints, halted, inService, frames, bda>>
     \/ /\ ints /\ slot = "timer"
        /\ TimerInterrupt
        /\ slot' = "free"
     \/ /\ ints /\ slot = "keyboard"
        /\ KeyboardInterrupt
        /\ slot' = "free"
        /\ UNCHANGED inService
  /\ UNCHANGED <<pressed, countdown, hooked, taken, stuffed>>

-----------------------------------------------------------------------------
(* Instructions of the program, outside any handler.                         *)

\* peekBdaKey, and a fetch when the ring is empty.
LookForKey ==
  LET flushed == FlushShadow(bda)
  IN  \/ flushed.ring = <<>> /\ FetchAndStore(flushed)
      \/ flushed.ring # <<>> /\ bda' = flushed /\ UNCHANGED queue

\* INT 16h, AH=01h and 11h
CheckKey ==
  /\ LookForKey
  /\ UNCHANGED <<ints, halted, inService, hooked, taken, stuffed>>

\* AH=00h and 10h: with no key the INT instruction runs again.
ReadKey ==
  /\ \/ /\ FlushShadow(bda).ring # <<>>
        /\ taken' = Append(taken, Head(FlushShadow(bda).ring))
        /\ bda' = [FlushShadow(bda) EXCEPT !.ring = Tail(@)]
        /\ UNCHANGED queue
     \/ /\ FlushShadow(bda).ring = <<>>
        /\ \E n \in Fetches(queue) :
             LET b == Store(FlushShadow(bda), Fetched(queue, n))
             IN  /\ queue' = SubSeq(queue, n + 1, Len(queue))
                 /\ bda' = [b EXCEPT !.ring = <<>>]
                 /\ taken' = taken \o b.ring
  /\ UNCHANGED <<ints, halted, inService, hooked, stuffed>>

\* AH=02h and 12h move every waiting key to the ring.
ShiftFlags ==
  /\ bda' = FoldLeft(Store, bda, queue)
  /\ queue' = <<>>
  /\ UNCHANGED <<ints, halted, inService, hooked, taken, stuffed>>

\* AH=05h
StuffKey ==
  /\ stuffed < MaxStuffed
  /\ stuffed' = stuffed + 1
  /\ bda' = Store(bda, Stuffed)
  /\ UNCHANGED <<queue, ints, halted, inService, hooked, taken>>

Halt ==
  /\ halted' = TRUE
  /\ UNCHANGED <<queue, ints, inService, hooked, bda, taken, stuffed>>

\* Setting the INT 09h vector, to a handler of the guest's or back.
SetVector ==
  /\ hooked' = ~hooked
  /\ UNCHANGED <<queue, ints, halted, inService, bda, taken, stuffed>>

OtherInstruction ==
  UNCHANGED <<queue, ints, halted, inService, hooked, bda, taken, stuffed>>

\* CLI and STI: the next instruction follows in the same step.  A handler only
\* enables interrupts.
SetFlag ==
  /\ phase = "execute" /\ ~halted
  /\ phase' = "inhibited"
  /\ ints' = ~ints
  /\ frames # <<>> => ints' /\ Len(frames) < MaxDepth
  /\ UNCHANGED <<queue, pressed, countdown, slot, halted, inService, hooked,
                 frames, bda, taken, stuffed>>

\* A halted CPU executes its HLT again.
Program ==
  /\ frames = <<>>
  /\ IF halted THEN Halt
     ELSE ReadKey \/ CheckKey \/ ShiftFlags \/ StuffKey \/ Halt \/ SetVector
          \/ OtherInstruction
  /\ UNCHANGED frames

-----------------------------------------------------------------------------
(* Instructions of a guest's INT 09h handler.  It reads port 60h or chains   *)
(* to the BIOS, ends the interrupt itself or by chaining, and returns.  One  *)
(* that fills the ring itself does so before it enables interrupts.          *)
Top == frames[Len(frames)]
SetTop(f) == frames' = [frames EXCEPT ![Len(frames)] = f]

ReadPort ==
  LET k == IF queue = <<>> THEN NoKey ELSE Head(queue)
  IN  /\ ~Top.read
      /\ SetTop([Top EXCEPT !.read = TRUE, !.key = k])
      /\ bda' = Observe(bda, k)
      /\ queue' = IF queue = <<>> THEN <<>> ELSE Tail(queue)
      /\ UNCHANGED <<ints, inService>>

FillRing ==
  /\ Top.key # NoKey /\ ~Top.finished /\ ~ints
  /\ bda' = Store(bda, Top.key)
  /\ SetTop([Top EXCEPT !.key = NoKey])
  /\ UNCHANGED <<queue, ints, inService>>

\* The BIOS entry F000:F100, INT 79h: completeKeyboardIrqService.
Chain_NoCompletion ==
  /\ ~Top.finished
  /\ FetchAndStore(bda)
  /\ SetTop([Top EXCEPT !.key = NoKey, !.read = TRUE, !.finished = TRUE])
  /\ UNCHANGED <<inService, ints>>

Chain ==
  /\ ~Top.finished
  /\ FetchAndStore(bda)
  /\ inService' = FALSE
  /\ SetTop([Top EXCEPT !.key = NoKey, !.read = TRUE, !.finished = TRUE])
  /\ UNCHANGED ints

\* 20h to port 20h
EndOfInterrupt ==
  /\ ~Top.finished
  /\ inService' = FALSE
  /\ SetTop([Top EXCEPT !.finished = TRUE])
  /\ UNCHANGED <<queue, ints, bda>>

Return ==
  /\ Top.finished /\ Top.read
  /\ frames' = Front(frames)
  /\ ints' = Top.ints
  /\ UNCHANGED <<queue, inService, bda>>

Handler ==
  /\ frames # <<>>
  /\ ReadPort \/ FillRing \/ Chain \/ EndOfInterrupt \/ Return
  /\ UNCHANGED <<halted, hooked, taken, stuffed>>

Execute ==
  \/ SetFlag
  \/ /\ phase \in {"execute", "inhibited"}
     /\ phase' = "poll"
     /\ Program \/ Handler
     /\ UNCHANGED <<pressed, countdown, slot>>

-----------------------------------------------------------------------------
\* Reports reach the controller between two slices of the CPU task.
Press ==
  /\ phase = "poll"
  /\ pressed < MaxKeys /\ Len(queue) < QueueSize
  /\ pressed' = pressed + 1
  /\ queue' = Append(queue, pressed')
  /\ UNCHANGED <<phase, countdown, slot, ints, halted, inService, hooked,
                 frames, bda, taken, stuffed>>

OtherByte ==
  /\ phase = "poll"
  /\ Len(queue) < QueueSize
  /\ queue' = Append(queue, NoKey)
  /\ UNCHANGED <<pressed, phase, countdown, slot, ints, halted, inService,
                 hooked, frames, bda, taken, stuffed>>

StepCpu == Offer \/ Take \/ Execute
Next == StepCpu \/ Press \/ OtherByte

Spec     == Init /\ [][Next]_vars
FairSpec == Spec /\ WF_vars(StepCpu)

-----------------------------------------------------------------------------
\* The typed keys of s come in the order they were pressed, none twice.
Increasing(s) ==
  \A i, j \in DOMAIN s :
    i < j /\ s[i] \in Typed /\ s[j] \in Typed => s[i] < s[j]

(* The program gets keys in the order they were pressed and none twice,      *)
(* whether the BIOS, a chaining handler or one that fills the ring itself    *)
(* brought them there (observeKeyboardScancode cannot tell which).           *)
KeysInOrder == Increasing(taken \o bda.ring)

\* Keys on their way to the program.
InFlight == Typed \cap (ToSet(queue) \cup ToSet(bda.ring) \cup {bda.shadow})
Overtaken == bda.shadow # NoKey /\ bda.tail # bda.seen

(* A key disappears only when the ring is full, or when it was shadowed and   *)
(* another key moved the ring's tail before it was put there.                *)
LossExplained ==
  [][\A k \in InFlight \ InFlight' :
       \/ k \in ToSet(taken')
       \/ RingFull(bda) \/ RingFull(bda)'
       \/ Overtaken /\ k = bda.shadow]_vars

(* observeKeyboardScancode (pc_bios.cpp): "This gives exactly one BDA entry  *)
(* per key for both handler styles" - a key is lost only to a full ring.     *)
OneEntryPerKey ==
  [][\A k \in InFlight \ InFlight' :
       k \in ToSet(taken') \/ RingFull(bda) \/ RingFull(bda)']_vars

\* Someone is going to end the keyboard interrupt that is in service.
Owned ==
  inService => slot = "keyboard" \/ \E i \in DOMAIN frames : ~frames[i].finished

(* The keyboard interrupt stays in service with nobody to end it only when    *)
(* the guest gives the vector back between the CPU's acceptance and delivery. *)
OrphanedByVectorOnly ==
  [][Owned /\ ~Owned' => slot = "keyboard" /\ ~hooked]_vars

(* While the program and its handlers keep enabling interrupts and none is    *)
(* orphaned, every waiting key leaves the controller: the timer, which shares *)
(* the CPU's single slot, cannot starve it, and a halted CPU wakes up.       *)
KeyboardServed ==
  <>[](Owned /\ (ints \/ frames # <<>>))
    => \A k \in Typed : k \in ToSet(queue) ~> k \notin ToSet(queue)
=============================================================================
