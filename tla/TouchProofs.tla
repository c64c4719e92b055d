----------------------------- MODULE TouchProofs ----------------------------
(***************************************************************************)
(* What becomes of a touch.  The screenshot frame has one user at a time,  *)
(* taps leave no key pressed, and a touch is keys or mouse, for every      *)
(* ring, timing and set of pictures.  Below, what holds of the mouse       *)
(* driver it reaches, for any number of buttons and any calls.             *)
(***************************************************************************)
EXTENDS TouchTask, MouseEvents, SequenceTheorems, TLAPS

-----------------------------------------------------------------------------
(* The busy flag is a token.  It is in one place at a time, and only its     *)
(* holder uses the frame.                                                    *)

Copying == display \in {"top", "bottom", "publish", "reject"}
Dumping == dumper # "wait"

OneToken ==
  /\ touch = "request" => busy /\ ~requested /\ ~Copying /\ ~ready /\ ~Dumping
  /\ requested => busy /\ ~Copying /\ ~ready /\ ~Dumping
  /\ Copying => busy /\ ~ready /\ ~Dumping
  /\ ready => busy /\ ~Dumping
  /\ Dumping => busy

IsWhole(f) == f.top = f.bottom /\ f.bottom = f.size /\ f.top \in Pictures

\* How far the copy and the dump have come.
FrameProgress ==
  /\ frame \in Copy /\ sent \in Copy
  /\ display \in {"top", "bottom"} => source \in Pictures
  /\ display = "bottom" => frame.top = source
  /\ display = "publish" \/ ready \/ Dumping => IsWhole(frame)
  /\ dumper \in {"top", "bottom", "release"} => sent.size = frame.size
  /\ dumper \in {"bottom", "release"} => sent.top = frame.top
  /\ dumper = "release" => sent.bottom = frame.bottom

ShotInv ==
  /\ requested \in BOOLEAN /\ ready \in BOOLEAN /\ busy \in BOOLEAN
  /\ source \in Shown
  /\ OneToken
  /\ FrameProgress

LEMMA ShotInvInit == Init => ShotInv
<1> SUFFICES ASSUME ShotInit PROVE ShotInv
  BY DEF Init
<1>1. Blank \in Copy /\ NoPicture \in Shown
  BY DEF Blank, Copy, Shown
<1>2. /\ requested = FALSE /\ ready = FALSE /\ busy = FALSE
      /\ source = NoPicture /\ frame = Blank /\ sent = Blank
      /\ display = "draw" /\ dumper = "wait" /\ touch = "poll"
  BY DEF ShotInit
<1>3. OneToken
  BY <1>2 DEF OneToken, Copying, Dumping
<1>4. FrameProgress
  BY <1>1, <1>2 DEF FrameProgress, Dumping
<1> QED BY <1>1, <1>2, <1>3, <1>4 DEF ShotInv

LEMMA DisplayInv == ShotInv /\ DisplayStep => ShotInv'
<1> SUFFICES ASSUME ShotInv, DisplayStep PROVE ShotInv'
  OBVIOUS
<1> USE PicturesAssumption
    DEF ShotInv, OneToken, FrameProgress, Copying, Dumping, IsWhole, DisplayStep
<1>1. CASE Draw
  BY <1>1 DEF Draw, Shown
<1>2. CASE TakeRequest
  BY <1>2 DEF TakeRequest, Shown
<1>3. CASE CopyTop
  BY <1>3 DEF CopyTop, Copy, Shown
<1>4. CASE CopyBottom
  BY <1>4 DEF CopyBottom, Copy, Shown
<1>5. CASE Publish
  BY <1>5 DEF Publish
<1>6. CASE Reject
  BY <1>6 DEF Reject
<1> QED BY <1>1, <1>2, <1>3, <1>4, <1>5, <1>6

LEMMA DumpInv == ShotInv /\ DumpStep => ShotInv'
<1> SUFFICES ASSUME ShotInv, DumpStep PROVE ShotInv'
  OBVIOUS
<1> USE DEF ShotInv, OneToken, FrameProgress, Copying, Dumping, IsWhole, DumpStep
<1>1. CASE TakeFrame
  BY <1>1 DEF TakeFrame
<1>2. CASE Read("size", "top", "size")
  BY <1>2 DEF Read, Copy
<1>3. CASE Read("top", "bottom", "top")
  BY <1>3 DEF Read, Copy
<1>4. CASE Read("bottom", "release", "bottom")
  BY <1>4 DEF Read, Copy
<1>5. CASE Release
  BY <1>5 DEF Release, Copy, Blank, Shown
<1> QED BY <1>1, <1>2, <1>3, <1>4, <1>5

LEMMA GestureInv == \A c \in BOOLEAN : ShotInv /\ Gesture(c) => ShotInv'
<1> SUFFICES ASSUME NEW c \in BOOLEAN, ShotInv, Gesture(c) PROVE ShotInv'
  OBVIOUS
<1> USE DEF ShotInv, OneToken, FrameProgress, Copying, Dumping, IsWhole
<1>1. /\ touch = "poll"
      /\ \/ touch' = "locked" /\ UNCHANGED busy
         \/ Claim
      /\ UNCHANGED <<requested, ready, source, frame, sent, display, dumper>>
  BY DEF Gesture
<1>2. CASE Claim
  BY <1>1, <1>2 DEF Claim
<1>3. CASE touch' = "locked" /\ UNCHANGED busy
  BY <1>1, <1>3
<1> QED BY <1>1, <1>2, <1>3

LEMMA ShotInvStep == ShotInv /\ [Next]_vars => ShotInv'
<1> SUFFICES ASSUME ShotInv, [Next]_vars PROVE ShotInv'
  OBVIOUS
<1>1. CASE Poll
  BY <1>1, GestureInv DEF Poll
<1>2. CASE StoreRequest
  BY <1>2 DEF StoreRequest, ShotInv, OneToken, FrameProgress, Copying, Dumping, IsWhole
<1>3. CASE Locked
  BY <1>3 DEF Locked, ShotInv, OneToken, FrameProgress, Copying, Dumping, IsWhole
<1>4. CASE DisplayTask
  BY <1>4, DisplayInv DEF DisplayTask
<1>5. CASE DumpTask
  BY <1>5, DumpInv DEF DumpTask
<1>6. CASE UsbTask \/ UNCHANGED vars
  BY <1>6 DEF UsbTask, vars, shotVars, ShotInv, OneToken, FrameProgress, Copying,
              Dumping, IsWhole
<1> QED BY <1>1, <1>2, <1>3, <1>4, <1>5, <1>6 DEF Next, TouchStep

(* A screenshot is one picture with its own size: the copy and the dump      *)
(* never overlap, whatever the three tasks' speeds.                          *)
THEOREM ScreenshotIsWhole == Spec => []WholeFrame
<1>1. ShotInv => WholeFrame
  <2> SUFFICES ASSUME ShotInv, dumper = "release"
               PROVE  \E p \in Pictures : sent = [top |-> p, bottom |-> p, size |-> p]
    BY DEF WholeFrame
  <2>1. sent \in Copy /\ IsWhole(sent)
    BY DEF ShotInv, FrameProgress, Dumping, IsWhole
  <2>2. sent = [top |-> sent.top, bottom |-> sent.top, size |-> sent.top]
    BY <2>1 DEF Copy, IsWhole
  <2> QED BY <2>1, <2>2 DEF IsWhole
<1> QED BY <1>1, ShotInvInit, ShotInvStep, PTL DEF Spec

-----------------------------------------------------------------------------
(* Between taps no key is held that the USB keyboard does not hold: each     *)
(* release and each report replaces all the controller knew.                 *)
THEOREM TapsLeaveNothingPressed == Spec => []IdleReleases
<1>1. Init => IdleReleases
  BY DEF Init, KeyInit, IdleReleases
<1>2. IdleReleases /\ [Next]_vars => IdleReleases'
  <2> SUFFICES ASSUME IdleReleases, [Next]_vars PROVE IdleReleases'
    OBVIOUS
  <2>1. CASE Locked
    <3> PICK dt \in 1 .. MaxLate : Service(dt)
      BY <2>1 DEF Locked
    <3>1. CASE ReleaseTap(dt)
      BY <3>1 DEF ReleaseTap, IdleReleases
    <3>2. CASE PressTap(dt)
      BY <3>2 DEF PressTap, IdleReleases
    <3>3. CASE NoTap(dt)
      BY <3>3 DEF NoTap, Service, IdleReleases
    <3> QED BY <3>1, <3>2, <3>3 DEF Service
  <2>2. CASE UsbReport
    BY <2>2 DEF UsbReport, IdleReleases
  <2>3. CASE UNCHANGED keyVars
    BY <2>3 DEF keyVars, IdleReleases
  <2> QED BY <2>1, <2>2, <2>3
          DEF Next, TouchStep, Poll, DisplayTask, DumpTask, UsbTask, vars
<1> QED BY <1>1, <1>2, PTL DEF Spec

-----------------------------------------------------------------------------
(* While a touch that typed has no excuse it is still on the picture, and    *)
(* then the flag that keeps the button up is set.                            *)
KeysInv ==
  /\ touched \in [typed : BOOLEAN, excused : BOOLEAN]
  /\ ~wasPressed => ~touched.typed \/ touched.excused
  /\ touched.typed /\ ~touched.excused => suppress /\ ~button

LEMMA PointKeys == \A r : KeysInv /\ Point(r)
                       /\ wasPressed' = (point \notin {"none", "corner"}) => KeysInv'
<1> SUFFICES ASSUME NEW r, KeysInv, Point(r),
                    wasPressed' = (point \notin {"none", "corner"})
             PROVE  KeysInv'
  OBVIOUS
<1> USE DEF KeysInv
<1>1. CASE point \in OnPicture /\ ~wasPressed /\ Inject(r) /\ button' = Button(suppress')
  <2>1. CASE point = "title" /\ suppress' = TRUE
             /\ touched' = [touched EXCEPT !.typed = @ \/ Len(ring') > Len(r)]
    BY <1>1, <2>1 DEF Button
  <2>2. CASE /\ point = "item"
             /\ \E taps \in ItemTaps :
                  /\ suppress' = Fits(r, taps)
                  /\ touched' = [typed   |-> touched.typed \/ Len(ring') > Len(r),
                                 excused |-> touched.excused \/ ~Fits(r, taps)]
    BY <1>1, <2>2 DEF Button
  <2>3. CASE point = "plain" /\ UNCHANGED touched
    BY <1>1, <2>3 DEF Button
  <2> QED BY <1>1, <2>1, <2>2, <2>3 DEF Inject
<1>2. CASE /\ point \in OnPicture /\ wasPressed
           /\ button' = Button(suppress) /\ UNCHANGED <<suppress, touched>>
  BY <1>2 DEF Button, OnPicture
<1>3. CASE /\ point \notin OnPicture
           /\ suppress' = FALSE /\ button' = FALSE
           /\ touched' = IF point = "none" THEN Fresh
                         ELSE [touched EXCEPT !.excused = @ \/ touched.typed]
  BY <1>3 DEF Fresh
<1> QED BY <1>1, <1>2, <1>3 DEF Point

(* A touch that typed its keys in full clicks nothing while it stays on the  *)
(* picture, for every ring size, menu and timing.                            *)
THEOREM TouchEitherTypesOrClicks == Spec => []TouchIsKeysOrMouse
<1>1. Init => KeysInv
  BY DEF Init, KeysInv, Fresh
<1>2. KeysInv /\ [Next]_vars => KeysInv'
  <2> SUFFICES ASSUME KeysInv, [Next]_vars PROVE KeysInv'
    OBVIOUS
  <2>1. CASE Locked
    BY <2>1, PointKeys DEF Locked
  <2>2. CASE UNCHANGED <<wasPressed, suppress, button, touched>>
    BY <2>2 DEF KeysInv
  <2> QED BY <2>1, <2>2
          DEF Next, TouchStep, Poll, DisplayTask, DumpTask, UsbTask, vars, mouseVars
<1>3. KeysInv => TouchIsKeysOrMouse
  BY DEF KeysInv, TouchIsKeysOrMouse
<1> QED BY <1>1, <1>2, <1>3, PTL DEF Spec
-----------------------------------------------------------------------------
(* The types, of which the ring's length is the one the code could miss.     *)

LEMMA ShotTypesStep == ShotTypeOK /\ [Next]_vars => ShotTypeOK'
<1> SUFFICES ASSUME ShotTypeOK, [Next]_vars PROVE ShotTypeOK'
  OBVIOUS
<1> USE PicturesAssumption, HoldAssumption DEF ShotTypeOK
<1>1. CASE Poll
  <2>1. Gesture(point' = "corner")
    BY <1>1 DEF Poll
  <2>2. held' \in 0 .. NotArmed
    BY <2>1 DEF Gesture, NotArmed
  <2>3. touch' \in {"poll", "request", "locked"}
    BY <2>1 DEF Gesture, Claim
  <2>4. busy' \in BOOLEAN
    BY <2>1 DEF Gesture, Claim
  <2>5. fired' \in BOOLEAN
    BY <2>1 DEF Gesture, Claim
  <2> QED BY <2>1, <2>2, <2>3, <2>4, <2>5 DEF Gesture
<1>2. CASE StoreRequest
  BY <1>2 DEF StoreRequest
<1>3. CASE Locked
  BY <1>3 DEF Locked
<1>4. CASE DisplayTask
  <2> USE <1>4 DEF DisplayTask, DisplayStep
  <2>1. CASE Draw
    BY <2>1 DEF Draw, Shown
  <2>2. CASE TakeRequest
    BY <2>2 DEF TakeRequest
  <2>3. CASE CopyTop
    BY <2>3 DEF CopyTop, Copy
  <2>4. CASE CopyBottom
    BY <2>4 DEF CopyBottom, Copy
  <2>5. CASE Publish \/ Reject
    BY <2>5 DEF Publish, Reject
  <2> QED BY <2>1, <2>2, <2>3, <2>4, <2>5
<1>5. CASE DumpTask
  <2>1. CASE TakeFrame
    BY <1>5, <2>1 DEF DumpTask, DumpStep, TakeFrame
  <2>2. CASE \/ Read("size", "top", "size") \/ Read("top", "bottom", "top")
             \/ Read("bottom", "release", "bottom")
    BY <1>5, <2>2 DEF DumpTask, DumpStep, Read, Copy
  <2>3. CASE Release
    BY <1>5, <2>3 DEF DumpTask, DumpStep, Release, Copy, Blank, Shown
  <2> QED BY <1>5, <2>1, <2>2, <2>3 DEF DumpTask, DumpStep
<1>6. CASE UsbTask \/ UNCHANGED vars
  BY <1>6 DEF UsbTask, vars, shotVars
<1> QED BY <1>1, <1>2, <1>3, <1>4, <1>5, <1>6 DEF Next, TouchStep

Waiting(r) == r \in Seq(Taps) /\ Len(r) <= Capacity

\* What does not fit is cut off, so the ring never overruns its arrays.
LEMMA QueuedFits ==
  ASSUME NEW r, Waiting(r), NEW taps \in Seq(Taps)
  PROVE  Waiting(Queued(r, taps))
<1> USE CapacityAssumption DEF Waiting
<1>1. CASE Fits(r, taps)
  BY <1>1 DEF Queued, Fits
<1>2. CASE ~Fits(r, taps)
  <2>1. Capacity - Len(r) \in 0 .. Len(taps)
    BY <1>2 DEF Fits
  <2>2. /\ SubSeq(taps, 1, Capacity - Len(r)) \in Seq(Taps)
        /\ Len(SubSeq(taps, 1, Capacity - Len(r))) = Capacity - Len(r)
    BY <2>1, SubSeqProperties
  <2> QED BY <1>2, <2>1, <2>2 DEF Queued
<1> QED BY <1>1, <1>2

LEMMA KeyTypesStep == KeyTypeOK /\ [Next]_vars => KeyTypeOK'
<1> SUFFICES ASSUME KeyTypeOK, [Next]_vars PROVE KeyTypeOK'
  OBVIOUS
<1> USE KeyTimesAssumption, NoKeysAssumption DEF KeyTypeOK
<1>1. CASE Locked
  <2> PICK dt \in 1 .. MaxLate : Service(dt) /\ Point(RingAfter(dt))
    BY <1>1 DEF Locked
  <2>1. Waiting(RingAfter(dt)) /\ (PressDue(dt) => Head(ring) \in Taps)
    <3>1. ring # <<>> => /\ Head(ring) \in Taps /\ Tail(ring) \in Seq(Taps)
                         /\ Len(Tail(ring)) = Len(ring) - 1
      BY HeadTailProperties
    <3>2. Len(ring) \in Nat /\ Capacity \in Nat
      BY CapacityAssumption
    <3> QED BY <3>1, <3>2 DEF RingAfter, PressDue, Waiting
  <2>2. Waiting(ring')
    <3>1. CASE ring' = RingAfter(dt)
      BY <2>1, <3>1
    <3>2. CASE ring' = Queued(RingAfter(dt), <<BarTap>>)
      <4>1. <<BarTap>> \in Seq(Taps)
        BY TapsAssumption
      <4> QED BY <2>1, <3>2, <4>1, QueuedFits
    <3>3. CASE \E taps \in ItemTaps : ring' = Queued(RingAfter(dt), taps)
      BY <2>1, <3>3, QueuedFits, TapsAssumption
    <3> QED BY <3>1, <3>2, <3>3 DEF Point, Inject
  <2>3. Elapse(releaseIn, dt) \in 0 .. HoldTime /\ Elapse(pressIn, dt) \in 0 .. GapTime
    BY DEF Elapse
  <2>4. /\ active' \in BOOLEAN /\ releaseIn' \in 0 .. HoldTime
        /\ pressIn' \in 0 .. GapTime /\ reported' \in UsbReports \cup Taps
    <3>1. /\ 0 \in 0 .. HoldTime /\ HoldTime \in 0 .. HoldTime
          /\ 0 \in 0 .. GapTime /\ GapTime \in 0 .. GapTime
      OBVIOUS
    <3>2. ReleaseTap(dt) => active' = FALSE /\ releaseIn' = 0
                            /\ pressIn' = GapTime /\ reported' = {}
      BY DEF ReleaseTap
    <3>3. PressTap(dt) => active' = TRUE /\ releaseIn' = HoldTime
                          /\ pressIn' = 0 /\ reported' \in Taps
      BY <2>1 DEF PressTap
    <3>4. NoTap(dt) => active' = active /\ releaseIn' \in 0 .. HoldTime
                       /\ pressIn' \in 0 .. GapTime /\ reported' = reported
      BY <2>3 DEF NoTap
    <3>5. active \in BOOLEAN /\ reported \in UsbReports \cup Taps /\ {} \in UsbReports
      OBVIOUS
    <3> QED BY ONLY <3>1, <3>2, <3>3, <3>4, <3>5, Service(dt) DEF Service
  <2> QED BY <2>2, <2>4 DEF Service, Waiting
<1>2. CASE UsbReport
  BY <1>2 DEF UsbReport
<1>3. CASE UNCHANGED keyVars
  BY <1>3 DEF keyVars
<1> QED BY <1>1, <1>2, <1>3
        DEF Next, TouchStep, Poll, DisplayTask, DumpTask, UsbTask, vars

LEMMA MouseTypesStep == TypeOK /\ [Next]_vars =>
  (/\ point' \in Points
   /\ wasPressed' \in BOOLEAN /\ suppress' \in BOOLEAN /\ button' \in BOOLEAN
   /\ touched' \in [typed : BOOLEAN, excused : BOOLEAN])
<1> SUFFICES ASSUME TypeOK, [Next]_vars
             PROVE  /\ point' \in Points
                    /\ wasPressed' \in BOOLEAN /\ suppress' \in BOOLEAN
                    /\ button' \in BOOLEAN
                    /\ touched' \in [typed : BOOLEAN, excused : BOOLEAN]
  OBVIOUS
<1> USE DEF TypeOK
<1>1. CASE Locked
  <2> PICK dt \in 1 .. MaxLate : Point(RingAfter(dt))
    BY <1>1 DEF Locked
  <2>1. suppress' \in BOOLEAN
    <3>1. \A r, taps : Fits(r, taps) \in BOOLEAN
      BY DEF Fits
    <3> QED BY <3>1 DEF Point, Inject
  <2>2. button' \in BOOLEAN
    BY <2>1 DEF Point, Button
  <2>3. touched' \in [typed : BOOLEAN, excused : BOOLEAN]
    <3>1. /\ Fresh \in [typed : BOOLEAN, excused : BOOLEAN]
          /\ \A t, e : [typed |-> touched.typed \/ t, excused |-> touched.excused \/ e]
                     \in [typed : BOOLEAN, excused : BOOLEAN]
      BY DEF Fresh
    <3>2. \A t : [touched EXCEPT !.typed = @ \/ t] \in [typed : BOOLEAN, excused : BOOLEAN]
      OBVIOUS
    <3>3. \A t : [touched EXCEPT !.excused = @ \/ t] \in [typed : BOOLEAN, excused : BOOLEAN]
      OBVIOUS
    <3> QED BY <3>1, <3>2, <3>3 DEF Point, Inject
  <2>4. wasPressed' \in BOOLEAN /\ point' \in Points
    BY <1>1 DEF Locked, Points
  <2> QED BY <2>1, <2>2, <2>3, <2>4
<1>2. CASE Poll
  BY <1>2 DEF Poll
<1>3. CASE UNCHANGED mouseVars
  BY <1>3 DEF mouseVars
<1> QED BY <1>1, <1>2, <1>3
        DEF Next, TouchStep, DisplayTask, DumpTask, UsbTask, vars

(* Type correctness of the tasks; the ring of taps never holds more than its *)
(* arrays have room for, whatever a touch types.                             *)
THEOREM TouchTypes == Spec => []TypeOK
<1>1. Init => TypeOK
  <2> SUFFICES ASSUME Init PROVE TypeOK
    OBVIOUS
  <2>1. ShotTypeOK
    <3>1. Blank \in Copy /\ NoPicture \in Shown /\ NotArmed \in 0 .. NotArmed
      BY HoldAssumption DEF Blank, Copy, Shown, NotArmed
    <3> QED BY <3>1 DEF Init, ShotInit, ShotTypeOK
  <2>2. KeyTypeOK
    <3>1. <<>> \in Seq(Taps) /\ Len(<<>>) <= Capacity
      BY CapacityAssumption
    <3>2. 0 \in 0 .. HoldTime /\ 0 \in 0 .. GapTime
      BY KeyTimesAssumption
    <3> QED BY <3>1, <3>2, NoKeysAssumption DEF Init, KeyInit, KeyTypeOK
  <2> QED BY <2>1, <2>2 DEF Init, TypeOK, Points, Fresh
<1>2. TypeOK /\ [Next]_vars => TypeOK'
  BY ShotTypesStep, KeyTypesStep, MouseTypesStep DEF TypeOK
<1> QED BY <1>1, <1>2, PTL DEF Spec

-----------------------------------------------------------------------------
(* The mouse driver.                                                         *)

LEMMA Limits == Top \in Nat /\ Lowest \in Int /\ Highest \in Int /\ Lowest <= 0 /\ 0 <= Highest
                  /\ 0 <= 639 /\ 639 <= Top
BY DEF Top, Lowest, Highest

LEMMA SaturatedType == \A n \in Int : Saturated(n) \in Motions
BY Limits DEF Saturated, Motions

LEMMA CountUpType ==
  \A n \in Counts : CountUp(n) \in Counts /\ (n # Top => CountUp(n) = n + 1)
BY Limits DEF CountUp, Counts

(* clampMousePosition leaves every other field alone.                        *)
LEMMA ClampedFacts ==
  ASSUME NEW m \in Mouse
  PROVE  /\ Clamped(m) \in Mouse
         /\ Clamped(m).min <= Clamped(m).x /\ Clamped(m).x <= Clamped(m).max
         /\ Clamped(m) = [m EXCEPT !.min = Clamped(m).min, !.x = Clamped(m).x]
<1> DEFINE low == IF m.min > m.max THEN m.max ELSE m.min
           near == IF m.x < low THEN low ELSE m.x
           x == IF near > m.max THEN m.max ELSE near
<1>1. m.x \in Coordinates /\ m.min \in Coordinates /\ m.max \in Coordinates
  BY DEF Mouse
<1>2. low \in Coordinates /\ low <= m.max /\ x \in Coordinates /\ low <= x /\ x <= m.max
  BY <1>1 DEF Coordinates
<1>3. Clamped(m) = [m EXCEPT !.min = low, !.x = x]
  BY DEF Clamped
<1> HIDE DEF low, x
<1>4. Clamped(m) \in Mouse
  BY <1>2, <1>3 DEF Mouse
<1>5. Clamped(m).min = low /\ Clamped(m).x = x /\ Clamped(m).max = m.max
  BY <1>3 DEF Mouse
<1> QED BY <1>2, <1>3, <1>4, <1>5

\* What an update does to the fields of m besides the motion.
UpdatedTo(m, after, buttons) ==
  /\ after \in Mouse
  /\ after.min <= after.x /\ after.x <= after.max
  /\ after.buttons = buttons
  /\ m.pending \subseteq after.pending
  /\ \A b \in buttons \ m.buttons : Pressed(b) \in after.pending
  /\ \A b \in m.buttons \ buttons : Released(b) \in after.pending
  /\ \A b \in Buttons :
       /\ after.presses[b] = IF b \in buttons \ m.buttons
                             THEN CountUp(m.presses[b]) ELSE m.presses[b]
       /\ after.releases[b] = IF b \in m.buttons \ buttons
                              THEN CountUp(m.releases[b]) ELSE m.releases[b]

LEMMA UpdatedFacts ==
  ASSUME NEW m \in Mouse, NEW x \in Coordinates, NEW buttons \in SUBSET Buttons,
         NEW record \in BOOLEAN
  PROVE  UpdatedTo(m, Updated(m, x, buttons, record), buttons)
<1> DEFINE moved == [m EXCEPT !.x = x]
           there == Clamped(moved)
           motion == IF record THEN Saturated(there.x - m.x) ELSE 0
           pressed == buttons \ m.buttons
           released == m.buttons \ buttons
           presses == [b \in Buttons |-> IF b \in pressed THEN CountUp(there.presses[b])
                                         ELSE there.presses[b]]
           releases == [b \in Buttons |-> IF b \in released THEN CountUp(there.releases[b])
                                          ELSE there.releases[b]]
           news == {e \in {Moved} : motion # 0} \cup {Pressed(b) : b \in pressed}
                     \cup {Released(b) : b \in released}
           after == Updated(m, x, buttons, record)
<1>1. moved \in Mouse
  BY DEF Mouse
<1>2. /\ there \in Mouse /\ there.min <= there.x /\ there.x <= there.max
      /\ there = [moved EXCEPT !.min = there.min, !.x = there.x]
  BY <1>1, ClampedFacts
<1>3. /\ there.presses = m.presses /\ there.releases = m.releases
      /\ there.pending = m.pending
  BY <1>2 DEF Mouse
<1>4. motion \in Int
  <2>1. m.x \in Int /\ there.x \in Int
    BY <1>2, Limits DEF Mouse, Coordinates
  <2>2. Saturated(there.x - m.x) \in Int
    BY <2>1, SaturatedType, Limits DEF Motions
  <2> QED BY <2>2
<1>5. presses \in [Buttons -> Counts] /\ releases \in [Buttons -> Counts]
  BY <1>2, CountUpType DEF Mouse
<1>6. there.pending \cup news \in SUBSET Events
  BY <1>2 DEF Mouse, Events, ButtonEvents
<1>7. /\ Saturated(there.motion + motion) \in Motions
      /\ Saturated(there.pendingMotion + motion) \in Motions
  <2>1. there.motion \in Int /\ there.pendingMotion \in Int
    BY <1>2, Limits DEF Mouse, Motions
  <2> QED BY <1>4, <2>1, SaturatedType
<1>8. after = [there EXCEPT
                 !.buttons = buttons, !.motion = Saturated(there.motion + motion),
                 !.pendingMotion = Saturated(there.pendingMotion + motion),
                 !.presses = presses, !.releases = releases,
                 !.pending = there.pending \cup news]
  BY Zenon, <1>2 DEF Updated, Mouse
<1> HIDE DEF there, motion, presses, releases, news, after
<1>9. after \in Mouse
  BY <1>2, <1>5, <1>6, <1>7, <1>8 DEF Mouse
<1>10. /\ after.min = there.min /\ after.x = there.x /\ after.max = there.max
       /\ after.buttons = buttons
       /\ after.pending = there.pending \cup news
       /\ after.presses = presses /\ after.releases = releases
  BY <1>2, <1>8 DEF Mouse
<1>11. /\ \A b \in buttons \ m.buttons : Pressed(b) \in news
       /\ \A b \in m.buttons \ buttons : Released(b) \in news
  BY DEF news
<1>12. \A b \in Buttons :
         /\ after.presses[b] = IF b \in buttons \ m.buttons
                               THEN CountUp(m.presses[b]) ELSE m.presses[b]
         /\ after.releases[b] = IF b \in m.buttons \ buttons
                                THEN CountUp(m.releases[b]) ELSE m.releases[b]
  BY <1>3, <1>10 DEF presses, releases
<1>13. UpdatedTo(m, after, buttons)
  BY <1>2, <1>3, <1>9, <1>10, <1>11, <1>12 DEF UpdatedTo
<1> QED BY <1>13 DEF after

(* The scaled point of a touch is inside the range.                          *)
LEMMA ScaledBound ==
  ASSUME NEW size \in Nat \ {0}, NEW at \in 0 .. size, NEW span \in Nat
  PROVE  (at * span) \div size \in 0 .. span
<1> DEFINE q == (at * span) \div size
<1>1. at * span \in Nat /\ at * span <= size * span
  OBVIOUS
<1>2. q \in Int /\ size * q <= at * span /\ at * span < size * q + size
  BY <1>1
<1>3. q >= 0
  <2>1. CASE q <= -1
    <3>1. size * q + size <= 0
      BY <1>2, <2>1
    <3> QED BY <1>1, <1>2, <3>1
  <2> QED BY <1>2, <2>1
<1>4. q <= span
  <2>1. CASE q >= span + 1
    <3>1. size * q >= size * span + size
      BY <1>2, <2>1
    <3> QED BY <1>1, <1>2, <3>1
  <2> QED BY <1>2, <2>1
<1> QED BY <1>2, <1>3, <1>4

\* Where the guest is wrong about a button, an event is waiting, asked for or not.
PictureDue ==
  \A b \in Buttons :
    /\ b \in mouse.buttons \ known => Pressed(b) \in mouse.pending
    /\ b \in known \ mouse.buttons => Released(b) \in mouse.pending

MouseInv == DriverTypeOK /\ PointerInRange /\ PictureDue /\ ClicksCounted

LEMMA InstalledType == Installed \in Mouse
BY Limits DEF Installed, Mouse, Coordinates, Counts, Motions

LEMMA MouseInit == DriverInit => MouseInv
<1> SUFFICES ASSUME DriverInit PROVE MouseInv
  OBVIOUS
<1>1. DriverTypeOK
  <2>1. mouse \in Mouse /\ known \subseteq Buttons /\ balance \in [Buttons -> Int]
    BY InstalledType DEF DriverInit
  <2>2. saturated \in BOOLEAN
    BY DEF DriverInit
  <2> QED BY <2>1, <2>2 DEF DriverTypeOK
<1>2. PointerInRange /\ PictureDue
  BY DEF DriverInit, Installed, PointerInRange, PictureDue
<1>3. ClicksCounted
  <2> SUFFICES ASSUME NEW b \in Buttons
               PROVE  balance[b] + mouse.presses[b] - mouse.releases[b]
                        = IF b \in mouse.buttons THEN 1 ELSE 0
    BY DEF ClicksCounted
  <2>1. balance[b] = 0
    BY DEF DriverInit
  <2>2. mouse.presses[b] = 0 /\ mouse.releases[b] = 0 /\ mouse.buttons = {}
    BY DEF DriverInit, Installed
  <2> QED BY <2>1, <2>2
<1> QED BY <1>1, <1>2, <1>3 DEF MouseInv

LEMMA UpdateInv ==
  ASSUME MouseInv, NEW x \in Coordinates, NEW buttons \in SUBSET Buttons,
         NEW record \in BOOLEAN, Update(Updated(mouse, x, buttons, record))
  PROVE  MouseInv'
<1> DEFINE after == Updated(mouse, x, buttons, record)
<1>1. mouse \in Mouse /\ mouse.buttons \in SUBSET Buttons /\ known \subseteq Buttons
  BY DEF MouseInv, DriverTypeOK, Mouse
<1>2. mouse' = after /\ UNCHANGED <<known, balance>> /\ saturated' = (saturated \/ AtLimit(mouse))
  BY DEF Update
<1>3. UpdatedTo(mouse, after, buttons)
  BY <1>1, UpdatedFacts
<1> HIDE DEF after
<1>4. DriverTypeOK'
  <2>1. mouse' \in Mouse /\ known' \subseteq Buttons /\ balance' \in [Buttons -> Int]
    BY <1>1, <1>2, <1>3 DEF MouseInv, DriverTypeOK, UpdatedTo
  <2>2. saturated' \in BOOLEAN
    BY Zenon, <1>2 DEF AtLimit, MouseInv, DriverTypeOK
  <2> QED BY <2>1, <2>2 DEF DriverTypeOK
<1>5. PointerInRange'
  BY <1>2, <1>3 DEF PointerInRange, UpdatedTo
<1>6. PictureDue'
  BY <1>1, <1>2, <1>3 DEF MouseInv, PictureDue, UpdatedTo
<1>7. ClicksCounted'
  <2> SUFFICES ASSUME ~saturated', NEW b \in Buttons
               PROVE  balance[b] + after.presses[b] - after.releases[b]
                        = IF b \in buttons THEN 1 ELSE 0
    BY <1>2, <1>3 DEF ClicksCounted, UpdatedTo
  <2>1. /\ balance[b] \in Int /\ mouse.presses[b] \in Counts /\ mouse.releases[b] \in Counts
        /\ mouse.presses[b] \in Int /\ mouse.releases[b] \in Int
    BY <1>1, Limits DEF MouseInv, DriverTypeOK, Mouse, Counts
  <2>2. ~saturated /\ mouse.presses[b] # Top /\ mouse.releases[b] # Top
    BY <1>2 DEF AtLimit
  <2>3. balance[b] + mouse.presses[b] - mouse.releases[b] = IF b \in mouse.buttons THEN 1 ELSE 0
    BY <2>2 DEF MouseInv, ClicksCounted
  <2>4. /\ CountUp(mouse.presses[b]) = mouse.presses[b] + 1
        /\ CountUp(mouse.releases[b]) = mouse.releases[b] + 1
    BY <2>1, <2>2, CountUpType
  <2> QED BY <1>3, <2>1, <2>3, <2>4 DEF UpdatedTo
<1> QED BY <1>4, <1>5, <1>6, <1>7 DEF MouseInv

LEMMA SetRangeInv == MouseInv /\ SetRange => MouseInv'
<1> SUFFICES ASSUME MouseInv, NEW lo \in Coordinates, NEW hi \in Coordinates,
                    mouse' = Clamped([mouse EXCEPT !.min = lo, !.max = hi]),
                    UNCHANGED <<known, balance, saturated>>
             PROVE  MouseInv'
  BY DEF SetRange
<1> DEFINE set == [mouse EXCEPT !.min = lo, !.max = hi]
<1>1. set \in Mouse /\ mouse \in Mouse
  BY DEF MouseInv, DriverTypeOK, Mouse
<1>2. /\ set.buttons = mouse.buttons /\ set.pending = mouse.pending
      /\ set.presses = mouse.presses /\ set.releases = mouse.releases
  BY <1>1 DEF Mouse
<1>3. /\ mouse' \in Mouse /\ mouse'.min <= mouse'.x /\ mouse'.x <= mouse'.max
      /\ mouse' = [set EXCEPT !.min = mouse'.min, !.x = mouse'.x]
  BY <1>1, ClampedFacts
<1> HIDE DEF set
<1>4. /\ mouse'.buttons = mouse.buttons /\ mouse'.pending = mouse.pending
      /\ mouse'.presses = mouse.presses /\ mouse'.releases = mouse.releases
  BY <1>1, <1>2, <1>3 DEF Mouse
<1>5. DriverTypeOK' /\ PointerInRange'
  BY <1>3 DEF MouseInv, DriverTypeOK, PointerInRange
<1>6. PictureDue' /\ ClicksCounted'
  BY <1>4 DEF MouseInv, PictureDue, ClicksCounted
<1> QED BY <1>5, <1>6 DEF MouseInv

LEMMA ReadPressesInv ==
  ASSUME MouseInv, NEW b \in Buttons, ReadPresses(b)
  PROVE  MouseInv'
<1>1. mouse \in Mouse /\ mouse.presses \in [Buttons -> Counts] /\ Counts \subseteq Int
  BY Limits DEF MouseInv, DriverTypeOK, Mouse, Counts
<1>2. /\ mouse'.presses = [mouse.presses EXCEPT ![b] = 0]
      /\ mouse'.releases = mouse.releases /\ mouse'.buttons = mouse.buttons
      /\ mouse'.x = mouse.x /\ mouse'.min = mouse.min /\ mouse'.max = mouse.max
      /\ mouse' \in Mouse
  <2>1. 0 \in Counts
    BY Limits DEF Counts
  <2> QED BY <1>1, <2>1 DEF ReadPresses, Mouse
<1>3. /\ balance' = [balance EXCEPT ![b] = balance[b] + mouse.presses[b]]
      /\ balance \in [Buttons -> Int]
  BY DEF ReadPresses, MouseInv, DriverTypeOK
<1>4. known' = mouse.buttons /\ saturated' = saturated
  BY DEF ReadPresses
<1>5. DriverTypeOK'
  <2>1. mouse.buttons \subseteq Buttons
    BY <1>1 DEF Mouse
  <2>2. balance' \in [Buttons -> Int]
    <3>1. balance[b] \in Int /\ mouse.presses[b] \in Int
      BY <1>1, <1>3
    <3>2. balance[b] + mouse.presses[b] \in Int
      BY <3>1
    <3> QED BY <1>3, <3>2
  <2>3. saturated' \in BOOLEAN
    BY <1>4 DEF MouseInv, DriverTypeOK
  <2> QED BY <1>2, <1>4, <2>1, <2>2, <2>3 DEF DriverTypeOK
<1>6. PointerInRange' /\ PictureDue'
  BY <1>2, <1>4 DEF MouseInv, PointerInRange, PictureDue
<1>7. ClicksCounted'
  BY <1>1, <1>2, <1>3, <1>4, Limits DEF MouseInv, ClicksCounted, Mouse, Counts
<1> QED BY <1>5, <1>6, <1>7 DEF MouseInv

LEMMA ReadReleasesInv ==
  ASSUME MouseInv, NEW b \in Buttons, ReadReleases(b)
  PROVE  MouseInv'
<1>1. mouse \in Mouse /\ mouse.releases \in [Buttons -> Counts] /\ Counts \subseteq Int
  BY Limits DEF MouseInv, DriverTypeOK, Mouse, Counts
<1>2. /\ mouse'.releases = [mouse.releases EXCEPT ![b] = 0]
      /\ mouse'.presses = mouse.presses /\ mouse'.buttons = mouse.buttons
      /\ mouse'.x = mouse.x /\ mouse'.min = mouse.min /\ mouse'.max = mouse.max
      /\ mouse' \in Mouse
  <2>1. 0 \in Counts
    BY Limits DEF Counts
  <2> QED BY <1>1, <2>1 DEF ReadReleases, Mouse
<1>3. /\ balance' = [balance EXCEPT ![b] = balance[b] - mouse.releases[b]]
      /\ balance \in [Buttons -> Int]
  BY DEF ReadReleases, MouseInv, DriverTypeOK
<1>4. known' = mouse.buttons /\ saturated' = saturated
  BY DEF ReadReleases
<1>5. DriverTypeOK'
  <2>1. mouse.buttons \subseteq Buttons
    BY <1>1 DEF Mouse
  <2>2. balance' \in [Buttons -> Int]
    <3>1. balance[b] \in Int /\ mouse.releases[b] \in Int
      BY <1>1, <1>3
    <3>2. balance[b] - mouse.releases[b] \in Int
      BY <3>1
    <3> QED BY <1>3, <3>2
  <2>3. saturated' \in BOOLEAN
    BY <1>4 DEF MouseInv, DriverTypeOK
  <2> QED BY <1>2, <1>4, <2>1, <2>2, <2>3 DEF DriverTypeOK
<1>6. PointerInRange' /\ PictureDue'
  BY <1>2, <1>4 DEF MouseInv, PointerInRange, PictureDue
<1>7. ClicksCounted'
  BY <1>1, <1>2, <1>3, <1>4, Limits DEF MouseInv, ClicksCounted, Mouse, Counts
<1> QED BY <1>5, <1>6, <1>7 DEF MouseInv

(* These change neither the pointer nor the buttons nor the counts.          *)
LEMMA QuietInv ==
  ASSUME MouseInv, mouse' \in Mouse, UNCHANGED <<balance, saturated>>,
         \/ known' = mouse.buttons
         \/ known' = known /\ mouse'.pending = mouse.pending,
         mouse'.buttons = mouse.buttons, mouse'.presses = mouse.presses,
         mouse'.releases = mouse.releases,
         mouse'.x = mouse.x, mouse'.min = mouse.min, mouse'.max = mouse.max
  PROVE  MouseInv'
<1>1. DriverTypeOK'
  BY DEF MouseInv, DriverTypeOK, Mouse
<1>2. PointerInRange' /\ ClicksCounted'
  BY DEF MouseInv, PointerInRange, ClicksCounted
<1>3. PictureDue'
  BY DEF MouseInv, PictureDue
<1> QED BY <1>1, <1>2, <1>3 DEF MouseInv

LEMMA MouseStep ==
  ASSUME PanelSize \in Nat \ {0}, MouseInv, [DriverNext]_driverVars
  PROVE  MouseInv'
<1> USE DEF MouseInv
<1>0. /\ mouse \in Mouse /\ mouse.buttons \in SUBSET Buttons
      /\ mouse.x \in Coordinates /\ mouse.min \in Coordinates /\ mouse.max \in Coordinates
      /\ mouse.min <= mouse.max
  BY Limits DEF DriverTypeOK, Mouse, PointerInRange, Coordinates
<1>1. CASE UNCHANGED driverVars
  <2>1. known' = known /\ mouse' = mouse /\ UNCHANGED <<balance, saturated>>
    BY <1>1 DEF driverVars
  <2> QED BY <1>0, <2>1, QuietInv
<1>2. CASE Touch
  <2> PICK at \in 0 .. PanelSize, buttons \in SUBSET Buttons : Update(Touched(mouse, at, buttons))
    BY <1>2 DEF Touch
  <2> DEFINE x == mouse.min + (at * (mouse.max - mouse.min)) \div PanelSize
  <2>1. mouse.max - mouse.min \in Nat
    BY <1>0, Limits DEF Coordinates
  <2>2. (at * (mouse.max - mouse.min)) \div PanelSize \in 0 .. mouse.max - mouse.min
    BY <2>1, ScaledBound
  <2>3. x \in Coordinates
    BY <1>0, <2>2, Limits DEF Coordinates
  <2> QED BY <2>3, UpdateInv DEF Touched
<1>3. CASE NoTouchYet
  <2>1. 0 \in Coordinates
    BY Limits DEF Coordinates
  <2> QED BY <1>3, <2>1, UpdateInv DEF NoTouchYet
<1>4. CASE SetPosition
  BY <1>0, <1>4, UpdateInv DEF SetPosition
<1>5. CASE Reset
  <2>1. DriverInit'
    BY <1>5 DEF Reset, DriverInit
  <2>2. DriverInit' => MouseInv'
    BY MouseInit, PTL
  <2> QED BY <2>1, <2>2
<1>6. CASE SetRange
  BY <1>6, SetRangeInv
<1>7. CASE Look
  BY <1>0, <1>7, QuietInv DEF Look
<1>8. CASE \E b \in Buttons : ReadPresses(b) \/ ReadReleases(b)
  BY <1>8, ReadPressesInv, ReadReleasesInv
<1>9. CASE ReadMotion
  <2>1. 0 \in Motions
    BY Limits DEF Motions
  <2> QED BY <1>0, <1>9, <2>1, QuietInv DEF ReadMotion, Mouse
<1>10. CASE SetHandler
  BY <1>0, <1>10, QuietInv DEF SetHandler, WithHandler, Mouse
<1>11. CASE Callback
  <2>1. 0 \in Motions
    BY Limits DEF Motions
  <2> QED BY <1>0, <1>11, <2>1, QuietInv DEF Callback, Told, Mouse
<1> QED BY <1>1, <1>2, <1>3, <1>4, <1>5, <1>6, <1>7, <1>8, <1>9, <1>10, <1>11 DEF DriverNext

LEMMA MouseCorrect == ASSUME PanelSize \in Nat \ {0} PROVE DriverSpec => []MouseInv
<1>1. MouseInv /\ [DriverNext]_driverVars => MouseInv'
  BY MouseStep
<1> QED BY <1>1, MouseInit, PTL DEF DriverSpec

(* Type correctness: no counter leaves its word.                             *)
THEOREM MouseTypes == ASSUME PanelSize \in Nat \ {0} PROVE DriverSpec => []DriverTypeOK
<1>1. MouseInv => DriverTypeOK
  BY DEF MouseInv
<1> QED BY <1>1, MouseCorrect, PTL

(* Where a guest that asked for the button events is wrong about a button,   *)
(* the event that puts it right is due.                                      *)
THEOREM ButtonsFollowed == ASSUME PanelSize \in Nat \ {0} PROVE DriverSpec => []ButtonsKnown
<1>1. MouseInv => ButtonsKnown
  BY DEF MouseInv, PictureDue, ButtonsKnown, Due, ButtonEvents
<1> QED BY <1>1, MouseCorrect, PTL

(* Presses and releases that were read and may be read match the button.     *)
THEOREM ClicksAddUp == ASSUME PanelSize \in Nat \ {0} PROVE DriverSpec => []ClicksCounted
<1>1. MouseInv => ClicksCounted
  BY DEF MouseInv
<1> QED BY <1>1, MouseCorrect, PTL

(* The pointer never leaves the guest's range.                               *)
THEOREM PointerStays == ASSUME PanelSize \in Nat \ {0} PROVE DriverSpec => []PointerInRange
<1>1. MouseInv => PointerInRange
  BY DEF MouseInv
<1> QED BY <1>1, MouseCorrect, PTL
=============================================================================
