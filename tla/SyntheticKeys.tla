---------------------------- MODULE SyntheticKeys ---------------------------
(***************************************************************************)
(* Touches turned into key taps (main.cpp): a ring of taps waiting to be   *)
(* typed, one pressed at a time, each for a while and with a gap after it. *)
(* Taps and the USB keyboard both tell the controller the whole keyboard,  *)
(* so each replaces what the other said.  A tap is the set of its keys.    *)
(* Times are counted in polls of the touch task; the clock does not wrap.  *)
(***************************************************************************)
EXTENDS Naturals, Sequences

CONSTANTS
  Taps,        \* the taps touches are turned into
  UsbReports,  \* keys the USB keyboard may report held
  Capacity,    \* SyntheticKeyQueueCapacity (32)
  HoldTime,    \* SyntheticKeyHoldDelay
  GapTime,     \* SyntheticKeyGapDelay
  MaxLate      \* the longest time between two polls

ASSUME KeyTimesAssumption ==
  HoldTime \in Nat \ {0} /\ GapTime \in Nat \ {0} /\ MaxLate \in Nat \ {0}
ASSUME CapacityAssumption == Capacity \in Nat \ {0}
ASSUME NoKeysAssumption == {} \in UsbReports

VARIABLES
  ring,       \* syntheticKeyModifiers, -Usages, -Read, -Count
  active,     \* syntheticKeyActive
  releaseIn,  \* time left to syntheticKeyReleaseAt
  pressIn,    \* time left to syntheticKeyNextPressAt
  reported,   \* the keys of the report the controller got last
  usb         \* the keys the USB keyboard reported last

keyVars == <<ring, active, releaseIn, pressIn, reported, usb>>

KeyTypeOK ==
  /\ ring \in Seq(Taps) /\ Len(ring) <= Capacity
  /\ active \in BOOLEAN
  /\ releaseIn \in 0 .. HoldTime
  /\ pressIn \in 0 .. GapTime
  /\ reported \in UsbReports \cup Taps
  /\ usb \in UsbReports

KeyInit ==
  /\ ring = <<>> /\ active = FALSE
  /\ releaseIn = 0 /\ pressIn = 0
  /\ reported = {} /\ usb = {}

Elapse(t, dt) == IF t > dt THEN t - dt ELSE 0

PressDue(dt) == ~active /\ ring # <<>> /\ Elapse(pressIn, dt) = 0

\* The taps waiting after serviceSyntheticKeyboard, dt after the last time.
RingAfter(dt) == IF PressDue(dt) THEN Tail(ring) ELSE ring

ReleaseTap_Silent(dt) ==
  /\ active /\ Elapse(releaseIn, dt) = 0
  /\ active' = FALSE
  /\ releaseIn' = 0
  /\ pressIn' = GapTime
  /\ UNCHANGED reported

\* serviceSyntheticKeyboard: release a tap, press the next one, or wait.
ReleaseTap(dt) ==
  /\ active /\ Elapse(releaseIn, dt) = 0
  /\ reported' = {}
  /\ active' = FALSE
  /\ releaseIn' = 0
  /\ pressIn' = GapTime

PressTap_NotActive(dt) ==
  /\ PressDue(dt)
  /\ reported' = Head(ring)
  /\ releaseIn' = HoldTime
  /\ pressIn' = 0
  /\ UNCHANGED active

PressTap(dt) ==
  /\ PressDue(dt)
  /\ reported' = Head(ring)
  /\ active' = TRUE
  /\ releaseIn' = HoldTime
  /\ pressIn' = 0

NoTap(dt) ==
  /\ ~(active /\ Elapse(releaseIn, dt) = 0) /\ ~PressDue(dt)
  /\ releaseIn' = Elapse(releaseIn, dt)
  /\ pressIn' = Elapse(pressIn, dt)
  /\ UNCHANGED <<active, reported>>

Service(dt) == (ReleaseTap(dt) \/ PressTap(dt) \/ NoTap(dt)) /\ UNCHANGED usb

\* queueSyntheticHidKeyTap for each tap until one does not fit.
Fits(r, taps)   == Len(r) + Len(taps) <= Capacity
Queued(r, taps) ==
  r \o (IF Fits(r, taps) THEN taps ELSE SubSeq(taps, 1, Capacity - Len(r)))

\* forwardBootKeyboardReport; a disconnect reports no keys.
UsbReport ==
  /\ usb' \in UsbReports
  /\ reported' = usb'
  /\ UNCHANGED <<ring, active, releaseIn, pressIn>>

-----------------------------------------------------------------------------
(* Between taps the guest is told of no key that is not down on the USB      *)
(* keyboard: a tap leaves nothing pressed behind, however reports mix.       *)
IdleReleases == ~active => reported \subseteq usb

(* A tap that was pressed is released, and waiting ones get their turn.      *)
TapsTyped == (active ~> ~active) /\ (ring # <<>> ~> active)
=============================================================================
