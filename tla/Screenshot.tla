----------------------------- MODULE Screenshot -----------------------------
(***************************************************************************)
(* The screenshot handshake of main.cpp.  The touch task asks, the display *)
(* task copies the picture it shows into the one screenshot frame, and a   *)
(* low-priority task writes that frame to the serial line.  The three      *)
(* share three atomic flags and the frame, which no lock protects.  The    *)
(* frame is copied and written out in pieces: its top, its bottom and its  *)
(* size.  Capture is available: the frame and the task exist.              *)
(***************************************************************************)
EXTENDS Naturals

CONSTANTS
  Pictures,  \* contents of the screen, a picture's size being part of it
  NoPicture, \* nothing drawn, copied or sent yet
  HoldPolls  \* polls a finger rests in the corner (ScreenshotHoldDelay)

ASSUME PicturesAssumption == NoPicture \notin Pictures
ASSUME HoldAssumption == HoldPolls \in Nat \ {0}

VARIABLES
  requested, ready, busy,  \* the three flags
  source,   \* what the display shows (m_lastSource)
  frame,    \* screenshotFrame, screenshotWidth, screenshotHeight
  sent,     \* what the dump in progress has read of the frame
  display,  \* where displayTask is
  dumper,   \* where screenshotTask is
  touch,    \* where the touch task is: "poll", "request", "locked"
  held,     \* polls the finger has been in the corner, or NotArmed
  fired     \* screenshotFired

shotVars == <<requested, ready, busy, source, frame, sent, display, dumper,
              touch, held, fired>>

NotArmed == HoldPolls + 1
Shown    == Pictures \cup {NoPicture}
Copy     == [top : Shown, bottom : Shown, size : Shown]
Blank    == [top |-> NoPicture, bottom |-> NoPicture, size |-> NoPicture]

ShotTypeOK ==
  /\ requested \in BOOLEAN /\ ready \in BOOLEAN /\ busy \in BOOLEAN
  /\ source \in Shown
  /\ frame \in Copy /\ sent \in Copy
  /\ display \in {"draw", "check", "top", "bottom", "publish", "reject"}
  /\ dumper \in {"wait", "size", "top", "bottom", "release"}
  /\ touch \in {"poll", "request", "locked"}
  /\ held \in 0 .. NotArmed
  /\ fired \in BOOLEAN

ShotInit ==
  /\ requested = FALSE /\ ready = FALSE /\ busy = FALSE
  /\ source = NoPicture
  /\ frame = Blank /\ sent = Blank
  /\ display = "draw" /\ dumper = "wait" /\ touch = "poll"
  /\ held = NotArmed /\ fired = FALSE

-----------------------------------------------------------------------------
(* displayTask: draw, then look for a request.                               *)

\* A blit that fails or finds nothing new leaves the picture as it was.
Draw ==
  /\ display = "draw"
  /\ display' = "check"
  /\ source' \in Pictures \cup {source}
  /\ UNCHANGED <<requested, ready, busy, frame, sent, dumper>>

\* screenshotRequested.exchange(false), and copySourceFrame's error returns.
TakeRequest ==
  /\ display = "check"
  /\ requested' = FALSE
  /\ display' = IF ~requested THEN "draw"
                ELSE IF source = NoPicture THEN "reject" ELSE "top"
  /\ UNCHANGED <<ready, busy, source, frame, sent, dumper>>

CopyTop ==
  /\ display = "top"
  /\ display' = "bottom"
  /\ frame' = [frame EXCEPT !.top = source]
  /\ UNCHANGED <<requested, ready, busy, source, sent, dumper>>

CopyBottom ==
  /\ display = "bottom"
  /\ display' = "publish"
  /\ frame' = [frame EXCEPT !.bottom = source, !.size = source]
  /\ UNCHANGED <<requested, ready, busy, source, sent, dumper>>

Publish ==
  /\ display = "publish"
  /\ display' = "draw"
  /\ ready' = TRUE
  /\ UNCHANGED <<requested, busy, source, frame, sent, dumper>>

Reject_StaysBusy ==
  /\ display = "reject"
  /\ display' = "draw"
  /\ UNCHANGED <<requested, ready, busy, source, frame, sent, dumper>>

Reject ==
  /\ display = "reject"
  /\ display' = "draw"
  /\ busy' = FALSE
  /\ UNCHANGED <<requested, ready, source, frame, sent, dumper>>

DisplayStep ==
  /\ Draw \/ TakeRequest \/ CopyTop \/ CopyBottom \/ Publish \/ Reject
  /\ UNCHANGED <<touch, held, fired>>

-----------------------------------------------------------------------------
(* screenshotTask: dumpRgb565Base64 gets the size, then reads the pixels.    *)
TakeFrame ==
  /\ dumper = "wait"
  /\ ready' = FALSE
  /\ dumper' = IF ready THEN "size" ELSE "wait"
  /\ UNCHANGED <<frame, busy, sent>>

Read(at, next, part) ==
  /\ dumper = at
  /\ dumper' = next
  /\ sent' = [sent EXCEPT ![part] = frame[part]]
  /\ UNCHANGED <<frame, ready, busy>>

Release ==
  /\ dumper = "release"
  /\ dumper' = "wait"
  /\ busy' = FALSE
  /\ sent' = Blank
  /\ UNCHANGED <<frame, ready>>

DumpStep ==
  /\ \/ TakeFrame
     \/ Read("size", "top", "size")
     \/ Read("top", "bottom", "top")
     \/ Read("bottom", "release", "bottom")
     \/ Release
  /\ UNCHANGED <<requested, source, display, touch, held, fired>>

-----------------------------------------------------------------------------
(* touchMouseTask, before it takes the mutex.                                *)

Claim_Unchecked ==
  /\ fired' = TRUE
  /\ busy' = TRUE
  /\ touch' = "request"

\* The finger has rested long enough: a request when none is under way.
Claim ==
  /\ fired' = TRUE
  /\ busy' = TRUE
  /\ touch' = IF busy THEN "locked" ELSE "request"

Gesture(corner) ==
  /\ touch = "poll"
  /\ \/ /\ ~corner
        /\ held' = NotArmed /\ fired' = FALSE
        /\ touch' = "locked"
        /\ UNCHANGED busy
     \/ /\ corner /\ held = NotArmed
        /\ held' = 0 /\ fired' = FALSE
        /\ touch' = "locked"
        /\ UNCHANGED busy
     \/ /\ corner /\ held # NotArmed
        /\ held' = IF held < HoldPolls THEN held + 1 ELSE held
        /\ IF ~fired /\ held' = HoldPolls THEN Claim
           ELSE touch' = "locked" /\ UNCHANGED <<fired, busy>>
  /\ UNCHANGED <<requested, ready, source, frame, sent, display, dumper>>

StoreRequest ==
  /\ touch = "request"
  /\ touch' = "locked"
  /\ requested' = TRUE
  /\ UNCHANGED <<ready, busy, source, frame, sent, display, dumper, held, fired>>

-----------------------------------------------------------------------------
(* main.cpp: "display copies a stable source frame".  What goes out on the   *)
(* serial line is one picture with its own size: the display task never      *)
(* copies into the frame while the screenshot task reads it.                 *)
WholeFrame ==
  dumper = "release" =>
    sent \in {[top |-> p, bottom |-> p, size |-> p] : p \in Pictures}

(* Every request is answered: the flag that keeps later gestures out comes   *)
(* down again, also when nothing could be copied.                            *)
RequestAnswered == busy ~> ~busy
=============================================================================
