------------------------------ MODULE TouchTask -----------------------------
(***************************************************************************)
(* The loop of touchMouseTask: where the finger is decides, without the    *)
(* machine's mutex, about a screenshot, and then, under it, whether the    *)
(* guest gets keys or a mouse button.  Runs next to the display and        *)
(* screenshot tasks and the USB keyboard.                                  *)
(***************************************************************************)
EXTENDS Screenshot, SyntheticKeys

CONSTANTS
  BarTap,    \* what a touch of a menu bar title types
  ItemTaps   \* what touches of menu items type: sequences of taps

ASSUME TapsAssumption == BarTap \in Taps /\ ItemTaps \subseteq Seq(Taps)

\* No finger; in the screenshot corner; beside the picture; on it, where
\* there is a menu title, a menu item or neither (a graphics mode included).
Points == {"none", "corner", "beside", "title", "item", "plain"}
OnPicture == {"title", "item", "plain"}

VARIABLES
  point,        \* what the poll under way read from the panel, "none" between polls
  wasPressed,   \* wasPressed
  suppress,     \* suppressMouseButtonUntilRelease
  button,       \* the mouse button the machine was told last
  touched       \* history of this touch: has it typed keys, and is there an
                \* excuse for a button (not all keys fitted, or the finger
                \* left the picture after that)

mouseVars == <<point, wasPressed, suppress, button, touched>>
vars == <<shotVars, keyVars, mouseVars>>

Fresh == [typed |-> FALSE, excused |-> FALSE]

TypeOK ==
  /\ ShotTypeOK /\ KeyTypeOK
  /\ point \in Points
  /\ wasPressed \in BOOLEAN /\ suppress \in BOOLEAN /\ button \in BOOLEAN
  /\ touched \in [typed : BOOLEAN, excused : BOOLEAN]

Init ==
  /\ ShotInit /\ KeyInit
  /\ point = "none"
  /\ wasPressed = FALSE /\ suppress = FALSE /\ button = FALSE
  /\ touched = Fresh

-----------------------------------------------------------------------------
Poll ==
  /\ point' \in Points
  /\ Gesture(point' = "corner")
  /\ UNCHANGED <<keyVars, wasPressed, suppress, button, touched>>

\* injectTextMenuShortcut: a title's result is not looked at, an item that
\* does not fit is typed in part and reported as not done.  In a graphics mode
\* it is not called.
Inject(r) ==
  \/ /\ point = "title"
     /\ ring' = Queued(r, <<BarTap>>)
     /\ suppress' = TRUE
     /\ touched' = [touched EXCEPT !.typed = @ \/ Len(ring') > Len(r)]
  \/ /\ point = "item"
     /\ \E taps \in ItemTaps :
          /\ ring' = Queued(r, taps)
          /\ suppress' = Fits(r, taps)
          /\ touched' = [typed   |-> touched.typed \/ Len(ring') > Len(r),
                         excused |-> touched.excused \/ ~Fits(r, taps)]
  \/ /\ point = "plain"
     /\ ring' = r
     /\ suppress' \in {FALSE, suppress}
     /\ UNCHANGED touched

Button_Always(suppressed) == TRUE

\* The button setMouseSourceState is told with a point on the picture.
Button(suppressed) == ~suppressed

\* What the finger means to the guest, the ring being r after the service.
Point(r) ==
  \/ /\ point \in OnPicture /\ ~wasPressed
     /\ Inject(r)
     /\ button' = Button(suppress')
  \/ /\ point \in OnPicture /\ wasPressed
     /\ button' = Button(suppress)
     /\ ring' = r
     /\ UNCHANGED <<suppress, touched>>
  \/ /\ point \notin OnPicture
     /\ suppress' = FALSE /\ button' = FALSE
     /\ ring' = r
     /\ touched' = IF point = "none" THEN Fresh
                   ELSE [touched EXCEPT !.excused = @ \/ touched.typed]

Locked ==
  /\ touch = "locked"
  /\ touch' = "poll"
  /\ \E dt \in 1 .. MaxLate : Service(dt) /\ Point(RingAfter(dt))
  /\ wasPressed' = (point \notin {"none", "corner"})
  /\ point' = "none"
  /\ UNCHANGED <<requested, ready, busy, source, frame, sent, display, dumper,
                 held, fired>>

TouchStep ==
  \/ Poll
  \/ StoreRequest /\ UNCHANGED <<keyVars, mouseVars>>
  \/ Locked

DisplayTask == DisplayStep /\ UNCHANGED <<keyVars, mouseVars>>
DumpTask    == DumpStep /\ UNCHANGED <<keyVars, mouseVars>>
UsbTask     == UsbReport /\ UNCHANGED <<shotVars, mouseVars>>

Next == TouchStep \/ DisplayTask \/ DumpTask \/ UsbTask

\* Each task is an endless loop of steps that end.
Spec == Init /\ [][Next]_vars
FairSpec ==
  Spec /\ WF_vars(TouchStep) /\ WF_vars(DisplayTask) /\ WF_vars(DumpTask)

-----------------------------------------------------------------------------
(* suppressMouseButtonUntilRelease: a touch that typed keys clicks nothing,  *)
(* unless the keys did not all fit, or the finger left the picture since     *)
(* (which clears the flag before the release its name speaks of).            *)
TouchIsKeysOrMouse == button /\ touched.typed => touched.excused
=============================================================================
