----------------------------- MODULE MouseDriver -----------------------------
(***************************************************************************)
(* The mouse of pc_bios.cpp: what touches tell it and INT 33h asks of it,  *)
(* and the callback of the guest, which gets the events it has asked for   *)
(* later, between two steps of the CPU.  One axis stands for the two,      *)
(* which do not meet.  The driver is installed, as main.cpp does at start. *)
(* Left out: the cursor's shape and visibility, and where each button was  *)
(* pressed last, which no state depends on.                                *)
(***************************************************************************)
EXTENDS Integers

CONSTANTS
  Buttons,   \* 1 .. 3, of which a touch uses the first
  Handlers,  \* addresses <<cs, ip>> a guest may ask to be called at
  PanelSize  \* points of the touched picture along the axis, less one

Nowhere     == <<0, 0>>
\* The ends of an unsigned and of a signed word.
Top         == 65535
Highest     == 32767
Lowest      == -32768
Coordinates == 0 .. Top
Counts      == 0 .. Top
Motions     == Lowest .. Highest

\* The event mask, a set: motion, and a press and a release of each button.
Moved       == <<"move", 0>>
Pressed(b)  == <<"press", b>>
Released(b) == <<"release", b>>
ButtonEvents == {Pressed(b) : b \in Buttons} \cup {Released(b) : b \in Buttons}
Events       == {Moved} \cup ButtonEvents

Mouse == [x : Coordinates, min : Coordinates, max : Coordinates,
          buttons  : SUBSET Buttons,
          presses  : [Buttons -> Counts],
          releases : [Buttons -> Counts],
          motion   : Motions,
          mask     : SUBSET Events,
          handler  : Handlers \cup {Nowhere},
          pending  : SUBSET Events,
          pendingMotion : Motions]

\* As PcBios::reset and INT 33h AX=0000h leave the fields; clearMouseEventState
\* empties those behind the buttons.
Installed == [x |-> 0, min |-> 0, max |-> 639, buttons |-> {},
              presses |-> [b \in Buttons |-> 0], releases |-> [b \in Buttons |-> 0],
              motion |-> 0, mask |-> {}, handler |-> Nowhere,
              pending |-> {}, pendingMotion |-> 0]

Saturated(n) == IF n > Highest THEN Highest ELSE IF n < Lowest THEN Lowest ELSE n
CountUp(n)   == IF n = Top THEN n ELSE n + 1

\* clampMousePosition
Clamped(m) ==
  LET low == IF m.min > m.max THEN m.max ELSE m.min
      x   == IF m.x < low THEN low ELSE m.x
  IN  [m EXCEPT !.min = low, !.x = IF x > m.max THEN m.max ELSE x]

\* updateMouseState: motion, and what each button did since the last time.
Updated(m, x, buttons, record) ==
  LET there    == Clamped([m EXCEPT !.x = x])
      motion   == IF record THEN Saturated(there.x - m.x) ELSE 0
      pressed  == buttons \ m.buttons
      released == m.buttons \ buttons
  IN  [there EXCEPT
         !.buttons  = buttons,
         !.motion   = Saturated(@ + motion),
         !.pendingMotion = Saturated(@ + motion),
         !.presses  = [b \in Buttons |-> IF b \in pressed THEN CountUp(@[b]) ELSE @[b]],
         !.releases = [b \in Buttons |-> IF b \in released THEN CountUp(@[b]) ELSE @[b]],
         !.pending  = @ \cup {e \in {Moved} : motion # 0}
                        \cup {Pressed(b) : b \in pressed}
                        \cup {Released(b) : b \in released}]

\* setMouseSourceState: a point of the picture, scaled to the guest's range.
Touched(m, at, buttons) ==
  Updated(m, m.min + (at * (m.max - m.min)) \div PanelSize, buttons, TRUE)

\* AX=000Ch and 0014h.
WithHandler(m, mask, handler) == [m EXCEPT !.mask = mask, !.handler = handler]

\* dispatchMouseCallback: what it has to tell, and what it has told.
Due(m)   == IF m.handler = Nowhere THEN {} ELSE m.pending \cap m.mask
Told(m)  == [m EXCEPT !.pending = @ \ Due(m), !.pendingMotion = 0]
=============================================================================
