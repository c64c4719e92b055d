----------------------------- MODULE MouseEvents -----------------------------
(***************************************************************************)
(* The mouse driver with touches, a guest that makes every call of INT 33h *)
(* in any order, and callbacks.  Histories remember what the guest has     *)
(* been told, to be compared with what the fingers did.                    *)
(***************************************************************************)
EXTENDS MouseDriver

VARIABLES
  mouse,     \* the fields m_mouse... of PcBios
  known,     \* history: the buttons the guest was last told are down
  balance,   \* history: presses less releases the guest read, per button
  saturated  \* history: a counter was at its limit since the last reset

driverVars == <<mouse, known, balance, saturated>>

DriverTypeOK ==
  /\ mouse \in Mouse /\ known \subseteq Buttons
  /\ balance \in [Buttons -> Int] /\ saturated \in BOOLEAN

DriverInit ==
  /\ mouse = Installed
  /\ known = {}
  /\ balance = [b \in Buttons |-> 0]
  /\ saturated = FALSE

AtLimit(m) == \E b \in Buttons : Top \in {m.presses[b], m.releases[b]}

\* setMouseSourceState for a finger on the picture or gone from it, setMouseState
\* before the first touch, and INT 33h AX=0004h, which records no motion.
Update(next) ==
  /\ mouse' = next
  /\ saturated' = (saturated \/ AtLimit(mouse))
  /\ UNCHANGED <<known, balance>>
Touch ==
  \E at \in 0 .. PanelSize, buttons \in SUBSET Buttons : Update(Touched(mouse, at, buttons))
NoTouchYet == Update(Updated(mouse, 0, {}, TRUE))
SetPosition == \E x \in Coordinates : Update(Updated(mouse, x, mouse.buttons, FALSE))

\* A guest that resets the driver takes every button for up.
Reset ==
  /\ mouse' = Installed /\ known' = {}
  /\ balance' = [b \in Buttons |-> 0] /\ saturated' = FALSE

SetRange ==
  /\ \E lo, hi \in Coordinates : mouse' = Clamped([mouse EXCEPT !.min = lo, !.max = hi])
  /\ UNCHANGED <<known, balance, saturated>>

\* AX=0003h, 0005h and 0006h return the buttons.
Look == known' = mouse.buttons /\ UNCHANGED <<mouse, balance, saturated>>
ReadPresses(b) ==
  /\ mouse' = [mouse EXCEPT !.presses[b] = 0]
  /\ balance' = [balance EXCEPT ![b] = @ + mouse.presses[b]]
  /\ known' = mouse.buttons /\ UNCHANGED saturated
ReadReleases(b) ==
  /\ mouse' = [mouse EXCEPT !.releases[b] = 0]
  /\ balance' = [balance EXCEPT ![b] = @ - mouse.releases[b]]
  /\ known' = mouse.buttons /\ UNCHANGED saturated
ReadMotion ==
  /\ mouse' = [mouse EXCEPT !.motion = 0]
  /\ UNCHANGED <<known, balance, saturated>>

SetHandler ==
  /\ \E mask \in SUBSET Events, handler \in Handlers \cup {Nowhere} :
       mouse' = WithHandler(mouse, mask, handler)
  /\ UNCHANGED <<known, balance, saturated>>

\* The callback gets the buttons in BX.  A guest that follows the buttons has no
\* IRET for a handler, which would forget what is due.
Callback ==
  /\ Due(mouse) # {}
  /\ mouse' = Told(mouse)
  /\ known' = mouse.buttons
  /\ UNCHANGED <<balance, saturated>>

DriverNext ==
  \/ Touch \/ NoTouchYet \/ SetPosition \/ Reset \/ SetRange \/ Look
  \/ \E b \in Buttons : ReadPresses(b) \/ ReadReleases(b)
  \/ ReadMotion \/ SetHandler \/ Callback
DriverSpec == DriverInit /\ [][DriverNext]_driverVars

-----------------------------------------------------------------------------
(* A handler that asked for all button events is never left with a wrong     *)
(* picture of the buttons: where it is wrong, an event that will put it      *)
(* right is due, however touches and callbacks mixed and events merged.      *)
ButtonsKnown ==
  (mouse.handler # Nowhere /\ ButtonEvents \subseteq mouse.mask) =>
    \A b \in Buttons :
      /\ b \in mouse.buttons \ known => Pressed(b) \in Due(mouse)
      /\ b \in known \ mouse.buttons => Released(b) \in Due(mouse)

(* A guest that polls counts right: since the last reset the presses it read *)
(* and may still read exceed the releases by one exactly while the button is *)
(* down, unless a counter was at its limit.                                  *)
ClicksCounted ==
  ~saturated => \A b \in Buttons :
    balance[b] + mouse.presses[b] - mouse.releases[b]
      = IF b \in mouse.buttons THEN 1 ELSE 0

(* The pointer is inside the range the guest set, even one set upside down.  *)
PointerInRange == mouse.min <= mouse.x /\ mouse.x <= mouse.max
=============================================================================
