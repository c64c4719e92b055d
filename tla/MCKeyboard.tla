------------------------------ MODULE MCKeyboard ----------------------------
(* Two keys with one code in set 1, told apart by the E0 prefix in set 2; a  *)
(* queue of four bytes: long enough for one extended release in set 2, short *)
(* enough to fill in every order.                                            *)
EXTENDS KeyboardGuest

NoModifiers == <<>>

Entry(extended, code) == [extended |-> extended, code |-> code]

Table ==
  <<[Home |-> Entry(FALSE, "7"),    Pad7 |-> Entry(FALSE, "7")],
    [Home |-> Entry(TRUE, "home"),  Pad7 |-> Entry(FALSE, "home")]>>

\* One byte turns interrupts and translation off, one disables the keyboard;
\* enabling it again gives the power-on byte.
GuestCommandBytes ==
  {[PowerOn.command EXCEPT !.irq = FALSE, !.translate = FALSE],
   [PowerOn.command EXCEPT !.disable = TRUE]}

\* Once the queue has been full the guest believes nothing that could be wrong;
\* what the controller does from there on is followed with one key.
OneKeyWhenLost ==
  guest = Lost =>
    \A r \in {last, deferred} \ {NoReport} : KeysOf(r) \subseteq {"Home"}

\* What GuestSeesReportedKeys excepts, keys forgotten and keys eclipsed, is
\* followed one at a time.
OneExceptionAtATime == orphans = {} \/ eclipsed = {}
=============================================================================
