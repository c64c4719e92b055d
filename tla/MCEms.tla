------------------------------- MODULE MCEms -------------------------------
(* The EMS manager with two handles and two slots: enough to exhaust pages  *)
(* and handles, to alias a page in both slots, and to release and re-use a  *)
(* handle that a saved map still names.  With two page contents a page that *)
(* two handles share, or a write through a slot that no longer shows it, is *)
(* seen as a change of the wrong array.                                     *)
EXTENDS EmsContext, EmsRefinement, TLC

\* What a page holds is only compared, so its values are interchangeable.
ValueSymmetry == Permutations(Values)
=============================================================================
