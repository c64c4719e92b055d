------------------------------- MODULE MCTouch ------------------------------
(* One key, also on the USB keyboard, so that a tap may meet a report of its *)
(* own key; items of two taps and a ring of two, so that an item fits, fits  *)
(* in part or not at all.                                                    *)
EXTENDS TouchTask

Letter  == {"a"}
TapSet  == {Letter}
Reports == {{}, Letter}
Items   == {<<Letter, Letter>>}
=============================================================================
