------------------------------- MODULE MCMouse -------------------------------
(* A guest that installs a mouse handler and waits in HLT for interrupts;    *)
(* the handler is two instructions and a far return.                         *)
EXTENDS MouseCallback, TLC

One(op) == [op |-> op, arg |-> 0]
Int33 == [op |-> "INT", arg |-> MouseInterrupt]
Data == One("data")

GuestCode ==
  0 :> <<One("STI"), Int33, Data, One("HLT"), [op |-> "JMP", arg |-> -3], Data>> @@
  1 :> <<One("PUSHF"), One("POPF"), [op |-> "RETF", arg |-> 0], One("IRET")>>
Vectors == 0 :> <<1, 3>> @@ 1 :> <<1, 3>> @@ 8 :> <<1, 3>>
TwoButtonEvents == [mask |-> {Pressed(1), Released(1)}, handler |-> <<1, 0>>]
Addresses == {<<1, 0>>}
=============================================================================
