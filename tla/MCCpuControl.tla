---------------------------- MODULE MCCpuControl ----------------------------
(* One guest program with every kind of instruction the control flow knows:  *)
(* prefixed loads and a prefixed division that faults, a stack switch by MOV *)
(* SS, a traced stretch, calls, frames, HLT; handlers that save what they    *)
(* change, and a request handler that lets interrupts nest.                  *)
EXTENDS CpuControl, SequencesExt

Data == [op |-> "data", arg |-> 0]
I(op, arg, size) == <<[op |-> op, arg |-> arg]>> \o [i \in 1 .. size - 1 |-> Data]
One(op) == I(op, 0, 1)

Program == FlattenSeq(<<
  One("STI"), One("SIZE"), One("REP"), One("SEG"), I("LOAD", 0, 3),
  I("MOV", <<"CX", 0>>, 3), One("SEG"), One("REP"), I("DIV", 0, 2),
  I("MOV", <<"AX", 1>>, 3), I("MOVSS", 0, 2), I("MOV", <<"SP", 36>>, 3),
  I("MOV", <<"BP", 34>>, 3),
  One("PUSHF"), I("POP", "AX", 1), I("ADD", 2, 3), I("PUSH", "AX", 1), One("POPF"),
  One("SEG"), I("LOAD", 0, 3), I("PUSH", "SP", 1), I("POP", "DX", 1), I("INT", 6, 2), One("INT3"),
  I("CALL", 50, 3), One("STI"), One("SIZE"),
  One("PUSHF"), I("POP", "AX", 1), I("ADD", -2, 3), I("PUSH", "AX", 1), One("POPF"),
  I("ENTER", <<1, 2>>, 4), I("CALLF", <<1, 0>>, 5), I("CALLF", <<0, 0>>, 5), One("LEAVE"),
  I("MOV", <<"AX", 9>>, 3), I("BOUND", 3, 2), I("PUSHI", 0, 3), One("POPSS"), I("MOV", <<"SP", 36>>, 3),
  One("HLT"), I("MOV", <<"CX", 2>>, 3), I("LOOP", -2, 2), I("JCXZ", 1, 2), One("CLI"),
  I("JMPF", <<0, 0>>, 5),
  One("CLI"), I("INT", 8, 2), I("RET", 0, 1) >>)

Handlers == FlattenSeq(<<
  One("PUSHA"), I("PUSHI", 1, 3), One("POPCS"), One("POPA"), I("RETF", 0, 1),
  I("MOV", <<"CX", 1>>, 3), One("IRET"),
  One("PUSHA"), I("LOAD", 0, 3), I("MOV", <<"DI", 5>>, 3), One("SIZE"), One("POPA"), One("IRET"),
  I("MOV", <<"AX", 0>>, 3), One("IRET"),
  I("PUSH", "AX", 1), One("STI"), One("SEG"), I("LOAD", 0, 3), I("POP", "AX", 1), One("IRET") >>)

GuestCode == 0 :> Program @@ 1 :> Handlers
Vectors == 0 :> <<1, 7>> @@ 1 :> <<1, 11>> @@ 3 :> <<1, 24>> @@ 5 :> <<1, 21>> @@ 6 :> <<1, 25>> @@ 8 :> <<1, 24>>
=============================================================================
