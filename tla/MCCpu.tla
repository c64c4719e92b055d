------------------------------- MODULE MCCpu -------------------------------
(* Operands on both sides of every boundary: zero, the half carry, the sign, *)
(* the carry, and their neighbours; counts up to 31 on both widths; regions  *)
(* wider than a fetched instruction, with ordinary memory on every side; a   *)
(* segment of four cells, so that offsets wrap and copies overlap.           *)
EXTENDS CpuInstructions
=============================================================================
