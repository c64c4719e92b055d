---------------------------- MODULE CpuReference ----------------------------
(***************************************************************************)
(* What 8086 arithmetic means, stated on whole numbers and never on the    *)
(* bit tricks of pc_i8086.cpp: sums and ranges for the arithmetic          *)
(* instructions, one-bit steps for shifts and rotates, decimal numbers for *)
(* the adjust instructions.  CpuArithmetic is checked against it.          *)
(***************************************************************************)
EXTENDS Integers, FiniteSets

Wrap(x, w) == x % 2^w
AsSigned(x, w) == IF x >= 2^(w - 1) THEN x - 2^w ELSE x
Fits(x, w) == x \in -(2^(w - 1)) .. 2^(w - 1) - 1
EvenParity(x) == Cardinality({i \in 0 .. 7 : (x \div 2^i) % 2 = 1}) % 2 = 0

ResultFlags(r, w) ==
  {f \in {"SF", "ZF", "PF"} : \/ f = "SF" /\ AsSigned(r, w) < 0
                              \/ f = "ZF" /\ r = 0
                              \/ f = "PF" /\ EvenParity(r)}

\* d + s + c and d - s - c, with every flag the manual defines.
RefSum(d, s, c, w) ==
  LET r == Wrap(d + s + c, w)
  IN  [value |-> r,
       flags |-> ResultFlags(r, w) \cup
         {f \in {"CF", "AF", "OF"} :
            \/ f = "CF" /\ d + s + c >= 2^w
            \/ f = "AF" /\ (d % 16) + (s % 16) + c >= 16
            \/ f = "OF" /\ ~Fits(AsSigned(d, w) + AsSigned(s, w) + c, w)}]
RefDifference(d, s, c, w) ==
  LET r == Wrap(d - s - c, w)
  IN  [value |-> r,
       flags |-> ResultFlags(r, w) \cup
         {f \in {"CF", "AF", "OF"} :
            \/ f = "CF" /\ d < s + c
            \/ f = "AF" /\ d % 16 < (s % 16) + c
            \/ f = "OF" /\ ~Fits(AsSigned(d, w) - AsSigned(s, w) - c, w)}]

\* The bits of a word, and the words of a set of bits.
Ones(x, w) == {i \in 0 .. w - 1 : (x \div 2^i) % 2 = 1}

\* One step of each shift and rotate on a pair of value and carry.
RefStep(kind, v, c, w) ==
  LET low == v % 2
      top == v \div 2^(w - 1)
      rest == v \div 2
      double == Wrap(2 * v, w)
  IN  CASE kind = "ROL" -> <<double + top, top>>
        [] kind = "ROR" -> <<rest + low * 2^(w - 1), low>>
        [] kind = "RCL" -> <<double + c, top>>
        [] kind = "RCR" -> <<rest + c * 2^(w - 1), low>>
        [] kind = "SHL" -> <<double, top>>
        [] kind = "SHR" -> <<rest, low>>
        [] kind = "SAR" -> <<rest + top * 2^(w - 1), low>>

\* n steps, and what the overflow flag shows after a single one: whether the
\* sign changed, or for SHR what it was.
RefSteps(kind, v, c, n, w) ==
  LET after[i \in 0 .. n] ==
        IF i = 0 THEN <<v, c>>
        ELSE LET before == after[i - 1]
             IN  RefStep(kind, before[1], before[2], w)
  IN  after[n]
SignChanged(v, r, w) == AsSigned(v, w) < 0 <=> AsSigned(r, w) >= 0

\* Two packed decimal digits, and the number they stand for.
Packed(n) == 16 * (n \div 10) + (n % 10)
=============================================================================
