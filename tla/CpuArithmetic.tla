---------------------------- MODULE CpuArithmetic ---------------------------
(***************************************************************************)
(* The arithmetic of the 8086 core (pc_i8086.cpp), instruction by          *)
(* instruction as stepEx computes it: the flags come from the operands and *)
(* the result by exclusive or, carries from comparisons of truncated       *)
(* values, rotates from two shifts that are added.  Four register-only     *)
(* forms have a second implementation in step, "used by the profiled KOEI  *)
(* loop".  Registers and memory operands are read before and written after *)
(* and do not matter here: an action executes one instruction on any of    *)
(* the sampled operands and leaves it in done.                             *)
(***************************************************************************)
EXTENDS CpuReference

CONSTANTS
  Bytes, Words,  \* bound: the operands tried, per width
  Counts,        \* bound: the shift counts tried
  Decimals       \* bound: the decimal numbers tried

ASSUME SamplesAssumption ==
  /\ Bytes \subseteq 0 .. 2^8 - 1 /\ Words \subseteq 0 .. 2^16 - 1
  /\ Counts \subseteq 0 .. 31 /\ Decimals \subseteq 0 .. 99

VARIABLE done  \* the instruction executed last: operands, flags, outcome

Operands(w) == IF w = 8 THEN Bytes ELSE Words
FlagsBefore ==
  {c \cup o : c \in SUBSET {"CF", "AF"}, o \in {{}, {"OF", "ZF", "PF", "SF"}}}
Carry(flags) == IF "CF" \in flags THEN 1 ELSE 0

BitAt(x, i) == (x \div 2^i) % 2
\* The bitwise operators, on words, by the pairs of bits that they make a one.
BitwiseByte(ones, a, b) ==
  LET bit(i) == IF <<BitAt(a, i), BitAt(b, i)>> \in ones THEN 1 ELSE 0
  IN  bit(0) + 2 * bit(1) + 4 * bit(2) + 8 * bit(3)
        + 16 * bit(4) + 32 * bit(5) + 64 * bit(6) + 128 * bit(7)
Bitwise(ones, a, b) ==
  BitwiseByte(ones, a % 256, b % 256) + 256 * BitwiseByte(ones, a \div 256, b \div 256)
And(a, b) == Bitwise({<<1, 1>>}, a, b)
Or(a, b)  == Bitwise({<<0, 1>>, <<1, 0>>, <<1, 1>>}, a, b)
Xor(a, b) == Bitwise({<<0, 1>>, <<1, 0>>}, a, b)
Put(flags, name, set) == IF set THEN flags \cup {name} ELSE flags \ {name}

\* Table 11, which repeats its first row, or that row inverted, by high nibble.
ParityRow == <<1, 0, 0, 1, 0, 1, 1, 0, 0, 1, 1, 0, 1, 0, 0, 1>>
ParityOf(byte) == ParityRow[1 + (byte % 16)] = ParityRow[1 + (byte \div 16)]

\* The flags after an instruction: SF, ZF and PF from the result (PF by
\* table), AF and OF from what changed between operands and result.
SetSzp(flags, r, w) ==
  Put(Put(Put(flags, "SF", BitAt(r, w - 1) = 1), "ZF", r = 0),
      "PF", ParityOf(r % 256))
SetAfOf(flags, d, s, r, w) ==
  LET changed == Xor(Xor(d, s), r % 2^w)
  IN  Put(Put(flags, "AF", BitAt(changed, 4) = 1),
          "OF", r # d /\ (Carry(flags) # BitAt(changed, w - 1)))

Outcome(r, flags) == [value |-> r, flags |-> flags]

\* The eight operations of case 9 and the flag type of each (Table 10): 3 is
\* SZP with AF and OF, 5 is SZP with CF and OF cleared, and ADC and SBB set
\* AF and OF themselves.  CMP keeps its difference negative.
TwoOperand == {"ADD", "OR", "ADC", "SBB", "AND", "SUB", "XOR", "CMP"}
Logical(op) == op \in {"OR", "AND", "XOR", "TEST"}
RawResult(op, d, s, c, w) ==
  CASE op = "ADD" -> (d + s) % 2^w
    [] op = "ADC" -> (d + c + s) % 2^w
    [] op = "SBB" -> (d - (c + s)) % 2^w
    [] op = "SUB" -> (d - s) % 2^w
    [] op = "CMP" -> d - s
    [] op = "OR"  -> Or(d, s)
    [] op \in {"AND", "TEST"} -> And(d, s)
    [] op = "XOR" -> Xor(d, s)
CarryOut_Adc(op, d, r, c) ==
  CASE op \in {"ADD", "ADC"} -> r < d
    [] op = "SBB" -> (c = 1 /\ r = d) \/ r > d
    [] op \in {"SUB", "CMP"} -> r < 0 \/ r > d
    [] OTHER -> FALSE
CarryOut(op, d, r, c) ==
  CASE op = "ADD" -> r < d
    [] op = "ADC" -> (c = 1 /\ r = d) \/ r < d
    [] op = "SBB" -> (c = 1 /\ r = d) \/ r > d
    [] op \in {"SUB", "CMP"} -> r < 0 \/ r > d
    [] OTHER -> FALSE
Arith(op, d, s, flags, w) ==
  LET r == RawResult(op, d, s, Carry(flags), w)
      carried == Put(flags, "CF", CarryOut(op, d, r, Carry(flags)))
      szp == SetSzp(carried, r, w)
  IN  Outcome(r % 2^w, IF Logical(op) THEN szp \ {"OF"}
                       ELSE SetAfOf(szp, d, s, r, w))

\* INC and DEC keep the carry; NOT changes no flag; NEG is 0 - s.
IncDec(op, d, flags, w) ==
  LET r == (IF op = "INC" THEN d + 1 ELSE d - 1) % 2^w
      szp == SetSzp(SetAfOf(flags, d, 1, r, w), r, w)
  IN  Outcome(r, Put(szp, "OF", (IF op = "INC" THEN d + 1 ELSE d) = 2^(w - 1)))
Complement(d, flags, w) == Outcome(2^w - 1 - d, flags)
Negate(s, flags, w) ==
  LET r == (-s) % 2^w
      carried == Put(flags, "CF", r > 0)
  IN  Outcome(r, SetAfOf(SetSzp(carried, r, w), 0, s, r, w))

\* The register-only forms step executes by itself.
FastAdd(d, s, c, flags, w) ==
  LET r == (d + s + c) % 2^w
      same == 2^w - 1 - Xor(d, s)
      carried == Put(flags, "CF", d + s + c >= 2^w)
      half == Put(carried, "AF", BitAt(Xor(Xor(d, s), r), 4) = 1)
      over == Put(half, "OF", BitAt(And(same, Xor(d, r)), w - 1) = 1)
  IN  Outcome(r, SetSzp(over, r, w))
FastIncDec(op, d, flags, w) ==
  LET r == (IF op = "INC" THEN d + 1 ELSE d - 1) % 2^w
      half == Put(flags, "AF", BitAt(Xor(Xor(d, 1), r), 4) = 1)
      limit == IF op = "INC" THEN 2^(w - 1) - 1 ELSE 2^(w - 1)
  IN  Outcome(r, SetSzp(Put(half, "OF", d = limit), r, w))

-----------------------------------------------------------------------------
\* Case 12.  A rotate count is reduced by the width (RCL and RCR: the width and
\* the carry); a count of zero leaves the flags to the instruction's own rule.
\* FLAG_CF << (count - 1) at a count of zero is undefined; the targets shift by
\* the low five bits, so nothing reaches the operand.
Rotates == {"ROL", "ROR", "RCL", "RCR"}
Shifts == {"SHL", "SHR", "SAR"}
CountOf(from, n) == CASE from = "one" -> 1
                      [] from = "CL"  -> n % 32
                      [] from = "imm" -> n
Reduced_NoCarryBit(kind, n, w) == IF kind \in Rotates THEN n % w ELSE n
Reduced(kind, n, w) ==
  CASE kind \in {"ROL", "ROR"} -> n % w
    [] kind \in {"RCL", "RCR"} -> n % (w + 1)
    [] OTHER -> n
Shifted(kind, v, n, c, w) ==
  LET left  == IF n >= w THEN 0 ELSE (v * 2^n) % 2^w
      right == IF n >= w THEN 0 ELSE v \div 2^n
      carry(at) == IF n = 0 THEN 0 ELSE c * 2^at
      around(k) == IF n = 0 THEN 0 ELSE (v % 2^(n - k)) * 2^(w + k - n)
      sign == IF BitAt(v, w - 1) = 1 THEN 2^w - 1 - (IF n >= w THEN 0 ELSE (2^w - 1) \div 2^n)
              ELSE 0
  IN  CASE kind = "ROL" -> left + v \div 2^(w - n)
        [] kind = "ROR" -> right + around(0)
        [] kind = "RCL" -> left + carry(n - 1) + v \div 2^(w + 1 - n)
        [] kind = "RCR" -> right + carry(w - n) + around(1)
        [] kind = "SHL" -> left
        [] kind = "SHR" -> right
        [] kind = "SAR" -> right + sign
ShiftFlags(kind, v, r, n, flags, w) ==
  LET top == BitAt(r, w - 1)
      next == BitAt(r, w - 2)
      last == IF n = 0 THEN 0 ELSE BitAt(v, n - 1)
      with(cf, of) == Put(Put(flags, "CF", cf = 1), "OF", of = 1)
      out == IF n > w \/ n = 0 THEN 0 ELSE BitAt(v, w - n)
  IN  IF kind = "SAR"
      THEN Put(IF n >= w THEN Put(flags, "CF", BitAt(v, w - 1) = 1)
               ELSE IF n > 0 THEN Put(flags, "CF", last = 1) ELSE flags, "OF", FALSE)
      ELSE IF n = 0 THEN flags
      ELSE CASE kind = "ROL" -> with(r % 2, (top + r) % 2)
             [] kind = "ROR" -> with(top, (top + next) % 2)
             [] kind \in {"RCL", "SHL"} -> with(out, (top + out) % 2)
             [] kind = "RCR" -> with(last, (top + next) % 2)
             [] kind = "SHR" -> with(last, BitAt(v, w - 1))
Shift(kind, v, count, flags, w) ==
  LET n == Reduced(kind, count, w)
      r == Shifted(kind, v, n, Carry(flags), w)
      moved == ShiftFlags(kind, v, r, n, flags, w)
  IN  Outcome(r, IF kind \in Shifts /\ count # 0 THEN SetSzp(moved, r, w) ELSE moved)

-----------------------------------------------------------------------------
\* MUL, IMUL, DIV and IDIV; a quotient that does not fit raises INT 0.  The
\* product is kept as high and low half (DX:AX, AH:AL).
Halves(x, w) == [high |-> (x \div 2^w) % 2^w, low |-> x % 2^w]
Multiply(op, a, b, flags, w) ==
  LET x == IF op = "MUL" THEN a * b ELSE AsSigned(a, w) * AsSigned(b, w)
      wide == IF op = "MUL" THEN x >= 2^w ELSE ~Fits(x, w)
  IN  Outcome(Halves(x, w), SetSzp(Put(Put(flags, "CF", wide), "OF", wide), x, w))
\* The 80186 form with an immediate sets CF and OF and no other flag.
MultiplyImmediate(a, b, flags) ==
  LET x == AsSigned(a, 16) * AsSigned(b, 16)
      wide == ~Fits(x, 16)
  IN  Outcome(x % 2^16, Put(Put(flags, "CF", wide), "OF", wide))
Abs(x) == IF x < 0 THEN -x ELSE x
Truncated(n, d) ==
  IF (n < 0) = (d < 0) THEN Abs(n) \div Abs(d) ELSE -(Abs(n) \div Abs(d))
QuotientFits(op, q, w) == IF op = "DIV" THEN q < 2^w ELSE Fits(q, w)
Divide(op, n, d, w) ==
  IF d = 0 \/ ~QuotientFits(op, Truncated(n, d), w)
  THEN [raised |-> TRUE]
  ELSE LET q == Truncated(n, d)
       IN  [raised |-> FALSE, quotient |-> q % 2^w, remainder |-> (n - d * q) % 2^w]

\* The adjustments of AL and AX.  AAA and AAS add or subtract 262 (0106h) and
\* set SF at word width.
DecimalDigit(al, flags) == al % 16 > 9 \/ "AF" \in flags
DecimalTop(al, flags) == al > 153 \/ "CF" \in flags
Daa(al, flags) ==
  LET half == DecimalDigit(al, flags)
      top  == DecimalTop(al, flags)
      r    == (al + (IF top THEN 96 ELSE 0) + (IF half THEN 6 ELSE 0)) % 256
  IN  Outcome(r, SetSzp(Put(Put(flags, "AF", half), "CF", top), r, 8))
Das(al, flags) ==
  LET half == DecimalDigit(al, flags)
      top  == DecimalTop(al, flags)
      r    == (al - (IF top THEN 96 ELSE 0) - (IF half THEN 6 ELSE 0)) % 256
  IN  Outcome(r, SetSzp(Put(Put(flags, "AF", half), "CF", top \/ (half /\ al < 6)), r, 8))
AsciiAdjust(op, ax, flags) ==
  LET half == DecimalDigit(ax % 256, flags)
      sum  == (ax + (IF half THEN (IF op = "AAA" THEN 262 ELSE -262) ELSE 0)) % 65536
      r    == 256 * (sum \div 256) + (sum % 16)
  IN  Outcome(r, SetSzp(Put(Put(flags, "AF", half), "CF", half), sum % 16, 16))
Aam(al, base, flags) ==
  Outcome(256 * (al \div base) + (al % base), SetSzp(flags \ {"CF", "OF"}, al % base, 8))
Aad(ax, base, flags) ==
  LET r == ((ax % 256) + base * (ax \div 256)) % 256
  IN  Outcome(r, SetSzp(flags \ {"CF", "OF"}, r, 8))
SignExtend(x, w) == IF BitAt(x, w - 1) = 1 THEN 2^w - 1 ELSE 0
-----------------------------------------------------------------------------
\* The conditional jumps 70h to 7Fh, by Tables 15 to 18: two flags are or-ed with
\* the exclusive or of two more, and an odd opcode negates.
JumpTaken(cc, flags) ==
  LET either == <<{"OF"}, {"CF"}, {"ZF"}, {"CF", "ZF"}, {"SF"}, {"PF"}, {}, {"ZF"}>>[cc \div 2 + 1]
      differ == cc \div 2 \in {6, 7} /\ ("SF" \in flags) # ("OF" \in flags)
  IN  (either \cap flags # {} \/ differ) # (cc % 2 = 1)

-----------------------------------------------------------------------------
\* One instruction on sampled operands.
Record(op, w, a, b, flags, out) ==
  done' = [op |-> op, w |-> w, a |-> a, b |-> b, before |-> flags, out |-> out]
Idle == done.op = "none"
NothingExecuted == done = [op |-> "none"]

ExecuteTwoOperand ==
  /\ Idle
  /\ \E op \in TwoOperand, w \in {8, 16}, flags \in FlagsBefore :
       \E d, s \in Operands(w) : Record(op, w, d, s, flags, Arith(op, d, s, flags, w))
ExecuteTest ==
  /\ Idle
  /\ \E w \in {8, 16}, flags \in FlagsBefore :
       \E d, s \in Operands(w) :
         Record("TEST", w, d, s, flags, Arith("TEST", d, s, flags, w))
\* Opcode 83h extends its byte to a word; opcode 80h and 81h do not need it.
ExecuteImmediate ==
  /\ Idle
  /\ \E op \in TwoOperand, d \in Words, s \in Bytes, flags \in FlagsBefore :
       Record(op, 16, d, AsSigned(s, 8) % 2^16, flags,
              Arith(op, d, AsSigned(s, 8) % 2^16, flags, 16))
ExecuteOneOperand ==
  /\ Idle
  /\ \E op \in {"INC", "DEC", "NEG", "NOT"}, w \in {8, 16}, flags \in FlagsBefore :
       \E d \in Operands(w) :
         Record(op, w, d, 1, flags,
                CASE op = "NEG" -> Negate(d, flags, w)
                  [] op = "NOT" -> Complement(d, flags, w)
                  [] OTHER -> IncDec(op, d, flags, w))
ExecuteFastForm ==
  /\ Idle
  /\ \/ \E w \in {8, 16}, flags \in FlagsBefore :
          \E d, s \in Operands(w) :
            IF w = 8 THEN Record("ADD", w, d, s, flags, FastAdd(d, s, 0, flags, w))
            ELSE Record("ADC", w, d, s, flags, FastAdd(d, s, Carry(flags), flags, w))
     \/ \E op \in {"INC", "DEC"}, w \in {8, 16}, flags \in FlagsBefore :
          \E d \in Operands(w) : Record(op, w, d, 1, flags, FastIncDec(op, d, flags, w))
ExecuteShift ==
  /\ Idle
  /\ \E kind \in Rotates \cup Shifts, from \in {"one", "CL", "imm"}, n \in Counts,
        w \in {8, 16}, flags \in FlagsBefore :
       \E v \in Operands(w) :
         Record(kind, w, v, CountOf(from, n), flags, Shift(kind, v, CountOf(from, n), flags, w))
\* bound: the model checker's integers have 32 bits, so products stay below 2^31.
MaxInt == 2^30 + (2^30 - 1)
ExecuteMultiply ==
  /\ Idle
  /\ \E op \in {"MUL", "IMUL"}, w \in {8, 16}, flags \in FlagsBefore :
       \E a \in Operands(w) :
         \E b \in {y \in Operands(w) : a = 0 \/ y <= MaxInt \div a} :
           Record(op, w, a, b, flags, Multiply(op, a, b, flags, w))
ExecuteMultiplyImmediate ==
  /\ Idle
  /\ \E a \in Words, b \in Words \cup {AsSigned(s, 8) % 2^16 : s \in Bytes}, flags \in FlagsBefore :
       Record("IMUL3", 16, a, b, flags, MultiplyImmediate(a, b, flags))
\* bound: a DIV dividend below 2^31, and for IDIV not the least 32-bit number.
ExecuteDivide ==
  /\ Idle
  /\ \E op \in {"DIV", "IDIV"}, w \in {8, 16} :
       \E high, low, d \in Operands(w) :
         LET n == (IF op = "IDIV" \/ w = 16 THEN AsSigned(high, w) ELSE high) * 2^w + low
             divisor == IF op = "IDIV" THEN AsSigned(d, w) ELSE d
         IN  /\ n \in (IF op = "DIV" THEN 0 ELSE -MaxInt) .. MaxInt
             /\ Record(op, w, n, divisor, {}, Divide(op, n, divisor, w))
\* An adjustment after the sum, difference or product of decimal digits.
ExecutePacked ==
  /\ Idle
  /\ \E op \in {"DAA", "DAS"}, a, b \in Decimals, flags \in FlagsBefore :
       LET sum == Arith(IF op = "DAA" THEN "ADC" ELSE "SBB", Packed(a), Packed(b), flags, 8)
       IN  Record(op, 8, a, b, flags, IF op = "DAA" THEN Daa(sum.value, sum.flags)
                                      ELSE Das(sum.value, sum.flags))
ExecuteUnpacked ==
  /\ Idle
  /\ \E op \in {"AAA", "AAS"}, a, b \in 0 .. 9, high \in 1 .. 9, flags \in FlagsBefore :
       LET sum == Arith(IF op = "AAA" THEN "ADC" ELSE "SBB", a, b, flags, 8)
       IN  Record(op, 16, 10 * high + a, b, flags,
                  AsciiAdjust(op, 256 * high + sum.value, sum.flags))
ExecuteDigits ==
  /\ Idle
  /\ \E op \in {"AAM", "AAD"}, a \in Decimals, flags \in FlagsBefore :
       Record(op, 8, a, 10, flags,
              IF op = "AAM" THEN Aam(a, 10, flags)
              ELSE Aad(256 * (a \div 10) + (a % 10), 10, flags))
\* CBW then CWD: AL to AX to DX:AX.
ExecuteExtend ==
  /\ Idle
  /\ \E w \in {8, 16} : \E x \in Operands(w) :
       Record("extend", w, x, 0, {}, Outcome(SignExtend(x, w), {}))

\* Instructions do not depend on each other: the last one is forgotten.
Finish == ~Idle /\ done' = [op |-> "none"]

ArithmeticNext ==
  \/ ExecuteTwoOperand \/ ExecuteTest \/ ExecuteImmediate \/ ExecuteOneOperand
  \/ ExecuteFastForm \/ ExecuteShift \/ ExecuteMultiply
  \/ ExecuteMultiplyImmediate \/ ExecuteDivide \/ ExecutePacked
  \/ ExecuteUnpacked \/ ExecuteDigits \/ ExecuteExtend \/ Finish

-----------------------------------------------------------------------------
BitsAgree(x) ==
  LET A == Ones(x.a, x.w)
      B == Ones(x.b, x.w)
      R == Ones(x.out.value, x.w)
  IN  /\ x.op = "OR" => R = A \cup B
      /\ x.op = "XOR" => R = (A \cup B) \ (A \cap B)
      /\ x.op \in {"AND", "TEST"} => R = A \cap B
      /\ x.out.flags \ {"AF"} = ResultFlags(x.out.value, x.w)
ProductAgrees(x, product) ==
  /\ (IF x.op = "MUL" THEN x.out.value.high ELSE AsSigned(x.out.value.high, x.w)) * 2^x.w
       + x.out.value.low = product
  /\ {"CF", "OF"} \subseteq x.out.flags <=>
       (IF x.op = "MUL" THEN product >= 2^x.w ELSE ~Fits(product, x.w))
QuotientAgrees(x) ==
  IF x.out.raised
  THEN x.b = 0 \/ Abs(x.a) >= Abs(x.b) * (IF x.op = "DIV" THEN 2^x.w ELSE 2^(x.w - 1))
  ELSE LET signed(v) == IF x.op = "DIV" THEN v ELSE AsSigned(v, x.w)
           r == signed(x.out.remainder)
       IN  /\ signed(x.out.quotient) * x.b + r = x.a
           /\ Abs(r) < Abs(x.b) /\ (r # 0 => (r < 0) = (x.a < 0))
Jumps == [below |-> 2, equal |-> 4, notAbove |-> 6, less |-> 12, notGreater |-> 14]
JumpsAgree(x) ==
  LET a == AsSigned(x.a, x.w)
      b == AsSigned(x.b, x.w)
      holds == [below |-> x.a < x.b, equal |-> x.a = x.b, notAbove |-> x.a <= x.b,
                less |-> a < b, notGreater |-> a <= b]
  IN  \A name \in DOMAIN Jumps :
        /\ JumpTaken(Jumps[name], x.out.flags) = holds[name]
        /\ JumpTaken(Jumps[name] + 1, x.out.flags) = ~holds[name]
BinaryAgrees ==
  LET x == done
      c == Carry(x.before)
      keepingCarry(ref) ==
        [ref EXCEPT !.flags = Put(@, "CF", "CF" \in x.before)]
  IN  /\ x.op = "ADD" => x.out = RefSum(x.a, x.b, 0, x.w)
      /\ x.op = "ADC" => x.out = RefSum(x.a, x.b, c, x.w)
      /\ x.op \in {"SUB", "CMP"} => x.out = RefDifference(x.a, x.b, 0, x.w) /\ JumpsAgree(x)
      /\ x.op = "SBB" => x.out = RefDifference(x.a, x.b, c, x.w)
      /\ x.op = "INC" => x.out = keepingCarry(RefSum(x.a, 1, 0, x.w))
      /\ x.op = "DEC" => x.out = keepingCarry(RefDifference(x.a, 1, 0, x.w))
      /\ x.op = "NEG" => x.out = RefDifference(0, x.a, 0, x.w)
      /\ x.op = "NOT" => /\ Ones(x.out.value, x.w) = (0 .. x.w - 1) \ Ones(x.a, x.w)
                         /\ x.out.flags = x.before
      /\ Logical(x.op) => BitsAgree(x)
      /\ x.op = "MUL" => ProductAgrees(x, x.a * x.b)
      /\ x.op = "IMUL" => ProductAgrees(x, AsSigned(x.a, x.w) * AsSigned(x.b, x.w))
      /\ x.op = "IMUL3" =>
           /\ x.out.flags \ {"CF", "OF"} = x.before \ {"CF", "OF"}
           /\ "CF" \notin x.out.flags =>
                AsSigned(x.out.value, 16) = AsSigned(x.a, 16) * AsSigned(x.b, 16)
      /\ x.op \in {"DIV", "IDIV"} => QuotientAgrees(x)
      /\ x.op = "extend" => AsSigned(x.out.value, x.w) * 2^x.w + x.a = AsSigned(x.a, x.w)

ShiftsAgree ==
  LET x == done
      ref == RefSteps(x.op, x.a, Carry(x.before), x.b, x.w)
  IN  x.op \in Rotates \cup Shifts =>
        /\ x.out.value = ref[1]
        /\ ~(x.op \in {"ROL", "ROR"} /\ x.b % x.w = 0) => Carry(x.out.flags) = ref[2]
        /\ x.b = 1 => ("OF" \in x.out.flags <=> SignChanged(x.a, x.out.value, x.w))
        /\ x.out.flags \cap {"SF", "ZF", "PF"} =
             IF x.op \in Shifts /\ x.b # 0 THEN ResultFlags(x.out.value, x.w)
             ELSE x.before \cap {"SF", "ZF", "PF"}
        /\ x.b = 0 /\ x.op # "SAR" => x.out.flags = x.before

DecimalsAgree ==
  LET x == done
      c == Carry(x.before)
      plus == x.a + x.b + c
      minus == x.a - x.b - c
      Digits(n) == 256 * (n \div 10) + (n % 10)
      carried == "CF" \in x.out.flags
  IN  /\ x.op = "DAA" => x.out.value = Packed(plus % 100) /\ (carried <=> plus >= 100)
      /\ x.op = "DAS" => x.out.value = Packed(minus % 100) /\ (carried <=> minus < 0)
      /\ x.op = "AAA" => x.out.value = Digits(plus) /\ (carried <=> (x.a % 10) + x.b + c > 9)
      /\ x.op = "AAS" => x.out.value = Digits(minus) /\ (carried <=> x.a % 10 < x.b + c)
      /\ x.op = "AAM" => x.out.value = Digits(x.a)
      /\ x.op = "AAD" => x.out.value = x.a
\* Result and every defined flag of the binary instructions are those of whole
\* number arithmetic, on the general path and on the second, register-only
\* implementation alike; a division that does not raise INT 0 leaves quotient
\* and remainder of the dividend, and one that raises had no quotient.  Adjusting
\* a sum, difference or product of decimal digits gives the decimal digits of
\* the sum, difference or product, with the decimal carry in CF.  A conditional
\* jump after a comparison is taken exactly when the numbers compare that way.
\* A shift or rotate by n, computed with two shifts and an addition, is n steps
\* of one bit: operand, carry, the overflow of a single step, and SZP.  Two
\* cases are left out, where the code departs from the manual: the carry of a
\* ROL or ROR by a multiple of the width, and the overflow flag of a SAR by 0.
ArithmeticAgrees == BinaryAgrees /\ ShiftsAgree /\ DecimalsAgree
=============================================================================
