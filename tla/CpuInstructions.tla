--------------------------- MODULE CpuInstructions --------------------------
(***************************************************************************)
(* The rest of an instruction's work in pc_i8086.cpp: how many bytes it    *)
(* has, which operand its mod and r/m fields name, where a byte, a word or *)
(* a fetched instruction lives in the 1 MB of addresses, and the string    *)
(* instructions, which step runs to the end in one go when they are        *)
(* repeated.  CpuArithmetic's done holds the instruction executed last.    *)
(***************************************************************************)
EXTENDS CpuArithmetic, Sequences, SequencesExt

CONSTANTS
  VideoStart, VideoEnd, EmsBase, EmsEnd, Top,  \* A0000h, C0000h, E0000h, F0000h
                                               \* and 1 MB, on a smaller scale
  SegmentBytes,                                \* bound: 64 KB
  CellValues                                   \* bound: what a byte can hold

ASSUME LayoutAssumption ==
  /\ {VideoStart, VideoEnd, EmsBase, EmsEnd, Top} \subseteq Nat
  /\ 0 < VideoStart /\ VideoStart < VideoEnd /\ VideoEnd < EmsBase
  /\ EmsBase < EmsEnd /\ EmsEnd < Top
ASSUME SegmentAssumption == SegmentBytes \in Nat \ {0}

-----------------------------------------------------------------------------
\* Tables 12 to 14: which opcodes have a mod-r/m byte, which add an immediate
\* of their width, and the bytes the rest of the opcode takes.
Arithmetic(op) == op < 64 /\ op % 8 < 6
HasMod(op) ==
  \/ Arithmetic(op) /\ op % 8 < 4
  \/ op \in (128 .. 143) \cup {192, 193} \cup (196 .. 199) \cup (208 .. 211)
            \cup (216 .. 223) \cup {246, 247, 254, 255}
AddsWidth(op) ==
  \/ Arithmetic(op) /\ op % 8 > 3
  \/ op \in {105, 107, 168, 169, 198, 199} \cup (128 .. 131) \cup (176 .. 191)
BaseSize(op) ==
  CASE op \in {154, 194, 195} \cup (202 .. 207) \cup (232 .. 235) -> 0
    [] op = 200 -> 4
    [] op \in {104, 192, 193} \cup (160 .. 163) -> 3
    [] HasMod(op) /\ op \notin {192, 193} -> 2
    [] op \in {15, 106, 212, 213, 241} \cup (112 .. 127) \cup (224 .. 231) -> 2
    [] OTHER -> 1

\* stepEx moves the instruction pointer by the tables; the cases that re-decode
\* an immediate form as its register form, and those that return early, move it
\* themselves, and step does so for the common instructions it executes alone.
Displacement(mod, rm) == CASE mod = 0 -> IF rm = 6 THEN 2 ELSE 0
                           [] mod = 3 -> 0
                           [] OTHER -> mod
Computed(op, mod, rm) ==
  BaseSize(op) + (IF HasMod(op) THEN Displacement(mod, rm) ELSE 0)
               + (IF AddsWidth(op) THEN 1 + (op % 2) ELSE 0)
ImmediateByte(op) == op % 2 = 0 \/ (op \div 2) % 2 = 1
Immediate_NoSignExtended(op) == IF op % 2 = 0 THEN 1 ELSE 2
Immediate(op) == IF ImmediateByte(op) THEN 1 ELSE 2
Length(op, mod, reg, rm) ==
  CASE Arithmetic(op) /\ op % 8 > 3 -> -1 + Immediate(op) + Computed(8 * (op \div 8), 3, rm)
    [] op \in 128 .. 131 -> Immediate(op) + Computed(8 * reg, mod, rm)
    [] op \in {246, 247} /\ reg = 0 -> 1 + (op % 2) + Computed(32, mod, rm)
    [] op \in {246, 247} /\ reg > 1 -> Computed(40, mod, rm)
    [] op \in {98, 105, 107} -> 2 + Displacement(mod, rm) + (IF op = 98 THEN 0 ELSE 1 + (107 - op) \div 2)
    [] op \in (160 .. 163) \cup {232, 233} \cup (184 .. 191) -> 3
    [] op \in (112 .. 127) \cup (224 .. 227) \cup (176 .. 183) \cup {205, 235} -> 2
    [] op = 154 -> 5
    [] op \in {204, 206} -> 1
    [] OTHER -> Computed(op, mod, rm)

\* Tables 0 to 7: the registers a memory operand adds up, its displacement and
\* its default segment.
First(mod, rm) == IF mod = 0 /\ rm = 6 THEN "zero"
                  ELSE <<"BX", "BX", "BP", "BP", "SI", "DI", "BP", "BX">>[rm + 1]
Second(rm) == <<"SI", "DI", "SI", "DI", "zero", "zero", "zero", "zero">>[rm + 1]
DefaultSegment(mod, rm) == IF mod = 0 /\ rm = 6 THEN "DS"
                           ELSE <<"DS", "DS", "SS", "SS", "DS", "DS", "SS", "DS">>[rm + 1]
Operand(mod, rm) ==
  [registers |-> {First(mod, rm), Second(rm)} \ {"zero"},
   displaced |-> mod # 0 \/ rm = 6, segment |-> DefaultSegment(mod, rm)]

Decode ==
  /\ Idle
  /\ \E op \in 0 .. 255, mod \in 0 .. 3, reg \in 0 .. 7, rm \in 0 .. 7 :
       Record("decode", 16, op, [mod |-> mod, reg |-> reg, rm |-> rm], {},
              [length |-> Length(op, mod, reg, rm),
               operand |-> IF mod = 3 THEN {} ELSE {Operand(mod, rm)}])

-----------------------------------------------------------------------------
\* Where the CPU finds a byte: ordinary memory, video memory, or the EMS window
\* while something is mapped; addresses wrap at the top.  A word, read or
\* written, takes its two bytes one by one only at an edge of the window.
Home(kind, a) == [kind |-> kind, at |-> a]
InEms(active, a) == active /\ a \in EmsBase .. EmsEnd - 1
ByteHome(active, address) ==
  LET a == address % Top
  IN  CASE a \in VideoStart .. VideoEnd - 1 -> Home("video", a)
        [] InEms(active, a) -> Home("ems", a)
        [] OTHER -> Home("ram", a)
WordHome_NoEdge(active, address) ==
  LET a == address % Top
  IN  CASE a \in VideoStart .. VideoEnd - 1 -> <<Home("video", a), Home("video", a + 1)>>
        [] InEms(active, a) -> <<Home("ems", a), Home("ems", a + 1)>>
        [] OTHER -> <<Home("ram", a), Home("ram", (a + 1) % Top)>>
WordHome(active, address) ==
  LET a == address % Top
  IN  IF InEms(active, a) # InEms(active, a + 1)
      THEN <<ByteHome(active, a), ByteHome(active, a + 1)>>
      ELSE CASE a \in VideoStart .. VideoEnd - 1 -> <<Home("video", a), Home("video", a + 1)>>
             [] InEms(active, a) -> <<Home("ems", a), Home("ems", a + 1)>>
             [] OTHER -> <<Home("ram", a), Home("ram", (a + 1) % Top)>>

\* step takes six bytes straight from memory unless they touch the top, the
\* video memory or the window.
Fetched == 6
FetchHome(active, address) ==
  LET a == address % Top
      overlaps(start, end) == a < end /\ a + Fetched > start
      oneByOne == \/ a > Top - Fetched
                  \/ overlaps(VideoStart, VideoEnd)
                  \/ active /\ overlaps(EmsBase, EmsEnd)
  IN  [i \in 1 .. Fetched |-> IF oneByOne THEN ByteHome(active, a + i - 1)
                              ELSE Home("ram", a + i - 1)]

\* The BIOS and the disks use the machine's own functions, byte by byte or in
\* blocks: they see the window too, but ordinary memory under the video memory,
\* and nothing beyond the top.
HostHome(active, a) == CASE a >= Top -> Home("none", 0)
                         [] InEms(active, a) -> Home("ems", a)
                         [] OTHER -> Home("ram", a)
BlockHome(active, a, size) ==
  IF a + size > Top THEN <<>>
  ELSE LET mapped == active /\ a < EmsEnd /\ a + size > EmsBase
       IN  [i \in 1 .. size |-> IF mapped THEN HostHome(active, a + i - 1)
                                ELSE Home("ram", a + i - 1)]

Access ==
  /\ Idle
  /\ \E active \in BOOLEAN, a \in 0 .. Top - 1, size \in 1 .. Fetched :
       Record("access", 16, a, active, {},
              [word |-> WordHome(active, a), fetch |-> FetchHome(active, a),
               block |-> BlockHome(active, a, size)])

-----------------------------------------------------------------------------
\* The string instructions on one segment of SegmentBytes cells: si and di are
\* offsets into it, ax the accumulator, cx the count of a repeated instruction.
Advance(offset, backward) == (offset + (IF backward THEN -1 ELSE 1)) % SegmentBytes
MoveOnce(kind, backward, s) ==
  LET value == IF kind = "STOS" THEN s.ax ELSE s.memory[s.si]
  IN  [s EXCEPT !.memory = IF kind = "LODS" THEN @ ELSE [@ EXCEPT ![s.di] = value],
                !.ax = IF kind = "LODS" THEN value ELSE @,
                !.si = IF kind = "STOS" THEN @ ELSE Advance(@, backward),
                !.di = IF kind = "LODS" THEN @ ELSE Advance(@, backward)]
Move(kind, backward, repeated, s) ==
  LET after[i \in 0 .. SegmentBytes] ==
        IF i = 0 THEN s ELSE MoveOnce(kind, backward, after[i - 1])
  IN  IF repeated THEN [after[s.cx] EXCEPT !.cx = 0] ELSE after[1]

\* CMPS and SCAS: a repeated one stops when the count is used up or the
\* comparison no longer matches the prefix, and changes nothing at a count of 0.
CompareOnce(kind, backward, s) ==
  LET d == IF kind = "SCAS" THEN s.ax ELSE s.memory[s.si]
  IN  [s EXCEPT !.equal = d = s.memory[s.di],
                !.below = d < s.memory[s.di],
                !.si = IF kind = "SCAS" THEN @ ELSE Advance(@, backward),
                !.di = Advance(@, backward)]
CountedDown(s) == [s EXCEPT !.cx = @ - 1]
Stops_TooLate(repe, s) == s.cx = 0
Stops(repe, s) == s.cx = 0 \/ s.equal # repe
Compare(kind, backward, prefix, s) ==
  IF prefix = "none" THEN CompareOnce(kind, backward, s)
  ELSE LET after[i \in 0 .. SegmentBytes] ==
             IF i = 0 THEN s ELSE CountedDown(CompareOnce(kind, backward, after[i - 1]))
           last == CHOOSE i \in 1 .. s.cx :
                     /\ Stops(prefix = "repe", after[i])
                     /\ \A j \in 1 .. i - 1 : ~Stops(prefix = "repe", after[j])
       IN  IF s.cx = 0 THEN s ELSE after[last]

\* INS and OUTS: the bytes of a port, in the order they are read, or written to.
PortIn(backward, repeated, s, bytes) ==
  LET n == IF repeated THEN s.cx ELSE 1
      after[i \in 0 .. SegmentBytes] ==
        IF i = 0 THEN s
        ELSE [after[i - 1] EXCEPT !.memory[after[i - 1].di] = bytes[i],
                                  !.di = Advance(@, backward)]
  IN  [after[n] EXCEPT !.cx = IF repeated THEN 0 ELSE @]
PortOut(backward, repeated, s) ==
  LET n == IF repeated THEN s.cx ELSE 1
      offset[i \in 0 .. SegmentBytes] ==
        IF i = 0 THEN s.si ELSE Advance(offset[i - 1], backward)
  IN  [written |-> [i \in 1 .. n |-> s.memory[offset[i - 1]]],
       state |-> [s EXCEPT !.si = offset[n], !.cx = IF repeated THEN 0 ELSE @]]

Offsets == 0 .. SegmentBytes - 1
Strings == [memory : [Offsets -> CellValues], si : Offsets, di : Offsets,
            cx : 0 .. SegmentBytes - 1, ax : CellValues,
            equal : {FALSE}, below : {FALSE}]
ExecuteMove ==
  /\ Idle
  /\ \E kind \in {"MOVS", "STOS", "LODS"}, backward, repeated \in BOOLEAN, s \in Strings :
       Record(kind, 8, s, [backward |-> backward, repeated |-> repeated], {},
              Move(kind, backward, repeated, s))
ExecuteCompare ==
  /\ Idle
  /\ \E kind \in {"CMPS", "SCAS"}, backward \in BOOLEAN,
        prefix \in {"none", "repe", "repne"}, s \in Strings :
       Record(kind, 8, s, [backward |-> backward, prefix |-> prefix], {},
              Compare(kind, backward, prefix, s))
\* What OUTS writes, INS reads back.
ExecutePort ==
  /\ Idle
  /\ \E backward, repeated \in BOOLEAN, s \in Strings :
       LET out == PortOut(backward, repeated, s)
       IN  Record("INS", 8, s, [backward |-> backward, repeated |-> repeated], {},
                  PortIn(backward, repeated, s, out.written))

InstructionNext == \/ ArithmeticNext \/ Decode \/ Access
                   \/ ExecuteMove \/ ExecuteCompare \/ ExecutePort
InstructionSpec == NothingExecuted /\ [][InstructionNext]_done

-----------------------------------------------------------------------------
\* Every documented instruction has the length of the processor's opcode map
\* - one byte too many or too few and the guest runs operands as opcodes - and
\* a memory operand the registers and the default segment of the manual's
\* table, the stack segment exactly when BP takes part.
Undocumented(op, mod, reg) ==
  \/ op \in {15, 99, 100, 101, 102, 103, 214, 241}
  \/ op \in {246, 247} /\ reg = 1
  \/ op \in {98, 141, 196, 197} /\ mod = 3
RefHasMod(op) ==
  \/ op < 64 /\ op % 8 < 4
  \/ op \in {98, 105, 107, 192, 193, 246, 247, 254, 255} \cup (128 .. 143)
            \cup (196 .. 199) \cup (208 .. 211) \cup (216 .. 223)
RefImmediate(op, reg) ==
  CASE op < 64 /\ op % 8 \in {4, 5} -> 1 + (op % 2)
    [] op \in {246, 247} /\ reg = 0 -> 1 + (op % 2)
    [] op \in {154, 234} -> 4
    [] op = 200 -> 3
    [] op \in {104, 105, 129, 169, 194, 199, 202, 232, 233} \cup (160 .. 163) \cup (184 .. 191) -> 2
    [] op \in {106, 107, 128, 130, 131, 168, 192, 193, 198, 205, 212, 213, 235}
              \cup (112 .. 127) \cup (176 .. 183) \cup (224 .. 231) -> 1
    [] OTHER -> 0
\* These set the instruction pointer: returns, far jump, IRET, HLT, LES and LDS
\* excepted, which do not.
Leaves(op) == op \in {194, 195, 202, 203, 207, 234}
RefRegisters(rm) == <<{"BX", "SI"}, {"BX", "DI"}, {"BP", "SI"}, {"BP", "DI"},
                      {"SI"}, {"DI"}, {"BP"}, {"BX"}>>[rm + 1]
DecodeAgrees ==
  LET op == done.a
      f == done.b
      size == IF ~RefHasMod(op) THEN 0
              ELSE 1 + (CASE f.mod = 1 -> 1
                          [] f.mod = 2 \/ (f.mod = 0 /\ f.rm = 6) -> 2
                          [] OTHER -> 0)
      direct == f.mod = 0 /\ f.rm = 6
  IN  done.op = "decode" =>
        /\ ~Undocumented(op, f.mod, f.reg) /\ ~Leaves(op) =>
             done.out.length = 1 + size + RefImmediate(op, f.reg)
        /\ \A operand \in done.out.operand :
             /\ operand.registers = IF direct THEN {} ELSE RefRegisters(f.rm)
             /\ operand.segment = IF "BP" \in operand.registers THEN "SS" ELSE "DS"
             /\ operand.displaced <=> f.mod # 0 \/ direct

\* A word is its two bytes, an instruction its six, and a block of the BIOS its
\* bytes, each where the CPU finds a byte at that address, at every edge of the
\* EMS window and at the 1 MB wrap.  Excepted, as in the code, are a word that
\* straddles an edge of the video memory, and the BIOS's view under it.
MemoryAgrees ==
  LET a == done.a
      byte(i) == ByteHome(done.b, a + i - 1)
      out == done.out
  IN  done.op = "access" =>
        /\ a \notin {VideoStart - 1, VideoEnd - 1} => out.word = <<byte(1), byte(2)>>
        /\ \A i \in 1 .. Fetched : out.fetch[i] = byte(i)
        /\ \A i \in DOMAIN out.block : out.block[i] = byte(i) \/ byte(i).kind = "video"

\* The offset k steps from another, and the steps from one to another.
Place(back, offset, k) == (offset + (IF back THEN -k ELSE k)) % SegmentBytes
StepsTo(back, offset, o) == (IF back THEN offset - o ELSE o - offset) % SegmentBytes
\* Memory with the first n places from the destination written, the k-th with
\* value[k].
Written(back, s, n, value) ==
  [o \in Offsets |-> IF StepsTo(back, s.di, o) < n THEN value[StepsTo(back, s.di, o)]
                     ELSE s.memory[o]]
Repeats(repeated, s) == IF repeated THEN s.cx ELSE 1

\* The reference for moves, in one go: a copy onto itself reads at step k the
\* byte it began with, counted around the gap between source and destination.
Around(gap, k) == IF gap = 0 THEN k ELSE k % gap
Stores(s) == [k \in Offsets |-> s.ax]
Copies(back, s) ==
  [k \in Offsets |-> s.memory[Place(back, s.si, Around(StepsTo(back, s.si, s.di), k))]]
Loaded(back, s, n) == IF n = 0 THEN s.ax ELSE s.memory[Place(back, s.si, n - 1)]
RefMove(kind, back, repeated, s) ==
  LET n == Repeats(repeated, s)
      value == IF kind = "STOS" THEN Stores(s) ELSE Copies(back, s)
  IN  [s EXCEPT !.memory = IF kind = "LODS" THEN @ ELSE Written(back, s, n, value),
                !.si = IF kind = "STOS" THEN @ ELSE Place(back, @, n),
                !.di = IF kind = "LODS" THEN @ ELSE Place(back, @, n),
                !.cx = IF repeated THEN 0 ELSE @,
                !.ax = IF kind = "LODS" THEN Loaded(back, s, n) ELSE @]
\* For a block through a port.
RefPort(back, repeated, s) ==
  LET n == Repeats(repeated, s)
      passed == [k \in Offsets |-> s.memory[Place(back, s.si, k)]]
  IN  [s EXCEPT !.memory = Written(back, s, n, passed), !.di = Place(back, @, n),
                !.cx = IF repeated THEN 0 ELSE @]

\* For searches: comparison i, and the first that ends the search, or the last
\* the count allows.
Sought(kind, back, s, i) == IF kind = "SCAS" THEN s.ax ELSE s.memory[Place(back, s.si, i - 1)]
Met(back, s, i) == s.memory[Place(back, s.di, i - 1)]
Alike(kind, back, s, i) == Sought(kind, back, s, i) = Met(back, s, i)
Lower(kind, back, s, i) == Sought(kind, back, s, i) < Met(back, s, i)
Hits(kind, back, repe, s) == {i \in 1 .. s.cx : Alike(kind, back, s, i) # repe}
EndOf(count, hits) == IF hits = {} THEN count ELSE CHOOSE i \in hits : \A j \in hits : i <= j
RefCompare(kind, back, prefix, s) ==
  LET n == IF prefix = "none" THEN 1 ELSE EndOf(s.cx, Hits(kind, back, prefix = "repe", s))
  IN  [s EXCEPT !.si = IF kind = "SCAS" THEN @ ELSE Place(back, @, n),
                !.di = Place(back, @, n),
                !.cx = IF prefix = "none" THEN @ ELSE @ - n,
                !.equal = IF n = 0 THEN @ ELSE Alike(kind, back, s, n),
                !.below = IF n = 0 THEN @ ELSE Lower(kind, back, s, n)]

\* A repeated string instruction leaves what its single steps would: a copy onto
\* itself repeats the bytes in between, a search stops on the first match or
\* mismatch with the count of what is left, and a count of zero does nothing;
\* OUTS and then INS move a block through a port as it was.  Nothing else moves.
StringsAgree ==
  LET s == done.a
      b == done.b
  IN  /\ done.op \in {"MOVS", "STOS", "LODS"} =>
           done.out = RefMove(done.op, b.backward, b.repeated, s)
      /\ done.op \in {"CMPS", "SCAS"} =>
           done.out = RefCompare(done.op, b.backward, b.prefix, s)
      /\ done.op = "INS" => done.out = RefPort(b.backward, b.repeated, s)
=============================================================================
