----------------------------- MODULE VgaDisplay -----------------------------
(***************************************************************************)
(* The memory side of the adapter: where the CPU's bytes, the BIOS's       *)
(* pixels and the picture's dots lie.  Memory is what differs from zero:   *)
(* a function from cells to bytes, where <<p, o>> is byte o of plane p and *)
(* <<4, o>> byte o of the 128 KiB CGA, text and Hercules memory.           *)
(***************************************************************************)
EXTENDS VgaRegisters

Byte(mem, cell) == IF cell \in DOMAIN mem THEN mem[cell] ELSE 0
Store(mem, cell, value) == Update(mem, cell :> value)
BitOf(mem, cell, x) == (Byte(mem, cell) \div 2 ^ (7 - (x % 8))) % 2
Colour4(bits) == bits[1] + 2 * bits[2] + 4 * bits[3] + 8 * bits[4] \* plane 0 first

UsesPlanes(v) == v.mode \in PlanarModes \/ (v.mode = "Vga320x200x256" /\ ~Chain4(v))

(***************************************************************************)
(* The CPU's window, at A0000h: vgaPlanarOffsetForAddress and its chain-4  *)
(* twin map it by the graphics register 6; Outside is no VGA memory.       *)
(***************************************************************************)
Outside == -1
Aperture(v, address) ==
  LET map == (v.gc[6] \div 4) % 4
      from == CASE map <= 1 -> \hA0000 [] map = 2 -> \hB0000 [] OTHER -> \hB8000
      to == CASE map = 0 -> \hC0000 [] map = 1 -> \hB0000 [] map = 2 -> \hB8000 [] OTHER -> \hC0000
  IN  IF from <= address /\ address < to THEN (address - from) % 65536 ELSE Outside
MemoryEnabled(v) == v.mode \in CgaGraphics \cup {"Hercules"} \/ Has(v.misc, 2)
PlanarWindow(v, address) ==
  UsesPlanes(v) \/ (v.mode = "Text80" /\ \hA0000 <= address /\ address < \hB0000)
ChainedWindow(v) == v.mode = "Vga320x200x256" /\ Chain4(v)
OddEvenRead(v) == ~Chain4(v) /\ Has(v.gc[5], 16)
OddEvenWrite(v) == OddEvenRead(v) /\ ~Has(v.seq[4], 4)

Rotated(value, n) == (value \div 2 ^ n) + ((value * 2 ^ (8 - n)) % 256)
Filled(on) == IF on THEN 255 ELSE 0
Combine(op, input, latch) ==
  CASE op = 1 -> And(input, latch) [] op = 2 -> Or(input, latch) [] op = 3 -> Xor(input, latch) [] OTHER -> input
\* vgaWritePlaneByte for one plane
PlaneByte_OldRotate(v, plane, value) ==
  LET latch == v.latch[plane]
      input == IF Has(v.gc[1], 2 ^ plane) THEN Filled(Has(v.gc[0], 2 ^ plane)) ELSE value
      result == Combine((v.gc[3] \div 8) % 4, input, latch)
  IN  IF v.gc[5] % 4 = 1 THEN latch ELSE And(result, v.gc[8]) + And(latch, 255 - v.gc[8])
PlaneByte(v, plane, value) ==
  LET latch == v.latch[plane]
      writeMode == v.gc[5] % 4
      rotated == Rotated(value, v.gc[3] % 8)
      setReset == Filled(Has(v.gc[0], 2 ^ plane))
      input == CASE writeMode = 0 -> IF Has(v.gc[1], 2 ^ plane) THEN setReset ELSE rotated
                 [] writeMode = 2 -> Filled(Has(value, 2 ^ plane))
                 [] OTHER -> setReset
      mask == IF writeMode = 3 THEN And(rotated, v.gc[8]) ELSE v.gc[8]
      result == Combine((v.gc[3] \div 8) % 4, input, latch)
  IN  IF writeMode = 1 THEN latch ELSE And(result, mask) + And(latch, 255 - mask)
WritePlanes(v, mem, offset, value, planes) ==
  LET written == {p \in planes : Has(v.seq[2], 2 ^ p)}
  IN  Update(mem, [c \in {<<p, offset>> : p \in written} |-> PlaneByte(v, c[1], value)])
\* Chain-4 bytes are kept a second time, in flat memory.
Mirrored(mem, o) == Store(mem, <<4, o>>, Byte(mem, <<o % 4, o \div 4>>))
WriteVideo(v, mem, address, value) ==
  LET o == Aperture(v, address)
      parity == IF o % 2 = 1 THEN {1, 3} ELSE {0, 2}
  IN  CASE ~MemoryEnabled(v) -> mem
        [] PlanarWindow(v, address) /\ o = Outside -> mem
        [] PlanarWindow(v, address) /\ OddEvenWrite(v) -> WritePlanes(v, mem, o \div 2, value, parity)
        [] PlanarWindow(v, address) -> WritePlanes(v, mem, o, value, 0 .. 3)
        [] ChainedWindow(v) /\ o = Outside -> mem
        [] ChainedWindow(v) -> Mirrored(WritePlanes(v, mem, o \div 4, value, {o % 4}), o)
        [] OTHER -> Store(mem, <<4, address - \hA0000>>, value)

\* A read fills the latches and returns a plane's byte, or compares colours.
LatchOffset(v, address) ==
  LET o == Aperture(v, address)
  IN  CASE ~MemoryEnabled(v) \/ o = Outside -> Outside
        [] PlanarWindow(v, address) -> IF OddEvenRead(v) THEN o \div 2 ELSE o
        [] ChainedWindow(v) -> o \div 4
        [] OTHER -> Outside
Latched(v, mem, address) ==
  LET o == LatchOffset(v, address)
  IN  IF o = Outside THEN v.latch ELSE [p \in 0 .. 3 |-> Byte(mem, <<p, o>>)]
Compared(v, latch) ==
  LET bit(k) == \A p \in 0 .. 3 : Has(v.gc[7], 2 ^ p) => (Has(latch[p], 2 ^ k) <=> Has(v.gc[2], 2 ^ p))
      weight(k) == IF bit(k) THEN 2 ^ k ELSE 0
  IN  FoldLeft(LAMBDA sum, k : sum + weight(k), 0, <<0, 1, 2, 3, 4, 5, 6, 7>>)
ReadVideo(v, mem, address) ==
  LET o == Aperture(v, address)
      latch == Latched(v, mem, address)
      planar == PlanarWindow(v, address)
  IN  CASE ~MemoryEnabled(v) -> 255
        [] (planar \/ ChainedWindow(v)) /\ o = Outside -> 255
        [] (planar \/ ChainedWindow(v)) /\ Has(v.gc[5], 8) -> Compared(v, latch)
        [] planar /\ OddEvenRead(v) -> latch[(o % 2) + 2 * ((v.gc[4] \div 2) % 2)]
        [] planar -> latch[v.gc[4] % 4]
        [] ChainedWindow(v) -> latch[o % 4]
        [] OTHER -> Byte(mem, <<4, address - \hA0000>>)

(***************************************************************************)
(* Lines in memory.                                                        *)
(***************************************************************************)
Unit(v) == CASE Has(v.crtc[20], 64) -> 4 [] Has(v.crtc[23], 64) -> 1 [] OTHER -> 2
Start(v) == StartAddress(v) * Unit(v)
Or0(bytes, fallback) == IF bytes = 0 THEN fallback ELSE bytes
LineBytes(v) ==
  CASE ChainedWindow(v) -> Or0(v.crtc[19] * Unit(v) * 2, 320)
    [] OTHER -> Or0(v.crtc[19] * (IF Has(v.crtc[20], 64) THEN 4 ELSE 2),
                    IF v.mode = "Vga320x200x256" THEN 80 ELSE Width(v) \div 8)
Interleaved(v) == (v.gc[5] \div 32) % 4 = 1
\* The cells and the bits that make up pixel x of the line at `row`.
PlanarIndex(v, mem, row, x) ==
  LET o == (row + (x \div 8)) % 65536
      bits == [p \in 1 .. 4 |-> BitOf(mem, <<p - 1, o>>, x)]
      pair(p) == (Byte(mem, <<p, o>>) \div 4 ^ (3 - (x % 4))) % 4
  IN  CASE ~Interleaved(v) -> Colour4(bits)
        [] x % 8 < 4 -> pair(0) + 4 * pair(2)
        [] OTHER -> pair(1) + 4 * pair(3)
WithField(byte, weight, width, value) == \* replace the field at this weight
  byte - weight * ((byte \div weight) % width) + weight * value
WithPlanarIndex(v, mem, row, x, colour) ==
  LET o == (row + (x \div 8)) % 65536
      bit == 2 ^ (7 - (x % 8))
      pair == 4 ^ (3 - (x % 4))
      low == IF x % 8 < 4 THEN 0 ELSE 1
  IN  IF Interleaved(v)
      THEN Update(mem, [c \in {<<low, o>>, <<low + 2, o>>} |->
             WithField(Byte(mem, c), pair, 4, IF c[1] = low THEN colour % 4 ELSE (colour \div 4) % 4)])
      ELSE Update(mem, [c \in {<<p, o>> : p \in 0 .. 3} |->
             WithField(Byte(mem, c), bit, 2, (colour \div 2 ^ c[1]) % 2)])

(***************************************************************************)
(* The BIOS's pixels: readGraphicsPixel and writeGraphicsPixel.            *)
(***************************************************************************)
OnScreen(v, x, y) == v.mode # "Text80" /\ x \in 0 .. Width(v) - 1 /\ y \in 0 .. Height(v) - 1
\* The byte of flat memory that holds a CGA or Hercules pixel.
FlatByte(v, page, x, y) ==
  CASE v.mode = "Cga320x200x4" -> \h18000 + page + 8192 * (y % 2) + 80 * (y \div 2) + (x \div 4)
    [] v.mode = "Cga640x200x2" -> \h18000 + page + 8192 * (y % 2) + 80 * (y \div 2) + (x \div 8)
    [] v.mode = "Hercules" ->
         \h10000 + 32768 * ((page \div 32768) % 2) + 8192 * (y % 4) + 90 * (y \div 4) + (x \div 8)
Flat(v) == v.mode \in CgaGraphics \cup {"Hercules"}
Reachable(v, page, x, y) == OnScreen(v, x, y) /\ (Flat(v) => FlatByte(v, page, x, y) < 131072)
PixelCell(v, page, x, y) == \* of a 256-colour pixel
  IF Chain4(v) THEN LET o == (page + y * LineBytes(v) + x) % 65536 IN <<o % 4, o \div 4>>
  ELSE <<x % 4, (page + y * LineBytes(v) + (x \div 4)) % 65536>>
Field(v, x) == IF v.mode = "Cga320x200x4" THEN [weight |-> 4 ^ (3 - (x % 4)), width |-> 4]
               ELSE [weight |-> 2 ^ (7 - (x % 8)), width |-> 2]
RowStart(v, page, y) == (page + y * LineBytes(v)) % 65536
ReadPixel(v, mem, page, x, y) ==
  LET byte == Byte(mem, <<4, FlatByte(v, page, x, y)>>)
  IN  CASE Flat(v) -> (byte \div Field(v, x).weight) % Field(v, x).width
        [] v.mode = "Vga320x200x256" -> Byte(mem, PixelCell(v, page, x, y))
        [] OTHER -> PlanarIndex(v, mem, RowStart(v, page, y), x)
WritePixel(v, mem, page, x, y, colour, xor) ==
  LET c == IF xor THEN Xor(colour, ReadPixel(v, mem, page, x, y)) ELSE colour
      cell == <<4, FlatByte(v, page, x, y)>>
      field == Field(v, x)
  IN  CASE ~Reachable(v, page, x, y) -> mem
        [] Flat(v) -> Store(mem, cell, WithField(Byte(mem, cell), field.weight, field.width, c % field.width))
        [] v.mode = "Vga320x200x256" ->
             IF Chain4(v) /\ ~Has(v.seq[2], 2 ^ PixelCell(v, page, x, y)[1]) THEN mem
             ELSE LET pixel == PixelCell(v, page, x, y)
                      written == Store(mem, pixel, c)
                  IN  IF Chain4(v) THEN Mirrored(written, 4 * pixel[2] + pixel[1]) ELSE written
        [] OTHER -> WithPlanarIndex(v, mem, RowStart(v, page, y), x, c % 16)

(***************************************************************************)
(* The picture: the render functions, up to the colour's index.            *)
(***************************************************************************)
Black == -1
Overscan == -2
ScanLines(v) == (IF Has(v.crtc[9], 128) THEN 2 ELSE 1) * ((v.crtc[9] % 32) + 1)
Split(v, y) == LineCompare(v) < Height(v) /\ y >= LineCompare(v)
SourceRow(v, y) ==
  (IF Split(v, y) THEN y - LineCompare(v) ELSE y + (v.crtc[8] % 32)) \div ScanLines(v)
StillSplit(v, y) == Split(v, y) /\ Has(v.attr[16], 32)
Pan(v, y) ==
  CASE StillSplit(v, y) -> 0
    [] v.mode = "Vga320x200x256" -> (v.attr[19] % 16) \div 2
    [] OTHER -> v.attr[19] % 16
BytePan(v, y) == IF StillSplit(v, y) THEN 0 ELSE (v.crtc[8] \div 32) % 4
\* CGA modes take the CRTC start as it is, or the page the BIOS selected.
CgaPage(v) == IF StartAddress(v) = 0 THEN v.bda.pageOffset ELSE StartAddress(v)
HerculesPage(v) == IF Has(v.hercConfig, 2) /\ Has(v.hercMode, 128) THEN 32768 ELSE 0
\* forced: the display task shows CGA graphics whatever the enable bit says.
FlatDot(v, mem, x, y, forced) ==
  LET page == IF v.mode = "Hercules" THEN HerculesPage(v) ELSE CgaPage(v)
      lineEnd == FlatByte(v, page, Width(v) - 1, y)
      shown == IF v.mode = "Hercules" THEN v.hercVideo ELSE forced \/ Has(v.cgaMode, 8)
  IN  IF ~shown \/ lineEnd >= 131072 THEN Black
      ELSE (Byte(mem, <<4, FlatByte(v, page, x, y)>>) \div Field(v, x).weight) % Field(v, x).width
VgaDot_SplitStart(v, mem, x, y) ==
  LET sourceX == x + Pan(v, y)
      line == Start(v) + SourceRow(v, y) * LineBytes(v) + BytePan(v, y)
      o == (line + sourceX) % 65536
  IN  CASE ~DisplayEnabled(v) -> Black
        [] y > VerticalDisplayEnd(v) \/ sourceX >= Width(v) -> Overscan
        [] ChainedWindow(v) -> Byte(mem, <<o % 4, o \div 4>>)
        [] v.mode = "Vga320x200x256" -> Byte(mem, <<sourceX % 4, (line + (sourceX \div 4)) % 65536>>)
        [] OTHER -> PlanarIndex(v, mem, line % 65536, sourceX)
VgaDot(v, mem, x, y) ==
  LET sourceX == x + Pan(v, y)
      start == IF Split(v, y) THEN 0 ELSE Start(v)
      line == start + SourceRow(v, y) * LineBytes(v) + BytePan(v, y)
      o == (line + sourceX) % 65536
  IN  CASE ~DisplayEnabled(v) -> Black
        [] y > VerticalDisplayEnd(v) \/ sourceX >= Width(v) -> Overscan
        [] ChainedWindow(v) -> Byte(mem, <<o % 4, o \div 4>>)
        [] v.mode = "Vga320x200x256" -> Byte(mem, <<sourceX % 4, (line + (sourceX \div 4)) % 65536>>)
        [] OTHER -> PlanarIndex(v, mem, line % 65536, sourceX)
Dot(v, mem, x, y, forced) == IF Flat(v) THEN FlatDot(v, mem, x, y, forced) ELSE VgaDot(v, mem, x, y)

\* text80Buffer: where in flat memory the text that is shown starts.
TextHome(v) == IF v.bda.videoMode = 7 \/ v.bda.crtcBase = \h3B4 THEN \h10000 ELSE \h18000
TextShown(v) ==
  LET offset == IF Start(v) = 0 THEN v.bda.pageOffset ELSE Start(v)
      bytes == 2 * v.bda.columns * (v.bda.rows + 1)
  IN  TextHome(v) + IF TextHome(v) + offset + bytes <= 131072 THEN offset ELSE 0

\* What a mode set leaves in memory: setVideoMode and the BIOS zero the planes
\* or flat memory, and clearTextScreen writes spaces, of which `kept` are kept.
Cleared(v, mem, kept) ==
  LET gone(c) ==
        CASE c[1] < 4 -> v.mode \in VgaGraphics
          [] v.mode = "Vga320x200x256" -> c[2] < 65536
          [] v.mode \in CgaGraphics -> c[2] < 65536 \/ c[2] \in \h18000 .. \h1BFFF
          [] OTHER -> FALSE
      text == IF v.mode # "Text80" THEN {}
              ELSE kept \cap TextHome(v) .. TextHome(v) + 2 * v.bda.columns * (v.bda.rows + 1) - 1
  IN  Update([c \in {d \in DOMAIN mem : ~gone(d)} |-> mem[c]],
             [c \in {4} \X text |-> IF c[2] % 2 = 0 THEN 32 ELSE 7])

(***************************************************************************)
(* Colours of a dot, and the colour the status port feeds back.            *)
(***************************************************************************)
CgaPalettes == << <<0, 2, 4, 6>>, <<0, 3, 5, 7>>, <<0, 10, 12, 14>>, <<0, 11, 13, 15>> >>
CgaIndex(v, dot) ==
  LET bright == IF Has(v.cgaColor, 16) THEN 8 ELSE 0
      chosen == 1 + (IF Has(v.cgaColor, 16) THEN 2 ELSE 0) + (IF Has(v.cgaColor, 32) THEN 1 ELSE 0)
  IN  CASE v.mode = "Cga640x200x2" -> IF dot = 1 THEN v.cgaColor % 16 ELSE 0
        [] dot = 0 -> v.cgaColor % 16
        [] Has(v.cgaMode, 4) -> <<3, 4, 7>>[dot] + bright
        [] OTHER -> CgaPalettes[chosen][dot + 1]
Mode13Output(v, dot) == IF Has(v.attr[16], 64) THEN dot ELSE ColourOutput(v, dot % 16)
DotColour(v, dot) ==
  CASE dot = Black -> <<0, 0, 0>>
    [] dot = Overscan -> Colour(v.dac, Masked(v, OverscanOutput(v)))
    [] v.mode \in CgaGraphics -> Colour(v.dac, Masked(v, CgaIndex(v, dot)))
    [] v.mode = "Hercules" -> IF dot = 1 THEN <<63, 63, 63>> ELSE <<0, 0, 0>>
    [] v.mode = "Vga320x200x256" -> Colour(v.dac, Masked(v, Mode13Output(v, dot)))
    [] OTHER -> Colour(v.dac, Masked(v, ColourOutput(v, dot)))
=============================================================================
