---------------------------- MODULE VgaRegisters ----------------------------
(***************************************************************************)
(* The register side of PcMachine's VGA, CGA and Hercules adapter: what a  *)
(* port write or read does to the registers, to the copies of them in the  *)
(* BIOS data area (bda) and to the values the text renderer keeps (text).  *)
(* An adapter v is a record; WritePort(v, port, value) is the adapter      *)
(* after an OUT, AfterRead(v, port) after an IN, PortValue what IN returns.*)
(*                                                                         *)
(* The DAC palette is written down by what differs from the reset palette: *)
(* dac maps the changed entries to their colours.                          *)
(***************************************************************************)
EXTENDS Integers, Sequences, SequencesExt

Has(value, weight) == (value \div weight) % 2 = 1
Without(value, weight) == IF Has(value, weight) THEN value - weight ELSE value
With(value, weight) == Without(value, weight) + weight
\* The bitwise operators, on bytes.
Both(a, b, weight) == IF Has(a, weight) /\ Has(b, weight) THEN weight ELSE 0
And(a, b) ==
  Both(a, b, 1) + Both(a, b, 2) + Both(a, b, 4) + Both(a, b, 8)
    + Both(a, b, 16) + Both(a, b, 32) + Both(a, b, 64) + Both(a, b, 128)
Or(a, b) == a + b - And(a, b)
Xor(a, b) == a + b - 2 * And(a, b)
Update(f, g) == [i \in DOMAIN f \cup DOMAIN g |-> IF i \in DOMAIN g THEN g[i] ELSE f[i]]

PlanarModes == {"Vga320x200x16", "Vga640x200x16", "Vga640x350x2", "Vga640x350x16",
                "Vga640x480x2", "Vga640x480x16"}
TwoColorModes == {"Vga640x350x2", "Vga640x480x2"}
VgaGraphics == PlanarModes \cup {"Vga320x200x256"}
CgaGraphics == {"Cga320x200x4", "Cga640x200x2"}
Modes == VgaGraphics \cup CgaGraphics \cup {"Text80", "Hercules"}

\* What the registers keep of the bits written to them.
AttributeBits(index, value) ==
  CASE index <= 15 \/ index = 17 \/ index = 18 -> value % 64
    [] index = 16 -> Without(value, 16)
    [] index \in {19, 20} -> value % 16
    [] OTHER -> value
SequencerBits(index, value) ==
  CASE index = 0 -> value % 4
    [] index = 1 -> Without(value % 64, 2)
    [] index \in {2, 4} -> value % 16
    [] index = 3 -> value % 64
    [] OTHER -> value
GraphicsBits(index, value) ==
  CASE index \in {0, 1, 2, 6, 7} -> value % 16
    [] index = 3 -> value % 32
    [] index = 4 -> value % 4
    [] index = 5 -> Without(value % 128, 4)
    [] OTHER -> value
CrtcBits(index, value) ==
  CASE index \in {8, 11, 20} -> value % 128
    [] index = 10 -> value % 64
    [] OTHER -> value
FeatureBits(value) == IF Has(value, 8) THEN 8 ELSE 0

(***************************************************************************)
(* The palette VGA starts with: 16 CGA colours, 16 greys, nine cycles of   *)
(* 24 hues, and black.                                                     *)
(***************************************************************************)
Greys == <<0, 5, 8, 11, 14, 17, 20, 24, 28, 32, 36, 40, 45, 50, 56, 63>>
Ramps == << <<0, 16, 31, 47, 63>>, <<31, 39, 47, 55, 63>>, <<45, 49, 54, 58, 63>>,
            <<0, 7, 14, 21, 28>>, <<14, 17, 21, 24, 28>>, <<20, 22, 24, 26, 28>>,
            <<0, 4, 8, 12, 16>>, <<8, 10, 12, 14, 16>>, <<11, 12, 13, 15, 16>> >>
CgaColour(c) ==
  LET part(on) == IF c >= 8 THEN IF on THEN 63 ELSE 21 ELSE IF on THEN 42 ELSE 0
  IN  <<part(Has(c, 4)), IF c = 6 THEN 21 ELSE part(Has(c, 2)), part(Has(c, 1))>>
\* Hue k of a cycle goes from corner k \div 4 of the colour cube to the next.
Corner == <<1, 5, 4, 6, 2, 3, 1>>
Hue(ramp, k) ==
  LET from == Corner[k \div 4 + 1]
      to == Corner[k \div 4 + 2]
      part(b) == ramp[CASE Has(from, b) = Has(to, b) -> IF Has(from, b) THEN 5 ELSE 1
                        [] Has(to, b) -> (k % 4) + 1
                        [] OTHER -> 5 - (k % 4)]
  IN  <<part(4), part(2), part(1)>>
DefaultColour == [i \in 0 .. 255 |->
  CASE i < 16 -> CgaColour(i)
    [] i < 32 -> <<Greys[i - 15], Greys[i - 15], Greys[i - 15]>>
    [] i < 248 -> Hue(Ramps[(i - 32) \div 24 + 1], (i - 32) % 24)
    [] OTHER -> <<0, 0, 0>>]
Colour(dac, i) == IF i \in DOMAIN dac THEN dac[i] ELSE DefaultColour[i]

(***************************************************************************)
(* What the display reads out of the registers.                            *)
(***************************************************************************)
Masked(v, i) == IF v.pelMask = 255 THEN i ELSE And(i, v.pelMask)
\* vgaAttributeColorOutput: palette register, then the colour select bits.
ColourOutput(v, index) ==
  LET pal == v.attr[And(index, v.attr[18] % 16)]
      middle == IF Has(v.attr[16], 128) THEN v.attr[20] % 4 ELSE (pal \div 16) % 4
  IN  (pal % 16) + 16 * middle + 64 * ((v.attr[20] \div 4) % 4)
OverscanOutput(v) ==
  LET border == v.attr[17] % 64
      middle == IF Has(v.attr[16], 128) THEN v.attr[20] % 4 ELSE border \div 16
  IN  IF v.mode = "Vga320x200x256" THEN border
      ELSE (border % 16) + 16 * middle + 64 * ((v.attr[20] \div 4) % 4)
ShownColours(v) ==
  [i \in 0 .. 16 |-> Colour(v.dac, Masked(v, IF i = 16 THEN OverscanOutput(v) ELSE ColourOutput(v, i)))]
DisplayEnabled(v) ==
  /\ Has(v.enable, 1) /\ v.attrVideo /\ Has(v.crtc[23], 128)
  /\ v.seq[0] % 4 = 3 /\ ~Has(v.seq[1], 32)
MonoSelected(v) ==
  v.mode # "Hercules" /\ (v.bda.crtcBase = \h3B4 \/ ~Has(v.misc, 1))
StartAddress(v) == 256 * v.crtc[12] + v.crtc[13]
Lesser(a, b) == IF a < b THEN a ELSE b

\* The picture: registers 7, 9 and 12h share the line numbers' bits.
Chain4(v) == Has(v.seq[4], 8)
VerticalDisplayEnd(v) ==
  v.crtc[18] + (IF Has(v.crtc[7], 2) THEN 256 ELSE 0) + (IF Has(v.crtc[7], 64) THEN 512 ELSE 0)
LineCompare(v) ==
  v.crtc[24] + (IF Has(v.crtc[7], 16) THEN 256 ELSE 0) + (IF Has(v.crtc[9], 64) THEN 512 ELSE 0)
Mode13Height(v) == \* unchained, the display may show up to 480 lines
  LET lines == VerticalDisplayEnd(v) + 1
  IN  IF lines < 200 THEN 200 ELSE Lesser(lines, IF Chain4(v) THEN 200 ELSE 480)
Width(v) ==
  CASE v.mode \in {"Cga320x200x4", "Vga320x200x16", "Vga320x200x256"} -> 320
    [] v.mode = "Hercules" -> 720
    [] OTHER -> 640
Height(v) ==
  CASE v.mode \in {"Vga640x350x2", "Vga640x350x16"} -> 350
    [] v.mode \in {"Vga640x480x2", "Vga640x480x16"} -> 480
    [] v.mode = "Vga320x200x256" -> Mode13Height(v)
    [] v.mode = "Hercules" -> 348
    [] v.mode = "Text80" -> 400
    [] OTHER -> 200

(***************************************************************************)
(* The renderer's copies, each refreshed by an update of its own.          *)
(***************************************************************************)
\* PcTextRenderer::setRows and setColumns pull the cursor inside.
WithRows(t, rows) ==
  LET n == IF rows \in 1 .. 50 THEN rows ELSE 25
  IN  [t EXCEPT !.rows = n, !.cursor[1] = Lesser(@, n - 1)]
WithColumns(t, columns) ==
  LET n == IF columns \in {40, 80} THEN columns ELSE 80
  IN  [t EXCEPT !.columns = n, !.cursor[2] = Lesser(@, n - 1)]
WithCellHeight(t, height) == WithRows([t EXCEPT !.cellHeight = height], 400 \div height)

UpdatePalette(v) == [v EXCEPT !.text.colours = ShownColours(v)]
UpdateModeControl(v) ==
  [v EXCEPT !.text.lineGraphics = Has(v.attr[16], 4), !.text.nineDot = ~Has(v.seq[1], 1)]
UpdatePanning(v) == [v EXCEPT !.text.panning = v.attr[19] % 16]
UpdateDisplay(v) == [v EXCEPT !.text.display = DisplayEnabled(v)]
UpdateFontMap(v) == [v EXCEPT !.text.fontMap = v.seq[3]]
UpdateUnderline(v) == [v EXCEPT !.text.underline = v.crtc[20] % 32]
UpdateShape(v) == [v EXCEPT !.text.shape = <<v.crtc[10], v.crtc[11]>>]
CrtcCursor(v) ==
  LET columns == IF v.bda.columns \in {40, 80} THEN v.bda.columns ELSE 80
      cell == (256 * v.crtc[14] + v.crtc[15] - StartAddress(v)) % 65536
  IN  <<(cell \div columns) % 256, cell % columns>>
UpdateCursor(v) ==
  IF v.mode # "Text80" THEN v
  ELSE [v EXCEPT !.text.cursor = CrtcCursor(v), !.text.cursorOn = CrtcCursor(v)[1] < 25]
UpdateCellHeight(v) ==
  LET height == (v.crtc[9] % 32) + 1
      t == WithCellHeight(v.text, height)
  IN  IF v.mode # "Text80" \/ height \notin {8, 14, 16} THEN v
      ELSE UpdateCursor([v EXCEPT !.text = t, !.bda.cell = height, !.bda.rows = t.rows - 1])

(***************************************************************************)
(* OUT.                                                                    *)
(***************************************************************************)
SetEquipment(v, bits) == [v EXCEPT !.bda.equipment = bits]
SyncCga(v) ==
  LET m == v.mode
  IN  [v EXCEPT !.bda = [@ EXCEPT !.videoMode = CASE m = "Cga320x200x4" -> 4 [] m = "Cga640x200x2" -> 6 [] OTHER -> 3,
                                  !.columns = IF m = "Cga320x200x4" THEN 40 ELSE 80,
                                  !.pageSize = IF m \in CgaGraphics THEN 16384 ELSE 4096,
                                  !.pageOffset = 0, !.page = 0, !.crtcBase = \h3D4,
                                  !.modeControl = v.cgaMode, !.colorSelect = v.cgaColor]]

\* CRTC data: registers 0 to 7 are read-only while bit 7 of 11h is set, but
\* for the line compare bit in 7.
CrtcData_StartOnly(v, value) ==
  LET i == v.crtcIndex
      w == [v EXCEPT !.crtc[i] = CrtcBits(i, value)]
  IN  CASE Has(v.crtc[17], 128) /\ i < 7 -> v
        [] Has(v.crtc[17], 128) /\ i = 7 ->
             [v EXCEPT !.crtc[7] = IF Has(value, 16) THEN With(@, 16) ELSE Without(@, 16)]
        [] i \in {10, 11} -> UpdateShape(w)
        [] i = 9 -> UpdateCellHeight(w)
        [] i \in {14, 15} -> UpdateCursor(w)
        [] i = 20 -> UpdateUnderline(w)
        [] i = 23 -> UpdateDisplay(w)
        [] OTHER -> w
CrtcData(v, value) ==
  LET i == v.crtcIndex
      w == [v EXCEPT !.crtc[i] = CrtcBits(i, value)]
  IN  CASE Has(v.crtc[17], 128) /\ i < 7 -> v
        [] Has(v.crtc[17], 128) /\ i = 7 ->
             [v EXCEPT !.crtc[7] = IF Has(value, 16) THEN With(@, 16) ELSE Without(@, 16)]
        [] i \in {10, 11} -> UpdateShape(w)
        [] i = 9 -> UpdateCellHeight(w)
        [] i \in 12 .. 15 -> UpdateCursor(w)
        [] i = 20 -> UpdateUnderline(w)
        [] i = 23 -> UpdateDisplay(w)
        [] OTHER -> w
\* The monochrome port reaches the same registers when it is selected.
MonoIndex(v, value) ==
  LET w == [v EXCEPT !.hercIndex = value % 32]
  IN  IF MonoSelected(v) THEN [w EXCEPT !.crtcIndex = value % 32] ELSE w
MonoData(v, value) ==
  LET w == [v EXCEPT !.herc[v.hercIndex] = value]
  IN  IF MonoSelected(v) THEN CrtcData(w, value) ELSE w
HerculesMode(v, value) ==
  SetEquipment([v EXCEPT !.hercMode = value, !.hercVideo = Has(value, 8),
                         !.mode = IF Has(value, 2) THEN "Hercules" ELSE "Text80"], 48)
HerculesConfig(v, value) ==
  LET w == [v EXCEPT !.hercConfig = value % 4]
  IN  IF Has(value, 1) THEN SetEquipment(w, 48) ELSE w
CgaModeControl(v, value) ==
  LET w == [v EXCEPT !.cgaMode = value, !.bda.modeControl = value]
      graphics == IF Has(value, 16) THEN "Cga640x200x2" ELSE "Cga320x200x4"
  IN  CASE Has(value, 2) -> SyncCga(SetEquipment([w EXCEPT !.mode = graphics], 32))
        [] ~Has(value, 2) /\ v.mode \in CgaGraphics -> SyncCga([w EXCEPT !.mode = "Text80"])
        [] OTHER -> w

\* 3C0 takes an index and its data in turn; reading the status port starts over.
AttributeRegister(v, value) ==
  LET i == v.attrIndex
      bits == AttributeBits(i, value)
      w == [v EXCEPT !.attr[i] = bits]
      blink == [w EXCEPT !.text.blink = Has(bits, 8),
                         !.bda.modeControl = IF Has(bits, 8) THEN With(@, 32) ELSE Without(@, 32)]
  IN  UpdatePalette(CASE i = 16 -> UpdateModeControl(blink)
                      [] i = 19 -> UpdatePanning(w)
                      [] OTHER -> w)
AttributePort(v, value) ==
  LET w == IF v.attrData THEN AttributeRegister(v, value)
           ELSE [v EXCEPT !.attrIndex = value % 32, !.attrVideo = Has(value, 32)]
  IN  UpdateDisplay([w EXCEPT !.attrData = ~v.attrData])

SequencerData(v, value) ==
  LET i == v.seqIndex
      w == [v EXCEPT !.seq[i] = SequencerBits(i, value)]
  IN  CASE i = 3 -> UpdateFontMap(w)
        [] i = 1 -> UpdateDisplay(UpdateModeControl(w))
        [] i = 0 -> UpdateDisplay(w)
        [] OTHER -> w

\* The DAC: a mask, and two cursors of entry and component.
DacMask(v, value) ==
  LET w == [v EXCEPT !.maskReads = 0]
  IN  IF v.maskReads >= 4 THEN [w EXCEPT !.dacCommand = value]
      ELSE UpdatePalette([w EXCEPT !.pelMask = value])
Step3(cursor) == IF cursor[2] < 2 THEN <<cursor[1], cursor[2] + 1>> ELSE <<(cursor[1] + 1) % 256, 0>>
DacWrite(v, value) ==
  LET colour == [Colour(v.dac, v.writeAt[1]) EXCEPT ![v.writeAt[2] + 1] = value % 64]
  IN  UpdatePalette([v EXCEPT !.maskReads = 0, !.dacState = 0, !.writeAt = Step3(@),
                              !.dac = Update(@, v.writeAt[1] :> colour)])

WritePort(v, port, value) ==
  CASE port = \h3B4 -> MonoIndex(v, value)
    [] port = \h3B5 -> MonoData(v, value)
    [] port = \h3B8 -> HerculesMode(v, value)
    [] port = \h3BF -> HerculesConfig(v, value)
    [] port = \h3C0 -> AttributePort(v, value)
    [] port = \h3C2 -> IF v.mode = "Hercules" THEN [v EXCEPT !.misc = value]
                     ELSE [v EXCEPT !.misc = value, !.bda.crtcBase = IF Has(value, 1) THEN \h3D4 ELSE \h3B4]
    [] port = \h3C3 -> UpdateDisplay([v EXCEPT !.enable = value % 2])
    [] port = \h3C4 -> [v EXCEPT !.seqIndex = value % 8]
    [] port = \h3C5 -> SequencerData(v, value)
    [] port = \h3C6 -> DacMask(v, value)
    [] port = \h3C7 -> [v EXCEPT !.maskReads = 0, !.readAt = <<value, 0>>, !.dacState = 3]
    [] port = \h3C8 -> [v EXCEPT !.maskReads = 0, !.writeAt = <<value, 0>>, !.dacState = 0]
    [] port = \h3C9 -> DacWrite(v, value)
    [] port \in {\h3BA, \h3CA, \h3DA} -> [v EXCEPT !.feature = FeatureBits(value)]
    [] port = \h3CE -> [v EXCEPT !.gcIndex = value % 16]
    [] port = \h3CF -> [v EXCEPT !.gc[v.gcIndex] = GraphicsBits(v.gcIndex, value)]
    [] port = \h3D4 -> [v EXCEPT !.crtcIndex = value % 32]
    [] port = \h3D5 -> CrtcData(v, value)
    [] port = \h3D8 -> CgaModeControl(v, value)
    [] port = \h3D9 -> [v EXCEPT !.cgaColor = value, !.bda.colorSelect = value]

(***************************************************************************)
(* IN.                                                                     *)
(***************************************************************************)
PortValue(v, port) ==
  CASE port = \h3B4 -> IF MonoSelected(v) THEN v.crtcIndex ELSE v.hercIndex
    [] port = \h3B5 -> IF MonoSelected(v) THEN v.crtc[v.crtcIndex] ELSE v.herc[v.hercIndex]
    [] port = \h3B8 -> v.hercMode
    [] port = \h3BF -> v.hercConfig
    [] port = \h3C0 -> v.attrIndex + IF v.attrVideo THEN 32 ELSE 0
    [] port = \h3C1 -> v.attr[v.attrIndex]
    [] port = \h3C5 -> v.seq[v.seqIndex]
    [] port = \h3C6 -> IF v.maskReads >= 4 THEN v.dacCommand ELSE v.pelMask
    [] port = \h3C7 -> v.dacState
    [] port = \h3C8 -> v.writeAt[1]
    [] port = \h3C9 -> Colour(v.dac, v.readAt[1])[v.readAt[2] + 1]
    [] port = \h3C3 -> v.enable
    [] port = \h3C4 -> v.seqIndex
    [] port = \h3CA -> v.feature
    [] port = \h3CE -> v.gcIndex
    [] port = \h3D4 -> v.crtcIndex
    [] port = \h3D8 -> v.cgaMode
    [] port = \h3D9 -> v.cgaColor
    [] port = \h3CC -> v.misc
    [] port = \h3CF -> v.gc[v.gcIndex]
    [] port = \h3D5 -> v.crtc[v.crtcIndex]
AfterRead(v, port) ==
  CASE port = \h3C6 -> [v EXCEPT !.maskReads = IF @ >= 4 THEN 0 ELSE @ + 1]
    [] port \in {\h3C7, \h3C8} -> [v EXCEPT !.maskReads = 0]
    [] port = \h3C9 -> [v EXCEPT !.maskReads = 0, !.readAt = Step3(@)]
    [] port = \h3DA \/ (port = \h3BA /\ MonoSelected(v)) -> [v EXCEPT !.attrData = FALSE]
    [] OTHER -> v
=============================================================================
