----------------------------- MODULE VideoBios -----------------------------
(***************************************************************************)
(* INT 10h: the video services of PcBios, which reach the adapter through  *)
(* the same ports as the guest.  A machine m is the adapter with the       *)
(* video state of the BIOS, [v |-> adapter, b |-> PcBios].                 *)
(***************************************************************************)
EXTENDS VgaRegisters

In(m, v) == [m EXCEPT !.v = v]
Outs(v, writes) ==
  LET after[i \in 0 .. Len(writes)] ==
        IF i = 0 THEN v ELSE LET before == after[i - 1] IN WritePort(before, writes[i][1], writes[i][2])
  IN  after[Len(writes)]
Indexed(v, port, index, value) == Outs(v, << <<port, index>>, <<port + 1, value>> >>)

(***************************************************************************)
(* Reset and PcMachine::setVideoMode.                                      *)
(***************************************************************************)
BlankRegisters(n) == [i \in 0 .. n |-> 0]
DefaultAttributes == [i \in 0 .. 31 |->
  CASE i < 16 -> i [] i = 16 -> 12 [] i = 18 -> 15 [] OTHER -> 0]
DefaultGraphics == Update(BlankRegisters(15), [i \in {6, 7, 8} |->
  CASE i = 6 -> 5 [] i = 7 -> 15 [] i = 8 -> 255])
DefaultSequencer == Update(BlankRegisters(7), [i \in {0, 2} |-> IF i = 0 THEN 3 ELSE 15])
Reset(v) == \* the part of setVideoMode every mode but Hercules shares
  [v EXCEPT !.dac = <<>>, !.readAt = <<0, 0>>, !.writeAt = <<0, 0>>, !.pelMask = 255, !.maskReads = 0,
            !.dacCommand = 0, !.dacState = 0, !.misc = \h63, !.feature = 0, !.enable = 1, !.cgaColor = 0,
            !.attrIndex = 0, !.attrData = FALSE, !.attrVideo = TRUE, !.attr = DefaultAttributes,
            !.text.blink = TRUE, !.seqIndex = 0, !.seq = DefaultSequencer,
            !.gcIndex = 0, !.gc = DefaultGraphics, !.latch = BlankRegisters(3)]
TextRegisters(v) ==
  [v EXCEPT !.text = WithColumns(@, 80), !.cgaMode = \h29, !.attr[19] = 8,
            !.crtc = Update(@, [i \in (10 .. 15) \cup {20, 23} |->
              CASE i = 10 -> 6 [] i = 11 -> 7 [] i = 20 -> 31 [] i = 23 -> 128 [] OTHER -> 0])]
DisplayEndFor(mode) ==
  CASE mode \in {"Vga640x350x2", "Vga640x350x16"} -> 349
    [] mode \in {"Vga640x480x2", "Vga640x480x16"} -> 479
    [] OTHER -> 199
GraphicsRegisters(v, mode) ==
  LET end == DisplayEndFor(mode)
      wide == mode = "Vga320x200x256"
      crtc == [i \in {7, 8, 9, 12, 13, 17, 18, 19, 20, 23, 24} |->
        CASE i = 7 -> 16 + (IF Has(end, 256) THEN 2 ELSE 0) + (IF Has(end, 512) THEN 64 ELSE 0)
          [] i = 9 -> 64
          [] i = 18 -> end % 256
          [] i = 19 -> IF mode = "Vga320x200x16" THEN 20 ELSE 40
          [] i = 20 -> IF wide THEN 64 ELSE 0
          [] i = 23 -> IF wide THEN 128 ELSE 192
          [] i = 24 -> 255
          [] OTHER -> 0]
      attr == [i \in {16, 18, 19} |->
        CASE i = 16 -> IF wide THEN 65 ELSE 1
          [] i = 18 -> IF mode \in TwoColorModes THEN 1 ELSE 15
          [] OTHER -> 0]
      memory == CASE wide -> 14 [] mode \in PlanarModes -> 6 [] OTHER -> v.seq[4]
      w == [v EXCEPT !.crtc = Update(@, crtc), !.attr = Update(@, attr), !.gc[5] = IF wide THEN 64 ELSE 0,
                     !.seq[1] = 0, !.seq[4] = memory]
  IN  CASE mode \in TwoColorModes -> [w EXCEPT !.attr[1] = 15]
        [] mode = "Cga320x200x4" -> [w EXCEPT !.cgaMode = 10]
        [] mode = "Cga640x200x2" -> [w EXCEPT !.cgaMode = 26, !.cgaColor = 15]
        [] OTHER -> w
UpdateText(v) ==
  UpdateDisplay(UpdatePanning(UpdateModeControl(UpdateCursor(UpdateShape(UpdateUnderline(
    UpdateFontMap(UpdatePalette(v))))))))
\* resetState FALSE changes the mode alone.
ChangeMode(v, mode) == [v EXCEPT !.mode = mode, !.hercVideo = mode = "Hercules"]
SetVideoMode(v, mode) ==
  LET w == Reset(ChangeMode(v, mode))
      r == IF mode = "Text80" THEN TextRegisters(w) ELSE GraphicsRegisters(w, mode)
  IN  UpdateText([r EXCEPT !.bda.modeControl = r.cgaMode, !.bda.colorSelect = r.cgaColor])

\* PcMachine::reset, then initializeBiosDataArea: 80x25 colour text.
PowerOn ==
  LET crtc == Update(BlankRegisters(31), [i \in {7, 9, 10, 11, 19, 20, 23, 24} |->
        CASE i = 7 -> 16 [] i = 9 -> 64 [] i = 10 -> 6 [] i = 11 -> 7 [] i = 19 -> 40
          [] i = 20 -> 31 [] i = 23 -> 128 [] i = 24 -> 255])
      text == [columns |-> 80, rows |-> 25, cellHeight |-> 16, cursor |-> <<0, 0>>, cursorOn |-> FALSE,
               blink |-> TRUE, lineGraphics |-> TRUE, nineDot |-> TRUE, panning |-> 8, display |-> TRUE,
               underline |-> 31, shape |-> <<6, 7>>, fontMap |-> 0, colours |-> <<>>]
      bda == [videoMode |-> 3, columns |-> 80, pageSize |-> 4096, pageOffset |-> 0, page |-> 0,
              crtcBase |-> \h3D4, modeControl |-> \h29, colorSelect |-> 0, rows |-> 24, cell |-> 16,
              equipment |-> 32, cursors |-> [p \in 0 .. 7 |-> <<0, 0>>]]
  IN  UpdatePalette([mode |-> "Text80", crtcIndex |-> 0, crtc |-> crtc, cgaMode |-> \h29, cgaColor |-> 0,
       misc |-> \h63, feature |-> 0, enable |-> 1,
       attrIndex |-> 0, attrData |-> FALSE, attrVideo |-> TRUE, attr |-> [DefaultAttributes EXCEPT ![19] = 8],
       seqIndex |-> 0, seq |-> DefaultSequencer, gcIndex |-> 0, gc |-> DefaultGraphics, latch |-> BlankRegisters(3),
       readAt |-> <<0, 0>>, writeAt |-> <<0, 0>>, pelMask |-> 255, maskReads |-> 0, dacCommand |-> 0,
       dacState |-> 0, dac |-> <<>>, hercIndex |-> 0, herc |-> BlankRegisters(31), hercConfig |-> 1,
       hercMode |-> 0, hercVideo |-> FALSE, bda |-> bda, text |-> text])
BiosReset == [colorPage |-> 0, loadPalette |-> TRUE, grayScale |-> FALSE, page |-> 0]

(***************************************************************************)
(* Registers the BIOS reaches behind the guest's back.                     *)
(***************************************************************************)
DacFields(v) == [readAt |-> v.readAt, writeAt |-> v.writeAt, pelMask |-> v.pelMask, dacState |-> v.dacState,
                 maskReads |-> v.maskReads, dacCommand |-> v.dacCommand]
SetDacState(v, d) ==
  UpdatePalette([v EXCEPT !.readAt = d.readAt, !.writeAt = d.writeAt, !.pelMask = d.pelMask,
                          !.dacState = d.dacState, !.maskReads = Lesser(d.maskReads, 4),
                          !.dacCommand = d.dacCommand])
AttributeFields(v) == [index |-> v.attrIndex, data |-> v.attrData, video |-> v.attrVideo]
SetAttributeState(v, a) ==
  LET w == [v EXCEPT !.attrIndex = a.index, !.attrData = a.data, !.attrVideo = a.video,
                     !.text.blink = Has(v.attr[16], 8)]
  IN  UpdateDisplay(UpdatePalette(UpdatePanning(UpdateModeControl(w))))

\* The status port puts 3C0 back to the index; bit 5 keeps the screen on.
SelectAttribute(v, i) == WritePort(AfterRead(v, \h3DA), \h3C0, i + 32)
WriteAttribute_NoSync(v, i, value) ==
  SetAttributeState(Outs(v, << <<\h3C0, i + 32>>, <<\h3C0, value>> >>), AttributeFields(v))
WriteAttribute(v, i, value) ==
  SetAttributeState(WritePort(SelectAttribute(v, i), \h3C0, value), AttributeFields(v))
\* A sweep of WriteAttribute over several registers: the copies are refreshed last.
WriteAttributes(v, values) ==
  LET w == [v EXCEPT !.attr = Update(@, [i \in DOMAIN values |-> AttributeBits(i, values[i])])]
      blink(x) == [x EXCEPT !.bda.modeControl = IF Has(w.attr[16], 8) THEN With(@, 32) ELSE Without(@, 32)]
  IN  SetAttributeState(IF 16 \in DOMAIN values THEN blink(w) ELSE w, AttributeFields(v))
ReadAttribute(v, i) == PortValue(SelectAttribute(v, i), \h3C1)
AfterReadAttribute(v) == SetAttributeState(SelectAttribute(v, 0), AttributeFields(v))

Gray(c) ==
  LET g == (30 * c[1] + 59 * c[2] + 11 * c[3] + 50) \div 100 IN <<g, g, g>>
GraySum(v, first, count) ==
  LET entries == {(first + i) % 256 : i \in 0 .. count - 1}
      w == [v EXCEPT !.dac = Update(@, [i \in entries |-> Gray(Colour(v.dac, i))])]
  IN  SetDacState(w, DacFields(v))

(***************************************************************************)
(* Mode, cursor, page and palette services.                                *)
(***************************************************************************)
ModeOf(biosMode) ==
  CASE biosMode \in {4, 5} -> "Cga320x200x4" [] biosMode = 6 -> "Cga640x200x2"
    [] biosMode = \hD -> "Vga320x200x16"     [] biosMode = \hE -> "Vga640x200x16"
    [] biosMode = \hF -> "Vga640x350x2"      [] biosMode = \h10 -> "Vga640x350x16"
    [] biosMode = \h11 -> "Vga640x480x2"     [] biosMode = \h12 -> "Vga640x480x16"
    [] biosMode = \h13 -> "Vga320x200x256"   [] OTHER -> "Text80"
CgaControlFor(biosMode) ==
  CASE biosMode = 0 -> \h2C [] biosMode = 1 -> \h28 [] biosMode = 2 -> \h2D [] biosMode = 4 -> \hA
    [] biosMode = 5 -> \hE [] biosMode = 6 -> \h1A [] OTHER -> \h29
PageSizeOf(biosMode) ==
  CASE biosMode <= 1 -> \h800 [] biosMode \in {2, 3, 7} -> \h1000 [] biosMode \in {4, 5, 6, 14} -> \h4000
    [] biosMode = 13 -> \h2000 [] biosMode \in {15, 16} -> \h8000 [] biosMode = \h13 -> \hFA00
    [] OTHER -> 0
SetCga(v, control, select) ==
  [v EXCEPT !.cgaMode = control, !.cgaColor = select, !.bda.modeControl = control, !.bda.colorSelect = select]

CellFor(biosMode) == CASE biosMode \in {15, 16} -> 14 [] biosMode \in {17, 18} -> 16 [] OTHER -> 8
TextRows(v) == IF v.mode = "Text80" THEN v.bda.rows + 1 ELSE Lesser(50, Height(v) \div CellFor(v.bda.videoMode))
TextColumns(v) == IF v.bda.columns = 40 THEN 40 ELSE 80
SetCursor(m, page, row, column) ==
  LET v == m.v
      at == <<Lesser(row, TextRows(v) - 1), Lesser(column, TextColumns(v) - 1)>>
      w == [v EXCEPT !.bda.cursors[page] = at]
  IN  IF page # v.bda.page THEN In(m, w)
      ELSE [In(m, [w EXCEPT !.text.cursor = at, !.text.cursorOn = TRUE]) EXCEPT !.b.page = page]

ClearTextScreen(m, keep) == IF keep THEN m ELSE SetCursor(m, 0, 0, 0)
TextMode(m, biosMode, keep) ==
  LET columns == IF biosMode <= 1 THEN 40 ELSE 80
      base == SetVideoMode(m.v, "Text80")
      w == [base EXCEPT !.text = WithRows(WithCellHeight(WithColumns(@, columns), 16), 25),
                        !.bda.rows = 24, !.bda.cell = 16]
      d == [w EXCEPT !.bda = [@ EXCEPT !.videoMode = biosMode, !.columns = columns, !.pageSize = PageSizeOf(biosMode),
                                       !.pageOffset = 0, !.page = 0,
                                       !.crtcBase = IF biosMode = 7 THEN \h3B4 ELSE \h3D4,
                                       !.equipment = IF biosMode = 7 THEN 48 ELSE 32]]
      c == IF biosMode = 7 THEN d ELSE SetCga(d, CgaControlFor(biosMode), 0)
  IN  ClearTextScreen([m EXCEPT !.v = c, !.b.page = 0], keep)
GraphicsMode(m, biosMode) ==
  LET base == SetVideoMode(m.v, ModeOf(biosMode))
      d == [base EXCEPT !.bda = [@ EXCEPT !.videoMode = biosMode,
                                          !.columns = IF biosMode \in {4, 5, 13, 19} THEN 40 ELSE 80,
                                          !.pageSize = PageSizeOf(biosMode), !.pageOffset = 0, !.page = 0,
                                          !.crtcBase = \h3D4, !.equipment = 32]]
      c == IF biosMode <= 6 THEN SetCga(d, CgaControlFor(biosMode), IF biosMode = 6 THEN 15 ELSE 0) ELSE d
  IN  In(m, [c EXCEPT !.bda.cell = CellFor(biosMode), !.bda.rows = (Height(c) \div CellFor(biosMode)) - 1])

\* With default palette loading off (AH=12h BL=31h) the colours survive.
SetPaging(v, on) == WriteAttribute(v, 16, IF on THEN With(ReadAttribute(v, 16), 128) ELSE Without(ReadAttribute(v, 16), 128))
KeepPalette(m, old) ==
  LET back == WriteAttributes(m.v, [i \in (0 .. 15) \cup {17, 20} |-> ReadAttribute(old.v, i)])
      paged == Has(ReadAttribute(old.v, 16), 128)
      colours == [WritePort(SetPaging(back, paged), \h3C6, old.v.pelMask) EXCEPT !.dac = old.v.dac]
  IN  [v |-> SetAttributeState(SetDacState(colours, DacFields(old.v)), AttributeFields(old.v)),
       b |-> [m.b EXCEPT !.colorPage = IF paged THEN 1 ELSE 0]]
LoadPalette(m, old) ==
  CASE ~old.b.loadPalette -> KeepPalette(m, old)
    [] old.b.grayScale -> In(m, GraySum(m.v, 0, 256))
    [] OTHER -> m
SetMode(m, al) == \* bit 7 of AL keeps the screen
  LoadPalette([IF al % 128 <= 3 \/ al % 128 = 7 THEN TextMode(m, al % 128, al >= 128) ELSE GraphicsMode(m, al % 128)
                 EXCEPT !.b.colorPage = 0], m)

CursorShape(m, start, end) ==
  LET base == IF m.v.bda.crtcBase = \h3B4 THEN \h3B4 ELSE \h3D4
  IN  In(m, Indexed(Indexed(m.v, base, 10, start), base, 11, end))
PageOffset(v, page) == (page * (IF v.bda.pageSize = 0 /\ v.mode = "Text80" THEN 4096 ELSE v.bda.pageSize)) % 65536
\* vgaCrtcAddressUnitBytes, and the BIOS copy of it
AddressUnit(v) == CASE Has(v.crtc[20], 64) -> 4 [] Has(v.crtc[23], 64) -> 1 [] OTHER -> 2
StartFor(v, offset) ==
  CASE v.mode = "Text80" -> offset \div 2
    [] v.mode \in VgaGraphics -> offset \div AddressUnit(v)
    [] OTHER -> offset
\* The page's own cursor, kept inside the screen; graphics pages leave it.
PlaceOn(v, page) ==
  <<Lesser(v.bda.cursors[page][1], TextRows(v) - 1), Lesser(v.bda.cursors[page][2], TextColumns(v) - 1)>>
PageCursor(v, page) ==
  IF v.mode = "Text80" THEN [v EXCEPT !.text.cursor = PlaceOn(v, page), !.text.cursorOn = TRUE] ELSE v
SelectPage(m, page) ==
  LET start == StartFor(m.v, PageOffset(m.v, page))
      v == [m.v EXCEPT !.bda.page = page, !.bda.pageOffset = PageOffset(m.v, page)]
  IN  [v |-> PageCursor(Indexed(Indexed(v, \h3D4, 12, start \div 256), \h3D4, 13, start % 256), page),
       b |-> [m.b EXCEPT !.page = page]]

\* setTextCellHeight: load a ROM font of this height, AH=11h; rows given by AH=12h BL=30h.
SetCellHeight(m, height, rows) ==
  LET metrics(v) == [v EXCEPT !.bda.rows = rows - 1, !.bda.cell = height,
                              !.text = WithRows(WithCellHeight(@, height), rows)]
      old == PortValue(WritePort(m.v, \h3D4, 9), \h3D5)
  IN  In(m, metrics(Indexed(metrics(m.v), \h3D4, 9, 32 * (old \div 32) + height - 1)))
RowsFor(height) == IF height = 8 THEN 50 ELSE 25

Border(m, colour) ==
  IF m.v.mode \in VgaGraphics \cup {"Text80"} THEN In(m, WriteAttribute(m.v, 17, colour % 64))
  ELSE In(m, WritePort(m.v, \h3D9, 16 * (m.v.cgaColor \div 16) + (colour % 16)))
Blinking(m, on) ==
  LET control == ReadAttribute(m.v, 16)
  IN  In(m, WriteAttribute(m.v, 16, IF on THEN With(control, 8) ELSE Without(control, 8)))
DacEntry(m, i, c) ==
  In(m, Outs(m.v, << <<\h3C8, i>>, <<\h3C9, c[1]>>, <<\h3C9, c[2]>>, <<\h3C9, c[3]>> >>))
PelMask(m, mask) == In(m, WritePort([m.v EXCEPT !.maskReads = 0], \h3C6, mask))
ColorPaging(m, sixteen) == \* AX=1013h BL=0
  [v |-> SetPaging(m.v, sixteen), b |-> [m.b EXCEPT !.colorPage = IF sixteen THEN 1 ELSE 0]]
ColorPage(m, page) ==      \* AX=1013h BL=1
  LET paged == Has(ReadAttribute(m.v, 16), 128)
      select == ReadAttribute(m.v, 20)
      value == IF paged THEN page % 16 ELSE (select % 4) + 4 * (page % 4)
  IN  [v |-> WriteAttribute(m.v, 20, value), b |-> [m.b EXCEPT !.colorPage = IF paged THEN 1 ELSE 0]]
MemoryAccess(m, on) == In(m, WritePort(m.v, \h3C2, IF on THEN With(m.v.misc, 2) ELSE Without(m.v.misc, 2)))
Refresh(m, on) ==
  LET clocking == PortValue(WritePort(m.v, \h3C4, 1), \h3C5)
  IN  In(m, Indexed(m.v, \h3C4, 1, IF on THEN Without(clocking, 32) ELSE With(clocking, 32)))

(***************************************************************************)
(* AH=1Ch: save and restore the state of the adapter.                      *)
(***************************************************************************)
SnapshotOf(m) ==
  LET v == m.v
      every(port, n) == [i \in 0 .. n |-> PortValue(WritePort(v, port, i), port + 1)]
  IN  [bios |-> [videoMode |-> v.bda.videoMode, page |-> v.bda.page, columns |-> v.bda.columns,
                 pageSize |-> v.bda.pageSize, pageOffset |-> v.bda.pageOffset, crtcBase |-> v.bda.crtcBase,
                 cursors |-> v.bda.cursors, colorPage |-> m.b.colorPage],
       misc |-> PortValue(v, \h3CC), feature |-> PortValue(v, \h3CA), enable |-> PortValue(v, \h3C3),
       seqIndex |-> PortValue(v, \h3C4), seq |-> every(\h3C4, 7),
       gcIndex |-> PortValue(v, \h3CE), gc |-> every(\h3CE, 15),
       crtcIndex |-> PortValue(v, \h3D4), crtc |-> every(\h3D4, 31),
       attr |-> [i \in 0 .. 31 |-> ReadAttribute(v, i)], attribute |-> AttributeFields(v),
       latch |-> v.latch, pelMask |-> v.pelMask, dac |-> v.dac, dacFields |-> DacFields(v)]
AfterSave(m, s) ==
  LET read == AfterReadAttribute(Outs(m.v, << <<\h3C4, 7>>, <<\h3CE, 15>>, <<\h3D4, 31>> >>))
      swept == [WritePort(read, \h3C7, 0) EXCEPT !.readAt = <<0, 0>>, !.maskReads = 0]
      back == Outs(swept, << <<\h3C4, s.seqIndex>>, <<\h3CE, s.gcIndex>>, <<\h3D4, s.crtcIndex>> >>)
  IN  In(m, SetAttributeState(SetDacState(back, s.dacFields), s.attribute))

RestoreBiosData(m, s) ==
  LET w == [m.v EXCEPT !.bda = Update(@, [f \in DOMAIN s.bios \ {"colorPage"} |-> s.bios[f]])]
  IN  [v |-> [w EXCEPT !.text = WithColumns(@, TextColumns(w))],
       b |-> [m.b EXCEPT !.page = s.bios.page, !.colorPage = s.bios.colorPage]]
\* Sweeps of Indexed over the registers of one controller.
RestoreSequencer(v, values) ==
  UpdateDisplay(UpdateModeControl(UpdateFontMap(
    [v EXCEPT !.seq = [i \in DOMAIN values |-> SequencerBits(i, values[i])]])))
RestoreCrtc(v, values) ==
  LET open == {i \in DOMAIN values : i > 7 \/ ~Has(v.crtc[17], 128)}
      w == [v EXCEPT !.crtc = Update(@, [i \in open |-> CrtcBits(i, values[i])])]
  IN  UpdateDisplay(UpdateUnderline(UpdateShape(UpdateCursor(UpdateCellHeight(w)))))
RestoreIndexes(v, s) ==
  LET w == Outs(v, << <<\h3C4, s.seqIndex>>, <<\h3CE, s.gcIndex>>, <<\h3D4, s.crtcIndex>> >>)
  IN  [SetAttributeState(w, s.attribute) EXCEPT !.latch = s.latch]
PagingRead(m, v) ==
  [v |-> AfterReadAttribute(v), b |-> [m.b EXCEPT !.colorPage = IF Has(ReadAttribute(v, 16), 128) THEN 1 ELSE 0]]
RestoreHardware(m, s) ==
  LET v1 == Outs(m.v, << <<\h3C2, s.misc>>, <<\h3DA, s.feature>>, <<\h3C3, s.enable>> >>)
      v2 == [RestoreSequencer(v1, s.seq) EXCEPT !.gc = [i \in 0 .. 15 |-> GraphicsBits(i, s.gc[i])]]
      v3 == Indexed(v2, \h3D4, 17, s.crtc[17] % 128) \* lift the write protection first
  IN  PagingRead(m, RestoreIndexes(WriteAttributes(RestoreCrtc(v3, s.crtc), s.attr), s))
RestoreDac(m, s) ==
  LET v == [WritePort(WritePort(m.v, \h3C6, s.pelMask), \h3C8, 0) EXCEPT !.dac = s.dac]
  IN  In(m, SetDacState(v, s.dacFields))
\* parts: what of {"hardware", "bios", "dac"} the state mask names.
RestoreMode(m, s, parts) ==
  IF parts \cap {"hardware", "bios"} = {} THEN m ELSE In(m, ChangeMode(m.v, ModeOf(s.bios.videoMode)))
RestoreCursor(m) ==
  SetCursor(m, m.b.page, m.v.bda.cursors[m.b.page][1], m.v.bda.cursors[m.b.page][2])
Restore(m, s, parts) ==
  LET data(x) == IF "bios" \in parts THEN RestoreBiosData(x, s) ELSE x
      hardware(x) == IF "hardware" \in parts THEN RestoreHardware(x, s) ELSE x
      dac(x) == IF "dac" \in parts THEN RestoreDac(x, s) ELSE x
      cursor(x) == IF "bios" \in parts THEN RestoreCursor(x) ELSE x
  IN  cursor(dac(hardware(data(RestoreMode(m, s, parts)))))
=============================================================================
