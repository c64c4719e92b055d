------------------------------- MODULE Video -------------------------------
(***************************************************************************)
(* A guest that drives the adapter through its ports, its memory and the   *)
(* INT 10h services in turn.  `deck` is what this guest uses: the BIOS     *)
(* mode it starts from and, for each operation, the arguments it gives.    *)
(* It does not change; the checked guests are chosen in the MC module.     *)
(***************************************************************************)
EXTENDS VideoBios, VgaDisplay

CONSTANTS Decks,     \* the guests: [mode, setup, args, steps]; setup is the
                     \* port writes, as pairs, the guest starts with
          SampleDots \* places <<x, y>> on the screen the properties look at

\* What a guest may ask: bytes for the ports the adapter decodes, the modes the
\* BIOS knows, and of the other services' arguments those that differ in effect.
Bytes == 0 .. 255
OutPorts == {\h3B4, \h3B5, \h3B8, \h3BA, \h3BF, \h3C0, \h3C2, \h3C3, \h3C4, \h3C5, \h3C6, \h3C7, \h3C8,
             \h3C9, \h3CA, \h3CE, \h3CF, \h3D4, \h3D5, \h3D8, \h3D9, \h3DA}
ModePorts == {\h3B8, \h3D8} \* the ones that change the mode
BiosModes == (0 .. 7) \cup (13 .. 19)
Legal == [out |-> Seq(OutPorts \X Bytes), mode |-> BiosModes \cup {mode + 128 : mode \in BiosModes},
          page |-> 0 .. 7, shape |-> Bytes \X Bytes, cursor |-> (0 .. 7) \X Bytes \X Bytes, cell |-> {8, 14, 16},
          border |-> Bytes, attribute |-> (0 .. 31) \X Bytes, blink |-> BOOLEAN,
          dac |-> Bytes \X (Bytes \X Bytes \X Bytes), paging |-> BOOLEAN, colourPage |-> Bytes, mask |-> Bytes,
          access |-> BOOLEAN, refresh |-> BOOLEAN, restore |-> SUBSET {"hardware", "bios", "dac"}]
ASSUME DecksAssumption ==
  \A d \in Decks :
    /\ d.mode \in BiosModes /\ d.setup \in Seq((OutPorts \ ModePorts) \X Bytes)
    /\ \A name \in DOMAIN d.args \cap DOMAIN Legal : d.args[name] \subseteq Legal[name]

VARIABLES deck,
          vga, bios,  \* the adapter and the BIOS
          memory,     \* video memory, what differs from zero
          snapshot,   \* AH=1Ch's save area, as SnapshotOf; <<>> before a save
          savedFrom,  \* ghost: the machine that was saved
          origin,     \* ghost: what set the mode last, "mode", "restore" or "port"
          paged,      \* ghost: nobody has moved the display since the BIOS chose a page
          last,       \* ghost: the operation just done
          left        \* bound: operations the guest still does

vars == <<deck, vga, bios, memory, snapshot, savedFrom, origin, paged, last, left>>
Machine == [v |-> vga, b |-> bios]
Args(operation) == IF operation \in DOMAIN deck.args THEN deck.args[operation] ELSE {}

\* Of the spaces a text mode fills the screen with, those a CGA mode would show
\* as one of the dots.
Kept == {FlatByte([mode |-> mode], 0, dot[1], dot[2]) : mode \in CgaGraphics, dot \in SampleDots}

StartOf(d) ==
  LET m == SetMode([v |-> PowerOn, b |-> BiosReset], d.mode) IN In(m, Outs(m.v, d.setup))
Init ==
  /\ deck \in Decks
  /\ vga = StartOf(deck).v /\ bios = StartOf(deck).b
  /\ memory = Cleared(vga, <<>>, Kept) /\ snapshot = <<>> /\ savedFrom = <<>>
  /\ origin = "mode" /\ paged = (deck.setup = <<>>)
  /\ last = "start" /\ left = deck.steps

Step(name) == left > 0 /\ left' = left - 1 /\ last' = name /\ UNCHANGED deck
Becomes(m) == vga' = m.v /\ bios' = m.b
SameGhosts == UNCHANGED <<snapshot, savedFrom, origin, paged>>

(***************************************************************************)
(* The guest's own accesses.                                               *)
(***************************************************************************)
Out == \* a byte OUT, or a word OUT, which is two
  /\ Step("out")
  /\ \E writes \in Args("out") :
       LET switched == \E i \in DOMAIN writes : writes[i][1] \in ModePorts
       IN  /\ Becomes(In(Machine, Outs(vga, writes)))
           /\ origin' = IF switched THEN "port" ELSE origin
           /\ paged' = (paged /\ ~switched /\ Start(vga') = Start(vga))
  /\ UNCHANGED <<memory, snapshot, savedFrom>>
Inp ==
  /\ Step("in")
  /\ \E port \in Args("in") : Becomes(In(Machine, AfterRead(vga, port)))
  /\ UNCHANGED memory /\ SameGhosts
Poke ==
  /\ Step("poke")
  /\ \E poke \in Args("poke") : memory' = WriteVideo(vga, memory, poke[1], poke[2])
  /\ UNCHANGED <<vga, bios>> /\ SameGhosts
Peek ==
  /\ Step("peek")
  /\ \E address \in Args("peek") : vga' = [vga EXCEPT !.latch = Latched(vga, memory, address)]
  /\ UNCHANGED <<bios, memory>> /\ SameGhosts

(***************************************************************************)
(* INT 10h.                                                                *)
(***************************************************************************)
SetModeCall == \* AH=00h; bit 7 of the mode keeps the memory
  /\ Step("mode")
  /\ \E mode \in Args("mode") :
       /\ Becomes(SetMode(Machine, mode))
       /\ memory' = IF mode >= 128 THEN memory ELSE Cleared(vga', memory, Kept)
  /\ origin' = "mode" /\ paged' = TRUE
  /\ UNCHANGED <<snapshot, savedFrom>>
SelectPageCall == \* AH=05h
  /\ Step("page")
  /\ \E page \in Args("page") : Becomes(SelectPage(Machine, page))
  /\ paged' = TRUE
  /\ UNCHANGED <<memory, snapshot, savedFrom, origin>>
Plot ==           \* AH=0Ch, on the page that is shown
  /\ Step("plot")
  /\ \E plot \in Args("plot") :
       memory' = WritePixel(vga, memory, PageOffset(vga, vga.bda.page), plot[1], plot[2], plot[3], plot[4])
  /\ UNCHANGED <<vga, bios>> /\ SameGhosts

\* The services that set a colour, a cursor or a switch and no mode.
Called(name, M(_)) ==
  /\ Step(name)
  /\ \E argument \in Args(name) : Becomes(M(argument))
  /\ UNCHANGED memory /\ SameGhosts
CursorCall ==
  \/ Called("shape", LAMBDA a : CursorShape(Machine, a[1], a[2]))             \* AH=01h
  \/ Called("cursor", LAMBDA a : SetCursor(Machine, a[1], a[2], a[3]))        \* AH=02h
  \/ Called("cell", LAMBDA height : SetCellHeight(Machine, height, RowsFor(height))) \* AH=11h
ColourCall ==
  \/ Called("border", LAMBDA colour : Border(Machine, colour))                \* AH=0Bh
  \/ Called("attribute", LAMBDA a : In(Machine, WriteAttribute(vga, a[1], a[2]))) \* AX=1000h
  \/ Called("blink", LAMBDA on : Blinking(Machine, on))                       \* AX=1003h
  \/ Called("dac", LAMBDA a : DacEntry(Machine, a[1], a[2]))                  \* AX=1010h
  \/ Called("paging", LAMBDA sixteen : ColorPaging(Machine, sixteen))         \* AX=1013h
  \/ Called("colourPage", LAMBDA page : ColorPage(Machine, page))            \* AX=1013h
  \/ Called("mask", LAMBDA mask : PelMask(Machine, mask))                     \* AX=1018h
  \/ Called("gray", LAMBDA a : In(Machine, GraySum(vga, a[1], a[2])))         \* AX=101Bh
SwitchCall == \* AH=12h
  \/ Called("load", LAMBDA on : [Machine EXCEPT !.b.loadPalette = on])
  \/ Called("sum", LAMBDA on : [Machine EXCEPT !.b.grayScale = on])
  \/ Called("access", LAMBDA on : MemoryAccess(Machine, on))
  \/ Called("refresh", LAMBDA on : Refresh(Machine, on))

Save == \* AX=1C01h, all three parts
  /\ Step("save")
  /\ Args("restore") # {}
  /\ snapshot' = SnapshotOf(Machine) /\ savedFrom' = Machine
  /\ Becomes(AfterSave(Machine, SnapshotOf(Machine)))
  /\ UNCHANGED <<memory, origin, paged>>
RestoreCall == \* AX=1C02h
  /\ snapshot # <<>>
  /\ \E parts \in Args("restore") :
       /\ Becomes(Restore(Machine, snapshot, parts))
       /\ Step(IF parts = {"hardware", "bios", "dac"} THEN "restore" ELSE "restore part")
       /\ origin' = IF {"hardware", "bios"} \subseteq parts THEN "restore" ELSE "port"
  /\ paged' = FALSE
  /\ UNCHANGED <<memory, snapshot, savedFrom>>

Next ==
  \/ Out \/ Inp \/ Poke \/ Peek
  \/ SetModeCall \/ SelectPageCall \/ Plot \/ CursorCall \/ ColourCall \/ SwitchCall
  \/ Save \/ RestoreCall
Spec == Init /\ [][Next]_vars

(***************************************************************************)
(* RendererCoherent: in text mode, unless the guest switched into it       *)
(* behind the BIOS's back (ports 3B8h and 3D8h change the mode and refresh *)
(* nothing), the text renderer's colours, line graphics, dot width, blink, *)
(* panning, font map, underline, cursor shape, display enable and columns  *)
(* are what the registers and 044Ah say now, whichever of the ports or     *)
(* services wrote them last, and its rows fit the screen.  A visible       *)
(* cursor is where CRTC 0Ch to 0Fh put it or where the BIOS keeps the      *)
(* cursor of the page shown, and inside the columns.  Until a restore      *)
(* (which saves neither 0484h nor 0485h, so that AH=02h may then put the   *)
(* cursor below the renderer's rows), the rows and the cell height are     *)
(* those of the BIOS data area, with the visible cursor inside.            *)
(* [PcMachine's update* functions, called from every writer;               *)
(* PcTextRenderer's setters; PcBios::setCursor, selectPage]                *)
(***************************************************************************)
RendererCoherent ==
  vga.mode = "Text80" /\ origin # "port" =>
    LET t == vga.text
    IN  /\ t.colours = ShownColours(vga)
        /\ t.lineGraphics = Has(vga.attr[16], 4) /\ t.nineDot = ~Has(vga.seq[1], 1)
        /\ t.blink = Has(vga.attr[16], 8) /\ t.panning = vga.attr[19]
        /\ t.display = DisplayEnabled(vga)
        /\ t.fontMap = vga.seq[3] /\ t.underline = vga.crtc[20] % 32
        /\ t.shape = <<vga.crtc[10], vga.crtc[11]>>
        /\ t.columns = TextColumns(vga) /\ t.cellHeight * t.rows <= 400
        /\ t.cursorOn => t.cursor \in {CrtcCursor(vga), PlaceOn(vga, vga.bda.page)} /\ t.cursor[2] < t.columns
        /\ origin = "mode" =>
             /\ t.cellHeight = vga.bda.cell /\ t.rows = vga.bda.rows + 1
             /\ t.cursorOn => t.cursor[1] < t.rows

(***************************************************************************)
(* StateKept.  Saving the video state shows nothing: every register, data  *)
(* area field and port sequence is left as it was (3C0h's, the DAC's, and  *)
(* the index registers), though the save drives all of them.  Restoring    *)
(* all of it undoes whatever was done since, except what is not saved (the *)
(* Hercules registers, the rows and cell height, 0465h and 0466h) and      *)
(* 0463h, which the write to 3C2h follows from bit 0.  No other service    *)
(* but a mode set loses the guest's place in the attribute or DAC          *)
(* sequence, save those that set the DAC through it, and none writes an    *)
(* attribute register but its own.  And with palette loading off, a mode   *)
(* set keeps the colours.  [PcBios::saveVideoState, restoreVideoState, the *)
(* attribute register helpers, preserved palette]                         *)
(***************************************************************************)
Registers(v) == [f \in DOMAIN v \ {"text", "bda"} |-> v[f]]
SavedRegisters(v) ==
  [f \in DOMAIN v \ {"text", "bda", "mode", "herc", "hercIndex", "hercConfig", "hercMode", "hercVideo",
                     "cgaMode", "cgaColor"} |-> v[f]]
SavedData == {"videoMode", "page", "columns", "pageSize", "pageOffset"}
Colours(v) ==
  [dac |-> v.dac, fields |-> DacFields(v), attribute |-> AttributeFields(v),
   attr |-> [i \in (0 .. 15) \cup {17, 20} |-> v.attr[i]], paging |-> Has(v.attr[16], 128)]
KeepsPlace == {"page", "shape", "cursor", "cell", "border", "attribute", "blink", "paging", "colourPage",
               "gray", "load", "sum", "access", "refresh", "poke", "plot"}
\* The one attribute register a service is about; the others write none.
AttributeOf == [border |-> 17, blink |-> 16, paging |-> 16, colourPage |-> 20, page |-> -1, cell |-> -1,
                dac |-> -1, mask |-> -1, gray |-> -1, refresh |-> -1, access |-> -1, plot |-> -1]
KeptBy(before, after) ==
  /\ last' = "save" => Registers(after) = Registers(before) /\ after.bda = before.bda
  /\ last' = "restore" =>
       /\ SavedRegisters(after) = SavedRegisters(savedFrom.v)
       /\ \A f \in SavedData : after.bda[f] = savedFrom.v.bda[f]
       /\ bios'.page = savedFrom.v.bda.page
       /\ after.mode = ModeOf(savedFrom.v.bda.videoMode)
  /\ last' \in KeepsPlace => AttributeFields(after) = AttributeFields(before) /\ DacFields(after) = DacFields(before)
  /\ last' \in DOMAIN AttributeOf =>
       \A i \in 0 .. 31 : after.attr[i] # before.attr[i] => i = AttributeOf[last']
  /\ last' = "mode" /\ ~bios.loadPalette => Colours(after) = Colours(before)
StateKept == [][KeptBy(vga, vga')]_vars

(***************************************************************************)
(* PixelsShown.  BIOS pixel services and the renderer compute where a      *)
(* pixel lies in code of their own.  What the renderer draws at (x, y) is  *)
(* the pixel the BIOS reads on the page the CRTC starts at: shifted left   *)
(* by the panning, from the line the scan lines per row and the preset     *)
(* row make it, and below the line compare from line 0 of the page at 0,   *)
(* where bit 5 of the mode control stops the panning.  A pixel plotted is  *)
(* read back and no other sample changes.  And the page AH=05h selected is *)
(* the page that is drawn.  [readGraphicsPixel, writeGraphicsPixel, the    *)
(* render functions, AH=05h]                                               *)
(***************************************************************************)
PixelWidth == IF ChainedWindow(vga) THEN 1 ELSE IF UsesPlanes(vga) /\ vga.mode = "Vga320x200x256" THEN 4 ELSE 8
SplitAt == LineCompare(vga)
Below(y) == SplitAt < Height(vga) /\ y >= SplitAt
Still(y) == Below(y) /\ Has(vga.attr[16], 32)
ShownLine(y) ==
  LET first == IF Below(y) THEN y - SplitAt ELSE y + (vga.crtc[8] % 32)
      lines == ((vga.crtc[9] % 32) + 1) * (IF Has(vga.crtc[9], 128) THEN 2 ELSE 1)
  IN  first \div lines
Panned(x, y) ==
  x + (IF Still(y) THEN 0 ELSE vga.attr[19] \div (IF vga.mode = "Vga320x200x256" THEN 2 ELSE 1))
PannedBytes(y) == IF Still(y) THEN 0 ELSE (vga.crtc[8] \div 32) * PixelWidth
ShownPage(y) == IF Below(y) THEN 0 ELSE Start(vga) % 65536
ShowsPixel(x, y) ==
  LET dot == Dot(vga, memory, x, y, TRUE)
  IN  IF Flat(vga) THEN vga.mode # "Hercules" => dot \in {Black, ReadPixel(vga, memory, CgaPage(vga), x, y)}
      ELSE dot \in {Black, Overscan}
           \/ dot = ReadPixel(vga, memory, ShownPage(y), Panned(x, y) + PannedBytes(y), ShownLine(y))
Masked256(p, dot) == ChainedWindow(vga) /\ ~Has(vga.seq[2], 2 ^ PixelCell(vga, p, dot[1], dot[2])[1])
PlotsAlone(dot, colour) ==
  LET page == PageOffset(vga, vga.bda.page)
      after == WritePixel(vga, memory, page, dot[1], dot[2], colour, FALSE)
      depth == CASE vga.mode = "Vga320x200x256" -> 256 [] vga.mode = "Cga320x200x4" -> 4
                 [] Flat(vga) -> 2 [] OTHER -> 16
  IN  \A other \in {d \in SampleDots : Reachable(vga, page, d[1], d[2])} :
        ReadPixel(vga, after, page, other[1], other[2]) =
          IF other = dot /\ ~Masked256(page, dot) THEN colour % depth
          ELSE ReadPixel(vga, memory, page, other[1], other[2])
PageIsShown ==
  LET offset == PageOffset(vga, vga.bda.page)
  IN  CASE vga.mode \in CgaGraphics -> CgaPage(vga) = offset
        [] vga.mode \in VgaGraphics -> Start(vga) % 65536 = offset
        [] OTHER -> Unit(vga) = 2 /\ vga.bda.rows = 24 => TextShown(vga) = TextHome(vga) + offset
PixelsShown ==
  /\ vga.mode # "Text80" =>
       \A dot \in SampleDots : OnScreen(vga, dot[1], dot[2]) =>
         /\ ShowsPixel(dot[1], dot[2])
         /\ Reachable(vga, PageOffset(vga, vga.bda.page), dot[1], dot[2]) =>
              \A colour \in {1, 10, 255} : PlotsAlone(dot, colour)
  /\ paged /\ origin # "port" /\ vga.mode # "Hercules" => PageIsShown

(***************************************************************************)
(* BytesReachPixels.  A byte the guest writes through the A0000h window    *)
(* lands in the pixels a VGA would give it, bit by bit, for every write    *)
(* mode, rotation, set/reset, raster operation, bit mask and map mask; no  *)
(* other byte of the planes changes; and what it reads back is the plane   *)
(* it selects, or with read mode 1 the pixels whose colour matches.        *)
(* [writeVideoMemory8, vgaWritePlaneByte, readVideoMemory8, the chain-4    *)
(* and odd/even maps]                                                      *)
(***************************************************************************)
WriteBit(p, k, value) == \* bit k of plane p after a write of this value
  LET gc == vga.gc
      data(n) == Has(value, 2 ^ ((n + (gc[3] % 8)) % 8))
      source == CASE gc[5] % 4 = 0 -> IF Has(gc[1], 2 ^ p) THEN Has(gc[0], 2 ^ p) ELSE data(k)
                  [] gc[5] % 4 = 2 -> Has(value, 2 ^ p)
                  [] OTHER -> Has(gc[0], 2 ^ p)
      old == Has(vga.latch[p], 2 ^ k)
      enabled == Has(gc[8], 2 ^ k) /\ (gc[5] % 4 = 3 => data(k))
      result == CASE gc[3] \div 8 = 1 -> source /\ old [] gc[3] \div 8 = 2 -> source \/ old
                  [] gc[3] \div 8 = 3 -> source # old [] OTHER -> source
  IN  IF gc[5] % 4 = 1 \/ ~enabled THEN old ELSE result
TargetOf(address) == \* the offset in the planes, and the planes a write there may reach
  LET o == address - \hA0000
  IN  CASE Chain4(vga) /\ vga.mode = "Vga320x200x256" -> [offset |-> o \div 4, planes |-> {o % 4}]
        [] Has(vga.gc[5], 16) /\ ~Has(vga.seq[4], 4) /\ ~Chain4(vga) ->
             [offset |-> o \div 2, planes |-> {o % 2, (o % 2) + 2}]
        [] OTHER -> [offset |-> o, planes |-> 0 .. 3]
WritesBits(address, value) ==
  LET target == TargetOf(address)
      planes == {p \in target.planes : Has(vga.seq[2], 2 ^ p)}
      after == WriteVideo(vga, memory, address, value)
  IN  /\ \A p \in planes, k \in 0 .. 7 :
           Has(Byte(after, <<p, target.offset>>), 2 ^ k) = WriteBit(p, k, value)
      /\ \A cell \in DOMAIN after \cup DOMAIN memory :
           cell[1] < 4 /\ (cell[2] # target.offset \/ cell[1] \notin planes) => Byte(after, cell) = Byte(memory, cell)
ReadCell(address) == \* the plane and the offset that are read
  LET o == address - \hA0000
  IN  CASE Chain4(vga) /\ vga.mode = "Vga320x200x256" -> <<o % 4, o \div 4>>
        [] Has(vga.gc[5], 16) /\ ~Chain4(vga) ->
             <<(o % 2) + (IF vga.gc[4] >= 2 THEN 2 ELSE 0), o \div 2>>
        [] OTHER -> <<vga.gc[4], o>>
ReadsBits(address) ==
  LET cell == ReadCell(address)
      value == ReadVideo(vga, memory, address)
      matches(k) == \A p \in 0 .. 3 : Has(vga.gc[7], 2 ^ p) =>
        Has(Byte(memory, <<p, cell[2]>>), 2 ^ k) = Has(vga.gc[2], 2 ^ p)
  IN  IF Has(vga.gc[5], 8) THEN \A k \in 0 .. 7 : Has(value, 2 ^ k) = matches(k)
      ELSE value = Byte(memory, cell)
BytesReachPixels ==
  (PlanarWindow(vga, \hA0000) \/ ChainedWindow(vga)) /\ MemoryEnabled(vga) /\ (vga.gc[6] \div 4) % 4 <= 1 =>
    \A address \in {\hA0000, \hA0001, \hA0002, \hA0007} :
      (\A value \in {0, 45, 255} : WritesBits(address, value)) /\ ReadsBits(address)
=============================================================================
