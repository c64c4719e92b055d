----------------------------- MODULE VideoProofs -----------------------------
(***************************************************************************)
(* RendererCoherent holds for every guest: whatever it writes to the       *)
(* ports, and whichever services it calls, in any order.                   *)
(*                                                                         *)
(* An adapter that is Steady has its registers, data area and renderer in  *)
(* their types, and the copies that no mode change disturbs are current;   *)
(* this holds throughout.  The copies of the colours, of the blink bit, of *)
(* the columns and of the rows, and the place of the cursor, hold only     *)
(* until the guest changes the mode through a port; a mode set makes them  *)
(* all hold again, and a full restore all but the rows.  Keeps(v, w) says  *)
(* that a step from adapter v to adapter w loses none of them.  A service  *)
(* is the sequence of its port writes: Keeps is transitive, and where a    *)
(* write in the middle mislays the cursor (KeepsCopies), a later one       *)
(* places it again (Replaced).                                             *)
(***************************************************************************)
EXTENDS Video, SequenceInduction

AdapterFields == {"mode", "crtcIndex", "crtc", "cgaMode", "cgaColor", "misc", "feature", "enable",
  "attrIndex", "attrData", "attrVideo", "attr", "seqIndex", "seq", "gcIndex", "gc", "latch", "readAt",
  "writeAt", "pelMask", "maskReads", "dacCommand", "dacState", "dac", "hercIndex", "herc", "hercConfig",
  "hercMode", "hercVideo", "bda", "text"}
TextFields == {"columns", "rows", "cellHeight", "cursor", "cursorOn", "blink", "lineGraphics", "nineDot",
  "panning", "display", "underline", "shape", "fontMap", "colours"}
DataFields == {"videoMode", "columns", "pageSize", "pageOffset", "page", "crtcBase", "modeControl",
  "colorSelect", "rows", "cell", "equipment", "cursors"}
Shape(v) == DOMAIN v = AdapterFields /\ DOMAIN v.text = TextFields /\ DOMAIN v.bda = DataFields

RegistersTyped(v) ==
  /\ v.crtc \in [0 .. 31 -> Nat] /\ v.crtcIndex \in 0 .. 31
  /\ v.attr \in [0 .. 31 -> Nat] /\ v.attr[19] < 16 /\ v.attrIndex \in 0 .. 31
  /\ v.seq \in [0 .. 7 -> Nat] /\ v.seqIndex \in 0 .. 7
  /\ v.gc \in [0 .. 15 -> Nat] /\ v.gcIndex \in 0 .. 15
  /\ v.misc \in Nat /\ v.feature \in Nat /\ v.enable \in Nat /\ v.cgaColor \in Nat
CursorsTyped(cursors) == DOMAIN cursors = 0 .. 7 /\ \A p \in 0 .. 7 : cursors[p][1] \in Nat /\ cursors[p][2] \in Nat
DataTyped(v) ==
  /\ v.bda.columns \in {40, 80} /\ v.bda.page \in 0 .. 7 /\ v.bda.pageSize \in Nat /\ v.bda.rows \in Nat
  /\ CursorsTyped(v.bda.cursors)
\* The rows and the cell height fit the 400 lines of the screen.
Fits(rows, height) ==
  /\ rows \in 25 .. 50
  /\ height = 8 \/ (height = 14 /\ rows <= 28) \/ (height = 16 /\ rows <= 25)
IsPlace(at) == at \in [1 .. 2 -> Nat]
TextTyped(t) ==
  /\ t.columns \in {40, 80} /\ Fits(t.rows, t.cellHeight)
  /\ IsPlace(t.cursor)
Typed(v) == Shape(v) /\ RegistersTyped(v) /\ DataTyped(v) /\ TextTyped(v.text)

\* The copies.
ControlHeld(v) == v.text.lineGraphics = Has(v.attr[16], 4) /\ v.text.nineDot = ~Has(v.seq[1], 1)
PanningHeld(v) == v.text.panning = v.attr[19]
DisplayHeld(v) == v.text.display = DisplayEnabled(v)
FontHeld(v) == v.text.fontMap = v.seq[3]
UnderlineHeld(v) == v.text.underline = v.crtc[20] % 32
ShapeHeld(v) == v.text.shape = <<v.crtc[10], v.crtc[11]>>
ColoursHeld(v) == v.text.colours = ShownColours(v)
BlinkHeld(v) == v.text.blink = Has(v.attr[16], 8)
ColumnsHeld(v) == v.text.columns = v.bda.columns /\ v.text.cursor[2] < v.text.columns
RowInside(v) == v.mode = "Text80" /\ v.text.cursorOn => v.text.cursor[1] < v.text.rows
RowsHeld(v) == v.text.cellHeight = v.bda.cell /\ v.text.rows = v.bda.rows + 1 /\ RowInside(v)
PlaceHeld(v) ==
  v.mode = "Text80" /\ v.text.cursorOn => v.text.cursor \in {CrtcCursor(v), PlaceOn(v, v.bda.page)}

\* What the ports of the attribute controller do not refresh.
CrtcHeld(v) == FontHeld(v) /\ UnderlineHeld(v) /\ ShapeHeld(v)
Steady(v) == Typed(v) /\ CrtcHeld(v) /\ ControlHeld(v) /\ PanningHeld(v) /\ DisplayHeld(v)
Current(v) == ColoursHeld(v) /\ BlinkHeld(v) /\ ColumnsHeld(v) /\ PlaceHeld(v)
KeepsText(v, w) == (ColumnsHeld(v) => ColumnsHeld(w)) /\ (RowsHeld(v) => RowsHeld(w))
\* all but the place of the cursor
KeepsCopies(v, w) ==
  /\ Steady(w) /\ w.mode = v.mode
  /\ ColoursHeld(v) => ColoursHeld(w)
  /\ BlinkHeld(v) => BlinkHeld(w)
  /\ KeepsText(v, w)
Keeps(v, w) == KeepsCopies(v, w) /\ (PlaceHeld(v) => PlaceHeld(w))

LEMMA KeepsNothing == ASSUME NEW v, Steady(v) PROVE Keeps(v, v)
  BY DEF Keeps, KeepsCopies, KeepsText

LEMMA KeepsOn == ASSUME NEW u, NEW v, NEW w, Keeps(u, v), Keeps(v, w) PROVE Keeps(u, w)
  BY DEF Keeps, KeepsCopies, KeepsText

LEMMA CopiesOn ==
  ASSUME NEW u, NEW v, NEW w, KeepsCopies(u, v), KeepsCopies(v, w)
  PROVE  KeepsCopies(u, w)
  BY DEF KeepsCopies, KeepsText

(* A step may mislay the cursor when the next one places it again.           *)
LEMMA Replaced ==
  ASSUME NEW u, NEW v, NEW w, KeepsCopies(u, v), KeepsCopies(v, w), PlaceHeld(w)
  PROVE  Keeps(u, w)
  BY DEF Keeps, KeepsCopies, KeepsText

-----------------------------------------------------------------------------
(* The copies follow from the registers alone.                               *)
LEMMA SameColours ==
  ASSUME NEW v, NEW w, w.attr = v.attr, w.dac = v.dac, w.pelMask = v.pelMask, w.mode = v.mode
  PROVE  ShownColours(w) = ShownColours(v)
  BY DEF ShownColours, Masked, ColourOutput, OverscanOutput

LEMMA SameDisplay ==
  ASSUME NEW v, NEW w, w.enable = v.enable, w.attrVideo = v.attrVideo, w.crtc[23] = v.crtc[23],
         w.seq[0] = v.seq[0], w.seq[1] = v.seq[1]
  PROVE  DisplayEnabled(w) = DisplayEnabled(v)
  BY DEF DisplayEnabled
SameCopied(v, w) ==
  /\ w.mode = v.mode /\ w.attr = v.attr
  /\ \A i \in {10, 11, 20, 23} : w.crtc[i] = v.crtc[i]
  /\ \A i \in {0, 1, 3} : w.seq[i] = v.seq[i]
  /\ w.enable = v.enable /\ w.attrVideo = v.attrVideo /\ w.dac = v.dac /\ w.pelMask = v.pelMask
SameStart(v, w) == \A i \in 12 .. 15 : w.crtc[i] = v.crtc[i]
SameData(v, w) == \A f \in {"columns", "page", "pageSize", "cursors", "rows", "cell"} : w.bda[f] = v.bda[f]
(* The place of the cursor follows from the start and cursor registers and   *)
(* from the data area.                                                       *)
LEMMA SamePlace ==
  ASSUME NEW v, NEW w, w.mode = v.mode, SameStart(v, w), SameData(v, w),
         w.text.cursor = v.text.cursor, w.text.cursorOn = v.text.cursorOn
  PROVE  PlaceHeld(v) => PlaceHeld(w)
<1>1. CrtcCursor(w) = CrtcCursor(v)
  BY DEF CrtcCursor, StartAddress, SameStart, SameData
<1>2. ASSUME v.mode = "Text80" PROVE PlaceOn(w, w.bda.page) = PlaceOn(v, v.bda.page)
  BY <1>2 DEF PlaceOn, TextRows, TextColumns, SameData
<1> QED BY <1>1, <1>2 DEF PlaceHeld

(* A step that touches no register with a copy.                              *)
LEMMA QuietCopies ==
  ASSUME NEW v, NEW w, Steady(v), Shape(w), RegistersTyped(w), w.text = v.text,
         SameCopied(v, w), SameData(v, w)
  PROVE  KeepsCopies(v, w)
<1>1. ShownColours(w) = ShownColours(v)
  BY SameColours DEF SameCopied
<1>2. DisplayEnabled(w) = DisplayEnabled(v)
  BY SameDisplay DEF SameCopied
<1>3. Typed(w)
  BY DEF Steady, Typed, SameData, DataTyped
<1> QED
  BY <1>1, <1>2, <1>3 DEF Steady, Typed, KeepsCopies, KeepsText, SameCopied, SameData, CrtcHeld, FontHeld,
     UnderlineHeld, ShapeHeld, ControlHeld, PanningHeld, DisplayHeld, ColoursHeld, BlinkHeld, ColumnsHeld,
     RowsHeld, RowInside

LEMMA Quiet ==
  ASSUME NEW v, NEW w, Steady(v), Shape(w), RegistersTyped(w), w.text = v.text,
         SameCopied(v, w), SameStart(v, w), SameData(v, w)
  PROVE  Keeps(v, w)
  BY QuietCopies, SamePlace DEF Keeps, KeepsCopies, SameCopied

(* What the registers keep of a byte is a natural number.                    *)
LEMMA BitsTyped ==
  ASSUME NEW i \in Nat, NEW x \in Nat
  PROVE  /\ AttributeBits(i, x) \in Nat /\ AttributeBits(19, x) < 16
         /\ SequencerBits(i, x) \in Nat /\ GraphicsBits(i, x) \in Nat /\ CrtcBits(i, x) \in Nat
         /\ FeatureBits(x) \in Nat
         /\ Without(x, 16) \in Nat /\ Without(x, 32) \in Nat /\ Without(x, 8) \in Nat
         /\ Without(x, 2) \in Nat /\ Without(x, 128) \in Nat
         /\ With(x, 16) \in Nat /\ With(x, 32) \in Nat /\ With(x, 8) \in Nat
         /\ With(x, 2) \in Nat /\ With(x, 128) \in Nat
<1>1. \A y \in Nat : /\ Without(y, 16) \in Nat /\ Without(y, 32) \in Nat /\ Without(y, 8) \in Nat
                     /\ Without(y, 2) \in Nat /\ Without(y, 4) \in Nat /\ Without(y, 128) \in Nat
  BY DEF Without, Has
<1>2. x % 64 \in Nat /\ x % 128 \in Nat /\ x % 16 \in Nat /\ x % 4 \in Nat /\ x % 32 \in Nat /\ x % 16 < 16
  OBVIOUS
<1>3. AttributeBits(i, x) \in Nat /\ AttributeBits(19, x) < 16
  BY <1>1, <1>2 DEF AttributeBits
<1>4. SequencerBits(i, x) \in Nat /\ GraphicsBits(i, x) \in Nat /\ CrtcBits(i, x) \in Nat
  BY <1>1, <1>2 DEF SequencerBits, GraphicsBits, CrtcBits
<1>5. FeatureBits(x) \in Nat
  BY DEF FeatureBits
<1>6. /\ With(x, 16) \in Nat /\ With(x, 32) \in Nat /\ With(x, 8) \in Nat
      /\ With(x, 2) \in Nat /\ With(x, 128) \in Nat
  <2>1. \A y \in Nat : \A k \in {2, 8, 16, 32, 128} : y + k \in Nat
    OBVIOUS
  <2>2. \A k \in {2, 8, 16, 32, 128} : Without(x, k) \in Nat
    <3>1. /\ Without(x, 2) \in Nat /\ Without(x, 8) \in Nat /\ Without(x, 16) \in Nat
          /\ Without(x, 32) \in Nat /\ Without(x, 128) \in Nat
      BY <1>1
    <3> QED BY ONLY <3>1
  <2>3. \A k \in {2, 8, 16, 32, 128} : With(x, k) \in Nat
    BY <2>1, <2>2 DEF With
  <2> QED BY <2>3
<1> QED BY <1>1, <1>3, <1>4, <1>5, <1>6

-----------------------------------------------------------------------------
(* The renderer's rows, columns and cells.                                   *)
LEMMA WithRowsFacts ==
  ASSUME NEW t, DOMAIN t = TextFields, IsPlace(t.cursor), NEW rows \in 25 .. 50
  PROVE  LET u == WithRows(t, rows)
         IN  /\ DOMAIN u = TextFields /\ IsPlace(u.cursor)
             /\ u.rows = rows /\ u.cursor[2] = t.cursor[2]
             /\ u.cursor[1] < rows
             /\ t.cursor[1] < 25 => u.cursor = t.cursor
             /\ \A f \in TextFields \ {"rows", "cursor"} : u[f] = t[f]
<1> DEFINE at == [t.cursor EXCEPT ![1] = Lesser(@, rows - 1)]
           u == [t EXCEPT !.rows = rows, !.cursor = at]
<1>1. /\ IsPlace(at) /\ at[2] = t.cursor[2] /\ at[1] < rows
      /\ t.cursor[1] < 25 => at = t.cursor
  <2>0. t.cursor \in [1 .. 2 -> Nat]
    BY DEF IsPlace
  <2>1. at = [t.cursor EXCEPT ![1] = Lesser(t.cursor[1], rows - 1)]
    OBVIOUS
  <2>2. Lesser(t.cursor[1], rows - 1) \in Nat /\ Lesser(t.cursor[1], rows - 1) < rows
        /\ (t.cursor[1] < 25 => Lesser(t.cursor[1], rows - 1) = t.cursor[1])
    BY <2>0 DEF Lesser
  <2>3. [t.cursor EXCEPT ![1] = t.cursor[1]] = t.cursor
    BY <2>0
  <2> DEFINE row == Lesser(t.cursor[1], rows - 1)
  <2>4. row \in Nat /\ row < rows /\ (t.cursor[1] < 25 => row = t.cursor[1])
    BY <2>2
  <2>5. at = [t.cursor EXCEPT ![1] = row]
    BY <2>1
  <2> HIDE DEF at, row
  <2>6. IsPlace(at) /\ at[2] = t.cursor[2] /\ at[1] = row
    BY <2>0, <2>4, <2>5 DEF IsPlace
  <2>7. t.cursor[1] < 25 => at = t.cursor
    BY ONLY <2>3, <2>4, <2>5
  <2> QED BY ONLY <2>4, <2>6, <2>7
<1>2. WithRows(t, rows) = u
  <2>1. (IF rows \in 1 .. 50 THEN rows ELSE 25) = rows
    OBVIOUS
  <2>2. [t EXCEPT !.rows = rows].cursor = t.cursor
    BY DEF TextFields
  <2> QED BY ONLY ZenonT(60), <2>1, <2>2 DEF WithRows, u, at
<1> HIDE DEF at
<1> QED BY <1>1, <1>2 DEF TextFields

LEMMA WithColumnsFacts ==
  ASSUME NEW t, DOMAIN t = TextFields, IsPlace(t.cursor), NEW columns \in {40, 80}
  PROVE  LET u == WithColumns(t, columns)
         IN  /\ DOMAIN u = TextFields /\ IsPlace(u.cursor)
             /\ u.columns = columns /\ u.cursor[2] < columns
             /\ u.cursor[1] = t.cursor[1] /\ (t.cursor[2] < 40 => u.cursor = t.cursor)
             /\ \A f \in TextFields \ {"columns", "cursor"} : u[f] = t[f]
<1> DEFINE at == [t.cursor EXCEPT ![2] = Lesser(@, columns - 1)]
           u == [t EXCEPT !.columns = columns, !.cursor = at]
<1>1. IsPlace(at) /\ at[2] < columns /\ at[1] = t.cursor[1]
  <2>1. Lesser(t.cursor[2], columns - 1) \in Nat /\ Lesser(t.cursor[2], columns - 1) < columns
    BY DEF Lesser, IsPlace
  <2> QED BY <2>1 DEF IsPlace
<1>4. t.cursor[2] < 40 => at = t.cursor
  <2>1. [t.cursor EXCEPT ![2] = t.cursor[2]] = t.cursor
    BY DEF IsPlace
  <2>2. t.cursor[2] < 40 => Lesser(t.cursor[2], columns - 1) = t.cursor[2]
    BY DEF Lesser, IsPlace
  <2>3. at = [t.cursor EXCEPT ![2] = Lesser(t.cursor[2], columns - 1)]
    OBVIOUS
  <2> HIDE DEF at
  <2> QED BY ONLY <2>1, <2>2, <2>3
<1>2. WithColumns(t, columns) = u
  BY DEF WithColumns, TextFields
<1> HIDE DEF at
<1>3. DOMAIN u = TextFields /\ u.columns = columns /\ u.cursor = at
      /\ \A f \in TextFields \ {"columns", "cursor"} : u[f] = t[f]
  BY DEF TextFields
<1> QED BY <1>1, <1>2, <1>3, <1>4

LEMMA WithCellHeightFacts ==
  ASSUME NEW t, DOMAIN t = TextFields, IsPlace(t.cursor), NEW height \in {8, 14, 16}
  PROVE  LET u == WithCellHeight(t, height)
         IN  /\ DOMAIN u = TextFields /\ IsPlace(u.cursor)
             /\ Fits(u.rows, height) /\ u.cellHeight = height /\ u.cursor[2] = t.cursor[2]
             /\ u.cursor[1] < u.rows
             /\ t.cursor[1] < 25 => u.cursor = t.cursor
             /\ \A f \in TextFields \ {"rows", "cursor", "cellHeight"} : u[f] = t[f]
<1> DEFINE s == [t EXCEPT !.cellHeight = height]
           rows == 400 \div height
<1>1. rows \in 25 .. 50 /\ Fits(rows, height)
  <2>1. 400 \div 8 = 50 /\ 400 \div 14 = 28 /\ 400 \div 16 = 25
    OBVIOUS
  <2>2. CASE height = 8
    BY <2>1, <2>2 DEF Fits
  <2>3. CASE height = 14
    BY <2>1, <2>3 DEF Fits
  <2>4. CASE height = 16
    BY <2>1, <2>4 DEF Fits
  <2> QED BY <2>2, <2>3, <2>4
<1>2. DOMAIN s = TextFields /\ s.cursor = t.cursor /\ s.cellHeight = height
      /\ \A f \in TextFields \ {"cellHeight"} : s[f] = t[f]
  BY DEF TextFields
<1>3. WithCellHeight(t, height) = WithRows(s, rows)
  BY DEF WithCellHeight
<1> HIDE DEF s, rows
<1> QED BY <1>1, <1>2, <1>3, WithRowsFacts DEF TextFields

(* The cursor is kept within the columns of the data area.                   *)
LEMMA CrtcCursorFacts ==
  ASSUME NEW v, RegistersTyped(v), v.bda.columns \in {40, 80}
  PROVE  IsPlace(CrtcCursor(v)) /\ CrtcCursor(v)[2] < v.bda.columns
<1> DEFINE cell == (256 * v.crtc[14] + v.crtc[15] - StartAddress(v)) % 65536
<1>1. v.crtc[12] \in Nat /\ v.crtc[13] \in Nat /\ v.crtc[14] \in Nat /\ v.crtc[15] \in Nat
  BY DEF RegistersTyped
<1>2. cell \in Nat
  BY <1>1 DEF StartAddress
<1>3. CrtcCursor(v) = <<(cell \div v.bda.columns) % 256, cell % v.bda.columns>>
  BY DEF CrtcCursor
<1> HIDE DEF cell
<1>4. /\ cell % v.bda.columns \in Nat /\ cell % v.bda.columns < v.bda.columns
      /\ (cell \div v.bda.columns) % 256 \in Nat
  <2>1. cell % 40 \in 0 .. 39 /\ cell % 80 \in 0 .. 79 /\ (cell \div 40) % 256 \in Nat /\ (cell \div 80) % 256 \in Nat
    BY <1>2
  <2> QED BY <2>1
<1> QED BY <1>3, <1>4 DEF IsPlace

(* A change of what is in the text and data records, not of the registers    *)
(* nor of their copies.                                                      *)
RegisterCopies == {"lineGraphics", "nineDot", "panning", "display", "underline", "shape", "fontMap",
                   "colours", "blink"}
Reshapes(v, w) ==
  /\ Typed(w) /\ KeepsText(v, w)
  /\ \A f \in AdapterFields \ {"text", "bda"} : w[f] = v[f]
  /\ \A f \in RegisterCopies : w.text[f] = v.text[f]

LEMMA ReshapesNothing == ASSUME NEW v, Typed(v) PROVE Reshapes(v, v)
  BY DEF Reshapes, KeepsText

LEMMA ReshapesOn == ASSUME NEW u, NEW v, NEW w, Reshapes(u, v), Reshapes(v, w) PROVE Reshapes(u, w)
  BY DEF Reshapes, KeepsText

LEMMA ReshapedCopies == ASSUME NEW v, NEW w, Steady(v), Reshapes(v, w) PROVE KeepsCopies(v, w)
<1>1. ShownColours(w) = ShownColours(v) /\ DisplayEnabled(w) = DisplayEnabled(v)
  BY SameColours, SameDisplay DEF Reshapes, AdapterFields
<1>2. Steady(w)
  BY <1>1 DEF Reshapes, Steady, CrtcHeld, FontHeld, UnderlineHeld, ShapeHeld, ControlHeld, PanningHeld,
     DisplayHeld, AdapterFields, RegisterCopies
<1> QED BY <1>1, <1>2 DEF Reshapes, KeepsCopies, ColoursHeld, BlinkHeld, AdapterFields, RegisterCopies

LEMMA ReshapedKeeps ==
  ASSUME NEW v, NEW w, Steady(v), Reshapes(v, w), PlaceHeld(v) => PlaceHeld(w)
  PROVE  Keeps(v, w)
  BY ReshapedCopies DEF Keeps, KeepsCopies

LEMMA ResizedCopies ==
  ASSUME NEW v, NEW w, Steady(v), Shape(w), TextTyped(w.text), DataTyped(w),
         \A f \in AdapterFields \ {"text", "bda"} : w[f] = v[f],
         \A f \in RegisterCopies : w.text[f] = v.text[f],
         KeepsText(v, w)
  PROVE  KeepsCopies(v, w)
<1>1. Typed(w)
  BY DEF Steady, Typed, RegistersTyped, AdapterFields
<1> QED BY <1>1, ReshapedCopies DEF Reshapes

\* The cursor is where the CRTC puts it; updateVisibleCursor shows it in the first 25 rows only.
OnCrtc(v) ==
  v.mode = "Text80" => v.text.cursor = CrtcCursor(v) /\ (v.text.cursorOn => v.text.cursor[1] < 25)

LEMMA OnCrtcPlaced == ASSUME NEW v, OnCrtc(v) PROVE PlaceHeld(v)
  BY DEF OnCrtc, PlaceHeld

LEMMA CursorReshapes == ASSUME NEW v, Typed(v) PROVE Reshapes(v, UpdateCursor(v)) /\ OnCrtc(UpdateCursor(v))
<1> DEFINE w == UpdateCursor(v)
<1>1. CASE v.mode # "Text80"
  BY <1>1, ReshapesNothing DEF UpdateCursor, OnCrtc
<1>2. CASE v.mode = "Text80"
  <2>1. IsPlace(CrtcCursor(v)) /\ CrtcCursor(v)[2] < v.bda.columns
    BY CrtcCursorFacts DEF Typed, DataTyped
  <2>2. /\ Shape(w) /\ w.bda = v.bda /\ w.text.cursor = CrtcCursor(v)
        /\ w.text.cursorOn = (CrtcCursor(v)[1] < 25)
        /\ \A f \in AdapterFields \ {"text"} : w[f] = v[f]
        /\ \A f \in TextFields \ {"cursor", "cursorOn"} : w.text[f] = v.text[f]
    BY <1>2 DEF UpdateCursor, Typed, Shape, AdapterFields, TextFields
  <2> HIDE DEF w
  <2>3. Typed(w)
    BY <2>1, <2>2 DEF Typed, TextTyped, DataTyped, RegistersTyped, AdapterFields, TextFields
  <2>4. w.text.rows \in 25 .. 50
    BY <2>3 DEF Typed, TextTyped, Fits
  <2>5. KeepsText(v, w)
    <3>1. w.text.cursorOn => w.text.cursor[1] < w.text.rows
      <4>1. w.text.cursorOn => CrtcCursor(v)[1] < 25
        BY ONLY ZenonT(60), <2>2
      <4> QED BY <2>1, <2>2, <2>4, <4>1 DEF IsPlace
    <3>2. w.text.rows = v.text.rows /\ w.text.cellHeight = v.text.cellHeight /\ w.text.columns = v.text.columns
      BY <2>2 DEF TextFields
    <3> QED BY <2>1, <2>2, <3>1, <3>2 DEF KeepsText, ColumnsHeld, RowsHeld, RowInside, IsPlace
  <2>6. CrtcCursor(w) = CrtcCursor(v)
    BY <2>2 DEF CrtcCursor, StartAddress, AdapterFields
  <2>7. OnCrtc(w)
    BY <2>2, <2>6 DEF OnCrtc
  <2>8. Reshapes(v, w)
    BY <2>2, <2>3, <2>5 DEF Reshapes, RegisterCopies, TextFields
  <2> QED BY <2>7, <2>8 DEF w
<1> QED BY <1>1, <1>2

LEMMA CellHeightReshapes ==
  ASSUME NEW v, Typed(v)
  PROVE  /\ Reshapes(v, UpdateCellHeight(v))
         /\ UpdateCellHeight(v) = v \/ OnCrtc(UpdateCellHeight(v))
         /\ (v.crtc[9] % 32) + 1 \in {8, 14, 16} => OnCrtc(UpdateCellHeight(v))
<1> DEFINE height == (v.crtc[9] % 32) + 1
           t == WithCellHeight(v.text, height)
           w == [v EXCEPT !.text = t, !.bda.cell = height, !.bda.rows = t.rows - 1]
<1>1. CASE v.mode # "Text80" \/ height \notin {8, 14, 16}
  BY <1>1, ReshapesNothing DEF UpdateCellHeight, OnCrtc
<1>2. CASE v.mode = "Text80" /\ height \in {8, 14, 16}
  <2>1. DOMAIN v.text = TextFields /\ IsPlace(v.text.cursor)
    BY DEF Typed, Shape, TextTyped
  <2>0. height \in {8, 14, 16}
    BY <1>2
  <2> HIDE DEF height
  <2>2. /\ DOMAIN t = TextFields /\ IsPlace(t.cursor)
        /\ Fits(t.rows, height) /\ t.cellHeight = height /\ t.cursor[2] = v.text.cursor[2]
        /\ t.cursor[1] < t.rows
        /\ \A f \in TextFields \ {"rows", "cursor", "cellHeight"} : t[f] = v.text[f]
    BY ONLY ZenonT(60), <2>0, <2>1, WithCellHeightFacts
  <2>3. UpdateCellHeight(v) = UpdateCursor(w)
    BY <1>2 DEF UpdateCellHeight, height
  <2> HIDE DEF t
  <2>4. /\ Shape(w) /\ w.text = t /\ w.bda.cell = height /\ w.bda.rows = t.rows - 1
        /\ \A f \in AdapterFields \ {"text", "bda"} : w[f] = v[f]
        /\ \A f \in DataFields \ {"cell", "rows"} : w.bda[f] = v.bda[f]
    BY <2>1, <2>2 DEF Typed, Shape, AdapterFields, DataFields
  <2> HIDE DEF w
  <2>5. Typed(w)
    <3>1. t.rows - 1 \in Nat
      BY <2>2 DEF Fits
    <3>2. TextTyped(w.text) /\ DataTyped(w)
      BY <2>1, <2>2, <2>4, <3>1 DEF Typed, TextTyped, DataTyped, TextFields, DataFields
    <3> QED BY <2>4, <3>2 DEF Typed, RegistersTyped, AdapterFields
  <2>6. KeepsText(v, w)
    <3>1. t.rows \in Int
      BY <2>2 DEF Fits
    <3> QED BY <2>2, <2>4, <3>1 DEF KeepsText, ColumnsHeld, RowsHeld, RowInside, TextFields, DataFields
  <2>7. Reshapes(v, w)
    BY <2>2, <2>4, <2>5, <2>6 DEF Reshapes, RegisterCopies, TextFields
  <2> QED BY <2>3, <2>5, <2>7, CursorReshapes, ReshapesOn
<1> QED BY <1>1, <1>2

LEMMA CursorKeeps == ASSUME NEW v, Steady(v) PROVE Keeps(v, UpdateCursor(v))
  BY CursorReshapes, ReshapedKeeps, OnCrtcPlaced DEF Steady

LEMMA CellHeightKeeps == ASSUME NEW v, Steady(v) PROVE Keeps(v, UpdateCellHeight(v))
<1>1. Reshapes(v, UpdateCellHeight(v)) /\ (UpdateCellHeight(v) = v \/ OnCrtc(UpdateCellHeight(v)))
  BY CellHeightReshapes DEF Steady
<1>2. PlaceHeld(v) => PlaceHeld(UpdateCellHeight(v))
  BY <1>1, OnCrtcPlaced
<1> QED BY <1>1, <1>2, ReshapedKeeps

-----------------------------------------------------------------------------
(* The ports.  A port write changes registers, and the update it calls makes *)
(* the copies of them current.                                               *)
SameGeometry(v, w) ==
  \A f \in {"columns", "rows", "cellHeight", "cursor", "cursorOn"} : w.text[f] = v.text[f]

LEMMA Recopied ==
  ASSUME NEW v, NEW w, Steady(v), Shape(w), RegistersTyped(w), w.mode = v.mode,
         SameData(v, w), SameStart(v, w), SameGeometry(v, w),
         CrtcHeld(w), ControlHeld(w), PanningHeld(w), DisplayHeld(w),
         ColoursHeld(v) => ColoursHeld(w), BlinkHeld(v) => BlinkHeld(w)
  PROVE  Keeps(v, w)
<1>1. KeepsCopies(v, w)
  BY DEF KeepsCopies, KeepsText, Steady, Typed, SameData, SameGeometry, DataTyped, TextTyped, ColumnsHeld,
     RowsHeld, RowInside
<1> QED BY <1>1, SamePlace DEF Keeps, KeepsCopies, SameGeometry

(* A write to a register that only DisplayEnabled reads, refreshed.           *)
LEMMA DisplayRefreshed ==
  ASSUME NEW v, NEW w, Steady(v), Shape(w), RegistersTyped(w), w.text = v.text, SameData(v, w),
         \A f \in {"mode", "attr", "dac", "pelMask"} : w[f] = v[f],
         \A i \in {10, 11, 12, 13, 14, 15, 20} : w.crtc[i] = v.crtc[i],
         Has(w.seq[1], 1) = Has(v.seq[1], 1), w.seq[3] = v.seq[3]
  PROVE  Keeps(v, UpdateDisplay(w))
<1> DEFINE x == UpdateDisplay(w)
<1>1. /\ Shape(x) /\ x.text.display = DisplayEnabled(w)
      /\ \A f \in AdapterFields \ {"text"} : x[f] = w[f]
      /\ \A f \in TextFields \ {"display"} : x.text[f] = v.text[f]
  BY DEF UpdateDisplay, Shape, AdapterFields, TextFields
<1>2. RegistersTyped(x) /\ x.mode = v.mode /\ SameData(v, x) /\ SameStart(v, x) /\ SameGeometry(v, x)
  BY <1>1 DEF RegistersTyped, SameData, SameStart, SameGeometry, AdapterFields, TextFields
<1>3. ShownColours(x) = ShownColours(v)
  BY <1>1, SameColours DEF AdapterFields
<1>4. DisplayEnabled(x) = DisplayEnabled(w)
  BY <1>1, SameDisplay DEF AdapterFields
<1>5. /\ CrtcHeld(x) /\ ControlHeld(x) /\ PanningHeld(x) /\ DisplayHeld(x)
      /\ ColoursHeld(v) => ColoursHeld(x)
      /\ BlinkHeld(v) => BlinkHeld(x)
  BY <1>1, <1>3, <1>4 DEF Steady, CrtcHeld, FontHeld, UnderlineHeld, ShapeHeld, ControlHeld,
     PanningHeld, DisplayHeld, ColoursHeld, BlinkHeld, AdapterFields, TextFields
<1> QED BY <1>1, <1>2, <1>5, Recopied

LEMMA CrtcDataKeeps ==
  ASSUME NEW v, Steady(v), NEW value \in Nat
  PROVE  Keeps(v, CrtcData(v, value))
<1> DEFINE i == v.crtcIndex
           w == [v EXCEPT !.crtc[i] = CrtcBits(i, value)]
           locked == [v EXCEPT !.crtc[7] = IF Has(value, 16) THEN With(@, 16) ELSE Without(@, 16)]
<1>1. Shape(v) /\ RegistersTyped(v) /\ i \in 0 .. 31
  BY DEF Steady, Typed, RegistersTyped
<1>2. CrtcBits(i, value) \in Nat /\ With(v.crtc[7], 16) \in Nat /\ Without(v.crtc[7], 16) \in Nat
  <2>1. v.crtc[7] \in Nat /\ i \in Nat
    BY <1>1 DEF RegistersTyped
  <2> QED BY <2>1, BitsTyped
<1>3. /\ Shape(w) /\ RegistersTyped(w) /\ w.text = v.text /\ w.bda = v.bda
      /\ \A f \in AdapterFields \ {"crtc"} : w[f] = v[f]
      /\ \A j \in {10, 11, 12, 13, 14, 15, 20, 23} : j # i => w.crtc[j] = v.crtc[j]
  BY <1>1, <1>2 DEF Shape, RegistersTyped, AdapterFields
<1>4. /\ Shape(locked) /\ RegistersTyped(locked) /\ locked.text = v.text /\ locked.bda = v.bda
      /\ \A f \in AdapterFields \ {"crtc"} : locked[f] = v[f]
      /\ \A j \in {10, 11, 12, 13, 14, 15, 20, 23} : locked.crtc[j] = v.crtc[j]
  BY <1>1, <1>2 DEF Shape, RegistersTyped, AdapterFields
<1> HIDE DEF w, locked
<1>5. Keeps(v, locked)
  BY <1>4, Quiet DEF SameCopied, SameStart, SameData, AdapterFields
<1>6. ASSUME i \notin {10, 11, 20, 23} PROVE KeepsCopies(v, w)
  BY <1>3, <1>6, QuietCopies DEF SameCopied, SameData, AdapterFields
<1>15. ASSUME i \notin {10, 11, 12, 13, 14, 15, 20, 23} PROVE Keeps(v, w)
  BY <1>3, <1>15, Quiet DEF SameCopied, SameStart, SameData, AdapterFields
<1>7. CASE CrtcData(v, value) = v
  BY <1>7, KeepsNothing
<1>8. CASE CrtcData(v, value) = locked
  BY <1>5, <1>8
<1>9. CASE i \in {10, 11} /\ CrtcData(v, value) = UpdateShape(w)
  <2> DEFINE x == UpdateShape(w)
  <2>1. /\ Shape(x) /\ x.text.shape = <<x.crtc[10], x.crtc[11]>>
        /\ \A f \in AdapterFields \ {"text"} : x[f] = w[f]
        /\ \A f \in TextFields \ {"shape"} : x.text[f] = w.text[f]
    BY <1>3 DEF UpdateShape, Shape, AdapterFields, TextFields
  <2>2. x.crtc[20] = v.crtc[20] /\ x.crtc[23] = v.crtc[23] /\ SameStart(v, x)
    BY <1>3, <1>9, <2>1 DEF AdapterFields, SameStart
  <2>3. RegistersTyped(x) /\ x.mode = v.mode /\ SameData(v, x) /\ SameStart(v, x) /\ SameGeometry(v, x)
    BY <1>3, <2>1, <2>2 DEF RegistersTyped, SameData, SameGeometry, AdapterFields, TextFields
  <2>4. ShownColours(x) = ShownColours(v) /\ DisplayEnabled(x) = DisplayEnabled(v)
    BY <1>3, <2>1, <2>2, SameColours, SameDisplay DEF AdapterFields
  <2>5. /\ CrtcHeld(x) /\ ControlHeld(x) /\ PanningHeld(x) /\ DisplayHeld(x)
        /\ ColoursHeld(v) => ColoursHeld(x)
        /\ BlinkHeld(v) => BlinkHeld(x)
    BY <1>3, <2>1, <2>2, <2>4 DEF Steady, CrtcHeld, FontHeld, UnderlineHeld, ShapeHeld, ControlHeld,
       PanningHeld, DisplayHeld, ColoursHeld, BlinkHeld, AdapterFields, TextFields
  <2> QED BY <1>9, <2>1, <2>3, <2>5, Recopied
<1>10. CASE i = 20 /\ CrtcData(v, value) = UpdateUnderline(w)
  <2> DEFINE x == UpdateUnderline(w)
  <2>1. /\ Shape(x) /\ x.text.underline = x.crtc[20] % 32
        /\ \A f \in AdapterFields \ {"text"} : x[f] = w[f]
        /\ \A f \in TextFields \ {"underline"} : x.text[f] = w.text[f]
    BY <1>3 DEF UpdateUnderline, Shape, AdapterFields, TextFields
  <2>2. x.crtc[10] = v.crtc[10] /\ x.crtc[11] = v.crtc[11] /\ x.crtc[23] = v.crtc[23] /\ SameStart(v, x)
    BY <1>3, <1>10, <2>1 DEF AdapterFields, SameStart
  <2>3. RegistersTyped(x) /\ x.mode = v.mode /\ SameData(v, x) /\ SameStart(v, x) /\ SameGeometry(v, x)
    BY <1>3, <2>1, <2>2 DEF RegistersTyped, SameData, SameGeometry, AdapterFields, TextFields
  <2>4. ShownColours(x) = ShownColours(v) /\ DisplayEnabled(x) = DisplayEnabled(v)
    BY <1>3, <2>1, <2>2, SameColours, SameDisplay DEF AdapterFields
  <2>5. /\ CrtcHeld(x) /\ ControlHeld(x) /\ PanningHeld(x) /\ DisplayHeld(x)
        /\ ColoursHeld(v) => ColoursHeld(x)
        /\ BlinkHeld(v) => BlinkHeld(x)
    BY <1>3, <2>1, <2>2, <2>4 DEF Steady, CrtcHeld, FontHeld, UnderlineHeld, ShapeHeld, ControlHeld,
       PanningHeld, DisplayHeld, ColoursHeld, BlinkHeld, AdapterFields, TextFields
  <2> QED BY <1>10, <2>1, <2>3, <2>5, Recopied
<1>11. CASE i = 23 /\ CrtcData(v, value) = UpdateDisplay(w)
  <2>1. \A j \in {10, 11, 12, 13, 14, 15, 20} : w.crtc[j] = v.crtc[j]
    BY <1>3, <1>11
  <2> QED BY <1>3, <1>11, <2>1, DisplayRefreshed DEF AdapterFields, SameData
<1>12. CASE i = 9 /\ CrtcData(v, value) = UpdateCellHeight(w)
  <2>1. Keeps(v, w) /\ Steady(w)
    BY <1>15, <1>12 DEF Keeps, KeepsCopies
  <2> QED BY <1>12, <2>1, CellHeightKeeps, KeepsOn
<1>13. CASE i \in 12 .. 15 /\ CrtcData(v, value) = UpdateCursor(w)
  <2>1. KeepsCopies(v, w) /\ Steady(w)
    BY <1>6, <1>13 DEF KeepsCopies
  <2>2. KeepsCopies(w, UpdateCursor(w)) /\ PlaceHeld(UpdateCursor(w))
    BY <2>1, CursorReshapes, ReshapedCopies, OnCrtcPlaced DEF Steady
  <2> QED BY <1>13, <2>1, <2>2, Replaced
<1>14. CASE i \notin {10, 11, 12, 13, 14, 15, 20, 23} /\ CrtcData(v, value) = w
  BY <1>15, <1>14
<1> QED BY <1>1, <1>7, <1>8, <1>9, <1>10, <1>11, <1>12, <1>13, <1>14 DEF CrtcData, w, locked

LEMMA SequencerDataKeeps ==
  ASSUME NEW v, Steady(v), NEW value \in Nat
  PROVE  Keeps(v, SequencerData(v, value))
<1> DEFINE i == v.seqIndex
           w == [v EXCEPT !.seq[i] = SequencerBits(i, value)]
<1>1. Shape(v) /\ RegistersTyped(v) /\ i \in 0 .. 7
  BY DEF Steady, Typed, RegistersTyped
<1>2. SequencerBits(i, value) \in Nat
  <2>1. i \in Nat
    BY <1>1
  <2> QED BY <2>1, BitsTyped
<1>3. /\ Shape(w) /\ RegistersTyped(w) /\ w.text = v.text /\ w.bda = v.bda
      /\ \A f \in AdapterFields \ {"seq"} : w[f] = v[f]
      /\ \A j \in {0, 1, 3} : j # i => w.seq[j] = v.seq[j]
  BY <1>1, <1>2 DEF Shape, RegistersTyped, AdapterFields
<1> HIDE DEF w
<1>4. CASE i = 3 /\ SequencerData(v, value) = UpdateFontMap(w)
  <2> DEFINE x == UpdateFontMap(w)
  <2>1. /\ Shape(x) /\ x.text.fontMap = x.seq[3]
        /\ \A f \in AdapterFields \ {"text"} : x[f] = w[f]
        /\ \A f \in TextFields \ {"fontMap"} : x.text[f] = w.text[f]
    BY <1>3 DEF UpdateFontMap, Shape, AdapterFields, TextFields
  <2>2. x.seq[0] = v.seq[0] /\ x.seq[1] = v.seq[1] /\ x.crtc = v.crtc
    BY <1>3, <1>4, <2>1 DEF AdapterFields
  <2>3. RegistersTyped(x) /\ x.mode = v.mode /\ SameData(v, x) /\ SameStart(v, x) /\ SameGeometry(v, x)
    BY <1>3, <2>1 DEF RegistersTyped, SameData, SameStart, SameGeometry, AdapterFields, TextFields
  <2>4. ShownColours(x) = ShownColours(v) /\ DisplayEnabled(x) = DisplayEnabled(v)
    BY <1>3, <2>1, <2>2, SameColours, SameDisplay DEF AdapterFields
  <2>5. /\ CrtcHeld(x) /\ ControlHeld(x) /\ PanningHeld(x) /\ DisplayHeld(x)
        /\ ColoursHeld(v) => ColoursHeld(x)
        /\ BlinkHeld(v) => BlinkHeld(x)
    BY <1>3, <2>1, <2>2, <2>4 DEF Steady, CrtcHeld, FontHeld, UnderlineHeld, ShapeHeld, ControlHeld,
       PanningHeld, DisplayHeld, ColoursHeld, BlinkHeld, AdapterFields, TextFields
  <2> QED BY <1>4, <2>1, <2>3, <2>5, Recopied
<1>5. CASE i = 1 /\ SequencerData(v, value) = UpdateDisplay(UpdateModeControl(w))
  <2> DEFINE x == UpdateDisplay(UpdateModeControl(w))
  <2>1. /\ Shape(x) /\ x.text.display = DisplayEnabled(UpdateModeControl(w))
        /\ x.text.lineGraphics = Has(x.attr[16], 4) /\ x.text.nineDot = ~Has(x.seq[1], 1)
        /\ \A f \in AdapterFields \ {"text"} : x[f] = w[f] /\ UpdateModeControl(w)[f] = w[f]
        /\ \A f \in TextFields \ {"lineGraphics", "nineDot", "display"} : x.text[f] = w.text[f]
    BY <1>3 DEF UpdateDisplay, UpdateModeControl, Shape, AdapterFields, TextFields
  <2>2. x.seq[3] = v.seq[3] /\ x.crtc = v.crtc
    BY <1>3, <1>5, <2>1 DEF AdapterFields
  <2>3. RegistersTyped(x) /\ x.mode = v.mode /\ SameData(v, x) /\ SameStart(v, x) /\ SameGeometry(v, x)
    BY <1>3, <2>1 DEF RegistersTyped, SameData, SameStart, SameGeometry, AdapterFields, TextFields
  <2>4. ShownColours(x) = ShownColours(v) /\ DisplayEnabled(x) = DisplayEnabled(UpdateModeControl(w))
    BY <1>3, <2>1, <2>2, SameColours, SameDisplay DEF AdapterFields
  <2>5. /\ CrtcHeld(x) /\ ControlHeld(x) /\ PanningHeld(x) /\ DisplayHeld(x)
        /\ ColoursHeld(v) => ColoursHeld(x)
        /\ BlinkHeld(v) => BlinkHeld(x)
    BY <1>3, <2>1, <2>2, <2>4 DEF Steady, CrtcHeld, FontHeld, UnderlineHeld, ShapeHeld, ControlHeld,
       PanningHeld, DisplayHeld, ColoursHeld, BlinkHeld, AdapterFields, TextFields
  <2> QED BY <1>5, <2>1, <2>3, <2>5, Recopied
<1>6. CASE i = 0 /\ SequencerData(v, value) = UpdateDisplay(w)
  <2>1. w.seq[1] = v.seq[1] /\ w.seq[3] = v.seq[3]
    BY <1>3, <1>6
  <2> QED BY <1>3, <1>6, <2>1, DisplayRefreshed DEF AdapterFields, SameData
<1>7. CASE i \notin {0, 1, 3} /\ SequencerData(v, value) = w
  BY <1>3, <1>7, Quiet DEF SameCopied, SameStart, SameData, AdapterFields
<1> QED BY <1>4, <1>5, <1>6, <1>7 DEF SequencerData, w

(* 3C0: the data byte of one attribute register.                             *)
LEMMA AttributeRegisterKeeps ==
  ASSUME NEW v, Steady(v), NEW value \in Nat
  PROVE  Keeps(v, AttributeRegister(v, value))
<1> DEFINE i == v.attrIndex
           bits == AttributeBits(i, value)
           w == [v EXCEPT !.attr[i] = bits]
           blink == [w EXCEPT !.text.blink = Has(bits, 8),
                              !.bda.modeControl = IF Has(bits, 8) THEN With(@, 32) ELSE Without(@, 32)]
           x == AttributeRegister(v, value)
<1>1. Shape(v) /\ RegistersTyped(v) /\ i \in 0 .. 31
  BY DEF Steady, Typed, RegistersTyped
<1>2. bits \in Nat /\ (i = 19 => bits < 16)
  <2>1. i \in Nat
    BY <1>1
  <2> QED BY <2>1, BitsTyped
<1> HIDE DEF bits
<1>3. /\ Shape(w) /\ RegistersTyped(w) /\ w.text = v.text /\ w.bda = v.bda
      /\ \A f \in AdapterFields \ {"attr"} : w[f] = v[f]
      /\ w.attr[i] = bits
      /\ \A j \in {16, 19} : j # i => w.attr[j] = v.attr[j]
  BY <1>1, <1>2 DEF Shape, RegistersTyped, AdapterFields
<1> HIDE DEF w
<1>4. /\ Shape(blink) /\ \A f \in AdapterFields \ {"text", "bda"} : blink[f] = w[f]
      /\ blink.text.blink = Has(bits, 8)
      /\ \A f \in TextFields \ {"blink"} : blink.text[f] = v.text[f]
      /\ \A f \in DataFields \ {"modeControl"} : blink.bda[f] = v.bda[f]
  BY <1>3 DEF Shape, AdapterFields, TextFields, DataFields
<1> HIDE DEF blink
<1> DEFINE y == CASE i = 16 -> UpdateModeControl(blink) [] i = 19 -> UpdatePanning(w) [] OTHER -> w
<1>5. x = UpdatePalette(y)
  BY DEF AttributeRegister, w, blink, bits
<1>6. w.attr[19] % 16 = w.attr[19]
  <2>1. w.attr[19] \in Nat /\ w.attr[19] < 16
    BY <1>3 DEF RegistersTyped
  <2> QED BY <2>1
<1>7. /\ Shape(y) /\ \A f \in AdapterFields \ {"text", "bda"} : y[f] = w[f]
      /\ y.text.lineGraphics = Has(w.attr[16], 4) /\ y.text.nineDot = ~Has(w.seq[1], 1)
      /\ y.text.panning = w.attr[19]
      /\ BlinkHeld(v) => y.text.blink = Has(w.attr[16], 8)
      /\ \A f \in TextFields \ {"lineGraphics", "nineDot", "panning", "blink"} : y.text[f] = v.text[f]
      /\ \A f \in DataFields \ {"modeControl"} : y.bda[f] = v.bda[f]
  <2>0. /\ v.text.lineGraphics = Has(v.attr[16], 4) /\ v.text.nineDot = ~Has(v.seq[1], 1)
        /\ v.text.panning = v.attr[19]
    BY DEF Steady, ControlHeld, PanningHeld
  <2>1. CASE i = 16
    <3>1. y = UpdateModeControl(blink) /\ blink.attr = w.attr /\ blink.seq = w.seq /\ w.attr[19] = v.attr[19]
      BY <1>3, <1>4, <2>1 DEF AdapterFields
    <3>2. LET z == UpdateModeControl(blink)
          IN  /\ Shape(z) /\ z.bda = blink.bda
              /\ \A f \in AdapterFields \ {"text"} : z[f] = blink[f]
              /\ z.text.lineGraphics = Has(blink.attr[16], 4) /\ z.text.nineDot = ~Has(blink.seq[1], 1)
              /\ \A f \in TextFields \ {"lineGraphics", "nineDot"} : z.text[f] = blink.text[f]
      BY <1>4 DEF UpdateModeControl, Shape, AdapterFields, TextFields
    <3> HIDE DEF y
    <3> QED BY <1>3, <1>4, <2>0, <2>1, <3>1, <3>2 DEF AdapterFields, TextFields
  <2>2. CASE i = 19
    <3>1. y = UpdatePanning(w) /\ w.attr[16] = v.attr[16] /\ w.seq = v.seq
      BY <1>3, <2>2 DEF AdapterFields
    <3> QED BY <1>3, <1>6, <2>0, <3>1 DEF UpdatePanning, Shape, AdapterFields, TextFields, BlinkHeld
  <2>3. CASE i # 16 /\ i # 19
    <3>1. y = w /\ w.attr[16] = v.attr[16] /\ w.attr[19] = v.attr[19] /\ w.seq = v.seq
      BY <1>3, <2>3 DEF AdapterFields
    <3> QED BY <1>3, <2>0, <3>1 DEF AdapterFields, BlinkHeld
  <2> QED BY <2>1, <2>2, <2>3
<1> HIDE DEF y
<1>8. /\ Shape(x) /\ \A f \in AdapterFields \ {"text", "bda"} : x[f] = w[f]
      /\ x.bda = y.bda /\ x.text.colours = ShownColours(y)
      /\ \A f \in TextFields \ {"colours"} : x.text[f] = y.text[f]
  BY <1>5, <1>7 DEF UpdatePalette, Shape, AdapterFields, TextFields
<1> HIDE DEF x
<1>9. RegistersTyped(x) /\ x.mode = v.mode /\ SameData(v, x) /\ SameStart(v, x) /\ SameGeometry(v, x)
  BY <1>3, <1>7, <1>8 DEF RegistersTyped, SameData, SameStart, SameGeometry, AdapterFields, TextFields, DataFields
<1>10. ShownColours(x) = ShownColours(y)
  BY <1>7, <1>8, SameColours DEF AdapterFields
<1>11. DisplayEnabled(x) = DisplayEnabled(v)
  BY <1>3, <1>8, SameDisplay DEF AdapterFields
<1>12. /\ CrtcHeld(x) /\ ControlHeld(x) /\ PanningHeld(x) /\ DisplayHeld(x)
       /\ ColoursHeld(x)
       /\ BlinkHeld(v) => BlinkHeld(x)
  BY <1>3, <1>7, <1>8, <1>10, <1>11 DEF Steady, CrtcHeld, FontHeld, UnderlineHeld, ShapeHeld, ControlHeld,
     PanningHeld, DisplayHeld, ColoursHeld, BlinkHeld, AdapterFields, TextFields
<1>13. Keeps(v, x)
  BY <1>8, <1>9, <1>12, Recopied
<1> QED BY <1>13 DEF x

LEMMA AttributePortKeeps ==
  ASSUME NEW v, Steady(v), NEW value \in Nat
  PROVE  Keeps(v, AttributePort(v, value))
<1> DEFINE a == AttributeRegister(v, value)
           index == [v EXCEPT !.attrIndex = value % 32, !.attrVideo = Has(value, 32)]
           w == IF v.attrData THEN a ELSE index
           x == [w EXCEPT !.attrData = ~v.attrData]
<1>1. Keeps(v, a) /\ Steady(a)
  BY AttributeRegisterKeeps DEF Keeps, KeepsCopies
<1>2. Shape(v) /\ RegistersTyped(v) /\ Shape(a) /\ RegistersTyped(a)
  BY <1>1 DEF Steady, Typed
<1>3. value % 32 \in 0 .. 31
  OBVIOUS
<1>4. AttributePort(v, value) = UpdateDisplay(x)
  BY DEF AttributePort
<1> HIDE DEF a
<1>5. CASE v.attrData
  <2>1. Shape(x) /\ RegistersTyped(x) /\ \A f \in AdapterFields \ {"attrData"} : x[f] = a[f]
    BY <1>2, <1>5 DEF Shape, RegistersTyped, AdapterFields
  <2> HIDE DEF x
  <2>2. Keeps(a, UpdateDisplay(x))
    BY <1>1, <2>1, DisplayRefreshed DEF AdapterFields, SameData
  <2> QED BY <1>1, <1>4, <2>2, KeepsOn
<1>6. CASE ~v.attrData
  <2>1. Shape(x) /\ RegistersTyped(x)
        /\ \A f \in AdapterFields \ {"attrData", "attrIndex", "attrVideo"} : x[f] = v[f]
    BY <1>2, <1>3, <1>6 DEF Shape, RegistersTyped, AdapterFields
  <2> HIDE DEF x
  <2>2. Keeps(v, UpdateDisplay(x))
    BY <2>1, DisplayRefreshed DEF AdapterFields, SameData
  <2> QED BY <1>4, <2>2
<1> QED BY <1>5, <1>6

(* A write that changes a colour, refreshed.                                 *)
LEMMA PaletteRefreshed ==
  ASSUME NEW v, NEW w, Steady(v), Shape(w), RegistersTyped(w), w.text = v.text, SameData(v, w),
         \A f \in {"mode", "attr", "crtc", "seq", "enable", "attrVideo"} : w[f] = v[f]
  PROVE  Keeps(v, UpdatePalette(w)) /\ ColoursHeld(UpdatePalette(w))
<1> DEFINE x == UpdatePalette(w)
<1>1. /\ Shape(x) /\ x.text.colours = ShownColours(w)
      /\ \A f \in AdapterFields \ {"text"} : x[f] = w[f]
      /\ \A f \in TextFields \ {"colours"} : x.text[f] = v.text[f]
  BY DEF UpdatePalette, Shape, AdapterFields, TextFields
<1>2. RegistersTyped(x) /\ x.mode = v.mode /\ SameData(v, x) /\ SameStart(v, x) /\ SameGeometry(v, x)
  BY <1>1 DEF RegistersTyped, SameData, SameStart, SameGeometry, AdapterFields, TextFields
<1>3. ShownColours(x) = ShownColours(w)
  BY <1>1, SameColours DEF AdapterFields
<1>4. DisplayEnabled(x) = DisplayEnabled(v)
  BY <1>1, SameDisplay DEF AdapterFields
<1>5. /\ CrtcHeld(x) /\ ControlHeld(x) /\ PanningHeld(x) /\ DisplayHeld(x)
      /\ ColoursHeld(x)
      /\ BlinkHeld(v) => BlinkHeld(x)
  BY <1>1, <1>3, <1>4 DEF Steady, CrtcHeld, FontHeld, UnderlineHeld, ShapeHeld, ControlHeld,
     PanningHeld, DisplayHeld, ColoursHeld, BlinkHeld, AdapterFields, TextFields
<1> QED BY <1>1, <1>2, <1>5, Recopied

LEMMA DacKeeps ==
  ASSUME NEW v, Steady(v), NEW value
  PROVE  Keeps(v, DacMask(v, value)) /\ Keeps(v, DacWrite(v, value))
<1>1. Shape(v) /\ RegistersTyped(v)
  BY DEF Steady, Typed
<1>2. Keeps(v, DacMask(v, value))
  <2> DEFINE w == [v EXCEPT !.maskReads = 0]
             command == [w EXCEPT !.dacCommand = value]
             mask == [w EXCEPT !.pelMask = value]
  <2>1. /\ Shape(command) /\ RegistersTyped(command)
        /\ \A f \in AdapterFields \ {"maskReads", "dacCommand"} : command[f] = v[f]
    BY <1>1 DEF Shape, RegistersTyped, AdapterFields
  <2>2. /\ Shape(mask) /\ RegistersTyped(mask)
        /\ \A f \in AdapterFields \ {"maskReads", "pelMask"} : mask[f] = v[f]
    BY <1>1 DEF Shape, RegistersTyped, AdapterFields
  <2>3. DacMask(v, value) = IF v.maskReads >= 4 THEN command ELSE UpdatePalette(mask)
    BY DEF DacMask
  <2> HIDE DEF command, mask
  <2>4. Keeps(v, command)
    BY <2>1, Quiet DEF SameCopied, SameStart, SameData, AdapterFields
  <2>5. Keeps(v, UpdatePalette(mask))
    BY <2>2, PaletteRefreshed DEF SameData, AdapterFields
  <2> QED BY <2>3, <2>4, <2>5
<1>3. Keeps(v, DacWrite(v, value))
  <2> DEFINE colour == [Colour(v.dac, v.writeAt[1]) EXCEPT ![v.writeAt[2] + 1] = value % 64]
             w == [v EXCEPT !.maskReads = 0, !.dacState = 0, !.writeAt = Step3(@),
                            !.dac = Update(@, v.writeAt[1] :> colour)]
  <2>1. DacWrite(v, value) = UpdatePalette(w)
    BY DEF DacWrite
  <2> HIDE DEF colour
  <2>2. /\ Shape(w) /\ RegistersTyped(w)
        /\ \A f \in AdapterFields \ {"maskReads", "dacState", "writeAt", "dac"} : w[f] = v[f]
    BY <1>1 DEF Shape, RegistersTyped, AdapterFields
  <2> HIDE DEF w
  <2> QED BY <2>1, <2>2, PaletteRefreshed DEF SameData, AdapterFields
<1> QED BY <1>2, <1>3

(* What stays is enough to see that a write of no copied register is quiet.  *)
QuietFields == {"misc", "feature", "crtcIndex", "seqIndex", "gcIndex", "gc", "cgaMode", "cgaColor", "maskReads",
                "readAt", "writeAt", "dacState", "dacCommand", "hercIndex", "herc", "hercConfig", "attrIndex",
                "attrData", "latch"}
QuietData == {"crtcBase", "modeControl", "colorSelect", "equipment"}
LEMMA QuietWrite ==
  ASSUME NEW v, NEW w, Steady(v), Shape(w), RegistersTyped(w),
         \A f \in AdapterFields \ (QuietFields \cup {"bda"}) : w[f] = v[f],
         \A f \in DataFields \ QuietData : w.bda[f] = v.bda[f]
  PROVE  Keeps(v, w)
  BY Quiet DEF SameCopied, SameStart, SameData, AdapterFields, DataFields, QuietFields, QuietData

LEMMA MonoKeeps ==
  ASSUME NEW v, Steady(v), NEW value \in Nat
  PROVE  Keeps(v, MonoIndex(v, value)) /\ Keeps(v, MonoData(v, value))
<1>1. Shape(v) /\ RegistersTyped(v)
  BY DEF Steady, Typed
<1>2. value % 32 \in 0 .. 31
  OBVIOUS
<1>3. Keeps(v, MonoIndex(v, value))
  <2> DEFINE w == MonoIndex(v, value)
  <2>1. /\ Shape(w) /\ RegistersTyped(w)
        /\ \A f \in AdapterFields \ {"hercIndex", "crtcIndex"} : w[f] = v[f]
    BY <1>1, <1>2 DEF MonoIndex, Shape, RegistersTyped, AdapterFields
  <2> QED BY <2>1, QuietWrite DEF QuietFields, AdapterFields
<1>4. Keeps(v, MonoData(v, value))
  <2> DEFINE w == [v EXCEPT !.herc[v.hercIndex] = value]
  <2>1. /\ Shape(w) /\ RegistersTyped(w) /\ \A f \in AdapterFields \ {"herc"} : w[f] = v[f]
    BY <1>1 DEF Shape, RegistersTyped, AdapterFields
  <2>2. MonoData(v, value) \in {w, CrtcData(w, value)}
    BY DEF MonoData
  <2> HIDE DEF w
  <2>3. Keeps(v, w) /\ Steady(w)
    BY <2>1, QuietWrite DEF QuietFields, AdapterFields, Keeps, KeepsCopies
  <2> QED BY <2>2, <2>3, CrtcDataKeeps, KeepsOn
<1> QED BY <1>3, <1>4

(* Every port but the two that change the mode.                              *)
LEMMA PortKeeps ==
  ASSUME NEW v, Steady(v), NEW port \in OutPorts \ ModePorts, NEW value \in Nat
  PROVE  Keeps(v, WritePort(v, port, value))
<1> DEFINE w == WritePort(v, port, value)
<1>1. Shape(v) /\ RegistersTyped(v)
  BY DEF Steady, Typed
<1>2. CASE port = \h3B4
  BY <1>2, MonoKeeps DEF WritePort
<1>3. CASE port = \h3B5
  BY <1>3, MonoKeeps DEF WritePort
<1>4. CASE port = \h3C0
  BY <1>4, AttributePortKeeps DEF WritePort
<1>5. CASE port = \h3C5
  BY <1>5, SequencerDataKeeps DEF WritePort
<1>6. CASE port = \h3C6
  BY <1>6, DacKeeps DEF WritePort
<1>7. CASE port = \h3C9
  BY <1>7, DacKeeps DEF WritePort
<1>8. CASE port = \h3D5
  BY <1>8, CrtcDataKeeps DEF WritePort
<1>9. CASE port = \h3BF
  <2> DEFINE x == [v EXCEPT !.hercConfig = value % 4]
             y == [x EXCEPT !.bda.equipment = 48]
  <2>1. w = IF Has(value, 1) THEN y ELSE x
    BY <1>9 DEF WritePort, HerculesConfig, SetEquipment
  <2>2. Shape(x) /\ RegistersTyped(x) /\ \A f \in AdapterFields \ {"hercConfig"} : x[f] = v[f]
    BY <1>1 DEF Shape, RegistersTyped, AdapterFields
  <2> HIDE DEF x
  <2>3. /\ Shape(y) /\ RegistersTyped(y) /\ \A f \in AdapterFields \ {"bda"} : y[f] = x[f]
        /\ \A f \in DataFields \ {"equipment"} : y.bda[f] = x.bda[f]
    BY <2>2 DEF Shape, RegistersTyped, AdapterFields, DataFields
  <2> HIDE DEF y
  <2>4. Keeps(v, x) /\ Keeps(v, y)
    BY <2>2, <2>3, QuietWrite DEF QuietFields, QuietData, AdapterFields, DataFields
  <2> QED BY <2>1, <2>4
<1>10. CASE port = \h3C2
  <2> DEFINE base == IF Has(value, 1) THEN \h3D4 ELSE \h3B4
             x == [v EXCEPT !.misc = value]
             y == [x EXCEPT !.bda.crtcBase = base]
  <2>1. w = IF v.mode = "Hercules" THEN x ELSE y
    BY <1>10 DEF WritePort
  <2> HIDE DEF base
  <2>2. Shape(x) /\ RegistersTyped(x) /\ \A f \in AdapterFields \ {"misc"} : x[f] = v[f]
    BY <1>1 DEF Shape, RegistersTyped, AdapterFields
  <2> HIDE DEF x
  <2>3. /\ Shape(y) /\ RegistersTyped(y) /\ \A f \in AdapterFields \ {"bda"} : y[f] = x[f]
        /\ \A f \in DataFields \ {"crtcBase"} : y.bda[f] = x.bda[f]
    BY <2>2 DEF Shape, RegistersTyped, AdapterFields, DataFields
  <2> HIDE DEF y
  <2>4. Keeps(v, x) /\ Keeps(v, y)
    BY <2>2, <2>3, QuietWrite DEF QuietFields, QuietData, AdapterFields, DataFields
  <2> QED BY <2>1, <2>4
<1>11. CASE port = \h3C3
  <2> DEFINE x == [v EXCEPT !.enable = value % 2]
  <2>1. w = UpdateDisplay(x)
    BY <1>11 DEF WritePort
  <2>2. Shape(x) /\ RegistersTyped(x) /\ \A f \in AdapterFields \ {"enable"} : x[f] = v[f]
    BY <1>1 DEF Shape, RegistersTyped, AdapterFields
  <2> HIDE DEF x
  <2> QED BY <2>1, <2>2, DisplayRefreshed DEF SameData, AdapterFields
<1>12. CASE port \in {\h3C4, \h3CE, \h3D4, \h3CF, \h3BA, \h3CA, \h3DA}
  <2>1. w = CASE port = \h3C4 -> [v EXCEPT !.seqIndex = value % 8]
              [] port = \h3CE -> [v EXCEPT !.gcIndex = value % 16]
              [] port = \h3D4 -> [v EXCEPT !.crtcIndex = value % 32]
              [] port = \h3CF -> [v EXCEPT !.gc[v.gcIndex] = GraphicsBits(v.gcIndex, value)]
              [] OTHER -> [v EXCEPT !.feature = FeatureBits(value)]
    BY <1>12 DEF WritePort
  <2>2. value % 8 \in 0 .. 7 /\ value % 16 \in 0 .. 15 /\ value % 32 \in 0 .. 31 /\ v.gcIndex \in Nat
    BY <1>1 DEF RegistersTyped
  <2>3. GraphicsBits(v.gcIndex, value) \in Nat /\ FeatureBits(value) \in Nat
    BY <2>2, BitsTyped
  <2>4. /\ Shape(w) /\ RegistersTyped(w)
        /\ \A f \in AdapterFields \ {"seqIndex", "gcIndex", "crtcIndex", "gc", "feature"} : w[f] = v[f]
    BY <1>1, <1>12, <2>1, <2>2, <2>3 DEF Shape, RegistersTyped, AdapterFields
  <2> QED BY <2>4, QuietWrite DEF QuietFields, AdapterFields
<1>13. CASE port \in {\h3C7, \h3C8}
  <2> DEFINE x == [v EXCEPT !.maskReads = 0, !.readAt = <<value, 0>>, !.dacState = 3]
             y == [v EXCEPT !.maskReads = 0, !.writeAt = <<value, 0>>, !.dacState = 0]
  <2>1. w = x \/ w = y
    <3>1. CASE port = \h3C7
      BY <3>1 DEF WritePort
    <3>2. CASE port = \h3C8
      BY <3>2 DEF WritePort
    <3> QED BY <1>13, <3>1, <3>2
  <2>2. Shape(x) /\ RegistersTyped(x) /\ \A f \in AdapterFields \ {"maskReads", "readAt", "dacState"} : x[f] = v[f]
    BY <1>1 DEF Shape, RegistersTyped, AdapterFields
  <2>3. Shape(y) /\ RegistersTyped(y) /\ \A f \in AdapterFields \ {"maskReads", "writeAt", "dacState"} : y[f] = v[f]
    BY <1>1 DEF Shape, RegistersTyped, AdapterFields
  <2> HIDE DEF x, y
  <2>4. Keeps(v, x) /\ Keeps(v, y)
    BY <2>2, <2>3, QuietWrite DEF QuietFields, AdapterFields
  <2> QED BY <2>1, <2>4
<1>14. CASE port = \h3D9
  <2> DEFINE x == [v EXCEPT !.cgaColor = value]
             y == [x EXCEPT !.bda.colorSelect = value]
  <2>1. w = y
    BY <1>14 DEF WritePort
  <2>2. Shape(x) /\ RegistersTyped(x) /\ \A f \in AdapterFields \ {"cgaColor"} : x[f] = v[f]
    BY <1>1 DEF Shape, RegistersTyped, AdapterFields
  <2> HIDE DEF x
  <2>3. /\ Shape(y) /\ RegistersTyped(y) /\ \A f \in AdapterFields \ {"bda"} : y[f] = x[f]
        /\ \A f \in DataFields \ {"colorSelect"} : y.bda[f] = x.bda[f]
    BY <2>2 DEF Shape, RegistersTyped, AdapterFields, DataFields
  <2> HIDE DEF y
  <2> QED BY <2>1, <2>2, <2>3, QuietWrite DEF QuietFields, QuietData, AdapterFields, DataFields
<1> QED BY <1>2, <1>3, <1>4, <1>5, <1>6, <1>7, <1>8, <1>9, <1>10, <1>11, <1>12, <1>13, <1>14 DEF OutPorts, ModePorts

-----------------------------------------------------------------------------
(* Port writes one after another.                                            *)
Writes == OutPorts \X Nat
KeptWrites == (OutPorts \ ModePorts) \X Nat
OutsRun(f, v, writes) ==
  /\ f[0] = v
  /\ \A i \in 1 .. Len(writes) : f[i] = WritePort(f[i - 1], writes[i][1], writes[i][2])

LEMMA OutsRuns ==
  ASSUME NEW v, NEW S, NEW writes \in Seq(S)
  PROVE  \E f : OutsRun(f, v, writes) /\ Outs(v, writes) = f[Len(writes)]
<1> DEFINE n == Len(writes)
           Put(f, i) == IF i = 0 THEN v ELSE LET before == f[i - 1] IN WritePort(before, writes[i][1], writes[i][2])
           Runs(f, m) == \A i \in 0 .. m : f[i] = Put(f, i)
           T == {m \in Nat : \E f : Runs(f, m)}
<1>1. n \in Nat
  OBVIOUS
<1>2. 0 \in T
  <2>1. Runs([i \in {0} |-> v], 0)
    OBVIOUS
  <2> QED BY <2>1
<1>3. ASSUME NEW m \in Nat, m \in T PROVE m + 1 \in T
  <2>1. PICK f : Runs(f, m)
    BY <1>3
  <2> DEFINE g == [i \in 0 .. m + 1 |-> IF i = m + 1 THEN Put(f, i) ELSE f[i]]
  <2>2. ASSUME NEW i \in 0 .. m + 1 PROVE g[i] = Put(g, i)
    <3>1. CASE i = m + 1
      <4>1. i # 0 /\ i - 1 \in 0 .. m + 1 /\ i - 1 # m + 1
        BY <3>1
      <4>2. g[i - 1] = f[i - 1]
        BY <4>1
      <4> QED BY <3>1, <4>1, <4>2
    <3>2. CASE i # m + 1
      <4>1. i \in 0 .. m
        BY <3>2
      <4>2. i # 0 => i - 1 \in 0 .. m + 1 /\ i - 1 # m + 1
        BY <3>2
      <4>3. i # 0 => g[i - 1] = f[i - 1]
        BY <4>2
      <4>4. g[i] = f[i]
        BY <3>2
      <4> QED BY <2>1, <4>1, <4>3, <4>4
    <3> QED BY <3>1, <3>2
  <2> HIDE DEF g
  <2> QED BY <2>2
<1> HIDE DEF T
<1>4. T = Nat
  <2>1. T \in SUBSET Nat
    BY DEF T
  <2> QED BY <1>2, <1>3, <2>1, NatSet
<1>5. PICK f : Runs(f, n)
  BY <1>1, <1>4 DEF T
<1> DEFINE Is(h) == h = [i \in 0 .. n |-> Put(h, i)]
           after == CHOOSE h : Is(h)
           k == [i \in 0 .. n |-> f[i]]
<1>6. ASSUME NEW i \in 0 .. n PROVE k[i] = Put(k, i)
  <2>1. i # 0 => i - 1 \in 0 .. n
    BY <1>1
  <2> QED BY <1>5, <2>1
<1>7. Is(k)
  BY <1>6
<1>8. Is(after)
  BY <1>7
<1>9. Outs(v, writes) = after[n]
  BY DEF Outs
<1> HIDE DEF after
<1>10. OutsRun(after, v, writes)
  <2>1. \A i \in 0 .. n : after[i] = Put(after, i)
    BY <1>8
  <2>2. 0 \in 0 .. n /\ \A i \in 1 .. n : i \in 0 .. n /\ i # 0
    BY <1>1
  <2> QED BY <2>1, <2>2 DEF OutsRun
<1> QED BY <1>9, <1>10

LEMMA OutsKeep ==
  ASSUME NEW v, Steady(v), NEW writes \in Seq(KeptWrites)
  PROVE  Keeps(v, Outs(v, writes))
<1>1. PICK f : OutsRun(f, v, writes) /\ Outs(v, writes) = f[Len(writes)]
  BY OutsRuns
<1> DEFINE n == Len(writes)
           T == {i \in 0 .. n : Keeps(v, f[i])}
<1>2. n \in Nat /\ \A i \in 1 .. n : writes[i] \in KeptWrites
  OBVIOUS
<1>3. 0 \in T
  BY <1>1, <1>2, KeepsNothing DEF OutsRun
<1>4. ASSUME NEW i \in 0 .. n - 1, i \in T PROVE i + 1 \in T
  <2>1. i + 1 \in 1 .. n /\ i + 1 \in 0 .. n /\ (i + 1) - 1 = i
    BY <1>2
  <2>2. writes[i + 1][1] \in OutPorts \ ModePorts /\ writes[i + 1][2] \in Nat
    BY <1>2, <2>1 DEF KeptWrites
  <2>3. f[i + 1] = WritePort(f[i], writes[i + 1][1], writes[i + 1][2])
    BY <1>1, <2>1 DEF OutsRun
  <2>4. Keeps(v, f[i]) /\ Steady(f[i])
    BY <1>4 DEF Keeps, KeepsCopies
  <2>5. Keeps(f[i], f[i + 1])
    BY <2>2, <2>3, <2>4, PortKeeps
  <2>6. Keeps(v, f[i + 1])
    BY <2>4, <2>5, KeepsOn
  <2> QED BY <2>1, <2>6
<1>5. 0 .. n \subseteq T
  BY <1>2, <1>3, <1>4, UpTo
<1>6. n \in 0 .. n
  BY <1>2
<1> QED BY <1>1, <1>5, <1>6

LEMMA ListTyped ==
  ASSUME NEW S, NEW a \in S, NEW b \in S, NEW c \in S, NEW d \in S
  PROVE  <<a, b>> \in Seq(S) /\ <<a, b, c>> \in Seq(S) /\ <<a, b, c, d>> \in Seq(S)
  OBVIOUS

LEMMA IndexedKeeps ==
  ASSUME NEW v, Steady(v), NEW port \in {\h3B4, \h3C4, \h3CE, \h3D4}, NEW index \in Nat, NEW value \in Nat
  PROVE  Keeps(v, Indexed(v, port, index, value))
<1>1. <<port, index>> \in KeptWrites /\ <<port + 1, value>> \in KeptWrites
  BY DEF KeptWrites, OutPorts, ModePorts
<1> DEFINE writes == << <<port, index>>, <<port + 1, value>> >>
<1>2. writes \in Seq(KeptWrites)
  BY <1>1, ListTyped
<1>3. Indexed(v, port, index, value) = Outs(v, writes)
  BY DEF Indexed
<1> HIDE DEF writes
<1> QED BY <1>2, <1>3, OutsKeep

-----------------------------------------------------------------------------
(* The two ports that change the mode leave the adapter steady.              *)
ModeChangeFields == {"mode", "hercMode", "hercVideo", "cgaMode", "bda"}
LEMMA ModeChangeSteady ==
  ASSUME NEW v, NEW w, Steady(v), Shape(w), DataTyped(w),
         \A f \in AdapterFields \ ModeChangeFields : w[f] = v[f]
  PROVE  Steady(w)
<1>1. Typed(w)
  BY DEF Steady, Typed, RegistersTyped, AdapterFields, ModeChangeFields
<1>2. DisplayEnabled(w) = DisplayEnabled(v)
  BY SameDisplay DEF AdapterFields, ModeChangeFields
<1> QED BY <1>1, <1>2 DEF Steady, CrtcHeld, FontHeld, UnderlineHeld, ShapeHeld, ControlHeld, PanningHeld,
     DisplayHeld, AdapterFields, ModeChangeFields
SyncedData == {"videoMode", "columns", "pageSize", "pageOffset", "page", "crtcBase", "modeControl", "colorSelect"}
LEMMA SyncCgaFacts ==
  ASSUME NEW v, Shape(v), CursorsTyped(v.bda.cursors), v.bda.rows \in Nat
  PROVE  LET w == SyncCga(v)
         IN  Shape(w) /\ DataTyped(w) /\ \A f \in AdapterFields \ {"bda"} : w[f] = v[f]
<1> DEFINE w == SyncCga(v)
           number == CASE v.mode = "Cga320x200x4" -> 4 [] v.mode = "Cga640x200x2" -> 6 [] OTHER -> 3
           columns == IF v.mode = "Cga320x200x4" THEN 40 ELSE 80
           size == IF v.mode \in CgaGraphics THEN 16384 ELSE 4096
           d == [v.bda EXCEPT !.videoMode = number, !.columns = columns, !.pageSize = size, !.pageOffset = 0,
                              !.page = 0, !.crtcBase = \h3D4, !.modeControl = v.cgaMode,
                              !.colorSelect = v.cgaColor]
<1>0. columns \in {40, 80} /\ size \in Nat
  OBVIOUS
<1>1. w = [v EXCEPT !.bda = d]
  BY DEF SyncCga, Shape, AdapterFields
<1> HIDE DEF number, columns, size
<1>2. DOMAIN d = DataFields /\ d.columns = columns /\ d.page = 0 /\ d.pageSize = size
      /\ d.cursors = v.bda.cursors /\ d.rows = v.bda.rows
  <2>1. DOMAIN v.bda = DataFields
    BY DEF Shape
  <2> DEFINE e == v.bda
  <2>2. DOMAIN e = DataFields
    BY <2>1
  <2> HIDE DEF e
  <2>3. DOMAIN d = DataFields /\ d.cursors = e.cursors /\ d.rows = e.rows
    BY ZenonT(60), <2>2 DEF DataFields, e
  <2>4. d.columns = columns /\ d.page = 0 /\ d.pageSize = size
    BY <2>2 DEF DataFields, e
  <2> HIDE DEF d
  <2> QED BY <2>3, <2>4 DEF e
<1> HIDE DEF d
<1>3. Shape(w) /\ w.bda = d /\ \A f \in AdapterFields \ {"bda"} : w[f] = v[f]
  BY <1>1, <1>2 DEF Shape, AdapterFields
<1> HIDE DEF w
<1>4. DataTyped(w)
  BY <1>0, <1>2, <1>3 DEF DataTyped
<1> QED BY <1>3, <1>4 DEF w

LEMMA ModePortSteady ==
  ASSUME NEW v, Steady(v), NEW port \in ModePorts, NEW value \in Nat
  PROVE  Steady(WritePort(v, port, value))
<1>1. Shape(v) /\ DataTyped(v) /\ CursorsTyped(v.bda.cursors) /\ v.bda.rows \in Nat
  BY DEF Steady, Typed, DataTyped
<1>2. CASE port = \h3B8
  <2> DEFINE x == [v EXCEPT !.hercMode = value, !.hercVideo = Has(value, 8),
                            !.mode = IF Has(value, 2) THEN "Hercules" ELSE "Text80"]
             w == [x EXCEPT !.bda.equipment = 48]
  <2>1. WritePort(v, port, value) = w
    BY <1>2 DEF WritePort, HerculesMode, SetEquipment
  <2>2. Shape(x) /\ \A f \in AdapterFields \ {"hercMode", "hercVideo", "mode"} : x[f] = v[f]
    BY <1>1 DEF Shape, AdapterFields
  <2> HIDE DEF x
  <2>3. /\ Shape(w) /\ \A f \in AdapterFields \ {"bda"} : w[f] = x[f]
        /\ \A f \in DataFields \ {"equipment"} : w.bda[f] = x.bda[f]
    BY <2>2 DEF Shape, AdapterFields, DataFields
  <2> HIDE DEF w
  <2>4. DataTyped(w)
    BY <1>1, <2>2, <2>3 DEF DataTyped, AdapterFields, DataFields
  <2> QED BY <2>1, <2>2, <2>3, <2>4, ModeChangeSteady DEF AdapterFields, ModeChangeFields
<1>3. CASE port = \h3D8
  <2> DEFINE w == [v EXCEPT !.cgaMode = value, !.bda.modeControl = value]
             graphics == IF Has(value, 16) THEN "Cga640x200x2" ELSE "Cga320x200x4"
             a == [w EXCEPT !.mode = graphics]
             b == [a EXCEPT !.bda.equipment = 32]
             c == [w EXCEPT !.mode = "Text80"]
  <2>1. WritePort(v, port, value) \in {SyncCga(b), SyncCga(c), w}
    <3>1. WritePort(v, port, value) = CgaModeControl(v, value)
      BY <1>3 DEF WritePort
    <3> QED BY <3>1 DEF CgaModeControl, SetEquipment
  <2>2. /\ Shape(w) /\ \A f \in AdapterFields \ {"cgaMode", "bda"} : w[f] = v[f]
        /\ \A f \in DataFields \ {"modeControl"} : w.bda[f] = v.bda[f]
    BY <1>1 DEF Shape, AdapterFields, DataFields
  <2> HIDE DEF w, graphics
  <2>3. /\ Shape(a) /\ \A f \in AdapterFields \ {"mode"} : a[f] = w[f]
        /\ Shape(c) /\ \A f \in AdapterFields \ {"mode"} : c[f] = w[f]
    BY <2>2 DEF Shape, AdapterFields
  <2> HIDE DEF a, c
  <2>4. /\ Shape(b) /\ \A f \in AdapterFields \ {"bda"} : b[f] = a[f]
        /\ \A f \in DataFields \ {"equipment"} : b.bda[f] = a.bda[f]
    BY <2>3 DEF Shape, AdapterFields, DataFields
  <2> HIDE DEF b
  <2>5. CursorsTyped(b.bda.cursors) /\ CursorsTyped(c.bda.cursors) /\ DataTyped(w)
        /\ b.bda.rows \in Nat /\ c.bda.rows \in Nat
    BY <1>1, <2>2, <2>3, <2>4 DEF DataTyped, AdapterFields, DataFields
  <2>6. \A u \in {SyncCga(b), SyncCga(c), w} :
          Shape(u) /\ DataTyped(u) /\ \A f \in AdapterFields \ ModeChangeFields : u[f] = v[f]
    <3>1. /\ Shape(SyncCga(b)) /\ DataTyped(SyncCga(b))
          /\ \A f \in AdapterFields \ ModeChangeFields : SyncCga(b)[f] = v[f]
      BY <2>2, <2>3, <2>4, <2>5, SyncCgaFacts DEF AdapterFields, ModeChangeFields
    <3>2. /\ Shape(SyncCga(c)) /\ DataTyped(SyncCga(c))
          /\ \A f \in AdapterFields \ ModeChangeFields : SyncCga(c)[f] = v[f]
      BY <2>2, <2>3, <2>5, SyncCgaFacts DEF AdapterFields, ModeChangeFields
    <3>3. Shape(w) /\ DataTyped(w) /\ \A f \in AdapterFields \ ModeChangeFields : w[f] = v[f]
      BY <2>2, <2>5 DEF AdapterFields, ModeChangeFields
    <3> QED BY <3>1, <3>2, <3>3
  <2> QED BY <2>1, <2>6, ModeChangeSteady
<1> QED BY <1>2, <1>3 DEF ModePorts

LEMMA PortSteady ==
  ASSUME NEW v, Steady(v), NEW port \in OutPorts, NEW value \in Nat
  PROVE  Steady(WritePort(v, port, value))
  BY PortKeeps, ModePortSteady DEF Keeps, KeepsCopies

LEMMA OutsSteady ==
  ASSUME NEW v, Steady(v), NEW writes \in Seq(Writes)
  PROVE  Steady(Outs(v, writes))
<1>1. PICK f : OutsRun(f, v, writes) /\ Outs(v, writes) = f[Len(writes)]
  BY OutsRuns
<1> DEFINE n == Len(writes)
           T == {i \in 0 .. n : Steady(f[i])}
<1>2. n \in Nat /\ \A i \in 1 .. n : writes[i] \in Writes
  OBVIOUS
<1>3. 0 \in T
  BY <1>1, <1>2 DEF OutsRun
<1>4. ASSUME NEW i \in 0 .. n - 1, i \in T PROVE i + 1 \in T
  <2>1. i + 1 \in 1 .. n /\ i + 1 \in 0 .. n /\ (i + 1) - 1 = i
    BY <1>2
  <2>2. writes[i + 1][1] \in OutPorts /\ writes[i + 1][2] \in Nat
    BY <1>2, <2>1 DEF Writes
  <2>3. f[i + 1] = WritePort(f[i], writes[i + 1][1], writes[i + 1][2])
    BY <1>1, <2>1 DEF OutsRun
  <2>4. Steady(f[i])
    BY <1>4
  <2>5. Steady(f[i + 1])
    BY <2>2, <2>3, <2>4, PortSteady
  <2> QED BY <2>1, <2>5
<1>5. 0 .. n \subseteq T
  BY <1>2, <1>3, <1>4, UpTo
<1>6. n \in 0 .. n
  BY <1>2
<1> QED BY <1>1, <1>5, <1>6

LEMMA ReadKeeps ==
  ASSUME NEW v, Steady(v), NEW port
  PROVE  Keeps(v, AfterRead(v, port))
<1> DEFINE w == AfterRead(v, port)
<1>1. Shape(v) /\ RegistersTyped(v)
  BY DEF Steady, Typed
<1>2. /\ Shape(w) /\ RegistersTyped(w)
      /\ \A f \in AdapterFields \ {"maskReads", "readAt", "attrData"} : w[f] = v[f]
  <2> DEFINE a == [v EXCEPT !.maskReads = IF @ >= 4 THEN 0 ELSE @ + 1]
             b == [v EXCEPT !.maskReads = 0]
             c == [v EXCEPT !.maskReads = 0, !.readAt = Step3(@)]
             d == [v EXCEPT !.attrData = FALSE]
  <2>1. w \in {a, b, c, d, v}
    BY DEF AfterRead
  <2>2. Shape(a) /\ RegistersTyped(a) /\ \A f \in AdapterFields \ {"maskReads"} : a[f] = v[f]
    BY <1>1 DEF Shape, RegistersTyped, AdapterFields
  <2>3. Shape(b) /\ RegistersTyped(b) /\ \A f \in AdapterFields \ {"maskReads"} : b[f] = v[f]
    BY <1>1 DEF Shape, RegistersTyped, AdapterFields
  <2>4. Shape(c) /\ RegistersTyped(c) /\ \A f \in AdapterFields \ {"maskReads", "readAt"} : c[f] = v[f]
    BY <1>1 DEF Shape, RegistersTyped, AdapterFields
  <2>5. Shape(d) /\ RegistersTyped(d) /\ \A f \in AdapterFields \ {"attrData"} : d[f] = v[f]
    BY <1>1 DEF Shape, RegistersTyped, AdapterFields
  <2> HIDE DEF a, b, c, d, w
  <2> QED BY <1>1, <2>1, <2>2, <2>3, <2>4, <2>5
<1> QED BY <1>2, QuietWrite DEF QuietFields, AdapterFields

-----------------------------------------------------------------------------
(* What the BIOS reaches behind the guest's back.                            *)
LEMMA DacStateKeeps ==
  ASSUME NEW v, NEW w, Steady(v), Shape(w), \A f \in AdapterFields \ {"dac"} : w[f] = v[f], NEW d
  PROVE  Keeps(v, SetDacState(w, d)) /\ ColoursHeld(SetDacState(w, d))
<1> DEFINE x == [w EXCEPT !.readAt = d.readAt, !.writeAt = d.writeAt, !.pelMask = d.pelMask,
                          !.dacState = d.dacState, !.maskReads = Lesser(d.maskReads, 4),
                          !.dacCommand = d.dacCommand]
<1>1. SetDacState(w, d) = UpdatePalette(x)
  BY DEF SetDacState
<1>2. RegistersTyped(w)
  BY DEF Steady, Typed, RegistersTyped, AdapterFields
<1>3. /\ Shape(x) /\ RegistersTyped(x)
      /\ \A f \in AdapterFields \ {"readAt", "writeAt", "pelMask", "dacState", "maskReads", "dacCommand"} : x[f] = w[f]
  BY <1>2 DEF Shape, RegistersTyped, AdapterFields
<1> HIDE DEF x
<1> QED BY <1>1, <1>3, PaletteRefreshed DEF SameData, AdapterFields

LEMMA AttributeStateFacts ==
  ASSUME NEW v, Typed(v), CrtcHeld(v), NEW a, a.index \in 0 .. 31
  PROVE  LET w == SetAttributeState(v, a)
         IN  Steady(w) /\ w.mode = v.mode /\ ColoursHeld(w) /\ BlinkHeld(w) /\ KeepsText(v, w)
             /\ (PlaceHeld(v) => PlaceHeld(w))
<1> DEFINE s == [v EXCEPT !.attrIndex = a.index, !.attrData = a.data, !.attrVideo = a.video,
                          !.text.blink = Has(v.attr[16], 8)]
           c == UpdateModeControl(s)
           p == UpdatePanning(c)
           u == UpdatePalette(p)
           w == UpdateDisplay(u)
<1>1. /\ Shape(s) /\ RegistersTyped(s) /\ s.text.blink = Has(s.attr[16], 8)
      /\ \A f \in AdapterFields \ {"attrIndex", "attrData", "attrVideo", "text"} : s[f] = v[f]
      /\ \A f \in TextFields \ {"blink"} : s.text[f] = v.text[f]
  BY DEF Typed, Shape, RegistersTyped, AdapterFields, TextFields
<1> HIDE DEF s
<1>2. /\ Shape(c) /\ \A f \in AdapterFields \ {"text"} : c[f] = s[f]
      /\ c.text.lineGraphics = Has(s.attr[16], 4) /\ c.text.nineDot = ~Has(s.seq[1], 1)
      /\ \A f \in TextFields \ {"lineGraphics", "nineDot"} : c.text[f] = s.text[f]
  BY <1>1 DEF UpdateModeControl, Shape, AdapterFields, TextFields
<1> HIDE DEF c
<1>3. c.attr[19] % 16 = s.attr[19]
  <2>1. c.attr = s.attr /\ s.attr[19] \in Nat /\ s.attr[19] < 16
    BY <1>1, <1>2 DEF RegistersTyped, AdapterFields
  <2> QED BY <2>1
<1>4. /\ Shape(p) /\ \A f \in AdapterFields \ {"text"} : p[f] = s[f]
      /\ p.text.panning = s.attr[19]
      /\ \A f \in TextFields \ {"panning"} : p.text[f] = c.text[f]
  BY <1>2, <1>3 DEF UpdatePanning, Shape, AdapterFields, TextFields
<1> HIDE DEF p
<1>5. /\ Shape(u) /\ \A f \in AdapterFields \ {"text"} : u[f] = s[f]
      /\ u.text.colours = ShownColours(p)
      /\ \A f \in TextFields \ {"colours"} : u.text[f] = p.text[f]
  BY <1>4 DEF UpdatePalette, Shape, AdapterFields, TextFields
<1> HIDE DEF u
<1>6. /\ Shape(w) /\ \A f \in AdapterFields \ {"text"} : w[f] = s[f]
      /\ w.text.display = DisplayEnabled(u)
      /\ \A f \in TextFields \ {"display"} : w.text[f] = u.text[f]
  BY <1>5 DEF UpdateDisplay, Shape, AdapterFields, TextFields
<1>7. w = SetAttributeState(v, a)
  BY DEF SetAttributeState, u, p, c, s
<1> HIDE DEF w
<1>8. ShownColours(w) = ShownColours(p) /\ DisplayEnabled(w) = DisplayEnabled(u)
  BY <1>4, <1>5, <1>6, SameColours, SameDisplay DEF AdapterFields
<1>9. Typed(w)
  <2>1. RegistersTyped(w)
    BY <1>1, <1>6 DEF RegistersTyped, AdapterFields
  <2>2. w.bda = v.bda /\ DataTyped(w)
    BY <1>1, <1>6 DEF Typed, DataTyped, AdapterFields
  <2>3. TextTyped(w.text)
    BY <1>1, <1>2, <1>4, <1>5, <1>6 DEF Typed, TextTyped, TextFields
  <2> QED BY <1>6, <2>1, <2>2, <2>3 DEF Typed
<1>10. Steady(w) /\ ColoursHeld(w) /\ BlinkHeld(w)
  BY <1>1, <1>2, <1>4, <1>5, <1>6, <1>8, <1>9 DEF Steady, CrtcHeld, FontHeld, UnderlineHeld, ShapeHeld,
     ControlHeld, PanningHeld, DisplayHeld, ColoursHeld, BlinkHeld, AdapterFields, TextFields
<1>11. w.mode = v.mode /\ KeepsText(v, w)
  BY <1>1, <1>2, <1>4, <1>5, <1>6 DEF KeepsText, ColumnsHeld, RowsHeld, RowInside, AdapterFields, TextFields
<1>12. PlaceHeld(v) => PlaceHeld(w)
  <2>1. /\ w.mode = v.mode /\ w.crtc = v.crtc /\ w.bda = v.bda
        /\ w.text.cursor = v.text.cursor /\ w.text.cursorOn = v.text.cursorOn
    BY <1>1, <1>2, <1>4, <1>5, <1>6 DEF AdapterFields, TextFields
  <2> QED BY <2>1, SamePlace DEF SameStart, SameData
<1> QED BY <1>7, <1>10, <1>11, <1>12

Refreshed(v, w) == Keeps(v, w) /\ ColoursHeld(w) /\ BlinkHeld(w)
LEMMA AttributeStateKeeps ==
  ASSUME NEW u, NEW v, Keeps(u, v), NEW a, a.index \in 0 .. 31
  PROVE  Refreshed(u, SetAttributeState(v, a))
<1> DEFINE w == SetAttributeState(v, a)
<1>1. Typed(v) /\ CrtcHeld(v)
  BY DEF Keeps, KeepsCopies, Steady
<1>2. Steady(w) /\ w.mode = v.mode /\ ColoursHeld(w) /\ BlinkHeld(w) /\ KeepsText(v, w)
      /\ (PlaceHeld(v) => PlaceHeld(w))
  BY <1>1, AttributeStateFacts
<1> QED BY <1>2 DEF Refreshed, Keeps, KeepsCopies, KeepsText

LEMMA SelectKeeps ==
  ASSUME NEW v, Steady(v), NEW i \in 0 .. 31
  PROVE  Keeps(v, SelectAttribute(v, i)) /\ AttributeFields(v).index \in 0 .. 31
<1>1. i + 32 \in Nat /\ \h3C0 \in OutPorts \ ModePorts
  BY DEF OutPorts, ModePorts
<1>2. Keeps(v, AfterRead(v, \h3DA)) /\ Steady(AfterRead(v, \h3DA))
  BY ReadKeeps DEF Keeps, KeepsCopies
<1>3. Keeps(AfterRead(v, \h3DA), SelectAttribute(v, i))
  BY <1>1, <1>2, PortKeeps DEF SelectAttribute
<1>4. AttributeFields(v).index \in 0 .. 31
  BY DEF AttributeFields, Steady, Typed, RegistersTyped
<1> QED BY <1>2, <1>3, <1>4, KeepsOn

LEMMA WriteAttributeKeeps ==
  ASSUME NEW v, Steady(v), NEW i \in 0 .. 31, NEW value \in Nat
  PROVE  Refreshed(v, WriteAttribute(v, i, value))
<1> DEFINE s == SelectAttribute(v, i)
           w == WritePort(s, \h3C0, value)
<1>1. Keeps(v, s) /\ Steady(s) /\ AttributeFields(v).index \in 0 .. 31
  BY SelectKeeps DEF Keeps, KeepsCopies
<1>2. \h3C0 \in OutPorts \ ModePorts
  BY DEF OutPorts, ModePorts
<1>3. Keeps(v, w)
  BY <1>1, <1>2, PortKeeps, KeepsOn
<1> QED BY <1>1, <1>3, AttributeStateKeeps DEF WriteAttribute

LEMMA ValuesTyped ==
  ASSUME NEW v, Steady(v), NEW port \in {\h3C1, \h3C3, \h3C4, \h3C5, \h3CA, \h3CC, \h3CE, \h3CF, \h3D4, \h3D5}
  PROVE  PortValue(v, port) \in Nat
<1>1. RegistersTyped(v)
  BY DEF Steady, Typed
<1>2. /\ v.attr[v.attrIndex] \in Nat /\ v.seq[v.seqIndex] \in Nat /\ v.gc[v.gcIndex] \in Nat
      /\ v.crtc[v.crtcIndex] \in Nat /\ v.misc \in Nat /\ v.feature \in Nat /\ v.enable \in Nat
      /\ v.seqIndex \in Nat /\ v.gcIndex \in Nat /\ v.crtcIndex \in Nat
  BY <1>1 DEF RegistersTyped
<1> QED BY <1>2 DEF PortValue

LEMMA ReadAttributeTyped ==
  ASSUME NEW v, Steady(v), NEW i \in 0 .. 31
  PROVE  ReadAttribute(v, i) \in Nat
<1>1. Steady(SelectAttribute(v, i))
  BY SelectKeeps DEF Keeps, KeepsCopies
<1> QED BY <1>1, ValuesTyped DEF ReadAttribute

LEMMA AfterReadAttributeKeeps ==
  ASSUME NEW v, Steady(v)
  PROVE  Refreshed(v, AfterReadAttribute(v))
<1>1. Keeps(v, SelectAttribute(v, 0)) /\ AttributeFields(v).index \in 0 .. 31
  BY SelectKeeps
<1> QED BY <1>1, AttributeStateKeeps DEF AfterReadAttribute

LEMMA WriteAttributesKeep ==
  ASSUME NEW v, Steady(v), NEW values, DOMAIN values \subseteq 0 .. 31, \A i \in DOMAIN values : values[i] \in Nat
  PROVE  Refreshed(v, WriteAttributes(v, values))
<1> DEFINE bits == [i \in DOMAIN values |-> AttributeBits(i, values[i])]
           attr == Update(v.attr, bits)
           w == [v EXCEPT !.attr = attr]
           blink(x) == [x EXCEPT !.bda.modeControl = IF Has(w.attr[16], 8) THEN With(@, 32) ELSE Without(@, 32)]
           y == IF 16 \in DOMAIN values THEN blink(w) ELSE w
<1>1. Shape(v) /\ RegistersTyped(v)
  BY DEF Steady, Typed
<1>2. attr \in [0 .. 31 -> Nat] /\ attr[19] < 16
  <2>1. ASSUME NEW i \in DOMAIN values PROVE bits[i] \in Nat /\ (i = 19 => bits[i] < 16)
    <3>1. i \in Nat /\ values[i] \in Nat
      OBVIOUS
    <3> QED BY <3>1, BitsTyped
  <2>2. v.attr \in [0 .. 31 -> Nat] /\ v.attr[19] < 16
    BY <1>1 DEF RegistersTyped
  <2>3. DOMAIN bits = DOMAIN values
    OBVIOUS
  <2> HIDE DEF bits
  <2> QED BY <2>1, <2>2, <2>3 DEF Update
<1>3. WriteAttributes(v, values) = SetAttributeState(y, AttributeFields(v))
  BY DEF WriteAttributes, w, blink, y
<1> HIDE DEF attr
<1>4. /\ Shape(w) /\ RegistersTyped(w) /\ \A f \in AdapterFields \ {"attr"} : w[f] = v[f]
  BY <1>1, <1>2 DEF Shape, RegistersTyped, AdapterFields
<1> HIDE DEF w
<1>5. /\ Shape(blink(w)) /\ RegistersTyped(blink(w)) /\ \A f \in AdapterFields \ {"bda"} : blink(w)[f] = w[f]
      /\ \A f \in DataFields \ {"modeControl"} : blink(w).bda[f] = w.bda[f]
  BY <1>4 DEF Shape, RegistersTyped, AdapterFields, DataFields
<1>6. /\ Shape(y) /\ RegistersTyped(y) /\ \A f \in AdapterFields \ {"attr", "bda"} : y[f] = v[f]
      /\ \A f \in DataFields \ {"modeControl"} : y.bda[f] = v.bda[f]
  <2>1. CASE 16 \in DOMAIN values
    <3>1. y = blink(w)
      BY <2>1
    <3> HIDE DEF blink, y
    <3> QED BY <1>4, <1>5, <3>1 DEF AdapterFields, DataFields
  <2>2. CASE 16 \notin DOMAIN values
    <3>1. y = w
      BY <2>2
    <3> HIDE DEF y
    <3> QED BY <1>4, <3>1 DEF AdapterFields, DataFields
  <2> QED BY <2>1, <2>2
<1> HIDE DEF y
<1>7. Typed(y) /\ CrtcHeld(y) /\ y.mode = v.mode /\ KeepsText(v, y)
  BY <1>6 DEF Steady, Typed, DataTyped, CrtcHeld, FontHeld, UnderlineHeld, ShapeHeld, KeepsText, ColumnsHeld,
     RowsHeld, RowInside, AdapterFields, DataFields
<1>10. PlaceHeld(v) => PlaceHeld(y)
  <2>1. y.mode = v.mode /\ y.crtc = v.crtc /\ y.text = v.text /\ SameData(v, y)
    BY <1>6 DEF SameData, AdapterFields, DataFields
  <2> QED BY <2>1, SamePlace DEF SameStart
<1>8. AttributeFields(v).index \in 0 .. 31
  BY <1>1 DEF AttributeFields, RegistersTyped
<1> DEFINE x == SetAttributeState(y, AttributeFields(v))
<1>9. Steady(x) /\ x.mode = y.mode /\ ColoursHeld(x) /\ BlinkHeld(x) /\ KeepsText(y, x)
      /\ (PlaceHeld(y) => PlaceHeld(x))
  BY <1>7, <1>8, AttributeStateFacts
<1> QED BY <1>3, <1>7, <1>9, <1>10 DEF Refreshed, Keeps, KeepsCopies, KeepsText

LEMMA GraySumKeeps ==
  ASSUME NEW v, Steady(v), NEW first, NEW count
  PROVE  Keeps(v, GraySum(v, first, count))
<1> DEFINE entries == {(first + i) % 256 : i \in 0 .. count - 1}
           w == [v EXCEPT !.dac = Update(@, [i \in entries |-> Gray(Colour(v.dac, i))])]
<1>1. GraySum(v, first, count) = SetDacState(w, DacFields(v))
  BY DEF GraySum
<1> HIDE DEF entries
<1>2. Shape(w) /\ \A f \in AdapterFields \ {"dac"} : w[f] = v[f]
  BY DEF Steady, Typed, Shape, AdapterFields
<1> HIDE DEF w
<1> QED BY <1>1, <1>2, DacStateKeeps

-----------------------------------------------------------------------------
(* The services that set no mode.  A service does to the machine what its    *)
(* port writes do to the adapter.                                            *)
BiosFields == {"colorPage", "loadPalette", "grayScale", "page"}
MachineTyped(m) == DOMAIN m = {"v", "b"} /\ DOMAIN m.b = BiosFields /\ m.b.page \in 0 .. 7
Serves(m, n) == MachineTyped(n) /\ Keeps(m.v, n.v)

LEMMA InFacts ==
  ASSUME NEW m, MachineTyped(m), NEW w
  PROVE  MachineTyped(In(m, w)) /\ In(m, w).v = w /\ In(m, w).b = m.b
  BY DEF MachineTyped, In

LEMMA InServes ==
  ASSUME NEW m, MachineTyped(m), NEW w, Keeps(m.v, w)
  PROVE  Serves(m, In(m, w))
  BY InFacts DEF Serves

LEMMA LesserFacts ==
  ASSUME NEW x \in Nat, NEW n \in Nat \ {0}
  PROVE  Lesser(x, n - 1) \in Nat /\ Lesser(x, n - 1) < n
  BY DEF Lesser

LEMMA HeightFacts ==
  ASSUME NEW v, RegistersTyped(v)
  PROVE  Height(v) \in Nat /\ Height(v) >= 200
<1>1. v.crtc[18] \in Nat
  BY DEF RegistersTyped
<1>2. VerticalDisplayEnd(v) \in Nat
  <2>1. \A x \in Nat : \A a \in {0, 256} : \A b \in {0, 512} : x + a + b \in Nat
    OBVIOUS
  <2> QED BY <1>1, <2>1 DEF VerticalDisplayEnd
<1>3. Mode13Height(v) \in Nat /\ Mode13Height(v) >= 200
  BY <1>2 DEF Mode13Height, Lesser
<1> QED BY <1>3 DEF Height

LEMMA GraphicsRowsFacts ==
  ASSUME NEW v, RegistersTyped(v), NEW biosMode
  PROVE  Height(v) \div CellFor(biosMode) \in Nat \ {0}
<1>1. Height(v) \in Nat /\ Height(v) >= 200
  BY HeightFacts
<1>2. \A x \in Nat : x >= 200 => x \div 8 \in Nat \ {0} /\ x \div 14 \in Nat \ {0} /\ x \div 16 \in Nat \ {0}
  OBVIOUS
<1>3. CellFor(biosMode) \in {8, 14, 16}
  BY DEF CellFor
<1> HIDE DEF CellFor
<1> QED BY ONLY <1>1, <1>2, <1>3

LEMMA TextRowsFacts == ASSUME NEW v, Typed(v) PROVE TextRows(v) \in Nat \ {0}
<1>1. Height(v) \div CellFor(v.bda.videoMode) \in Nat \ {0} /\ v.bda.rows \in Nat
  BY GraphicsRowsFacts DEF Typed, DataTyped
<1>2. Lesser(50, Height(v) \div CellFor(v.bda.videoMode)) \in Nat \ {0}
  BY <1>1 DEF Lesser
<1> QED BY <1>1, <1>2 DEF TextRows

\* A place kept inside the screen stays where it is.
LEMMA LesserAgain ==
  ASSUME NEW x \in Nat, NEW n \in Nat \ {0}
  PROVE  Lesser(Lesser(x, n - 1), n - 1) = Lesser(x, n - 1)
  BY DEF Lesser

LEMMA InsideScreen ==
  ASSUME NEW v, Typed(v), NEW row \in Nat, NEW column \in Nat
  PROVE  LET at == <<Lesser(row, TextRows(v) - 1), Lesser(column, TextColumns(v) - 1)>>
         IN  /\ IsPlace(at) /\ at[2] < v.bda.columns /\ at[1] < TextRows(v)
             /\ <<Lesser(at[1], TextRows(v) - 1), Lesser(at[2], TextColumns(v) - 1)>> = at
<1> DEFINE x == Lesser(row, TextRows(v) - 1)
           y == Lesser(column, TextColumns(v) - 1)
<1>1. TextColumns(v) = v.bda.columns /\ TextColumns(v) \in Nat \ {0}
  BY DEF TextColumns, Typed, DataTyped
<1>2. TextRows(v) \in Nat \ {0}
  BY TextRowsFacts
<1>3. /\ x \in Nat /\ x < TextRows(v) /\ Lesser(x, TextRows(v) - 1) = x
      /\ y \in Nat /\ y < TextColumns(v) /\ Lesser(y, TextColumns(v) - 1) = y
  BY ONLY <1>1, <1>2, LesserFacts, LesserAgain, row \in Nat, column \in Nat
<1> HIDE DEF x, y
<1> QED BY <1>1, <1>3 DEF IsPlace, x, y

LEMMA SetCursorServes ==
  ASSUME NEW m, MachineTyped(m), Steady(m.v), NEW page \in 0 .. 7, NEW row \in Nat, NEW column \in Nat
  PROVE  Serves(m, SetCursor(m, page, row, column))
<1> DEFINE v == m.v
           at == <<Lesser(row, TextRows(v) - 1), Lesser(column, TextColumns(v) - 1)>>
           w == [v EXCEPT !.bda.cursors[page] = at]
           x == [w EXCEPT !.text.cursor = at, !.text.cursorOn = TRUE]
           n == [In(m, x) EXCEPT !.b.page = page]
<1>1. Shape(v) /\ DataTyped(v) /\ TextTyped(v.text)
  BY DEF Steady, Typed
<1>2. /\ IsPlace(at) /\ at[2] < v.bda.columns /\ at[1] < TextRows(v)
      /\ <<Lesser(at[1], TextRows(v) - 1), Lesser(at[2], TextColumns(v) - 1)>> = at
  BY InsideScreen DEF Steady
<1>3. SetCursor(m, page, row, column) = IF page # v.bda.page THEN In(m, w) ELSE n
  BY DEF SetCursor
<1> HIDE DEF at
<1>4. /\ Shape(w) /\ \A f \in AdapterFields \ {"bda"} : w[f] = v[f]
      /\ \A f \in DataFields \ {"cursors"} : w.bda[f] = v.bda[f]
      /\ CursorsTyped(w.bda.cursors)
      /\ \A p \in 0 .. 7 : w.bda.cursors[p] = IF p = page THEN at ELSE v.bda.cursors[p]
  <2> DEFINE cursors == [v.bda.cursors EXCEPT ![page] = at]
             data == [v.bda EXCEPT !.cursors = cursors]
  <2>1. /\ DOMAIN cursors = 0 .. 7
        /\ \A p \in 0 .. 7 : cursors[p] = IF p = page THEN at ELSE v.bda.cursors[p]
    BY <1>1 DEF DataTyped, CursorsTyped
  <2>2. CursorsTyped(cursors)
    <3>1. at[1] \in Nat /\ at[2] \in Nat
      BY <1>2 DEF IsPlace
    <3> QED BY <1>1, <2>1, <3>1 DEF DataTyped, CursorsTyped
  <2>3. w = [v EXCEPT !.bda = data]
    OBVIOUS
  <2> HIDE DEF cursors, w
  <2>4. /\ DOMAIN data = DataFields /\ data.cursors = cursors
        /\ \A f \in DataFields \ {"cursors"} : data[f] = v.bda[f]
    BY <1>1 DEF Shape, DataFields
  <2> HIDE DEF data
  <2>5. Shape(w) /\ w.bda = data /\ \A f \in AdapterFields \ {"bda"} : w[f] = v[f]
    BY <1>1, <2>3, <2>4 DEF Shape, AdapterFields
  <2> QED BY <2>1, <2>2, <2>4, <2>5
<1> HIDE DEF w
<1>5. DataTyped(w) /\ w.text = v.text
  BY <1>1, <1>4 DEF DataTyped, AdapterFields, DataFields
<1>6. KeepsCopies(v, w) /\ (page # v.bda.page => Keeps(v, w))
  <2>1. KeepsText(v, w)
    BY <1>4, <1>5 DEF KeepsText, ColumnsHeld, RowsHeld, RowInside, AdapterFields, DataFields
  <2>2. KeepsCopies(v, w)
    BY <1>1, <1>4, <1>5, <2>1, ResizedCopies DEF AdapterFields
  <2>3. ASSUME page # v.bda.page, v.mode = "Text80" PROVE PlaceHeld(v) => PlaceHeld(w)
    <3>1. /\ w.mode = v.mode /\ w.crtc = v.crtc /\ w.bda.columns = v.bda.columns /\ w.bda.rows = v.bda.rows
          /\ w.bda.page = v.bda.page
      BY <1>4 DEF AdapterFields, DataFields
    <3>2. w.bda.cursors[v.bda.page] = v.bda.cursors[v.bda.page]
      BY <1>1, <1>4, <2>3 DEF DataTyped
    <3>3. CrtcCursor(w) = CrtcCursor(v)
      BY <3>1 DEF CrtcCursor, StartAddress
    <3>4. PlaceOn(w, w.bda.page) = PlaceOn(v, v.bda.page)
      BY <2>3, <3>1, <3>2 DEF PlaceOn, TextRows, TextColumns
    <3> QED BY <1>5, <3>1, <3>3, <3>4 DEF PlaceHeld
  <2>4. v.mode # "Text80" => PlaceHeld(w)
    BY <1>4 DEF PlaceHeld, AdapterFields
  <2> QED BY <2>2, <2>3, <2>4 DEF Keeps
<1>7. /\ Shape(x) /\ \A f \in AdapterFields \ {"text"} : x[f] = w[f]
      /\ x.text.cursor = at /\ \A f \in TextFields \ {"cursor", "cursorOn"} : x.text[f] = w.text[f]
  BY <1>4 DEF Shape, AdapterFields, TextFields
<1> HIDE DEF x
<1>8. KeepsCopies(w, x)
  <2>1. x.bda = w.bda /\ DataTyped(x) /\ x.mode = v.mode
    BY <1>4, <1>5, <1>7 DEF DataTyped, AdapterFields
  <2>2. TextTyped(x.text)
    BY <1>1, <1>2, <1>5, <1>7 DEF TextTyped, TextFields
  <2>3. KeepsText(w, x)
    <3>1. ColumnsHeld(w) => ColumnsHeld(x)
      BY <1>2, <1>4, <1>5, <1>7, <2>1 DEF ColumnsHeld, TextFields, DataFields
    <3>2. w.bda.rows = v.bda.rows /\ x.text.rows = w.text.rows /\ x.text.cellHeight = w.text.cellHeight
      BY <1>4, <1>7 DEF TextFields, DataFields
    <3>3. ASSUME RowsHeld(w) PROVE RowsHeld(x)
      <4>1. x.mode = "Text80" => TextRows(v) = x.text.rows
        BY <2>1, <3>2, <3>3 DEF RowsHeld, TextRows
      <4> QED BY <1>2, <1>7, <2>1, <3>2, <3>3, <4>1 DEF RowsHeld, RowInside
    <3> QED BY <3>1, <3>3 DEF KeepsText
  <2>4. \A f \in RegisterCopies : x.text[f] = w.text[f]
    BY <1>7 DEF RegisterCopies, TextFields
  <2>5. Steady(w)
    BY <1>6 DEF KeepsCopies
  <2> QED BY <1>7, <2>1, <2>2, <2>3, <2>4, <2>5, ResizedCopies DEF AdapterFields
<1>9. ASSUME page = v.bda.page PROVE Keeps(v, x)
  <2>1. /\ x.mode = v.mode /\ x.bda = w.bda /\ w.bda.columns = v.bda.columns /\ w.bda.rows = v.bda.rows
        /\ w.bda.page = v.bda.page
    BY <1>4, <1>7 DEF AdapterFields, DataFields
  <2>2. w.bda.cursors[page] = at
    BY <1>4
  <2>3. v.mode = "Text80" => PlaceOn(x, x.bda.page) = at
    BY <1>2, <1>9, <2>1, <2>2 DEF PlaceOn, TextRows, TextColumns
  <2>4. PlaceHeld(x)
    BY <1>7, <2>1, <2>3 DEF PlaceHeld
  <2> QED BY <1>6, <1>8, <2>4, Replaced
<1>10. page # v.bda.page => Serves(m, In(m, w))
  BY <1>6, InServes
<1>11. ASSUME page = v.bda.page PROVE Serves(m, n)
  <2>1. MachineTyped(In(m, x)) /\ In(m, x).v = x
    BY InFacts
  <2>2. MachineTyped(n) /\ n.v = x
    BY <2>1 DEF MachineTyped, BiosFields
  <2> QED BY <1>9, <1>11, <2>2 DEF Serves
<1> HIDE DEF n
<1> QED BY <1>3, <1>10, <1>11

LEMMA CursorShapeServes ==
  ASSUME NEW m, MachineTyped(m), Steady(m.v), NEW start \in Nat, NEW end \in Nat
  PROVE  Serves(m, CursorShape(m, start, end))
<1> DEFINE base == IF m.v.bda.crtcBase = \h3B4 THEN \h3B4 ELSE \h3D4
           a == Indexed(m.v, base, 10, start)
           b == Indexed(a, base, 11, end)
<1>1. base \in {\h3B4, \h3C4, \h3CE, \h3D4}
  OBVIOUS
<1>2. CursorShape(m, start, end) = In(m, Indexed(Indexed(m.v, base, 10, start), base, 11, end))
  BY DEF CursorShape
<1> HIDE DEF base
<1>3. Keeps(m.v, a)
  BY <1>1, IndexedKeeps
<1>4. Steady(a)
  BY <1>3 DEF Keeps, KeepsCopies
<1> HIDE DEF a
<1>5. Keeps(a, b)
  BY <1>1, <1>4, IndexedKeeps
<1>6. Keeps(m.v, b)
  BY <1>3, <1>5, KeepsOn
<1> QED BY <1>2, <1>6, InServes DEF a

LEMMA PageOffsetTyped ==
  ASSUME NEW v, DataTyped(v), NEW page \in Nat
  PROVE  PageOffset(v, page) \in Nat
<1> DEFINE size == IF v.bda.pageSize = 0 /\ v.mode = "Text80" THEN 4096 ELSE v.bda.pageSize
<1>1. size \in Nat
  BY DEF DataTyped
<1> HIDE DEF size
<1>2. page * size \in Nat
  BY <1>1
<1>3. (page * size) % 65536 \in Nat
  BY <1>2
<1> QED BY <1>3 DEF PageOffset, size

(* The start and cursor registers place the cursor and change no data.       *)
LEMMA IndexedIs ==
  ASSUME NEW v, NEW port, NEW index, NEW value
  PROVE  Indexed(v, port, index, value) = WritePort(WritePort(v, port, index), port + 1, value)
<1> DEFINE S == {<<port, index>>, <<port + 1, value>>}
           writes == << <<port, index>>, <<port + 1, value>> >>
<1>1. writes \in Seq(S) /\ Len(writes) = 2
  OBVIOUS
<1>2. PICK f : OutsRun(f, v, writes) /\ Outs(v, writes) = f[Len(writes)]
  BY <1>1, OutsRuns
<1>3. 1 \in 1 .. Len(writes) /\ 2 \in 1 .. Len(writes) /\ 2 - 1 = 1 /\ 1 - 1 = 0
  BY <1>1
<1>4. f[1] = WritePort(f[0], writes[1][1], writes[1][2]) /\ f[2] = WritePort(f[1], writes[2][1], writes[2][2])
  BY <1>2, <1>3 DEF OutsRun
<1>5. f[0] = v /\ Outs(v, writes) = f[2]
  BY <1>1, <1>2 DEF OutsRun
<1>6. writes[1][1] = port /\ writes[1][2] = index /\ writes[2][1] = port + 1 /\ writes[2][2] = value
  OBVIOUS
<1>7. Indexed(v, port, index, value) = Outs(v, writes)
  BY DEF Indexed
<1> HIDE DEF writes
<1> QED BY <1>4, <1>5, <1>6, <1>7

LEMMA CrtcWriteIs ==
  ASSUME NEW v, Shape(v), NEW index \in 8 .. 31, NEW value
  PROVE  \E u : /\ u = [v EXCEPT !.crtcIndex = index]
                /\ Indexed(v, \h3D4, index, value) = CrtcData(u, value)
<1> DEFINE u == [v EXCEPT !.crtcIndex = index]
<1>1. index % 32 = index
  OBVIOUS
<1>2. WritePort(v, \h3D4, index) = u
  BY <1>1 DEF WritePort
<1>3. \h3D4 + 1 = \h3D5
  OBVIOUS
<1> HIDE DEF u
<1>4. WritePort(u, \h3D5, value) = CrtcData(u, value)
  BY DEF WritePort
<1> QED BY <1>2, <1>3, <1>4, IndexedIs DEF u

LEMMA StartWritten ==
  ASSUME NEW v, Shape(v), NEW index \in 12 .. 15, NEW value
  PROVE  Indexed(v, \h3D4, index, value).bda = v.bda
<1>1. PICK u : u = [v EXCEPT !.crtcIndex = index] /\ Indexed(v, \h3D4, index, value) = CrtcData(u, value)
  BY CrtcWriteIs, index \in 8 .. 31
<1>2. Shape(u) /\ u.crtcIndex = index /\ u.bda = v.bda
  BY <1>1 DEF Shape, AdapterFields
<1> DEFINE w == [u EXCEPT !.crtc[index] = CrtcBits(index, value)]
<1>3. CrtcData(u, value) = UpdateCursor(w)
  BY <1>2 DEF CrtcData
<1>4. Shape(w) /\ w.bda = u.bda
  BY <1>2 DEF Shape, AdapterFields
<1> HIDE DEF w
<1>5. UpdateCursor(w).bda = w.bda
  BY <1>4 DEF UpdateCursor, Shape, AdapterFields
<1> QED BY <1>1, <1>2, <1>3, <1>4, <1>5

LEMMA SelectPageServes ==
  ASSUME NEW m, MachineTyped(m), Steady(m.v), NEW page \in 0 .. 7
  PROVE  Serves(m, SelectPage(m, page))
<1> DEFINE offset == PageOffset(m.v, page)
           start == StartFor(m.v, offset)
           v == [m.v EXCEPT !.bda.page = page, !.bda.pageOffset = offset]
           a == Indexed(v, \h3D4, 12, start \div 256)
           b == Indexed(a, \h3D4, 13, start % 256)
           x == PageCursor(b, page)
<1>1. Shape(m.v) /\ DataTyped(m.v) /\ TextTyped(m.v.text)
  BY DEF Steady, Typed
<1>2. offset \in Nat
  BY <1>1, PageOffsetTyped
<1> HIDE DEF offset
<1>3. start \in Nat
  <2>1. offset \div 1 \in Nat /\ offset \div 2 \in Nat /\ offset \div 4 \in Nat
    BY <1>2
  <2>2. AddressUnit(m.v) \in {1, 2, 4}
    BY DEF AddressUnit
  <2>3. offset \div AddressUnit(m.v) \in Nat
    BY <2>1, <2>2
  <2> QED BY <1>2, <2>1, <2>3 DEF StartFor
<1> HIDE DEF start
<1>4. start \div 256 \in Nat /\ start % 256 \in Nat
  BY <1>3
<1>5. /\ Shape(v) /\ v.bda.page = page /\ \A f \in AdapterFields \ {"bda"} : v[f] = m.v[f]
      /\ \A f \in DataFields \ {"page", "pageOffset"} : v.bda[f] = m.v.bda[f]
  BY <1>1 DEF Shape, AdapterFields, DataFields
<1> HIDE DEF v
<1>6. KeepsCopies(m.v, v) /\ Steady(v)
  <2>1. DataTyped(v) /\ v.text = m.v.text
    BY <1>1, <1>5 DEF DataTyped, AdapterFields, DataFields
  <2>2. KeepsText(m.v, v)
    BY <1>5, <2>1 DEF KeepsText, ColumnsHeld, RowsHeld, RowInside, AdapterFields, DataFields
  <2>3. KeepsCopies(m.v, v)
    BY <1>1, <1>5, <2>1, <2>2, ResizedCopies DEF AdapterFields
  <2> QED BY <2>3 DEF KeepsCopies
<1>7. KeepsCopies(v, a) /\ Steady(a) /\ a.bda = v.bda
  <2>1. Keeps(v, a)
    BY <1>4, <1>6, IndexedKeeps
  <2> QED BY <1>5, <2>1, StartWritten DEF Keeps, KeepsCopies
<1> HIDE DEF a
<1>8. KeepsCopies(a, b) /\ Steady(b) /\ b.bda.page = page
  <2>1. Keeps(a, b)
    BY <1>4, <1>7, IndexedKeeps
  <2>2. Shape(a)
    BY <1>7 DEF Steady, Typed
  <2> QED BY <1>5, <1>7, <2>1, <2>2, StartWritten DEF Keeps, KeepsCopies
<1> HIDE DEF b
<1>9. KeepsCopies(b, x) /\ PlaceHeld(x)
  <2> DEFINE at == PlaceOn(b, page)
             y == [b EXCEPT !.text.cursor = at, !.text.cursorOn = TRUE]
  <2>1. x = IF b.mode = "Text80" THEN y ELSE b
    BY DEF PageCursor
  <2>2. Shape(b) /\ DataTyped(b) /\ TextTyped(b.text) /\ Typed(b)
    BY <1>8 DEF Steady, Typed
  <2>3. IsPlace(at) /\ at[2] < b.bda.columns /\ at[1] < TextRows(b)
    <3>1. b.bda.cursors[page][1] \in Nat /\ b.bda.cursors[page][2] \in Nat
      BY <2>2 DEF DataTyped, CursorsTyped
    <3> QED BY <2>2, <3>1, InsideScreen DEF PlaceOn
  <2> HIDE DEF at
  <2>4. /\ Shape(y) /\ \A f \in AdapterFields \ {"text"} : y[f] = b[f]
        /\ y.text.cursor = at /\ \A f \in TextFields \ {"cursor", "cursorOn"} : y.text[f] = b.text[f]
    BY <2>2 DEF Shape, AdapterFields, TextFields
  <2> HIDE DEF y, x
  <2>5. y.bda = b.bda /\ DataTyped(y) /\ y.mode = b.mode
    BY <2>2, <2>4 DEF DataTyped, AdapterFields
  <2>6. TextTyped(y.text)
    BY <2>2, <2>3, <2>4 DEF TextTyped, TextFields
  <2>7. ASSUME b.mode = "Text80" PROVE KeepsText(b, y)
    <3>1. ColumnsHeld(b) => ColumnsHeld(y)
      BY <2>3, <2>4, <2>5 DEF ColumnsHeld, TextFields
    <3>2. y.text.rows = b.text.rows /\ y.text.cellHeight = b.text.cellHeight /\ TextRows(b) = b.bda.rows + 1
      BY <2>4, <2>7 DEF TextRows, TextFields
    <3>3. RowsHeld(b) => RowsHeld(y)
      BY <2>3, <2>4, <2>5, <3>2 DEF RowsHeld, RowInside
    <3> QED BY <3>1, <3>3 DEF KeepsText
  <2>8. \A f \in RegisterCopies : y.text[f] = b.text[f]
    BY <2>4 DEF RegisterCopies, TextFields
  <2>9. b.mode = "Text80" => KeepsCopies(b, y)
    BY <1>8, <2>4, <2>5, <2>6, <2>7, <2>8, ResizedCopies DEF AdapterFields
  <2>10. b.mode = "Text80" => PlaceOn(y, y.bda.page) = at
    BY <1>8, <2>5 DEF PlaceOn, TextRows, TextColumns, at
  <2>11. b.mode = "Text80" => PlaceHeld(y)
    BY <2>4, <2>10 DEF PlaceHeld
  <2>12. b.mode # "Text80" => PlaceHeld(b) /\ KeepsCopies(b, b)
    BY <1>8, KeepsNothing DEF PlaceHeld, Keeps
  <2> QED BY <2>1, <2>9, <2>11, <2>12
<1>10. Keeps(m.v, x)
  <2>1. KeepsCopies(m.v, b)
    BY <1>6, <1>7, <1>8, CopiesOn
  <2> QED BY <1>9, <2>1, Replaced
<1>11. SelectPage(m, page) = [v |-> x, b |-> [m.b EXCEPT !.page = page]]
  BY DEF SelectPage, v, a, b, offset, start
<1> HIDE DEF x
<1> QED BY <1>10, <1>11 DEF Serves, MachineTyped, BiosFields

(* A port other than the two, and an index port with its data port.          *)
KeptPorts == {\h3C2, \h3C4, \h3C6, \h3C8, \h3C9, \h3D4, \h3D9}
LEMMA PortServes ==
  ASSUME NEW m, MachineTyped(m), Steady(m.v), NEW port \in KeptPorts, NEW value \in Nat
  PROVE  Serves(m, In(m, WritePort(m.v, port, value)))
<1>1. port \in OutPorts \ ModePorts
  BY DEF KeptPorts, OutPorts, ModePorts
<1> QED BY <1>1, PortKeeps, InServes

LEMMA IndexRead ==
  ASSUME NEW v, Steady(v), NEW port \in {\h3C4, \h3CE, \h3D4}, NEW index \in Nat
  PROVE  PortValue(WritePort(v, port, index), port + 1) \in Nat
<1>1. port \in OutPorts \ ModePorts /\ port + 1 \in {\h3C5, \h3CF, \h3D5}
  BY DEF OutPorts, ModePorts
<1>2. Keeps(v, WritePort(v, port, index))
  BY <1>1, PortKeeps
<1>3. Steady(WritePort(v, port, index))
  BY <1>2 DEF Keeps, KeepsCopies
<1> QED BY <1>1, <1>3, ValuesTyped

(* Metrics: rows and cells of the data area and of the renderer together.    *)
LEMMA MetricsKeep ==
  ASSUME NEW v, Steady(v), NEW height \in {8, 14, 16}, NEW rows \in 25 .. 50, Fits(rows, height)
  PROVE  LET w == [v EXCEPT !.bda.rows = rows - 1, !.bda.cell = height,
                            !.text = WithRows(WithCellHeight(@, height), rows)]
         IN  KeepsCopies(v, w) /\ (OnCrtc(v) => PlaceHeld(w))
<1> DEFINE c == WithCellHeight(v.text, height)
           t == WithRows(c, rows)
           w == [v EXCEPT !.bda.rows = rows - 1, !.bda.cell = height, !.text = t]
<1>1. Shape(v) /\ DataTyped(v) /\ TextTyped(v.text)
  BY DEF Steady, Typed
<1>2. DOMAIN c = TextFields /\ IsPlace(c.cursor) /\ c.cellHeight = height
      /\ c.cursor[2] = v.text.cursor[2]
      /\ (v.text.cursor[1] < 25 => c.cursor = v.text.cursor)
      /\ \A f \in TextFields \ {"rows", "cursor", "cellHeight"} : c[f] = v.text[f]
  <2>1. DOMAIN v.text = TextFields /\ IsPlace(v.text.cursor)
    BY <1>1 DEF Shape, TextTyped
  <2> QED BY ONLY ZenonT(60), <2>1, WithCellHeightFacts, height \in {8, 14, 16}
<1> HIDE DEF c
<1>3. DOMAIN t = TextFields /\ IsPlace(t.cursor) /\ t.rows = rows /\ t.cursor[2] = c.cursor[2]
      /\ t.cursor[1] < rows /\ (c.cursor[1] < 25 => t.cursor = c.cursor)
      /\ \A f \in TextFields \ {"rows", "cursor"} : t[f] = c[f]
  <2>1. DOMAIN c = TextFields /\ IsPlace(c.cursor)
    BY <1>2
  <2> QED BY ONLY SMTT(30), <2>1, WithRowsFacts, rows \in 25 .. 50
<1> HIDE DEF t
<1>4. /\ Shape(w) /\ w.text = t /\ w.bda.cell = height /\ w.bda.rows = rows - 1
      /\ \A f \in AdapterFields \ {"text", "bda"} : w[f] = v[f]
      /\ \A f \in DataFields \ {"cell", "rows"} : w.bda[f] = v.bda[f]
  BY <1>1, <1>3 DEF Shape, AdapterFields, DataFields
<1>5. w = [v EXCEPT !.bda.rows = rows - 1, !.bda.cell = height,
                    !.text = WithRows(WithCellHeight(@, height), rows)]
  BY <1>1 DEF Shape, AdapterFields, t, c
<1> HIDE DEF w
<1>6. TextTyped(w.text) /\ DataTyped(w)
  <2>1. DataTyped(w)
    <3>1. rows - 1 \in Nat
      OBVIOUS
    <3> QED BY <1>1, <1>4, <3>1 DEF DataTyped, DataFields
  <2>2. TextTyped(t)
    BY <1>1, <1>2, <1>3 DEF TextTyped, TextFields
  <2> QED BY <1>4, <2>1, <2>2
<1>7. KeepsText(v, w)
  <2>1. ColumnsHeld(v) => ColumnsHeld(w)
    BY <1>2, <1>3, <1>4 DEF ColumnsHeld, TextFields, DataFields
  <2>2. RowsHeld(w)
    BY <1>2, <1>3, <1>4 DEF RowsHeld, RowInside, TextFields, DataFields
  <2> QED BY <2>1, <2>2 DEF KeepsText
<1>8. \A f \in RegisterCopies : w.text[f] = v.text[f]
  BY <1>2, <1>3, <1>4 DEF RegisterCopies, TextFields
<1>9. KeepsCopies(v, w)
  BY <1>4, <1>6, <1>7, <1>8, ResizedCopies
<1>10. ASSUME OnCrtc(v) PROVE PlaceHeld(w)
  <2>1. /\ w.mode = v.mode /\ w.crtc = v.crtc /\ w.bda.columns = v.bda.columns
        /\ w.text.cursorOn = v.text.cursorOn
    BY <1>2, <1>3, <1>4 DEF AdapterFields, TextFields, DataFields
  <2>2. CrtcCursor(w) = CrtcCursor(v)
    BY <2>1 DEF CrtcCursor, StartAddress
  <2>3. v.text.cursor[1] < 25 => w.text.cursor = v.text.cursor
    BY <1>2, <1>3, <1>4
  <2> QED BY <1>10, <2>1, <2>2, <2>3 DEF OnCrtc, PlaceHeld
<1> QED BY <1>5, <1>9, <1>10

\* Writing the cell height to CRTC 09h places the cursor.
LEMMA HeightWritten ==
  ASSUME NEW v, Steady(v), NEW q \in Nat, NEW height \in {8, 14, 16}
  PROVE  OnCrtc(Indexed(v, \h3D4, 9, 32 * q + height - 1))
<1> DEFINE bits == 32 * q + height - 1
<1>1. Shape(v) /\ RegistersTyped(v)
  BY DEF Steady, Typed
<1>2. PICK u : u = [v EXCEPT !.crtcIndex = 9] /\ Indexed(v, \h3D4, 9, bits) = CrtcData(u, bits)
  BY <1>1, CrtcWriteIs, 9 \in 8 .. 31
<1>3. bits \in Nat /\ (bits % 32) + 1 = height
  <2>1. (32 * q + 7) % 32 = 7 /\ (32 * q + 13) % 32 = 13 /\ (32 * q + 15) % 32 = 15
    OBVIOUS
  <2>2. 32 * q + 8 - 1 = 32 * q + 7 /\ 32 * q + 14 - 1 = 32 * q + 13 /\ 32 * q + 16 - 1 = 32 * q + 15
    OBVIOUS
  <2>3. CASE height = 8
    BY <2>1, <2>2, <2>3
  <2>4. CASE height = 14
    BY <2>1, <2>2, <2>4
  <2>5. CASE height = 16
    BY <2>1, <2>2, <2>5
  <2> QED BY <2>3, <2>4, <2>5
<1> HIDE DEF bits
<1>4. CrtcBits(9, bits) = bits
  BY DEF CrtcBits
<1> DEFINE w == [u EXCEPT !.crtc[9] = CrtcBits(9, bits)]
<1>5. Shape(u) /\ u.crtcIndex = 9 /\ \A f \in AdapterFields \ {"crtcIndex"} : u[f] = v[f]
  BY <1>1, <1>2 DEF Shape, AdapterFields
<1>6. CrtcData(u, bits) = UpdateCellHeight(w)
  BY <1>5 DEF CrtcData
<1>7. Typed(u)
  BY <1>5 DEF Steady, Typed, RegistersTyped, DataTyped, TextTyped, AdapterFields
<1>8. Typed(w) /\ w.crtc[9] = bits
  BY <1>3, <1>4, <1>7 DEF Typed, Shape, RegistersTyped, DataTyped, AdapterFields
<1> HIDE DEF w
<1>9. OnCrtc(UpdateCellHeight(w))
  BY <1>3, <1>8, CellHeightReshapes
<1> QED BY <1>2, <1>6, <1>9 DEF bits

LEMMA SetCellHeightServes ==
  ASSUME NEW m, MachineTyped(m), Steady(m.v), NEW height \in {8, 14, 16}
  PROVE  Serves(m, SetCellHeight(m, height, RowsFor(height)))
<1> DEFINE rows == RowsFor(height)
           metrics(v) == [v EXCEPT !.bda.rows = rows - 1, !.bda.cell = height,
                                   !.text = WithRows(WithCellHeight(@, height), rows)]
           old == PortValue(WritePort(m.v, \h3D4, 9), \h3D4 + 1)
           bits == 32 * (old \div 32) + height - 1
           a == metrics(m.v)
           b == Indexed(a, \h3D4, 9, bits)
           c == metrics(b)
<1>1. rows \in 25 .. 50 /\ Fits(rows, height)
  BY DEF RowsFor, Fits
<1>2. old \in Nat
  <2>1. \h3D4 \in {\h3C4, \h3CE, \h3D4} /\ 9 \in Nat
    OBVIOUS
  <2> QED BY <2>1, IndexRead
<1>3. \h3D4 + 1 = \h3D5
  OBVIOUS
<1>4. SetCellHeight(m, height, rows) = In(m, c)
  BY <1>3 DEF SetCellHeight
<1> HIDE DEF rows, old
<1>5. bits \in Nat /\ old \div 32 \in Nat
  BY <1>2
<1>6. \A v : Steady(v) => KeepsCopies(v, metrics(v)) /\ (OnCrtc(v) => PlaceHeld(metrics(v)))
  <2> HIDE DEF metrics
  <2> SUFFICES ASSUME NEW v, Steady(v)
               PROVE  KeepsCopies(v, metrics(v)) /\ (OnCrtc(v) => PlaceHeld(metrics(v)))
    OBVIOUS
  <2> QED BY ONLY ZenonT(60), Steady(v), height \in {8, 14, 16}, <1>1, MetricsKeep DEF metrics
<1> HIDE DEF metrics
<1>7. KeepsCopies(m.v, a) /\ Steady(a)
  BY <1>6 DEF KeepsCopies
<1> HIDE DEF a
<1>13. OnCrtc(b)
  BY <1>5, <1>7, HeightWritten
<1> HIDE DEF bits
<1>8. KeepsCopies(a, b)
  BY <1>5, <1>7, IndexedKeeps DEF Keeps
<1>9. Steady(b)
  BY <1>8 DEF Keeps, KeepsCopies
<1> HIDE DEF b
<1>10. KeepsCopies(b, c) /\ PlaceHeld(c)
  BY <1>6, <1>9, <1>13
<1>11. Keeps(m.v, c)
  <2>1. KeepsCopies(m.v, b)
    BY <1>7, <1>8, CopiesOn
  <2> QED BY <1>10, <2>1, Replaced
<1>12. Serves(m, In(m, c))
  BY <1>11, InServes
<1> QED BY <1>4, <1>12 DEF rows

(* Colours and switches.                                                     *)
LEMMA AttributeServes ==
  ASSUME NEW m, MachineTyped(m), Steady(m.v), NEW i \in 0 .. 31, NEW value \in Nat
  PROVE  Serves(m, In(m, WriteAttribute(m.v, i, value)))
  BY WriteAttributeKeeps, InServes DEF Refreshed

LEMMA BorderServes ==
  ASSUME NEW m, MachineTyped(m), Steady(m.v), NEW colour \in Nat
  PROVE  Serves(m, Border(m, colour))
<1>1. CASE m.v.mode \in VgaGraphics \cup {"Text80"}
  <2>1. colour % 64 \in Nat /\ 17 \in 0 .. 31
    OBVIOUS
  <2> QED BY <1>1, <2>1, AttributeServes DEF Border
<1>2. CASE m.v.mode \notin VgaGraphics \cup {"Text80"}
  <2>1. m.v.cgaColor \in Nat
    BY DEF Steady, Typed, RegistersTyped
  <2>2. 16 * (m.v.cgaColor \div 16) + (colour % 16) \in Nat /\ \h3D9 \in KeptPorts
    BY <2>1 DEF KeptPorts
  <2> QED BY <1>2, <2>2, PortServes DEF Border
<1> QED BY <1>1, <1>2

LEMMA BlinkingServes ==
  ASSUME NEW m, MachineTyped(m), Steady(m.v), NEW on
  PROVE  Serves(m, Blinking(m, on))
<1> DEFINE control == ReadAttribute(m.v, 16)
           value == IF on THEN With(control, 8) ELSE Without(control, 8)
<1>1. control \in Nat
  BY ReadAttributeTyped
<1>2. Blinking(m, on) = In(m, WriteAttribute(m.v, 16, value))
  BY DEF Blinking
<1> HIDE DEF control
<1>3. value \in Nat
  BY <1>1, BitsTyped
<1> HIDE DEF value
<1> QED BY <1>2, <1>3, AttributeServes

LEMMA DacEntryServes ==
  ASSUME NEW m, MachineTyped(m), Steady(m.v), NEW i \in Nat, NEW c, c[1] \in Nat, c[2] \in Nat, c[3] \in Nat
  PROVE  Serves(m, DacEntry(m, i, c))
<1> DEFINE writes == << <<\h3C8, i>>, <<\h3C9, c[1]>>, <<\h3C9, c[2]>>, <<\h3C9, c[3]>> >>
<1>1. /\ <<\h3C8, i>> \in KeptWrites /\ <<\h3C9, c[1]>> \in KeptWrites
      /\ <<\h3C9, c[2]>> \in KeptWrites /\ <<\h3C9, c[3]>> \in KeptWrites
  BY DEF KeptWrites, OutPorts, ModePorts
<1>2. writes \in Seq(KeptWrites)
  BY <1>1, ListTyped
<1>3. DacEntry(m, i, c) = In(m, Outs(m.v, writes))
  BY DEF DacEntry
<1> HIDE DEF writes
<1> QED BY <1>2, <1>3, OutsKeep, InServes

LEMMA PelMaskServes ==
  ASSUME NEW m, MachineTyped(m), Steady(m.v), NEW mask \in Nat
  PROVE  Serves(m, PelMask(m, mask))
<1> DEFINE v == [m.v EXCEPT !.maskReads = 0]
<1>1. Shape(m.v) /\ RegistersTyped(m.v)
  BY DEF Steady, Typed
<1>2. Shape(v) /\ RegistersTyped(v) /\ \A f \in AdapterFields \ {"maskReads"} : v[f] = m.v[f]
  BY <1>1 DEF Shape, RegistersTyped, AdapterFields
<1>3. PelMask(m, mask) = In(m, WritePort(v, \h3C6, mask))
  BY DEF PelMask
<1> HIDE DEF v
<1>4. Keeps(m.v, v)
  BY <1>2, QuietWrite DEF QuietFields, AdapterFields
<1>5. Steady(v) /\ \h3C6 \in OutPorts \ ModePorts
  BY <1>4 DEF Keeps, KeepsCopies, OutPorts, ModePorts
<1>6. Keeps(m.v, WritePort(v, \h3C6, mask))
  BY <1>4, <1>5, PortKeeps, KeepsOn
<1> QED BY <1>3, <1>6, InServes

LEMMA SetPagingKeeps ==
  ASSUME NEW v, Steady(v), NEW on
  PROVE  Refreshed(v, SetPaging(v, on))
<1> DEFINE control == ReadAttribute(v, 16)
           value == IF on THEN With(control, 128) ELSE Without(control, 128)
<1>1. control \in Nat
  BY ReadAttributeTyped
<1>2. SetPaging(v, on) = WriteAttribute(v, 16, value)
  BY DEF SetPaging
<1> HIDE DEF control
<1>3. value \in Nat
  BY <1>1, BitsTyped
<1> HIDE DEF value
<1> QED BY <1>2, <1>3, WriteAttributeKeeps

LEMMA PagingServes ==
  ASSUME NEW m, MachineTyped(m), Steady(m.v), NEW w, Keeps(m.v, w), NEW n
  PROVE  Serves(m, [v |-> w, b |-> [m.b EXCEPT !.colorPage = n]])
  BY DEF Serves, MachineTyped, BiosFields

LEMMA ColourPageServes ==
  ASSUME NEW m, MachineTyped(m), Steady(m.v)
  PROVE  /\ \A on : Serves(m, ColorPaging(m, on))
         /\ \A page \in Nat : Serves(m, ColorPage(m, page))
<1>1. ASSUME NEW on PROVE Serves(m, ColorPaging(m, on))
  <2>1. Keeps(m.v, SetPaging(m.v, on))
    BY SetPagingKeeps DEF Refreshed
  <2> QED BY <2>1, PagingServes DEF ColorPaging
<1>2. ASSUME NEW page \in Nat PROVE Serves(m, ColorPage(m, page))
  <2> DEFINE chosen == Has(ReadAttribute(m.v, 16), 128)
             select == ReadAttribute(m.v, 20)
             value == IF chosen THEN page % 16 ELSE (select % 4) + 4 * (page % 4)
  <2>1. select \in Nat
    BY ReadAttributeTyped
  <2>2. ColorPage(m, page) = [v |-> WriteAttribute(m.v, 20, value),
                              b |-> [m.b EXCEPT !.colorPage = IF chosen THEN 1 ELSE 0]]
    BY DEF ColorPage
  <2> HIDE DEF select, chosen
  <2>3. value \in Nat
    BY <2>1
  <2> HIDE DEF value
  <2>4. Keeps(m.v, WriteAttribute(m.v, 20, value))
    BY <2>3, WriteAttributeKeeps DEF Refreshed
  <2> QED BY <2>2, <2>4, PagingServes
<1> QED BY <1>1, <1>2

LEMMA SwitchServes ==
  ASSUME NEW m, MachineTyped(m), Steady(m.v), NEW on
  PROVE  Serves(m, MemoryAccess(m, on)) /\ Serves(m, Refresh(m, on))
<1>1. Serves(m, MemoryAccess(m, on))
  <2> DEFINE value == IF on THEN With(m.v.misc, 2) ELSE Without(m.v.misc, 2)
  <2>1. m.v.misc \in Nat
    BY DEF Steady, Typed, RegistersTyped
  <2>2. value \in Nat /\ \h3C2 \in KeptPorts
    BY <2>1, BitsTyped DEF KeptPorts
  <2>3. MemoryAccess(m, on) = In(m, WritePort(m.v, \h3C2, value))
    BY DEF MemoryAccess
  <2> HIDE DEF value
  <2> QED BY <2>2, <2>3, PortServes
<1>2. Serves(m, Refresh(m, on))
  <2> DEFINE clocking == PortValue(WritePort(m.v, \h3C4, 1), \h3C4 + 1)
             value == IF on THEN Without(clocking, 32) ELSE With(clocking, 32)
  <2>1. clocking \in Nat
    <3>1. \h3C4 \in {\h3C4, \h3CE, \h3D4} /\ 1 \in Nat
      OBVIOUS
    <3> QED BY <3>1, IndexRead
  <2>2. \h3C4 + 1 = \h3C5
    OBVIOUS
  <2>3. Refresh(m, on) = In(m, Indexed(m.v, \h3C4, 1, value))
    BY <2>2 DEF Refresh
  <2> HIDE DEF clocking
  <2>4. value \in Nat
    BY <2>1, BitsTyped
  <2> HIDE DEF value
  <2>5. Keeps(m.v, Indexed(m.v, \h3C4, 1, value))
    BY <2>4, IndexedKeeps
  <2> QED BY <2>3, <2>5, InServes
<1> QED BY <1>1, <1>2

-----------------------------------------------------------------------------
(* Setting a mode makes every copy of the registers afresh.                  *)
Copies(v, w, fields) ==
  /\ Shape(w) /\ \A f \in AdapterFields \ {"text"} : w[f] = v[f]
  /\ \A f \in TextFields \ fields : w.text[f] = v.text[f]

LEMMA UpdatesCopy ==
  ASSUME NEW v, Shape(v)
  PROVE  /\ Copies(v, UpdatePalette(v), {"colours"}) /\ UpdatePalette(v).text.colours = ShownColours(v)
         /\ Copies(v, UpdateFontMap(v), {"fontMap"}) /\ UpdateFontMap(v).text.fontMap = v.seq[3]
         /\ Copies(v, UpdateUnderline(v), {"underline"})
         /\ UpdateUnderline(v).text.underline = v.crtc[20] % 32
         /\ Copies(v, UpdateShape(v), {"shape"}) /\ UpdateShape(v).text.shape = <<v.crtc[10], v.crtc[11]>>
         /\ Copies(v, UpdateModeControl(v), {"lineGraphics", "nineDot"})
         /\ UpdateModeControl(v).text.lineGraphics = Has(v.attr[16], 4)
         /\ UpdateModeControl(v).text.nineDot = ~Has(v.seq[1], 1)
         /\ Copies(v, UpdatePanning(v), {"panning"}) /\ UpdatePanning(v).text.panning = v.attr[19] % 16
         /\ Copies(v, UpdateDisplay(v), {"display"}) /\ UpdateDisplay(v).text.display = DisplayEnabled(v)
<1>1. Copies(v, UpdatePalette(v), {"colours"}) /\ UpdatePalette(v).text.colours = ShownColours(v)
  BY DEF Copies, Shape, UpdatePalette, AdapterFields, TextFields
<1>2. Copies(v, UpdateFontMap(v), {"fontMap"}) /\ UpdateFontMap(v).text.fontMap = v.seq[3]
  BY DEF Copies, Shape, UpdateFontMap, AdapterFields, TextFields
<1>3. Copies(v, UpdateUnderline(v), {"underline"}) /\ UpdateUnderline(v).text.underline = v.crtc[20] % 32
  BY DEF Copies, Shape, UpdateUnderline, AdapterFields, TextFields
<1>4. Copies(v, UpdateShape(v), {"shape"}) /\ UpdateShape(v).text.shape = <<v.crtc[10], v.crtc[11]>>
  BY DEF Copies, Shape, UpdateShape, AdapterFields, TextFields
<1>5. /\ Copies(v, UpdateModeControl(v), {"lineGraphics", "nineDot"})
      /\ UpdateModeControl(v).text.lineGraphics = Has(v.attr[16], 4)
      /\ UpdateModeControl(v).text.nineDot = ~Has(v.seq[1], 1)
  BY DEF Copies, Shape, UpdateModeControl, AdapterFields, TextFields
<1>6. Copies(v, UpdatePanning(v), {"panning"}) /\ UpdatePanning(v).text.panning = v.attr[19] % 16
  BY DEF Copies, Shape, UpdatePanning, AdapterFields, TextFields
<1>7. Copies(v, UpdateDisplay(v), {"display"}) /\ UpdateDisplay(v).text.display = DisplayEnabled(v)
  BY DEF Copies, Shape, UpdateDisplay, AdapterFields, TextFields
<1> QED BY <1>1, <1>2, <1>3, <1>4, <1>5, <1>6, <1>7

LEMMA CursorCopied ==
  ASSUME NEW v, Typed(v)
  PROVE  Typed(UpdateCursor(v)) /\ Copies(v, UpdateCursor(v), {"cursor", "cursorOn"})
         /\ (v.mode = "Text80" => UpdateCursor(v).text.cursor = CrtcCursor(v))
<1> DEFINE w == [v EXCEPT !.text.cursor = CrtcCursor(v), !.text.cursorOn = CrtcCursor(v)[1] < 25]
<1>1. IsPlace(CrtcCursor(v))
  BY CrtcCursorFacts DEF Typed, DataTyped
<1>2. Copies(v, w, {"cursor", "cursorOn"}) /\ w.text.cursor = CrtcCursor(v)
  BY DEF Copies, Typed, Shape, AdapterFields, TextFields
<1>3. Typed(w)
  BY <1>1, <1>2 DEF Copies, Typed, RegistersTyped, DataTyped, TextTyped, AdapterFields, TextFields
<1>4. Copies(v, v, {"cursor", "cursorOn"})
  BY DEF Copies, Typed
<1>5. UpdateCursor(v) = IF v.mode # "Text80" THEN v ELSE w
  BY DEF UpdateCursor
<1> HIDE DEF w
<1> QED BY <1>2, <1>3, <1>4, <1>5

\* No update of a register's copy disturbs the types.
LEMMA CopiesTyped ==
  ASSUME NEW v, NEW w, Typed(v), NEW fields, fields \subseteq RegisterCopies, Copies(v, w, fields)
  PROVE  Typed(w)
<1>1. \A f \in {"columns", "rows", "cellHeight", "cursor"} : w.text[f] = v.text[f]
  BY DEF Copies, RegisterCopies, TextFields
<1> QED BY <1>1 DEF Copies, Typed, RegistersTyped, DataTyped, TextTyped, AdapterFields

LEMMA TextRefreshed ==
  ASSUME NEW v, Typed(v)
  PROVE  LET w == UpdateText(v)
         IN  /\ Steady(w) /\ ColoursHeld(w) /\ w.text.blink = v.text.blink
             /\ \A f \in AdapterFields \ {"text"} : w[f] = v[f]
             /\ w.text.columns = v.text.columns
             /\ w.mode = "Text80" => w.text.cursor = CrtcCursor(w)
<1> DEFINE a == UpdatePalette(v)
           b == UpdateFontMap(a)
           c == UpdateUnderline(b)
           d == UpdateShape(c)
           e == UpdateCursor(d)
           g == UpdateModeControl(e)
           h == UpdatePanning(g)
           w == UpdateDisplay(h)
<1>0. UpdateText(v) = w
  BY DEF UpdateText
<1>1. Copies(v, a, {"colours"}) /\ a.text.colours = ShownColours(v) /\ Typed(a)
  BY UpdatesCopy, CopiesTyped DEF Typed, RegisterCopies
<1> HIDE DEF a
<1>2. Copies(a, b, {"fontMap"}) /\ b.text.fontMap = a.seq[3] /\ Typed(b)
  BY <1>1, UpdatesCopy, CopiesTyped DEF Typed, RegisterCopies
<1> HIDE DEF b
<1>3. Copies(b, c, {"underline"}) /\ c.text.underline = b.crtc[20] % 32 /\ Typed(c)
  BY <1>2, UpdatesCopy, CopiesTyped DEF Typed, RegisterCopies
<1> HIDE DEF c
<1>4. Copies(c, d, {"shape"}) /\ d.text.shape = <<c.crtc[10], c.crtc[11]>> /\ Typed(d)
  BY <1>3, UpdatesCopy, CopiesTyped DEF Typed, RegisterCopies
<1> HIDE DEF d
<1>5. Copies(d, e, {"cursor", "cursorOn"}) /\ Typed(e) /\ (d.mode = "Text80" => e.text.cursor = CrtcCursor(d))
  BY <1>4, CursorCopied
<1> HIDE DEF e
<1>6. /\ Copies(e, g, {"lineGraphics", "nineDot"}) /\ Typed(g)
      /\ g.text.lineGraphics = Has(e.attr[16], 4) /\ g.text.nineDot = ~Has(e.seq[1], 1)
  BY <1>5, UpdatesCopy, CopiesTyped DEF Typed, RegisterCopies
<1> HIDE DEF g
<1>7. Copies(g, h, {"panning"}) /\ h.text.panning = g.attr[19] % 16 /\ Typed(h)
  BY <1>6, UpdatesCopy, CopiesTyped DEF Typed, RegisterCopies
<1> HIDE DEF h
<1>8. Copies(h, w, {"display"}) /\ w.text.display = DisplayEnabled(h) /\ Typed(w)
  BY <1>7, UpdatesCopy, CopiesTyped DEF Typed, RegisterCopies
<1> HIDE DEF w
<1>9. \A f \in AdapterFields \ {"text"} : w[f] = v[f]
  BY <1>1, <1>2, <1>3, <1>4, <1>5, <1>6, <1>7, <1>8 DEF Copies
<1>10. /\ w.attr = v.attr /\ w.seq = v.seq /\ w.crtc = v.crtc /\ w.dac = v.dac /\ w.pelMask = v.pelMask
       /\ w.mode = v.mode /\ w.enable = v.enable /\ w.attrVideo = v.attrVideo
  BY <1>9 DEF AdapterFields
<1>11. w.text.blink = v.text.blink /\ w.text.columns = v.text.columns
  BY <1>1, <1>2, <1>3, <1>4, <1>5, <1>6, <1>7, <1>8 DEF Copies, TextFields
<1>12. ColoursHeld(w)
  <2>1. w.text.colours = ShownColours(v)
    BY <1>1, <1>2, <1>3, <1>4, <1>5, <1>6, <1>7, <1>8 DEF Copies, TextFields
  <2> QED BY <1>10, <2>1, SameColours DEF ColoursHeld
<1>13. FontHeld(w)
  <2>1. a.seq = v.seq
    BY <1>1 DEF Copies, AdapterFields
  <2>2. w.text.fontMap = a.seq[3]
    BY <1>2, <1>3, <1>4, <1>5, <1>6, <1>7, <1>8 DEF Copies, TextFields
  <2> QED BY <1>10, <2>1, <2>2 DEF FontHeld
<1>14. UnderlineHeld(w)
  <2>1. b.crtc = v.crtc
    BY <1>1, <1>2 DEF Copies, AdapterFields
  <2>2. w.text.underline = b.crtc[20] % 32
    BY <1>3, <1>4, <1>5, <1>6, <1>7, <1>8 DEF Copies, TextFields
  <2> QED BY <1>10, <2>1, <2>2 DEF UnderlineHeld
<1>15. ShapeHeld(w)
  <2>1. c.crtc = v.crtc
    BY <1>1, <1>2, <1>3 DEF Copies, AdapterFields
  <2>2. w.text.shape = <<c.crtc[10], c.crtc[11]>>
    BY <1>4, <1>5, <1>6, <1>7, <1>8 DEF Copies, TextFields
  <2> QED BY <1>10, <2>1, <2>2 DEF ShapeHeld
<1>16. ControlHeld(w)
  <2>1. e.attr = v.attr /\ e.seq = v.seq
    BY <1>1, <1>2, <1>3, <1>4, <1>5 DEF Copies, AdapterFields
  <2>2. w.text.lineGraphics = Has(e.attr[16], 4) /\ w.text.nineDot = ~Has(e.seq[1], 1)
    BY <1>6, <1>7, <1>8 DEF Copies, TextFields
  <2> QED BY <1>10, <2>1, <2>2 DEF ControlHeld
<1>17. PanningHeld(w)
  <2>1. g.attr = v.attr
    BY <1>1, <1>2, <1>3, <1>4, <1>5, <1>6 DEF Copies, AdapterFields
  <2>2. w.text.panning = g.attr[19] % 16
    BY <1>7, <1>8 DEF Copies, TextFields
  <2>3. g.attr[19] \in Nat /\ g.attr[19] < 16
    BY <2>1 DEF Typed, RegistersTyped
  <2>4. g.attr[19] % 16 = g.attr[19]
    BY <2>3
  <2> QED BY <1>10, <2>1, <2>2, <2>4 DEF PanningHeld
<1>18. DisplayHeld(w)
  <2>1. DisplayEnabled(h) = DisplayEnabled(w)
    BY <1>8, SameDisplay DEF Copies, AdapterFields
  <2> QED BY <1>8, <2>1 DEF DisplayHeld
<1>19. w.mode = "Text80" => w.text.cursor = CrtcCursor(w)
  <2>1. d.mode = w.mode /\ d.crtc = w.crtc /\ d.bda = w.bda
    BY <1>5, <1>6, <1>7, <1>8 DEF Copies, AdapterFields
  <2>2. w.text.cursor = e.text.cursor
    BY <1>6, <1>7, <1>8 DEF Copies, TextFields
  <2>3. CrtcCursor(w) = CrtcCursor(d)
    BY <2>1 DEF CrtcCursor, StartAddress
  <2> QED BY <1>5, <2>1, <2>2, <2>3
<1> QED BY <1>0, <1>8, <1>9, <1>19, <1>11, <1>12, <1>13, <1>14, <1>15, <1>16, <1>17, <1>18 DEF Steady, CrtcHeld

LEMMA DefaultsTyped ==
  /\ DefaultAttributes \in [0 .. 31 -> Nat] /\ DefaultAttributes[19] = 0 /\ DefaultAttributes[16] = 12
  /\ DefaultSequencer \in [0 .. 7 -> Nat] /\ DefaultGraphics \in [0 .. 15 -> Nat]
<1>1. DefaultAttributes \in [0 .. 31 -> Nat] /\ DefaultAttributes[19] = 0 /\ DefaultAttributes[16] = 12
  BY DEF DefaultAttributes
<1>2. DefaultSequencer \in [0 .. 7 -> Nat]
  BY DEF DefaultSequencer, Update, BlankRegisters
<1>3. DefaultGraphics \in [0 .. 15 -> Nat]
  BY DEF DefaultGraphics, Update, BlankRegisters
<1> QED BY <1>1, <1>2, <1>3

LEMMA ResetTyped ==
  ASSUME NEW v, Typed(v), NEW mode
  PROVE  LET w == Reset(ChangeMode(v, mode))
         IN  /\ Typed(w) /\ w.mode = mode /\ w.attr = DefaultAttributes /\ w.text.blink = TRUE
             /\ w.bda = v.bda
<1> DEFINE u == [v EXCEPT !.mode = mode, !.hercVideo = mode = "Hercules"]
           w == Reset(u)
<1>1. Shape(u) /\ u.mode = mode /\ \A f \in AdapterFields \ {"mode", "hercVideo"} : u[f] = v[f]
  BY DEF Typed, Shape, AdapterFields
<1>2. ChangeMode(v, mode) = u
  BY DEF ChangeMode
<1> HIDE DEF u
<1>3. /\ DOMAIN w = AdapterFields /\ w.attr = DefaultAttributes /\ w.seq = DefaultSequencer /\ w.gc = DefaultGraphics
      /\ w.attrIndex = 0 /\ w.seqIndex = 0 /\ w.gcIndex = 0 /\ w.misc = 99 /\ w.feature = 0 /\ w.enable = 1
      /\ w.cgaColor = 0
      /\ w.mode = u.mode /\ w.crtc = u.crtc /\ w.crtcIndex = u.crtcIndex /\ w.bda = u.bda
      /\ w.text = [u.text EXCEPT !.blink = TRUE]
  <2>1. /\ w.attr = DefaultAttributes /\ w.seq = DefaultSequencer /\ w.gc = DefaultGraphics
        /\ w.attrIndex = 0 /\ w.seqIndex = 0 /\ w.gcIndex = 0
    BY <1>1 DEF Reset, Shape, AdapterFields
  <2>2. w.misc = 99 /\ w.feature = 0 /\ w.enable = 1 /\ w.cgaColor = 0
    BY <1>1 DEF Reset, Shape, AdapterFields
  <2>3. DOMAIN w = AdapterFields
    BY ZenonT(60), <1>1 DEF Reset, Shape
  <2>5. w.mode = u.mode /\ w.crtc = u.crtc /\ w.crtcIndex = u.crtcIndex
    BY <1>1 DEF Reset, Shape, AdapterFields
  <2>6. w.bda = u.bda
    BY <1>1 DEF Reset, Shape, AdapterFields
  <2>4. w.text = [u.text EXCEPT !.blink = TRUE]
    BY <1>1 DEF Reset, Shape, AdapterFields
  <2> QED BY <2>1, <2>2, <2>3, <2>4, <2>5, <2>6
<1> HIDE DEF w
<1>4. u.text = v.text /\ u.bda = v.bda /\ u.crtc = v.crtc /\ u.crtcIndex = v.crtcIndex
  BY <1>1 DEF AdapterFields
<1>5. /\ DOMAIN w.text = TextFields /\ w.text.blink = TRUE
      /\ \A f \in TextFields \ {"blink"} : w.text[f] = v.text[f]
  BY <1>3, <1>4 DEF Typed, Shape, TextFields
<1>6. TextTyped(w.text)
  BY <1>5 DEF Typed, TextTyped, TextFields
<1>7. Shape(w) /\ DataTyped(w)
  BY <1>3, <1>4, <1>5 DEF Typed, Shape, DataTyped
<1>8. RegistersTyped(w)
  BY <1>3, <1>4, DefaultsTyped DEF Typed, RegistersTyped
<1> QED BY <1>1, <1>2, <1>3, <1>4, <1>5, <1>6, <1>7, <1>8 DEF Typed, w

LEMMA UpdateTyped ==
  ASSUME NEW n \in Nat, NEW f \in [0 .. n -> Nat], NEW g, DOMAIN g \subseteq 0 .. n,
         \A i \in DOMAIN g : g[i] \in Nat
  PROVE  Update(f, g) \in [0 .. n -> Nat]
  BY DEF Update

\* The screen starts at the first cell of the memory, and so does the cursor.
AtHome(v) == \A i \in 12 .. 15 : v.crtc[i] = 0

LEMMA CrtcHome ==
  ASSUME NEW v, AtHome(v), v.bda.columns \in {40, 80}
  PROVE  CrtcCursor(v) = <<0, 0>>
<1>1. v.crtc[12] = 0 /\ v.crtc[13] = 0 /\ v.crtc[14] = 0 /\ v.crtc[15] = 0
  BY DEF AtHome
<1>2. (256 * v.crtc[14] + v.crtc[15] - StartAddress(v)) % 65536 = 0
  BY <1>1 DEF StartAddress
<1>3. (0 \div v.bda.columns) % 256 = 0 /\ 0 % v.bda.columns = 0
  OBVIOUS
<1> QED BY ONLY <1>2, <1>3 DEF CrtcCursor

LEMMA TextRegistersTyped ==
  ASSUME NEW v, Typed(v), v.attr = DefaultAttributes, v.text.blink = TRUE
  PROVE  LET w == TextRegisters(v)
         IN  Typed(w) /\ w.mode = v.mode /\ w.attr[16] = 12 /\ w.text.blink = TRUE
             /\ AtHome(w)
<1> DEFINE t == WithColumns(v.text, 80)
           g == [i \in (10 .. 15) \cup {20, 23} |->
              CASE i = 10 -> 6 [] i = 11 -> 7 [] i = 20 -> 31 [] i = 23 -> 128 [] OTHER -> 0]
           crtc == Update(v.crtc, g)
           attr == [v.attr EXCEPT ![19] = 8]
           w == [v EXCEPT !.text = t, !.cgaMode = 41, !.attr = attr, !.crtc = crtc]
<1>1. Shape(v) /\ RegistersTyped(v) /\ DataTyped(v) /\ TextTyped(v.text)
  BY DEF Typed
<1>2. /\ DOMAIN t = TextFields /\ TextTyped(t) /\ t.blink = TRUE
  <2>1. /\ DOMAIN t = TextFields /\ IsPlace(t.cursor)
        /\ t.columns = 80
        /\ \A f \in TextFields \ {"columns", "cursor"} : t[f] = v.text[f]
    <3>1. DOMAIN v.text = TextFields /\ IsPlace(v.text.cursor)
      BY <1>1 DEF Shape, TextTyped
    <3> QED BY ONLY ZenonT(60), <3>1, WithColumnsFacts, 80 \in {40, 80}
  <2> HIDE DEF t
  <2> QED BY <1>1, <2>1 DEF TextTyped, TextFields
<1> HIDE DEF t
<1>3. crtc \in [0 .. 31 -> Nat]
  <2>1. DOMAIN g \subseteq 0 .. 31 /\ \A i \in DOMAIN g : g[i] \in Nat
    OBVIOUS
  <2>2. v.crtc \in [0 .. 31 -> Nat]
    BY <1>1 DEF RegistersTyped
  <2> HIDE DEF g
  <2> QED BY <2>1, <2>2, UpdateTyped
<1>9. \A i \in 12 .. 15 : crtc[i] = 0
  <2>1. \A i \in 12 .. 15 : i \in DOMAIN g /\ g[i] = 0
    OBVIOUS
  <2>2. \A i \in 12 .. 15 : i \in DOMAIN v.crtc
    BY <1>1 DEF RegistersTyped
  <2> HIDE DEF g
  <2> QED BY <2>1, <2>2 DEF Update
<1>4. TextRegisters(v) = w
  BY <1>1 DEF TextRegisters, Shape, AdapterFields, t
<1> HIDE DEF crtc
<1>5. attr \in [0 .. 31 -> Nat] /\ attr[19] = 8 /\ attr[16] = 12
  BY <1>1, DefaultsTyped DEF RegistersTyped
<1> HIDE DEF attr
<1>6. /\ DOMAIN w = AdapterFields /\ w.text = t /\ w.attr = attr /\ w.crtc = crtc
      /\ \A f \in AdapterFields \ {"text", "cgaMode", "attr", "crtc"} : w[f] = v[f]
  BY <1>1 DEF Shape, AdapterFields
<1> HIDE DEF w
<1>7. Shape(w) /\ DataTyped(w)
  BY <1>1, <1>2, <1>6 DEF Shape, DataTyped, AdapterFields
<1>8. RegistersTyped(w)
  BY <1>1, <1>3, <1>5, <1>6 DEF RegistersTyped, AdapterFields
<1>10. AtHome(w)
  BY <1>6, <1>9 DEF AtHome
<1> QED BY <1>2, <1>4, <1>5, <1>6, <1>7, <1>8, <1>10 DEF Typed, AdapterFields

LEMMA GraphicsRegistersTyped ==
  ASSUME NEW v, Typed(v), NEW mode
  PROVE  LET w == GraphicsRegisters(v, mode) IN Typed(w) /\ w.mode = v.mode
<1> DEFINE end == DisplayEndFor(mode)
           wide == mode = "Vga320x200x256"
           c == [i \in {7, 8, 9, 12, 13, 17, 18, 19, 20, 23, 24} |->
             CASE i = 7 -> 16 + (IF Has(end, 256) THEN 2 ELSE 0) + (IF Has(end, 512) THEN 64 ELSE 0)
               [] i = 9 -> 64
               [] i = 18 -> end % 256
               [] i = 19 -> IF mode = "Vga320x200x16" THEN 20 ELSE 40
               [] i = 20 -> IF wide THEN 64 ELSE 0
               [] i = 23 -> IF wide THEN 128 ELSE 192
               [] i = 24 -> 255
               [] OTHER -> 0]
           a == [i \in {16, 18, 19} |->
             CASE i = 16 -> IF wide THEN 65 ELSE 1
               [] i = 18 -> IF mode \in TwoColorModes THEN 1 ELSE 15
               [] OTHER -> 0]
           memoryMode == CASE wide -> 14 [] mode \in PlanarModes -> 6 [] OTHER -> v.seq[4]
           crtc == Update(v.crtc, c)
           attr == Update(v.attr, a)
           gc == [v.gc EXCEPT ![5] = IF wide THEN 64 ELSE 0]
           seq == [v.seq EXCEPT ![1] = 0, ![4] = memoryMode]
           w == [v EXCEPT !.crtc = Update(@, c), !.attr = Update(@, a), !.gc[5] = IF wide THEN 64 ELSE 0,
                          !.seq[1] = 0, !.seq[4] = memoryMode]
           x == CASE mode \in TwoColorModes -> [w EXCEPT !.attr[1] = 15]
                  [] mode = "Cga320x200x4" -> [w EXCEPT !.cgaMode = 10]
                  [] mode = "Cga640x200x2" -> [w EXCEPT !.cgaMode = 26, !.cgaColor = 15]
                  [] OTHER -> w
<1>1. Shape(v) /\ RegistersTyped(v) /\ DataTyped(v) /\ TextTyped(v.text)
  BY DEF Typed
<1>2. crtc \in [0 .. 31 -> Nat]
  <2>0. end \in {199, 349, 479}
    BY DEF DisplayEndFor
  <2>1. DOMAIN c \subseteq 0 .. 31 /\ \A i \in DOMAIN c : c[i] \in Nat
    <3>1. end % 256 \in Nat
      BY <2>0
    <3> HIDE DEF end
    <3> QED BY <3>1
  <2>2. v.crtc \in [0 .. 31 -> Nat]
    BY <1>1 DEF RegistersTyped
  <2> HIDE DEF c
  <2> QED BY <2>1, <2>2, UpdateTyped
<1>3. attr \in [0 .. 31 -> Nat] /\ attr[19] = 0
  <2>1. DOMAIN a \subseteq 0 .. 31 /\ 19 \in DOMAIN a /\ a[19] = 0 /\ \A i \in DOMAIN a : a[i] \in Nat
    OBVIOUS
  <2>2. v.attr \in [0 .. 31 -> Nat]
    BY <1>1 DEF RegistersTyped
  <2> HIDE DEF a
  <2>3. attr \in [0 .. 31 -> Nat]
    BY <2>1, <2>2, UpdateTyped
  <2> QED BY <2>1, <2>3 DEF Update
<1>4. gc \in [0 .. 15 -> Nat]
  BY <1>1 DEF RegistersTyped
<1>5. seq \in [0 .. 7 -> Nat]
  <2>1. v.seq \in [0 .. 7 -> Nat]
    BY <1>1 DEF RegistersTyped
  <2>2. memoryMode \in Nat
    BY <2>1
  <2> HIDE DEF memoryMode
  <2> QED BY <2>1, <2>2
<1>6. GraphicsRegisters(v, mode) = x
  BY DEF GraphicsRegisters
<1> HIDE DEF c, a, memoryMode, wide
<1>7. /\ DOMAIN w = AdapterFields /\ w.crtc = crtc /\ w.attr = attr /\ w.gc = gc /\ w.seq = seq
      /\ \A f \in AdapterFields \ {"crtc", "attr", "gc", "seq"} : w[f] = v[f]
  <2>1. DOMAIN w = AdapterFields
    BY <1>1 DEF Shape
  <2>2. w.crtc = crtc /\ w.attr = attr
    BY <1>1 DEF Shape, AdapterFields
  <2>3. w.gc = gc
    BY <1>1 DEF Shape, AdapterFields
  <2>4. w.seq = seq
    BY <1>1 DEF Shape, AdapterFields
  <2>5. \A f \in AdapterFields \ {"crtc", "attr", "gc", "seq"} : w[f] = v[f]
    BY <1>1 DEF Shape, AdapterFields
  <2> QED BY <2>1, <2>2, <2>3, <2>4, <2>5
<1> HIDE DEF w, crtc, attr, gc, seq
<1>8. Typed(w) /\ w.mode = v.mode
  <2>1. Shape(w) /\ DataTyped(w) /\ TextTyped(w.text)
    BY <1>1, <1>7 DEF Shape, DataTyped, AdapterFields
  <2>2. RegistersTyped(w)
    BY <1>1, <1>2, <1>3, <1>4, <1>5, <1>7 DEF RegistersTyped, AdapterFields
  <2> QED BY <1>7, <2>1, <2>2 DEF Typed, AdapterFields
<1>9. Typed([w EXCEPT !.attr[1] = 15]) /\ [w EXCEPT !.attr[1] = 15].mode = w.mode
  BY <1>8 DEF Typed, Shape, RegistersTyped, DataTyped, AdapterFields
<1>10. Typed([w EXCEPT !.cgaMode = 10]) /\ [w EXCEPT !.cgaMode = 10].mode = w.mode
  BY <1>8 DEF Typed, Shape, RegistersTyped, DataTyped, AdapterFields
<1>11. /\ Typed([w EXCEPT !.cgaMode = 26, !.cgaColor = 15])
       /\ [w EXCEPT !.cgaMode = 26, !.cgaColor = 15].mode = w.mode
  BY <1>8 DEF Typed, Shape, RegistersTyped, DataTyped, AdapterFields
<1>12. Typed(x) /\ x.mode = w.mode
  BY <1>8, <1>9, <1>10, <1>11
<1> HIDE DEF x
<1> QED BY <1>6, <1>8, <1>12

(* Whatever the adapter was, a mode set makes it steady and its colours      *)
(* current; in text mode it blinks as the register says, with the cursor in   *)
(* the corner.                                                               *)
LEMMA SetVideoModeFacts ==
  ASSUME NEW v, Typed(v), NEW mode
  PROVE  LET w == SetVideoMode(v, mode)
         IN  Steady(w) /\ w.mode = mode /\ ColoursHeld(w)
             /\ (mode = "Text80" => BlinkHeld(w) /\ AtHome(w) /\ w.text.cursor = <<0, 0>>)
<1> DEFINE w == Reset(ChangeMode(v, mode))
           r == IF mode = "Text80" THEN TextRegisters(w) ELSE GraphicsRegisters(w, mode)
           s == [r EXCEPT !.bda.modeControl = r.cgaMode, !.bda.colorSelect = r.cgaColor]
           x == UpdateText(s)
<1>1. SetVideoMode(v, mode) = x
  BY DEF SetVideoMode
<1>2. Typed(w) /\ w.mode = mode /\ w.attr = DefaultAttributes /\ w.text.blink = TRUE
  BY ResetTyped
<1> HIDE DEF w
<1>3. Typed(r) /\ r.mode = mode /\ (mode = "Text80" => r.attr[16] = 12 /\ r.text.blink = TRUE /\ AtHome(r))
  BY <1>2, TextRegistersTyped, GraphicsRegistersTyped
<1> HIDE DEF r
<1>4. /\ Shape(s) /\ \A f \in AdapterFields \ {"bda"} : s[f] = r[f]
      /\ \A f \in DataFields \ {"modeControl", "colorSelect"} : s.bda[f] = r.bda[f]
  BY <1>3 DEF Typed, Shape, AdapterFields, DataFields
<1> HIDE DEF s
<1>5. s.mode = r.mode /\ s.attr = r.attr /\ s.text = r.text
  BY <1>4 DEF AdapterFields
<1>6. Typed(s)
  BY <1>3, <1>4, <1>5 DEF Typed, RegistersTyped, DataTyped, AdapterFields, DataFields
<1>7. /\ Steady(x) /\ ColoursHeld(x) /\ x.text.blink = s.text.blink
      /\ x.mode = "Text80" => x.text.cursor = CrtcCursor(x)
      /\ \A f \in AdapterFields \ {"text"} : x[f] = s[f]
  BY <1>6, TextRefreshed
<1> HIDE DEF x
<1>8. x.mode = mode /\ x.attr = s.attr
  BY <1>3, <1>5, <1>7 DEF AdapterFields
<1>9. Has(12, 8)
  BY DEF Has
<1>10. mode = "Text80" => BlinkHeld(x)
  BY <1>3, <1>5, <1>7, <1>8, <1>9 DEF BlinkHeld
<1>11. ASSUME mode = "Text80" PROVE AtHome(x) /\ x.text.cursor = <<0, 0>>
  <2>1. x.crtc = r.crtc
    BY <1>4, <1>7 DEF AdapterFields
  <2>2. AtHome(x)
    BY <1>3, <1>11, <2>1 DEF AtHome
  <2>3. x.bda.columns \in {40, 80}
    BY <1>7 DEF Steady, Typed, DataTyped
  <2> QED BY <1>7, <1>8, <1>11, <2>2, <2>3, CrtcHome
<1> QED BY <1>1, <1>7, <1>8, <1>10, <1>11

-----------------------------------------------------------------------------
(* Setting a BIOS mode.  A fresh machine is coherent in text mode.           *)
Fresh(m) ==
  /\ MachineTyped(m) /\ Steady(m.v)
  /\ m.v.mode = "Text80" => Current(m.v) /\ RowsHeld(m.v)

LEMMA ServesFresh == ASSUME NEW m, Fresh(m), NEW n, Serves(m, n) PROVE Fresh(n)
  BY DEF Fresh, Serves, Keeps, KeepsCopies, KeepsText, Current

LEMMA SetCgaKeeps ==
  ASSUME NEW v, Steady(v), NEW control, NEW select \in Nat
  PROVE  Keeps(v, SetCga(v, control, select))
<1> DEFINE w == SetCga(v, control, select)
<1>1. Shape(v) /\ RegistersTyped(v)
  BY DEF Steady, Typed
<1>2. /\ Shape(w) /\ RegistersTyped(w)
      /\ \A f \in AdapterFields \ {"cgaMode", "cgaColor", "bda"} : w[f] = v[f]
      /\ \A f \in DataFields \ {"modeControl", "colorSelect"} : w.bda[f] = v.bda[f]
  BY <1>1 DEF SetCga, Shape, RegistersTyped, AdapterFields, DataFields
<1> HIDE DEF w
<1>3. Keeps(v, w)
  BY <1>2, QuietWrite DEF QuietFields, QuietData
<1> QED BY <1>3 DEF w

LEMMA PageSizeTyped == ASSUME NEW mode PROVE PageSizeOf(mode) \in Nat
  BY DEF PageSizeOf

(* The text modes' data area, rows, columns and cells agree.                 *)
LEMMA TextMetrics ==
  ASSUME NEW v, Steady(v), AtHome(v), v.text.cursor = <<0, 0>>, NEW w, Shape(w), NEW columns \in {40, 80},
         w.text = WithRows(WithCellHeight(WithColumns(v.text, columns), 16), 25),
         \A f \in AdapterFields \ {"text", "bda"} : w[f] = v[f],
         w.bda.columns = columns, w.bda.rows = 24, w.bda.cell = 16, w.bda.page = 0,
         w.bda.pageSize \in Nat, w.bda.cursors = v.bda.cursors
  PROVE  Keeps(v, w) /\ ColumnsHeld(w) /\ RowsHeld(w) /\ PlaceHeld(w)
<1> DEFINE a == WithColumns(v.text, columns)
           b == WithCellHeight(a, 16)
           t == WithRows(b, 25)
<1>1. Shape(v) /\ DataTyped(v) /\ TextTyped(v.text)
  BY DEF Steady, Typed
<1>2. /\ DOMAIN a = TextFields /\ IsPlace(a.cursor)
      /\ a.columns = columns /\ a.cursor = <<0, 0>>
      /\ \A f \in TextFields \ {"columns", "cursor"} : a[f] = v.text[f]
  <2>1. DOMAIN v.text = TextFields /\ IsPlace(v.text.cursor)
    BY <1>1 DEF Shape, TextTyped
  <2>2. v.text.cursor[2] < 40
    OBVIOUS
  <2>3. /\ DOMAIN a = TextFields /\ IsPlace(a.cursor) /\ a.columns = columns /\ a.cursor = v.text.cursor
        /\ \A f \in TextFields \ {"columns", "cursor"} : a[f] = v.text[f]
    BY ONLY ZenonT(60), <2>1, <2>2, WithColumnsFacts, columns \in {40, 80}
  <2> HIDE DEF a
  <2> QED BY <2>3
<1> HIDE DEF a
<1>3. /\ DOMAIN b = TextFields /\ IsPlace(b.cursor)
      /\ Fits(b.rows, 16) /\ b.cellHeight = 16 /\ b.cursor = <<0, 0>>
      /\ \A f \in TextFields \ {"rows", "cursor", "cellHeight"} : b[f] = a[f]
  <2>1. DOMAIN a = TextFields /\ IsPlace(a.cursor)
    BY <1>2
  <2>2. a.cursor[1] < 25 /\ a.cursor = <<0, 0>>
    BY <1>2
  <2> QED BY ONLY ZenonT(60), <2>1, <2>2, WithCellHeightFacts, 16 \in {8, 14, 16}
<1> HIDE DEF b
<1>4. /\ DOMAIN t = TextFields /\ IsPlace(t.cursor) /\ t.rows = 25 /\ t.cursor = <<0, 0>>
      /\ \A f \in TextFields \ {"rows", "cursor"} : t[f] = b[f]
  <2>1. DOMAIN b = TextFields /\ IsPlace(b.cursor)
    BY <1>3
  <2>2. b.cursor[1] < 25
    BY <1>3
  <2>3. 25 \in 25 .. 50
    OBVIOUS
  <2>4. /\ DOMAIN t = TextFields /\ IsPlace(t.cursor) /\ t.rows = 25 /\ t.cursor = b.cursor
        /\ \A f \in TextFields \ {"rows", "cursor"} : t[f] = b[f]
    BY ONLY <2>1, <2>2, <2>3, WithRowsFacts
  <2> HIDE DEF t
  <2> QED BY ONLY <1>3, <2>4
<1>5. w.text = t
  BY DEF t, b, a
<1> HIDE DEF t
<1>6. TextTyped(t)
  <2>1. t.columns \in {40, 80} /\ t.cellHeight = 16
    BY <1>2, <1>3, <1>4 DEF TextFields
  <2> QED BY <1>4, <2>1 DEF TextTyped, Fits
<1>7. DataTyped(w)
  BY <1>1 DEF DataTyped
<1>8. ColumnsHeld(w) /\ RowsHeld(w)
  BY <1>2, <1>3, <1>4, <1>5 DEF ColumnsHeld, RowsHeld, RowInside, TextFields
<1>9. \A f \in RegisterCopies : w.text[f] = v.text[f]
  BY <1>2, <1>3, <1>4, <1>5 DEF RegisterCopies, TextFields
<1>10. KeepsCopies(v, w)
  BY <1>5, <1>6, <1>7, <1>8, <1>9, ResizedCopies DEF KeepsText
<1>11. PlaceHeld(w)
  <2>1. AtHome(w)
    BY DEF AtHome, AdapterFields
  <2>2. CrtcCursor(w) = <<0, 0>>
    BY <2>1, CrtcHome
  <2> QED BY <1>4, <1>5, <2>2 DEF PlaceHeld
<1> QED BY <1>8, <1>10, <1>11 DEF Keeps

LEMMA TextModeFresh ==
  ASSUME NEW m, MachineTyped(m), Steady(m.v), NEW biosMode \in BiosModes, NEW keep
  PROVE  Fresh(TextMode(m, biosMode, keep))
<1> DEFINE columns == IF biosMode <= 1 THEN 40 ELSE 80
           base == SetVideoMode(m.v, "Text80")
           w == [base EXCEPT !.text = WithRows(WithCellHeight(WithColumns(@, columns), 16), 25),
                             !.bda.rows = 24, !.bda.cell = 16]
           data == [w.bda EXCEPT !.videoMode = biosMode, !.columns = columns, !.pageSize = PageSizeOf(biosMode),
                                 !.pageOffset = 0, !.page = 0,
                                 !.crtcBase = IF biosMode = 7 THEN \h3B4 ELSE \h3D4,
                                 !.equipment = IF biosMode = 7 THEN 48 ELSE 32]
           d == [w EXCEPT !.bda = data]
           c == IF biosMode = 7 THEN d ELSE SetCga(d, CgaControlFor(biosMode), 0)
           n == [m EXCEPT !.v = c, !.b.page = 0]
<1>1. /\ Steady(base) /\ base.mode = "Text80" /\ ColoursHeld(base) /\ BlinkHeld(base)
      /\ AtHome(base) /\ base.text.cursor = <<0, 0>>
  BY SetVideoModeFacts DEF Steady
<1>2. columns \in {40, 80}
  OBVIOUS
<1>3. TextMode(m, biosMode, keep) = ClearTextScreen(n, keep)
  BY DEF TextMode
<1> HIDE DEF base, columns
<1>4. Shape(base)
  BY <1>1 DEF Steady, Typed
<1>5. /\ Shape(w) /\ w.text = WithRows(WithCellHeight(WithColumns(base.text, columns), 16), 25)
      /\ \A f \in AdapterFields \ {"text", "bda"} : w[f] = base[f]
      /\ w.bda.rows = 24 /\ w.bda.cell = 16
      /\ \A f \in DataFields \ {"rows", "cell"} : w.bda[f] = base.bda[f]
  <2> DEFINE t == WithRows(WithCellHeight(WithColumns(base.text, columns), 16), 25)
             y == [base EXCEPT !.text = t, !.bda.rows = 24, !.bda.cell = 16]
  <2>1. w = y
    BY <1>4 DEF Shape, AdapterFields
  <2>2. DOMAIN t = TextFields
    <3>1. DOMAIN base.text = TextFields
      BY <1>4 DEF Shape
    <3>2. \A x, k : DOMAIN WithRows(x, k) = DOMAIN x /\ DOMAIN WithColumns(x, k) = DOMAIN x
      BY DEF WithRows, WithColumns
    <3>3. \A x, k : DOMAIN WithCellHeight(x, k) = DOMAIN x
      BY <3>2 DEF WithCellHeight
    <3> QED BY <3>1, <3>2, <3>3
  <2> HIDE DEF t, w
  <2>3. /\ Shape(y) /\ y.text = t /\ \A f \in AdapterFields \ {"text", "bda"} : y[f] = base[f]
        /\ y.bda.rows = 24 /\ y.bda.cell = 16
        /\ \A f \in DataFields \ {"rows", "cell"} : y.bda[f] = base.bda[f]
    BY <1>4, <2>2 DEF Shape, AdapterFields, DataFields
  <2> QED BY <2>1, <2>3 DEF t
<1> HIDE DEF w
<1>6. /\ Shape(d) /\ \A f \in AdapterFields \ {"bda"} : d[f] = w[f]
      /\ d.bda.columns = columns /\ d.bda.pageSize = PageSizeOf(biosMode) /\ d.bda.page = 0
      /\ d.bda.rows = 24 /\ d.bda.cell = 16 /\ d.bda.cursors = w.bda.cursors
  <2>1. /\ DOMAIN data = DataFields
        /\ data.columns = columns /\ data.pageSize = PageSizeOf(biosMode) /\ data.page = 0
        /\ data.rows = w.bda.rows /\ data.cell = w.bda.cell /\ data.cursors = w.bda.cursors
    BY <1>5 DEF Shape, DataFields
  <2> HIDE DEF data
  <2>2. /\ DOMAIN d = AdapterFields /\ d.bda = data /\ d.text = w.text
        /\ \A f \in AdapterFields \ {"bda"} : d[f] = w[f]
    BY <1>5 DEF Shape, AdapterFields
  <2> HIDE DEF d
  <2> QED BY <1>5, <2>1, <2>2 DEF Shape
<1> HIDE DEF d
<1>7. /\ \A f \in AdapterFields \ {"text", "bda"} : d[f] = base[f]
      /\ d.text = WithRows(WithCellHeight(WithColumns(base.text, columns), 16), 25)
      /\ d.bda.cursors = base.bda.cursors
  BY <1>5, <1>6 DEF AdapterFields, DataFields
<1>8. d.bda.pageSize \in Nat
  BY <1>6, PageSizeTyped
<1>9. Keeps(base, d) /\ ColumnsHeld(d) /\ RowsHeld(d) /\ PlaceHeld(d)
  BY <1>1, <1>2, <1>6, <1>7, <1>8, TextMetrics
<1>10. Steady(d) /\ d.mode = "Text80" /\ Current(d)
  BY <1>1, <1>9 DEF Keeps, KeepsCopies, Current
<1>11. Keeps(d, c)
  BY <1>10, SetCgaKeeps, KeepsNothing
<1>12. Steady(c) /\ Current(c) /\ RowsHeld(c)
  BY <1>9, <1>10, <1>11 DEF Keeps, KeepsCopies, KeepsText, Current
<1> HIDE DEF c
<1>13. Fresh(n) /\ n.v = c
  BY <1>12 DEF Fresh, MachineTyped, BiosFields
<1> HIDE DEF n
<1>14. Serves(n, SetCursor(n, 0, 0, 0))
  BY <1>13, SetCursorServes DEF Fresh
<1> QED BY <1>3, <1>13, <1>14, ServesFresh DEF ClearTextScreen

LEMMA GraphicsModeFresh ==
  ASSUME NEW m, MachineTyped(m), Steady(m.v), NEW biosMode \in BiosModes, ModeOf(biosMode) # "Text80"
  PROVE  Fresh(GraphicsMode(m, biosMode))
<1> DEFINE base == SetVideoMode(m.v, ModeOf(biosMode))
           columns == IF biosMode \in {4, 5, 13, 19} THEN 40 ELSE 80
           data == [base.bda EXCEPT !.videoMode = biosMode, !.columns = columns,
                                    !.pageSize = PageSizeOf(biosMode), !.pageOffset = 0, !.page = 0,
                                    !.crtcBase = \h3D4, !.equipment = 32]
           d == [base EXCEPT !.bda = data]
           select == IF biosMode = 6 THEN 15 ELSE 0
           c == IF biosMode <= 6 THEN SetCga(d, CgaControlFor(biosMode), select) ELSE d
           w == [c EXCEPT !.bda.cell = CellFor(biosMode), !.bda.rows = (Height(c) \div CellFor(biosMode)) - 1]
<1>1. Steady(base) /\ base.mode = ModeOf(biosMode)
  BY SetVideoModeFacts DEF Steady
<1>2. GraphicsMode(m, biosMode) = In(m, w)
  BY DEF GraphicsMode
<1> HIDE DEF base
<1>3. Shape(base) /\ DataTyped(base)
  BY <1>1 DEF Steady, Typed
<1>4. /\ DOMAIN data = DataFields /\ data.columns \in {40, 80} /\ data.pageSize = PageSizeOf(biosMode)
      /\ data.page = 0 /\ data.cursors = base.bda.cursors /\ data.rows = base.bda.rows
  BY <1>3 DEF Shape, DataFields
<1> HIDE DEF data
<1>5. Shape(d) /\ d.bda = data /\ \A f \in AdapterFields \ {"bda"} : d[f] = base[f]
  BY <1>3, <1>4 DEF Shape, AdapterFields
<1> HIDE DEF d
<1>6. DataTyped(d)
  BY <1>3, <1>4, <1>5, PageSizeTyped DEF DataTyped
<1>7. Steady(d) /\ d.mode = base.mode
  BY <1>1, <1>5, <1>6, ModeChangeSteady DEF ModeChangeFields, AdapterFields
<1>8. Keeps(d, c)
  BY <1>7, SetCgaKeeps, KeepsNothing
<1> HIDE DEF c
<1>9. Steady(c) /\ c.mode = base.mode /\ Shape(c) /\ DataTyped(c)
  BY <1>7, <1>8 DEF Keeps, KeepsCopies, Steady, Typed
<1>10. /\ Shape(w) /\ \A f \in AdapterFields \ {"bda"} : w[f] = c[f]
       /\ \A f \in DataFields \ {"cell", "rows"} : w.bda[f] = c.bda[f]
       /\ w.bda.rows = (Height(c) \div CellFor(biosMode)) - 1
  BY <1>9 DEF Shape, AdapterFields, DataFields
<1> HIDE DEF w
<1>11. DataTyped(w)
  <2>1. Height(c) \div CellFor(biosMode) \in Nat \ {0}
    BY <1>9, GraphicsRowsFacts DEF Steady, Typed
  <2>2. w.bda.rows \in Nat
    BY <1>10, <2>1
  <2> QED BY <1>9, <1>10, <2>2 DEF DataTyped, DataFields
<1>12. Steady(w) /\ w.mode = c.mode
  BY <1>9, <1>10, <1>11, ModeChangeSteady DEF ModeChangeFields, AdapterFields
<1>13. MachineTyped(In(m, w)) /\ In(m, w).v = w
  BY InFacts
<1> QED BY <1>1, <1>2, <1>9, <1>12, <1>13 DEF Fresh

(* The palette that is kept is written back through the same ports.          *)
LEMMA MaskWriteKeeps == ASSUME NEW v, Steady(v), NEW mask PROVE Keeps(v, WritePort(v, \h3C6, mask))
  BY DacKeeps DEF WritePort

LEMMA DacReplaced ==
  ASSUME NEW u, NEW v, Keeps(u, v), NEW dac, NEW fields
  PROVE  Keeps(u, SetDacState([v EXCEPT !.dac = dac], fields))
<1> DEFINE w == [v EXCEPT !.dac = dac]
<1>1. Steady(v) /\ Shape(v)
  BY DEF Keeps, KeepsCopies, Steady, Typed
<1>2. Shape(w) /\ \A f \in AdapterFields \ {"dac"} : w[f] = v[f]
  BY <1>1 DEF Shape, AdapterFields
<1> HIDE DEF w
<1>3. Keeps(v, SetDacState(w, fields))
  BY <1>1, <1>2, DacStateKeeps
<1> QED BY <1>3, KeepsOn DEF w

LEMMA KeepPaletteServes ==
  ASSUME NEW m, MachineTyped(m), Steady(m.v), NEW old, Steady(old.v)
  PROVE  Serves(m, KeepPalette(m, old))
<1> DEFINE values == [i \in (0 .. 15) \cup {17, 20} |-> ReadAttribute(old.v, i)]
           back == WriteAttributes(m.v, values)
           chosen == Has(ReadAttribute(old.v, 16), 128)
           paging == SetPaging(back, chosen)
           masked == WritePort(paging, \h3C6, old.v.pelMask)
           dac == SetDacState([masked EXCEPT !.dac = old.v.dac], DacFields(old.v))
           w == SetAttributeState(dac, AttributeFields(old.v))
<1>1. DOMAIN values \subseteq 0 .. 31 /\ \A i \in DOMAIN values : values[i] \in Nat
  BY ReadAttributeTyped
<1>2. KeepPalette(m, old) = [v |-> w, b |-> [m.b EXCEPT !.colorPage = IF chosen THEN 1 ELSE 0]]
  BY DEF KeepPalette
<1> HIDE DEF values, chosen
<1>3. Keeps(m.v, back) /\ Steady(back)
  BY <1>1, WriteAttributesKeep DEF Refreshed, Keeps, KeepsCopies
<1> HIDE DEF back
<1>4. Keeps(back, paging) /\ Steady(paging)
  BY <1>3, SetPagingKeeps DEF Refreshed, Keeps, KeepsCopies
<1> HIDE DEF paging
<1>5. Keeps(paging, masked)
  BY <1>4, MaskWriteKeeps
<1> HIDE DEF masked
<1>6. Keeps(m.v, masked)
  BY <1>3, <1>4, <1>5, KeepsOn
<1>7. Keeps(m.v, dac)
  BY <1>6, DacReplaced
<1> HIDE DEF dac
<1>8. AttributeFields(old.v).index \in 0 .. 31
  BY DEF AttributeFields, Steady, Typed, RegistersTyped
<1>9. Keeps(m.v, w)
  BY <1>7, <1>8, AttributeStateKeeps DEF Refreshed
<1> QED BY <1>2, <1>9, PagingServes

LEMMA LoadPaletteServes ==
  ASSUME NEW m, MachineTyped(m), Steady(m.v), NEW old, Steady(old.v)
  PROVE  Serves(m, LoadPalette(m, old))
<1>1. Serves(m, m)
  BY KeepsNothing DEF Serves
<1>2. Serves(m, In(m, GraySum(m.v, 0, 256)))
  BY GraySumKeeps, InServes
<1> QED BY <1>1, <1>2, KeepPaletteServes DEF LoadPalette

LEMMA SetModeFresh ==
  ASSUME NEW m, MachineTyped(m), Steady(m.v), NEW al \in Legal.mode
  PROVE  Fresh(SetMode(m, al))
<1> DEFINE mode == al % 128
           x == IF mode <= 3 \/ mode = 7 THEN TextMode(m, mode, al >= 128) ELSE GraphicsMode(m, mode)
           n == [x EXCEPT !.b.colorPage = 0]
<1>1. mode \in BiosModes
  BY DEF Legal, BiosModes
<1>2. SetMode(m, al) = LoadPalette(n, m)
  BY DEF SetMode
<1> HIDE DEF mode
<1>3. Fresh(x)
  <2>1. CASE mode <= 3 \/ mode = 7
    BY <1>1, <2>1, TextModeFresh
  <2>2. CASE ~(mode <= 3 \/ mode = 7)
    <3>1. mode \in (4 .. 6) \cup (13 .. 19)
      BY <1>1, <2>2 DEF BiosModes
    <3>2. ModeOf(mode) # "Text80"
      BY <3>1 DEF ModeOf
    <3> QED BY <1>1, <2>2, <3>2, GraphicsModeFresh
  <2> QED BY <2>1, <2>2
<1> HIDE DEF x
<1>4. Fresh(n)
  BY <1>3 DEF Fresh, MachineTyped, BiosFields
<1> HIDE DEF n
<1>5. Serves(n, LoadPalette(n, m))
  BY <1>4, LoadPaletteServes DEF Fresh
<1> QED BY <1>2, <1>4, <1>5, ServesFresh

LEMMA PowerOnSteady == Steady(PowerOn)
<1> DEFINE g == [i \in {7, 9, 10, 11, 19, 20, 23, 24} |->
             CASE i = 7 -> 16 [] i = 9 -> 64 [] i = 10 -> 6 [] i = 11 -> 7 [] i = 19 -> 40
               [] i = 20 -> 31 [] i = 23 -> 128 [] i = 24 -> 255]
           crtc == Update(BlankRegisters(31), g)
           text == [columns |-> 80, rows |-> 25, cellHeight |-> 16, cursor |-> <<0, 0>>, cursorOn |-> FALSE,
                    blink |-> TRUE, lineGraphics |-> TRUE, nineDot |-> TRUE, panning |-> 8, display |-> TRUE,
                    underline |-> 31, shape |-> <<6, 7>>, fontMap |-> 0, colours |-> <<>>]
           bda == [videoMode |-> 3, columns |-> 80, pageSize |-> 4096, pageOffset |-> 0, page |-> 0,
                   crtcBase |-> \h3D4, modeControl |-> \h29, colorSelect |-> 0, rows |-> 24, cell |-> 16,
                   equipment |-> 32, cursors |-> [p \in 0 .. 7 |-> <<0, 0>>]]
           attr == [DefaultAttributes EXCEPT ![19] = 8]
           v == [mode |-> "Text80", crtcIndex |-> 0, crtc |-> crtc, cgaMode |-> \h29, cgaColor |-> 0,
             misc |-> \h63, feature |-> 0, enable |-> 1,
             attrIndex |-> 0, attrData |-> FALSE, attrVideo |-> TRUE, attr |-> attr,
             seqIndex |-> 0, seq |-> DefaultSequencer, gcIndex |-> 0, gc |-> DefaultGraphics, latch |-> BlankRegisters(3),
             readAt |-> <<0, 0>>, writeAt |-> <<0, 0>>, pelMask |-> 255, maskReads |-> 0, dacCommand |-> 0,
             dacState |-> 0, dac |-> <<>>, hercIndex |-> 0, herc |-> BlankRegisters(31), hercConfig |-> 1,
             hercMode |-> 0, hercVideo |-> FALSE, bda |-> bda, text |-> text]
           w == UpdatePalette(v)
<1>1. PowerOn = w
  BY DEF PowerOn
<1>2. /\ crtc \in [0 .. 31 -> Nat] /\ crtc[10] = 6 /\ crtc[11] = 7 /\ crtc[20] = 31 /\ crtc[23] = 128
  <2>1. DOMAIN g = {7, 9, 10, 11, 19, 20, 23, 24} /\ \A i \in DOMAIN g : g[i] \in Nat
    OBVIOUS
  <2>2. g[10] = 6 /\ g[11] = 7 /\ g[20] = 31 /\ g[23] = 128
    OBVIOUS
  <2> HIDE DEF g
  <2> QED BY <2>1, <2>2 DEF Update, BlankRegisters
<1> HIDE DEF crtc
<1>3. attr \in [0 .. 31 -> Nat] /\ attr[19] = 8 /\ attr[16] = 12
  BY DefaultsTyped
<1> HIDE DEF attr
<1>4. DOMAIN v = AdapterFields /\ v.text = text /\ v.bda = bda
  BY DEF AdapterFields
<1>5. DOMAIN text = TextFields /\ DOMAIN bda = DataFields
  BY DEF TextFields, DataFields
<1>6. Shape(v)
  BY <1>4, <1>5 DEF Shape
<1>7. RegistersTyped(v)
  BY <1>2, <1>3, DefaultsTyped DEF RegistersTyped
<1>8. DataTyped(v)
  BY DEF DataTyped, CursorsTyped
<1>9. TextTyped(v.text)
  <2>1. IsPlace(<<0, 0>>) /\ Fits(25, 16)
    BY DEF IsPlace, Fits
  <2> QED BY <2>1 DEF TextTyped
<1>10. Typed(v)
  BY <1>6, <1>7, <1>8, <1>9 DEF Typed
<1>11. CrtcHeld(v) /\ PanningHeld(v)
  <2>1. DefaultSequencer[3] = 0
    BY DEF DefaultSequencer, BlankRegisters, Update
  <2>2. 31 % 32 = 31
    OBVIOUS
  <2>3. /\ v.text.fontMap = 0 /\ v.text.underline = 31 /\ v.text.shape = <<6, 7>> /\ v.text.panning = 8
        /\ v.seq = DefaultSequencer /\ v.crtc = crtc /\ v.attr = attr
    OBVIOUS
  <2> HIDE DEF v
  <2> QED BY <1>2, <1>3, <2>1, <2>2, <2>3 DEF CrtcHeld, FontHeld, UnderlineHeld, ShapeHeld, PanningHeld
<1>12. DefaultSequencer[1] = 0 /\ DefaultSequencer[0] = 3
  BY DEF DefaultSequencer, BlankRegisters, Update
<1>13. ControlHeld(v)
  <2>1. Has(12, 4) = TRUE /\ Has(0, 1) = FALSE
    BY DEF Has
  <2>2. v.attr[16] = 12 /\ v.seq[1] = 0
    BY <1>3, <1>12
  <2>3. v.text.lineGraphics = TRUE /\ v.text.nineDot = TRUE
    OBVIOUS
  <2> HIDE DEF v
  <2> QED BY <2>1, <2>2, <2>3 DEF ControlHeld
<1>14. DisplayHeld(v)
  <2>1. Has(1, 1) /\ Has(128, 128) /\ ~Has(0, 32) /\ 3 % 4 = 3
    BY DEF Has
  <2>2. /\ v.text.display = TRUE /\ v.attrVideo = TRUE /\ v.enable = 1
        /\ v.seq = DefaultSequencer /\ v.crtc = crtc
    OBVIOUS
  <2> HIDE DEF v
  <2> QED BY <1>2, <1>12, <2>1, <2>2 DEF DisplayHeld, DisplayEnabled
<1>15. Steady(v)
  BY <1>10, <1>11, <1>13, <1>14 DEF Steady
<1> HIDE DEF v
<1>16. Keeps(v, w)
  BY <1>6, <1>7, <1>15, PaletteRefreshed DEF SameData
<1> QED BY <1>1, <1>16 DEF Keeps, KeepsCopies

-----------------------------------------------------------------------------
(* Saving and restoring the state of the adapter.                            *)
SavedTyped(s) ==
  /\ DOMAIN s.bios = {"videoMode", "page", "columns", "pageSize", "pageOffset", "crtcBase", "cursors", "colorPage"}
  /\ s.bios.page \in 0 .. 7 /\ s.bios.columns \in {40, 80} /\ s.bios.pageSize \in Nat
  /\ CursorsTyped(s.bios.cursors)
  /\ s.misc \in Nat /\ s.feature \in Nat /\ s.enable \in Nat
  /\ s.seqIndex \in Nat /\ s.gcIndex \in Nat /\ s.crtcIndex \in Nat
  /\ s.seq \in [0 .. 7 -> Nat] /\ s.gc \in [0 .. 15 -> Nat] /\ s.crtc \in [0 .. 31 -> Nat]
  /\ s.attr \in [0 .. 31 -> Nat] /\ s.attribute.index \in 0 .. 31

LEMMA SnapshotTyped == ASSUME NEW m, Steady(m.v) PROVE SavedTyped(SnapshotOf(m))
<1> DEFINE v == m.v
           every(port, n) == [i \in 0 .. n |-> PortValue(WritePort(v, port, i), port + 1)]
           data == [videoMode |-> v.bda.videoMode, page |-> v.bda.page, columns |-> v.bda.columns,
                    pageSize |-> v.bda.pageSize, pageOffset |-> v.bda.pageOffset, crtcBase |-> v.bda.crtcBase,
                    cursors |-> v.bda.cursors, colorPage |-> m.b.colorPage]
           seq == every(\h3C4, 7)
           gc == every(\h3CE, 15)
           crtc == every(\h3D4, 31)
           attr == [i \in 0 .. 31 |-> ReadAttribute(v, i)]
           s == SnapshotOf(m)
<1>1. ASSUME NEW port \in {\h3C4, \h3CE, \h3D4}, NEW n \in Nat PROVE every(port, n) \in [0 .. n -> Nat]
  BY IndexRead
<1>2. seq \in [0 .. 7 -> Nat] /\ gc \in [0 .. 15 -> Nat] /\ crtc \in [0 .. 31 -> Nat]
  <2>1. every(\h3C4, 7) \in [0 .. 7 -> Nat]
    BY <1>1
  <2>2. every(\h3CE, 15) \in [0 .. 15 -> Nat]
    BY <1>1
  <2>3. every(\h3D4, 31) \in [0 .. 31 -> Nat]
    BY <1>1
  <2> QED BY <2>1, <2>2, <2>3
<1>3. attr \in [0 .. 31 -> Nat]
  BY ReadAttributeTyped
<1>4. /\ PortValue(v, \h3CC) \in Nat /\ PortValue(v, \h3CA) \in Nat /\ PortValue(v, \h3C3) \in Nat
      /\ PortValue(v, \h3C4) \in Nat /\ PortValue(v, \h3CE) \in Nat /\ PortValue(v, \h3D4) \in Nat
  BY ValuesTyped
<1>5. AttributeFields(v).index \in 0 .. 31
  BY DEF AttributeFields, Steady, Typed, RegistersTyped
<1>6. /\ data.page \in 0 .. 7 /\ data.columns \in {40, 80} /\ data.pageSize \in Nat
      /\ CursorsTyped(data.cursors)
      /\ DOMAIN data = {"videoMode", "page", "columns", "pageSize", "pageOffset", "crtcBase", "cursors", "colorPage"}
  BY DEF Steady, Typed, DataTyped
<1>7. /\ s.bios = data /\ s.seq = seq /\ s.gc = gc /\ s.crtc = crtc /\ s.attr = attr
      /\ s.attribute = AttributeFields(v) /\ s.misc = PortValue(v, \h3CC) /\ s.feature = PortValue(v, \h3CA)
      /\ s.enable = PortValue(v, \h3C3) /\ s.seqIndex = PortValue(v, \h3C4)
      /\ s.gcIndex = PortValue(v, \h3CE) /\ s.crtcIndex = PortValue(v, \h3D4)
  BY DEF SnapshotOf
<1> HIDE DEF data, seq, gc, crtc, attr, s
<1> QED BY <1>2, <1>3, <1>4, <1>5, <1>6, <1>7 DEF SavedTyped, s

\* Three writes one after another, as the BIOS writes the index registers.
LEMMA WrittenThrice ==
  ASSUME NEW v, Steady(v), NEW p \in OutPorts \ ModePorts, NEW q \in OutPorts \ ModePorts,
         NEW r \in OutPorts \ ModePorts, NEW x \in Nat, NEW y \in Nat, NEW z \in Nat
  PROVE  Keeps(v, Outs(v, << <<p, x>>, <<q, y>>, <<r, z>> >>))
<1>1. <<p, x>> \in KeptWrites /\ <<q, y>> \in KeptWrites /\ <<r, z>> \in KeptWrites
  BY DEF KeptWrites
<1>2. << <<p, x>>, <<q, y>>, <<r, z>> >> \in Seq(KeptWrites)
  BY <1>1, ListTyped
<1> QED BY <1>2, OutsKeep

LEMMA IndexesWritten ==
  ASSUME NEW v, Steady(v), NEW x \in Nat, NEW y \in Nat, NEW z \in Nat
  PROVE  Keeps(v, Outs(v, << <<\h3C4, x>>, <<\h3CE, y>>, <<\h3D4, z>> >>))
<1>1. \h3C4 \in OutPorts \ ModePorts /\ \h3CE \in OutPorts \ ModePorts /\ \h3D4 \in OutPorts \ ModePorts
  BY DEF OutPorts, ModePorts
<1> QED BY ONLY <1>1, WrittenThrice, Steady(v), x \in Nat, y \in Nat, z \in Nat

LEMMA AfterSaveServes ==
  ASSUME NEW m, MachineTyped(m), Steady(m.v), NEW s, SavedTyped(s)
  PROVE  Serves(m, AfterSave(m, s))
<1> DEFINE indexed == Outs(m.v, << <<\h3C4, 7>>, <<\h3CE, 15>>, <<\h3D4, 31>> >>)
           read == AfterReadAttribute(indexed)
           cursor == WritePort(read, \h3C7, 0)
           swept == [cursor EXCEPT !.readAt = <<0, 0>>, !.maskReads = 0]
           back == Outs(swept, << <<\h3C4, s.seqIndex>>, <<\h3CE, s.gcIndex>>, <<\h3D4, s.crtcIndex>> >>)
           dac == SetDacState(back, s.dacFields)
           w == SetAttributeState(dac, s.attribute)
<1>1. \h3C4 \in OutPorts \ ModePorts /\ \h3CE \in OutPorts \ ModePorts /\ \h3D4 \in OutPorts \ ModePorts
      /\ \h3C7 \in OutPorts \ ModePorts
  BY DEF OutPorts, ModePorts
<1>2. AfterSave(m, s) = In(m, w)
  BY DEF AfterSave
<1>3. Keeps(m.v, indexed) /\ Steady(indexed)
  <2>1. Keeps(m.v, indexed)
    BY IndexesWritten
  <2> QED BY <2>1 DEF Keeps, KeepsCopies
<1> HIDE DEF indexed
<1>4. Keeps(indexed, read) /\ Steady(read)
  BY <1>3, AfterReadAttributeKeeps DEF Refreshed, Keeps, KeepsCopies
<1> HIDE DEF read
<1>5. Keeps(read, cursor) /\ Steady(cursor)
  <2>1. Keeps(read, cursor)
    BY <1>1, <1>4, PortKeeps
  <2> QED BY <2>1 DEF Keeps, KeepsCopies
<1> HIDE DEF cursor
<1>6. Keeps(cursor, swept) /\ Steady(swept)
  <2>1. Shape(cursor) /\ RegistersTyped(cursor)
    BY <1>5 DEF Steady, Typed
  <2>2. Shape(swept) /\ RegistersTyped(swept) /\ \A f \in AdapterFields \ {"readAt", "maskReads"} : swept[f] = cursor[f]
    BY <2>1 DEF Shape, RegistersTyped, AdapterFields
  <2> HIDE DEF swept
  <2>3. Keeps(cursor, swept)
    BY <1>5, <2>2, QuietWrite DEF QuietFields, AdapterFields
  <2> QED BY <2>3 DEF Keeps, KeepsCopies
<1> HIDE DEF swept
<1>7. Keeps(swept, back) /\ Steady(back) /\ Shape(back)
  <2>1. s.seqIndex \in Nat /\ s.gcIndex \in Nat /\ s.crtcIndex \in Nat
    BY DEF SavedTyped
  <2>2. Keeps(swept, back)
    BY <1>6, <2>1, IndexesWritten
  <2> QED BY <2>2 DEF Keeps, KeepsCopies, Steady, Typed
<1> HIDE DEF back
<1>8. Keeps(back, dac)
  BY <1>7, DacStateKeeps
<1> HIDE DEF dac
<1>9. Keeps(m.v, dac)
  BY <1>3, <1>4, <1>5, <1>6, <1>7, <1>8, KeepsOn
<1>10. Keeps(m.v, w)
  BY <1>9, AttributeStateKeeps DEF Refreshed, SavedTyped
<1> QED BY <1>2, <1>10, InServes

(* Restoring the registers, one controller at a time.                        *)
LEMMA RestoreSequencerKeeps ==
  ASSUME NEW v, Steady(v), NEW values \in [0 .. 7 -> Nat]
  PROVE  Keeps(v, RestoreSequencer(v, values))
<1> DEFINE seq == [i \in DOMAIN values |-> SequencerBits(i, values[i])]
           w == [v EXCEPT !.seq = seq]
           a == UpdateFontMap(w)
           b == UpdateModeControl(a)
           x == UpdateDisplay(b)
<1>1. Typed(v) /\ Shape(v) /\ RegistersTyped(v)
  BY DEF Steady, Typed
<1>2. seq \in [0 .. 7 -> Nat]
  BY BitsTyped
<1>3. RestoreSequencer(v, values) = x
  BY DEF RestoreSequencer
<1> HIDE DEF seq
<1>4. Shape(w) /\ RegistersTyped(w) /\ w.seq = seq /\ \A f \in AdapterFields \ {"seq"} : w[f] = v[f]
  BY <1>1, <1>2 DEF Shape, RegistersTyped, AdapterFields
<1> HIDE DEF w
<1>5. Typed(w)
  BY <1>1, <1>4 DEF Typed, DataTyped, AdapterFields
<1>6. Copies(w, a, {"fontMap"}) /\ a.text.fontMap = w.seq[3] /\ Typed(a)
  BY <1>5, UpdatesCopy, CopiesTyped DEF Typed, RegisterCopies
<1> HIDE DEF a
<1>7. /\ Copies(a, b, {"lineGraphics", "nineDot"}) /\ Typed(b)
      /\ b.text.lineGraphics = Has(a.attr[16], 4) /\ b.text.nineDot = ~Has(a.seq[1], 1)
  BY <1>6, UpdatesCopy, CopiesTyped DEF Typed, RegisterCopies
<1> HIDE DEF b
<1>8. Copies(b, x, {"display"}) /\ x.text.display = DisplayEnabled(b) /\ Typed(x)
  BY <1>7, UpdatesCopy, CopiesTyped DEF Typed, RegisterCopies
<1> HIDE DEF x
<1>9. /\ \A f \in AdapterFields \ {"text"} : b[f] = w[f] /\ x[f] = w[f] /\ a[f] = w[f]
      /\ \A f \in AdapterFields \ {"text", "seq"} : x[f] = v[f]
  BY <1>4, <1>6, <1>7, <1>8 DEF Copies
<1>10. \A f \in TextFields \ {"fontMap", "lineGraphics", "nineDot", "display"} : x.text[f] = v.text[f]
  BY <1>4, <1>6, <1>7, <1>8 DEF Copies, AdapterFields
<1>11. FontHeld(x) /\ ControlHeld(x)
  <2>1. a.attr = w.attr /\ a.seq = w.seq /\ x.attr = w.attr /\ x.seq = w.seq
    BY <1>9 DEF AdapterFields
  <2>2. x.text.fontMap = w.seq[3] /\ x.text.lineGraphics = Has(a.attr[16], 4) /\ x.text.nineDot = ~Has(a.seq[1], 1)
    BY <1>6, <1>7, <1>8 DEF Copies, TextFields
  <2> QED BY <2>1, <2>2 DEF FontHeld, ControlHeld
<1>12. UnderlineHeld(x) /\ ShapeHeld(x) /\ PanningHeld(x)
  <2>1. x.crtc = v.crtc /\ x.attr = v.attr
    BY <1>9 DEF AdapterFields
  <2>2. x.text.underline = v.text.underline /\ x.text.shape = v.text.shape /\ x.text.panning = v.text.panning
    BY <1>10 DEF TextFields
  <2> QED BY <2>1, <2>2 DEF Steady, CrtcHeld, UnderlineHeld, ShapeHeld, PanningHeld
<1>13. DisplayHeld(x)
  <2>1. DisplayEnabled(b) = DisplayEnabled(x)
    BY <1>9, SameDisplay DEF AdapterFields
  <2> QED BY <1>8, <2>1 DEF DisplayHeld
<1>14. (ColoursHeld(v) => ColoursHeld(x)) /\ (BlinkHeld(v) => BlinkHeld(x))
  <2>1. ShownColours(x) = ShownColours(v)
    BY <1>9, SameColours DEF AdapterFields
  <2>2. x.text.colours = v.text.colours /\ x.text.blink = v.text.blink /\ x.attr = v.attr
    BY <1>9, <1>10 DEF AdapterFields, TextFields
  <2> QED BY <2>1, <2>2 DEF ColoursHeld, BlinkHeld
<1>15. /\ x.mode = v.mode /\ x.bda = v.bda /\ x.crtc = v.crtc
       /\ \A f \in {"columns", "rows", "cellHeight", "cursor", "cursorOn"} : x.text[f] = v.text[f]
  BY <1>9, <1>10 DEF AdapterFields, TextFields
<1>16. KeepsText(v, x)
  BY <1>15 DEF KeepsText, ColumnsHeld, RowsHeld, RowInside
<1>17. PlaceHeld(v) => PlaceHeld(x)
  BY <1>15, SamePlace DEF SameStart, SameData
<1>18. Steady(x)
  BY <1>8, <1>11, <1>12, <1>13 DEF Steady, CrtcHeld
<1> QED BY <1>3, <1>14, <1>15, <1>16, <1>17, <1>18 DEF Keeps, KeepsCopies

LEMMA RestoreCrtcKeeps ==
  ASSUME NEW v, Steady(v), NEW values \in [0 .. 31 -> Nat]
  PROVE  Keeps(v, RestoreCrtc(v, values)) /\ PlaceHeld(RestoreCrtc(v, values))
<1> DEFINE open == {i \in DOMAIN values : i > 7 \/ ~Has(v.crtc[17], 128)}
           crtc == Update(v.crtc, [i \in open |-> CrtcBits(i, values[i])])
           w == [v EXCEPT !.crtc = crtc]
           a == UpdateCellHeight(w)
           b == UpdateCursor(a)
           c == UpdateShape(b)
           d == UpdateUnderline(c)
           x == UpdateDisplay(d)
<1>1. Typed(v) /\ Shape(v) /\ RegistersTyped(v)
  BY DEF Steady, Typed
<1>2. crtc \in [0 .. 31 -> Nat]
  <2> DEFINE g == [i \in open |-> CrtcBits(i, values[i])]
  <2>1. DOMAIN g \subseteq 0 .. 31 /\ \A i \in DOMAIN g : g[i] \in Nat
    <3>1. open \subseteq 0 .. 31
      OBVIOUS
    <3>2. ASSUME NEW i \in 0 .. 31 PROVE CrtcBits(i, values[i]) \in Nat
      <4>1. i \in Nat /\ values[i] \in Nat
        OBVIOUS
      <4> QED BY <4>1, BitsTyped
    <3> HIDE DEF open
    <3> QED BY <3>1, <3>2
  <2>2. v.crtc \in [0 .. 31 -> Nat]
    BY <1>1 DEF RegistersTyped
  <2>3. crtc = Update(v.crtc, g)
    OBVIOUS
  <2> HIDE DEF g, crtc
  <2> QED BY <2>1, <2>2, <2>3, UpdateTyped
<1>3. RestoreCrtc(v, values) = x
  BY DEF RestoreCrtc
<1> HIDE DEF crtc
<1>4. Shape(w) /\ RegistersTyped(w) /\ \A f \in AdapterFields \ {"crtc"} : w[f] = v[f]
  BY <1>1, <1>2 DEF Shape, RegistersTyped, AdapterFields
<1> HIDE DEF w
<1>5. Typed(w)
  BY <1>1, <1>4 DEF Typed, DataTyped, AdapterFields
<1>6. Reshapes(w, a) /\ Typed(a)
  BY <1>5, CellHeightReshapes DEF Reshapes
<1> HIDE DEF a
<1>7. Reshapes(a, b) /\ Typed(b) /\ PlaceHeld(b)
  BY <1>6, CursorReshapes, OnCrtcPlaced DEF Reshapes
<1> HIDE DEF b
<1>8. Copies(b, c, {"shape"}) /\ c.text.shape = <<b.crtc[10], b.crtc[11]>> /\ Typed(c)
  BY <1>7, UpdatesCopy, CopiesTyped DEF Typed, RegisterCopies
<1> HIDE DEF c
<1>9. Copies(c, d, {"underline"}) /\ d.text.underline = c.crtc[20] % 32 /\ Typed(d)
  BY <1>8, UpdatesCopy, CopiesTyped DEF Typed, RegisterCopies
<1> HIDE DEF d
<1>10. Copies(d, x, {"display"}) /\ x.text.display = DisplayEnabled(d) /\ Typed(x)
  BY <1>9, UpdatesCopy, CopiesTyped DEF Typed, RegisterCopies
<1> HIDE DEF x
<1>11. /\ \A f \in AdapterFields \ {"text"} : c[f] = b[f] /\ d[f] = b[f] /\ x[f] = b[f]
       /\ \A f \in AdapterFields \ {"text", "bda"} : b[f] = w[f]
       /\ \A f \in AdapterFields \ {"text", "bda", "crtc"} : x[f] = v[f]
  BY <1>4, <1>6, <1>7, <1>8, <1>9, <1>10 DEF Copies, Reshapes
<1>12. \A f \in RegisterCopies \ {"shape", "underline", "display"} : x.text[f] = v.text[f]
  <2>1. \A f \in RegisterCopies : b.text[f] = v.text[f]
    BY <1>4, <1>6, <1>7 DEF Reshapes, AdapterFields
  <2> QED BY <2>1, <1>8, <1>9, <1>10 DEF Copies, RegisterCopies, TextFields
<1>13. ShapeHeld(x) /\ UnderlineHeld(x)
  <2>1. c.crtc = b.crtc /\ x.crtc = b.crtc
    BY <1>11 DEF AdapterFields
  <2>2. x.text.shape = <<b.crtc[10], b.crtc[11]>> /\ x.text.underline = c.crtc[20] % 32
    BY <1>8, <1>9, <1>10 DEF Copies, TextFields
  <2> QED BY <2>1, <2>2 DEF ShapeHeld, UnderlineHeld
<1>14. FontHeld(x) /\ ControlHeld(x) /\ PanningHeld(x)
  <2>1. x.attr = v.attr /\ x.seq = v.seq
    BY <1>11 DEF AdapterFields
  <2>2. /\ x.text.fontMap = v.text.fontMap /\ x.text.lineGraphics = v.text.lineGraphics
        /\ x.text.nineDot = v.text.nineDot /\ x.text.panning = v.text.panning
    BY <1>12 DEF RegisterCopies
  <2> QED BY <2>1, <2>2 DEF Steady, CrtcHeld, FontHeld, ControlHeld, PanningHeld
<1>15. DisplayHeld(x)
  <2>1. DisplayEnabled(d) = DisplayEnabled(x)
    BY <1>11, SameDisplay DEF AdapterFields
  <2> QED BY <1>10, <2>1 DEF DisplayHeld
<1>16. (ColoursHeld(v) => ColoursHeld(x)) /\ (BlinkHeld(v) => BlinkHeld(x))
  <2>1. ShownColours(x) = ShownColours(v)
    BY <1>11, SameColours DEF AdapterFields
  <2>2. x.text.colours = v.text.colours /\ x.text.blink = v.text.blink /\ x.attr = v.attr
    BY <1>11, <1>12 DEF AdapterFields, RegisterCopies
  <2> QED BY <2>1, <2>2 DEF ColoursHeld, BlinkHeld
<1>19. /\ x.bda = b.bda /\ x.crtc = b.crtc /\ x.mode = b.mode
       /\ \A f \in {"columns", "rows", "cellHeight", "cursor", "cursorOn"} : x.text[f] = b.text[f]
  BY <1>8, <1>9, <1>10, <1>11 DEF Copies, AdapterFields, TextFields
<1>17. KeepsText(v, x)
  <2>1. KeepsText(v, w)
    BY <1>4 DEF KeepsText, ColumnsHeld, RowsHeld, RowInside, AdapterFields
  <2>2. KeepsText(b, x)
    BY <1>19 DEF KeepsText, ColumnsHeld, RowsHeld, RowInside
  <2> QED BY <1>6, <1>7, <2>1, <2>2 DEF Reshapes, KeepsText
<1>18. x.mode = v.mode
  BY <1>11 DEF AdapterFields
<1>20. PlaceHeld(x)
  BY <1>7, <1>19, SamePlace DEF SameStart, SameData
<1>21. Steady(x)
  BY <1>10, <1>13, <1>14, <1>15 DEF Steady, CrtcHeld
<1> QED BY <1>3, <1>16, <1>17, <1>18, <1>20, <1>21 DEF Keeps, KeepsCopies

LEMMA RestoreHardwareServes ==
  ASSUME NEW m, MachineTyped(m), Steady(m.v), NEW s, SavedTyped(s)
  PROVE  /\ MachineTyped(RestoreHardware(m, s)) /\ Refreshed(m.v, RestoreHardware(m, s).v)
         /\ PlaceHeld(RestoreHardware(m, s).v)
<1> DEFINE v1 == Outs(m.v, << <<\h3C2, s.misc>>, <<\h3DA, s.feature>>, <<\h3C3, s.enable>> >>)
           sequenced == RestoreSequencer(v1, s.seq)
           gc == [i \in 0 .. 15 |-> GraphicsBits(i, s.gc[i])]
           v2 == [sequenced EXCEPT !.gc = gc]
           v3 == Indexed(v2, \h3D4, 17, s.crtc[17] % 128)
           timed == RestoreCrtc(v3, s.crtc)
           coloured == WriteAttributes(timed, s.attr)
           indexed == Outs(coloured, << <<\h3C4, s.seqIndex>>, <<\h3CE, s.gcIndex>>, <<\h3D4, s.crtcIndex>> >>)
           placed == SetAttributeState(indexed, s.attribute)
           latched == [placed EXCEPT !.latch = s.latch]
           w == AfterReadAttribute(latched)
<1>1. /\ \h3C4 \in OutPorts \ ModePorts /\ \h3CE \in OutPorts \ ModePorts /\ \h3D4 \in OutPorts \ ModePorts
      /\ \h3C2 \in OutPorts \ ModePorts /\ \h3DA \in OutPorts \ ModePorts /\ \h3C3 \in OutPorts \ ModePorts
  BY DEF OutPorts, ModePorts
<1>2. /\ s.misc \in Nat /\ s.feature \in Nat /\ s.enable \in Nat
      /\ s.seqIndex \in Nat /\ s.gcIndex \in Nat /\ s.crtcIndex \in Nat
      /\ s.seq \in [0 .. 7 -> Nat] /\ s.gc \in [0 .. 15 -> Nat] /\ s.crtc \in [0 .. 31 -> Nat]
      /\ s.attr \in [0 .. 31 -> Nat] /\ s.attribute.index \in 0 .. 31
  BY DEF SavedTyped
<1>3. RestoreHardware(m, s) =
        [v |-> w, b |-> [m.b EXCEPT !.colorPage = IF Has(ReadAttribute(latched, 16), 128) THEN 1 ELSE 0]]
  BY DEF RestoreHardware, RestoreIndexes, PagingRead
<1>4. Keeps(m.v, v1) /\ Steady(v1)
  <2>1. /\ \h3C2 \in OutPorts \ ModePorts /\ \h3DA \in OutPorts \ ModePorts /\ \h3C3 \in OutPorts \ ModePorts
        /\ s.misc \in Nat /\ s.feature \in Nat /\ s.enable \in Nat
    BY <1>1, <1>2
  <2>2. Keeps(m.v, v1)
    BY ONLY <2>1, Steady(m.v), WrittenThrice
  <2> QED BY <2>2 DEF Keeps, KeepsCopies
<1> HIDE DEF v1
<1>5. Keeps(v1, sequenced) /\ Steady(sequenced)
  <2>1. Keeps(v1, sequenced)
    BY <1>2, <1>4, RestoreSequencerKeeps
  <2> QED BY <2>1 DEF Keeps, KeepsCopies
<1> HIDE DEF sequenced
<1>6. Keeps(sequenced, v2) /\ Steady(v2)
  <2>1. gc \in [0 .. 15 -> Nat]
    <3>1. \A i \in 0 .. 15 : i \in Nat /\ s.gc[i] \in Nat
      BY <1>2
    <3> QED BY <3>1, BitsTyped
  <2> HIDE DEF gc
  <2>2. Shape(sequenced) /\ RegistersTyped(sequenced)
    BY <1>5 DEF Steady, Typed
  <2>3. Shape(v2) /\ RegistersTyped(v2) /\ \A f \in AdapterFields \ {"gc"} : v2[f] = sequenced[f]
    BY <2>1, <2>2 DEF Shape, RegistersTyped, AdapterFields
  <2> HIDE DEF v2
  <2>4. Keeps(sequenced, v2)
    BY <1>5, <2>3, QuietWrite DEF QuietFields, AdapterFields
  <2> QED BY <2>4 DEF Keeps, KeepsCopies
<1> HIDE DEF v2
<1>7. Keeps(v2, v3) /\ Steady(v3)
  <2>1. s.crtc[17] % 128 \in Nat
    BY <1>2
  <2> DEFINE x == s.crtc[17] % 128
  <2> HIDE DEF x
  <2>2. Keeps(v2, Indexed(v2, \h3D4, 17, x))
    BY <1>6, <2>1, IndexedKeeps DEF x
  <2> QED BY <2>2 DEF Keeps, KeepsCopies, x
<1> HIDE DEF v3
<1>8. Keeps(v3, timed) /\ Steady(timed) /\ PlaceHeld(timed)
  <2>1. Keeps(v3, timed) /\ PlaceHeld(timed)
    BY <1>2, <1>7, RestoreCrtcKeeps
  <2> QED BY <2>1 DEF Keeps, KeepsCopies
<1> HIDE DEF timed
<1>9. Keeps(timed, coloured) /\ Steady(coloured)
  <2>1. DOMAIN s.attr \subseteq 0 .. 31 /\ \A i \in DOMAIN s.attr : s.attr[i] \in Nat
    BY <1>2
  <2> QED BY <1>8, <2>1, WriteAttributesKeep DEF Refreshed, Keeps, KeepsCopies
<1> HIDE DEF coloured
<1>10. Keeps(coloured, indexed)
  <2>1. s.seqIndex \in Nat /\ s.gcIndex \in Nat /\ s.crtcIndex \in Nat
    BY <1>2
  <2>2. Steady(coloured)
    BY <1>9
  <2> QED BY <2>1, <2>2, IndexesWritten
<1> HIDE DEF indexed
<1>11. Keeps(m.v, indexed) /\ PlaceHeld(indexed)
  <2>1. Keeps(m.v, indexed)
    BY <1>4, <1>5, <1>6, <1>7, <1>8, <1>9, <1>10, KeepsOn
  <2> QED BY <1>8, <1>9, <1>10, <2>1 DEF Keeps
<1>12. Keeps(m.v, placed) /\ Steady(placed) /\ PlaceHeld(placed)
  <2>1. Keeps(indexed, indexed)
    BY <1>11, KeepsNothing DEF Keeps, KeepsCopies
  <2>2. Keeps(m.v, placed) /\ Keeps(indexed, placed)
    BY <1>2, <1>11, <2>1, AttributeStateKeeps DEF Refreshed
  <2> QED BY <1>11, <2>2 DEF Keeps, KeepsCopies
<1> HIDE DEF placed
<1>13. Keeps(placed, latched) /\ Steady(latched)
  <2>1. Shape(placed) /\ RegistersTyped(placed)
    BY <1>12 DEF Steady, Typed
  <2>2. Shape(latched) /\ RegistersTyped(latched) /\ \A f \in AdapterFields \ {"latch"} : latched[f] = placed[f]
    BY <2>1 DEF Shape, RegistersTyped, AdapterFields
  <2> HIDE DEF latched
  <2>3. Keeps(placed, latched)
    BY <1>12, <2>2, QuietWrite DEF QuietFields, AdapterFields
  <2> QED BY <2>3 DEF Keeps, KeepsCopies
<1> HIDE DEF latched
<1>14. Refreshed(latched, w)
  BY <1>13, AfterReadAttributeKeeps
<1> HIDE DEF w
<1>15. Refreshed(m.v, w)
  BY <1>12, <1>13, <1>14, KeepsOn DEF Refreshed
<1>16. MachineTyped(RestoreHardware(m, s))
  BY <1>3 DEF MachineTyped, BiosFields
<1>17. PlaceHeld(w)
  BY <1>12, <1>13, <1>14 DEF Refreshed, Keeps
<1> QED BY <1>3, <1>15, <1>16, <1>17

\* The columns of the data area become those of the text.
LEMMA RestoreBiosDataServes ==
  ASSUME NEW m, MachineTyped(m), Steady(m.v), NEW s, SavedTyped(s)
  PROVE  /\ MachineTyped(RestoreBiosData(m, s)) /\ KeepsCopies(m.v, RestoreBiosData(m, s).v)
         /\ ColumnsHeld(RestoreBiosData(m, s).v)
<1> DEFINE v == m.v
           saved == [f \in DOMAIN s.bios \ {"colorPage"} |-> s.bios[f]]
           data == Update(v.bda, saved)
           w == [v EXCEPT !.bda = data]
           t == WithColumns(w.text, TextColumns(w))
           x == [w EXCEPT !.text = t]
<1>1. Shape(v) /\ DataTyped(v) /\ TextTyped(v.text)
  BY DEF Steady, Typed
<1>2. /\ DOMAIN data = DataFields
      /\ data.columns \in {40, 80} /\ data.page \in 0 .. 7 /\ data.pageSize \in Nat /\ CursorsTyped(data.cursors)
      /\ data.rows = v.bda.rows /\ data.cell = v.bda.cell
  <2>1. DOMAIN saved = {"videoMode", "page", "columns", "pageSize", "pageOffset", "crtcBase", "cursors"}
    BY DEF SavedTyped
  <2>2. \A f \in DOMAIN saved : saved[f] = s.bios[f]
    OBVIOUS
  <2> HIDE DEF saved
  <2>3. DOMAIN data = DataFields
    BY <1>1, <2>1 DEF Update, Shape, DataFields
  <2>4. \A f \in DataFields : data[f] = IF f \in DOMAIN saved THEN s.bios[f] ELSE v.bda[f]
    BY <1>1, <2>1, <2>2 DEF Update, Shape, DataFields
  <2>5. /\ data.columns = s.bios.columns /\ data.page = s.bios.page /\ data.pageSize = s.bios.pageSize
        /\ data.cursors = s.bios.cursors /\ data.rows = v.bda.rows /\ data.cell = v.bda.cell
    BY <2>1, <2>4 DEF DataFields
  <2> QED BY <2>3, <2>5 DEF SavedTyped
<1>3. RestoreBiosData(m, s) = [v |-> x, b |-> [m.b EXCEPT !.page = s.bios.page, !.colorPage = s.bios.colorPage]]
  <2>1. x = [w EXCEPT !.text = WithColumns(@, TextColumns(w))]
    BY <1>1 DEF Shape, AdapterFields
  <2> HIDE DEF x, t
  <2> QED BY <2>1 DEF RestoreBiosData
<1> HIDE DEF data
<1>4. /\ Shape(w) /\ w.bda = data /\ w.text = v.text /\ \A f \in AdapterFields \ {"bda"} : w[f] = v[f]
  BY <1>1, <1>2 DEF Shape, AdapterFields
<1> HIDE DEF w
<1>5. /\ DOMAIN t = TextFields /\ IsPlace(t.cursor)
      /\ t.columns = data.columns /\ t.cursor[2] < data.columns /\ t.cursor[1] = v.text.cursor[1]
      /\ \A f \in TextFields \ {"columns", "cursor"} : t[f] = v.text[f]
  <2>1. DOMAIN v.text = TextFields /\ IsPlace(v.text.cursor)
    BY <1>1 DEF Shape, TextTyped
  <2>2. TextColumns(w) = data.columns
    BY <1>2, <1>4 DEF TextColumns
  <2>3. data.columns \in {40, 80} /\ t = WithColumns(v.text, data.columns)
    BY <1>2, <1>4, <2>2
  <2>4. \A c \in {40, 80} :
          /\ DOMAIN WithColumns(v.text, c) = TextFields /\ IsPlace(WithColumns(v.text, c).cursor)
          /\ WithColumns(v.text, c).columns = c /\ WithColumns(v.text, c).cursor[2] < c
          /\ WithColumns(v.text, c).cursor[1] = v.text.cursor[1]
          /\ \A f \in TextFields \ {"columns", "cursor"} : WithColumns(v.text, c)[f] = v.text[f]
    BY ONLY ZenonT(60), <2>1, WithColumnsFacts
  <2> HIDE DEF t
  <2> QED BY ONLY ZenonT(60), <2>3, <2>4
<1> HIDE DEF t
<1>6. /\ Shape(x) /\ x.bda = data /\ x.text = t /\ \A f \in AdapterFields \ {"text"} : x[f] = w[f]
  BY <1>4, <1>5 DEF Shape, AdapterFields
<1> HIDE DEF x
<1>7. DataTyped(x)
  BY <1>1, <1>2, <1>6 DEF DataTyped
<1>8. TextTyped(x.text)
  BY <1>1, <1>2, <1>5, <1>6 DEF TextTyped, TextFields
<1>9. ColumnsHeld(x) /\ KeepsText(v, x)
  <2>1. ColumnsHeld(x)
    BY <1>5, <1>6 DEF ColumnsHeld
  <2>2. /\ t.rows = v.text.rows /\ t.cellHeight = v.text.cellHeight /\ t.cursorOn = v.text.cursorOn
        /\ x.mode = v.mode
    BY <1>4, <1>5, <1>6 DEF TextFields, AdapterFields
  <2>3. RowsHeld(v) => RowsHeld(x)
    BY <1>2, <1>5, <1>6, <2>2 DEF RowsHeld, RowInside
  <2> QED BY <2>1, <2>3 DEF KeepsText
<1>10. /\ \A f \in RegisterCopies : x.text[f] = v.text[f]
       /\ \A f \in AdapterFields \ {"text", "bda"} : x[f] = v[f]
  BY <1>4, <1>5, <1>6 DEF RegisterCopies, TextFields
<1>11. KeepsCopies(v, x)
  BY <1>6, <1>7, <1>8, <1>9, <1>10, ResizedCopies
<1> DEFINE tables == [m.b EXCEPT !.page = s.bios.page, !.colorPage = s.bios.colorPage]
           n == [v |-> x, b |-> tables]
<1>12. DOMAIN tables = BiosFields /\ tables.page \in 0 .. 7
  BY DEF SavedTyped, MachineTyped, BiosFields
<1> HIDE DEF tables
<1>13. MachineTyped(n) /\ n.v = x
  BY <1>12 DEF MachineTyped
<1>14. RestoreBiosData(m, s) = n
  BY <1>3 DEF tables
<1> HIDE DEF n
<1> QED BY <1>9, <1>11, <1>13, <1>14

LEMMA RestoreDacServes ==
  ASSUME NEW m, MachineTyped(m), Steady(m.v), NEW s
  PROVE  Serves(m, RestoreDac(m, s))
<1> DEFINE masked == WritePort(m.v, \h3C6, s.pelMask)
           cursor == WritePort(masked, \h3C8, 0)
           w == SetDacState([cursor EXCEPT !.dac = s.dac], s.dacFields)
<1>1. RestoreDac(m, s) = In(m, w)
  BY DEF RestoreDac
<1>2. Keeps(m.v, masked) /\ Steady(masked)
  BY MaskWriteKeeps DEF Keeps, KeepsCopies
<1> HIDE DEF masked
<1>3. \h3C8 \in OutPorts \ ModePorts
  BY DEF OutPorts, ModePorts
<1>4. Keeps(masked, cursor)
  BY <1>2, <1>3, PortKeeps
<1> HIDE DEF cursor
<1>5. Keeps(m.v, cursor)
  BY <1>2, <1>4, KeepsOn
<1>6. Keeps(m.v, w)
  BY <1>5, DacReplaced
<1> QED BY <1>1, <1>6, InServes

LEMMA RestoreCursorServes ==
  ASSUME NEW m, MachineTyped(m), Steady(m.v)
  PROVE  Serves(m, RestoreCursor(m))
<1> DEFINE page == m.b.page
           row == m.v.bda.cursors[page][1]
           column == m.v.bda.cursors[page][2]
<1>1. page \in 0 .. 7 /\ row \in Nat /\ column \in Nat
  BY DEF MachineTyped, Steady, Typed, DataTyped, CursorsTyped
<1>2. RestoreCursor(m) = SetCursor(m, page, row, column)
  BY DEF RestoreCursor
<1> HIDE DEF page, row, column
<1> QED BY <1>1, <1>2, SetCursorServes

(* With both the hardware and the data area, a restore refreshes every copy. *)
LEMMA ServesOn == ASSUME NEW m, NEW n, NEW o, Serves(m, n), Serves(n, o) PROVE Serves(m, o)
  BY KeepsOn DEF Serves

LEMMA RestoreFacts ==
  ASSUME NEW m, MachineTyped(m), Steady(m.v), NEW s, SavedTyped(s), NEW parts
  PROVE  LET n == Restore(m, s, parts)
         IN  /\ MachineTyped(n) /\ Steady(n.v)
             /\ {"hardware", "bios"} \subseteq parts => Current(n.v)
<1> DEFINE a == RestoreMode(m, s, parts)
           b == IF "bios" \in parts THEN RestoreBiosData(a, s) ELSE a
           c == IF "hardware" \in parts THEN RestoreHardware(b, s) ELSE b
           d == IF "dac" \in parts THEN RestoreDac(c, s) ELSE c
           n == IF "bios" \in parts THEN RestoreCursor(d) ELSE d
<1>1. Restore(m, s, parts) = n
  BY DEF Restore
<1>2. MachineTyped(a) /\ Steady(a.v)
  <2> DEFINE w == ChangeMode(m.v, ModeOf(s.bios.videoMode))
  <2>1. Shape(m.v) /\ DataTyped(m.v)
    BY DEF Steady, Typed
  <2>2. Shape(w) /\ w.bda = m.v.bda /\ \A f \in AdapterFields \ {"mode", "hercVideo"} : w[f] = m.v[f]
    BY <2>1 DEF ChangeMode, Shape, AdapterFields
  <2>3. a = m \/ a = In(m, w)
    BY DEF RestoreMode
  <2> HIDE DEF w, a
  <2>4. DataTyped(w)
    BY <2>1, <2>2 DEF DataTyped
  <2>5. Steady(w)
    BY <2>2, <2>4, ModeChangeSteady DEF ModeChangeFields, AdapterFields
  <2> QED BY <2>3, <2>5, InFacts
<1> HIDE DEF a
<1>3. ("bios" \in parts => ColumnsHeld(b.v)) /\ Steady(b.v) /\ MachineTyped(b)
  BY <1>2, RestoreBiosDataServes DEF KeepsCopies
<1> HIDE DEF b
<1>4. /\ Serves(b, c) /\ Steady(c.v) /\ MachineTyped(c)
      /\ "hardware" \in parts => ColoursHeld(c.v) /\ BlinkHeld(c.v) /\ PlaceHeld(c.v)
  <2>1. Serves(b, b)
    BY <1>3, KeepsNothing DEF Serves
  <2>2. Serves(b, c) /\ ("hardware" \in parts => ColoursHeld(c.v) /\ BlinkHeld(c.v) /\ PlaceHeld(c.v))
    BY <1>3, <2>1, RestoreHardwareServes DEF Refreshed, Serves
  <2> QED BY <2>2 DEF Serves, Keeps, KeepsCopies
<1> HIDE DEF c
<1>5. Serves(c, d) /\ Steady(d.v) /\ MachineTyped(d)
  <2>1. Serves(c, c)
    BY <1>4, KeepsNothing DEF Serves
  <2>2. Serves(c, d)
    BY <1>4, <2>1, RestoreDacServes
  <2> QED BY <2>2 DEF Serves, Keeps, KeepsCopies
<1> HIDE DEF d
<1>6. Serves(d, n)
  <2>1. Serves(d, d)
    BY <1>5, KeepsNothing DEF Serves
  <2> QED BY <1>5, <2>1, RestoreCursorServes
<1> HIDE DEF n
<1>7. MachineTyped(n) /\ Steady(n.v)
  BY <1>6 DEF Serves, Keeps, KeepsCopies
<1>8. ASSUME {"hardware", "bios"} \subseteq parts PROVE Current(n.v)
  <2>1. ColumnsHeld(c.v) /\ ColoursHeld(c.v) /\ BlinkHeld(c.v) /\ PlaceHeld(c.v)
    BY <1>3, <1>4, <1>8 DEF Serves, Keeps, KeepsCopies, KeepsText
  <2>2. Serves(c, n)
    BY <1>5, <1>6, ServesOn
  <2> QED BY <2>1, <2>2 DEF Serves, Keeps, KeepsCopies, KeepsText, Current
<1> QED BY <1>1, <1>7, <1>8

-----------------------------------------------------------------------------
(* The invariant.  A saved state can be restored; and what the guest's own   *)
(* mode changes do not disturb holds since the last mode set or restore.     *)
VideoInv ==
  /\ deck \in Decks
  /\ MachineTyped(Machine) /\ Steady(vga)
  /\ snapshot # <<>> => SavedTyped(snapshot)
  /\ vga.mode = "Text80" /\ origin # "port" => Current(vga)
  /\ vga.mode = "Text80" /\ origin = "mode" => RowsHeld(vga)

LEMMA SeqWidens == ASSUME NEW S, NEW T, S \subseteq T, NEW s \in Seq(S) PROVE s \in Seq(T)
<1>1. \A i \in 1 .. Len(s) : s[i] \in T
  OBVIOUS
<1> QED BY <1>1

LEMMA LegalArgs ==
  ASSUME VideoInv, NEW name \in DOMAIN Legal
  PROVE  Args(name) \subseteq Legal[name]
  BY DecksAssumption DEF VideoInv, Args

(* The arguments the services get are of the types their lemmas ask for.     *)
LEMMA ArgsTyped ==
  ASSUME VideoInv
  PROVE  /\ Args("out") \subseteq Seq(Writes) /\ Args("mode") \subseteq Legal.mode /\ Args("page") \subseteq 0 .. 7
         /\ \A a \in Args("shape") : a[1] \in Nat /\ a[2] \in Nat
         /\ \A a \in Args("cursor") : a[1] \in 0 .. 7 /\ a[2] \in Nat /\ a[3] \in Nat
         /\ Args("cell") \subseteq {8, 14, 16} /\ Args("border") \subseteq Nat
         /\ \A a \in Args("attribute") : a[1] \in 0 .. 31 /\ a[2] \in Nat
         /\ \A a \in Args("dac") : a[1] \in Nat /\ a[2][1] \in Nat /\ a[2][2] \in Nat /\ a[2][3] \in Nat
         /\ Args("colourPage") \subseteq Nat /\ Args("mask") \subseteq Nat
<1>1. Bytes \subseteq Nat
  BY DEF Bytes
<1>2. DOMAIN Legal = {"out", "mode", "page", "shape", "cursor", "cell", "border", "attribute", "blink", "dac",
                      "paging", "colourPage", "mask", "access", "refresh", "restore"}
  BY DEF Legal
<1>3. Args("out") \subseteq Seq(Writes)
  <2>1. Legal["out"] = Seq(OutPorts \X Bytes)
    BY DEF Legal
  <2>2. OutPorts \X Bytes \subseteq Writes
    BY <1>1 DEF Writes
  <2>3. Args("out") \subseteq Seq(OutPorts \X Bytes)
    BY <1>2, <2>1, LegalArgs
  <2> QED BY <2>2, <2>3, SeqWidens
<1>4. Args("mode") \subseteq Legal.mode
  BY <1>2, LegalArgs
<1>5. Args("page") \subseteq 0 .. 7
  <2>1. Legal["page"] = 0 .. 7
    BY DEF Legal
  <2> QED BY <1>2, <2>1, LegalArgs
<1>6. \A a \in Args("shape") : a[1] \in Nat /\ a[2] \in Nat
  <2>1. Legal["shape"] = Bytes \X Bytes
    BY DEF Legal
  <2>2. Args("shape") \subseteq Legal["shape"]
    BY <1>2, LegalArgs
  <2>3. ASSUME NEW a \in Bytes \X Bytes PROVE a[1] \in Bytes /\ a[2] \in Bytes
    OBVIOUS
  <2> QED BY <1>1, <2>1, <2>2, <2>3
<1>7. \A a \in Args("cursor") : a[1] \in 0 .. 7 /\ a[2] \in Nat /\ a[3] \in Nat
  <2>1. Legal["cursor"] = (0 .. 7) \X Bytes \X Bytes
    BY DEF Legal
  <2>2. Args("cursor") \subseteq Legal["cursor"]
    BY <1>2, LegalArgs
  <2>3. ASSUME NEW a \in (0 .. 7) \X Bytes \X Bytes PROVE a[1] \in 0 .. 7 /\ a[3] \in Bytes
    OBVIOUS
  <2> QED BY <1>1, <2>1, <2>2, <2>3
<1>8. Args("cell") \subseteq {8, 14, 16}
  <2>1. Legal["cell"] = {8, 14, 16}
    BY DEF Legal
  <2> QED BY <1>2, <2>1, LegalArgs
<1>9. Args("border") \subseteq Nat /\ Args("colourPage") \subseteq Nat /\ Args("mask") \subseteq Nat
  <2>1. Legal["border"] = Bytes /\ Legal["colourPage"] = Bytes /\ Legal["mask"] = Bytes
    BY DEF Legal
  <2> QED BY <1>1, <1>2, <2>1, LegalArgs
<1>10. \A a \in Args("attribute") : a[1] \in 0 .. 31 /\ a[2] \in Nat
  <2>1. Legal["attribute"] = (0 .. 31) \X Bytes
    BY DEF Legal
  <2>2. Args("attribute") \subseteq Legal["attribute"]
    BY <1>2, LegalArgs
  <2>3. ASSUME NEW a \in (0 .. 31) \X Bytes PROVE a[1] \in 0 .. 31 /\ a[2] \in Bytes
    OBVIOUS
  <2> QED BY <1>1, <2>1, <2>2, <2>3
<1>11. \A a \in Args("dac") : a[1] \in Nat /\ a[2][1] \in Nat /\ a[2][2] \in Nat /\ a[2][3] \in Nat
  <2>1. Legal["dac"] = Bytes \X (Bytes \X Bytes \X Bytes)
    BY DEF Legal
  <2>2. Args("dac") \subseteq Legal["dac"]
    BY <1>2, LegalArgs
  <2>3. ASSUME NEW a \in Bytes \X (Bytes \X Bytes \X Bytes)
        PROVE  a[1] \in Bytes /\ a[2] \in Bytes \X Bytes \X Bytes
    OBVIOUS
  <2>4. ASSUME NEW c \in Bytes \X Bytes \X Bytes PROVE c[1] \in Bytes /\ c[2] \in Bytes /\ c[3] \in Bytes
    OBVIOUS
  <2> QED BY <1>1, <2>1, <2>2, <2>3, <2>4
<1> QED BY <1>3, <1>4, <1>5, <1>6, <1>7, <1>8, <1>9, <1>10, <1>11

(* A step of a service, and one that only the memory or the latch sees.      *)
LEMMA ServedStep ==
  ASSUME VideoInv, NEW m, Serves(Machine, m), Becomes(m), UNCHANGED <<deck, snapshot, origin>>
  PROVE  VideoInv'
<1>1. MachineTyped(m) /\ Keeps(vga, vga') /\ bios' = m.b
  BY DEF Serves, Becomes, Machine
<1>2. MachineTyped(Machine')
  BY <1>1 DEF MachineTyped, Machine
<1>3. Steady(vga') /\ vga'.mode = vga.mode
  BY <1>1 DEF Keeps, KeepsCopies
<1>4. (Current(vga) => Current(vga')) /\ (RowsHeld(vga) => RowsHeld(vga'))
  BY <1>1 DEF Keeps, KeepsCopies, KeepsText, Current
<1>5. /\ vga'.mode = "Text80" /\ origin' # "port" => Current(vga')
      /\ vga'.mode = "Text80" /\ origin' = "mode" => RowsHeld(vga')
  BY <1>3, <1>4 DEF VideoInv
<1> QED BY <1>2, <1>3, <1>5 DEF VideoInv

LEMMA MachineFacts ==
  ASSUME VideoInv PROVE MachineTyped(Machine) /\ Steady(Machine.v) /\ Machine.v = vga /\ Machine.b = bios
  BY DEF VideoInv, Machine

LEMMA Initially == ASSUME Init PROVE VideoInv
<1> DEFINE first == [v |-> PowerOn, b |-> BiosReset]
           m == SetMode(first, deck.mode)
           n == In(m, Outs(m.v, deck.setup))
<1>1. deck \in Decks /\ deck.mode \in BiosModes /\ deck.setup \in Seq((OutPorts \ ModePorts) \X Bytes)
  BY DecksAssumption DEF Init
<1>2. MachineTyped(first) /\ first.v = PowerOn
  BY DEF MachineTyped, BiosReset, BiosFields
<1>3. vga = n.v /\ bios = n.b
  BY DEF Init, StartOf
<1> HIDE DEF first
<1>4. Fresh(m)
  <2>1. deck.mode \in Legal.mode
    BY <1>1 DEF Legal
  <2>2. Steady(first.v)
    BY <1>2, PowerOnSteady
  <2> QED BY <1>2, <2>1, <2>2, SetModeFresh
<1> HIDE DEF m
<1>5. deck.setup \in Seq(KeptWrites)
  <2>1. Bytes \subseteq Nat
    BY DEF Bytes
  <2>2. (OutPorts \ ModePorts) \X Bytes \subseteq KeptWrites
    BY <2>1 DEF KeptWrites
  <2> QED BY <1>1, <2>2, SeqWidens
<1>6. Serves(m, n)
  <2>1. Keeps(m.v, Outs(m.v, deck.setup))
    BY <1>4, <1>5, OutsKeep DEF Fresh
  <2> QED BY <1>4, <2>1, InServes DEF Fresh
<1>7. Fresh(n)
  BY <1>4, <1>6, ServesFresh
<1> HIDE DEF n
<1>8. MachineTyped(Machine) /\ Steady(vga) /\ (vga.mode = "Text80" => Current(vga) /\ RowsHeld(vga))
  BY <1>3, <1>7 DEF Fresh, MachineTyped, Machine
<1>9. snapshot = <<>>
  BY DEF Init
<1> QED BY <1>1, <1>8, <1>9 DEF VideoInv

LEMMA OutStep == ASSUME VideoInv, Out PROVE VideoInv'
<1>1. PICK writes \in Args("out") :
        LET switched == \E i \in DOMAIN writes : writes[i][1] \in ModePorts
        IN  /\ Becomes(In(Machine, Outs(vga, writes)))
            /\ origin' = IF switched THEN "port" ELSE origin
  BY DEF Out
<1> DEFINE switched == \E i \in DOMAIN writes : writes[i][1] \in ModePorts
           m == In(Machine, Outs(vga, writes))
<1>2. writes \in Seq(Writes)
  BY ArgsTyped
<1>3. UNCHANGED <<deck, snapshot>>
  BY DEF Out, Step
<1>4. Steady(vga) /\ MachineTyped(Machine) /\ Machine.v = vga
  BY MachineFacts
<1>5. CASE ~switched
  <2>1. writes \in Seq(KeptWrites)
    <3>1. \A i \in 1 .. Len(writes) : writes[i] \in Writes /\ writes[i][1] \notin ModePorts
      BY <1>2, <1>5
    <3>2. \A i \in 1 .. Len(writes) : writes[i] \in KeptWrites
      BY <3>1 DEF Writes, KeptWrites
    <3> QED BY <1>2, <3>2
  <2>2. Keeps(vga, Outs(vga, writes))
    BY <1>4, <2>1, OutsKeep
  <2>3. Serves(Machine, m)
    BY <1>4, <2>2, InServes
  <2>4. UNCHANGED <<deck, snapshot, origin>> /\ Becomes(m)
    BY <1>1, <1>3, <1>5
  <2> HIDE DEF m
  <2> QED BY <2>3, <2>4, ServedStep
<1>6. CASE switched
  <2>1. Steady(Outs(vga, writes))
    BY <1>2, <1>4, OutsSteady
  <2>2. MachineTyped(m) /\ m.v = Outs(vga, writes)
    BY <1>4, InFacts
  <2>3. vga' = m.v /\ bios' = m.b /\ origin' = "port"
    BY <1>1, <1>6 DEF Becomes
  <2> HIDE DEF m
  <2>4. MachineTyped(Machine') /\ Steady(vga')
    BY <2>1, <2>2, <2>3 DEF MachineTyped, Machine
  <2> QED BY <1>3, <2>3, <2>4 DEF VideoInv
<1> QED BY <1>5, <1>6

LEMMA SetModeStep == ASSUME VideoInv, SetModeCall PROVE VideoInv'
<1>1. PICK mode \in Args("mode") : Becomes(SetMode(Machine, mode))
  BY DEF SetModeCall
<1> DEFINE m == SetMode(Machine, mode)
<1>2. Fresh(m)
  BY MachineFacts, ArgsTyped, SetModeFresh
<1>3. vga' = m.v /\ bios' = m.b /\ UNCHANGED <<deck, snapshot>>
  BY <1>1 DEF Becomes, SetModeCall, Step
<1> HIDE DEF m
<1>4. MachineTyped(Machine') /\ Steady(vga') /\ (vga'.mode = "Text80" => Current(vga') /\ RowsHeld(vga'))
  BY <1>2, <1>3 DEF Fresh, MachineTyped, Machine
<1> QED BY <1>3, <1>4 DEF VideoInv

LEMMA SaveStep == ASSUME VideoInv, Save PROVE VideoInv'
<1> DEFINE s == SnapshotOf(Machine)
           m == AfterSave(Machine, s)
<1>1. MachineTyped(Machine) /\ Steady(Machine.v) /\ Machine.v = vga
  BY MachineFacts
<1>2. SavedTyped(s)
  BY <1>1, SnapshotTyped
<1>3. Serves(Machine, m)
  BY <1>1, <1>2, AfterSaveServes
<1>4. Becomes(m) /\ UNCHANGED <<deck, origin>> /\ snapshot' = s
  BY DEF Save, Step
<1> HIDE DEF m, s
<1>5. MachineTyped(m) /\ Keeps(vga, vga') /\ bios' = m.b
  BY <1>1, <1>3, <1>4 DEF Serves, Becomes
<1>6. MachineTyped(Machine')
  BY <1>5 DEF MachineTyped, Machine
<1>7. Steady(vga') /\ vga'.mode = vga.mode /\ (Current(vga) => Current(vga')) /\ (RowsHeld(vga) => RowsHeld(vga'))
  BY <1>5 DEF Keeps, KeepsCopies, KeepsText, Current
<1> QED BY <1>2, <1>4, <1>6, <1>7 DEF VideoInv

LEMMA RestoreStep == ASSUME VideoInv, RestoreCall PROVE VideoInv'
<1>1. PICK parts \in Args("restore") :
        /\ Becomes(Restore(Machine, snapshot, parts)) /\ UNCHANGED deck
        /\ origin' = IF {"hardware", "bios"} \subseteq parts THEN "restore" ELSE "port"
  BY DEF RestoreCall, Step
<1> DEFINE m == Restore(Machine, snapshot, parts)
<1>2. SavedTyped(snapshot) /\ snapshot' = snapshot /\ snapshot # <<>>
  BY DEF RestoreCall, VideoInv
<1>3. MachineTyped(m) /\ Steady(m.v) /\ ({"hardware", "bios"} \subseteq parts => Current(m.v))
  BY <1>2, MachineFacts, RestoreFacts
<1>4. vga' = m.v /\ bios' = m.b
  BY <1>1 DEF Becomes
<1> HIDE DEF m
<1>5. MachineTyped(Machine') /\ Steady(vga')
  BY <1>3, <1>4 DEF MachineTyped, Machine
<1>6. /\ vga'.mode = "Text80" /\ origin' # "port" => Current(vga')
      /\ origin' # "mode"
  BY <1>1, <1>3, <1>4
<1> QED BY <1>1, <1>2, <1>5, <1>6 DEF VideoInv

LEMMA CursorStep == ASSUME VideoInv, CursorCall PROVE VideoInv'
<1>1. PICK m : Becomes(m) /\ Serves(Machine, m)
  <2>1. CASE Called("shape", LAMBDA a : CursorShape(Machine, a[1], a[2]))
    <3>1. PICK a \in Args("shape") : Becomes(CursorShape(Machine, a[1], a[2]))
      BY <2>1 DEF Called
    <3>2. Serves(Machine, CursorShape(Machine, a[1], a[2]))
      BY ArgsTyped, MachineFacts, CursorShapeServes
    <3> QED BY <3>1, <3>2
  <2>2. CASE Called("cursor", LAMBDA a : SetCursor(Machine, a[1], a[2], a[3]))
    <3>1. PICK a \in Args("cursor") : Becomes(SetCursor(Machine, a[1], a[2], a[3]))
      BY <2>2 DEF Called
    <3>2. Serves(Machine, SetCursor(Machine, a[1], a[2], a[3]))
      BY ArgsTyped, MachineFacts, SetCursorServes
    <3> QED BY <3>1, <3>2
  <2>3. CASE Called("cell", LAMBDA height : SetCellHeight(Machine, height, RowsFor(height)))
    <3>1. PICK height \in Args("cell") : Becomes(SetCellHeight(Machine, height, RowsFor(height)))
      BY <2>3 DEF Called
    <3>2. Serves(Machine, SetCellHeight(Machine, height, RowsFor(height)))
      BY ArgsTyped, MachineFacts, SetCellHeightServes
    <3> QED BY <3>1, <3>2
  <2> QED BY <2>1, <2>2, <2>3 DEF CursorCall
<1>2. UNCHANGED <<deck, snapshot, origin>>
  BY DEF CursorCall, Called, Step, SameGhosts
<1> QED BY <1>1, <1>2, ServedStep

LEMMA ColourStep == ASSUME VideoInv, ColourCall PROVE VideoInv'
<1>1. PICK m : Becomes(m) /\ Serves(Machine, m)
  <2>1. CASE Called("border", LAMBDA colour : Border(Machine, colour))
    <3>1. PICK a \in Args("border") : Becomes(Border(Machine, a))
      BY <2>1 DEF Called
    <3>2. Serves(Machine, Border(Machine, a))
      BY ArgsTyped, MachineFacts, BorderServes
    <3> QED BY <3>1, <3>2
  <2>2. CASE Called("attribute", LAMBDA a : In(Machine, WriteAttribute(vga, a[1], a[2])))
    <3>1. PICK a \in Args("attribute") : Becomes(In(Machine, WriteAttribute(vga, a[1], a[2])))
      BY <2>2 DEF Called
    <3>2. Serves(Machine, In(Machine, WriteAttribute(vga, a[1], a[2])))
      BY ArgsTyped, MachineFacts, AttributeServes
    <3> QED BY <3>1, <3>2
  <2>3. CASE Called("blink", LAMBDA on : Blinking(Machine, on))
    <3>1. PICK a \in Args("blink") : Becomes(Blinking(Machine, a))
      BY <2>3 DEF Called
    <3>2. Serves(Machine, Blinking(Machine, a))
      BY MachineFacts, BlinkingServes
    <3> QED BY <3>1, <3>2
  <2>4. CASE Called("dac", LAMBDA a : DacEntry(Machine, a[1], a[2]))
    <3>1. PICK a \in Args("dac") : Becomes(DacEntry(Machine, a[1], a[2]))
      BY <2>4 DEF Called
    <3>2. Serves(Machine, DacEntry(Machine, a[1], a[2]))
      BY ArgsTyped, MachineFacts, DacEntryServes
    <3> QED BY <3>1, <3>2
  <2>5. CASE Called("paging", LAMBDA sixteen : ColorPaging(Machine, sixteen))
    <3>1. PICK a \in Args("paging") : Becomes(ColorPaging(Machine, a))
      BY <2>5 DEF Called
    <3>2. Serves(Machine, ColorPaging(Machine, a))
      BY MachineFacts, ColourPageServes
    <3> QED BY <3>1, <3>2
  <2>6. CASE Called("colourPage", LAMBDA page : ColorPage(Machine, page))
    <3>1. PICK a \in Args("colourPage") : Becomes(ColorPage(Machine, a))
      BY <2>6 DEF Called
    <3>2. Serves(Machine, ColorPage(Machine, a))
      BY ArgsTyped, MachineFacts, ColourPageServes
    <3> QED BY <3>1, <3>2
  <2>7. CASE Called("mask", LAMBDA mask : PelMask(Machine, mask))
    <3>1. PICK a \in Args("mask") : Becomes(PelMask(Machine, a))
      BY <2>7 DEF Called
    <3>2. Serves(Machine, PelMask(Machine, a))
      BY ArgsTyped, MachineFacts, PelMaskServes
    <3> QED BY <3>1, <3>2
  <2>8. CASE Called("gray", LAMBDA a : In(Machine, GraySum(vga, a[1], a[2])))
    <3>1. PICK a \in Args("gray") : Becomes(In(Machine, GraySum(vga, a[1], a[2])))
      BY <2>8 DEF Called
    <3>2. Keeps(vga, GraySum(vga, a[1], a[2]))
      BY MachineFacts, GraySumKeeps
    <3>3. Serves(Machine, In(Machine, GraySum(vga, a[1], a[2])))
      BY <3>2, MachineFacts, InServes
    <3> QED BY <3>1, <3>3
  <2> QED BY <2>1, <2>2, <2>3, <2>4, <2>5, <2>6, <2>7, <2>8 DEF ColourCall
<1>2. UNCHANGED <<deck, snapshot, origin>>
  BY DEF ColourCall, Called, Step, SameGhosts
<1> QED BY <1>1, <1>2, ServedStep

LEMMA SwitchStep == ASSUME VideoInv, SwitchCall PROVE VideoInv'
<1>1. PICK m : Becomes(m) /\ Serves(Machine, m)
  <2>1. ASSUME NEW on
        PROVE  /\ Serves(Machine, [Machine EXCEPT !.b.loadPalette = on])
               /\ Serves(Machine, [Machine EXCEPT !.b.grayScale = on])
    <3>1. MachineTyped(Machine) /\ Keeps(Machine.v, Machine.v)
      BY MachineFacts, KeepsNothing
    <3> QED BY <3>1 DEF Serves, MachineTyped, BiosFields
  <2>2. CASE Called("load", LAMBDA on : [Machine EXCEPT !.b.loadPalette = on])
    BY <2>1, <2>2 DEF Called
  <2>3. CASE Called("sum", LAMBDA on : [Machine EXCEPT !.b.grayScale = on])
    BY <2>1, <2>3 DEF Called
  <2>4. CASE Called("access", LAMBDA on : MemoryAccess(Machine, on))
    <3>1. PICK a : Becomes(MemoryAccess(Machine, a))
      BY <2>4 DEF Called
    <3> QED BY <3>1, MachineFacts, SwitchServes
  <2>5. CASE Called("refresh", LAMBDA on : Refresh(Machine, on))
    <3>1. PICK a : Becomes(Refresh(Machine, a))
      BY <2>5 DEF Called
    <3> QED BY <3>1, MachineFacts, SwitchServes
  <2> QED BY <2>2, <2>3, <2>4, <2>5 DEF SwitchCall
<1>2. UNCHANGED <<deck, snapshot, origin>>
  BY DEF SwitchCall, Called, Step, SameGhosts
<1> QED BY <1>1, <1>2, ServedStep

LEMMA PageStep == ASSUME VideoInv, SelectPageCall PROVE VideoInv'
<1>1. PICK page \in Args("page") : Becomes(SelectPage(Machine, page))
  BY DEF SelectPageCall
<1>2. Serves(Machine, SelectPage(Machine, page))
  BY ArgsTyped, MachineFacts, SelectPageServes
<1>3. UNCHANGED <<deck, snapshot, origin>>
  BY DEF SelectPageCall, Step
<1> QED BY <1>1, <1>2, <1>3, ServedStep

LEMMA InStep == ASSUME VideoInv, Inp PROVE VideoInv'
<1>1. PICK port : Becomes(In(Machine, AfterRead(vga, port)))
  BY DEF Inp
<1>2. Keeps(vga, AfterRead(vga, port))
  BY MachineFacts, ReadKeeps
<1>3. Serves(Machine, In(Machine, AfterRead(vga, port)))
  BY <1>2, MachineFacts, InServes
<1>4. UNCHANGED <<deck, snapshot, origin>>
  BY DEF Inp, Step, SameGhosts
<1> QED BY <1>1, <1>3, <1>4, ServedStep

LEMMA PeekStep == ASSUME VideoInv, Peek PROVE VideoInv'
<1>1. PICK address \in Args("peek") : vga' = [vga EXCEPT !.latch = Latched(vga, memory, address)]
  BY DEF Peek
<1>2. Steady(vga) /\ Shape(vga) /\ RegistersTyped(vga) /\ MachineTyped(Machine) /\ Machine.v = vga /\ Machine.b = bios
  BY MachineFacts DEF Steady, Typed
<1>3. Shape(vga') /\ RegistersTyped(vga') /\ \A f \in AdapterFields \ {"latch"} : vga'[f] = vga[f]
  BY <1>1, <1>2 DEF Shape, RegistersTyped, AdapterFields
<1>4. Keeps(vga, vga')
  BY <1>2, <1>3, QuietWrite DEF QuietFields, AdapterFields
<1>5. Serves(Machine, In(Machine, vga'))
  BY <1>2, <1>4, InServes
<1>6. Becomes(In(Machine, vga'))
  <2>1. bios' = bios
    BY DEF Peek
  <2> QED BY <1>2, <2>1, InFacts DEF Becomes
<1>7. UNCHANGED <<deck, snapshot, origin>>
  BY DEF Peek, Step, SameGhosts
<1> QED BY <1>5, <1>6, <1>7, ServedStep

LEMMA StillStep == ASSUME VideoInv, UNCHANGED <<deck, vga, bios, snapshot, origin>> PROVE VideoInv'
  BY DEF VideoInv, Machine

LEMMA Coherent == ASSUME VideoInv PROVE RendererCoherent
<1> SUFFICES ASSUME vga.mode = "Text80", origin # "port" PROVE RendererCoherent
  BY DEF RendererCoherent
<1>1. Steady(vga) /\ Current(vga) /\ (origin = "mode" => RowsHeld(vga))
  BY DEF VideoInv
<1>2. vga.text.colours = ShownColours(vga) /\ vga.text.blink = Has(vga.attr[16], 8)
  BY <1>1 DEF Current, ColoursHeld, BlinkHeld
<1>3. /\ vga.text.lineGraphics = Has(vga.attr[16], 4) /\ vga.text.nineDot = ~Has(vga.seq[1], 1)
      /\ vga.text.panning = vga.attr[19] /\ vga.text.display = DisplayEnabled(vga)
      /\ vga.text.fontMap = vga.seq[3] /\ vga.text.underline = vga.crtc[20] % 32
      /\ vga.text.shape = <<vga.crtc[10], vga.crtc[11]>>
  BY <1>1 DEF Steady, ControlHeld, PanningHeld, DisplayHeld, CrtcHeld, FontHeld, UnderlineHeld, ShapeHeld
<1>4. vga.text.columns = TextColumns(vga) /\ vga.text.cursor[2] < vga.text.columns
  <2>1. vga.bda.columns \in {40, 80}
    BY <1>1 DEF Steady, Typed, DataTyped
  <2> QED BY <1>1, <2>1 DEF Current, ColumnsHeld, TextColumns
<1>5. vga.text.cellHeight * vga.text.rows <= 400
  <2>1. Fits(vga.text.rows, vga.text.cellHeight)
    BY <1>1 DEF Steady, Typed, TextTyped
  <2>2. ASSUME NEW rows \in 1 .. 50 PROVE 8 * rows <= 400 /\ (rows <= 28 => 14 * rows <= 400) /\ (rows <= 25 => 16 * rows <= 400)
    OBVIOUS
  <2> QED BY <2>1, <2>2 DEF Fits
<1>6. vga.text.cursorOn => vga.text.cursor \in {CrtcCursor(vga), PlaceOn(vga, vga.bda.page)}
  BY <1>1 DEF Current, PlaceHeld
<1>7. origin = "mode" => /\ vga.text.cellHeight = vga.bda.cell /\ vga.text.rows = vga.bda.rows + 1
                         /\ vga.text.cursorOn => vga.text.cursor[1] < vga.text.rows
  BY <1>1 DEF RowsHeld, RowInside
<1> QED BY ONLY ZenonT(60), <1>2, <1>3, <1>4, <1>5, <1>6, <1>7 DEF RendererCoherent

(* RendererCoherent, for every guest: in text mode, and unless the guest     *)
(* switched into it through a port of its own, the copies the renderer keeps *)
(* are what the registers say and the cursor is where the CRTC or the BIOS   *)
(* has it, whatever was written, and through what, before; and until a       *)
(* restore, the cursor is inside the rows, which are those of 0484h.         *)
THEOREM RendererCurrent == Spec => []RendererCoherent
<1>1. Init => VideoInv
  BY Initially
<1>2. VideoInv /\ [Next]_vars => VideoInv'
  <2> SUFFICES ASSUME VideoInv, [Next]_vars PROVE VideoInv'
    OBVIOUS
  <2>1. CASE Out
    BY <2>1, OutStep
  <2>2. CASE Inp
    BY <2>2, InStep
  <2>3. CASE Poke
    BY <2>3, StillStep DEF Poke, Step, SameGhosts
  <2>4. CASE Peek
    BY <2>4, PeekStep
  <2>5. CASE SetModeCall
    BY <2>5, SetModeStep
  <2>6. CASE SelectPageCall
    BY <2>6, PageStep
  <2>7. CASE Plot
    BY <2>7, StillStep DEF Plot, Step, SameGhosts
  <2>8. CASE CursorCall
    BY <2>8, CursorStep
  <2>9. CASE ColourCall
    BY <2>9, ColourStep
  <2>10. CASE SwitchCall
    BY <2>10, SwitchStep
  <2>11. CASE Save
    BY <2>11, SaveStep
  <2>12. CASE RestoreCall
    BY <2>12, RestoreStep
  <2>13. CASE UNCHANGED vars
    BY <2>13, StillStep DEF vars
  <2> QED BY <2>1, <2>2, <2>3, <2>4, <2>5, <2>6, <2>7, <2>8, <2>9, <2>10, <2>11, <2>12, <2>13 DEF Next
<1>3. VideoInv => RendererCoherent
  BY Coherent
<1> QED BY <1>1, <1>2, <1>3, PTL DEF Spec
=============================================================================
