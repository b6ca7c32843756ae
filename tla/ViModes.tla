--------------------------------- MODULE ViModes ---------------------------------
(***************************************************************************)
(* The video modes (vimodes/, vitbl.c) and what is shown of a frame buffer *)
(* in them: the registers that __osViSwapContext computes from a mode and  *)
(* from the scales, the fade, the repeated line and the features that a    *)
(* program set (viset*.c, vifade.c, viextendvstart.c).  When a context is  *)
(* shown is in ViMgr.                                                      *)
(*                                                                         *)
(* Scales and offsets count 1/1024, a vertical position half lines.        *)
(***************************************************************************)
EXTENDS Integers, Sequences, FiniteSets

CONSTANTS
  ShownModes,     \* numbers in the table of the modes that are tried
  ViFactors,      \* scales that programs set, in 1/1024
  FadeOffsets,
  ExtraLines,     \* television -> what programs set as __additional_scanline; the code takes 0..48
  MaxViCalls

ASSUME ViModesAssumption ==
  /\ ShownModes \subseteq 0..55 /\ ViFactors \subseteq 1..1024 /\ FadeOffsets \subseteq 0..1023
  /\ ExtraLines \in [0..3 -> SUBSET (0..48)] /\ MaxViCalls \in Nat

VARIABLES
  screen,         \* the context: mode, flags, factors, fade, control
  extraLines,
  viCalls

screenVars == << screen, extraLines, viCalls >>

--------------------------------------------------------------------------------
(* What the modes of a television have in common; woven: the fields are those of an interlaced frame. *)

Always(x) == [woven \in BOOLEAN |-> x]
EitherWay(x, y) == [woven \in BOOLEAN |-> IF woven THEN y ELSE x]
BothFields(x) == << x, x >>

Ntsc == [ first |-> 0, lines |-> 525, rows |-> 240, burst |-> << 57, 34, 5, 62 >>, hStart |-> << 108, 748 >>,
          vStart |-> << 37, 511 >>, hSync |-> Always(<< 3093, 0 >>), leap |-> Always(<< 3093, 3093 >>),
          vBurst |-> Always(BothFields(<< 4, 2, 14, 0 >>)) ]
Pal  == [ first |-> 14, lines |-> 625, rows |-> 240, burst |-> << 58, 30, 4, 69 >>, hStart |-> << 128, 768 >>,
          vStart |-> << 95, 569 >>, hSync |-> Always(<< 3177, 23 >>), leap |-> Always(<< 3183, 3181 >>),
          vBurst |-> EitherWay(BothFields(<< 107, 2, 9, 0 >>), << << 107, 2, 9, 0 >>, << 105, 2, 13, 0 >> >>) ]
Mpal == [ Ntsc EXCEPT !.first = 28, !.burst = << 57, 30, 5, 70 >>,
          !.hSync = EitherWay(<< 3089, 4 >>, << 3088, 0 >>), !.leap = EitherWay(<< 3097, 3098 >>, << 3100, 3100 >>),
          !.vBurst = EitherWay(BothFields(<< 4, 2, 14, 0 >>), << << 2, 2, 11, 0 >>, << 4, 2, 14, 0 >> >>) ]
Fpal == [ Pal EXCEPT !.first = 42, !.rows = 288, !.vStart = << 47, 617 >> ]

\* An antialiased mode has the divot filter; the interlaced ones serrate.  A mode of low resolution is
\* a line below the start of the frame, one of high resolution a line for the one field and two for
\* the other; f: interlaced in low, and without flicker in high resolution.
Number(b) == IF b THEN 1 ELSE 0
Features(aa, woven) ==
  {"gamma", "gamma dither"} \cup (IF aa THEN {"divot"} ELSE {}) \cup (IF woven THEN {"serrate"} ELSE {})
Mode(tv, place, woven, bits, antialias, features, width, xScale, field) ==
  [ type |-> tv.first + place, bits |-> bits, antialias |-> antialias, features |-> features, width |-> width,
    burst |-> tv.burst, vSync |-> tv.lines - Number(woven), hSync |-> tv.hSync[woven], leap |-> tv.leap[woven],
    hStart |-> tv.hStart, xScale |-> xScale, rows |-> tv.rows,
    fields |-> [i \in 0..1 |->
      LET up == IF woven /\ i = 0 THEN 2 ELSE 0
      IN [ origin |-> field[i].line * (bits \div 8), yScale |-> field[i].scale, yOffset |-> field[i].offset,
           vStart |-> << tv.vStart[1] - up, tv.vStart[2] - up >>, vBurst |-> tv.vBurst[woven][i + 1], vIntr |-> 2 ]] ]

Low(tv, aa, f, bits) ==
  LET antialias == IF aa THEN Number(~f /\ bits = 16) ELSE 2 + Number(~f /\ bits = 32)
      field == [i \in 0..1 |-> [line |-> 320, scale |-> 1024, offset |-> IF ~f THEN 0 ELSE 256 + i * 512]]
  IN Mode(tv, 4 * Number(bits = 32) + 2 * Number(aa) + Number(f), f, bits, antialias, Features(aa, f), 320, 512, field)

High(tv, aa, f, bits) ==
  LET antialias == IF aa THEN 0 ELSE 2 + Number(~f /\ bits = 32)
      field == [i \in 0..1 |-> [line |-> 640 * (i + 1), scale |-> IF f THEN 2048 ELSE 1024,
                                 offset |-> IF f THEN 512 ELSE 0]]
  IN Mode(tv, 8 + 4 * Number(bits = 32) + 2 * Number(aa) + Number(f), TRUE, bits, antialias, Features(aa, TRUE),
          IF f THEN 640 ELSE 1280, 1024, field)

NtscLpn1 == Low(Ntsc, FALSE, FALSE, 16)
NtscLpf1 == Low(Ntsc, FALSE, TRUE, 16)
NtscLan1 == Low(Ntsc, TRUE, FALSE, 16)
NtscLaf1 == Low(Ntsc, TRUE, TRUE, 16)
NtscLpn2 == Low(Ntsc, FALSE, FALSE, 32)
NtscLpf2 == Low(Ntsc, FALSE, TRUE, 32)
NtscLan2 == Low(Ntsc, TRUE, FALSE, 32)
NtscLaf2 == Low(Ntsc, TRUE, TRUE, 32)
NtscHpn1 == High(Ntsc, FALSE, FALSE, 16)
NtscHpf1 == High(Ntsc, FALSE, TRUE, 16)
NtscHan1 == High(Ntsc, TRUE, FALSE, 16)
NtscHaf1 == High(Ntsc, TRUE, TRUE, 16)
NtscHpn2 == High(Ntsc, FALSE, FALSE, 32)
NtscHpf2 == High(Ntsc, FALSE, TRUE, 32)
PalLpn1 == Low(Pal, FALSE, FALSE, 16)
PalLpf1 == Low(Pal, FALSE, TRUE, 16)
PalLan1 == Low(Pal, TRUE, FALSE, 16)
PalLaf1 == Low(Pal, TRUE, TRUE, 16)
PalLpn2 == Low(Pal, FALSE, FALSE, 32)
PalLpf2 == Low(Pal, FALSE, TRUE, 32)
PalLan2 == Low(Pal, TRUE, FALSE, 32)
PalLaf2 == Low(Pal, TRUE, TRUE, 32)
PalHpn1 == High(Pal, FALSE, FALSE, 16)
PalHpf1 == High(Pal, FALSE, TRUE, 16)
PalHan1 == High(Pal, TRUE, FALSE, 16)
PalHaf1 == High(Pal, TRUE, TRUE, 16)
PalHpn2 == High(Pal, FALSE, FALSE, 32)
PalHpf2 == High(Pal, FALSE, TRUE, 32)
MpalLpn1 == Low(Mpal, FALSE, FALSE, 16)
MpalLpf1 == Low(Mpal, FALSE, TRUE, 16)
MpalLan1 == Low(Mpal, TRUE, FALSE, 16)
MpalLaf1 == Low(Mpal, TRUE, TRUE, 16)
MpalLpn2 == Low(Mpal, FALSE, FALSE, 32)
MpalLpf2 == Low(Mpal, FALSE, TRUE, 32)
MpalLan2 == Low(Mpal, TRUE, FALSE, 32)
MpalLaf2 == Low(Mpal, TRUE, TRUE, 32)
MpalHpn1 == High(Mpal, FALSE, FALSE, 16)
MpalHpf1 == High(Mpal, FALSE, TRUE, 16)
MpalHan1 == High(Mpal, TRUE, FALSE, 16)
MpalHaf1 == High(Mpal, TRUE, TRUE, 16)
MpalHpn2 == High(Mpal, FALSE, FALSE, 32)
MpalHpf2 == High(Mpal, FALSE, TRUE, 32)
FpalLpn1 == Low(Fpal, FALSE, FALSE, 16)
FpalLpf1 == Low(Fpal, FALSE, TRUE, 16)
FpalLan1 == Low(Fpal, TRUE, FALSE, 16)
FpalLaf1 == Low(Fpal, TRUE, TRUE, 16)
FpalLpn2 == Low(Fpal, FALSE, FALSE, 32)
FpalLpf2 == Low(Fpal, FALSE, TRUE, 32)
FpalLan2 == Low(Fpal, TRUE, FALSE, 32)
FpalLaf2 == Low(Fpal, TRUE, TRUE, 32)
FpalHpn1 == High(Fpal, FALSE, FALSE, 16)
FpalHpf1 == High(Fpal, FALSE, TRUE, 16)
FpalHan1 == High(Fpal, TRUE, FALSE, 16)
FpalHaf1 == High(Fpal, TRUE, TRUE, 16)
FpalHpn2 == High(Fpal, FALSE, FALSE, 32)
FpalHpf2 == High(Fpal, FALSE, TRUE, 32)

NtscLow16 == << NtscLpn1, NtscLpf1, NtscLan1, NtscLaf1 >>
NtscLow32 == << NtscLpn2, NtscLpf2, NtscLan2, NtscLaf2 >>
NtscHigh16 == << NtscHpn1, NtscHpf1, NtscHan1, NtscHaf1 >>
NtscHigh32 == << NtscHpn2, NtscHpf2 >>

PalLow16 == << PalLpn1, PalLpf1, PalLan1, PalLaf1 >>
PalLow32 == << PalLpn2, PalLpf2, PalLan2, PalLaf2 >>
PalHigh16 == << PalHpn1, PalHpf1, PalHan1, PalHaf1 >>
PalHigh32 == << PalHpn2, PalHpf2 >>

MpalLow16 == << MpalLpn1, MpalLpf1, MpalLan1, MpalLaf1 >>
MpalLow32 == << MpalLpn2, MpalLpf2, MpalLan2, MpalLaf2 >>
MpalHigh16 == << MpalHpn1, MpalHpf1, MpalHan1, MpalHaf1 >>
MpalHigh32 == << MpalHpn2, MpalHpf2 >>

FpalLow16 == << FpalLpn1, FpalLpf1, FpalLan1, FpalLaf1 >>
FpalLow32 == << FpalLpn2, FpalLpf2, FpalLan2, FpalLaf2 >>
FpalHigh16 == << FpalHpn1, FpalHpf1, FpalHan1, FpalHaf1 >>
FpalHigh32 == << FpalHpn2, FpalHpf2 >>

osViModeTable ==
  NtscLow16 \o NtscLow32 \o NtscHigh16 \o NtscHigh32 \o PalLow16 \o PalLow32 \o PalHigh16 \o PalHigh32 \o
  MpalLow16 \o MpalLow32 \o MpalHigh16 \o MpalHigh32 \o FpalLow16 \o FpalLow32 \o FpalHigh16 \o FpalHigh32
ModeOf(n) == osViModeTable[n + 1]

--------------------------------------------------------------------------------
(* What a program sets *)

Mode0 == ModeOf(screen.mode)
Television(n) == n \div 14
Plain == {}

\* __osViInit: LAN1 of the television, black
ScreenInit ==
  /\ \E n \in ShownModes :
       screen = [mode |-> n, flags |-> Plain, x |-> 0, y |-> 1024, offset |-> 0,
                 features |-> ModeOf(n).features, antialias |-> ModeOf(n).antialias]
  /\ extraLines = 0 /\ viCalls = 0

Call == viCalls < MaxViCalls /\ viCalls' = viCalls + 1

\* osViSetMode, to a mode of the same television
ChooseMode(n) ==
  /\ Call /\ Television(n) = Television(screen.mode)
  /\ screen' = [screen EXCEPT !.mode = n, !.flags = Plain, !.features = ModeOf(n).features,
                              !.antialias = ModeOf(n).antialias]
  /\ UNCHANGED extraLines

\* osViSetXScale uses the mode there is now, osViSetYScale the one there will be.
SetXScale(factor) ==
  /\ Call
  /\ screen' = [screen EXCEPT !.flags = @ \cup {"xscale"}, !.x = (factor * Mode0.xScale) \div 1024]
  /\ UNCHANGED extraLines
SetYScale(factor) ==
  /\ Call /\ screen' = [screen EXCEPT !.flags = @ \cup {"yscale"}, !.y = factor] /\ UNCHANGED extraLines

\* osViFade; osViBlack and osViRepeatLine
Fade(offset) ==
  /\ Call /\ screen' = [screen EXCEPT !.flags = @ \cup {"fade"}, !.offset = offset] /\ UNCHANGED extraLines
Switch0(flag, on) ==
  /\ Call /\ UNCHANGED extraLines
  /\ screen' = [screen EXCEPT !.flags = IF on THEN @ \cup {flag} ELSE @ \ {flag}]

\* osViExtendVStart
ExtendVStart(n) == Call /\ extraLines' = n /\ UNCHANGED screen

\* osViSetSpecialFeatures: what is asked on and off is off; the dither filter replaces antialiasing.
SetSpecialFeatures(on, off) ==
  /\ Call /\ UNCHANGED extraLines
  /\ screen' = [screen EXCEPT !.features = (@ \cup on) \ off,
                              !.antialias = IF "filter" \in off THEN Mode0.antialias
                                            ELSE IF "filter" \in on THEN 0 ELSE @]

ScreenNext ==
  \/ \E n \in ShownModes : ChooseMode(n)
  \/ \E factor \in ViFactors : SetXScale(factor) \/ SetYScale(factor)
  \/ \E offset \in FadeOffsets : Fade(offset)
  \/ \E flag \in {"black", "repeat"}, on \in BOOLEAN : Switch0(flag, on)
  \/ Switch0("fade", FALSE)
  \/ \E n \in ExtraLines[Television(screen.mode)] : ExtendVStart(n)
  \/ \E on, off \in SUBSET {"divot", "filter"} : on \cup off # {} /\ SetSpecialFeatures(on, off)

--------------------------------------------------------------------------------
(* __osViSwapContext for the field that the VI is in *)

YScaled(f) ==
  IF "fade" \in screen.flags THEN [scale |-> 0, offset |-> screen.offset]
  ELSE IF "repeat" \in screen.flags THEN [scale |-> 0, offset |-> 0]
  ELSE IF "yscale" \in screen.flags THEN [scale |-> (screen.y * f.yScale) \div 1024, offset |-> f.yOffset]
  ELSE [scale |-> f.yScale, offset |-> f.yOffset]

FieldRegisters(mode, f) ==
  [ origin |-> IF screen.flags \cap {"fade", "repeat"} = {} THEN f.origin ELSE 0,
    width  |-> mode.width, y |-> YScaled(f),
    xScale |-> IF "xscale" \in screen.flags THEN screen.x ELSE mode.xScale,
    hStart |-> IF "black" \in screen.flags THEN << 0, 0 >> ELSE mode.hStart,
    vStart |-> << f.vStart[1] - extraLines, f.vStart[2] + extraLines >> ]
Registers(mode, i) == FieldRegisters(mode, mode.fields[i])

\* What the VI does with them: of the line k of a field, the place in the frame, in pixels, of its first
\* pixel.  Between two lines it reads both.
Shown0(r) == r.hStart[2] > r.hStart[1]
LinesShown(r)  == (r.vStart[2] - r.vStart[1]) \div 2
PixelsShown(r) == ((r.hStart[2] - r.hStart[1]) * r.xScale) \div 1024
RowsRead(r, k) ==
  LET at == r.y.offset + k * r.y.scale
  IN {at \div 1024} \cup IF at % 1024 = 0 THEN {} ELSE {at \div 1024 + 1}
PixelAt(mode, r, row) == r.origin \div (mode.bits \div 8) + row * r.width

FrameWidth(mode) == IF mode.xScale = 512 THEN 320 ELSE 640
FrameRows(mode) == (mode.rows + extraLines) * (FrameWidth(mode) \div 320)

--------------------------------------------------------------------------------
(* Properties *)

\* Whatever mode, scale, fade and further lines are set, the VI reads no pixel that is outside of the
\* frame, and no line of it is longer than one of the frame.
InsideTheFrame(mode) ==
  \A r \in {Registers(mode, i) : i \in 0..1} :
    Shown0(r) =>
      /\ PixelsShown(r) <= FrameWidth(mode)
      /\ r.vStart[1] >= 0 /\ r.vStart[2] <= mode.vSync + Number(mode.vSync % 2 = 0)
      /\ \A row \in RowsRead(r, LinesShown(r) - 1) :
           PixelAt(mode, r, row) + PixelsShown(r) <= FrameWidth(mode) * FrameRows(mode)

\* A field as the mode has it, without further lines; the rows of the frame that it shows, and how high
\* in the frame it begins.
Field(mode, i) == [Registers(mode, i) EXCEPT !.vStart = mode.fields[i].vStart]
RowsShown(mode, r) ==
  {PixelAt(mode, r, row) \div FrameWidth(mode) : row \in UNION {RowsRead(r, k) : k \in 0..(LinesShown(r) - 1)}}
Height(mode, r) == (PixelAt(mode, r, 0) \div FrameWidth(mode)) * 1024 + r.y.offset

Weave(mode, n, rows0, rows1) ==
  IF FrameWidth(mode) = 320 THEN rows0 = rows1 /\ 1..n \subseteq rows0 /\ rows0 \subseteq 1..(n + 1)
  ELSE /\ 1..(2 * n) \subseteq rows0 \cup rows1
       /\ mode.width = 1280 => rows0 \cap rows1 = {}

\* The two fields of a mode show every line of the frame but the first and the last ones: each field
\* all of them, or in high resolution one field those that the other one leaves out; and the field that
\* is higher on the screen is higher in the frame.
FieldsWeave(mode) ==
  screen.flags \subseteq {"black", "xscale"} =>
    \A r0 \in {Field(mode, 0)}, r1 \in {Field(mode, 1)} :
      /\ LinesShown(r1) = LinesShown(r0)
      /\ r0.vStart[1] < r1.vStart[1] <=> Height(mode, r0) < Height(mode, r1)
      /\ Weave(mode, LinesShown(r0), RowsShown(mode, r0), RowsShown(mode, r1))

\* The table has each mode at its number; a mode serrates if its fields are half a line apart.
TableInOrder(mode) ==
  /\ mode.type = screen.mode
  /\ "serrate" \in mode.features <=> mode.vSync % 2 = 0
  /\ mode.vSync % 2 = 0 <=> mode.fields[0].vStart # mode.fields[1].vStart

\* Antialiasing is off exactly as long as the dither filter takes its place (osViSetSpecialFeatures).
FilterOrAntialias(mode) == screen.antialias = IF "filter" \in screen.features THEN 0 ELSE mode.antialias

FrameShown ==
  \A mode \in {Mode0} :
    InsideTheFrame(mode) /\ FieldsWeave(mode) /\ TableInOrder(mode) /\ FilterOrAntialias(mode)
==================================================================================
