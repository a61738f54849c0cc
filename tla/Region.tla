------------------------------- MODULE Region -------------------------------
(***************************************************************************)
(* The rectangles of display_epaper.c, in its 16-bit arithmetic: what a    *)
(* fill and a text change in the framebuffer, and which window of the panel *)
(* a partial refresh then sends.                                           *)
(***************************************************************************)
EXTENDS Integers, Sequences

CONSTANTS
  Word,         \* 2^16: x + w and y + h are cut to it
  PanelWidth,   \* g_display_profile.width
  PanelHeight   \* g_display_profile.height

ASSUME PanelAssumption ==
  /\ Word \in Nat /\ PanelWidth \in Nat \ {0} /\ PanelHeight \in Nat \ {0}
  /\ PanelWidth % 8 = 0
  /\ PanelWidth + 7 < Word /\ PanelHeight < Word

U16(n) == n % Word
Clip(n, end) == IF n > end THEN end ELSE n
RoundedUp(n) == (n + 7) - ((n + 7) % 8)      \* (n + 7) & 0xFFF8

Pixels == (0..(PanelWidth - 1)) \X (0..(PanelHeight - 1))

WholePanel == [x |-> 0, y |-> 0, w |-> PanelWidth, h |-> PanelHeight]

\* a rectangle whose right and lower edges are 16-bit numbers
Plain(r) == r.x + r.w < Word /\ r.y + r.h < Word

\* the test display_fill_region and display_normalize_partial_region share
Acceptable(r) == r.w > 0 /\ r.h > 0 /\ r.x < PanelWidth /\ r.y < PanelHeight

-----------------------------------------------------------------------------
(* display_fill_region, display_draw_text *)

Filled(r) ==
  {p \in Pixels : /\ p[1] >= r.x /\ p[1] < U16(r.x + r.w)
                  /\ p[2] >= r.y /\ p[2] < U16(r.y + r.h)}

Scale(size) == IF size >= 32 THEN 4 ELSE IF size >= 24 THEN 3 ELSE IF size >= 16 THEN 2 ELSE 1

CharWidth(t) == 6 * Scale(t.size)
LineHeight(t) == 8 * Scale(t.size)

\* t.lines holds the number of characters of each line
Longest(t) == CHOOSE n \in {t.lines[i] : i \in DOMAIN t.lines} :
                \A i \in DOMAIN t.lines : t.lines[i] <= n

TextRegion(t) ==
  [x |-> t.x, y |-> t.y, h |-> U16(LineHeight(t) * Len(t.lines)),
   w |-> U16(CharWidth(t) * (IF Longest(t) = 0 THEN 1 ELSE Longest(t)))]

\* what the glyphs of a text may change: 5 columns and 7 rows of a cell of 6 by
\* 8; display_set_pixel drops what is not on the panel
Glyphs(t) ==
  LET s == Scale(t.size)
      Chars == UNION {{line} \X (1..t.lines[line]) : line \in DOMAIN t.lines}
      Cell(c) == {<<U16(t.x + (c[2] - 1) * CharWidth(t) + dx),
                    U16(t.y + (c[1] - 1) * LineHeight(t) + dy)>> :
                    dx \in 0..(5 * s - 1), dy \in 0..(7 * s - 1)}
  IN  (UNION {Cell(c) : c \in Chars}) \cap Pixels

-----------------------------------------------------------------------------
(* display_normalize_partial_region, uc8179_enter_partial_window *)

\* mutated: the right edge is not rounded up to a byte
RightEdgeAsAsked(r) == Clip(U16(r.x + r.w), PanelWidth)

RightEdge(r) == Clip(RoundedUp(Clip(U16(r.x + r.w), PanelWidth)), PanelWidth)

Window(r) ==
  LET x0 == r.x - (r.x % 8) IN
    [x |-> x0, y |-> r.y,
     w |-> U16(RightEdge(r) - x0),
     h |-> U16(Clip(U16(r.y + r.h), PanelHeight) - r.y)]

\* refused by the normalisation, or by the row buffer of the upload
Refreshable(r) ==
  /\ Acceptable(r)
  /\ Window(r).w > 0 /\ Window(r).h > 0
  /\ Window(r).w \div 8 <= PanelWidth \div 8

OnPanel(r) == r.x + r.w <= PanelWidth /\ r.y + r.h <= PanelHeight

\* display_upload_partial_region_data sends whole bytes of each row of a window
Sent(p, r) ==
  /\ p[1] >= r.x /\ p[1] < r.x + 8 * (r.w \div 8)
  /\ p[2] >= r.y /\ p[2] < r.y + r.h
=============================================================================
