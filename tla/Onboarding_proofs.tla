--------------------------- MODULE Onboarding_proofs ---------------------------
(***************************************************************************)
(* What an MCP client is told to be on the panel is there: the drawing     *)
(* tools over the rectangles of Region, for any panel and any requests.    *)
(* What a user typed is what the device joins with, and its token what the *)
(* server takes: for any texts, through receptions, writes and restarts.   *)
(***************************************************************************)
EXTENDS Onboarding, PortalForm_proofs

-----------------------------------------------------------------------------
(* The window of a partial refresh *)

Rectangle == [x : 0..(Word - 1), y : 0..(Word - 1), w : 0..(Word - 1), h : 0..(Word - 1)]

\* The distance of two byte boundaries is a number of whole bytes.
LEMMA BytesBetween ==
  ASSUME NEW a \in Int, NEW b \in Int, a % 8 = 0, b % 8 = 0
  PROVE  (a - b) % 8 = 0 /\ 8 * ((a - b) \div 8) = a - b
<1>1. a = 8 * (a \div 8) /\ b = 8 * (b \div 8) /\ a \div 8 \in Int /\ b \div 8 \in Int
  OBVIOUS
<1>2. a - b = 8 * ((a \div 8) - (b \div 8))
  BY <1>1
<1>3. \A n \in Int : (8 * n) % 8 = 0 /\ (8 * n) \div 8 = n
  OBVIOUS
<1>4. QED
  BY <1>1, <1>2, <1>3

\* The edge is clipped, rounded up to whole bytes and clipped again: it stays a
\* multiple of 8, on the panel, and not left of the clipped edge.
LEMMA RightEdgeRounded ==
  ASSUME NEW r \in Rectangle, Acceptable(r), Plain(r)
  PROVE  /\ RightEdge(r) \in Nat /\ RightEdge(r) <= PanelWidth
         /\ RightEdge(r) % 8 = 0
         /\ RightEdge(r) >= Clip(r.x + r.w, PanelWidth)
         /\ RightEdge(r) > r.x
<1> DEFINE e == Clip(r.x + r.w, PanelWidth)
<1>1. r.x \in Nat /\ r.w \in Nat /\ r.x + r.w < Word /\ r.x < PanelWidth /\ r.w > 0
  BY PanelAssumption DEF Rectangle, Acceptable, Plain
<1>2. U16(r.x + r.w) = r.x + r.w
  BY <1>1, PanelAssumption DEF U16
<1>3. e \in Nat /\ e <= PanelWidth /\ e > r.x
  BY <1>1, PanelAssumption DEF Clip
<1>4. RightEdge(r) = Clip(RoundedUp(e), PanelWidth)
  BY <1>2 DEF RightEdge
<1> HIDE DEF e
<1>5. RoundedUp(e) \in Nat /\ RoundedUp(e) >= e /\ RoundedUp(e) % 8 = 0
  BY <1>3 DEF RoundedUp
<1>6. Clip(RoundedUp(e), PanelWidth) \in Nat
      /\ Clip(RoundedUp(e), PanelWidth) <= PanelWidth
      /\ Clip(RoundedUp(e), PanelWidth) % 8 = 0
      /\ Clip(RoundedUp(e), PanelWidth) >= e
  BY <1>3, <1>5, PanelAssumption DEF Clip
<1>7. QED
  BY <1>1, <1>3, <1>4, <1>6 DEF e

\* display_normalize_partial_region: a rectangle that starts on the panel, with
\* edges that 16 bits hold, is refreshed in a window that lies on the panel, is
\* made of whole bytes and holds every pixel of the rectangle.
THEOREM WindowCovers ==
  ASSUME NEW r \in Rectangle, Acceptable(r), Plain(r),
         NEW p \in Pixels
  PROVE  /\ Refreshable(r) /\ OnPanel(Window(r))
         /\ Window(r).x % 8 = 0 /\ Window(r).w % 8 = 0
         /\ p \in Filled(r) => Sent(p, Window(r))
<1> DEFINE x0 == r.x - (r.x % 8)
           y1 == Clip(r.y + r.h, PanelHeight)
<1>1. /\ r.x \in Nat /\ r.w \in Nat /\ r.y \in Nat /\ r.h \in Nat
      /\ r.x + r.w < Word /\ r.y + r.h < Word
      /\ r.x < PanelWidth /\ r.y < PanelHeight /\ r.w > 0 /\ r.h > 0
  BY PanelAssumption DEF Rectangle, Acceptable, Plain
<1>2. U16(r.x + r.w) = r.x + r.w /\ U16(r.y + r.h) = r.y + r.h
  BY <1>1, PanelAssumption DEF U16
<1>3. x0 \in Nat /\ x0 <= r.x /\ x0 % 8 = 0
  BY <1>1
<1>4. y1 \in Nat /\ y1 > r.y /\ y1 <= PanelHeight /\ (y1 = r.y + r.h \/ y1 = PanelHeight)
  BY <1>1, PanelAssumption DEF Clip
<1>5. /\ RightEdge(r) \in Nat /\ RightEdge(r) <= PanelWidth
      /\ RightEdge(r) % 8 = 0 /\ RightEdge(r) > r.x
      /\ RightEdge(r) >= Clip(r.x + r.w, PanelWidth)
  BY RightEdgeRounded
<1> HIDE DEF x0, y1
<1>6. U16(RightEdge(r) - x0) = RightEdge(r) - x0 /\ U16(y1 - r.y) = y1 - r.y
  BY <1>1, <1>3, <1>4, <1>5, PanelAssumption DEF U16
<1>7. Window(r) = [x |-> x0, y |-> r.y, w |-> RightEdge(r) - x0, h |-> y1 - r.y]
  BY <1>2, <1>6 DEF Window, x0, y1
<1>8. (RightEdge(r) - x0) % 8 = 0 /\ 8 * ((RightEdge(r) - x0) \div 8) = RightEdge(r) - x0
  <2>1. x0 \in Int /\ RightEdge(r) \in Int
    BY <1>3, <1>5
  <2>2. QED
    BY <1>3, <1>5, <2>1, BytesBetween
<1>9. Refreshable(r) /\ OnPanel(Window(r)) /\ Window(r).x % 8 = 0 /\ Window(r).w % 8 = 0
  <2>1. (RightEdge(r) - x0) \div 8 <= PanelWidth \div 8
    BY <1>3, <1>5, PanelAssumption
  <2>2. QED
    BY <1>1, <1>3, <1>4, <1>5, <1>7, <1>8, <2>1 DEF Refreshable, OnPanel
<1>10. ASSUME p \in Filled(r) PROVE Sent(p, Window(r))
  <2>1. /\ p[1] \in Nat /\ p[2] \in Nat /\ p[1] < PanelWidth /\ p[2] < PanelHeight
        /\ p[1] >= r.x /\ p[1] < r.x + r.w /\ p[2] >= r.y /\ p[2] < r.y + r.h
    BY <1>2, <1>10, PanelAssumption DEF Filled, Pixels
  <2>2. p[1] < RightEdge(r)
    BY <1>1, <1>5, <2>1, PanelAssumption DEF Clip
  <2>3. p[2] < y1
    BY <1>1, <1>4, <2>1, PanelAssumption
  <2>4. QED
    BY <1>1, <1>3, <1>4, <1>5, <1>7, <1>8, <2>1, <2>2, <2>3 DEF Sent
<1>11. QED
  BY <1>9, <1>10

-----------------------------------------------------------------------------
(* The longest line *)

\* A set of numbers with a bound has a greatest one.
LEMMA Greatest ==
  ASSUME NEW bound \in Nat, NEW S \in SUBSET (0..bound), S # {}
  PROVE  \E n \in S : \A m \in S : m <= n
<1> DEFINE T == {bound - n : n \in S}
<1>1. T \in SUBSET Nat /\ T # {}
  <2>1. \A n \in S : bound - n \in Nat
    OBVIOUS
  <2>2. QED
    BY <2>1
<1> HIDE DEF T
<1>2. PICK k \in T : \A j \in T : k <= j
  BY <1>1, Least
<1>3. PICK n \in S : k = bound - n
  BY DEF T
<1>4. \A m \in S : bound - m \in T
  BY DEF T
<1>5. \A m \in S : bound - n <= bound - m
  BY <1>2, <1>3, <1>4
<1>6. QED
  BY <1>5

\* A text as mcp_dispatch.c takes it
Texts == [x : 0..(Word - 1), y : 0..(Word - 1), size : Nat, lines : Seq(Nat)]

LineFits(t) == \A i \in DOMAIN t.lines : CharWidth(t) * t.lines[i] < Word
RowsFit(t) == \/ LineHeight(t) * Len(t.lines) < Word
              \/ \A i \in DOMAIN t.lines : t.lines[i] = 0

LEMMA ScaleFacts == \A size : Scale(size) \in 1..4
BY DEF Scale

LEMMA LongestFacts ==
  ASSUME NEW t \in Texts, LineFits(t), t.lines # <<>>
  PROVE  /\ Longest(t) \in Nat /\ CharWidth(t) * Longest(t) < Word
         /\ \A i \in DOMAIN t.lines : t.lines[i] <= Longest(t)
<1> DEFINE S == {t.lines[i] : i \in DOMAIN t.lines}
<1>1. /\ t.lines \in Seq(Nat) /\ DOMAIN t.lines = 1..Len(t.lines)
      /\ \A i \in DOMAIN t.lines : t.lines[i] \in Nat
  BY DEF Texts
<1>2. Word \in Nat /\ Scale(t.size) \in 1..4
  BY PanelAssumption, ScaleFacts
<1>3. \A i \in DOMAIN t.lines : t.lines[i] \in 0..Word
  <2>1. SUFFICES ASSUME NEW i \in DOMAIN t.lines PROVE t.lines[i] <= Word
    BY <1>1, <1>2
  <2>2. 6 * Scale(t.size) * t.lines[i] < Word
    BY DEF LineFits, CharWidth
  <2>3. QED
    BY <1>1, <1>2, <2>2
<1>4. S \in SUBSET (0..Word) /\ S # {}
  <2>1. Len(t.lines) \in Nat /\ Len(t.lines) # 0
    BY <1>1, EmptySeq, LenProperties
  <2>2. 1 \in DOMAIN t.lines
    BY <1>1, <2>1
  <2>3. QED
    BY <1>3, <2>2
<1>5. \E n \in S : \A m \in S : m <= n
  BY <1>2, <1>4, Greatest
<1>6. Longest(t) \in S /\ \A m \in S : m <= Longest(t)
  <2>1. Longest(t) = CHOOSE n \in S : \A i \in DOMAIN t.lines : t.lines[i] <= n
    BY DEF Longest
  <2>2. \E n \in S : \A i \in DOMAIN t.lines : t.lines[i] <= n
    BY <1>5
  <2>3. /\ Longest(t) \in S
        /\ \A i \in DOMAIN t.lines : t.lines[i] <= Longest(t)
    BY <2>1, <2>2
  <2>4. QED
    BY <2>3
<1>7. PICK i \in DOMAIN t.lines : Longest(t) = t.lines[i]
  BY <1>6
<1>8. QED
  BY <1>1, <1>6, <1>7 DEF LineFits

-----------------------------------------------------------------------------
(* Glyphs lie in the region that display_draw_text reports *)

LEMMA TextRegionFacts ==
  ASSUME NEW t \in Texts, LineFits(t), t.lines # <<>>
  PROVE  /\ TextRegion(t) \in Rectangle
         /\ TextRegion(t).x = t.x /\ TextRegion(t).y = t.y
         /\ Longest(t) # 0 => TextRegion(t).w = CharWidth(t) * Longest(t)
         /\ LineHeight(t) * Len(t.lines) < Word =>
              TextRegion(t).h = LineHeight(t) * Len(t.lines)
<1> DEFINE L == IF Longest(t) = 0 THEN 1 ELSE Longest(t)
<1>1. \A n \in Int : U16(n) \in 0..(Word - 1)
  BY PanelAssumption DEF U16
<1>2. \A n \in Nat : n < Word => U16(n) = n
  BY PanelAssumption DEF U16
<1>3. /\ t.x \in 0..(Word - 1) /\ t.y \in 0..(Word - 1)
      /\ Len(t.lines) \in Nat /\ Longest(t) \in Nat /\ L \in Nat
      /\ CharWidth(t) * Longest(t) < Word
      /\ CharWidth(t) \in Nat /\ LineHeight(t) \in Nat
  <2>1. t.lines \in Seq(Nat) /\ t.x \in 0..(Word - 1) /\ t.y \in 0..(Word - 1)
    BY DEF Texts
  <2>2. CharWidth(t) \in Nat /\ LineHeight(t) \in Nat
    BY ScaleFacts DEF CharWidth, LineHeight
  <2>3. QED
    BY <2>1, <2>2, LongestFacts, LenProperties
<1>4. CharWidth(t) * L \in Nat /\ LineHeight(t) * Len(t.lines) \in Nat
      /\ CharWidth(t) * Longest(t) \in Nat
  BY <1>3
<1>5. TextRegion(t) = [x |-> t.x, y |-> t.y, h |-> U16(LineHeight(t) * Len(t.lines)),
                       w |-> U16(CharWidth(t) * L)]
  BY DEF TextRegion
<1>6. Longest(t) # 0 => L = Longest(t)
  OBVIOUS
<1> HIDE DEF L
<1>7. /\ U16(CharWidth(t) * L) \in 0..(Word - 1)
      /\ U16(LineHeight(t) * Len(t.lines)) \in 0..(Word - 1)
  <2>1. CharWidth(t) * L \in Int /\ LineHeight(t) * Len(t.lines) \in Int
    BY <1>4
  <2>2. QED
    BY Zenon, <1>1, <2>1
<1>8. TextRegion(t) \in Rectangle
  BY <1>3, <1>5, <1>7 DEF Rectangle
<1>9. Longest(t) # 0 => U16(CharWidth(t) * L) = CharWidth(t) * Longest(t)
  BY <1>2, <1>3, <1>4, <1>6
<1>10. LineHeight(t) * Len(t.lines) < Word =>
         U16(LineHeight(t) * Len(t.lines)) = LineHeight(t) * Len(t.lines)
  BY <1>2, <1>4
<1>11. QED
  BY <1>5, <1>8, <1>9, <1>10

\* The cell of a character, six by eight points of the font's scale.
LEMMA CellFits ==
  ASSUME NEW s \in 1..4, NEW n \in Nat, NEW k \in 1..n,
         NEW dx \in 0..(5 * s - 1), NEW dy \in 0..(7 * s - 1)
  PROVE  /\ (k - 1) * (6 * s) + dx \in Nat /\ (k - 1) * (6 * s) + dx < (6 * s) * n
         /\ (k - 1) * (8 * s) + dy \in Nat /\ (k - 1) * (8 * s) + dy < (8 * s) * n
<1>1. CASE s = 1
  BY <1>1
<1>2. CASE s = 2
  BY <1>2
<1>3. CASE s = 3
  BY <1>3
<1>4. CASE s = 4
  BY <1>4
<1>5. QED
  BY <1>1, <1>2, <1>3, <1>4

LEMMA Within16 ==
  ASSUME NEW a \in Nat, NEW w \in Nat, NEW o \in Nat, o < w, a + w < Word
  PROVE  U16(a + o) >= a /\ U16(a + o) < U16(a + w)
BY PanelAssumption DEF U16

LEMMA GlyphsInside ==
  ASSUME NEW t \in Texts, LineFits(t), RowsFit(t), t.lines # <<>>,
         Plain(TextRegion(t)), NEW p \in Glyphs(t)
  PROVE  p \in Filled(TextRegion(t))
<1> DEFINE s == Scale(t.size)
           r == TextRegion(t)
           Chars == UNION {{i} \X (1..t.lines[i]) : i \in DOMAIN t.lines}
           Cell(c) == {<<U16(t.x + (c[2] - 1) * CharWidth(t) + a),
                         U16(t.y + (c[1] - 1) * LineHeight(t) + b)>> :
                         a \in 0..(5 * s - 1), b \in 0..(7 * s - 1)}
<1>0. p \in UNION {Cell(c) : c \in Chars} /\ p \in Pixels
  <2> DEFINE All == UNION {Cell(c) : c \in Chars}
  <2>1. p \in All \cap Pixels
    BY DEF Glyphs
  <2> HIDE DEF All
  <2>2. p \in All /\ p \in Pixels
    BY <2>1
  <2>3. QED
    BY <2>2 DEF All
<1>1. PICK line \in DOMAIN t.lines, col \in Nat \ {0},
           dx \in 0..(5 * s - 1), dy \in 0..(7 * s - 1) :
        /\ col \in 1..t.lines[line]
        /\ p = <<U16(t.x + (col - 1) * CharWidth(t) + dx),
                 U16(t.y + (line - 1) * LineHeight(t) + dy)>>
  <2>1. PICK c \in Chars : p \in Cell(c)
    BY <1>0
  <2>2. PICK i \in DOMAIN t.lines : c \in {i} \X (1..t.lines[i])
    BY <2>1
  <2>3. c[1] = i /\ c[2] \in 1..t.lines[i] /\ c[2] \in Nat \ {0}
    BY <2>2
  <2>4. PICK a \in 0..(5 * s - 1), b \in 0..(7 * s - 1) :
          p = <<U16(t.x + (c[2] - 1) * CharWidth(t) + a),
                U16(t.y + (c[1] - 1) * LineHeight(t) + b)>>
    BY <2>1
  <2>5. QED
    BY Zenon, <2>3, <2>4
<1>2. p \in Pixels
  BY <1>0
<1> HIDE DEF Chars, Cell
<1>3. /\ t.x \in Nat /\ t.y \in Nat /\ s \in 1..4
      /\ t.lines \in Seq(Nat) /\ Len(t.lines) \in Nat
      /\ DOMAIN t.lines = 1..Len(t.lines) /\ t.lines[line] \in Nat
  BY ScaleFacts, PanelAssumption, LenProperties DEF Texts
<1>4. CharWidth(t) = 6 * s /\ LineHeight(t) = 8 * s
  BY DEF CharWidth, LineHeight
<1>5. /\ Longest(t) \in Nat /\ t.lines[line] <= Longest(t) /\ Longest(t) # 0
      /\ LineHeight(t) * Len(t.lines) < Word
  <2>1. t.lines[line] # 0
    BY <1>1, <1>3
  <2>2. QED
    BY <1>3, <2>1, LongestFacts DEF RowsFit
<1>6. /\ r.x = t.x /\ r.y = t.y /\ r.w = (6 * s) * Longest(t) /\ r.h = (8 * s) * Len(t.lines)
      /\ r.x + r.w < Word /\ r.y + r.h < Word
  BY <1>4, <1>5, TextRegionFacts DEF Plain
<1> DEFINE ox == (col - 1) * (6 * s) + dx
           oy == (line - 1) * (8 * s) + dy
<1>7. ox \in Nat /\ ox < r.w
  <2>1. col \in 1..Longest(t)
    BY <1>1, <1>3, <1>5
  <2>2. QED
    BY <1>3, <1>5, <1>6, <2>1, CellFits
<1>8. oy \in Nat /\ oy < r.h
  <2>1. line \in 1..Len(t.lines)
    BY <1>3
  <2>2. QED
    BY <1>3, <1>6, <2>1, CellFits
<1>9. p = <<U16(t.x + ox), U16(t.y + oy)>>
  <2>1. t.x + (col - 1) * (6 * s) + dx = t.x + ox /\ t.y + (line - 1) * (8 * s) + dy = t.y + oy
    <3> DEFINE mx == (col - 1) * (6 * s)
               my == (line - 1) * (8 * s)
    <3>1. mx \in Int /\ my \in Int
      <4>1. \A m, n, k \in Int : (m - 1) * (k * n) \in Int
        OBVIOUS
      <4>2. col \in Int /\ line \in Int /\ s \in Int /\ 6 \in Int /\ 8 \in Int
        BY <1>3
      <4> HIDE DEF s
      <4>3. QED
        BY <4>1, <4>2
    <3>2. dx \in Int /\ dy \in Int /\ t.x \in Int /\ t.y \in Int
      BY <1>3
    <3>3. ox = mx + dx /\ oy = my + dy
      OBVIOUS
    <3> HIDE DEF mx, my, s, ox, oy
    <3>4. t.x + mx + dx = t.x + ox /\ t.y + my + dy = t.y + oy
      BY <3>1, <3>2, <3>3
    <3>5. QED
      BY <3>4 DEF mx, my
  <2>2. QED
    BY <1>1, <1>4, <2>1
<1>10. r.w \in Nat /\ r.h \in Nat
  BY TextRegionFacts, PanelAssumption DEF Rectangle
<1>11. /\ r.x = t.x /\ r.y = t.y /\ t.x + r.w < Word /\ t.y + r.h < Word
       /\ p[1] = U16(t.x + ox) /\ p[2] = U16(t.y + oy)
  BY <1>6, <1>9
<1> HIDE DEF s, r, ox, oy
<1>12. /\ p[1] >= r.x /\ p[1] < U16(r.x + r.w)
  BY <1>3, <1>7, <1>10, <1>11, Within16
<1>13. /\ p[2] >= r.y /\ p[2] < U16(r.y + r.h)
  BY <1>3, <1>8, <1>10, <1>11, Within16
<1>14. QED
  BY <1>2, <1>12, <1>13 DEF Filled, r

-----------------------------------------------------------------------------
(* The window that is refreshed *)

LEMMA WholePanelShows ==
  OnPanel(WholePanel) /\ \A p \in Pixels : Sent(p, WholePanel)
<1>1. /\ PanelWidth \in Nat /\ PanelHeight \in Nat /\ 8 * (PanelWidth \div 8) = PanelWidth
  BY PanelAssumption
<1>2. \A p \in Pixels : p[1] \in 0..(PanelWidth - 1) /\ p[2] \in 0..(PanelHeight - 1)
  BY DEF Pixels
<1>3. OnPanel(WholePanel)
  BY <1>1 DEF OnPanel, WholePanel
<1>4. \A p \in Pixels : Sent(p, WholePanel)
  BY <1>1, <1>2 DEF Sent, WholePanel
<1>5. QED
  BY <1>3, <1>4

LEMMA RefreshShows ==
  ASSUME NEW box \in Rectangle, Plain(box), NEW boxes \in SUBSET {box},
         NEW mode, NEW panel, NEW w \in Refresh(mode, boxes, panel)
  PROVE  /\ OnPanel(w)
         /\ \A p \in Filled(box) : Sent(p, w)
<1>1. CASE w = WholePanel
  <2>1. Filled(box) \subseteq Pixels
    BY DEF Filled
  <2>2. QED
    BY <1>1, <2>1, WholePanelShows
<1>2. CASE w # WholePanel
  <2>1. w \in {Window(b) : b \in {b \in boxes : Refreshable(b)}}
    BY <1>2 DEF Refresh
  <2>2. w = Window(box) /\ Refreshable(box)
    BY <2>1
  <2>3. Acceptable(box)
    BY <2>2 DEF Refreshable
  <2>4. Filled(box) \subseteq Pixels /\ <<0, 0>> \in Pixels
    BY PanelAssumption DEF Filled, Pixels
  <2>5. \A p \in Pixels : OnPanel(Window(box)) /\ (p \in Filled(box) => Sent(p, Window(box)))
    BY <2>3, WindowCovers
  <2>6. QED
    BY <2>2, <2>4, <2>5
<1>3. QED
  BY <1>1, <1>2

-----------------------------------------------------------------------------
(* What the requests ask for *)

LEMMA BoxIsRectangle ==
  ASSUME NEW r \in Requests, HasBox(r.args)
  PROVE  Box(r.args) \in Rectangle
<1>1. {r.args.x, r.args.y, r.args.w, r.args.h} \subseteq {Absent} \cup 0..(Word - 1)
  BY RequestAssumption
<1>2. QED
  BY <1>1 DEF HasBox, Box, Rectangle

LEMMA TextIsText ==
  ASSUME NEW r \in Requests
  PROVE  /\ Text(r.args) \in Texts
         /\ LineFits(Text(r.args)) /\ RowsFit(Text(r.args))
         /\ Text(r.args).lines = r.args.lines
<1> DEFINE t == Text(r.args)
<1>1. /\ {t.x, t.y} \subseteq 0..(Word - 1) /\ t.size \in Nat
      /\ r.args.lines \in Seq(Nat)
      /\ \A i \in DOMAIN t.lines : CharWidth(t) * t.lines[i] < Word
      /\ LineHeight(t) * Len(t.lines) < Word \/ \A i \in DOMAIN t.lines : t.lines[i] = 0
  BY RequestAssumption
<1>2. t = [x |-> t.x, y |-> t.y, size |-> t.size, lines |-> t.lines] /\ t.lines = r.args.lines
  BY DEF Text
<1>3. QED
  BY <1>1, <1>2 DEF Texts, LineFits, RowsFit

-----------------------------------------------------------------------------
(* What is drawn is shown *)

\* An answer of a drawing tool that DrawnIsShown has nothing against
Shown(r, w) ==
  Committed(r) /\ Plain(About(r)) =>
    OnPanel(w) /\ \A p \in Touched(r) : Sent(p, w)

LEMMA AnswerShown ==
  ASSUME NEW r, NEW answer, NEW w, Answer(r, answer, w),
         answer = "ok" /\ r.target \in Drawing => Shown(r, w)
  PROVE  DrawnIsShown'
<1>1. last'.request = r /\ last'.answer = answer /\ last'.window = w
  BY DEF Answer
<1>2. QED
  BY <1>1 DEF DrawnIsShown, Shown, Committed, About, Touched

LEMMA CommitShown ==
  ASSUME NEW r, NEW box \in Rectangle, NEW panel, Commit(r, box, panel),
         r.target # "refresh_display",
         About(r) = box, Plain(box) => Touched(r) \subseteq Filled(box)
  PROVE  DrawnIsShown'
<1> DEFINE windows == Refresh(Mode(r.args), {box}, panel)
<1>1. CASE ~r.args.commit
  <2>1. Answer(r, "ok", NoWindow) /\ ~Committed(r)
    BY <1>1 DEF Commit, Committed
  <2>2. QED
    BY <2>1, AnswerShown DEF Shown
<1>2. CASE r.args.commit /\ windows = {}
  <2>1. Answer(r, "internal", NoWindow)
    BY <1>2 DEF Commit
  <2>2. QED
    BY <2>1, AnswerShown
<1>3. CASE r.args.commit /\ windows # {}
  <2>1. PICK w \in windows : Answer(r, "ok", w)
    BY <1>3 DEF Commit
  <2>2. Plain(box) => OnPanel(w) /\ \A p \in Filled(box) : Sent(p, w)
    BY <2>1, RefreshShows
  <2>3. Shown(r, w)
    BY <2>2 DEF Shown
  <2>4. QED
    BY <2>1, <2>3, AnswerShown
<1>4. QED
  BY <1>1, <1>2, <1>3

LEMMA ClearRegionShown ==
  ASSUME NEW r \in Requests, NEW panel, ClearRegion(r, panel)
  PROVE  DrawnIsShown'
<1>1. CASE Answer(r, "invalid_args", NoWindow) \/ Answer(r, "internal", NoWindow)
  BY <1>1, AnswerShown
<1>2. CASE HasBox(r.args) /\ Commit(r, Box(r.args), panel)
  <2>1. r.target = "clear_region" /\ Box(r.args) \in Rectangle
    BY <1>2, BoxIsRectangle DEF ClearRegion
  <2>2. About(r) = Box(r.args) /\ Touched(r) = Filled(About(r))
    BY <1>2, <2>1 DEF About, Touched
  <2>3. QED
    BY <1>2, <2>1, <2>2, CommitShown
<1>3. QED
  BY <1>1, <1>2 DEF ClearRegion

LEMMA RenderTextShown ==
  ASSUME NEW r \in Requests, NEW panel, RenderText(r, panel)
  PROVE  DrawnIsShown'
<1> DEFINE t == Text(r.args)
           box == TextRegion(t)
<1>1. CASE Answer(r, "invalid_args", NoWindow) \/ Answer(r, "internal", NoWindow)
  BY <1>1, AnswerShown
<1>2. CASE r.args.lines # NoLines /\ Commit(r, box, panel)
  <2>1. /\ r.target = "render_text"
        /\ t \in Texts /\ LineFits(t) /\ RowsFit(t) /\ t.lines # <<>>
    BY <1>2, TextIsText DEF RenderText, NoLines
  <2>2. box \in Rectangle
    BY <2>1, TextRegionFacts
  <2>3. About(r) = box
    BY <2>1 DEF About
  <2>4. Plain(box) => Glyphs(t) \subseteq Filled(box)
    BY <2>1, GlyphsInside
  <2>5. Plain(box) => Touched(r) \subseteq Filled(box)
    BY <2>1, <2>3, <2>4 DEF Touched
  <2>6. QED
    BY <1>2, <2>1, <2>2, <2>3, <2>5, CommitShown
<1>3. QED
  BY <1>1, <1>2 DEF RenderText

LEMMA RefreshDisplayShown ==
  ASSUME NEW r \in Requests, NEW panel, RefreshDisplay(r, panel)
  PROVE  DrawnIsShown'
<1> DEFINE boxes == IF Mode(r.args) = "partial" /\ HasBox(r.args) THEN {Box(r.args)} ELSE {}
           windows == Refresh(Mode(r.args), boxes, panel)
<1>1. r.target = "refresh_display"
  BY DEF RefreshDisplay
<1>2. CASE windows = {}
  <2>1. Answer(r, "internal", NoWindow)
    BY <1>2 DEF RefreshDisplay
  <2>2. QED
    BY <2>1, AnswerShown
<1>3. CASE windows # {}
  <2>1. PICK w \in windows : Answer(r, "ok", w)
    BY <1>3 DEF RefreshDisplay
  <2>2. Touched(r) = Filled(About(r))
    BY <1>1 DEF Touched
  <2>3. CASE HasBox(r.args)
    <3>1. About(r) = Box(r.args) /\ Box(r.args) \in Rectangle /\ boxes \in SUBSET {Box(r.args)}
      BY <1>1, <2>3, BoxIsRectangle DEF About
    <3>2. Plain(About(r)) => OnPanel(w) /\ \A p \in Filled(About(r)) : Sent(p, w)
      BY <2>1, <3>1, RefreshShows
    <3>3. QED
      BY <2>1, <2>2, <3>2, AnswerShown DEF Shown
  <2>4. CASE ~HasBox(r.args)
    <3>1. w = WholePanel
      BY <2>1, <2>4 DEF Refresh
    <3>2. Touched(r) \subseteq Pixels
      BY <2>2 DEF Filled
    <3>3. QED
      BY <2>1, <3>1, <3>2, WholePanelShows, AnswerShown DEF Shown
  <2>5. QED
    BY <2>3, <2>4
<1>4. QED
  BY <1>2, <1>3

\* A request that draws nothing, or is not let in, is not answered as drawn.
LEMMA OthersShown ==
  ASSUME NEW r \in Requests, NEW ok,
         Refuse(r) \/ Look(r) \/ DisconnectWifi(r) \/ ResetNetwork(r, ok)
  PROVE  DrawnIsShown'
<1>1. CASE Refuse(r)
  BY <1>1, AnswerShown DEF Refuse
<1>2. CASE Look(r)
  <2>1. r.target \notin Drawing
    BY <1>2 DEF Look, Drawing, Reading, Stubs
  <2>2. \E answer : Answer(r, answer, NoWindow)
    BY <1>2 DEF Look
  <2>3. QED
    BY <2>1, <2>2, AnswerShown
<1>3. CASE DisconnectWifi(r)
  <2>1. r.target \notin Drawing
    BY <1>3 DEF DisconnectWifi, Drawing
  <2>2. \E answer : Answer(r, answer, NoWindow)
    BY <1>3 DEF DisconnectWifi
  <2>3. QED
    BY <2>1, <2>2, AnswerShown
<1>4. CASE ResetNetwork(r, ok)
  <2>1. r.target \notin Drawing
    BY <1>4 DEF ResetNetwork, Drawing
  <2>2. \E answer : Answer(r, answer, NoWindow)
    BY <1>4 DEF ResetNetwork
  <2>3. QED
    BY <2>1, <2>2, AnswerShown
<1>5. QED
  BY <1>1, <1>2, <1>3, <1>4

LEMMA NothingAsked ==
  ASSUME last' = NoRequest
  PROVE  DrawnIsShown'
BY DEF DrawnIsShown, NoRequest

LEMMA DrawnStep ==
  ASSUME DrawnIsShown, [Next]_vars
  PROVE  DrawnIsShown'
<1>1. CASE UNCHANGED last
  BY <1>1 DEF DrawnIsShown
<1>2. CASE \E f \in Forms : Submit(f)
  BY <1>1, <1>2 DEF Submit
<1>3. CASE Join \/ JoinFails
  BY <1>1, <1>3 DEF Join, JoinFails, ClearWifi
<1>4. ASSUME NEW r \in Requests, Serve(r) PROVE DrawnIsShown'
  BY <1>4, ClearRegionShown, RenderTextShown, RefreshDisplayShown, OthersShown DEF Serve, Draw
<1>5. ASSUME NEW r \in Requests, ServeDisconnect(r) PROVE DrawnIsShown'
  BY <1>5, OthersShown DEF ServeDisconnect
<1>6. ASSUME NEW r \in Requests, ServeReset(r) PROVE DrawnIsShown'
  BY <1>6, OthersShown DEF ServeReset
<1>7. CASE Reply \/ Restart \/ RestartWithButton
  BY <1>7, NothingAsked DEF Reply, Restart, RestartWithButton
<1>8. CASE UNCHANGED vars
  BY <1>1, <1>8 DEF vars
<1>9. QED
  BY <1>2, <1>3, <1>4, <1>5, <1>6, <1>7, <1>8 DEF Next

\* A drawing that was answered as refreshed is on the panel, for every panel,
\* every request whose edges are 16-bit numbers, every length of text, and
\* whatever the panel does: render_service.c over display_epaper.c.
THEOREM DrawnCorrect == Spec => []DrawnIsShown
<1>1. Init => DrawnIsShown
  BY DEF Init, DrawnIsShown, NoRequest
<1>2. DrawnIsShown /\ [Next]_vars => DrawnIsShown'
  BY DrawnStep
<1>3. QED
  BY <1>1, <1>2, PTL DEF Spec

-----------------------------------------------------------------------------
(* Configurations *)

\* in their fields, and with a name; the factory name is none that is typed
Configs ==
  {c \in [ssid : Seq(Bytes), password : Seq(Bytes), name : Seq(Bytes \cup {"d"}), token : Seq(Bytes)] :
     /\ Fits(c.ssid, "ssid") /\ Fits(c.password, "password")
     /\ Fits(c.name, "name") /\ Fits(c.token, "token")
     /\ c.name # NoText}

\* The fields that a text is copied to have room.
LEMMA Widths ==
  /\ Width["ssid"] \in Nat \ {0} /\ Width["password"] \in Nat \ {0}
  /\ Width["name"] \in Nat \ {0} /\ Width["token"] \in Nat \ {0}
  /\ Width["driver_ssid"] \in Nat \ {0} /\ Width["driver_password"] \in Nat \ {0}
  /\ Width["header"] \in Nat \ {0} /\ Width["query_value"] \in Nat \ {0}
BY WidthAssumption

LEMMA NoTextFits ==
  NoText \in Seq(Bytes) /\ Len(NoText) = 0
BY EmptySeq DEF NoText

\* The default configuration fits.
LEMMA FactoryConfig == Factory \in Configs
<1>1. <<"d">> \in Seq(Bytes \cup {"d"}) /\ Len(<<"d">>) = 1 /\ <<"d">> # NoText
  BY DEF NoText
<1>2. /\ Factory.ssid = NoText /\ Factory.password = NoText /\ Factory.token = NoText
      /\ Factory.name = <<"d">>
      /\ Factory \in [ssid : Seq(Bytes), password : Seq(Bytes), name : Seq(Bytes \cup {"d"}),
                      token : Seq(Bytes)]
  BY <1>1, NoTextFits DEF Factory
<1>3. Fits(NoText, "ssid") /\ Fits(NoText, "password") /\ Fits(NoText, "token") /\ Fits(<<"d">>, "name")
  BY <1>1, NoTextFits, Widths DEF Fits
<1> HIDE DEF Factory
<1>4. QED
  BY <1>1, <1>2, <1>3 DEF Configs

\* What there is to know of a configuration
LEMMA ConfigOf ==
  ASSUME NEW c \in Configs
  PROVE  /\ c = [ssid |-> c.ssid, password |-> c.password, name |-> c.name, token |-> c.token]
         /\ c.ssid \in Seq(Bytes) /\ c.password \in Seq(Bytes) /\ c.token \in Seq(Bytes)
         /\ c.name \in Seq(Bytes \cup {"d"}) /\ c.name # NoText
         /\ Fits(c.ssid, "ssid") /\ Fits(c.password, "password")
         /\ Fits(c.name, "name") /\ Fits(c.token, "token")
BY DEF Configs

\* A setter cuts what it is given to its field.
LEMMA CutFits ==
  ASSUME NEW t \in Seq(Bytes), NEW field, Width[field] \in Nat \ {0}
  PROVE  /\ Cut(t, Width[field]) \in Seq(Bytes) /\ Fits(Cut(t, Width[field]), field)
         /\ t # NoText => Cut(t, Width[field]) # NoText
BY CutFacts DEF Fits, NoText

\* Each setter changes its own fields and leaves a configuration.
LEMMA WithWifiConfig ==
  ASSUME NEW c \in Configs, NEW s \in Seq(Bytes), NEW p \in Seq(Bytes)
  PROVE  LET d == WithWifi(c, s, p) IN
           /\ d \in Configs /\ d.name = c.name /\ d.token = c.token
           /\ d.ssid = Cut(s, Width["ssid"]) /\ d.password = Cut(p, Width["password"])
<1> DEFINE d == WithWifi(c, s, p)
           cs == Cut(s, Width["ssid"])
           cp == Cut(p, Width["password"])
<1>1. cs \in Seq(Bytes) /\ cp \in Seq(Bytes) /\ Fits(cs, "ssid") /\ Fits(cp, "password")
  BY CutFits, Widths
<1>2. d = [c EXCEPT !.ssid = cs, !.password = cp]
  BY DEF WithWifi
<1> HIDE DEF d, cs, cp
<1>3. /\ d.ssid = cs /\ d.password = cp /\ d.name = c.name /\ d.token = c.token
      /\ d \in [ssid : Seq(Bytes), password : Seq(Bytes), name : Seq(Bytes \cup {"d"}),
                token : Seq(Bytes)]
  BY <1>1, <1>2 DEF Configs
<1>4. QED
  BY <1>1, <1>3, ConfigOf DEF Configs, d, cs, cp

LEMMA WithoutWifiConfig ==
  ASSUME NEW c \in Configs
  PROVE  LET d == WithoutWifi(c) IN
           /\ d \in Configs /\ d.name = c.name /\ d.token = c.token /\ d.ssid = NoText
<1> DEFINE d == WithoutWifi(c)
<1>1. d = [c EXCEPT !.ssid = NoText, !.password = NoText]
  BY DEF WithoutWifi
<1> HIDE DEF d
<1>2. /\ d.ssid = NoText /\ d.password = NoText /\ d.name = c.name /\ d.token = c.token
      /\ d \in [ssid : Seq(Bytes), password : Seq(Bytes), name : Seq(Bytes \cup {"d"}),
                token : Seq(Bytes)]
  BY <1>1, NoTextFits DEF Configs
<1>3. Fits(NoText, "ssid") /\ Fits(NoText, "password")
  BY NoTextFits, Widths DEF Fits
<1>4. QED
  BY <1>2, <1>3, ConfigOf DEF Configs, d

LEMMA WithNameConfig ==
  ASSUME NEW c \in Configs, NEW n \in Seq(Bytes), n # NoText
  PROVE  LET d == WithName(c, n) IN
           /\ d \in Configs /\ d.token = c.token /\ d.ssid = c.ssid /\ d.password = c.password
           /\ d.name = Cut(n, Width["name"])
<1> DEFINE d == WithName(c, n)
           cn == Cut(n, Width["name"])
<1>1. cn \in Seq(Bytes) /\ Fits(cn, "name") /\ cn # NoText
  BY CutFits, Widths
<1>2. cn \in Seq(Bytes \cup {"d"})
  BY <1>1, SeqMonotonic
<1>3. d = [c EXCEPT !.name = cn]
  BY DEF WithName
<1> HIDE DEF d, cn
<1>4. /\ d.ssid = c.ssid /\ d.password = c.password /\ d.name = cn /\ d.token = c.token
      /\ d \in [ssid : Seq(Bytes), password : Seq(Bytes), name : Seq(Bytes \cup {"d"}),
                token : Seq(Bytes)]
  BY <1>2, <1>3 DEF Configs
<1>5. QED
  BY <1>1, <1>4, ConfigOf DEF Configs, d, cn

LEMMA WithTokenConfig ==
  ASSUME NEW c \in Configs, NEW t \in Seq(Bytes)
  PROVE  LET d == WithToken(c, t) IN
           /\ d \in Configs /\ d.ssid = c.ssid /\ d.password = c.password /\ d.name = c.name
           /\ d.token = Cut(t, Width["token"])
<1> DEFINE d == WithToken(c, t)
           ct == Cut(t, Width["token"])
<1>1. ct \in Seq(Bytes) /\ Fits(ct, "token")
  BY CutFits, Widths
<1>2. d = [c EXCEPT !.token = ct]
  BY DEF WithToken
<1> HIDE DEF d, ct
<1>3. /\ d.ssid = c.ssid /\ d.password = c.password /\ d.name = c.name /\ d.token = ct
      /\ d \in [ssid : Seq(Bytes), password : Seq(Bytes), name : Seq(Bytes \cup {"d"}),
                token : Seq(Bytes)]
  BY <1>1, <1>2 DEF Configs
<1>4. QED
  BY <1>1, <1>3, ConfigOf DEF Configs, d, ct

-----------------------------------------------------------------------------
(* The invariant *)

\* a configuration holds what an accepted form typed, or no network
Holds(fm, c) ==
  fm.answer = "accepted" =>
    /\ fm.typed \in Forms
    /\ c.ssid # NoText =>
         /\ c.ssid = Cut(fm.typed.ssid, Width["ssid"])
         /\ c.password = Cut(fm.typed.password, Width["password"])
    /\ fm.whole /\ fm.saved => c.name = Cut(fm.typed.name, Width["name"])

ConfigInv ==
  /\ cfg \in Configs /\ stored \in Configs
  /\ phase \in {"portal", "submitted", "mcp", "offline"}
  /\ phase \in {"submitted", "mcp"} => cfg.ssid # NoText
  /\ agreed \in [token : Seq(Bytes), known : BOOLEAN, written : BOOLEAN]

FormInv == Holds(form, cfg) /\ Holds(form, stored)

TokenInv ==
  /\ agreed.known => cfg.token = agreed.token
  /\ agreed.known /\ agreed.written => stored.token = agreed.token

AnswerInv ==
  last.answer # "none" =>
    /\ last.request \in Requests
    /\ last.request.target \in Registered =>
         (last.answer \in Served <=> TokenMatches(TokenOf(last.request)))

Inv == ConfigInv /\ FormInv /\ TokenInv /\ AnswerInv

\* It holds when the device is new.
LEMMA InitInv == Init => Inv
<1> SUFFICES ASSUME Init PROVE Inv
  OBVIOUS
<1>1. ConfigInv
  BY FactoryConfig, NoTextFits DEF Init, ConfigInv
<1>2. FormInv
  BY DEF Init, FormInv, Holds, NoForm
<1>3. TokenInv
  BY DEF Init, TokenInv, Factory
<1>4. AnswerInv
  BY DEF Init, AnswerInv, NoRequest
<1>5. QED
  BY <1>1, <1>2, <1>3, <1>4 DEF Inv

-----------------------------------------------------------------------------
(* Every step keeps it *)

\* A step after which no answer is out
LEMMA NoAnswer ==
  ASSUME last'.answer = "none"
  PROVE  AnswerInv'
BY DEF AnswerInv

\* One that leaves the answer and the token alone
LEMMA AnswerStays ==
  ASSUME AnswerInv, UNCHANGED last, cfg'.token = cfg.token
  PROVE  AnswerInv'
<1>1. ASSUME NEW t PROVE TokenMatches(t)' <=> TokenMatches(t)
  BY DEF TokenMatches
<1>2. \A r : TokenMatches(TokenOf(r))' <=> TokenMatches(TokenOf(r))
  BY <1>1 DEF TokenMatches
<1>3. QED
  BY <1>2 DEF AnswerInv

\* and one that answers r
LEMMA AnswerGiven ==
  ASSUME NEW r \in Requests, NEW answer, NEW w, Answer(r, answer, w), cfg'.token = cfg.token,
         r.target \in Registered => (answer \in Served <=> TokenMatches(TokenOf(r)))
  PROVE  AnswerInv'
<1>1. last'.request = r /\ last'.answer = answer
  BY DEF Answer
<1>2. TokenMatches(TokenOf(r))' <=> TokenMatches(TokenOf(r))
  BY DEF TokenMatches
<1>3. QED
  BY <1>1, <1>2 DEF AnswerInv

\* A rejected form promises nothing.
LEMMA RejectStep ==
  ASSUME Inv, form' = Rejected
  PROVE  FormInv'
BY DEF FormInv, Holds, Rejected, NoForm

\* Credentials that were not written promise nothing either.
LEMMA NotWrittenStep ==
  ASSUME Inv, NEW f \in Forms, NEW got \in Receptions[f], phase = "portal", last.answer = "none",
         NotWritten(got.fields), agreed' = [agreed EXCEPT !.written = FALSE], UNCHANGED <<phase, last>>
  PROVE  Inv'
<1> DEFINE s == got.fields
<1>1. s.ssid \in Seq(Bytes) /\ s.password \in Seq(Bytes)
  BY ReceptionFacts DEF Tells
<1> HIDE DEF s
<1>2. cfg' = WithWifi(cfg, s.ssid, s.password) /\ stored' \in {stored, cfg'} /\ form' = Rejected
  BY DEF NotWritten, s
<1>3. cfg \in Configs /\ stored \in Configs
  BY DEF Inv, ConfigInv
<1>4. cfg' \in Configs /\ cfg'.token = cfg.token
  BY <1>1, <1>2, <1>3, WithWifiConfig
<1>5. agreed' \in [token : Seq(Bytes), known : BOOLEAN, written : BOOLEAN]
      /\ agreed'.known = agreed.known /\ agreed'.token = agreed.token /\ agreed'.written = FALSE
  BY DEF Inv, ConfigInv
<1>6. ConfigInv'
  BY <1>2, <1>3, <1>4, <1>5 DEF ConfigInv
<1>7. TokenInv'
  BY <1>4, <1>5 DEF Inv, TokenInv
<1>8. QED
  BY <1>2, <1>6, <1>7, RejectStep, NoAnswer DEF Inv

\* The form that is accepted was received as far as its name, so that the
\* credentials are as typed.
LEMMA AcceptStep ==
  ASSUME Inv, NEW f \in Forms, NEW got \in Receptions[f], NEW saved \in BOOLEAN,
         last.answer = "none", Accept(f, got, saved), phase' = "submitted",
         agreed' = [token   |-> IF f.token = NoText THEN agreed.token ELSE Cut(f.token, Width["token"]),
                    known   |-> IF f.token = NoText THEN agreed.known ELSE got.whole,
                    written |-> saved],
         UNCHANGED last
  PROVE  Inv'
<1> DEFINE s == got.fields
           joined == WithWifi(cfg, s.ssid, s.password)
           named == WithName(joined, s.name)
           tokened == WithToken(named, s.token)
<1>1. /\ Tells(s, f) /\ got.whole \in BOOLEAN /\ (got.whole => TellsAll(s, f))
      /\ s.ssid # NoText /\ s.name # NoText
  BY ReceptionFacts DEF Accept, Incomplete
<1>2. /\ cfg' = IF s.token = NoText THEN named ELSE tokened
      /\ stored' \in IF saved THEN {cfg'} ELSE {joined, named, cfg'}
      /\ form' = [typed |-> f, whole |-> got.whole, answer |-> "accepted", saved |-> saved]
  BY DEF Accept
<1> HIDE DEF s
<1>3. /\ s.ssid \in Seq(Bytes) /\ s.password \in Seq(Bytes)
      /\ s.name \in Seq(Bytes) /\ s.token \in Seq(Bytes)
      /\ s.ssid = Cut(f.ssid, Width["ssid"]) /\ s.password = Cut(f.password, Width["password"])
      /\ (f.token = NoText => s.token = NoText)
      /\ (got.whole => s.name = Cut(f.name, Width["name"]) /\ s.token = Cut(f.token, Width["token"]))
  BY <1>1 DEF Tells, TellsAll
<1>4. cfg \in Configs
  BY DEF Inv, ConfigInv
<1>5. /\ joined \in Configs /\ joined.token = cfg.token /\ joined.name = cfg.name
      /\ joined.ssid = Cut(s.ssid, Width["ssid"]) /\ joined.password = Cut(s.password, Width["password"])
  BY <1>3, <1>4, WithWifiConfig
<1> HIDE DEF joined
<1>6. /\ named \in Configs /\ named.token = cfg.token /\ named.name = Cut(s.name, Width["name"])
      /\ named.ssid = joined.ssid /\ named.password = joined.password
  BY <1>1, <1>3, <1>5, WithNameConfig
<1> HIDE DEF named
<1>7. /\ tokened \in Configs /\ tokened.token = Cut(s.token, Width["token"])
      /\ tokened.name = named.name /\ tokened.ssid = joined.ssid /\ tokened.password = joined.password
  BY <1>3, <1>6, WithTokenConfig
<1> HIDE DEF tokened
<1>8. /\ f.ssid \in Seq(Bytes) /\ f.password \in Seq(Bytes)
      /\ f.name \in Seq(Bytes) /\ f.token \in Seq(Bytes)
  BY FormsAssumption
<1>9. /\ joined.ssid = Cut(f.ssid, Width["ssid"]) /\ joined.ssid # NoText
      /\ joined.password = Cut(f.password, Width["password"])
      /\ (got.whole => named.name = Cut(f.name, Width["name"]))
      /\ (got.whole => tokened.token = Cut(f.token, Width["token"]))
  <2>1. /\ Cut(Cut(f.ssid, Width["ssid"]), Width["ssid"]) = Cut(f.ssid, Width["ssid"])
        /\ Cut(Cut(f.password, Width["password"]), Width["password"]) = Cut(f.password, Width["password"])
        /\ Cut(Cut(f.name, Width["name"]), Width["name"]) = Cut(f.name, Width["name"])
        /\ Cut(Cut(f.token, Width["token"]), Width["token"]) = Cut(f.token, Width["token"])
    BY <1>8, Widths, CutTwice
  <2>2. Cut(s.ssid, Width["ssid"]) # NoText
    BY <1>1, <1>3, CutFits, Widths
  <2>3. QED
    BY <1>3, <1>5, <1>6, <1>7, <2>1, <2>2
<1>10. cfg' \in {named, tokened} /\ stored' \in {joined, named, tokened} /\ (saved => stored' = cfg')
  BY <1>2
<1>11. /\ agreed'.token = IF f.token = NoText THEN agreed.token ELSE Cut(f.token, Width["token"])
       /\ (agreed'.known => IF f.token = NoText THEN agreed.known ELSE got.whole)
       /\ (agreed'.written => saved)
       /\ agreed' \in [token : Seq(Bytes), known : BOOLEAN, written : BOOLEAN]
  <2>1. agreed \in [token : Seq(Bytes), known : BOOLEAN, written : BOOLEAN]
    BY DEF Inv, ConfigInv
  <2>2. Cut(f.token, Width["token"]) \in Seq(Bytes)
    BY <1>8, Widths, CutFits
  <2>3. QED
    BY <1>1, <2>1, <2>2
<1>12. ConfigInv'
  BY <1>5, <1>6, <1>7, <1>9, <1>10, <1>11 DEF ConfigInv
<1>13. FormInv'
  <2>1. /\ form'.typed = f /\ (form'.whole => got.whole) /\ (form'.saved => saved)
    BY <1>2
  <2>2. \A c \in {joined, named, tokened} :
          c.ssid = Cut(f.ssid, Width["ssid"]) /\ c.password = Cut(f.password, Width["password"])
    BY <1>6, <1>7, <1>9
  <2>3. got.whole => cfg'.name = Cut(f.name, Width["name"])
    BY <1>7, <1>9, <1>10
  <2>4. Holds(form', cfg')
    BY <1>10, <2>1, <2>2, <2>3 DEF Holds
  <2>5. Holds(form', stored')
    BY <1>10, <2>1, <2>2, <2>3 DEF Holds
  <2>6. QED
    BY <2>4, <2>5 DEF FormInv
<1>14. TokenInv'
  <2>1. CASE f.token = NoText
    <3>1. cfg'.token = cfg.token
      BY <1>2, <1>3, <1>6, <2>1
    <3>2. QED
      BY <1>10, <1>11, <2>1, <3>1 DEF Inv, TokenInv
  <2>2. CASE f.token # NoText
    <3>1. ASSUME got.whole PROVE cfg'.token = Cut(f.token, Width["token"])
      <4>1. s.token = Cut(f.token, Width["token"]) /\ s.token # NoText
        BY <1>3, <1>8, <2>2, <3>1, CutFits, Widths
      <4>2. QED
        BY <1>2, <1>9, <3>1, <4>1
    <3>2. QED
      BY <1>10, <1>11, <2>2, <3>1 DEF TokenInv
  <2>3. QED
    BY <2>1, <2>2
<1>15. QED
  BY <1>12, <1>13, <1>14, NoAnswer DEF Inv

\* The network is forgotten, in RAM and in the blob or not there.
LEMMA ForgottenStep ==
  ASSUME NEW c \in Configs, NEW old \in Configs, Holds(form, c), Holds(form, old),
         cfg' = WithoutWifi(c), stored' \in {old, cfg'}, UNCHANGED form
  PROVE  /\ cfg' \in Configs /\ stored' \in Configs /\ FormInv'
         /\ cfg'.token = c.token /\ stored'.token \in {old.token, c.token}
<1>1. /\ cfg' \in Configs /\ cfg'.ssid = NoText /\ cfg'.name = c.name /\ cfg'.token = c.token
  BY WithoutWifiConfig
<1>2. Holds(form, cfg')
  BY <1>1 DEF Holds
<1>3. FormInv'
  BY <1>2 DEF FormInv
<1>4. QED
  BY <1>1, <1>3

\* As the MCP server and a connect that fails do it
LEMMA ClearStep ==
  ASSUME Inv, NEW ok \in BOOLEAN, ClearWifi(ok), Written(ok), phase' = "portal", UNCHANGED form
  PROVE  ConfigInv' /\ FormInv' /\ TokenInv' /\ cfg'.token = cfg.token
<1>1. /\ cfg' = WithoutWifi(cfg) /\ stored' \in {stored, cfg'} /\ (ok => stored' = cfg')
  BY DEF ClearWifi
<1>2. cfg \in Configs /\ stored \in Configs /\ Holds(form, cfg) /\ Holds(form, stored)
  BY DEF Inv, ConfigInv, FormInv
<1>3. /\ cfg' \in Configs /\ stored' \in Configs /\ FormInv' /\ cfg'.token = cfg.token
  BY <1>1, <1>2, ForgottenStep
<1>4. /\ agreed' \in [token : Seq(Bytes), known : BOOLEAN, written : BOOLEAN]
      /\ agreed'.token = agreed.token /\ agreed'.known = agreed.known /\ agreed'.written = ok
  BY DEF Written, Inv, ConfigInv
<1>5. ConfigInv'
  BY <1>3, <1>4 DEF ConfigInv
<1>6. TokenInv'
  BY <1>1, <1>3, <1>4 DEF Inv, TokenInv
<1>7. QED
  BY <1>3, <1>5, <1>6

\* The portal
LEMMA SubmitStep ==
  ASSUME Inv, NEW f \in Forms, Submit(f)
  PROVE  Inv'
<1>1. CASE Reject(f) /\ UNCHANGED <<phase, agreed>>
  <2>1. UNCHANGED <<cfg, stored, phase, agreed, last>> /\ form' = Rejected
    BY <1>1 DEF Submit, Reject
  <2>2. ConfigInv' /\ TokenInv'
    BY <2>1 DEF Inv, ConfigInv, TokenInv
  <2>3. AnswerInv'
    BY <2>1, AnswerStays DEF Inv
  <2>4. QED
    BY <2>1, <2>2, <2>3, RejectStep DEF Inv
<1>2. ASSUME NEW got \in Receptions[f], NotWritten(got.fields),
             agreed' = [agreed EXCEPT !.written = FALSE], UNCHANGED phase
      PROVE  Inv'
  BY <1>2, NotWrittenStep DEF Submit
<1>3. ASSUME NEW got \in Receptions[f], NEW saved \in BOOLEAN, Accept(f, got, saved),
             phase' = "submitted",
             agreed' = [token   |-> IF f.token = NoText THEN agreed.token
                                    ELSE Cut(f.token, Width["token"]),
                        known   |-> IF f.token = NoText THEN agreed.known ELSE got.whole,
                        written |-> saved]
      PROVE  Inv'
  <2>1. last.answer = "none" /\ UNCHANGED last
    BY DEF Submit
  <2>2. QED
    BY <1>3, <2>1, AcceptStep
<1>4. QED
  BY <1>1, <1>2, <1>3 DEF Submit

\* A drawing tool answers something that only who is let in is told.
LEMMA DrawAnswers ==
  ASSUME NEW r, Draw(r)
  PROVE  \E answer \in {"ok", "internal", "invalid_args"} : \E w : Answer(r, answer, w)
<1>1. PICK panel \in {"ready", "spent", "busy", "fails"} :
        ClearRegion(r, panel) \/ RenderText(r, panel) \/ RefreshDisplay(r, panel)
  BY DEF Draw
<1>2. ASSUME NEW box, Commit(r, box, panel)
      PROVE  \E answer \in {"ok", "internal", "invalid_args"} : \E w : Answer(r, answer, w)
  BY <1>2 DEF Commit
<1>3. CASE ClearRegion(r, panel)
  BY <1>2, <1>3 DEF ClearRegion
<1>4. CASE RenderText(r, panel)
  BY <1>2, <1>4 DEF RenderText
<1>5. CASE RefreshDisplay(r, panel)
  BY <1>5 DEF RefreshDisplay
<1>6. QED
  BY <1>1, <1>3, <1>4, <1>5

\* Who presents the token is served, and no one else.
LEMMA RequestAnswered ==
  ASSUME NEW r \in Requests, NEW ok, cfg'.token = cfg.token,
         Refuse(r) \/ Draw(r) \/ Look(r) \/ DisconnectWifi(r) \/ ResetNetwork(r, ok)
  PROVE  AnswerInv'
<1>1. ASSUME NEW answer \in Served, NEW w, Answer(r, answer, w), Admitted(r) PROVE AnswerInv'
  BY <1>1, AnswerGiven DEF Admitted
<1>2. {"ok", "internal", "invalid_args", "unsupported"} = Served
  BY DEF Served
<1>3. CASE Refuse(r)
  <2>1. PICK answer \in {"bad_request", "not_found", "unauthorized"} :
          /\ Answer(r, answer, NoWindow)
          /\ r.target \in Registered => ~TokenMatches(TokenOf(r))
    <3>1. "" \notin Registered
      BY DEF Registered, Drawing, Reading, Stubs
    <3>2. QED
      BY <1>3, <3>1 DEF Refuse
  <2>2. answer \notin Served
    BY DEF Served
  <2>3. QED
    BY <2>1, <2>2, AnswerGiven
<1>4. CASE Draw(r)
  <2>1. Admitted(r)
    BY <1>4 DEF Draw
  <2>2. \E answer \in Served : \E w : Answer(r, answer, w)
    BY <1>2, <1>4, DrawAnswers
  <2>3. QED
    BY <1>1, <2>1, <2>2
<1>5. CASE Look(r)
  BY <1>1, <1>2, <1>5 DEF Look
<1>6. CASE DisconnectWifi(r)
  BY <1>1, <1>2, <1>6 DEF DisconnectWifi
<1>7. CASE ResetNetwork(r, ok)
  BY <1>1, <1>2, <1>7 DEF ResetNetwork
<1>8. QED
  BY <1>3, <1>4, <1>5, <1>6, <1>7

\* The MCP server
LEMMA ServeStep ==
  ASSUME Inv, NEW r \in Requests, Serve(r) \/ ServeDisconnect(r)
  PROVE  Inv'
<1>1. UNCHANGED <<cfg, stored, form, agreed>> /\ phase' \in {phase, "offline"}
  BY DEF Serve, ServeDisconnect, Refuse, Draw, Look, DisconnectWifi
<1>2. Refuse(r) \/ Draw(r) \/ Look(r) \/ DisconnectWifi(r)
  BY DEF Serve, ServeDisconnect
<1>3. AnswerInv'
  BY <1>1, <1>2, RequestAnswered
<1>4. ConfigInv' /\ FormInv' /\ TokenInv'
  BY <1>1 DEF Inv, ConfigInv, FormInv, TokenInv
<1>5. QED
  BY <1>3, <1>4 DEF Inv

LEMMA ServeResetStep ==
  ASSUME Inv, NEW r \in Requests, ServeReset(r)
  PROVE  Inv'
<1>1. PICK ok \in BOOLEAN : ResetNetwork(r, ok) /\ Written(ok)
  BY DEF ServeReset
<1>2. ClearWifi(ok) /\ phase' = "portal" /\ UNCHANGED form
  BY <1>1 DEF ServeReset, ResetNetwork
<1>3. ConfigInv' /\ FormInv' /\ TokenInv' /\ cfg'.token = cfg.token
  BY <1>1, <1>2, ClearStep
<1>4. AnswerInv'
  BY <1>1, <1>3, RequestAnswered
<1>5. QED
  BY <1>3, <1>4 DEF Inv

LEMMA JoinFailsStep ==
  ASSUME Inv, JoinFails
  PROVE  Inv'
<1>1. PICK ok \in BOOLEAN : ClearWifi(ok) /\ Written(ok)
  BY DEF JoinFails
<1>2. phase' = "portal" /\ UNCHANGED <<form, last>>
  BY DEF JoinFails
<1>3. ConfigInv' /\ FormInv' /\ TokenInv' /\ cfg'.token = cfg.token
  BY <1>1, <1>2, ClearStep
<1>4. AnswerInv'
  BY <1>2, <1>3, AnswerStays DEF Inv
<1>5. QED
  BY <1>3, <1>4 DEF Inv

\* After a loss of power what is known of the token is what was written.
LEMMA RestartedFacts ==
  ASSUME Inv
  PROVE  /\ Restarted \in [token : Seq(Bytes), known : BOOLEAN, written : BOOLEAN]
         /\ Restarted.token = agreed.token /\ Restarted.written
         /\ Restarted.known => stored.token = agreed.token
<1>1. agreed \in [token : Seq(Bytes), known : BOOLEAN, written : BOOLEAN]
  BY DEF Inv, ConfigInv
<1>2. /\ Restarted \in [token : Seq(Bytes), known : BOOLEAN, written : BOOLEAN]
      /\ Restarted.token = agreed.token /\ Restarted.written
      /\ Restarted.known = (agreed.known /\ agreed.written)
  BY <1>1 DEF Restarted
<1>3. QED
  BY <1>2 DEF Inv, TokenInv

LEMMA RestartStep ==
  ASSUME Inv, Restart
  PROVE  Inv'
<1>1. /\ cfg' = stored /\ stored' = stored /\ form' = form /\ last' = NoRequest
      /\ agreed' = Restarted /\ phase' = IF stored.ssid = NoText THEN "portal" ELSE "submitted"
  BY DEF Restart
<1>2. ConfigInv'
  BY <1>1, RestartedFacts DEF Inv, ConfigInv
<1>3. FormInv'
  BY <1>1 DEF Inv, FormInv
<1>4. TokenInv'
  BY <1>1, RestartedFacts DEF TokenInv
<1>5. AnswerInv'
  BY <1>1, NoAnswer DEF NoRequest
<1>6. QED
  BY <1>2, <1>3, <1>4, <1>5 DEF Inv

LEMMA ButtonStep ==
  ASSUME Inv, RestartWithButton
  PROVE  Inv'
<1>1. PICK ok \in BOOLEAN :
        /\ stored' \in IF ok THEN {cfg'} ELSE {stored, cfg'}
        /\ agreed' = [Restarted EXCEPT !.written = ok]
  BY DEF RestartWithButton
<1>2. /\ cfg' = WithoutWifi(stored) /\ stored' \in {stored, cfg'} /\ form' = form
      /\ last' = NoRequest /\ phase' = "portal"
  BY <1>1 DEF RestartWithButton
<1>3. /\ cfg' \in Configs /\ stored' \in Configs /\ FormInv'
      /\ cfg'.token = stored.token /\ stored'.token = stored.token
  BY <1>2, ForgottenStep DEF Inv, ConfigInv, FormInv
<1>4. /\ agreed' \in [token : Seq(Bytes), known : BOOLEAN, written : BOOLEAN]
      /\ agreed'.token = agreed.token
      /\ agreed'.known => stored.token = agreed.token
  BY <1>1, RestartedFacts
<1>5. ConfigInv'
  BY <1>2, <1>3, <1>4 DEF ConfigInv
<1>6. TokenInv'
  BY <1>3, <1>4 DEF TokenInv
<1>7. AnswerInv'
  BY <1>2, NoAnswer DEF NoRequest
<1>8. QED
  BY <1>3, <1>5, <1>6, <1>7 DEF Inv

LEMMA InvStep ==
  ASSUME Inv, [Next]_vars
  PROVE  Inv'
<1>1. CASE Join
  <2>1. UNCHANGED <<cfg, stored, form, last, agreed>> /\ phase' \in {"mcp", "offline"}
        /\ phase = "submitted"
    BY <1>1 DEF Join
  <2>2. ConfigInv' /\ FormInv' /\ TokenInv'
    BY <2>1 DEF Inv, ConfigInv, FormInv, TokenInv
  <2>3. QED
    BY <2>1, <2>2, AnswerStays DEF Inv
<1>2. CASE Reply
  <2>1. UNCHANGED <<cfg, stored, form, phase, agreed>> /\ last' = NoRequest
    BY <1>2 DEF Reply
  <2>2. ConfigInv' /\ FormInv' /\ TokenInv'
    BY <2>1 DEF Inv, ConfigInv, FormInv, TokenInv
  <2>3. QED
    BY <2>1, <2>2, NoAnswer DEF Inv, NoRequest
<1>3. CASE UNCHANGED vars
  <2>1. UNCHANGED <<cfg, stored, form, phase, agreed, last>>
    BY <1>3 DEF vars
  <2>2. ConfigInv' /\ FormInv' /\ TokenInv'
    BY <2>1 DEF Inv, ConfigInv, FormInv, TokenInv
  <2>3. QED
    BY <2>1, <2>2, AnswerStays DEF Inv
<1>4. CASE \E f \in Forms : Submit(f)
  BY <1>4, SubmitStep
<1>5. CASE \E r \in Requests : Serve(r) \/ ServeDisconnect(r) \/ ServeReset(r)
  BY <1>5, ServeStep, ServeResetStep
<1>6. CASE JoinFails \/ Restart \/ RestartWithButton
  BY <1>6, JoinFailsStep, RestartStep, ButtonStep
<1>7. QED
  BY <1>1, <1>2, <1>3, <1>4, <1>5, <1>6 DEF Next

\* so that it holds always.
LEMMA InvAlways == Spec => []Inv
<1>1. Inv /\ [Next]_vars => Inv'
  BY InvStep
<1>2. QED
  BY InitInv, <1>1, PTL DEF Spec

-----------------------------------------------------------------------------
(* What the invariant gives *)

\* Every string stays in its field, whatever is typed and received, written or
\* lost: config_service.c.
THEOREM TypeCorrect == Spec => []TypeOK
<1>1. Inv => TypeOK
  <2>1. SUFFICES ASSUME Inv PROVE TypeOK
    OBVIOUS
  <2>2. \A c \in {cfg, stored} : c \in Configs
    BY <2>1 DEF Inv, ConfigInv
  <2>3. QED
    BY <2>1, <2>2, ConfigOf DEF TypeOK, Inv, ConfigInv, Provisioned
<1>2. QED
  BY <1>1, InvAlways, PTL

\* A text that fits the narrower of two widths is not changed by cutting it to
\* the wider, and then to the narrower.
LEMMA CutToDriver ==
  ASSUME NEW t \in Seq(Bytes), NEW wide \in Nat, NEW narrow \in Nat,
         narrow <= wide, Len(t) <= narrow
  PROVE  Cut(Cut(t, wide), narrow) = t /\ Cut(t, wide) = t
<1>1. Len(t) <= wide
  BY LenProperties
<1>2. QED
  BY <1>1, CutFacts

\* For every form, every reception of it, every write that fails and every loss
\* of power: what the Wi-Fi driver is given is what the accepted form typed.
THEOREM JoinsCorrect == Spec => []JoinsAsTyped
<1>1. Inv => JoinsAsTyped
  <2>1. SUFFICES ASSUME Inv, form.answer = "accepted", cfg.ssid # NoText
                 PROVE  /\ Fits(form.typed.ssid, "driver_ssid") => DriverSsid = form.typed.ssid
                        /\ Fits(form.typed.password, "driver_password") =>
                             DriverPassword = form.typed.password
                        /\ form.whole /\ form.saved /\ Fits(form.typed.name, "name") =>
                             cfg.name = form.typed.name
    BY DEF JoinsAsTyped, Provisioned
  <2> DEFINE f == form.typed
  <2>2. /\ f \in Forms
        /\ cfg.ssid = Cut(f.ssid, Width["ssid"]) /\ cfg.password = Cut(f.password, Width["password"])
        /\ form.whole /\ form.saved => cfg.name = Cut(f.name, Width["name"])
    BY <2>1 DEF Inv, FormInv, Holds
  <2> HIDE DEF f
  <2>3. f.ssid \in Seq(Bytes) /\ f.password \in Seq(Bytes) /\ f.name \in Seq(Bytes)
    BY <2>2, FormsAssumption
  <2>4. Fits(f.ssid, "driver_ssid") => DriverSsid = f.ssid
    BY <2>2, <2>3, Widths, WidthAssumption, CutToDriver DEF Fits, DriverSsid
  <2>5. Fits(f.password, "driver_password") => DriverPassword = f.password
    BY <2>2, <2>3, Widths, WidthAssumption, CutToDriver DEF Fits, DriverPassword
  <2>6. Fits(f.name, "name") => Cut(f.name, Width["name"]) = f.name
    BY <2>3, Widths, CutFacts DEF Fits
  <2>7. QED
    BY <2>2, <2>4, <2>5, <2>6 DEF f
<1>2. QED
  BY <1>1, InvAlways, PTL

\* What the server makes of a token in the header, if it fits
LEMMA HeaderToken ==
  ASSUME NEW r \in Requests, r.via = "header", Fits(r.token, "header")
  PROVE  TokenOf(r) = r.token
<1>1. r.token \in Seq(Bytes)
  BY RequestAssumption
<1>2. Header(r) = r.token /\ Query(r) = NoText
  BY DEF Header, Query
<1>3. Len(r.token) \in 0..Width["header"] /\ (Len(r.token) = 0 => r.token = NoText)
  BY <1>1, Widths, LenProperties, EmptySeq DEF Fits, NoText
<1>4. QED
  BY <1>2, <1>3, NoTextFits DEF TokenOf

\* and of one that the client has encoded
LEMMA QueryToken ==
  ASSUME NEW r \in Requests, r.via = "query", Fits(Encoded(r.token), "query_value")
  PROVE  TokenOf(r) = Cut(r.token, Width["header"])
<1> DEFINE t == r.token
           e == Encoded(t)
<1>1. t \in Seq(Bytes)
  BY RequestAssumption
<1>2. Header(r) = NoText /\ Query(r) = e
  BY DEF Header, Query
<1>3. e \in Seq(Bytes) /\ (e = <<>> <=> t = <<>>)
  BY <1>1, EncodedType, EncodedEmpty
<1>4. Strict(e, Width["header"]) = Cut(t, Width["header"])
  BY <1>1, Widths, StrictEncoded
<1>5. t = <<>> => Cut(t, Width["header"]) = <<>>
  <2> HIDE DEF t
  <2>1. Width["header"] \in Nat
    BY Widths
  <2>2. QED
    BY <1>1, <2>1, CutFacts
<1>6. Len(e) <= Width["query_value"]
  BY DEF Fits
<1> HIDE DEF e, t
<1>7. Len(e) \in 0..Width["query_value"] /\ (Len(e) = 0 <=> e = <<>>)
  BY <1>3, <1>6, Widths, LenProperties, EmptySeq
<1>8. 0 \notin 1..Width["header"] /\ 0 \notin 1..Width["query_value"]
  BY Widths
<1>9. TokenOf(r) = IF Len(e) \in 1..Width["query_value"] THEN Strict(e, Width["header"]) ELSE NoText
  BY <1>2, <1>8, NoTextFits DEF TokenOf
<1>10. CASE Len(e) = 0
  BY <1>3, <1>5, <1>7, <1>8, <1>9, <1>10 DEF NoText, t
<1>11. CASE Len(e) # 0
  <2>1. Len(e) \in 1..Width["query_value"]
    BY <1>7, <1>11, Widths
  <2>2. QED
    BY <1>4, <1>9, <2>1 DEF t
<1>12. QED
  BY <1>10, <1>11

\* For every token and every way of presenting it that the server reads in full:
\* who presents the token agreed upon is served, and nobody else, through
\* provisioning_http.c, config_service.c, mcp_server.c and mcp_dispatch.c.
THEOREM TokenCorrect == Spec => []TokenOpens
<1>1. Inv => TokenOpens
  <2> DEFINE r == last.request
             presented == agreed.token # NoText /\ r.token = agreed.token
  <2>1. SUFFICES ASSUME Inv, last.answer # "none", r.target \in Registered, agreed.known
                 PROVE  /\ r.via = "header" /\ Fits(r.token, "header") =>
                             (last.answer \in Served <=> presented)
                        /\ r.via = "query" /\ Fits(Encoded(r.token), "query_value") =>
                             (last.answer \in Served <=> presented)
                        /\ last.answer \in Served => r.via # "none"
    BY DEF TokenOpens
  <2>2. /\ r \in Requests /\ cfg.token = agreed.token
        /\ last.answer \in Served <=> TokenMatches(TokenOf(r))
    BY <2>1 DEF Inv, AnswerInv, TokenInv
  <2>3. cfg.token \in Seq(Bytes) /\ Len(cfg.token) <= Width["token"]
    BY <2>1, ConfigOf DEF Inv, ConfigInv, Fits
  <2>4. r.token \in Seq(Bytes)
    BY <2>2, RequestAssumption
  <2> HIDE DEF r
  <2>5. ASSUME r.via = "header", Fits(r.token, "header")
        PROVE  last.answer \in Served <=> presented
    <3>1. TokenOf(r) = r.token
      BY <2>2, <2>5, HeaderToken
    <3>2. QED
      BY <2>2, <3>1 DEF TokenMatches
  <2>6. ASSUME r.via = "query", Fits(Encoded(r.token), "query_value")
        PROVE  last.answer \in Served <=> presented
    <3>1. TokenOf(r) = Cut(r.token, Width["header"])
      BY <2>2, <2>6, QueryToken
    <3>2. Cut(r.token, Width["header"]) = cfg.token <=> r.token = cfg.token
      <4> DEFINE n == Len(r.token)
                 c == Cut(r.token, Width["header"])
      <4>1. /\ Len(c) = IF n > Width["header"] THEN Width["header"] ELSE n
            /\ n <= Width["header"] => c = r.token
        BY <2>4, Widths, CutFacts
      <4>2. n \in Nat /\ Len(cfg.token) \in Nat
        BY <2>3, <2>4, LenProperties
      <4>3. Width["token"] < Width["header"]
        BY WidthAssumption
      <4>4. c = cfg.token => n <= Width["header"]
        <5> HIDE DEF n, c
        <5>1. QED
          BY <2>3, <4>1, <4>2, <4>3, Widths
      <4>5. r.token = cfg.token => n <= Width["header"]
        BY <2>3, <4>2, <4>3, Widths
      <4>6. QED
        BY <4>1, <4>4, <4>5
    <3>3. QED
      BY <2>2, <3>1, <3>2 DEF TokenMatches
  <2>7. ASSUME r.via = "none" PROVE last.answer \notin Served
    <3>1. Header(r) = NoText /\ Query(r) = NoText
      BY <2>7 DEF Header, Query
    <3>2. 0 \notin 1..Width["header"] /\ 0 \notin 1..Width["query_value"]
      BY Widths
    <3>3. TokenOf(r) = NoText
      BY <3>1, <3>2, NoTextFits DEF TokenOf
    <3>4. QED
      BY <2>2, <3>3 DEF TokenMatches
  <2>8. QED
    BY <2>5, <2>6, <2>7 DEF r
<1>2. QED
  BY <1>1, InvAlways, PTL
=============================================================================
