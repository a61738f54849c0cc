--------------------------- MODULE PortalForm_proofs ---------------------------
(***************************************************************************)
(* Texts of any length: what a user types is what the firmware's decoders  *)
(* make of what the browser sends, and what the portal receives of a form  *)
(* is what was typed, in the width of its fields.                          *)
(***************************************************************************)
EXTENDS PortalForm, TLAPS, SequenceTheorems, WellFoundedInduction

-----------------------------------------------------------------------------
(* Induction over the places of a text, as a fact about sets of numbers *)

\* Numbers have a least one: the only induction there is.
LEMMA Least ==
  ASSUME NEW T \in SUBSET Nat, T # {}
  PROVE  \E k \in T : \A j \in T : k <= j
<1> DEFINE R == {p \in Nat \X Nat : p[1] < p[2]}
<1>1. IsWellFoundedOn(R, Nat)
  BY NatLessThanWellFounded DEF OpToRel
<1>2. PICK k \in T : \A j \in T : <<j, k>> \notin R
  BY <1>1, WFMin
<1>3. \A j \in T : j \in Nat /\ k \in Nat /\ ~(j < k)
  BY <1>2
<1>4. QED
  BY <1>3

\* What holds at a place if it holds at all before it holds everywhere,
LEMMA Upward ==
  ASSUME NEW n \in Nat, NEW T \in SUBSET (1..n),
         \A i \in 1..n : (\A j \in 1..(i - 1) : j \in T) => i \in T
  PROVE  T = 1..n
<1> DEFINE Rest == (1..n) \ T
<1>1. SUFFICES ASSUME Rest # {} PROVE FALSE
  OBVIOUS
<1>2. PICK k \in Rest : \A j \in Rest : k <= j
  <2>1. Rest \in SUBSET Nat
    OBVIOUS
  <2>2. QED
    BY <1>1, <2>1, Least
<1>3. \A j \in 1..(k - 1) : j \in T
  BY <1>2
<1>4. QED
  BY <1>2, <1>3

\* and what holds if it holds at all after it.
LEMMA Downward ==
  ASSUME NEW n \in Nat, NEW T \in SUBSET (1..n),
         \A i \in 1..n : (\A j \in (i + 1)..n : j \in T) => i \in T
  PROVE  T = 1..n
<1> DEFINE Rest == {m \in 1..n : n + 1 - m \notin T}
<1>1. SUFFICES ASSUME Rest # {} PROVE FALSE
  <2>1. \A i \in 1..n : n + 1 - i \in 1..n /\ n + 1 - (n + 1 - i) = i
    OBVIOUS
  <2>2. Rest = {} => \A i \in 1..n : i \in T
    BY <2>1
  <2>3. QED
    BY <2>2
<1>2. PICK k \in Rest : \A j \in Rest : k <= j
  <2>1. Rest \in SUBSET Nat
    OBVIOUS
  <2>2. QED
    BY <1>1, <2>1, Least
<1>3. \A j \in (n + 1 - k + 1)..n : j \in T
  <2>1. SUFFICES ASSUME NEW j \in (n + 1 - k + 1)..n PROVE j \in T
    OBVIOUS
  <2>2. n + 1 - j \in 1..n /\ n + 1 - j < k /\ n + 1 - (n + 1 - j) = j
    BY <1>2
  <2>3. QED
    BY <1>2, <2>2
<1>4. n + 1 - k \in 1..n /\ n + 1 - k \notin T
  BY <1>2
<1>5. QED
  BY <1>3, <1>4

-----------------------------------------------------------------------------
(* The function that Joined is defined by exists *)

\* what Joined goes through
Places(n) == 1..(n + 1)

FollowsFrom(n, piece, next, f) ==
  f = [i \in Places(n) |-> IF i > n THEN <<>> ELSE piece[i] \o f[next[i]]]

\* There is a function that joins what comes from each place: otherwise there
\* would be a last place up to which there is none.
LEMMA JoinedExists ==
  ASSUME NEW S, NEW n \in Nat, NEW piece \in [1..n -> Seq(S)], NEW next \in [1..n -> Places(n)],
         \A i \in 1..n : next[i] > i
  PROVE  \E f : FollowsFrom(n, piece, next, f)
<1> DEFINE Good(g, k) == \A i \in k..(n + 1) :
                           g[i] = IF i > n THEN <<>> ELSE piece[i] \o g[next[i]]
           T == {k \in 1..(n + 1) : \E g : Good(g, k)}
<1>1. \A k \in 1..(n + 1) : (\A j \in (k + 1)..(n + 1) : j \in T) => k \in T
  <2>1. SUFFICES ASSUME NEW k \in 1..(n + 1), \A j \in (k + 1)..(n + 1) : j \in T
                 PROVE  \E g : Good(g, k)
    OBVIOUS
  <2>2. CASE k = n + 1
    <3> DEFINE g == [i \in Places(n) |-> <<>>]
    <3>1. \A i \in k..(n + 1) : i > n /\ g[i] = <<>>
      BY <2>2 DEF Places
    <3> HIDE DEF g
    <3>2. Good(g, k)
      BY <3>1
    <3>3. QED
      BY <3>2
  <2>3. CASE k <= n
    <3>1. PICK g : Good(g, k + 1)
      <4>1. k + 1 \in (k + 1)..(n + 1)
        BY <2>3
      <4>2. k + 1 \in T
        BY <2>1, <4>1
      <4>3. QED
        BY <4>2
    <3> DEFINE h == [i \in Places(n) |-> IF i = k THEN piece[k] \o g[next[k]] ELSE g[i]]
    <3>2. \A i \in (k + 1)..(n + 1) : h[i] = g[i]
      BY DEF Places
    <3>3. \A i \in k..n : next[i] \in (k + 1)..(n + 1)
      BY DEF Places
    <3>4. h[k] = piece[k] \o h[next[k]]
      BY <2>3, <3>2, <3>3 DEF Places
    <3> HIDE DEF h
    <3>5. ASSUME NEW i \in (k + 1)..(n + 1)
          PROVE  h[i] = IF i > n THEN <<>> ELSE piece[i] \o h[next[i]]
      <4>1. g[i] = IF i > n THEN <<>> ELSE piece[i] \o g[next[i]]
        BY <3>1
      <4>2. i \in k..n => h[next[i]] = g[next[i]]
        BY <3>2, <3>3
      <4>3. i > n \/ i \in k..n
        OBVIOUS
      <4>4. QED
        BY <3>2, <4>1, <4>2, <4>3
    <3>6. ASSUME NEW i \in k..(n + 1)
          PROVE  h[i] = IF i > n THEN <<>> ELSE piece[i] \o h[next[i]]
      <4>1. i = k \/ i \in (k + 1)..(n + 1)
        OBVIOUS
      <4>2. ~(k > n)
        BY <2>3
      <4>3. QED
        BY <3>4, <3>5, <4>1, <4>2
    <3>7. QED
      BY <3>6
  <2>4. QED
    BY <2>2, <2>3
<1> HIDE DEF T
<1>2. T = 1..(n + 1)
  <2>1. T \in SUBSET (1..(n + 1)) /\ n + 1 \in Nat
    BY DEF T
  <2>2. QED
    BY <1>1, <2>1, Downward
<1>3. PICK g : Good(g, 1)
  <2>1. 1 \in T
    BY <1>2
  <2>2. QED
    BY <2>1 DEF T
<1> DEFINE f == [i \in Places(n) |-> g[i]]
<1>4. \A i \in Places(n) : f[i] = IF i > n THEN <<>> ELSE piece[i] \o f[next[i]]
  BY <1>3 DEF Places
<1>5. f = [i \in Places(n) |-> f[i]]
  OBVIOUS
<1> HIDE DEF f
<1>6. FollowsFrom(n, piece, next, f)
  BY <1>4, <1>5 DEF FollowsFrom
<1>7. QED
  BY <1>6

\* pieces over S, each followed by a later place
Onward(S, n, piece, next) ==
  /\ n \in Nat /\ piece \in [1..n -> Seq(S)] /\ next \in [1..n -> Places(n)]
  /\ \A i \in 1..n : next[i] > i

\* f[i] is what is joined from place i
JoinedAs(S, n, piece, next, f) ==
  /\ f \in [Places(n) -> Seq(S)]
  /\ Joined(n, piece, next) = f[1]
  /\ f[n + 1] = <<>>
  /\ \A i \in 1..n : f[i] = piece[i] \o f[next[i]]

\* Joined is its value at the first place.
LEMMA JoinedFrom ==
  ASSUME NEW S, NEW n, NEW piece, NEW next, Onward(S, n, piece, next)
  PROVE  \E f : JoinedAs(S, n, piece, next, f)
<1>0. /\ n \in Nat /\ piece \in [1..n -> Seq(S)] /\ next \in [1..n -> Places(n)]
      /\ \A i \in 1..n : next[i] > i
  BY DEF Onward
<1> DEFINE f == CHOOSE g : FollowsFrom(n, piece, next, g)
<1>1. FollowsFrom(n, piece, next, f)
  <2>1. \E g : FollowsFrom(n, piece, next, g)
    BY <1>0, JoinedExists
  <2>2. QED
    BY <2>1
<1>2. Joined(n, piece, next) = f[1]
  BY DEF Joined, FollowsFrom, Places
<1> HIDE DEF f
<1>3. f[n + 1] = <<>> /\ \A i \in 1..n : f[i] = piece[i] \o f[next[i]]
  <2>1. \A i \in Places(n) : f[i] = IF i > n THEN <<>> ELSE piece[i] \o f[next[i]]
    BY <1>1 DEF FollowsFrom
  <2>2. n + 1 \in Places(n) /\ n + 1 > n /\ \A i \in 1..n : i \in Places(n) /\ ~(i > n)
    BY <1>0 DEF Places
  <2>3. QED
    BY <2>1, <2>2
<1> DEFINE T == {i \in 1..(n + 1) : f[i] \in Seq(S)}
<1>4. \A k \in 1..(n + 1) : (\A j \in (k + 1)..(n + 1) : j \in T) => k \in T
  <2>1. SUFFICES ASSUME NEW k \in 1..(n + 1), \A j \in (k + 1)..(n + 1) : j \in T
                 PROVE  f[k] \in Seq(S)
    OBVIOUS
  <2>2. CASE k = n + 1
    BY <1>0, <1>3, <2>2, EmptySeq
  <2>3. CASE k \in 1..n
    <3>1. next[k] \in (k + 1)..(n + 1)
      BY <1>0, <2>3 DEF Places
    <3>2. f[next[k]] \in Seq(S) /\ piece[k] \in Seq(S)
      BY <1>0, <2>1, <2>3, <3>1
    <3>3. QED
      BY <1>3, <2>3, <3>2, ConcatProperties
  <2>4. QED
    BY <1>0, <2>2, <2>3
<1>5. T = 1..(n + 1)
  <2>1. T \in SUBSET (1..(n + 1)) /\ n + 1 \in Nat
    BY <1>0
  <2> HIDE DEF T
  <2>2. QED
    BY <1>4, <2>1, Downward
<1>6. f \in [Places(n) -> Seq(S)]
  <2>1. f = [i \in Places(n) |-> f[i]]
    BY <1>1 DEF FollowsFrom
  <2>2. \A i \in Places(n) : f[i] \in Seq(S)
    BY <1>5 DEF Places
  <2>3. QED
    BY <2>1, <2>2
<1>7. JoinedAs(S, n, piece, next, f)
  BY <1>2, <1>3, <1>6 DEF JoinedAs
<1>8. QED
  BY <1>7

-----------------------------------------------------------------------------
(* What a byte becomes *)

\* A byte in the body: itself, a plus sign, or an escape that stands for it alone
LEMMA EncodedByteForms ==
  ASSUME NEW c \in Bytes
  PROVE  \/ c = " " /\ EncodedByte(c) = <<"+">>
         \/ /\ c # " " /\ c \notin {"%", "&", "+", "=", "c3", "a9"}
            /\ EncodedByte(c) = <<c>>
         \/ /\ c # " "
            /\ \E hi, lo \in HexDigit : EncodedByte(c) = <<"%", hi, lo>> /\ Byte(hi, lo) = c
<1> DEFINE D == {"%", "&", "+", "=", "c3", "a9"}
<1>1. DOMAIN Escape = D
  BY DEF Escape
<1>2. /\ Escape["%"] = <<"%", "2", "5">> /\ Escape["&"] = <<"%", "2", "6">>
      /\ Escape["+"] = <<"%", "2", "B">> /\ Escape["="] = <<"%", "3", "D">>
      /\ Escape["c3"] = <<"%", "C", "3">> /\ Escape["a9"] = <<"%", "A", "9">>
  BY DEF Escape
<1>3. CASE c = " "
  BY <1>3 DEF EncodedByte
<1>4. CASE c # " " /\ c \notin D
  BY <1>1, <1>4 DEF EncodedByte
<1>5. CASE c # " " /\ c \in D
  <2>1. EncodedByte(c) = Escape[c]
    BY <1>1, <1>5 DEF EncodedByte
  <2>2. PICK hi \in HexDigit, lo \in HexDigit : Escape[c] = <<"%", hi, lo>>
    BY <1>2, <1>5 DEF HexDigit
  <2>3. \A d \in D : Escape[d] = <<"%", hi, lo>> => d = c
    <3>1. \A d \in D : Escape[d] = <<"%", hi, lo>> => Escape[d][2] = hi /\ Escape[d][3] = lo
      OBVIOUS
    <3>2. Escape[c][2] = hi /\ Escape[c][3] = lo
      BY <2>2
    <3>3. /\ Escape["%"][2] = "2" /\ Escape["%"][3] = "5"
          /\ Escape["&"][2] = "2" /\ Escape["&"][3] = "6"
          /\ Escape["+"][2] = "2" /\ Escape["+"][3] = "B"
          /\ Escape["="][2] = "3" /\ Escape["="][3] = "D"
          /\ Escape["c3"][2] = "C" /\ Escape["c3"][3] = "3"
          /\ Escape["a9"][2] = "A" /\ Escape["a9"][3] = "9"
      BY <1>2
    <3>4. QED
      BY <1>5, <3>1, <3>2, <3>3
  <2>4. Byte(hi, lo) = c
    BY <1>1, <1>5, <2>2, <2>3 DEF Byte
  <2>5. QED
    BY <1>5, <2>1, <2>2, <2>4
<1>6. QED
  BY <1>3, <1>4, <1>5

\* An escape is decoded to a byte,
LEMMA ByteIsByte == \A hi, lo : Byte(hi, lo) \in Bytes
BY BytesAssumption DEF Byte

\* and a byte is not encoded by the separator of entries.
LEMMA EncodedByteType ==
  ASSUME NEW c \in Bytes
  PROVE  EncodedByte(c) \in Seq(Bytes \ {"&"})
<1>1. CASE EncodedByte(c) = <<"+">>
  <2>1. "+" \in Bytes \ {"&"}
    BY BytesAssumption DEF Escape
  <2>2. QED
    BY <1>1, <2>1
<1>2. CASE c \notin {"&"} /\ EncodedByte(c) = <<c>>
  BY <1>2
<1>3. CASE \E hi, lo \in HexDigit : EncodedByte(c) = <<"%", hi, lo>>
  <2>1. HexDigit \subseteq Bytes \ {"&"} /\ "%" \in Bytes \ {"&"}
    BY BytesAssumption DEF HexDigit, Escape
  <2>2. QED
    BY <1>3, <2>1
<1>4. QED
  BY <1>1, <1>2, <1>3, EncodedByteForms

-----------------------------------------------------------------------------
(* The encoding, place by place *)

\* e[i] is the encoding of the text from place i
EncodingOf(t, e) ==
  /\ e \in [Places(Len(t)) -> Seq(Bytes \ {"&"})]
  /\ Encoded(t) = e[1] /\ e[Len(t) + 1] = <<>>
  /\ \A i \in 1..Len(t) : e[i] = EncodedByte(t[i]) \o e[i + 1]

\* The encoding is given place by place.
LEMMA EncodedFrom ==
  ASSUME NEW t \in Seq(Bytes)
  PROVE  \E e : EncodingOf(t, e)
<1> DEFINE n == Len(t)
           piece == [i \in DOMAIN t |-> EncodedByte(t[i])]
           next == [i \in DOMAIN t |-> i + 1]
<1>1. n \in Nat /\ DOMAIN t = 1..n /\ \A i \in 1..n : t[i] \in Bytes
  BY LenProperties
<1>2. piece \in [1..n -> Seq(Bytes \ {"&"})]
  BY <1>1, EncodedByteType
<1>3. /\ next \in [1..n -> Places(n)] /\ \A i \in 1..n : next[i] > i
      /\ \A i \in 1..n : next[i] = i + 1
  BY <1>1 DEF Places
<1>4. Encoded(t) = Joined(n, piece, next) /\ \A i \in 1..n : piece[i] = EncodedByte(t[i])
  BY <1>1 DEF Encoded
<1> HIDE DEF n, piece, next
<1>5. Onward(Bytes \ {"&"}, n, piece, next)
  BY <1>1, <1>2, <1>3 DEF Onward
<1>6. PICK e : JoinedAs(Bytes \ {"&"}, n, piece, next, e)
  BY <1>5, JoinedFrom
<1>7. \A i \in 1..n : e[i] = EncodedByte(t[i]) \o e[i + 1]
  BY Zenon, <1>3, <1>4, <1>6 DEF JoinedAs
<1>8. Encoded(t) = e[1]
  BY <1>4, <1>6 DEF JoinedAs
<1>9. EncodingOf(t, e)
  BY <1>6, <1>7, <1>8 DEF EncodingOf, JoinedAs, n
<1>10. QED
  BY <1>9

\* An encoded text has no separator in it.
LEMMA EncodedType ==
  ASSUME NEW t \in Seq(Bytes)
  PROVE  Encoded(t) \in Seq(Bytes \ {"&"}) /\ Encoded(t) \in Seq(Bytes)
<1>1. PICK e : EncodingOf(t, e)
  BY EncodedFrom
<1>2. Encoded(t) \in Seq(Bytes \ {"&"})
  BY <1>1, LenProperties DEF EncodingOf, Places
<1>3. QED
  BY <1>2, SeqMonotonic

\* the encoding from place i is the end of the whole encoding
EndsOfWhole(t, e) ==
  \A i \in Places(Len(t)) :
    /\ Len(e[i]) \in 0..Len(e[1])
    /\ \A j \in 1..Len(e[i]) : e[1][Len(e[1]) - Len(e[i]) + j] = e[i][j]

\* By induction upwards: each place is reached by leaving out one byte's encoding.
LEMMA EncodedEnds ==
  ASSUME NEW t \in Seq(Bytes), NEW e, EncodingOf(t, e)
  PROVE  EndsOfWhole(t, e)
<1> DEFINE n == Len(t)
           Ends(i) == /\ Len(e[i]) \in 0..Len(e[1])
                      /\ \A j \in 1..Len(e[i]) : e[1][Len(e[1]) - Len(e[i]) + j] = e[i][j]
           T == {i \in 1..(n + 1) : Ends(i)}
<1>1. n \in Nat /\ \A i \in 1..n : t[i] \in Bytes
  BY LenProperties
<1>2. \A i \in 1..(n + 1) : e[i] \in Seq(Bytes \ {"&"}) /\ Len(e[i]) \in Nat
  BY LenProperties DEF EncodingOf, Places
<1>0. n = Len(t)
  OBVIOUS
<1> HIDE DEF n, T
<1>3. \A i \in 1..(n + 1) : (\A j \in 1..(i - 1) : j \in T) => i \in T
  <2>1. SUFFICES ASSUME NEW i \in 1..(n + 1), \A j \in 1..(i - 1) : j \in T
                 PROVE  Ends(i)
    BY DEF T
  <2>2. CASE i = 1
    BY <1>1, <1>2, <2>2
  <2>3. CASE i # 1
    <3> DEFINE k == i - 1
               b == EncodedByte(t[k])
    <3>1. k \in 1..n /\ k + 1 = i /\ k \in T
      BY <1>1, <2>1, <2>3
    <3>2. Ends(k)
      BY <3>1 DEF T
    <3>3. e[k] = b \o e[i] /\ b \in Seq(Bytes \ {"&"}) /\ e[i] \in Seq(Bytes \ {"&"})
      BY <1>0, <1>1, <1>2, <3>1, EncodedByteType DEF EncodingOf
    <3>4. Len(b) \in Nat /\ Len(e[i]) \in Nat /\ Len(e[1]) \in Nat /\ Len(e[k]) = Len(b) + Len(e[i])
      BY <1>1, <1>2, <3>1, <3>3, ConcatProperties, LenProperties
    <3>5. \A j \in 1..Len(e[i]) : e[k][Len(b) + j] = e[i][j] /\ Len(b) + j \in 1..Len(e[k])
      <4>1. \A j \in 1..(Len(b) + Len(e[i])) :
              e[k][j] = IF j <= Len(b) THEN b[j] ELSE e[i][j - Len(b)]
        BY <3>3, ConcatProperties
      <4> HIDE DEF b, k
      <4>2. ASSUME NEW j \in 1..Len(e[i])
            PROVE  /\ Len(b) + j \in 1..(Len(b) + Len(e[i]))
                   /\ ~(Len(b) + j <= Len(b)) /\ Len(b) + j - Len(b) = j
        BY <3>4
      <4>3. QED
        BY <3>4, <4>1, <4>2
    <3> HIDE DEF b, k
    <3>6. Len(e[i]) \in 0..Len(e[1])
      BY <3>2, <3>4
    <3>7. ASSUME NEW j \in 1..Len(e[i])
          PROVE  e[1][Len(e[1]) - Len(e[i]) + j] = e[i][j]
      <4>1. Len(e[1]) - Len(e[k]) + (Len(b) + j) = Len(e[1]) - Len(e[i]) + j
        <5> DEFINE whole == Len(e[1])
                   head == Len(b)
                   rest == Len(e[i])
        <5>1. whole \in Int /\ head \in Int /\ rest \in Int /\ j \in Int /\ Len(e[k]) = head + rest
          BY <3>4
        <5> HIDE DEF whole, head, rest
        <5>2. whole - (head + rest) + (head + j) = whole - rest + j
          BY <5>1
        <5>3. QED
          BY <5>1, <5>2 DEF whole, head, rest
      <4>2. Len(b) + j \in 1..Len(e[k]) /\ e[k][Len(b) + j] = e[i][j]
        BY <3>5
      <4>3. e[1][Len(e[1]) - Len(e[k]) + (Len(b) + j)] = e[k][Len(b) + j]
        BY <3>2, <4>2
      <4>4. QED
        BY <4>1, <4>2, <4>3
    <3>8. QED
      BY <3>6, <3>7
  <2>4. QED
    BY <2>2, <2>3
<1>4. T = 1..(n + 1)
  <2>1. T \in SUBSET (1..(n + 1)) /\ n + 1 \in Nat
    BY <1>1 DEF T
  <2>2. QED
    BY <1>3, <2>1, Upward
<1>5. \A i \in 1..(n + 1) : Ends(i)
  BY <1>4 DEF T
<1>6. QED
  BY <1>0, <1>5 DEF EndsOfWhole, Places

-----------------------------------------------------------------------------
(* The decoding, place by place *)

\* d[k] is what the decoders make of a raw text from place k
DecodingOf(raw, onBad, d) ==
  /\ d \in [Places(Len(raw)) -> Seq(Bytes \cup {onBad})]
  /\ Decoded(raw, onBad) = d[1] /\ d[Len(raw) + 1] = <<>>
  /\ \A k \in 1..Len(raw) :
       /\ raw[k] = "+" => d[k] = <<" ">> \o d[k + 1]
       /\ raw[k] \notin {"+", "%"} => d[k] = <<raw[k]>> \o d[k + 1]
       /\ raw[k] = "%" /\ k + 2 <= Len(raw) /\ raw[k + 1] \in HexDigit /\ raw[k + 2] \in HexDigit =>
            d[k] = <<Byte(raw[k + 1], raw[k + 2])>> \o d[k + 3]

\* The decoding is given place by place.
LEMMA DecodedFrom ==
  ASSUME NEW raw \in Seq(Bytes), NEW onBad
  PROVE  \E d : DecodingOf(raw, onBad, d)
<1> DEFINE n == Len(raw)
           escape(i) == raw[i] = "%" /\ i + 2 <= Len(raw)
           hex(i) == raw[i + 1] \in HexDigit /\ raw[i + 2] \in HexDigit
           one(i) == IF raw[i] = "+" THEN <<" ">>
                     ELSE IF ~escape(i) THEN <<raw[i]>>
                     ELSE IF hex(i) THEN <<Byte(raw[i + 1], raw[i + 2])>> ELSE <<onBad>>
           piece == [i \in DOMAIN raw |-> one(i)]
           next == [i \in DOMAIN raw |-> IF escape(i) /\ hex(i) THEN i + 3 ELSE i + 1]
           S == Bytes \cup {onBad}
<1>1. n \in Nat /\ DOMAIN raw = 1..n /\ (\A i \in 1..n : raw[i] \in Bytes) /\ n = Len(raw)
  BY LenProperties
<1>2. piece \in [1..n -> Seq(S)]
  <2>1. " " \in S
    BY BytesAssumption
  <2>2. \A i \in 1..n : raw[i] \in S
    BY <1>1
  <2>3. \A h, l : Byte(h, l) \in S
    BY ByteIsByte
  <2>4. onBad \in S
    OBVIOUS
  <2> HIDE DEF S
  <2>5. \A c \in S : <<c>> \in Seq(S)
    OBVIOUS
  <2>6. ASSUME NEW i \in 1..n PROVE one(i) \in Seq(S)
    <3>1. <<" ">> \in Seq(S) /\ <<raw[i]>> \in Seq(S) /\ <<onBad>> \in Seq(S)
          /\ <<Byte(raw[i + 1], raw[i + 2])>> \in Seq(S)
      BY <2>1, <2>2, <2>3, <2>4, <2>5
    <3>2. QED
      BY <3>1
  <2> HIDE DEF one
  <2>7. QED
    BY <1>1, <2>6
<1>3. next \in [1..n -> Places(n)] /\ \A i \in 1..n : next[i] > i
  BY <1>1 DEF Places
<1>4. Decoded(raw, onBad) = Joined(n, piece, next)
  BY DEF Decoded
<1>5. \A i \in 1..n : piece[i] = one(i) /\ next[i] = IF escape(i) /\ hex(i) THEN i + 3 ELSE i + 1
  BY <1>1
<1> HIDE DEF piece, next, S
<1>6. PICK d : JoinedAs(S, n, piece, next, d)
  BY <1>1, <1>2, <1>3, JoinedFrom DEF Onward
<1>7. ASSUME NEW k \in 1..n
      PROVE  /\ raw[k] = "+" => d[k] = <<" ">> \o d[k + 1]
             /\ raw[k] \notin {"+", "%"} => d[k] = <<raw[k]>> \o d[k + 1]
             /\ raw[k] = "%" /\ k + 2 <= Len(raw) /\ raw[k + 1] \in HexDigit /\ raw[k + 2] \in HexDigit =>
                  d[k] = <<Byte(raw[k + 1], raw[k + 2])>> \o d[k + 3]
  <2>1. d[k] = piece[k] \o d[next[k]]
    BY <1>6 DEF JoinedAs
  <2>2. raw[k] = "+" => ~escape(k) /\ one(k) = <<" ">>
    OBVIOUS
  <2>3. raw[k] \notin {"+", "%"} => ~escape(k) /\ one(k) = <<raw[k]>>
    OBVIOUS
  <2>4. raw[k] = "%" /\ k + 2 <= Len(raw) /\ raw[k + 1] \in HexDigit /\ raw[k + 2] \in HexDigit =>
          escape(k) /\ hex(k) /\ one(k) = <<Byte(raw[k + 1], raw[k + 2])>>
    OBVIOUS
  <2> HIDE DEF one, escape, hex
  <2>5. piece[k] = one(k) /\ next[k] = IF escape(k) /\ hex(k) THEN k + 3 ELSE k + 1
    BY <1>5
  <2>6. QED
    BY <2>1, <2>2, <2>3, <2>4, <2>5
<1>8. DecodingOf(raw, onBad, d)
  BY <1>1, <1>4, <1>6, <1>7 DEF DecodingOf, JoinedAs, S
<1>9. QED
  BY <1>8

\* It is a text of bytes, and of what stands for a bad escape.
LEMMA DecodedType ==
  ASSUME NEW raw \in Seq(Bytes), NEW onBad
  PROVE  /\ Decoded(raw, onBad) \in Seq(Bytes \cup {onBad})
         /\ raw = <<>> => Decoded(raw, onBad) = <<>>
<1>1. PICK d : DecodingOf(raw, onBad, d)
  BY DecodedFrom
<1>2. Len(raw) \in Nat /\ (raw = <<>> => Len(raw) = 0)
  BY LenProperties, EmptySeq
<1>3. 1 \in Places(Len(raw)) /\ (Len(raw) = 0 => Len(raw) + 1 = 1)
  BY <1>2 DEF Places
<1>4. QED
  BY <1>1, <1>2, <1>3 DEF DecodingOf

\* For every text: what URLSearchParams has encoded is decoded to what was typed,
\* by the loop of provisioning_http.c and by those of mcp_server.c and
\* mcp_dispatch.c, whatever they do with an escape that is none.
THEOREM DecodedEncoded ==
  ASSUME NEW t \in Seq(Bytes), NEW onBad
  PROVE  Decoded(Encoded(t), onBad) = t
<1> DEFINE n == Len(t)
           raw == Encoded(t)
           m == Len(raw)
<1>1. PICK e : EncodingOf(t, e)
  BY EncodedFrom
<1>2. raw \in Seq(Bytes) /\ raw = e[1]
  BY <1>1, EncodedType DEF EncodingOf
<1>3. PICK d : DecodingOf(raw, onBad, d)
  BY <1>2, DecodedFrom
<1>4. n \in Nat /\ m \in Nat /\ \A i \in 1..n : t[i] \in Bytes
  BY <1>2, LenProperties
<1> DEFINE at(i) == m - Len(e[i]) + 1
           Same(i) == d[at(i)] = SubSeq(t, i, n)
           T == {i \in 1..(n + 1) : Same(i)}
<1>5. \A i \in 1..(n + 1) :
        /\ Len(e[i]) \in 0..m
        /\ \A j \in 1..Len(e[i]) : raw[m - Len(e[i]) + j] = e[i][j]
  <2>1. \A i \in 1..(n + 1) :
          /\ Len(e[i]) \in 0..Len(e[1])
          /\ \A j \in 1..Len(e[i]) : e[1][Len(e[1]) - Len(e[i]) + j] = e[i][j]
    <3>1. EndsOfWhole(t, e)
      BY <1>1, EncodedEnds
    <3>2. Places(Len(t)) = 1..(n + 1)
      BY DEF Places
    <3>3. QED
      BY Zenon, <3>1, <3>2 DEF EndsOfWhole
  <2> HIDE DEF n, raw
  <2>2. QED
    BY <1>2, <2>1
<1>6. \A i \in 1..n : e[i] = EncodedByte(t[i]) \o e[i + 1]
  BY <1>1 DEF EncodingOf
<1>7. e[n + 1] = <<>> /\ d[m + 1] = <<>> /\ \A i \in 1..(n + 1) : e[i] \in Seq(Bytes)
  <2>1. \A i \in 1..(n + 1) : e[i] \in Seq(Bytes \ {"&"})
    BY <1>1 DEF EncodingOf, Places
  <2>2. \A i \in 1..(n + 1) : e[i] \in Seq(Bytes)
    BY <2>1, SeqMonotonic
  <2>3. QED
    BY <1>1, <1>3, <2>2 DEF EncodingOf, DecodingOf
<1> HIDE DEF n, raw, m
\* the first byte of what is left is decoded, and the place moves on
<1>8. ASSUME NEW i \in 1..n
      PROVE  d[at(i)] = <<t[i]>> \o d[at(i + 1)]
  <2> DEFINE c == t[i]
             b == EncodedByte(c)
             k == at(i)
             rest == Len(e[i + 1])
  <2>1. c \in Bytes /\ i \in 1..(n + 1) /\ i + 1 \in 1..(n + 1)
    BY <1>4
  <2>2. e[i] = b \o e[i + 1] /\ e[i + 1] \in Seq(Bytes) /\ e[i] \in Seq(Bytes)
    BY <1>6, <1>7, <2>1
  <2>3. b \in Seq(Bytes)
    BY <2>1, EncodedByteType, SeqMonotonic
  <2>4. /\ Len(b) \in Nat /\ rest \in Nat /\ Len(e[i]) = Len(b) + rest
        /\ \A j \in 1..Len(b) : e[i][j] = b[j]
    BY <2>2, <2>3, ConcatProperties, LenProperties
  <2>5. Len(e[i]) \in 0..m /\ \A j \in 1..Len(e[i]) : raw[m - Len(e[i]) + j] = e[i][j]
    BY <1>5, <2>1
  <2>6. \A j \in 1..Len(b) : raw[k + j - 1] = b[j]
    <3>1. ASSUME NEW j \in 1..Len(b) PROVE raw[k + j - 1] = b[j]
      <4>1. j \in 1..Len(e[i])
        <5>1. Len(b) \in Nat /\ rest \in Nat /\ Len(e[i]) = Len(b) + rest
          BY <2>4
        <5> HIDE DEF b, rest
        <5>2. j \in 1..(Len(b) + rest)
          BY <5>1
        <5>3. QED
          BY <5>1, <5>2
      <4>2. raw[m - Len(e[i]) + j] = e[i][j] /\ e[i][j] = b[j]
        BY <2>4, <2>5, <4>1
      <4>3. k + j - 1 = m - Len(e[i]) + j
        BY <1>4, <2>5
      <4>4. QED
        BY <4>2, <4>3
    <3>2. QED
      BY <3>1
  <2>7. at(i + 1) = k + Len(b) /\ k \in Nat \ {0} /\ k + Len(b) <= m + 1
    <3> DEFINE whole == Len(e[i])
    <3>1. /\ Len(b) \in Nat /\ rest \in Nat /\ whole = Len(b) + rest /\ whole \in 0..m
          /\ k = m - whole + 1 /\ at(i + 1) = m - rest + 1
      BY <2>4, <2>5
    <3> HIDE DEF b, rest, whole, k, at
    <3>2. QED
      BY <1>4, <3>1
  <2>8. \A p \in 1..m :
          /\ raw[p] = "+" => d[p] = <<" ">> \o d[p + 1]
          /\ raw[p] \notin {"+", "%"} => d[p] = <<raw[p]>> \o d[p + 1]
          /\ raw[p] = "%" /\ p + 2 <= m /\ raw[p + 1] \in HexDigit /\ raw[p + 2] \in HexDigit =>
               d[p] = <<Byte(raw[p + 1], raw[p + 2])>> \o d[p + 3]
    BY <1>3 DEF DecodingOf, m
  <2>9. \/ c = " " /\ b = <<"+">>
        \/ c \notin {"%", "+"} /\ b = <<c>>
        \/ \E hi, lo \in HexDigit : b = <<"%", hi, lo>> /\ Byte(hi, lo) = c
    BY <2>1, EncodedByteForms
  <2>10. d[k] = <<c>> \o d[k + Len(b)]
    <3> HIDE DEF b, c, k, at, rest
    <3>1. CASE c = " " /\ b = <<"+">>
      <4>1. Len(b) = 1 /\ b[1] = "+"
        BY <3>1
      <4>2. k \in 1..m /\ raw[k] = "+"
        BY <1>4, <2>6, <2>7, <4>1
      <4>3. QED
        BY <2>8, <3>1, <4>1, <4>2
    <3>2. CASE c \notin {"%", "+"} /\ b = <<c>>
      <4>1. Len(b) = 1 /\ b[1] = c
        BY <3>2
      <4>2. k \in 1..m /\ raw[k] = c
        BY <1>4, <2>6, <2>7, <4>1
      <4>3. QED
        BY <2>8, <3>2, <4>1, <4>2
    <3>3. ASSUME NEW hi \in HexDigit, NEW lo \in HexDigit,
                 b = <<"%", hi, lo>>, Byte(hi, lo) = c
          PROVE  d[k] = <<c>> \o d[k + Len(b)]
      <4>1. Len(b) = 3 /\ b[1] = "%" /\ b[2] = hi /\ b[3] = lo
        BY <3>3
      <4>2. /\ k \in 1..m /\ k + 2 <= m
            /\ raw[k] = "%" /\ raw[k + 1] = hi /\ raw[k + 2] = lo
        <5>1. k + 1 - 1 = k /\ k + 2 - 1 = k + 1 /\ k + 3 - 1 = k + 2
          BY <2>7
        <5>2. raw[k + 1 - 1] = "%" /\ raw[k + 2 - 1] = hi /\ raw[k + 3 - 1] = lo
          BY <2>6, <4>1
        <5>3. QED
          BY <1>4, <2>7, <4>1, <5>1, <5>2
      <4>3. QED
        BY <2>8, <3>3, <4>1, <4>2
    <3>4. QED
      BY <2>9, <3>1, <3>2, <3>3
  <2>11. QED
    BY <2>7, <2>10
<1>9. \A i \in 1..(n + 1) : (\A j \in (i + 1)..(n + 1) : j \in T) => i \in T
  <2>1. SUFFICES ASSUME NEW i \in 1..(n + 1), \A j \in (i + 1)..(n + 1) : j \in T
                 PROVE  Same(i)
    OBVIOUS
  <2>2. CASE i = n + 1
    <3>1. Len(e[i]) = 0
      BY <1>7, <2>2, EmptySeq
    <3>2. at(i) = m + 1
      BY <1>4, <3>1
    <3>3. SubSeq(t, i, n) = <<>>
      BY <1>4, <2>2, SubSeqEmpty
    <3>4. QED
      BY <1>7, <3>2, <3>3
  <2>3. CASE i \in 1..n
    <3>1. i + 1 \in (i + 1)..(n + 1)
      BY <1>4, <2>3
    <3>2. Same(i + 1)
      BY <2>1, <3>1
    <3>3. SubSeq(t, i, n) = <<t[i]>> \o SubSeq(t, i + 1, n)
      BY <1>4, <2>3, SubSeqRecursiveFirst DEF n
    <3>4. QED
      BY <1>8, <2>3, <3>2, <3>3
  <2>4. i = n + 1 \/ i \in 1..n
    BY <1>4
  <2> HIDE DEF Same
  <2>5. QED
    BY <2>2, <2>3, <2>4
<1> HIDE DEF Same
<1>10. T = 1..(n + 1)
  <2>1. T \in SUBSET (1..(n + 1)) /\ n + 1 \in Nat
    BY <1>4
  <2> HIDE DEF T
  <2>2. QED
    BY <1>9, <2>1, Downward
<1>11. d[at(1)] = SubSeq(t, 1, n)
  <2>1. 1 \in T
    BY <1>4, <1>10
  <2>2. Same(1)
    BY <2>1
  <2>3. QED
    BY <2>2 DEF Same
<1>12. at(1) = 1
  BY <1>2, <1>4 DEF m
<1>13. SubSeq(t, 1, n) = t
  BY SubSeqFull DEF n
<1>14. QED
  BY <1>3, <1>11, <1>12, <1>13 DEF DecodingOf, raw

-----------------------------------------------------------------------------
(* Cut, and the two decoders *)

\* A text that is cut is its beginning: all of it if there is room.
LEMMA CutFacts ==
  ASSUME NEW S, NEW t \in Seq(S), NEW room \in Nat
  PROVE  /\ Cut(t, room) \in Seq(S) /\ Len(Cut(t, room)) <= room
         /\ Len(Cut(t, room)) = IF Len(t) > room THEN room ELSE Len(t)
         /\ Len(t) <= room => Cut(t, room) = t
         /\ t # <<>> /\ room # 0 => Cut(t, room) # <<>>
         /\ t = <<>> => Cut(t, room) = <<>>
         /\ \A i \in 1..Len(Cut(t, room)) : Cut(t, room)[i] = t[i] /\ i \in 1..Len(t)
<1> DEFINE n == IF Len(t) > room THEN room ELSE Len(t)
           c == Cut(t, room)
<1>1. /\ Len(t) \in Nat /\ n \in Nat /\ n <= room /\ n <= Len(t)
      /\ (Len(t) <= room => n = Len(t))
      /\ (t # <<>> => Len(t) # 0) /\ (t = <<>> => Len(t) = 0)
      /\ \A i \in 1..n : t[i] \in S
  BY LenProperties, EmptySeq
<1>2. c = SubSeq(t, 1, n)
  BY DEF Cut
<1> HIDE DEF c, n
<1>3. c \in Seq(S) /\ Len(c) = n /\ \A i \in 1..n : c[i] = t[i]
  <2>1. /\ SubSeq(t, 1, n) \in Seq(S)
        /\ Len(SubSeq(t, 1, n)) = IF 1 <= n THEN n - 1 + 1 ELSE 0
        /\ \A i \in 1..(n - 1 + 1) : SubSeq(t, 1, n)[i] = t[1 + i - 1]
    BY <1>1, SubSeqProperties
  <2>2. (IF 1 <= n THEN n - 1 + 1 ELSE 0) = n /\ n - 1 + 1 = n /\ \A i \in 1..n : 1 + i - 1 = i
    BY <1>1
  <2>3. QED
    BY <1>2, <2>1, <2>2
<1>4. n = Len(t) => c = t
  BY <1>2, SubSeqFull
<1>5. Len(t) # 0 /\ room # 0 => c # <<>>
  <2>1. Len(t) # 0 /\ room # 0 => n # 0
    BY <1>1 DEF n
  <2>2. QED
    BY <1>3, <2>1, EmptySeq
<1>6. t = <<>> => c = <<>>
  BY <1>1, <1>3, EmptySeq
<1>7. n = IF Len(t) > room THEN room ELSE Len(t)
  BY DEF n
<1>8. QED
  BY <1>1, <1>3, <1>4, <1>5, <1>6, <1>7 DEF c

\* Each of two setters cuts a text to the same width.
LEMMA CutTwice ==
  ASSUME NEW S, NEW t \in Seq(S), NEW room \in Nat
  PROVE  Cut(Cut(t, room), room) = Cut(t, room)
<1>1. Cut(t, room) \in Seq(S) /\ Len(Cut(t, room)) <= room
  BY CutFacts
<1>2. QED
  BY <1>1, CutFacts

\* The portal's decoder fills its field, and gives what was typed.
LEMMA LenientFacts ==
  ASSUME NEW raw \in Seq(Bytes), NEW room \in Nat
  PROVE  /\ Lenient(raw, room) \in Seq(Bytes) /\ Len(Lenient(raw, room)) <= room
         /\ raw = <<>> => Lenient(raw, room) = <<>>
<1>1. "%" \in Bytes
  BY BytesAssumption DEF Escape
<1>2. Bytes \cup {"%"} = Bytes
  BY <1>1
<1>3. Decoded(raw, "%") \in Seq(Bytes) /\ (raw = <<>> => Decoded(raw, "%") = <<>>)
  BY <1>2, DecodedType
<1>4. QED
  BY <1>3, CutFacts DEF Lenient

\* What was encoded it gives as far as there is room.
LEMMA LenientEncoded ==
  ASSUME NEW t \in Seq(Bytes), NEW room
  PROVE  Lenient(Encoded(t), room) = Cut(t, room)
BY DecodedEncoded DEF Lenient

\* The server's decoder, too: a text that was encoded has no bad escape.
LEMMA StrictEncoded ==
  ASSUME NEW t \in Seq(Bytes), NEW room \in Nat
  PROVE  Strict(Encoded(t), room) = Cut(t, room)
<1>1. Decoded(Encoded(t), Bad) = t
  BY DecodedEncoded
<1>2. Cut(t, room) \in Seq(Bytes)
  BY CutFacts
<1>3. \A i \in DOMAIN Cut(t, room) : Cut(t, room)[i] # Bad
  <2>1. Bad \notin Bytes
    BY BytesAssumption
  <2>2. \A i \in DOMAIN Cut(t, room) : Cut(t, room)[i] \in Bytes
    BY <1>2, LenProperties
  <2>3. QED
    BY <2>1, <2>2
<1>4. QED
  BY <1>1, <1>3 DEF Strict

\* Nothing is sent for an empty text, and for no other.
LEMMA EncodedEmpty ==
  ASSUME NEW t \in Seq(Bytes)
  PROVE  Encoded(t) = <<>> <=> t = <<>>
<1>1. Encoded(t) = <<>> => t = <<>>
  <2>1. Encoded(t) \in Seq(Bytes)
    BY EncodedType
  <2>2. QED
    BY <2>1, DecodedType, DecodedEncoded
<1>2. t = <<>> => Encoded(t) = <<>>
  <2>1. PICK e : EncodingOf(t, e)
    BY EncodedFrom
  <2>2. QED
    BY <2>1, EmptySeq DEF EncodingOf
<1>3. QED
  BY <1>1, <1>2

-----------------------------------------------------------------------------
(* The entries of a form, and the value of one in the beginning of a body *)

Keys == {"ssid", "password", "device_name", "auth_token"}

\* at place p of a body is the key's only entry, with the value e
HasEntry(body, key, p, e) ==
  /\ p \in Nat \ {0} /\ p + 1 + Len(e) <= Len(body)
  /\ body[p] = key /\ body[p + 1] = "=" /\ (p = 1 \/ body[p - 1] = "&")
  /\ \A j \in 1..Len(e) : body[p + 1 + j] = e[j]
  /\ p + 1 + Len(e) < Len(body) => body[p + 1 + Len(e) + 1] = "&"
  /\ \A i \in 1..Len(body) : body[i] = key => i = p

\* how much of a value of len bytes, behind a key at place p, is in n bytes
Part(n, p, len) == IF n < p + 1 THEN 0 ELSE IF n - (p + 1) > len THEN len ELSE n - (p + 1)

\* The beginning of a body has the beginning of a value: the key is found if it
\* is there with its equals sign, and the value ends with the body or before it.
LEMMA ValueOfBeginning ==
  ASSUME NEW body \in Seq(Bytes \cup Keys), NEW key, NEW p, NEW e \in Seq(Bytes \ {"&"}),
         HasEntry(body, key, p, e), NEW n \in 1..Len(body)
  PROVE  Value(SubSeq(body, 1, n), key) = SubSeq(e, 1, Part(n, p, Len(e)))
<1> DEFINE raw == SubSeq(body, 1, n)
           L == Len(e)
           got == Part(n, p, L)
           starts == {i \in 1..(Len(raw) - 1) :
                        /\ raw[i] = key /\ raw[i + 1] = "="
                        /\ (i = 1 \/ raw[i - 1] = "&")}
           first == CHOOSE i \in starts : \A j \in starts : i <= j
           ends == {j \in (first + 2)..Len(raw) : raw[j] = "&"} \cup {Len(raw) + 1}
           end == CHOOSE j \in ends : \A k \in ends : j <= k
<1>1. /\ Len(body) \in Nat /\ L \in Nat /\ n \in Nat /\ n <= Len(body) /\ n >= 1
      /\ (\A i \in 1..Len(body) : body[i] \in Bytes \cup Keys)
      /\ (\A i \in 1..L : e[i] \in Bytes /\ e[i] # "&")
  BY LenProperties
<1>2. raw \in Seq(Bytes \cup Keys) /\ Len(raw) = n /\ \A i \in 1..n : raw[i] = body[i]
  <2>1. \A i \in 1..n : body[i] \in Bytes \cup Keys
    BY <1>1
  <2>2. /\ raw \in Seq(Bytes \cup Keys)
        /\ Len(raw) = IF 1 <= n THEN n - 1 + 1 ELSE 0
        /\ \A i \in 1..(n - 1 + 1) : raw[i] = body[1 + i - 1]
    BY <1>1, <2>1, SubSeqProperties
  <2>3. (IF 1 <= n THEN n - 1 + 1 ELSE 0) = n /\ n - 1 + 1 = n /\ \A i \in 1..n : 1 + i - 1 = i
    BY <1>1
  <2> HIDE DEF raw
  <2>4. QED
    BY <2>2, <2>3
<1>3. Value(raw, key) = IF starts = {} THEN <<>> ELSE SubSeq(raw, first + 2, end - 1)
  BY DEF Value
<1>4. /\ p \in Nat \ {0} /\ p + 1 + L <= Len(body)
      /\ body[p] = key /\ body[p + 1] = "=" /\ (p = 1 \/ body[p - 1] = "&")
      /\ (\A j \in 1..L : body[p + 1 + j] = e[j])
      /\ (p + 1 + L < Len(body) => body[p + 1 + L + 1] = "&")
      /\ \A i \in 1..Len(body) : body[i] = key => i = p
  BY DEF HasEntry
<1>5. \A i \in starts : i = p /\ p + 1 <= n
  <2> HIDE DEF raw
  <2>1. ASSUME NEW i \in starts PROVE i = p /\ p + 1 <= n
    <3>1. i \in 1..(n - 1) /\ raw[i] = key
      BY <1>2, <2>1
    <3>2. i \in 1..Len(body) /\ body[i] = key
      BY <1>1, <1>2, <3>1
    <3>3. QED
      BY <1>1, <1>4, <3>1, <3>2
  <2>2. QED
    BY <2>1
<1>6. CASE n < p + 1
  <2>1. starts = {}
    <3> HIDE DEF starts
    <3>1. QED
      BY <1>1, <1>4, <1>5, <1>6
  <2>2. SubSeq(e, 1, got) = <<>>
    BY <1>6, SubSeqEmpty DEF Part
  <2>3. QED
    BY <1>3, <2>1, <2>2
<1>7. CASE n >= p + 1
  <2>1. /\ got \in Nat /\ got <= L /\ got <= n - (p + 1)
        /\ (got # L => got = n - (p + 1))
    BY <1>1, <1>4, <1>7 DEF Part
  <2> HIDE DEF raw, got
  <2>2. p \in starts
    <3>1. p \in 1..(n - 1) /\ p \in 1..n /\ p + 1 \in 1..n /\ (p # 1 => p - 1 \in 1..n)
      BY <1>1, <1>4, <1>7
    <3>2. raw[p] = key /\ raw[p + 1] = "=" /\ (p = 1 \/ raw[p - 1] = "&")
      BY <1>2, <1>4, <3>1
    <3>3. QED
      BY <1>2, <3>1, <3>2
  <2>3. starts = {p}
    <3> HIDE DEF starts
    <3>1. QED
      BY <1>5, <2>2
  <2>4. first = p
    <3> HIDE DEF starts
    <3>1. \A i \in starts : (\A j \in starts : i <= j) <=> i = p
      BY <1>4, <2>3
    <3>2. \E i \in starts : \A j \in starts : i <= j
      BY <2>2, <3>1
    <3>3. first \in starts
      BY <3>2
    <3>4. QED
      BY <2>3, <3>3
  <2> HIDE DEF first, starts
  <2>5. p + 2 + got \in ends
    <3>1. CASE got = n - (p + 1)
      <4>1. p + 2 + got = n + 1
        BY <1>1, <1>4, <3>1
      <4>2. QED
        BY <1>2, <4>1
    <3>2. CASE got # n - (p + 1)
      <4>1. got = L /\ p + 1 + L < n
        BY <1>1, <1>4, <2>1, <3>2
      <4>2. p + 1 + L < Len(body) /\ p + 1 + L + 1 = p + 2 + got /\ p + 2 + got \in (p + 2)..n
            /\ p + 2 + got \in 1..n
        BY <1>1, <1>4, <4>1
      <4>3. raw[p + 2 + got] = "&"
        BY <1>2, <1>4, <4>2
      <4>4. QED
        BY <1>2, <2>4, <4>2, <4>3
    <3>3. QED
      BY <3>1, <3>2
  <2>6. \A j \in 1..got : p + 1 + j \in 1..n /\ raw[p + 1 + j] = e[j] /\ e[j] \in Bytes /\ e[j] # "&"
    <3>1. ASSUME NEW j \in 1..got
          PROVE  p + 1 + j \in 1..n /\ raw[p + 1 + j] = e[j] /\ e[j] \in Bytes /\ e[j] # "&"
      <4>1. p + 1 + j \in 1..n /\ j \in 1..L
        BY <1>1, <1>4, <2>1
      <4>2. QED
        BY <1>1, <1>2, <1>4, <4>1
    <3>2. QED
      BY <3>1
  <2>7. \A k \in ends : k \in Nat /\ p + 2 + got <= k
    <3>1. ASSUME NEW k \in ends PROVE k \in Nat /\ p + 2 + got <= k
      <4>1. CASE k = n + 1
        BY <1>1, <1>4, <2>1, <4>1
      <4>2. CASE k \in (p + 2)..n /\ raw[k] = "&"
        <5>1. SUFFICES ASSUME k < p + 2 + got PROVE FALSE
          BY <1>4, <2>1, <4>2
        <5>2. k - (p + 1) \in 1..got /\ p + 1 + (k - (p + 1)) = k
          BY <1>1, <1>4, <2>1, <4>2, <5>1
        <5>3. raw[k] # "&"
          BY <2>6, <5>2
        <5>4. QED
          BY <4>2, <5>3
      <4>3. QED
        BY <1>2, <2>4, <3>1, <4>1, <4>2
    <3>2. QED
      BY <3>1
  <2>8. end = p + 2 + got
    <3> HIDE DEF ends
    <3>1. \E j \in ends : \A k \in ends : j <= k
      BY <2>5, <2>7
    <3>2. end \in ends /\ \A k \in ends : end <= k
      BY <3>1
    <3> HIDE DEF end
    <3>3. end \in Nat /\ p + 2 + got <= end /\ end <= p + 2 + got
      BY <2>5, <2>7, <3>2
    <3>4. QED
      BY <1>4, <2>1, <3>3
  <2> HIDE DEF end
  <2>9. Value(raw, key) = SubSeq(raw, p + 2, p + 1 + got)
    <3>1. end - 1 = p + 1 + got
      BY <1>4, <2>1, <2>8
    <3>2. QED
      BY <1>3, <2>2, <2>4, <3>1
  <2>10. SubSeq(raw, p + 2, p + 1 + got) = SubSeq(e, 1, got)
    <3> DEFINE a == SubSeq(raw, p + 2, p + 1 + got)
               b == SubSeq(e, 1, got)
    <3>1. \A i \in (p + 2)..(p + 1 + got) : raw[i] \in Bytes
      <4>1. ASSUME NEW i \in (p + 2)..(p + 1 + got) PROVE raw[i] \in Bytes
        <5>1. i - (p + 1) \in 1..got /\ p + 1 + (i - (p + 1)) = i
          BY <1>4, <2>1
        <5>2. QED
          BY <2>6, <5>1
      <4>2. QED
        BY <4>1
    <3>2. a \in Seq(Bytes) /\ Len(a) = got /\ \A i \in 1..got : a[i] = raw[p + 1 + i]
      <4> DEFINE from == p + 2
                 to == p + 1 + got
      <4>1. from \in Int /\ to \in Int /\ \A i \in from..to : raw[i] \in Bytes
        BY <1>4, <2>1, <3>1
      <4>2. (IF from <= to THEN (to - from) + 1 ELSE 0) = got /\ (to - from) + 1 = got
            /\ \A i \in 1..got : (from + i) - 1 = p + 1 + i
        BY <1>4, <2>1
      <4>3. a = SubSeq(raw, from, to)
        OBVIOUS
      <4> HIDE DEF from, to, a
      <4>4. /\ SubSeq(raw, from, to) \in Seq(Bytes)
            /\ Len(SubSeq(raw, from, to)) = IF from <= to THEN (to - from) + 1 ELSE 0
            /\ \A i \in 1..((to - from) + 1) : SubSeq(raw, from, to)[i] = raw[(from + i) - 1]
        BY <4>1, SubSeqProperties
      <4>5. QED
        BY <4>2, <4>3, <4>4
    <3>3. \A i \in 1..got : e[i] \in Bytes
      BY <2>6
    <3>4. /\ b \in Seq(Bytes)
          /\ Len(b) = IF 1 <= got THEN got - 1 + 1 ELSE 0
          /\ \A i \in 1..(got - 1 + 1) : b[i] = e[1 + i - 1]
      BY <2>1, <3>3, SubSeqProperties
    <3> HIDE DEF a, b
    <3>5. Len(a) = got /\ Len(b) = got
      BY <1>4, <2>1, <3>2, <3>4
    <3>6. ASSUME NEW i \in 1..got PROVE a[i] = b[i]
      <4>1. i \in 1..(got - 1 + 1) /\ 1 + i - 1 = i
        BY <2>1
      <4>2. a[i] = raw[p + 1 + i]
        BY <3>2
      <4>3. a[i] = raw[p + 1 + i] /\ b[i] = e[i]
        BY <3>2, <3>4, <4>1, <4>2
      <4>4. QED
        BY <2>6, <4>3
    <3>7. a = b
      BY <3>2, <3>4, <3>5, <3>6, SeqEqual
    <3>8. QED
      BY <3>7 DEF a, b
  <2>11. QED
    BY <2>9, <2>10 DEF raw, got
<1>8. QED
  BY <1>1, <1>4, <1>6, <1>7

-----------------------------------------------------------------------------
(* The body of a form has one entry for each key *)

Symbol == Bytes \cup Keys
Values == Seq(Bytes \ {"&"})

\* Nothing that a user types is taken for a key.
LEMMA KeysAreNoBytes ==
  /\ Bytes \cap Keys = {} /\ {"&", "="} \subseteq Bytes /\ Keys \cap {"&", "="} = {}
BY BytesAssumption DEF Keys, Escape

\* c is t behind s
Behind(S, s, t, c) ==
  /\ c \in Seq(S) /\ Len(c) = Len(s) + Len(t)
  /\ \A i \in 1..Len(s) : c[i] = s[i]
  /\ \A j \in 1..Len(t) : c[Len(s) + j] = t[j]

\* A text behind another
LEMMA ConcatPlaces ==
  ASSUME NEW S, NEW s \in Seq(S), NEW t \in Seq(S)
  PROVE  Behind(S, s, t, s \o t)
<1> DEFINE c == s \o t
           m == Len(s)
           l == Len(t)
<1>1. /\ c \in Seq(S) /\ Len(c) = m + l
      /\ \A i \in 1..(m + l) : c[i] = IF i <= m THEN s[i] ELSE t[i - m]
  BY ConcatProperties
<1>2. m \in Nat /\ l \in Nat
  BY LenProperties
<1> HIDE DEF c, m, l
<1>3. ASSUME NEW i \in 1..m PROVE c[i] = s[i]
  BY <1>1, <1>2
<1>4. ASSUME NEW j \in 1..l PROVE c[m + j] = t[j]
  <2>1. m + j \in 1..(m + l) /\ ~(m + j <= m) /\ (m + j) - m = j
    BY <1>2
  <2>2. QED
    BY <1>1, <2>1
<1>5. QED
  BY <1>1, <1>3, <1>4 DEF c, m, l, Behind

\* b is a body with one more entry
Added(body, key, e, b) ==
  LET m == Len(body)
      l == Len(e) IN
    /\ b \in Seq(Symbol) /\ Len(b) = m + 3 + l
    /\ \A i \in 1..m : b[i] = body[i]
    /\ b[m + 1] = "&" /\ b[m + 2] = key /\ b[m + 3] = "="
    /\ \A j \in 1..l : b[m + 3 + j] = e[j]

\* What the page's script does for each field adds an entry.
LEMMA AddedPlaces ==
  ASSUME NEW body \in Seq(Symbol), NEW key \in Keys, NEW e \in Values
  PROVE  Added(body, key, e, (body \o <<"&", key, "=">>) \o e)
<1> DEFINE h == <<"&", key, "=">>
           m == Len(body)
           l == Len(e)
           bh == body \o h
           b == bh \o e
<1>1. /\ m \in Nat /\ l \in Nat /\ Len(h) = 3 /\ h[1] = "&" /\ h[2] = key /\ h[3] = "="
      /\ h \in Seq(Symbol) /\ e \in Seq(Symbol)
  <2>1. e \in Seq(Symbol)
    BY SeqMonotonic DEF Values, Symbol
  <2>2. "&" \in Symbol /\ key \in Symbol /\ "=" \in Symbol
    BY KeysAreNoBytes DEF Symbol
  <2>3. h \in Seq(Symbol)
    BY <2>2
  <2>4. QED
    BY <2>1, <2>3, LenProperties
<1>2. /\ bh \in Seq(Symbol) /\ Len(bh) = m + 3
      /\ \A i \in 1..m : bh[i] = body[i]
      /\ \A k \in 1..3 : bh[m + k] = h[k]
  <2> HIDE DEF h
  <2>1. Behind(Symbol, body, h, bh)
    BY <1>1, ConcatPlaces
  <2> HIDE DEF bh
  <2>2. QED
    BY <1>1, <2>1 DEF Behind
<1> HIDE DEF bh
<1>3. /\ b \in Seq(Symbol) /\ Len(b) = m + 3 + l
      /\ \A i \in 1..(m + 3) : b[i] = bh[i]
      /\ \A j \in 1..l : b[m + 3 + j] = e[j]
  <2>1. Behind(Symbol, bh, e, b)
    BY <1>1, <1>2, ConcatPlaces
  <2> HIDE DEF b
  <2>2. QED
    BY <1>2, <2>1 DEF Behind
<1> HIDE DEF h, b
<1>4. ASSUME NEW i \in 1..m PROVE b[i] = body[i]
  <2> HIDE DEF m, l
  <2>1. i \in 1..(m + 3)
    BY <1>1
  <2>2. QED
    BY <1>2, <1>3, <2>1
<1>5. ASSUME NEW k \in 1..3 PROVE b[m + k] = h[k]
  <2> HIDE DEF m, l
  <2>1. m + k \in 1..(m + 3)
    BY <1>1
  <2>2. QED
    BY <1>2, <1>3, <2>1
<1>6. \A j \in 1..l : b[m + 3 + j] = e[j]
  BY <1>3
<1>7. b[m + 1] = "&" /\ b[m + 2] = key /\ b[m + 3] = "="
  BY <1>1, <1>5
<1>8. Added(body, key, e, b)
  BY <1>3, <1>4, <1>6, <1>7 DEF Added
<1>9. QED
  BY <1>8 DEF b, bh, h

\* A place of the new body is an old one, one of the three, or in the value.
LEMMA AddedPlace ==
  ASSUME NEW body \in Seq(Symbol), NEW key \in Keys, NEW e \in Values,
         NEW b, Added(body, key, e, b), NEW i \in 1..Len(b)
  PROVE  \/ i \in 1..Len(body) /\ b[i] = body[i]
         \/ i = Len(body) + 2 /\ b[i] = key
         \/ i > Len(body) /\ b[i] \in Bytes
<1> DEFINE m == Len(body)
           l == Len(e)
<1>1. m \in Nat /\ l \in Nat /\ \A j \in 1..l : e[j] \in Bytes
  <2>1. e \in Seq(Bytes)
    BY SeqMonotonic DEF Values
  <2>2. QED
    BY <2>1, LenProperties
<1>2. /\ Len(b) = m + 3 + l
      /\ \A j \in 1..m : b[j] = body[j]
      /\ b[m + 1] = "&" /\ b[m + 2] = key /\ b[m + 3] = "="
      /\ \A j \in 1..l : b[m + 3 + j] = e[j]
  BY DEF Added
<1> HIDE DEF m, l
<1>3. i \in 1..m \/ i = m + 1 \/ i = m + 2 \/ i = m + 3 \/ i > m + 3
  BY <1>1, <1>2
<1>4. CASE i > m + 3
  <2>1. i - (m + 3) \in 1..l /\ m + 3 + (i - (m + 3)) = i
    BY <1>1, <1>2, <1>4
  <2>2. b[i] = e[i - (m + 3)] /\ e[i - (m + 3)] \in Bytes
    BY <1>1, <1>2, <2>1
  <2>3. i > m
    BY <1>1, <1>2, <1>4
  <2>4. QED
    BY <2>2, <2>3 DEF m
<1>5. CASE i = m + 1 \/ i = m + 3
  <2>1. b[i] \in Bytes /\ i > m
    BY <1>1, <1>2, <1>5, KeysAreNoBytes
  <2>2. QED
    BY <2>1 DEF m
<1>6. CASE i \in 1..m \/ i = m + 2
  BY <1>2, <1>6 DEF m
<1>7. QED
  BY <1>3, <1>4, <1>5, <1>6

NoEntry(body, key) == \A i \in 1..Len(body) : body[i] # key

\* An entry brings no other key,
LEMMA StillAbsent ==
  ASSUME NEW body \in Seq(Symbol), NEW key \in Keys, NEW e \in Values,
         NEW b, Added(body, key, e, b), NEW k \in Keys \ {key}, NoEntry(body, k)
  PROVE  NoEntry(b, k)
<1>1. ASSUME NEW i \in 1..Len(b) PROVE b[i] # k
  <2>1. k \notin Bytes /\ k # key
    BY KeysAreNoBytes
  <2>2. QED
    BY <2>1, AddedPlace DEF NoEntry
<1>2. QED
  BY <1>1 DEF NoEntry

\* it brings its own,
LEMMA EntryAdded ==
  ASSUME NEW body \in Seq(Symbol), NEW key \in Keys, NEW e \in Values,
         NEW b, Added(body, key, e, b), NoEntry(body, key)
  PROVE  HasEntry(b, key, Len(body) + 2, e)
<1> DEFINE m == Len(body)
           l == Len(e)
<1>1. m \in Nat /\ l \in Nat
  BY LenProperties DEF Values
<1>2. /\ Len(b) = m + 3 + l
      /\ b[m + 1] = "&" /\ b[m + 2] = key /\ b[m + 3] = "="
      /\ \A j \in 1..l : b[m + 3 + j] = e[j]
  BY DEF Added
<1>3. ASSUME NEW i \in 1..Len(b), b[i] = key PROVE i = m + 2
  <2>1. key \notin Bytes
    BY KeysAreNoBytes
  <2>2. QED
    BY <1>3, <2>1, AddedPlace DEF NoEntry
<1> DEFINE p == m + 2
<1> HIDE DEF m, l
<1>4. /\ p \in Nat \ {0} /\ p - 1 = m + 1 /\ p + 1 = m + 3
      /\ p + 1 + l <= Len(b) /\ ~(p + 1 + l < Len(b))
      /\ \A j \in 1..l : p + 1 + j = m + 3 + j
  BY <1>1, <1>2
<1>5. \A j \in 1..l : b[p + 1 + j] = e[j]
  BY <1>2, <1>4
<1>6. b[p] = key /\ b[p + 1] = "=" /\ b[p - 1] = "&"
  BY <1>2, <1>4
<1>7. \A i \in 1..Len(b) : b[i] = key => i = p
  BY <1>3
<1> HIDE DEF p
<1>8. HasEntry(b, key, p, e)
  BY <1>4, <1>5, <1>6, <1>7 DEF HasEntry, l
<1>9. QED
  BY <1>8 DEF p, m

\* and it keeps those that are there.
LEMMA EntryKept ==
  ASSUME NEW body \in Seq(Symbol), NEW key \in Keys, NEW e \in Values,
         NEW b, Added(body, key, e, b),
         NEW k \in Keys \ {key}, NEW p, NEW v \in Values, HasEntry(body, k, p, v)
  PROVE  HasEntry(b, k, p, v)
<1> DEFINE m == Len(body)
           l == Len(e)
           n == Len(v)
<1>1. m \in Nat /\ l \in Nat /\ n \in Nat
  BY LenProperties DEF Values
<1>2. /\ p \in Nat \ {0} /\ p + 1 + n <= m
      /\ body[p] = k /\ body[p + 1] = "=" /\ (p = 1 \/ body[p - 1] = "&")
      /\ \A j \in 1..n : body[p + 1 + j] = v[j]
      /\ p + 1 + n < m => body[p + 1 + n + 1] = "&"
      /\ \A i \in 1..m : body[i] = k => i = p
  BY DEF HasEntry
<1>3. /\ Len(b) = m + 3 + l /\ b[m + 1] = "&"
      /\ \A i \in 1..m : b[i] = body[i]
  BY DEF Added
<1>4. ASSUME NEW i \in 1..Len(b), b[i] = k PROVE i = p
  <2>1. k \notin Bytes /\ k # key
    BY KeysAreNoBytes
  <2>2. i \in 1..m /\ body[i] = k
    BY <1>4, <2>1, AddedPlace
  <2>3. QED
    BY <1>2, <2>2
<1> HIDE DEF m, l, n
<1>5. p \in 1..m /\ p + 1 \in 1..m /\ (p # 1 => p - 1 \in 1..m) /\ p + 1 + n <= Len(b)
  BY <1>1, <1>2, <1>3
<1>6. b[p] = k /\ b[p + 1] = "=" /\ (p = 1 \/ b[p - 1] = "&")
  BY <1>2, <1>3, <1>5
<1>7. ASSUME NEW j \in 1..n PROVE b[p + 1 + j] = v[j]
  <2>1. p + 1 + j \in 1..m
    BY <1>1, <1>2
  <2>2. QED
    BY <1>2, <1>3, <2>1
<1>8. b[p + 1 + n + 1] = "&"
  <2>1. CASE p + 1 + n < m
    <3>1. p + 1 + n + 1 \in 1..m
      BY <1>1, <1>2, <2>1
    <3>2. QED
      BY <1>2, <1>3, <2>1, <3>1
  <2>2. CASE ~(p + 1 + n < m)
    <3>1. p + 1 + n + 1 = m + 1
      BY <1>1, <1>2, <2>2
    <3>2. QED
      BY <1>3, <3>1
  <2>3. QED
    BY <2>1, <2>2
<1>9. QED
  BY <1>2, <1>4, <1>5, <1>6, <1>7, <1>8 DEF HasEntry, n

\* The first entry has no separator before it.
LEMMA FirstEntry ==
  ASSUME NEW key \in Keys, NEW e \in Values, NEW b, b = <<key, "=">> \o e
  PROVE  /\ b \in Seq(Symbol) /\ Len(b) = 2 + Len(e) /\ HasEntry(b, key, 1, e)
         /\ \A k \in Keys \ {key} : NoEntry(b, k)
<1> DEFINE h == <<key, "=">>
           l == Len(e)
<1>1. /\ l \in Nat /\ Len(h) = 2 /\ h[1] = key /\ h[2] = "="
      /\ h \in Seq(Symbol) /\ e \in Seq(Symbol) /\ \A j \in 1..l : e[j] \in Bytes
  <2>1. e \in Seq(Symbol) /\ e \in Seq(Bytes)
    BY SeqMonotonic DEF Values, Symbol
  <2>2. key \in Symbol /\ "=" \in Symbol
    BY KeysAreNoBytes DEF Symbol
  <2>3. h \in Seq(Symbol)
    BY <2>2
  <2>4. QED
    BY <2>1, <2>3, LenProperties
<1>2. b = h \o e
  OBVIOUS
<1> HIDE DEF h
<1>3. Behind(Symbol, h, e, b)
  BY <1>1, <1>2, ConcatPlaces
<1>4. /\ b \in Seq(Symbol) /\ Len(b) = 2 + l /\ b[1] = key /\ b[2] = "="
      /\ \A j \in 1..l : b[2 + j] = e[j]
  BY <1>1, <1>3 DEF Behind
<1> HIDE DEF l
<1>5. ASSUME NEW i \in 1..Len(b), i # 1 PROVE b[i] \in Bytes
  <2>1. CASE i = 2
    BY <1>4, <2>1, KeysAreNoBytes
  <2>2. CASE i # 2
    <3>1. i - 2 \in 1..l /\ 2 + (i - 2) = i
      BY <1>1, <1>4, <1>5, <2>2
    <3>2. QED
      BY <1>1, <1>4, <3>1
  <2>3. QED
    BY <2>1, <2>2
<1>6. \A k \in Keys : k \notin Bytes
  BY KeysAreNoBytes
<1>7. \A i \in 1..Len(b) : b[i] = key => i = 1
  BY <1>5, <1>6
<1>8. HasEntry(b, key, 1, e)
  <2>1. 1 \in Nat \ {0} /\ 1 + 1 + l <= Len(b) /\ ~(1 + 1 + l < Len(b)) /\ 1 + 1 = 2
    BY <1>1, <1>4
  <2>2. \A j \in 1..l : b[1 + 1 + j] = e[j]
    BY <1>4, <2>1
  <2>3. b[1 + 1] = "="
    BY <1>4, <2>1
  <2>4. QED
    BY <1>4, <1>7, <2>1, <2>2, <2>3 DEF HasEntry, l
<1>9. ASSUME NEW k \in Keys \ {key} PROVE NoEntry(b, k)
  <2>1. ASSUME NEW i \in 1..Len(b) PROVE b[i] # k
    BY <1>4, <1>5, <1>6
  <2>2. QED
    BY <2>1 DEF NoEntry
<1>10. QED
  BY <1>4, <1>8, <1>9 DEF l

\* The places of the keys in a body of the four values
FourEntries(b, e1, e2, e3, e4) ==
  /\ b \in Seq(Symbol) /\ Len(b) = 11 + Len(e1) + Len(e2) + Len(e3) + Len(e4)
  /\ HasEntry(b, "ssid", 1, e1)
  /\ HasEntry(b, "password", 4 + Len(e1), e2)
  /\ HasEntry(b, "device_name", 7 + Len(e1) + Len(e2), e3)
  /\ HasEntry(b, "auth_token", 10 + Len(e1) + Len(e2) + Len(e3), e4)

\* Four entries one after the other
LEMMA FourAdded ==
  ASSUME NEW e1 \in Values, NEW e2 \in Values, NEW e3 \in Values, NEW e4 \in Values,
         NEW b1, b1 = <<"ssid", "=">> \o e1,
         NEW b2, Added(b1, "password", e2, b2),
         NEW b3, Added(b2, "device_name", e3, b3),
         NEW b4, Added(b3, "auth_token", e4, b4)
  PROVE  FourEntries(b4, e1, e2, e3, e4)
<1> DEFINE k1 == "ssid"
           k2 == "password"
           k3 == "device_name"
           k4 == "auth_token"
<1>1. /\ k1 \in Keys /\ k2 \in Keys /\ k3 \in Keys /\ k4 \in Keys
      /\ k1 # k2 /\ k1 # k3 /\ k1 # k4 /\ k2 # k3 /\ k2 # k4 /\ k3 # k4
  BY DEF Keys
<1>2. /\ b1 \in Seq(Symbol) /\ b2 \in Seq(Symbol) /\ b3 \in Seq(Symbol) /\ b4 \in Seq(Symbol)
      /\ Len(b2) = Len(b1) + 3 + Len(e2)
      /\ Len(b3) = Len(b2) + 3 + Len(e3)
      /\ Len(b4) = Len(b3) + 3 + Len(e4)
  BY <1>1, FirstEntry DEF Added
<1>3. /\ Len(b1) = 2 + Len(e1) /\ HasEntry(b1, k1, 1, e1)
      /\ NoEntry(b1, k2) /\ NoEntry(b1, k3) /\ NoEntry(b1, k4)
  BY <1>1, FirstEntry
<1>4. /\ Added(b1, k2, e2, b2) /\ Added(b2, k3, e3, b3) /\ Added(b3, k4, e4, b4)
  OBVIOUS
<1> DEFINE l1 == Len(e1)
           l2 == Len(e2)
           l3 == Len(e3)
           l4 == Len(e4)
           n1 == Len(b1)
           n2 == Len(b2)
           n3 == Len(b3)
           n4 == Len(b4)
<1>5. l1 \in Nat /\ l2 \in Nat /\ l3 \in Nat /\ l4 \in Nat
  BY LenProperties DEF Values
<1>6. /\ n1 = 2 + l1 /\ n2 = n1 + 3 + l2 /\ n3 = n2 + 3 + l3 /\ n4 = n3 + 3 + l4
  BY <1>2, <1>3
<1> HIDE DEF k1, k2, k3, k4, l1, l2, l3, l4, n1, n2, n3, n4
<1>7. /\ n1 + 2 = 4 + l1 /\ n2 + 2 = 7 + l1 + l2 /\ n3 + 2 = 10 + l1 + l2 + l3
      /\ n4 = 11 + l1 + l2 + l3 + l4
  BY <1>5, <1>6
<1>8. /\ HasEntry(b2, k1, 1, e1) /\ HasEntry(b2, k2, n1 + 2, e2)
      /\ NoEntry(b2, k3) /\ NoEntry(b2, k4)
  <2>1. HasEntry(b2, k1, 1, e1)
    BY <1>1, <1>2, <1>3, <1>4, EntryKept
  <2>2. HasEntry(b2, k2, n1 + 2, e2)
    BY <1>1, <1>2, <1>3, <1>4, EntryAdded DEF n1
  <2>3. NoEntry(b2, k3) /\ NoEntry(b2, k4)
    BY <1>1, <1>2, <1>3, <1>4, StillAbsent
  <2>4. QED
    BY <2>1, <2>2, <2>3
<1>9. /\ HasEntry(b3, k1, 1, e1) /\ HasEntry(b3, k2, n1 + 2, e2)
      /\ HasEntry(b3, k3, n2 + 2, e3) /\ NoEntry(b3, k4)
  <2>1. HasEntry(b3, k1, 1, e1) /\ HasEntry(b3, k2, n1 + 2, e2)
    BY <1>1, <1>2, <1>4, <1>8, EntryKept
  <2>2. HasEntry(b3, k3, n2 + 2, e3)
    BY <1>1, <1>2, <1>4, <1>8, EntryAdded DEF n2
  <2>3. NoEntry(b3, k4)
    BY <1>1, <1>2, <1>4, <1>8, StillAbsent
  <2>4. QED
    BY <2>1, <2>2, <2>3
<1>10. /\ HasEntry(b4, k1, 1, e1) /\ HasEntry(b4, k2, n1 + 2, e2)
       /\ HasEntry(b4, k3, n2 + 2, e3) /\ HasEntry(b4, k4, n3 + 2, e4)
  <2>1. /\ HasEntry(b4, k1, 1, e1) /\ HasEntry(b4, k2, n1 + 2, e2)
        /\ HasEntry(b4, k3, n2 + 2, e3)
    BY <1>1, <1>2, <1>4, <1>9, EntryKept
  <2>2. HasEntry(b4, k4, n3 + 2, e4)
    BY <1>1, <1>2, <1>4, <1>9, EntryAdded DEF n3
  <2>3. QED
    BY <2>1, <2>2
<1>11. /\ HasEntry(b4, k1, 1, e1) /\ HasEntry(b4, k2, 4 + l1, e2)
       /\ HasEntry(b4, k3, 7 + l1 + l2, e3) /\ HasEntry(b4, k4, 10 + l1 + l2 + l3, e4)
  BY <1>7, <1>10
<1>12. QED
  BY <1>2, <1>7, <1>11 DEF FourEntries, k1, k2, k3, k4, l1, l2, l3, l4, n4

\* The page's body of a form has the four entries.
LEMMA BodyEntries ==
  ASSUME NEW f \in Forms
  PROVE  FourEntries(Body(f), Encoded(f.ssid), Encoded(f.password), Encoded(f.name), Encoded(f.token))
<1> DEFINE e1 == Encoded(f.ssid)
           e2 == Encoded(f.password)
           e3 == Encoded(f.name)
           e4 == Encoded(f.token)
           b1 == <<"ssid", "=">> \o e1
           b2 == (b1 \o <<"&", "password", "=">>) \o e2
           b3 == (b2 \o <<"&", "device_name", "=">>) \o e3
           b4 == (b3 \o <<"&", "auth_token", "=">>) \o e4
<1>1. e1 \in Values /\ e2 \in Values /\ e3 \in Values /\ e4 \in Values
  <2>1. /\ f.ssid \in Seq(Bytes) /\ f.password \in Seq(Bytes)
        /\ f.name \in Seq(Bytes) /\ f.token \in Seq(Bytes)
    BY FormsAssumption
  <2>2. QED
    BY <2>1, EncodedType DEF Values
<1>2. Body(f) = b4
  BY DEF Body
<1> HIDE DEF e1, e2, e3, e4
<1>3. "password" \in Keys /\ "device_name" \in Keys /\ "auth_token" \in Keys /\ "ssid" \in Keys
  BY DEF Keys
<1>4. b1 \in Seq(Symbol)
  BY <1>1, <1>3, FirstEntry
<1>5. Added(b1, "password", e2, b2)
  <2> HIDE DEF b1
  <2>1. QED
    BY <1>1, <1>3, <1>4, AddedPlaces
<1> HIDE DEF b2
<1>6. Added(b2, "device_name", e3, b3)
  <2>1. b2 \in Seq(Symbol)
    BY <1>5 DEF Added
  <2>2. QED
    BY <1>1, <1>3, <2>1, AddedPlaces
<1> HIDE DEF b3
<1>7. Added(b3, "auth_token", e4, b4)
  <2>1. b3 \in Seq(Symbol)
    BY <1>6 DEF Added
  <2>2. QED
    BY <1>1, <1>3, <2>1, AddedPlaces
<1> HIDE DEF b4
<1>8. b1 = <<"ssid", "=">> \o e1
  OBVIOUS
<1> HIDE DEF b1
<1>9. FourEntries(b4, e1, e2, e3, e4)
  BY <1>1, <1>5, <1>6, <1>7, <1>8, FourAdded
<1>10. QED
  BY <1>2, <1>9 DEF e1, e2, e3, e4

-----------------------------------------------------------------------------
(* What is received of a form *)

\* v is what n bytes of a body give for the text t, whose key is at place p
FieldFrom(n, p, t, v, room) ==
  /\ v \in Seq(Bytes) /\ Len(v) <= room
  /\ v # <<>> => n > p + 1
  /\ n >= p + 1 + Len(Encoded(t)) => v = Cut(t, room)
  /\ t = <<>> => v = <<>>

FieldOf(body, key, n, room) == Lenient(Value(SubSeq(body, 1, n), key), room)

\* A field of a form of which n bytes were received
LEMMA FieldReceived ==
  ASSUME NEW body \in Seq(Symbol), NEW key, NEW p, NEW t \in Seq(Bytes),
         HasEntry(body, key, p, Encoded(t)), NEW n \in 1..Len(body), NEW room \in Nat \ {0}
  PROVE  FieldFrom(n, p, t, FieldOf(body, key, n, room), room)
<1> DEFINE e == Encoded(t)
           v == FieldOf(body, key, n, room)
           l == Len(e)
           got == Part(n, p, l)
           raw == SubSeq(e, 1, got)
<1>1. e \in Values /\ e \in Seq(Bytes) /\ l \in Nat
  <2>1. e \in Values /\ e \in Seq(Bytes)
    BY EncodedType DEF Values
  <2>2. QED
    BY <2>1, LenProperties
<1>2. p \in Nat \ {0}
  BY DEF HasEntry
<1>3. Value(SubSeq(body, 1, n), key) = raw
  <2> HIDE DEF e
  <2>1. body \in Seq(Bytes \cup Keys) /\ e \in Seq(Bytes \ {"&"})
    BY <1>1 DEF Symbol, Values
  <2>2. HasEntry(body, key, p, e)
    BY DEF e
  <2>3. QED
    BY <2>1, <2>2, ValueOfBeginning
<1>4. got \in 0..l /\ (n <= p + 1 => got = 0) /\ (n >= p + 1 + l => got = l)
  <2> HIDE DEF l
  <2>1. n \in Int
    OBVIOUS
  <2>2. QED
    BY <1>1, <1>2, <2>1 DEF Part
<1> HIDE DEF e, l, got
<1>5. raw \in Seq(Bytes)
  <2>1. \A i \in 1..got : e[i] \in Bytes
    <3>1. ASSUME NEW i \in 1..got PROVE e[i] \in Bytes
      <4>1. i \in 1..Len(e)
        BY <1>1, <1>4 DEF l
      <4>2. QED
        BY <1>1, <4>1, LenProperties
    <3>2. QED
      BY <3>1
  <2>2. 1 \in Int /\ got \in Int
    BY <1>1, <1>4
  <2>3. QED
    BY <2>1, <2>2, SubSeqProperties
<1>6. got = 0 => raw = <<>>
  BY SubSeqEmpty
<1>7. got = l => raw = e
  BY <1>1, SubSeqFull DEF l
<1>8. t = <<>> => l = 0
  <2>1. t = <<>> => e = <<>>
    BY EncodedEmpty DEF e
  <2>2. QED
    BY <2>1, EmptySeq DEF l
<1> HIDE DEF raw
<1>9. v = Lenient(raw, room)
  BY <1>3 DEF FieldOf
<1> HIDE DEF v
<1>10. v \in Seq(Bytes) /\ Len(v) <= room /\ (raw = <<>> => v = <<>>)
  BY <1>5, <1>9, LenientFacts
<1>11. v # <<>> => n > p + 1
  <2>1. n \in Int
    OBVIOUS
  <2>2. ~(n <= p + 1) => n > p + 1
    BY <1>2, <2>1
  <2>3. QED
    BY <1>4, <1>6, <1>10, <2>2
<1>12. n >= p + 1 + l => v = Cut(t, room)
  <2>1. raw = e => v = Cut(t, room)
    BY <1>9, LenientEncoded DEF e
  <2>2. QED
    BY <1>4, <1>7, <2>1
<1>13. t = <<>> => v = <<>>
  <2>1. l = 0 => got = 0
    BY <1>4
  <2>2. QED
    BY <1>6, <1>8, <1>10, <2>1
<1>14. QED
  BY <1>10, <1>11, <1>12, <1>13 DEF l, e, v, FieldFrom

\* what fields tell of the form they came from
Tells(s, f) ==
  /\ s.ssid \in Seq(Bytes) /\ s.password \in Seq(Bytes) /\ s.name \in Seq(Bytes) /\ s.token \in Seq(Bytes)
  /\ s.name # NoText => s.ssid = Cut(f.ssid, Width["ssid"]) /\ s.password = Cut(f.password, Width["password"])
  /\ f.token = NoText => s.token = NoText

TellsAll(s, f) == s.name = Cut(f.name, Width["name"]) /\ s.token = Cut(f.token, Width["token"])

\* The four fields of such a form
LEMMA ReceivedFacts ==
  ASSUME NEW f \in Forms, NEW n \in 1..Len(Body(f))
  PROVE  LET s == Received(SubSeq(Body(f), 1, n)) IN
           Tells(s, f) /\ (n = Len(Body(f)) => TellsAll(s, f))
<1> DEFINE body == Body(f)
           l1 == Len(Encoded(f.ssid))
           l2 == Len(Encoded(f.password))
           l3 == Len(Encoded(f.name))
           l4 == Len(Encoded(f.token))
           v1 == FieldOf(body, "ssid", n, Width["ssid"])
           v2 == FieldOf(body, "password", n, Width["password"])
           v3 == FieldOf(body, "device_name", n, Width["name"])
           v4 == FieldOf(body, "auth_token", n, Width["token"])
           p2 == 4 + l1
           p3 == 7 + l1 + l2
           p4 == 10 + l1 + l2 + l3
<1>1. /\ f.ssid \in Seq(Bytes) /\ f.password \in Seq(Bytes)
      /\ f.name \in Seq(Bytes) /\ f.token \in Seq(Bytes)
  BY FormsAssumption
<1>2. l1 \in Nat /\ l2 \in Nat /\ l3 \in Nat /\ l4 \in Nat
  <2>1. /\ Encoded(f.ssid) \in Seq(Bytes) /\ Encoded(f.password) \in Seq(Bytes)
        /\ Encoded(f.name) \in Seq(Bytes) /\ Encoded(f.token) \in Seq(Bytes)
    BY <1>1, EncodedType
  <2>2. QED
    BY <2>1, LenProperties
<1>3. /\ Width["ssid"] \in Nat \ {0} /\ Width["password"] \in Nat \ {0}
      /\ Width["name"] \in Nat \ {0} /\ Width["token"] \in Nat \ {0}
  BY WidthAssumption
<1>4. /\ body \in Seq(Symbol) /\ Len(body) = 11 + l1 + l2 + l3 + l4
      /\ HasEntry(body, "ssid", 1, Encoded(f.ssid))
      /\ HasEntry(body, "password", p2, Encoded(f.password))
      /\ HasEntry(body, "device_name", p3, Encoded(f.name))
      /\ HasEntry(body, "auth_token", p4, Encoded(f.token))
  BY BodyEntries DEF FourEntries
<1>5. Received(SubSeq(body, 1, n)) = [ssid |-> v1, password |-> v2, name |-> v3, token |-> v4]
  BY DEF Received, FieldOf
<1> HIDE DEF body, v1, v2, v3, v4, l1, l2, l3, l4, p2, p3, p4
<1>6. n \in 1..Len(body) /\ n \in Int
  BY DEF body
<1>7. FieldFrom(n, 1, f.ssid, v1, Width["ssid"])
  BY <1>1, <1>3, <1>4, <1>6, FieldReceived DEF v1
<1>8. FieldFrom(n, p2, f.password, v2, Width["password"])
  BY <1>1, <1>3, <1>4, <1>6, FieldReceived DEF v2
<1>9. FieldFrom(n, p3, f.name, v3, Width["name"])
  BY <1>1, <1>3, <1>4, <1>6, FieldReceived DEF v3
<1>10. FieldFrom(n, p4, f.token, v4, Width["token"])
  BY <1>1, <1>3, <1>4, <1>6, FieldReceived DEF v4
<1>11. v3 # <<>> => n >= 1 + 1 + l1 /\ n >= p2 + 1 + l2
  <2>1. n > p3 + 1 => n >= 1 + 1 + l1 /\ n >= p2 + 1 + l2
    BY <1>2, <1>6 DEF p2, p3
  <2>2. QED
    BY <1>9, <2>1 DEF FieldFrom
<1>12. n = Len(body) => n >= p3 + 1 + l3 /\ n >= p4 + 1 + l4
  BY <1>2, <1>4, <1>6 DEF p3, p4
<1> DEFINE s == [ssid |-> v1, password |-> v2, name |-> v3, token |-> v4]
<1>13. s.ssid = v1 /\ s.password = v2 /\ s.name = v3 /\ s.token = v4
  OBVIOUS
<1> HIDE DEF s
<1>14. /\ v1 \in Seq(Bytes) /\ v2 \in Seq(Bytes) /\ v3 \in Seq(Bytes) /\ v4 \in Seq(Bytes)
       /\ f.token = <<>> => v4 = <<>>
  BY <1>7, <1>8, <1>9, <1>10 DEF FieldFrom
<1>15. v3 # <<>> => v1 = Cut(f.ssid, Width["ssid"]) /\ v2 = Cut(f.password, Width["password"])
  BY <1>7, <1>8, <1>11 DEF FieldFrom, l1, l2
<1>16. n = Len(body) => v3 = Cut(f.name, Width["name"]) /\ v4 = Cut(f.token, Width["token"])
  BY <1>9, <1>10, <1>12 DEF FieldFrom, l3, l4
<1>17. Tells(s, f)
  BY <1>13, <1>14, <1>15 DEF Tells, NoText
<1>18. n = Len(body) => TellsAll(s, f)
  BY <1>13, <1>16 DEF TellsAll
<1>19. QED
  BY <1>5, <1>17, <1>18 DEF body, s

\* For every form and every beginning of it that is received: the name comes after
\* the credentials, so that if any of it is there, which
\* provisioning_service_submit asks for, they are as typed, in the width of their
\* fields.  Of a form received whole all is.
THEOREM ReceptionFacts ==
  ASSUME NEW f \in Forms, NEW got \in Receptions[f]
  PROVE  /\ Tells(got.fields, f) /\ got.whole \in BOOLEAN
         /\ got.whole => TellsAll(got.fields, f)
<1>1. got \in {[fields |-> Received(SubSeq(Body(f), 1, n)), whole |-> n = Len(Body(f))] :
                 n \in 1..Len(Body(f))}
  BY DEF Receptions
<1>2. PICK n \in 1..Len(Body(f)) :
        got = [fields |-> Received(SubSeq(Body(f), 1, n)), whole |-> n = Len(Body(f))]
  BY <1>1
<1>3. got.fields = Received(SubSeq(Body(f), 1, n))
  BY <1>2
<1>4. got.whole = (n = Len(Body(f)))
  BY <1>2
<1>5. Tells(got.fields, f) /\ (n = Len(Body(f)) => TellsAll(got.fields, f))
  BY <1>3, ReceivedFacts
<1>6. QED
  BY <1>4, <1>5, Zenon
=============================================================================
