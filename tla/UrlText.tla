------------------------------- MODULE UrlText -------------------------------
(***************************************************************************)
(* Form and query text.  A text is a sequence of bytes; a byte is a        *)
(* character, or stands for itself alone (the two bytes of a letter with an *)
(* accent).  The browser encodes; the firmware decodes in three places.    *)
(***************************************************************************)
EXTENDS Integers, Sequences

CONSTANT Bytes   \* what texts are made of

\* external: what URLSearchParams writes for a byte that it does not keep
Escape == [c \in {"%", "&", "+", "=", "c3", "a9"} |->
             CASE c = "%" -> <<"%", "2", "5">> [] c = "&" -> <<"%", "2", "6">>
               [] c = "+" -> <<"%", "2", "B">> [] c = "=" -> <<"%", "3", "D">>
               [] c = "c3" -> <<"%", "C", "3">> [] c = "a9" -> <<"%", "A", "9">>]

HexDigit == {"2", "3", "5", "6", "9", "A", "B", "C", "D"}

Bad == "bad"   \* stands where a decoder gives up

\* a key of a form is one symbol; neither it nor Bad is a byte
ASSUME BytesAssumption ==
  /\ HexDigit \cup DOMAIN Escape \cup {" ", "other"} \subseteq Bytes
  /\ Bytes \cap {"ssid", "password", "device_name", "auth_token", Bad} = {}

\* the byte of two hexadecimal digits; any other byte is of no interest here
Byte(hi, lo) ==
  IF \E c \in DOMAIN Escape : Escape[c] = <<"%", hi, lo>>
  THEN CHOOSE c \in DOMAIN Escape : Escape[c] = <<"%", hi, lo>>
  ELSE "other"

EncodedByte(c) ==
  IF c = " " THEN <<"+">> ELSE IF c \in DOMAIN Escape THEN Escape[c] ELSE <<c>>

\* the pieces of a text, one after the other: piece[i] is what comes from place i
\* of a text of n bytes, next[i] the place that is read after it
Joined(n, piece, next) ==
  LET from[i \in 1..(n + 1)] == IF i > n THEN <<>> ELSE piece[i] \o from[next[i]]
  IN  from[1]

\* external
Encoded(text) ==
  Joined(Len(text), [i \in DOMAIN text |-> EncodedByte(text[i])], [i \in DOMAIN text |-> i + 1])

Cut(text, room) == SubSeq(text, 1, IF Len(text) > room THEN room ELSE Len(text))

\* the decoders' loop: at an escape that is none they go on with onBad
Decoded(raw, onBad) ==
  LET escape(i) == raw[i] = "%" /\ i + 2 <= Len(raw)
      hex(i) == raw[i + 1] \in HexDigit /\ raw[i + 2] \in HexDigit
      piece(i) == IF raw[i] = "+" THEN <<" ">>
                  ELSE IF ~escape(i) THEN <<raw[i]>>
                  ELSE IF hex(i) THEN <<Byte(raw[i + 1], raw[i + 2])>> ELSE <<onBad>>
  IN  Joined(Len(raw), [i \in DOMAIN raw |-> piece(i)],
             [i \in DOMAIN raw |-> IF escape(i) /\ hex(i) THEN i + 3 ELSE i + 1])

\* mutated: the value is cut to its field before it is decoded
LenientAfterCut(raw, room) == Decoded(Cut(raw, room), "%")

\* provisioning_http_copy_value: an escape that is none stays as it is
Lenient(raw, room) == Cut(Decoded(raw, "%"), room)

\* mcp_server_decode_component, mcp_dispatch_copy_decoded_value: it is an
\* error, unless the room was used up before; an error gives no text
Strict(raw, room) ==
  LET text == Cut(Decoded(raw, Bad), room) IN
    IF \E i \in DOMAIN text : text[i] = Bad THEN <<>> ELSE text

\* the value of a key, which is one symbol here, in key=value&key=value:
\* the first entry that begins with the key and "="
Value(body, key) ==
  LET starts == {i \in 1..(Len(body) - 1) :
                   /\ body[i] = key /\ body[i + 1] = "="
                   /\ (i = 1 \/ body[i - 1] = "&")}
      first == CHOOSE i \in starts : \A j \in starts : i <= j
      ends == {j \in (first + 2)..Len(body) : body[j] = "&"} \cup {Len(body) + 1}
      end == CHOOSE j \in ends : \A k \in ends : j <= k
  IN  IF starts = {} THEN <<>> ELSE SubSeq(body, first + 2, end - 1)
=============================================================================
