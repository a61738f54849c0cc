------------------------- MODULE WifiStation_proofs ------------------------
(***************************************************************************)
(* Theorems about WifiStation, for an event queue of any length.           *)
(*                                                                         *)
(* The argument is about what is still in the queue: handled in order, the *)
(* events turn the flags of g_status into what the driver has (Tells), and *)
(* the events of a former link come before the start of the access point   *)
(* without which no form can ask for the next attempt (Overtaken).         *)
(***************************************************************************)
EXTENDS WifiStation, SequenceTheorems, TLAPS

-----------------------------------------------------------------------------
(* The inductive invariant *)

ApEvents   == {"AP_START", "AP_STOP"}
LinkEvents == {"GOT_IP", "STA_DISCONNECTED"}

FreeOf(q, S) == \A i \in DOMAIN q : q[i] \notin S

\* Once the events of q are handled, a flag that yes sets and no clears has
\* the value v; it has the value f now.
Tells(q, yes, no, f, v) ==
  /\ FreeOf(q, {yes, no}) => (f <=> v)
  /\ \A i \in DOMAIN q :
       /\ q[i] \in {yes, no}
       /\ \A j \in DOMAIN q : j > i => q[j] \notin {yes, no}
       => (q[i] = yes <=> v)

\* The events tell the access point's flag what the driver has
ApTells == Tells(events, "AP_START", "AP_STOP", st.apUp, ApOn(driver))

\* Where the access point is off, in g_status and for events to come, too
StationPlaces == {"connect", "clear", "join", "wait", "online"}

ApIsOff == /\ ~ApOn(driver) /\ ~st.apUp
           /\ FreeOf(events, {"AP_START"})

ApPlaces ==
  /\ tool # "down" =>
       main \in {"online", "disconnect", "disconnect_status", "mcp_join"}
  /\ main \in StationPlaces \/ tool # "down" => ApIsOff
  /\ main = "stop_ap" => FreeOf(events, {"AP_START"})
  /\ main = "begin" => /\ ApIsOff /\ events = <<>>
                       /\ driver.link = "none" /\ ~driver.scanning

ApInv == TypeOK /\ ApTells /\ ApPlaces

\* The events tell the status what has become of the link
LinkTells ==
  /\ Tells(events, "GOT_IP", "STA_DISCONNECTED", st.connected,
           driver.link = "address")
  /\ Tells(events, "GOT_IP", "STA_DISCONNECTED", st.ip = "station",
           driver.link = "address")

UnlinkedPlaces == {"begin", "connect", "clear", "join", "disconnect_status",
                   "ap_status", "portal", "stop_ap"}

Unlinked == /\ main \in UnlinkedPlaces => driver.link = "none"
            /\ tool = "disconnect_status" => driver.link = "none"

LinkInv == ~ignored => LinkTells /\ Unlinked

\* An event of a former link is handled before the start of the access point
\* that a client of the portal needs
Overtaken(q) ==
  \A i \in DOMAIN q : q[i] \in LinkEvents =>
    \E j \in DOMAIN q : j > i /\ q[j] = "AP_START"

\* What the wait may find is of this attempt
Fresh == /\ "CONNECTED" \in bits \/ ~FreeOf(events, {"GOT_IP"})
              => "address" \in attempt
         /\ "FAILED" \in bits \/ ~FreeOf(events, {"STA_DISCONNECTED"})
              => "drop" \in attempt

Attempts ==
  /\ main \in {"ap_status", "portal"} => Overtaken(events)
  /\ main \in {"stop_ap", "connect", "clear", "join"} =>
       FreeOf(events, LinkEvents)
  /\ main = "join" => bits \cap {"CONNECTED", "FAILED"} = {}
  /\ main = "wait" => Fresh
  /\ answer = "ok" => "address" \in attempt
  /\ answer = "failed" => "drop" \in attempt

AttemptInv == ~ignored => Attempts

-----------------------------------------------------------------------------
(* Events in a queue *)

LEMMA ConcatFree ==
  ASSUME NEW q \in Seq(Events), NEW es \in Seq(Events), NEW S
  PROVE  FreeOf(q \o es, S) <=> FreeOf(q, S) /\ FreeOf(es, S)
<1>1. /\ DOMAIN q = 1 .. Len(q) /\ DOMAIN es = 1 .. Len(es)
      /\ DOMAIN (q \o es) = 1 .. Len(q) + Len(es)
      /\ Len(q) \in Nat /\ Len(es) \in Nat
      /\ \A i \in 1 .. Len(q) + Len(es) :
           (q \o es)[i] = IF i <= Len(q) THEN q[i] ELSE es[i - Len(q)]
  BY ConcatProperties, LenProperties
<1>2. ASSUME FreeOf(q \o es, S) PROVE FreeOf(q, S) /\ FreeOf(es, S)
  <2>1. ASSUME NEW i \in 1 .. Len(q) PROVE q[i] \notin S
    BY <1>1, <1>2 DEF FreeOf
  <2>2. ASSUME NEW i \in 1 .. Len(es) PROVE es[i] \notin S
    <3>1. /\ i + Len(q) \in 1 .. Len(q) + Len(es)
          /\ ~(i + Len(q) <= Len(q)) /\ (i + Len(q)) - Len(q) = i
      BY <1>1
    <3>2. QED
      BY <1>1, <1>2, <3>1 DEF FreeOf
  <2>3. QED
    BY <1>1, <2>1, <2>2 DEF FreeOf
<1>3. ASSUME FreeOf(q, S), FreeOf(es, S) PROVE FreeOf(q \o es, S)
  <2>1. ASSUME NEW i \in 1 .. Len(q) + Len(es) PROVE (q \o es)[i] \notin S
    <3>1. i <= Len(q) => i \in 1 .. Len(q)
      BY <1>1
    <3>2. ~(i <= Len(q)) => i - Len(q) \in 1 .. Len(es)
      BY <1>1
    <3>3. QED
      BY <1>1, <1>3, <3>1, <3>2 DEF FreeOf
  <2>2. QED
    BY <1>1, <2>1 DEF FreeOf
<1>4. QED
  BY <1>2, <1>3

LEMMA TailFacts ==
  ASSUME NEW q \in Seq(Events), q # <<>>
  PROVE  /\ Tail(q) \in Seq(Events) /\ Head(q) = q[1] /\ Head(q) \in Events
         /\ DOMAIN q = 1 .. Len(q) /\ Len(q) \in Nat /\ Len(q) >= 1
         /\ DOMAIN Tail(q) = 1 .. Len(q) - 1
         /\ \A i \in 1 .. Len(q) - 1 : Tail(q)[i] = q[i + 1]
<1>1. Len(q) \in Nat \ {0}
  BY EmptySeq
<1>2. QED
  BY <1>1, HeadTailProperties, LenProperties

LEMMA TailFree ==
  ASSUME NEW q \in Seq(Events), q # <<>>, NEW S
  PROVE  FreeOf(q, S) <=> Head(q) \notin S /\ FreeOf(Tail(q), S)
<1>1. ASSUME FreeOf(q, S) PROVE Head(q) \notin S /\ FreeOf(Tail(q), S)
  <2>1. \A i \in 1 .. Len(q) - 1 : i + 1 \in 1 .. Len(q)
    BY TailFacts
  <2>2. 1 \in 1 .. Len(q)
    BY TailFacts
  <2>3. QED
    BY <1>1, <2>1, <2>2, TailFacts DEF FreeOf
<1>2. ASSUME Head(q) \notin S, FreeOf(Tail(q), S) PROVE FreeOf(q, S)
  <2>1. ASSUME NEW i \in 1 .. Len(q) PROVE q[i] \notin S
    <3>1. CASE i = 1
      BY <1>2, <3>1, TailFacts
    <3>2. CASE i # 1
      <4>1. i - 1 \in DOMAIN Tail(q) /\ Tail(q)[i - 1] = q[i]
        <5>1. i - 1 \in 1 .. Len(q) - 1 /\ (i - 1) + 1 = i
          BY <3>2, TailFacts
        <5>2. QED
          BY <5>1, TailFacts
      <4>2. QED
        BY <1>2, <4>1 DEF FreeOf
    <3>3. QED
      BY <3>1, <3>2
  <2>2. QED
    BY <2>1, TailFacts DEF FreeOf
<1>3. QED
  BY <1>1, <1>2

LEMMA ConcatTells ==
  ASSUME NEW q \in Seq(Events), NEW es \in Seq(Events), NEW yes, NEW no,
         NEW f \in BOOLEAN, NEW v \in BOOLEAN, NEW w \in BOOLEAN,
         Tells(q, yes, no, f, v), Tells(es, yes, no, v, w)
  PROVE  Tells(q \o es, yes, no, f, w)
<1> DEFINE S == {yes, no}
           r == q \o es
<1>1. /\ DOMAIN q = 1 .. Len(q) /\ DOMAIN es = 1 .. Len(es)
      /\ DOMAIN r = 1 .. Len(q) + Len(es)
      /\ Len(q) \in Nat /\ Len(es) \in Nat
      /\ \A i \in 1 .. Len(q) + Len(es) :
           r[i] = IF i <= Len(q) THEN q[i] ELSE es[i - Len(q)]
  BY ConcatProperties, LenProperties
<1>2. /\ FreeOf(q, S) => (f <=> v)
      /\ \A i \in DOMAIN q :
           q[i] \in S /\ (\A j \in DOMAIN q : j > i => q[j] \notin S)
             => (q[i] = yes <=> v)
      /\ FreeOf(es, S) => (v <=> w)
      /\ \A i \in DOMAIN es :
           es[i] \in S /\ (\A j \in DOMAIN es : j > i => es[j] \notin S)
             => (es[i] = yes <=> w)
  BY DEF Tells
<1>3. FreeOf(r, S) => FreeOf(q, S) /\ FreeOf(es, S)
  BY ConcatFree
<1>4. \A i \in 1 .. Len(es) : /\ i + Len(q) \in 1 .. Len(q) + Len(es)
                              /\ r[i + Len(q)] = es[i]
  <2>1. ASSUME NEW i \in 1 .. Len(es)
        PROVE  /\ i + Len(q) \in 1 .. Len(q) + Len(es)
               /\ ~(i + Len(q) <= Len(q)) /\ (i + Len(q)) - Len(q) = i
    BY <1>1
  <2>2. QED
    BY <1>1, <2>1
<1>5. \A i \in 1 .. Len(q) : i \in 1 .. Len(q) + Len(es) /\ r[i] = q[i]
  BY <1>1
<1> HIDE DEF S, r
<1>6. ASSUME NEW i \in DOMAIN r, r[i] \in S,
             \A j \in DOMAIN r : j > i => r[j] \notin S
      PROVE  r[i] = yes <=> w
  <2>1. CASE i <= Len(q)
    <3>1. i \in 1 .. Len(q) /\ r[i] = q[i]
      BY <1>1, <1>5, <2>1
    <3>2. \A j \in 1 .. Len(q) : j > i => q[j] \notin S
      BY <1>1, <1>5, <1>6
    <3>3. ASSUME NEW j \in 1 .. Len(es) PROVE es[j] \notin S
      <4>1. j + Len(q) > i
        BY <1>1, <2>1, <3>1
      <4>2. QED
        BY <1>1, <1>4, <1>6, <4>1
    <3>4. FreeOf(es, S)
      BY <1>1, <3>3 DEF FreeOf
    <3>5. QED
      BY <1>1, <1>2, <1>6, <3>1, <3>2, <3>4
  <2>2. CASE ~(i <= Len(q))
    <3>1. i - Len(q) \in 1 .. Len(es) /\ r[i] = es[i - Len(q)]
      BY <1>1, <2>2
    <3>2. ASSUME NEW j \in 1 .. Len(es), j > i - Len(q) PROVE es[j] \notin S
      <4>1. j + Len(q) > i
        BY <1>1, <3>1, <3>2
      <4>2. QED
        BY <1>1, <1>4, <1>6, <4>1
    <3>3. QED
      BY <1>1, <1>2, <1>6, <3>1, <3>2
  <2>3. QED
    BY <2>1, <2>2
<1>7. FreeOf(r, S) => (f <=> w)
  BY <1>2, <1>3
<1>8. QED
  BY <1>6, <1>7 DEF Tells, S, r

\* The flag that the handler of the first event leaves
LEMMA TailTells ==
  ASSUME NEW q \in Seq(Events), q # <<>>, NEW yes, NEW no, yes # no,
         NEW f \in BOOLEAN, NEW g \in BOOLEAN, NEW v \in BOOLEAN,
         Tells(q, yes, no, f, v),
         Head(q) = yes => g, Head(q) = no => ~g,
         Head(q) \notin {yes, no} => (g <=> f)
  PROVE  Tells(Tail(q), yes, no, g, v)
<1> DEFINE S == {yes, no}
           r == Tail(q)
<1>1. /\ DOMAIN q = 1 .. Len(q) /\ Len(q) \in Nat /\ Len(q) >= 1
      /\ DOMAIN r = 1 .. Len(q) - 1 /\ Head(q) = q[1]
      /\ \A i \in 1 .. Len(q) - 1 : r[i] = q[i + 1]
  BY TailFacts
<1>2. /\ FreeOf(q, S) => (f <=> v)
      /\ \A i \in DOMAIN q :
           q[i] \in S /\ (\A j \in DOMAIN q : j > i => q[j] \notin S)
             => (q[i] = yes <=> v)
  BY DEF Tells
<1>3. ASSUME NEW i \in DOMAIN q, i > 1
      PROVE  i - 1 \in DOMAIN r /\ r[i - 1] = q[i]
  <2>1. i - 1 \in 1 .. Len(q) - 1 /\ (i - 1) + 1 = i
    BY <1>1, <1>3
  <2>2. QED
    BY <1>1, <2>1
<1>4. \A i \in DOMAIN r : i + 1 \in DOMAIN q /\ i + 1 > 1 /\ r[i] = q[i + 1]
  BY <1>1
<1>5. FreeOf(q, S) <=> Head(q) \notin S /\ FreeOf(r, S)
  BY TailFree
<1>6. 1 \in DOMAIN q
  BY <1>1
<1>7. DOMAIN r \subseteq Int /\ DOMAIN q \subseteq Int
  BY <1>1
<1> HIDE DEF r
<1>8. ASSUME FreeOf(r, S) PROVE g <=> v
  <2>1. CASE Head(q) \notin S
    BY <1>2, <1>5, <1>8, <2>1
  <2>2. CASE Head(q) \in S
    <3>1. \A j \in DOMAIN q : j > 1 => q[j] \notin S
      BY <1>3, <1>8 DEF FreeOf
    <3>2. q[1] = yes <=> v
      BY <1>1, <1>2, <1>6, <2>2, <3>1
    <3>3. QED
      BY <1>1, <2>2, <3>2
  <2>3. QED
    BY <2>1, <2>2
<1>9. ASSUME NEW i \in DOMAIN r, r[i] \in S,
             \A j \in DOMAIN r : j > i => r[j] \notin S
      PROVE  r[i] = yes <=> v
  <2>1. ASSUME NEW j \in DOMAIN q, j > i + 1 PROVE q[j] \notin S
    <3>1. j > 1 /\ j - 1 > i
      BY <1>1, <2>1
    <3>2. QED
      BY <1>3, <1>9, <3>1
  <2>2. QED
    BY <1>2, <1>4, <1>9, <2>1
<1>10. QED
  BY <1>8, <1>9 DEF Tells, r, S

-----------------------------------------------------------------------------
(* What a call posts *)

LEMMA EventIfTells ==
  ASSUME NEW c \in BOOLEAN, NEW e \in Events, NEW yes, NEW no, yes # no,
         NEW v \in BOOLEAN, NEW w \in BOOLEAN,
         c /\ e = yes => w, c /\ e = no => ~w,
         ~(c /\ e \in {yes, no}) => (w <=> v)
  PROVE  EventIf(c, e) \in Seq(Events) /\ Tells(EventIf(c, e), yes, no, v, w)
<1>1. CASE c
  <2>1. EventIf(c, e) = <<e>> /\ DOMAIN <<e>> = {1} /\ <<e>>[1] = e
    BY <1>1 DEF EventIf
  <2>2. <<e>> \in Seq(Events)
    OBVIOUS
  <2>3. QED
    BY <1>1, <2>1, <2>2 DEF Tells, FreeOf
<1>2. CASE ~c
  <2>1. EventIf(c, e) = <<>> /\ DOMAIN <<>> = {}
    BY <1>2 DEF EventIf
  <2>2. QED
    BY <1>2, <2>1, EmptySeq DEF Tells, FreeOf
<1>3. QED
  BY <1>1, <1>2

LEMMA EventIfFree ==
  ASSUME NEW c \in BOOLEAN, NEW e \in Events, NEW S, c => e \notin S
  PROVE  FreeOf(EventIf(c, e), S)
<1>1. CASE c
  BY <1>1 DEF EventIf, FreeOf
<1>2. CASE ~c
  BY <1>2 DEF EventIf, FreeOf
<1>3. QED
  BY <1>1, <1>2

Drivers == [mode : {"STA", "APSTA"}, on : BOOLEAN, link : Links,
            scanning : BOOLEAN]

LEMMA EventNames ==
  /\ "AP_START" \in Events /\ "AP_STOP" \in Events
  /\ "STA_CONNECTED" \in Events /\ "GOT_IP" \in Events
  /\ "STA_DISCONNECTED" \in Events /\ "SCAN_DONE" \in Events
BY DEF Events

LEMMA StoppedType ==
  ASSUME NEW d \in Drivers
  PROVE  /\ Stopped(d) \in Drivers /\ Stopped(d).link = "none"
         /\ Stopped(d).on = FALSE /\ Stopped(d).scanning = FALSE
<1>1. Stopped(d) \in Drivers
  BY DEF Stopped, Drivers, Links
<1>2. QED
  BY <1>1 DEF Stopped, Drivers

LEMMA StartedType ==
  ASSUME NEW d \in Drivers, NEW mode \in {"STA", "APSTA"}
  PROVE  /\ Started(d, mode) \in Drivers /\ Started(d, mode).link = d.link
         /\ Started(d, mode).scanning = d.scanning
         /\ ApOn(Started(d, mode)) <=> mode = "APSTA"
<1>1. Started(d, mode) \in Drivers
  BY DEF Started, Drivers
<1>2. QED
  BY <1>1 DEF Started, Drivers, ApOn

\* esp_wifi_stop: the driver is off, and says what it gave up
LEMMA StopFacts ==
  ASSUME NEW d \in Drivers
  PROVE  /\ Stopped(d) \in Drivers /\ Stopped(d).link = "none"
         /\ Stopped(d).on = FALSE /\ Stopped(d).scanning = FALSE
         /\ StopEvents(d) \in Seq(Events)
         /\ FreeOf(StopEvents(d), {"AP_START", "GOT_IP"})
         /\ d.link = "none" => FreeOf(StopEvents(d), LinkEvents)
         /\ Tells(StopEvents(d), "AP_START", "AP_STOP", ApOn(d), FALSE)
         /\ Tells(StopEvents(d), "GOT_IP", "STA_DISCONNECTED",
                  d.link = "address", FALSE)
<1> DEFINE linked == d.link # "none"
           scan == d.scanning
           link == d.link = "address"
           ap == ApOn(d)
           no == FALSE
           a == EventIf(linked, "STA_DISCONNECTED")
           b == EventIf(scan, "SCAN_DONE")
           c == EventIf(ap, "AP_STOP")
<1>1. /\ linked \in BOOLEAN /\ scan \in BOOLEAN /\ no \in BOOLEAN
      /\ ap \in BOOLEAN /\ link \in BOOLEAN
      /\ (~linked => ~link) /\ ~no
      /\ (d.link = "none" <=> ~linked)
  BY DEF Drivers, ApOn
<1>3. StopEvents(d) = a \o b \o c
  BY DEF StopEvents
<1> HIDE DEF linked, scan, link, ap, no
<1>6. /\ a \in Seq(Events)
      /\ Tells(a, "AP_START", "AP_STOP", ap, ap)
      /\ Tells(a, "GOT_IP", "STA_DISCONNECTED", link, no)
  BY <1>1, EventNames, EventIfTells
<1>7. /\ b \in Seq(Events)
      /\ Tells(b, "AP_START", "AP_STOP", ap, ap)
      /\ Tells(b, "GOT_IP", "STA_DISCONNECTED", no, no)
  BY <1>1, EventNames, EventIfTells
<1>8. /\ c \in Seq(Events)
      /\ Tells(c, "AP_START", "AP_STOP", ap, no)
      /\ Tells(c, "GOT_IP", "STA_DISCONNECTED", no, no)
  BY <1>1, EventNames, EventIfTells
<1>9. /\ FreeOf(a, {"AP_START", "GOT_IP"})
      /\ FreeOf(b, {"AP_START", "GOT_IP"})
      /\ FreeOf(c, {"AP_START", "GOT_IP"})
      /\ ~linked => FreeOf(a, LinkEvents)
      /\ FreeOf(b, LinkEvents) /\ FreeOf(c, LinkEvents)
  BY <1>1, EventNames, EventIfFree DEF LinkEvents
<1> DEFINE ab == a \o b
<1> HIDE DEF a, b, c
<1>10. /\ ab \in Seq(Events)
       /\ Tells(ab, "AP_START", "AP_STOP", ap, ap)
       /\ Tells(ab, "GOT_IP", "STA_DISCONNECTED", link, no)
       /\ FreeOf(ab, {"AP_START", "GOT_IP"})
       /\ ~linked => FreeOf(ab, LinkEvents)
  BY <1>1, <1>6, <1>7, <1>9, ConcatTells, ConcatFree, ConcatProperties
<1> HIDE DEF ab
<1>11. /\ ab \o c \in Seq(Events)
       /\ Tells(ab \o c, "AP_START", "AP_STOP", ap, no)
       /\ Tells(ab \o c, "GOT_IP", "STA_DISCONNECTED", link, no)
       /\ FreeOf(ab \o c, {"AP_START", "GOT_IP"})
       /\ ~linked => FreeOf(ab \o c, LinkEvents)
  BY <1>1, <1>8, <1>9, <1>10, ConcatTells, ConcatFree, ConcatProperties
<1>12. /\ Tells(StopEvents(d), "AP_START", "AP_STOP", ApOn(d), FALSE)
       /\ Tells(StopEvents(d), "GOT_IP", "STA_DISCONNECTED",
                d.link = "address", FALSE)
  BY Zenon, <1>3, <1>11 DEF ap, link, no, ab
<1>13. QED
  BY <1>1, <1>3, <1>11, <1>12, StoppedType DEF ab

\* esp_wifi_set_mode and esp_wifi_start: the link is kept
LEMMA StartFacts ==
  ASSUME NEW d \in Drivers, NEW mode \in {"STA", "APSTA"}
  PROVE  /\ Started(d, mode) \in Drivers /\ Started(d, mode).link = d.link
         /\ Started(d, mode).scanning = d.scanning
         /\ ApOn(Started(d, mode)) <=> mode = "APSTA"
         /\ StartEvents(d, mode) \in Seq(Events)
         /\ FreeOf(StartEvents(d, mode), LinkEvents)
         /\ mode = "STA" => FreeOf(StartEvents(d, mode), {"AP_START"})
         /\ Tells(StartEvents(d, mode), "AP_START", "AP_STOP", ApOn(d),
                  mode = "APSTA")
<1> DEFINE p == ApOn(d) /\ mode = "STA"
           r == ~ApOn(d) /\ mode = "APSTA"
           a == EventIf(p, "AP_STOP")
           b == EventIf(r, "AP_START")
           ap == ApOn(d)
           to == mode = "APSTA"
           mid == ApOn(d) /\ mode # "STA"
<1>1. /\ p \in BOOLEAN /\ r \in BOOLEAN /\ ap \in BOOLEAN /\ to \in BOOLEAN
      /\ mid \in BOOLEAN
      /\ (p => ~mid) /\ (~p => (mid <=> ap))
      /\ (r => to) /\ (~r => (to <=> mid))
  BY DEF Drivers, ApOn
<1>3. StartEvents(d, mode) = a \o b
  BY DEF StartEvents
<1>4. mode = "STA" => ~r
  OBVIOUS
<1> HIDE DEF p, r, ap, to, mid
<1>6. a \in Seq(Events) /\ Tells(a, "AP_START", "AP_STOP", ap, mid)
  BY <1>1, EventNames, EventIfTells
<1>7. b \in Seq(Events) /\ Tells(b, "AP_START", "AP_STOP", mid, to)
  BY <1>1, EventNames, EventIfTells
<1>8. /\ FreeOf(a, LinkEvents) /\ FreeOf(b, LinkEvents)
      /\ FreeOf(a, {"AP_START"}) /\ (~r => FreeOf(b, {"AP_START"}))
  BY <1>1, EventNames, EventIfFree DEF LinkEvents
<1> HIDE DEF a, b
<1>9. /\ a \o b \in Seq(Events)
      /\ Tells(a \o b, "AP_START", "AP_STOP", ap, to)
      /\ FreeOf(a \o b, LinkEvents)
      /\ ~r => FreeOf(a \o b, {"AP_START"})
  BY <1>1, <1>6, <1>7, <1>8, ConcatTells, ConcatFree, ConcatProperties
<1>10. QED
  BY <1>3, <1>4, <1>9, StartedType DEF ap, to

-----------------------------------------------------------------------------
(* Types *)

Statuses == [mode : {"OFF", "STA", "AP"}, connected : BOOLEAN,
             ip : {"none", "station", "ap"}, staUp : BOOLEAN, apUp : BOOLEAN]

LEMMA Posted ==
  ASSUME TypeOK, NEW es \in Seq(Events), Post(es)
  PROVE  events' = events \o es /\ events' \in Seq(Events)
BY ConcatProperties DEF Post, TypeOK

\* What wifi_set_mode_and_start leaves, with or without its stop
LEMMA RestartFacts ==
  ASSUME TypeOK, NEW mode \in {"STA", "APSTA"}, Restart(mode)
  PROVE  \E es \in Seq(Events) :
           /\ events' = events \o es /\ events' \in Seq(Events)
           /\ driver' \in Drivers /\ ignored' \in BOOLEAN
           /\ ApOn(driver') <=> mode = "APSTA"
           /\ Tells(es, "AP_START", "AP_STOP", ApOn(driver), mode = "APSTA")
           /\ mode = "STA" => FreeOf(es, {"AP_START"})
           /\ ~ignored' =>
                /\ ~ignored /\ driver'.link = "none"
                /\ Tells(es, "GOT_IP", "STA_DISCONNECTED",
                         driver.link = "address", FALSE)
                /\ driver.link = "none" => FreeOf(es, LinkEvents)
                /\ mode = "APSTA" => es # <<>> /\ es[Len(es)] = "AP_START"
<1> DEFINE d == Stopped(driver)
           on == ApOn(driver)
           to == mode = "APSTA"
           link == driver.link = "address"
           no == FALSE
<1>1. driver \in Drivers /\ ignored \in BOOLEAN /\ events \in Seq(Events)
  BY DEF TypeOK, Drivers
<1>2. /\ on \in BOOLEAN /\ to \in BOOLEAN /\ link \in BOOLEAN
      /\ no \in BOOLEAN /\ ~no /\ ~ApOn(d)
  BY <1>1, StopFacts DEF ApOn, Drivers
<1>3. CASE RestartWithoutStop(mode)
  <2>1. StartEvents(driver, mode) \in Seq(Events)
    BY <1>1, StartFacts
  <2>2. WITNESS StartEvents(driver, mode) \in Seq(Events)
  <2>3. QED
    BY <1>1, <1>3, <2>1, StartFacts, Posted DEF RestartWithoutStop
<1>4. CASE RestartAfterStop(mode)
  <2> DEFINE s == StopEvents(driver)
             b == StartEvents(d, mode)
  <2>1. /\ d \in Drivers /\ d.link = "none" /\ s \in Seq(Events)
        /\ FreeOf(s, {"AP_START", "GOT_IP"})
        /\ driver.link = "none" => FreeOf(s, LinkEvents)
        /\ Tells(s, "AP_START", "AP_STOP", on, no)
        /\ Tells(s, "GOT_IP", "STA_DISCONNECTED", link, no)
    BY <1>1, StopFacts
  <2>2. /\ Started(d, mode) \in Drivers /\ Started(d, mode).link = "none"
        /\ ApOn(Started(d, mode)) <=> mode = "APSTA"
        /\ b \in Seq(Events) /\ FreeOf(b, LinkEvents)
        /\ mode = "STA" => FreeOf(b, {"AP_START"})
    BY <2>1, StartFacts
  <2>3. Tells(b, "AP_START", "AP_STOP", no, to)
    <3>1. Tells(b, "AP_START", "AP_STOP", ApOn(d), to)
      BY <2>1, StartFacts
    <3>2. QED
      BY <1>2, <3>1 DEF Tells
  <2>4. Tells(b, "GOT_IP", "STA_DISCONNECTED", no, no)
    BY <2>2 DEF Tells, FreeOf, LinkEvents
  <2>5. mode = "APSTA" => b = <<"AP_START">>
    <3>1. mode = "APSTA" => b = <<>> \o <<"AP_START">>
      BY <1>2 DEF StartEvents, EventIf
    <3>2. <<"AP_START">> \in Seq(Events)
      BY EventNames
    <3>3. QED
      BY <3>1, <3>2, ConcatEmptySeq
  <2>6. /\ driver' = Started(d, mode) /\ ignored' = ignored
        /\ events' = events \o (s \o b) /\ events' \in Seq(Events)
        /\ s \o b \in Seq(Events)
    <3>1. s \o b \in Seq(Events)
      BY <2>1, <2>2, ConcatProperties
    <3>2. Post(s \o b)
      BY <1>4 DEF RestartAfterStop
    <3>3. QED
      BY <1>4, <3>1, <3>2, Posted DEF RestartAfterStop
  <2> HIDE DEF s, b, on, to, link, no, d
  <2> DEFINE es == s \o b
  <2>7. /\ Tells(es, "AP_START", "AP_STOP", on, to)
        /\ Tells(es, "GOT_IP", "STA_DISCONNECTED", link, no)
    BY <1>2, <2>1, <2>2, <2>3, <2>4, ConcatTells
  <2>8. /\ mode = "STA" => FreeOf(es, {"AP_START"})
        /\ driver.link = "none" => FreeOf(es, LinkEvents)
    <3>1. FreeOf(s, {"AP_START"})
      BY <2>1 DEF FreeOf
    <3>2. QED
      BY <2>1, <2>2, <3>1, ConcatFree
  <2>9. mode = "APSTA" => es # <<>> /\ es[Len(es)] = "AP_START"
    <3>1. ASSUME mode = "APSTA" PROVE es # <<>> /\ es[Len(es)] = "AP_START"
      <4>1. Len(s) \in Nat /\ Len(b) = 1 /\ b[1] = "AP_START"
        BY <2>1, <2>5, <3>1, LenProperties
      <4>2. /\ Len(es) = Len(s) + 1
            /\ es[Len(s) + 1] = b[(Len(s) + 1) - Len(s)]
        <5>1. /\ Len(es) = Len(s) + Len(b)
              /\ \A i \in 1 .. Len(s) + Len(b) :
                   es[i] = IF i <= Len(s) THEN s[i] ELSE b[i - Len(s)]
          BY <2>1, <2>2, ConcatProperties
        <5>2. /\ Len(s) + 1 \in 1 .. Len(s) + Len(b)
              /\ ~(Len(s) + 1 <= Len(s))
          BY <4>1
        <5>3. QED
          BY <4>1, <5>1, <5>2
      <4>3. (Len(s) + 1) - Len(s) = 1 /\ Len(es) # 0
        BY <4>1, <4>2
      <4>4. es # <<>>
        BY <4>3
      <4>5. QED
        BY <4>1, <4>2, <4>3, <4>4
    <3>2. QED
      BY <3>1
  <2> HIDE DEF es
  <2>10. /\ Tells(es, "AP_START", "AP_STOP", ApOn(driver), mode = "APSTA")
         /\ Tells(es, "GOT_IP", "STA_DISCONNECTED",
                  driver.link = "address", FALSE)
    BY Zenon, <2>7 DEF on, to, link, no
  <2>11. es \in Seq(Events) /\ events' = events \o es
    BY <2>6 DEF es
  <2>12. QED
    BY <1>1, <2>2, <2>6, <2>8, <2>9, <2>10, <2>11
<1>5. QED
  BY <1>3, <1>4 DEF Restart

\* What esp_wifi_stop leaves, alone or before a mode that is refused
LEMMA StopPosts ==
  ASSUME TypeOK, Post(StopEvents(driver)),
         \/ driver' = Stopped(driver)
         \/ \E mode \in {"STA", "APSTA"} :
              driver' = [Stopped(driver) EXCEPT !.mode = mode]
  PROVE  \E es \in Seq(Events) :
           /\ events' = events \o es /\ events' \in Seq(Events)
           /\ driver' \in Drivers /\ ~ApOn(driver') /\ driver'.link = "none"
           /\ Tells(es, "AP_START", "AP_STOP", ApOn(driver), FALSE)
           /\ Tells(es, "GOT_IP", "STA_DISCONNECTED",
                    driver.link = "address", FALSE)
           /\ FreeOf(es, {"AP_START"})
           /\ driver.link = "none" => FreeOf(es, LinkEvents)
<1>1. driver \in Drivers
  BY DEF TypeOK, Drivers
<1>2. Stopped(driver) \in Drivers /\ StopEvents(driver) \in Seq(Events)
  BY <1>1, StopFacts
<1>3. /\ driver' \in Drivers /\ driver'.link = "none" /\ driver'.on = FALSE
  BY <1>1, <1>2, StoppedType DEF Drivers
<1>4. FreeOf(StopEvents(driver), {"AP_START"})
  <2>1. FreeOf(StopEvents(driver), {"AP_START", "GOT_IP"})
    BY <1>1, StopFacts
  <2>2. QED
    BY <2>1 DEF FreeOf
<1>5. WITNESS StopEvents(driver) \in Seq(Events)
<1>6. QED
  BY <1>1, <1>2, <1>3, <1>4, StopFacts, Posted DEF ApOn

\* What wifi_set_mode_and_start leaves when neither its stop nor its start works
LEMMA RestartFailsFacts ==
  ASSUME TypeOK, NEW mode \in {"STA", "APSTA"}, RestartFailsWithoutStop(mode)
  PROVE  \E es \in Seq(Events), v \in BOOLEAN :
           /\ events' = events \o es /\ events' \in Seq(Events)
           /\ driver' \in Drivers /\ ignored'
           /\ ApOn(driver') <=> v
           /\ Tells(es, "AP_START", "AP_STOP", ApOn(driver), v)
<1> DEFINE on == ApOn(driver)
           to == mode = "APSTA"
           none == EventIf(FALSE, "AP_STOP")
<1>1. /\ driver \in Drivers /\ events \in Seq(Events) /\ ignored'
      /\ on \in BOOLEAN /\ to \in BOOLEAN
  BY DEF TypeOK, Drivers, ApOn, RestartFailsWithoutStop
<1>2. none = <<>> /\ none \in Seq(Events) /\ events = events \o none
  BY <1>1, EmptySeq, ConcatEmptySeq DEF EventIf
<1>3. Tells(none, "AP_START", "AP_STOP", on, on)
  <2> HIDE DEF on
  <2>1. QED
    BY <1>1, EventNames, EventIfTells
<1>4. CASE UNCHANGED <<driver, events>>
  <2>1. /\ none \in Seq(Events) /\ on \in BOOLEAN
        /\ events' = events \o none /\ events' \in Seq(Events)
        /\ driver' \in Drivers /\ (ApOn(driver') <=> on)
    BY <1>1, <1>2, <1>4
  <2> HIDE DEF none, on
  <2>2. QED
    BY <1>1, <1>3, <2>1 DEF on
<1>5. CASE driver.on /\ driver' = [driver EXCEPT !.mode = mode]
             /\ Post(StartEvents(driver, mode))
  <2>1. StartEvents(driver, mode) \in Seq(Events) /\ to \in BOOLEAN
    BY <1>1, StartFacts
  <2>2. /\ events' = events \o StartEvents(driver, mode)
        /\ events' \in Seq(Events)
    BY <1>5, <2>1, Posted
  <2>3. driver' \in Drivers /\ (ApOn(driver') <=> to)
    BY <1>1, <1>5 DEF Drivers, ApOn
  <2>4. Tells(StartEvents(driver, mode), "AP_START", "AP_STOP", ApOn(driver), to)
    BY <1>1, StartFacts
  <2>5. WITNESS StartEvents(driver, mode) \in Seq(Events), to \in BOOLEAN
  <2>6. QED
    BY <1>1, <2>2, <2>3, <2>4
<1>6. CASE ~driver.on /\ driver' = [driver EXCEPT !.mode = mode] /\ Post(<<>>)
  <2>1. /\ none \in Seq(Events) /\ on \in BOOLEAN
        /\ events' = events \o none /\ events' \in Seq(Events)
    BY <1>1, <1>2, <1>6, Posted
  <2>2. driver' \in Drivers /\ (ApOn(driver') <=> on)
    BY <1>1, <1>6 DEF Drivers, ApOn
  <2> HIDE DEF none, on
  <2>3. QED
    BY <1>1, <1>3, <2>1, <2>2 DEF on
<1>7. QED
  BY <1>4, <1>5, <1>6 DEF RestartFailsWithoutStop

\* esp_wifi_disconnect
LEMMA DropPosts ==
  ASSUME TypeOK, DropLink
  PROVE  \E es \in Seq(Events) :
           /\ events' = events \o es /\ events' \in Seq(Events)
           /\ driver' \in Drivers /\ driver'.link = "none"
           /\ ApOn(driver') <=> ApOn(driver)
           /\ Tells(es, "AP_START", "AP_STOP", ApOn(driver), ApOn(driver))
           /\ Tells(es, "GOT_IP", "STA_DISCONNECTED",
                    driver.link = "address", FALSE)
           /\ FreeOf(es, {"AP_START"})
<1> DEFINE linked == driver.link # "none"
           link == driver.link = "address"
           on == ApOn(driver)
           no == FALSE
           es == EventIf(linked, "STA_DISCONNECTED")
<1>1. driver \in Drivers
  BY DEF TypeOK, Drivers
<1>2. /\ linked \in BOOLEAN /\ link \in BOOLEAN /\ on \in BOOLEAN
      /\ no \in BOOLEAN /\ ~no /\ (~linked => ~link)
  BY <1>1 DEF ApOn, Drivers
<1>3. Post(es)
  BY DEF DropLink
<1>4. /\ driver' \in Drivers /\ driver'.link = "none"
      /\ ApOn(driver') <=> ApOn(driver)
  <2>1. driver' = [driver EXCEPT !.link = "none"]
    BY DEF DropLink
  <2>2. QED
    BY <1>1, <2>1 DEF Drivers, ApOn, Links
<1> HIDE DEF linked, link, on, no
<1>5. /\ es \in Seq(Events)
      /\ Tells(es, "AP_START", "AP_STOP", on, on)
      /\ Tells(es, "GOT_IP", "STA_DISCONNECTED", link, no)
      /\ FreeOf(es, {"AP_START"})
  BY <1>2, EventNames, EventIfTells, EventIfFree
<1> HIDE DEF es
<1>6. /\ Tells(es, "AP_START", "AP_STOP", ApOn(driver), ApOn(driver))
      /\ Tells(es, "GOT_IP", "STA_DISCONNECTED",
               driver.link = "address", FALSE)
  BY Zenon, <1>5 DEF on, link, no
<1>7. QED
  BY <1>3, <1>4, <1>5, <1>6, Posted

\* wifi_scan changes the mode, and the link no more than its caller
LEMMA ScanFacts ==
  ASSUME TypeOK, NEW d, d = Started(driver, ScanMode),
         \/ driver' = d
         \/ driver' = [d EXCEPT !.scanning = TRUE],
         Post(StartEvents(driver, ScanMode))
  PROVE  \E es \in Seq(Events) :
           /\ events' = events \o es /\ events' \in Seq(Events)
           /\ driver' \in Drivers /\ driver'.link = driver.link
           /\ ApOn(driver') <=> st.apUp
           /\ Tells(es, "AP_START", "AP_STOP", ApOn(driver), st.apUp)
           /\ FreeOf(es, LinkEvents)
           /\ ~st.apUp => FreeOf(es, {"AP_START"})
<1>1. driver \in Drivers /\ st.apUp \in BOOLEAN
  BY DEF TypeOK, Drivers
<1>2. ScanMode \in {"STA", "APSTA"} /\ (ScanMode = "APSTA" <=> st.apUp)
      /\ (~st.apUp => ScanMode = "STA")
  BY <1>1 DEF ScanMode
<1>3. d \in Drivers /\ d.link = driver.link /\ (ApOn(d) <=> st.apUp)
  BY <1>1, <1>2, StartedType
<1>4. driver' \in Drivers /\ driver'.link = driver.link
      /\ (ApOn(driver') <=> st.apUp)
  BY <1>3 DEF Drivers, ApOn
<1> DEFINE es == StartEvents(driver, ScanMode)
<1>5. /\ es \in Seq(Events) /\ FreeOf(es, LinkEvents)
      /\ ScanMode = "STA" => FreeOf(es, {"AP_START"})
      /\ Tells(es, "AP_START", "AP_STOP", ApOn(driver), ScanMode = "APSTA")
  BY <1>1, <1>2, StartFacts
<1> HIDE DEF es
<1>6. Tells(es, "AP_START", "AP_STOP", ApOn(driver), st.apUp)
  BY <1>2, <1>5 DEF Tells
<1>7. QED
  BY <1>2, <1>4, <1>5, <1>6, Posted DEF es

LEMMA TypeInit == Init => TypeOK
<1>1. SUFFICES ASSUME Init PROVE TypeOK
  OBVIOUS
<1>2. events \in Seq(Events) /\ bits \subseteq Bits
  BY <1>1, EmptySeq DEF Init
<1>3. st \in Statuses
  BY <1>1 DEF Init, Statuses
<1>4. driver \in Drivers
  BY <1>1 DEF Init, Drivers, Links
<1>5. /\ main \in MainPoints /\ tool \in ToolPoints /\ answer \in Answers
      /\ attempt \subseteq {"address", "drop"} /\ ignored \in BOOLEAN
  BY <1>1 DEF Init, MainPoints, ToolPoints, Answers
<1>6. QED
  BY <1>2, <1>3, <1>4, <1>5 DEF TypeOK, Statuses, Drivers

LEMMA EventTypes == TypeOK /\ HandleEvent => TypeOK'
<1>1. SUFFICES ASSUME TypeOK, HandleEvent PROVE TypeOK'
  OBVIOUS
<1>2. /\ events \in Seq(Events) /\ events # <<>> /\ st \in Statuses
      /\ st' = AfterEvent(Head(events))
      /\ events' = Tail(events) /\ bits' = bits \cup BitOf(Head(events))
      /\ UNCHANGED <<main, tool, driver, answer, attempt, ignored>>
  BY <1>1 DEF TypeOK, HandleEvent, Statuses
<1>3. Tail(events) \in Seq(Events) /\ Head(events) \in Events
  BY <1>2, TailFacts
<1>4. BitOf(Head(events)) \subseteq Bits
  BY DEF BitOf, Bits
<1>5. AfterEvent(Head(events)) \in Statuses
  BY <1>2, <1>3 DEF AfterEvent, Statuses, Events
<1>6. QED
  BY <1>1, <1>2, <1>3, <1>4, <1>5 DEF TypeOK, Statuses

LEMMA TypeStep == TypeOK /\ [Next]_vars => TypeOK'
<1>1. SUFFICES ASSUME TypeOK, [Next]_vars PROVE TypeOK'
  OBVIOUS
<1>2. /\ main \in MainPoints /\ tool \in ToolPoints /\ st \in Statuses
      /\ bits \subseteq Bits /\ driver \in Drivers /\ events \in Seq(Events)
      /\ answer \in Answers /\ attempt \subseteq {"address", "drop"}
      /\ ignored \in BOOLEAN
  BY <1>1 DEF TypeOK, Statuses, Drivers
<1>3. SUFFICES /\ main' \in MainPoints /\ tool' \in ToolPoints
               /\ st' \in Statuses /\ bits' \subseteq Bits
               /\ driver' \in Drivers /\ events' \in Seq(Events)
               /\ answer' \in Answers
               /\ attempt' \subseteq {"address", "drop"}
               /\ ignored' \in BOOLEAN
  BY DEF TypeOK, Statuses, Drivers
<1>4. CASE UNCHANGED vars
  BY <1>2, <1>4 DEF vars
<1>5. CASE Begin
  BY <1>2, <1>5 DEF Begin, MainPoints
<1>6. CASE HandleEvent
  BY <1>1, <1>6, EventTypes DEF TypeOK, Statuses, Drivers
<1>7. CASE DriverStep
  <2>1. /\ <<"STA_CONNECTED">> \in Seq(Events) /\ <<"GOT_IP">> \in Seq(Events)
        /\ <<"STA_DISCONNECTED">> \in Seq(Events)
        /\ <<"SCAN_DONE">> \in Seq(Events)
    BY EventNames
  <2>2. events' \in Seq(Events)
    BY <1>1, <1>7, <2>1, Posted DEF DriverStep, Associate, ObtainAddress,
       LoseLink, FinishScan
  <2>3. driver' \in Drivers
    BY <1>2, <1>7 DEF DriverStep, Associate, ObtainAddress, LoseLink,
       FinishScan, Drivers, Links
  <2>4. QED
    BY <1>2, <1>7, <2>2, <2>3 DEF DriverStep, Associate, ObtainAddress,
       LoseLink, FinishScan
<1>8. CASE ConnectStep
  <2>1. CASE ConnectRestart
    <3>1. /\ driver' \in Drivers /\ events' \in Seq(Events)
          /\ ignored' \in BOOLEAN
      BY <1>1, <2>1, RestartFacts DEF ConnectRestart
    <3>2. QED
      BY <1>2, <2>1, <3>1 DEF ConnectRestart, MainPoints
  <2>2. CASE ConnectRestartFails
    <3>1. /\ driver' \in Drivers /\ events' \in Seq(Events)
          /\ ignored' \in BOOLEAN
      BY <1>1, <1>2, <2>2, StopPosts, RestartFailsFacts DEF ConnectRestartFails,
         RestartFails, RestartFailsAfterStop
    <3>2. QED
      BY <1>2, <2>2, <3>1 DEF ConnectRestartFails, MainPoints,
         Answers
  <2>3. CASE ConnectClear
    BY <1>2, <2>3 DEF ConnectClear, MainPoints, Statuses
  <2>4. CASE Join
    BY <1>2, <2>4 DEF Join, MainPoints, Drivers, Links, Answers
  <2>5. CASE ConfigRefused \/ JoinRefused \/ WaitFailed \/ WaitTimesOut
    BY <1>2, <2>5 DEF ConfigRefused, JoinRefused, WaitFailed, WaitTimesOut,
       MainPoints, Answers
  <2>6. CASE WaitConnected
    BY <1>2, <2>6 DEF WaitConnected, MainPoints, ToolPoints, Answers
  <2>7. QED
    BY <1>8, <2>1, <2>2, <2>3, <2>4, <2>5, <2>6 DEF ConnectStep
<1>9. CASE PortalStep
  <2>1. CASE StartApRestart
    <3>1. /\ driver' \in Drivers /\ events' \in Seq(Events)
          /\ ignored' \in BOOLEAN
      BY <1>1, <2>1, RestartFacts DEF StartApRestart
    <3>2. QED
      BY <1>2, <2>1, <3>1 DEF StartApRestart, MainPoints
  <2>2. CASE StartApRestartFails
    <3>1. /\ driver' \in Drivers /\ events' \in Seq(Events)
          /\ ignored' \in BOOLEAN
      BY <1>1, <1>2, <2>2, StopPosts, RestartFailsFacts DEF StartApRestartFails,
         RestartFails, RestartFailsAfterStop
    <3>2. QED
      BY <1>2, <2>2, <3>1 DEF StartApRestartFails, MainPoints
  <2>3. CASE StartApStatus \/ StartApConfigFails \/ Submitted
    BY <1>2, <2>3 DEF StartApStatus, StartApConfigFails, Submitted,
       MainPoints, Statuses
  <2>4. AfterStopAp \in Statuses
    BY <1>2 DEF AfterStopAp, Statuses
  <2>5. StopAp => /\ driver' \in Drivers /\ events' \in Seq(Events)
                  /\ st' \in Statuses
    BY <1>1, <2>4, StopPosts DEF StopAp
  <2>6. CASE PortalStop \/ ResetStop
    BY <1>2, <2>5, <2>6 DEF PortalStop, ResetStop, MainPoints
  <2>7. QED
    BY <1>9, <2>1, <2>2, <2>3, <2>6 DEF PortalStep
<1>10. Disconnected \in Statuses
  BY <1>2 DEF Disconnected, Statuses
<1>11. DropLink => driver' \in Drivers /\ events' \in Seq(Events)
  BY <1>1, DropPosts
<1>12. CASE DisconnectStep
  BY <1>2, <1>10, <1>11, <1>12 DEF DisconnectStep, TickUnprovisioned,
     MainDisconnect, MainDisconnectStatus, McpJoin, MainPoints, ToolPoints
<1>13. CASE ToolStep
  <2>1. CASE ScanStart \/ ScanFails
    <3>1. driver' \in Drivers /\ events' \in Seq(Events)
      BY <1>1, <1>2, <2>1, ScanFacts DEF ScanStart, ScanFails
    <3>2. QED
      BY <1>2, <2>1, <3>1 DEF ScanStart, ScanFails, ToolPoints
  <2>2. CASE ScanDone \/ ScanTimesOut \/ ToolDisconnect \/ ToolDisconnectStatus
    BY <1>2, <1>10, <1>11, <2>2 DEF ScanDone, ScanTimesOut, ToolDisconnect,
       ToolDisconnectStatus, ToolPoints
  <2>3. QED
    BY <1>13, <2>1, <2>2 DEF ToolStep
<1>14. QED
  BY <1>1, <1>4, <1>5, <1>6, <1>7, <1>8, <1>9, <1>12, <1>13 DEF Next

-----------------------------------------------------------------------------
(* The access point *)

LEMMA TellsFlag ==
  ASSUME NEW q, NEW yes, NEW no, NEW f \in BOOLEAN, NEW g \in BOOLEAN,
         NEW v \in BOOLEAN, Tells(q, yes, no, f, v),
         (g <=> f) \/ (~g /\ ~v)
  PROVE  Tells(q, yes, no, g, v)
BY DEF Tells

LEMMA OneTells ==
  ASSUME NEW e \in Events, NEW yes, NEW no, yes # no, NEW v \in BOOLEAN,
         NEW w \in BOOLEAN, e = yes => w, e = no => ~w,
         e \notin {yes, no} => (w <=> v)
  PROVE  <<e>> \in Seq(Events) /\ Tells(<<e>>, yes, no, v, w)
<1> DEFINE c == TRUE
<1>1. EventIf(c, e) = <<e>> /\ c \in BOOLEAN /\ c
  BY DEF EventIf
<1> HIDE DEF c
<1>2. QED
  BY <1>1, EventIfTells

LEMMA OneFree ==
  ASSUME NEW e \in Events, NEW S, e \notin S
  PROVE  FreeOf(<<e>>, S)
BY DEF FreeOf

\* What the driver does on its own concerns the link or a scan
LEMMA DriverPosts ==
  ASSUME TypeOK, DriverStep
  PROVE  \E e \in Events \ ApEvents :
           /\ events' = events \o <<e>> /\ <<e>> \in Seq(Events)
           /\ driver' \in Drivers /\ (ApOn(driver') <=> ApOn(driver))
           /\ driver.link = "none" => driver'.link = "none" /\ e \notin LinkEvents
           /\ e = "GOT_IP" => driver'.link = "address" /\ "address" \in attempt'
           /\ e = "STA_DISCONNECTED" =>
                driver'.link = "none" /\ "drop" \in attempt'
           /\ e \notin LinkEvents =>
                (driver'.link = "address" <=> driver.link = "address")
           /\ attempt \subseteq attempt'
           /\ UNCHANGED <<main, tool, st, bits, answer, ignored>>
<1>1. driver \in Drivers
  BY DEF TypeOK, Drivers
<1>2. CASE Associate
  <2>1. "STA_CONNECTED" \in Events \ ApEvents
    BY DEF Events, ApEvents
  <2>2. WITNESS "STA_CONNECTED" \in Events \ ApEvents
  <2>3. QED
    BY <1>1, <1>2, <2>1, OneTells DEF Associate, Post, Drivers, Links, ApOn, LinkEvents
<1>3. CASE ObtainAddress
  <2>1. "GOT_IP" \in Events \ ApEvents
    BY DEF Events, ApEvents
  <2>2. WITNESS "GOT_IP" \in Events \ ApEvents
  <2>3. QED
    BY <1>1, <1>3, <2>1, OneTells DEF ObtainAddress, Post, Drivers, Links, ApOn, LinkEvents
<1>4. CASE LoseLink
  <2>1. "STA_DISCONNECTED" \in Events \ ApEvents
    BY DEF Events, ApEvents
  <2>2. WITNESS "STA_DISCONNECTED" \in Events \ ApEvents
  <2>3. QED
    BY <1>1, <1>4, <2>1, OneTells DEF LoseLink, Post, Drivers, Links, ApOn, LinkEvents
<1>5. CASE FinishScan
  <2>1. "SCAN_DONE" \in Events \ ApEvents
    BY DEF Events, ApEvents
  <2>2. WITNESS "SCAN_DONE" \in Events \ ApEvents
  <2>3. QED
    BY <1>1, <1>5, <2>1, OneTells DEF FinishScan, Post, Drivers, Links, ApOn, LinkEvents
<1>6. QED
  BY <1>2, <1>3, <1>4, <1>5 DEF DriverStep

\* More events, or none, and the flag with them
LEMMA ApPosted ==
  ASSUME TypeOK, ApTells, NEW es \in Seq(Events), events' = events \o es,
         NEW v \in BOOLEAN, ApOn(driver') <=> v,
         Tells(es, "AP_START", "AP_STOP", ApOn(driver), v),
         st'.apUp \in BOOLEAN, (st'.apUp <=> st.apUp) \/ (~st'.apUp /\ ~v)
  PROVE  ApTells'
<1> DEFINE on == ApOn(driver)
           f == st.apUp
           g == st'.apUp
<1>1. on \in BOOLEAN /\ f \in BOOLEAN /\ g \in BOOLEAN /\ events \in Seq(Events)
  BY DEF TypeOK, ApOn
<1>2. /\ Tells(events, "AP_START", "AP_STOP", f, on)
      /\ Tells(es, "AP_START", "AP_STOP", on, v)
      /\ (g <=> f) \/ (~g /\ ~v)
  BY DEF ApTells
<1> HIDE DEF on, f, g
<1>3. Tells(events \o es, "AP_START", "AP_STOP", f, v)
  BY <1>1, <1>2, ConcatTells
<1>4. Tells(events \o es, "AP_START", "AP_STOP", g, v)
  BY <1>1, <1>2, <1>3, TellsFlag
<1>5. QED
  BY <1>4 DEF ApTells, Tells, g

LEMMA ApKept ==
  ASSUME ApTells, events' = events, ApOn(driver') <=> ApOn(driver),
         st'.apUp <=> st.apUp
  PROVE  ApTells'
BY DEF ApTells, Tells

\* wifi_event_handler: what an event does to the flags
LEMMA Handled ==
  ASSUME TypeOK, HandleEvent
  PROVE  /\ events \in Seq(Events) /\ events # <<>> /\ events' = Tail(events)
         /\ Head(events) = "AP_START" => st'.apUp
         /\ Head(events) = "AP_STOP" => ~st'.apUp
         /\ Head(events) \notin ApEvents => (st'.apUp <=> st.apUp)
         /\ Head(events) = "GOT_IP" => st'.connected /\ st'.ip = "station"
         /\ Head(events) = "STA_DISCONNECTED" =>
              ~st'.connected /\ st'.ip # "station"
         /\ Head(events) \notin LinkEvents =>
              /\ st'.connected <=> st.connected
              /\ st'.ip = st.ip
         /\ UNCHANGED <<main, tool, driver, answer, attempt, ignored>>
         /\ st'.apUp \in BOOLEAN /\ st'.connected \in BOOLEAN
<1>1. /\ events \in Seq(Events) /\ events # <<>> /\ st \in Statuses
      /\ st' = AfterEvent(Head(events)) /\ events' = Tail(events)
      /\ UNCHANGED <<main, tool, driver, answer, attempt, ignored>>
  BY DEF TypeOK, HandleEvent, Statuses
<1>2. Head(events) \in Events
  BY <1>1, TailFacts
<1>3. st' \in Statuses
  BY <1>1, EventTypes DEF TypeOK, Statuses
<1>4. /\ Head(events) = "AP_START" => st'.apUp
      /\ Head(events) = "AP_STOP" => ~st'.apUp
      /\ Head(events) \notin ApEvents => (st'.apUp <=> st.apUp)
  BY <1>1, <1>2 DEF AfterEvent, Statuses, Events, ApEvents
<1>5. /\ Head(events) = "GOT_IP" => st'.connected /\ st'.ip = "station"
      /\ Head(events) = "STA_DISCONNECTED" =>
           ~st'.connected /\ st'.ip # "station"
      /\ Head(events) \notin LinkEvents =>
           /\ st'.connected <=> st.connected
           /\ st'.ip = st.ip
  BY <1>1, <1>2 DEF AfterEvent, Statuses, Events, LinkEvents
<1>6. QED
  BY <1>1, <1>3, <1>4, <1>5 DEF Statuses

LEMMA ApTellsStep == TypeOK /\ ApTells /\ [Next]_vars => ApTells'
<1>1. SUFFICES ASSUME TypeOK, ApTells, [Next]_vars PROVE ApTells'
  OBVIOUS
<1>2. TypeOK'
  BY <1>1, TypeStep
<1>3. /\ driver \in Drivers /\ st \in Statuses /\ st' \in Statuses
      /\ st'.apUp \in BOOLEAN /\ ApOn(driver) \in BOOLEAN
  BY <1>1, <1>2 DEF TypeOK, Drivers, Statuses, ApOn
<1>4. CASE UNCHANGED <<events, driver, st>>
  BY <1>1, <1>4, ApKept DEF ApOn
<1>5. CASE HandleEvent
  <2> DEFINE f == st.apUp
             g == st'.apUp
             v == ApOn(driver)
  <2>1. /\ events \in Seq(Events) /\ events # <<>> /\ events' = Tail(events)
        /\ Head(events) = "AP_START" => g
        /\ Head(events) = "AP_STOP" => ~g
        /\ Head(events) \notin {"AP_START", "AP_STOP"} => (g <=> f)
        /\ driver' = driver
    BY <1>1, <1>5, Handled DEF ApEvents
  <2>2. Tells(events, "AP_START", "AP_STOP", f, v)
    BY <1>1 DEF ApTells
  <2>3. f \in BOOLEAN /\ g \in BOOLEAN /\ v \in BOOLEAN
    BY <1>3 DEF Statuses
  <2> HIDE DEF f, g, v
  <2>4. Tells(Tail(events), "AP_START", "AP_STOP", g, v)
    BY <2>1, <2>2, <2>3, TailTells
  <2>5. QED
    BY <2>1, <2>4 DEF ApTells, Tells, ApOn, g, v
<1>6. CASE DriverStep
  <2>1. PICK e \in Events \ ApEvents :
          /\ events' = events \o <<e>> /\ <<e>> \in Seq(Events)
          /\ ApOn(driver') <=> ApOn(driver)
          /\ st' = st
    BY <1>1, <1>6, DriverPosts
  <2> DEFINE v == ApOn(driver)
  <2>2. v \in BOOLEAN /\ e \in Events /\ e \notin {"AP_START", "AP_STOP"}
    BY <1>3 DEF ApEvents
  <2>3. Tells(<<e>>, "AP_START", "AP_STOP", v, v)
    <3> HIDE DEF v
    <3>1. QED
      BY <2>2, OneTells
  <2>4. QED
    BY <1>1, <1>3, <2>1, <2>2, <2>3, ApPosted
<1>7. ASSUME NEW mode \in {"STA", "APSTA"}, Restart(mode), st' = st
      PROVE  ApTells'
  <2> DEFINE v == mode = "APSTA"
  <2>1. PICK es \in Seq(Events) :
          /\ events' = events \o es
          /\ ApOn(driver') <=> mode = "APSTA"
          /\ Tells(es, "AP_START", "AP_STOP", ApOn(driver), mode = "APSTA")
    BY <1>1, <1>7, RestartFacts
  <2>2. /\ v \in BOOLEAN /\ (ApOn(driver') <=> v)
        /\ Tells(es, "AP_START", "AP_STOP", ApOn(driver), v)
    BY <2>1
  <2> HIDE DEF v
  <2>3. QED
    BY <1>1, <1>3, <1>7, <2>1, <2>2, ApPosted
<1>8. ASSUME Post(StopEvents(driver)),
             \/ driver' = Stopped(driver)
             \/ \E mode \in {"STA", "APSTA"} :
                  driver' = [Stopped(driver) EXCEPT !.mode = mode],
             (st'.apUp <=> st.apUp) \/ ~st'.apUp
      PROVE  ApTells'
  <2> DEFINE v == FALSE
  <2>1. PICK es \in Seq(Events) :
          /\ events' = events \o es /\ ~ApOn(driver')
          /\ Tells(es, "AP_START", "AP_STOP", ApOn(driver), FALSE)
    BY <1>1, <1>8, StopPosts
  <2>2. /\ v \in BOOLEAN /\ ~v /\ (ApOn(driver') <=> v)
        /\ Tells(es, "AP_START", "AP_STOP", ApOn(driver), v)
    BY <2>1
  <2> HIDE DEF v
  <2>3. QED
    BY <1>1, <1>3, <1>8, <2>1, <2>2, ApPosted
<1>17. ASSUME NEW mode \in {"STA", "APSTA"}, RestartFailsWithoutStop(mode),
              st' = st
       PROVE  ApTells'
  <2>1. PICK es \in Seq(Events), v \in BOOLEAN :
          /\ events' = events \o es /\ (ApOn(driver') <=> v)
          /\ Tells(es, "AP_START", "AP_STOP", ApOn(driver), v)
    BY <1>1, <1>17, RestartFailsFacts
  <2>2. QED
    BY <1>1, <1>3, <1>17, <2>1, ApPosted
<1>9. ASSUME DropLink, st' = st PROVE ApTells'
  <2> DEFINE v == ApOn(driver)
  <2>1. PICK es \in Seq(Events) :
          /\ events' = events \o es /\ (ApOn(driver') <=> v)
          /\ Tells(es, "AP_START", "AP_STOP", ApOn(driver), v)
    BY <1>1, <1>9, DropPosts
  <2>2. QED
    BY <1>1, <1>3, <1>9, <2>1, ApPosted
<1>10. CASE ConnectStep
  <2>1. CASE ConnectRestart
    BY <1>7, <2>1 DEF ConnectRestart
  <2>2. CASE ConnectRestartFails
    BY <1>8, <1>17, <2>2 DEF ConnectRestartFails, RestartFails,
       RestartFailsAfterStop
  <2>3. CASE ConnectClear
    <3>1. st'.apUp = st.apUp /\ events' = events /\ driver' = driver
      BY <1>3, <2>3 DEF ConnectClear, Statuses
    <3>2. QED
      BY <1>1, <3>1, ApKept DEF ApOn
  <2>4. CASE Join
    <3>1. /\ st' = st /\ events' = events
          /\ ApOn(driver') <=> ApOn(driver)
      BY <1>3, <2>4 DEF Join, Drivers, ApOn
    <3>2. QED
      BY <1>1, <3>1, ApKept
  <2>5. QED
    BY <1>4, <1>10, <2>1, <2>2, <2>3, <2>4 DEF ConnectStep, ConfigRefused,
       JoinRefused, WaitConnected, WaitFailed, WaitTimesOut
<1>11. CASE PortalStep
  <2>1. CASE StartApRestart
    BY <1>7, <2>1 DEF StartApRestart
  <2>2. CASE StartApRestartFails
    BY <1>8, <1>17, <2>2 DEF StartApRestartFails, RestartFails,
       RestartFailsAfterStop
  <2>3. CASE StartApStatus
    <3>1. st'.apUp = st.apUp /\ events' = events /\ driver' = driver
      BY <1>3, <2>3 DEF StartApStatus, Statuses
    <3>2. QED
      BY <1>1, <3>1, ApKept DEF ApOn
  <2>4. ASSUME StopAp PROVE ApTells'
    <3>1. ~st'.apUp
      BY <1>3, <2>4 DEF StopAp, AfterStopAp, Statuses
    <3>2. QED
      BY <1>8, <2>4, <3>1 DEF StopAp
  <2>5. QED
    BY <1>4, <1>11, <2>1, <2>2, <2>3, <2>4 DEF PortalStep,
       StartApConfigFails, Submitted, PortalStop, ResetStop
<1>12. Disconnected.apUp = st.apUp
  BY <1>3 DEF Disconnected, Statuses
<1>13. ASSUME st' = Disconnected, events' = events, driver' = driver
       PROVE  ApTells'
  BY <1>1, <1>12, <1>13, ApKept DEF ApOn
<1>14. CASE DisconnectStep
  BY <1>4, <1>9, <1>13, <1>14 DEF DisconnectStep, TickUnprovisioned,
     MainDisconnect, MainDisconnectStatus, McpJoin
<1>15. CASE ToolStep
  <2>1. ASSUME Post(StartEvents(driver, ScanMode)), st' = st,
               \/ driver' = Started(driver, ScanMode)
               \/ driver' = [Started(driver, ScanMode) EXCEPT !.scanning = TRUE]
        PROVE  ApTells'
    <3> DEFINE v == st.apUp
    <3>1. PICK es \in Seq(Events) :
            /\ events' = events \o es /\ (ApOn(driver') <=> v)
            /\ Tells(es, "AP_START", "AP_STOP", ApOn(driver), v)
      BY <1>1, <2>1, ScanFacts
    <3>2. v \in BOOLEAN
      BY <1>3 DEF Statuses
    <3>3. QED
      BY <1>1, <1>3, <2>1, <3>1, <3>2, ApPosted
  <2>2. CASE ScanStart \/ ScanFails
    BY <1>4, <2>1, <2>2 DEF ScanStart, ScanFails
  <2>3. CASE ToolDisconnect \/ ToolDisconnectStatus
    BY <1>9, <1>13, <2>3 DEF ToolDisconnect, ToolDisconnectStatus
  <2>4. QED
    BY <1>4, <1>15, <2>2, <2>3 DEF ToolStep, ScanDone, ScanTimesOut
<1>16. QED
  BY <1>1, <1>4, <1>5, <1>6, <1>10, <1>11, <1>14, <1>15 DEF Next, Begin, vars

LEMMA ApPlacesStep == ApInv /\ [Next]_vars => ApPlaces'
<1>1. SUFFICES ASSUME ApInv, [Next]_vars PROVE ApPlaces'
  OBVIOUS
<1>2. /\ TypeOK /\ ApPlaces /\ driver \in Drivers /\ st \in Statuses
      /\ events \in Seq(Events)
  BY <1>1 DEF ApInv, TypeOK, Drivers, Statuses
\* The queue and the driver are left alone, and the flag with them
<1>3. ASSUME events' = events, ApOn(driver') <=> ApOn(driver),
             st'.apUp <=> st.apUp
      PROVE  (ApIsOff' <=> ApIsOff) /\
             (FreeOf(events, {"AP_START"})' <=> FreeOf(events, {"AP_START"}))
  BY <1>3 DEF ApIsOff, FreeOf
<1>4. CASE UNCHANGED vars
  BY <1>2, <1>3, <1>4 DEF vars, ApPlaces, ApOn
<1>5. CASE Begin
  <2>1. ApIsOff'
    BY <1>2, <1>3, <1>5 DEF Begin, ApPlaces, ApOn
  <2>2. QED
    BY <1>2, <1>5, <2>1 DEF Begin, ApPlaces, StationPlaces
<1>6. CASE HandleEvent
  <2>1. /\ events # <<>> /\ events' = Tail(events)
        /\ Head(events) # "AP_START" /\ ~st.apUp => ~st'.apUp
        /\ main' = main /\ tool' = tool /\ driver' = driver
    BY <1>2, <1>6, Handled DEF ApEvents
  <2>2. FreeOf(events, {"AP_START"}) =>
          Head(events) # "AP_START" /\ FreeOf(events', {"AP_START"})
    BY <1>2, <2>1, TailFree
  <2>3. ApIsOff => ApIsOff'
    BY <2>1, <2>2 DEF ApIsOff, ApOn, FreeOf
  <2>4. QED
    BY <1>2, <2>1, <2>2, <2>3 DEF ApPlaces, FreeOf
<1>7. CASE DriverStep
  <2>1. PICK e \in Events \ ApEvents :
          /\ events' = events \o <<e>> /\ <<e>> \in Seq(Events)
          /\ ApOn(driver') <=> ApOn(driver)
          /\ driver.link = "none" => driver'.link = "none"
          /\ UNCHANGED <<main, tool, st>>
    BY <1>2, <1>7, DriverPosts
  <2>2. FreeOf(<<e>>, {"AP_START"})
    BY <2>1, OneFree DEF ApEvents
  <2>3. FreeOf(events, {"AP_START"}) => FreeOf(events', {"AP_START"})
    BY <1>2, <2>1, <2>2, ConcatFree
  <2>4. main # "begin"
    BY <1>2, <1>7 DEF ApPlaces, DriverStep, Associate, ObtainAddress,
       LoseLink, FinishScan
  <2>5. QED
    BY <1>2, <2>1, <2>3, <2>4 DEF ApPlaces, ApIsOff, FreeOf
<1>8. CASE ConnectStep
  <2>1. tool = "down" /\ main \in StationPlaces /\ ApIsOff
    BY <1>2, <1>8 DEF ApPlaces, StationPlaces, ConnectStep, ConnectRestart,
       ConnectRestartFails, ConnectClear, ConfigRefused, Join, JoinRefused,
       WaitConnected, WaitFailed, WaitTimesOut
  <2>2. CASE ConnectRestart
    <3>1. PICK es \in Seq(Events) :
            /\ events' = events \o es /\ ~ApOn(driver')
            /\ FreeOf(es, {"AP_START"})
      BY <1>2, <2>2, RestartFacts DEF ConnectRestart
    <3>2. FreeOf(events', {"AP_START"})
      BY <1>2, <2>1, <3>1, ConcatFree DEF ApIsOff
    <3>3. QED
      BY <2>1, <2>2, <3>1, <3>2 DEF ConnectRestart, ApPlaces, ApIsOff, FreeOf
  <2>3. CASE ConnectClear
    <3>1. st'.apUp = st.apUp /\ events' = events /\ driver' = driver
      BY <1>2, <2>3 DEF ConnectClear, Statuses
    <3>2. ApIsOff'
      BY <1>3, <2>1, <3>1 DEF ApOn
    <3>3. QED
      BY <2>1, <2>3, <3>2 DEF ConnectClear, ApPlaces
  <2>4. CASE Join
    <3>1. ApOn(driver') <=> ApOn(driver)
      BY <1>2, <2>4 DEF Join, Drivers, ApOn
    <3>2. ApIsOff'
      BY <1>3, <2>1, <2>4, <3>1 DEF Join
    <3>3. QED
      BY <2>1, <2>4, <3>2 DEF Join, ApPlaces
  <2>5. CASE WaitConnected
    <3>1. ApIsOff'
      BY <1>3, <2>1, <2>5 DEF WaitConnected, ApOn
    <3>2. QED
      BY <2>5, <3>1 DEF WaitConnected, ApPlaces
  <2>6. CASE \/ ConnectRestartFails \/ ConfigRefused \/ JoinRefused
             \/ WaitFailed \/ WaitTimesOut
    BY <2>1, <2>6 DEF ConnectRestartFails, ConfigRefused, JoinRefused,
       WaitFailed, WaitTimesOut, ApPlaces, StationPlaces
  <2>7. QED
    BY <1>8, <2>2, <2>3, <2>4, <2>5, <2>6 DEF ConnectStep
<1>9. CASE PortalStep
  <2>1. tool = "down" /\ tool' = tool
    BY <1>2, <1>9 DEF ApPlaces, PortalStep, StartApRestart,
       StartApRestartFails, StartApStatus, StartApConfigFails, Submitted,
       PortalStop, ResetStop
  <2>2. CASE Submitted
    <3>1. FreeOf(events', {"AP_START"})
      BY <2>2 DEF Submitted, FreeOf
    <3>2. QED
      BY <2>1, <2>2, <3>1 DEF Submitted, ApPlaces, StationPlaces, FreeOf
  <2>3. CASE PortalStop
    <3>1. CASE main' = "connect" /\ StopAp
      <4>1. Post(StopEvents(driver)) /\ driver' = Stopped(driver)
        BY <3>1 DEF StopAp
      <4>2. PICK es \in Seq(Events) :
              /\ events' = events \o es /\ ~ApOn(driver')
              /\ FreeOf(es, {"AP_START"})
        BY <1>2, <4>1, StopPosts
      <4>3. FreeOf(events, {"AP_START"})
        BY <1>2, <2>3 DEF PortalStop, ApPlaces
      <4>4. FreeOf(events', {"AP_START"})
        BY <1>2, <4>2, <4>3, ConcatFree
      <4>5. ~st'.apUp
        BY <1>2, <3>1 DEF StopAp, AfterStopAp, Statuses
      <4>6. ApIsOff'
        BY <4>2, <4>4, <4>5 DEF ApIsOff, FreeOf
      <4>7. QED
        BY <2>1, <3>1, <4>6 DEF ApPlaces
    <3>2. CASE main' = "portal"
      BY <2>1, <3>2 DEF ApPlaces, StationPlaces
    <3>3. QED
      BY <2>3, <3>1, <3>2 DEF PortalStop
  <2>4. CASE \/ StartApRestart \/ StartApRestartFails \/ StartApStatus
             \/ StartApConfigFails \/ ResetStop
    BY <2>1, <2>4 DEF StartApRestart, StartApRestartFails, StartApStatus,
       StartApConfigFails, ResetStop, ApPlaces, StationPlaces
  <2>5. QED
    BY <1>9, <2>2, <2>3, <2>4 DEF PortalStep
\* What esp_wifi_disconnect posts is not about the access point
<1>10. ASSUME DropLink, st' = st PROVE ApIsOff => ApIsOff'
  <2>1. PICK es \in Seq(Events) :
          /\ events' = events \o es /\ (ApOn(driver') <=> ApOn(driver))
          /\ FreeOf(es, {"AP_START"})
    BY <1>2, <1>10, DropPosts
  <2>2. FreeOf(events, {"AP_START"}) => FreeOf(events', {"AP_START"})
    BY <1>2, <2>1, ConcatFree
  <2>3. QED
    BY <1>10, <2>1, <2>2 DEF ApIsOff, FreeOf
<1>11. Disconnected.apUp = st.apUp
  BY <1>2 DEF Disconnected, Statuses
<1>12. ASSUME st' = Disconnected \/ st' = st, events' = events,
              driver' = driver
       PROVE  ApIsOff => ApIsOff'
  BY <1>3, <1>11, <1>12 DEF ApOn
<1>13. CASE DisconnectStep
  <2>1. CASE TickUnprovisioned
    <3>1. ApIsOff => ApIsOff'
      BY <1>12, <2>1 DEF TickUnprovisioned
    <3>2. QED
      BY <1>2, <2>1, <3>1 DEF TickUnprovisioned, ApPlaces, StationPlaces
  <2>2. CASE MainDisconnect
    <3>1. ApIsOff => ApIsOff'
      BY <1>10, <1>12, <2>2 DEF MainDisconnect
    <3>2. QED
      BY <1>2, <2>2, <3>1 DEF MainDisconnect, ApPlaces, StationPlaces
  <2>3. CASE MainDisconnectStatus
    <3>1. ApIsOff => ApIsOff'
      BY <1>12, <2>3 DEF MainDisconnectStatus
    <3>2. QED
      BY <1>2, <2>3, <3>1 DEF MainDisconnectStatus, ApPlaces, StationPlaces
  <2>4. CASE McpJoin
    BY <2>4 DEF McpJoin, ApPlaces, StationPlaces
  <2>5. QED
    BY <1>13, <2>1, <2>2, <2>3, <2>4 DEF DisconnectStep
<1>14. CASE ToolStep
  <2>1. /\ tool # "down" /\ main' = main /\ ApIsOff
        /\ main \in {"online", "disconnect", "disconnect_status", "mcp_join"}
    BY <1>2, <1>14 DEF ApPlaces, ToolStep, ScanStart, ScanFails, ScanDone,
       ScanTimesOut, ToolDisconnect, ToolDisconnectStatus
  <2>2. ASSUME Post(StartEvents(driver, ScanMode)), st' = st,
               \/ driver' = Started(driver, ScanMode)
               \/ driver' = [Started(driver, ScanMode) EXCEPT !.scanning = TRUE]
        PROVE  ApIsOff'
    <3>1. PICK es \in Seq(Events) :
            /\ events' = events \o es /\ (ApOn(driver') <=> st.apUp)
            /\ ~st.apUp => FreeOf(es, {"AP_START"})
      BY <1>2, <2>2, ScanFacts
    <3>2. FreeOf(events', {"AP_START"})
      BY <1>2, <2>1, <3>1, ConcatFree DEF ApIsOff
    <3>3. QED
      BY <2>1, <2>2, <3>1, <3>2 DEF ApIsOff, FreeOf
  <2>3. ApIsOff'
    BY <1>10, <1>12, <1>14, <2>1, <2>2 DEF ToolStep, ScanStart, ScanFails,
       ScanDone, ScanTimesOut, ToolDisconnect, ToolDisconnectStatus
  <2>4. QED
    BY <2>1, <2>3 DEF ApPlaces
<1>15. QED
  BY <1>1, <1>4, <1>5, <1>6, <1>7, <1>8, <1>9, <1>13, <1>14 DEF Next

LEMMA ApInit == Init => ApInv
<1>1. SUFFICES ASSUME Init PROVE ApInv
  OBVIOUS
<1>2. events = <<>> /\ DOMAIN <<>> = {}
  BY <1>1 DEF Init
<1>3. ApTells
  BY <1>1, <1>2 DEF Init, ApTells, Tells, ApOn
<1>4. ApPlaces
  BY <1>1, <1>2 DEF Init, ApPlaces, ApIsOff, FreeOf, ApOn, StationPlaces
<1>5. QED
  BY <1>1, <1>3, <1>4, TypeInit DEF ApInv

LEMMA ApStep == ApInv /\ [Next]_vars => ApInv'
BY TypeStep, ApTellsStep, ApPlacesStep DEF ApInv

-----------------------------------------------------------------------------
(* The link *)

LEMMA LinkPosted ==
  ASSUME TypeOK, TypeOK', LinkTells,
         NEW es \in Seq(Events), events' = events \o es,
         NEW v \in BOOLEAN, driver'.link = "address" <=> v,
         Tells(es, "GOT_IP", "STA_DISCONNECTED", driver.link = "address", v),
         (st'.connected <=> st.connected) \/ (~st'.connected /\ ~v),
         (st'.ip = "station" <=> st.ip = "station")
           \/ (st'.ip # "station" /\ ~v)
  PROVE  LinkTells'
<1> DEFINE link == driver.link = "address"
           c == st.connected
           d == st'.connected
           i == st.ip = "station"
           j == st'.ip = "station"
<1>1. /\ link \in BOOLEAN /\ c \in BOOLEAN /\ d \in BOOLEAN /\ i \in BOOLEAN
      /\ j \in BOOLEAN /\ events \in Seq(Events)
  BY DEF TypeOK
<1>2. /\ Tells(events, "GOT_IP", "STA_DISCONNECTED", c, link)
      /\ Tells(events, "GOT_IP", "STA_DISCONNECTED", i, link)
      /\ Tells(es, "GOT_IP", "STA_DISCONNECTED", link, v)
      /\ (d <=> c) \/ (~d /\ ~v)
      /\ (j <=> i) \/ (~j /\ ~v)
  BY DEF LinkTells
<1> HIDE DEF link, c, d, i, j
<1>3. /\ Tells(events \o es, "GOT_IP", "STA_DISCONNECTED", c, v)
      /\ Tells(events \o es, "GOT_IP", "STA_DISCONNECTED", i, v)
  BY <1>1, <1>2, ConcatTells
<1>4. /\ Tells(events \o es, "GOT_IP", "STA_DISCONNECTED", d, v)
      /\ Tells(events \o es, "GOT_IP", "STA_DISCONNECTED", j, v)
  BY <1>1, <1>2, <1>3, TellsFlag
<1>5. QED
  BY <1>4 DEF LinkTells, Tells, d, j

LEMMA LinkKept ==
  ASSUME LinkTells, events' = events,
         driver'.link = "address" <=> driver.link = "address",
         \/ /\ st'.connected <=> st.connected
            /\ st'.ip = "station" <=> st.ip = "station"
         \/ ~st'.connected /\ st'.ip # "station" /\ driver.link # "address"
  PROVE  LinkTells'
BY DEF LinkTells, Tells

\* The history of a stop that failed is kept
LEMMA IgnoredStays == [Next]_vars /\ ~ignored' => ~ignored
BY DEF Next, vars, Begin, HandleEvent, DriverStep, Associate, ObtainAddress,
   LoseLink, FinishScan, ConnectStep, ConnectRestart, ConnectRestartFails,
   ConnectClear, ConfigRefused, Join, JoinRefused, WaitConnected, WaitFailed,
   WaitTimesOut, PortalStep, StartApRestart, StartApRestartFails,
   StartApStatus, StartApConfigFails, Submitted, PortalStop, ResetStop,
   DisconnectStep, TickUnprovisioned, MainDisconnect, MainDisconnectStatus,
   McpJoin, ToolStep, ScanStart, ScanFails, ScanDone, ScanTimesOut,
   ToolDisconnect, ToolDisconnectStatus, Restart, RestartAfterStop,
   RestartWithoutStop, RestartFails, RestartFailsAfterStop,
   RestartFailsWithoutStop

LEMMA LinkStep == ApInv /\ LinkInv /\ [Next]_vars => LinkInv'
<1>1. SUFFICES ASSUME ApInv, LinkInv, [Next]_vars, ~ignored'
               PROVE  LinkTells' /\ Unlinked'
  BY DEF LinkInv
<1>2. /\ TypeOK /\ TypeOK' /\ ApPlaces /\ driver \in Drivers
      /\ st \in Statuses /\ st' \in Statuses /\ events \in Seq(Events)
  BY <1>1, ApStep DEF ApInv, TypeOK, Drivers, Statuses
<1>3. ~ignored /\ LinkTells /\ Unlinked
  BY <1>1, IgnoredStays DEF LinkInv
<1>4. ASSUME events' = events, driver' = driver, st' = st PROVE LinkTells'
  BY <1>3, <1>4, LinkKept
<1>5. CASE UNCHANGED vars
  BY <1>3, <1>4, <1>5 DEF vars, Unlinked
<1>6. CASE Begin
  BY <1>2, <1>3, <1>4, <1>6 DEF Begin, Unlinked, UnlinkedPlaces, ApPlaces
<1>7. CASE HandleEvent
  <2> DEFINE c == st.connected
             d == st'.connected
             i == st.ip = "station"
             j == st'.ip = "station"
             v == driver.link = "address"
             S == {"GOT_IP", "STA_DISCONNECTED"}
  <2>1. /\ events # <<>> /\ events' = Tail(events)
        /\ Head(events) = "GOT_IP" => d /\ j
        /\ Head(events) = "STA_DISCONNECTED" => ~d /\ ~j
        /\ Head(events) \notin S => (d <=> c) /\ (j <=> i)
        /\ main' = main /\ tool' = tool /\ driver' = driver
    BY <1>2, <1>7, Handled DEF LinkEvents
  <2>2. /\ Tells(events, "GOT_IP", "STA_DISCONNECTED", c, v)
        /\ Tells(events, "GOT_IP", "STA_DISCONNECTED", i, v)
    BY <1>3 DEF LinkTells
  <2>3. /\ c \in BOOLEAN /\ d \in BOOLEAN /\ i \in BOOLEAN /\ j \in BOOLEAN
        /\ v \in BOOLEAN
    BY <1>2 DEF Statuses
  <2> HIDE DEF c, d, i, j, v
  <2>4. Tells(Tail(events), "GOT_IP", "STA_DISCONNECTED", d, v)
    BY <1>2, <2>1, <2>2, <2>3, TailTells
  <2>5. Tells(Tail(events), "GOT_IP", "STA_DISCONNECTED", j, v)
    BY <1>2, <2>1, <2>2, <2>3, TailTells
  <2>6. LinkTells'
    BY <2>1, <2>4, <2>5 DEF LinkTells, Tells, d, j, v
  <2>7. QED
    BY <1>3, <2>1, <2>6 DEF Unlinked
<1>8. CASE DriverStep
  <2>1. PICK e \in Events \ ApEvents :
          /\ events' = events \o <<e>> /\ <<e>> \in Seq(Events)
          /\ driver.link = "none" => driver'.link = "none"
          /\ e = "GOT_IP" => driver'.link = "address"
          /\ e = "STA_DISCONNECTED" => driver'.link = "none"
          /\ e \notin LinkEvents =>
               (driver'.link = "address" <=> driver.link = "address")
          /\ UNCHANGED <<main, tool, st>>
    BY <1>2, <1>8, DriverPosts
  <2> DEFINE v == driver.link = "address"
             w == driver'.link = "address"
  <2>2. /\ v \in BOOLEAN /\ w \in BOOLEAN /\ e \in Events
        /\ e = "GOT_IP" => w
        /\ e = "STA_DISCONNECTED" => ~w
        /\ e \notin {"GOT_IP", "STA_DISCONNECTED"} => (w <=> v)
    BY <2>1 DEF LinkEvents
  <2>3. Tells(<<e>>, "GOT_IP", "STA_DISCONNECTED", v, w)
    <3> HIDE DEF v, w
    <3>1. QED
      BY <2>2, OneTells
  <2>4. LinkTells'
    BY <1>2, <1>3, <2>1, <2>2, <2>3, LinkPosted
  <2>5. QED
    BY <1>3, <2>1, <2>4 DEF Unlinked
\* After esp_wifi_stop, and after esp_wifi_disconnect, there is no link
<1>9. ASSUME NEW es \in Seq(Events), events' = events \o es,
             driver'.link = "none",
             Tells(es, "GOT_IP", "STA_DISCONNECTED",
                   driver.link = "address", FALSE),
             st'.connected = st.connected,
             st'.ip = st.ip \/ st'.ip = "none"
      PROVE  LinkTells'
  <2> DEFINE no == FALSE
  <2>1. no \in BOOLEAN /\ ~no /\ (driver'.link = "address" <=> no)
    BY <1>9
  <2>2. Tells(es, "GOT_IP", "STA_DISCONNECTED", driver.link = "address", no)
    BY <1>9
  <2> HIDE DEF no
  <2>3. QED
    BY <1>2, <1>3, <1>9, <2>1, <2>2, LinkPosted
<1>10. ASSUME NEW mode \in {"STA", "APSTA"}, Restart(mode), st' = st
       PROVE  LinkTells' /\ driver'.link = "none"
  <2>1. PICK es \in Seq(Events) :
          /\ events' = events \o es /\ driver'.link = "none"
          /\ Tells(es, "GOT_IP", "STA_DISCONNECTED",
                   driver.link = "address", FALSE)
    BY <1>1, <1>2, <1>10, RestartFacts
  <2>2. QED
    BY <1>9, <1>10, <2>1
<1>11. ASSUME Post(StopEvents(driver)),
              \/ driver' = Stopped(driver)
              \/ \E mode \in {"STA", "APSTA"} :
                   driver' = [Stopped(driver) EXCEPT !.mode = mode],
              st'.connected = st.connected,
              st'.ip = st.ip \/ st'.ip = "none"
       PROVE  LinkTells' /\ driver'.link = "none"
  <2>1. PICK es \in Seq(Events) :
          /\ events' = events \o es /\ driver'.link = "none"
          /\ Tells(es, "GOT_IP", "STA_DISCONNECTED",
                   driver.link = "address", FALSE)
    BY <1>2, <1>11, StopPosts
  <2>2. QED
    BY <1>9, <1>11, <2>1
<1>12. ASSUME DropLink, st' = st PROVE LinkTells' /\ driver'.link = "none"
  <2>1. PICK es \in Seq(Events) :
          /\ events' = events \o es /\ driver'.link = "none"
          /\ Tells(es, "GOT_IP", "STA_DISCONNECTED",
                   driver.link = "address", FALSE)
    BY <1>2, <1>12, DropPosts
  <2>2. QED
    BY <1>9, <1>12, <2>1
\* Assignments of a caller that found the link down
<1>13. ASSUME driver.link = "none", events' = events, driver' = driver,
              ~st'.connected, st'.ip # "station"
       PROVE  LinkTells'
  BY <1>3, <1>13, LinkKept
<1>14. CASE ConnectStep
  <2>1. tool = "down"
    BY <1>2, <1>14 DEF ApPlaces, ConnectStep, ConnectRestart,
       ConnectRestartFails, ConnectClear, ConfigRefused, Join, JoinRefused,
       WaitConnected, WaitFailed, WaitTimesOut
  <2>2. CASE ConnectRestart
    <3>1. LinkTells' /\ driver'.link = "none"
      BY <1>10, <2>2 DEF ConnectRestart
    <3>2. QED
      BY <3>1 DEF Unlinked
  <2>3. CASE ConnectRestartFails
    <3>1. LinkTells' /\ driver'.link = "none"
      BY <1>1, <1>11, <2>3 DEF ConnectRestartFails, RestartFails,
         RestartFailsAfterStop, RestartFailsWithoutStop
    <3>2. QED
      BY <3>1 DEF Unlinked
  <2>4. CASE ConnectClear
    <3>1. driver.link = "none" /\ driver' = driver /\ events' = events
      BY <1>3, <2>4 DEF ConnectClear, Unlinked, UnlinkedPlaces
    <3>2. ~st'.connected /\ st'.ip # "station"
      BY <1>2, <2>4 DEF ConnectClear, Statuses
    <3>3. QED
      BY <1>13, <3>1, <3>2 DEF Unlinked
  <2>5. CASE Join
    <3>1. driver.link = "none" /\ driver'.link = "joining"
      BY <1>2, <1>3, <2>5 DEF Join, Unlinked, UnlinkedPlaces, Drivers
    <3>2. LinkTells'
      BY <1>3, <2>5, <3>1, LinkKept DEF Join
    <3>3. QED
      BY <2>1, <2>5, <3>2 DEF Join, Unlinked, UnlinkedPlaces
  <2>6. CASE \/ ConfigRefused \/ JoinRefused \/ WaitConnected \/ WaitFailed
             \/ WaitTimesOut
    BY <1>4, <2>1, <2>6 DEF ConfigRefused, JoinRefused, WaitConnected,
       WaitFailed, WaitTimesOut, Unlinked, UnlinkedPlaces
  <2>7. QED
    BY <1>14, <2>2, <2>3, <2>4, <2>5, <2>6 DEF ConnectStep
<1>15. CASE PortalStep
  <2>1. CASE StartApRestart
    <3>1. LinkTells' /\ driver'.link = "none"
      BY <1>10, <2>1 DEF StartApRestart
    <3>2. QED
      BY <3>1 DEF Unlinked
  <2>2. CASE StartApRestartFails
    <3>1. LinkTells' /\ driver'.link = "none"
      BY <1>1, <1>11, <2>2 DEF StartApRestartFails, RestartFails,
         RestartFailsAfterStop, RestartFailsWithoutStop
    <3>2. QED
      BY <3>1 DEF Unlinked
  <2>3. CASE StartApStatus
    <3>1. driver.link = "none" /\ driver' = driver /\ events' = events
      BY <1>3, <2>3 DEF StartApStatus, Unlinked, UnlinkedPlaces
    <3>2. ~st'.connected /\ st'.ip # "station"
      BY <1>2, <2>3 DEF StartApStatus, Statuses
    <3>3. QED
      BY <1>13, <3>1, <3>2 DEF Unlinked
  <2>4. ASSUME StopAp PROVE LinkTells' /\ driver'.link = "none"
    <3>1. st'.connected = st.connected /\ (st'.ip = st.ip \/ st'.ip = "none")
      BY <1>2, <2>4 DEF StopAp, AfterStopAp, Statuses
    <3>2. QED
      BY <1>11, <2>4, <3>1 DEF StopAp
  <2>5. CASE StopAp
    BY <2>4, <2>5 DEF Unlinked
  <2>6. CASE UNCHANGED <<driver, events, st>> /\ (PortalStop \/ ResetStop)
    BY <1>3, <1>4, <2>6 DEF PortalStop, ResetStop, Unlinked, UnlinkedPlaces
  <2>7. CASE StartApConfigFails
    BY <1>3, <1>4, <2>7 DEF StartApConfigFails, Unlinked, UnlinkedPlaces
  <2>8. CASE Submitted
    BY <1>3, <1>4, <2>8 DEF Submitted, Unlinked, UnlinkedPlaces
  <2>9. QED
    BY <1>15, <2>1, <2>2, <2>3, <2>5, <2>6, <2>7, <2>8
    DEF PortalStep, PortalStop, ResetStop
<1>16. ~Disconnected.connected /\ Disconnected.ip # "station"
  BY <1>2 DEF Disconnected, Statuses
<1>17. CASE DisconnectStep
  <2>1. CASE TickUnprovisioned \/ McpJoin
    BY <1>3, <1>4, <2>1 DEF TickUnprovisioned, McpJoin, Unlinked,
       UnlinkedPlaces
  <2>2. CASE MainDisconnect
    <3>1. CASE DropLink
      <4>1. LinkTells' /\ driver'.link = "none"
        BY <1>12, <2>2, <3>1 DEF MainDisconnect
      <4>2. QED
        BY <4>1 DEF Unlinked
    <3>2. CASE main' = "mcp_join" /\ UNCHANGED <<driver, events>>
      BY <1>3, <1>4, <2>2, <3>2 DEF MainDisconnect, Unlinked, UnlinkedPlaces
    <3>3. QED
      BY <2>2, <3>1, <3>2 DEF MainDisconnect
  <2>3. CASE MainDisconnectStatus
    <3>1. driver.link = "none" /\ driver' = driver /\ events' = events
      BY <1>3, <2>3 DEF MainDisconnectStatus, Unlinked, UnlinkedPlaces
    <3>2. QED
      BY <1>13, <1>16, <2>3, <3>1 DEF MainDisconnectStatus, Unlinked
  <2>4. QED
    BY <1>17, <2>1, <2>2, <2>3 DEF DisconnectStep
<1>18. CASE ToolStep
  <2>1. ASSUME Post(StartEvents(driver, ScanMode)), st' = st, main' = main,
               tool' # "disconnect_status",
               \/ driver' = Started(driver, ScanMode)
               \/ driver' = [Started(driver, ScanMode) EXCEPT !.scanning = TRUE]
        PROVE  LinkTells' /\ Unlinked'
    <3>1. PICK es \in Seq(Events) :
            /\ events' = events \o es /\ driver'.link = driver.link
            /\ FreeOf(es, LinkEvents)
      BY <1>2, <2>1, ScanFacts
    <3> DEFINE v == driver.link = "address"
    <3>2. v \in BOOLEAN /\ (driver'.link = "address" <=> v)
      BY <3>1
    <3>3. Tells(es, "GOT_IP", "STA_DISCONNECTED", v, v)
      BY <3>1 DEF Tells, FreeOf, LinkEvents
    <3>4. LinkTells'
      BY <1>2, <1>3, <2>1, <3>1, <3>2, <3>3, LinkPosted
    <3>5. QED
      BY <1>3, <2>1, <3>1, <3>4 DEF Unlinked
  <2>2. CASE ScanStart \/ ScanFails
    <3>1. CASE UNCHANGED <<driver, events, st, main, tool>>
      BY <1>3, <1>4, <3>1 DEF Unlinked
    <3>2. QED
      BY <2>1, <2>2, <3>1 DEF ScanStart, ScanFails
  <2>3. CASE ScanDone \/ ScanTimesOut
    BY <1>3, <1>4, <2>3 DEF ScanDone, ScanTimesOut, Unlinked
  <2>4. CASE ToolDisconnect
    <3>1. LinkTells' /\ driver'.link = "none"
      BY <1>12, <2>4 DEF ToolDisconnect
    <3>2. QED
      BY <3>1 DEF Unlinked
  <2>5. CASE ToolDisconnectStatus
    <3>1. driver.link = "none" /\ driver' = driver /\ events' = events
      BY <1>3, <2>5 DEF ToolDisconnectStatus, Unlinked
    <3>2. QED
      BY <1>13, <1>16, <2>5, <3>1 DEF ToolDisconnectStatus, Unlinked
  <2>6. QED
    BY <1>18, <2>2, <2>3, <2>4, <2>5 DEF ToolStep
<1>19. QED
  BY <1>1, <1>5, <1>6, <1>7, <1>8, <1>14, <1>15, <1>17, <1>18 DEF Next

LEMMA LinkInit == Init => LinkInv
<1>1. SUFFICES ASSUME Init PROVE LinkInv
  OBVIOUS
<1>2. events = <<>> /\ DOMAIN <<>> = {}
  BY <1>1 DEF Init
<1>3. LinkTells
  BY <1>1, <1>2 DEF Init, LinkTells, Tells
<1>4. Unlinked
  BY <1>1 DEF Init, Unlinked
<1>5. QED
  BY <1>3, <1>4 DEF LinkInv

-----------------------------------------------------------------------------
(* Whose answer it is *)

LEMMA OvertakenTail ==
  ASSUME NEW q \in Seq(Events), q # <<>>, Overtaken(q)
  PROVE  Overtaken(Tail(q))
<1>1. /\ DOMAIN q = 1 .. Len(q) /\ Len(q) \in Nat
      /\ DOMAIN Tail(q) = 1 .. Len(q) - 1
      /\ \A i \in 1 .. Len(q) - 1 : Tail(q)[i] = q[i + 1]
  BY TailFacts
<1>2. SUFFICES ASSUME NEW i \in 1 .. Len(q) - 1, Tail(q)[i] \in LinkEvents
               PROVE  \E j \in 1 .. Len(q) - 1 :
                        j > i /\ Tail(q)[j] = "AP_START"
  BY <1>1 DEF Overtaken
<1>3. i + 1 \in 1 .. Len(q) /\ q[i + 1] \in LinkEvents
  BY <1>1, <1>2
<1>4. PICK k \in 1 .. Len(q) : k > i + 1 /\ q[k] = "AP_START"
  BY <1>1, <1>3 DEF Overtaken
<1>5. k - 1 \in 1 .. Len(q) - 1 /\ k - 1 > i /\ (k - 1) + 1 = k
  BY <1>1, <1>2, <1>4
<1>6. QED
  BY <1>1, <1>4, <1>5

LEMMA OvertakenConcat ==
  ASSUME NEW q \in Seq(Events), NEW es \in Seq(Events),
         \/ Overtaken(q) /\ FreeOf(es, LinkEvents)
         \/ es # <<>> /\ es[Len(es)] = "AP_START"
  PROVE  Overtaken(q \o es)
<1> DEFINE r == q \o es
<1>1. /\ DOMAIN q = 1 .. Len(q) /\ DOMAIN es = 1 .. Len(es)
      /\ DOMAIN r = 1 .. Len(q) + Len(es)
      /\ Len(q) \in Nat /\ Len(es) \in Nat
      /\ \A i \in 1 .. Len(q) + Len(es) :
           r[i] = IF i <= Len(q) THEN q[i] ELSE es[i - Len(q)]
  BY ConcatProperties, LenProperties
<1> HIDE DEF r
<1>2. SUFFICES ASSUME NEW i \in 1 .. Len(q) + Len(es), r[i] \in LinkEvents
               PROVE  \E j \in 1 .. Len(q) + Len(es) :
                        j > i /\ r[j] = "AP_START"
  BY <1>1 DEF Overtaken, r
<1>3. CASE Overtaken(q) /\ FreeOf(es, LinkEvents)
  <2>1. i <= Len(q)
    <3>1. ASSUME ~(i <= Len(q)) PROVE FALSE
      <4>1. i - Len(q) \in 1 .. Len(es) /\ r[i] = es[i - Len(q)]
        BY <1>1, <3>1
      <4>2. QED
        BY <1>1, <1>2, <1>3, <4>1 DEF FreeOf
    <3>2. QED
      BY <3>1
  <2>2. i \in 1 .. Len(q) /\ q[i] \in LinkEvents
    BY <1>1, <1>2, <2>1
  <2>3. PICK j \in 1 .. Len(q) : j > i /\ q[j] = "AP_START"
    BY <1>1, <1>3, <2>2 DEF Overtaken
  <2>4. j \in 1 .. Len(q) + Len(es) /\ r[j] = q[j]
    BY <1>1, <2>3
  <2>5. QED
    BY <2>3, <2>4
<1>4. CASE es # <<>> /\ es[Len(es)] = "AP_START"
  <2> DEFINE n == Len(q) + Len(es)
  <2>1. Len(es) # 0
    BY <1>4, EmptySeq
  <2>2. /\ n \in 1 .. Len(q) + Len(es) /\ ~(n <= Len(q))
        /\ n - Len(q) = Len(es)
    BY <1>1, <2>1
  <2>3. r[n] = "AP_START"
    BY <1>1, <1>4, <2>2
  <2>4. i # n
    BY <1>2, <2>3 DEF LinkEvents
  <2>5. n > i
    BY <1>1, <2>4
  <2>6. QED
    BY <2>2, <2>3, <2>5
<1>5. QED
  BY <1>3, <1>4

LEMMA AttemptStep == ApInv /\ LinkInv /\ AttemptInv /\ [Next]_vars => AttemptInv'
<1>1. SUFFICES ASSUME ApInv, LinkInv, AttemptInv, [Next]_vars, ~ignored'
               PROVE  Attempts'
  BY DEF AttemptInv
<1>2. /\ TypeOK /\ ApPlaces /\ driver \in Drivers /\ events \in Seq(Events)
      /\ attempt \subseteq {"address", "drop"}
  BY <1>1 DEF ApInv, TypeOK, Drivers
<1>3. ~ignored /\ Unlinked /\ Attempts
  BY <1>1, IgnoredStays DEF LinkInv, AttemptInv
<1>4. CASE UNCHANGED vars
  BY <1>3, <1>4 DEF vars, Attempts, Overtaken, FreeOf, Fresh
<1>5. CASE Begin
  <2>1. FreeOf(events', LinkEvents)
    BY <1>2, <1>5 DEF Begin, ApPlaces, FreeOf
  <2>2. QED
    BY <1>3, <1>5, <2>1 DEF Begin, Attempts, FreeOf
<1>6. CASE HandleEvent
  <2>1. /\ events # <<>> /\ events' = Tail(events)
        /\ bits' = bits \cup BitOf(Head(events))
        /\ UNCHANGED <<main, answer, attempt>>
    BY <1>6 DEF HandleEvent
  <2>2. Overtaken(events) => Overtaken(events')
    BY <1>2, <2>1, OvertakenTail
  <2>3. FreeOf(events, LinkEvents) =>
          FreeOf(events', LinkEvents) /\ Head(events) \notin LinkEvents
    BY <1>2, <2>1, TailFree
  <2>4. Head(events) \notin LinkEvents =>
          BitOf(Head(events)) \cap {"CONNECTED", "FAILED"} = {}
    BY DEF BitOf, LinkEvents
  <2>5. Fresh => Fresh'
    <3>1. /\ "CONNECTED" \in BitOf(Head(events)) => Head(events) = "GOT_IP"
          /\ "FAILED" \in BitOf(Head(events)) =>
               Head(events) = "STA_DISCONNECTED"
      BY DEF BitOf
    <3>2. /\ FreeOf(events, {"GOT_IP"}) <=>
               Head(events) \notin {"GOT_IP"} /\ FreeOf(events', {"GOT_IP"})
          /\ FreeOf(events, {"STA_DISCONNECTED"}) <=>
               /\ Head(events) \notin {"STA_DISCONNECTED"}
               /\ FreeOf(events', {"STA_DISCONNECTED"})
      BY <1>2, <2>1, TailFree
    <3>3. QED
      BY <2>1, <3>1, <3>2 DEF Fresh, FreeOf
  <2>6. QED
    BY <1>3, <2>1, <2>2, <2>3, <2>4, <2>5 DEF Attempts, Overtaken, FreeOf
<1>7. CASE DriverStep
  <2>1. PICK e \in Events \ ApEvents :
          /\ events' = events \o <<e>> /\ <<e>> \in Seq(Events)
          /\ driver.link = "none" => e \notin LinkEvents
          /\ e = "GOT_IP" => "address" \in attempt'
          /\ e = "STA_DISCONNECTED" => "drop" \in attempt'
          /\ attempt \subseteq attempt'
          /\ UNCHANGED <<main, bits, answer>>
    BY <1>2, <1>7, DriverPosts
  <2>2. driver.link = "none" => FreeOf(<<e>>, LinkEvents)
    BY <2>1, OneFree
  <2>3. driver.link = "none" /\ Overtaken(events) => Overtaken(events')
    BY <1>2, <2>1, <2>2, OvertakenConcat
  <2>4. driver.link = "none" /\ FreeOf(events, LinkEvents) =>
          FreeOf(events', LinkEvents)
    BY <1>2, <2>1, <2>2, ConcatFree
  <2>5. Fresh => Fresh'
    <3>1. /\ e # "GOT_IP" => FreeOf(<<e>>, {"GOT_IP"})
          /\ e # "STA_DISCONNECTED" => FreeOf(<<e>>, {"STA_DISCONNECTED"})
      BY OneFree
    <3>2. /\ FreeOf(events', {"GOT_IP"}) <=>
               FreeOf(events, {"GOT_IP"}) /\ FreeOf(<<e>>, {"GOT_IP"})
          /\ FreeOf(events', {"STA_DISCONNECTED"}) <=>
               /\ FreeOf(events, {"STA_DISCONNECTED"})
               /\ FreeOf(<<e>>, {"STA_DISCONNECTED"})
      BY <1>2, <2>1, ConcatFree
    <3>3. QED
      BY <2>1, <3>1, <3>2 DEF Fresh, FreeOf
  <2>6. main \in {"ap_status", "portal", "stop_ap", "connect", "clear", "join"}
          => driver.link = "none"
    BY <1>3 DEF Unlinked, UnlinkedPlaces
  <2>7. QED
    BY <1>3, <2>1, <2>3, <2>4, <2>5, <2>6 DEF Attempts, Overtaken, FreeOf
<1>8. CASE ConnectStep
  <2>1. CASE ConnectRestart
    <3>1. driver.link = "none" /\ FreeOf(events, LinkEvents)
      BY <1>3, <2>1 DEF ConnectRestart, Unlinked, UnlinkedPlaces, Attempts
    <3>2. PICK es \in Seq(Events) :
            events' = events \o es /\ FreeOf(es, LinkEvents)
      BY <1>1, <1>2, <2>1, <3>1, RestartFacts DEF ConnectRestart
    <3>3. FreeOf(events', LinkEvents)
      BY <1>2, <3>1, <3>2, ConcatFree
    <3>4. QED
      BY <1>3, <2>1, <3>3 DEF ConnectRestart, Attempts, FreeOf
  <2>2. CASE ConnectRestartFails
    BY <1>3, <2>2 DEF ConnectRestartFails, Attempts
  <2>3. CASE ConnectClear
    BY <1>3, <2>3 DEF ConnectClear, Attempts, FreeOf
  <2>4. CASE Join
    <3>1. /\ FreeOf(events, {"GOT_IP"}) /\ FreeOf(events, {"STA_DISCONNECTED"})
          /\ "CONNECTED" \notin bits /\ "FAILED" \notin bits
      BY <1>3, <2>4 DEF Join, Attempts, FreeOf, LinkEvents
    <3>2. Fresh'
      BY <2>4, <3>1 DEF Join, Fresh, FreeOf
    <3>3. QED
      BY <2>4, <3>2 DEF Join, Attempts
  <2>5. CASE ConfigRefused \/ JoinRefused
    BY <1>3, <2>5 DEF ConfigRefused, JoinRefused, Attempts
  <2>6. CASE WaitConnected \/ WaitFailed \/ WaitTimesOut
    BY <1>3, <2>6 DEF WaitConnected, WaitFailed, WaitTimesOut, Attempts, Fresh
  <2>7. QED
    BY <1>8, <2>1, <2>2, <2>3, <2>4, <2>5, <2>6 DEF ConnectStep
<1>9. CASE PortalStep
  <2>1. CASE StartApRestart
    <3>1. PICK es \in Seq(Events) :
            events' = events \o es /\ es # <<>> /\ es[Len(es)] = "AP_START"
      BY <1>1, <1>2, <2>1, RestartFacts DEF StartApRestart
    <3>2. Overtaken(events')
      BY <1>2, <3>1, OvertakenConcat
    <3>3. QED
      BY <1>3, <2>1, <3>2 DEF StartApRestart, Attempts, Overtaken
  <2>2. CASE StartApStatus
    BY <1>3, <2>2 DEF StartApStatus, Attempts, Overtaken
  <2>3. CASE Submitted
    <3>1. FreeOf(events', LinkEvents)
      BY <1>3, <2>3 DEF Submitted, Attempts, Overtaken, FreeOf
    <3>2. QED
      BY <1>3, <2>3, <3>1 DEF Submitted, Attempts, FreeOf
  <2>4. CASE PortalStop
    <3>1. FreeOf(events, LinkEvents) /\ driver.link = "none"
      BY <1>3, <2>4 DEF PortalStop, Attempts, Unlinked, UnlinkedPlaces
    <3>2. CASE main' = "connect" /\ StopAp
      <4>1. Post(StopEvents(driver)) /\ driver' = Stopped(driver)
        BY <3>2 DEF StopAp
      <4>2. PICK es \in Seq(Events) :
              events' = events \o es /\ FreeOf(es, LinkEvents)
        BY <1>2, <3>1, <4>1, StopPosts
      <4>3. FreeOf(events', LinkEvents)
        BY <1>2, <3>1, <4>2, ConcatFree
      <4>4. QED
        BY <1>3, <2>4, <3>2, <4>3 DEF PortalStop, Attempts, FreeOf
    <3>3. CASE main' = "portal" /\ UNCHANGED events
      <4>1. Overtaken(events')
        BY <3>1, <3>3 DEF Overtaken, FreeOf
      <4>2. QED
        BY <1>3, <2>4, <3>3, <4>1 DEF PortalStop, Attempts, Overtaken
    <3>4. QED
      BY <2>4, <3>2, <3>3 DEF PortalStop
  <2>5. CASE StartApRestartFails \/ StartApConfigFails \/ ResetStop
    BY <1>3, <2>5 DEF StartApRestartFails, StartApConfigFails, ResetStop,
       Attempts
  <2>6. QED
    BY <1>9, <2>1, <2>2, <2>3, <2>4, <2>5 DEF PortalStep
<1>10. CASE DisconnectStep
  BY <1>3, <1>10 DEF DisconnectStep, TickUnprovisioned, MainDisconnect,
     MainDisconnectStatus, McpJoin, Attempts
<1>11. CASE ToolStep
  <2>1. /\ UNCHANGED <<main, answer, attempt>>
        /\ main \in {"online", "disconnect", "disconnect_status", "mcp_join"}
    BY <1>2, <1>11 DEF ApPlaces, ToolStep, ScanStart, ScanFails, ScanDone,
       ScanTimesOut, ToolDisconnect, ToolDisconnectStatus
  <2>2. QED
    BY <1>3, <2>1 DEF Attempts
<1>12. QED
  BY <1>1, <1>4, <1>5, <1>6, <1>7, <1>8, <1>9, <1>10, <1>11 DEF Next

LEMMA AttemptInit == Init => AttemptInv
<1>1. SUFFICES ASSUME Init PROVE Attempts
  BY DEF AttemptInv
<1>2. QED
  BY <1>1 DEF Init, Attempts

-----------------------------------------------------------------------------
(* Theorems *)

\* Every variable keeps its type, whatever the length of the event queue.
THEOREM TypeCorrect == Spec => []TypeOK
<1>1. QED
  BY TypeInit, TypeStep, PTL DEF Spec

\* g_ap_netif_up, by which wifi_scan chooses its mode, is what the driver has
\* once the posted events are handled, in whatever order the two tasks call
\* and with any failed call.
THEOREM ApFlagCorrect == Spec => []ApFlagTells
<1>1. ApInv => ApFlagTells
  <2>1. SUFFICES ASSUME ApInv, events = <<>> PROVE st.apUp <=> ApOn(driver)
    BY DEF ApFlagTells, Quiet
  <2>2. FreeOf(events, {"AP_START", "AP_STOP"})
    BY <2>1 DEF FreeOf
  <2>3. QED
    BY <2>1, <2>2 DEF ApInv, ApTells, Tells
<1>2. QED
  BY ApInit, ApStep, <1>1, PTL DEF Spec

\* wifi_scan starts with the mode that g_ap_netif_up asks for, which the event
\* task may not have brought up to date: the link and the access point survive
\* every scan all the same, because the MCP server runs only where the access
\* point is off and no event of it is on its way.
THEOREM ScanCorrect == Spec => ScanKeepsRadio
<1>1. ASSUME ApInv, ScanStart \/ ScanFails
      PROVE  driver'.link = driver.link /\ ApOn(driver') = ApOn(driver)
  <2>1. TypeOK /\ ~ApOn(driver) /\ ~st.apUp /\ driver \in Drivers
    BY <1>1 DEF ApInv, ApPlaces, ApIsOff, ScanStart, ScanFails, TypeOK, Drivers
  <2>2. CASE UNCHANGED driver
    BY <2>2
  <2>3. CASE /\ Post(StartEvents(driver, ScanMode))
             /\ \/ driver' = Started(driver, ScanMode)
                \/ driver' = [Started(driver, ScanMode) EXCEPT !.scanning = TRUE]
    <3>1. driver'.link = driver.link /\ ~ApOn(driver') /\ driver' \in Drivers
      BY <2>1, <2>3, ScanFacts
    <3>2. ApOn(driver) \in BOOLEAN /\ ApOn(driver') \in BOOLEAN
      BY <2>1, <3>1 DEF ApOn, Drivers
    <3>3. QED
      BY <2>1, <3>1, <3>2
  <2>4. QED
    BY <1>1, <2>2, <2>3 DEF ScanStart, ScanFails
<1>2. ApInv /\ [Next]_vars =>
        [ScanStart \/ ScanFails =>
           driver'.link = driver.link /\ ApOn(driver') = ApOn(driver)]_vars
  BY <1>1
<1>3. QED
  BY ApInit, ApStep, <1>2, PTL DEF Spec, ScanKeepsRadio

\* Once the posted events are handled and no caller is between a driver call
\* and its assignments, the status reports a connection and a station address
\* exactly when the driver has them, unless a failed stop was ignored.
THEOREM StatusCorrect == Spec => []StatusTellsLink
<1>1. LinkInv => StatusTellsLink
  <2>1. SUFFICES ASSUME LinkInv, events = <<>>, ~ignored
                 PROVE  /\ st.connected <=> driver.link = "address"
                        /\ st.ip = "station" <=> driver.link = "address"
    BY DEF StatusTellsLink, Quiet
  <2>2. FreeOf(events, {"GOT_IP", "STA_DISCONNECTED"})
    BY <2>1 DEF FreeOf
  <2>3. QED
    BY <2>1, <2>2 DEF LinkInv, LinkTells, Tells
<1>2. QED
  BY ApInit, ApStep, LinkInit, LinkStep, <1>1, PTL DEF Spec

\* wifi_connect_sta returns success only if the driver obtained an address,
\* and failure only if it reported a disconnect, since this esp_wifi_connect:
\* no event of an earlier link answers, unless a failed stop was ignored.
THEOREM AnswersCorrect == Spec => []AnswersAreOfThisAttempt
<1>1. AttemptInv => AnswersAreOfThisAttempt
  BY DEF AttemptInv, Attempts, AnswersAreOfThisAttempt
<1>2. QED
  BY ApInit, ApStep, LinkInit, LinkStep, AttemptInit, AttemptStep, <1>1, PTL
  DEF Spec


=============================================================================
