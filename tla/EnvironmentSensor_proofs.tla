----------------------- MODULE EnvironmentSensor_proofs -----------------------
(* The conversions for every raw word, and what any number of tasks keep.     *)
EXTENDS EnvironmentSensor, FiniteSetTheorems, TLAPS

Within(n, low, high) == n \in Int /\ low <= n /\ n <= high

\* environment_sensor_measure, status_service_get_environment_status: for every
\* word the sensor can send the products fit 32 bits, and what is stored fits
\* the 16 bits of its field and the range of the sensor.
THEOREM ReadingsFit ==
  ASSUME NEW ticks \in 0..65535
  PROVE  /\ 17500 * ticks < 2147483647 /\ 12500 * ticks < 2147483647
         /\ Within(CentiC(ticks), 0 - 4500, 13000)
         /\ Within(CentiF(CentiC(ticks)), 0 - 32768, 32767)
         /\ Within(CentiHumidity(ticks), 0, 10000)
<1>1. ticks \in Nat /\ ticks <= 65535
  OBVIOUS
<1>2. 17500 * ticks < 2147483647 /\ 12500 * ticks < 2147483647
  BY <1>1
<1>3. /\ Within((17500 * ticks) \div 65535, 0, 17500)
      /\ Within((12500 * ticks) \div 65535, 0, 12500)
  BY <1>1 DEF Within
<1>4. /\ Truncated(17500 * ticks, 65535) = (17500 * ticks) \div 65535
      /\ Truncated(12500 * ticks, 65535) = (12500 * ticks) \div 65535
  BY <1>1 DEF Truncated
<1>5. Within(CentiC(ticks), 0 - 4500, 13000)
  <2>1. CentiC(ticks) = (17500 * ticks) \div 65535 - 4500
    BY <1>3, <1>4 DEF CentiC, Within
  <2>2. QED
    BY <1>3, <2>1 DEF Within
<1>6. \A c \in Int : 0 - 4500 <= c /\ c <= 13000 =>
        Within(Truncated(c * 9, 5), 0 - 8100, 23400)
  <2>1. SUFFICES ASSUME NEW c \in Int, 0 - 4500 <= c, c <= 13000
                 PROVE  Within(Truncated(c * 9, 5), 0 - 8100, 23400)
    OBVIOUS
  <2>2. CASE c >= 0
    <3>1. Truncated(c * 9, 5) = (c * 9) \div 5
      BY <2>1, <2>2 DEF Truncated
    <3>2. QED
      BY <2>1, <2>2, <3>1 DEF Within
  <2>3. CASE c < 0
    <3>1. Truncated(c * 9, 5) = 0 - ((0 - c * 9) \div 5)
      <4>1. c * 9 \in Int /\ ~(c * 9 >= 0)
        BY <2>1, <2>3
      <4>2. -((-(c * 9)) \div 5) = 0 - ((0 - c * 9) \div 5)
        BY <2>1
      <4>3. QED
        BY <4>1, <4>2 DEF Truncated
    <3>2. QED
      BY <2>1, <2>3, <3>1 DEF Within
  <2>4. QED
    BY <2>2, <2>3
<1>7. Within(CentiF(CentiC(ticks)), 0 - 32768, 32767)
  BY <1>5, <1>6 DEF CentiF, Within
<1>8. Within(CentiHumidity(ticks), 0, 10000)
  BY <1>3, <1>4 DEF CentiHumidity, Within
<1>9. QED
  BY <1>2, <1>5, <1>7, <1>8

-----------------------------------------------------------------------------
(* A sensor found at the start is never given up: only a search that found    *)
(* nothing clears the two globals, and a task searches only while they are    *)
(* clear.                                                                     *)

Shape ==
  /\ DOMAIN call = Tasks /\ \A t \in Tasks : DOMAIN call[t] = DOMAIN Idle
  /\ DOMAIN g = DOMAIN NotBound

NobodySearches == \A t \in Tasks : call[t].at \notin {"probe", "probe_other"}

FoundInv == Shape /\ (found => g.present /\ g.bound /\ NobodySearches)

\* A step of a task that searches for nothing and leaves both globals set, or
\* sets them, keeps the invariant.
LEMMA StepKeeps ==
  ASSUME FoundInv, NEW t \in Tasks, NEW c, DOMAIN c = DOMAIN Idle,
         call' = [call EXCEPT ![t] = c], found' = found,
         DOMAIN g' = DOMAIN NotBound,
         found => /\ c.at \notin {"probe", "probe_other"}
                  /\ g'.present /\ g'.bound
  PROVE  FoundInv'
<1>1. DOMAIN call = Tasks /\ DOMAIN call' = Tasks /\ call'[t] = c
      /\ \A u \in Tasks \ {t} : call'[u] = call[u]
  BY DEF FoundInv, Shape
<1>2. Shape'
  BY <1>1 DEF FoundInv, Shape
<1>3. found' => NobodySearches'
  BY <1>1 DEF FoundInv, NobodySearches
<1>4. QED
  BY <1>2, <1>3 DEF FoundInv

LEMMA InitFound == Init => FoundInv
<1>1. SUFFICES ASSUME Init PROVE FoundInv
  OBVIOUS
<1>2. DOMAIN call = Tasks /\ \A t \in Tasks : call[t] = Idle
  <2>1. call = [t \in Tasks |-> Idle]
    BY <1>1, Zenon DEF Init
  <2>2. QED
    BY <2>1
<1>3. DOMAIN g = DOMAIN NotBound /\ (found => g.present /\ g.bound)
  <2>1. CASE found = FALSE /\ g = NotBound
    BY <2>1
  <2>2. ASSUME NEW read \in BOOLEAN,
               g = [NotBound EXCEPT !.present = TRUE, !.bound = TRUE,
                      !.serialValid = read,
                      !.serialError = IF read THEN "OK" ELSE "INTERNAL"]
        PROVE  DOMAIN g = DOMAIN NotBound /\ g.present /\ g.bound
    BY <2>2 DEF NotBound
  <2>3. (found = FALSE /\ g = NotBound) \/
          \E read \in BOOLEAN :
            g = [NotBound EXCEPT !.present = TRUE, !.bound = TRUE,
                   !.serialValid = read,
                   !.serialError = IF read THEN "OK" ELSE "INTERNAL"]
    BY <1>1, Zenon DEF Init
  <2>4. QED
    BY <2>1, <2>2, <2>3
<1>4. Shape
  <2>1. \A t \in Tasks : DOMAIN call[t] = DOMAIN Idle
    BY <1>2
  <2>2. QED
    BY <1>2, <1>3, <2>1 DEF Shape
<1>5. NobodySearches
  BY <1>2 DEF NobodySearches, Idle
<1>6. QED
  BY <1>3, <1>4, <1>5 DEF FoundInv

\* A step that moves task t to another point, and leaves both globals set.
LEMMA MoveKeeps ==
  ASSUME FoundInv, NEW t \in Tasks, NEW p, Goto(t, p), found' = found,
         DOMAIN g' = DOMAIN NotBound,
         found => p \notin {"probe", "probe_other"} /\ g'.present /\ g'.bound
  PROVE  FoundInv'
<1> DEFINE c == [call[t] EXCEPT !.at = p]
<1>1. DOMAIN c = DOMAIN Idle /\ c.at = p
  BY DEF FoundInv, Shape, Idle
<1>2. call' = [call EXCEPT ![t] = c]
  BY DEF FoundInv, Shape, Goto
<1> HIDE DEF c
<1>3. QED
  BY <1>1, <1>2, StepKeeps

LEMMA BeginKeeps ==
  ASSUME FoundInv, NEW t \in Tasks, Begin(t)
  PROVE  FoundInv'
BY MoveKeeps DEF Begin, FoundInv, Shape

LEMMA SearchKeeps ==
  ASSUME FoundInv, NEW t \in Tasks, Probe(t) \/ ProbeOther(t)
  PROVE  FoundInv'
<1>1. ~found
  BY DEF Probe, ProbeOther, FoundInv, NobodySearches
<1>2. found' = found /\ DOMAIN g' = DOMAIN NotBound
  BY DEF Probe, ProbeOther, FoundInv, Shape
<1>3. PICK p : Goto(t, p)
  BY DEF Probe, ProbeOther
<1>4. QED
  BY <1>1, <1>2, <1>3, MoveKeeps

\* The other steps move their task to a point that searches for nothing, and
\* may set g_sensor_present, never clear it.
LEMMA OtherKeeps ==
  ASSUME FoundInv, NEW t \in Tasks, Step(t), ~Probe(t), ~ProbeOther(t)
  PROVE  FoundInv'
<1>1. found' = found
  BY DEF Step, SerialCheck, SerialCommand, SerialRead, PresentCheck, Measure,
         MeasureFails, Read, ReadFails, StoreTemperature, StoreHumidity, Failed,
         FallbackTemperature, FallbackHumidity, Answer
<1>2. /\ DOMAIN g' = DOMAIN NotBound
      /\ found => g'.present /\ g'.bound
  <2>1. DOMAIN g = DOMAIN NotBound /\ (found => g.present /\ g.bound)
    BY DEF FoundInv, Shape
  <2>2. CASE SerialCommand(t) \/ SerialRead(t)
    BY <2>1, <2>2 DEF SerialCommand, SerialRead, NotBound
  <2>3. CASE StoreTemperature(t) \/ StoreHumidity(t)
    BY <2>1, <2>3 DEF StoreTemperature, StoreHumidity, NotBound
  <2>4. CASE UNCHANGED g
    BY <2>1, <2>4
  <2>5. QED
    BY <2>2, <2>3, <2>4 DEF Step, SerialCheck, PresentCheck, Measure,
       MeasureFails, Read, ReadFails, Failed, FallbackTemperature,
       FallbackHumidity, Answer
<1>3. PICK c : /\ call' = [call EXCEPT ![t] = c]
               /\ DOMAIN c = DOMAIN Idle
               /\ c.at \notin {"probe", "probe_other"}
  <2>1. t \in DOMAIN call /\ DOMAIN call[t] = DOMAIN Idle
    BY DEF FoundInv, Shape
  <2>2. ASSUME NEW p, p \notin {"probe", "probe_other"}, Goto(t, p)
        PROVE  \E c : /\ call' = [call EXCEPT ![t] = c]
                      /\ DOMAIN c = DOMAIN Idle
                      /\ c.at \notin {"probe", "probe_other"}
    <3> DEFINE c == [call[t] EXCEPT !.at = p]
    <3>1. call' = [call EXCEPT ![t] = c] /\ DOMAIN c = DOMAIN Idle /\ c.at = p
      BY <2>1, <2>2 DEF Goto, Idle
    <3> HIDE DEF c
    <3>2. QED
      BY <2>2, <3>1
  <2>3. CASE \E p \in Points \ {"probe", "probe_other"} : Goto(t, p)
    BY <2>2, <2>3
  <2>4. CASE Retry(t)
    <3> DEFINE c == [call[t] EXCEPT !.tries = (@ + 1) % Retries,
                       !.at = IF call[t].tries + 1 < Retries THEN "measure" ELSE "failed"]
    <3>1. call' = [call EXCEPT ![t] = c]
      BY <2>1, <2>4 DEF Retry
    <3>2. DOMAIN c = DOMAIN Idle /\ c.at \in {"measure", "failed"}
      BY <2>1 DEF Idle
    <3> HIDE DEF c
    <3>3. QED
      BY <3>1, <3>2
  <2>5. CASE Read(t)
    <3> DEFINE c == [call[t] EXCEPT !.at = "store_t", !.tries = 0, !.valid = TRUE,
                       !.t = sensor.data, !.h = sensor.data]
    <3>1. call' = [call EXCEPT ![t] = c]
      BY <2>1, <2>5 DEF Read
    <3>2. DOMAIN c = DOMAIN Idle /\ c.at = "store_t"
      BY <2>1 DEF Idle
    <3> HIDE DEF c
    <3>3. QED
      BY <3>1, <3>2
  <2>6. CASE FallbackTemperature(t)
    <3> DEFINE c == [call[t] EXCEPT !.at = "fallback_h", !.t = g.t]
    <3>1. call' = [call EXCEPT ![t] = c]
      BY <2>1, <2>6 DEF FallbackTemperature
    <3>2. DOMAIN c = DOMAIN Idle /\ c.at = "fallback_h"
      BY <2>1 DEF Idle
    <3> HIDE DEF c
    <3>3. QED
      BY <3>1, <3>2
  <2>7. CASE FallbackHumidity(t)
    <3> DEFINE c == [call[t] EXCEPT !.at = "answer", !.h = g.h, !.valid = TRUE]
    <3>1. call' = [call EXCEPT ![t] = c]
      BY <2>1, <2>7 DEF FallbackHumidity
    <3>2. DOMAIN c = DOMAIN Idle /\ c.at = "answer"
      BY <2>1 DEF Idle
    <3> HIDE DEF c
    <3>3. QED
      BY <3>1, <3>2
  <2>8. CASE Answer(t)
    <3>1. call' = [call EXCEPT ![t] = Idle]
      BY <2>8 DEF Answer
    <3>2. Idle.at \notin {"probe", "probe_other"}
      BY DEF Idle
    <3>3. QED
      BY <3>1, <3>2
  <2>9. CASE \/ SerialCheck(t) \/ SerialCommand(t) \/ SerialRead(t)
             \/ PresentCheck(t) \/ Measure(t) \/ StoreTemperature(t)
             \/ StoreHumidity(t) \/ Failed(t)
    <3>1. \E p \in Points \ {"probe", "probe_other"} : Goto(t, p)
      BY <2>9 DEF SerialCheck, SerialCommand, SerialRead, PresentCheck, Measure,
         StoreTemperature, StoreHumidity, Failed, Points
    <3>2. QED
      BY <2>3, <3>1
  <2>10. QED
    BY <2>4, <2>5, <2>6, <2>7, <2>8, <2>9 DEF Step, MeasureFails, ReadFails
<1>4. QED
  BY <1>1, <1>2, <1>3, StepKeeps

LEMMA NextKeeps == FoundInv /\ [Next]_vars => FoundInv'
<1>1. SUFFICES ASSUME FoundInv, [Next]_vars PROVE FoundInv'
  OBVIOUS
<1>2. CASE g' = g /\ call' = call /\ found' = found
  <2>1. Shape' /\ (NobodySearches => NobodySearches')
    BY <1>1, <1>2 DEF FoundInv, Shape, NobodySearches
  <2>2. QED
    BY Zenon, <1>1, <1>2, <2>1 DEF FoundInv
<1>3. CASE SensorFinishes \/ UNCHANGED vars
  BY <1>2, <1>3 DEF SensorFinishes, vars
<1>4. ASSUME NEW t \in Tasks, Begin(t) PROVE FoundInv'
  BY <1>1, <1>4, BeginKeeps
<1>5. ASSUME NEW t \in Tasks, Step(t) PROVE FoundInv'
  BY <1>1, <1>5, SearchKeeps, OtherKeeps
<1>6. QED
  BY <1>1, <1>2, <1>3, <1>4, <1>5 DEF Next

\* environment_sensor_init binds the sensor; nothing that the calls of any
\* number of tasks do later, in any order and with any failed transfer, clears
\* g_sensor_present or g_sensor_i2c_address again.
THEOREM FoundStaysBoundCorrect == Spec => []FoundStaysBound
<1>1. FoundInv => FoundStaysBound
  BY DEF FoundInv, FoundStaysBound
<1>2. QED
  BY InitFound, NextKeeps, <1>1, PTL DEF Spec

-----------------------------------------------------------------------------
(* A reported reading is one measurement, as long as the tasks do not meet   *)
(* where the driver needs them apart (raced).                                *)

\* A search, and the two transfers of the serial number, have the driver for
\* themselves: another task is not further than its look at the serial number
Alone(t, points) == \A u \in Others(t) : call[u].at \in points

Searching == \A t \in Tasks : call[t].at \in {"probe", "probe_other"} =>
               ~g.present /\ Alone(t, {"idle"})

Asking == \A t \in Tasks : call[t].at \in {"serial_cmd", "serial_read"} =>
            /\ ~g.serialValid /\ g.serialError = "NOT_FOUND"
            /\ Alone(t, {"idle", "serial_check"})

\* Data that a waiting task may find are of a measurement of its own call
Waiting == \A t \in Tasks : call[t].at = "wait" =>
             sensor.data \in {Nothing} \cup since[t]

Holding == \A t \in Tasks : call[t].at \in {"store_t", "store_h"} =>
             call[t].t \in since[t] /\ call[t].h = call[t].t

\* The last reading is whole, or one task is about to make it so
LastReading ==
  g.valid => /\ g.t \in Measurements
             /\ g.h = g.t \/ \E t \in Tasks : call[t].at = "store_h"

Storing == \A t \in Tasks : call[t].at = "store_h" =>
             /\ g.valid /\ g.t = call[t].t
             /\ \A u \in Others(t) : call[u].at \notin {"store_h", "fallback_h"}

Falling == \A t \in Tasks :
             /\ call[t].at = "fallback_t" => g.valid
             /\ call[t].at = "fallback_h" =>
                  g.valid /\ call[t].t = g.t /\ g.h = g.t

Reporting == \A t \in Tasks : call[t].valid =>
               /\ call[t].at \in {"store_t", "store_h", "answer"}
               /\ call[t].at = "answer" =>
                    call[t].t \in Measurements /\ call[t].h = call[t].t

Readings == /\ Searching /\ Asking /\ Waiting /\ Holding
            /\ LastReading /\ Storing /\ Falling /\ Reporting

ReadingInv == TypeOK /\ (~raced => Readings)
-----------------------------------------------------------------------------
(* Types *)

Sensors == [doing : {"none", "measuring"}, by : SUBSET Tasks, data : Data]

Globals == [present : BOOLEAN, bound : BOOLEAN, serialValid : BOOLEAN,
            serialError : {"NOT_FOUND", "INTERNAL", "OK"}, valid : BOOLEAN,
            t : Data, h : Data]

Calls == [at : Points, tries : 0..(Retries - 1), t : Data, h : Data,
          valid : BOOLEAN]

\* What the variables hold, by the names of their types
LEMMA Typed ==
  ASSUME TypeOK
  PROVE  /\ sensor \in Sensors /\ g \in Globals /\ call \in [Tasks -> Calls]
         /\ since \in [Tasks -> SUBSET Measurements]
         /\ \A t \in Tasks : call[t] \in Calls
BY DEF TypeOK, Sensors, Globals, Calls

LEMMA OneMore ==
  ASSUME NEW S, NEW x, NEW k \in Nat, IsFiniteSet(S), Cardinality(S) <= k
  PROVE  IsFiniteSet(S \cup {x}) /\ Cardinality(S \cup {x}) <= k + 1
<1>1. Cardinality(S) \in Nat
  BY FS_CardinalityType
<1>2. /\ IsFiniteSet(S \cup {x})
      /\ Cardinality(S \cup {x}) = IF x \in S THEN Cardinality(S) ELSE Cardinality(S) + 1
  BY FS_AddElement
<1>3. QED
  BY <1>1, <1>2

\* Three identities beside two of every task are never all in use
LEMMA FreshIsThere == TypeOK => Fresh \in Measurements
<1>1. SUFFICES ASSUME TypeOK PROVE \E m \in Measurements : m \notin InUse
  BY DEF Fresh
<1> DEFINE T == {call[t].t : t \in Tasks}
           H == {call[t].h : t \in Tasks}
           A == {sensor.data, g.t, g.h}
           n == Cardinality(Tasks)
<1>2. IsFiniteSet(Tasks) /\ IsFiniteSet(Measurements) /\ n \in Nat
  BY ConstantsAssumption, FS_CardinalityType
<1>3. IsFiniteSet(T) /\ Cardinality(T) <= n
  <2> DEFINE f == [t \in Tasks |-> call[t].t]
  <2>1. f \in Surjection(Tasks, T)
    BY DEF Surjection
  <2>2. QED
    BY <1>2, <2>1, FS_Surjection
<1>4. IsFiniteSet(H) /\ Cardinality(H) <= n
  <2> DEFINE f == [t \in Tasks |-> call[t].h]
  <2>1. f \in Surjection(Tasks, H)
    BY DEF Surjection
  <2>2. QED
    BY <1>2, <2>1, FS_Surjection
<1>5. IsFiniteSet(A) /\ Cardinality(A) <= 3
  <2>1. A = ({sensor.data} \cup {g.t}) \cup {g.h}
    OBVIOUS
  <2>2. IsFiniteSet({sensor.data}) /\ Cardinality({sensor.data}) <= 1
    <3>1. {sensor.data} = {} \cup {sensor.data} /\ 0 + 1 = 1
      OBVIOUS
    <3>2. IsFiniteSet({}) /\ Cardinality({}) <= 0
      BY FS_EmptySet
    <3>3. IsFiniteSet({} \cup {sensor.data}) /\ Cardinality({} \cup {sensor.data}) <= 0 + 1
      BY <3>2, OneMore
    <3>4. QED
      BY <3>1, <3>3
  <2>3. /\ IsFiniteSet({sensor.data} \cup {g.t})
        /\ Cardinality({sensor.data} \cup {g.t}) <= 2
    <3>1. 1 + 1 = 2 /\ 1 \in Nat
      OBVIOUS
    <3>2. QED
      BY <2>2, <3>1, OneMore
  <2>4. /\ IsFiniteSet(({sensor.data} \cup {g.t}) \cup {g.h})
        /\ Cardinality(({sensor.data} \cup {g.t}) \cup {g.h}) <= 3
    <3> DEFINE P == {sensor.data} \cup {g.t}
    <3>1. 2 + 1 = 3 /\ 2 \in Nat /\ IsFiniteSet(P) /\ Cardinality(P) <= 2
      BY <2>3
    <3> HIDE DEF P
    <3>2. IsFiniteSet(P \cup {g.h}) /\ Cardinality(P \cup {g.h}) <= 2 + 1
      BY <3>1, OneMore
    <3>3. QED
      BY <3>1, <3>2 DEF P
  <2>5. QED
    BY <2>1, <2>4
<1>6. InUse = (A \cup T) \cup H
  BY DEF InUse
<1> HIDE DEF A, T, H
<1>7. /\ IsFiniteSet(A \cup T) /\ Cardinality(A \cup T) <= 3 + n
      /\ Cardinality(A \cup T) \in Nat
  <2>1. /\ IsFiniteSet(A \cap T) /\ IsFiniteSet(A \cup T)
        /\ Cardinality(A \cup T) =
             Cardinality(A) + Cardinality(T) - Cardinality(A \cap T)
    BY <1>3, <1>5, FS_Union, FS_Intersection
  <2>2. /\ Cardinality(A) \in Nat /\ Cardinality(T) \in Nat
        /\ Cardinality(A \cap T) \in Nat /\ Cardinality(A \cup T) \in Nat
    BY <1>3, <1>5, <2>1, FS_CardinalityType
  <2>3. QED
    BY <1>2, <1>3, <1>5, <2>1, <2>2
<1>8. IsFiniteSet(InUse) /\ Cardinality(InUse) <= 3 + 2 * n
      /\ Cardinality(InUse) \in Nat
  <2>1. /\ IsFiniteSet((A \cup T) \cap H) /\ IsFiniteSet((A \cup T) \cup H)
        /\ Cardinality((A \cup T) \cup H) =
             Cardinality(A \cup T) + Cardinality(H) - Cardinality((A \cup T) \cap H)
    BY <1>4, <1>7, FS_Union, FS_Intersection
  <2>2. /\ Cardinality(H) \in Nat /\ Cardinality((A \cup T) \cap H) \in Nat
        /\ Cardinality((A \cup T) \cup H) \in Nat
    BY <1>4, <2>1, FS_CardinalityType
  <2>3. QED
    BY <1>2, <1>4, <1>6, <1>7, <2>1, <2>2
<1>9. ASSUME Measurements \subseteq InUse PROVE FALSE
  <2>1. Cardinality(Measurements) <= Cardinality(InUse)
    BY <1>8, <1>9, FS_Subset
  <2>2. Cardinality(Measurements) \in Nat
    BY <1>2, FS_CardinalityType
  <2>3. Cardinality(Measurements) > 3 + 2 * n
    BY ConstantsAssumption
  <2>4. QED
    BY <1>2, <1>8, <2>1, <2>2, <2>3
<1>10. QED
  BY <1>9

\* The other tasks' calls are as they were
LEMMA CallSet ==
  ASSUME TypeOK, NEW t \in Tasks, NEW c \in Calls,
         call' = [call EXCEPT ![t] = c]
  PROVE  /\ call' \in [Tasks -> Calls] /\ call'[t] = c
         /\ \A u \in Others(t) : call'[u] = call[u]
BY Typed DEF Others

LEMMA GotoFacts ==
  ASSUME TypeOK, NEW t \in Tasks, NEW p \in Points, Goto(t, p)
  PROVE  /\ call' \in [Tasks -> Calls]
         /\ \A u \in Others(t) : call'[u] = call[u]
         /\ call'[t].at = p /\ call'[t].t = call[t].t
         /\ call'[t].h = call[t].h /\ call'[t].valid = call[t].valid
<1> DEFINE c == [call[t] EXCEPT !.at = p]
<1>1. call[t] \in Calls /\ call \in [Tasks -> Calls]
  BY Typed
<1>2. /\ c \in Calls /\ c.at = p /\ c.t = call[t].t /\ c.h = call[t].h
      /\ c.valid = call[t].valid
  BY <1>1 DEF Calls
<1>3. call' = [call EXCEPT ![t] = c]
  BY <1>1 DEF Goto
<1> HIDE DEF c
<1>4. QED
  BY <1>2, <1>3, CallSet

LEMMA RetryFacts ==
  ASSUME TypeOK, NEW t \in Tasks, Retry(t)
  PROVE  /\ call' \in [Tasks -> Calls]
         /\ \A u \in Others(t) : call'[u] = call[u]
         /\ call'[t].at \in {"measure", "failed"} /\ call'[t].t = call[t].t
         /\ call'[t].h = call[t].h /\ call'[t].valid = call[t].valid
<1> DEFINE c == [call[t] EXCEPT !.tries = (@ + 1) % Retries,
                   !.at = IF call[t].tries + 1 < Retries THEN "measure" ELSE "failed"]
<1>1. call[t] \in Calls /\ call \in [Tasks -> Calls]
  BY Typed
<1>2. (call[t].tries + 1) % Retries \in 0..(Retries - 1)
  BY <1>1 DEF Calls, Retries
<1>3. /\ c \in Calls /\ c.at \in {"measure", "failed"} /\ c.t = call[t].t
      /\ c.h = call[t].h /\ c.valid = call[t].valid
  BY <1>1, <1>2 DEF Calls, Points
<1>4. call' = [call EXCEPT ![t] = c]
  BY <1>1 DEF Retry
<1> HIDE DEF c
<1>5. QED
  BY <1>3, <1>4, CallSet

LEMMA ReadFacts ==
  ASSUME TypeOK, NEW t \in Tasks, Read(t)
  PROVE  /\ call' \in [Tasks -> Calls]
         /\ \A u \in Others(t) : call'[u] = call[u]
         /\ call'[t].at = "store_t" /\ call'[t].t = sensor.data
         /\ call'[t].h = sensor.data /\ call'[t].valid
<1> DEFINE c == [call[t] EXCEPT !.at = "store_t", !.tries = 0, !.valid = TRUE,
                   !.t = sensor.data, !.h = sensor.data]
<1>1. /\ call[t] \in Calls /\ call \in [Tasks -> Calls] /\ sensor.data \in Data
  BY Typed DEF Sensors
<1>2. 0 \in 0..(Retries - 1) /\ "store_t" \in Points
  BY DEF Retries, Points
<1>3. /\ c.at = "store_t" /\ c.t = sensor.data /\ c.h = sensor.data /\ c.valid
      /\ c \in Calls
  BY <1>1, <1>2 DEF Calls
<1>4. call' = [call EXCEPT ![t] = c]
  BY <1>1 DEF Read
<1> HIDE DEF c
<1>5. QED
  BY <1>3, <1>4, CallSet

LEMMA FallbackFacts ==
  ASSUME TypeOK, NEW t \in Tasks, FallbackTemperature(t) \/ FallbackHumidity(t)
  PROVE  /\ call' \in [Tasks -> Calls]
         /\ \A u \in Others(t) : call'[u] = call[u]
         /\ FallbackTemperature(t) =>
              /\ call'[t].at = "fallback_h" /\ call'[t].t = g.t
              /\ call'[t].valid = call[t].valid
         /\ FallbackHumidity(t) =>
              /\ call'[t].at = "answer" /\ call'[t].t = call[t].t
              /\ call'[t].h = g.h /\ call'[t].valid
<1>1. /\ call[t] \in Calls /\ call \in [Tasks -> Calls]
      /\ g.t \in Data /\ g.h \in Data
  BY Typed DEF Globals
<1>2. CASE FallbackTemperature(t)
  <2> DEFINE c == [call[t] EXCEPT !.at = "fallback_h", !.t = g.t]
  <2>1. /\ c \in Calls /\ c.at = "fallback_h" /\ c.t = g.t
        /\ c.valid = call[t].valid
    BY <1>1 DEF Calls, Points
  <2>2. call' = [call EXCEPT ![t] = c] /\ call[t].at = "fallback_t"
    BY <1>1, <1>2 DEF FallbackTemperature
  <2> HIDE DEF c
  <2>3. QED
    BY <2>1, <2>2, CallSet DEF FallbackHumidity
<1>3. CASE FallbackHumidity(t)
  <2> DEFINE c == [call[t] EXCEPT !.at = "answer", !.h = g.h, !.valid = TRUE]
  <2>1. /\ c \in Calls /\ c.at = "answer" /\ c.t = call[t].t
        /\ c.h = g.h /\ c.valid
    BY <1>1 DEF Calls, Points
  <2>2. call' = [call EXCEPT ![t] = c] /\ call[t].at = "fallback_h"
    BY <1>1, <1>3 DEF FallbackHumidity
  <2> HIDE DEF c
  <2>3. QED
    BY <2>1, <2>2, CallSet DEF FallbackTemperature
<1>4. QED
  BY <1>2, <1>3

LEMMA AnswerFacts ==
  ASSUME TypeOK, NEW t \in Tasks, Answer(t)
  PROVE  /\ call' \in [Tasks -> Calls]
         /\ \A u \in Others(t) : call'[u] = call[u]
         /\ call'[t].at = "idle" /\ ~call'[t].valid
<1>1. Idle \in Calls /\ Idle.at = "idle" /\ ~Idle.valid
  BY DEF Idle, Calls, Points, Retries, Data
<1>2. call' = [call EXCEPT ![t] = Idle]
  BY DEF Answer
<1>3. QED
  BY <1>1, <1>2, CallSet

\* A measurement that was started is that of every call that is going on
LEMMA StartFacts ==
  ASSUME TypeOK, NEW t \in Tasks, StartMeasurement(t)
  PROVE  /\ sensor' \in Sensors /\ sensor'.data = Fresh
         /\ since' \in [Tasks -> SUBSET Measurements]
         /\ \A u \in Tasks : call[u].at # "idle" =>
              /\ Fresh \in since'[u]
              /\ call[u].t \in since[u] => call[u].t \in since'[u]
<1>1. Fresh \in Measurements /\ since \in [Tasks -> SUBSET Measurements]
  BY FreshIsThere, Typed
<1>2. sensor' = [doing |-> "measuring", by |-> {t}, data |-> Fresh]
  BY DEF StartMeasurement
<1>3. [doing |-> "measuring", by |-> {t}, data |-> Fresh] \in Sensors
  BY <1>1 DEF Sensors, Data
<1>4. since' = [u \in Tasks |-> IF call[u].at = "idle" THEN {}
                              ELSE (since[u] \cap {call[u].t}) \cup {Fresh}]
  BY DEF StartMeasurement
<1>5. since' \in [Tasks -> SUBSET Measurements]
  BY <1>1, <1>4
<1>6. QED
  BY <1>2, <1>3, <1>4, <1>5

LEMMA TypeInit == Init => TypeOK
<1>1. SUFFICES ASSUME Init PROVE TypeOK
  OBVIOUS
<1>2. Idle \in Calls
  BY DEF Idle, Calls, Points, Retries, Data
<1>3. call \in [Tasks -> Calls] /\ since \in [Tasks -> SUBSET Measurements]
  <2>1. call = [t \in Tasks |-> Idle] /\ since = [t \in Tasks |-> {}]
    BY <1>1, Zenon DEF Init
  <2>2. QED
    BY <1>2, <2>1
<1>4. sensor \in Sensors
  <2>1. sensor = [doing |-> "none", by |-> {}, data |-> Nothing]
    BY <1>1, Zenon DEF Init
  <2>2. QED
    BY <2>1 DEF Sensors, Data
<1>5. g \in Globals /\ found \in BOOLEAN
  <2>1. CASE found = FALSE /\ g = NotBound
    BY <2>1 DEF NotBound, Globals, Data
  <2>2. ASSUME NEW read \in BOOLEAN,
               g = [NotBound EXCEPT !.present = TRUE, !.bound = TRUE,
                      !.serialValid = read,
                      !.serialError = IF read THEN "OK" ELSE "INTERNAL"]
        PROVE  g \in Globals
    <3>1. CASE read
      BY <2>2, <3>1 DEF NotBound, Globals, Data
    <3>2. CASE ~read
      BY <2>2, <3>2 DEF NotBound, Globals, Data
    <3>3. QED
      BY <3>1, <3>2
  <2>3. (found = FALSE /\ g = NotBound) \/
          (found = TRUE /\ \E read \in BOOLEAN :
            g = [NotBound EXCEPT !.present = TRUE, !.bound = TRUE,
                   !.serialValid = read,
                   !.serialError = IF read THEN "OK" ELSE "INTERNAL"])
    BY <1>1, Zenon DEF Init
  <2>4. QED
    BY <2>1, <2>2, <2>3
<1>6. raced \in BOOLEAN
  BY <1>1, Zenon DEF Init
<1>7. QED
  BY <1>3, <1>4, <1>5, <1>6 DEF TypeOK, Sensors, Globals, Calls

\* The other variables of a step of task t
LEMMA StepTyped ==
  ASSUME TypeOK, NEW t \in Tasks, Begin(t) \/ Step(t)
  PROVE  TypeOK'
<1>1. /\ sensor \in Sensors /\ g \in Globals /\ call \in [Tasks -> Calls]
      /\ call[t] \in Calls /\ since \in [Tasks -> SUBSET Measurements]
  BY Typed
<1>2. call' \in [Tasks -> Calls]
  <2>1. ASSUME NEW p \in Points, Goto(t, p) PROVE call' \in [Tasks -> Calls]
    BY <2>1, GotoFacts
  <2>2. CASE \E p \in Points : Goto(t, p)
    BY <2>1, <2>2
  <2>3. CASE Retry(t) \/ Read(t) \/ FallbackTemperature(t) \/ FallbackHumidity(t) \/ Answer(t)
    BY <2>3, RetryFacts, ReadFacts, FallbackFacts, AnswerFacts
  <2>4. CASE Begin(t) \/ Probe(t) \/ ProbeOther(t) \/ SerialCheck(t)
    <3>1. \E p \in Points : Goto(t, p)
      BY <2>4 DEF Begin, Probe, ProbeOther, SerialCheck, Points
    <3>2. QED
      BY <2>2, <3>1
  <2>5. CASE SerialCommand(t) \/ SerialRead(t) \/ PresentCheck(t) \/ Measure(t)
    <3>1. \E p \in Points : Goto(t, p)
      BY <2>5 DEF SerialCommand, SerialRead, PresentCheck, Measure, Points
    <3>2. QED
      BY <2>2, <3>1
  <2>6. CASE StoreTemperature(t) \/ StoreHumidity(t) \/ Failed(t)
    <3>1. \E p \in Points : Goto(t, p)
      BY <2>6 DEF StoreTemperature, StoreHumidity, Failed, Points
    <3>2. QED
      BY <2>2, <3>1
  <2>7. CASE MeasureFails(t) \/ ReadFails(t)
    BY <2>3, <2>7 DEF MeasureFails, ReadFails
  <2>8. QED
    BY <2>3, <2>4, <2>5, <2>6, <2>7 DEF Step
<1>3. g' \in Globals
  <2>1. call[t].t \in Data /\ call[t].h \in Data
    BY <1>1 DEF Calls
  <2>2. CASE Probe(t) \/ ProbeOther(t)
    BY <1>1, <2>2 DEF Probe, ProbeOther, Globals
  <2>3. CASE SerialCommand(t) \/ SerialRead(t)
    BY <1>1, <2>3 DEF SerialCommand, SerialRead, Globals
  <2>4. CASE StoreTemperature(t) \/ StoreHumidity(t)
    BY <1>1, <2>1, <2>4 DEF StoreTemperature, StoreHumidity, Globals
  <2>5. CASE UNCHANGED g
    BY <1>1, <2>5
  <2>6. QED
    BY <2>2, <2>3, <2>4, <2>5 DEF Step, Begin, SerialCheck, PresentCheck, Measure,
       MeasureFails, Read, ReadFails, Failed, FallbackTemperature,
       FallbackHumidity, Answer
<1>4. sensor' \in Sensors /\ since' \in [Tasks -> SUBSET Measurements]
  <2>1. Nothing \in Data /\ Serial \in Data
    BY DEF Data
  <2>2. CASE StartMeasurement(t)
    BY <2>2, StartFacts
  <2>3. CASE sensor' \in {sensor, [sensor EXCEPT !.data = Serial],
                          [sensor EXCEPT !.data = Nothing]}
    <3>1. sensor' \in Sensors
      BY <1>1, <2>1, <2>3 DEF Sensors
    <3>2. UNCHANGED since \/ since' = [since EXCEPT ![t] = {}] \/ StartMeasurement(t)
      BY DEF Step, Begin, Probe, ProbeOther, SerialCheck, SerialCommand, SerialRead,
         PresentCheck, Measure, MeasureFails, Read, ReadFails, StoreTemperature,
         StoreHumidity, Failed, FallbackTemperature, FallbackHumidity, Answer
    <3>3. QED
      BY <1>1, <2>2, <3>1, <3>2
  <2>4. QED
    BY <2>2, <2>3 DEF Step, Begin, Probe, ProbeOther, SerialCheck, SerialCommand, SerialRead,
       PresentCheck, Measure, MeasureFails, Read, ReadFails, StoreTemperature,
       StoreHumidity, Failed, FallbackTemperature, FallbackHumidity, Answer
<1>5. found' \in BOOLEAN /\ raced' \in BOOLEAN
  <2>1. found \in BOOLEAN /\ raced \in BOOLEAN
    BY DEF TypeOK
  <2>2. found' = found
    BY DEF Step, Begin, Probe, ProbeOther, SerialCheck, SerialCommand, SerialRead,
       PresentCheck, Measure, MeasureFails, Read, ReadFails, StoreTemperature,
       StoreHumidity, Failed, FallbackTemperature, FallbackHumidity, Answer
  <2>3. raced' \in BOOLEAN
    BY <2>1, Zenon DEF Step, Begin, Probe, ProbeOther, SerialCheck, SerialCommand, SerialRead,
       PresentCheck, Measure, MeasureFails, Read, ReadFails, StoreTemperature,
       StoreHumidity, Failed, FallbackTemperature, FallbackHumidity, Answer
  <2>4. QED
    BY <2>1, <2>2, <2>3
<1>6. QED
  BY <1>2, <1>3, <1>4, <1>5 DEF TypeOK, Sensors, Globals, Calls

LEMMA TypeStep == TypeOK /\ [Next]_vars => TypeOK'
<1>1. SUFFICES ASSUME TypeOK, [Next]_vars PROVE TypeOK'
  OBVIOUS
<1>2. CASE SensorFinishes
  <2>1. sensor' \in Sensors
    <3>1. sensor \in Sensors
      BY <1>1, Typed
    <3>2. QED
      BY <1>2, <3>1 DEF SensorFinishes, Sensors
  <2>2. UNCHANGED <<g, call, since, found, raced>>
    BY <1>2 DEF SensorFinishes
  <2>3. QED
    BY <1>1, <2>1, <2>2 DEF TypeOK, Sensors
<1>3. CASE UNCHANGED vars
  BY <1>1, <1>3 DEF vars, TypeOK
<1>4. ASSUME NEW t \in Tasks, Begin(t) \/ Step(t) PROVE TypeOK'
  BY <1>1, <1>4, StepTyped
<1>5. QED
  BY <1>1, <1>2, <1>3, <1>4 DEF Next

-----------------------------------------------------------------------------
(* Every step keeps what the readings rely on                               *)

\* A search begins only where nobody else is at work.
LEMMA BeginReads ==
  ASSUME TypeOK, Readings, NEW t \in Tasks, Begin(t), ~raced'
  PROVE  Readings'
<1>1. PICK p \in {"serial_check", "probe"} : Goto(t, p)
  BY DEF Begin, Points
<1>2. /\ \A u \in Tasks : u # t => call'[u] = call[u]
      /\ call'[t].at = p /\ call'[t].t = call[t].t
      /\ call'[t].h = call[t].h /\ call'[t].valid = call[t].valid
  <2>1. p \in Points
    BY DEF Points
  <2>2. QED
    BY <1>1, <2>1, GotoFacts DEF Others
<1>3. since \in [Tasks -> SUBSET Measurements] /\ g \in Globals
      /\ sensor \in Sensors /\ call[t] \in Calls
  BY Typed
<1>4. /\ call[t].at = "idle" /\ UNCHANGED <<sensor, g>>
      /\ p = "probe" => ~g.present /\ \A u \in Tasks : u # t => call[u].at = "idle"
      /\ ~g.present => \A u \in Tasks : u # t => call[u].at = "idle"
  <2> DEFINE q == IF g.present THEN "serial_check" ELSE "probe"
  <2>1. Goto(t, q) /\ q \in Points /\ (q = "probe" => ~g.present)
    BY DEF Begin, Points
  <2> HIDE DEF q
  <2>2. p = q
    BY <1>2, <2>1, GotoFacts
  <2>3. call[t].at = "idle" /\ UNCHANGED <<sensor, g>>
    BY DEF Begin
  <2>4. ~g.present => \A u \in Tasks : u # t => call[u].at = "idle"
    BY DEF Begin, Others
  <2>5. QED
    BY <2>1, <2>2, <2>3, <2>4
<1>5. /\ \A u \in Tasks : u # t => since'[u] = since[u]
      /\ since'[t] = {}
  BY <1>3 DEF Begin
<1>6. Searching'
  BY <1>1, <1>2, <1>3, <1>4, <1>5 DEF Readings, Searching, Asking, Alone, Others
<1>7. Asking'
  BY <1>1, <1>2, <1>3, <1>4, <1>5 DEF Readings, Asking, Searching, Alone, Others
<1>8. Waiting'
  BY <1>1, <1>2, <1>3, <1>4, <1>5 DEF Readings, Waiting, Asking, Alone, Others
<1>9. Holding'
  BY <1>1, <1>2, <1>3, <1>4, <1>5 DEF Readings, Holding, Waiting, Others
<1>10. LastReading'
  BY <1>1, <1>2, <1>3, <1>4, <1>5 DEF Readings, LastReading, Storing, Holding, Others
<1>11. Storing'
  BY <1>1, <1>2, <1>3, <1>4, <1>5 DEF Readings, Storing, Holding, Others
<1>12. Falling'
  BY <1>1, <1>2, <1>3, <1>4, <1>5 DEF Readings, Falling, LastReading, Storing, Others
<1>13. Reporting'
  BY <1>1, <1>2, <1>3, <1>4, <1>5 DEF Readings, Reporting, Holding, Falling, LastReading, Others
<1>14. QED
  BY <1>6, <1>7, <1>8, <1>9, <1>10, <1>11, <1>12, <1>13 DEF Readings

LEMMA SearchReads ==
  ASSUME TypeOK, Readings, NEW t \in Tasks, Probe(t) \/ ProbeOther(t), ~raced'
  PROVE  Readings'
<1>1. PICK p \in {"serial_check", "probe_other"} : Goto(t, p)
  BY DEF Probe, ProbeOther, Points
<1>2. /\ \A u \in Tasks : u # t => call'[u] = call[u]
      /\ call'[t].at = p /\ call'[t].t = call[t].t
      /\ call'[t].h = call[t].h /\ call'[t].valid = call[t].valid
  <2>1. p \in Points
    BY DEF Points
  <2>2. QED
    BY <1>1, <2>1, GotoFacts DEF Others
<1>3. since \in [Tasks -> SUBSET Measurements] /\ g \in Globals
      /\ sensor \in Sensors /\ call[t] \in Calls
  BY Typed
<1>4. /\ call[t].at \in {"probe", "probe_other"} /\ UNCHANGED <<sensor, since>>
      /\ g'.valid = g.valid /\ g'.t = g.t /\ g'.h = g.h
      /\ p = "probe_other" => g' = g
  <2>1. call[t].at \in {"probe", "probe_other"} /\ UNCHANGED <<sensor, since>>
    BY DEF Probe, ProbeOther
  <2>2. g'.valid = g.valid /\ g'.t = g.t /\ g'.h = g.h
    BY <1>3 DEF Probe, ProbeOther, Globals
  <2>3. g' = g \/ Goto(t, "serial_check")
    BY DEF Probe, ProbeOther
  <2>4. g' = g \/ p = "serial_check"
    BY <1>2, <2>3, GotoFacts DEF Points
  <2>5. QED
    BY <2>1, <2>2, <2>4
<1>5. /\ ~g.present /\ \A u \in Tasks : u # t => call[u].at = "idle"
  BY <1>4 DEF Readings, Searching, Alone, Others
<1>6. Searching'
  BY <1>1, <1>2, <1>3, <1>4, <1>5 DEF Readings, Searching, Asking, Alone, Others
<1>7. Asking'
  BY <1>1, <1>2, <1>3, <1>4, <1>5 DEF Readings, Asking, Searching, Alone, Others
<1>8. Waiting'
  BY <1>1, <1>2, <1>3, <1>4, <1>5 DEF Readings, Waiting, Asking, Alone, Others
<1>9. Holding'
  BY <1>1, <1>2, <1>3, <1>4, <1>5 DEF Readings, Holding, Waiting, Others
<1>10. LastReading'
  BY <1>1, <1>2, <1>3, <1>4, <1>5 DEF Readings, LastReading, Storing, Holding, Others
<1>11. Storing'
  BY <1>1, <1>2, <1>3, <1>4, <1>5 DEF Readings, Storing, Holding, Others
<1>12. Falling'
  BY <1>1, <1>2, <1>3, <1>4, <1>5 DEF Readings, Falling, LastReading, Storing, Others
<1>13. Reporting'
  BY <1>1, <1>2, <1>3, <1>4, <1>5 DEF Readings, Reporting, Holding, Falling, LastReading, Others
<1>14. QED
  BY <1>6, <1>7, <1>8, <1>9, <1>10, <1>11, <1>12, <1>13 DEF Readings

\* The serial number is asked for only where nobody else is at work.
LEMMA SerialCheckReads ==
  ASSUME TypeOK, Readings, NEW t \in Tasks, SerialCheck(t), ~raced'
  PROVE  Readings'
<1>1. PICK p \in {"serial_cmd", "present_check"} : Goto(t, p)
  BY DEF SerialCheck, Points
<1>2. /\ \A u \in Tasks : u # t => call'[u] = call[u]
      /\ call'[t].at = p /\ call'[t].t = call[t].t
      /\ call'[t].h = call[t].h /\ call'[t].valid = call[t].valid
  <2>1. p \in Points
    BY DEF Points
  <2>2. QED
    BY <1>1, <2>1, GotoFacts DEF Others
<1>3. since \in [Tasks -> SUBSET Measurements] /\ g \in Globals
      /\ sensor \in Sensors /\ call[t] \in Calls
  BY Typed
<1>4. /\ call[t].at = "serial_check" /\ UNCHANGED <<sensor, g, since>>
      /\ p = "serial_cmd" => ~g.serialValid /\ g.serialError = "NOT_FOUND"
      /\ ~g.serialValid /\ g.serialError = "NOT_FOUND" =>
           \A u \in Tasks : u # t => call[u].at = "idle"
  <2> DEFINE ask == ~g.serialValid /\ g.serialError = "NOT_FOUND"
             q == IF ask THEN "serial_cmd" ELSE "present_check"
  <2>1. Goto(t, q) /\ q \in Points /\ (q = "serial_cmd" => ask)
    BY DEF SerialCheck, Points
  <2>2. ask => \A u \in Tasks : u # t => call[u].at = "idle"
    BY DEF SerialCheck, Others
  <2>3. call[t].at = "serial_check" /\ UNCHANGED <<sensor, g, since>>
    BY DEF SerialCheck
  <2> HIDE DEF q
  <2>4. p = q
    BY <1>2, <2>1, GotoFacts
  <2>5. QED
    BY <2>1, <2>2, <2>3, <2>4
<1>5. Searching'
  BY <1>1, <1>2, <1>3, <1>4 DEF Readings, Searching, Asking, Alone, Others
<1>6. Asking'
  BY <1>1, <1>2, <1>3, <1>4 DEF Readings, Asking, Searching, Alone, Others
<1>7. Waiting'
  BY <1>1, <1>2, <1>3, <1>4 DEF Readings, Waiting, Asking, Alone, Others
<1>8. Holding'
  BY <1>1, <1>2, <1>3, <1>4 DEF Readings, Holding, Waiting, Others
<1>9. LastReading'
  BY <1>1, <1>2, <1>3, <1>4 DEF Readings, LastReading, Storing, Holding, Others
<1>10. Storing'
  BY <1>1, <1>2, <1>3, <1>4 DEF Readings, Storing, Holding, Others
<1>11. Falling'
  BY <1>1, <1>2, <1>3, <1>4 DEF Readings, Falling, LastReading, Storing, Others
<1>12. Reporting'
  BY <1>1, <1>2, <1>3, <1>4 DEF Readings, Reporting, Holding, Falling, LastReading, Others
<1>13. QED
  BY <1>5, <1>6, <1>7, <1>8, <1>9, <1>10, <1>11, <1>12 DEF Readings

\* While it is transferred the data of a measurement are gone, but nobody waits.
LEMMA SerialReads ==
  ASSUME TypeOK, Readings, NEW t \in Tasks, SerialCommand(t) \/ SerialRead(t), ~raced'
  PROVE  Readings'
<1>1. PICK p \in {"serial_read", "present_check"} : Goto(t, p)
  BY DEF SerialCommand, SerialRead, Points
<1>2. /\ \A u \in Tasks : u # t => call'[u] = call[u]
      /\ call'[t].at = p /\ call'[t].t = call[t].t
      /\ call'[t].h = call[t].h /\ call'[t].valid = call[t].valid
  <2>1. p \in Points
    BY DEF Points
  <2>2. QED
    BY <1>1, <2>1, GotoFacts DEF Others
<1>3. since \in [Tasks -> SUBSET Measurements] /\ g \in Globals
      /\ sensor \in Sensors /\ call[t] \in Calls
  BY Typed
<1>4. /\ call[t].at \in {"serial_cmd", "serial_read"} /\ UNCHANGED since
      /\ g'.valid = g.valid /\ g'.t = g.t /\ g'.h = g.h
      /\ p = "serial_read" => g' = g
  <2>1. call[t].at \in {"serial_cmd", "serial_read"} /\ UNCHANGED since
    BY DEF SerialCommand, SerialRead
  <2>2. g'.valid = g.valid /\ g'.t = g.t /\ g'.h = g.h
    BY <1>3 DEF SerialCommand, SerialRead, Globals
  <2>3. g' = g \/ Goto(t, "present_check")
    BY DEF SerialCommand, SerialRead
  <2>4. g' = g \/ p = "present_check"
    BY <1>2, <2>3, GotoFacts DEF Points
  <2>5. QED
    BY <2>1, <2>2, <2>4
<1>5. /\ ~g.serialValid /\ g.serialError = "NOT_FOUND"
      /\ \A u \in Tasks : u # t => call[u].at \in {"idle", "serial_check"}
  BY <1>4 DEF Readings, Asking, Alone, Others
<1>6. Searching'
  BY <1>1, <1>2, <1>3, <1>4, <1>5 DEF Readings, Searching, Asking, Alone, Others
<1>7. Asking'
  BY <1>1, <1>2, <1>3, <1>4, <1>5 DEF Readings, Asking, Searching, Alone, Others
<1>8. Waiting'
  BY <1>1, <1>2, <1>3, <1>4, <1>5 DEF Readings, Waiting, Asking, Alone, Others
<1>9. Holding'
  BY <1>1, <1>2, <1>3, <1>4, <1>5 DEF Readings, Holding, Waiting, Others
<1>10. LastReading'
  BY <1>1, <1>2, <1>3, <1>4, <1>5 DEF Readings, LastReading, Storing, Holding, Others
<1>11. Storing'
  BY <1>1, <1>2, <1>3, <1>4, <1>5 DEF Readings, Storing, Holding, Others
<1>12. Falling'
  BY <1>1, <1>2, <1>3, <1>4, <1>5 DEF Readings, Falling, LastReading, Storing, Others
<1>13. Reporting'
  BY <1>1, <1>2, <1>3, <1>4, <1>5 DEF Readings, Reporting, Holding, Falling, LastReading, Others
<1>14. QED
  BY <1>6, <1>7, <1>8, <1>9, <1>10, <1>11, <1>12, <1>13 DEF Readings

LEMMA PresentReads ==
  ASSUME TypeOK, Readings, NEW t \in Tasks, PresentCheck(t), ~raced'
  PROVE  Readings'
<1>1. PICK p \in {"measure", "answer"} : Goto(t, p)
  BY DEF PresentCheck, Points
<1>2. /\ \A u \in Tasks : u # t => call'[u] = call[u]
      /\ call'[t].at = p /\ call'[t].t = call[t].t
      /\ call'[t].h = call[t].h /\ call'[t].valid = call[t].valid
  <2>1. p \in Points
    BY DEF Points
  <2>2. QED
    BY <1>1, <2>1, GotoFacts DEF Others
<1>3. since \in [Tasks -> SUBSET Measurements] /\ g \in Globals
      /\ sensor \in Sensors /\ call[t] \in Calls
  BY Typed
<1>4. call[t].at = "present_check" /\ UNCHANGED <<sensor, g, since>>
  BY DEF PresentCheck
<1>5. ~call[t].valid
  BY <1>4 DEF Readings, Reporting
<1>6. Searching'
  BY <1>1, <1>2, <1>3, <1>4, <1>5 DEF Readings, Searching, Asking, Alone, Others
<1>7. Asking'
  BY <1>1, <1>2, <1>3, <1>4, <1>5 DEF Readings, Asking, Searching, Alone, Others
<1>8. Waiting'
  BY <1>1, <1>2, <1>3, <1>4, <1>5 DEF Readings, Waiting, Asking, Alone, Others
<1>9. Holding'
  BY <1>1, <1>2, <1>3, <1>4, <1>5 DEF Readings, Holding, Waiting, Others
<1>10. LastReading'
  BY <1>1, <1>2, <1>3, <1>4, <1>5 DEF Readings, LastReading, Storing, Holding, Others
<1>11. Storing'
  BY <1>1, <1>2, <1>3, <1>4, <1>5 DEF Readings, Storing, Holding, Others
<1>12. Falling'
  BY <1>1, <1>2, <1>3, <1>4, <1>5 DEF Readings, Falling, LastReading, Storing, Others
<1>13. Reporting'
  BY <1>1, <1>2, <1>3, <1>4, <1>5 DEF Readings, Reporting, Holding, Falling, LastReading, Others
<1>14. QED
  BY <1>6, <1>7, <1>8, <1>9, <1>10, <1>11, <1>12, <1>13 DEF Readings

\* A measurement that begins is one of every call that is going on.
LEMMA MeasureReads ==
  ASSUME TypeOK, Readings, NEW t \in Tasks, Measure(t), ~raced'
  PROVE  Readings'
<1>1. PICK p \in {"wait"} : Goto(t, p)
  BY DEF Measure, Points
<1>2. /\ \A u \in Tasks : u # t => call'[u] = call[u]
      /\ call'[t].at = p /\ call'[t].t = call[t].t
      /\ call'[t].h = call[t].h /\ call'[t].valid = call[t].valid
  <2>1. p \in Points
    BY DEF Points
  <2>2. QED
    BY <1>1, <2>1, GotoFacts DEF Others
<1>3. since \in [Tasks -> SUBSET Measurements] /\ g \in Globals
      /\ sensor \in Sensors /\ call[t] \in Calls
  BY Typed
<1>4. call[t].at = "measure" /\ UNCHANGED g /\ sensor'.data = Fresh
  BY StartFacts DEF Measure
<1>5. \A u \in Tasks : call[u].at # "idle" =>
        Fresh \in since'[u] /\ (call[u].t \in since[u] => call[u].t \in since'[u])
  BY StartFacts DEF Measure
<1>6. Searching'
  BY <1>1, <1>2, <1>3, <1>4, <1>5 DEF Readings, Searching, Asking, Alone, Others
<1>7. Asking'
  BY <1>1, <1>2, <1>3, <1>4, <1>5 DEF Readings, Asking, Searching, Alone, Others
<1>8. Waiting'
  BY <1>1, <1>2, <1>3, <1>4, <1>5 DEF Readings, Waiting, Asking, Alone, Others
<1>9. Holding'
  BY <1>1, <1>2, <1>3, <1>4, <1>5 DEF Readings, Holding, Waiting, Others
<1>10. LastReading'
  BY <1>1, <1>2, <1>3, <1>4, <1>5 DEF Readings, LastReading, Storing, Holding, Others
<1>11. Storing'
  BY <1>1, <1>2, <1>3, <1>4, <1>5 DEF Readings, Storing, Holding, Others
<1>12. Falling'
  BY <1>1, <1>2, <1>3, <1>4, <1>5 DEF Readings, Falling, LastReading, Storing, Others
<1>13. Reporting'
  BY <1>1, <1>2, <1>3, <1>4, <1>5 DEF Readings, Reporting, Holding, Falling, LastReading, Others
<1>14. QED
  BY <1>6, <1>7, <1>8, <1>9, <1>10, <1>11, <1>12, <1>13 DEF Readings

LEMMA MeasureFailsReads ==
  ASSUME TypeOK, Readings, NEW t \in Tasks, MeasureFails(t), ~raced'
  PROVE  Readings'
<1>1. /\ \A u \in Tasks : u # t => call'[u] = call[u]
      /\ call'[t].at \in {"measure", "failed"} /\ call'[t].valid = call[t].valid
  BY RetryFacts DEF MeasureFails, Others
<1>2. call[t].at = "measure" /\ UNCHANGED g
  BY DEF MeasureFails
<1>3. since \in [Tasks -> SUBSET Measurements] /\ g \in Globals
      /\ sensor \in Sensors /\ call[t] \in Calls
  BY Typed
<1>4. \/ UNCHANGED <<sensor, since>>
      \/ /\ sensor'.data = Fresh
         /\ \A u \in Tasks : call[u].at # "idle" =>
              Fresh \in since'[u] /\ (call[u].t \in since[u] => call[u].t \in since'[u])
  BY StartFacts DEF MeasureFails
<1>5. Searching'
  BY <1>1, <1>2, <1>3, <1>4 DEF Readings, Searching, Asking, Alone, Others
<1>6. Asking'
  BY <1>1, <1>2, <1>3, <1>4 DEF Readings, Asking, Searching, Alone, Others
<1>7. Waiting'
  BY <1>1, <1>2, <1>3, <1>4 DEF Readings, Waiting, Asking, Alone, Others
<1>8. Holding'
  BY <1>1, <1>2, <1>3, <1>4 DEF Readings, Holding, Waiting, Others
<1>9. LastReading'
  BY <1>1, <1>2, <1>3, <1>4 DEF Readings, LastReading, Storing, Holding, Others
<1>10. Storing'
  BY <1>1, <1>2, <1>3, <1>4 DEF Readings, Storing, Holding, Others
<1>11. Falling'
  BY <1>1, <1>2, <1>3, <1>4 DEF Readings, Falling, LastReading, Storing, Others
<1>12. Reporting'
  BY <1>1, <1>2, <1>3, <1>4 DEF Readings, Reporting, Holding, Falling, LastReading, Others
<1>13. QED
  BY <1>5, <1>6, <1>7, <1>8, <1>9, <1>10, <1>11, <1>12 DEF Readings

LEMMA ReadFailsReads ==
  ASSUME TypeOK, Readings, NEW t \in Tasks, ReadFails(t), ~raced'
  PROVE  Readings'
<1>1. /\ \A u \in Tasks : u # t => call'[u] = call[u]
      /\ call'[t].at \in {"measure", "failed"} /\ call'[t].valid = call[t].valid
  BY RetryFacts DEF ReadFails, Others
<1>2. call[t].at = "wait" /\ UNCHANGED g
  BY DEF ReadFails
<1>3. since \in [Tasks -> SUBSET Measurements] /\ g \in Globals
      /\ sensor \in Sensors /\ call[t] \in Calls
  BY Typed
<1>4. UNCHANGED since /\ sensor'.data \in {sensor.data, Nothing}
  BY <1>3 DEF ReadFails, Sensors
<1>5. Searching'
  BY <1>1, <1>2, <1>3, <1>4 DEF Readings, Searching, Asking, Alone, Others
<1>6. Asking'
  BY <1>1, <1>2, <1>3, <1>4 DEF Readings, Asking, Searching, Alone, Others
<1>7. Waiting'
  BY <1>1, <1>2, <1>3, <1>4 DEF Readings, Waiting, Asking, Alone, Others
<1>8. Holding'
  BY <1>1, <1>2, <1>3, <1>4 DEF Readings, Holding, Waiting, Others
<1>9. LastReading'
  BY <1>1, <1>2, <1>3, <1>4 DEF Readings, LastReading, Storing, Holding, Others
<1>10. Storing'
  BY <1>1, <1>2, <1>3, <1>4 DEF Readings, Storing, Holding, Others
<1>11. Falling'
  BY <1>1, <1>2, <1>3, <1>4 DEF Readings, Falling, LastReading, Storing, Others
<1>12. Reporting'
  BY <1>1, <1>2, <1>3, <1>4 DEF Readings, Reporting, Holding, Falling, LastReading, Others
<1>13. QED
  BY <1>5, <1>6, <1>7, <1>8, <1>9, <1>10, <1>11, <1>12 DEF Readings

\* What a task reads is a measurement of its own call.
LEMMA ReadReads ==
  ASSUME TypeOK, Readings, NEW t \in Tasks, Read(t), ~raced'
  PROVE  Readings'
<1>1. /\ \A u \in Tasks : u # t => call'[u] = call[u]
      /\ call'[t].at = "store_t" /\ call'[t].t = sensor.data /\ call'[t].h = sensor.data
  BY ReadFacts DEF Others
<1>2. call[t].at = "wait" /\ UNCHANGED <<g, since>> /\ sensor.data # Nothing
  BY DEF Read
<1>3. since \in [Tasks -> SUBSET Measurements] /\ g \in Globals
      /\ sensor \in Sensors /\ call[t] \in Calls
  BY Typed
<1>4. sensor'.data = Nothing
  BY <1>3 DEF Read, Sensors
<1>5. sensor.data \in since[t]
  BY <1>2 DEF Readings, Waiting
<1>6. Searching'
  BY <1>1, <1>2, <1>3, <1>4, <1>5 DEF Readings, Searching, Asking, Alone, Others
<1>7. Asking'
  BY <1>1, <1>2, <1>3, <1>4, <1>5 DEF Readings, Asking, Searching, Alone, Others
<1>8. Waiting'
  BY <1>1, <1>2, <1>3, <1>4, <1>5 DEF Readings, Waiting, Asking, Alone, Others
<1>9. Holding'
  BY <1>1, <1>2, <1>3, <1>4, <1>5 DEF Readings, Holding, Waiting, Others
<1>10. LastReading'
  BY <1>1, <1>2, <1>3, <1>4, <1>5 DEF Readings, LastReading, Storing, Holding, Others
<1>11. Storing'
  BY <1>1, <1>2, <1>3, <1>4, <1>5 DEF Readings, Storing, Holding, Others
<1>12. Falling'
  BY <1>1, <1>2, <1>3, <1>4, <1>5 DEF Readings, Falling, LastReading, Storing, Others
<1>13. Reporting'
  BY <1>1, <1>2, <1>3, <1>4, <1>5 DEF Readings, Reporting, Holding, Falling, LastReading, Others
<1>14. QED
  BY <1>6, <1>7, <1>8, <1>9, <1>10, <1>11, <1>12, <1>13 DEF Readings

LEMMA StoreTemperatureReads ==
  ASSUME TypeOK, Readings, NEW t \in Tasks, StoreTemperature(t), ~raced'
  PROVE  Readings'
<1>1. PICK p \in {"store_h"} : Goto(t, p)
  BY DEF StoreTemperature, Points
<1>2. /\ \A u \in Tasks : u # t => call'[u] = call[u]
      /\ call'[t].at = p /\ call'[t].t = call[t].t
      /\ call'[t].h = call[t].h /\ call'[t].valid = call[t].valid
  <2>1. p \in Points
    BY DEF Points
  <2>2. QED
    BY <1>1, <2>1, GotoFacts DEF Others
<1>3. since \in [Tasks -> SUBSET Measurements] /\ g \in Globals
      /\ sensor \in Sensors /\ call[t] \in Calls
  BY Typed
<1>4. /\ call[t].at = "store_t" /\ UNCHANGED <<sensor, since>>
      /\ g'.valid /\ g'.t = call[t].t /\ g'.h = g.h /\ g'.present = g.present
      /\ g'.serialValid = g.serialValid /\ g'.serialError = g.serialError
      /\ \A u \in Tasks : u # t => call[u].at \notin {"store_h", "fallback_h"}
  BY <1>3 DEF StoreTemperature, Globals, Between, Others
<1>5. call[t].t \in since[t] /\ call[t].t \in Measurements /\ call[t].h = call[t].t
  BY <1>3, <1>4 DEF Readings, Holding
<1>6. Searching'
  BY <1>1, <1>2, <1>3, <1>4, <1>5 DEF Readings, Searching, Asking, Alone, Others
<1>7. Asking'
  BY <1>1, <1>2, <1>3, <1>4, <1>5 DEF Readings, Asking, Searching, Alone, Others
<1>8. Waiting'
  BY <1>1, <1>2, <1>3, <1>4, <1>5 DEF Readings, Waiting, Asking, Alone, Others
<1>9. Holding'
  BY <1>1, <1>2, <1>3, <1>4, <1>5 DEF Readings, Holding, Waiting, Others
<1>10. LastReading'
  BY <1>1, <1>2, <1>3, <1>4, <1>5 DEF Readings, LastReading, Storing, Holding, Others
<1>11. Storing'
  BY <1>1, <1>2, <1>3, <1>4, <1>5 DEF Readings, Storing, Holding, Others
<1>12. Falling'
  BY <1>1, <1>2, <1>3, <1>4, <1>5 DEF Readings, Falling, LastReading, Storing, Others
<1>13. Reporting'
  BY <1>1, <1>2, <1>3, <1>4, <1>5 DEF Readings, Reporting, Holding, Falling, LastReading, Others
<1>14. QED
  BY <1>6, <1>7, <1>8, <1>9, <1>10, <1>11, <1>12, <1>13 DEF Readings

LEMMA StoreHumidityReads ==
  ASSUME TypeOK, Readings, NEW t \in Tasks, StoreHumidity(t), ~raced'
  PROVE  Readings'
<1>1. PICK p \in {"answer"} : Goto(t, p)
  BY DEF StoreHumidity, Points
<1>2. /\ \A u \in Tasks : u # t => call'[u] = call[u]
      /\ call'[t].at = p /\ call'[t].t = call[t].t
      /\ call'[t].h = call[t].h /\ call'[t].valid = call[t].valid
  <2>1. p \in Points
    BY DEF Points
  <2>2. QED
    BY <1>1, <2>1, GotoFacts DEF Others
<1>3. since \in [Tasks -> SUBSET Measurements] /\ g \in Globals
      /\ sensor \in Sensors /\ call[t] \in Calls
  BY Typed
<1>4. /\ call[t].at = "store_h" /\ UNCHANGED <<sensor, since>>
      /\ g'.valid = g.valid /\ g'.t = g.t /\ g'.h = call[t].h /\ g'.present = g.present
      /\ g'.serialValid = g.serialValid /\ g'.serialError = g.serialError
  BY <1>3 DEF StoreHumidity, Globals
<1>5. /\ call[t].t \in Measurements /\ call[t].h = call[t].t
      /\ g.valid /\ g.t = call[t].t
      /\ \A u \in Tasks : u # t => call[u].at \notin {"store_h", "fallback_h"}
  BY <1>3, <1>4 DEF Readings, Holding, Storing, Others
<1>6. Searching'
  BY <1>1, <1>2, <1>3, <1>4, <1>5 DEF Readings, Searching, Asking, Alone, Others
<1>7. Asking'
  BY <1>1, <1>2, <1>3, <1>4, <1>5 DEF Readings, Asking, Searching, Alone, Others
<1>8. Waiting'
  BY <1>1, <1>2, <1>3, <1>4, <1>5 DEF Readings, Waiting, Asking, Alone, Others
<1>9. Holding'
  BY <1>1, <1>2, <1>3, <1>4, <1>5 DEF Readings, Holding, Waiting, Others
<1>10. LastReading'
  BY <1>1, <1>2, <1>3, <1>4, <1>5 DEF Readings, LastReading, Storing, Holding, Others
<1>11. Storing'
  BY <1>1, <1>2, <1>3, <1>4, <1>5 DEF Readings, Storing, Holding, Others
<1>12. Falling'
  BY <1>1, <1>2, <1>3, <1>4, <1>5 DEF Readings, Falling, LastReading, Storing, Others
<1>13. Reporting'
  BY <1>1, <1>2, <1>3, <1>4, <1>5 DEF Readings, Reporting, Holding, Falling, LastReading, Others
<1>14. QED
  BY <1>6, <1>7, <1>8, <1>9, <1>10, <1>11, <1>12, <1>13 DEF Readings

LEMMA FailedReads ==
  ASSUME TypeOK, Readings, NEW t \in Tasks, Failed(t), ~raced'
  PROVE  Readings'
<1>1. PICK p \in {"fallback_t", "answer"} : Goto(t, p)
  BY DEF Failed, Points
<1>2. /\ \A u \in Tasks : u # t => call'[u] = call[u]
      /\ call'[t].at = p /\ call'[t].t = call[t].t
      /\ call'[t].h = call[t].h /\ call'[t].valid = call[t].valid
  <2>1. p \in Points
    BY DEF Points
  <2>2. QED
    BY <1>1, <2>1, GotoFacts DEF Others
<1>3. since \in [Tasks -> SUBSET Measurements] /\ g \in Globals
      /\ sensor \in Sensors /\ call[t] \in Calls
  BY Typed
<1>4. /\ call[t].at = "failed" /\ UNCHANGED <<sensor, g, since>>
      /\ p = "fallback_t" => g.valid
  <2> DEFINE q == IF g.valid THEN "fallback_t" ELSE "answer"
  <2>1. Goto(t, q) /\ q \in Points /\ (q = "fallback_t" => g.valid)
    BY DEF Failed, Points
  <2>2. call[t].at = "failed" /\ UNCHANGED <<sensor, g, since>>
    BY DEF Failed
  <2> HIDE DEF q
  <2>3. p = q
    BY <1>2, <2>1, GotoFacts
  <2>4. QED
    BY <2>1, <2>2, <2>3
<1>5. ~call[t].valid
  BY <1>4 DEF Readings, Reporting
<1>6. Searching'
  BY <1>1, <1>2, <1>3, <1>4, <1>5 DEF Readings, Searching, Asking, Alone, Others
<1>7. Asking'
  BY <1>1, <1>2, <1>3, <1>4, <1>5 DEF Readings, Asking, Searching, Alone, Others
<1>8. Waiting'
  BY <1>1, <1>2, <1>3, <1>4, <1>5 DEF Readings, Waiting, Asking, Alone, Others
<1>9. Holding'
  BY <1>1, <1>2, <1>3, <1>4, <1>5 DEF Readings, Holding, Waiting, Others
<1>10. LastReading'
  BY <1>1, <1>2, <1>3, <1>4, <1>5 DEF Readings, LastReading, Storing, Holding, Others
<1>11. Storing'
  BY <1>1, <1>2, <1>3, <1>4, <1>5 DEF Readings, Storing, Holding, Others
<1>12. Falling'
  BY <1>1, <1>2, <1>3, <1>4, <1>5 DEF Readings, Falling, LastReading, Storing, Others
<1>13. Reporting'
  BY <1>1, <1>2, <1>3, <1>4, <1>5 DEF Readings, Reporting, Holding, Falling, LastReading, Others
<1>14. QED
  BY <1>6, <1>7, <1>8, <1>9, <1>10, <1>11, <1>12, <1>13 DEF Readings

\* The copy begins where no reading is half stored.
LEMMA FallbackTemperatureReads ==
  ASSUME TypeOK, Readings, NEW t \in Tasks, FallbackTemperature(t), ~raced'
  PROVE  Readings'
<1>1. /\ \A u \in Tasks : u # t => call'[u] = call[u]
      /\ call'[t].at = "fallback_h" /\ call'[t].t = g.t /\ call'[t].valid = call[t].valid
  BY FallbackFacts DEF Others
<1>2. call[t].at = "fallback_t" /\ UNCHANGED <<sensor, g, since>>
  BY DEF FallbackTemperature
<1>3. since \in [Tasks -> SUBSET Measurements] /\ g \in Globals
      /\ sensor \in Sensors /\ call[t] \in Calls
  BY Typed
<1>4. \A u \in Tasks : call[u].at # "store_h"
  BY <1>2 DEF FallbackTemperature, Between, Others
<1>5. g.valid /\ g.t \in Measurements /\ g.h = g.t /\ ~call[t].valid
  BY <1>2, <1>4 DEF Readings, Falling, LastReading, Reporting
<1>6. Searching'
  BY <1>1, <1>2, <1>3, <1>4, <1>5 DEF Readings, Searching, Asking, Alone, Others
<1>7. Asking'
  BY <1>1, <1>2, <1>3, <1>4, <1>5 DEF Readings, Asking, Searching, Alone, Others
<1>8. Waiting'
  BY <1>1, <1>2, <1>3, <1>4, <1>5 DEF Readings, Waiting, Asking, Alone, Others
<1>9. Holding'
  BY <1>1, <1>2, <1>3, <1>4, <1>5 DEF Readings, Holding, Waiting, Others
<1>10. LastReading'
  BY <1>1, <1>2, <1>3, <1>4, <1>5 DEF Readings, LastReading, Storing, Holding, Others
<1>11. Storing'
  BY <1>1, <1>2, <1>3, <1>4, <1>5 DEF Readings, Storing, Holding, Others
<1>12. Falling'
  BY <1>1, <1>2, <1>3, <1>4, <1>5 DEF Readings, Falling, LastReading, Storing, Others
<1>13. Reporting'
  BY <1>1, <1>2, <1>3, <1>4, <1>5 DEF Readings, Reporting, Holding, Falling, LastReading, Others
<1>14. QED
  BY <1>6, <1>7, <1>8, <1>9, <1>10, <1>11, <1>12, <1>13 DEF Readings

LEMMA FallbackHumidityReads ==
  ASSUME TypeOK, Readings, NEW t \in Tasks, FallbackHumidity(t), ~raced'
  PROVE  Readings'
<1>1. /\ \A u \in Tasks : u # t => call'[u] = call[u]
      /\ call'[t].at = "answer" /\ call'[t].t = call[t].t /\ call'[t].h = g.h
  BY FallbackFacts DEF Others
<1>2. call[t].at = "fallback_h" /\ UNCHANGED <<sensor, g, since>>
  BY DEF FallbackHumidity
<1>3. since \in [Tasks -> SUBSET Measurements] /\ g \in Globals
      /\ sensor \in Sensors /\ call[t] \in Calls
  BY Typed
<1>4. g.valid /\ g.t \in Measurements /\ g.h = g.t /\ call[t].t = g.t
  BY <1>2 DEF Readings, Falling, LastReading
<1>5. Searching'
  BY <1>1, <1>2, <1>3, <1>4 DEF Readings, Searching, Asking, Alone, Others
<1>6. Asking'
  BY <1>1, <1>2, <1>3, <1>4 DEF Readings, Asking, Searching, Alone, Others
<1>7. Waiting'
  BY <1>1, <1>2, <1>3, <1>4 DEF Readings, Waiting, Asking, Alone, Others
<1>8. Holding'
  BY <1>1, <1>2, <1>3, <1>4 DEF Readings, Holding, Waiting, Others
<1>9. LastReading'
  BY <1>1, <1>2, <1>3, <1>4 DEF Readings, LastReading, Storing, Holding, Others
<1>10. Storing'
  BY <1>1, <1>2, <1>3, <1>4 DEF Readings, Storing, Holding, Others
<1>11. Falling'
  BY <1>1, <1>2, <1>3, <1>4 DEF Readings, Falling, LastReading, Storing, Others
<1>12. Reporting'
  BY <1>1, <1>2, <1>3, <1>4 DEF Readings, Reporting, Holding, Falling, LastReading, Others
<1>13. QED
  BY <1>5, <1>6, <1>7, <1>8, <1>9, <1>10, <1>11, <1>12 DEF Readings

LEMMA AnswerReads ==
  ASSUME TypeOK, Readings, NEW t \in Tasks, Answer(t), ~raced'
  PROVE  Readings'
<1>1. /\ \A u \in Tasks : u # t => call'[u] = call[u]
      /\ call'[t].at = "idle" /\ ~call'[t].valid
  BY AnswerFacts DEF Others
<1>2. call[t].at = "answer" /\ UNCHANGED <<sensor, g>>
  BY DEF Answer
<1>3. since \in [Tasks -> SUBSET Measurements] /\ g \in Globals
      /\ sensor \in Sensors /\ call[t] \in Calls
  BY Typed
<1>4. \A u \in Tasks : u # t => since'[u] = since[u]
  BY <1>3 DEF Answer
<1>5. Searching'
  BY <1>1, <1>2, <1>3, <1>4 DEF Readings, Searching, Asking, Alone, Others
<1>6. Asking'
  BY <1>1, <1>2, <1>3, <1>4 DEF Readings, Asking, Searching, Alone, Others
<1>7. Waiting'
  BY <1>1, <1>2, <1>3, <1>4 DEF Readings, Waiting, Asking, Alone, Others
<1>8. Holding'
  BY <1>1, <1>2, <1>3, <1>4 DEF Readings, Holding, Waiting, Others
<1>9. LastReading'
  BY <1>1, <1>2, <1>3, <1>4 DEF Readings, LastReading, Storing, Holding, Others
<1>10. Storing'
  BY <1>1, <1>2, <1>3, <1>4 DEF Readings, Storing, Holding, Others
<1>11. Falling'
  BY <1>1, <1>2, <1>3, <1>4 DEF Readings, Falling, LastReading, Storing, Others
<1>12. Reporting'
  BY <1>1, <1>2, <1>3, <1>4 DEF Readings, Reporting, Holding, Falling, LastReading, Others
<1>13. QED
  BY <1>5, <1>6, <1>7, <1>8, <1>9, <1>10, <1>11, <1>12 DEF Readings
LEMMA ReadingInit == Init => ReadingInv
<1>1. SUFFICES ASSUME Init PROVE Readings
  BY TypeInit DEF ReadingInv
<1>2. \A t \in Tasks : call[t].at = "idle" /\ ~call[t].valid
  <2>1. call = [t \in Tasks |-> Idle]
    BY <1>1, Zenon DEF Init
  <2>2. QED
    BY <2>1 DEF Idle
<1>3. ~g.valid
  <2>1. g = NotBound \/ \E read \in BOOLEAN :
          g = [NotBound EXCEPT !.present = TRUE, !.bound = TRUE,
                 !.serialValid = read,
                 !.serialError = IF read THEN "OK" ELSE "INTERNAL"]
    BY <1>1, Zenon DEF Init
  <2>2. ASSUME NEW read \in BOOLEAN,
               g = [NotBound EXCEPT !.present = TRUE, !.bound = TRUE,
                      !.serialValid = read,
                      !.serialError = IF read THEN "OK" ELSE "INTERNAL"]
        PROVE  ~g.valid
    BY <2>2 DEF NotBound
  <2>3. CASE g = NotBound
    BY <2>3 DEF NotBound
  <2>4. QED
    BY <2>1, <2>2, <2>3
<1>4. QED
  BY <1>2, <1>3 DEF Readings, Searching, Asking, Waiting, Holding, LastReading, Storing,
     Falling, Reporting

LEMMA ReadingStep == ReadingInv /\ [Next]_vars => ReadingInv'
<1>1. SUFFICES ASSUME ReadingInv, [Next]_vars, ~raced' PROVE Readings'
  BY TypeStep DEF ReadingInv
<1>2. TypeOK
  BY <1>1 DEF ReadingInv
<1>3. CASE sensor'.data = sensor.data /\ UNCHANGED <<g, call, since, raced>>
  <2>1. Readings
    BY <1>1, <1>3 DEF ReadingInv
  <2>2. QED
    BY <1>3, <2>1 DEF Readings, Searching, Asking, Waiting, Holding, LastReading, Storing,
       Falling, Reporting, Alone
<1>4. CASE SensorFinishes \/ UNCHANGED vars
  <2>1. sensor'.data = sensor.data
    BY <1>2, <1>4, Typed DEF SensorFinishes, vars, Sensors
  <2>2. QED
    BY <1>3, <1>4, <2>1 DEF SensorFinishes, vars
<1>5. ASSUME NEW t \in Tasks, Begin(t) \/ Step(t) PROVE Readings'
  <2>1. ~raced
    BY <1>1, <1>5 DEF Step, Begin, Probe, ProbeOther, SerialCheck, SerialCommand, SerialRead,
       PresentCheck, Measure, MeasureFails, Read, ReadFails, StoreTemperature,
       StoreHumidity, Failed, FallbackTemperature, FallbackHumidity, Answer
  <2>2. Readings
    BY <1>1, <2>1 DEF ReadingInv
  <2>3. CASE Begin(t)
    BY <1>1, <1>2, <2>2, <2>3, BeginReads
  <2>4. CASE Probe(t) \/ ProbeOther(t)
    BY <1>1, <1>2, <2>2, <2>4, SearchReads
  <2>5. CASE SerialCheck(t)
    BY <1>1, <1>2, <2>2, <2>5, SerialCheckReads
  <2>6. CASE SerialCommand(t) \/ SerialRead(t)
    BY <1>1, <1>2, <2>2, <2>6, SerialReads
  <2>7. CASE PresentCheck(t)
    BY <1>1, <1>2, <2>2, <2>7, PresentReads
  <2>8. CASE Measure(t) \/ MeasureFails(t)
    BY <1>1, <1>2, <2>2, <2>8, MeasureReads, MeasureFailsReads
  <2>9. CASE Read(t) \/ ReadFails(t)
    BY <1>1, <1>2, <2>2, <2>9, ReadReads, ReadFailsReads
  <2>10. CASE StoreTemperature(t)
    BY <1>1, <1>2, <2>2, <2>10, StoreTemperatureReads
  <2>11. CASE StoreHumidity(t)
    BY <1>1, <1>2, <2>2, <2>11, StoreHumidityReads
  <2>12. CASE Failed(t)
    BY <1>1, <1>2, <2>2, <2>12, FailedReads
  <2>13. CASE FallbackTemperature(t) \/ FallbackHumidity(t)
    BY <1>1, <1>2, <2>2, <2>13, FallbackTemperatureReads, FallbackHumidityReads
  <2>14. CASE Answer(t)
    BY <1>1, <1>2, <2>2, <2>14, AnswerReads
  <2>15. QED
    BY <1>5, <2>3, <2>4, <2>5, <2>6, <2>7, <2>8, <2>9, <2>10, <2>11, <2>12, <2>13, <2>14
       DEF Step
<1>6. QED
  BY <1>1, <1>4, <1>5 DEF Next

\* TypeOK: the driver's globals, the tasks' calls and the sensor, for any number
\* of tasks; there is always an identity left for the next measurement.
THEOREM SensorTypeCorrect == Spec => []TypeOK
BY TypeInit, TypeStep, PTL DEF Spec

\* environment_sensor_get_status reports a temperature and a humidity of one and
\* the same measurement, for any number of tasks and any failed transfers, as
\* long as they do not meet where the driver needs them apart.
THEOREM ReadingCorrect == Spec => []ReportsOneMeasurement
<1>1. ReadingInv => ReportsOneMeasurement
  BY DEF ReadingInv, Readings, Reporting, ReportsOneMeasurement
<1>2. QED
  BY ReadingInit, ReadingStep, <1>1, PTL DEF Spec

\* What environment_sensor_measure returns was measured after the call began:
\* another task's command or read never leaves old data behind for this one.
THEOREM FreshCorrect == Spec => []OwnReadingIsFresh
<1>1. ReadingInv => OwnReadingIsFresh
  BY DEF ReadingInv, Readings, Holding, OwnReadingIsFresh
<1>2. QED
  BY ReadingInit, ReadingStep, <1>1, PTL DEF Spec

=============================================================================
