------------------------- MODULE EnvironmentSensor -------------------------
(***************************************************************************)
(* environment_sensor.c over the SHT4x sensor.  The status screen (main    *)
(* task) and the MCP tools (server's task) both call                       *)
(* environment_sensor_get_status; they share the bus, the sensor and the   *)
(* driver's globals without a lock.  A step is one I2C transaction, or one *)
(* access to what the tasks share.  Any transaction may fail.              *)
(*                                                                         *)
(* A measurement is an identity: two measurements differ if one was started*)
(* after the other.                                                        *)
(***************************************************************************)
EXTENDS Integers, FiniteSets

CONSTANTS
  Tasks,        \* the tasks that ask for the environment
  Measurements  \* identities of measurements; one that nobody holds is reused

Nothing == 0    \* no data, and what the globals hold before the first reading
Serial  == -1   \* the six bytes of a serial number, with their valid CRCs

ASSUME ConstantsAssumption ==
  /\ IsFiniteSet(Tasks)
  /\ Measurements \subseteq Nat \ {0} /\ IsFiniteSet(Measurements)
  /\ Cardinality(Measurements) > 3 + 2 * Cardinality(Tasks)

VARIABLES
  sensor,  \* what it does, for whom, and the data a read would return
  g,       \* g_sensor_present, g_sensor_i2c_address # 0, g_serial_number_valid,
           \* g_last_serial_error, g_last_reading_valid, g_last_temperature_centi_c,
           \* g_last_humidity_centi_pct
  call,    \* per task: its point, its attempts, its locals
  since,   \* history: the measurements started since the task's call began
  found,   \* history: environment_sensor_init found the sensor
  raced    \* history: the tasks met where the driver needs them apart

vars == <<sensor, g, call, since, found, raced>>

Retries == 3         \* SHT4X_MEASUREMENT_RETRY_COUNT
Data == Measurements \cup {Nothing, Serial}
Others(t) == Tasks \ {t}

Points == {"idle", "probe", "probe_other", "serial_check", "serial_cmd",
           "serial_read", "present_check", "measure", "wait", "store_t",
           "store_h", "failed", "fallback_t", "fallback_h", "answer"}

Idle == [at |-> "idle", tries |-> 0, t |-> Nothing, h |-> Nothing, valid |-> FALSE]

-----------------------------------------------------------------------------
(* The sensor on the bus *)

\* it does not acknowledge its address while it resets or measures; a task
\* whose globals hold no address talks to nobody
Acks == sensor.doing = "none" /\ g.bound

\* the sensor's conversion ends (8.3 ms at most), or its reset (1 ms)
SensorFinishes ==
  /\ sensor.doing # "none"
  /\ sensor' = [sensor EXCEPT !.doing = "none", !.by = {}]
  /\ UNCHANGED <<g, call, since, found, raced>>

InUse == {sensor.data, g.t, g.h} \cup UNION {{call[t].t, call[t].h} : t \in Tasks}

Fresh == CHOOSE m \in Measurements : m \notin InUse

\* SHT4X_CMD_MEASURE_HIGH_PRECISION, acknowledged: earlier data are gone
StartMeasurement(t) ==
  /\ sensor' = [doing |-> "measuring", by |-> {t}, data |-> Fresh]
  /\ since' = [u \in Tasks |-> IF call[u].at = "idle" THEN {}
                              ELSE (since[u] \cap {call[u].t}) \cup {Fresh}]

Goto(t, point) == call' = [call EXCEPT ![t].at = point]

-----------------------------------------------------------------------------
(* environment_sensor_init, before there is a second task.  The 2 ms after *)
(* the soft reset are no tick of the 100 Hz clock, so that the sensor may   *)
(* still be in its reset when the serial number is asked for.              *)

NotBound == [present |-> FALSE, bound |-> FALSE, serialValid |-> FALSE,
             serialError |-> "NOT_FOUND", valid |-> FALSE,
             t |-> Nothing, h |-> Nothing]

Init ==
  /\ \/ found = FALSE /\ g = NotBound
     \/ /\ found = TRUE
        /\ \E read \in BOOLEAN :
             g = [NotBound EXCEPT !.present = TRUE, !.bound = TRUE,
                    !.serialValid = read,
                    !.serialError = IF read THEN "OK" ELSE "INTERNAL"]
  /\ sensor = [doing |-> "none", by |-> {}, data |-> Nothing]
  /\ call = [t \in Tasks |-> Idle]
  /\ since = [t \in Tasks |-> {}]
  /\ raced = FALSE

-----------------------------------------------------------------------------
(* environment_sensor_get_status *)

\* mutated: the sensor is looked for again until a reading is there
BeginRebinds(t) ==
  /\ call[t].at = "idle"
  /\ Goto(t, IF g.present /\ g.valid THEN "serial_check" ELSE "probe")
  /\ since' = [since EXCEPT ![t] = {}]
  /\ UNCHANGED <<sensor, g, found, raced>>

Begin(t) ==
  /\ call[t].at = "idle"
  /\ Goto(t, IF g.present THEN "serial_check" ELSE "probe")
  /\ since' = [since EXCEPT ![t] = {}]
  /\ raced' = (raced \/ (~g.present /\ \E u \in Others(t) : call[u].at # "idle"))
  /\ UNCHANGED <<sensor, g, found>>

\* environment_sensor_bind_device: 0x44 answers, or does not
Probe(t) ==
  /\ call[t].at = "probe"
  /\ \/ /\ sensor.doing = "none"
        /\ g' = [g EXCEPT !.present = TRUE, !.bound = TRUE]
        /\ Goto(t, "serial_check")
     \/ Goto(t, "probe_other") /\ UNCHANGED g
  /\ UNCHANGED <<sensor, since, found, raced>>

\* nothing is at 0x45
ProbeOther(t) ==
  /\ call[t].at = "probe_other"
  /\ g' = [g EXCEPT !.present = FALSE, !.bound = FALSE]
  /\ Goto(t, "serial_check")
  /\ UNCHANGED <<sensor, since, found, raced>>

SerialCheck(t) ==
  /\ call[t].at = "serial_check"
  /\ LET ask == ~g.serialValid /\ g.serialError = "NOT_FOUND" IN
       /\ Goto(t, IF ask THEN "serial_cmd" ELSE "present_check")
       /\ raced' = (raced \/ (ask /\ \E u \in Others(t) : call[u].at # "idle"))
  /\ UNCHANGED <<sensor, g, since, found>>

\* environment_sensor_read_serial_number; an address of 0 answers nothing
SerialCommand(t) ==
  /\ call[t].at = "serial_cmd"
  /\ \/ /\ Acks
        /\ sensor' = [sensor EXCEPT !.data = Serial]
        /\ Goto(t, "serial_read") /\ UNCHANGED g
     \/ /\ g' = [g EXCEPT !.serialError = "INTERNAL"]
        /\ Goto(t, "present_check")
        /\ sensor' \in {sensor} \cup (IF Acks THEN {[sensor EXCEPT !.data = Serial]} ELSE {})
  /\ UNCHANGED <<since, found, raced>>

\* any six bytes with valid CRCs are taken for the serial number
SerialRead(t) ==
  /\ call[t].at = "serial_read"
  /\ Goto(t, "present_check")
  /\ \/ /\ Acks /\ sensor.data # Nothing
        /\ g' = [g EXCEPT !.serialValid = TRUE, !.present = TRUE, !.serialError = "OK"]
        /\ sensor' = [sensor EXCEPT !.data = Nothing]
     \/ /\ g' = [g EXCEPT !.serialError = "INTERNAL"]
        /\ sensor' \in {sensor, [sensor EXCEPT !.data = Nothing]}
  /\ UNCHANGED <<since, found, raced>>

\* without a sensor the answer has no reading
PresentCheck(t) ==
  /\ call[t].at = "present_check"
  /\ Goto(t, IF g.present THEN "measure" ELSE "answer")
  /\ UNCHANGED <<sensor, g, since, found, raced>>

\* mutated: the attempts of a failed measurement are carried into the next
RetryCarries(t) ==
  call' = [call EXCEPT ![t].tries = @ + 1,
             ![t].at = IF call[t].tries + 1 < Retries THEN "measure" ELSE "failed"]

\* the loop of environment_sensor_measure goes on, without a pause, or ends
Retry(t) ==
  call' = [call EXCEPT ![t].tries = (@ + 1) % Retries,
             ![t].at = IF call[t].tries + 1 < Retries THEN "measure" ELSE "failed"]

\* mutated: a command that is not acknowledged is not noticed
MeasureUnnoticed(t) ==
  /\ call[t].at = "measure"
  /\ Goto(t, "wait")
  /\ UNCHANGED <<sensor, g, since, found, raced>>

\* the command is not acknowledged, or the sensor took it all the same
MeasureFails(t) ==
  /\ call[t].at = "measure"
  /\ Retry(t)
  /\ (Acks /\ StartMeasurement(t)) \/ UNCHANGED <<sensor, since>>
  /\ UNCHANGED <<g, found, raced>>

Measure(t) ==
  /\ call[t].at = "measure" /\ Acks
  /\ StartMeasurement(t)
  /\ Goto(t, "wait")
  /\ UNCHANGED <<g, found, raced>>

\* the delay of 20 ms is longer than the sensor's conversion
ReadFails(t) ==
  /\ call[t].at = "wait" /\ t \notin sensor.by
  /\ Retry(t)
  /\ sensor' \in {sensor, [sensor EXCEPT !.data = Nothing]}
  /\ UNCHANGED <<g, since, found, raced>>

Read(t) ==
  /\ call[t].at = "wait" /\ t \notin sensor.by
  /\ Acks /\ sensor.data # Nothing
  /\ call' = [call EXCEPT ![t].at = "store_t", ![t].tries = 0, ![t].valid = TRUE,
                          ![t].t = sensor.data, ![t].h = sensor.data]
  /\ sensor' = [sensor EXCEPT !.data = Nothing]
  /\ UNCHANGED <<g, since, found, raced>>

Between(t, points) == \E u \in Others(t) : call[u].at \in points

\* the globals of the last reading are written and read one after the other
StoreTemperature(t) ==
  /\ call[t].at = "store_t"
  /\ g' = [g EXCEPT !.valid = TRUE, !.t = call[t].t]
  /\ Goto(t, "store_h")
  /\ raced' = (raced \/ Between(t, {"store_h", "fallback_h"}))
  /\ UNCHANGED <<sensor, since, found>>

StoreHumidity(t) ==
  /\ call[t].at = "store_h"
  /\ g' = [g EXCEPT !.h = call[t].h]
  /\ Goto(t, "answer")
  /\ raced' = (raced \/ Between(t, {"store_h", "fallback_h"}))
  /\ UNCHANGED <<sensor, since, found>>

\* mutated: the last reading is reported whether there was one or not
FailedReportsAnyway(t) ==
  /\ call[t].at = "failed"
  /\ Goto(t, "fallback_t")
  /\ UNCHANGED <<sensor, g, since, found, raced>>

Failed(t) ==
  /\ call[t].at = "failed"
  /\ Goto(t, IF g.valid THEN "fallback_t" ELSE "answer")
  /\ raced' = (raced \/ (g.valid /\ Between(t, {"store_h"})))
  /\ UNCHANGED <<sensor, g, since, found>>

FallbackTemperature(t) ==
  /\ call[t].at = "fallback_t"
  /\ call' = [call EXCEPT ![t].at = "fallback_h", ![t].t = g.t]
  /\ raced' = (raced \/ Between(t, {"store_h"}))
  /\ UNCHANGED <<sensor, g, since, found>>

FallbackHumidity(t) ==
  /\ call[t].at = "fallback_h"
  /\ call' = [call EXCEPT ![t].at = "answer", ![t].h = g.h, ![t].valid = TRUE]
  /\ UNCHANGED <<sensor, g, since, found, raced>>

Answer(t) ==
  /\ call[t].at = "answer"
  /\ call' = [call EXCEPT ![t] = Idle]
  /\ since' = [since EXCEPT ![t] = {}]
  /\ UNCHANGED <<sensor, g, found, raced>>

Step(t) ==
  \/ Probe(t) \/ ProbeOther(t)
  \/ SerialCheck(t) \/ SerialCommand(t) \/ SerialRead(t) \/ PresentCheck(t)
  \/ Measure(t) \/ MeasureFails(t) \/ Read(t) \/ ReadFails(t)
  \/ StoreTemperature(t) \/ StoreHumidity(t)
  \/ Failed(t) \/ FallbackTemperature(t) \/ FallbackHumidity(t)
  \/ Answer(t)

Next == SensorFinishes \/ \E t \in Tasks : Begin(t) \/ Step(t)

Spec == Init /\ [][Next]_vars

-----------------------------------------------------------------------------
(* Conversions of a raw word of the sensor.  EnvironmentSensor_proofs shows  *)
(* that they stay in the widths of the code.                               *)

Truncated(a, b) == IF a >= 0 THEN a \div b ELSE -((-a) \div b)

CentiC(ticks) == -4500 + Truncated(17500 * ticks, 65535)

CentiHumidity(ticks) ==
  LET raw == -600 + Truncated(12500 * ticks, 65535)
  IN  IF raw < 0 THEN 0 ELSE IF raw > 10000 THEN 10000 ELSE raw

CentiF(centi) == 3200 + Truncated(centi * 9, 5)

-----------------------------------------------------------------------------
(* Properties *)

TypeOK ==
  /\ sensor \in [doing : {"none", "measuring"}, by : SUBSET Tasks, data : Data]
  /\ g \in [present : BOOLEAN, bound : BOOLEAN, serialValid : BOOLEAN,
            serialError : {"NOT_FOUND", "INTERNAL", "OK"}, valid : BOOLEAN,
            t : Data, h : Data]
  /\ call \in [Tasks -> [at : Points, tries : 0..(Retries - 1), t : Data, h : Data,
                         valid : BOOLEAN]]
  /\ since \in [Tasks -> SUBSET Measurements]
  /\ found \in BOOLEAN /\ raced \in BOOLEAN

\* A reading reported as valid is a temperature and a humidity of one and the
\* same measurement, never the bytes of a serial number, half of a reading or
\* the zeros of before the first one, as long as the tasks did not meet while
\* the sensor was bound, its serial number read or the last reading copied.
ReportsOneMeasurement ==
  \A t \in Tasks :
    call[t].at = "answer" /\ call[t].valid /\ ~raced =>
      call[t].t \in Measurements /\ call[t].h = call[t].t

\* What a task has read itself was measured after its call began: neither an
\* old conversion nor one that another task had started before is taken for an
\* answer to its own command.
OwnReadingIsFresh ==
  \A t \in Tasks :
    call[t].at \in {"store_t", "store_h"} /\ ~raced => call[t].t \in since[t]

\* A sensor found by the initialisation stays bound, whatever transfers fail
\* and however the two tasks' calls interleave.
FoundStaysBound == found => g.present /\ g.bound

=============================================================================
