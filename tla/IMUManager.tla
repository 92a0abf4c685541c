----------------------------- MODULE IMUManager -----------------------------
(***************************************************************************)
(* The program's client of the inertial sensor: IMUManager on top of       *)
(* Adafruit_BNO08x.cpp and the driver (SH2).  The tracker initializes the  *)
(* sensor, again in each update() until it succeeds; every update() calls  *)
(* checkStability(), and those of the state that gathers inertial data     *)
(* also obtainInertialMeasures().  Both read events of the same queue: the *)
(* one that reads an event of the other's sensors drops it.                *)
(*                                                                         *)
(* Calls that block are the step that starts them and the step after them. *)
(* Following a null pointer ends the behaviour (lib.broken).               *)
(***************************************************************************)
EXTENDS SH2, FiniteSets, Functions

CONSTANTS
    MotionThreshold, StillnessThreshold,    \* 10 and 1000 reports
    Samples,        \* samples of an average (100)
    MaxReports,     \* bound on the reports of the hub
    MaxQueue,       \* bound on the transfers the driver has not read
    MaxLate,        \* bound on sensors not detected and windows that end first
    MaxHubResets    \* bound on the resets of the hub by itself

ASSUME IMUAssumption ==
    /\ {"RV", "LA", "STABILITY"} \subseteq Sensors
    /\ {MotionThreshold, StillnessThreshold, Samples} \subseteq Nat \ {0}
    /\ {MaxReports, MaxQueue, MaxLate, MaxHubResets} \subseteq Nat

(* The reports initialize() enables, in its order.                           *)
Reports == <<"RV", "LA", "STABILITY">>

(* What is counted: the two kinds of stability reports, and the samples.     *)
Kinds == {"moving", "still", "RV", "LA"}
KindOf(r) == IF r.id = "STABILITY" THEN r.key ELSE r.id

VARIABLES
    step,           \* where update() is
    ready,          \* the sensor is initialized: no longer in CalibratingInertialSensor
    setting,        \* the report of initialize() that is being enabled
    reportType,
    gathering,      \* the state gathers inertial data
    onMotion,       \* currentMotionStatus
    counter,        \* motionCounter, stillnessCounter, samplesCounterAngles, -Accel
    late, hubResets,
    emitted,        \* history: reports of each kind the hub has made
    spent           \* history: reports whose counter has been zeroed

manager == <<step, ready, setting, reportType, gathering, onMotion, counter>>
environment == <<late, hubResets, emitted>>
imuVars == <<sh2Vars, manager, environment, spent>>

Zero == [k \in Kinds |-> 0]

IMUInit ==
    /\ lib = ClearedSh2
    /\ hubIn = <<>> /\ wire = <<>> /\ hubSeq = [c \in Channels |-> 0]
    /\ enabled = {} /\ taken = {} /\ faults = 0 /\ losses = 0
    /\ step = "calibrate" /\ ready = FALSE /\ setting = 1 /\ reportType = "none"
    /\ gathering = FALSE /\ onMotion = TRUE /\ counter = Zero
    /\ late = 0 /\ hubResets = 0 /\ emitted = Zero /\ spent = Zero

-----------------------------------------------------------------------------
(* The bookkeeping of the counters.                                          *)
Clear(kinds) ==
    /\ counter' = [k \in Kinds |-> IF k \in kinds THEN 0 ELSE counter[k]]
    /\ spent' = [k \in Kinds |-> IF k \in kinds THEN spent[k] + counter[k] ELSE spent[k]]

(* The next update() starts with the initialization until it has succeeded.  *)
Update(calibrated) == IF calibrated THEN "check" ELSE "calibrate"

-----------------------------------------------------------------------------
(* calibrateIMU(), initialize(): begin_I2C() does not find the sensor,       *)
beginMissed ==
    /\ step = "calibrate" /\ late < MaxLate
    /\ late' = late + 1 /\ step' = "check"
    /\ UNCHANGED <<sh2Vars, ready, setting, reportType, gathering, onMotion, counter,
                   hubResets, emitted, spent>>

(* or resets it and opens a session, unless one is open.                     *)
begin ==
    /\ step = "calibrate"
    /\ lib' = Opened(lib) /\ HubReset
    /\ step' = IF lib'.pShtp THEN "opening" ELSE "check"
    /\ UNCHANGED <<counts, ready, setting, reportType, gathering, onMotion, counter,
                   environment, spent>>

openWaits ==
    /\ step = "opening" /\ ~lib.resetComplete
    /\ service
    /\ UNCHANGED <<counts, manager, environment, spent>>

(* Mutant: the product ids are asked for before the notifications are there. *)
openReturns_NoWait ==
    /\ step = "opening"
    /\ lib' = Started(lib, "getProdIds", "none", 0)
    /\ step' = "prodIds"
    /\ UNCHANGED <<hub, counts, ready, setting, reportType, gathering, onMotion, counter,
                   environment, spent>>

(* The notifications are there in time or not; the product ids are asked for.*)
openReturns ==
    /\ step = "opening"
    /\ \/ lib.resetComplete /\ UNCHANGED late
       \/ ~lib.resetComplete /\ late < MaxLate /\ late' = late + 1
    /\ lib' = Started(lib, "getProdIds", "none", 0)
    /\ step' = "prodIds"
    /\ UNCHANGED <<hub, counts, ready, setting, reportType, gathering, onMotion, counter,
                   hubResets, emitted, spent>>

(* enableReport()                                                            *)
enableReport(sensor) == lib' = Started(lib, "setSensorConfig", sensor, 0)

setReport(i) ==
    /\ reportType' = Reports[i] /\ setting' = i
    /\ enableReport(Reports[i])
    /\ step' = "enable"

prodIdsDone ==
    /\ step = "prodIds" /\ ~Blocked
    /\ IF lib.opStatus = "SH2_OK"
       THEN setReport(1)
       ELSE step' = "check" /\ UNCHANGED <<lib, setting, reportType>>
    /\ UNCHANGED <<hub, counts, ready, gathering, onMotion, counter, environment, spent>>

(* A report is enabled: the next one, or the sensor is ready.                *)
enableDone ==
    /\ step = "enable" /\ ~Blocked /\ lib.opStatus = "SH2_OK"
    /\ IF setting < Len(Reports)
       THEN /\ setReport(setting + 1)
            /\ UNCHANGED <<ready, counter, spent>>
       ELSE /\ Clear({"RV", "LA"})
            /\ ready' = TRUE /\ step' = "check"
            /\ UNCHANGED <<lib, setting, reportType>>
    /\ UNCHANGED <<hub, counts, gathering, onMotion, environment>>

-----------------------------------------------------------------------------
(* wasReset(): the report asked for last is enabled again.  The session may  *)
(* have no transport.                                                        *)
wasReset(here, then) ==
    /\ step = here /\ lib.pShtp
    /\ IF lib.resetSeen
       THEN /\ lib' = Started([lib EXCEPT !.resetSeen = FALSE], "setSensorConfig", reportType, 0)
            /\ step' = then
       ELSE UNCHANGED lib /\ step' = then
    /\ UNCHANGED <<hub, counts, ready, setting, reportType, gathering, onMotion, counter,
                   environment, spent>>

checkReset == wasReset("check", "checkEvent")
obtainReset == wasReset("obtain", "obtainEvent")

noTransport ==
    /\ step = "check" /\ ~lib.pShtp
    /\ lib' = [lib EXCEPT !.broken = TRUE]
    /\ UNCHANGED <<hub, counts, manager, environment, spent>>

(* Mutant: the event read before is still in the value. *)
getSensorEvent_Kept ==
    LET l == [lib EXCEPT !.hasValue = TRUE]
    IN  IF wire = <<>>
        THEN lib' = l /\ UNCHANGED hub
        ELSE /\ lib' = Serviced(l, Head(wire)) /\ wire' = Tail(wire)
             /\ UNCHANGED <<hubIn, hubSeq, enabled, taken>>

(* getSensorEvent(): the transport is serviced once.                         *)
getSensorEvent ==
    LET l == [lib EXCEPT !.hasValue = TRUE, !.event = NoReport]
    IN  IF wire = <<>>
        THEN lib' = l /\ UNCHANGED hub
        ELSE /\ lib' = Serviced(l, Head(wire)) /\ wire' = Tail(wire)
             /\ UNCHANGED <<hubIn, hubSeq, enabled, taken>>

(* The counters after a report of stability.                                 *)
Classified(kind) ==
    CASE kind = "still" /\ onMotion   -> [counter EXCEPT !.still = @ + 1]
      [] kind = "moving" /\ onMotion  -> [counter EXCEPT !.still = 0]
      [] kind = "moving" /\ ~onMotion -> [counter EXCEPT !.moving = @ + 1]
      [] kind = "still" /\ ~onMotion  -> counter

(* checkStability() after its setReports(): an event of another sensor is    *)
(* dropped.  A threshold reached changes the status.                         *)
checkStability ==
    /\ step = "checkEvent" /\ ~Blocked
    /\ getSensorEvent
    /\ LET r == lib'.event
           counted == IF r.id = "STABILITY" THEN Classified(r.key) ELSE counter
           changes == IF onMotion THEN counted["still"] >= StillnessThreshold
                                  ELSE counted["moving"] >= MotionThreshold
       IN  /\ counter' = IF changes THEN [counted EXCEPT !.moving = 0, !.still = 0] ELSE counted
           /\ spent' = [k \in Kinds |->
                 CASE k \in {"RV", "LA"}                    -> spent[k]
                   [] k \notin {"RV", "LA"} /\ changes      -> spent[k] + counted[k]
                   [] k \notin {"RV", "LA"} /\ ~changes     ->
                        spent[k] + (IF counted[k] < counter[k] THEN counter[k] ELSE 0)]
           /\ onMotion' = (onMotion # changes)
    /\ step' = IF gathering THEN "obtain" ELSE Update(ready)
    /\ \E g \in BOOLEAN : gathering' = IF ready THEN gathering \/ g ELSE FALSE
    /\ UNCHANGED <<counts, ready, setting, reportType, environment>>

(* obtainInertialMeasures(): an event of another sensor is dropped.  With    *)
(* the samples of both sensors the average is taken.                         *)
obtainInertialMeasures ==
    /\ step = "obtainEvent" /\ ~Blocked
    /\ getSensorEvent
    /\ LET r == lib'.event
           counted == IF r.id \in {"RV", "LA"} /\ counter[r.id] < Samples
                      THEN [counter EXCEPT ![r.id] = @ + 1] ELSE counter
           complete == counted["RV"] >= Samples /\ counted["LA"] >= Samples
       IN  /\ counter' = IF complete THEN [counted EXCEPT !.RV = 0, !.LA = 0] ELSE counted
           /\ spent' = IF complete
                       THEN [spent EXCEPT !.RV = @ + counted["RV"], !.LA = @ + counted["LA"]]
                       ELSE spent
           /\ gathering' = ~complete
    /\ step' = "check"
    /\ UNCHANGED <<counts, ready, setting, reportType, onMotion, environment>>

-----------------------------------------------------------------------------
(* The hub makes a report, or two of them in one cargo.                      *)
Made == {r \in {Report(s, 0, 0, k, TRUE) : s \in enabled, k \in {"moving", "still"}} :
            r.id \in {"RV", "LA"} => r.key = "still"}

emit ==
    /\ Len(wire) < MaxQueue
    /\ \E payload \in {<<r>> : r \in Made} \union (Made \X Made) :
          LET made == [k \in Kinds |-> emitted[k] +
                         Cardinality({i \in DOMAIN payload : KindOf(payload[i]) = k})]
          IN  /\ FoldFunction(+, 0, made) <= MaxReports
              /\ emitted' = made
              /\ Emit("inputNormal", Whole("inputNormal", payload))
    /\ UNCHANGED <<lib, hubIn, enabled, taken, counts, manager, late, hubResets, spent>>

sensorResets ==
    /\ ready /\ hubResets < MaxHubResets
    /\ HubReset
    /\ hubResets' = hubResets + 1
    /\ UNCHANGED <<lib, counts, manager, late, emitted, spent>>

Manager ==
    \/ beginMissed \/ begin \/ openWaits \/ openReturns \/ prodIdsDone \/ enableDone
    \/ checkReset \/ obtainReset \/ noTransport
    \/ checkStability \/ obtainInertialMeasures

DriverSteps == (write \/ writeFails \/ poll) /\ UNCHANGED <<manager, environment, spent>>
HubSteps == (hubTakes \/ lose) /\ UNCHANGED <<manager, environment, spent>>

IMUNext ==
    /\ ~lib.broken
    /\ Manager \/ DriverSteps \/ HubSteps \/ emit \/ sensorResets

IMUSpec == IMUInit /\ [][IMUNext]_imuVars

-----------------------------------------------------------------------------
(* Nothing is on its way that changes what the hub reports.                  *)
Settled ==
    /\ ready /\ ~lib.broken /\ ~Blocked /\ ~lib.resetSeen /\ hubIn = <<>> /\ losses = 0
    /\ \A i \in DOMAIN wire : wire[i].chan # "device"

(* A sensor that is ready reports all the program asked for, whatever the     *)
(* bus refused meanwhile; and after a reset of the hub at least the          *)
(* stability the program needs to see a motion.                              *)
ReportsEnabled ==
    Settled =>
        /\ "STABILITY" \in enabled
        /\ hubResets = 0 => {Reports[i] : i \in DOMAIN Reports} \subseteq enabled

(* No report is counted twice, though two calls read the one value the       *)
(* driver fills: every motion, stillness and sample counted, in a counter or *)
(* in one that was zeroed, is a report the hub made.                         *)
CountedOnce == \A k \in Kinds : spent[k] + counter[k] <= emitted[k]

(* However often initialize() fails and is repeated on a session that is     *)
(* still open, update() follows a null pointer only if something failed      *)
(* before: the sensor was not found or did not answer in time, the bus       *)
(* refused a write, or a transfer was lost.                                  *)
NullNeedsFault == lib.broken => late > 0 \/ faults > 0 \/ losses > 0
=============================================================================
