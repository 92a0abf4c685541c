----------------------------- MODULE GNSSSession -----------------------------
(***************************************************************************)
(* The dialogue with the GNSS receiver of the modem: the battery reading   *)
(* each cycle starts with, and the geopositioning states that              *)
(* GettingGNSSPosition calls until a position is obtained or given up.     *)
(* The state object lives on from one cycle to the next, and so do the     *)
(* lines nobody read: switching the receiver off is left to the first      *)
(* calls of the next cycle.                                                *)
(*                                                                         *)
(* One action is what one call does with one event: its first pass (the    *)
(* commands), a line, or a time-out.  The modem is the environment.        *)
(* ATCommandHandler and NonBlockingDelay say what makes a line and what    *)
(* makes a time-out.                                                       *)
(***************************************************************************)
EXTENDS Integers, Sequences, SequencesExt, ATCommandHandler, NonBlockingDelay

CONSTANTS
    MaxCycles,          \* bound on the number of cycles
    MaxTries,           \* time-outs a counting state allows itself (20 and 40)
    MaxLate,            \* time-outs of a cycle that strike with an answer under way
    MaxFaults,          \* commands left without answer, and stops of the engine
    MaxLines            \* lines the modem leaves unread before it waits

ASSUME GNSSAssumption ==
    /\ MaxCycles \in Nat \ {0} /\ MaxTries \in Nat \ {0}
    /\ MaxLate \in 0..(MaxTries - 1) /\ MaxFaults \in Nat /\ MaxLines \in Nat \ {0}

GNSSStates == {"GNSSUnavailable", "ConfigurateConstellation", "TurningOnGNSS",
               "ObtainingPositionInformation", "TurningOffGNSS"}

(* What a state sends, all of it in one pass.                                *)
Commands(s) ==
    CASE s = "SensingBatteryStatus"         -> <<"CBC">>
      [] s = "ConfigurateConstellation"     -> <<"QGPSCFG">>
      [] s = "TurningOnGNSS"                -> <<"QGPS=1">>
      [] s = "ObtainingPositionInformation" -> <<"QGPSLOC=2", "QGPSLOC?">>
      [] s = "TurningOffGNSS"               -> <<"QGPS=0">>

(* The lines the states tell apart.  "of" is the cycle a position was        *)
(* measured in.                                                              *)
Line(what, of) == [what |-> what, of |-> of]
Plain(what) == Line(what, 0)
AlreadyOn == Plain("+CME ERROR: 504")
NotActive == Plain("+CME ERROR: 505")
NotFixed == Plain("+CME ERROR: 516")
Ok == Plain("OK")
Echo == Plain("ECHO")       \* the modem repeats each command it is sent

VARIABLES
    cycle,          \* number of the cycle in progress
    trackerState,   \* "SensingBatteryStatus", "GettingGNSSPosition", "rest"
    state,          \* currentGeopositioningState
    readyToSend, numberOfTries,   \* fields of the state object
    batterySent,    \* static of the battery reading: its command was sent
    result,         \* what retrivGeopositioning() returned last
    position        \* the measurement Geodata holds, 0 for none

(* The modem. *)
VARIABLES
    inputs,         \* commands it has not taken
    lines,          \* lines nobody has read
    engine,         \* the receiver is on
    late, faults

object == <<state, readyToSend, numberOfTries>>
counts == <<late, faults>>
vars == <<cycle, trackerState, object, batterySent, result, position,
          inputs, lines, engine, counts>>

Init ==
    /\ cycle = 1 /\ trackerState = "SensingBatteryStatus"
    /\ state = "GNSSUnavailable" /\ readyToSend = TRUE /\ numberOfTries = 0
    /\ batterySent = FALSE
    /\ result = "GNSS_STATE_DISCONNECTED" /\ position = 0
    /\ inputs = <<>> /\ lines = <<>> /\ engine = FALSE
    /\ late = 0 /\ faults = 0

-----------------------------------------------------------------------------
changeGeopositioningState(s) ==
    state' = s /\ readyToSend' = TRUE /\ numberOfTries' = 0

Read == lines # <<>> /\ lines' = Tail(lines)

(* The refresh time runs out.  A second is enough for the modem to take a    *)
(* command, not always for the tracker to get the answer.                    *)
TimeOut ==
    /\ inputs = <<>>
    /\ IF lines = <<>> THEN UNCHANGED late ELSE late < MaxLate /\ late' = late + 1

-----------------------------------------------------------------------------
sendBattery ==
    /\ trackerState = "SensingBatteryStatus" /\ ~batterySent
    /\ batterySent' = TRUE
    /\ inputs' = inputs \o Commands(trackerState)
    /\ UNCHANGED <<cycle, trackerState, object, result, position, lines, engine, counts>>

batteryTimesOut ==
    /\ trackerState = "SensingBatteryStatus" /\ batterySent
    /\ TimeOut
    /\ batterySent' = FALSE
    /\ UNCHANGED <<cycle, trackerState, object, result, position, inputs, lines,
                   engine, faults>>

(* Mutant: any line will do for the battery. *)
readBattery_AnyLine ==
    /\ trackerState = "SensingBatteryStatus" /\ batterySent
    /\ Read
    /\ trackerState' = "GettingGNSSPosition"
    /\ UNCHANGED <<cycle, object, batterySent, result, position, inputs, engine, counts>>

(* measureBattery(): the line of the battery ends the state, whose OK stays  *)
(* for whoever reads next.  That the command was sent is not forgotten: the  *)
(* next cycle sends it only after a time-out.                                *)
readBattery ==
    /\ trackerState = "SensingBatteryStatus" /\ batterySent
    /\ Read
    /\ IF Head(lines) = Plain("+CBC")
       THEN trackerState' = "GettingGNSSPosition" ELSE UNCHANGED trackerState
    /\ UNCHANGED <<cycle, object, batterySent, result, position, inputs, engine, counts>>

-----------------------------------------------------------------------------
(* Each call of obtainGNSSPosition() enables the receiver first, which only  *)
(* GNSSUnavailable answers, and goes on in the new state.                    *)
Called(s) ==
    /\ trackerState = "GettingGNSSPosition"
    /\ \/ state = s
       \/ state = "GNSSUnavailable" /\ s = "ConfigurateConstellation"

Ready == readyToSend \/ state = "GNSSUnavailable"

Return(r) ==
    /\ result' = r
    /\ trackerState' = IF r \in {"GNSS_STATE_CONNECTION_OBTAIN",
                                 "GNSS_STATE_CONNECTION_UNAVAILABLE"}
                       THEN "rest" ELSE trackerState
    /\ UNCHANGED <<cycle, batterySent>>

Trying == Return("GNSS_STATE_TRYING_TO_CONNECT")

sendCommands(s) ==
    /\ Called(s) /\ Ready
    /\ inputs' = inputs \o Commands(s)
    /\ state' = s /\ readyToSend' = FALSE
    /\ numberOfTries' = IF state = s THEN numberOfTries ELSE 0
    /\ IF s = "TurningOffGNSS" THEN Return("GNSS_STATE_DISCONNECTED") ELSE Trying
    /\ UNCHANGED <<position, lines, engine, counts>>

GNSSLine(s) == Called(s) /\ ~Ready /\ Read

configurateConstellation ==
    /\ GNSSLine("ConfigurateConstellation")
    /\ IF Head(lines) = Ok THEN changeGeopositioningState("TurningOnGNSS")
                           ELSE UNCHANGED object
    /\ Trying
    /\ UNCHANGED <<position, inputs, engine, counts>>

(* Mutant: only an OK confirms that the receiver is on. *)
turningOnGNSS_Exact ==
    /\ GNSSLine("TurningOnGNSS")
    /\ IF Head(lines) = Ok
       THEN changeGeopositioningState("ObtainingPositionInformation")
       ELSE UNCHANGED object
    /\ Trying
    /\ UNCHANGED <<position, inputs, engine, counts>>

(* The second comparison lacks its == 0: every line but "+CME ERROR: 504"    *)
(* confirms that the receiver is on.                                         *)
turningOnGNSS ==
    /\ GNSSLine("TurningOnGNSS")
    /\ IF Head(lines) # AlreadyOn
       THEN changeGeopositioningState("ObtainingPositionInformation")
       ELSE UNCHANGED object
    /\ Trying
    /\ UNCHANGED <<position, inputs, engine, counts>>

obtainingPositionInformation ==
    /\ GNSSLine("ObtainingPositionInformation")
    /\ LET line == Head(lines) IN
       \/ /\ line.what = "+QGPSLOC"
          /\ position' = line.of
          /\ changeGeopositioningState("TurningOffGNSS")
          /\ Return("GNSS_STATE_CONNECTION_OBTAIN")
       \/ /\ line = NotActive
          /\ changeGeopositioningState("TurningOnGNSS")
          /\ Trying /\ UNCHANGED position
       \/ /\ line.what # "+QGPSLOC" /\ line # NotActive
          /\ Trying /\ UNCHANGED <<object, position>>
    /\ UNCHANGED <<inputs, engine, counts>>

(* The same slip: every line but "+CME ERROR: 505" confirms it is off.       *)
turningOffGNSS ==
    /\ GNSSLine("TurningOffGNSS")
    /\ IF Head(lines) # NotActive THEN changeGeopositioningState("GNSSUnavailable")
                                  ELSE UNCHANGED object
    /\ Return("GNSS_STATE_DISCONNECTED")
    /\ UNCHANGED <<position, inputs, engine, counts>>

countingTimesOut ==
    /\ state \in {"ConfigurateConstellation", "ObtainingPositionInformation"}
    /\ Called(state) /\ ~Ready /\ TimeOut
    /\ IF numberOfTries + 1 >= MaxTries
       THEN /\ changeGeopositioningState("TurningOffGNSS")
            /\ Return("GNSS_STATE_CONNECTION_UNAVAILABLE")
       ELSE /\ numberOfTries' = numberOfTries + 1
            /\ readyToSend' = TRUE
            /\ UNCHANGED state
            /\ Trying
    /\ UNCHANGED <<position, inputs, lines, engine, faults>>

(* Switching on and off repeat their command and never give up.              *)
switchingTimesOut ==
    /\ state \in {"TurningOnGNSS", "TurningOffGNSS"}
    /\ Called(state) /\ ~Ready /\ TimeOut
    /\ readyToSend' = TRUE
    /\ IF state = "TurningOffGNSS" THEN Return("GNSS_STATE_DISCONNECTED") ELSE Trying
    /\ UNCHANGED <<state, numberOfTries, position, inputs, lines, engine, faults>>

(* The rest of the cycle: the modem answers what it was sent, the other      *)
(* states read some of the lines, in silent mode none at all, and the modem  *)
(* is switched off, or in pursuit left on for the next cycle.                *)
restOfCycle ==
    /\ trackerState = "rest" /\ cycle < MaxCycles
    /\ cycle' = cycle + 1 /\ trackerState' = "SensingBatteryStatus"
    /\ \E n \in 0..Len(lines) : lines' = SubSeq(lines, n + 1, Len(lines))
    /\ \/ inputs' = <<>> /\ engine' = FALSE
       \/ inputs = <<>> /\ UNCHANGED <<inputs, engine>>
    /\ late' = 0
    /\ UNCHANGED <<object, batterySent, result, position, faults>>

-----------------------------------------------------------------------------
(* The modem takes a command and answers it, most often.                     *)
Answers(c) ==
    CASE c \in {"QGPSCFG", "QGPSLOC=2"} -> {<<Ok>>}
      [] c = "CBC"      -> {<<Plain("+CBC"), Ok>>}
      [] c = "QGPS=1"   -> {IF engine THEN <<AlreadyOn>> ELSE <<Ok>>}
      [] c = "QGPS=0"   -> {IF engine THEN <<Ok>> ELSE <<NotActive>>}
      [] c = "QGPSLOC?" -> IF engine THEN {<<Line("+QGPSLOC", cycle), Ok>>, <<NotFixed>>}
                                     ELSE {<<NotActive>>}

takeCommand ==
    /\ inputs # <<>> /\ Len(lines) < MaxLines
    /\ inputs' = Tail(inputs)
    /\ engine' = CASE Head(inputs) = "QGPS=1" -> TRUE
                   [] Head(inputs) = "QGPS=0" -> FALSE
                   [] OTHER                   -> engine
    /\ \E answer \in Answers(Head(inputs)) : lines' = lines \o <<Echo>> \o answer
    /\ UNCHANGED <<cycle, trackerState, object, batterySent, result, position, counts>>

modemFails ==
    /\ faults < MaxFaults /\ faults' = faults + 1
    /\ \/ inputs # <<>> /\ inputs' = Tail(inputs) /\ UNCHANGED engine
       \/ engine /\ engine' = FALSE /\ UNCHANGED inputs
    /\ UNCHANGED <<cycle, trackerState, object, batterySent, result, position, lines, late>>

-----------------------------------------------------------------------------
Tracker ==
    \/ sendBattery \/ readBattery \/ batteryTimesOut
    \/ \E s \in GNSSStates \ {"GNSSUnavailable"} : sendCommands(s)
    \/ configurateConstellation \/ turningOnGNSS
    \/ obtainingPositionInformation \/ turningOffGNSS
    \/ countingTimesOut \/ switchingTimesOut

Next == Tracker \/ restOfCycle \/ takeCommand \/ modemFails

Spec == Init /\ [][Next]_vars

(* The main loop calls the tracker for ever, and a modem that is on takes    *)
(* what it is sent.                                                          *)
FairSpec == Spec /\ WF_vars(Tracker) /\ WF_vars(takeCommand)

-----------------------------------------------------------------------------
(* The position a cycle obtains was measured in that cycle: what repeated    *)
(* commands left in the serial buffer, and a receiver that was switched off  *)
(* one cycle late, never pass for a measurement.  (SensingBatteryStatus,     *)
(* ObtainingPositionInformation::retrivGeopositioning)                       *)
PositionIsOfCycle ==
    (trackerState = "rest" /\ result = "GNSS_STATE_CONNECTION_OBTAIN") => position = cycle

(* A cycle always comes to the end of its acquisition, although switching    *)
(* the receiver on and off wait without a bound, a receiver that is not      *)
(* active sends the search back to the start, and both look for an answer    *)
(* with an inverted comparison.  (GettingGNSSPosition::obtainGNSSPosition)   *)
AcquisitionEnds ==
    (trackerState = "GettingGNSSPosition") ~> (trackerState = "rest")
==============================================================================
