---------------------------- MODULE PowerManager ----------------------------
(***************************************************************************)
(* The modem's power: PowerManager with the three of its states that the   *)
(* program reaches, the timer they share, and the order in which the       *)
(* tracker calls them.  Much of what a call goes by is static: the attempt *)
(* to turn the modem off, the pulse on its power key and the count of      *)
(* readings that found it off outlast the state objects.                   *)
(*                                                                         *)
(* measureBattery() and turnOff() send, read a line and look at the timer; *)
(* each of these is a step.  The modem is the environment: it starts when  *)
(* its key is pressed, answers late or never, and may fail.                *)
(***************************************************************************)
EXTENDS Naturals, Sequences

CONSTANTS
    MaxTries,       \* MAX_TRIES (10)
    MaxCount,       \* MAX_COUNT_TURN_OFF (20)
    TurnOnCounter,  \* TURN_ON_COUNTER (1000)
    MaxPresses,     \* bound on the presses of the button
    MaxFailures,    \* bound on the failures of the modem
    MaxPending,     \* bound on the commands the modem has not answered
    MaxLines,       \* bound on the lines the serial buffer holds
    EarlyFailures   \* whether it may fail before its status was looked at

ASSUME PowerAssumption ==
    /\ MaxTries \in Nat /\ MaxCount \in Nat \ {0} /\ TurnOnCounter \in Nat
    /\ MaxPresses \in Nat /\ MaxFailures \in Nat
    /\ MaxPending \in Nat \ {0} /\ MaxLines \in Nat \ {0}
    /\ EarlyFailures \in BOOLEAN

PowerStates == {"PowerONState", "PowerOFFState", "ManualPowerOFFState"}

Lines == {"CBC", "POWERED DOWN", "OTHER"}

(* What the tracker is at: SensingBatteryStatus, the states up to the end of *)
(* an exchange, GoingToSleep or a failed connection, LoRa or Slepping with   *)
(* turnOff() done, and Slepping once awake() has called turnOn().            *)
Phases == {"measuring", "working", "turning off", "resting", "waking"}

VARIABLES
    phase,
    polled,         \* whether this update() has called startStopUpdate()
    powerState,     \* class of *currentPowerState
    object,         \* members of that object
    statics,        \* static variables of the methods
    timer,          \* powerChangeDurationTimer
    key, supply,    \* powerKeyOutput, powerDownOutput
    input           \* lines in the serial buffer

(* The modem and its user. *)
VARIABLES
    modem,          \* "off", "starting" or "on": what powerStatusInput shows
    pending,        \* commands it has not answered
    announced,      \* it said POWERED DOWN since it started
    leftover,       \* it started with such a line unread
    presses, failures

manager == <<powerState, object, statics, timer>>
outputs == <<key, supply>>
keyed == <<key, modem, pending>>
user == <<presses, failures>>
said == <<announced, leftover>>
vars == <<phase, polled, manager, outputs, input, modem, pending, said, user>>

New == [manual |-> FALSE, signal |-> FALSE, turning |-> FALSE,
        turnOffWasCalled |-> FALSE, buttonPushed |-> FALSE, turnOnCounter |-> 0]

(* Members of statics: turnOffCounter of startStopUpdate(), turningPower and *)
(* SignalTurningOn of a pulse on the key, measureBattery()'s and reboot()'s  *)
(* readyToSend, and the three of turnOff().                                  *)
Init ==
    /\ phase = "measuring" /\ polled = FALSE
    /\ powerState = "PowerOFFState" /\ object = New
    /\ statics = [turnOffCounter |-> 0, turningPower |-> FALSE, signalTurningOn |-> FALSE,
                  measureReady |-> TRUE, rebootReady |-> TRUE,
                  offReady |-> TRUE, hard |-> FALSE, retryCounter |-> 0]
    /\ timer = "stopped"
    /\ key = FALSE /\ supply = TRUE /\ input = <<>>
    /\ modem \in {"off", "on"} /\ pending = <<>> /\ announced = FALSE /\ leftover = FALSE
    /\ presses = 0 /\ failures = 0

-----------------------------------------------------------------------------
(* NonBlockingDelay *)
Restarted == "running"
Fires == timer = "due"
read == IF Fires THEN "stopped" ELSE Restarted

(* sendATCommand() *)
sendATCommand(command) ==
    pending' = IF modem = "on" /\ Len(pending) < MaxPending
               THEN Append(pending, command) ELSE pending

readATResponse(line) == input # <<>> /\ line = Head(input) /\ input' = Tail(input)

(* changeKeyDigitalSignal(): pressing the key starts a modem that is off, if *)
(* it is supplied, and may stop one that is on.                              *)
changeKeyDigitalSignal(level) ==
    /\ key' = level
    /\ IF level /\ ~key /\ supply
       THEN \/ modem = "off" /\ modem' = "starting"
            \/ modem # "off" /\ UNCHANGED modem
            \/ modem = "on" /\ modem' = "off"
       ELSE UNCHANGED modem
    /\ pending' = IF modem' = "on" THEN pending ELSE <<>>

changePowerState(name) == powerState' = name /\ object' = New

(* Mutant: the new object leaves the modem supplied. *)
ManualPowerOFF_Supplied ==
    /\ changePowerState("ManualPowerOFFState")
    /\ UNCHANGED <<supply, modem, pending>>

(* ManualPowerOFFState::ManualPowerOFFState() cuts the supply. *)
ManualPowerOFF ==
    /\ changePowerState("ManualPowerOFFState")
    /\ supply' = FALSE /\ modem' = "off" /\ pending' = <<>>

-----------------------------------------------------------------------------
(* startStopUpdate() *)

Poll == ~polled /\ polled' = (phase \in {"measuring", "turning off"})

(* What the button does in PowerONState and ManualPowerOFFState: a pulse on  *)
(* the key.                                                                  *)
ReadButton(members) ==
    \E pressed \in (IF presses < MaxPresses THEN BOOLEAN ELSE {FALSE}) :
        LET manual == members.manual \/ pressed
            turning == members.turning \/ pressed
            next == [members EXCEPT !.manual = manual, !.turning = turning,
                                    !.buttonPushed = @ \/ pressed]
            rises == manual /\ turning /\ ~members.signal
        IN  /\ presses' = presses + (IF pressed THEN 1 ELSE 0)
            /\ \/ /\ rises
                  /\ object' = [next EXCEPT !.signal = TRUE]
                  /\ timer' = Restarted /\ changeKeyDigitalSignal(TRUE)
               \/ /\ members.signal /\ Fires /\ turning
                  /\ object' = [next EXCEPT !.signal = FALSE, !.turning = FALSE]
                  /\ timer' = Restarted /\ changeKeyDigitalSignal(FALSE)
               \/ /\ ~rises /\ ~(members.signal /\ Fires /\ turning)
                  /\ object' = next
                  /\ timer' = (IF members.signal THEN read ELSE timer) /\ UNCHANGED keyed

(* Mutant: readings that found the modem off are not counted. *)
Readings_Forgotten == 0

(* turnOffCounter is compared with ==, so it must not run past the maximum.  *)
Readings ==
    IF modem = "on" THEN 0
    ELSE IF statics.turnOffCounter > MaxCount THEN statics.turnOffCounter
    ELSE statics.turnOffCounter + 1

startStopUpdateON ==
    /\ Poll /\ powerState = "PowerONState"
    /\ IF object.turnOffWasCalled
       THEN UNCHANGED <<manager, outputs, modem, pending, user>>
       ELSE /\ statics' = [statics EXCEPT !.turnOffCounter = Readings]
            /\ \/ /\ Readings = MaxCount /\ ~object.manual
                  /\ changePowerState("PowerOFFState")
                  /\ UNCHANGED <<timer, outputs, modem, pending, user>>
               \/ /\ Readings = MaxCount /\ object.manual
                  /\ ManualPowerOFF
                  /\ UNCHANGED <<timer, key, user>>
               \/ /\ Readings # MaxCount /\ ReadButton(object)
                  /\ UNCHANGED <<powerState, supply, failures>>
    /\ UNCHANGED <<phase, input, said>>

startStopUpdateOFF ==
    /\ Poll /\ powerState = "PowerOFFState"
    /\ \/ /\ modem = "on" /\ changePowerState("PowerONState")
          /\ UNCHANGED <<statics, timer, keyed>>
       \/ /\ modem # "on" /\ Fires
          /\ changeKeyDigitalSignal(~statics.turningPower)
          /\ statics' = [statics EXCEPT !.turningPower = ~@]
          /\ timer' = Restarted /\ UNCHANGED <<powerState, object>>
       \/ /\ modem # "on" /\ ~Fires
          /\ timer' = read /\ UNCHANGED <<powerState, object, statics, keyed>>
    /\ UNCHANGED <<phase, supply, input, said, user>>

startStopUpdateManual ==
    /\ Poll /\ powerState = "ManualPowerOFFState"
    /\ LET counts == modem = "on" /\ object.buttonPushed
       IN  IF counts /\ object.turnOnCounter > TurnOnCounter
           THEN changePowerState("PowerONState") /\ UNCHANGED <<timer, keyed, user>>
           ELSE /\ ReadButton([object EXCEPT !.turnOnCounter = @ + (IF counts THEN 1 ELSE 0)])
                /\ UNCHANGED <<powerState, failures>>
    /\ UNCHANGED <<phase, statics, supply, input, said>>

-----------------------------------------------------------------------------
(* measureBattery() answers only in PowerONState; in the others it returns   *)
(* false.  The update() that calls it has called startStopUpdate() before.   *)
Call(where) == polled /\ phase = where

Measuring ==
    /\ Call("measuring") /\ powerState = "PowerONState"
    /\ UNCHANGED <<powerState, object, outputs, modem, said, user>>

measureSends ==
    /\ Measuring /\ statics.measureReady /\ sendATCommand("AT+CBC")
    /\ statics' = [statics EXCEPT !.measureReady = FALSE]
    /\ UNCHANGED <<phase, polled, timer, input>>

measureReads ==
    /\ Measuring /\ ~statics.measureReady
    /\ \E line \in Lines :
          /\ readATResponse(line)
          /\ IF line = "CBC" THEN phase' = "working" /\ polled' = FALSE
             ELSE UNCHANGED <<phase, polled>>
    /\ UNCHANGED <<statics, timer, pending>>

measureTimesOut ==
    /\ Measuring /\ ~statics.measureReady
    /\ timer' = read /\ polled' = FALSE
    /\ statics' = [statics EXCEPT !.measureReady = Fires]
    /\ UNCHANGED <<phase, input, pending>>

measureNothing ==
    /\ Call("measuring") /\ powerState # "PowerONState" /\ polled' = FALSE
    /\ UNCHANGED <<phase, manager, outputs, input, modem, pending, said, user>>

(* turnOff() returned true. *)
TurnedOff == phase' = "resting" /\ polled' = FALSE

sendPowerDown ==
    /\ Call("turning off") /\ powerState = "PowerONState"
    /\ statics.offReady /\ sendATCommand("AT+QPOWD")
    /\ statics' = [statics EXCEPT !.offReady = FALSE]
    /\ object' = [object EXCEPT !.turnOffWasCalled = TRUE]
    /\ UNCHANGED <<phase, polled, powerState, timer, outputs, input, modem, said, user>>

(* Mutant: any line is taken for the answer. *)
Confirms_AnyLine(line) == TRUE

Confirms(line) == line = "POWERED DOWN"

readPoweredDown ==
    /\ Call("turning off") /\ powerState = "PowerONState" /\ ~statics.offReady
    /\ \E line \in Lines :
          /\ readATResponse(line)
          /\ IF Confirms(line)
             THEN ManualPowerOFF /\ TurnedOff
             ELSE UNCHANGED <<phase, polled, powerState, object, supply, modem, pending>>
    /\ UNCHANGED <<statics, timer, key, said, user>>

Tries == statics.retryCounter + 1

TriesLeft == statics.retryCounter <= MaxTries

(* An attempt is counted and repeated; after too many the supply is cut for  *)
(* a while.  The count is not reset when the modem answers.                  *)
turnOffTimesOut ==
    /\ Call("turning off") /\ powerState = "PowerONState"
    /\ ~statics.offReady
    /\ timer' = read /\ polled' = FALSE
    /\ \/ /\ ~Fires
          /\ UNCHANGED <<phase, powerState, object, statics, supply, modem, pending>>
       \/ /\ Fires /\ TriesLeft
          /\ statics' = [statics EXCEPT !.retryCounter = Tries, !.offReady = TRUE]
          /\ UNCHANGED <<phase, powerState, object, supply, modem, pending>>
       \/ /\ Fires /\ ~TriesLeft /\ ~statics.hard
          /\ supply' = FALSE /\ modem' = "off" /\ pending' = <<>>
          /\ statics' = [statics EXCEPT !.hard = TRUE]
          /\ UNCHANGED <<phase, powerState, object>>
       \/ /\ Fires /\ ~TriesLeft /\ statics.hard
          /\ statics' = [statics EXCEPT !.hard = FALSE, !.offReady = TRUE, !.retryCounter = 0]
          /\ ManualPowerOFF /\ TurnedOff
    /\ UNCHANGED <<key, input, said, user>>

(* PowerOFFState and ManualPowerOFFState *)
turnOffAtOnce ==
    /\ Call("turning off") /\ powerState # "PowerONState"
    /\ IF powerState = "PowerOFFState" THEN ManualPowerOFF
       ELSE UNCHANGED <<powerState, object>> /\ supply' = FALSE /\ modem' = "off" /\ pending' = <<>>
    /\ TurnedOff
    /\ UNCHANGED <<statics, timer, key, input, said, user>>

-----------------------------------------------------------------------------
(* turnOn(), called by awake() before startStopUpdate(). *)

Waking == phase \in {"resting", "waking"} /\ UNCHANGED <<polled, input, said, user>>

awakened == phase' = "measuring"
stillWaking == phase' = "waking"

(* PowerONState::turnOn(), after the button. *)
turnOnON ==
    /\ Waking /\ powerState = "PowerONState"
    /\ awakened
    /\ UNCHANGED <<manager, outputs, modem, pending>>

Supplies == supply' = TRUE

(* ManualPowerOFFState::turnOn(): the supply is restored and the key pressed *)
(* and released until the modem is up, which may be in the middle of a pulse.*)
turnOnManual ==
    /\ Waking /\ powerState = "ManualPowerOFFState" /\ Supplies
    /\ \/ /\ modem = "on" /\ changePowerState("PowerONState") /\ awakened
          /\ UNCHANGED <<statics, timer, keyed>>
       \/ /\ modem # "on" /\ stillWaking /\ ~Fires
          /\ timer' = read /\ UNCHANGED <<powerState, object, statics, keyed>>
       \/ /\ modem # "on" /\ stillWaking /\ Fires
          /\ timer' = Restarted /\ changeKeyDigitalSignal(~statics.signalTurningOn)
          /\ statics' = [statics EXCEPT !.signalTurningOn = ~@]
          /\ UNCHANGED <<powerState, object>>

-----------------------------------------------------------------------------
(* The tracker between these calls *)

(* Other modules read lines. *)
work ==
    /\ phase = "working" /\ input # <<>>
    /\ input' = Tail(input)
    /\ UNCHANGED <<phase, polled, manager, outputs, modem, pending, said, user>>

(* GoingToSleep, or a connection that failed. *)
turnOff ==
    /\ phase \in {"working", "resting"} /\ phase' = "turning off" /\ polled' \in BOOLEAN
    /\ UNCHANGED <<manager, outputs, input, modem, pending, said, user>>

pursue ==
    /\ phase \in {"working", "resting"} /\ awakened
    /\ UNCHANGED <<polled, manager, outputs, input, modem, pending, said, user>>

(* ConsultingSIMCardStatus calls reboot() once when it finds no card.        *)
reboot ==
    /\ phase = "working" /\ powerState = "PowerONState" /\ phase' = "turning off"
    /\ polled' \in BOOLEAN
    /\ IF statics.rebootReady THEN sendATCommand("AT+QPOWD") ELSE UNCHANGED pending
    /\ timer' = read
    /\ statics' = [statics EXCEPT !.rebootReady = Fires]
    /\ \/ /\ input # <<>> /\ Head(input) = "POWERED DOWN" /\ input' = Tail(input)
          /\ changePowerState("PowerOFFState")
       \/ /\ input # <<>> /\ Head(input) # "POWERED DOWN" /\ input' = Tail(input)
          /\ UNCHANGED <<powerState, object>>
       \/ input = <<>> /\ UNCHANGED <<input, powerState, object>>
    /\ UNCHANGED <<outputs, modem, said, user>>

-----------------------------------------------------------------------------
(* The modem and the timer *)

timerDue ==
    /\ timer = Restarted /\ timer' = "due"
    /\ UNCHANGED <<phase, polled, powerState, object, statics, outputs, input,
                   modem, pending, said, user>>

started ==
    /\ modem = "starting" /\ supply /\ modem' = "on"
    /\ announced' = FALSE
    /\ leftover' = (\E i \in DOMAIN input : input[i] = "POWERED DOWN")
    /\ UNCHANGED <<phase, polled, manager, outputs, input, pending, user>>

(* It goes off after it announced so, or fails. *)
stopped ==
    /\ modem = "on" /\ modem' = "off" /\ pending' = <<>>
    /\ \/ announced /\ UNCHANGED failures
       \/ /\ failures < MaxFailures /\ failures' = failures + 1
          /\ EarlyFailures \/ statics.turnOffCounter = 0
    /\ UNCHANGED <<phase, polled, manager, outputs, input, said, presses>>

AnswerTo == [command \in {"AT+CBC", "AT+QPOWD"} |->
                IF command = "AT+CBC" THEN "CBC" ELSE "POWERED DOWN"]

Answer(line) ==
    /\ modem = "on" /\ pending # <<>> /\ Len(input) < MaxLines
    /\ input' = Append(input, line) /\ pending' = Tail(pending)
    /\ UNCHANGED <<phase, polled, manager, outputs, modem, leftover, user>>

answer ==
    /\ pending # <<>> /\ Answer(AnswerTo[Head(pending)])
    /\ announced' = (announced \/ Head(pending) = "AT+QPOWD")

refuse == Answer("OTHER") /\ UNCHANGED announced

stayMute ==
    /\ modem = "on" /\ pending # <<>> /\ pending' = Tail(pending)
    /\ UNCHANGED <<phase, polled, manager, outputs, input, modem, said, user>>

Next ==
    \/ startStopUpdateON \/ startStopUpdateOFF \/ startStopUpdateManual
    \/ measureSends \/ measureReads \/ measureTimesOut \/ measureNothing
    \/ sendPowerDown \/ readPoweredDown \/ turnOffTimesOut \/ turnOffAtOnce
    \/ turnOnON \/ turnOnManual
    \/ work \/ turnOff \/ pursue \/ reboot
    \/ timerDue \/ started \/ stopped \/ answer \/ refuse \/ stayMute

Spec == Init /\ [][Next]_vars

(* update() calls every handler again and again, and the ticker runs.  A     *)
(* line that is there is read in the end, though not before every look at    *)
(* the timer, hence SF.  The modem starts once its key is pressed, and does  *)
(* not leave every command without its answer.                               *)
Fairness ==
    /\ WF_vars(startStopUpdateON \/ startStopUpdateOFF \/ startStopUpdateManual)
    /\ WF_vars(measureSends) /\ SF_vars(measureReads) /\ WF_vars(measureTimesOut)
    /\ WF_vars(measureNothing)
    /\ WF_vars(sendPowerDown) /\ WF_vars(turnOffTimesOut) /\ WF_vars(turnOffAtOnce)
    /\ WF_vars(turnOnON) /\ WF_vars(turnOnManual)
    /\ WF_vars(timerDue) /\ WF_vars(started) /\ SF_vars(answer)

FairSpec == Spec /\ Fairness

-----------------------------------------------------------------------------
(* Properties *)

(* Types, with the bounds of the counts that outlive a wake-up.              *)
TypeOK ==
    /\ phase \in Phases /\ polled \in BOOLEAN
    /\ powerState \in PowerStates
    /\ object \in [manual : BOOLEAN, signal : BOOLEAN, turning : BOOLEAN,
                   turnOffWasCalled : BOOLEAN, buttonPushed : BOOLEAN,
                   turnOnCounter : 0 .. TurnOnCounter + 1]
    /\ statics \in [turnOffCounter : 0 .. MaxCount + 1, turningPower : BOOLEAN,
                    signalTurningOn : BOOLEAN, measureReady : BOOLEAN,
                    rebootReady : BOOLEAN, offReady : BOOLEAN, hard : BOOLEAN,
                    retryCounter : 0 .. MaxTries + 1]
    /\ timer \in {"stopped", "running", "due"}
    /\ key \in BOOLEAN /\ supply \in BOOLEAN
    /\ input \in Seq(Lines) /\ Len(input) <= MaxLines
    /\ modem \in {"off", "starting", "on"}
    /\ pending \in Seq({"AT+CBC", "AT+QPOWD"}) /\ Len(pending) <= MaxPending
    /\ announced \in BOOLEAN /\ leftover \in BOOLEAN
    /\ presses \in 0 .. MaxPresses /\ failures \in 0 .. MaxFailures

(* When turnOff() has returned true, by whichever of its ways, the modem is  *)
(* off, and neither a late answer nor a press of the button starts it again  *)
(* before turnOn() is called: LoRa may transmit.                             *)
OffIsOff == phase = "resting" => modem = "off"

(* A running modem in PowerONState loses its supply only if it said it was   *)
(* going down since it started (or before, and nobody read the line), or     *)
(* after MAX_TRIES attempts.                                                 *)
OrderlyShutdown ==
    [][powerState = "PowerONState" /\ modem = "on" /\ supply /\ ~supply'
          => announced \/ leftover \/ statics.retryCounter > MaxTries]_vars

(* What the tracker is at ends: turning off, though the modem may never      *)
(* answer; waking, however the static pulses were left; and measuring, though *)
(* the modem may fail meanwhile, be started again and have lost the command,  *)
(* unless it is off by its user's wish, or since LoRa in a pursuit, which     *)
(* starts the next cycle without waking it.                                   *)
PhasesEnd ==
    /\ phase = "turning off" ~> phase # "turning off"
    /\ phase = "waking" ~> phase = "measuring"
    /\ phase = "measuring" ~> (phase = "working" \/ powerState = "ManualPowerOFFState")
=============================================================================
