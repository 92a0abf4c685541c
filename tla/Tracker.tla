------------------------------- MODULE Tracker -------------------------------
(***************************************************************************)
(* The tracker's main state machine: Tracker::update() calls the handlers  *)
(* of the current state object for ever, and every report (one per         *)
(* wake-up) is measured, formatted, sent over the mobile network or LoRa,  *)
(* saved to or reloaded from the EEPROM by it.                             *)
(*                                                                         *)
(* One action is one call of a handler that changes state; the calls that  *)
(* only wait for a peripheral leave every variable alone.  update() calls  *)
(* the handlers in a fixed order; here they interleave freely, which adds  *)
(* behaviours and removes none.  The peripherals are abstracted to the     *)
(* answers they give, the measured values to the number of the wake-up     *)
(* ("cycle") that measured them.                                           *)
(***************************************************************************)
EXTENDS Naturals, Sequences, SequencesExt, ReportCodec, ServerReply

CONSTANTS
    MaxCycles,    \* bound on the number of wake-ups
    MaxResets,    \* bound on the number of watchdog restarts
    Capacity,     \* number of reports the EEPROM holds
    ServerModes,  \* operation modes the server may order
    Faults        \* what the environment may do besides losing messages

Modes == {"NORMAL", "PURSUIT", "SILENT"}

FaultKinds == {"no_fix",       \* the GNSS receiver finds no position
               "power_loss",   \* the modem drops its power status line
               "button",       \* the user presses the power button
               "memory"}       \* a stored report comes back unreadable

ASSUME ParametersAssumption ==
    /\ MaxCycles \in Nat \ {0}
    /\ MaxResets \in Nat
    /\ Capacity \in Nat
    /\ ServerModes \subseteq Modes
    /\ Faults \subseteq FaultKinds

-----------------------------------------------------------------------------
(* Statuses: the trackerStatus_t a state object is created with.  LORA_     *)
(* UNAVAILABLE_ is left out of the longer names.                            *)

ConnectStatuses == {"GNSS_OBTAIN", "GNSS_UNAVAILABLE"}
LoRaStatuses == {"GNSS_OBTAIN_TRYING_LORA", "GNSS_UNAVAILABLE_TRYING_LORA"}
OnlineStatuses == {"GNSS_OBTAIN_CONNECTED", "GNSS_UNAVAILABLE_CONNECTED"}
ReloadStatuses == {"GNSS_LOADED", "IMU_LOADED"}
SavingStatuses == {"GNSS_OBTAIN_SAVING", "GNSS_OBTAIN_CONNECTED_SAVING",
                   "GNSS_UNAVAILABLE_CONNECTED_SAVING",
                   "GATHERED_INERTIAL_INFO_SAVING"}
Statuses == ConnectStatuses \union LoRaStatuses \union OnlineStatuses
            \union ReloadStatuses \union SavingStatuses
            \union {"GATHERING_INERTIAL_INFO", "NONE"}

StateNames ==
    {"CalibratingInertialSensor", "SensingBatteryStatus",
     "GettingGNSSPosition", "ConnectingToMobileNetwork",
     "GatheringCellInformation", "GatheringInertialData",
     "FormattingMessage", "ExchangingMessages", "ExchangingLoRaMessages",
     "SavingMessage", "LoadingMessage", "GoingToSleep", "Slepping"}

PowerStates == {"POWER_OFF", "POWER_ON", "MANUAL_POWER_OFF"}

(* States whose updatePowerStatus() polls the modem's power. *)
PollingStates == StateNames \ {"CalibratingInertialSensor",
    "GatheringInertialData", "ExchangingLoRaMessages", "SavingMessage",
    "LoadingMessage"}

-----------------------------------------------------------------------------
(* Reports.  A measured value is represented by the cycle that measured it, *)
(* so a report is its kind and the origin of every field it carries.        *)

Fields == {"event", "battery", "gnss", "cell", "band", "neighbors",
           "imu", "samples"}

CommonFields == {"event", "battery", "imu"}

FieldsOf == [MNGNSS   |-> CommonFields \union {"gnss", "cell", "band"},
             MNMN     |-> CommonFields \union {"cell", "band", "neighbors"},
             GNSS     |-> CommonFields \union {"gnss"},
             IMU      |-> CommonFields \union {"samples"},
             LORAGNSS |-> CommonFields \union {"gnss"},
             LORALORA |-> CommonFields]

Kinds == DOMAIN FieldsOf
StoredKinds == {"MNGNSS", "MNMN", "GNSS", "IMU"}

(* A stored report comes back with all its fields but the band, and in an    *)
(* MNGNSS report the inertial values: what the texts of ReportCodec restore. *)
ASSUME FieldsComeBack ==
    \A kind \in StoredKinds : \A f \in FieldsOf[kind] \ {"band"} :
        f \in RestoredParts[kind] \/ (kind = "MNGNSS" /\ f = "imu")

Garbage == 0    \* a value nobody measured: unset, or read from the wrong place
Dangling == MaxCycles + 1    \* of the band: the pointer to its buffer is lost

Origins == 0 .. MaxCycles + 1

Reports == UNION {[kind : {k}, from : [FieldsOf[k] -> Origins]] : k \in Kinds}
NoReport == [kind |-> "NONE", from |-> <<>>]

(* The wake-up a report belongs to is the one that measured its battery. *)
IdOf(report) == report.from["battery"]

(* What a message's hash stands for: its report and its place in the chain. *)
Genesis == [of |-> 0, seq |-> 0]
Hashes == [of : Origins, seq : Nat]

(* formatMessage(): what each status is formatted as, and who takes it. *)
FormatOf ==
    [GNSS_OBTAIN_CONNECTED      |-> [kind |-> "MNGNSS", next |-> "ExchangingMessages"],
     GNSS_UNAVAILABLE_CONNECTED |-> [kind |-> "MNMN",   next |-> "ExchangingMessages"],
     GNSS_LOADED                |-> [kind |-> "GNSS",   next |-> "ExchangingMessages"],
     IMU_LOADED                 |-> [kind |-> "IMU",    next |-> "ExchangingMessages"],
     GNSS_OBTAIN_TRYING_LORA |->
        [kind |-> "LORAGNSS", next |-> "ExchangingLoRaMessages"],
     GNSS_UNAVAILABLE_TRYING_LORA |->
        [kind |-> "LORALORA", next |-> "ExchangingLoRaMessages"],
     GNSS_OBTAIN_CONNECTED_SAVING |->
        [kind |-> "MNGNSS", next |-> "SavingMessage"],
     GNSS_UNAVAILABLE_CONNECTED_SAVING |->
        [kind |-> "MNMN", next |-> "SavingMessage"],
     GNSS_OBTAIN_SAVING            |-> [kind |-> "GNSS", next |-> "SavingMessage"],
     GATHERED_INERTIAL_INFO_SAVING |-> [kind |-> "IMU",  next |-> "SavingMessage"]]

(* Mutant: a GNSS report continues with the status of a fresh fix. *)
ReloadedStatus_Fresh == [MNGNSS |-> "GNSS_OBTAIN_CONNECTED",
                         MNMN   |-> "GNSS_UNAVAILABLE_CONNECTED",
                         GNSS   |-> "GNSS_OBTAIN",
                         IMU    |-> "IMU_LOADED"]

(* parseDecryptedMessage(): the status a reloaded report continues with. *)
ReloadedStatus == [MNGNSS |-> "GNSS_OBTAIN_CONNECTED",
                   MNMN   |-> "GNSS_UNAVAILABLE_CONNECTED",
                   GNSS   |-> "GNSS_LOADED",
                   IMU    |-> "IMU_LOADED"]

(* Mutant: the remapping of GNSS_LOADED is forgotten, as IMU_LOADED's is. *)
UnsentStatus_Forgotten ==
    [GNSS_OBTAIN_CONNECTED      |-> "GNSS_OBTAIN_CONNECTED_SAVING",
     GNSS_UNAVAILABLE_CONNECTED |-> "GNSS_UNAVAILABLE_CONNECTED_SAVING",
     GNSS_LOADED                |-> "GNSS_LOADED",
     IMU_LOADED                 |-> "IMU_LOADED"]

(* exchangeMessages(): the status an unsent report is formatted again with. *)
UnsentStatus ==
    [GNSS_OBTAIN_CONNECTED      |-> "GNSS_OBTAIN_CONNECTED_SAVING",
     GNSS_UNAVAILABLE_CONNECTED |-> "GNSS_UNAVAILABLE_CONNECTED_SAVING",
     GNSS_LOADED                |-> "GNSS_OBTAIN_SAVING",
     IMU_LOADED                 |-> "IMU_LOADED"]

-----------------------------------------------------------------------------
VARIABLES
    state,       \* class of *currentState
    status,      \* currentStatus of that object, NONE when it has none
    mode,        \* currentOperationMode
    power,       \* state of the modem's PowerManager
    attach,      \* cycle in which the current pass through the connection
                 \* states began, 0 when it is in ConnectionUnavailableState
    cycle,       \* number of wake-ups so far, the current one included
    data,        \* origin of the values in the tracker's data objects
    message,     \* content of formattedMessage
    memory,      \* reports in the EEPROM, last in on top
    seq,         \* sequenceMessageNumber
    prevHash,    \* prevChainHash
    currHash,    \* currChainHash
    resets       \* number of restarts so far

(* History variables: read by properties only. *)
VARIABLES
    acked,       \* hashes whose success reply was decoded, since the start
    delivered,   \* reports that reached the server or the gateway
    given_up     \* reports the tracker dropped without knowing them delivered

machine == <<state, status, mode, power, attach, cycle, data, message>>
chain == <<seq, prevHash, currHash>>
history == <<acked, delivered, given_up>>
vars == <<machine, memory, chain, resets, history>>

NothingMeasured(c) == [[f \in Fields |-> Garbage] EXCEPT !["event"] = c]

Init ==
    /\ state = "CalibratingInertialSensor" /\ status = "NONE"
    /\ mode = "NORMAL"
    /\ power = "POWER_OFF"
    /\ attach = 0
    /\ cycle = 1
    /\ data = NothingMeasured(1)
    /\ message = NoReport
    /\ memory = <<>>
    /\ seq = 0 /\ prevHash = Genesis /\ currHash = Genesis
    /\ resets = 0
    /\ acked = <<>> /\ delivered = {} /\ given_up = {}

changeState(name, newStatus) == state' = name /\ status' = newStatus

(* The current report gives up its place in the tracker: it is accounted    *)
(* for as delivered if it got through, and as given up otherwise.           *)
Settle(arrived) ==
    /\ delivered' = IF arrived THEN delivered \union {IdOf(message)} ELSE delivered
    /\ given_up' = IF arrived THEN given_up ELSE given_up \union {IdOf(message)}

-----------------------------------------------------------------------------
(* CalibratingInertialSensor *)

calibrateIMU ==
    /\ state = "CalibratingInertialSensor"
    /\ changeState("SensingBatteryStatus", "NONE")
    /\ UNCHANGED <<mode, power, attach, cycle, data, message,
                   memory, chain, resets, history>>

(* updatePowerStatus() of every polling state.  A call may change nothing.  *)
startStopUpdate ==
    /\ state \in PollingStates
    /\ power' \in {power}
         \union (IF power = "POWER_OFF" THEN {"POWER_ON"} ELSE {})
         \union (IF power = "POWER_ON" /\ "power_loss" \in Faults
                 THEN {"POWER_OFF"} ELSE {})
         \union (IF power = "POWER_ON" /\ "button" \in Faults
                 THEN {"MANUAL_POWER_OFF"} ELSE {})
         \union (IF power = "MANUAL_POWER_OFF" /\ "button" \in Faults
                 THEN {"POWER_ON"} ELSE {})
    /\ UNCHANGED <<state, status, mode, attach, cycle, data, message,
                   memory, chain, resets, history>>

(* SensingBatteryStatus: only PowerONState::measureBattery() ever succeeds. *)
measureBattery ==
    /\ state = "SensingBatteryStatus"
    /\ power = "POWER_ON"
    /\ data' = [data EXCEPT !["battery"] = cycle]
    /\ changeState("GettingGNSSPosition", "NONE")
    /\ UNCHANGED <<mode, power, attach, cycle, message,
                   memory, chain, resets, history>>

(* GettingGNSSPosition *)
obtainGNSSPosition ==
    /\ state = "GettingGNSSPosition"
    /\ \/ /\ power = "POWER_ON"                   \* CONNECTION_OBTAIN
          /\ data' = [data EXCEPT !["gnss"] = cycle]
          /\ IF mode = "SILENT"
             THEN changeState("FormattingMessage", "GNSS_OBTAIN_SAVING")
             ELSE changeState("ConnectingToMobileNetwork", "GNSS_OBTAIN")
       \/ /\ "no_fix" \in Faults \/ power # "POWER_ON"  \* CONNECTION_UNAVAILABLE
          /\ UNCHANGED data
          /\ IF mode = "SILENT"
             THEN changeState("GatheringInertialData", "GATHERING_INERTIAL_INFO")
             ELSE changeState("ConnectingToMobileNetwork", "GNSS_UNAVAILABLE")
    /\ UNCHANGED <<mode, power, attach, cycle, message,
                   memory, chain, resets, history>>

-----------------------------------------------------------------------------
(* ConnectingToMobileNetwork: three outcomes of one handler. *)

(* The chain of connection states reaches ConnectedState.  It fills the cell *)
(* information as it goes; after an earlier failure it resumes where it      *)
(* stopped, so the oldest values are those of the pass's first cycle.        *)
connected ==
    /\ state = "ConnectingToMobileNetwork"
    /\ status \in ConnectStatuses
    /\ power = "POWER_ON"
    /\ attach' = IF attach = 0 THEN cycle ELSE attach
    /\ data' = [data EXCEPT !["cell"] = attach',
                            !["band"] = IF data["band"] = Dangling THEN Dangling
                                        ELSE attach']
    /\ IF status = "GNSS_OBTAIN"
       THEN changeState("GatheringInertialData", "GNSS_OBTAIN_CONNECTED")
       ELSE changeState("GatheringCellInformation", "NONE")
    /\ UNCHANGED <<mode, power, cycle, message, memory, chain, resets, history>>

(* A connection state exhausts its attempts; its object stays in place.     *)
(* turnOff() is called once and its result ignored: it completes at once     *)
(* except from PowerONState.                                                 *)
connectionFailed ==
    /\ state = "ConnectingToMobileNetwork"
    /\ status \in ConnectStatuses
    /\ attach' \in {attach, IF attach = 0 THEN cycle ELSE attach}
    /\ power' \in {"MANUAL_POWER_OFF"}
         \union (IF power = "POWER_ON" THEN {"POWER_ON"} ELSE {})
    /\ status' = IF status = "GNSS_OBTAIN" THEN "GNSS_OBTAIN_TRYING_LORA"
                                           ELSE "GNSS_UNAVAILABLE_TRYING_LORA"
    /\ UNCHANGED <<state, mode, cycle, data, message,
                   memory, chain, resets, history>>

(* Mutant: goes on without waiting for turnOff(). *)
modemTurnedOff_NoWait ==
    /\ state = "ConnectingToMobileNetwork"
    /\ status \in LoRaStatuses
    /\ changeState("GatheringInertialData", status)
    /\ UNCHANGED <<mode, power, attach, cycle, data, message,
                   memory, chain, resets, history>>

(* turnOff() is repeated until it completes. *)
modemTurnedOff ==
    /\ state = "ConnectingToMobileNetwork"
    /\ status \in LoRaStatuses
    /\ power' = "MANUAL_POWER_OFF"
    /\ changeState("GatheringInertialData", status)
    /\ UNCHANGED <<mode, attach, cycle, data, message,
                   memory, chain, resets, history>>

(* GatheringCellInformation *)
obtainNeighborCellsInformation ==
    /\ state = "GatheringCellInformation"
    /\ data' = [data EXCEPT !["neighbors"] = cycle]
    /\ changeState("GatheringInertialData", "GNSS_UNAVAILABLE_CONNECTED")
    /\ UNCHANGED <<mode, power, attach, cycle, message,
                   memory, chain, resets, history>>

(* GatheringInertialData: one measurement, or one and ten samples. *)
obtainInertialMeasures ==
    /\ state = "GatheringInertialData"
    /\ IF status = "GATHERING_INERTIAL_INFO"
       THEN /\ data' = [data EXCEPT !["imu"] = cycle, !["samples"] = cycle]
            /\ changeState("FormattingMessage", "GATHERED_INERTIAL_INFO_SAVING")
       ELSE /\ data' = [data EXCEPT !["imu"] = cycle, !["samples"] = Garbage]
            /\ changeState("FormattingMessage", status)
    /\ UNCHANGED <<mode, power, attach, cycle, message,
                   memory, chain, resets, history>>

-----------------------------------------------------------------------------
(* Mutant: a message that is sent again keeps the hash it had. *)
formatMessage_HashKept ==
    /\ state = "FormattingMessage"
    /\ status \in DOMAIN FormatOf
    /\ LET to == FormatOf[status]
       IN  /\ message' = [kind |-> to.kind,
                          from |-> [f \in FieldsOf[to.kind] |-> data[f]]]
           /\ currHash' = IF status \in OnlineStatuses
                          THEN [of |-> data["battery"], seq |-> seq]
                          ELSE currHash
           /\ changeState(to.next,
                          IF to.next = "SavingMessage" THEN "NONE" ELSE status)
    /\ UNCHANGED <<mode, power, attach, cycle, data,
                   memory, seq, prevHash, resets, history>>

(* addMetaData(): the hash of the report together with its sequence number    *)
(* and the previous hash, kept by setCurrentHashChain().                      *)
addMetaData == [of |-> data["battery"], seq |-> seq]

(* FormattingMessage.  Only messages for the mobile network get meta data.    *)
formatMessage ==
    /\ state = "FormattingMessage"
    /\ status \in DOMAIN FormatOf                   \* default: return
    /\ LET to == FormatOf[status]
       IN  /\ message' = [kind |-> to.kind,
                          from |-> [f \in FieldsOf[to.kind] |-> data[f]]]
           /\ currHash' = IF to.next = "ExchangingMessages"
                          THEN addMetaData
                          ELSE currHash
           /\ changeState(to.next,
                          IF to.next = "SavingMessage" THEN "NONE" ELSE status)
    /\ UNCHANGED <<mode, power, attach, cycle, data,
                   memory, seq, prevHash, resets, history>>

-----------------------------------------------------------------------------
(* ExchangingMessages.  Every final result makes CellularModule put the      *)
(* connection and the transceiver back to their Unavailable states.          *)

InExchange == /\ state = "ExchangingMessages"
              /\ status \in OnlineStatuses \union ReloadStatuses

(* The modes a reply may leave the tracker in. *)
ModesAfterReply ==
    {mode} \union (ServerModes \intersect ModesOrdered)

(* Mutant: sequence number without hash chain. *)
replyAccepted_NoHash ==
    /\ InExchange
    /\ power = "POWER_ON"
    /\ seq' = seq + 1
    /\ mode' \in ModesAfterReply
    /\ attach' = 0
    /\ changeState("LoadingMessage", "NONE")
    /\ acked' = Append(acked, currHash)
    /\ Settle(TRUE)
    /\ UNCHANGED <<power, cycle, data, message, memory, prevHash, currHash, resets>>

(* Mutant: a reply without a latency is treated as a corrupted one. *)
replyAccepted_SavedAgain ==
    /\ InExchange
    /\ power = "POWER_ON"
    /\ prevHash' = currHash
    /\ seq' = seq + 1
    /\ mode' \in ModesAfterReply
    /\ attach' = 0
    /\ \/ changeState("LoadingMessage", "NONE")
       \/ changeState("FormattingMessage", UnsentStatus[status])
    /\ acked' = Append(acked, currHash)
    /\ Settle(TRUE)
    /\ UNCHANGED <<power, cycle, data, message, memory, currHash, resets>>

(* SEND_OK, and the reply decodes to SUCS true: the chain moves on, and the  *)
(* reply may order a mode.                                                   *)
replyAccepted ==
    /\ InExchange
    /\ power = "POWER_ON"
    /\ prevHash' = currHash                         \* progressOnHashChain
    /\ seq' = seq + 1                               \* increaseSequenceNumber
    /\ mode' \in ModesAfterReply
    /\ attach' = 0
    /\ changeState("LoadingMessage", "NONE")
    /\ acked' = Append(acked, currHash)
    /\ Settle(TRUE)
    /\ UNCHANGED <<power, cycle, data, message, memory, currHash, resets>>

(* SEND_OK, but no reply was read: the tracker goes on to the next report.   *)
noReplyRead ==
    /\ InExchange
    /\ power = "POWER_ON"
    /\ attach' = 0
    /\ changeState("LoadingMessage", "NONE")
    /\ \E arrived \in BOOLEAN : Settle(arrived)
    /\ UNCHANGED <<mode, power, cycle, data, message, memory, chain, resets, acked>>

(* The reply is undecodable or says no, or nothing could be sent.  The       *)
(* server may have taken the message all the same.                           *)
exchangeFailed ==
    /\ InExchange
    /\ attach' = 0
    /\ changeState("FormattingMessage", UnsentStatus[status])
    /\ \E arrived \in BOOLEAN :
          delivered' = IF arrived THEN delivered \union {IdOf(message)} ELSE delivered
    /\ UNCHANGED <<mode, power, cycle, data, message, memory, chain, resets,
                   acked, given_up>>

(* ExchangingLoRaMessages: an ACK with the expected number. *)
loRaAcknowledged ==
    /\ state = "ExchangingLoRaMessages"
    /\ changeState("GoingToSleep", "NONE")
    /\ \E arrived \in BOOLEAN : Settle(arrived)
    /\ UNCHANGED <<mode, power, attach, cycle, data, message,
                   memory, chain, resets, acked>>

(* Mutant: the report is not saved when LoRa fails too. *)
loRaTimedOut_NotSaved ==
    /\ state = "ExchangingLoRaMessages"
    /\ changeState("GoingToSleep", "NONE")
    /\ \E arrived \in BOOLEAN :
          delivered' = IF arrived THEN delivered \union {IdOf(message)} ELSE delivered
    /\ UNCHANGED <<mode, power, attach, cycle, data, message,
                   memory, chain, resets, acked, given_up>>

(* The last of five time-outs.  The gateway may have taken the message. *)
loRaTimedOut ==
    /\ state = "ExchangingLoRaMessages"
    /\ IF status = "GNSS_OBTAIN_TRYING_LORA"
       THEN changeState("FormattingMessage", "GNSS_OBTAIN_SAVING")
       ELSE changeState("GatheringInertialData", "GATHERING_INERTIAL_INFO")
    /\ \E arrived \in BOOLEAN :
          delivered' = IF arrived THEN delivered \union {IdOf(message)} ELSE delivered
    /\ UNCHANGED <<mode, power, attach, cycle, data, message,
                   memory, chain, resets, acked, given_up>>

-----------------------------------------------------------------------------
(* Mutant: written at the start of the EEPROM, before the older reports. *)
saveMessage_AtStart ==
    /\ state = "SavingMessage"
    /\ IF Len(memory) < Capacity
       THEN memory' = <<message>> \o memory /\ UNCHANGED given_up
       ELSE given_up' = given_up \union {IdOf(message)} /\ UNCHANGED memory
    /\ changeState("GoingToSleep", "NONE")
    /\ UNCHANGED <<mode, power, attach, cycle, data, message,
                   chain, resets, acked, delivered>>

(* SavingMessage: PUSHOK, or NOMEMORY when the EEPROM is full. *)
saveMessage ==
    /\ state = "SavingMessage"
    /\ IF Len(memory) < Capacity
       THEN memory' = Append(memory, message) /\ UNCHANGED given_up
       ELSE given_up' = given_up \union {IdOf(message)} /\ UNCHANGED memory
    /\ changeState("GoingToSleep", "NONE")
    /\ UNCHANGED <<mode, power, attach, cycle, data, message,
                   chain, resets, acked, delivered>>

(* LoadingMessage: EMPTY. *)
nothingToLoad ==
    /\ state = "LoadingMessage"
    /\ memory = <<>>
    /\ changeState("GoingToSleep", "NONE")
    /\ UNCHANGED <<mode, power, attach, cycle, data, message,
                   memory, chain, resets, history>>

(* POPPEDSTRINGOK: what its parser recovers of the report replaces the values *)
(* of the data objects.  Once the band's pointer dangles, nothing mends it.   *)
Parsed(report) ==
    [f \in Fields |->
        IF f = "band" /\ (data[f] = Dangling \/ f \in Parsers[report.kind].dangling)
        THEN Dangling
        ELSE IF f \notin FieldsOf[report.kind] THEN data[f]
        ELSE IF f \in RestoredParts[report.kind] THEN report.from[f]
        ELSE Garbage]

loadMessage ==
    /\ state = "LoadingMessage"
    /\ memory # <<>>
    /\ memory' = Front(memory)
    /\ message' = Last(memory)
    /\ data' = Parsed(Last(memory))
    /\ changeState("FormattingMessage", ReloadedStatus[Last(memory).kind])
    /\ UNCHANGED <<mode, power, attach, cycle, chain, resets, history>>

(* POPPEDSTRINGOK, but no known prefix: TRACKER_STATUS_PARSE_ERROR. *)
unreadableMessage ==
    /\ state = "LoadingMessage"
    /\ memory # <<>>
    /\ "memory" \in Faults
    /\ memory' = Front(memory)
    /\ message' = NoReport
    /\ given_up' = given_up \union {IdOf(Last(memory))}
    /\ changeState("GoingToSleep", "NONE")
    /\ UNCHANGED <<mode, power, attach, cycle, data,
                   chain, resets, acked, delivered>>

-----------------------------------------------------------------------------
(* updateMovementEvent(): the event the next report will carry. *)
updateMovementEvent == data' = [data EXCEPT !["event"] = cycle + 1]

(* Mutant: the movement event is not updated. *)
pursue_OldEvent ==
    /\ state = "GoingToSleep"
    /\ mode = "PURSUIT"
    /\ cycle < MaxCycles
    /\ cycle' = cycle + 1
    /\ changeState("SensingBatteryStatus", "NONE")
    /\ UNCHANGED <<mode, power, attach, data, message,
                   memory, chain, resets, history>>

(* GoingToSleep: in pursuit the next cycle starts at once ... *)
pursue ==
    /\ state = "GoingToSleep"
    /\ mode = "PURSUIT"
    /\ cycle < MaxCycles
    /\ updateMovementEvent
    /\ cycle' = cycle + 1
    /\ changeState("SensingBatteryStatus", "NONE")
    /\ UNCHANGED <<mode, power, attach, message, memory, chain, resets, history>>

(* ... otherwise the modem is turned off first. *)
goToSleep ==
    /\ state = "GoingToSleep"
    /\ mode # "PURSUIT"
    /\ power' = "MANUAL_POWER_OFF"
    /\ changeState("Slepping", "NONE")
    /\ UNCHANGED <<mode, attach, cycle, data, message,
                   memory, chain, resets, history>>

(* Slepping: the silent period may end, and turnOn() may complete; which    *)
(* timers and movements ask for that is WakeUp.tla's subject.               *)
awake ==
    /\ state = "Slepping"
    /\ updateMovementEvent
    /\ mode' \in {mode} \union (IF mode = "SILENT" THEN {"NORMAL"} ELSE {})
    /\ \/ /\ cycle < MaxCycles
          /\ power' = "POWER_ON"
          /\ cycle' = cycle + 1
          /\ changeState("SensingBatteryStatus", "NONE")
       \/ UNCHANGED <<power, cycle, state, status>>
    /\ UNCHANGED <<attach, message, memory, chain, resets, history>>

(* A watchdog restart: main() builds a new Tracker, whose constructor       *)
(* clears the EEPROM.                                                        *)
InHand == CASE state \in {"CalibratingInertialSensor", "SensingBatteryStatus"} -> cycle
            [] state \in {"LoadingMessage", "GoingToSleep", "Slepping"} -> 0
            [] OTHER -> data["battery"]

restart ==
    /\ resets < MaxResets
    /\ cycle < MaxCycles
    /\ resets' = resets + 1
    /\ cycle' = cycle + 1
    /\ given_up' = given_up \union ({InHand} \ {0})
                            \union {IdOf(memory[i]) : i \in DOMAIN memory}
    /\ state' = "CalibratingInertialSensor" /\ status' = "NONE"
    /\ mode' = "NORMAL" /\ power' = "POWER_OFF" /\ attach' = 0
    /\ data' = NothingMeasured(cycle')
    /\ message' = NoReport
    /\ memory' = <<>>
    /\ seq' = 0 /\ prevHash' = Genesis /\ currHash' = Genesis
    /\ acked' = <<>>
    /\ UNCHANGED delivered

-----------------------------------------------------------------------------
Next ==
    \/ calibrateIMU \/ startStopUpdate \/ measureBattery \/ obtainGNSSPosition
    \/ connected \/ connectionFailed \/ modemTurnedOff
    \/ obtainNeighborCellsInformation \/ obtainInertialMeasures \/ formatMessage
    \/ replyAccepted \/ noReplyRead \/ exchangeFailed
    \/ loRaAcknowledged \/ loRaTimedOut
    \/ saveMessage \/ nothingToLoad \/ loadMessage \/ unreadableMessage
    \/ pursue \/ goToSleep \/ awake \/ restart

Spec == Init /\ [][Next]_vars

(* main() calls update() for ever and update() calls every handler.  Fair are *)
(* the handlers whose wait the code bounds: the connection states and the    *)
(* list of neighbour cells count their attempts (ConnectingEnds), turnOff()   *)
(* cuts the supply after its own (PhasesEnd), formatting and pursuing wait     *)
(* for nothing, and the EEPROM ends unless it is full to its last byte        *)
(* (OperationsEnd).  Buttons, power losses and restarts are not owed.         *)
Fairness ==
    /\ WF_vars(connected \/ connectionFailed) /\ WF_vars(modemTurnedOff)
    /\ WF_vars(obtainNeighborCellsInformation) /\ WF_vars(formatMessage)
    /\ WF_vars(saveMessage)
    /\ WF_vars(nothingToLoad \/ loadMessage \/ unreadableMessage)
    /\ WF_vars(pursue) /\ WF_vars(goToSleep)

FairSpec == Spec /\ Fairness

(* What has to come from the peripherals besides, as the code awaits it        *)
(* without a bound: the inertial sensor's stability and samples, a modem that  *)
(* comes up and answers measureBattery(), the commands that turn the receiver  *)
(* on and off, and DeactivatePDP, and a LoRa radio for which begin() succeeds. *)
(* An assumption about the environment, which only the two violations below    *)
(* make, so that what they show is the tracker's own doing.                    *)
PeripheralsAnswer ==
    /\ WF_vars(calibrateIMU) /\ WF_vars(startStopUpdate)
    /\ WF_vars(measureBattery) /\ WF_vars(obtainGNSSPosition)
    /\ WF_vars(obtainInertialMeasures)
    /\ WF_vars(replyAccepted \/ noReplyRead \/ exchangeFailed)
    /\ WF_vars(loRaAcknowledged \/ loRaTimedOut)

AnsweringSpec == FairSpec /\ PeripheralsAnswer

-----------------------------------------------------------------------------
(* Properties *)

StoredIds == {IdOf(memory[i]) : i \in DOMAIN memory}

(* Types; the EEPROM holds whole reports only, and no more than fit.         *)
TypeOK ==
    /\ state \in StateNames /\ status \in Statuses
    /\ mode \in Modes /\ power \in PowerStates
    /\ cycle \in 1 .. MaxCycles /\ attach \in 0 .. MaxCycles
    /\ data \in [Fields -> Origins]
    /\ message \in Reports \union {NoReport}
    /\ memory \in Seq(Reports) /\ Len(memory) <= Capacity
    /\ seq \in Nat /\ prevHash \in Hashes /\ currHash \in Hashes
    /\ resets \in 0 .. MaxResets
    /\ acked \in Seq(Hashes)
    /\ delivered \subseteq Origins /\ given_up \subseteq Origins

(* A state object is only ever created with a status its handler has a       *)
(* branch for: FormattingMessage's switch would otherwise take its default   *)
(* for ever, and ExchangingMessages none of its branches.                    *)
StatusFits ==
    CASE state = "ConnectingToMobileNetwork" -> status \in ConnectStatuses \union LoRaStatuses
      [] state = "GatheringInertialData" ->
            status \in OnlineStatuses \union LoRaStatuses \union {"GATHERING_INERTIAL_INFO"}
      [] state = "FormattingMessage" -> status \in DOMAIN FormatOf
      [] state = "ExchangingMessages" -> status \in OnlineStatuses \union ReloadStatuses
      [] state = "ExchangingLoRaMessages" -> status \in LoRaStatuses
      [] OTHER -> status = "NONE"

(* What is sent or saved is the report in hand, and the hash that will be    *)
(* chained on if the server confirms it was made for this report at this     *)
(* place in the chain, however often the report was saved and reloaded;      *)
(* LoRa's messages, which cannot be parsed back, never reach the EEPROM.     *)
MessageInHand ==
    /\ state \in {"ExchangingMessages", "ExchangingLoRaMessages", "SavingMessage"} =>
          message # NoReport /\ IdOf(message) = data["battery"]
    /\ state = "ExchangingMessages" => currHash = [of |-> data["battery"], seq |-> seq]
    /\ state = "SavingMessage" => message.kind \in StoredKinds
    /\ \A i \in DOMAIN memory : memory[i].kind \in StoredKinds

(* prevChainHash is the hash of the last message the server confirmed,       *)
(* sequenceMessageNumber how many it confirmed, and the message confirmed    *)
(* n-th carried number n - 1: saving, reloading and LoRa leave no gap and    *)
(* no fork in the chain on the tracker's side.                               *)
ChainFollowsAcks ==
    /\ seq = Len(acked)
    /\ prevHash = Last(<<Genesis>> \o acked)
    /\ \A i \in DOMAIN acked : acked[i].seq = i - 1

(* A report whose success reply was decoded is neither kept nor worked on    *)
(* again: it is never sent twice.                                            *)
AckedIsFinal ==
    \A i \in DOMAIN acked : acked[i].of \notin StoredIds \union {InHand}

(* The EEPROM holds each report once, newest on top, and the report in hand  *)
(* is newer than all of them: putting a reloaded report back restores the    *)
(* stack it came from.                                                       *)
NewestOnTop ==
    /\ \A i, j \in DOMAIN memory : i < j => IdOf(memory[i]) < IdOf(memory[j])
    /\ InHand # 0 => \A i \in DOMAIN memory : IdOf(memory[i]) < InHand

(* No report slips away: whatever path a cycle takes, its report is in hand, *)
(* stored, has reached its addressee, or was dropped where the code says so  *)
(* (NOMEMORY, unreadable, restart, an answer that never came).               *)
Accounted ==
    1 .. cycle \subseteq {InHand} \union StoredIds \union delivered \union given_up

(* A report describes one moment: its battery, event, position fix,          *)
(* neighbour cells and samples, and (except in a report of kind GNSS, and in *)
(* an MNGNSS report whose inertial data did not survive the EEPROM) its      *)
(* inertial data come from the same wake-up, however many older reports were *)
(* loaded over the tracker's data objects since.                             *)
OneCycle(report) ==
    \A f \in FieldsOf[report.kind] :
        \/ f \in {"cell", "band"}
        \/ f = "imu" /\ report.kind = "GNSS"
        \/ f = "imu" /\ report.kind = "MNGNSS" /\ report.from[f] = Garbage
        \/ report.from[f] = IdOf(report)

OneCycleReports ==
    /\ message # NoReport => OneCycle(message)
    /\ \A i \in DOMAIN memory : OneCycle(memory[i])

(* The two radios are not used together: the LoRa exchange runs with the     *)
(* modem turned off (unless somebody presses the button).                    *)
LoRaWithModemOff ==
    state = "ExchangingLoRaMessages" => power = "MANUAL_POWER_OFF"

(* The states that wait for a peripheral for as long as it takes. *)
UnboundedWaits ==
    {"CalibratingInertialSensor", "SensingBatteryStatus", "GettingGNSSPosition",
     "GatheringInertialData", "ExchangingMessages", "ExchangingLoRaMessages"}

(* A wake-up ends, whatever was measured, sent, refused, saved or loaded, or  *)
(* the tracker stands still in a state whose peripheral it awaits without a    *)
(* bound.  It never goes on for ever from state to state instead, but for one  *)
(* report: a reloaded IMU report is sent again as often as it fails.           *)
CycleEndsOrWaits ==
    \/ state = "SensingBatteryStatus" ~> state = "GoingToSleep"
    \/ \E s \in UnboundedWaits : <>[](state = s)
    \/ <>[](status = "IMU_LOADED")

(* The tracker's handling of reports is what ReportLedger promises. *)
Ledger == INSTANCE ReportLedger WITH
              taken <- cycle,
              hand <- InHand,
              stack <- [i \in DOMAIN memory |-> IdOf(memory[i])],
              released <- (1 .. cycle) \ (StoredIds \union {InHand})

ImplementsLedger == Ledger!LSpec

-----------------------------------------------------------------------------
(* What comments in the code say of it, and it does not do. *)

(* Tracker.h: update() keeps "the Tracker's state machine" progressing, so a *)
(* cycle that starts ends.                                                   *)
CycleEnds == state = "SensingBatteryStatus" ~> state = "GoingToSleep"

(* ExchangingMessages.cpp: a report that could not be sent is formatted "in  *)
(* order to be saved in memory", so an exchange leads to the next report or  *)
(* to this one being saved, whichever kind of report it was and wherever it  *)
(* came from.                                                                *)
UnsentIsSaved ==
    state = "ExchangingMessages" ~> state \in {"LoadingMessage", "SavingMessage"}

(* LoadingMessage.h: parseMNGNSS() and its like parse what a stored report   *)
(* holds into the data objects, so a report that was loaded is the report    *)
(* that was saved.                                                           *)
LoadedAsSaved ==
    [][\A f \in Fields :
          /\ state = "LoadingMessage" /\ state' = "FormattingMessage"
          /\ f \in FieldsOf[message'.kind]
          => data'[f] = message'.from[f]]_vars
=============================================================================
