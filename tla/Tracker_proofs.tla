---------------------------- MODULE Tracker_proofs ----------------------------
(***************************************************************************)
(* Proofs about the tracker's state machine, for every number of wake-ups,  *)
(* every number of restarts, every EEPROM size and every set of faults.     *)
(***************************************************************************)
EXTENDS Tracker, TLAPS

(* Front and Last take a non-empty sequence apart. *)
LEMMA FrontLast ==
    ASSUME NEW S, NEW s \in Seq(S), s # <<>>
    PROVE  /\ Front(s) \in Seq(S)
           /\ Len(Front(s)) = Len(s) - 1
           /\ DOMAIN Front(s) = 1 .. Len(s) - 1 /\ DOMAIN s = 1 .. Len(s)
           /\ \A i \in 1 .. Len(s) - 1 : Front(s)[i] = s[i]
           /\ Last(s) = s[Len(s)]
           /\ Last(s) \in S
           /\ Len(s) \in Nat \ {0}
<1>1. Len(s) \in Nat \ {0} /\ DOMAIN s = 1 .. Len(s)
  <2>1. Len(s) # 0
    OBVIOUS
  <2> QED BY <2>1
<1>2. Last(s) = s[Len(s)] /\ Last(s) \in S
  BY <1>1 DEF Last
<1>3. /\ Front(s) \in Seq(S)
      /\ DOMAIN Front(s) = 1 .. Len(s) - 1
      /\ Len(Front(s)) = Len(s) - 1
      /\ \A i \in 1 .. Len(s) - 1 : Front(s)[i] = s[i]
  BY <1>1 DEF Front
<1> QED BY <1>1, <1>2, <1>3

(* Append adds its element after the others. *)
LEMMA AppendTo ==
    ASSUME NEW S, NEW s \in Seq(S), NEW e \in S
    PROVE  /\ Append(s, e) \in Seq(S)
           /\ Len(s) \in Nat
           /\ Len(Append(s, e)) = Len(s) + 1
           /\ \A i \in 1 .. Len(s) : Append(s, e)[i] = s[i]
           /\ Append(s, e)[Len(s) + 1] = e
  OBVIOUS

(* A report of any kind carries the battery, and only fields of the tracker. *)
LEMMA KindsOfReports ==
    /\ Kinds = {"MNGNSS", "MNMN", "GNSS", "IMU", "LORAGNSS", "LORALORA"}
    /\ \A k \in Kinds : FieldsOf[k] \subseteq Fields /\ "battery" \in FieldsOf[k]
  BY DEF Kinds, FieldsOf, CommonFields, Fields

(* The tables formatMessage() and parseDecryptedMessage() switch over. *)
LEMMA FormatTable ==
    ASSUME NEW s \in DOMAIN FormatOf
    PROVE  /\ FormatOf[s].kind \in Kinds
           /\ FormatOf[s].next \in {"ExchangingMessages", "ExchangingLoRaMessages",
                                    "SavingMessage"}
           /\ FormatOf[s].next = "ExchangingMessages"
                => s \in OnlineStatuses \union ReloadStatuses
           /\ FormatOf[s].next = "ExchangingLoRaMessages" => s \in LoRaStatuses
           /\ s \in Statuses
  BY KindsOfReports DEF FormatOf, OnlineStatuses, ReloadStatuses, LoRaStatuses,
        Statuses, SavingStatuses, ConnectStatuses

(* A reloaded or an unsent report is formatted again with a known status. *)
LEMMA StatusTables ==
    /\ \A k \in StoredKinds : ReloadedStatus[k] \in DOMAIN FormatOf
    /\ \A s \in OnlineStatuses \union ReloadStatuses : UnsentStatus[s] \in DOMAIN FormatOf
    /\ OnlineStatuses \union LoRaStatuses \union {"GATHERED_INERTIAL_INFO_SAVING"}
          \subseteq DOMAIN FormatOf
    /\ "GNSS_OBTAIN_SAVING" \in DOMAIN FormatOf
    /\ DOMAIN FormatOf \subseteq Statuses
    /\ "NONE" \in Statuses
  BY DEF FormatOf, OnlineStatuses, ReloadStatuses, LoRaStatuses, StoredKinds,
         ReloadedStatus, UnsentStatus, Statuses, SavingStatuses, ConnectStatuses

(* A report's origins are those of its kind's fields. *)
LEMMA ReportFields ==
    ASSUME NEW r \in Reports
    PROVE  /\ r.kind \in Kinds
           /\ r.from \in [FieldsOf[r.kind] -> Origins]
           /\ IdOf(r) \in Origins
  BY KindsOfReports DEF Reports, IdOf

-----------------------------------------------------------------------------
(* Types.  A report is settled or saved after it was formatted, so the       *)
(* statuses and the report in hand belong to the induction.                  *)

Typed == TypeOK /\ StatusFits /\ MessageInHand

(* The statuses, spelled out. *)
LEMMA StatusNames ==
    /\ Statuses = {"GNSS_OBTAIN", "GNSS_UNAVAILABLE", "GNSS_OBTAIN_TRYING_LORA",
                   "GNSS_UNAVAILABLE_TRYING_LORA", "GNSS_OBTAIN_CONNECTED",
                   "GNSS_UNAVAILABLE_CONNECTED", "GNSS_LOADED", "IMU_LOADED",
                   "GNSS_OBTAIN_SAVING", "GNSS_OBTAIN_CONNECTED_SAVING",
                   "GNSS_UNAVAILABLE_CONNECTED_SAVING",
                   "GATHERED_INERTIAL_INFO_SAVING", "GATHERING_INERTIAL_INFO",
                   "NONE"}
    /\ DOMAIN FormatOf = {"GNSS_OBTAIN_CONNECTED", "GNSS_UNAVAILABLE_CONNECTED",
                   "GNSS_LOADED", "IMU_LOADED", "GNSS_OBTAIN_TRYING_LORA",
                   "GNSS_UNAVAILABLE_TRYING_LORA", "GNSS_OBTAIN_CONNECTED_SAVING",
                   "GNSS_UNAVAILABLE_CONNECTED_SAVING", "GNSS_OBTAIN_SAVING",
                   "GATHERED_INERTIAL_INFO_SAVING"}
  BY DEF Statuses, ConnectStatuses, LoRaStatuses, OnlineStatuses,
         ReloadStatuses, SavingStatuses, FormatOf

(* The constructor establishes the types. *)
LEMMA TypedInit == Init => Typed
<1> SUFFICES ASSUME Init PROVE Typed
  OBVIOUS
<1>1. state \in StateNames /\ status \in Statuses
  BY StatusNames DEF Init, StateNames
<1>2. data \in [Fields -> Origins]
  <2>1. 0 \in Origins /\ 1 \in Origins
    BY ParametersAssumption DEF Origins
  <2> QED BY <2>1 DEF Init, NothingMeasured, Garbage
<1>3. Genesis \in Hashes
  BY ParametersAssumption DEF Genesis, Hashes, Origins
<1>4. TypeOK
  BY <1>1, <1>2, <1>3, ParametersAssumption
  DEF Init, TypeOK, Modes, PowerStates, Origins
<1>5. StatusFits /\ MessageInHand
  BY DEF Init, StatusFits, MessageInHand
<1> QED BY <1>4, <1>5 DEF Typed

(* The states and their statuses. *)
LEMMA StatusStep ==
    ASSUME Typed, [Next]_vars
    PROVE  state' \in StateNames /\ status' \in Statuses /\ StatusFits'
<1> USE StatusNames DEF Typed, TypeOK, StatusFits, StateNames, changeState
<1>1. CASE obtainGNSSPosition
  BY <1>1, StatusNames DEF ConnectStatuses, LoRaStatuses, OnlineStatuses,
     ReloadStatuses, obtainGNSSPosition
<1>2. CASE connected
  BY <1>2, StatusNames DEF ConnectStatuses, LoRaStatuses, OnlineStatuses,
     ReloadStatuses, connected
<1>3. CASE connectionFailed
  BY <1>3, StatusNames DEF ConnectStatuses, LoRaStatuses, OnlineStatuses,
     ReloadStatuses, connectionFailed
<1>4. CASE modemTurnedOff
  BY <1>4, StatusNames DEF ConnectStatuses, LoRaStatuses, OnlineStatuses,
     ReloadStatuses, modemTurnedOff
<1>5. CASE obtainNeighborCellsInformation
  BY <1>5, StatusNames DEF ConnectStatuses, LoRaStatuses, OnlineStatuses,
     ReloadStatuses, obtainNeighborCellsInformation
<1>6. CASE obtainInertialMeasures
  BY <1>6, StatusNames DEF ConnectStatuses, LoRaStatuses, OnlineStatuses,
     ReloadStatuses, obtainInertialMeasures
<1>7. CASE formatMessage
  BY <1>7, StatusNames, FormatTable DEF formatMessage
<1>8. CASE exchangeFailed
  BY <1>8, StatusNames, StatusTables DEF InExchange, exchangeFailed
<1>9. CASE loRaTimedOut
  BY <1>9, StatusNames DEF ConnectStatuses, LoRaStatuses, OnlineStatuses,
     ReloadStatuses, loRaTimedOut
<1>10. CASE loadMessage
  BY <1>10, StatusNames, StatusTables, FrontLast, SMTT(30) DEF MessageInHand,
     loadMessage
<1>11. CASE calibrateIMU \/ startStopUpdate \/ measureBattery \/
          replyAccepted \/ noReplyRead \/ loRaAcknowledged \/ saveMessage \/
          nothingToLoad \/ unreadableMessage \/ pursue \/ goToSleep \/ awake
          \/ restart
  BY <1>11 DEF calibrateIMU, startStopUpdate, measureBattery, replyAccepted,
         noReplyRead, loRaAcknowledged, saveMessage, nothingToLoad,
         unreadableMessage, pursue, goToSleep, awake, restart
<1>12. CASE UNCHANGED vars
  BY <1>12 DEF vars, machine, chain, history
<1> QED
  BY <1>1, <1>2, <1>3, <1>4, <1>5, <1>6, <1>7, <1>8, <1>9, <1>10, <1>11,
     <1>12 DEF Next

(* The mode, the power and the counters. *)
LEMMA ControlStep ==
    ASSUME Typed, [Next]_vars
    PROVE  /\ mode' \in Modes /\ power' \in PowerStates
          /\ cycle' \in 1 .. MaxCycles /\ attach' \in 0 .. MaxCycles
          /\ resets' \in 0 .. MaxResets
<1> USE ParametersAssumption DEF Typed, TypeOK, Modes, PowerStates, chain, history
<1>1. CASE startStopUpdate
  BY <1>1 DEF startStopUpdate
<1>2. CASE connected
  BY <1>2 DEF connected
<1>3. CASE connectionFailed
  BY <1>3 DEF connectionFailed
<1>4. CASE modemTurnedOff
  BY <1>4 DEF modemTurnedOff
<1>5. CASE replyAccepted
  BY <1>5 DEF replyAccepted, ModesAfterReply
<1>6. CASE pursue
  BY <1>6 DEF pursue
<1>7. CASE goToSleep
  BY <1>7 DEF goToSleep
<1>8. CASE awake
  BY <1>8 DEF awake
<1>9. CASE restart
  BY <1>9 DEF restart
<1>10. CASE calibrateIMU \/ measureBattery \/ obtainGNSSPosition \/
          obtainNeighborCellsInformation \/ obtainInertialMeasures \/
          formatMessage \/ noReplyRead \/ exchangeFailed \/ loRaAcknowledged
          \/ loRaTimedOut \/ saveMessage \/ nothingToLoad \/ loadMessage \/
          unreadableMessage
  BY <1>10, SMTT(30) DEF calibrateIMU, measureBattery, obtainGNSSPosition,
         obtainNeighborCellsInformation, obtainInertialMeasures,
         formatMessage, noReplyRead, exchangeFailed, loRaAcknowledged,
         loRaTimedOut, saveMessage, nothingToLoad, loadMessage,
         unreadableMessage
<1>11. CASE UNCHANGED vars
  BY <1>11 DEF vars, machine, chain, history
<1> QED
  BY <1>1, <1>2, <1>3, <1>4, <1>5, <1>6, <1>7, <1>8, <1>9, <1>10, <1>11 DEF Next

(* The origins of the values in the data objects. *)
LEMMA DataStep ==
    ASSUME Typed, [Next]_vars
    PROVE  data' \in [Fields -> Origins]
<1> USE ParametersAssumption DEF Typed, TypeOK
<1>1. CASE measureBattery
  <2>1. 0 \in Origins /\ cycle \in Origins /\ cycle + 1 \in Origins
    BY DEF Origins
  <2> QED BY <1>1, <2>1 DEF measureBattery
<1>2. CASE obtainGNSSPosition
  <2>1. 0 \in Origins /\ cycle \in Origins /\ cycle + 1 \in Origins
    BY DEF Origins
  <2> QED BY <1>2, <2>1 DEF obtainGNSSPosition
<1>3. CASE connected
  <2>1. attach' \in Origins
    BY <1>3 DEF connected, Origins
  <2> QED BY <1>3, <2>1 DEF connected
<1>4. CASE obtainNeighborCellsInformation
  <2>1. 0 \in Origins /\ cycle \in Origins /\ cycle + 1 \in Origins
    BY DEF Origins
  <2> QED BY <1>4, <2>1 DEF obtainNeighborCellsInformation
<1>5. CASE obtainInertialMeasures
  <2>1. 0 \in Origins /\ cycle \in Origins /\ cycle + 1 \in Origins
    BY DEF Origins
  <2> QED BY <1>5, <2>1 DEF obtainInertialMeasures, Garbage
<1>6. CASE loadMessage
  <2>1. Last(memory) \in Reports
    BY <1>6, FrontLast DEF loadMessage
  <2>2. Last(memory).from \in [FieldsOf[Last(memory).kind] -> Origins]
    BY <2>1, ReportFields
  <2>3. Garbage \in Origins /\ Dangling \in Origins
    BY DEF Garbage, Dangling, Origins
  <2>4. Parsed(Last(memory)) \in [Fields -> Origins]
    BY <2>2, <2>3 DEF Parsed
  <2> QED BY <1>6, <2>4 DEF loadMessage
<1>7. CASE pursue
  <2>1. 0 \in Origins /\ cycle \in Origins /\ cycle + 1 \in Origins
    BY DEF Origins
  <2> QED BY <1>7, <2>1 DEF pursue, updateMovementEvent
<1>8. CASE awake
  <2>1. 0 \in Origins /\ cycle \in Origins /\ cycle + 1 \in Origins
    BY DEF Origins
  <2> QED BY <1>8, <2>1 DEF awake, updateMovementEvent
<1>9. CASE restart
  <2>1. cycle' \in Origins /\ Garbage \in Origins
    BY <1>9 DEF restart, Origins, Garbage
  <2> QED BY <1>9, <2>1 DEF restart, NothingMeasured
<1>10. CASE calibrateIMU \/ startStopUpdate \/ connectionFailed \/
          modemTurnedOff \/ formatMessage \/ replyAccepted \/ noReplyRead \/
          exchangeFailed \/ loRaAcknowledged \/ loRaTimedOut \/ saveMessage
          \/ nothingToLoad \/ unreadableMessage \/ goToSleep
  BY <1>10 DEF calibrateIMU, startStopUpdate, connectionFailed,
         modemTurnedOff, formatMessage, replyAccepted, noReplyRead,
         exchangeFailed, loRaAcknowledged, loRaTimedOut, saveMessage,
         nothingToLoad, unreadableMessage, goToSleep
<1>11. CASE UNCHANGED vars
  BY <1>11 DEF vars, machine, chain, history
<1> QED
  BY <1>1, <1>2, <1>3, <1>4, <1>5, <1>6, <1>7, <1>8, <1>9, <1>10, <1>11 DEF Next

(* The formatted message. *)
LEMMA MessageStep ==
    ASSUME Typed, [Next]_vars
    PROVE  message' \in Reports \union {NoReport}
<1> USE DEF Typed, TypeOK
<1>1. CASE formatMessage
  <2> DEFINE k == FormatOf[status].kind
  <2>1. k \in Kinds /\ FieldsOf[k] \subseteq Fields
    BY <1>1, FormatTable, KindsOfReports DEF formatMessage
  <2>2. [f \in FieldsOf[k] |-> data[f]] \in [FieldsOf[k] -> Origins]
    BY <2>1
  <2>3. message' = [kind |-> k, from |-> [f \in FieldsOf[k] |-> data[f]]]
    BY <1>1 DEF formatMessage
  <2> QED BY <2>1, <2>2, <2>3 DEF Reports
<1>2. CASE loadMessage
  BY <1>2, FrontLast DEF loadMessage
<1>3. CASE unreadableMessage
  BY <1>3 DEF unreadableMessage
<1>4. CASE restart
  BY <1>4 DEF restart
<1>5. CASE calibrateIMU \/ startStopUpdate \/ measureBattery \/
          obtainGNSSPosition \/ connected \/ connectionFailed \/
          modemTurnedOff \/ obtainNeighborCellsInformation \/
          obtainInertialMeasures \/ replyAccepted \/ noReplyRead \/
          exchangeFailed \/ loRaAcknowledged \/ loRaTimedOut \/ saveMessage
          \/ nothingToLoad \/ pursue \/ goToSleep \/ awake
  BY <1>5 DEF calibrateIMU, startStopUpdate, measureBattery,
         obtainGNSSPosition, connected, connectionFailed, modemTurnedOff,
         obtainNeighborCellsInformation, obtainInertialMeasures,
         replyAccepted, noReplyRead, exchangeFailed, loRaAcknowledged,
         loRaTimedOut, saveMessage, nothingToLoad, pursue, goToSleep, awake
<1>6. CASE UNCHANGED vars
  BY <1>6 DEF vars, machine, chain, history
<1> QED
  BY <1>1, <1>2, <1>3, <1>4, <1>5, <1>6 DEF Next

(* The EEPROM. *)
LEMMA MemoryStep ==
    ASSUME Typed, [Next]_vars
    PROVE  memory' \in Seq(Reports) /\ Len(memory') <= Capacity
<1> USE ParametersAssumption DEF Typed, TypeOK
<1>1. CASE saveMessage
  <2>1. message \in Reports
    BY <1>1 DEF saveMessage, MessageInHand
  <2>2. CASE Len(memory) < Capacity
    BY <1>1, <2>1, <2>2, AppendTo, SMTT(30) DEF saveMessage
  <2>3. CASE ~ (Len(memory) < Capacity)
    BY <1>1, <2>3 DEF saveMessage
  <2> QED BY <2>2, <2>3
<1>2. CASE loadMessage
  BY <1>2, FrontLast, SMTT(30) DEF loadMessage
<1>3. CASE unreadableMessage
  BY <1>3, FrontLast, SMTT(30) DEF unreadableMessage
<1>4. CASE restart
  BY <1>4 DEF restart
<1>5. CASE calibrateIMU \/ startStopUpdate \/ measureBattery \/
          obtainGNSSPosition \/ connected \/ connectionFailed \/
          modemTurnedOff \/ obtainNeighborCellsInformation \/
          obtainInertialMeasures \/ formatMessage \/ replyAccepted \/
          noReplyRead \/ exchangeFailed \/ loRaAcknowledged \/ loRaTimedOut
          \/ nothingToLoad \/ pursue \/ goToSleep \/ awake
  BY <1>5 DEF calibrateIMU, startStopUpdate, measureBattery,
         obtainGNSSPosition, connected, connectionFailed, modemTurnedOff,
         obtainNeighborCellsInformation, obtainInertialMeasures,
         formatMessage, replyAccepted, noReplyRead, exchangeFailed,
         loRaAcknowledged, loRaTimedOut, nothingToLoad, pursue, goToSleep,
         awake
<1>6. CASE UNCHANGED vars
  BY <1>6 DEF vars, machine, chain, history
<1> QED
  BY <1>1, <1>2, <1>3, <1>4, <1>5, <1>6 DEF Next

(* The hash chain. *)
LEMMA ChainStep ==
    ASSUME Typed, [Next]_vars
    PROVE  /\ seq' \in Nat /\ prevHash' \in Hashes /\ currHash' \in Hashes
          /\ acked' \in Seq(Hashes)
<1> USE DEF Typed, TypeOK, chain, history
<1>1. CASE formatMessage
  <2>1. data["battery"] \in Origins
    BY DEF Fields
  <2> QED BY <1>1, <2>1 DEF formatMessage, addMetaData, Hashes
<1>2. CASE replyAccepted
  BY <1>2 DEF replyAccepted
<1>3. CASE noReplyRead
  BY <1>3 DEF noReplyRead
<1>4. CASE restart
  <2>1. Genesis \in Hashes
    BY ParametersAssumption DEF Genesis, Hashes, Origins
  <2> QED BY <1>4, <2>1 DEF restart
<1>5. CASE calibrateIMU \/ startStopUpdate \/ measureBattery \/
          obtainGNSSPosition \/ connected \/ connectionFailed \/
          modemTurnedOff \/ obtainNeighborCellsInformation \/
          obtainInertialMeasures \/ exchangeFailed \/ loRaAcknowledged \/
          loRaTimedOut \/ saveMessage \/ nothingToLoad \/ loadMessage \/
          unreadableMessage \/ pursue \/ goToSleep \/ awake
  BY <1>5 DEF calibrateIMU, startStopUpdate, measureBattery,
         obtainGNSSPosition, connected, connectionFailed, modemTurnedOff,
         obtainNeighborCellsInformation, obtainInertialMeasures,
         exchangeFailed, loRaAcknowledged, loRaTimedOut, saveMessage,
         nothingToLoad, loadMessage, unreadableMessage, pursue, goToSleep,
         awake
<1>6. CASE UNCHANGED vars
  BY <1>6 DEF vars, machine, chain, history
<1> QED
  BY <1>1, <1>2, <1>3, <1>4, <1>5, <1>6 DEF Next

(* Delivered and given up. *)
LEMMA HistoryStep ==
    ASSUME Typed, [Next]_vars
    PROVE  delivered' \subseteq Origins /\ given_up' \subseteq Origins
<1> USE DEF Typed, TypeOK, chain, history
<1>1. CASE replyAccepted
  <2>1. IdOf(message) \in Origins
    BY <1>1, ReportFields DEF replyAccepted, InExchange, MessageInHand
  <2> QED BY <1>1, <2>1 DEF replyAccepted, InExchange, Settle
<1>2. CASE noReplyRead
  <2>1. IdOf(message) \in Origins
    BY <1>2, ReportFields DEF noReplyRead, InExchange, MessageInHand
  <2> QED BY <1>2, <2>1 DEF noReplyRead, InExchange, Settle
<1>3. CASE exchangeFailed
  <2>1. IdOf(message) \in Origins
    BY <1>3, ReportFields DEF exchangeFailed, InExchange, MessageInHand
  <2> QED BY <1>3, <2>1 DEF exchangeFailed, InExchange, Settle
<1>4. CASE loRaAcknowledged
  <2>1. IdOf(message) \in Origins
    BY <1>4, ReportFields DEF loRaAcknowledged, MessageInHand
  <2> QED BY <1>4, <2>1 DEF loRaAcknowledged, Settle
<1>5. CASE loRaTimedOut
  <2>1. IdOf(message) \in Origins
    BY <1>5, ReportFields DEF loRaTimedOut, MessageInHand
  <2> QED BY <1>5, <2>1 DEF loRaTimedOut, Settle
<1>6. CASE saveMessage
  <2>1. IdOf(message) \in Origins
    BY <1>6, ReportFields DEF saveMessage, MessageInHand
  <2> QED BY <1>6, <2>1 DEF saveMessage, Settle
<1>7. CASE unreadableMessage
  <2>1. IdOf(Last(memory)) \in Origins
    BY <1>7, FrontLast, ReportFields DEF unreadableMessage
  <2> QED BY <1>7, <2>1 DEF unreadableMessage
<1>8. CASE restart
  <2>1. \A i \in DOMAIN memory : IdOf(memory[i]) \in Origins
    BY ReportFields
  <2>2. InHand \in Origins
    <3>1. cycle \in Origins /\ 0 \in Origins /\ data["battery"] \in Origins
      BY ParametersAssumption DEF Origins, Fields
    <3>2. InHand \in {cycle, 0, data["battery"]}
      BY DEF InHand
    <3> QED BY <3>1, <3>2
  <2> QED BY <1>8, <2>1, <2>2 DEF restart
<1>9. CASE calibrateIMU \/ startStopUpdate \/ measureBattery \/
          obtainGNSSPosition \/ connected \/ connectionFailed \/
          modemTurnedOff \/ obtainNeighborCellsInformation \/
          obtainInertialMeasures \/ formatMessage \/ nothingToLoad \/
          loadMessage \/ pursue \/ goToSleep \/ awake
  BY <1>9 DEF calibrateIMU, startStopUpdate, measureBattery,
         obtainGNSSPosition, connected, connectionFailed, modemTurnedOff,
         obtainNeighborCellsInformation, obtainInertialMeasures,
         formatMessage, nothingToLoad, loadMessage, pursue, goToSleep, awake
<1>10. CASE UNCHANGED vars
  BY <1>10 DEF vars, machine, chain, history
<1> QED
  BY <1>1, <1>2, <1>3, <1>4, <1>5, <1>6, <1>7, <1>8, <1>9, <1>10 DEF Next

(* The message is the report in hand. *)
LEMMA InHandStep ==
    ASSUME Typed, [Next]_vars
    PROVE  MessageInHand'
<1> USE DEF Typed, TypeOK, MessageInHand, changeState, chain
<1>1. CASE formatMessage
  <2> DEFINE k == FormatOf[status].kind
  <2>1. /\ k \in Kinds /\ "battery" \in FieldsOf[k]
        /\ state' = "SavingMessage" => k \in StoredKinds
    BY <1>1, FormatTable, KindsOfReports, StatusNames
    DEF formatMessage, changeState, FormatOf, StoredKinds
  <2>2. message' = [kind |-> k, from |-> [f \in FieldsOf[k] |-> data[f]]]
    BY <1>1 DEF formatMessage
  <2>3. IdOf(message)' = data["battery"] /\ message' # NoReport
    BY <2>1, <2>2 DEF IdOf, NoReport, Kinds, FieldsOf
  <2>4. /\ state' = "ExchangingMessages"
           => currHash' = [of |-> data["battery"], seq |-> seq]
        /\ UNCHANGED <<data, memory, seq>>
    BY <1>1 DEF formatMessage, addMetaData, changeState
  <2> QED BY <2>1, <2>2, <2>3, <2>4
<1>2. CASE saveMessage
  <2>1. message \in Reports
    BY <1>2 DEF saveMessage, MessageInHand
  <2>2. \A i \in DOMAIN memory' : memory'[i].kind \in StoredKinds
    <3>1. CASE Len(memory) < Capacity
      BY <1>2, <2>1, <3>1, AppendTo DEF saveMessage
    <3>2. CASE ~ (Len(memory) < Capacity)
      BY <1>2, <3>2 DEF saveMessage
    <3> QED BY <3>1, <3>2
  <2> QED BY <1>2, <2>2 DEF saveMessage
<1>3. CASE loadMessage
  <2>1. DOMAIN memory' \subseteq DOMAIN memory
        /\ \A i \in DOMAIN memory' : memory'[i] = memory[i]
    <3>1. memory' = Front(memory) /\ memory # <<>> /\ memory \in Seq(Reports)
      BY <1>3 DEF loadMessage
    <3>2. /\ DOMAIN Front(memory) = 1 .. Len(memory) - 1
          /\ DOMAIN memory = 1 .. Len(memory) /\ Len(memory) \in Nat
          /\ \A i \in 1 .. Len(memory) - 1 : Front(memory)[i] = memory[i]
      BY <3>1, FrontLast
    <3> QED BY <3>1, <3>2
  <2> QED BY <1>3, <2>1 DEF loadMessage
<1>4. CASE unreadableMessage
  <2>1. DOMAIN memory' \subseteq DOMAIN memory
        /\ \A i \in DOMAIN memory' : memory'[i] = memory[i]
    <3>1. memory' = Front(memory) /\ memory # <<>> /\ memory \in Seq(Reports)
      BY <1>4 DEF unreadableMessage
    <3>2. /\ DOMAIN Front(memory) = 1 .. Len(memory) - 1
          /\ DOMAIN memory = 1 .. Len(memory) /\ Len(memory) \in Nat
          /\ \A i \in 1 .. Len(memory) - 1 : Front(memory)[i] = memory[i]
      BY <3>1, FrontLast
    <3> QED BY <3>1, <3>2
  <2> QED BY <1>4, <2>1 DEF unreadableMessage
<1>5. CASE restart
  BY <1>5 DEF restart
<1>6. CASE calibrateIMU \/ startStopUpdate \/ measureBattery \/
          obtainGNSSPosition \/ connected \/ connectionFailed \/
          modemTurnedOff \/ obtainNeighborCellsInformation \/
          obtainInertialMeasures \/ replyAccepted \/ noReplyRead \/
          exchangeFailed \/ loRaAcknowledged \/ loRaTimedOut \/
          nothingToLoad \/ pursue \/ goToSleep \/ awake
  BY <1>6 DEF calibrateIMU, startStopUpdate, measureBattery,
         obtainGNSSPosition, connected, connectionFailed, modemTurnedOff,
         obtainNeighborCellsInformation, obtainInertialMeasures,
         replyAccepted, noReplyRead, exchangeFailed, loRaAcknowledged,
         loRaTimedOut, nothingToLoad, pursue, goToSleep, awake
<1>7. CASE UNCHANGED vars
  BY <1>7 DEF vars, machine, chain, history
<1> QED
  BY <1>1, <1>2, <1>3, <1>4, <1>5, <1>6, <1>7 DEF Next

(* Every step keeps the types. *)
LEMMA TypedStep == Typed /\ [Next]_vars => Typed'
<1> SUFFICES ASSUME Typed, [Next]_vars PROVE Typed'
  OBVIOUS
<1>1. TypeOK'
  BY StatusStep, ControlStep, DataStep, MessageStep, MemoryStep, ChainStep,
     HistoryStep DEF TypeOK
<1> QED BY <1>1, StatusStep, InHandStep DEF Typed

(* Every variable keeps its type: in particular the EEPROM never holds more  *)
(* than it has room for, and every stored or transmitted report is one the   *)
(* formatters can make.                                                      *)
THEOREM TypeCorrect == Spec => []TypeOK
<1>1. Spec => []Typed
  BY TypedInit, TypedStep, PTL DEF Spec
<1>2. Typed => TypeOK
  BY DEF Typed
<1> QED BY <1>1, <1>2, PTL

(* No state object is created with a status its handler has no branch for.   *)
THEOREM StatusesFit == Spec => []StatusFits
<1>1. Spec => []Typed
  BY TypedInit, TypedStep, PTL DEF Spec
<1>2. Typed => StatusFits
  BY DEF Typed
<1> QED BY <1>1, <1>2, PTL

(* What is sent or saved is the report in hand, with the hash made for it at *)
(* this place of the chain, and only what can be parsed back is stored.      *)
THEOREM RightMessage == Spec => []MessageInHand
<1>1. Spec => []Typed
  BY TypedInit, TypedStep, PTL DEF Spec
<1>2. Typed => MessageInHand
  BY DEF Typed
<1> QED BY <1>1, <1>2, PTL

-----------------------------------------------------------------------------
(* Reports.  Most steps leave the report in hand and the EEPROM alone; what  *)
(* the others do to them is all the arguments below need to know.            *)

(* The states between reports. *)
Free == state \in {"LoadingMessage", "GoingToSleep", "Slepping"}

Quiet ==
    \/ calibrateIMU \/ startStopUpdate \/ measureBattery
    \/ obtainGNSSPosition \/ connected \/ connectionFailed \/ modemTurnedOff
    \/ obtainNeighborCellsInformation \/ obtainInertialMeasures
    \/ formatMessage \/ exchangeFailed \/ loRaTimedOut \/ nothingToLoad
    \/ goToSleep

(* What most handlers do to the reports: nothing. *)
LEMMA QuietStep ==
    ASSUME Typed, Quiet
    PROVE  /\ UNCHANGED <<InHand, memory, cycle, resets, acked, given_up>>
           /\ Free' <=> Free
<1> USE DEF InHand, Free, Typed, TypeOK, changeState, chain, history
<1>1. CASE calibrateIMU
  BY <1>1 DEF calibrateIMU
<1>2. CASE startStopUpdate
  BY <1>2 DEF startStopUpdate
<1>3. CASE measureBattery
  BY <1>3 DEF measureBattery, Fields
<1>4. CASE obtainGNSSPosition
  BY <1>4 DEF obtainGNSSPosition, Fields
<1>5. CASE connected
  BY <1>5 DEF connected, Fields
<1>6. CASE connectionFailed
  BY <1>6 DEF connectionFailed
<1>7. CASE modemTurnedOff
  BY <1>7 DEF modemTurnedOff
<1>8. CASE obtainNeighborCellsInformation
  BY <1>8 DEF obtainNeighborCellsInformation, Fields
<1>9. CASE obtainInertialMeasures
  BY <1>9 DEF obtainInertialMeasures, Fields
<1>10. CASE formatMessage
  BY <1>10, FormatTable DEF formatMessage
<1>11. CASE exchangeFailed
  BY <1>11 DEF exchangeFailed, InExchange
<1>12. CASE loRaTimedOut
  BY <1>12 DEF loRaTimedOut
<1>13. CASE nothingToLoad
  BY <1>13 DEF nothingToLoad
<1>14. CASE goToSleep
  BY <1>14 DEF goToSleep
<1> QED
  BY <1>1, <1>2, <1>3, <1>4, <1>5, <1>6, <1>7, <1>8, <1>9, <1>10, <1>11,
     <1>12, <1>13, <1>14 DEF Quiet

Stay == UNCHANGED <<InHand, memory, cycle>> /\ (Free' <=> Free)
Drop == /\ UNCHANGED <<memory, cycle>> /\ InHand' = 0 /\ ~Free /\ Free'
        /\ InHand \in delivered' \union given_up'
Keep == /\ Len(memory) < Capacity
        /\ message \in Reports /\ IdOf(message) = InHand
        /\ memory' = Append(memory, message)
        /\ UNCHANGED cycle /\ InHand' = 0 /\ ~Free /\ Free'
Recall == /\ memory # <<>> /\ memory' = Front(memory)
          /\ InHand' = IdOf(Last(memory))
          /\ UNCHANGED cycle /\ Free /\ ~Free'
Spoil == /\ memory # <<>> /\ memory' = Front(memory)
         /\ UNCHANGED cycle /\ InHand' = 0 /\ Free /\ Free'
         /\ IdOf(Last(memory)) \in given_up'
Take == UNCHANGED memory /\ cycle' = cycle + 1 /\ InHand' = cycle + 1 /\ Free /\ ~Free'
Wipe == /\ memory' = <<>> /\ cycle' = cycle + 1 /\ InHand' = cycle + 1 /\ ~Free'
        /\ StoredIds \union ({InHand} \ {0}) \subseteq given_up'

(* Every step does one of seven things to the reports. *)
LEMMA ReportStep ==
    ASSUME Typed, [Next]_vars
    PROVE  Stay \/ Drop \/ Keep \/ Recall \/ Spoil \/ Take \/ Wipe
<1> USE DEF InHand, Free, Typed, TypeOK, changeState, chain, history
<1>1. CASE Quiet
  BY <1>1, QuietStep DEF Stay
<1>2. CASE replyAccepted
  BY <1>2 DEF replyAccepted, InExchange, Settle, MessageInHand, Drop
<1>3. CASE noReplyRead
  BY <1>3 DEF noReplyRead, InExchange, Settle, MessageInHand, Drop
<1>4. CASE loRaAcknowledged
  BY <1>4 DEF loRaAcknowledged, Settle, MessageInHand, Drop
<1>5. CASE saveMessage
  <2>1. CASE Len(memory) < Capacity
    BY <1>5, <2>1 DEF saveMessage, Keep, MessageInHand
  <2>2. CASE ~ (Len(memory) < Capacity)
    BY <1>5, <2>2 DEF saveMessage, MessageInHand, Drop
  <2> QED BY <2>1, <2>2
<1>6. CASE loadMessage
  <2>1. Last(memory) \in Reports
    BY <1>6, FrontLast DEF loadMessage
  <2>2. "battery" \in FieldsOf[Last(memory).kind]
    BY <2>1, ReportFields, KindsOfReports
  <2>3. "battery" \in RestoredParts[Last(memory).kind]
    <3>1. Len(memory) \in DOMAIN memory /\ Last(memory) = memory[Len(memory)]
      BY <1>6 DEF loadMessage, Last
    <3>2. Last(memory).kind \in StoredKinds
      BY <3>1 DEF MessageInHand
    <3> QED BY <2>2, <3>2, FieldsComeBack
  <2>4. data'["battery"] = IdOf(Last(memory))
    BY <1>6, <2>2, <2>3 DEF loadMessage, Parsed, IdOf, Fields
  <2> QED BY <1>6, <2>4 DEF loadMessage, Recall
<1>7. CASE unreadableMessage
  BY <1>7 DEF unreadableMessage, Spoil
<1>8. CASE pursue
  BY <1>8 DEF pursue, Take
<1>9. CASE awake
  BY <1>9 DEF awake, Take, Stay
<1>10. CASE restart
  <2>1. InHand' = cycle + 1
    BY <1>10 DEF restart
  <2>2. StoredIds \union ({InHand} \ {0}) \subseteq given_up'
    BY <1>10 DEF restart, StoredIds
  <2> QED BY <1>10, <2>1, <2>2 DEF restart, Wipe
<1>11. CASE UNCHANGED vars
  BY <1>11 DEF vars, machine, Stay
<1> QED
  BY <1>1, <1>2, <1>3, <1>4, <1>5, <1>6, <1>7, <1>8, <1>9, <1>10, <1>11
  DEF Next, Quiet

(* NewestOnTop is inductive once the numbers of the reports are known to be  *)
(* those of past wake-ups.                                                   *)
Numbered ==
    /\ InHand \in 0 .. cycle
    /\ InHand = 0 <=> Free
    /\ \A i \in DOMAIN memory : IdOf(memory[i]) \in 1 .. cycle

Ordered == Typed /\ Numbered /\ NewestOnTop

(* The constructor leaves an empty EEPROM. *)
LEMMA OrderedInit == Init => Ordered
<1> SUFFICES ASSUME Init PROVE Ordered
  OBVIOUS
<1>1. Numbered /\ NewestOnTop
  BY DEF Init, Numbered, NewestOnTop, InHand, Free
<1> QED BY <1>1, TypedInit DEF Ordered

(* Every step keeps the stack in order. *)
LEMMA OrderedStep == Ordered /\ [Next]_vars => Ordered'
<1> SUFFICES ASSUME Ordered, [Next]_vars PROVE Numbered' /\ NewestOnTop'
  BY TypedStep DEF Ordered
<1>0. /\ memory \in Seq(Reports) /\ Len(memory) \in Nat /\ DOMAIN memory = 1 .. Len(memory)
      /\ cycle \in Nat \ {0}
  BY ParametersAssumption DEF Ordered, Typed, TypeOK
<1> USE <1>0 DEF Ordered, Numbered, NewestOnTop
<1>1. CASE Stay
  BY <1>1 DEF Stay
<1>2. CASE Drop
  BY <1>2 DEF Drop
<1>3. CASE Keep
  <2>1. /\ DOMAIN memory' = 1 .. Len(memory) + 1
        /\ \A i \in 1 .. Len(memory) : memory'[i] = memory[i]
        /\ memory'[Len(memory) + 1] = message
    BY <1>3, AppendTo DEF Keep
  <2>2. IdOf(message) = InHand /\ InHand \in 1 .. cycle
        /\ cycle' = cycle /\ InHand' = 0 /\ Free'
    BY <1>3 DEF Keep
  <2>3. /\ \A i \in 1 .. Len(memory) : IdOf(memory'[i]) = IdOf(memory[i])
        /\ IdOf(memory'[Len(memory) + 1]) = InHand
    BY <2>1, <2>2
  <2> QED BY <2>1, <2>2, <2>3, SMTT(30)
<1>4. CASE Recall
  <2>1. /\ DOMAIN memory' = 1 .. Len(memory) - 1 /\ Len(memory) \in Nat \ {0}
        /\ \A i \in 1 .. Len(memory) - 1 : IdOf(memory'[i]) = IdOf(memory[i])
        /\ InHand' = IdOf(memory[Len(memory)])
    BY <1>4, FrontLast DEF Recall
  <2>2. Free /\ ~Free' /\ cycle' = cycle
    BY <1>4 DEF Recall
  <2> QED BY <2>1, <2>2, SMTT(30)
<1>5. CASE Spoil
  <2>1. /\ DOMAIN memory' = 1 .. Len(memory) - 1 /\ Len(memory) \in Nat \ {0}
        /\ \A i \in 1 .. Len(memory) - 1 : IdOf(memory'[i]) = IdOf(memory[i])
    BY <1>5, FrontLast DEF Spoil
  <2>2. InHand' = 0 /\ Free' /\ cycle' = cycle
    BY <1>5 DEF Spoil
  <2>3. Numbered'
    BY <2>1, <2>2
  <2>4. NewestOnTop'
    BY <2>1, <2>2
  <2> QED BY <2>3, <2>4
<1>6. CASE Take
  BY <1>6 DEF Take
<1>7. CASE Wipe
  BY <1>7 DEF Wipe
<1> QED
  BY <1>1, <1>2, <1>3, <1>4, <1>5, <1>6, <1>7, ReportStep

(* The EEPROM holds each report once, oldest at the bottom, and the report   *)
(* in hand is newer than all of them, however reports were put back.         *)
THEOREM StackOrdered == Spec => []NewestOnTop
<1>1. Spec => []Ordered
  BY OrderedInit, OrderedStep, PTL DEF Spec
<1>2. Ordered => NewestOnTop
  BY DEF Ordered
<1> QED BY <1>1, <1>2, PTL

-----------------------------------------------------------------------------
(* The hash chain.  Only a success reply moves it, and only a restart resets *)
(* it.                                                                       *)

(* Which steps touch the chain. *)
LEMMA ChainMoves ==
    ASSUME [Next]_vars
    PROVE  UNCHANGED <<seq, prevHash, acked>> \/ replyAccepted \/ restart
<1> USE DEF chain, history
<1>1. CASE Quiet
  BY <1>1 DEF Quiet, calibrateIMU, startStopUpdate, measureBattery, obtainGNSSPosition,
         connected, connectionFailed, modemTurnedOff,
         obtainNeighborCellsInformation, obtainInertialMeasures, formatMessage,
         exchangeFailed, loRaTimedOut, nothingToLoad, goToSleep
<1>2. CASE noReplyRead \/ loRaAcknowledged \/ saveMessage \/ loadMessage
           \/ unreadableMessage \/ pursue \/ awake
  BY <1>2 DEF noReplyRead, loRaAcknowledged, saveMessage, loadMessage,
         unreadableMessage, pursue, awake
<1>3. CASE UNCHANGED vars
  BY <1>3 DEF vars
<1> QED BY <1>1, <1>2, <1>3 DEF Next, Quiet

(* No step brings back a report that was neither stored nor in hand. *)
LEMMA NothingComesBack ==
    ASSUME Ordered, [Next]_vars
    PROVE  StoredIds' \union {InHand'} \subseteq StoredIds \union {InHand, 0, cycle + 1}
<1>0. /\ memory \in Seq(Reports) /\ Len(memory) \in Nat /\ DOMAIN memory = 1 .. Len(memory)
      /\ Typed
  BY DEF Ordered, Typed, TypeOK
<1> USE DEF StoredIds
<1>1. CASE Stay \/ Drop \/ Take \/ Wipe
  BY <1>1 DEF Stay, Drop, Take, Wipe
<1>2. CASE Keep
  <2>1. /\ DOMAIN memory' = 1 .. Len(memory) + 1
        /\ \A i \in 1 .. Len(memory) : memory'[i] = memory[i]
        /\ memory'[Len(memory) + 1] = message
        /\ IdOf(message) = InHand /\ InHand' = 0
    BY <1>0, <1>2, AppendTo DEF Keep
  <2> QED BY <1>0, <2>1
<1>3. CASE Recall \/ Spoil
  <2>1. /\ DOMAIN memory' = 1 .. Len(memory) - 1 /\ Len(memory) \in Nat \ {0}
        /\ \A i \in 1 .. Len(memory) - 1 : memory'[i] = memory[i]
        /\ InHand' \in {0, IdOf(memory[Len(memory)])}
    BY <1>0, <1>3, FrontLast DEF Recall, Spoil
  <2> QED BY <1>0, <2>1
<1> QED BY <1>0, <1>1, <1>2, <1>3, ReportStep

Acked ==
    /\ Ordered /\ ChainFollowsAcks /\ AckedIsFinal
    /\ \A i \in DOMAIN acked : acked[i].of \in 1 .. cycle

(* Nothing is confirmed at first. *)
LEMMA AckedInit == Init => Acked
<1> SUFFICES ASSUME Init PROVE Acked
  OBVIOUS
<1>1. ChainFollowsAcks
  BY DEF Init, ChainFollowsAcks, Last
<1>2. AckedIsFinal /\ \A i \in DOMAIN acked : acked[i].of \in 1 .. cycle
  BY DEF Init, AckedIsFinal
<1> QED BY <1>1, <1>2, OrderedInit DEF Acked

(* The last of a chain that starts at Genesis. *)
LEMMA LastOfChain ==
    /\ Last(<<Genesis>> \o <<>>) = Genesis
    /\ \A s \in Seq(Hashes), h \in Hashes : Last(<<Genesis>> \o Append(s, h)) = h
  BY DEF Last

(* Every step keeps the chain in line with the confirmations. *)
LEMMA ChainFollows ==
    ASSUME Acked, [Next]_vars
    PROVE  ChainFollowsAcks'
<1> USE DEF Acked, Ordered, Typed, TypeOK, ChainFollowsAcks
<1>1. CASE UNCHANGED <<seq, prevHash, acked>>
  BY <1>1
<1>2. CASE replyAccepted
  <2>1. /\ acked' = Append(acked, currHash) /\ prevHash' = currHash
        /\ seq' = seq + 1 /\ currHash.seq = seq
    BY <1>2 DEF replyAccepted, InExchange, MessageInHand
  <2>2. /\ Len(acked') = Len(acked) + 1 /\ DOMAIN acked' = 1 .. Len(acked) + 1
        /\ \A i \in 1 .. Len(acked) : acked'[i] = acked[i]
        /\ acked'[Len(acked) + 1] = currHash
    BY <2>1, AppendTo
  <2>3. \A i \in DOMAIN acked' : acked'[i].seq = i - 1
    BY <2>1, <2>2
  <2> QED BY <2>1, <2>2, <2>3, LastOfChain
<1>3. CASE restart
  BY <1>3, LastOfChain DEF restart
<1> QED BY <1>1, <1>2, <1>3, ChainMoves

(* Every step leaves confirmed reports alone. *)
LEMMA AckedStep == Acked /\ [Next]_vars => Acked'
<1> SUFFICES ASSUME Acked, [Next]_vars
             PROVE  /\ AckedIsFinal'
                    /\ \A i \in DOMAIN acked' : acked'[i].of \in 1 .. cycle'
  BY ChainFollows, OrderedStep DEF Acked
<1>0. /\ Ordered /\ Typed /\ acked \in Seq(Hashes) /\ cycle \in Nat
      /\ cycle' \in {cycle, cycle + 1}
  <2>1. Ordered /\ Typed /\ acked \in Seq(Hashes) /\ cycle \in Nat
    BY ParametersAssumption DEF Acked, Ordered, Typed, TypeOK
  <2>2. cycle' \in {cycle, cycle + 1}
    BY <2>1, ReportStep DEF Stay, Drop, Keep, Recall, Spoil, Take, Wipe
  <2> QED BY <2>1, <2>2
<1>1. CASE UNCHANGED acked
  <2>1. \A i \in DOMAIN acked : acked[i].of \notin StoredIds' \union {InHand'}
    BY <1>0, NothingComesBack DEF Acked, AckedIsFinal
  <2> QED BY <1>0, <1>1, <2>1 DEF Acked, AckedIsFinal
<1>2. CASE replyAccepted
  <2>1. /\ acked' = Append(acked, currHash) /\ UNCHANGED <<memory, cycle>>
        /\ currHash \in Hashes /\ currHash.of = InHand /\ InHand' = 0 /\ ~Free
    BY <1>0, <1>2 DEF replyAccepted, InExchange, Typed, TypeOK, MessageInHand, InHand,
         changeState, Free
  <2>2. /\ Len(acked) \in Nat /\ DOMAIN acked = 1 .. Len(acked)
        /\ DOMAIN acked' = 1 .. Len(acked) + 1
        /\ \A i \in 1 .. Len(acked) : acked'[i] = acked[i]
        /\ acked'[Len(acked) + 1] = currHash
    BY <1>0, <2>1, AppendTo
  <2>3. InHand \in 1 .. cycle /\ InHand \notin StoredIds
    BY <1>0, <2>1 DEF Ordered, Numbered, NewestOnTop, StoredIds
  <2>4. StoredIds' = StoredIds
    BY <2>1 DEF StoredIds
  <2>5. \A i \in DOMAIN acked' : /\ acked'[i].of \in 1 .. cycle
                                 /\ acked'[i].of \notin StoredIds
    BY <1>0, <2>1, <2>2, <2>3 DEF Acked, AckedIsFinal
  <2> QED BY <1>0, <2>1, <2>4, <2>5 DEF AckedIsFinal
<1>3. CASE restart
  BY <1>3 DEF restart, AckedIsFinal
<1> QED BY <1>1, <1>2, <1>3, ChainMoves

(* The tracker's side of the chain has no gap and no fork: saving, reloading *)
(* and LoRa exchanges between two confirmed messages leave no trace in it.   *)
THEOREM ChainUnbroken == Spec => []ChainFollowsAcks
<1>1. Spec => []Acked
  BY AckedInit, AckedStep, PTL DEF Spec
<1>2. Acked => ChainFollowsAcks
  BY DEF Acked
<1> QED BY <1>1, <1>2, PTL

(* A report whose success reply was decoded is never sent, saved or loaded   *)
(* again.                                                                    *)
THEOREM AcknowledgedOnce == Spec => []AckedIsFinal
<1>1. Spec => []Acked
  BY AckedInit, AckedStep, PTL DEF Spec
<1>2. Acked => AckedIsFinal
  BY DEF Acked
<1> QED BY <1>1, <1>2, PTL

-----------------------------------------------------------------------------
(* No report slips away. *)

(* What was delivered or given up stays so. *)
LEMMA HistoryGrows ==
    ASSUME [Next]_vars
    PROVE  delivered \subseteq delivered' /\ given_up \subseteq given_up'
<1> USE DEF history, Settle
<1>1. CASE Quiet
  BY <1>1 DEF Quiet, calibrateIMU, startStopUpdate, measureBattery, obtainGNSSPosition,
         connected, connectionFailed, modemTurnedOff,
         obtainNeighborCellsInformation, obtainInertialMeasures, formatMessage,
         exchangeFailed, loRaTimedOut, nothingToLoad, goToSleep
<1>2. CASE replyAccepted \/ noReplyRead \/ loRaAcknowledged \/ saveMessage
           \/ loadMessage \/ unreadableMessage \/ pursue \/ awake \/ restart
  BY <1>2 DEF replyAccepted, noReplyRead, loRaAcknowledged, saveMessage,
         loadMessage, unreadableMessage, pursue, awake, restart
<1>3. CASE UNCHANGED vars
  BY <1>3 DEF vars
<1> QED BY <1>1, <1>2, <1>3 DEF Next, Quiet

(* Every step accounts for the reports it takes away. *)
LEMMA AccountedStep ==
    ASSUME Ordered, Accounted, [Next]_vars
    PROVE  Accounted'
<1>0. /\ memory \in Seq(Reports) /\ Len(memory) \in Nat /\ DOMAIN memory = 1 .. Len(memory)
      /\ Typed /\ Numbered /\ cycle \in Nat
  BY ParametersAssumption DEF Ordered, Typed, TypeOK
<1> USE HistoryGrows DEF Accounted, StoredIds
<1>1. CASE Stay
  BY <1>1 DEF Stay
<1>2. CASE Drop
  BY <1>2 DEF Drop
<1>3. CASE Keep
  <2>1. /\ DOMAIN memory' = 1 .. Len(memory) + 1
        /\ \A i \in 1 .. Len(memory) : memory'[i] = memory[i]
        /\ memory'[Len(memory) + 1] = message
        /\ IdOf(message) = InHand /\ InHand' = 0 /\ cycle' = cycle
    BY <1>0, <1>3, AppendTo DEF Keep
  <2>2. StoredIds' = StoredIds \union {InHand}
    BY <1>0, <2>1
  <2> QED BY <2>1, <2>2
<1>4. CASE Recall \/ Spoil
  <2>1. /\ DOMAIN memory' = 1 .. Len(memory) - 1 /\ Len(memory) \in Nat \ {0}
        /\ \A i \in 1 .. Len(memory) - 1 : memory'[i] = memory[i]
        /\ IdOf(memory[Len(memory)]) \in {InHand'} \union given_up'
        /\ cycle' = cycle
    BY <1>0, <1>4, FrontLast DEF Recall, Spoil
  <2>2. StoredIds \subseteq StoredIds' \union {InHand'} \union given_up'
    BY <1>0, <2>1
  <2>3. InHand = 0
    BY <1>0, <1>4 DEF Numbered, Recall, Spoil
  <2> QED BY <2>1, <2>2, <2>3
<1>5. CASE Take
  <2>1. InHand = 0
    BY <1>0, <1>5 DEF Numbered, Take
  <2> QED BY <1>0, <1>5, <2>1 DEF Take
<1>6. CASE Wipe
  BY <1>0, <1>6 DEF Wipe
<1> QED
  BY <1>0, <1>1, <1>2, <1>3, <1>4, <1>5, <1>6, ReportStep

(* Whatever path a wake-up takes, its report is in hand, stored, delivered,  *)
(* or was given up where the code says so.                                   *)
THEOREM NothingSlipsAway == Spec => []Accounted
<1>1. Init => Ordered /\ Accounted
  BY OrderedInit DEF Init, Accounted, InHand
<1>2. Ordered /\ Accounted /\ [Next]_vars => (Ordered /\ Accounted)'
  BY OrderedStep, AccountedStep
<1> QED BY <1>1, <1>2, PTL DEF Spec

-----------------------------------------------------------------------------
(* The modem during LoRa.  The button is the only thing that turns it on     *)
(* again between turnOff() and the LoRa exchange.                            *)

ModemOff ==
    state \in {"GatheringInertialData", "FormattingMessage", "ExchangingLoRaMessages"}
        /\ status \in LoRaStatuses => power = "MANUAL_POWER_OFF"

(* From turnOff() to the LoRa exchange the modem stays off. *)
LEMMA ModemOffStep ==
    ASSUME "button" \notin Faults, Typed, ModemOff, [Next]_vars
    PROVE  ModemOff'
<1> USE DEF ModemOff, LoRaStatuses, changeState, chain, history, Typed, TypeOK
<1>1. CASE startStopUpdate
  BY <1>1 DEF startStopUpdate
<1>2. CASE modemTurnedOff
  BY <1>2 DEF modemTurnedOff
<1>3. CASE obtainInertialMeasures
  BY <1>3 DEF obtainInertialMeasures
<1>4. CASE formatMessage
  BY <1>4 DEF formatMessage
<1>5. CASE exchangeFailed
  BY <1>5 DEF exchangeFailed, UnsentStatus, InExchange, OnlineStatuses, ReloadStatuses
<1>6. CASE loadMessage
  <2>1. Last(memory).kind \in StoredKinds
    <3>1. memory # <<>> /\ memory \in Seq(Reports)
      BY <1>6 DEF loadMessage
    <3>2. /\ Len(memory) \in Nat \ {0} /\ DOMAIN memory = 1 .. Len(memory)
          /\ Last(memory) = memory[Len(memory)]
      BY <3>1, FrontLast
    <3>3. Len(memory) \in DOMAIN memory
      BY <3>2
    <3> QED BY <3>2, <3>3 DEF MessageInHand
  <2> QED BY <1>6, <2>1 DEF loadMessage, ReloadedStatus, StoredKinds
<1>7. CASE calibrateIMU \/ measureBattery \/ obtainGNSSPosition \/ connected
           \/ connectionFailed \/ obtainNeighborCellsInformation \/ replyAccepted
           \/ noReplyRead \/ loRaAcknowledged \/ loRaTimedOut \/ saveMessage
           \/ nothingToLoad \/ unreadableMessage \/ pursue \/ goToSleep \/ awake
           \/ restart
  BY <1>7 DEF calibrateIMU, measureBattery, obtainGNSSPosition, connected,
         connectionFailed, obtainNeighborCellsInformation, replyAccepted,
         noReplyRead, loRaAcknowledged, loRaTimedOut, saveMessage,
         nothingToLoad, unreadableMessage, pursue, goToSleep, awake, restart
<1>8. CASE UNCHANGED vars
  BY <1>8 DEF vars, machine
<1> QED BY <1>1, <1>2, <1>3, <1>4, <1>5, <1>6, <1>7, <1>8 DEF Next

(* Unless somebody presses the button, the modem is off while the tracker    *)
(* talks LoRa.                                                               *)
THEOREM OneRadio ==
    ASSUME "button" \notin Faults
    PROVE  Spec => []LoRaWithModemOff
<1>1. Init => Typed /\ ModemOff
  BY TypedInit DEF Init, ModemOff
<1>2. Typed /\ ModemOff /\ [Next]_vars => (Typed /\ ModemOff)'
  BY TypedStep, ModemOffStep
<1>3. Typed /\ ModemOff => LoRaWithModemOff
  BY DEF Typed, StatusFits, ModemOff, LoRaWithModemOff
<1> QED BY <1>1, <1>2, <1>3, PTL DEF Spec

-----------------------------------------------------------------------------
(* The tracker implements the ledger. *)

Ids(s) == [i \in DOMAIN s |-> IdOf(s[i])]

(* Saving a report pushes its number. *)
LEMMA IdsAppend ==
    ASSUME NEW s \in Seq(Reports), NEW r \in Reports
    PROVE  Ids(Append(s, r)) = Append(Ids(s), IdOf(r))
<1>1. Ids(s) \in Seq(Origins) /\ Len(Ids(s)) = Len(s)
  BY ReportFields DEF Ids
<1>2. IdOf(r) \in Origins
  BY ReportFields
<1>3. /\ DOMAIN Append(s, r) = 1 .. Len(s) + 1 /\ DOMAIN s = 1 .. Len(s)
      /\ \A i \in 1 .. Len(s) : Append(s, r)[i] = s[i]
      /\ Append(s, r)[Len(s) + 1] = r
  BY AppendTo
<1>4. /\ DOMAIN Append(Ids(s), IdOf(r)) = 1 .. Len(s) + 1
      /\ \A i \in 1 .. Len(s) : Append(Ids(s), IdOf(r))[i] = Ids(s)[i]
      /\ Append(Ids(s), IdOf(r))[Len(s) + 1] = IdOf(r)
  BY <1>1, <1>2, AppendTo
<1>5. \A i \in 1 .. Len(s) + 1 : Ids(Append(s, r))[i] = Append(Ids(s), IdOf(r))[i]
  BY <1>3, <1>4 DEF Ids
<1>6. /\ Append(Ids(s), IdOf(r)) = [i \in 1 .. Len(s) + 1 |-> Append(Ids(s), IdOf(r))[i]]
      /\ Ids(Append(s, r)) = [i \in 1 .. Len(s) + 1 |-> Ids(Append(s, r))[i]]
  BY <1>1, <1>2, <1>3, <1>4 DEF Ids
<1> QED BY <1>5, <1>6

(* Loading a report pops its number. *)
LEMMA IdsFrontLast ==
    ASSUME NEW s \in Seq(Reports), s # <<>>
    PROVE  /\ Ids(s) # <<>>
           /\ Ids(Front(s)) = Front(Ids(s))
           /\ Last(Ids(s)) = IdOf(Last(s))
<1>1. Ids(s) \in Seq(Origins) /\ Len(Ids(s)) = Len(s) /\ Len(s) \in Nat \ {0}
  BY ReportFields, FrontLast DEF Ids
<1>2. Ids(s) # <<>>
  BY <1>1
<1>3. /\ DOMAIN Front(s) = 1 .. Len(s) - 1 /\ DOMAIN s = 1 .. Len(s)
      /\ \A i \in 1 .. Len(s) - 1 : Front(s)[i] = s[i]
      /\ Last(s) = s[Len(s)]
  BY FrontLast
<1>4. /\ Front(Ids(s)) \in Seq(Origins)
      /\ DOMAIN Front(Ids(s)) = 1 .. Len(s) - 1
      /\ \A i \in 1 .. Len(s) - 1 : Front(Ids(s))[i] = Ids(s)[i]
      /\ Last(Ids(s)) = Ids(s)[Len(s)]
  BY <1>1, <1>2, FrontLast
<1>5. \A i \in 1 .. Len(s) - 1 : Ids(Front(s))[i] = Front(Ids(s))[i]
  BY <1>1, <1>3, <1>4 DEF Ids
<1>6. /\ Front(Ids(s)) = [i \in 1 .. Len(s) - 1 |-> Front(Ids(s))[i]]
      /\ Ids(Front(s)) = [i \in 1 .. Len(s) - 1 |-> Ids(Front(s))[i]]
  BY <1>3, <1>4 DEF Ids
<1>7. Len(s) \in DOMAIN s
  BY <1>1, <1>3
<1>8. Last(Ids(s)) = IdOf(Last(s))
  BY <1>3, <1>4, <1>7 DEF Ids
<1> QED BY <1>2, <1>5, <1>6, <1>8

Released == (1 .. cycle) \ (StoredIds \union {InHand})

(* Every step of the tracker is a step of the ledger, or none. *)
LEMMA LedgerStep ==
    ASSUME Ordered, [Next]_vars
    PROVE  [Ledger!LNext]_(Ledger!lvars)
<1>0. /\ memory \in Seq(Reports) /\ Len(memory) \in Nat /\ DOMAIN memory = 1 .. Len(memory)
      /\ Len(memory) <= Capacity /\ Typed /\ Numbered /\ NewestOnTop /\ cycle \in Nat \ {0}
  BY ParametersAssumption DEF Ordered, Typed, TypeOK
<1>1. CASE Stay
  BY <1>1 DEF Stay, Ledger!lvars, StoredIds
<1>2. CASE Drop
  <2>1. InHand \in 1 .. cycle /\ InHand \notin StoredIds /\ StoredIds' = StoredIds
    BY <1>0, <1>2 DEF Drop, Numbered, NewestOnTop, StoredIds
  <2>2. Released' = Released \union {InHand}
    BY <1>0, <1>2, <2>1 DEF Drop, Released
  <2>3. Ids(memory)' = Ids(memory) /\ UNCHANGED cycle /\ InHand' = 0 /\ InHand # 0
    BY <1>0, <1>2, <2>1 DEF Drop, Ids
  <2>4. Ledger!Release
    BY <2>2, <2>3 DEF Released, Ids, Ledger!Release, Ledger!Nobody
  <2> QED BY <2>4 DEF Ledger!LNext
<1>3. CASE Keep
  <2>1. /\ DOMAIN memory' = 1 .. Len(memory) + 1
        /\ \A i \in 1 .. Len(memory) : memory'[i] = memory[i]
        /\ memory'[Len(memory) + 1] = message
        /\ IdOf(message) = InHand /\ InHand' = 0 /\ cycle' = cycle
    BY <1>0, <1>3, AppendTo DEF Keep
  <2>2. StoredIds' = StoredIds \union {InHand}
    BY <1>0, <2>1 DEF StoredIds
  <2>3. Released' = Released
    BY <1>0, <2>1, <2>2 DEF Released
  <2>4. Ids(memory)' = Append(Ids(memory), InHand)
    <3>1. message \in Reports /\ memory' = Append(memory, message)
      BY <1>3 DEF Keep
    <3>2. Ids(memory') = Append(Ids(memory), InHand)
      BY <1>0, <2>1, <3>1, IdsAppend
    <3> QED BY <3>2 DEF Ids
  <2>5. Len(Ids(memory)) = Len(memory) /\ Len(memory) < Capacity /\ InHand # 0
    BY <1>0, <1>3 DEF Keep, Ids, Numbered
  <2>6. Ledger!Keep
    BY <2>1, <2>3, <2>4, <2>5 DEF Released, Ids, Ledger!Keep, Ledger!Nobody
  <2> QED BY <2>6 DEF Ledger!LNext
<1>4. CASE Recall \/ Spoil
  <2>1. memory # <<>> /\ memory' = Front(memory) /\ cycle' = cycle /\ InHand = 0
    BY <1>0, <1>4 DEF Recall, Spoil, Numbered
  <2>2. /\ Ids(memory) # <<>> /\ Ids(memory') = Front(Ids(memory))
        /\ Last(Ids(memory)) = IdOf(Last(memory))
    BY <1>0, <2>1, IdsFrontLast
  <2>3. Ids(memory)' = Front(Ids(memory))
    BY <2>2 DEF Ids
  <2>4. /\ DOMAIN memory' = 1 .. Len(memory) - 1 /\ Len(memory) \in Nat \ {0}
        /\ \A i \in 1 .. Len(memory) - 1 : memory'[i] = memory[i]
        /\ Last(memory) = memory[Len(memory)]
    BY <1>0, <2>1, FrontLast
  <2>5. /\ StoredIds = StoredIds' \union {IdOf(Last(memory))}
        /\ IdOf(Last(memory)) \in 1 .. cycle /\ IdOf(Last(memory)) \notin StoredIds'
    BY <1>0, <2>4, SMTT(30) DEF StoredIds, NewestOnTop, Numbered
  <2>6. CASE Recall
    <3>1. InHand' = IdOf(Last(memory))
      BY <2>6 DEF Recall
    <3>2. Released' = Released
      BY <2>1, <2>5, <3>1 DEF Released
    <3>3. Ledger!Recall
      BY <2>1, <2>2, <2>3, <3>1, <3>2 
      DEF Released, Ids, Ledger!Recall, Ledger!Nobody, Ledger!Front, Ledger!Last, Front, Last
    <3> QED BY <3>3 DEF Ledger!LNext
  <2>7. CASE Spoil
    <3>1. InHand' = 0
      BY <2>7 DEF Spoil
    <3>2. Released' = Released \union {IdOf(Last(memory))}
      BY <2>1, <2>5, <3>1 DEF Released
    <3>3. Ledger!Spoil
      BY <2>1, <2>2, <2>3, <3>1, <3>2 
      DEF Released, Ids, Ledger!Spoil, Ledger!Nobody, Ledger!Front, Ledger!Last, Front, Last
    <3> QED BY <3>3 DEF Ledger!LNext
  <2> QED BY <1>4, <2>6, <2>7
<1>5. CASE Take
  <2>1. /\ InHand = 0 /\ cycle' = cycle + 1 /\ InHand' = cycle + 1
        /\ memory' = memory /\ StoredIds' = StoredIds
    BY <1>0, <1>5 DEF Take, Numbered, StoredIds
  <2>2. Released' = Released
    BY <1>0, <2>1 DEF Released
  <2>3. Ids(memory)' = Ids(memory)
    BY <2>1 DEF Ids
  <2>4. Ledger!Take
    BY <2>1, <2>2, <2>3 DEF Released, Ids, Ledger!Take, Ledger!Nobody
  <2> QED BY <2>4 DEF Ledger!LNext
<1>6. CASE Wipe
  <2>1. cycle' = cycle + 1 /\ InHand' = cycle + 1 /\ memory' = <<>> /\ StoredIds' = {}
    BY <1>6 DEF Wipe, StoredIds
  <2>2. Released' = Released \union (1 .. cycle)
    BY <1>0, <2>1 DEF Released
  <2>3. Ids(memory)' = <<>>
    BY <2>1 DEF Ids
  <2>4. Ledger!Wipe
    BY <2>1, <2>2, <2>3 DEF Released, Ids, Ledger!Wipe
  <2> QED BY <2>4 DEF Ledger!LNext
<1> QED
  BY <1>0, <1>1, <1>2, <1>3, <1>4, <1>5, <1>6, ReportStep

(* For any EEPROM, any faults and any number of wake-ups and restarts, what  *)
(* the state machine does with its reports is one report in hand and a       *)
(* bounded stack for the others.                                             *)
THEOREM TrackerImplementsLedger == Spec => ImplementsLedger
<1>1. Init => Ledger!LInit
  BY ParametersAssumption DEF Init, Ledger!LInit, InHand
<1>2. Init => Ordered
  BY OrderedInit
<1>3. Ordered /\ [Next]_vars => Ordered' /\ [Ledger!LNext]_(Ledger!lvars)
  BY OrderedStep, LedgerStep
<1> QED BY <1>1, <1>2, <1>3, PTL DEF Spec, ImplementsLedger, Ledger!LSpec

-----------------------------------------------------------------------------
(* Reports of one moment.  What a state has measured so far belongs to the   *)
(* wake-up that measured the battery, and a reloaded report brings all its   *)
(* values along.                                                             *)

(* The values of a report of one moment. *)
OfOneMoment(kind, values) ==
    \A f \in FieldsOf[kind] :
        \/ f \in {"cell", "band"}
        \/ f = "imu" /\ kind = "GNSS"
        \/ f = "imu" /\ kind = "MNGNSS" /\ values[f] = Garbage
        \/ values[f] = values["battery"]

MeasuringStates == {"GettingGNSSPosition", "ConnectingToMobileNetwork",
                    "GatheringCellInformation", "GatheringInertialData",
                    "ExchangingLoRaMessages"}

(* What has been measured where, on the way to a report. *)
Fresh ==
    /\ state \in {"CalibratingInertialSensor", "SensingBatteryStatus"} => data["event"] = cycle
    /\ state \in MeasuringStates => data["battery"] = cycle /\ data["event"] = cycle
    /\ state \in {"ConnectingToMobileNetwork", "GatheringInertialData",
                   "ExchangingLoRaMessages"}
       /\ status \in {"GNSS_OBTAIN", "GNSS_OBTAIN_CONNECTED", "GNSS_OBTAIN_TRYING_LORA"}
          => data["gnss"] = cycle
    /\ state = "GatheringInertialData" /\ status = "GNSS_UNAVAILABLE_CONNECTED"
          => data["neighbors"] = cycle
    /\ state \in {"FormattingMessage", "ExchangingMessages"} => OfOneMoment(FormatOf[status].kind, data)
    /\ state = "FormattingMessage" /\ status \in LoRaStatuses
          => data["battery"] = cycle /\ data["event"] = cycle
    /\ state = "FormattingMessage" /\ status = "GNSS_OBTAIN_TRYING_LORA"
          => data["gnss"] = cycle

Dated == Typed /\ Fresh /\ OneCycleReports

(* What each status is formatted as, and the fields of each kind. *)
LEMMA KindsFormatted ==
    /\ FormatOf["GNSS_OBTAIN_CONNECTED"].kind = "MNGNSS"
    /\ FormatOf["GNSS_UNAVAILABLE_CONNECTED"].kind = "MNMN"
    /\ FormatOf["GNSS_OBTAIN_TRYING_LORA"].kind = "LORAGNSS"
    /\ FormatOf["GNSS_UNAVAILABLE_TRYING_LORA"].kind = "LORALORA"
    /\ FormatOf["GNSS_OBTAIN_SAVING"].kind = "GNSS"
    /\ FormatOf["GATHERED_INERTIAL_INFO_SAVING"].kind = "IMU"
    /\ \A k \in StoredKinds : FormatOf[ReloadedStatus[k]].kind = k
    /\ \A k \in StoredKinds : ReloadedStatus[k] \notin LoRaStatuses
    /\ \A s \in OnlineStatuses \union ReloadStatuses :
          /\ FormatOf[UnsentStatus[s]].kind = FormatOf[s].kind
          /\ UnsentStatus[s] \notin LoRaStatuses
  BY DEF FormatOf, StoredKinds, ReloadedStatus, UnsentStatus, OnlineStatuses,
         ReloadStatuses, LoRaStatuses

LEMMA FieldsOfKinds ==
    /\ FieldsOf["MNGNSS"] = {"event", "battery", "imu", "gnss", "cell", "band"}
    /\ FieldsOf["MNMN"] = {"event", "battery", "imu", "cell", "band", "neighbors"}
    /\ FieldsOf["GNSS"] = {"event", "battery", "imu", "gnss"}
    /\ FieldsOf["IMU"] = {"event", "battery", "imu", "samples"}
    /\ FieldsOf["LORAGNSS"] = {"event", "battery", "imu", "gnss"}
    /\ FieldsOf["LORALORA"] = {"event", "battery", "imu"}
  BY DEF FieldsOf, CommonFields

(* A report that comes back from the EEPROM is still of one moment: what its *)
(* text does not restore is what OfOneMoment leaves out.                     *)
LEMMA ReloadedIsOfOneMoment ==
    ASSUME NEW report \in Reports, report.kind \in StoredKinds, OneCycle(report),
           data \in [Fields -> Origins], data' = Parsed(report)
    PROVE  OfOneMoment(report.kind, data')
<1> DEFINE k == report.kind
<1>1. FieldsOf[k] \subseteq Fields /\ "battery" \in FieldsOf[k]
  BY ReportFields, KindsOfReports
<1>2. "battery" \in RestoredParts[k]
  BY <1>1, FieldsComeBack
<1>3. data'["battery"] = IdOf(report)
  BY <1>1, <1>2 DEF Parsed, IdOf
<1>4. ASSUME NEW f \in FieldsOf[k], f \notin {"cell", "band"},
             ~(f = "imu" /\ k = "GNSS")
      PROVE  \/ f = "imu" /\ k = "MNGNSS" /\ data'[f] = Garbage
             \/ data'[f] = data'["battery"]
  <2>1. CASE f \in RestoredParts[k]
    <3>1. data'[f] = report.from[f]
      BY <1>1, <1>4, <2>1 DEF Parsed
    <3>2. \/ f = "imu" /\ k = "MNGNSS" /\ report.from[f] = Garbage
          \/ report.from[f] = IdOf(report)
      BY <1>4 DEF OneCycle
    <3> QED BY <1>3, <3>1, <3>2
  <2>2. CASE f \notin RestoredParts[k]
    <3>1. k = "MNGNSS" /\ f = "imu"
      BY <1>4, <2>2, FieldsComeBack
    <3>2. data'[f] = Garbage
      BY <1>1, <1>4, <2>2 DEF Parsed
    <3> QED BY <3>1, <3>2
  <2> QED BY <2>1, <2>2
<1> QED BY <1>4 DEF OfOneMoment

(* Each state adds what its wake-up measured. *)
LEMMA FreshStep ==
    ASSUME Dated, [Next]_vars
    PROVE  Fresh'
<1> USE DEF Dated, Typed, TypeOK, changeState, MeasuringStates
<1>1. CASE calibrateIMU
  BY <1>1 DEF calibrateIMU, Fresh
<1>2. CASE measureBattery
  BY <1>2 DEF measureBattery, Fresh, Fields
<1>3. CASE obtainGNSSPosition
  <2>1. data["battery"] = cycle /\ data["event"] = cycle
    BY <1>3 DEF obtainGNSSPosition, Fresh
  <2>2. data' = [data EXCEPT !["gnss"] = cycle] =>
          data'["gnss"] = cycle /\ data'["battery"] = cycle /\ data'["event"] = cycle
    BY <2>1 DEF Fields
  <2>3. status' = "GNSS_OBTAIN_SAVING" \/ status' = "GNSS_OBTAIN" => data'["gnss"] = cycle
    BY <1>3, <2>2 DEF obtainGNSSPosition
  <2>4. data'["battery"] = cycle /\ data'["event"] = cycle /\ cycle' = cycle
    BY <1>3, <2>1, <2>2 DEF obtainGNSSPosition
  <2>5. \/ state' = "FormattingMessage" /\ status' = "GNSS_OBTAIN_SAVING"
        \/ state' = "ConnectingToMobileNetwork" /\ status' \in ConnectStatuses
        \/ state' = "GatheringInertialData" /\ status' = "GATHERING_INERTIAL_INFO"
    BY <1>3 DEF obtainGNSSPosition, ConnectStatuses
  <2>6. state' = "FormattingMessage" => OfOneMoment("GNSS", data')
    BY <2>3, <2>4, <2>5, FieldsOfKinds DEF OfOneMoment
  <2> QED BY <2>3, <2>4, <2>5, <2>6, KindsFormatted DEF Fresh, ConnectStatuses, LoRaStatuses
<1>4. CASE connected
  <2>1. /\ data'["battery"] = data["battery"] /\ data'["event"] = data["event"]
        /\ data'["gnss"] = data["gnss"] /\ cycle' = cycle
    BY <1>4 DEF connected, Fields
  <2>2. \/ status = "GNSS_OBTAIN" /\ state' = "GatheringInertialData"
           /\ status' = "GNSS_OBTAIN_CONNECTED"
        \/ state' = "GatheringCellInformation" /\ status' = "NONE"
    BY <1>4 DEF connected
  <2> QED BY <1>4, <2>1, <2>2 DEF connected, Fresh
<1>5. CASE connectionFailed
  BY <1>5 DEF connectionFailed, Fresh, ConnectStatuses
<1>6. CASE modemTurnedOff
  BY <1>6 DEF modemTurnedOff, Fresh, LoRaStatuses
<1>7. CASE obtainNeighborCellsInformation
  BY <1>7 DEF obtainNeighborCellsInformation, Fresh, Fields
<1>8. CASE obtainInertialMeasures
  <2>1. /\ data'["battery"] = cycle /\ data'["event"] = cycle /\ data'["imu"] = cycle
        /\ data'["gnss"] = data["gnss"] /\ data'["neighbors"] = data["neighbors"]
        /\ cycle' = cycle /\ state' = "FormattingMessage"
    BY <1>8 DEF obtainInertialMeasures, Fresh, Fields
  <2>2. CASE status = "GATHERING_INERTIAL_INFO"
    <3>1. status' = "GATHERED_INERTIAL_INFO_SAVING" /\ data'["samples"] = cycle
      BY <1>8, <2>2 DEF obtainInertialMeasures, Fields
    <3>2. OfOneMoment("IMU", data')
      BY <2>1, <3>1, FieldsOfKinds DEF OfOneMoment
    <3> QED BY <2>1, <3>1, <3>2, KindsFormatted DEF Fresh, LoRaStatuses
  <2>3. CASE status # "GATHERING_INERTIAL_INFO"
    <3>1. status' = status /\ status \in OnlineStatuses \union LoRaStatuses
      BY <1>8, <2>3 DEF obtainInertialMeasures, StatusFits
    <3>2. /\ status \in {"GNSS_OBTAIN_CONNECTED", "GNSS_OBTAIN_TRYING_LORA"} => data'["gnss"] = cycle
          /\ status = "GNSS_UNAVAILABLE_CONNECTED" => data'["neighbors"] = cycle
      BY <1>8, <2>1 DEF obtainInertialMeasures, Fresh
    <3>3. OfOneMoment(FormatOf[status].kind, data')
      <4>1. CASE status = "GNSS_OBTAIN_CONNECTED"
        <5>1. OfOneMoment("MNGNSS", data')
          BY <2>1, <3>2, <4>1, FieldsOfKinds DEF OfOneMoment
        <5> QED BY <4>1, <5>1, KindsFormatted
      <4>2. CASE status = "GNSS_UNAVAILABLE_CONNECTED"
        <5>1. OfOneMoment("MNMN", data')
          BY <2>1, <3>2, <4>2, FieldsOfKinds DEF OfOneMoment
        <5> QED BY <4>2, <5>1, KindsFormatted
      <4>3. CASE status = "GNSS_OBTAIN_TRYING_LORA"
        <5>1. OfOneMoment("LORAGNSS", data')
          BY <2>1, <3>2, <4>3, FieldsOfKinds DEF OfOneMoment
        <5> QED BY <4>3, <5>1, KindsFormatted
      <4>4. CASE status = "GNSS_UNAVAILABLE_TRYING_LORA"
        <5>1. OfOneMoment("LORALORA", data')
          BY <2>1, <3>2, <4>4, FieldsOfKinds DEF OfOneMoment
        <5> QED BY <4>4, <5>1, KindsFormatted
      <4> QED BY <3>1, <4>1, <4>2, <4>3, <4>4 DEF OnlineStatuses, LoRaStatuses
    <3>4. OfOneMoment(FormatOf[status'].kind, data')
      BY <3>1, <3>3
    <3> QED BY <2>1, <3>1, <3>2, <3>4 DEF Fresh
  <2> QED BY <2>2, <2>3
<1>9. CASE formatMessage
  <2>1. UNCHANGED <<data, cycle>> /\ state = "FormattingMessage"
    BY <1>9 DEF formatMessage
  <2>2. \/ state' = "SavingMessage" /\ status' = "NONE"
        \/ /\ state' = "ExchangingMessages" \/ state' = "ExchangingLoRaMessages"
           /\ status' = status
    BY <1>9, FormatTable DEF formatMessage
  <2>3. state' = "ExchangingLoRaMessages" => status \in LoRaStatuses
    BY <1>9, FormatTable DEF formatMessage
  <2>4. OfOneMoment(FormatOf[status].kind, data')
    BY <2>1 DEF Fresh, OfOneMoment
  <2> QED BY <2>1, <2>2, <2>3, <2>4 DEF Fresh, LoRaStatuses
<1>10. CASE exchangeFailed
  <2>1. UNCHANGED <<data, cycle>> /\ state' = "FormattingMessage" /\ state = "ExchangingMessages"
    BY <1>10 DEF exchangeFailed, InExchange
  <2>2. FormatOf[status'].kind = FormatOf[status].kind /\ status' \notin LoRaStatuses
    BY <1>10, KindsFormatted DEF exchangeFailed, InExchange
  <2>3. OfOneMoment(FormatOf[status'].kind, data')
    BY <2>1, <2>2 DEF Fresh, OfOneMoment
  <2> QED BY <2>1, <2>2, <2>3 DEF Fresh, LoRaStatuses
<1>11. CASE loRaTimedOut
  <2>1. UNCHANGED <<data, cycle>> /\ data["battery"] = cycle /\ data["event"] = cycle
    BY <1>11 DEF loRaTimedOut, Fresh
  <2>2. \/ state' = "FormattingMessage" /\ status' = "GNSS_OBTAIN_SAVING"
           /\ data["gnss"] = cycle
        \/ state' = "GatheringInertialData" /\ status' = "GATHERING_INERTIAL_INFO"
    BY <1>11 DEF loRaTimedOut, Fresh
  <2>3. state' = "FormattingMessage" => OfOneMoment("GNSS", data')
    BY <2>1, <2>2, FieldsOfKinds DEF OfOneMoment
  <2> QED BY <2>1, <2>2, <2>3, KindsFormatted DEF Fresh, LoRaStatuses
<1>12. CASE loadMessage
  <2> DEFINE r == Last(memory)
  <2>1. r \in Reports /\ Len(memory) \in DOMAIN memory /\ r = memory[Len(memory)]
    BY <1>12, FrontLast DEF loadMessage
  <2>2. r.kind \in StoredKinds /\ OneCycle(r)
    BY <2>1 DEF MessageInHand, OneCycleReports
  <2>3. OfOneMoment(r.kind, data')
    BY <1>12, <2>1, <2>2, ReloadedIsOfOneMoment DEF loadMessage
  <2>4. state' = "FormattingMessage" /\ status' = ReloadedStatus[r.kind]
    BY <1>12 DEF loadMessage
  <2>5. FormatOf[status'].kind = r.kind /\ status' \notin LoRaStatuses
    BY <2>2, <2>4, KindsFormatted
  <2>6. OfOneMoment(FormatOf[status'].kind, data')
    BY <1>12, <2>3, <2>5 DEF loadMessage, OfOneMoment
  <2> QED BY <2>4, <2>5, <2>6 DEF Fresh, LoRaStatuses
<1>13. CASE pursue
  BY <1>13 DEF pursue, updateMovementEvent, Fresh, Fields
<1>14. CASE awake
  BY <1>14 DEF awake, updateMovementEvent, Fresh, Fields
<1>15. CASE restart
  BY <1>15 DEF restart, NothingMeasured, Fresh, Fields
<1>16. CASE replyAccepted \/ noReplyRead \/ loRaAcknowledged \/ saveMessage \/
          nothingToLoad \/ unreadableMessage \/ goToSleep
  BY <1>16 DEF replyAccepted, noReplyRead, loRaAcknowledged, saveMessage,
         nothingToLoad, unreadableMessage, goToSleep, Fresh
<1>17. CASE startStopUpdate \/ UNCHANGED vars
  <2>1. UNCHANGED <<state, status, data, cycle>>
    BY <1>17 DEF startStopUpdate, vars, machine
  <2> QED BY <2>1 DEF Fresh, OfOneMoment
<1> QED
  BY <1>1, <1>2, <1>3, <1>4, <1>5, <1>6, <1>7, <1>8, <1>9, <1>10, <1>11,
     <1>12, <1>13, <1>14, <1>15, <1>16, <1>17 DEF Next

(* A formatted report has the values in hand. *)
LEMMA FormattedIsOneCycle ==
    ASSUME NEW k \in Kinds, NEW values, OfOneMoment(k, values)
    PROVE  OneCycle([kind |-> k, from |-> [f \in FieldsOf[k] |-> values[f]]])
<1> DEFINE r == [kind |-> k, from |-> [f \in FieldsOf[k] |-> values[f]]]
<1>1. r.kind = k /\ \A f \in FieldsOf[k] : r.from[f] = values[f]
  OBVIOUS
<1>2. IdOf(r) = values["battery"]
  BY <1>1, KindsOfReports DEF IdOf
<1> HIDE DEF r
<1>3. OneCycle(r)
  BY <1>1, <1>2 DEF OneCycle, OfOneMoment
<1> QED BY <1>3 DEF r

(* Reports are only made of values of one moment, and only moved about then. *)
LEMMA OneCycleStep ==
    ASSUME Dated, [Next]_vars
    PROVE  OneCycleReports'
<1> USE DEF Dated, Typed, TypeOK
<1>1. CASE formatMessage
  <2> DEFINE k == FormatOf[status].kind
  <2>1. k \in Kinds /\ OfOneMoment(k, data)
    BY <1>1, FormatTable DEF formatMessage, Fresh
  <2>2. message' = [kind |-> k, from |-> [f \in FieldsOf[k] |-> data[f]]]
        /\ memory' = memory
    BY <1>1 DEF formatMessage
  <2>3. OneCycle(message')
    BY <2>1, <2>2, FormattedIsOneCycle
  <2> QED BY <2>2, <2>3 DEF OneCycleReports
<1>2. CASE saveMessage
  <2>1. message \in Reports /\ message # NoReport /\ message' = message
    BY <1>2 DEF saveMessage, MessageInHand
  <2>2. CASE Len(memory) < Capacity
    <3>1. memory' = Append(memory, message)
      BY <1>2, <2>2 DEF saveMessage
    <3>2. \A i \in DOMAIN memory' : \/ i \in DOMAIN memory /\ memory'[i] = memory[i]
                                    \/ memory'[i] = message
      BY <2>1, <3>1, AppendTo
    <3> QED BY <2>1, <3>2 DEF OneCycleReports
  <2>3. CASE ~ (Len(memory) < Capacity)
    BY <1>2, <2>1, <2>3 DEF saveMessage, OneCycleReports
  <2> QED BY <2>2, <2>3
<1>3. CASE loadMessage \/ unreadableMessage
  <2>1. memory' = Front(memory) /\ memory # <<>>
        /\ (message' = Last(memory) \/ message' = NoReport)
    BY <1>3 DEF loadMessage, unreadableMessage
  <2>2. /\ DOMAIN Front(memory) = 1 .. Len(memory) - 1
        /\ DOMAIN memory = 1 .. Len(memory) /\ Len(memory) \in Nat \ {0}
        /\ \A i \in 1 .. Len(memory) - 1 : Front(memory)[i] = memory[i]
        /\ Last(memory) = memory[Len(memory)]
    BY <2>1, FrontLast
  <2>3. \A i \in DOMAIN memory' : i \in DOMAIN memory /\ memory'[i] = memory[i]
    BY <2>1, <2>2
  <2>4. Len(memory) \in DOMAIN memory /\ Last(memory) = memory[Len(memory)]
    BY <2>2
  <2> QED BY <2>1, <2>3, <2>4 DEF OneCycleReports
<1>4. CASE restart
  BY <1>4 DEF restart, OneCycleReports
<1>5. CASE calibrateIMU \/ startStopUpdate \/ measureBattery \/
          obtainGNSSPosition \/ connected \/ connectionFailed \/
          modemTurnedOff \/ obtainNeighborCellsInformation \/
          obtainInertialMeasures \/ replyAccepted \/ noReplyRead \/
          exchangeFailed \/ loRaAcknowledged \/ loRaTimedOut \/
          nothingToLoad \/ pursue \/ goToSleep \/ awake \/ UNCHANGED vars
  <2>1. UNCHANGED <<message, memory>>
    BY <1>5 DEF calibrateIMU, startStopUpdate, measureBattery,
         obtainGNSSPosition, connected, connectionFailed, modemTurnedOff,
         obtainNeighborCellsInformation, obtainInertialMeasures,
         replyAccepted, noReplyRead, exchangeFailed, loRaAcknowledged,
         loRaTimedOut, nothingToLoad, pursue, goToSleep, awake, vars, machine
  <2> QED BY <2>1 DEF OneCycleReports
<1> QED BY <1>1, <1>2, <1>3, <1>4, <1>5 DEF Next

(* A report never mixes the values of two wake-ups, however many older       *)
(* reports were loaded over the data objects since it was measured.          *)
THEOREM ReportsOfOneCycle == Spec => []OneCycleReports
<1>1. Init => Dated
  <2> SUFFICES ASSUME Init PROVE Dated
    OBVIOUS
  <2>1. Fresh /\ OneCycleReports
    <3>1. data["event"] = cycle
      BY DEF Init, NothingMeasured, Fields
    <3>2. Fresh
      BY <3>1 DEF Init, Fresh, MeasuringStates
    <3> QED BY <3>2 DEF Init, OneCycleReports
  <2> QED BY <2>1, TypedInit DEF Dated
<1>2. Dated /\ [Next]_vars => Dated'
  <2> SUFFICES ASSUME Dated, [Next]_vars PROVE Dated'
    OBVIOUS
  <2>1. Typed'
    BY TypedStep DEF Dated
  <2> QED BY <2>1, FreshStep, OneCycleStep DEF Dated
<1>3. Dated => OneCycleReports
  BY DEF Dated
<1> QED BY <1>1, <1>2, <1>3, PTL DEF Spec

===============================================================================
