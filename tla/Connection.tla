----------------------------- MODULE Connection -----------------------------
(***************************************************************************)
(* Connecting to the mobile network and listing the neighbour cells: the   *)
(* connection states of CellularModule, through which a chain of AT        *)
(* commands passes.  A state sends its command, waits for its line of      *)
(* information (if it wants one) and for an OK, and sends the command again *)
(* after a time-out; when its attempts are used up the tracker turns the   *)
(* modem off, but the state object stays and the next wake-up goes on with *)
(* it.  An OK does not say which command it answers.                       *)
(*                                                                         *)
(* A call of a handler sends, reads at most one line and looks at the      *)
(* timer, in this order; each of these is a step here, so a call is one to *)
(* three steps in a row.  The modem is the environment: it takes commands  *)
(* in order, late or never.                                                *)
(***************************************************************************)
EXTENDS Integers, Sequences

CONSTANTS
    MaxWakeUps,         \* bound on the wake-ups
    MaxAttempts,        \* time-outs a state allows itself (20)
    MaxSignalAttempts,  \* those of CheckingSignalStrength (40)
    MaxPoorSignals,     \* MAX_ATTEMPTS_TO_GET_SIGNAL (20)
    MaxTimeOuts,        \* MAX_TIMEOUT_RETRIES of the neighbours' list (15)
    MaxRows, MaxCells,  \* MAX_ROWS_TO_READ (30), MAX_CELLS_ON_VECTOR (12)
    MaxPending,         \* bound on the commands the modem has not answered
    MaxLines,           \* bound on the lines the serial buffer holds
    Cards,              \* slots that hold a SIM card
    Lists               \* lists of rows the modem may answer AT+QOPS with

ASSUME ConnectionAssumption ==
    /\ MaxWakeUps \in Nat \ {0} /\ MaxAttempts \in Nat \ {0}
    /\ MaxSignalAttempts \in Nat \ {0} /\ MaxPoorSignals \in Nat \ {0}
    /\ MaxTimeOuts \in Nat /\ MaxRows \in Nat \ {0} /\ MaxCells \in Nat \ {0}
    /\ MaxPending \in Nat \ {0} /\ MaxLines \in Nat \ {0}
    /\ Cards \subseteq {1, 2}
    /\ \A l \in Lists : l \in Seq({"OPERATOR", "CELL"} \X Nat)

(* The states that fill a field of currentCellInformation. *)
Fields == {"CheckingSignalStrength", "ConsultingIMEI", "ConsultingNetworkStatus",
           "ConsultingAvailableOperators", "RetrievingTimeAndDate"}

States == Fields \union {"ConnectionUnavailableState", "IdleState",
    "ConsultingSIMCardStatus", "AttachingToPacketService", "DefinePDPContext", "ConnectedState"}

(* Lines, and what is read from one of information: whether it says what the *)
(* state hopes for, and the wake-up in which the modem said it.              *)
OK == [kind |-> "OK"]
Error == [kind |-> "ERROR"]
NoSimCard == [kind |-> "NO_SIM"]
Info(of, good, at) == [kind |-> "INFO", of |-> of, value |-> [good |-> good, at |-> at]]
NoValue == [good |-> FALSE, at |-> 0]

VARIABLES
    wakeUp,         \* number of the wake-up
    phase,          \* what the tracker is doing with the module
    state,          \* currentConnectionState
    object,         \* members of that object
    cell,           \* currentCellInformation, by the state that fills it
    scan,           \* static variables of retrivNeighborCellsInformation()
    neighbors,      \* neighborsCellInformation
    input,          \* lines in the serial buffer
    sim             \* slot selected by simCardSwitchOutput

(* The modem, and what properties look at. *)
VARIABLES
    pending,        \* commands sent and not answered
    network,        \* what the modem has done since it was turned on
    begun,          \* wake-up in which this chain of states began
    late            \* whether a time-out of the chain overtook an answer

module == <<state, object, cell, sim>>
list == <<scan, neighbors>>
modem == <<pending, network>>
history == <<begun, late>>
vars == <<wakeUp, phase, module, list, input, modem, history>>

(* A new state object. *)
New == [readyToSend |-> TRUE, retrieved |-> FALSE, value |-> NoValue,
        connectionAttempts |-> 0, poorSignals |-> 0]

NoScan == [vectorCleared |-> FALSE, readyToSend |-> TRUE, rows |-> <<>>,
           counterTimeOut |-> 0, operator |-> 0]

Off == [attached |-> FALSE, context |-> FALSE]

Init ==
    /\ wakeUp = 1 /\ phase = "connecting"
    /\ state = "ConnectionUnavailableState" /\ object = New
    /\ cell = [f \in Fields |-> NoValue] /\ sim = 1
    /\ scan = NoScan /\ neighbors = <<>>
    /\ input = <<>> /\ pending = <<>> /\ network = Off
    /\ begun = 1 /\ late = FALSE

-----------------------------------------------------------------------------
(* sendATCommand(); a bounded number of commands waits, further ones are lost *)
sendATCommand(commands) ==
    LET all == pending \o commands
    IN  pending' = SubSeq(all, 1, IF Len(all) < MaxPending THEN Len(all) ELSE MaxPending)

(* readATResponse(), once the characters of a line are there. *)
readATResponse(line) == line = Head(input) /\ input' = Tail(input)

changeConnectionState(next) == state' = next /\ object' = New

Connecting(s) == phase = "connecting" /\ state = s

(* readyToSend *)
Send(commands) ==
    /\ object.readyToSend
    /\ sendATCommand(commands)
    /\ object' = [object EXCEPT !.readyToSend = FALSE]
    /\ UNCHANGED <<wakeUp, phase, state, cell, sim, list, input, network, history>>

(* The members of the object when its timer has elapsed.  "kept": the line   *)
(* of information retrieved before still counts.                             *)
TimedOut(kept) ==
    [object EXCEPT !.readyToSend = TRUE,
                   !.retrieved = kept /\ @,
                   !.connectionAttempts = @ + 1]

Overtakes == pending # <<>> \/ input # <<>>

(* Mutant: time-outs are not counted. *)
timeOut_Uncounted(max, next, kept) ==
    /\ ~object.readyToSend
    /\ late' = (late \/ Overtakes)
    /\ object' = [TimedOut(kept) EXCEPT !.connectionAttempts = 0]
    /\ UNCHANGED phase
    /\ UNCHANGED <<wakeUp, state, cell, sim, list, input, modem, begun>>

(* refreshTime->read(): after max time-outs the call returns a failure, with *)
(* next as the number of attempts from which a later wake-up goes on.        *)
timeOut(max, next, kept) ==
    /\ ~object.readyToSend
    /\ late' = (late \/ Overtakes)
    /\ IF object.connectionAttempts + 1 >= max
       THEN /\ object' = [TimedOut(kept) EXCEPT !.connectionAttempts = next]
            /\ phase' = "turning off"
       ELSE object' = TimedOut(kept) /\ UNCHANGED phase
    /\ UNCHANGED <<wakeUp, state, cell, sim, list, input, modem, begun>>

(* Mutant: any line confirms the command. *)
AwaitOK_AnyLine(next) ==
    /\ input # <<>> /\ readATResponse(Head(input))
    /\ changeConnectionState(next)
    /\ UNCHANGED <<wakeUp, phase, cell, sim, list, modem, history>>

(* States that wait for an OK only. *)
AwaitOK(next) ==
    /\ input # <<>> /\ readATResponse(Head(input))
    /\ IF Head(input) = OK THEN changeConnectionState(next) ELSE UNCHANGED <<state, object>>
    /\ UNCHANGED <<wakeUp, phase, cell, sim, list, modem, history>>

(* States that wait for a line of information first ... *)
AwaitInfo ==
    /\ ~object.retrieved
    /\ input # <<>> /\ readATResponse(Head(input))
    /\ object' = IF Head(input).kind = "INFO" /\ Head(input).of = state
                 THEN [object EXCEPT !.retrieved = TRUE, !.value = Head(input).value]
                 ELSE object
    /\ UNCHANGED <<wakeUp, phase, state, cell, list, modem, history>>

(* ... and for an OK behind it, when the field is filled (if store) and the  *)
(* next state entered (if pass).                                             *)
AwaitOKBehind(store, pass, next) ==
    /\ object.retrieved
    /\ input # <<>> /\ readATResponse(Head(input))
    /\ cell' = IF Head(input) = OK /\ store THEN [cell EXCEPT ![state] = object.value] ELSE cell
    /\ IF Head(input) = OK /\ pass
       THEN changeConnectionState(next) ELSE UNCHANGED <<state, object>>
    /\ UNCHANGED <<wakeUp, phase, sim, list, modem, history>>

-----------------------------------------------------------------------------
(* The connection states *)

enableConnection ==
    /\ Connecting("ConnectionUnavailableState")
    /\ changeConnectionState("IdleState")
    /\ begun' = wakeUp /\ late' = Overtakes
    /\ UNCHANGED <<wakeUp, phase, cell, sim, list, input, modem>>

(* IdleState does not reset its attempts when it gives up. *)
idle ==
    /\ Connecting("IdleState")
    /\ \/ Send(<<"ATI">>)
       \/ AwaitOK("CheckingSignalStrength")
       \/ timeOut(MaxAttempts, object.connectionAttempts + 1, FALSE)

(* Too weak a signal is asked for again; this count is not reset.            *)
poorSignal ==
    /\ object.retrieved /\ ~object.value.good
    /\ input # <<>> /\ readATResponse(OK)
    /\ IF object.poorSignals + 1 >= MaxPoorSignals
       THEN /\ object' = [object EXCEPT !.poorSignals = @ + 1, !.connectionAttempts = 0]
            /\ phase' = "turning off"
       ELSE object' = [object EXCEPT !.poorSignals = @ + 1] /\ UNCHANGED phase
    /\ UNCHANGED <<wakeUp, state, cell, sim, list, modem, history>>

checkingSignalStrength ==
    /\ Connecting("CheckingSignalStrength")
    /\ \/ Send(<<"AT+CSQ">>)
       \/ AwaitInfo /\ UNCHANGED sim
       \/ /\ input # <<>> /\ (object.value.good \/ Head(input) # OK)
          /\ AwaitOKBehind(TRUE, TRUE, "ConsultingIMEI")
       \/ poorSignal
       \/ timeOut(MaxSignalAttempts, 0, FALSE)

consultingIMEI ==
    /\ Connecting("ConsultingIMEI")
    /\ \/ Send(<<"AT+CGSN">>)
       \/ AwaitInfo /\ UNCHANGED sim
       \/ AwaitOKBehind(TRUE, TRUE, "ConsultingSIMCardStatus")
       \/ timeOut(MaxAttempts, 0, FALSE)

(* switchSIMCARD() *)
SwitchesOn(line) == line = NoSimCard

consultingSIMCardStatus ==
    /\ Connecting("ConsultingSIMCardStatus")
    /\ \/ Send(<<"AT+CPIN?">>)
       \/ AwaitInfo /\ sim' = IF SwitchesOn(Head(input)) THEN 3 - sim ELSE sim
       \/ AwaitOKBehind(FALSE, TRUE, "ConsultingNetworkStatus")
       \/ timeOut(MaxAttempts, 0, FALSE)

(* The field is filled although the modem may not be registered.             *)
consultingNetworkStatus ==
    /\ Connecting("ConsultingNetworkStatus")
    /\ \/ Send(<<"AT+CREG=2", "AT+CREG?">>)
       \/ AwaitInfo /\ UNCHANGED sim
       \/ AwaitOKBehind(TRUE, object.value.good, "ConsultingAvailableOperators")
       \/ timeOut(MaxAttempts, 0, FALSE)

(* Mutant: the operator's data are not put in the cell information. *)
consultingAvailableOperators_NotStored ==
    /\ Connecting("ConsultingAvailableOperators")
    /\ \/ Send(<<"AT+QNWINFO">>)
       \/ AwaitInfo /\ UNCHANGED sim
       \/ AwaitOKBehind(FALSE, TRUE, "RetrievingTimeAndDate")
       \/ timeOut(MaxAttempts, 0, TRUE)

(* This state and the next keep what they retrieved over a time-out.         *)
consultingAvailableOperators ==
    /\ Connecting("ConsultingAvailableOperators")
    /\ \/ Send(<<"AT+QNWINFO">>)
       \/ AwaitInfo /\ UNCHANGED sim
       \/ AwaitOKBehind(TRUE, TRUE, "RetrievingTimeAndDate")
       \/ timeOut(MaxAttempts, 0, TRUE)

retrievingTimeAndDate ==
    /\ Connecting("RetrievingTimeAndDate")
    /\ \/ Send(<<"AT+QLTS=1">>)
       \/ AwaitInfo /\ UNCHANGED sim
       \/ AwaitOKBehind(TRUE, TRUE, "AttachingToPacketService")
       \/ timeOut(MaxAttempts, 0, TRUE)

attachingToPacketService ==
    /\ Connecting("AttachingToPacketService")
    /\ \/ Send(<<"AT+CGATT=1">>)
       \/ AwaitOK("DefinePDPContext")
       \/ timeOut(MaxAttempts, 0, FALSE)

definePDPContext ==
    /\ Connecting("DefinePDPContext")
    /\ \/ Send(<<"AT+CGDCONT">>)
       \/ AwaitOK("ConnectedState")
       \/ timeOut(MaxAttempts, 0, FALSE)

(* CELLULAR_CONNECTION_STATUS_CONNECTED_TO_NETWORK: the neighbours' list is  *)
(* made unless there is a position.                                          *)
connected ==
    /\ Connecting("ConnectedState")
    /\ phase' \in {"listing", "exchanging"}
    /\ UNCHANGED <<wakeUp, module, list, input, modem, history>>

-----------------------------------------------------------------------------
(* ConnectedState::retrivNeighborCellsInformation() *)

Listing == phase = "listing" /\ UNCHANGED <<wakeUp, module, network, history>>

(* !vectorCleared, and the command. *)
askForCells ==
    /\ Listing
    /\ ~scan.vectorCleared \/ scan.readyToSend
    /\ neighbors' = IF scan.vectorCleared THEN neighbors ELSE <<>>
    /\ IF scan.readyToSend THEN sendATCommand(<<"AT+QOPS">>) ELSE UNCHANGED pending
    /\ scan' = [scan EXCEPT !.vectorCleared = TRUE, !.readyToSend = FALSE]
    /\ UNCHANGED <<phase, input>>

Asked == scan.vectorCleared /\ ~scan.readyToSend

keepRow(row) == IF Len(scan.rows) < MaxRows THEN Append(scan.rows, row) ELSE scan.rows

(* A row is kept for the end of the list, as long as there is room.          *)
readRow ==
    /\ Listing /\ Asked
    /\ input # <<>> /\ readATResponse(Head(input)) /\ Head(input) # OK
    /\ scan' = [scan EXCEPT !.rows = keepRow(Head(input))]
    /\ UNCHANGED <<phase, neighbors, pending>>

(* retrivOperatorsCodes(), else retrivCellData(). *)
addRow(so, row) ==
    IF Len(so.cells) >= MaxCells THEN so
    ELSE CASE row.kind = "OPERATOR" -> [so EXCEPT !.operator = row.of]
           [] row.kind = "CELL" ->
                [so EXCEPT !.cells = Append(@, [row |-> row, operator |-> so.operator])]
           [] OTHER -> so

(* What the first i rows give: operator codes are static, they may be old.   *)
found[i \in 0 .. Len(scan.rows)] ==
    IF i = 0 THEN [operator |-> scan.operator, cells |-> neighbors]
    ELSE addRow(found[i - 1], scan.rows[i])

(* The list is complete.                                                     *)
endList ==
    /\ Listing /\ Asked
    /\ input # <<>> /\ readATResponse(OK)
    /\ neighbors' = found[Len(scan.rows)].cells
    /\ scan' = [NoScan EXCEPT !.operator = found[Len(scan.rows)].operator]
    /\ phase' = "exchanging"
    /\ UNCHANGED pending

(* Mutant: the rows of an unfinished list stay. *)
GiveUpList_RowsKept == [NoScan EXCEPT !.operator = scan.operator, !.rows = scan.rows]

GiveUpList == [NoScan EXCEPT !.operator = scan.operator]

listTimesOut ==
    /\ Listing /\ Asked
    /\ IF scan.counterTimeOut + 1 > MaxTimeOuts
       THEN scan' = GiveUpList /\ phase' = "exchanging"
       ELSE /\ scan' = [scan EXCEPT !.readyToSend = TRUE, !.counterTimeOut = @ + 1]
            /\ UNCHANGED phase
    /\ UNCHANGED <<neighbors, input, pending>>

-----------------------------------------------------------------------------
(* What becomes of lines nobody waits for: turnOff(), the exchange and the    *)
(* positioning read some of them.                                            *)
Drain == \E n \in 1 .. Len(input) + 1 : input' = SubSeq(input, n, Len(input))

(* CellularModule::exchangeMessages() with a final result; PowerManager.     *)
exchangeMessages ==
    /\ phase = "exchanging"
    /\ changeConnectionState("ConnectionUnavailableState")
    /\ phase' = "finished" /\ Drain
    /\ UNCHANGED <<wakeUp, cell, sim, list, modem, history>>

(* In pursuit the next cycle begins with the modem on. *)
pursue ==
    /\ phase = "finished" /\ wakeUp < MaxWakeUps
    /\ wakeUp' = wakeUp + 1 /\ phase' = "connecting" /\ Drain
    /\ UNCHANGED <<module, list, modem, history>>

goToSleep ==
    /\ phase = "finished"
    /\ phase' = "turning off"
    /\ UNCHANGED <<wakeUp, module, list, input, modem, history>>

turnedOff ==
    /\ phase = "turning off"
    /\ phase' = "off" /\ Drain
    /\ pending' = <<>> /\ network' = Off
    /\ UNCHANGED <<wakeUp, module, list, history>>

awake ==
    /\ phase = "off" /\ wakeUp < MaxWakeUps
    /\ wakeUp' = wakeUp + 1 /\ phase' = "connecting" /\ Drain
    /\ UNCHANGED <<module, list, modem, history>>

(* What the modem may say to a command. *)
InfoOf(command) ==
    CASE command = "AT+CSQ"     -> {Info("CheckingSignalStrength", good, wakeUp) : good \in BOOLEAN}
      [] command = "AT+CREG?"   -> {Info("ConsultingNetworkStatus", good, wakeUp) : good \in BOOLEAN}
      [] command = "AT+CGSN"    -> {Info("ConsultingIMEI", TRUE, wakeUp)}
      [] command = "AT+QNWINFO" -> {Info("ConsultingAvailableOperators", TRUE, wakeUp)}
      [] command = "AT+QLTS=1"  -> {Info("RetrievingTimeAndDate", TRUE, wakeUp)}
      [] command = "AT+CPIN?" /\ sim \in Cards ->
            {Info("ConsultingSIMCardStatus", TRUE, wakeUp)}
      [] OTHER -> {}

Row(r) == [kind |-> r[1], of |-> r[2], at |-> wakeUp]

Refused(command) ==
    IF command = "AT+CPIN?" /\ sim \notin Cards THEN <<NoSimCard>> ELSE <<Error>>

Accepted(command) ==
    CASE InfoOf(command) # {} -> {<<info, OK>> : info \in InfoOf(command)}
      [] command = "AT+QOPS"  -> {[i \in DOMAIN l |-> Row(l[i])] \o <<OK>> : l \in Lists}
      [] command = "AT+CPIN?" -> {}
      [] OTHER                -> {<<OK>>}

Answers(reply) ==
    /\ Len(input) + Len(reply) <= MaxLines
    /\ input' = input \o reply
    /\ pending' = Tail(pending)

(* The modem does what it is asked, refuses, or says nothing. *)
answer ==
    /\ pending # <<>> /\ phase # "off"
    /\ \/ /\ \E reply \in Accepted(Head(pending)) : Answers(reply)
          /\ network' = [attached |-> network.attached \/ Head(pending) = "AT+CGATT=1",
                         context |-> network.context \/ Head(pending) = "AT+CGDCONT"]
       \/ Answers(Refused(Head(pending))) /\ UNCHANGED network
       \/ Answers(<<>>) /\ UNCHANGED network
    /\ UNCHANGED <<wakeUp, phase, module, list, history>>

Next ==
    \/ enableConnection \/ idle \/ checkingSignalStrength \/ consultingIMEI
    \/ consultingSIMCardStatus \/ consultingNetworkStatus \/ consultingAvailableOperators
    \/ retrievingTimeAndDate \/ attachingToPacketService \/ definePDPContext \/ connected
    \/ askForCells \/ readRow \/ endList \/ listTimesOut
    \/ exchangeMessages \/ pursue \/ goToSleep \/ turnedOff \/ awake \/ answer

Spec == Init /\ [][Next]_vars

(* update() calls the handlers for ever and refreshTime runs.  A line read   *)
(* puts a time-out off, but the modem only speaks when it is asked, so that  *)
(* the lines run out before the next command.  The exchange and turnOff()    *)
(* end: other modules.  Nothing is owed by the modem.                        *)
Fairness ==
    /\ WF_vars(enableConnection) /\ WF_vars(connected)
    /\ WF_vars(idle) /\ WF_vars(checkingSignalStrength) /\ WF_vars(consultingIMEI)
    /\ WF_vars(consultingSIMCardStatus) /\ WF_vars(consultingNetworkStatus)
    /\ WF_vars(consultingAvailableOperators) /\ WF_vars(retrievingTimeAndDate)
    /\ WF_vars(attachingToPacketService) /\ WF_vars(definePDPContext)
    /\ WF_vars(askForCells) /\ WF_vars(listTimesOut) /\ WF_vars(readRow \/ endList)
    /\ WF_vars(exchangeMessages) /\ WF_vars(turnedOff)

FairSpec == Spec /\ Fairness

-----------------------------------------------------------------------------
(* Properties *)

(* Types; rows and time-outs of the list stay within bounds.                 *)
TypeOK ==
    /\ wakeUp \in 1 .. MaxWakeUps
    /\ phase \in {"connecting", "listing", "exchanging", "finished", "turning off", "off"}
    /\ state \in States
    /\ object \in [readyToSend : BOOLEAN, retrieved : BOOLEAN,
                   value : [good : BOOLEAN, at : 0 .. MaxWakeUps],
                   connectionAttempts : Nat, poorSignals : Nat]
    /\ cell \in [Fields -> [good : BOOLEAN, at : 0 .. MaxWakeUps]] /\ sim \in {1, 2}
    /\ scan.counterTimeOut \in 0 .. MaxTimeOuts /\ Len(scan.rows) <= MaxRows
    /\ Len(input) <= MaxLines /\ Len(pending) <= MaxPending
    /\ network \in [attached : BOOLEAN, context : BOOLEAN]
    /\ begun \in 1 .. wakeUp /\ late \in BOOLEAN

(* Who says CONNECTED_TO_NETWORK in the wake-up in which its chain began,    *)
(* no time-out having overtaken an answer, has had its attachment and its    *)
(* context confirmed: no OK is taken for another's.                          *)
ConnectedIsAttached ==
    state = "ConnectedState" /\ begun = wakeUp /\ ~late
        => network.attached /\ network.context

(* However often the chain was interrupted, when it is through every field   *)
(* of the cell information was measured in it, with the modem registered and *)
(* a signal above the limit.                                                 *)
CellIsComplete ==
    state = "ConnectedState" =>
        \A f \in Fields : cell[f].good /\ cell[f].at \in begun .. wakeUp

(* Every neighbour handed on was listed in this wake-up, under its operator, *)
(* though rows, operator and counter outlast the call and the list, and there *)
(* are no more of them than a report has room for.                           *)
NeighborsAreCurrent ==
    [][phase = "listing" /\ phase' = "exchanging" =>
          Len(neighbors') <= MaxCells /\
          \A i \in DOMAIN neighbors' :
              LET cellFound == neighbors'[i]
              IN  cellFound.row.at = wakeUp /\ cellFound.operator = cellFound.row.of]_vars

(* Connecting comes to an end, whatever the modem does. *)
ConnectingEnds == phase \in {"connecting", "listing"} ~> phase \in {"finished", "off"}

-----------------------------------------------------------------------------
(* What a comment in the code says of it, and it does not do. *)

(* ConsultingSIMCardStatus.h: the slot is switched "if no SIM is detected",  *)
(* so the tracker leaves a slot only if there is no card in it.              *)
KeepsCard == [][sim' # sim => sim \notin Cards]_vars
=============================================================================
