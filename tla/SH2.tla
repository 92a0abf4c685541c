--------------------------------- MODULE SH2 ---------------------------------
(***************************************************************************)
(* The driver of the inertial sensor (sh2.c on top of shtp.c) and its      *)
(* sensor hub.  A client calls one operation at a time: it sends a request *)
(* and blocks, servicing the transport, until the reports it waits for     *)
(* have come in; no operation has a time-out.  A write that the bus        *)
(* refuses is repeated, and the transport is serviced in between, so that  *)
(* reports reach an operation that is still being started.                 *)
(*                                                                         *)
(* The driver is a record and its functions are operators on it; the       *)
(* actions give it transfers and bus failures.  The modules that extend    *)
(* this one are its clients.                                               *)
(***************************************************************************)
EXTENDS SHTP, TLC

CONSTANTS
    Sensors,        \* the sensors of the hub
    ProdEntries,    \* product ids the hub has (4, of an FSP200 5)
    FrsWords,       \* words of a record, which are also what the client has room for
    MaxFaults,      \* bound on refused writes
    MaxLosses       \* bound on lost transfers

ASSUME SH2Assumption ==
    /\ ProdEntries \in Nat \ {0} /\ FrsWords \in Nat \ {0}
    /\ MaxFaults \in Nat /\ MaxLosses \in Nat

CommandOps == {"getErrors", "getCounts", "sendCmd", "reinitialize", "saveDcdNow",
               "getOscType", "setCalConfig", "getCalConfig", "startCal", "finishCal"}
Ops == CommandOps \union
       {"getProdIds", "getSensorConfig", "setSensorConfig", "getFrs", "setFrs", "flush"}
SendOnly == {"setSensorConfig", "sendCmd"}  \* complete once they are sent

(* What goes over the bus.  "of" is the call a request belongs to and a      *)
(* report answers, "n" the place of the report in its answer; key is what    *)
(* the driver compares: a sensor, a command with its number, or a status.    *)
Request(id, of, key) == [id |-> id, of |-> of, key |-> key]
Report(id, of, n, key, last) == [id |-> id, of |-> of, n |-> n, key |-> key, last |-> last]
NoRequest == Request("none", 0, "none")
NoReport == Report("none", 0, 0, "none", FALSE)

VARIABLES
    lib,        \* the driver: _sh2, its SHTP instance and the client's event
    hubIn,      \* requests the hub has not taken
    wire,       \* transfers the driver has not read
    hubSeq,     \* sequence numbers of the hub, per channel
    enabled,    \* the sensors the hub reports
    taken,      \* the requests the hub has taken, of which calls
    faults, losses

hub == <<hubIn, wire, hubSeq, enabled, taken>>
counts == <<faults, losses>>
sh2Vars == <<lib, hub, counts>>

(* The driver before its first use.  pShtp is whether the session has an     *)
(* instance of the transport, inUse whether the only one is taken.  The last *)
(* line is what the client's callbacks keep: whether a reset was seen, the   *)
(* event in the value it reads, whether it has given them a value to fill,   *)
(* and whether a null pointer was followed.                                  *)
ClearedSh2 ==
    [controlChan |-> FALSE, resetComplete |-> FALSE,
     pOp |-> "none", opStatus |-> "SH2_OK", of |-> 0, sensor |-> "none",
     got |-> 0, words |-> 0, heard |-> {}, cmd |-> <<"none", 0>>, nextCmdSeq |-> 0,
     out |-> NoRequest, copies |-> 0,
     pShtp |-> FALSE, inUse |-> FALSE, shtp |-> NewInstance,
     resetSeen |-> FALSE, event |-> NoReport, hasValue |-> FALSE, broken |-> FALSE]

-----------------------------------------------------------------------------
(* opCompleted() *)
Complete(l, status) == [l EXCEPT !.pOp = "none", !.opStatus = status]

Hear(l, r) == [l EXCEPT !.heard = @ \union {<<r.of, r.n>>}]

(* shtp_send(), txProcess(): a channel that is not known cannot be written    *)
(* to.  All writes are from the one buffer of the instance: a request sent   *)
(* while another is being written takes its place and is written twice.      *)
sendCtrl(l, request) ==
    IF l.controlChan THEN [l EXCEPT !.out = request, !.copies = @ + 1]
    ELSE Complete(l, "SH2_ERR_BAD_PARAM")

(* sendCmd(): the command gets a number of its own.                          *)
sendCmd(l, command) ==
    LET key == <<command, l.nextCmdSeq>>
    IN  sendCtrl([l EXCEPT !.cmd = key, !.nextCmdSeq = (@ + 1) % SeqModulus],
                 Request("COMMAND_REQ", l.of, key))

(* Mutant: the number of a response is not compared. *)
wrongResponse_AnySeq(l, r) == r.id # "COMMAND_RESP" \/ r.key[1] # l.cmd[1]

wrongResponse(l, r) == r.id # "COMMAND_RESP" \/ r.key # l.cmd

(* A command with one response, which may say that the hub failed.           *)
resultRx(l, r, ok) ==
    IF wrongResponse(l, r) THEN l
    ELSE Complete(Hear(l, r), IF ok THEN "SH2_OK" ELSE "SH2_ERR_HUB")

(* A command with several: they come one by one until the last one.          *)
seriesRx(l, r) ==
    IF wrongResponse(l, r) THEN l
    ELSE IF r.last THEN Complete(Hear(l, r), "SH2_OK") ELSE Hear(l, r)

-----------------------------------------------------------------------------
(* The operations: what they send and what they do with a report.  Of the    *)
(* commands that are only sent, that of sh2_clearCounts() stands for all:    *)
(* another operation has the same command.                                   *)

getErrorsStart(l) == sendCmd(l, "ERRORS")
getErrorsRx(l, r) == seriesRx(l, r)

getCountsStart(l) == sendCmd(l, "COUNTS")
getCountsRx(l, r) == seriesRx(l, r)

sendCmdStart(l) == sendCmd(l, "COUNTS")

reinitStart(l) == sendCmd(l, "INITIALIZE")
reinitRx(l, r) == resultRx(l, r, r.last)

saveDcdNowStart(l) == sendCmd(l, "DCD")
saveDcdNowRx(l, r) == resultRx(l, r, r.last)

getOscTypeStart(l) == sendCmd(l, "GET_OSC_TYPE")
getOscTypeRx(l, r) == resultRx(l, r, TRUE)

setCalConfigStart(l) == sendCmd(l, "ME_CAL")
setCalConfigRx(l, r) == resultRx(l, r, r.last)

getCalConfigStart(l) == sendCmd(l, "ME_CAL")
getCalConfigRx(l, r) == resultRx(l, r, r.last)

startCalStart(l) == sendCmd(l, "CAL")
startCalRx(l, r) == resultRx(l, r, TRUE)

finishCalStart(l) == sendCmd(l, "CAL")
finishCalRx(l, r) == resultRx(l, r, r.last)

getProdIdStart(l) == sendCtrl(l, Request("PROD_ID_REQ", l.of, "none"))

(* Mutant: one entry more is expected than there are. *)
getProdIdRx_OneMore(l, r) ==
    IF r.id # "PROD_ID_RESP" THEN l
    ELSE LET stored == [Hear(l, r) EXCEPT !.got = @ + 1]
         IN  IF stored.got > ProdEntries THEN Complete(stored, "SH2_OK") ELSE stored

getProdIdRx(l, r) ==
    IF r.id # "PROD_ID_RESP" THEN l
    ELSE LET stored == [Hear(l, r) EXCEPT !.got = @ + 1]
         IN  IF stored.got >= ProdEntries THEN Complete(stored, "SH2_OK") ELSE stored

getSensorConfigStart(l) == sendCtrl(l, Request("GET_FEATURE_REQ", l.of, l.sensor))

getSensorConfigRx(l, r) ==
    IF r.id = "GET_FEATURE_RESP" /\ r.key = l.sensor
    THEN Complete(Hear(l, r), "SH2_OK") ELSE l

setSensorConfigStart(l) == sendCtrl(l, Request("SET_FEATURE_CMD", l.of, l.sensor))

getFrsStart(l) == sendCtrl(l, Request("FRS_READ_REQ", l.of, "none"))

(* An empty record completes the operation, a gap does with an error, and    *)
(* the function goes on: the words are stored, and the last report completes *)
(* it once more.                                                             *)
getFrsRx(l, r) ==
    LET empty  == r.key = "empty"
        result == IF empty THEN Complete([l EXCEPT !.words = 0], "SH2_OK") ELSE l
        status == IF r.n # l.got THEN Complete([result EXCEPT !.words = 0], "SH2_ERR_IO")
                  ELSE result
        stored == IF status.words = 0 \/ r.n <= status.words
                  THEN [Hear(status, r) EXCEPT !.got = r.n + 1] ELSE status
    IN  IF r.id # "FRS_READ_RESP" THEN l
        ELSE IF r.key = "error" THEN Complete(l, "SH2_ERR_HUB")
        ELSE IF r.last /\ ~empty THEN Complete([stored EXCEPT !.words = stored.got], "SH2_OK")
        ELSE stored

setFrsStart(l) == sendCtrl(l, Request("FRS_WRITE_REQ", l.of, "none"))

(* The next words are sent from within the callback.  If that write is       *)
(* refused, the code services the transport over the buffer the callback's   *)
(* report lies in; here it waits until the payload has been read.  The       *)
(* program never calls sh2_setFrs().                                         *)
setFrsRx(l, r) ==
    CASE r.id # "FRS_WRITE_RESP" -> l
      [] r.id = "FRS_WRITE_RESP" /\ r.key = "completed" -> Complete(Hear(l, r), "SH2_OK")
      [] r.id = "FRS_WRITE_RESP" /\ r.key = "error"     -> Complete(l, "SH2_ERR_HUB")
      [] r.id = "FRS_WRITE_RESP" /\ r.key = "more"      ->
           IF l.got < FrsWords
           THEN sendCtrl([l EXCEPT !.got = @ + 1],
                         Request("FRS_WRITE_DATA_REQ", l.of, ToString(l.got)))
           ELSE l

forceFlushStart(l) == sendCtrl(l, Request("FORCE_SENSOR_FLUSH", l.of, l.sensor))

forceFlushRx(l, r) ==
    IF r.id = "FLUSH_COMPLETED" /\ r.key = l.sensor
    THEN Complete(Hear(l, r), "SH2_OK") ELSE l

(* opRx(): a report is handed to the operation in progress, if any.          *)
opRx(l, r) ==
    CASE l.pOp = "getProdIds"                -> getProdIdRx(l, r)
      [] l.pOp = "getSensorConfig"           -> getSensorConfigRx(l, r)
      [] l.pOp = "getFrs"                    -> getFrsRx(l, r)
      [] l.pOp = "setFrs"                    -> setFrsRx(l, r)
      [] l.pOp = "flush"                     -> forceFlushRx(l, r)
      [] l.pOp = "getErrors"                 -> getErrorsRx(l, r)
      [] l.pOp = "getCounts"                 -> getCountsRx(l, r)
      [] l.pOp = "reinitialize"              -> reinitRx(l, r)
      [] l.pOp = "saveDcdNow"                -> saveDcdNowRx(l, r)
      [] l.pOp = "getOscType"                -> getOscTypeRx(l, r)
      [] l.pOp = "setCalConfig"              -> setCalConfigRx(l, r)
      [] l.pOp = "getCalConfig"              -> getCalConfigRx(l, r)
      [] l.pOp = "startCal"                  -> startCalRx(l, r)
      [] l.pOp = "finishCal"                 -> finishCalRx(l, r)
      [] l.pOp \in SendOnly \union {"none"}  -> l

-----------------------------------------------------------------------------
(* The listeners of the channels.                                            *)

(* shtpCmdListener(), sensorhubAdvertHdlr(): an advertisement names all      *)
(* channels; at its end the driver looks up that of the requests.            *)
advertised(l) ==
    LET shtp == addChannels(l.shtp, Channels)
    IN  [l EXCEPT !.shtp = shtp, !.controlChan = KnowsChannel(shtp, "control")]

(* executableDeviceHdlr(), hal_callback() *)
resetDone(l) == [l EXCEPT !.resetComplete = TRUE, !.resetSeen = TRUE]

(* sensorhubInputHdlr(), sensorHandler(): each report is decoded into the    *)
(* one value of the client, the last one stays.  Before the client has asked *)
(* for an event there is no value.                                           *)
inputRx(l, r) ==
    CASE r.id = "FLUSH_COMPLETED"                 -> opRx(l, r)
      [] r.id # "FLUSH_COMPLETED" /\ l.hasValue  -> [l EXCEPT !.event = r]
      [] r.id # "FLUSH_COMPLETED" /\ ~l.hasValue -> [l EXCEPT !.broken = TRUE]

(* sensorhubControlHdlr(), sensorhubInputHdlr(): the reports of a payload are *)
(* handed on one after the other.                                            *)
handPayload(l, chan, payload) ==
    LET after[i \in 0 .. Len(payload)] ==
            IF i = 0 THEN l
            ELSE IF chan = "control" THEN opRx(after[i - 1], payload[i])
            ELSE inputRx(after[i - 1], payload[i])
    IN  after[Len(payload)]

Listener(l, chan, payload) ==
    CASE chan = "command" -> advertised(l)
      [] chan = "device"  -> resetDone(l)
      [] chan \in {"control", "inputNormal"} -> handPayload(l, chan, payload)

(* shtp_service() with one transfer from the bus: rxAssemble().              *)
Serviced(l, t) ==
    LET appended  == [l EXCEPT !.shtp = rxAppend(@, t)]
        delivered == IF Delivers(appended.shtp)
                     THEN Listener(appended, t.chan, appended.shtp.inPayload)
                     ELSE appended
    IN  [delivered EXCEPT !.shtp = rxDone(@, t)]

-----------------------------------------------------------------------------
(* The steps of a call.                                                      *)

(* sh2_open() forgets the session it had before it asks for an instance of   *)
(* the transport.  That of an open session is not free.                      *)
Opened(l) ==
    [ClearedSh2 EXCEPT !.inUse = TRUE, !.pShtp = ~l.inUse,
                       !.resetSeen = l.resetSeen, !.hasValue = l.hasValue]

(* sh2_close()                                                               *)
Closed(l) == [ClearedSh2 EXCEPT !.resetSeen = l.resetSeen, !.hasValue = l.hasValue]


(* The public functions clear what the last operation left and store their   *)
(* parameters.                                                               *)
Called(l, op, sensor, of) ==
    [l EXCEPT !.pOp = op, !.opStatus = "SH2_OK", !.of = of, !.sensor = sensor,
              !.got = 0, !.words = FrsWords, !.heard = {}]

(* opStart(): the request is written.                                        *)
opStart(l) ==
    CASE l.pOp = "getProdIds"      -> getProdIdStart(l)
      [] l.pOp = "getSensorConfig" -> getSensorConfigStart(l)
      [] l.pOp = "setSensorConfig" -> setSensorConfigStart(l)
      [] l.pOp = "getFrs"          -> getFrsStart(l)
      [] l.pOp = "setFrs"          -> setFrsStart(l)
      [] l.pOp = "flush"           -> forceFlushStart(l)
      [] l.pOp = "getErrors"       -> getErrorsStart(l)
      [] l.pOp = "getCounts"       -> getCountsStart(l)
      [] l.pOp = "sendCmd"         -> sendCmdStart(l)
      [] l.pOp = "reinitialize"    -> reinitStart(l)
      [] l.pOp = "saveDcdNow"      -> saveDcdNowStart(l)
      [] l.pOp = "getOscType"      -> getOscTypeStart(l)
      [] l.pOp = "setCalConfig"    -> setCalConfigStart(l)
      [] l.pOp = "getCalConfig"    -> getCalConfigStart(l)
      [] l.pOp = "startCal"        -> startCalStart(l)
      [] l.pOp = "finishCal"       -> finishCalStart(l)

Started(l, op, sensor, of) == opStart(Called(l, op, sensor, of))

Blocked == lib.pOp # "none" \/ lib.copies > 0

(* The bus takes what is in the buffer.                                      *)
write ==
    /\ lib.copies > 0
    /\ hubIn' = Append(hubIn, lib.out)
    /\ lib' = LET l == [lib EXCEPT !.copies = @ - 1]
              IN  IF l.copies = 0 /\ l.pOp \in SendOnly THEN Complete(l, "SH2_OK") ELSE l
    /\ UNCHANGED <<wire, hubSeq, enabled, taken, counts>>

(* The next transfer, if there is one.                                       *)
service ==
    /\ wire # <<>>
    /\ lib' = Serviced(lib, Head(wire)) /\ wire' = Tail(wire)
    /\ UNCHANGED <<hubIn, hubSeq, enabled, taken>>

(* Mutant: a refused write counts as done. *)
writeFails_Dropped ==
    /\ lib.copies > 0
    /\ faults < MaxFaults /\ faults' = faults + 1
    /\ lib' = LET l == [lib EXCEPT !.copies = @ - 1]
              IN  IF l.copies = 0 /\ l.pOp \in SendOnly THEN Complete(l, "SH2_OK") ELSE l
    /\ UNCHANGED <<hub, losses>>

(* The bus refuses it: the transport is serviced before it is written again. *)
writeFails ==
    /\ lib.copies > 0
    /\ faults < MaxFaults /\ faults' = faults + 1
    /\ \/ service
       \/ UNCHANGED <<lib, hub>>
    /\ UNCHANGED losses

(* opProcess(): nothing to write, the operation waits.                       *)
poll ==
    /\ lib.pOp # "none" /\ lib.copies = 0
    /\ service
    /\ UNCHANGED counts

-----------------------------------------------------------------------------
(* The sensor hub, as the driver expects it.                                 *)

(* A cargo as transfers of one report each, or as a single transfer; or each *)
(* report as a cargo of its own.                                             *)
Pieces(chan, payload) ==
    [i \in DOMAIN payload |->
        Transfer(chan, (hubSeq[chan] + i - 1) % SeqModulus, i > 1, <<payload[i]>>,
                 Len(payload) - i)]
Whole(chan, payload) == <<Transfer(chan, hubSeq[chan], FALSE, payload, 0)>>
Singles(chan, payload) ==
    [i \in DOMAIN payload |->
        [Pieces(chan, payload)[i] EXCEPT !.continuation = FALSE, !.rest = 0]]

Emit(chan, transfers) ==
    /\ wire' = wire \o transfers
    /\ hubSeq' = [hubSeq EXCEPT ![chan] = (@ + Len(transfers)) % SeqModulus]

(* The reports that answer a request.                                        *)
Series(id, of, n, key) == [i \in 1..n |-> Report(id, of, i - 1, key, i = n)]

Answers(q) ==
    CASE q.id = "PROD_ID_REQ"     -> {Series("PROD_ID_RESP", q.of, ProdEntries, "none")}
      [] q.id = "GET_FEATURE_REQ" -> {Series("GET_FEATURE_RESP", q.of, 1, q.key)}
      [] q.id = "SET_FEATURE_CMD" -> {<<>>, Series("GET_FEATURE_RESP", q.of, 1, q.key)}
      [] q.id = "FRS_READ_REQ"    -> {Series("FRS_READ_RESP", q.of, FrsWords, "data"),
                                      Series("FRS_READ_RESP", q.of, 1, "error"),
                                      Series("FRS_READ_RESP", q.of, 1, "empty")}
      [] q.id = "FRS_WRITE_REQ"   -> {Series("FRS_WRITE_RESP", q.of, 1, "more"),
                                      Series("FRS_WRITE_RESP", q.of, 1, "error")}
      [] q.id = "FRS_WRITE_DATA_REQ" ->
           {Series("FRS_WRITE_RESP", q.of, 1,
                   IF q.key = ToString(FrsWords - 1) THEN "completed" ELSE "more")}
      [] q.id = "FORCE_SENSOR_FLUSH" -> {Series("FLUSH_COMPLETED", q.of, 1, q.key)}
      [] q.id = "COMMAND_REQ"     ->
           IF q.key[1] \in {"ERRORS", "COUNTS"}
           THEN {Series("COMMAND_RESP", q.of, 2, q.key)}
           ELSE {<<Report("COMMAND_RESP", q.of, 0, q.key, ok)>> : ok \in BOOLEAN}

hubTakes ==
    /\ hubIn # <<>>
    /\ LET q == Head(hubIn)
           chan == IF q.id = "FORCE_SENSOR_FLUSH" THEN "inputNormal" ELSE "control"
       IN  /\ \E answer \in Answers(q) :
                 \E transfers \in {Pieces(chan, answer), Whole(chan, answer),
                                    Singles(chan, answer)} :
                    IF answer = <<>> THEN UNCHANGED <<wire, hubSeq>>
                                     ELSE Emit(chan, transfers)
           /\ enabled' = IF q.id = "SET_FEATURE_CMD" THEN enabled \union {q.key} ELSE enabled
           /\ taken' = taken \union {q.of}
    /\ hubIn' = Tail(hubIn)
    /\ UNCHANGED <<lib, counts>>

lose ==
    /\ wire # <<>> /\ losses < MaxLosses
    /\ losses' = losses + 1 /\ wire' = Tail(wire)
    /\ UNCHANGED <<lib, hubIn, hubSeq, enabled, taken, faults>>

(* A reset: the hub forgets all it was asked, advertises itself, says that   *)
(* it was reset and, unasked, that it was initialized.                       *)
HubReset ==
    /\ hubIn' = <<>> /\ enabled' = {} /\ UNCHANGED taken
    /\ wire' = <<Transfer("command", 0, FALSE, <<Report("ADVERTISE", 0, 0, "none", TRUE)>>, 0),
                 Transfer("device", 0, FALSE, <<Report("RESET_COMPLETE", 0, 0, "none", TRUE)>>, 0),
                 Transfer("control", 0, FALSE,
                          <<Report("COMMAND_RESP", 0, 0, <<"UNSOLICITED", 0>>, TRUE)>>, 0)>>
    /\ hubSeq' = [c \in Channels |-> IF c = "inputNormal" THEN 0 ELSE 1]
=============================================================================
