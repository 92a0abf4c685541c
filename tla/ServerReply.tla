----------------------------- MODULE ServerReply -----------------------------
(***************************************************************************)
(* What the server answers to a report and what the tracker makes of it:   *)
(* a JSON web token whose payload may order a latency, an operation mode   *)
(* and the length of a silent period, read field by field; the first field *)
(* that is missing ends the reading, and what was read before it counts.   *)
(***************************************************************************)
EXTENDS Integers, Sequences

(* A token is its segments; the signature, an HMAC, is of the two before it. *)
Segment(part, of) == [part |-> part, of |-> of]
Header == Segment("header", "HS256")
Signature(header, payload) == Segment("signature", <<header, payload>>)

encodeJWT(payload) ==
    LET segment == Segment("payload", payload)
    IN  <<Header, segment, Signature(Header, segment)>>

(* Codes: 2 for a token without three segments, 3 for a wrong signature.     *)
(* JWTManager frees the four buffers of the token only where it succeeds.    *)
decodeJWT(token) ==
    LET code == IF Len(token) # 3 THEN 2
                ELSE IF token[3].of # <<token[1], token[2]>> THEN 3
                ELSE 0
    IN  [code |-> code, leaks |-> code # 0,
         payload |-> IF code = 0 THEN token[2].of ELSE <<>>]

-----------------------------------------------------------------------------
(* extractField(): the value, or "absent". *)
Absent(field) == field = "absent"

Latencies ==
    [ELL |-> "EXTREMELY_LOW", VLL |-> "VERY_LOW", LL |-> "LOW", ML |-> "MEDIUM",
     HL |-> "HIGH", VHL |-> "VERY_HIGH", EHL |-> "EXTREMELY_HIGH"]
OperationModes == [NOPM |-> "NORMAL", POPM |-> "PURSUIT", SOPM |-> "SILENT"]

(* A word that is no order changes nothing. *)
parseLatencyLevel(word) == IF word \in DOMAIN Latencies THEN Latencies[word] ELSE "NONE"
parseOperationMode(word) ==
    IF word \in DOMAIN OperationModes THEN OperationModes[word] ELSE "NONE"

(* What a reply makes the tracker do: whether the report counts as sent, and *)
(* what it sets.                                                             *)
Orders(accepted, latency, mode, hours) ==
    [accepted |-> accepted, latency |-> latency, mode |-> mode, hours |-> hours]
Rejected == Orders(FALSE, "NONE", "NONE", 0)

(* The fields behind SUCS, in the order they are read. *)
ModeOrdered(fields, latency) ==
    LET mode == parseOperationMode(fields.MODE)
    IN  IF Absent(fields.MODE) \/ mode = "NONE" THEN Orders(TRUE, latency, "NONE", 0)
        ELSE IF mode # "SILENT" THEN Orders(TRUE, latency, mode, 0)
        ELSE IF fields.TSOP < 0 THEN Orders(TRUE, latency, "NONE", 0)
        ELSE Orders(TRUE, latency, mode, fields.TSOP)

Interpreted(token) ==
    LET reply == decodeJWT(token)
        fields == reply.payload
    IN  IF reply.code # 0 THEN Rejected
        ELSE IF fields.SUCS \notin {"true", "TRUE"} THEN Rejected
        ELSE IF Absent(fields.LTCY) THEN Orders(TRUE, "NONE", "NONE", 0)
        ELSE ModeOrdered(fields, parseLatencyLevel(fields.LTCY))

-----------------------------------------------------------------------------
(* The replies a tracker can meet: every combination of fields, whole, cut   *)
(* to two segments or with another reply's signature.  A missing TSOP is     *)
(* below zero like one that is.                                              *)
Payloads == [SUCS : {"absent", "true", "TRUE", "false"}, LTCY : {"absent", "ML", "?"},
             MODE : {"absent", "?"} \union DOMAIN OperationModes, TSOP : {-1, 0, 12}]

Tampered(token) == [token EXCEPT ![2].of.SUCS = "true", ![2].of.LTCY = "EHL"]

Replies == UNION {{encodeJWT(p), SubSeq(encodeJWT(p), 1, 2), Tampered(encodeJWT(p))} :
                     p \in Payloads}

(* The modes that replies with SUCS true order, "NONE" among them. *)
ModesOrdered ==
    {ModeOrdered([MODE |-> word, TSOP |-> hours], "NONE").mode :
        word \in {"absent", "?"} \union DOMAIN OperationModes, hours \in {-1, 12}}

-----------------------------------------------------------------------------
(* setLatency() and actualizeKeepAliveLatency(): milliseconds of each level. *)
Minutes(n) == n * 60 * 1000
LatencyMs ==
    [EXTREMELY_LOW |-> 20000, VERY_LOW |-> Minutes(1), LOW |-> Minutes(10),
     MEDIUM |-> Minutes(30), HIGH |-> Minutes(60), VERY_HIGH |-> Minutes(6 * 60),
     EXTREMELY_HIGH |-> Minutes(24 * 60)]

(* LOW is multiplied by the constant of VERY_LOW. *)
KeepAliveMultiplier ==
    [EXTREMELY_LOW |-> 180, VERY_LOW |-> 120, LOW |-> 120, MEDIUM |-> 12, HIGH |-> 8,
     VERY_HIGH |-> 2, EXTREMELY_HIGH |-> 1]

KeepAliveMs == [level \in DOMAIN LatencyMs |-> LatencyMs[level] * KeepAliveMultiplier[level]]

(* Every level a reply can order has a duration, and the keep-alive that     *)
(* wakes a tracker at rest never comes before the latency it is the multiple *)
(* of, nor overflows the int it is computed in (Tracker.cpp:424-454).        *)
ASSUME KeepAliveOutlastsLatency ==
    /\ {Latencies[word] : word \in DOMAIN Latencies} = DOMAIN LatencyMs
    /\ \A level \in DOMAIN LatencyMs : KeepAliveMs[level] \in LatencyMs[level] .. 2147483646

(* An order is taken from a reply only as it was signed, by whatever path it *)
(* was damaged, and the tracker goes silent only for a time the reply names. *)
ASSUME OrdersAreSigned ==
    \A reply \in Replies :
        LET orders == Interpreted(reply)
        IN  /\ orders.accepted => \E p \in Payloads : reply = encodeJWT(p)
            /\ orders.mode \in ModesOrdered
            /\ orders.mode = "SILENT" => orders.hours >= 0 /\ orders.hours = reply[2].of.TSOP
=============================================================================
