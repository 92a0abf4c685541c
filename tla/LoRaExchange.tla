---------------------------- MODULE LoRaExchange ----------------------------
(***************************************************************************)
(* The exchange of a report with the LoRa gateway: a stop-and-wait         *)
(* protocol.  The message is sent in chunks, the gateway answers with an   *)
(* ACK that carries the message's number, and a time-out sends it all      *)
(* again.  Each wake-up that falls back to LoRa creates a new state object,*)
(* but the counters of the protocol are static variables and outlast it.   *)
(*                                                                         *)
(* One action is one call of ExchangingLoRaMessages::exchangeMessages()    *)
(* that does something, or a step of the radio link.  The text to send is  *)
(* kept in a local array that is filled in one call and read in another:   *)
(* a call finds it intact or overwritten.                                  *)
(***************************************************************************)
EXTENDS Integers, Sequences

CONSTANTS
    MaxReports,    \* bound on the number of reports exchanged
    MaxTimeouts,   \* time-outs before LoRa is given up (5)
    ChunkSize,     \* MAX_CHUNK_SIZE
    Lengths,       \* lengths of the messages
    Overwritten    \* lengths an overwritten array may appear to have

ASSUME LoRaAssumption ==
    /\ MaxReports \in Nat \ {0} /\ MaxTimeouts \in Nat \ {0}
    /\ ChunkSize \in Nat \ {0}
    /\ Lengths \subseteq Nat \ {0} /\ Lengths # {} /\ Overwritten \subseteq Nat

(* What can be received instead of an ACK for a number of ours: a packet    *)
(* that fails verification, and an ACK with another number or identifier.   *)
Unverified == -1
NotOurs == 0
Nothing == -2

VARIABLES
    state,          \* currentExchangingLoRaMessagesStatus, "none" between exchanges
    report,         \* the report being exchanged, or the last one
    length,         \* strlen() of its message
    number,         \* loraMessageNumber
    stringIndex, firstChunkSent, timeoutCounter,   \* static variables
    received        \* fullMessage, Nothing when messageReceived is false

(* The radio link and the gateway, and what properties look at. *)
VARIABLES
    heard,          \* bytes of the message the gateway has from this attempt
    delivered,      \* reports the gateway has received whole
    acks,           \* numbers of the ACKs on their way
    confirmed,      \* <<report, number>> of the exchanges ended by an ACK
    attempts        \* time-outs in this exchange

statics == <<stringIndex, firstChunkSent, timeoutCounter, received>>
link == <<heard, delivered, acks>>
history == <<confirmed, attempts>>
vars == <<state, report, length, number, statics, link, history>>

Init ==
    /\ state = "none" /\ report = 0 /\ length = 0 /\ number = 1
    /\ stringIndex = 0 /\ firstChunkSent = FALSE /\ timeoutCounter = 0
    /\ received = Nothing
    /\ heard = 0 /\ delivered = {} /\ acks = {}
    /\ confirmed = <<>> /\ attempts = 0

-----------------------------------------------------------------------------
(* A wake-up without a mobile network formats a report with the current     *)
(* number and creates the state object.  ACKs of earlier exchanges may still *)
(* be on their way.                                                         *)
begin ==
    /\ state = "none"
    /\ report < MaxReports
    /\ report' = report + 1
    /\ length' \in Lengths
    /\ state' = "INITIALIZE_TRANSCIEVER"
    /\ heard' = 0 /\ attempts' = 0
    /\ UNCHANGED <<number, statics, delivered, acks, confirmed>>

(* INITIALIZE_TRANSCIEVER, once the radio answers. *)
initialize ==
    /\ state = "INITIALIZE_TRANSCIEVER"
    /\ state' = "SENDING_MESSAGE"
    /\ UNCHANGED <<report, length, number, statics, link, history>>

(* The gateway takes a chunk that continues what it has, the first one       *)
(* starts over; a complete message is answered.                              *)
Transmit(intact, from, bytes) ==
    \E arrives \in BOOLEAN :
        /\ heard' = IF arrives /\ intact /\ from \in {0, heard} THEN from + bytes
                    ELSE IF from = 0 THEN 0 ELSE heard
        /\ IF heard' = length /\ bytes > 0
           THEN delivered' = delivered \union {report} /\ acks' = acks \union {number}
           ELSE UNCHANGED <<delivered, acks>>

(* SENDING_MESSAGE, at the first call or once the fly time has passed.  With *)
(* an overwritten array the unsigned difference may underflow: a full chunk. *)
ChunkBytes(total) ==
    LET left == total - stringIndex
    IN  IF left \in 0 .. ChunkSize - 1 THEN left ELSE ChunkSize

sendChunkOf(intact, total) ==
    /\ state = "SENDING_MESSAGE"
    /\ intact => total = length
    /\ ~intact => total \in Overwritten
    /\ Transmit(intact, stringIndex, ChunkBytes(total))
    /\ IF stringIndex + ChunkSize > total
       THEN /\ state' = "WAITING_FOR_ACK"
            /\ stringIndex' = 0 /\ firstChunkSent' = FALSE
       ELSE /\ stringIndex' = stringIndex + ChunkSize /\ firstChunkSent' = TRUE
            /\ UNCHANGED state
    /\ UNCHANGED <<report, length, number, timeoutCounter, received, history>>

sendChunk == \E intact \in BOOLEAN, total \in Lengths \union Overwritten :
                 sendChunkOf(intact, total)

-----------------------------------------------------------------------------
(* WAITING_FOR_ACK *)

GiveUp == timeoutCounter + 1 >= MaxTimeouts

(* The tail of the case: what was received is dropped, and the message is    *)
(* sent again or LoRa given up.                                              *)
timeout ==
    /\ received' = Nothing
    /\ attempts' = attempts + 1
    /\ IF GiveUp
       THEN state' = "none" /\ timeoutCounter' = 0
       ELSE state' = "SENDING_MESSAGE" /\ timeoutCounter' = timeoutCounter + 1
    /\ UNCHANGED <<report, length, number, stringIndex, firstChunkSent,
                   heard, delivered, confirmed>>

waitTimesOut ==
    /\ state = "WAITING_FOR_ACK"
    /\ received \in {Nothing, NotOurs}
    /\ timeout
    /\ UNCHANGED acks

(* A packet is read; if the time-out elapses in the same call it is lost.    *)
(* The gateway may have sent its ACK more than once.                         *)
receive ==
    /\ state = "WAITING_FOR_ACK"
    /\ received = Nothing
    /\ \E packet \in acks \union {Unverified, NotOurs} :
          /\ acks' \in {acks, acks \ {packet}}
          /\ \/ /\ received' = packet
                /\ UNCHANGED <<state, report, length, number, stringIndex, firstChunkSent,
                               timeoutCounter, heard, delivered, history>>
             \/ timeout

(* Mutant: a message that fails verification stays the one received. *)
dropUnverified_Kept ==
    /\ state = "WAITING_FOR_ACK"
    /\ received = Unverified
    /\ UNCHANGED vars

(* processLoRaMessage() fails: the call returns. *)
dropUnverified ==
    /\ state = "WAITING_FOR_ACK"
    /\ received = Unverified
    /\ received' = Nothing
    /\ UNCHANGED <<state, report, length, number, stringIndex, firstChunkSent,
                   timeoutCounter, link, history>>

(* Mutant: the number of the ACK is not compared. *)
checkMessageIntegrity_AnyNumber(ack) == ack # Unverified

(* checkMessageIntegrity() *)
checkMessageIntegrity(ack) == ack = number

dropNotOurs ==
    /\ state = "WAITING_FOR_ACK"
    /\ received \notin {Nothing, Unverified}
    /\ ~checkMessageIntegrity(received)
    /\ \/ /\ received' = Nothing
          /\ UNCHANGED <<state, report, length, number, stringIndex, firstChunkSent,
                         timeoutCounter, heard, delivered, history>>
       \/ timeout
    /\ UNCHANGED acks

(* Mutant: the next message gets the same number. *)
acknowledged_SameNumber ==
    /\ state = "WAITING_FOR_ACK"
    /\ received \notin {Nothing, Unverified}
    /\ checkMessageIntegrity(received)
    /\ confirmed' = Append(confirmed, <<report, number>>)
    /\ received' = Nothing
    /\ state' = "none"
    /\ UNCHANGED <<report, length, number, stringIndex, firstChunkSent, timeoutCounter,
                   link, attempts>>

acknowledged ==
    /\ state = "WAITING_FOR_ACK"
    /\ received \notin {Nothing, Unverified}
    /\ checkMessageIntegrity(received)
    /\ number' = number + 1
    /\ confirmed' = Append(confirmed, <<report, number>>)
    /\ received' = Nothing
    /\ state' = "none"
    /\ UNCHANGED <<report, length, stringIndex, firstChunkSent, timeoutCounter,
                   link, attempts>>

loseAck ==
    /\ \E ack \in acks : acks' = acks \ {ack}
    /\ UNCHANGED <<state, report, length, number, statics, heard, delivered, history>>

Next == \/ begin \/ initialize \/ sendChunk
        \/ waitTimesOut \/ receive \/ dropUnverified \/ dropNotOurs \/ acknowledged
        \/ loseAck

Spec == Init /\ [][Next]_vars

(* update() calls the handler for ever and its timer runs; begin() succeeds  *)
(* as long as the radio is there.  A timer that has elapsed stays so until   *)
(* it is read, and every other call at most reads it, so packets that keep   *)
(* coming cannot hold the time-out off (SF).  Nothing is owed of the link.   *)
Fairness == /\ WF_vars(initialize) /\ WF_vars(sendChunk) /\ SF_vars(waitTimesOut)
            /\ WF_vars(dropUnverified) /\ WF_vars(dropNotOurs) /\ WF_vars(acknowledged)

FairSpec == Spec /\ Fairness

-----------------------------------------------------------------------------
(* Properties *)

(* Types; the gateway never has more of a message than there is.             *)
TypeOK ==
    /\ state \in {"none", "INITIALIZE_TRANSCIEVER", "SENDING_MESSAGE", "WAITING_FOR_ACK"}
    /\ report \in 0 .. MaxReports /\ length \in Lengths \union {0}
    /\ number \in 1 .. MaxReports + 1
    /\ stringIndex \in Nat /\ firstChunkSent \in BOOLEAN
    /\ timeoutCounter \in 0 .. MaxTimeouts - 1
    /\ received \in {Unverified, NotOurs, Nothing} \union 1 .. MaxReports
    /\ heard \in 0 .. length
    /\ delivered \subseteq 1 .. report /\ acks \subseteq 1 .. MaxReports

(* An exchange starts from the first byte, whatever the one before it left   *)
(* in the static variables: overwritten text, time-outs, half-read packets.  *)
CleanStart ==
    state \in {"none", "INITIALIZE_TRANSCIEVER"} =>
        stringIndex = 0 /\ ~firstChunkSent /\ received = Nothing

(* The tracker never gives a report a second exchange's worth of attempts.   *)
AttemptsBounded == attempts <= MaxTimeouts

(* No two exchanges that ended with an ACK used the same number: an ACK      *)
(* ends at most one of them.                                                 *)
NumbersConfirmedOnce ==
    \A i, j \in DOMAIN confirmed : i < j => confirmed[i][2] < confirmed[j][2]

(* Every exchange that ends with an ACK stands for an arrival of its own:     *)
(* this report's, or that of one given up since the last ACK, whose number   *)
(* it took over.  So no arrival is taken for two, however late ACKs come and  *)
(* however often they are sent, and at least as many reports have arrived as  *)
(* the tracker believes.                                                     *)
ArrivalPerAck ==
    \A i \in DOMAIN confirmed :
        \E r \in delivered : /\ r <= confirmed[i][1]
                             /\ \A j \in 1 .. i - 1 : confirmed[j][1] < r

(* Every exchange ends, with an ACK or without. *)
ExchangeEnds == state # "none" ~> state = "none"

-----------------------------------------------------------------------------
(* What a comment in the code says of it, and it does not do. *)

(* Tracker.h: checkMessageIntegrity() checks that a message "is the correct  *)
(* ACK", so an exchange that ends with an ACK delivered its own report.      *)
ConfirmedArrived ==
    \A i \in DOMAIN confirmed : confirmed[i][1] \in delivered

=============================================================================
