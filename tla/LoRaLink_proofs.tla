--------------------------- MODULE LoRaLink_proofs ---------------------------
(***************************************************************************)
(* Proofs about the LoRa link.  First the exchange of the node, whatever   *)
(* the link is: every number of reports and of time-outs, every chunk size *)
(* and every length of message, and whatever an overwritten array may look *)
(* like.  Then the link: whatever fragments the radio hears, mixes and     *)
(* reads again, what is taken for an ACK is one the gateway sent, and so   *)
(* the link takes no step LoRaExchange does not allow.                     *)
(***************************************************************************)
EXTENDS LoRaLink, TLAPS

-----------------------------------------------------------------------------
(* The exchange. *)

(* A number is used by a report at most: there are never more numbers in use *)
(* than reports, and one less between an exchange's beginning and its ACK.   *)
NumberOfReport ==
    /\ number <= report + 1
    /\ state # "none" => number <= report

(* The static variables between the loops that use them. *)
AtRest ==
    /\ state # "SENDING_MESSAGE" => stringIndex = 0 /\ ~firstChunkSent
    /\ state # "WAITING_FOR_ACK" => received = Nothing

(* attempts never gets ahead of the counter that ends the exchange. *)
Counted ==
    /\ attempts \in Nat /\ attempts <= MaxTimeouts
    /\ state # "none" => attempts <= timeoutCounter

(* The numbers confirmed so far lie below the one in use. *)
Confirmed ==
    /\ confirmed \in Seq((1 .. MaxReports) \X (1 .. MaxReports))
    /\ \A i \in DOMAIN confirmed : confirmed[i][2] < number

LoRaInv ==
    TypeOK /\ NumberOfReport /\ AtRest /\ Counted /\ Confirmed /\ NumbersConfirmedOnce

(* A report with the number in use has arrived: since the last confirmation. *)
ArrivedSince ==
    \E r \in delivered : r <= report /\ \A j \in DOMAIN confirmed : confirmed[j][1] < r

(* An ACK on its way, or received, carries a number given so far, and with   *)
(* the one in use it answers a report that has arrived.                      *)
AcksAreAnswers ==
    /\ \A n \in acks : n <= number
    /\ number \in acks \/ received = number => ArrivedSince

(* What is confirmed is confirmed of a report no later than the last. *)
ConfirmedBefore ==
    \A j \in DOMAIN confirmed :
        confirmed[j][1] <= report /\ (state # "none" => confirmed[j][1] < report)

-----------------------------------------------------------------------------
LEMMA LoRaInit == Init => LoRaInv
<1> SUFFICES ASSUME Init PROVE LoRaInv
  OBVIOUS
<1> USE LoRaAssumption DEF Init
<1>1. number \in 1 .. MaxReports + 1 /\ report \in 0 .. MaxReports
  OBVIOUS
<1>2. timeoutCounter \in 0 .. MaxTimeouts - 1 /\ heard \in 0 .. length
  OBVIOUS
<1>3. TypeOK
  BY <1>1, <1>2, Zenon DEF TypeOK, Nothing
<1>4. NumberOfReport /\ AtRest /\ Counted
  BY DEF NumberOfReport, AtRest, Counted
<1>5. Confirmed /\ NumbersConfirmedOnce
  BY DEF Confirmed, NumbersConfirmedOnce
<1> QED BY <1>3, <1>4, <1>5 DEF LoRaInv

(* What stays as it was while nothing is confirmed. *)
LEMMA SameConfirmed ==
    ASSUME LoRaInv, UNCHANGED <<confirmed, number>>
    PROVE  Confirmed' /\ NumbersConfirmedOnce'
  BY DEF LoRaInv, Confirmed, NumbersConfirmedOnce

LEMMA BeginStep == LoRaInv /\ begin => LoRaInv'
<1> SUFFICES ASSUME LoRaInv, begin PROVE LoRaInv'
  OBVIOUS
<1> USE LoRaAssumption
<1>1. TypeOK'
  BY DEF begin, LoRaInv, TypeOK, statics
<1>2. NumberOfReport' /\ AtRest' /\ Counted'
  BY DEF begin, LoRaInv, TypeOK, NumberOfReport, AtRest, Counted, statics
<1>3. Confirmed' /\ NumbersConfirmedOnce'
  BY SameConfirmed DEF begin
<1> QED BY <1>1, <1>2, <1>3 DEF LoRaInv

LEMMA InitializeStep == LoRaInv /\ initialize => LoRaInv'
<1> SUFFICES ASSUME LoRaInv, initialize PROVE LoRaInv'
  OBVIOUS
<1> USE DEF initialize, statics, link, history
<1>1. TypeOK'
  BY DEF LoRaInv, TypeOK
<1>2. NumberOfReport' /\ AtRest' /\ Counted'
  BY DEF LoRaInv, TypeOK, NumberOfReport, AtRest, Counted
<1>3. Confirmed' /\ NumbersConfirmedOnce'
  BY SameConfirmed
<1> QED BY <1>1, <1>2, <1>3 DEF LoRaInv

(* A chunk continues what the gateway has or starts it over, so it never has *)
(* more than the message; it answers the report it has whole.                *)
LEMMA TransmitStep ==
    ASSUME LoRaInv, state = "SENDING_MESSAGE",
           NEW intact \in BOOLEAN, NEW total \in Nat, intact => total = length,
           NEW bytes, bytes = ChunkBytes(total),
           Transmit(intact, stringIndex, bytes), UNCHANGED <<report, length, number>>
    PROVE  /\ heard' \in 0 .. length
           /\ delivered' \subseteq 1 .. report /\ acks' \subseteq 1 .. MaxReports
           /\ delivered \subseteq delivered'
           /\ acks' \subseteq acks \union {number}
           /\ acks' # acks => report \in delivered'
<1> USE LoRaAssumption
<1>1. /\ stringIndex \in Nat /\ heard \in 0 .. length /\ length \in Nat
      /\ number \in 1 .. MaxReports /\ report \in 1 .. MaxReports
      /\ delivered \subseteq 1 .. report /\ acks \subseteq 1 .. MaxReports
  BY DEF LoRaInv, TypeOK, NumberOfReport
<1>2. /\ total - stringIndex \in 0 .. ChunkSize - 1 => bytes = total - stringIndex
      /\ total - stringIndex \notin 0 .. ChunkSize - 1 => bytes = ChunkSize
  BY DEF ChunkBytes
<1>3. ASSUME intact, stringIndex \in {0, heard}
      PROVE  stringIndex + bytes \in 0 .. length
  <2>1. total = length /\ stringIndex <= total
    BY <1>1, <1>3
  <2>2. CASE total - stringIndex \in 0 .. ChunkSize - 1
    BY <1>1, <1>2, <2>1, <2>2
  <2>3. CASE total - stringIndex \notin 0 .. ChunkSize - 1
    BY <1>1, <1>2, <2>1, <2>3
  <2> QED BY <2>2, <2>3
<1>4. heard' \in 0 .. length
  BY <1>1, <1>3 DEF Transmit
<1>5. \/ delivered' = delivered \union {report} /\ acks' = acks \union {number}
      \/ UNCHANGED <<delivered, acks>>
  BY DEF Transmit
<1>6. /\ delivered \subseteq delivered' /\ acks' \subseteq acks \union {number}
      /\ acks' # acks => report \in delivered'
  BY <1>5
<1>7. delivered' \subseteq 1 .. report /\ acks' \subseteq 1 .. MaxReports
  <2>1. report \in 1 .. report /\ {report} \subseteq 1 .. report
    BY <1>1
  <2> QED BY <1>1, <1>5, <2>1, Zenon
<1> QED BY <1>4, <1>6, <1>7

LEMMA SendChunkStep == LoRaInv /\ sendChunk => LoRaInv'
<1> SUFFICES ASSUME LoRaInv, sendChunk PROVE LoRaInv'
  OBVIOUS
<1> USE LoRaAssumption
<1>1. PICK intact \in BOOLEAN, total \in Lengths \union Overwritten :
          sendChunkOf(intact, total)
  BY DEF sendChunk
<1>2. total \in Nat /\ state = "SENDING_MESSAGE"
      /\ UNCHANGED <<report, length, number, timeoutCounter, received, history>>
  BY <1>1 DEF sendChunkOf
<1>3. heard' \in 0 .. length /\ delivered' \subseteq 1 .. report /\ acks' \subseteq 1 .. MaxReports
  BY <1>1, <1>2, TransmitStep DEF sendChunkOf, history
<1>4. /\ state' \in {"SENDING_MESSAGE", "WAITING_FOR_ACK"}
      /\ stringIndex' \in Nat /\ firstChunkSent' \in BOOLEAN
      /\ state' = "WAITING_FOR_ACK" => stringIndex' = 0 /\ ~firstChunkSent'
  <2>1. stringIndex \in Nat /\ stringIndex + ChunkSize \in Nat
    BY DEF LoRaInv, TypeOK
  <2>2. CASE stringIndex + ChunkSize > total
    <3>1. state' = "WAITING_FOR_ACK" /\ stringIndex' = 0 /\ firstChunkSent' = FALSE
      BY <1>1, <2>2, Zenon DEF sendChunkOf
    <3> QED BY <3>1
  <2>3. CASE ~(stringIndex + ChunkSize > total)
    BY <1>1, <1>2, <2>1, <2>3 DEF sendChunkOf
  <2> QED BY <2>2, <2>3
<1>5. TypeOK'
  BY <1>2, <1>3, <1>4 DEF LoRaInv, TypeOK
<1>6. NumberOfReport' /\ AtRest' /\ Counted'
  BY <1>2, <1>4 DEF LoRaInv, NumberOfReport, AtRest, Counted, history
<1>7. Confirmed' /\ NumbersConfirmedOnce'
  BY <1>2, SameConfirmed DEF history
<1> QED BY <1>5, <1>6, <1>7 DEF LoRaInv

(* A time-out, wherever it falls. *)
LEMMA TimeoutStep ==
    ASSUME LoRaInv, state = "WAITING_FOR_ACK", timeout, acks' \subseteq acks
    PROVE  LoRaInv' /\ received' = Nothing
<1> USE LoRaAssumption DEF timeout, GiveUp
<1>1. TypeOK'
  BY DEF LoRaInv, TypeOK
<1>2. NumberOfReport' /\ AtRest' /\ Counted'
  BY DEF LoRaInv, TypeOK, NumberOfReport, AtRest, Counted
<1>3. Confirmed' /\ NumbersConfirmedOnce'
  BY SameConfirmed
<1> QED BY <1>1, <1>2, <1>3 DEF LoRaInv

(* A packet is read or dropped without a time-out. *)
LEMMA PacketStep ==
    ASSUME LoRaInv, state = "WAITING_FOR_ACK" \/ UNCHANGED received,
           received' \in {Unverified, NotOurs, Nothing} \union 1 .. MaxReports,
           acks' \subseteq acks,
           UNCHANGED <<state, report, length, number, stringIndex, firstChunkSent,
                       timeoutCounter, heard, delivered, history>>
    PROVE  LoRaInv'
<1>1. TypeOK'
  BY DEF LoRaInv, TypeOK
<1>2. NumberOfReport' /\ AtRest' /\ Counted'
  BY DEF LoRaInv, NumberOfReport, AtRest, Counted, history
<1>3. Confirmed' /\ NumbersConfirmedOnce'
  BY SameConfirmed DEF history
<1> QED BY <1>1, <1>2, <1>3 DEF LoRaInv

LEMMA AcknowledgedStep == LoRaInv /\ acknowledged => LoRaInv'
<1> SUFFICES ASSUME LoRaInv, acknowledged PROVE LoRaInv'
  OBVIOUS
<1> USE LoRaAssumption
<1>1. /\ number \in 1 .. MaxReports /\ report \in 1 .. MaxReports /\ number' = number + 1
      /\ number <= report
  BY DEF acknowledged, LoRaInv, TypeOK, NumberOfReport
<1>2. TypeOK'
  BY <1>1 DEF acknowledged, LoRaInv, TypeOK, link
<1>3. NumberOfReport' /\ AtRest' /\ Counted'
  BY <1>1 DEF acknowledged, LoRaInv, NumberOfReport, AtRest, Counted
<1>4. /\ confirmed \in Seq((1 .. MaxReports) \X (1 .. MaxReports))
      /\ confirmed' = Append(confirmed, <<report, number>>)
      /\ <<report, number>> \in (1 .. MaxReports) \X (1 .. MaxReports)
  BY <1>1 DEF acknowledged, LoRaInv, Confirmed
<1>5. /\ confirmed' \in Seq((1 .. MaxReports) \X (1 .. MaxReports))
      /\ DOMAIN confirmed = 1 .. Len(confirmed) /\ Len(confirmed) \in Nat
      /\ DOMAIN confirmed' = 1 .. Len(confirmed) + 1
      /\ \A i \in DOMAIN confirmed : confirmed'[i] = confirmed[i]
      /\ confirmed'[Len(confirmed) + 1] = <<report, number>>
  BY <1>4, SMTT(30)
<1>6. \A i \in DOMAIN confirmed : confirmed[i][2] \in Nat /\ confirmed[i][2] < number
  BY <1>4, SMTT(30) DEF LoRaInv, Confirmed
<1>7. ASSUME NEW i \in DOMAIN confirmed'
      PROVE  \/ i \in DOMAIN confirmed /\ confirmed'[i][2] = confirmed[i][2]
             \/ i = Len(confirmed) + 1 /\ confirmed'[i][2] = number
  BY <1>5, <1>7, SMTT(30)
<1>8. Confirmed'
  <2>1. ASSUME NEW i \in DOMAIN confirmed'
        PROVE  confirmed'[i][2] < number'
    BY <1>1, <1>6, <1>7
  <2> QED BY <1>5, <2>1 DEF Confirmed
<1>9. NumbersConfirmedOnce'
  <2> SUFFICES ASSUME NEW i \in DOMAIN confirmed', NEW j \in DOMAIN confirmed', i < j
               PROVE  confirmed'[i][2] < confirmed'[j][2]
    BY DEF NumbersConfirmedOnce
  <2>1. i \in DOMAIN confirmed
    <3> DEFINE n == Len(confirmed)
    <3>1. n \in Nat /\ DOMAIN confirmed = 1 .. n /\ i \in 1 .. n + 1 /\ j \in 1 .. n + 1
      BY <1>5
    <3> HIDE DEF n
    <3>2. i \in 1 .. n
      BY <3>1
    <3> QED BY <3>1, <3>2
  <2>2. CASE j \in DOMAIN confirmed
    BY <1>5, <2>1, <2>2 DEF LoRaInv, NumbersConfirmedOnce
  <2>3. CASE j = Len(confirmed) + 1
    BY <1>5, <1>6, <2>1, <2>3
  <2> QED BY <1>7, <2>2, <2>3
<1> QED BY <1>2, <1>3, <1>8, <1>9 DEF LoRaInv

(* What a step that reads a packet, or times out over it, does. *)
Read ==
    /\ received' \in {Unverified, NotOurs, Nothing} \union 1 .. MaxReports
    /\ UNCHANGED <<state, report, length, number, stringIndex, firstChunkSent,
                   timeoutCounter, heard, delivered, history>>

LEMMA ReceiveCases ==
    LoRaInv /\ (waitTimesOut \/ receive \/ dropUnverified \/ dropNotOurs)
        => /\ state = "WAITING_FOR_ACK" /\ acks' \subseteq acks
           /\ \/ Read /\ (received' \in 1 .. MaxReports => received' \in acks)
              \/ timeout
<1> SUFFICES ASSUME LoRaInv, waitTimesOut \/ receive \/ dropUnverified \/ dropNotOurs
             PROVE  /\ state = "WAITING_FOR_ACK" /\ acks' \subseteq acks
                    /\ \/ Read /\ (received' \in 1 .. MaxReports => received' \in acks)
                       \/ timeout
  OBVIOUS
<1> USE DEF Unverified, NotOurs, Nothing
<1>1. CASE waitTimesOut
  BY <1>1 DEF waitTimesOut
<1>2. CASE receive
  <2>1. acks \subseteq 1 .. MaxReports
    BY DEF LoRaInv, TypeOK
  <2>2. PICK packet \in acks \union {Unverified, NotOurs} :
            /\ acks' \in {acks, acks \ {packet}}
            /\ \/ /\ received' = packet
                  /\ UNCHANGED <<state, report, length, number, stringIndex,
                                 firstChunkSent, timeoutCounter, heard, delivered, history>>
               \/ timeout
    BY <1>2 DEF receive
  <2> QED BY <1>2, <2>1, <2>2 DEF receive, Read
<1>3. CASE dropUnverified
  BY <1>3 DEF dropUnverified, Read, link
<1>4. CASE dropNotOurs
  BY <1>4 DEF dropNotOurs, Read
<1> QED BY <1>1, <1>2, <1>3, <1>4

LEMMA LoRaStep == LoRaInv /\ [Next]_vars => LoRaInv'
<1> SUFFICES ASSUME LoRaInv, [Next]_vars PROVE LoRaInv'
  OBVIOUS
<1>1. CASE begin
  BY <1>1, BeginStep
<1>2. CASE initialize
  BY <1>2, InitializeStep
<1>3. CASE sendChunk
  BY <1>3, SendChunkStep
<1>4. CASE waitTimesOut \/ receive \/ dropUnverified \/ dropNotOurs
  BY <1>4, ReceiveCases, TimeoutStep, PacketStep DEF Read
<1>5. CASE acknowledged
  BY <1>5, AcknowledgedStep
<1>6. CASE loseAck
  <2>1. received' \in {Unverified, NotOurs, Nothing} \union 1 .. MaxReports
    BY <1>6 DEF loseAck, statics, LoRaInv, TypeOK
  <2> QED BY <1>6, <2>1, PacketStep DEF loseAck, statics
<1>7. CASE UNCHANGED vars
  <2>1. received' \in {Unverified, NotOurs, Nothing} \union 1 .. MaxReports
    BY <1>7 DEF vars, statics, LoRaInv, TypeOK
  <2> QED BY <1>7, <2>1, PacketStep DEF vars, statics, link
<1> QED BY <1>1, <1>2, <1>3, <1>4, <1>5, <1>6, <1>7 DEF Next

-----------------------------------------------------------------------------
(* LoRaInv holds in every state of the exchange. *)
THEOREM LoRaInvariant == Spec => []LoRaInv
<1> QED BY LoRaInit, LoRaStep, PTL DEF Spec

(* Type correctness.  The gateway never has more of a message than there is, *)
(* also when ExchangingLoRaMessages::exchangeMessages() sends an overwritten *)
(* array and its index runs past the end.                                    *)
THEOREM LoRaTypes == Spec => []TypeOK
<1>1. LoRaInv => TypeOK
  BY DEF LoRaInv
<1> QED BY <1>1, LoRaInvariant, PTL

(* A new ExchangingLoRaMessages object finds the static variables as the     *)
(* first one did: every way out of an exchange leaves them at rest.          *)
THEOREM StartsClean == Spec => []CleanStart
<1>1. LoRaInv => CleanStart
  BY DEF LoRaInv, AtRest, CleanStart
<1> QED BY <1>1, LoRaInvariant, PTL

(* timeoutCounter, which is not reset by an ACK, ends an exchange after at   *)
(* most MaxTimeouts time-outs of its own.                                    *)
THEOREM AttemptsKept == Spec => []AttemptsBounded
<1>1. LoRaInv => AttemptsBounded
  BY DEF LoRaInv, Counted, AttemptsBounded
<1> QED BY <1>1, LoRaInvariant, PTL

(* checkMessageIntegrity() and the increment behind it let a number end one  *)
(* exchange at most, in whatever order the ACKs arrive.                      *)
THEOREM NumbersKept == Spec => []NumbersConfirmedOnce
<1>1. LoRaInv => NumbersConfirmedOnce
  BY DEF LoRaInv
<1> QED BY <1>1, LoRaInvariant, PTL

-----------------------------------------------------------------------------
(* An exchange that is confirmed stands for an arrival, however late the ACK. *)
ArrivalInv == AcksAreAnswers /\ ConfirmedBefore /\ ArrivalPerAck

(* A step that confirms nothing: it is enough to know where the ACKs and the *)
(* received one come from.                                                   *)
LEMMA UnconfirmedStep ==
    ASSUME LoRaInv, ArrivalInv, UNCHANGED <<number, confirmed>>,
           report' \in Nat, report <= report', delivered \subseteq delivered',
           acks' \subseteq acks \union {number}, acks' # acks => acks' \subseteq acks \/ ArrivedSince',
           received' = number => number \in acks \/ received = number,
           state = "none" /\ state' # "none" => report < report'
    PROVE  ArrivalInv'
<1>1. /\ number \in Nat /\ report \in Nat /\ delivered \subseteq 1 .. report
      /\ \A j \in DOMAIN confirmed : confirmed[j][1] \in Nat
  BY DEF LoRaInv, TypeOK, Confirmed
<1>2. ArrivedSince => ArrivedSince'
  <2> SUFFICES ASSUME NEW r \in delivered, r <= report,
                      \A j \in DOMAIN confirmed : confirmed[j][1] < r
               PROVE  r \in delivered' /\ r <= report' /\ confirmed' = confirmed
    BY Zenon DEF ArrivedSince
  <2> QED BY <1>1
<1>3. AcksAreAnswers'
  BY <1>1, <1>2 DEF ArrivalInv, AcksAreAnswers
<1>4. ConfirmedBefore'
  BY <1>1 DEF ArrivalInv, ConfirmedBefore
<1>5. ArrivalPerAck'
  BY <1>1 DEF ArrivalInv, ArrivalPerAck
<1> QED BY <1>3, <1>4, <1>5 DEF ArrivalInv

LEMMA ArrivalStep == LoRaInv /\ ArrivalInv /\ [Next]_vars => ArrivalInv'
<1> SUFFICES ASSUME LoRaInv, ArrivalInv, [Next]_vars PROVE ArrivalInv'
  OBVIOUS
<1> USE LoRaAssumption
<1>t. /\ number \in 1 .. MaxReports + 1 /\ report \in Nat
      /\ acks \subseteq 1 .. MaxReports
  BY DEF LoRaInv, TypeOK
<1>1. CASE begin
  BY <1>t, <1>1, UnconfirmedStep DEF begin, statics
<1>2. CASE initialize
  BY <1>t, <1>2, UnconfirmedStep DEF initialize, statics, link, history
<1>3. CASE sendChunk
  <2>1. PICK intact \in BOOLEAN, total \in Lengths \union Overwritten :
            sendChunkOf(intact, total)
    BY <1>3 DEF sendChunk
  <2>2. total \in Nat /\ state = "SENDING_MESSAGE"
        /\ UNCHANGED <<report, length, number, timeoutCounter, received, history>>
    BY <2>1 DEF sendChunkOf
  <2>3. /\ delivered \subseteq delivered' /\ acks' \subseteq acks \union {number}
        /\ acks' # acks => report \in delivered'
    BY <2>1, <2>2, TransmitStep DEF sendChunkOf, history
  <2>4. report \in delivered' => ArrivedSince'
    BY <1>t, <2>2 DEF ArrivalInv, ConfirmedBefore, ArrivedSince, history
  <2> QED BY <1>t, <2>2, <2>3, <2>4, UnconfirmedStep DEF history
<1>4. CASE waitTimesOut \/ receive \/ dropUnverified \/ dropNotOurs
  <2>1. acks' \subseteq acks /\ state = "WAITING_FOR_ACK"
    BY <1>4, ReceiveCases
  <2>2. CASE Read /\ (received' \in 1 .. MaxReports => received' \in acks)
    <3>1. number \in 1 .. MaxReports
      BY <1>t, <2>1 DEF LoRaInv, TypeOK, NumberOfReport
    <3> QED BY <1>t, <2>1, <2>2, <3>1, UnconfirmedStep DEF Read, history
  <2>3. CASE timeout
    BY <1>t, <2>1, <2>3, UnconfirmedStep DEF timeout, Nothing
  <2> QED BY <1>4, <2>2, <2>3, ReceiveCases
<1>5. CASE acknowledged
  <2>1. /\ state = "WAITING_FOR_ACK" /\ received = number /\ number' = number + 1
        /\ confirmed' = Append(confirmed, <<report, number>>)
        /\ received' = Nothing /\ state' = "none"
        /\ UNCHANGED <<report, delivered, acks>>
    BY <1>5 DEF acknowledged, checkMessageIntegrity, link
  <2>2. confirmed \in Seq((1 .. MaxReports) \X (1 .. MaxReports))
    BY DEF LoRaInv, Confirmed
  <2>3. report \in 1 .. MaxReports /\ number \in 1 .. MaxReports
    BY <1>t, <2>1 DEF LoRaInv, TypeOK, NumberOfReport
  <2>4. /\ Len(confirmed) \in Nat /\ DOMAIN confirmed = 1 .. Len(confirmed)
        /\ DOMAIN confirmed' = 1 .. Len(confirmed) + 1
        /\ \A i \in 1 .. Len(confirmed) : confirmed'[i] = confirmed[i]
        /\ confirmed'[Len(confirmed) + 1] = <<report, number>>
    BY <2>1, <2>2, <2>3, SMTT(30)
  <2>5. AcksAreAnswers'
    BY <1>t, <2>1 DEF ArrivalInv, AcksAreAnswers, Nothing
  <2>6. ConfirmedBefore'
    <3> SUFFICES ASSUME NEW j \in DOMAIN confirmed' PROVE confirmed'[j][1] <= report
      BY <2>1 DEF ConfirmedBefore
    <3>1. CASE j \in DOMAIN confirmed
      BY <2>4, <3>1 DEF ArrivalInv, ConfirmedBefore
    <3>2. CASE j = Len(confirmed) + 1
      BY <1>t, <2>4, <3>2
    <3> QED BY <2>4, <3>1, <3>2
  <2>7. ArrivalPerAck'
    <3> SUFFICES ASSUME NEW i \in DOMAIN confirmed'
                 PROVE  \E r \in delivered : /\ r <= confirmed'[i][1]
                                             /\ \A j \in 1 .. i - 1 : confirmed'[j][1] < r
      BY <2>1 DEF ArrivalPerAck
    <3>1. CASE i \in DOMAIN confirmed
      <4>1. confirmed'[i] = confirmed[i]
            /\ \A j \in 1 .. i - 1 : confirmed'[j] = confirmed[j]
        BY <2>4, <3>1
      <4> QED BY <3>1, <4>1 DEF ArrivalInv, ArrivalPerAck
    <3>2. CASE i = Len(confirmed) + 1
      <4>1. \A j \in 1 .. i - 1 : j \in DOMAIN confirmed /\ confirmed'[j] = confirmed[j]
        BY <2>4, <3>2
      <4>2. confirmed'[i][1] = report
        BY <2>4, <3>2
      <4>3. PICK r \in delivered : r <= report /\ \A j \in DOMAIN confirmed : confirmed[j][1] < r
        BY <2>1 DEF ArrivalInv, AcksAreAnswers, ArrivedSince
      <4> QED BY <4>1, <4>2, <4>3
    <3> QED BY <2>4, <3>1, <3>2
  <2> QED BY <2>5, <2>6, <2>7 DEF ArrivalInv
<1>6. CASE loseAck
  BY <1>t, <1>6, UnconfirmedStep DEF loseAck, statics, history
<1>7. CASE UNCHANGED vars
  BY <1>t, <1>7, UnconfirmedStep DEF vars, statics, link, history
<1> QED BY <1>1, <1>2, <1>3, <1>4, <1>5, <1>6, <1>7 DEF Next

(* However late ACKs come, however often they are sent and whatever numbers  *)
(* checkMessageIntegrity() sees again, every exchange that ends with an ACK  *)
(* stands for the arrival of a report no other exchange stands for.          *)
THEOREM Arrives == Spec => []ArrivalPerAck
<1>1. Init => ArrivalInv
  BY DEF Init, ArrivalInv, AcksAreAnswers, ConfirmedBefore, ArrivalPerAck, Nothing
<1>2. LoRaInv /\ ArrivalInv /\ [Next]_vars => ArrivalInv'
  BY ArrivalStep
<1>3. ArrivalInv => ArrivalPerAck
  BY DEF ArrivalInv
<1> QED BY <1>1, <1>2, <1>3, LoRaInvariant, PTL DEF Spec

-----------------------------------------------------------------------------
(* The link. *)

(* The bytes of an ACK with number n, and all that can be in the air when    *)
(* the gateway has answered the numbers in A.                                *)
CipherOf(n) == Cipher(<<Text(n)>>)
HmacOf(n) == Hmac(<<CipherOf(n)>>)
CrcOf(n) == Crc(<<CipherOf(n), HmacOf(n)>>)

TokensOf(n) == {CipherOf(n), HmacOf(n), CrcOf(n)}

Tokens(A) == {Noise, Delimiter} \union UNION {TokensOf(n) : n \in A \union {NotOurs}}

-----------------------------------------------------------------------------
(* Messages. *)

LEMMA OfLength ==
    ASSUME NEW S, NEW s \in Seq(S)
    PROVE  /\ Len(s) = 1 => s = <<s[1]>>
           /\ Len(s) = 2 => s = <<s[1], s[2]>>
           /\ Len(s) = 3 => s = <<s[1], s[2], s[3]>>
           /\ Len(s) = 4 => s = <<s[1], s[2], s[3], s[4]>>
  OBVIOUS

LEMMA OneMore ==
    ASSUME NEW S, NEW s \in Seq(S), NEW e \in S
    PROVE  /\ Append(s, e) \in Seq(S) /\ Len(Append(s, e)) = Len(s) + 1
           /\ \A i \in 1 .. Len(s) : Append(s, e)[i] = s[i]
           /\ Append(s, e)[Len(s) + 1] = e
  OBVIOUS

LEMMA AppendedSecond ==
    ASSUME NEW a, NEW b
    PROVE  Append(<<a>>, b) = <<a, b>>
<1> DEFINE S == {a, b}
           s == Append(<<a>>, b)
<1>1. a \in S /\ b \in S
  OBVIOUS
<1> HIDE DEF S
<1>2. <<a>> \in Seq(S) /\ Len(<<a>>) = 1
  BY <1>1
<1>3. s \in Seq(S) /\ Len(s) = 2 /\ s[1] = a /\ s[2] = b
  BY <1>1, <1>2, OneMore
<1> HIDE DEF s
<1>4. s = <<s[1], s[2]>>
  BY <1>3, OfLength
<1>5. s = <<a, b>>
  BY <1>3, <1>4, Zenon
<1> QED BY <1>5, Zenon DEF s

LEMMA AppendedThird ==
    ASSUME NEW a, NEW b, NEW c
    PROVE  Append(<<a, b>>, c) = <<a, b, c>>
<1> DEFINE S == {a, b, c}
           s == Append(<<a, b>>, c)
<1>1. a \in S /\ b \in S /\ c \in S
  OBVIOUS
<1> HIDE DEF S
<1>2. <<a, b>> \in Seq(S) /\ Len(<<a, b>>) = 2
  BY <1>1
<1>3. s \in Seq(S) /\ Len(s) = 3 /\ s[1] = a /\ s[2] = b /\ s[3] = c
  BY <1>1, <1>2, OneMore
<1> HIDE DEF s
<1>4. s = <<s[1], s[2], s[3]>>
  BY <1>3, OfLength
<1>5. s = <<a, b, c>>
  BY <1>3, <1>4, Zenon
<1> QED BY <1>5, Zenon DEF s

LEMMA AppendedFourth ==
    ASSUME NEW a, NEW b, NEW c, NEW d
    PROVE  Append(<<a, b, c>>, d) = <<a, b, c, d>>
<1> DEFINE S == {a, b, c, d}
           s == Append(<<a, b, c>>, d)
<1>1. a \in S /\ b \in S /\ c \in S /\ d \in S
  OBVIOUS
<1> HIDE DEF S
<1>2. <<a, b, c>> \in Seq(S) /\ Len(<<a, b, c>>) = 3
  BY <1>1
<1>3. s \in Seq(S) /\ Len(s) = 4 /\ s[1] = a /\ s[2] = b /\ s[3] = c /\ s[4] = d
  BY <1>1, <1>2, OneMore
<1> HIDE DEF s
<1>4. s = <<s[1], s[2], s[3], s[4]>>
  BY <1>3, OfLength
<1>5. s = <<a, b, c, d>>
  BY <1>3, <1>4, Zenon
<1> QED BY <1>5, Zenon DEF s

LEMMA ResultFields ==
    ASSUME NEW s, NEW m
    PROVE  Result(s, m).message = m /\ Result(s, m).status = s
  BY DEF Result

LEMMA WireBytes ==
    ASSUME NEW n
    PROVE  Wire(Text(n)) = <<CipherOf(n), HmacOf(n), CrcOf(n), Delimiter>>
<1>1. EncrypterBase64(<<Text(n)>>).message = <<CipherOf(n)>>
  BY ResultFields, Zenon DEF EncrypterBase64, Processed, CipherOf
<1>2. AuthenticationGenerator(<<CipherOf(n)>>).message = <<CipherOf(n), HmacOf(n)>>
  BY ResultFields, AppendedSecond, Zenon DEF AuthenticationGenerator, Processed, HmacOf
<1>3. ChecksumGenerator(<<CipherOf(n), HmacOf(n)>>).message = <<CipherOf(n), HmacOf(n), CrcOf(n)>>
  <2>1. ASSUME NEW m
        PROVE  ChecksumGenerator(m).message = Append(m, Crc(m))
    BY ResultFields, Zenon DEF ChecksumGenerator, Processed
  <2>2. CrcOf(n) = Crc(<<CipherOf(n), HmacOf(n)>>)
    BY Zenon DEF CrcOf
  <2> QED BY <2>1, <2>2, AppendedThird, Zenon
<1>4. prepareLoRaMessage(<<Text(n)>>).message = <<CipherOf(n), HmacOf(n), CrcOf(n)>>
  BY <1>1, <1>2, <1>3, Zenon DEF prepareLoRaMessage
<1>5. Append(<<CipherOf(n), HmacOf(n), CrcOf(n)>>, Delimiter)
          = <<CipherOf(n), HmacOf(n), CrcOf(n), Delimiter>>
  BY AppendedFourth, Zenon
<1> QED BY <1>4, <1>5, Zenon DEF Wire

LEMMA ShorterBytes ==
    ASSUME NEW S, NEW s \in Seq(S), s # <<>>
    PROVE  /\ Front(s) \in Seq(S) /\ Len(Front(s)) = Len(s) - 1
           /\ \A i \in 1 .. Len(s) - 1 : Front(s)[i] = s[i]
           /\ Last(s) = s[Len(s)] /\ Len(s) \in Nat \ {0}
<1>1. Len(s) \in Nat \ {0}
  OBVIOUS
<1>2. Last(s) = s[Len(s)]
  BY Zenon DEF Last
<1>3. Front(s) = SubSeq(s, 1, Len(s) - 1)
  BY Zenon DEF Front
<1>4. ASSUME NEW n \in 0 .. Len(s) - 1
      PROVE  /\ SubSeq(s, 1, n) \in Seq(S) /\ Len(SubSeq(s, 1, n)) = n
             /\ \A i \in 1 .. n : SubSeq(s, 1, n)[i] = s[i]
  BY <1>1
<1>5. Len(s) - 1 \in 0 .. Len(s) - 1
  BY <1>1
<1>6. /\ Front(s) \in Seq(S) /\ Len(Front(s)) = Len(s) - 1
      /\ \A i \in 1 .. Len(s) - 1 : Front(s)[i] = s[i]
  BY <1>3, <1>4, <1>5, Zenon
<1> QED BY <1>1, <1>2, <1>6

LEMMA WireFront ==
    ASSUME NEW n
    PROVE  Front(Wire(Text(n))) = <<CipherOf(n), HmacOf(n), CrcOf(n)>>
<1> DEFINE a == CipherOf(n)
           b == HmacOf(n)
           c == CrcOf(n)
           d == Delimiter
           S == {a, b, c, d}
           w == Wire(Text(n))
           s == Front(w)
<1>1. w = <<a, b, c, d>>
  BY WireBytes, Zenon
<1>2. a \in S /\ b \in S /\ c \in S /\ d \in S
  OBVIOUS
<1> HIDE DEF S, a, b, c, d, w
<1>3. <<a, b, c, d>> \in Seq(S) /\ Len(<<a, b, c, d>>) = 4 /\ <<a, b, c, d>> # <<>>
      /\ <<a, b, c, d>>[1] = a /\ <<a, b, c, d>>[2] = b /\ <<a, b, c, d>>[3] = c
  BY <1>2
<1>4. w \in Seq(S) /\ Len(w) = 4 /\ w # <<>> /\ w[1] = a /\ w[2] = b /\ w[3] = c
  BY <1>1, <1>3, Zenon
<1>5. s \in Seq(S) /\ Len(s) = 3 /\ s[1] = a /\ s[2] = b /\ s[3] = c
  <2>1. /\ s \in Seq(S) /\ Len(s) = Len(w) - 1
        /\ \A i \in 1 .. Len(w) - 1 : s[i] = w[i]
    BY <1>4, ShorterBytes, Zenon
  <2> HIDE DEF s
  <2> QED BY <1>4, <2>1
<1> HIDE DEF s
<1>6. s = <<s[1], s[2], s[3]>>
  BY <1>5, OfLength
<1>7. s = <<a, b, c>>
  BY <1>5, <1>6, Zenon
<1> QED BY <1>7, Zenon DEF s, w, a, b, c

LEMMA MoreTokens ==
    ASSUME NEW A, NEW B, A \subseteq B
    PROVE  Tokens(A) \subseteq Tokens(B)
  BY DEF Tokens

(* A cipher tells its message. *)
LEMMA Ciphers ==
    ASSUME NEW A, NEW t \in Tokens(A), t.token = "cipher"
    PROVE  \E n \in A \union {NotOurs} : t = CipherOf(n)
<1>1. Noise.token # "cipher" /\ Delimiter.token # "cipher"
  BY DEF Noise, Delimiter
<1>2. \A n : HmacOf(n).token # "cipher" /\ CrcOf(n).token # "cipher"
  BY DEF HmacOf, CrcOf, Hmac, Crc
<1> QED BY <1>1, <1>2 DEF Tokens, TokensOf

LEMMA Texts ==
    ASSUME NEW n, NEW k, <<Text(n)>> = <<Text(k)>>
    PROVE  n = k
<1>1. Text(n) = Text(k)
  OBVIOUS
<1> QED BY <1>1 DEF Text

LEMMA LessOne ==
    ASSUME NEW i \in Nat, NEW j \in Nat, NEW k, k = i - 1, i = j - 1, k = 1
    PROVE  i = 2 /\ j = 3
  OBVIOUS

(* A message without a failure is a cipher with its HMAC and its CRC. *)
LEMMA Verified ==
    ASSUME NEW S, NEW m \in Seq(S), ~Failed(processLoRaMessage(m))
    PROVE  /\ m # <<>> /\ Front(m) # <<>>
           /\ Last(m) = Crc(Front(m))
           /\ Last(Front(m)) = Hmac(Front(Front(m)))
           /\ processLoRaMessage(m) = DecrypterBase64(Front(Front(m)))
<1>1. CASE m = <<>> \/ Last(m) # Crc(Front(m))
  <2>1. ChecksumVerifier(m).status # "PROCESSED"
    BY <1>1, ResultFields DEF ChecksumVerifier
  <2> QED BY <2>1 DEF processLoRaMessage, Failed
<1>2. CASE ~(m = <<>> \/ Last(m) # Crc(Front(m)))
  <2>1. ChecksumVerifier(m).status = "PROCESSED" /\ ChecksumVerifier(m).message = Front(m)
    BY <1>2, ResultFields, Zenon DEF ChecksumVerifier, Processed
  <2>2. CASE Front(m) = <<>> \/ Last(Front(m)) # Hmac(Front(Front(m)))
    <3>1. AuthenticationVerifier(Front(m)).status # "PROCESSED"
      BY <2>2, ResultFields DEF AuthenticationVerifier
    <3> QED BY <2>1, <3>1 DEF processLoRaMessage, Failed
  <2>3. CASE ~(Front(m) = <<>> \/ Last(Front(m)) # Hmac(Front(Front(m))))
    <3>1. /\ AuthenticationVerifier(Front(m)).status = "PROCESSED"
          /\ AuthenticationVerifier(Front(m)).message = Front(Front(m))
      BY <2>3, ResultFields, Zenon DEF AuthenticationVerifier, Processed
    <3> QED BY <1>2, <2>1, <2>3, <3>1, Zenon DEF processLoRaMessage, Failed
  <2> QED BY <2>2, <2>3
<1> QED BY <1>1, <1>2

LEMMA Decrypted ==
    ASSUME NEW m, NEW k, DecrypterBase64(m).message = <<Text(k)>>
    PROVE  Len(m) = 1 /\ m[1].token = "cipher" /\ m[1].of = <<Text(k)>>
<1>1. <<Noise>> # <<Text(k)>>
  <2>1. Noise # Text(k)
    BY DEF Noise, Text
  <2> QED BY <2>1
<1>2. DecrypterBase64(m).message =
          IF Len(m) = 1 /\ m[1].token = "cipher" THEN m[1].of ELSE <<Noise>>
  BY ResultFields, Zenon DEF DecrypterBase64, Processed
<1> QED BY <1>1, <1>2

(* What checkMessageIntegrity() can find: nothing of ours, or an ACK of the  *)
(* gateway, and then all of its bytes in their order.                        *)
LEMMA Contents ==
    ASSUME NEW A, NEW m \in Seq(Tokens(A))
    PROVE  \/ Content(m) \in {Unverified, NotOurs}
           \/ /\ Content(m) \in A
              /\ m = <<CipherOf(Content(m)), HmacOf(Content(m)), CrcOf(Content(m))>>
<1> DEFINE r == processLoRaMessage(m)
           k == r.message[1].n
           c == Front(Front(m))
<1>1. CASE Failed(r)
  BY <1>1, Zenon DEF Content
<1>2. CASE ~Failed(r) /\ r.message # <<Text(k)>>
  BY <1>2, Zenon DEF Content
<1>3. CASE ~Failed(r) /\ r.message = <<Text(k)>>
  <2>1. Content(m) = k
    BY <1>3, Zenon DEF Content
  <2>2. /\ m # <<>> /\ Front(m) # <<>>
        /\ Last(m) = Crc(Front(m)) /\ Last(Front(m)) = Hmac(c)
        /\ r = DecrypterBase64(c)
    BY <1>3, Verified
  <2>3. DecrypterBase64(c).message = <<Text(k)>>
    BY <1>3, <2>2
  <2>4. Len(c) = 1 /\ c[1].token = "cipher" /\ c[1].of = <<Text(k)>>
    <3> HIDE DEF k, c
    <3> QED BY <2>3, Decrypted
  <2>5. /\ c \in Seq(Tokens(A)) /\ Front(m) \in Seq(Tokens(A))
        /\ Len(Front(m)) = 2 /\ Len(m) = 3
        /\ c[1] = m[1] /\ Front(m)[1] = m[1] /\ Front(m)[2] = m[2]
        /\ Last(Front(m)) = m[2] /\ Last(m) = m[3]
    <3>1. /\ Front(m) \in Seq(Tokens(A)) /\ Len(Front(m)) = Len(m) - 1
          /\ \A i \in 1 .. Len(m) - 1 : Front(m)[i] = m[i]
          /\ Last(m) = m[Len(m)] /\ Len(m) \in Nat \ {0}
      BY <2>2, ShorterBytes
    <3>2. /\ c \in Seq(Tokens(A)) /\ Len(c) = Len(Front(m)) - 1
          /\ \A i \in 1 .. Len(Front(m)) - 1 : c[i] = Front(m)[i]
          /\ Last(Front(m)) = Front(m)[Len(Front(m))]
      BY <2>2, <3>1, ShorterBytes
    <3>3. Len(Front(m)) \in Nat
      BY <3>1
    <3> HIDE DEF c
    <3>4. Len(c) = 1 /\ Len(c) = Len(Front(m)) - 1 /\ Len(Front(m)) = Len(m) - 1
      BY <2>4, <3>1, <3>2, Zenon
    <3>5. Len(m) \in Nat
      BY <3>1
    <3>6. Len(Front(m)) = 2 /\ Len(m) = 3
      BY <3>3, <3>4, <3>5, LessOne, Zenon
    <3> QED BY <3>1, <3>2, <3>6
  <2>6. c[1] \in Tokens(A)
    <3> HIDE DEF c
    <3>1. 1 \in 1 .. Len(c)
      BY <2>4
    <3> QED BY <2>5, <3>1
  <2>7. PICK n \in A \union {NotOurs} : c[1] = CipherOf(n)
    <3> HIDE DEF c
    <3> QED BY <2>4, <2>6, Ciphers
  <2>8. n = k
    <3>1. CipherOf(n).of = <<Text(n)>>
      BY DEF CipherOf, Cipher
    <3> HIDE DEF k, c
    <3> QED BY <2>4, <2>7, <3>1, Texts
  <2>9. c = <<CipherOf(n)>>
    <3> HIDE DEF c
    <3>1. c = <<c[1]>>
      BY <2>4, <2>5, OfLength
    <3> QED BY <2>7, <3>1, Zenon
  <2>10. Front(m) = <<CipherOf(n), HmacOf(n)>>
    <3>1. m[1] = CipherOf(n) /\ m[2] = HmacOf(n)
      BY <2>2, <2>5, <2>7, <2>9, Zenon DEF HmacOf
    <3>2. Front(m) = <<Front(m)[1], Front(m)[2]>>
      BY <2>5, OfLength
    <3> QED BY <2>5, <3>1, <3>2, Zenon
  <2>11. m = <<CipherOf(n), HmacOf(n), CrcOf(n)>>
    <3>1. m[1] = CipherOf(n) /\ m[2] = HmacOf(n) /\ m[3] = CrcOf(n)
      BY <2>2, <2>5, <2>7, <2>9, <2>10, Zenon DEF HmacOf, CrcOf
    <3>2. m = <<m[1], m[2], m[3]>>
      BY <2>5, OfLength
    <3> QED BY <3>1, <3>2, Zenon
  <2> HIDE DEF k, r, c
  <2> QED BY <2>1, <2>7, <2>8, <2>11, Zenon
<1> HIDE DEF k
<1> QED BY <1>1, <1>2, <1>3

LEMMA MoreBytes ==
    ASSUME NEW S, NEW T, S \subseteq T
    PROVE  Seq(S) \subseteq Seq(T)
  OBVIOUS

-----------------------------------------------------------------------------
(* The radio holds what it has heard. *)
Radios(A) ==
    [mode : LoRa!Modes, inverted : BOOLEAN, rxDone : BOOLEAN, fifo : Seq(Tokens(A)),
     settings : [sf : Int, sw : Int, bw : Int, frequency : Int, power : Int]]

(* No byte of an earlier exchange is left once the radio has been reset, and *)
(* none of an earlier message once the assembly has been cleared.            *)
LinkInv ==
    /\ radio \in Radios(1 .. MaxReports)
    /\ state \in {"SENDING_MESSAGE", "WAITING_FOR_ACK"} => radio \in Radios(acks)
    /\ air \in Seq(Seq(Tokens(acks)))
    /\ accumulatedBuffer \in Seq(Tokens(acks))
    /\ state \in {"none", "INITIALIZE_TRANSCIEVER"} => accumulatedBuffer = <<>>
    /\ state # "none" => length \in Lengths
    /\ AcceptedIsWhole

LEMMA MoreRadios ==
    ASSUME NEW A, NEW B, A \subseteq B
    PROVE  Radios(A) \subseteq Radios(B)
<1>1. Seq(Tokens(A)) \subseteq Seq(Tokens(B))
  BY MoreTokens, MoreBytes
<1> QED BY <1>1 DEF Radios

(* The driver writes its registers one by one; only a reception, or the      *)
(* write of a chunk, touches the FIFO.                                       *)
LEMMA RadioKeeps ==
    ASSUME NEW A, NEW r \in Radios(A)
    PROVE  /\ LoRa!idle(r) \in Radios(A) /\ LoRa!sleep(r) \in Radios(A)
           /\ LoRa!enableInvertIQ(r) \in Radios(A) /\ LoRa!disableInvertIQ(r) \in Radios(A)
           /\ LoRa!beginPacket(r) \in Radios(A) /\ LoRa!endPacket(r) \in Radios(A)
           /\ LoRa!ReceptionEnds(r) \in Radios(A)
           /\ LoRa!parsePacket(r).radio \in Radios(A)
           /\ r.fifo \in Seq(Tokens(A))
           /\ \A bytes \in Seq(Tokens(A)) :
                  /\ [r EXCEPT !.fifo = bytes] \in Radios(A)
                  /\ LoRa!Received(r, bytes) \in Radios(A)
<1> USE DEF Radios, LoRa!Modes
<1>1. /\ LoRa!idle(r) \in Radios(A) /\ LoRa!sleep(r) \in Radios(A)
      /\ LoRa!enableInvertIQ(r) \in Radios(A) /\ LoRa!disableInvertIQ(r) \in Radios(A)
      /\ LoRa!ReceptionEnds(r) \in Radios(A)
  BY DEF LoRa!idle, LoRa!sleep, LoRa!enableInvertIQ, LoRa!disableInvertIQ, LoRa!ReceptionEnds
<1>2. LoRa!beginPacket(r) \in Radios(A) /\ LoRa!endPacket(r) \in Radios(A)
  BY DEF LoRa!idle, LoRa!beginPacket, LoRa!endPacket
<1>3. LoRa!parsePacket(r).radio \in Radios(A)
  BY DEF LoRa!parsePacket, LoRa!Parsed, LoRa!idle
<1>4. r.fifo \in Seq(Tokens(A))
  OBVIOUS
<1>5. ASSUME NEW bytes \in Seq(Tokens(A))
      PROVE  [r EXCEPT !.fifo = bytes] \in Radios(A) /\ LoRa!Received(r, bytes) \in Radios(A)
  BY DEF LoRa!Received
<1> QED BY <1>1, <1>2, <1>3, <1>4, <1>5

(* begin() leaves nothing of what was heard before. *)
LEMMA RadioBegins ==
    ASSUME NEW A
    PROVE  /\ LoRa!begin(915) \in Radios(A)
           /\ LoRa!setSignalBandwidth(LoRa!setSyncWord(
                 LoRa!setSpreadingFactor(LoRa!Reset, 12), 243), 125) \in Radios(A)
<1> USE DEF Radios, LoRa!Modes
<1>1. LoRa!Reset \in Radios(A)
  BY DEF LoRa!Reset, LoRa!Radio
<1>2. ASSUME NEW r \in Radios(A), NEW n \in Int
      PROVE  /\ LoRa!setFrequency(r, n) \in Radios(A) /\ LoRa!setTxPower(r, n) \in Radios(A)
             /\ LoRa!setSyncWord(r, n) \in Radios(A) /\ LoRa!setSpreadingFactor(r, n) \in Radios(A)
             /\ LoRa!setSignalBandwidth(r, n) \in Radios(A)
  <2>1. LoRa!setFrequency(r, n) \in Radios(A) /\ LoRa!setSyncWord(r, n) \in Radios(A)
        /\ LoRa!setSignalBandwidth(r, n) \in Radios(A)
    BY DEF LoRa!setFrequency, LoRa!setSyncWord, LoRa!setSignalBandwidth
  <2>2. LoRa!setTxPower(r, n) \in Radios(A) /\ LoRa!setSpreadingFactor(r, n) \in Radios(A)
    BY SMTT(30) DEF LoRa!setTxPower, LoRa!setSpreadingFactor
  <2> QED BY <2>1, <2>2
<1> HIDE DEF Radios
<1>3. LoRa!begin(915) \in Radios(A)
  BY <1>1, <1>2, RadioKeeps DEF LoRa!begin
<1> QED BY <1>1, <1>2, <1>3

(* Everything the tracker and others may put on the air or into the FIFO. *)
LEMMA KnownBytes ==
    ASSUME NEW A
    PROVE  /\ \A chunk \in Strays : chunk \in Seq(Tokens(A))
           /\ \A intact, from, bytes : Chunk(intact, from, bytes) \in Seq(Tokens(A))
           /\ \A n \in A : AckFragments(n) \in Seq(Seq(Tokens(A)))
<1>1. Noise \in Tokens(A) /\ Delimiter \in Tokens(A)
  BY DEF Tokens
<1>2. ASSUME NEW n \in A \union {NotOurs}
      PROVE  Wire(Text(n)) \in Seq(Tokens(A)) /\ Len(Wire(Text(n))) = 4
  <2>1. CipherOf(n) \in Tokens(A) /\ HmacOf(n) \in Tokens(A) /\ CrcOf(n) \in Tokens(A)
    BY DEF Tokens, TokensOf
  <2>2. /\ <<CipherOf(n), HmacOf(n), CrcOf(n), Delimiter>> \in Seq(Tokens(A))
        /\ Len(<<CipherOf(n), HmacOf(n), CrcOf(n), Delimiter>>) = 4
    BY <1>1, <2>1
  <2> QED BY <2>2, WireBytes
<1>3. /\ <<>> \in Seq(Tokens(A)) /\ <<Noise>> \in Seq(Tokens(A))
      /\ <<Delimiter>> \in Seq(Tokens(A)) /\ <<Noise, Delimiter>> \in Seq(Tokens(A))
  BY <1>1
<1>4. Wire(Text(NotOurs)) \in Seq(Tokens(A))
  BY <1>2
<1>5. \A chunk \in Strays : chunk \in Seq(Tokens(A))
  BY <1>3, <1>4, Zenon DEF Strays
<1>6. \A intact, from, bytes : Chunk(intact, from, bytes) \in Seq(Tokens(A))
  BY <1>3, <1>4, Zenon DEF Chunk
<1>7. ASSUME NEW n \in A PROVE AckFragments(n) \in Seq(Seq(Tokens(A)))
  <2>1. SubSeq(Wire(Text(n)), 1, 1) \in Seq(Tokens(A)) /\ SubSeq(Wire(Text(n)), 2, 4) \in Seq(Tokens(A))
    BY <1>2
  <2> QED BY <2>1 DEF AckFragments
<1> QED BY <1>5, <1>6, <1>7

-----------------------------------------------------------------------------
LEMMA LinkStart == LinkInit => LoRaInv /\ LinkInv
<1> SUFFICES ASSUME LinkInit PROVE LoRaInv /\ LinkInv
  OBVIOUS
<1>1. LoRaInv
  BY LoRaInit DEF LinkInit
<1>2. radio \in Radios(1 .. MaxReports)
  BY RadioBegins, ZenonT(30) DEF LinkInit
<1>3. state = "none" /\ received = Nothing /\ air = <<>> /\ accumulatedBuffer = <<>>
  BY DEF LinkInit, Init
<1> QED BY <1>1, <1>2, <1>3 DEF LinkInv, AcceptedIsWhole, Nothing

LEMMA BeginLinkStep == LoRaInv /\ LinkInv /\ beginLink => begin /\ LinkInv'
<1> SUFFICES ASSUME LoRaInv, LinkInv, beginLink PROVE begin /\ LinkInv'
  OBVIOUS
<1>1. begin /\ state = "none" /\ state' = "INITIALIZE_TRANSCIEVER" /\ length' \in Lengths
      /\ UNCHANGED <<radio, accumulatedBuffer, fullMessage, received>>
  BY DEF beginLink, begin, assembly, statics
<1>2. accumulatedBuffer = <<>>
  BY <1>1 DEF LinkInv
<1>3. air' \in Seq(Seq(Tokens(acks')))
  <2>1. air' = air /\ acks' = acks
    BY Zenon DEF beginLink, begin
  <2> QED BY <2>1, Zenon DEF LinkInv
<1> QED BY <1>1, <1>2, <1>3 DEF LinkInv, AcceptedIsWhole

LEMMA InitializeRadioStep == LoRaInv /\ LinkInv /\ initializeRadio => initialize /\ LinkInv'
<1> SUFFICES ASSUME LoRaInv, LinkInv, initializeRadio PROVE initialize /\ LinkInv'
  OBVIOUS
<1>1. initialize /\ state = "INITIALIZE_TRANSCIEVER" /\ state' = "SENDING_MESSAGE"
      /\ UNCHANGED <<length, acks, air, accumulatedBuffer, fullMessage, received>>
  BY DEF initializeRadio, initialize, assembly, statics, link
<1>2. radio' \in Radios(1 .. MaxReports) /\ radio' \in Radios(acks')
  <2> DEFINE fresh == LoRa!begin(915)
  <2>1. \A A : fresh \in Radios(A)
    BY RadioBegins, ZenonT(30)
  <2>2. radio' = fresh
    BY Zenon DEF initializeRadio
  <2> HIDE DEF fresh
  <2> QED BY <2>1, <2>2, Zenon
<1> QED BY <1>1, <1>2 DEF LinkInv, AcceptedIsWhole

(* The gateway answers when it has the message whole, and with a number of   *)
(* ours: a chunk without bytes completes nothing.                            *)
LEMMA Answered ==
    ASSUME LoRaInv, LinkInv, state = "SENDING_MESSAGE",
           NEW intact \in BOOLEAN, NEW total \in Nat, intact => total = length,
           Transmit(intact, stringIndex, ChunkBytes(total)),
           UNCHANGED <<report, length, number>>,
           heard' = length /\ (heard # length \/ stringIndex = 0)
    PROVE  number \in acks'
<1> USE LoRaAssumption
<1> DEFINE bytes == ChunkBytes(total)
<1>1. /\ stringIndex \in Nat /\ heard \in Nat /\ length \in Nat \ {0}
  BY DEF LoRaInv, TypeOK, LinkInv
<1>2. /\ bytes \in Nat
      /\ bytes = 0 => total = stringIndex
  BY <1>1 DEF ChunkBytes
<1>3. PICK arrives \in BOOLEAN :
         heard' = IF arrives /\ intact /\ stringIndex \in {0, heard} THEN stringIndex + bytes
                  ELSE IF stringIndex = 0 THEN 0 ELSE heard
  BY DEF Transmit
<1>4. bytes # 0
  BY <1>1, <1>2, <1>3
<1>5. bytes > 0 /\ heard' = length
  BY <1>2, <1>4
<1> QED BY <1>5 DEF Transmit

LEMMA SendPacketStep == LoRaInv /\ LinkInv /\ sendPacket => sendChunk /\ LinkInv'
<1> SUFFICES ASSUME LoRaInv, LinkInv, sendPacket PROVE sendChunk /\ LinkInv'
  OBVIOUS
<1> USE LoRaAssumption
<1>1. PICK intact \in BOOLEAN, total \in Lengths \union Overwritten :
          /\ sendChunkOf(intact, total)
          /\ transmitChunk(Chunk(intact, stringIndex, ChunkBytes(total)))
  BY DEF sendPacket
<1>2. sendChunk
  BY <1>1 DEF sendChunk
<1>3. /\ total \in Nat /\ intact => total = length
      /\ state = "SENDING_MESSAGE" /\ state' \in {"SENDING_MESSAGE", "WAITING_FOR_ACK"}
      /\ UNCHANGED <<report, length, number, received>>
      /\ UNCHANGED <<accumulatedBuffer, fullMessage>>
      /\ Transmit(intact, stringIndex, ChunkBytes(total))
  BY <1>1 DEF sendChunkOf, sendPacket, assembly
<1>4. acks \subseteq acks' /\ acks' \subseteq 1 .. MaxReports
  <2>1. acks \subseteq acks'
    BY <1>3 DEF Transmit
  <2>2. LoRaInv'
    BY <1>2, SendChunkStep
  <2> QED BY <2>1, <2>2 DEF LoRaInv, TypeOK
<1>5. Seq(Tokens(acks)) \subseteq Seq(Tokens(acks'))
  BY <1>4, MoreTokens, MoreBytes
<1>6. Seq(Seq(Tokens(acks))) \subseteq Seq(Seq(Tokens(acks')))
  BY <1>5, MoreBytes
<1>7. radio' \in Radios(acks')
  <2> DEFINE chunk == Chunk(intact, stringIndex, ChunkBytes(total))
             sending == LoRa!beginPacket(LoRa!disableInvertIQ(LoRa!idle(radio)))
  <2>1. radio \in Radios(acks)
    BY <1>3 DEF LinkInv
  <2>2. sending \in Radios(acks) /\ radio.fifo \in Seq(Tokens(acks))
    BY <2>1, RadioKeeps
  <2>3. /\ chunk \in Seq(Tokens(acks)) /\ <<>> \in Seq(Tokens(acks))
        /\ <<Noise>> \in Seq(Tokens(acks)) /\ Append(chunk, Noise) \in Seq(Tokens(acks))
    <3>1. chunk \in Seq(Tokens(acks)) /\ Noise \in Tokens(acks)
      BY KnownBytes DEF Tokens
    <3> QED BY <3>1
  <2> HIDE DEF chunk, sending
  <2>4. PICK left \in IF radio.rxDone THEN LoRa!Overwrites(chunk, radio.fifo, Noise) ELSE {<<>>} :
            radio' = LoRa!endPacket([sending EXCEPT !.fifo = left])
    BY <1>1, Zenon DEF transmitChunk, chunk, sending
  <2>5. left \in Seq(Tokens(acks))
    BY <2>2, <2>3, <2>4 DEF LoRa!Overwrites
  <2>6. radio' \in Radios(acks)
    BY <2>2, <2>4, <2>5, RadioKeeps
  <2> QED BY <1>4, <2>6, MoreRadios
<1>8. radio' \in Radios(1 .. MaxReports)
  BY <1>4, <1>7, MoreRadios
<1>9. air' \in Seq(Seq(Tokens(acks')))
  <2>1. air \in Seq(Seq(Tokens(acks')))
    BY <1>6 DEF LinkInv
  <2> DEFINE answered == /\ heard' = length /\ (heard # length \/ stringIndex = 0)
                         /\ Len(air) + 2 <= MaxAir
  <2>2. air' = IF answered THEN air \o AckFragments(number) ELSE air
    BY Zenon DEF sendPacket
  <2>3. answered => number \in acks'
    BY <1>3, Answered
  <2> HIDE DEF answered
  <2>4. CASE answered
    <3>1. AckFragments(number) \in Seq(Seq(Tokens(acks')))
      BY <2>3, <2>4, KnownBytes
    <3>2. air' = air \o AckFragments(number)
      BY <2>2, <2>4, Zenon
    <3> QED BY <2>1, <3>1, <3>2
  <2>5. CASE ~answered
    <3>1. air' = air
      BY <2>2, <2>5, Zenon
    <3> QED BY <2>1, <3>1
  <2> QED BY <2>4, <2>5
<1>10. accumulatedBuffer' \in Seq(Tokens(acks'))
  BY <1>3, <1>5 DEF LinkInv
<1> QED BY <1>2, <1>3, <1>7, <1>8, <1>9, <1>10 DEF LinkInv, AcceptedIsWhole

-----------------------------------------------------------------------------
(* The radio works on its own; the exchange notices nothing. *)
LEMMA RadioStep ==
    LoRaInv /\ LinkInv /\ (hear \/ missFragment \/ receiverStops)
        => UNCHANGED vars /\ LinkInv'
<1> SUFFICES ASSUME LoRaInv, LinkInv, hear \/ missFragment \/ receiverStops
             PROVE  UNCHANGED vars /\ LinkInv'
  OBVIOUS
<1>1. /\ UNCHANGED vars /\ UNCHANGED <<state, length, acks, received>>
      /\ UNCHANGED <<accumulatedBuffer, fullMessage>>
  BY DEF hear, missFragment, receiverStops, vars, statics, link, assembly
<1>2. air' = air \/ (air # <<>> /\ air' = Tail(air))
  BY DEF hear, missFragment, receiverStops
<1>3. air' \in Seq(Seq(Tokens(acks)))
  <2>1. air \in Seq(Seq(Tokens(acks)))
    BY DEF LinkInv
  <2>2. CASE air' = air
    BY <2>1, <2>2
  <2>3. CASE air # <<>> /\ air' = Tail(air)
    BY <2>1, <2>3
  <2> QED BY <1>2, <2>2, <2>3
<1>4. acks \subseteq 1 .. MaxReports
  BY DEF LoRaInv, TypeOK
<1>5. ASSUME NEW A, acks \subseteq A, radio \in Radios(A)
      PROVE  radio' \in Radios(A)
  <2>1. CASE hear
    <3>1. PICK fragment \in {Head(air), <<Noise>>} \union Strays :
              /\ radio' = LoRa!Received(radio, fragment)
              /\ fragment = Head(air) => air # <<>> \/ fragment \in Strays
      BY <2>1 DEF hear
    <3>2. air # <<>> => Head(air) \in Seq(Tokens(acks))
      BY DEF LinkInv
    <3>3. Seq(Tokens(acks)) \subseteq Seq(Tokens(A))
      BY <1>5, MoreTokens, MoreBytes
    <3>4. <<Noise>> \in Seq(Tokens(A)) /\ \A stray \in Strays : stray \in Seq(Tokens(A))
      BY KnownBytes DEF Strays
    <3>5. fragment \in Seq(Tokens(A))
      BY <3>1, <3>2, <3>3, <3>4
    <3> QED BY <1>5, <3>1, <3>5, RadioKeeps
  <2>2. CASE missFragment
    BY <1>5, <2>2 DEF missFragment
  <2>3. CASE receiverStops
    BY <1>5, <2>3, RadioKeeps DEF receiverStops
  <2> QED BY <2>1, <2>2, <2>3
<1>6. /\ radio' \in Radios(1 .. MaxReports)
      /\ state \in {"SENDING_MESSAGE", "WAITING_FOR_ACK"} => radio' \in Radios(acks)
  BY <1>4, <1>5 DEF LinkInv
<1> QED BY <1>1, <1>3, <1>6 DEF LinkInv, AcceptedIsWhole

(* What a call that reads the radio leaves in it. *)
LEMMA Polled ==
    ASSUME LoRaInv, LinkInv, Polling
    PROVE  /\ Poll.radio \in Radios(acks) /\ Poll.radio \in Radios(1 .. MaxReports)
           /\ radio.fifo \in Seq(Tokens(acks))
<1>1. radio \in Radios(acks) /\ radio \in Radios(1 .. MaxReports)
  BY DEF LinkInv, Polling
<1> QED BY <1>1, RadioKeeps DEF Poll

(* A call that does not end with a time-out takes the next message, if it is *)
(* whole: one that LoRaExchange may receive.                                 *)
LEMMA AccumulateStep ==
    ASSUME LoRaInv, LinkInv, Polling, NEW packet \in Seq(Tokens(acks)), accumulate(packet)
    PROVE  /\ accumulatedBuffer' \in Seq(Tokens(acks))
           /\ \/ received' = received
              \/ /\ received' \in acks \union {Unverified, NotOurs}
                 /\ received' > 0 => fullMessage' = Front(Wire(Text(received')))
<1> DEFINE bytes == accumulatedBuffer \o packet
<1>1. bytes \in Seq(Tokens(acks))
  BY DEF LinkInv
<1> HIDE DEF bytes
<1>2. CASE stringInsertCount + 1 > MaxInserts
  <2>1. accumulatedBuffer' = <<>> /\ received' = received
    BY <1>2 DEF accumulate, clearAssembly
  <2> QED BY <2>1
<1>3. CASE accumulatedBuffer' = bytes /\ UNCHANGED received
  BY <1>1, <1>3
<1>4. ASSUME NEW mark \in DOMAIN bytes,
             fullMessage' = SubSeq(bytes, 1, mark - 1),
             accumulatedBuffer' = SubSeq(bytes, mark + 1, Len(bytes)),
             received' = Content(fullMessage')
      PROVE  /\ accumulatedBuffer' \in Seq(Tokens(acks))
             /\ received' \in acks \union {Unverified, NotOurs}
             /\ received' > 0 => fullMessage' = Front(Wire(Text(received')))
  <2>1. mark \in 1 .. Len(bytes) /\ Len(bytes) \in Nat
    BY <1>1
  <2>2. /\ accumulatedBuffer' \in Seq(Tokens(acks))
        /\ fullMessage' \in Seq(Tokens(acks))
    BY <1>1, <1>4, <2>1, SMTT(30)
  <2> DEFINE n == Content(fullMessage')
  <2>3. \/ n \in {Unverified, NotOurs}
        \/ n \in acks /\ fullMessage' = <<CipherOf(n), HmacOf(n), CrcOf(n)>>
    BY <2>2, Contents, Zenon
  <2>4. received' = n
    BY <1>4
  <2> HIDE DEF n
  <2>5. n \in {Unverified, NotOurs} => ~(n > 0)
    BY DEF Unverified, NotOurs
  <2>6. Front(Wire(Text(n))) = <<CipherOf(n), HmacOf(n), CrcOf(n)>>
    BY WireFront, Zenon
  <2> QED BY <2>2, <2>3, <2>4, <2>5, <2>6, Zenon
<1>5. CASE ~(stringInsertCount + 1 > MaxInserts)
  <2>1. \/ accumulatedBuffer' = bytes /\ UNCHANGED received
        \/ \E mark \in DOMAIN bytes :
              /\ fullMessage' = SubSeq(bytes, 1, mark - 1)
              /\ accumulatedBuffer' = SubSeq(bytes, mark + 1, Len(bytes))
              /\ received' = Content(fullMessage')
    BY <1>5, Zenon DEF accumulate, bytes
  <2> QED BY <1>3, <1>4, <2>1, Zenon
<1> QED BY <1>2, <1>5

LEMMA PollStep == LoRaInv /\ LinkInv /\ poll => [receive]_vars /\ LinkInv'
<1> SUFFICES ASSUME LoRaInv, LinkInv, poll PROVE [receive]_vars /\ LinkInv'
  OBVIOUS
<1>1. /\ state = "WAITING_FOR_ACK" /\ received = Nothing /\ Polling
      /\ UNCHANGED <<state, report, length, number, stringIndex, firstChunkSent,
                     timeoutCounter, heard, delivered, history, acks, air>>
      /\ radio' = Poll.radio
  BY DEF poll, Polling, link
<1>2. radio' \in Radios(acks) /\ radio' \in Radios(1 .. MaxReports)
  BY <1>1, Polled
<1>3. /\ accumulatedBuffer' \in Seq(Tokens(acks))
      /\ \/ received' = received
         \/ /\ received' \in acks \union {Unverified, NotOurs}
            /\ received' > 0 => fullMessage' = Front(Wire(Text(received')))
  <2>1. CASE Poll.packet
    <3>1. accumulate(radio.fifo)
      BY <2>1, Zenon DEF poll
    <3> QED BY <1>1, <3>1, Polled, AccumulateStep
  <2>2. CASE ~Poll.packet
    <3>1. UNCHANGED <<assembly, received>>
      BY <2>2, Zenon DEF poll
    <3> QED BY <3>1 DEF assembly, LinkInv
  <2> QED BY <2>1, <2>2
<1>4. [receive]_vars
  <2>1. CASE received' = received
    BY <1>1, <2>1 DEF vars, statics, link
  <2>2. CASE received' \in acks \union {Unverified, NotOurs}
    BY <1>1, <2>2 DEF receive
  <2> QED BY <1>3, <2>1, <2>2
<1>5. AcceptedIsWhole'
  <2>1. CASE received' = received
    BY <1>1, <2>1 DEF AcceptedIsWhole, Nothing
  <2>2. CASE received' > 0 => fullMessage' = Front(Wire(Text(received')))
    BY <2>2, Zenon DEF AcceptedIsWhole
  <2> QED BY <1>3, <2>1, <2>2
<1> QED BY <1>1, <1>2, <1>3, <1>4, <1>5 DEF LinkInv

(* A call that clears the assembly: a time-out, or a packet dealt with. *)
LEMMA ClearStep ==
    ASSUME LoRaInv, LinkInv, LoRaInv', state = "WAITING_FOR_ACK", clearAssembly,
           UNCHANGED <<length, acks, air>>, received' = Nothing,
           radio' = radio \/ radio' = Poll.radio,
           state' \in {"none", "SENDING_MESSAGE", "WAITING_FOR_ACK"}
    PROVE  LinkInv'
<1>1. radio \in Radios(acks) /\ radio \in Radios(1 .. MaxReports)
  BY DEF LinkInv
<1>2. Poll.radio \in Radios(acks) /\ Poll.radio \in Radios(1 .. MaxReports)
  BY <1>1, RadioKeeps DEF Poll
<1>3. radio' \in Radios(acks) /\ radio' \in Radios(1 .. MaxReports)
  BY <1>1, <1>2
<1>4. accumulatedBuffer' = <<>>
  BY DEF clearAssembly
<1> QED BY <1>3, <1>4 DEF LinkInv, AcceptedIsWhole, Nothing

LEMMA TimesOutStep == LoRaInv /\ LinkInv /\ pollTimesOut => waitTimesOut /\ LinkInv'
<1> SUFFICES ASSUME LoRaInv, LinkInv, pollTimesOut PROVE waitTimesOut /\ LinkInv'
  OBVIOUS
<1>1. /\ state = "WAITING_FOR_ACK" /\ received = Nothing
      /\ timeout /\ clearAssembly /\ UNCHANGED <<acks, air>> /\ radio' = Poll.radio
  BY DEF pollTimesOut, Polling
<1>2. LoRaInv' /\ received' = Nothing
  BY <1>1, TimeoutStep
<1>3. state' \in {"none", "SENDING_MESSAGE"} /\ UNCHANGED length
  BY <1>1 DEF timeout
<1> QED BY <1>1, <1>2, <1>3, ClearStep DEF waitTimesOut

LEMMA DropFailedStep == LoRaInv /\ LinkInv /\ dropFailed => dropUnverified /\ LinkInv'
<1> SUFFICES ASSUME LoRaInv, LinkInv, dropFailed PROVE dropUnverified /\ LinkInv'
  OBVIOUS
<1>1. /\ dropUnverified /\ received' = Nothing /\ state = "WAITING_FOR_ACK"
      /\ UNCHANGED <<state, length, acks, radio, air>>
  BY DEF dropFailed, dropUnverified, link
<1>2. accumulatedBuffer' = <<>> \/ accumulatedBuffer' = accumulatedBuffer
  BY DEF dropFailed
<1>3. accumulatedBuffer' \in Seq(Tokens(acks))
  <2>1. accumulatedBuffer \in Seq(Tokens(acks)) /\ <<>> \in Seq(Tokens(acks))
    BY DEF LinkInv
  <2> QED BY <1>2, <2>1, Zenon
<1> QED BY <1>1, <1>3 DEF LinkInv, AcceptedIsWhole, Nothing

LEMMA DropForeignStep == LoRaInv /\ LinkInv /\ dropForeign => dropNotOurs /\ LinkInv'
<1> SUFFICES ASSUME LoRaInv, LinkInv, dropForeign PROVE dropNotOurs /\ LinkInv'
  OBVIOUS
<1>1. /\ dropNotOurs /\ state = "WAITING_FOR_ACK" /\ clearAssembly
      /\ UNCHANGED <<acks, radio, air>>
  BY DEF dropForeign, dropNotOurs
<1>2. received' = Nothing /\ UNCHANGED length
      /\ state' \in {"none", "SENDING_MESSAGE", "WAITING_FOR_ACK"}
  BY <1>1 DEF dropNotOurs, timeout
<1>3. LoRaInv'
  BY <1>1, LoRaStep DEF Next
<1> QED BY <1>1, <1>2, <1>3, ClearStep

LEMMA AcceptStep == LoRaInv /\ LinkInv /\ acceptAck => acknowledged /\ LinkInv'
<1> SUFFICES ASSUME LoRaInv, LinkInv, acceptAck PROVE acknowledged /\ LinkInv'
  OBVIOUS
<1>1. /\ acknowledged /\ state = "WAITING_FOR_ACK" /\ clearAssembly
      /\ UNCHANGED <<acks, radio, air>>
      /\ received' = Nothing /\ UNCHANGED length /\ state' = "none"
  BY DEF acceptAck, acknowledged, link
<1>2. LoRaInv'
  BY <1>1, LoRaStep DEF Next
<1> QED BY <1>1, <1>2, ClearStep

(* Every step of the link is one of the exchange, or none. *)
LEMMA LinkStep == LoRaInv /\ LinkInv /\ [LinkNext]_linkVars => [Next]_vars /\ LinkInv'
<1> SUFFICES ASSUME LoRaInv, LinkInv, [LinkNext]_linkVars PROVE [Next]_vars /\ LinkInv'
  OBVIOUS
<1>1. CASE beginLink
  BY <1>1, BeginLinkStep DEF Next
<1>2. CASE initializeRadio
  BY <1>2, InitializeRadioStep DEF Next
<1>3. CASE sendPacket
  BY <1>3, SendPacketStep DEF Next
<1>4. CASE hear \/ missFragment \/ receiverStops
  BY <1>4, RadioStep
<1>5. CASE poll
  BY <1>5, PollStep DEF Next
<1>6. CASE pollTimesOut
  BY <1>6, TimesOutStep DEF Next
<1>7. CASE dropFailed
  BY <1>7, DropFailedStep DEF Next
<1>8. CASE dropForeign
  BY <1>8, DropForeignStep DEF Next
<1>9. CASE acceptAck
  BY <1>9, AcceptStep DEF Next
<1>10. CASE UNCHANGED linkVars
  BY <1>10 DEF linkVars, vars, statics, link, assembly, LinkInv, AcceptedIsWhole
<1> QED BY <1>1, <1>2, <1>3, <1>4, <1>5, <1>6, <1>7, <1>8, <1>9, <1>10 DEF LinkNext

-----------------------------------------------------------------------------
(* Both invariants hold in every state of the link. *)
THEOREM LinkInvariant == LinkSpec => [](LoRaInv /\ LinkInv)
<1>1. LoRaInv /\ LinkInv /\ [LinkNext]_linkVars => (LoRaInv /\ LinkInv)'
  BY LinkStep, LoRaStep
<1> QED BY <1>1, LinkStart, PTL DEF LinkSpec

(* The handlers of MessageHandler, the driver LoRaClass and the assembly of  *)
(* packets in ExchangingLoRaMessages together take no step the exchange does *)
(* not allow, for every number of insertions before the assembly is emptied. *)
THEOREM LinkImplementsExchange == LinkSpec => Spec
<1>1. LinkInit => Init
  BY DEF LinkInit
<1>2. LoRaInv /\ LinkInv /\ [LinkNext]_linkVars => [Next]_vars
  BY LinkStep
<1> QED BY <1>1, <1>2, LinkInvariant, PTL DEF LinkSpec, Spec

(* What ExchangingLoRaMessages takes for an ACK is byte by byte one that the *)
(* gateway sent: the verifiers refuse every other mixture of fragments,      *)
(* echoes and strays.                                                        *)
THEOREM AcksAreWhole == LinkSpec => []AcceptedIsWhole
<1>1. LinkInv => AcceptedIsWhole
  BY DEF LinkInv
<1> QED BY <1>1, LinkInvariant, PTL

(* So a number ends one exchange at most on the link, too. *)
THEOREM LinkNumbersKept == LinkSpec => []NumbersConfirmedOnce
<1> QED BY LinkImplementsExchange, NumbersKept, PTL

(* And one that ends with an ACK stands for an arrival of its own, whatever   *)
(* the radio mixes, misses or hears late.                                    *)
THEOREM LinkArrives == LinkSpec => []ArrivalPerAck
<1> QED BY LinkImplementsExchange, Arrives, PTL
==============================================================================
