------------------------------- MODULE LoRaLink -------------------------------
(***************************************************************************)
(* The LoRa exchange with what lies between it and the gateway: the chain  *)
(* of handlers, the driver of the radio and the fragments ACKs come in.    *)
(* LoRaExchange promises how an exchange ends whichever packets it reads;  *)
(* here the packets are put together from what the radio hears, out of a   *)
(* buffer that outlives time-outs and a FIFO that outlives transmissions.  *)
(***************************************************************************)
EXTENDS LoRaExchange, MessageChain
LoRa == INSTANCE LoRaRadio

CONSTANTS
    MaxInserts,    \* insertions before the accumulated bytes are thrown away (51)
    MaxAir         \* bound on the fragments in the air; what exceeds it is lost

ASSUME LinkAssumption == MaxInserts \in Nat \ {0} /\ MaxAir \in Nat

VARIABLES
    radio,              \* the registers of the SX1276
    air,                \* fragments of the gateway's ACKs that are still to come
    accumulatedBuffer,  \* static: bytes without a delimiter so far
    stringInsertCount,  \* static: insertions since it was last emptied
    fullMessage         \* static: the bytes before the delimiter, <<>> between messages

assembly == <<accumulatedBuffer, stringInsertCount, fullMessage>>
linkVars == <<vars, radio, air, assembly>>

(* The Tracker's constructor sets the radio up once. *)
LinkInit ==
    /\ Init
    /\ radio = LoRa!setSignalBandwidth(
                   LoRa!setSyncWord(LoRa!setSpreadingFactor(LoRa!Reset, 12), 243), 125)
    /\ air = <<>>
    /\ accumulatedBuffer = <<>> /\ stringInsertCount = 0 /\ fullMessage = <<>>

(* A message as it is sent: the text's wire form and "||" behind it. *)
Wire(text) == Append(prepareLoRaMessage(<<text>>).message, Delimiter)

(* The gateway answers a message it has whole with an ACK in two fragments.  *)
AckFragments(n) == <<SubSeq(Wire(Text(n)), 1, 1), SubSeq(Wire(Text(n)), 2, 4)>>

(* What else a receiver may hear: another device's ACK, and packets that     *)
(* are damaged or no message at all.                                         *)
Strays == {Wire(Text(NotOurs)), <<Noise>>, <<Noise, Delimiter>>, <<Delimiter>>}

-----------------------------------------------------------------------------
beginLink ==
    /\ begin
    /\ UNCHANGED <<radio, air, assembly>>

initializeRadio ==
    /\ initialize
    /\ radio' = LoRa!begin(915)
    /\ UNCHANGED <<air, assembly>>

(* The bytes of a chunk as tokens: the whole message, its end, or a part.    *)
Chunk(intact, from, bytes) ==
    IF bytes = 0 THEN <<>>
    ELSE IF ~intact \/ from + bytes # length THEN <<Noise>>
    ELSE IF from = 0 THEN Wire(Text(NotOurs)) ELSE <<Noise, Delimiter>>

(* A flag RX_DONE that nobody has read survives the transmission, the packet *)
(* behind it does not.                                                       *)
transmitChunk(chunk) ==
    LET sending == LoRa!beginPacket(LoRa!disableInvertIQ(LoRa!idle(radio)))
    IN  \E left \in IF radio.rxDone THEN LoRa!Overwrites(chunk, radio.fifo, Noise)
                    ELSE {<<>>} :
            radio' = LoRa!endPacket([sending EXCEPT !.fifo = left])

sendPacket ==
    /\ \E intact \in BOOLEAN, total \in Lengths \union Overwritten :
          /\ sendChunkOf(intact, total)
          /\ transmitChunk(Chunk(intact, stringIndex, ChunkBytes(total)))
    /\ air' = IF /\ heard' = length /\ (heard # length \/ stringIndex = 0)
                 /\ Len(air) + 2 <= MaxAir
              THEN air \o AckFragments(number) ELSE air
    /\ UNCHANGED assembly

-----------------------------------------------------------------------------
(* The radio hears a fragment, whole or damaged, or a stray packet. *)
hear ==
    /\ LoRa!Listening(radio)
    /\ \/ /\ air # <<>>
          /\ \E fragment \in {Head(air), <<Noise>>} :
                radio' = LoRa!Received(radio, fragment)
          /\ air' = Tail(air)
       \/ /\ \E fragment \in Strays : radio' = LoRa!Received(radio, fragment)
          /\ UNCHANGED air
    /\ UNCHANGED <<vars, assembly>>

(* A fragment comes while the receiver is off, or collides. *)
missFragment ==
    /\ air # <<>>
    /\ air' = Tail(air)
    /\ UNCHANGED <<vars, radio, assembly>>

(* A packet that fails its CRC, or none in time: the receiver stops. *)
receiverStops ==
    /\ LoRa!Listening(radio)
    /\ radio' = LoRa!ReceptionEnds(radio)
    /\ UNCHANGED <<vars, air, assembly>>

-----------------------------------------------------------------------------
(* WAITING_FOR_ACK, messageReceived is false *)

(* What processLoRaMessage() and the scan of checkMessageIntegrity() find in *)
(* a message.                                                                *)
Content(message) ==
    LET result == processLoRaMessage(message)
    IN  IF Failed(result) THEN Unverified
        ELSE IF result.message = <<Text(result.message[1].n)>> THEN result.message[1].n
        ELSE NotOurs

(* The delimiter a message ends at: the first one.                           *)
EndsAt(bytes, mark) ==
    /\ mark \in DOMAIN bytes /\ bytes[mark] = Delimiter
    /\ \A i \in 1 .. mark - 1 : bytes[i] # Delimiter

clearAssembly ==
    /\ accumulatedBuffer' = <<>> /\ stringInsertCount' = 0 /\ fullMessage' = <<>>

(* A packet is appended; with the delimiter the message before it is taken,  *)
(* and what follows stays.  Too many packets without one are thrown away.    *)
accumulate(packet) ==
    LET bytes == accumulatedBuffer \o packet
    IN  IF stringInsertCount + 1 > MaxInserts
        THEN clearAssembly /\ UNCHANGED received
        ELSE \/ /\ \A i \in DOMAIN bytes : bytes[i] # Delimiter
                /\ accumulatedBuffer' = bytes
                /\ stringInsertCount' = stringInsertCount + 1
                /\ UNCHANGED <<fullMessage, received>>
             \/ \E mark \in DOMAIN bytes :
                   /\ EndsAt(bytes, mark)
                   /\ fullMessage' = SubSeq(bytes, 1, mark - 1)
                   /\ accumulatedBuffer' = SubSeq(bytes, mark + 1, Len(bytes))
                   /\ stringInsertCount' = 0
                   /\ received' = Content(fullMessage')

(* Mutant: the radio is read again before the last message was dealt with. *)
Polling_Always == state = "WAITING_FOR_ACK"

(* Each call reads the radio until a message is whole. *)
Polling == state = "WAITING_FOR_ACK" /\ received = Nothing

Poll == LoRa!parsePacket(LoRa!enableInvertIQ(radio))

poll ==
    /\ Polling
    /\ radio' = Poll.radio
    /\ IF Poll.packet THEN accumulate(radio.fifo) ELSE UNCHANGED <<assembly, received>>
    /\ UNCHANGED <<state, report, length, number, stringIndex, firstChunkSent,
                   timeoutCounter, link, history, air>>

(* The time-out elapses in the call, behind what it read. *)
pollTimesOut ==
    /\ Polling
    /\ Poll.packet => stringInsertCount + 1 <= MaxInserts
    /\ radio' = Poll.radio
    /\ timeout /\ clearAssembly
    /\ UNCHANGED <<acks, air>>

(* messageReceived is true.  A message that fails verification leaves the    *)
(* bytes behind it where they are, an empty one does not.                    *)
dropFailed ==
    /\ dropUnverified
    /\ fullMessage' = <<>>
    /\ IF fullMessage = <<>>
       THEN accumulatedBuffer' = <<>> ELSE UNCHANGED accumulatedBuffer
    /\ UNCHANGED <<stringInsertCount, radio, air>>

dropForeign == dropNotOurs /\ clearAssembly /\ UNCHANGED <<radio, air>>

acceptAck == acknowledged /\ clearAssembly /\ UNCHANGED <<radio, air>>

LinkNext == \/ beginLink \/ initializeRadio \/ sendPacket
            \/ hear \/ missFragment \/ receiverStops
            \/ poll \/ pollTimesOut \/ dropFailed \/ dropForeign \/ acceptAck

(* As in LoRaExchange; every call that waits reads the radio. *)
LinkFairness ==
    /\ WF_linkVars(initializeRadio) /\ WF_linkVars(sendPacket)
    /\ WF_linkVars(poll) /\ SF_linkVars(pollTimesOut)
    /\ WF_linkVars(dropFailed) /\ WF_linkVars(dropForeign) /\ WF_linkVars(acceptAck)

LinkSpec == LinkInit /\ [][LinkNext]_linkVars /\ LinkFairness

-----------------------------------------------------------------------------
(* Properties *)

(* The link keeps the promises of LoRaExchange, whatever fragments it mixes, *)
(* misses, damages or reads twice.                                           *)
ImplementsExchange == FairSpec

(* An ACK that is taken for one is byte by byte what the gateway sent, never *)
(* put together with an echo of the tracker's own chunk or a stray packet.   *)
AcceptedIsWhole ==
    received > 0 => fullMessage = Front(Wire(Text(received)))
=============================================================================
