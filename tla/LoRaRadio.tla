------------------------------ MODULE LoRaRadio ------------------------------
(***************************************************************************)
(* The driver of the SX1276 transceiver, LoRaClass, as operators on the    *)
(* registers it writes and reads.  What a reception left in the FIFO stays *)
(* there until another one, or a transmission, overwrites it: both use the *)
(* FIFO from its first byte.                                               *)
(***************************************************************************)
EXTENDS Integers, Sequences

(* mode      REG_OP_MODE                                                    *)
(* inverted  REG_INVERTIQ: the polarity in which gateways send              *)
(* rxDone    RX_DONE in REG_IRQ_FLAGS, without a CRC error                  *)
(* fifo      what reading the last packet's length from the FIFO would give *)
(* settings  spreading factor, bandwidth, sync word, frequency and power    *)
Radio(mode, inverted, rxDone, fifo, settings) ==
    [mode |-> mode, inverted |-> inverted, rxDone |-> rxDone, fifo |-> fifo,
     settings |-> settings]

Modes == {"SLEEP", "STDBY", "TX", "RX_SINGLE"}

idle(radio) == [radio EXCEPT !.mode = "STDBY"]
sleep(radio) == [radio EXCEPT !.mode = "SLEEP"]
end(radio) == sleep(radio)

enableInvertIQ(radio) == [radio EXCEPT !.inverted = TRUE]
disableInvertIQ(radio) == [radio EXCEPT !.inverted = FALSE]

setSpreadingFactor(radio, sf) ==
    [radio EXCEPT !.settings.sf = IF sf < 6 THEN 6 ELSE IF sf > 12 THEN 12 ELSE sf]
setSyncWord(radio, sw) == [radio EXCEPT !.settings.sw = sw]
setSignalBandwidth(radio, bw) == [radio EXCEPT !.settings.bw = bw]
setFrequency(radio, frequency) == [radio EXCEPT !.settings.frequency = frequency]

setTxPower(radio, level) ==
    [radio EXCEPT !.settings.power = IF level < 2 THEN 2 ELSE IF level > 17 THEN 17 ELSE level]

(* The registers behind a reset of the chip: SF 7, sync word 0x12, 125 kHz. *)
Reset == Radio("STDBY", FALSE, FALSE, <<>>,
               [sf |-> 7, sw |-> 18, bw |-> 125, frequency |-> 434, power |-> 2])

(* begin() pulls the reset line, which takes the settings with it. *)
begin(frequency) == idle(setTxPower(setFrequency(sleep(Reset), frequency), 17))

beginPacket(radio) == idle(radio)

(* write() of a chunk from the FIFO's first byte on, over a packet received  *)
(* before.  Where that packet was shorter its length cuts the chunk, where   *)
(* it was longer its end shows behind it.                                    *)
Overwrites(chunk, old, junk) ==
    IF chunk = <<>> THEN {old} ELSE {chunk, <<junk>>, Append(chunk, junk)}

(* The whole packet is sent in the call: TX_DONE is waited for and cleared,  *)
(* and no other flag.                                                        *)
endPacket(radio) == idle([radio EXCEPT !.mode = "TX"])

(* parsePacket(): all flags are cleared; without a packet the receiver is    *)
(* started unless it is on.                                                  *)
Parsed(radio, packet) == [radio |-> radio, packet |-> packet]

parsePacket(radio) ==
    IF radio.rxDone
    THEN Parsed(idle([radio EXCEPT !.rxDone = FALSE]), TRUE)
    ELSE Parsed([radio EXCEPT !.mode = "RX_SINGLE"], FALSE)

(* The chip: a packet received, one that fails its CRC or none in time.      *)
Listening(radio) == radio.mode = "RX_SINGLE" /\ radio.inverted
Received(radio, packet) ==
    [radio EXCEPT !.mode = "STDBY", !.rxDone = TRUE, !.fifo = packet]
ReceptionEnds(radio) == [radio EXCEPT !.mode = "STDBY"]
=============================================================================
