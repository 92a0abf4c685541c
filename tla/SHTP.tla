-------------------------------- MODULE SHTP --------------------------------
(***************************************************************************)
(* The transport of the driver of the inertial sensor (shtp.c): what its   *)
(* one instance remembers, how it learns the channels of the sensor hub    *)
(* from an advertisement, and how it puts payloads together from the       *)
(* transfers the hardware layer hands it.  The operators work on a record  *)
(* that holds the instance; SH2 owns it and gives them their hub.          *)
(*                                                                         *)
(* A payload is a sequence of reports.  A transfer too short, too large or *)
(* on no channel is dropped before it changes anything: it is left out.    *)
(***************************************************************************)
EXTENDS Integers, Sequences

CONSTANT SeqModulus     \* sequence numbers are counted modulo this (256)

ASSUME SeqAssumption == SeqModulus \in Nat \ {0, 1}

(* The channels the driver has a listener for.  That of the wake-up reports  *)
(* has the handler of "inputNormal", that of the gyroscope is not used.      *)
Channels == {"command", "device", "control", "inputNormal"}

(* One transfer: a part of a cargo, and how many of its reports follow.      *)
Transfer(chan, seq, continuation, part, rest) ==
    [chan |-> chan, seq |-> seq, continuation |-> continuation, part |-> part,
     rest |-> rest]

(* shtp_open(): of the channels only that of commands is known.              *)
NewInstance ==
    [known |-> {"command"}, nextInSeq |-> [c \in Channels |-> 0],
     inChan |-> "command", inPayload |-> <<>>, inRemaining |-> 0]

(* A channel an advertisement names is resolved to its listener and counts   *)
(* its transfers from 0 again.                                               *)
addChannels(shtp, chans) ==
    [shtp EXCEPT !.known = @ \union chans,
                 !.nextInSeq = [c \in Channels |-> IF c \in chans THEN 0 ELSE @[c]]]

(* shtp_chanNo(): whether the number of a channel can be told.               *)
KnowsChannel(shtp, chan) == chan \in shtp.known

-----------------------------------------------------------------------------
(* Mutant: the sequence number is not compared. *)
Continues_AnySeq(shtp, t) ==
    shtp.inRemaining > 0 /\ t.continuation /\ t.chan = shtp.inChan

(* A transfer goes on with the payload under construction, or starts a new   *)
(* one, whatever its continuation bit says.                                  *)
Continues(shtp, t) ==
    /\ shtp.inRemaining > 0
    /\ t.continuation
    /\ t.chan = shtp.inChan
    /\ t.seq = shtp.nextInSeq[t.chan]

(* rxAssemble() up to the delivery: the fragment is appended.                *)
rxAppend(shtp, t) ==
    [shtp EXCEPT !.inChan = t.chan,
                 !.inPayload = IF Continues(shtp, t) THEN @ \o t.part ELSE t.part,
                 !.inRemaining = t.rest]

(* A whole payload is delivered on a channel that has a listener.            *)
Delivers(shtp) == shtp.inRemaining = 0 /\ shtp.inChan \in shtp.known

(* rxAssemble() after the delivery, which may have reset the numbers.        *)
rxDone(shtp, t) ==
    [shtp EXCEPT !.inPayload = IF shtp.inRemaining = 0 THEN <<>> ELSE @,
                 !.nextInSeq[t.chan] = (t.seq + 1) % SeqModulus]
=============================================================================
