---------------------------- MODULE MessageChain ----------------------------
(***************************************************************************)
(* The chains of handlers a message goes through on its way to the LoRa    *)
(* gateway and back, and to the EEPROM and back.  A message is a sequence  *)
(* of tokens, each of them a run of bytes known by what produced it; a     *)
(* cipher, an HMAC and a CRC remember the message they were computed of,   *)
(* so that two are equal exactly if they are of the same message: damage   *)
(* no CRC notices is left out.                                             *)
(***************************************************************************)
EXTENDS Integers, Sequences, SequencesExt

(* Text with number n, AES-256-CBC in base64 of a message, the HMAC-SHA256   *)
(* and the CRC-32 of one, the mark "||" behind a whole message, and bytes    *)
(* that are none of these: a part of a token, or a damaged one.              *)
Text(n) == [token |-> "text", of |-> <<>>, n |-> n]
Cipher(message) == [token |-> "cipher", of |-> message, n |-> 0]
Hmac(message) == [token |-> "hmac", of |-> message, n |-> 0]
Crc(message) == [token |-> "crc", of |-> message, n |-> 0]
Delimiter == [token |-> "delimiter", of |-> <<>>, n |-> 0]
Noise == [token |-> "noise", of |-> <<>>, n |-> 0]

(* What a handler returns, and leaves in the buffer. *)
Result(status, message) == [status |-> status, message |-> message]
Processed(message) == Result("PROCESSED", message)
Failed(result) == result.status # "PROCESSED"

-----------------------------------------------------------------------------
(* The handlers, each without its call of the next one. *)

EncrypterBase64(message) == Processed(<<Cipher(message)>>)

(* Bytes of the HMAC that are NUL become '0', here and in the verifier. *)
AuthenticationGenerator(message) == Processed(Append(message, Hmac(message)))

ChecksumGenerator(message) == Processed(Append(message, Crc(message)))

ChecksumVerifier(message) ==
    IF message = <<>> THEN Result("ERROR_PACKET_TOO_SMALL", message)
    ELSE IF Last(message) # Crc(Front(message)) THEN Result("CHECKSUM_ERROR", message)
    ELSE Processed(Front(message))

AuthenticationVerifier(message) ==
    IF message = <<>> \/ Last(message) # Hmac(Front(message))
    THEN Result("AUTHENTIFICATION_MISSMATCH", message)
    ELSE Processed(Front(message))

(* It never fails: of anything but a cipher it makes other bytes. *)
DecrypterBase64(message) ==
    Processed(IF Len(message) = 1 /\ message[1].token = "cipher"
              THEN message[1].of ELSE <<Noise>>)

-----------------------------------------------------------------------------
(* The chains.  A handler that fails does not call the next one. *)

prepareLoRaMessage(message) ==
    LET encrypted == EncrypterBase64(message)
        authentic == AuthenticationGenerator(encrypted.message)
    IN  ChecksumGenerator(authentic.message)

(* Mutant: a handler calls the next one whatever it found. *)
processLoRaMessage_GoesOn(message) ==
    IF Len(message) < 3 THEN Result("ERROR_PACKET_TOO_SMALL", message)
    ELSE DecrypterBase64(Front(Front(message)))

processLoRaMessage(message) ==
    LET whole == ChecksumVerifier(message)
        authentic == IF Failed(whole) THEN whole
                     ELSE AuthenticationVerifier(whole.message)
    IN  IF Failed(authentic) THEN authentic ELSE DecrypterBase64(authentic.message)

(* The text of a record of the EEPROM has no HMAC and no CRC. *)
encryptMessage(message) == EncrypterBase64(message)
decryptMessage(message) == DecrypterBase64(message)
=============================================================================
