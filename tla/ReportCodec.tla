---------------------------- MODULE ReportCodec ----------------------------
(***************************************************************************)
(* The texts of the reports: what FormattingMessage prints into a message  *)
(* for the server, for LoRa or for the EEPROM, and what LoadingMessage     *)
(* reads back out of a stored one.                                         *)
(*                                                                         *)
(* A format is the sequence of its conversions and the sequence of the     *)
(* arguments it is called with; a parser is the sequence of the variables  *)
(* its tokens go to.  What a conversion prints follows from where va_arg   *)
(* finds it (AAPCS, the calling convention of the ARM target), so a format *)
(* that does not fit its arguments prints what the target prints.  Keys,   *)
(* punctuation and precision are left out.                                 *)
(***************************************************************************)
EXTENDS Naturals, Sequences

Range_(s) == {s[i] : i \in DOMAIN s}

(* Conversions: %lld, n times %s, n times %d or %X, n times %.2f or %.6f. *)
Long == <<"q">>
Texts(n) == [i \in 1 .. n |-> "s"]
Ints(n) == [i \in 1 .. n |-> "d"]
Floats(n) == [i \in 1 .. n |-> "f"]

-----------------------------------------------------------------------------
(* Arguments, by the data object they come from. *)

Position == <<"latitude", "longitude", "hdop", "altitude", "cog", "spkm">>
Battery  == <<"batteryChargeStatus", "chargeLevel">>
Inertial == <<"status", "ax", "ay", "az", "yaw", "roll", "pitch">>
Area     == <<"lac", "cellId", "signalLevel">>
Access   == <<"accessTechnology", "registrationStatus", "channel", "band">>
Neighbor == <<"tech", "mcc", "mnc", "lac", "cellId", "signalLevel">>
Sample   == Tail(Inertial)

ClassOf(arg) ==
    CASE arg = "IMEI" -> "q"
      [] arg \in {"event", "band", "GNSSInfo.timestamp", "aCellInfo.timestamp",
                  "imuData.timestamp"} -> "s"
      [] arg \in Range_(Position \o Sample) \union {"signalLevel"} -> "f"
      [] OTHER -> "d"

(* The part of a report an argument belongs to. *)
PartOf(arg) ==
    CASE arg = "event" -> "event"
      [] arg = "band" -> "band"
      [] arg \in Range_(Battery) -> "battery"
      [] arg \in Range_(Position) \union {"GNSSInfo.timestamp"} -> "gnss"
      [] arg \in Range_(Inertial) \union {"imuData.timestamp", "timeBetweenSamples"} -> "imu"
      [] OTHER -> "cell"

-----------------------------------------------------------------------------
(* snprintf(buffer, size, format, ...): the three named arguments fill r0 to *)
(* r2; 8-byte arguments begin on 8-byte boundaries.                          *)

Size(class) == IF class \in {"q", "f"} THEN 8 ELSE 4
AlignUp(offset, size) == ((offset + size - 1) \div size) * size

Layout(classes) ==
    LET end[i \in 0 .. Len(classes)] ==
            IF i = 0 THEN 12
            ELSE AlignUp(end[i - 1], Size(classes[i])) + Size(classes[i])
    IN [i \in DOMAIN classes |-> end[i] - Size(classes[i])]

Junk == "junk"    \* not the value of an argument

(* The arguments whose values the conversions of a format print. *)
Printed(format) ==
    LET read   == Layout(format.convs)
        passed == Layout([j \in DOMAIN format.args |-> ClassOf(format.args[j])])
        hit(i) == {j \in DOMAIN passed :
                       passed[j] = read[i] /\ ClassOf(format.args[j]) = format.convs[i]}
    IN [i \in DOMAIN read |->
            IF hit(i) = {} THEN Junk ELSE format.args[CHOOSE j \in hit(i) : TRUE]]

-----------------------------------------------------------------------------
(* Tracker::getMovementEvent(), into a text, and setMovementEvent(), from one. *)
getMovementEvent == [MOVING  |-> "MOVE", PARKING |-> "PARK",
                     STOPPED |-> "STOP", MOVEMENT_RESTARTED |-> "MVRS"]

setMovementEvent(text, currentMovementEvent) ==
    LET named == {event \in DOMAIN getMovementEvent : getMovementEvent[event] = text}
    IN IF named = {} THEN currentMovementEvent ELSE CHOOSE event \in named : TRUE

-----------------------------------------------------------------------------
(* Messages for the server (formatMessage), without their meta data. *)

ServerMNMN ==
    [convs |-> Long \o Texts(1) \o Ints(4) \o Floats(1) \o Ints(3)
               \o Texts(2) \o Ints(3) \o Floats(6),
     args  |-> <<"IMEI", "event", "mcc", "mnc">> \o Area \o Access
               \o <<"aCellInfo.timestamp">> \o Battery \o Inertial]

ServerMNGNSS ==
    [convs |-> Long \o Texts(1) \o Floats(6) \o Ints(4) \o Floats(1) \o Ints(3)
               \o Texts(2) \o Ints(3) \o Floats(6),
     args  |-> <<"IMEI", "event">> \o Position \o <<"mnc", "mcc">> \o Area \o Access
               \o <<"GNSSInfo.timestamp">> \o Battery \o Inertial]

ServerGNSS ==
    [convs |-> Long \o Texts(1) \o Floats(6) \o Texts(1) \o Ints(3) \o Floats(6),
     args  |-> <<"IMEI", "event">> \o Position \o <<"GNSSInfo.timestamp">>
               \o Battery \o Inertial]

ServerIMU ==
    [convs |-> Long \o Texts(2) \o Ints(4) \o Floats(6),
     args  |-> <<"IMEI", "event", "imuData.timestamp", "timeBetweenSamples">>
               \o Battery \o Inertial]

(* Messages for LoRa (formatLoRaMessage). *)

LoRaGNSS ==
    [convs |-> Long \o Ints(1) \o Texts(1) \o Floats(6) \o Texts(1) \o Ints(3) \o Floats(6),
     args  |-> <<"IMEI", "messageNumber", "event">> \o Position
               \o <<"GNSSInfo.timestamp">> \o Battery \o Inertial]

LoRaLoRa ==
    [convs |-> Long \o Ints(1) \o Texts(1) \o Ints(2) \o Texts(1) \o Ints(1) \o Floats(6),
     args  |-> <<"IMEI", "messageNumber", "event">> \o Battery
               \o <<"imuData.timestamp">> \o Inertial]

-----------------------------------------------------------------------------
(* Texts for the EEPROM, and the parsers that read them back.  An MNMN or    *)
(* IMU text goes on with one "|"-entry per neighbour cell or sample.         *)

formatMNMNMemoryMessage ==
    [convs |-> Texts(1) \o Ints(4) \o Floats(1) \o Ints(3)
               \o Texts(2) \o Ints(3) \o Floats(6),
     args  |-> <<"event", "mcc", "mnc">> \o Area \o Access
               \o <<"aCellInfo.timestamp">> \o Battery \o Inertial,
     entry |-> [convs |-> Ints(5) \o Floats(1), args |-> Neighbor]]

parseMNMN ==
    [to |-> <<"event", "mcc", "mnc">> \o Area \o Access
            \o <<"aCellInfo.timestamp">> \o Battery \o Inertial,
     entry |-> Neighbor, dangling |-> {}]

(* Six %.2f follow the two %d that print the battery. *)
formatMNGNSSMemoryMessage ==
    [convs |-> Texts(1) \o Floats(6) \o Ints(4) \o Floats(1) \o Ints(3)
               \o Texts(2) \o Ints(2) \o Floats(6),
     args  |-> <<"event">> \o Position \o <<"mnc", "mcc">> \o Area \o Access
               \o <<"GNSSInfo.timestamp">> \o Battery \o Inertial,
     entry |-> [convs |-> <<>>, args |-> <<>>]]

(* The band is left pointing into the parser's own buffer. *)
parseMNGNSS ==
    [to |-> <<"event">> \o Position \o <<"mnc", "mcc">> \o Area \o Access
            \o <<"GNSSInfo.timestamp">> \o Battery \o Inertial,
     entry |-> <<>>, dangling |-> {"band"}]

formatGNSSMemoryMessage ==
    [convs |-> Texts(1) \o Floats(6) \o Texts(1) \o Ints(3) \o Floats(6),
     args  |-> <<"event">> \o Position \o <<"GNSSInfo.timestamp">>
               \o Battery \o Inertial,
     entry |-> [convs |-> <<>>, args |-> <<>>]]

parseGNSS ==
    [to |-> <<"event">> \o Position \o <<"GNSSInfo.timestamp">> \o Battery \o Inertial,
     entry |-> <<>>, dangling |-> {}]

formatIMUMemoryMessage ==
    [convs |-> Texts(2) \o Ints(4) \o Floats(6),
     args  |-> <<"event", "imuData.timestamp", "timeBetweenSamples">>
               \o Battery \o Inertial,
     entry |-> [convs |-> Floats(6), args |-> Sample]]

parseIMU ==
    [to |-> <<"event", "imuData.timestamp", "timeBetweenSamples">>
            \o Battery \o Inertial,
     entry |-> Sample, dangling |-> {}]

-----------------------------------------------------------------------------
ServerFormats == [MNMN |-> ServerMNMN, MNGNSS |-> ServerMNGNSS,
                  GNSS |-> ServerGNSS, IMU |-> ServerIMU]
LoRaFormats == [LORAGNSS |-> LoRaGNSS, LORALORA |-> LoRaLoRa]
MemoryFormats == [MNMN |-> formatMNMNMemoryMessage, MNGNSS |-> formatMNGNSSMemoryMessage,
                  GNSS |-> formatGNSSMemoryMessage, IMU |-> formatIMUMemoryMessage]
Parsers == [MNMN |-> parseMNMN, MNGNSS |-> parseMNGNSS,
            GNSS |-> parseGNSS, IMU |-> parseIMU]

EntryPart == [MNMN |-> "neighbors", IMU |-> "samples"]

PartsOf(format) == {PartOf(a) : a \in Range_(format.args) \ {"IMEI", "messageNumber"}}

(* The parts of a stored report of one kind that come back as they were. *)
Restored(kind) ==
    LET format == MemoryFormats[kind]
        parser == Parsers[kind]
        text   == Printed(format)
        kept(a) == \E i \in DOMAIN parser.to \intersect DOMAIN text :
                       parser.to[i] = a /\ text[i] = a /\ a \notin parser.dangling
    IN {p \in PartsOf(format) :
            \A a \in Range_(format.args \o parser.to) : PartOf(a) = p => kept(a)}
       \union {EntryPart[k] : k \in {x \in DOMAIN EntryPart :
                   x = kind /\ Printed(format.entry) = parser.entry}}

RestoredParts == [kind \in DOMAIN MemoryFormats |-> Restored(kind)]

-----------------------------------------------------------------------------
(* Facts about these texts.  Nothing in them depends on a constant: they are *)
(* evaluated whenever a model that uses the module is checked.               *)

(* Every message for the server or LoRa prints the arguments it is given.    *)
ASSUME TextsFitTheirArguments ==
    \A format \in Range_(ServerFormats) \union Range_(LoRaFormats) :
        Printed(format) = format.args

(* A parser fills everything the server's message of its kind will print.    *)
ASSUME ParsersFillTheMessage ==
    \A kind \in DOMAIN Parsers :
        Range_(ServerFormats[kind].args) \ {"IMEI"} \subseteq Range_(Parsers[kind].to)

(* The name of every movement event is understood again. *)
ASSUME EventsComeBack ==
    \A event, old \in DOMAIN getMovementEvent :
        setMovementEvent(getMovementEvent[event], old) = event
=============================================================================
