------------------------- MODULE GNSSSession_proofs -------------------------
(***************************************************************************)
(* Proofs about the GNSS dialogue, for any number of cycles, tries, faults *)
(* and unread lines, and about the wake-up logic, which shares no state    *)
(* with it.                                                                *)
(***************************************************************************)
EXTENDS GNSSSession, WakeUp, TLAPS

-----------------------------------------------------------------------------
(* The answers of the modem come in the order of the commands: what is still *)
(* to be read is the lines, then what the inputs will give.                  *)
BatteryLine(i) == lines[i].what = "+CBC"
PositionLine(i) == lines[i].what = "+QGPSLOC"

NoBattery == /\ \A i \in 1 .. Len(lines) : ~BatteryLine(i)
             /\ \A i \in 1 .. Len(inputs) : inputs[i] # "CBC"

NoRequest == \A i \in 1 .. Len(inputs) : inputs[i] # "QGPSLOC?"

(* While the battery is measured, what is left of earlier searches comes     *)
(* before the battery ...                                                    *)
PositionsFirst ==
    /\ \A i, j \in 1 .. Len(lines) : PositionLine(i) /\ BatteryLine(j) => i < j
    /\ NoRequest

(* ... and during the search what is left of the battery comes before the    *)
(* positions.                                                                *)
BatteriesFirst ==
    /\ \A i, j \in 1 .. Len(lines) : BatteryLine(i) /\ PositionLine(j) => i < j
    /\ \A i, j \in 1 .. Len(inputs) : inputs[i] = "CBC" /\ inputs[j] = "QGPSLOC?" => i < j
    /\ \A i \in 1 .. Len(inputs), j \in 1 .. Len(lines) : inputs[i] = "CBC" => ~PositionLine(j)

OfCycle == \A i \in 1 .. Len(lines) : PositionLine(i) => lines[i].of = cycle

(* A state that gives up has seen the serial line silent once.               *)
Counting == state \in {"ConfigurateConstellation", "ObtainingPositionInformation"}
SilentOnce == Counting => numberOfTries <= late \/ NoBattery

CommandNames == {"CBC", "QGPSCFG", "QGPS=1", "QGPSLOC=2", "QGPSLOC?", "QGPS=0"}
LineNames == {"OK", "ECHO", "+CBC", "+QGPSLOC", "+CME ERROR: 504", "+CME ERROR: 505", "+CME ERROR: 516"}
LineType == [what : LineNames, of : Nat]

GNSSTypes ==
    /\ cycle \in Nat /\ numberOfTries \in Nat /\ late \in 0 .. MaxLate
    /\ state \in GNSSStates
    /\ inputs \in Seq(CommandNames) /\ lines \in Seq(LineType)

GNSSInv ==
    /\ GNSSTypes
    /\ trackerState = "SensingBatteryStatus" =>
          state \in {"GNSSUnavailable", "TurningOffGNSS"} /\ PositionsFirst
    /\ trackerState = "GettingGNSSPosition" => BatteriesFirst /\ OfCycle /\ SilentOnce
    /\ trackerState = "rest" =>
          /\ state = "TurningOffGNSS" /\ NoBattery
          /\ result = "GNSS_STATE_CONNECTION_OBTAIN" => position = cycle
    /\ trackerState \in {"SensingBatteryStatus", "GettingGNSSPosition", "rest"}

-----------------------------------------------------------------------------
(* What the commands are, and what is read of their answers. *)

LEMMA OneOrTwo ==
    ASSUME NEW S, NEW a \in S, NEW b \in S
    PROVE  /\ <<a>> \in Seq(S) /\ \A i \in 1 .. Len(<<a>>) : <<a>>[i] = a
           /\ <<a, b>> \in Seq(S) /\ \A i \in 1 .. Len(<<a, b>>) : <<a, b>>[i] \in {a, b}
  OBVIOUS

LEMMA CommandsSent ==
    /\ Commands("SensingBatteryStatus") = <<"CBC">>
    /\ \A s \in GNSSStates \ {"GNSSUnavailable"} :
          /\ Commands(s) \in Seq(CommandNames)
          /\ \A i \in 1 .. Len(Commands(s)) : Commands(s)[i] # "CBC"
<1>1. Commands("SensingBatteryStatus") = <<"CBC">>
  BY DEF Commands
<1>2. /\ Commands("ConfigurateConstellation") = <<"QGPSCFG">>
      /\ Commands("TurningOnGNSS") = <<"QGPS=1">>
      /\ Commands("ObtainingPositionInformation") = <<"QGPSLOC=2", "QGPSLOC?">>
      /\ Commands("TurningOffGNSS") = <<"QGPS=0">>
  BY DEF Commands
<1>3. ASSUME NEW s \in GNSSStates \ {"GNSSUnavailable"}
      PROVE  /\ Commands(s) \in Seq(CommandNames)
             /\ \A i \in 1 .. Len(Commands(s)) : Commands(s)[i] # "CBC"
  <2>1. \/ \E c \in CommandNames \ {"CBC"} : Commands(s) = <<c>>
        \/ Commands(s) = <<"QGPSLOC=2", "QGPSLOC?">>
    BY <1>2 DEF GNSSStates, CommandNames
  <2>2. ASSUME NEW c \in CommandNames \ {"CBC"}, Commands(s) = <<c>>
        PROVE  /\ Commands(s) \in Seq(CommandNames)
               /\ \A i \in 1 .. Len(Commands(s)) : Commands(s)[i] # "CBC"
    BY <2>2, OneOrTwo
  <2>3. ASSUME Commands(s) = <<"QGPSLOC=2", "QGPSLOC?">>
        PROVE  /\ Commands(s) \in Seq(CommandNames)
               /\ \A i \in 1 .. Len(Commands(s)) : Commands(s)[i] # "CBC"
    BY <2>3, OneOrTwo DEF CommandNames
  <2> QED BY <2>1, <2>2, <2>3
<1> QED BY <1>1, <1>3

LEMMA AnswerFacts ==
    ASSUME cycle \in Nat, NEW c \in CommandNames, NEW answer \in Answers(c)
    PROVE  /\ answer \in Seq(LineType)
           /\ \A i \in 1 .. Len(answer) :
                 /\ answer[i].what = "+CBC" => c = "CBC"
                 /\ answer[i].what = "+QGPSLOC" => c = "QGPSLOC?" /\ answer[i].of = cycle
<1> DEFINE Good(l) == /\ l \in LineType
                      /\ l.what = "+CBC" => c = "CBC"
                      /\ l.what = "+QGPSLOC" => c = "QGPSLOC?" /\ l.of = cycle
<1>1. /\ Good(Ok) /\ Good(AlreadyOn) /\ Good(NotActive) /\ Good(NotFixed)
      /\ c = "CBC" => Good(Plain("+CBC"))
      /\ c = "QGPSLOC?" => Good(Line("+QGPSLOC", cycle))
  BY DEF Ok, AlreadyOn, NotActive, NotFixed, Plain, Line, LineType, LineNames
<1>2. \/ answer \in {<<Ok>>, <<AlreadyOn>>, <<NotActive>>, <<NotFixed>>}
      \/ c = "CBC" /\ answer = <<Plain("+CBC"), Ok>>
      \/ c = "QGPSLOC?" /\ answer = <<Line("+QGPSLOC", cycle), Ok>>
  BY DEF Answers, CommandNames
<1> HIDE DEF Good
<1>3. \A l : Good(l) => l \in LineType
  BY DEF Good
<1>4. answer \in Seq(LineType) /\ \A i \in 1 .. Len(answer) : Good(answer[i])
  <2>1. \E l : Good(l) /\ (answer = <<l>> \/ answer = <<l, Ok>>)
    BY <1>1, <1>2
  <2>2. PICK l : Good(l) /\ (answer = <<l>> \/ answer = <<l, Ok>>)
    BY <2>1
  <2>3. l \in LineType /\ Ok \in LineType
    BY <1>1, <1>3, <2>2
  <2>4. answer \in Seq(LineType) /\ \A i \in 1 .. Len(answer) : answer[i] \in {l, Ok}
    <3>1. CASE answer = <<l>>
      BY <2>3, <3>1, OneOrTwo
    <3>2. CASE answer = <<l, Ok>>
      BY <2>3, <3>2, OneOrTwo
    <3> QED BY <2>2, <3>1, <3>2
  <2>5. \A x \in {l, Ok} : Good(x)
    BY <1>1, <2>2
  <2> QED BY <2>4, <2>5
<1> QED BY <1>4 DEF Good

-----------------------------------------------------------------------------
(* A line that is read, and a command that is taken or lost, leave the rest  *)
(* in order.                                                                 *)

Shifted(s, t) == Len(t) + 1 = Len(s) /\ \A i \in 1 .. Len(t) : i + 1 \in 1 .. Len(s) /\ t[i] = s[i + 1]

LEMMA TailShifts ==
    ASSUME NEW S, NEW s \in Seq(S), s # <<>>
    PROVE  /\ Tail(s) \in Seq(S) /\ Shifted(s, Tail(s)) /\ Head(s) = s[1]
           /\ 1 \in 1 .. Len(s) /\ Head(s) \in S
  BY DEF Shifted

LEMMA LineRead ==
    ASSUME GNSSTypes, Read, UNCHANGED <<inputs, cycle>>
    PROVE  /\ lines' \in Seq(LineType)
           /\ Head(lines) = lines[1] /\ Head(lines) \in LineType /\ 1 \in 1 .. Len(lines)
           /\ NoBattery => NoBattery'
           /\ PositionsFirst => PositionsFirst'
           /\ BatteriesFirst => BatteriesFirst'
           /\ OfCycle => OfCycle'
<1>1. /\ lines \in Seq(LineType) /\ lines # <<>> /\ lines' = Tail(lines)
      /\ UNCHANGED <<inputs, cycle>>
  BY DEF GNSSTypes, Read
<1>2. /\ lines' \in Seq(LineType) /\ Shifted(lines, lines') /\ Head(lines) = lines[1]
      /\ 1 \in 1 .. Len(lines) /\ Head(lines) \in LineType
  BY <1>1, TailShifts
<1>3. \A i \in 1 .. Len(lines') : i \in Nat /\ i + 1 \in 1 .. Len(lines) /\ lines'[i] = lines[i + 1]
  BY <1>2 DEF Shifted
<1>4. NoBattery => NoBattery'
  BY <1>1, <1>3 DEF NoBattery, BatteryLine
<1>5. PositionsFirst => PositionsFirst'
  BY <1>1, <1>3 DEF PositionsFirst, BatteryLine, PositionLine, NoRequest
<1>6. BatteriesFirst => BatteriesFirst'
  BY <1>1, <1>3 DEF BatteriesFirst, BatteryLine, PositionLine
<1>7. OfCycle => OfCycle'
  BY <1>1, <1>3 DEF OfCycle, PositionLine
<1> QED BY <1>2, <1>4, <1>5, <1>6, <1>7

LEMMA CommandLost ==
    ASSUME GNSSTypes, inputs # <<>>, inputs' = Tail(inputs), UNCHANGED <<lines, cycle>>
    PROVE  /\ inputs' \in Seq(CommandNames)
           /\ NoBattery => NoBattery'
           /\ PositionsFirst => PositionsFirst'
           /\ BatteriesFirst => BatteriesFirst'
           /\ OfCycle => OfCycle'
<1>1. inputs' \in Seq(CommandNames) /\ Shifted(inputs, inputs')
  BY TailShifts DEF GNSSTypes
<1>2. \A i \in 1 .. Len(inputs') : i \in Nat /\ i + 1 \in 1 .. Len(inputs) /\ inputs'[i] = inputs[i + 1]
  BY <1>1 DEF Shifted
<1>3. NoBattery => NoBattery'
  BY <1>2 DEF NoBattery, BatteryLine
<1>4. PositionsFirst => PositionsFirst'
  BY <1>2 DEF PositionsFirst, BatteryLine, PositionLine, NoRequest
<1>5. BatteriesFirst => BatteriesFirst'
  BY <1>2 DEF BatteriesFirst, BatteryLine, PositionLine
<1>6. OfCycle => OfCycle'
  BY DEF OfCycle, PositionLine
<1> QED BY <1>1, <1>3, <1>4, <1>5, <1>6

LEMMA CommandTaken ==
    ASSUME GNSSTypes, takeCommand
    PROVE  /\ inputs' \in Seq(CommandNames) /\ lines' \in Seq(LineType)
           /\ NoBattery => NoBattery'
           /\ PositionsFirst => PositionsFirst'
           /\ BatteriesFirst => BatteriesFirst'
           /\ OfCycle => OfCycle'
<1>1. /\ inputs \in Seq(CommandNames) /\ inputs # <<>> /\ lines \in Seq(LineType)
      /\ inputs' = Tail(inputs) /\ cycle' = cycle /\ cycle \in Nat
  BY DEF GNSSTypes, takeCommand
<1> DEFINE c == Head(inputs)
           m == Len(lines)
<1>2. /\ inputs' \in Seq(CommandNames) /\ Shifted(inputs, inputs') /\ c = inputs[1]
      /\ 1 \in 1 .. Len(inputs) /\ c \in CommandNames
  BY <1>1, TailShifts
<1>3. PICK answer \in Answers(c) : lines' = lines \o <<Echo>> \o answer
  BY DEF takeCommand
<1>4. /\ answer \in Seq(LineType)
      /\ \A i \in 1 .. Len(answer) :
            /\ answer[i].what = "+CBC" => c = "CBC"
            /\ answer[i].what = "+QGPSLOC" => c = "QGPSLOC?" /\ answer[i].of = cycle
  BY <1>1, <1>2, AnswerFacts
<1>5. Echo \in LineType /\ Echo.what = "ECHO"
  BY DEF Echo, Plain, Line, LineType, LineNames
<1> HIDE DEF c, m
<1>6. /\ lines' \in Seq(LineType)
      /\ \A i \in 1 .. Len(lines') :
            /\ i \in Nat
            /\ \/ i \in 1 .. m /\ lines'[i] = lines[i]
               \/ /\ i > m
                  /\ lines'[i].what = "+CBC" => c = "CBC"
                  /\ lines'[i].what = "+QGPSLOC" => c = "QGPSLOC?" /\ lines'[i].of = cycle
  <2> DEFINE l == lines \o <<Echo>>
  <2>1. /\ l \in Seq(LineType) /\ Len(l) = m + 1 /\ l[m + 1] = Echo /\ m \in Nat
        /\ \A i \in 1 .. m : l[i] = lines[i]
    BY <1>1, <1>5 DEF m
  <2>2. lines' = l \o answer
    BY <1>3
  <2> HIDE DEF l
  <2>3. /\ lines' \in Seq(LineType)
        /\ \A i \in 1 .. Len(lines') :
              IF i <= m + 1 THEN lines'[i] = l[i]
              ELSE i - (m + 1) \in 1 .. Len(answer) /\ lines'[i] = answer[i - (m + 1)]
    BY <1>4, <2>1, <2>2
  <2>4. ASSUME NEW i \in 1 .. Len(lines')
        PROVE  /\ i \in Nat
               /\ \/ i \in 1 .. m /\ lines'[i] = lines[i]
                  \/ /\ i > m
                     /\ lines'[i].what = "+CBC" => c = "CBC"
                     /\ lines'[i].what = "+QGPSLOC" => c = "QGPSLOC?" /\ lines'[i].of = cycle
    <3>1. CASE i <= m
      BY <2>1, <2>3, <3>1
    <3>2. CASE i = m + 1
      BY <1>5, <2>1, <2>3, <3>2
    <3>3. CASE i > m + 1
      BY <1>4, <2>1, <2>3, <3>3
    <3> QED BY <2>1, <3>1, <3>2, <3>3
  <2> QED BY <2>3, <2>4
<1>7. \A i \in 1 .. Len(inputs') : i \in Nat /\ i + 1 \in 1 .. Len(inputs) /\ inputs'[i] = inputs[i + 1]
  BY <1>2 DEF Shifted
<1>8. m \in Nat /\ m = Len(lines)
  BY <1>1 DEF m
<1>9. NoBattery => NoBattery'
  BY <1>2, <1>6, <1>7, <1>8 DEF NoBattery, BatteryLine
<1>10. PositionsFirst => PositionsFirst'
  <2> SUFFICES ASSUME PositionsFirst PROVE PositionsFirst'
    OBVIOUS
  <2>1. NoRequest' /\ c # "QGPSLOC?"
    BY <1>2, <1>7 DEF PositionsFirst, NoRequest
  <2>2. ASSUME NEW i \in 1 .. Len(lines'), PositionLine(i)'
        PROVE  i \in 1 .. Len(lines) /\ PositionLine(i)
    BY <1>6, <1>8, <2>1, <2>2 DEF PositionLine
  <2>3. ASSUME NEW i \in 1 .. Len(lines'), NEW j \in 1 .. Len(lines'),
               PositionLine(i)', BatteryLine(j)'
        PROVE  i < j
    <3>1. i \in 1 .. m /\ PositionLine(i)
      BY <1>8, <2>2, <2>3
    <3>2. CASE j \in 1 .. m /\ lines'[j] = lines[j]
      BY <1>8, <2>3, <3>1, <3>2 DEF PositionsFirst, BatteryLine
    <3>3. CASE j > m
      BY <1>8, <3>1, <3>3
    <3> QED BY <1>6, <3>2, <3>3
  <2> QED BY <2>1, <2>3 DEF PositionsFirst
<1>11. BatteriesFirst => BatteriesFirst'
  <2> SUFFICES ASSUME BatteriesFirst PROVE BatteriesFirst'
    OBVIOUS
  <2>1. ASSUME NEW i \in 1 .. Len(lines'), NEW j \in 1 .. Len(lines'),
               BatteryLine(i)', PositionLine(j)'
        PROVE  i < j
    <3>1. CASE j \in 1 .. m /\ lines'[j] = lines[j]
      <4>1. PositionLine(j) /\ c # "CBC"
        BY <1>2, <1>8, <2>1, <3>1 DEF BatteriesFirst, PositionLine
      <4>2. i \in 1 .. Len(lines) /\ BatteryLine(i)
        BY <1>6, <1>8, <2>1, <4>1 DEF BatteryLine
      <4> QED BY <1>8, <3>1, <4>1, <4>2 DEF BatteriesFirst
    <3>2. CASE j > m /\ c = "QGPSLOC?"
      <4>1. i \in 1 .. m
        BY <1>6, <2>1, <3>2 DEF BatteryLine
      <4> QED BY <1>8, <3>2, <4>1
    <3> QED BY <1>6, <2>1, <3>1, <3>2 DEF PositionLine
  <2>2. \A i, j \in 1 .. Len(inputs') : inputs'[i] = "CBC" /\ inputs'[j] = "QGPSLOC?" => i < j
    BY <1>7 DEF BatteriesFirst
  <2>3. \A i \in 1 .. Len(inputs'), j \in 1 .. Len(lines') : inputs'[i] = "CBC" => ~PositionLine(j)'
    <3> SUFFICES ASSUME NEW i \in 1 .. Len(inputs'), NEW j \in 1 .. Len(lines'),
                        inputs'[i] = "CBC", PositionLine(j)'
                 PROVE  FALSE
      OBVIOUS
    <3>1. inputs[i + 1] = "CBC" /\ i + 1 \in 1 .. Len(inputs) /\ ~(i + 1 < 1)
      BY <1>7
    <3>2. (j \in 1 .. Len(lines) /\ PositionLine(j)) \/ c = "QGPSLOC?"
      BY <1>6, <1>8 DEF PositionLine
    <3> QED BY <1>2, <3>1, <3>2 DEF BatteriesFirst
  <2> QED BY <2>1, <2>2, <2>3 DEF BatteriesFirst
<1>12. OfCycle => OfCycle'
  BY <1>1, <1>6, <1>8 DEF OfCycle, PositionLine
<1> QED BY <1>2, <1>6, <1>9, <1>10, <1>11, <1>12

-----------------------------------------------------------------------------
LEMMA GNSSInit == Init => GNSSInv
<1> SUFFICES ASSUME Init PROVE GNSSInv
  OBVIOUS
<1>1. GNSSTypes
  BY GNSSAssumption DEF Init, GNSSTypes, GNSSStates
<1>2. PositionsFirst
  BY DEF Init, PositionsFirst, NoRequest
<1> QED BY <1>1, <1>2 DEF Init, GNSSInv

(* A stutter changes nothing. *)
LEMMA QuietStep == GNSSInv /\ UNCHANGED vars => GNSSInv'
  BY DEF vars, object, counts, GNSSInv, GNSSTypes, PositionsFirst, BatteriesFirst, NoRequest,
         OfCycle, SilentOnce, NoBattery, BatteryLine, PositionLine, Counting

LEMMA BatteryStep == GNSSInv /\ (sendBattery \/ readBattery \/ batteryTimesOut) => GNSSInv'
<1> SUFFICES ASSUME GNSSInv, sendBattery \/ readBattery \/ batteryTimesOut PROVE GNSSInv'
  OBVIOUS
<1>1. /\ trackerState = "SensingBatteryStatus" /\ GNSSTypes /\ PositionsFirst
      /\ state \in {"GNSSUnavailable", "TurningOffGNSS"}
      /\ UNCHANGED <<cycle, state, numberOfTries>>
  BY DEF sendBattery, readBattery, batteryTimesOut, object, GNSSInv
<1>2. CASE sendBattery
  <2>1. /\ inputs' = inputs \o <<"CBC">> /\ UNCHANGED <<trackerState, lines, late>>
        /\ inputs \in Seq(CommandNames)
    BY <1>1, <1>2, CommandsSent DEF sendBattery, counts, GNSSTypes
  <2>2. /\ inputs' \in Seq(CommandNames)
        /\ \A i \in 1 .. Len(inputs') : \/ i \in 1 .. Len(inputs) /\ inputs'[i] = inputs[i]
                                        \/ inputs'[i] = "CBC"
    BY <2>1 DEF CommandNames
  <2>3. PositionsFirst'
    BY <1>1, <2>1, <2>2 DEF PositionsFirst, NoRequest, BatteryLine, PositionLine
  <2> QED BY <1>1, <2>1, <2>2, <2>3 DEF GNSSInv, GNSSTypes
<1>3. CASE batteryTimesOut
  <2>1. /\ UNCHANGED <<trackerState, lines, inputs>> /\ late' \in 0 .. MaxLate
    BY <1>1, <1>3, GNSSAssumption DEF batteryTimesOut, TimeOut, GNSSTypes
  <2>2. PositionsFirst'
    BY <1>1, <2>1 DEF PositionsFirst, NoRequest, BatteryLine, PositionLine
  <2> QED BY <1>1, <2>1, <2>2 DEF GNSSInv, GNSSTypes
<1>4. CASE readBattery
  <2>1. /\ Read /\ UNCHANGED <<inputs, late>>
        /\ \/ Head(lines) = Plain("+CBC") /\ trackerState' = "GettingGNSSPosition"
           \/ UNCHANGED trackerState
    BY <1>4 DEF readBattery, counts
  <2>2. /\ lines' \in Seq(LineType) /\ PositionsFirst'
        /\ Head(lines) = lines[1] /\ 1 \in 1 .. Len(lines)
    BY <1>1, <2>1, LineRead
  <2>3. GNSSTypes'
    BY <1>1, <2>1, <2>2 DEF GNSSTypes
  <2>4. CASE UNCHANGED trackerState
    BY <1>1, <2>2, <2>3, <2>4 DEF GNSSInv
  <2>5. CASE Head(lines) = Plain("+CBC") /\ trackerState' = "GettingGNSSPosition"
    <3>1. BatteryLine(1)
      BY <2>2, <2>5 DEF BatteryLine, Plain, Line
    <3>2. \A i \in 1 .. Len(lines) : ~PositionLine(i)
      BY <1>1, <2>2, <3>1 DEF PositionsFirst
    <3>3. \A i \in 1 .. Len(lines') : ~PositionLine(i)'
      <4>1. lines \in Seq(LineType) /\ lines # <<>> /\ lines' = Tail(lines)
        BY <1>1, <2>1 DEF GNSSTypes, Read
      <4>2. Shifted(lines, lines')
        BY <4>1, TailShifts
      <4> QED BY <3>2, <4>2 DEF Shifted, PositionLine
    <3>4. BatteriesFirst' /\ OfCycle'
      BY <2>2, <3>3 DEF BatteriesFirst, OfCycle, PositionsFirst, NoRequest
    <3>5. SilentOnce'
      BY <1>1 DEF SilentOnce, Counting
    <3> QED BY <2>3, <2>5, <3>4, <3>5 DEF GNSSInv
  <2> QED BY <2>1, <2>4, <2>5
<1> QED BY <1>2, <1>3, <1>4

-----------------------------------------------------------------------------
LEMMA SendStep == GNSSInv /\ (\E s \in GNSSStates \ {"GNSSUnavailable"} : sendCommands(s)) => GNSSInv'
<1> SUFFICES ASSUME GNSSInv, NEW s \in GNSSStates \ {"GNSSUnavailable"}, sendCommands(s)
             PROVE  GNSSInv'
  OBVIOUS
<1>1. /\ trackerState = "GettingGNSSPosition" /\ UNCHANGED <<trackerState, cycle, lines, late>>
      /\ inputs' = inputs \o Commands(s) /\ state' = s
      /\ IF state = s THEN numberOfTries' = numberOfTries ELSE numberOfTries' = 0
  BY DEF sendCommands, Called, Return, Trying, counts
<1>2. GNSSTypes /\ BatteriesFirst /\ OfCycle /\ SilentOnce
  BY <1>1 DEF GNSSInv
<1>3. /\ Commands(s) \in Seq(CommandNames)
      /\ \A i \in 1 .. Len(Commands(s)) : Commands(s)[i] # "CBC"
  BY CommandsSent
<1>4. /\ inputs' \in Seq(CommandNames)
      /\ \A i \in 1 .. Len(inputs') :
            /\ i \in Nat
            /\ \/ i \in 1 .. Len(inputs) /\ inputs'[i] = inputs[i]
               \/ i > Len(inputs) /\ inputs'[i] # "CBC"
  <2>1. inputs \in Seq(CommandNames) /\ Len(inputs) \in Nat
    BY <1>2 DEF GNSSTypes
  <2>2. ASSUME NEW i \in 1 .. Len(inputs')
        PROVE  /\ i \in Nat
               /\ \/ i \in 1 .. Len(inputs) /\ inputs'[i] = inputs[i]
                  \/ i > Len(inputs) /\ inputs'[i] # "CBC"
    <3>1. CASE i <= Len(inputs)
      BY <1>1, <1>3, <2>1, <3>1
    <3>2. CASE i > Len(inputs)
      <4>1. i - Len(inputs) \in 1 .. Len(Commands(s)) /\ inputs'[i] = Commands(s)[i - Len(inputs)]
        BY <1>1, <1>3, <2>1, <3>2
      <4> QED BY <1>3, <2>1, <3>2, <4>1
    <3> QED BY <2>1, <3>1, <3>2
  <2> QED BY <1>1, <1>3, <2>1, <2>2
<1>5. GNSSTypes'
  BY <1>1, <1>2, <1>4 DEF GNSSTypes
<1>6. BatteriesFirst' /\ OfCycle'
  <2>1. Len(inputs) \in Nat
    BY <1>2 DEF GNSSTypes
  <2> QED BY <1>1, <1>2, <1>4, <2>1 DEF BatteriesFirst, OfCycle, BatteryLine, PositionLine
<1>7. NoBattery => NoBattery'
  BY <1>1, <1>4 DEF NoBattery, BatteryLine
<1>8. SilentOnce'
  <2>1. CASE state = s
    BY <1>1, <1>2, <1>7, <2>1 DEF SilentOnce, Counting
  <2>2. CASE state # s
    BY <1>1, <1>2, <2>2, GNSSAssumption DEF SilentOnce, GNSSTypes
  <2> QED BY <2>1, <2>2
<1> QED BY <1>1, <1>5, <1>6, <1>8 DEF GNSSInv

(* A state that was just entered has counted nothing. *)
LEMMA Entered ==
    ASSUME GNSSTypes, late' = late, NEW s \in GNSSStates, changeGeopositioningState(s)
    PROVE  SilentOnce' /\ state' \in GNSSStates /\ numberOfTries' \in Nat
  BY GNSSAssumption DEF GNSSTypes, SilentOnce, changeGeopositioningState

LEMMA LineStep ==
    GNSSInv /\ (configurateConstellation \/ turningOnGNSS \/ obtainingPositionInformation
                \/ turningOffGNSS) => GNSSInv'
<1> SUFFICES ASSUME GNSSInv, configurateConstellation \/ turningOnGNSS
                             \/ obtainingPositionInformation \/ turningOffGNSS
             PROVE  GNSSInv'
  OBVIOUS
<1>1. /\ trackerState = "GettingGNSSPosition" /\ Read /\ UNCHANGED <<inputs, cycle, late>>
  BY DEF configurateConstellation, turningOnGNSS, obtainingPositionInformation, turningOffGNSS,
         GNSSLine, Called, Return, Trying, counts
<1>2. GNSSTypes /\ BatteriesFirst /\ OfCycle /\ SilentOnce
  BY <1>1 DEF GNSSInv
<1>3. /\ lines' \in Seq(LineType)
      /\ NoBattery => NoBattery'
      /\ BatteriesFirst' /\ OfCycle'
      /\ Head(lines) = lines[1] /\ 1 \in 1 .. Len(lines)
  BY <1>1, <1>2, LineRead
<1>4. CASE /\ Head(lines).what = "+QGPSLOC" /\ position' = Head(lines).of
           /\ changeGeopositioningState("TurningOffGNSS")
           /\ trackerState' = "rest"
  <2>1. PositionLine(1)
    BY <1>3, <1>4 DEF PositionLine
  <2>2. position' = cycle
    BY <1>2, <1>3, <1>4, <2>1 DEF OfCycle
  <2>3. NoBattery
    BY <1>2, <1>3, <2>1 DEF NoBattery, BatteriesFirst
  <2>4. state' = "TurningOffGNSS" /\ numberOfTries' = 0
    BY <1>4 DEF changeGeopositioningState
  <2>5. GNSSTypes'
    BY <1>1, <1>2, <1>3, <2>4 DEF GNSSTypes, GNSSStates
  <2> QED BY <1>1, <1>3, <1>4, <2>2, <2>3, <2>4, <2>5 DEF GNSSInv
<1>5. CASE /\ trackerState' = trackerState
           /\ \/ UNCHANGED object
              \/ \E s \in GNSSStates : changeGeopositioningState(s)
  <2>1. SilentOnce' /\ state' \in GNSSStates /\ numberOfTries' \in Nat
    <3>1. CASE UNCHANGED object
      <4>1. UNCHANGED <<state, numberOfTries>>
        BY <3>1 DEF object
      <4> QED BY <1>1, <1>2, <1>3, <4>1 DEF SilentOnce, Counting, GNSSTypes
    <3>2. CASE \E s \in GNSSStates : changeGeopositioningState(s)
      BY <1>1, <1>2, <3>2, Entered
    <3> QED BY <1>5, <3>1, <3>2
  <2>2. GNSSTypes'
    BY <1>1, <1>2, <1>3, <2>1 DEF GNSSTypes
  <2> QED BY <1>1, <1>3, <1>5, <2>1, <2>2 DEF GNSSInv
<1>6. \/ /\ Head(lines).what = "+QGPSLOC" /\ position' = Head(lines).of
         /\ changeGeopositioningState("TurningOffGNSS")
         /\ trackerState' = "rest"
      \/ /\ trackerState' = trackerState
         /\ \/ UNCHANGED object
            \/ \E s \in GNSSStates : changeGeopositioningState(s)
  <2>1. /\ "TurningOnGNSS" \in GNSSStates /\ "TurningOffGNSS" \in GNSSStates
        /\ "ObtainingPositionInformation" \in GNSSStates /\ "GNSSUnavailable" \in GNSSStates
    BY DEF GNSSStates
  <2>2. CASE configurateConstellation
    BY <2>1, <2>2 DEF configurateConstellation, Trying, Return
  <2>3. CASE turningOnGNSS
    BY <2>1, <2>3 DEF turningOnGNSS, Trying, Return
  <2>4. CASE obtainingPositionInformation
    BY <2>1, <2>4 DEF obtainingPositionInformation, Trying, Return
  <2>5. CASE turningOffGNSS
    BY <2>1, <2>5 DEF turningOffGNSS, Return
  <2> QED BY <2>2, <2>3, <2>4, <2>5
<1> QED BY <1>4, <1>5, <1>6

LEMMA TimeOutStep == GNSSInv /\ (countingTimesOut \/ switchingTimesOut) => GNSSInv'
<1> SUFFICES ASSUME GNSSInv, countingTimesOut \/ switchingTimesOut PROVE GNSSInv'
  OBVIOUS
<1>1. /\ trackerState = "GettingGNSSPosition" /\ TimeOut /\ UNCHANGED <<inputs, lines, cycle>>
  BY DEF countingTimesOut, switchingTimesOut, Called, Return, Trying
<1>2. GNSSTypes /\ BatteriesFirst /\ OfCycle /\ SilentOnce
  BY <1>1 DEF GNSSInv
<1>3. BatteriesFirst' /\ OfCycle' /\ NoBattery' = NoBattery
  BY <1>1, <1>2 DEF BatteriesFirst, OfCycle, NoBattery, BatteryLine, PositionLine
<1>4. /\ late' \in 0 .. MaxLate /\ late \in Nat /\ late' \in Nat /\ MaxLate < MaxTries
      /\ NoBattery \/ late' = late + 1
      /\ late' = late \/ late' = late + 1
  BY <1>1, <1>2, GNSSAssumption DEF TimeOut, GNSSTypes, NoBattery
<1>5. CASE countingTimesOut
  <2>1. numberOfTries \in Nat /\ Counting /\ (numberOfTries <= late \/ NoBattery)
    BY <1>2, <1>5 DEF countingTimesOut, GNSSTypes, SilentOnce, Counting
  <2>2. CASE numberOfTries + 1 >= MaxTries
    <3>1. NoBattery
      BY <1>4, <2>1, <2>2, GNSSAssumption
    <3>2. /\ state' = "TurningOffGNSS" /\ numberOfTries' = 0 /\ trackerState' = "rest"
          /\ result' = "GNSS_STATE_CONNECTION_UNAVAILABLE"
      BY <1>5, <2>2 DEF countingTimesOut, changeGeopositioningState, Return
    <3>3. GNSSTypes'
      BY <1>1, <1>2, <1>4, <3>2 DEF GNSSTypes, GNSSStates
    <3> QED BY <1>3, <3>1, <3>2, <3>3 DEF GNSSInv
  <2>3. CASE ~(numberOfTries + 1 >= MaxTries)
    <3>1. /\ numberOfTries' = numberOfTries + 1 /\ UNCHANGED <<state, trackerState>>
      BY <1>5, <2>3 DEF countingTimesOut, Trying, Return
    <3>2. SilentOnce'
      BY <1>3, <1>4, <2>1, <3>1 DEF SilentOnce
    <3>3. GNSSTypes'
      BY <1>1, <1>2, <1>4, <2>1, <3>1 DEF GNSSTypes
    <3> QED BY <1>1, <1>3, <3>1, <3>2, <3>3 DEF GNSSInv
  <2> QED BY <2>2, <2>3
<1>6. CASE switchingTimesOut
  <2>1. /\ UNCHANGED <<state, numberOfTries, trackerState>>
        /\ state \in {"TurningOnGNSS", "TurningOffGNSS"}
    BY <1>6 DEF switchingTimesOut, Trying, Return
  <2>2. SilentOnce' /\ GNSSTypes'
    BY <1>1, <1>2, <1>4, <2>1 DEF SilentOnce, Counting, GNSSTypes
  <2> QED BY <1>1, <1>3, <2>1, <2>2 DEF GNSSInv
<1> QED BY <1>5, <1>6

-----------------------------------------------------------------------------
LEMMA RestStep == GNSSInv /\ restOfCycle => GNSSInv'
<1> SUFFICES ASSUME GNSSInv, restOfCycle PROVE GNSSInv'
  OBVIOUS
<1>1. /\ trackerState = "rest" /\ trackerState' = "SensingBatteryStatus" /\ cycle' = cycle + 1
      /\ inputs' = <<>> /\ late' = 0 /\ UNCHANGED <<state, numberOfTries>>
  BY DEF restOfCycle, object
<1>2. GNSSTypes /\ NoBattery /\ state = "TurningOffGNSS"
  BY <1>1 DEF GNSSInv
<1>3. PICK n \in 0 .. Len(lines) : lines' = SubSeq(lines, n + 1, Len(lines))
  BY DEF restOfCycle
<1>4. /\ lines' \in Seq(LineType)
      /\ \A i \in 1 .. Len(lines') : \E j \in 1 .. Len(lines) : lines'[i] = lines[j]
  <2>1. lines \in Seq(LineType) /\ n + 1 \in 1 .. Len(lines) + 1 /\ n \in Nat /\ Len(lines) \in Nat
    BY <1>2 DEF GNSSTypes
  <2>2. /\ lines' \in Seq(LineType)
        /\ \A i \in 1 .. Len(lines') : n + i \in 1 .. Len(lines) /\ lines'[i] = lines[n + i]
    BY <1>3, <2>1
  <2> QED BY <2>2
<1>5. PositionsFirst'
  BY <1>1, <1>2, <1>4 DEF PositionsFirst, NoRequest, NoBattery, BatteryLine
<1>6. GNSSTypes'
  BY <1>1, <1>2, <1>4, GNSSAssumption DEF GNSSTypes
<1> QED BY <1>1, <1>2, <1>5, <1>6 DEF GNSSInv

LEMMA ModemStep == GNSSInv /\ (takeCommand \/ modemFails) => GNSSInv'
<1> SUFFICES ASSUME GNSSInv, takeCommand \/ modemFails PROVE GNSSInv'
  OBVIOUS
<1>1. /\ UNCHANGED <<cycle, trackerState, state, numberOfTries, result, position, late>>
      /\ GNSSTypes
  BY DEF takeCommand, modemFails, object, counts, GNSSInv
<1>2. /\ inputs' \in Seq(CommandNames) /\ lines' \in Seq(LineType)
      /\ NoBattery => NoBattery'
      /\ PositionsFirst => PositionsFirst'
      /\ BatteriesFirst => BatteriesFirst'
      /\ OfCycle => OfCycle'
  <2>1. CASE takeCommand
    BY <1>1, <2>1, CommandTaken
  <2>2. CASE inputs # <<>> /\ inputs' = Tail(inputs) /\ UNCHANGED lines
    BY <1>1, <2>2, CommandLost DEF GNSSTypes
  <2>3. CASE UNCHANGED <<inputs, lines>>
    BY <1>1, <2>3 DEF GNSSTypes, PositionsFirst, BatteriesFirst, NoRequest, OfCycle, NoBattery,
                      BatteryLine, PositionLine
  <2> QED BY <2>1, <2>2, <2>3 DEF modemFails
<1>3. SilentOnce => SilentOnce'
  BY <1>1, <1>2 DEF SilentOnce, Counting
<1>4. GNSSTypes'
  BY <1>1, <1>2 DEF GNSSTypes
<1> QED BY <1>1, <1>2, <1>3, <1>4 DEF GNSSInv

LEMMA GNSSStep == GNSSInv /\ [Next]_vars => GNSSInv'
  BY QuietStep, BatteryStep, SendStep, LineStep, TimeOutStep, RestStep, ModemStep DEF Next, Tracker

(* GNSSInv holds in every state. *)
THEOREM GNSSInvariant == Spec => []GNSSInv
<1> QED BY GNSSInit, GNSSStep, PTL DEF Spec

(* The position a cycle obtains was measured in that cycle, however many     *)
(* lines are left unread, however many commands are repeated or lost, and    *)
(* whenever the receiver stops (SensingBatteryStatus,                        *)
(* ObtainingPositionInformation::retrivGeopositioning).                      *)
THEOREM PositionsAreOfCycle == Spec => []PositionIsOfCycle
<1>1. GNSSInv => PositionIsOfCycle
  BY DEF GNSSInv, PositionIsOfCycle
<1> QED BY <1>1, GNSSInvariant, PTL

-----------------------------------------------------------------------------
(***************************************************************************)
(* The wake-up logic: for every interleaving of calls, timers, motion and  *)
(* orders, what TLC checks on the one instance there is.  The invariant    *)
(* shows why the properties hold: a decision to wake is taken in the very  *)
(* call that uses up the timer it is taken from.                           *)
(***************************************************************************)

(* What awake()'s static variables are while the tracker is awake. *)
Rested == currentState = "awake" => ~timeToWakeUp /\ ~initialize

WakeInv == TypeOK /\ Rested /\ LatencyRemembered /\ KeepAliveArmed /\ QuietSleep

(* read() leaves a timer running unless it has just reported its expiry. *)
LEMMA ReadTimer ==
    ASSUME NEW t, TimerOK(t)
    PROVE  TimerOK(read(t)) /\ (read(t).running \/ Fires(t))
  BY DEF TimerOK, read, restart, Fires, Idle

(* A timer that was restarted runs and is not due. *)
LEMMA RestartTimer ==
    ASSUME NEW t
    PROVE  TimerOK(restart(t)) /\ restart(t).running
  BY DEF TimerOK, restart

(* The tracker starts awake. *)
LEMMA WakeStarts == WakeInit => WakeInv
<1> SUFFICES ASSUME WakeInit PROVE WakeInv
  OBVIOUS
<1>1. TimerOK(latency) /\ TimerOK(silentKeepAlive)
  BY DEF WakeInit, TimerOK, Idle
<1>2. TypeOK
  BY <1>1 DEF WakeInit, TypeOK, Modes, Motions, Events
<1>3. Rested /\ LatencyRemembered /\ KeepAliveArmed /\ QuietSleep
  BY DEF WakeInit, Rested, LatencyRemembered, KeepAliveArmed, QuietSleep
<1> QED BY <1>2, <1>3 DEF WakeInv

-----------------------------------------------------------------------------
(* The timers as a call of awake() finds them. *)
LEMMA TimersNow ==
    ASSUME TypeOK
    PROVE  /\ TimerOK(LatencyNow)
           /\ LatencyNow.running \/ (initialize /\ LatencyNow = latency)
           /\ TimerOK(SilentKeepAliveNow)
<1>1. TimerOK(latency) /\ TimerOK(silentKeepAlive)
  BY DEF TypeOK
<1> QED BY <1>1, ReadTimer, RestartTimer DEF LatencyNow, SilentKeepAliveNow, TypeOK

(* What every call of awake() has in common. *)
LEMMA BeginTypes ==
    ASSUME TypeOK, NEW now \in Events, Begin(now)
    PROVE  /\ currentState = "Slepping" /\ event' = now
           /\ mode' \in Modes /\ newMotion' \in Motions /\ motion' \in Motions
           /\ event' \in Events /\ moved' \in BOOLEAN
           /\ moved => moved'
           /\ now \in {"PARKING", "MOVEMENT_RESTARTED"} => moved'
<1>1. mode' \in Modes /\ newMotion' \in Motions /\ motion' \in Motions
  BY DEF TypeOK, Begin, updateMovementEvent, Modes
<1>2. event' = now /\ currentState = "Slepping"
  BY DEF Begin, updateMovementEvent
<1>3. moved' \in BOOLEAN /\ (moved => moved')
      /\ (now \in {"PARKING", "MOVEMENT_RESTARTED"} => moved')
  BY DEF TypeOK, Begin
<1> QED BY <1>1, <1>2, <1>3

(* A call decides to turn the modem on, for a reason it remembers if wish is *)
(* true, or to leave it as it is.                                            *)
LEMMA Decide ==
    ASSUME TypeOK, currentState = "Slepping", NEW wish \in BOOLEAN,
           TurnOn(wish) \/ DoNotTurnOn
    PROVE  /\ timeToWakeUp' \in BOOLEAN /\ initialize' \in BOOLEAN
           /\ currentState' \in {"Slepping", "awake"} /\ modem' \in {"off", "starting", "on"}
           /\ currentState' = "awake" => ~timeToWakeUp' /\ ~initialize'
           /\ currentState' = "Slepping" => initialize'
  BY DEF TypeOK, TurnOn, DoNotTurnOn, StayAsleep

LEMMA StayedAsleep ==
    ASSUME TypeOK, currentState = "Slepping", NEW wish \in BOOLEAN, currentState' = "Slepping"
    PROVE  /\ TurnOn(wish) => (timeToWakeUp' <=> wish)
           /\ DoNotTurnOn => (timeToWakeUp' <=> timeToWakeUp) /\ modem' = modem
  BY DEF TypeOK, TurnOn, DoNotTurnOn, StayAsleep
(* So a call keeps the types and, when it wakes the tracker, clears the      *)
(* decisions.                                                                *)
LEMMA CallTypes ==
    ASSUME TypeOK, NEW now \in Events, Begin(now),
           NEW wish \in BOOLEAN, TurnOn(wish) \/ DoNotTurnOn,
           TimerOK(latency'), TimerOK(silentKeepAlive'), initializeKeepAlive' \in BOOLEAN
    PROVE  TypeOK' /\ Rested'
<1>1. TypeOK'
  BY BeginTypes, Decide DEF TypeOK
<1>2. Rested'
  BY BeginTypes, Decide DEF Rested
<1> QED BY <1>1, <1>2

-----------------------------------------------------------------------------
(* One step per branch of awake(). *)
LEMMA MovementChangesStep == WakeInv /\ movementChanges => WakeInv'
<1> SUFFICES ASSUME WakeInv, movementChanges PROVE WakeInv'
  OBVIOUS
<1> PICK now \in {"PARKING", "MOVEMENT_RESTARTED"} : Begin(now)
  BY DEF movementChanges
<1>1. now \in Events /\ TypeOK /\ timeToWakeUp \in BOOLEAN
  BY DEF Events, WakeInv, TypeOK
<1>2. /\ TurnOn(timeToWakeUp) /\ latency' = LatencyNow
      /\ silentKeepAlive' = SilentKeepAliveNow
      /\ initializeKeepAlive' \in BOOLEAN
  BY <1>1 DEF movementChanges, TypeOK
<1>3. currentState = "Slepping" /\ event' = now /\ moved'
  BY <1>1, BeginTypes
<1>4. TypeOK' /\ Rested'
  BY <1>1, <1>2, TimersNow, CallTypes
<1>5. LatencyRemembered'
  BY <1>1, <1>2, <1>3, TimersNow, StayedAsleep DEF WakeInv, LatencyRemembered
<1>6. KeepAliveArmed' /\ QuietSleep'
  BY <1>3 DEF KeepAliveArmed, QuietSleep
<1> QED BY <1>4, <1>5, <1>6 DEF WakeInv

LEMMA MovingStep == WakeInv /\ moving => WakeInv'
<1> SUFFICES ASSUME WakeInv, moving PROVE WakeInv'
  OBVIOUS
<1>1. TypeOK /\ "MOVING" \in Events /\ Begin("MOVING")
  BY DEF Events, WakeInv, moving
<1>2. /\ latency' = read(LatencyNow) /\ silentKeepAlive' = SilentKeepAliveNow
      /\ initializeKeepAlive' \in BOOLEAN
      /\ IF timeToWakeUp \/ Fires(LatencyNow) THEN TurnOn(TRUE) ELSE DoNotTurnOn
  BY <1>1 DEF moving, TypeOK
<1>3. currentState = "Slepping" /\ event' = "MOVING" /\ (moved => moved')
  BY <1>1, BeginTypes
<1>4. /\ TimerOK(latency') /\ TimerOK(silentKeepAlive')
      /\ latency'.running \/ Fires(LatencyNow)
  BY <1>1, <1>2, TimersNow, ReadTimer
<1>5. TypeOK' /\ Rested'
  <2>1. TurnOn(TRUE) \/ DoNotTurnOn
    BY <1>2
  <2> QED BY <1>1, <1>2, <1>4, <2>1, CallTypes
<1>6. LatencyRemembered' /\ QuietSleep'
  <2> SUFFICES ASSUME currentState' = "Slepping"
               PROVE  /\ latency'.running \/ timeToWakeUp'
                      /\ modem' # "off" => moved' \/ timeToWakeUp'
    BY DEF LatencyRemembered, QuietSleep
  <2>1. CASE timeToWakeUp \/ Fires(LatencyNow)
    BY <1>1, <1>2, <1>3, <2>1, StayedAsleep
  <2>2. CASE ~(timeToWakeUp \/ Fires(LatencyNow))
    BY <1>1, <1>2, <1>3, <1>4, <2>2, StayedAsleep DEF WakeInv, QuietSleep
  <2> QED BY <2>1, <2>2
<1>7. KeepAliveArmed'
  BY <1>3 DEF KeepAliveArmed
<1> QED BY <1>5, <1>6, <1>7 DEF WakeInv

(* actualizeKeepAliveLatency() starts the keep-alive. *)
LEMMA StoppedFirstStep == WakeInv /\ stoppedFirst => WakeInv'
<1> SUFFICES ASSUME WakeInv, stoppedFirst PROVE WakeInv'
  OBVIOUS
<1>1. TypeOK /\ "STOPPED" \in Events /\ Begin("STOPPED")
  BY DEF Events, WakeInv, stoppedFirst
<1>2. /\ latency' = LatencyNow /\ silentKeepAlive' = restart(SilentKeepAliveNow)
      /\ initializeKeepAlive' \in BOOLEAN /\ DoNotTurnOn
  BY <1>1 DEF stoppedFirst
<1>3. currentState = "Slepping" /\ (moved => moved')
  BY <1>1, BeginTypes
<1>4. /\ TimerOK(latency') /\ TimerOK(silentKeepAlive') /\ silentKeepAlive'.running
      /\ latency'.running \/ (initialize /\ latency' = latency)
  BY <1>1, <1>2, TimersNow, RestartTimer
<1>5. TypeOK' /\ Rested'
  BY <1>1, <1>2, <1>4, CallTypes
<1>6. LatencyRemembered' /\ QuietSleep'
  <2> SUFFICES ASSUME currentState' = "Slepping"
               PROVE  /\ latency'.running \/ timeToWakeUp'
                      /\ modem' # "off" => moved' \/ timeToWakeUp'
    BY DEF LatencyRemembered, QuietSleep
  <2>1. (timeToWakeUp' <=> timeToWakeUp) /\ modem' = modem
    BY <1>1, <1>2, <1>3, StayedAsleep
  <2> QED BY <1>3, <1>4, <2>1 DEF WakeInv, LatencyRemembered, QuietSleep
<1>7. KeepAliveArmed'
  BY <1>4 DEF KeepAliveArmed
<1> QED BY <1>5, <1>6, <1>7 DEF WakeInv

(* The timer is read once more when the silent period has been looked at, so *)
(* that it runs again even if that used up its expiry.                       *)
LEMMA StoppedStep == WakeInv /\ stopped => WakeInv'
<1> SUFFICES ASSUME WakeInv, stopped PROVE WakeInv'
  OBVIOUS
<1>1. TypeOK /\ "STOPPED" \in Events /\ Begin("STOPPED")
  BY DEF Events, WakeInv, stopped
<1>2. /\ latency' = LatencyNow /\ silentKeepAlive' = read(SilentKeepAliveNow)
      /\ initializeKeepAlive' \in BOOLEAN
      /\ IF timeToWakeUp \/ Fires(SilentKeepAliveNow) THEN TurnOn(TRUE) ELSE DoNotTurnOn
  BY <1>1 DEF stopped
<1>3. currentState = "Slepping" /\ (moved => moved')
  BY <1>1, BeginTypes
<1>4. /\ TimerOK(latency') /\ TimerOK(silentKeepAlive')
      /\ silentKeepAlive'.running \/ Fires(SilentKeepAliveNow)
      /\ latency'.running \/ (initialize /\ latency' = latency)
  BY <1>1, <1>2, TimersNow, ReadTimer
<1>5. TypeOK' /\ Rested'
  <2>1. TurnOn(TRUE) \/ DoNotTurnOn
    BY <1>2
  <2> QED BY <1>1, <1>2, <1>4, <2>1, CallTypes
<1>6. LatencyRemembered' /\ KeepAliveArmed' /\ QuietSleep'
  <2> SUFFICES ASSUME currentState' = "Slepping"
               PROVE  /\ latency'.running \/ timeToWakeUp'
                      /\ silentKeepAlive'.running \/ timeToWakeUp'
                      /\ modem' # "off" => moved' \/ timeToWakeUp'
    BY DEF LatencyRemembered, KeepAliveArmed, QuietSleep
  <2>1. CASE timeToWakeUp \/ Fires(SilentKeepAliveNow)
    BY <1>1, <1>2, <1>3, <2>1, StayedAsleep
  <2>2. CASE ~(timeToWakeUp \/ Fires(SilentKeepAliveNow))
    <3>1. (timeToWakeUp' <=> timeToWakeUp) /\ modem' = modem
      BY <1>1, <1>2, <1>3, <2>2, StayedAsleep
    <3> QED BY <1>3, <1>4, <2>2, <3>1 DEF WakeInv, LatencyRemembered, QuietSleep
  <2> QED BY <2>1, <2>2
<1> QED BY <1>5, <1>6 DEF WakeInv

-----------------------------------------------------------------------------
(* The environment moves no decision, and what happens while the tracker is  *)
(* awake cannot break what holds of its sleep.                               *)
LEMMA EnvironmentStep ==
    WakeInv /\ (checkStability \/ latencyDue \/ silentKeepAliveDue \/ modemUp) => WakeInv'
<1> SUFFICES ASSUME WakeInv PROVE
      /\ checkStability => WakeInv'
      /\ latencyDue => WakeInv'
      /\ silentKeepAliveDue => WakeInv'
      /\ modemUp => WakeInv'
  OBVIOUS
<1> USE DEF WakeInv, Rested, LatencyRemembered, KeepAliveArmed, QuietSleep
<1>1. checkStability => WakeInv'
  BY DEF checkStability, TypeOK, decisions, timers
<1>2. latencyDue => WakeInv'
  <2>1. latencyDue => TimerOK(latency') /\ latency'.running
    BY DEF latencyDue, TypeOK, TimerOK
  <2> QED BY <2>1 DEF latencyDue, TypeOK, decisions
<1>3. silentKeepAliveDue => WakeInv'
  <2>1. silentKeepAliveDue => TimerOK(silentKeepAlive') /\ silentKeepAlive'.running
    BY DEF silentKeepAliveDue, TypeOK, TimerOK
  <2> QED BY <2>1 DEF silentKeepAliveDue, TypeOK, decisions
<1>4. modemUp => WakeInv'
  BY DEF modemUp, TypeOK, decisions, timers
<1> QED BY <1>1, <1>2, <1>3, <1>4

LEMMA AwakeStep ==
    WakeInv /\ (setLatency \/ setOperationMode \/ setSilentTimer \/ pursue \/ goToSleep)
        => WakeInv'
<1> SUFFICES ASSUME WakeInv PROVE
      /\ setLatency => WakeInv'
      /\ setOperationMode => WakeInv'
      /\ setSilentTimer => WakeInv'
      /\ pursue => WakeInv'
      /\ goToSleep => WakeInv'
  OBVIOUS
<1> USE DEF WakeInv, Rested, LatencyRemembered, KeepAliveArmed, QuietSleep
<1>1. setLatency => WakeInv'
  BY RestartTimer DEF setLatency, TypeOK, decisions
<1>2. setOperationMode => WakeInv'
  BY DEF setOperationMode, TypeOK, decisions, timers
<1>3. setSilentTimer => WakeInv'
  <2> SUFFICES ASSUME setSilentTimer PROVE WakeInv'
    OBVIOUS
  <2>1. TimerOK(silentKeepAlive')
    BY DEF setSilentTimer, TypeOK, TimerOK
  <2>2. mode' \in Modes
    BY DEF setSilentTimer, Modes
  <2>3. UNCHANGED <<currentState, newMotion, motion, event, decisions, latency, modem, moved>>
    BY DEF setSilentTimer
  <2>4. TypeOK'
    BY <2>1, <2>2, <2>3 DEF TypeOK, decisions
  <2>5. currentState' = "awake"
    BY <2>3 DEF setSilentTimer
  <2> QED BY <2>3, <2>4, <2>5 DEF decisions
<1>4. EventOf(newMotion, motion) \in Events
  BY DEF EventOf, Events, TypeOK, Motions
<1>5. pursue => WakeInv'
  BY <1>4 DEF pursue, updateMovementEvent, TypeOK, decisions, timers
<1>6. goToSleep => WakeInv'
  <2> SUFFICES ASSUME goToSleep PROVE WakeInv'
    OBVIOUS
  <2>1. TypeOK'
    BY DEF goToSleep, TypeOK, decisions, timers
  <2>2. ~initialize' /\ modem' = "off" /\ currentState' = "Slepping"
    BY DEF goToSleep, decisions
  <2> QED BY <2>1, <2>2
<1> QED BY <1>1, <1>2, <1>3, <1>5, <1>6

LEMMA WakeStep == WakeInv /\ [WakeNext]_wakeVars => WakeInv'
<1>1. WakeInv /\ WakeNext => WakeInv'
  BY MovementChangesStep, MovingStep, StoppedFirstStep, StoppedStep, EnvironmentStep, AwakeStep
  DEF WakeNext, awake
<1>2. WakeInv /\ UNCHANGED wakeVars => WakeInv'
  BY DEF wakeVars, decisions, timers, WakeInv, TypeOK, Rested, LatencyRemembered,
         KeepAliveArmed, QuietSleep
<1> QED BY <1>1, <1>2

(* The invariant behind the theorems. *)
THEOREM WakeInvariant == WakeSpec => []WakeInv
  BY WakeStarts, WakeStep, PTL DEF WakeSpec

(* awake()'s variables, timers and the modem keep their types. *)
THEOREM WakeTypes == WakeSpec => []TypeOK
<1>1. WakeInv => TypeOK
  BY DEF WakeInv
<1> QED BY <1>1, WakeInvariant, PTL

(* Until the tracker wakes, its latency runs or is known to have elapsed.    *)
THEOREM LatencyKept == WakeSpec => []LatencyRemembered
<1>1. WakeInv => LatencyRemembered
  BY DEF WakeInv
<1> QED BY <1>1, WakeInvariant, PTL

(* A stopped tracker always has something left that will wake it. *)
THEOREM KeepAliveKept == WakeSpec => []KeepAliveArmed
<1>1. WakeInv => KeepAliveArmed
  BY DEF WakeInv
<1> QED BY <1>1, WakeInvariant, PTL

(* The modem stays off during a sleep nothing has interrupted. *)
THEOREM SleepsQuietly == WakeSpec => []QuietSleep
<1>1. WakeInv => QuietSleep
  BY DEF WakeInv
<1> QED BY <1>1, WakeInvariant, PTL
=============================================================================
