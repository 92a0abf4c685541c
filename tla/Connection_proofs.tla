-------------------------- MODULE Connection_proofs --------------------------
(***************************************************************************)
(* Proofs about connecting to the network, for any number of wake-ups,     *)
(* attempts, commands that wait and lines that are unread.                 *)
(***************************************************************************)
EXTENDS Connection, SequenceTheorems, WellFoundedInduction, TLAPS

(* The states that want a line of information. *)
Informed == Fields \union {"ConsultingSIMCardStatus"}

Values == [good : BOOLEAN, at : 0 .. MaxWakeUps]

InfoLines == [kind : {"INFO"}, of : Informed, value : Values]
Rows == [kind : {"OPERATOR", "CELL"}, of : Nat, at : Nat]
AllLines == {OK, Error, NoSimCard} \union InfoLines \union Rows

Commands == {"ATI", "AT+CSQ", "AT+CGSN", "AT+CPIN?", "AT+CREG=2", "AT+CREG?", "AT+QNWINFO",
             "AT+QLTS=1", "AT+CGATT=1", "AT+CGDCONT", "AT+QOPS"}

(* The state whose information a command asks for. *)
Asks(command) ==
    CASE command = "AT+CSQ"     -> "CheckingSignalStrength"
      [] command = "AT+CGSN"    -> "ConsultingIMEI"
      [] command = "AT+CPIN?"   -> "ConsultingSIMCardStatus"
      [] command = "AT+CREG?"   -> "ConsultingNetworkStatus"
      [] command = "AT+QNWINFO" -> "ConsultingAvailableOperators"
      [] command = "AT+QLTS=1"  -> "RetrievingTimeAndDate"
      [] OTHER                  -> "none"

Tells(line) == IF line \in InfoLines THEN line.of ELSE "none"

(* The state before that asked for information. *)
Previous(s) ==
    CASE s = "ConsultingIMEI"               -> "CheckingSignalStrength"
      [] s = "ConsultingSIMCardStatus"      -> "ConsultingIMEI"
      [] s = "ConsultingNetworkStatus"      -> "ConsultingSIMCardStatus"
      [] s = "ConsultingAvailableOperators" -> "ConsultingNetworkStatus"
      [] s = "RetrievingTimeAndDate"        -> "ConsultingAvailableOperators"
      [] OTHER                              -> "RetrievingTimeAndDate"

(* The fields filled before a state is entered. *)
Filled(s) ==
    CASE s \in {"ConnectionUnavailableState", "IdleState", "CheckingSignalStrength"} -> {}
      [] s = "ConsultingIMEI" -> {"CheckingSignalStrength"}
      [] s \in {"ConsultingSIMCardStatus", "ConsultingNetworkStatus"} ->
            {"CheckingSignalStrength", "ConsultingIMEI"}
      [] s = "ConsultingAvailableOperators" ->
            {"CheckingSignalStrength", "ConsultingIMEI", "ConsultingNetworkStatus"}
      [] s = "RetrievingTimeAndDate" -> Fields \ {"RetrievingTimeAndDate"}
      [] OTHER -> Fields

-----------------------------------------------------------------------------
(* What is on the line belongs to this state or to the one before, and what  *)
(* belongs to the one before comes first: nothing is left of any other.      *)
Current == {line \in AllLines : Tells(line) \in {"none", state, Previous(state)}}
Sent == {command \in Commands : Asks(command) \in {"none", state, Previous(state)}}

OldIn(lines) == \E i \in DOMAIN lines : Tells(lines[i]) = Previous(state)
OldAsked == \E i \in DOMAIN pending : Asks(pending[i]) = Previous(state)

InOrder ==
    /\ input \in Seq(Current) /\ pending \in Seq(Sent)
    /\ \A i, j \in DOMAIN input :
          i < j /\ Tells(input[i]) = state => Tells(input[j]) # Previous(state)
    /\ (\E i \in DOMAIN input : Tells(input[i]) = state) => ~OldAsked
    /\ \A i, j \in DOMAIN pending :
          i < j /\ Asks(pending[i]) = state => Asks(pending[j]) # Previous(state)
    /\ object.retrieved => ~OldIn(input) /\ ~OldAsked

(* A value that may be stored was measured in this chain. *)
Fresh(value) == value.at \in begun .. wakeUp

Good(s, value) == value.good \/ s \in {"CheckingSignalStrength", "ConsultingNetworkStatus"}

Measured ==
    /\ \A i \in DOMAIN input :
          /\ Tells(input[i]) = state => Fresh(input[i].value)
          /\ Tells(input[i]) # "none" => Good(Tells(input[i]), input[i].value)
    /\ object.retrieved => Fresh(object.value) /\ Good(state, object.value)
    /\ \A f \in Filled(state) : cell[f].good /\ Fresh(cell[f])

Handed == phase \in {"listing", "exchanging"} => state = "ConnectedState"

ChainInv == InOrder /\ Measured /\ Handed

-----------------------------------------------------------------------------
(* Type correctness, part by part. *)
Objects == [readyToSend : BOOLEAN, retrieved : BOOLEAN, value : Values,
            connectionAttempts : Nat, poorSignals : Nat]

Phases == {"connecting", "listing", "exchanging", "finished", "turning off", "off"}

Course == /\ wakeUp \in 1 .. MaxWakeUps /\ begun \in 1 .. wakeUp
          /\ phase \in Phases /\ state \in States /\ sim \in {1, 2} /\ late \in BOOLEAN

Findings == object \in Objects /\ cell \in [Fields -> Values]

Listed == scan \in [vectorCleared : BOOLEAN, readyToSend : BOOLEAN,
                    rows : {r \in Seq(AllLines) : Len(r) <= MaxRows},
                    counterTimeOut : 0 .. MaxTimeOuts, operator : {scan.operator}]

Link == /\ input \in Seq(AllLines) /\ Len(input) <= MaxLines
        /\ pending \in Seq(Commands) /\ Len(pending) <= MaxPending
        /\ network \in [attached : BOOLEAN, context : BOOLEAN]

Typed == Course /\ Findings /\ Listed /\ Link

LEMMA TypesFollow == Typed => TypeOK
<1> SUFFICES ASSUME Typed PROVE TypeOK
  OBVIOUS
<1>1. /\ wakeUp \in 1 .. MaxWakeUps /\ begun \in 1 .. wakeUp /\ phase \in Phases
      /\ state \in States /\ sim \in {1, 2} /\ late \in BOOLEAN
  BY Zenon DEF Typed, Course
<1>2. object \in Objects /\ cell \in [Fields -> Values]
  BY DEF Typed, Findings
<1>3. scan.counterTimeOut \in 0 .. MaxTimeOuts /\ Len(scan.rows) <= MaxRows
  BY DEF Typed, Listed
<1>4. /\ Len(input) <= MaxLines /\ Len(pending) <= MaxPending
      /\ network \in [attached : BOOLEAN, context : BOOLEAN]
  BY DEF Typed, Link
<1> QED BY <1>1, <1>2, <1>3, <1>4, Zenon DEF TypeOK, Objects, Values, Phases

LEMMA NewTyped == New \in Objects /\ NoValue \in Values
  BY ConnectionAssumption DEF New, Objects, NoValue, Values

LEMMA TypeInit == Init => Typed
<1> SUFFICES ASSUME Init PROVE Typed
  OBVIOUS
<1>1. Course
  <2>1. wakeUp = 1 /\ begun = 1 /\ MaxWakeUps \in Nat \ {0}
    BY ConnectionAssumption DEF Init
  <2>2. wakeUp \in 1 .. MaxWakeUps /\ begun \in 1 .. wakeUp
    BY <2>1
  <2>3. phase \in Phases /\ state \in States /\ sim \in {1, 2} /\ late \in BOOLEAN
    BY Zenon DEF Init, Phases, States
  <2> QED BY <2>2, <2>3, Zenon DEF Course
<1>2. Findings
  BY NewTyped DEF Init, Findings
<1>3. Listed
  BY ConnectionAssumption DEF Init, Listed, NoScan
<1>4. Link
  BY ConnectionAssumption DEF Init, Link, Off
<1> QED BY <1>1, <1>2, <1>3, <1>4 DEF Typed

-----------------------------------------------------------------------------
(* Every step is one of a few kinds, seen from the chain of states. *)

(* Lines are read or lost: the first k of them. *)
Later(k) == /\ k \in 0 .. Len(input) /\ input' \in Seq(AllLines)
            /\ Len(input') = Len(input) - k
            /\ \A i \in 1 .. Len(input') : input'[i] = input[i + k]

LEMMA ReadIsLater ==
    ASSUME Link, input # <<>>, input' = Tail(input)
    PROVE  Later(1) /\ Head(input) = input[1] /\ Head(input) \in AllLines /\ 1 \in DOMAIN input
<1>1. input \in Seq(AllLines)
  BY DEF Link
<1>2. Len(input) \in Nat /\ Len(input) # 0
  BY <1>1
<1>3. input' \in Seq(AllLines) /\ Len(input') = Len(input) - 1
  BY <1>1, <1>2
<1>4. \A i \in 1 .. Len(input') : input'[i] = input[i + 1]
  BY <1>1, <1>2
<1> QED BY <1>1, <1>2, <1>3, <1>4 DEF Later

LEMMA DrainIsLater ==
    ASSUME Link, Drain
    PROVE  \E k \in 0 .. Len(input) : Later(k)
<1>1. input \in Seq(AllLines) /\ Len(input) \in Nat
  BY DEF Link
<1>2. PICK n \in 1 .. Len(input) + 1 : input' = SubSeq(input, n, Len(input))
  BY DEF Drain
<1>3. input' \in Seq(AllLines) /\ Len(input') = Len(input) - (n - 1)
  BY <1>1, <1>2
<1>4. \A i \in 1 .. Len(input') : input'[i] = input[i + (n - 1)]
  BY <1>1, <1>2
<1>5. n - 1 \in 0 .. Len(input)
  BY <1>1
<1> QED BY <1>3, <1>4, <1>5 DEF Later

LEMMA SameIsLater ==
    ASSUME Link, UNCHANGED input
    PROVE  Later(0)
  BY DEF Link, Later

LEMMA LaterTyped ==
    ASSUME Link, NEW k, Later(k)
    PROVE  input' \in Seq(AllLines) /\ Len(input') <= MaxLines
  BY ConnectionAssumption DEF Link, Later

(* Commands are sent as long as there is room. *)
LEMMA CommandsAppended ==
    ASSUME Link, NEW commands \in Seq(Commands), sendATCommand(commands)
    PROVE  /\ pending' \in Seq(Commands) /\ Len(pending') <= MaxPending
           /\ Len(pending') <= Len(pending) + Len(commands)
           /\ \A i \in 1 .. Len(pending') :
                 \/ i \in DOMAIN pending /\ pending'[i] = pending[i]
                 \/ /\ i - Len(pending) \in DOMAIN commands
                    /\ pending'[i] = commands[i - Len(pending)]
<1> DEFINE all == pending \o commands
           n == IF Len(all) < MaxPending THEN Len(all) ELSE MaxPending
<1>1. pending \in Seq(Commands) /\ MaxPending \in Nat
  BY ConnectionAssumption DEF Link
<1>2. all \in Seq(Commands) /\ Len(all) = Len(pending) + Len(commands)
  BY <1>1
<1>3. /\ \A i \in 1 .. Len(pending) : all[i] = pending[i]
      /\ \A i \in Len(pending) + 1 .. Len(all) : all[i] = commands[i - Len(pending)]
  BY <1>1
<1>4. pending' = SubSeq(all, 1, n)
  BY DEF sendATCommand
<1> HIDE DEF all
<1>5. n \in 0 .. Len(all) /\ n <= MaxPending
  BY <1>1, <1>2
<1> HIDE DEF n
<1>6. pending' \in Seq(Commands) /\ Len(pending') = n /\ \A i \in 1 .. n : pending'[i] = all[i]
  BY <1>2, <1>4, <1>5
<1>7. ASSUME NEW i \in 1 .. n
      PROVE  \/ i \in DOMAIN pending /\ pending'[i] = pending[i]
             \/ /\ i - Len(pending) \in DOMAIN commands
                /\ pending'[i] = commands[i - Len(pending)]
  <2>1. i \in 1 .. Len(all) /\ pending'[i] = all[i] /\ Len(pending) \in Nat /\ Len(commands) \in Nat
    BY <1>1, <1>2, <1>5, <1>6
  <2>2. CASE i <= Len(pending)
    BY <1>1, <1>3, <2>1, <2>2
  <2>3. CASE i > Len(pending)
    <3>1. i - Len(pending) \in 1 .. Len(commands)
      BY <1>2, <2>1, <2>3
    <3>2. pending'[i] = commands[i - Len(pending)]
      BY <1>3, <2>1, <2>3
    <3> QED BY <3>1, <3>2
  <2> QED BY <2>1, <2>2, <2>3
<1> QED BY <1>2, <1>5, <1>6, <1>7

LEMMA SendTyped ==
    ASSUME Typed, NEW commands \in Seq(Commands), Send(commands)
    PROVE  Typed'
<1>1. Course'
  BY DEF Typed, Course, Send, history
<1>2. Findings'
  BY DEF Typed, Findings, Send, Objects
<1>3. Listed'
  BY DEF Typed, Listed, Send, list
<1>4. Link'
  BY CommandsAppended DEF Typed, Link, Send
<1> QED BY <1>1, <1>2, <1>3, <1>4 DEF Typed

LEMMA TimeOutTyped ==
    ASSUME Typed, NEW max, NEW next \in Nat, NEW kept \in BOOLEAN, timeOut(max, next, kept)
    PROVE  Typed'
<1>1. Course'
  <2>1. late' \in BOOLEAN /\ phase' \in Phases
    BY DEF Typed, Course, timeOut, Phases, Overtakes
  <2> QED BY <2>1 DEF Typed, Course, timeOut
<1>2. Findings'
  <2>0. object \in Objects
    BY DEF Typed, Findings
  <2>1. TimedOut(kept) \in Objects
    <3>1. (kept /\ object.retrieved) \in BOOLEAN /\ object.connectionAttempts + 1 \in Nat
      BY <2>0 DEF Objects
    <3> DEFINE r == kept /\ object.retrieved
    <3> HIDE DEF r
    <3>2. [object EXCEPT !.readyToSend = TRUE, !.retrieved = r,
                         !.connectionAttempts = object.connectionAttempts + 1] \in Objects
      BY <2>0, <3>1 DEF Objects, r
    <3> QED BY <3>2 DEF TimedOut, r
  <2>2. object' \in Objects
    <3> DEFINE o == TimedOut(kept)
    <3> HIDE DEF o
    <3>1. o \in Objects
      BY <2>1 DEF o
    <3>2. [o EXCEPT !.connectionAttempts = next] \in Objects
      BY <3>1 DEF Objects
    <3> QED BY <3>1, <3>2 DEF timeOut, o
  <2> QED BY <2>2 DEF Typed, Findings, timeOut
<1>3. Listed'
  BY DEF Typed, Listed, timeOut, list
<1>4. Link'
  BY DEF Typed, Link, timeOut, modem
<1> QED BY <1>1, <1>2, <1>3, <1>4 DEF Typed

LEMMA AwaitOKTyped ==
    ASSUME Typed, NEW next \in States, AwaitOK(next)
    PROVE  Typed'
<1>1. Course'
  BY DEF Typed, Course, AwaitOK, changeConnectionState, history
<1>2. Findings'
  BY NewTyped DEF Typed, Findings, AwaitOK, changeConnectionState
<1>3. Listed'
  BY DEF Typed, Listed, AwaitOK, list
<1>4. Link'
  <2>1. input' \in Seq(AllLines) /\ Len(input') <= MaxLines
    BY ReadIsLater, LaterTyped DEF Typed, AwaitOK, readATResponse
  <2> QED BY <2>1 DEF Typed, Link, AwaitOK, modem
<1> QED BY <1>1, <1>2, <1>3, <1>4 DEF Typed

LEMMA InfoOfState ==
    ASSUME NEW line \in AllLines, line.kind = "INFO"
    PROVE  line \in InfoLines /\ line.value \in Values /\ line.of \in Informed
<1>1. line \in InfoLines
  BY DEF AllLines, InfoLines, OK, Error, NoSimCard, Rows
<1> QED BY <1>1 DEF InfoLines

LEMMA AwaitInfoTyped ==
    ASSUME Typed, AwaitInfo, sim' \in {1, 2}
    PROVE  Typed'
<1>0. Later(1) /\ Head(input) \in AllLines
  BY ReadIsLater DEF Typed, AwaitInfo, readATResponse
<1>1. Course'
  BY DEF Typed, Course, AwaitInfo, history
<1>2. Findings'
  <2>1. Head(input).kind = "INFO" => Head(input).value \in Values
    BY <1>0, InfoOfState
  <2> QED BY <2>1 DEF Typed, Findings, AwaitInfo, Objects
<1>3. Listed'
  BY DEF Typed, Listed, AwaitInfo, list
<1>4. Link'
  BY <1>0, LaterTyped DEF Typed, Link, AwaitInfo, modem
<1> QED BY <1>1, <1>2, <1>3, <1>4 DEF Typed

LEMMA AwaitOKBehindTyped ==
    ASSUME Typed, NEW store, NEW pass, NEW next \in States, AwaitOKBehind(store, pass, next)
    PROVE  Typed'
<1>1. Course'
  BY DEF Typed, Course, AwaitOKBehind, changeConnectionState, history
<1>2. Findings'
  <2>1. object' \in Objects
    BY NewTyped DEF Typed, Findings, AwaitOKBehind, changeConnectionState
  <2>2. object.value \in Values
    BY DEF Typed, Findings, Objects
  <2>3. cell' \in [Fields -> Values]
    BY <2>2 DEF Typed, Findings, AwaitOKBehind
  <2> QED BY <2>1, <2>3 DEF Findings
<1>3. Listed'
  BY DEF Typed, Listed, AwaitOKBehind, list
<1>4. Link'
  <2>1. input' \in Seq(AllLines) /\ Len(input') <= MaxLines
    BY ReadIsLater, LaterTyped DEF Typed, AwaitOKBehind, readATResponse
  <2> QED BY <2>1 DEF Typed, Link, AwaitOKBehind, modem
<1> QED BY <1>1, <1>2, <1>3, <1>4 DEF Typed

-----------------------------------------------------------------------------
(* What the modem says. *)

(* Lines that answer a command: they tell what it asks for, as measured now. *)
AnswerLines(command) ==
    {line \in AllLines :
        /\ Tells(line) \in {"none", Asks(command)}
        /\ Tells(line) # "none" => line.value.at = wakeUp /\ Good(Tells(line), line.value)}

LEMMA PlainLines ==
    ASSUME NEW line \in {OK, Error, NoSimCard} \union Rows
    PROVE  line \in AllLines /\ Tells(line) = "none"
<1>1. line \notin InfoLines
  <2>1. CASE line \in Rows
    BY <2>1 DEF Rows, InfoLines
  <2>2. CASE line \in {OK, Error, NoSimCard}
    BY <2>2 DEF OK, Error, NoSimCard, InfoLines
  <2> QED BY <2>1, <2>2
<1> QED BY <1>1 DEF AllLines, Tells

LEMMA InfoAnswers ==
    ASSUME Course, NEW command \in Commands, NEW info \in InfoOf(command)
    PROVE  info \in AnswerLines(command)
<1>0. wakeUp \in 0 .. MaxWakeUps
  BY ConnectionAssumption DEF Course
<1>1. PICK good \in BOOLEAN : info = Info(Asks(command), good, wakeUp)
  BY DEF InfoOf, Asks, Commands
<1>2. Asks(command) \in Informed
  BY DEF InfoOf, Asks, Commands, Informed, Fields
<1>3. good \/ Asks(command) \in {"CheckingSignalStrength", "ConsultingNetworkStatus"}
  BY <1>1 DEF InfoOf, Asks, Commands, Info
<1>4. info \in InfoLines /\ info.of = Asks(command)
  BY <1>0, <1>1, <1>2 DEF InfoLines, Info, Values
<1>5. info.value.at = wakeUp /\ info.value.good = good
  BY <1>1 DEF Info
<1> QED BY <1>3, <1>4, <1>5 DEF AnswerLines, AllLines, Tells, Good

LEMMA RepliesAnswer ==
    ASSUME Course, NEW command \in Commands,
           NEW reply \in Accepted(command) \union {Refused(command), <<>>}
    PROVE  reply \in Seq(AnswerLines(command))
<1>1. \A line \in {OK, Error, NoSimCard} \union Rows : line \in AnswerLines(command)
  BY PlainLines DEF AnswerLines
<1>2. CASE reply \in {Refused(command), <<>>}
  <2>1. OK \in AnswerLines(command) /\ Error \in AnswerLines(command)
        /\ NoSimCard \in AnswerLines(command)
    BY <1>1
  <2>2. reply = <<>> \/ reply = <<Error>> \/ reply = <<NoSimCard>>
    BY <1>2 DEF Refused
  <2> DEFINE A == AnswerLines(command)
  <2> HIDE DEF A
  <2>3. OK \in A /\ Error \in A /\ NoSimCard \in A
    BY <2>1 DEF A
  <2>4. <<>> \in Seq(A) /\ <<Error>> \in Seq(A) /\ <<NoSimCard>> \in Seq(A)
    BY <2>3
  <2> QED BY <2>2, <2>4 DEF A
<1>3. CASE reply \in Accepted(command)
  <2>1. CASE \E info \in InfoOf(command) : reply = <<info, OK>>
    BY <2>1, <1>1, InfoAnswers
  <2>2. CASE \E l \in Lists : reply = [i \in DOMAIN l |-> Row(l[i])] \o <<OK>>
    <3>1. PICK l \in Lists : reply = [i \in DOMAIN l |-> Row(l[i])] \o <<OK>>
      BY <2>2
    <3>2. l \in Seq({"OPERATOR", "CELL"} \X Nat)
      BY ConnectionAssumption
    <3>3. ASSUME NEW i \in DOMAIN l PROVE Row(l[i]) \in Rows
      <4>1. l[i] \in {"OPERATOR", "CELL"} \X Nat
        BY <3>2
      <4>2. wakeUp \in Nat
        BY ConnectionAssumption DEF Course
      <4> QED BY <4>1, <4>2 DEF Row, Rows
    <3>4. [i \in DOMAIN l |-> Row(l[i])] \in Seq(AnswerLines(command))
      <4>1. DOMAIN l = 1 .. Len(l) /\ Len(l) \in Nat
        BY <3>2
      <4> QED BY <4>1, <3>3, <1>1
    <3> QED BY <3>1, <3>4, <1>1
  <2>3. CASE reply = <<OK>>
    BY <2>3, <1>1
  <2> QED BY <1>3, <2>1, <2>2, <2>3 DEF Accepted
<1> QED BY <1>2, <1>3

(* The serial buffer and the commands when the modem has said something. *)
LEMMA AnswersShape ==
    ASSUME Typed, pending # <<>>, NEW reply \in Seq(AllLines), Answers(reply)
    PROVE  /\ input' \in Seq(AllLines) /\ Len(input') <= MaxLines
           /\ Len(input') = Len(input) + Len(reply)
           /\ \A i \in 1 .. Len(input) : input'[i] = input[i]
           /\ \A i \in Len(input) + 1 .. Len(input') : input'[i] = reply[i - Len(input)]
           /\ pending' \in Seq(Commands) /\ Len(pending') = Len(pending) - 1
           /\ \A i \in 1 .. Len(pending') : pending'[i] = pending[i + 1]
           /\ 1 \in DOMAIN pending /\ Head(pending) = pending[1] /\ Head(pending) \in Commands
<1>1. input \in Seq(AllLines) /\ pending \in Seq(Commands)
  BY DEF Typed, Link
<1>2. input' = input \o reply /\ Len(input) + Len(reply) <= MaxLines /\ pending' = Tail(pending)
  BY DEF Answers
<1>3. /\ input' \in Seq(AllLines) /\ Len(input') = Len(input) + Len(reply)
      /\ \A i \in 1 .. Len(input) : input'[i] = input[i]
      /\ \A i \in Len(input) + 1 .. Len(input') : input'[i] = reply[i - Len(input)]
  BY <1>1, <1>2
<1>4. Len(pending) \in Nat /\ Len(pending) # 0
  BY <1>1
<1>5. /\ pending' \in Seq(Commands) /\ Len(pending') = Len(pending) - 1
      /\ \A i \in 1 .. Len(pending') : pending'[i] = pending[i + 1]
  BY <1>1, <1>2, <1>4
<1> QED BY <1>1, <1>2, <1>3, <1>4, <1>5

LEMMA AnswerTyped ==
    ASSUME Typed, answer
    PROVE  Typed'
<1>1. Course'
  BY DEF Typed, Course, answer, module, history
<1>2. Findings'
  BY DEF Typed, Findings, answer, module
<1>3. Listed'
  BY DEF Typed, Listed, answer, list
<1>4. Link'
  <2>1. Head(pending) \in Commands
    BY DEF Typed, Link, answer
  <2>2. PICK reply \in Accepted(Head(pending)) \union {Refused(Head(pending)), <<>>} : Answers(reply)
    BY DEF answer
  <2>3. reply \in Seq(AllLines)
    <3>1. reply \in Seq(AnswerLines(Head(pending)))
      BY <2>1, <2>2, RepliesAnswer DEF Typed
    <3>2. \A line \in AnswerLines(Head(pending)) : line \in AllLines
      BY DEF AnswerLines
    <3> QED BY <3>1, <3>2
  <2>4. network' \in [attached : BOOLEAN, context : BOOLEAN]
    <3>1. network \in [attached : BOOLEAN, context : BOOLEAN]
      BY DEF Typed, Link
    <3>2. CASE UNCHANGED network
      BY <3>1, <3>2
    <3>3. CASE ~UNCHANGED network
      <4>1. network' = [attached |-> network.attached \/ Head(pending) = "AT+CGATT=1",
                        context |-> network.context \/ Head(pending) = "AT+CGDCONT"]
        BY <3>3, Zenon DEF answer
      <4> DEFINE a == network.attached \/ Head(pending) = "AT+CGATT=1"
                 c == network.context \/ Head(pending) = "AT+CGDCONT"
      <4>2. a \in BOOLEAN /\ c \in BOOLEAN
        BY Zenon
      <4>3. network' = [attached |-> a, context |-> c]
        BY <4>1
      <4> HIDE DEF a, c
      <4> QED BY <4>2, <4>3
    <3> QED BY <3>2, <3>3
  <2>5. Len(pending') <= MaxPending
    BY <2>2, <2>3, AnswersShape, ConnectionAssumption DEF Typed, Link, answer
  <2> QED BY <2>2, <2>3, <2>4, <2>5, AnswersShape DEF Link, answer
<1> QED BY <1>1, <1>2, <1>3, <1>4 DEF Typed

-----------------------------------------------------------------------------
(* Every step keeps the types. *)
LEMMA PoorSignalTyped ==
    ASSUME Typed, poorSignal
    PROVE  Typed'
<1>1. Course'
  <2>1. phase' \in Phases
    BY DEF Typed, Course, poorSignal, Phases
  <2> QED BY <2>1 DEF Typed, Course, poorSignal, history
<1>2. Findings'
  <2>1. object \in Objects /\ object.poorSignals + 1 \in Nat
    BY DEF Typed, Findings, Objects
  <2>2. \/ object' = [object EXCEPT !.poorSignals = object.poorSignals + 1,
                                    !.connectionAttempts = 0]
        \/ object' = [object EXCEPT !.poorSignals = object.poorSignals + 1]
    BY DEF poorSignal
  <2>3. object' \in Objects
    <3>1. CASE object' = [object EXCEPT !.poorSignals = object.poorSignals + 1]
      BY <2>1, <3>1 DEF Objects
    <3>2. CASE object' = [object EXCEPT !.poorSignals = object.poorSignals + 1,
                                        !.connectionAttempts = 0]
      BY <2>1, <3>2 DEF Objects
    <3> QED BY <2>2, <3>1, <3>2
  <2> QED BY <2>3 DEF Typed, Findings, poorSignal
<1>3. Listed'
  BY DEF Typed, Listed, poorSignal, list
<1>4. Link'
  <2>1. input' \in Seq(AllLines) /\ Len(input') <= MaxLines
    <3>1. input' = Tail(input) /\ input # <<>>
      BY DEF poorSignal, readATResponse
    <3> QED BY <3>1, ReadIsLater, LaterTyped DEF Typed
  <2> QED BY <2>1 DEF Typed, Link, poorSignal, modem
<1> QED BY <1>1, <1>2, <1>3, <1>4 DEF Typed

(* The states that wait for an OK. *)
LEMMA PlainStatesTyped ==
    ASSUME Typed, idle \/ attachingToPacketService \/ definePDPContext
    PROVE  Typed'
<1>1. object.connectionAttempts + 1 \in Nat /\ FALSE \in BOOLEAN /\ 0 \in Nat
  BY DEF Typed, Findings, Objects
<1>2. {"CheckingSignalStrength", "DefinePDPContext", "ConnectedState"} \subseteq States
  BY DEF States, Fields
<1>3. {<<"ATI">>, <<"AT+CGATT=1">>, <<"AT+CGDCONT">>} \subseteq Seq(Commands)
  BY DEF Commands
<1>4. CASE idle
  <2>1. CASE Send(<<"ATI">>)
    BY <1>3, <2>1, SendTyped
  <2>2. CASE AwaitOK("CheckingSignalStrength")
    BY <1>2, <2>2, AwaitOKTyped
  <2>3. CASE timeOut(MaxAttempts, object.connectionAttempts + 1, FALSE)
    BY <1>1, <2>3, TimeOutTyped
  <2> QED BY <1>4, <2>1, <2>2, <2>3 DEF idle
<1>5. CASE attachingToPacketService
  <2>1. CASE Send(<<"AT+CGATT=1">>)
    BY <1>3, <2>1, SendTyped
  <2>2. CASE AwaitOK("DefinePDPContext")
    BY <1>2, <2>2, AwaitOKTyped
  <2>3. CASE timeOut(MaxAttempts, 0, FALSE)
    BY <1>1, <2>3, TimeOutTyped
  <2> QED BY <1>5, <2>1, <2>2, <2>3 DEF attachingToPacketService
<1>6. CASE definePDPContext
  <2>1. CASE Send(<<"AT+CGDCONT">>)
    BY <1>3, <2>1, SendTyped
  <2>2. CASE AwaitOK("ConnectedState")
    BY <1>2, <2>2, AwaitOKTyped
  <2>3. CASE timeOut(MaxAttempts, 0, FALSE)
    BY <1>1, <2>3, TimeOutTyped
  <2> QED BY <1>6, <2>1, <2>2, <2>3 DEF definePDPContext
<1> QED BY <1>4, <1>5, <1>6

Inquiries == \/ checkingSignalStrength \/ consultingIMEI \/ consultingSIMCardStatus
             \/ consultingNetworkStatus \/ consultingAvailableOperators \/ retrievingTimeAndDate

(* The state behind, and the commands of a state that asks for information. *)
Behind(s) ==
    CASE s = "CheckingSignalStrength"       -> "ConsultingIMEI"
      [] s = "ConsultingIMEI"               -> "ConsultingSIMCardStatus"
      [] s = "ConsultingSIMCardStatus"      -> "ConsultingNetworkStatus"
      [] s = "ConsultingNetworkStatus"      -> "ConsultingAvailableOperators"
      [] s = "ConsultingAvailableOperators" -> "RetrievingTimeAndDate"
      [] OTHER                              -> "AttachingToPacketService"

Inquiry(s) ==
    CASE s = "CheckingSignalStrength"       -> <<"AT+CSQ">>
      [] s = "ConsultingIMEI"               -> <<"AT+CGSN">>
      [] s = "ConsultingSIMCardStatus"      -> <<"AT+CPIN?">>
      [] s = "ConsultingNetworkStatus"      -> <<"AT+CREG=2", "AT+CREG?">>
      [] s = "ConsultingAvailableOperators" -> <<"AT+QNWINFO">>
      [] OTHER                              -> <<"AT+QLTS=1">>

(* The steps of these states have one form. *)
LEMMA InquiryForm ==
    ASSUME Typed, Inquiries
    PROVE  /\ phase = "connecting" /\ state \in Informed
           /\ \/ Send(Inquiry(state))
              \/ /\ AwaitInfo /\ sim' \in {1, 2}
                 /\ sim' # sim =>
                       state = "ConsultingSIMCardStatus" /\ Head(input) = NoSimCard
              \/ \E store, pass \in BOOLEAN :
                    /\ AwaitOKBehind(store, pass, Behind(state))
                    /\ store \/ state = "ConsultingSIMCardStatus"
                    /\ pass \/ state = "ConsultingNetworkStatus"
                    /\ Head(input) = OK /\ pass =>
                          object.value.good \/ state \notin {"CheckingSignalStrength",
                                                             "ConsultingNetworkStatus"}
              \/ poorSignal
              \/ \E max \in Nat, kept \in BOOLEAN :
                    /\ timeOut(max, 0, kept)
                    /\ kept => state # "ConsultingNetworkStatus"
<1>0. /\ MaxAttempts \in Nat /\ MaxSignalAttempts \in Nat /\ object.value.good \in BOOLEAN
      /\ sim \in {1, 2} /\ 3 - sim \in {1, 2}
  BY ConnectionAssumption DEF Typed, Findings, Objects, Values, Course
<1>1. CASE checkingSignalStrength
  <2>1. state = "CheckingSignalStrength" /\ phase = "connecting"
    BY <1>1 DEF checkingSignalStrength, Connecting
  <2>2. Inquiry(state) = <<"AT+CSQ">> /\ Behind(state) = "ConsultingIMEI" /\ state \in Informed
    BY <2>1 DEF Inquiry, Behind, Informed, Fields
  <2> QED BY <1>0, <1>1, <2>1, <2>2 DEF checkingSignalStrength
<1>2. CASE consultingIMEI
  <2>1. state = "ConsultingIMEI" /\ phase = "connecting"
    BY <1>2 DEF consultingIMEI, Connecting
  <2>2. Inquiry(state) = <<"AT+CGSN">> /\ Behind(state) = "ConsultingSIMCardStatus"
        /\ state \in Informed
    BY <2>1 DEF Inquiry, Behind, Informed, Fields
  <2> QED BY <1>0, <1>2, <2>1, <2>2 DEF consultingIMEI
<1>3. CASE consultingSIMCardStatus
  <2>1. state = "ConsultingSIMCardStatus" /\ phase = "connecting"
    BY <1>3 DEF consultingSIMCardStatus, Connecting
  <2>2. Inquiry(state) = <<"AT+CPIN?">> /\ Behind(state) = "ConsultingNetworkStatus"
        /\ state \in Informed
    BY <2>1 DEF Inquiry, Behind, Informed, Fields
  <2> QED BY <1>0, <1>3, <2>1, <2>2 DEF consultingSIMCardStatus, SwitchesOn
<1>4. CASE consultingNetworkStatus
  <2>1. state = "ConsultingNetworkStatus" /\ phase = "connecting"
    BY <1>4 DEF consultingNetworkStatus, Connecting
  <2>2. Inquiry(state) = <<"AT+CREG=2", "AT+CREG?">>
        /\ Behind(state) = "ConsultingAvailableOperators" /\ state \in Informed
    BY <2>1 DEF Inquiry, Behind, Informed, Fields
  <2> QED BY <1>0, <1>4, <2>1, <2>2 DEF consultingNetworkStatus
<1>5. CASE consultingAvailableOperators
  <2>1. state = "ConsultingAvailableOperators" /\ phase = "connecting"
    BY <1>5 DEF consultingAvailableOperators, Connecting
  <2>2. Inquiry(state) = <<"AT+QNWINFO">> /\ Behind(state) = "RetrievingTimeAndDate"
        /\ state \in Informed
    BY <2>1 DEF Inquiry, Behind, Informed, Fields
  <2> QED BY <1>0, <1>5, <2>1, <2>2 DEF consultingAvailableOperators
<1>6. CASE retrievingTimeAndDate
  <2>1. state = "RetrievingTimeAndDate" /\ phase = "connecting"
    BY <1>6 DEF retrievingTimeAndDate, Connecting
  <2>2. Inquiry(state) = <<"AT+QLTS=1">> /\ Behind(state) = "AttachingToPacketService"
        /\ state \in Informed
    BY <2>1 DEF Inquiry, Behind, Informed, Fields
  <2> QED BY <1>0, <1>6, <2>1, <2>2 DEF retrievingTimeAndDate
<1> QED BY <1>1, <1>2, <1>3, <1>4, <1>5, <1>6 DEF Inquiries

LEMMA InquiryTyped ==
    ASSUME Typed, Inquiries
    PROVE  Typed'
<1>1. Inquiry(state) \in Seq(Commands) /\ Behind(state) \in States
  <2>1. {<<"AT+CSQ">>, <<"AT+CGSN">>, <<"AT+CPIN?">>, <<"AT+CREG=2", "AT+CREG?">>,
         <<"AT+QNWINFO">>, <<"AT+QLTS=1">>} \subseteq Seq(Commands)
    BY DEF Commands
  <2>2. Inquiry(state) \in {<<"AT+CSQ">>, <<"AT+CGSN">>, <<"AT+CPIN?">>,
                            <<"AT+CREG=2", "AT+CREG?">>, <<"AT+QNWINFO">>, <<"AT+QLTS=1">>}
    BY Zenon DEF Inquiry
  <2>3. Behind(state) \in States
    BY DEF Behind, States, Fields
  <2> QED BY <2>1, <2>2, <2>3
<1>2. CASE Send(Inquiry(state))
  BY <1>1, <1>2, SendTyped
<1>3. CASE AwaitInfo /\ sim' \in {1, 2}
  BY <1>3, AwaitInfoTyped
<1>4. CASE \E store, pass \in BOOLEAN : AwaitOKBehind(store, pass, Behind(state))
  BY <1>1, <1>4, AwaitOKBehindTyped
<1>5. CASE poorSignal
  BY <1>5, PoorSignalTyped
<1>6. CASE \E max \in Nat, kept \in BOOLEAN : timeOut(max, 0, kept)
  <2>1. 0 \in Nat
    OBVIOUS
  <2> QED BY <1>6, <2>1, TimeOutTyped
<1> QED BY <1>2, <1>3, <1>4, <1>5, <1>6, InquiryForm

(* The list of neighbour cells. *)
LEMMA ListTyped ==
    ASSUME Typed, askForCells \/ readRow \/ endList \/ listTimesOut
    PROVE  Typed'
<1>0. /\ Listing /\ phase' \in Phases /\ UNCHANGED <<wakeUp, state, object, cell, sim, begun, late, network>>
  <2>1. Listing
    BY DEF askForCells, readRow, endList, listTimesOut
  <2>2. phase' \in Phases
    BY DEF Typed, Course, askForCells, readRow, endList, listTimesOut, Phases
  <2> QED BY <2>1, <2>2 DEF Listing, module, history
<1>1. Course'
  BY <1>0 DEF Typed, Course
<1>2. Findings'
  BY <1>0 DEF Typed, Findings
<1>3. Listed'
  <2> DEFINE Lines == {r \in Seq(AllLines) : Len(r) <= MaxRows}
             Shape == [vectorCleared : BOOLEAN, readyToSend : BOOLEAN, rows : Lines,
                       counterTimeOut : 0 .. MaxTimeOuts]
  <2>0. /\ scan = [vectorCleared |-> scan.vectorCleared, readyToSend |-> scan.readyToSend,
                   rows |-> scan.rows, counterTimeOut |-> scan.counterTimeOut,
                   operator |-> scan.operator]
        /\ scan.vectorCleared \in BOOLEAN /\ scan.readyToSend \in BOOLEAN
        /\ scan.rows \in Lines /\ scan.counterTimeOut \in 0 .. MaxTimeOuts
    BY DEF Typed, Listed
  <2>1. <<>> \in Lines /\ MaxTimeOuts \in Nat
    BY ConnectionAssumption
  <2> DEFINE Blank(operator) ==
          [vectorCleared |-> FALSE, readyToSend |-> TRUE, rows |-> <<>>,
           counterTimeOut |-> 0, operator |-> operator]
  <2>a. \A operator : [NoScan EXCEPT !.operator = operator] = Blank(operator)
    <3>1. ASSUME NEW operator
          PROVE  [NoScan EXCEPT !.operator = operator] = Blank(operator)
      <4> DEFINE t == TRUE
                 f == FALSE
                 base == [vectorCleared |-> f, readyToSend |-> t, rows |-> <<>>,
                          counterTimeOut |-> 0, operator |-> 0]
      <4>1. NoScan = base
        BY DEF NoScan
      <4> HIDE DEF t, f
      <4>2. [base EXCEPT !.operator = operator] =
              [vectorCleared |-> f, readyToSend |-> t, rows |-> <<>>,
               counterTimeOut |-> 0, operator |-> operator]
        OBVIOUS
      <4> QED BY <4>1, <4>2, Zenon DEF t, f
    <3> QED BY <3>1
  <2>b. ASSUME NEW operator, scan' = Blank(operator) PROVE Listed'
    <3>1. /\ scan'.vectorCleared = FALSE /\ scan'.readyToSend = TRUE /\ scan'.rows = <<>>
          /\ scan'.counterTimeOut = 0 /\ scan'.operator = operator
      BY <2>b
    <3>2. 0 \in 0 .. MaxTimeOuts
      BY <2>1
    <3> QED BY <2>1, <2>b, <3>1, <3>2 DEF Listed
  <2> HIDE DEF Blank
  <2>2. CASE askForCells
    BY <2>0, <2>2 DEF askForCells, Listed
  <2>3. CASE readRow
    <3>1. Head(input) \in AllLines
      BY <2>3, ReadIsLater DEF readRow, readATResponse, Typed
    <3>2. keepRow(Head(input)) \in Lines
      BY <2>0, <3>1, ConnectionAssumption DEF keepRow
    <3> QED BY <2>0, <2>3, <3>2 DEF readRow, Listed
  <2>4. CASE endList
    <3>1. PICK operator : scan' = [NoScan EXCEPT !.operator = operator]
      BY <2>4 DEF endList
    <3> QED BY <3>1, <2>a, <2>b
  <2>5. CASE listTimesOut
    <3>1. CASE scan.counterTimeOut + 1 > MaxTimeOuts
      <4>1. scan' = [NoScan EXCEPT !.operator = scan.operator]
        BY <2>5, <3>1 DEF listTimesOut, GiveUpList
      <4> QED BY <4>1, <2>a, <2>b
    <3>2. CASE ~(scan.counterTimeOut + 1 > MaxTimeOuts)
      <4>1. scan' = [scan EXCEPT !.readyToSend = TRUE, !.counterTimeOut = scan.counterTimeOut + 1]
        BY <2>5, <3>2 DEF listTimesOut
      <4>2. scan.counterTimeOut + 1 \in 0 .. MaxTimeOuts
        BY <2>0, <2>1, <3>2
      <4> QED BY <2>0, <4>1, <4>2 DEF Listed
    <3> QED BY <3>1, <3>2
  <2> QED BY <2>2, <2>3, <2>4, <2>5
<1>4. Link'
  <2>1. input' \in Seq(AllLines) /\ Len(input') <= MaxLines
    <3>1. CASE UNCHANGED input
      BY <3>1 DEF Typed, Link
    <3>2. CASE input # <<>> /\ input' = Tail(input)
      BY <3>2, ReadIsLater, LaterTyped DEF Typed
    <3> QED BY <3>1, <3>2 DEF askForCells, readRow, endList, listTimesOut, readATResponse
  <2>2. pending' \in Seq(Commands) /\ Len(pending') <= MaxPending
    <3>1. CASE UNCHANGED pending
      BY <3>1 DEF Typed, Link
    <3>2. CASE sendATCommand(<<"AT+QOPS">>)
      <4>1. <<"AT+QOPS">> \in Seq(Commands)
        BY DEF Commands
      <4> QED BY <3>2, <4>1, CommandsAppended DEF Typed
    <3> QED BY <3>1, <3>2 DEF askForCells, readRow, endList, listTimesOut
  <2> QED BY <1>0, <2>1, <2>2 DEF Typed, Link
<1> QED BY <1>1, <1>2, <1>3, <1>4 DEF Typed

(* What else the tracker does with the module. *)
LEMMA CourseTyped ==
    ASSUME Typed, \/ enableConnection \/ connected \/ exchangeMessages \/ pursue
                  \/ goToSleep \/ turnedOff \/ awake
    PROVE  Typed'
<1>0. UNCHANGED <<cell, sim, scan>>
  BY DEF enableConnection, connected, exchangeMessages, pursue, goToSleep, turnedOff, awake,
         module, list
<1>1. Course'
  <2>1. wakeUp' \in 1 .. MaxWakeUps /\ begun' \in 1 .. wakeUp'
    <3>1. /\ MaxWakeUps \in Nat \ {0} /\ wakeUp \in 1 .. MaxWakeUps /\ begun \in 1 .. wakeUp
      BY ConnectionAssumption DEF Typed, Course
    <3>2. wakeUp' = wakeUp \/ (wakeUp' = wakeUp + 1 /\ wakeUp < MaxWakeUps)
      BY DEF enableConnection, connected, exchangeMessages, pursue, goToSleep, turnedOff, awake
    <3>3. begun' = begun \/ (begun' = wakeUp /\ wakeUp' = wakeUp)
      BY DEF enableConnection, connected, exchangeMessages, pursue, goToSleep, turnedOff, awake,
             history
    <3> QED BY <3>1, <3>2, <3>3
  <2>2. phase' \in Phases
    BY DEF Typed, Course, enableConnection, connected, exchangeMessages, pursue, goToSleep,
           turnedOff, awake, Phases
  <2>3. state' \in States
    BY DEF Typed, Course, enableConnection, connected, exchangeMessages, pursue, goToSleep,
           turnedOff, awake, module, changeConnectionState, States
  <2>4. late' \in BOOLEAN
    BY DEF Typed, Course, enableConnection, connected, exchangeMessages, pursue, goToSleep,
           turnedOff, awake, history, Overtakes
  <2> QED BY <1>0, <2>1, <2>2, <2>3, <2>4 DEF Typed, Course
<1>2. Findings'
  <2>1. object' = New \/ UNCHANGED object
    BY DEF enableConnection, connected, exchangeMessages, pursue, goToSleep, turnedOff, awake,
           module, changeConnectionState
  <2> QED BY <1>0, <2>1, NewTyped DEF Typed, Findings
<1>3. Listed'
  BY <1>0 DEF Typed, Listed
<1>4. Link'
  <2>1. input' \in Seq(AllLines) /\ Len(input') <= MaxLines
    <3>1. CASE UNCHANGED input
      BY <3>1 DEF Typed, Link
    <3>2. CASE Drain
      BY <3>2, DrainIsLater, LaterTyped DEF Typed
    <3> QED BY <3>1, <3>2
            DEF enableConnection, connected, exchangeMessages, pursue, goToSleep, turnedOff, awake
  <2>2. pending' \in Seq(Commands) /\ Len(pending') <= MaxPending
    <3>1. pending' = <<>> \/ UNCHANGED pending
      BY DEF enableConnection, connected, exchangeMessages, pursue, goToSleep, turnedOff, awake,
             modem
    <3>2. <<>> \in Seq(Commands) /\ Len(<<>>) <= MaxPending
      BY ConnectionAssumption
    <3>3. pending \in Seq(Commands) /\ Len(pending) <= MaxPending
      BY DEF Typed, Link
    <3> QED BY <3>1, <3>2, <3>3
  <2>3. network' = Off \/ UNCHANGED network
    BY DEF enableConnection, connected, exchangeMessages, pursue, goToSleep, turnedOff, awake,
           modem
  <2>4. network' \in [attached : BOOLEAN, context : BOOLEAN]
    <3>1. Off \in [attached : BOOLEAN, context : BOOLEAN]
      BY DEF Off
    <3>2. network \in [attached : BOOLEAN, context : BOOLEAN]
      BY DEF Typed, Link
    <3> QED BY <2>3, <3>1, <3>2
  <2> QED BY <2>1, <2>2, <2>4 DEF Link
<1> QED BY <1>1, <1>2, <1>3, <1>4 DEF Typed

LEMMA TypeStep == Typed /\ [Next]_vars => Typed'
<1> SUFFICES ASSUME Typed, [Next]_vars PROVE Typed'
  OBVIOUS
<1>1. CASE UNCHANGED vars
  BY <1>1 DEF vars, module, list, modem, history, Typed, Course, Findings, Listed, Link
<1>2. CASE Inquiries
  BY <1>2, InquiryTyped
<1>3. CASE idle \/ attachingToPacketService \/ definePDPContext
  BY <1>3, PlainStatesTyped
<1>4. CASE askForCells \/ readRow \/ endList \/ listTimesOut
  BY <1>4, ListTyped
<1>5. CASE \/ enableConnection \/ connected \/ exchangeMessages \/ pursue
           \/ goToSleep \/ turnedOff \/ awake
  BY <1>5, CourseTyped
<1>6. CASE answer
  BY <1>6, AnswerTyped
<1> QED BY <1>1, <1>2, <1>3, <1>4, <1>5, <1>6, Zenon DEF Next, Inquiries

(* Every state object, command and line is one the code knows; attempts,     *)
(* rows, lines and commands stay within their bounds.                        *)
THEOREM ConnectionTypes == Spec => []TypeOK
<1>1. Spec => []Typed
  BY TypeInit, TypeStep, PTL DEF Spec
<1> QED BY <1>1, TypesFollow, PTL

-----------------------------------------------------------------------------
(* The chain of states. *)

LEMMA Apart == state # Previous(state) /\ Previous(state) # "none" /\ Previous(state) \in Informed
  BY DEF Previous, Informed, Fields

(* What InOrder and Measured say of one line and one command. *)
LEMMA OnLine ==
    ASSUME Typed, ChainInv
    PROVE  /\ \A i \in DOMAIN input : Tells(input[i]) \in {"none", state, Previous(state)}
           /\ \A i \in DOMAIN pending : Asks(pending[i]) \in {"none", state, Previous(state)}
           /\ DOMAIN input = 1 .. Len(input) /\ DOMAIN pending = 1 .. Len(pending)
           /\ Len(input) \in Nat /\ Len(pending) \in Nat
<1>1. input \in Seq(Current) /\ pending \in Seq(Sent)
  BY DEF ChainInv, InOrder
<1>2. /\ \A i \in DOMAIN input : input[i] \in Current
      /\ \A i \in DOMAIN pending : pending[i] \in Sent
  BY <1>1
<1> QED BY <1>1, <1>2 DEF Current, Sent

(* The same, said of the next state, is all that InOrder says of types. *)
LEMMA OnLineNext ==
    ASSUME Typed',
           \A i \in DOMAIN input' : Tells(input'[i]) \in {"none", state', Previous(state')},
           \A i \in DOMAIN pending' : Asks(pending'[i]) \in {"none", state', Previous(state')}
    PROVE  input' \in Seq(Current') /\ pending' \in Seq(Sent')
<1>1. input' \in Seq(AllLines) /\ pending' \in Seq(Commands)
  BY DEF Typed, Link
<1>2. /\ \A i \in DOMAIN input' : input'[i] \in Current'
      /\ \A i \in DOMAIN pending' : pending'[i] \in Sent'
  BY <1>1 DEF Current, Sent
<1> QED BY <1>1, <1>2

(* Lines are read or lost and commands answered or forgotten, and the state  *)
(* stays: the order stays.                                                   *)
LEMMA Onward ==
    ASSUME Typed, ChainInv, Typed', NEW k, Later(k),
           pending' = pending \/ pending' = <<>>,
           UNCHANGED <<state, begun>>, wakeUp' >= wakeUp,
           object'.retrieved => object.retrieved /\ object'.value = object.value,
           \A f \in Filled(state) : cell'[f] = cell[f],
           Handed'
    PROVE  ChainInv'
<1> USE OnLine, Apart
<1>1. /\ Len(input) \in Nat /\ k \in 0 .. Len(input) /\ Len(input') = Len(input) - k
      /\ DOMAIN input' = 1 .. Len(input')
      /\ \A i \in 1 .. Len(input') : input'[i] = input[i + k] /\ i + k \in DOMAIN input
  BY DEF Later
<1>2. \A i \in DOMAIN pending' : i \in DOMAIN pending /\ pending'[i] = pending[i]
  OBVIOUS
<1>3. InOrder'
  <2>1. input' \in Seq(Current') /\ pending' \in Seq(Sent')
    <3>1. \A i \in DOMAIN input' : Tells(input'[i]) \in {"none", state', Previous(state')}
      BY <1>1
    <3>2. \A i \in DOMAIN pending' : Asks(pending'[i]) \in {"none", state', Previous(state')}
      BY <1>2
    <3> QED BY <3>1, <3>2, OnLineNext
  <2>2. ~OldAsked => ~OldAsked'
    BY <1>2 DEF OldAsked
  <2>3. ~OldIn(input) => ~OldIn(input)'
    BY <1>1 DEF OldIn
  <2>4. ASSUME NEW i \in DOMAIN input', NEW j \in DOMAIN input', i < j,
               Tells(input'[i]) = state'
        PROVE  Tells(input'[j]) # Previous(state')
    <3>1. i + k < j + k /\ i + k \in DOMAIN input /\ j + k \in DOMAIN input
      BY <1>1, <2>4
    <3> QED BY <1>1, <2>4, <3>1, SMTT(30) DEF ChainInv, InOrder
  <2>5. ASSUME NEW i \in DOMAIN input', Tells(input'[i]) = state'
        PROVE  ~OldAsked'
    BY <1>1, <2>2, <2>5 DEF ChainInv, InOrder
  <2>6. ASSUME NEW i \in DOMAIN pending', NEW j \in DOMAIN pending', i < j,
               Asks(pending'[i]) = state'
        PROVE  Asks(pending'[j]) # Previous(state')
    BY <1>2, <2>6 DEF ChainInv, InOrder
  <2>7. object'.retrieved => ~OldIn(input)' /\ ~OldAsked'
    BY <2>2, <2>3 DEF ChainInv, InOrder
  <2> QED BY <2>1, <2>4, <2>5, <2>6, <2>7 DEF InOrder
<1>4. Measured'
  <2>1. \A value : Fresh(value) /\ value.at \in Nat => value.at \in begun' .. wakeUp'
    BY DEF Fresh, Typed, Course
  <2>2. ASSUME NEW i \in DOMAIN input'
        PROVE  /\ Tells(input'[i]) = state' => input'[i].value.at \in begun' .. wakeUp'
               /\ Tells(input'[i]) # "none" => Good(Tells(input'[i]), input'[i].value)
    <3>1. i + k \in DOMAIN input /\ input'[i] = input[i + k]
      BY <1>1
    <3>2. Tells(input[i + k]) = state => Fresh(input[i + k].value)
      BY <3>1 DEF ChainInv, Measured
    <3>3. Tells(input[i + k]) # "none" => Good(Tells(input[i + k]), input[i + k].value)
      BY <3>1 DEF ChainInv, Measured
    <3> QED BY <3>1, <3>2, <3>3 DEF Fresh, Typed, Course
  <2>3. object'.retrieved => object'.value.at \in begun' .. wakeUp' /\ Good(state', object'.value)
    BY DEF ChainInv, Measured, Fresh, Typed, Course
  <2>4. \A f \in Filled(state') : cell'[f].good /\ cell'[f].at \in begun' .. wakeUp'
    BY DEF ChainInv, Measured, Fresh, Typed, Course
  <2> QED BY <2>2, <2>3, <2>4 DEF Measured, Fresh
<1> QED BY <1>3, <1>4 DEF ChainInv

(* A state is entered with nothing on the line but what belongs to the state *)
(* before it or to none.                                                     *)
LEMMA Entering ==
    ASSUME Typed, ChainInv, Typed', NEW k, Later(k), UNCHANGED pending, ~object'.retrieved,
           \A i \in DOMAIN input : /\ Tells(input[i]) \in {"none", Previous(state')}
                                   /\ Tells(input[i]) # state',
           \A i \in DOMAIN pending : /\ Asks(pending[i]) \in {"none", Previous(state')}
                                     /\ Asks(pending[i]) # state',
           \A f \in Filled(state') : cell'[f].good /\ cell'[f].at \in begun' .. wakeUp',
           Handed'
    PROVE  ChainInv'
<1> USE OnLine
<1>1. /\ DOMAIN input' = 1 .. Len(input')
      /\ \A i \in 1 .. Len(input') : input'[i] = input[i + k] /\ i + k \in DOMAIN input
  BY DEF Later
<1>2. InOrder'
  <2>1. input' \in Seq(Current') /\ pending' \in Seq(Sent')
    <3>1. \A i \in DOMAIN input' : Tells(input'[i]) \in {"none", state', Previous(state')}
      BY <1>1
    <3>2. \A i \in DOMAIN pending' : Asks(pending'[i]) \in {"none", state', Previous(state')}
      OBVIOUS
    <3> QED BY <3>1, <3>2, OnLineNext
  <2>2. \A i \in DOMAIN input' : Tells(input'[i]) # state'
    BY <1>1
  <2>3. \A i \in DOMAIN pending' : Asks(pending'[i]) # state'
    OBVIOUS
  <2> QED BY <2>1, <2>2, <2>3 DEF InOrder
<1>3. Measured'
  <2>1. \A i \in DOMAIN input' : Tells(input'[i]) # state'
    BY <1>1
  <2>2. \A i \in DOMAIN input' :
           Tells(input'[i]) # "none" => Good(Tells(input'[i]), input'[i].value)
    BY <1>1 DEF ChainInv, Measured
  <2> QED BY <2>1, <2>2 DEF Measured, Fresh
<1> QED BY <1>2, <1>3 DEF ChainInv

(* A state sends commands that ask for its own information, or for none.     *)
LEMMA Sending ==
    ASSUME Typed, ChainInv, Typed', NEW commands \in Seq(Commands), sendATCommand(commands),
           \A i \in DOMAIN commands : Asks(commands[i]) \in {"none", state},
           UNCHANGED <<wakeUp, state, cell, input, begun>>,
           object'.retrieved => object.retrieved /\ object'.value = object.value,
           Handed'
    PROVE  ChainInv'
<1> USE OnLine, Apart
<1>1. /\ DOMAIN pending' = 1 .. Len(pending')
      /\ \A i \in DOMAIN pending' :
            \/ i \in DOMAIN pending /\ pending'[i] = pending[i]
            \/ i > Len(pending) /\ Asks(pending'[i]) \in {"none", state}
  <2>1. pending' \in Seq(Commands) /\ commands \in Seq(Commands)
    BY DEF Typed, Link
  <2>2. DOMAIN commands = 1 .. Len(commands) /\ Len(commands) \in Nat
    BY <2>1
  <2>3. \A i \in 1 .. Len(pending') :
           \/ i \in DOMAIN pending /\ pending'[i] = pending[i]
           \/ /\ i - Len(pending) \in DOMAIN commands
              /\ pending'[i] = commands[i - Len(pending)]
    BY CommandsAppended DEF Typed
  <2>4. ASSUME NEW i \in 1 .. Len(pending'), i - Len(pending) \in DOMAIN commands,
               pending'[i] = commands[i - Len(pending)]
        PROVE  i > Len(pending) /\ Asks(pending'[i]) \in {"none", state}
    <3>1. i \in Int /\ i - Len(pending) >= 1
      BY <2>1, <2>2, <2>4
    <3> QED BY <2>4, <3>1
  <2>5. DOMAIN pending' = 1 .. Len(pending')
    BY <2>1
  <2> QED BY <2>3, <2>4, <2>5
<1>2. ~OldAsked => ~OldAsked'
  BY <1>1 DEF OldAsked
<1>3. InOrder'
  <2>1. input' \in Seq(Current') /\ pending' \in Seq(Sent')
    <3>1. \A i \in DOMAIN pending' : Asks(pending'[i]) \in {"none", state', Previous(state')}
      BY <1>1
    <3> QED BY <3>1, OnLineNext
  <2>2. \A i, j \in DOMAIN input' :
           i < j /\ Tells(input'[i]) = state' => Tells(input'[j]) # Previous(state')
    BY DEF ChainInv, InOrder
  <2>3. (\E i \in DOMAIN input' : Tells(input'[i]) = state') => ~OldAsked'
    BY <1>2 DEF ChainInv, InOrder
  <2>4. ASSUME NEW i \in DOMAIN pending', NEW j \in DOMAIN pending', i < j,
               Asks(pending'[i]) = state'
        PROVE  Asks(pending'[j]) # Previous(state')
    <3>1. CASE j \in DOMAIN pending /\ pending'[j] = pending[j]
      <4>1. i \in DOMAIN pending /\ pending'[i] = pending[i]
        BY <1>1, <2>4, <3>1
      <4> QED BY <2>4, <3>1, <4>1 DEF ChainInv, InOrder
    <3>2. CASE Asks(pending'[j]) \in {"none", state}
      BY <3>2
    <3> QED BY <1>1, <3>1, <3>2
  <2>5. object'.retrieved => ~OldIn(input)' /\ ~OldAsked'
    BY <1>2 DEF ChainInv, InOrder, OldIn
  <2> QED BY <2>1, <2>2, <2>3, <2>4, <2>5 DEF InOrder
<1>4. Measured'
  BY DEF ChainInv, Measured, Fresh
<1> QED BY <1>3, <1>4 DEF ChainInv

(* A state finds its line of information: nothing of the one before is behind *)
(* it.                                                                        *)
LEMMA Finding ==
    ASSUME Typed, ChainInv, Typed', Later(1), input # <<>>,
           Tells(input[1]) = state, object'.value = input[1].value,
           UNCHANGED <<wakeUp, state, cell, begun, pending>>, Handed'
    PROVE  ChainInv'
<1> USE OnLine, Apart
<1>0. 1 \in DOMAIN input
  BY DEF Later
<1>1. /\ DOMAIN input' = 1 .. Len(input') /\ Len(input') = Len(input) - 1
      /\ \A i \in 1 .. Len(input') : input'[i] = input[i + 1] /\ i + 1 \in DOMAIN input
  BY DEF Later
<1>2. ~OldAsked /\ ~OldAsked'
  BY <1>0 DEF ChainInv, InOrder, OldAsked
<1>3. \A i \in DOMAIN input' : Tells(input'[i]) # Previous(state)
  <2> SUFFICES ASSUME NEW i \in DOMAIN input'
               PROVE  Tells(input'[i]) # Previous(state)
    OBVIOUS
  <2>1. i + 1 \in DOMAIN input /\ 1 < i + 1 /\ input'[i] = input[i + 1]
    BY <1>1
  <2> QED BY <1>0, <2>1 DEF ChainInv, InOrder
<1>4. InOrder'
  <2>1. input' \in Seq(Current') /\ pending' \in Seq(Sent')
    <3>1. \A i \in DOMAIN input' : Tells(input'[i]) \in {"none", state', Previous(state')}
      BY <1>1
    <3> QED BY <3>1, OnLineNext
  <2>2. \A i, j \in DOMAIN pending' :
           i < j /\ Asks(pending'[i]) = state' => Asks(pending'[j]) # Previous(state')
    BY DEF ChainInv, InOrder
  <2>3. ~OldIn(input)'
    BY <1>3 DEF OldIn
  <2> QED BY <1>2, <1>3, <2>1, <2>2, <2>3 DEF InOrder
<1>5. Measured'
  <2>1. \A i \in DOMAIN input' :
           /\ Tells(input'[i]) = state => Fresh(input'[i].value)
           /\ Tells(input'[i]) # "none" => Good(Tells(input'[i]), input'[i].value)
    BY <1>1 DEF ChainInv, Measured
  <2>2. Fresh(object'.value) /\ Good(state, object'.value)
    <3>1. state # "none"
      BY DEF Typed, Course, States, Fields
    <3> QED BY <1>0, <3>1 DEF ChainInv, Measured
  <2>3. \A f \in Filled(state) : cell[f].good /\ Fresh(cell[f])
    BY DEF ChainInv, Measured
  <2> QED BY <2>1, <2>2, <2>3 DEF Measured, Fresh
<1> QED BY <1>4, <1>5 DEF ChainInv

(* The modem answers in order: what it says comes behind the lines it said   *)
(* before, and answers the first command.                                    *)
LEMMA Answering ==
    ASSUME Typed, ChainInv, Typed', answer
    PROVE  ChainInv'
<1> USE OnLine, Apart
<1> DEFINE command == Head(pending)
<1>0. /\ pending # <<>> /\ command \in Commands
      /\ UNCHANGED <<wakeUp, phase, state, object, cell, begun>>
  BY DEF answer, module, history, Typed, Link
<1>1. PICK reply \in Accepted(command) \union {Refused(command), <<>>} : Answers(reply)
  BY DEF answer
<1>2. reply \in Seq(AnswerLines(command)) /\ reply \in Seq(AllLines)
  <2>1. reply \in Seq(AnswerLines(command))
    BY <1>0, <1>1, RepliesAnswer DEF Typed
  <2>2. \A line \in AnswerLines(command) : line \in AllLines
    BY DEF AnswerLines
  <2> QED BY <2>1, <2>2
<1>3. /\ Len(reply) \in Nat /\ DOMAIN input' = 1 .. Len(input) + Len(reply)
      /\ \A i \in 1 .. Len(input) : input'[i] = input[i]
      /\ \A i \in DOMAIN input' : i > Len(input) => input'[i] \in AnswerLines(command)
  <2>1. /\ input' \in Seq(AllLines) /\ Len(input') = Len(input) + Len(reply)
        /\ \A i \in 1 .. Len(input) : input'[i] = input[i]
        /\ \A i \in Len(input) + 1 .. Len(input') : input'[i] = reply[i - Len(input)]
    BY <1>0, <1>1, <1>2, AnswersShape
  <2>2. Len(reply) \in Nat /\ \A j \in 1 .. Len(reply) : reply[j] \in AnswerLines(command)
    BY <1>2
  <2>3. ASSUME NEW i \in DOMAIN input', i > Len(input)
        PROVE  input'[i] \in AnswerLines(command)
    <3>1. i \in Len(input) + 1 .. Len(input') /\ i - Len(input) \in 1 .. Len(reply)
      BY <2>1, <2>2, <2>3
    <3> QED BY <2>1, <2>2, <3>1
  <2> QED BY <2>1, <2>2, <2>3
<1>4. /\ 1 \in DOMAIN pending /\ command = pending[1]
      /\ DOMAIN pending' = 1 .. Len(pending) - 1
      /\ \A i \in DOMAIN pending' : pending'[i] = pending[i + 1] /\ i + 1 \in DOMAIN pending
  <2>1. /\ pending' \in Seq(Commands) /\ Len(pending') = Len(pending) - 1
        /\ \A i \in 1 .. Len(pending') : pending'[i] = pending[i + 1]
        /\ 1 \in DOMAIN pending /\ Head(pending) = pending[1]
    BY <1>0, <1>1, <1>2, AnswersShape
  <2> QED BY <2>1
<1> HIDE DEF command
<1>5. \A i \in DOMAIN input' :
         \/ i \in DOMAIN input /\ input'[i] = input[i]
         \/ /\ i > Len(input) /\ Tells(input'[i]) \in {"none", Asks(command)}
            /\ Tells(input'[i]) # "none" =>
                  input'[i].value.at = wakeUp /\ Good(Tells(input'[i]), input'[i].value)
  BY <1>3 DEF AnswerLines
<1>6. Asks(command) \in {"none", state, Previous(state)}
  BY <1>4
<1>7. ~OldAsked => ~OldAsked' /\ Asks(command) # Previous(state)
  BY <1>0, <1>4 DEF OldAsked
<1>8. Asks(command) = state => ~OldAsked'
  <2> SUFFICES ASSUME Asks(command) = state, NEW i \in DOMAIN pending'
               PROVE  Asks(pending'[i]) # Previous(state)
    BY <1>0 DEF OldAsked
  <2>1. 1 < i + 1 /\ i + 1 \in DOMAIN pending /\ pending'[i] = pending[i + 1]
    BY <1>4
  <2> QED BY <1>4, <2>1 DEF ChainInv, InOrder
<1>9. InOrder'
  <2>1. input' \in Seq(Current') /\ pending' \in Seq(Sent')
    <3>1. \A i \in DOMAIN input' : Tells(input'[i]) \in {"none", state', Previous(state')}
      BY <1>0, <1>5, <1>6
    <3>2. \A i \in DOMAIN pending' : Asks(pending'[i]) \in {"none", state', Previous(state')}
      BY <1>0, <1>4
    <3> QED BY <3>1, <3>2, OnLineNext
  <2>2. ASSUME NEW i \in DOMAIN input', NEW j \in DOMAIN input', i < j,
               Tells(input'[i]) = state, Tells(input'[j]) = Previous(state)
        PROVE  FALSE
    <3>1. CASE j \in DOMAIN input /\ input'[j] = input[j]
      <4>1. i \in DOMAIN input /\ input'[i] = input[i]
        BY <1>3, <2>2, <3>1
      <4> QED BY <2>2, <3>1, <4>1 DEF ChainInv, InOrder
    <3>2. CASE Tells(input'[j]) = Asks(command)
      <4>1. i \in DOMAIN input /\ input'[i] = input[i]
        BY <1>5, <2>2, <3>2, state # "none" DEF Typed, Course, States, Fields
      <4>2. ~OldAsked
        BY <2>2, <4>1 DEF ChainInv, InOrder
      <4> QED BY <1>7, <2>2, <3>2, <4>2
    <3> QED BY <1>5, <2>2, <3>1, <3>2
  <2>3. ASSUME NEW i \in DOMAIN input', Tells(input'[i]) = state
        PROVE  ~OldAsked'
    <3>1. CASE i \in DOMAIN input /\ input'[i] = input[i]
      BY <1>7, <2>3, <3>1 DEF ChainInv, InOrder
    <3>2. CASE Asks(command) = state
      BY <1>8, <3>2
    <3>3. state # "none"
      BY DEF Typed, Course, States, Fields
    <3> QED BY <1>5, <2>3, <3>1, <3>2, <3>3
  <2>4. ASSUME NEW i \in DOMAIN pending', NEW j \in DOMAIN pending', i < j,
               Asks(pending'[i]) = state
        PROVE  Asks(pending'[j]) # Previous(state)
    <3>1. i + 1 < j + 1 /\ i + 1 \in DOMAIN pending /\ j + 1 \in DOMAIN pending
      BY <1>4, <2>4
    <3> QED BY <1>4, <2>4, <3>1 DEF ChainInv, InOrder
  <2>5. ASSUME object.retrieved PROVE ~OldIn(input)' /\ ~OldAsked'
    <3>1. ~OldIn(input) /\ ~OldAsked
      BY <2>5 DEF ChainInv, InOrder
    <3> QED BY <1>0, <1>5, <1>7, <3>1 DEF OldIn
  <2> QED BY <1>0, <2>1, <2>2, <2>3, <2>4, <2>5 DEF InOrder
<1>10. Measured'
  <2>1. Fresh([at |-> wakeUp]) /\ wakeUp \in begun .. wakeUp
    BY DEF Fresh, Typed, Course
  <2>2. ASSUME NEW i \in DOMAIN input'
        PROVE  /\ Tells(input'[i]) = state => Fresh(input'[i].value)
               /\ Tells(input'[i]) # "none" => Good(Tells(input'[i]), input'[i].value)
    <3>1. CASE i \in DOMAIN input /\ input'[i] = input[i]
      BY <3>1 DEF ChainInv, Measured
    <3>2. CASE Tells(input'[i]) # "none" =>
                  input'[i].value.at = wakeUp /\ Good(Tells(input'[i]), input'[i].value)
      <4>1. state # "none"
        BY DEF Typed, Course, States, Fields
      <4> QED BY <2>1, <3>2, <4>1 DEF Fresh
    <3> QED BY <1>5, <3>1, <3>2
  <2>3. /\ object.retrieved => Fresh(object.value) /\ Good(state, object.value)
        /\ \A f \in Filled(state) : cell[f].good /\ Fresh(cell[f])
    BY DEF ChainInv, Measured
  <2> QED BY <1>0, <2>2, <2>3 DEF Measured, Fresh
<1> QED BY <1>0, <1>9, <1>10 DEF ChainInv, Handed

-----------------------------------------------------------------------------
(* Every step keeps the chain in order. *)
LEMMA ChainInit == Init => ChainInv
<1> SUFFICES ASSUME Init PROVE ChainInv
  OBVIOUS
<1>1. /\ input = <<>> /\ pending = <<>> /\ object.retrieved = FALSE
      /\ state = "ConnectionUnavailableState" /\ phase = "connecting"
  BY DEF Init, New
<1>2. InOrder
  <2>1. input \in Seq(Current) /\ pending \in Seq(Sent)
    BY <1>1
  <2> QED BY <1>1, <2>1 DEF InOrder
<1>3. Filled(state) = {}
  BY <1>1 DEF Filled
<1>4. Measured
  BY <1>1, <1>3 DEF Measured
<1> QED BY <1>1, <1>2, <1>4 DEF ChainInv, Handed

(* What a state does not find leaves everything as it is. *)
LEMMA Skipping ==
    ASSUME Typed, ChainInv, Typed',
           \/ UNCHANGED input
           \/ input # <<>> /\ input' = Tail(input)
           \/ Drain,
           pending' = pending \/ pending' = <<>>,
           UNCHANGED <<state, begun>>, wakeUp' >= wakeUp,
           object'.retrieved => object.retrieved /\ object'.value = object.value,
           \A f \in Filled(state) : cell'[f] = cell[f],
           Handed'
    PROVE  ChainInv'
<1>1. \E k : Later(k)
  <2>1. CASE UNCHANGED input
    BY <2>1, SameIsLater DEF Typed
  <2>2. CASE input # <<>> /\ input' = Tail(input)
    BY <2>2, ReadIsLater DEF Typed
  <2>3. CASE Drain
    BY <2>3, DrainIsLater DEF Typed
  <2> QED BY <2>1, <2>2, <2>3
<1> QED BY <1>1, Onward

LEMMA SendChain ==
    ASSUME Typed, ChainInv, Typed', NEW commands \in Seq(Commands), Send(commands),
           \A i \in DOMAIN commands : Asks(commands[i]) \in {"none", state}
    PROVE  ChainInv'
<1>1. /\ sendATCommand(commands) /\ UNCHANGED <<wakeUp, phase, state, cell, input, begun>>
      /\ object' = [object EXCEPT !.readyToSend = FALSE]
  BY DEF Send, history
<1>2. object'.retrieved = object.retrieved /\ object'.value = object.value
  BY <1>1 DEF Typed, Findings, Objects
<1>3. Handed'
  BY <1>1 DEF ChainInv, Handed
<1> QED BY <1>1, <1>2, <1>3, Sending

LEMMA TimeOutChain ==
    ASSUME Typed, ChainInv, Typed', NEW max, NEW next, NEW kept, timeOut(max, next, kept)
    PROVE  ChainInv'
<1>1. UNCHANGED <<wakeUp, state, cell, input, pending, begun>>
  BY DEF timeOut, modem
<1>2. object'.retrieved => object.retrieved /\ object'.value = object.value
  <2>1. object \in Objects
    BY DEF Typed, Findings
  <2> DEFINE r == kept /\ object.retrieved
             o == TimedOut(kept)
  <2>2. o = [object EXCEPT !.readyToSend = TRUE, !.retrieved = r,
                           !.connectionAttempts = object.connectionAttempts + 1]
    BY DEF TimedOut
  <2>3. r => object.retrieved
    OBVIOUS
  <2>4. object' = o \/ object' = [o EXCEPT !.connectionAttempts = next]
    BY DEF timeOut
  <2> HIDE DEF r, o
  <2>5. o.retrieved = r /\ o.value = object.value
    BY <2>1, <2>2 DEF Objects
  <2>6. object'.retrieved = o.retrieved /\ object'.value = o.value
    BY <2>1, <2>2, <2>4 DEF Objects
  <2> QED BY <2>3, <2>5, <2>6
<1>3. Handed'
  BY <1>1 DEF ChainInv, Handed, timeOut
<1>4. wakeUp' >= wakeUp
  BY <1>1 DEF Typed, Course
<1> QED BY <1>1, <1>2, <1>3, <1>4, Skipping

LEMMA PoorSignalChain ==
    ASSUME Typed, ChainInv, Typed', poorSignal
    PROVE  ChainInv'
<1>1. /\ input # <<>> /\ input' = Tail(input)
      /\ UNCHANGED <<wakeUp, state, cell, pending, begun>>
  BY DEF poorSignal, readATResponse, modem, history
<1>2. object'.retrieved = object.retrieved /\ object'.value = object.value
  <2>1. \/ object' = [object EXCEPT !.poorSignals = object.poorSignals + 1,
                                    !.connectionAttempts = 0]
        \/ object' = [object EXCEPT !.poorSignals = object.poorSignals + 1]
    BY DEF poorSignal
  <2>2. object \in Objects
    BY DEF Typed, Findings
  <2>3. CASE object' = [object EXCEPT !.poorSignals = object.poorSignals + 1,
                                      !.connectionAttempts = 0]
    BY <2>2, <2>3 DEF Objects
  <2>4. CASE object' = [object EXCEPT !.poorSignals = object.poorSignals + 1]
    BY <2>2, <2>4 DEF Objects
  <2> QED BY <2>1, <2>3, <2>4
<1>3. Handed'
  BY <1>1 DEF ChainInv, Handed, poorSignal
<1>4. wakeUp' >= wakeUp
  BY <1>1 DEF Typed, Course
<1> QED BY <1>1, <1>2, <1>3, <1>4, Skipping

LEMMA AwaitInfoChain ==
    ASSUME Typed, ChainInv, Typed', state \in Informed, AwaitInfo
    PROVE  ChainInv'
<1>0. /\ input # <<>> /\ input' = Tail(input)
      /\ UNCHANGED <<wakeUp, phase, state, cell, pending, begun>>
  BY DEF AwaitInfo, readATResponse, modem, history
<1>1. Later(1) /\ Head(input) = input[1] /\ Head(input) \in AllLines
  BY <1>0, ReadIsLater DEF Typed
<1>2. Handed'
  BY <1>0 DEF ChainInv, Handed
<1>3. CASE Head(input).kind = "INFO" /\ Head(input).of = state
  <2>1. Tells(input[1]) = state
    BY <1>1, <1>3, InfoOfState DEF Tells
  <2>2. object'.value = input[1].value
    BY <1>1, <1>3 DEF AwaitInfo, Typed, Findings, Objects
  <2> QED BY <1>0, <1>1, <1>2, <2>1, <2>2, Finding
<1>4. CASE ~(Head(input).kind = "INFO" /\ Head(input).of = state)
  <2>1. UNCHANGED object
    BY <1>4 DEF AwaitInfo
  <2>2. wakeUp' >= wakeUp
    BY <1>0 DEF Typed, Course
  <2> QED BY <1>0, <1>2, <2>1, <2>2, Skipping
<1> QED BY <1>3, <1>4

(* The OK behind a line of information: what is left belongs to the state.   *)
LEMMA AwaitOKBehindChain ==
    ASSUME Typed, ChainInv, Typed', state \in Informed, phase = "connecting",
           NEW store \in BOOLEAN, NEW pass \in BOOLEAN,
           AwaitOKBehind(store, pass, Behind(state)),
           store \/ state = "ConsultingSIMCardStatus",
           Head(input) = OK /\ pass =>
               object.value.good \/ state \notin {"CheckingSignalStrength", "ConsultingNetworkStatus"}
    PROVE  ChainInv'
<1>0. /\ input # <<>> /\ input' = Tail(input) /\ object.retrieved
      /\ UNCHANGED <<wakeUp, phase, pending, begun>>
  BY DEF AwaitOKBehind, readATResponse, modem, history
<1>1. Later(1)
  BY <1>0, ReadIsLater DEF Typed
<1>2. Handed'
  BY <1>0 DEF Handed
<1>3. state \notin Filled(state)
  BY DEF Filled, Informed, Fields
<1>4. CASE Head(input) = OK /\ pass
  <2>1. state' = Behind(state) /\ object' = New
    BY <1>4 DEF AwaitOKBehind, changeConnectionState
  <2>2. Previous(state') = state /\ state' # state /\ state' # "none"
    BY <2>1 DEF Behind, Previous, Informed, Fields
  <2>3. ~OldIn(input) /\ ~OldAsked
    BY <1>0 DEF ChainInv, InOrder
  <2>4. /\ \A i \in DOMAIN input : Tells(input[i]) \in {"none", Previous(state')}
        /\ \A i \in DOMAIN pending : Asks(pending[i]) \in {"none", Previous(state')}
    BY <2>2, <2>3, OnLine DEF OldIn, OldAsked
  <2>5. Filled(state') \subseteq Filled(state) \union (IF store THEN {state} ELSE {})
    BY <2>1 DEF Behind, Filled, Informed, Fields
  <2>6. \A f \in Filled(state') : cell'[f].good /\ cell'[f].at \in begun' .. wakeUp'
    <3>1. Fresh(object.value) /\ object.value.good
      BY <1>0, <1>4 DEF ChainInv, Measured, Good
    <3>2. cell' = IF store THEN [cell EXCEPT ![state] = object.value] ELSE cell
      BY <1>4 DEF AwaitOKBehind
    <3>3. ASSUME NEW f \in Filled(state)
          PROVE  cell'[f].good /\ cell'[f].at \in begun' .. wakeUp'
      <4>1. f # state
        BY <1>3, <3>3
      <4>2. f \in Fields
        BY <3>3 DEF Filled, Fields
      <4>3. cell'[f] = cell[f]
        BY <3>2, <4>1, <4>2 DEF Typed, Findings
      <4>4. cell[f].good /\ Fresh(cell[f])
        BY <3>3 DEF ChainInv, Measured
      <4> QED BY <1>0, <4>3, <4>4 DEF Fresh
    <3>4. ASSUME store, state \in Filled(state')
          PROVE  cell'[state].good /\ cell'[state].at \in begun' .. wakeUp'
      <4>1. state \in Fields
        BY <3>4 DEF Filled, Fields
      <4>2. cell'[state] = object.value
        BY <3>2, <3>4, <4>1 DEF Typed, Findings
      <4> QED BY <1>0, <3>1, <4>2 DEF Fresh
    <3> QED BY <2>5, <3>3, <3>4
  <2>7. ~object'.retrieved
    BY <2>1 DEF New
  <2> QED BY <1>0, <1>1, <1>2, <2>2, <2>4, <2>6, <2>7, Entering
<1>5. CASE ~(Head(input) = OK /\ pass)
  <2>1. UNCHANGED <<state, object>>
    BY <1>5 DEF AwaitOKBehind
  <2>2. \A f \in Filled(state) : cell'[f] = cell[f]
    <3>1. cell' = [cell EXCEPT ![state] = object.value] \/ cell' = cell
      BY DEF AwaitOKBehind
    <3>2. Filled(state) \subseteq Fields
      BY DEF Filled, Fields
    <3> QED BY <1>3, <3>1, <3>2 DEF Typed, Findings
  <2>3. wakeUp' >= wakeUp
    BY <1>0 DEF Typed, Course
  <2> QED BY <1>0, <1>2, <2>1, <2>2, <2>3, Skipping
<1> QED BY <1>4, <1>5

(* Between two states that ask for no information, or from one of them to    *)
(* the first that does, lines left by RetrievingTimeAndDate may remain.      *)
LEMMA PassingChain ==
    ASSUME Typed, ChainInv, Typed', NEW k, Later(k), UNCHANGED pending, object' = New,
           state \notin Informed,
           state' \notin Informed \/ state' = "CheckingSignalStrength",
           \/ Filled(state') = {}
           \/ Filled(state') = Filled(state) /\ UNCHANGED <<cell, wakeUp, begun>>,
           Handed'
    PROVE  ChainInv'
<1>1. Previous(state) = "RetrievingTimeAndDate" /\ Previous(state') = "RetrievingTimeAndDate"
  BY DEF Previous, Informed, Fields
<1>2. ASSUME NEW i \in DOMAIN input
      PROVE  /\ Tells(input[i]) \in {"none", Previous(state')}
             /\ Tells(input[i]) # state'
  <2>1. Tells(input[i]) \in Informed \union {"none"}
    BY DEF Tells, InfoLines
  <2>2. state' # "none"
    BY DEF Typed, Course, States, Fields
  <2>3. Tells(input[i]) \in {"none", "RetrievingTimeAndDate"}
    BY <1>1, <2>1, OnLine
  <2>4. state' # "RetrievingTimeAndDate"
    BY DEF Informed, Fields
  <2> QED BY <1>1, <2>2, <2>3, <2>4
<1>3. ASSUME NEW i \in DOMAIN pending
      PROVE  /\ Asks(pending[i]) \in {"none", Previous(state')}
             /\ Asks(pending[i]) # state'
  <2>1. Asks(pending[i]) \in Informed \union {"none"}
    BY DEF Asks, Informed, Fields
  <2>2. state' # "none"
    BY DEF Typed, Course, States, Fields
  <2>3. Asks(pending[i]) \in {"none", "RetrievingTimeAndDate"}
    BY <1>1, <2>1, OnLine
  <2>4. state' # "RetrievingTimeAndDate"
    BY DEF Informed, Fields
  <2> QED BY <1>1, <2>2, <2>3, <2>4
<1>4. \A f \in Filled(state') : cell'[f].good /\ cell'[f].at \in begun' .. wakeUp'
  BY DEF ChainInv, Measured, Fresh
<1>5. ~object'.retrieved
  BY DEF New
<1> QED BY <1>2, <1>3, <1>4, <1>5, Entering

LEMMA AwaitOKChain ==
    ASSUME Typed, ChainInv, Typed', phase = "connecting", state \notin Informed,
           NEW next, AwaitOK(next),
           next \notin Informed \/ next = "CheckingSignalStrength",
           Filled(next) = {} \/ Filled(next) = Filled(state)
    PROVE  ChainInv'
<1>0. /\ input # <<>> /\ input' = Tail(input)
      /\ UNCHANGED <<wakeUp, phase, cell, pending, begun>>
  BY DEF AwaitOK, readATResponse, modem, history
<1>1. Later(1)
  BY <1>0, ReadIsLater DEF Typed
<1>2. Handed'
  BY <1>0 DEF Handed
<1>3. CASE Head(input) = OK
  <2>1. state' = next /\ object' = New
    BY <1>3 DEF AwaitOK, changeConnectionState
  <2> QED BY <1>0, <1>1, <1>2, <2>1, PassingChain
<1>4. CASE Head(input) # OK
  <2>1. UNCHANGED <<state, object>>
    BY <1>4 DEF AwaitOK
  <2>2. wakeUp' >= wakeUp
    BY <1>0 DEF Typed, Course
  <2> QED BY <1>0, <1>2, <2>1, <2>2, Skipping
<1> QED BY <1>3, <1>4

LEMMA PlainStatesChain ==
    ASSUME Typed, ChainInv, Typed', idle \/ attachingToPacketService \/ definePDPContext
    PROVE  ChainInv'
<1>1. ASSUME NEW c \in {"ATI", "AT+CGATT=1", "AT+CGDCONT"}
      PROVE  <<c>> \in Seq(Commands) /\ \A i \in DOMAIN <<c>> : Asks(<<c>>[i]) \in {"none", state}
  <2>1. c \in Commands /\ Asks(c) = "none"
    BY DEF Commands, Asks
  <2> QED BY <2>1
<1>2. CASE idle
  <2>1. state = "IdleState" /\ phase = "connecting"
    BY <1>2 DEF idle, Connecting
  <2>2. state \notin Informed /\ Filled("CheckingSignalStrength") = {}
    BY <2>1 DEF Informed, Fields, Filled
  <2>3. CASE Send(<<"ATI">>)
    BY <1>1, <2>3, SendChain
  <2>4. CASE AwaitOK("CheckingSignalStrength")
    BY <2>1, <2>2, <2>4, AwaitOKChain
  <2>5. CASE timeOut(MaxAttempts, object.connectionAttempts + 1, FALSE)
    BY <2>5, TimeOutChain
  <2> QED BY <1>2, <2>3, <2>4, <2>5 DEF idle
<1>3. CASE attachingToPacketService
  <2>1. state = "AttachingToPacketService" /\ phase = "connecting"
    BY <1>3 DEF attachingToPacketService, Connecting
  <2>2. /\ state \notin Informed /\ "DefinePDPContext" \notin Informed
        /\ Filled("DefinePDPContext") = Filled(state)
    BY <2>1 DEF Informed, Fields, Filled
  <2>3. CASE Send(<<"AT+CGATT=1">>)
    BY <1>1, <2>3, SendChain
  <2>4. CASE AwaitOK("DefinePDPContext")
    BY <2>1, <2>2, <2>4, AwaitOKChain
  <2>5. CASE timeOut(MaxAttempts, 0, FALSE)
    BY <2>5, TimeOutChain
  <2> QED BY <1>3, <2>3, <2>4, <2>5 DEF attachingToPacketService
<1>4. CASE definePDPContext
  <2>1. state = "DefinePDPContext" /\ phase = "connecting"
    BY <1>4 DEF definePDPContext, Connecting
  <2>2. /\ state \notin Informed /\ "ConnectedState" \notin Informed
        /\ Filled("ConnectedState") = Filled(state)
    BY <2>1 DEF Informed, Fields, Filled
  <2>3. CASE Send(<<"AT+CGDCONT">>)
    BY <1>1, <2>3, SendChain
  <2>4. CASE AwaitOK("ConnectedState")
    BY <2>1, <2>2, <2>4, AwaitOKChain
  <2>5. CASE timeOut(MaxAttempts, 0, FALSE)
    BY <2>5, TimeOutChain
  <2> QED BY <1>4, <2>3, <2>4, <2>5 DEF definePDPContext
<1> QED BY <1>2, <1>3, <1>4

LEMMA InquiryChain ==
    ASSUME Typed, ChainInv, Typed', Inquiries
    PROVE  ChainInv'
<1>1. phase = "connecting" /\ state \in Informed
  BY InquiryForm
<1>2. /\ Inquiry(state) \in Seq(Commands)
      /\ \A i \in DOMAIN Inquiry(state) : Asks(Inquiry(state)[i]) \in {"none", state}
  <2>1. CASE state = "ConsultingNetworkStatus"
    <3>1. Inquiry(state) = <<"AT+CREG=2", "AT+CREG?">>
      BY <2>1 DEF Inquiry
    <3>2. /\ "AT+CREG=2" \in Commands /\ "AT+CREG?" \in Commands
          /\ Asks("AT+CREG=2") = "none" /\ Asks("AT+CREG?") = state
      BY <2>1 DEF Commands, Asks
    <3> QED BY <3>1, <3>2
  <2>2. CASE state # "ConsultingNetworkStatus"
    <3>1. PICK c \in Commands : Inquiry(state) = <<c>> /\ Asks(c) = state
      BY <1>1, <2>2 DEF Inquiry, Commands, Asks, Informed, Fields
    <3> QED BY <3>1
  <2> QED BY <2>1, <2>2
<1>3. CASE Send(Inquiry(state))
  BY <1>2, <1>3, SendChain
<1>4. CASE AwaitInfo
  BY <1>1, <1>4, AwaitInfoChain
<1>5. CASE \E store, pass \in BOOLEAN :
              /\ AwaitOKBehind(store, pass, Behind(state))
              /\ store \/ state = "ConsultingSIMCardStatus"
              /\ pass \/ state = "ConsultingNetworkStatus"
              /\ Head(input) = OK /\ pass =>
                    object.value.good \/ state \notin {"CheckingSignalStrength",
                                                       "ConsultingNetworkStatus"}
  BY <1>1, <1>5, AwaitOKBehindChain
<1>6. CASE poorSignal
  BY <1>6, PoorSignalChain
<1>7. CASE \E max \in Nat, kept \in BOOLEAN : timeOut(max, 0, kept)
  BY <1>7, TimeOutChain
<1> QED BY <1>3, <1>4, <1>5, <1>6, <1>7, InquiryForm

LEMMA ListChain ==
    ASSUME Typed, ChainInv, Typed', askForCells \/ readRow \/ endList \/ listTimesOut
    PROVE  ChainInv'
<1>1. phase = "listing" /\ UNCHANGED <<wakeUp, state, object, cell, begun>>
  BY DEF askForCells, readRow, endList, listTimesOut, Listing, module, history
<1>2. Handed' /\ wakeUp' >= wakeUp
  BY <1>1 DEF ChainInv, Handed, Typed, Course
<1>3. CASE sendATCommand(<<"AT+QOPS">>) /\ UNCHANGED input
  <2>1. /\ <<"AT+QOPS">> \in Seq(Commands)
        /\ \A i \in DOMAIN <<"AT+QOPS">> : Asks(<<"AT+QOPS">>[i]) \in {"none", state}
    <3>1. "AT+QOPS" \in Commands /\ Asks("AT+QOPS") = "none"
      BY DEF Commands, Asks
    <3> QED BY <3>1
  <2> QED BY <1>1, <1>2, <1>3, <2>1, Sending
<1>4. CASE UNCHANGED pending /\ (UNCHANGED input \/ (input # <<>> /\ input' = Tail(input)))
  BY <1>1, <1>2, <1>4, Skipping
<1> QED BY <1>3, <1>4 DEF askForCells, readRow, endList, listTimesOut, readATResponse

LEMMA CourseChain ==
    ASSUME Typed, ChainInv, Typed',
           \/ enableConnection \/ connected \/ exchangeMessages \/ pursue
           \/ goToSleep \/ turnedOff \/ awake
    PROVE  ChainInv'
<1>1. CASE connected \/ pursue \/ goToSleep \/ turnedOff \/ awake
  <2>1. UNCHANGED <<state, object, cell, begun>>
    BY <1>1 DEF connected, pursue, goToSleep, turnedOff, awake, module, history
  <2>2. wakeUp' >= wakeUp
    <3>1. wakeUp' = wakeUp \/ wakeUp' = wakeUp + 1
      BY <1>1 DEF connected, pursue, goToSleep, turnedOff, awake
    <3>2. wakeUp \in Nat
      BY ConnectionAssumption DEF Typed, Course
    <3> QED BY <3>1, <3>2
  <2>3. Handed'
    BY <1>1, <2>1 DEF ChainInv, Handed, connected, pursue, goToSleep, turnedOff, awake, Connecting
  <2>4. UNCHANGED input \/ Drain
    BY <1>1 DEF connected, pursue, goToSleep, turnedOff, awake
  <2>5. pending' = pending \/ pending' = <<>>
    BY <1>1 DEF connected, pursue, goToSleep, turnedOff, awake, modem
  <2> QED BY <2>1, <2>2, <2>3, <2>4, <2>5, Skipping
<1>2. CASE enableConnection
  <2>1. /\ state = "ConnectionUnavailableState" /\ state' = "IdleState" /\ object' = New
        /\ UNCHANGED <<input, pending, phase>> /\ phase = "connecting"
    BY <1>2 DEF enableConnection, Connecting, changeConnectionState, modem
  <2>2. Filled(state') = {} /\ state \notin Informed /\ state' \notin Informed
    BY <2>1 DEF Filled, Informed, Fields
  <2>3. Later(0) /\ Handed'
    BY <2>1, SameIsLater DEF Typed, Handed
  <2> QED BY <2>1, <2>2, <2>3, PassingChain
<1>3. CASE exchangeMessages
  <2>1. /\ state = "ConnectedState" /\ state' = "ConnectionUnavailableState" /\ object' = New
        /\ UNCHANGED pending /\ phase' = "finished"
    BY <1>3 DEF exchangeMessages, changeConnectionState, modem, ChainInv, Handed
  <2>2. Filled(state') = {} /\ state \notin Informed /\ state' \notin Informed
    BY <2>1 DEF Filled, Informed, Fields
  <2>3. PICK k : Later(k)
    BY <1>3, DrainIsLater DEF Typed, exchangeMessages
  <2>4. Handed'
    BY <2>1 DEF Handed
  <2> QED BY <2>1, <2>2, <2>3, <2>4, PassingChain
<1> QED BY <1>1, <1>2, <1>3

LEMMA ChainStep == Typed /\ ChainInv /\ [Next]_vars => ChainInv'
<1> SUFFICES ASSUME Typed, ChainInv, [Next]_vars PROVE ChainInv'
  OBVIOUS
<1>0. Typed'
  BY TypeStep
<1>1. CASE UNCHANGED vars
  <2>1. /\ UNCHANGED <<wakeUp, phase, state, object, cell, input, pending, begun>>
        /\ wakeUp' >= wakeUp
    BY <1>1 DEF vars, module, modem, history, Typed, Course
  <2>2. Handed'
    BY <2>1 DEF ChainInv, Handed
  <2> QED BY <1>0, <2>1, <2>2, Skipping
<1>2. CASE Inquiries
  BY <1>0, <1>2, InquiryChain
<1>3. CASE idle \/ attachingToPacketService \/ definePDPContext
  BY <1>0, <1>3, PlainStatesChain
<1>4. CASE askForCells \/ readRow \/ endList \/ listTimesOut
  BY <1>0, <1>4, ListChain
<1>5. CASE \/ enableConnection \/ connected \/ exchangeMessages \/ pursue
           \/ goToSleep \/ turnedOff \/ awake
  BY <1>0, <1>5, CourseChain
<1>6. CASE answer
  BY <1>0, <1>6, Answering
<1> QED BY <1>1, <1>2, <1>3, <1>4, <1>5, <1>6, Zenon DEF Next, Inquiries

(* The inductive invariant: what is on the line belongs to the state in hand *)
(* or to the one before it, in this order, whatever the time-outs overtook,  *)
(* and what may be stored was measured since the chain began.                *)
THEOREM ChainInvariant == Spec => [](Typed /\ ChainInv)
<1>1. Init => Typed /\ ChainInv
  BY TypeInit, ChainInit
<1>2. Typed /\ ChainInv /\ [Next]_vars => (Typed /\ ChainInv)'
  BY TypeStep, ChainStep
<1> QED BY <1>1, <1>2, PTL DEF Spec

(* When the tracker is connected, every field of the cell information was    *)
(* measured in this chain, with the modem registered and enough signal:      *)
(* CellularModule hands no stale measurement to the report.                  *)
THEOREM CellGathered == Spec => []CellIsComplete
<1>1. ChainInv => CellIsComplete
  BY DEF ChainInv, Measured, Fresh, CellIsComplete, Filled
<1> QED BY <1>1, ChainInvariant, PTL

-----------------------------------------------------------------------------
(* No OK is taken for another's, as long as no time-out overtakes an answer: *)
(* a state sends only when nothing is under way, and leaves with the last    *)
(* line of the answer.                                                       *)
Quiet == ~late /\ state \notin {"ConnectionUnavailableState", "ConnectedState"}

OKLast == \A i \in DOMAIN input : input[i] = OK => i = Len(input)

NothingUnderWay ==
    object.readyToSend \/ phase # "connecting" => input = <<>> /\ pending = <<>>

OneAnswer ==
    state # "ConsultingNetworkStatus" =>
        Len(pending) <= 1 /\ (pending = <<>> \/ input = <<>>) /\ OKLast

(* ConsultingNetworkStatus sends two commands; the line it looks for answers *)
(* the second.                                                               *)
TwoAnswers ==
    state = "ConsultingNetworkStatus" =>
        /\ object.readyToSend => ~object.retrieved
        /\ object.retrieved => pending = <<>> /\ OKLast
        /\ \A i \in DOMAIN pending : Asks(pending[i]) = state => i = Len(pending)
        /\ \A i \in DOMAIN input : Tells(input[i]) = state =>
              /\ pending = <<>>
              /\ \A j \in DOMAIN input : i < j /\ input[j] = OK => j = Len(input)

(* While the modem stays on, an OK confirms what the state asked for. *)
Here == begun = wakeUp /\ phase = "connecting"

Confirms ==
    Here =>
        /\ state = "AttachingToPacketService" =>
              /\ \A i \in DOMAIN pending : pending[i] = "AT+CGATT=1"
              /\ \A i \in DOMAIN input : input[i] = OK => network.attached
        /\ state = "DefinePDPContext" =>
              /\ \A i \in DOMAIN pending : pending[i] = "AT+CGDCONT"
              /\ \A i \in DOMAIN input : input[i] = OK => network.context

(* A missing card is said once, of the slot that is selected. *)
CardRead ==
    state = "ConsultingSIMCardStatus" =>
        \A i \in DOMAIN input : input[i] = NoSimCard => sim \notin Cards /\ i = Len(input)

(* What has been confirmed in this chain. *)
Confirmed ==
    ~late /\ begun = wakeUp /\ phase \in {"connecting", "listing", "exchanging"} =>
        /\ state \in {"DefinePDPContext", "ConnectedState"} => network.attached
        /\ state = "ConnectedState" => network.context

StillOn == state = "ConnectedState" => phase \in {"connecting", "listing", "exchanging"}

Answered == NothingUnderWay /\ OneAnswer /\ TwoAnswers /\ Confirms /\ CardRead

AttachInv == (Quiet => Answered) /\ Confirmed /\ StillOn

-----------------------------------------------------------------------------
(* Nothing is under way: a state begins, or a time-out found nothing.        *)
LEMMA Silence ==
    ASSUME input' = <<>>, pending' = <<>>,
           state' = "ConsultingNetworkStatus" => ~object'.retrieved
    PROVE  Answered'
<1>1. /\ DOMAIN input' = {} /\ DOMAIN pending' = {} /\ Len(pending') = 0
  OBVIOUS
<1>2. NothingUnderWay'
  BY DEF NothingUnderWay
<1>3. OKLast'
  BY <1>1 DEF OKLast
<1>4. OneAnswer'
  BY <1>1, <1>3 DEF OneAnswer
<1>5. TwoAnswers'
  BY <1>1, <1>3 DEF TwoAnswers
<1>6. Confirms' /\ CardRead'
  BY <1>1 DEF Confirms, CardRead
<1> QED BY <1>2, <1>4, <1>5, <1>6 DEF Answered

LEMMA LaterOKLast ==
    ASSUME Typed, NEW k, Later(k), OKLast
    PROVE  OKLast'
<1> SUFFICES ASSUME NEW i \in DOMAIN input', input'[i] = OK
             PROVE  i = Len(input')
  BY DEF OKLast
<1>1. input \in Seq(AllLines) /\ input' \in Seq(AllLines)
  BY DEF Typed, Link, Later
<1>2. /\ i \in 1 .. Len(input') /\ k \in Nat /\ Len(input') = Len(input) - k
      /\ input'[i] = input[i + k] /\ Len(input) \in Nat
  BY <1>1 DEF Later
<1>3. i + k \in DOMAIN input
  BY <1>1, <1>2
<1>4. i + k = Len(input)
  BY <1>2, <1>3 DEF OKLast
<1> QED BY <1>2, <1>4

LEMMA LaterLines ==
    ASSUME Typed, NEW k, Later(k)
    PROVE  /\ input \in Seq(AllLines) /\ input' \in Seq(AllLines) /\ Len(input) \in Nat
           /\ DOMAIN input' = 1 .. Len(input') /\ k \in 0 .. Len(input)
           /\ Len(input') = Len(input) - k
           /\ \A i \in DOMAIN input' : input'[i] = input[i + k] /\ i + k \in DOMAIN input
<1>1. /\ input \in Seq(AllLines) /\ input' \in Seq(AllLines) /\ Len(input) \in Nat
      /\ k \in 0 .. Len(input) /\ Len(input') = Len(input) - k
      /\ \A i \in 1 .. Len(input') : input'[i] = input[i + k]
  BY DEF Later, Typed, Link
<1>2. DOMAIN input' = 1 .. Len(input') /\ DOMAIN input = 1 .. Len(input)
  BY <1>1
<1>3. \A i \in 1 .. Len(input') : i + k \in 1 .. Len(input)
  BY <1>1
<1> QED BY <1>1, <1>2, <1>3

(* Lines are read that change nothing. *)
LEMMA Unmoved ==
    ASSUME Typed, Answered, NEW k, Later(k), UNCHANGED <<state, pending, sim>>,
           Here' => Here /\ UNCHANGED network,
           object'.readyToSend => object.readyToSend,
           object'.retrieved => object.retrieved,
           phase' # "connecting" => phase # "connecting" \/ (input' = <<>> /\ pending = <<>>)
    PROVE  Answered'
<1>1. /\ input \in Seq(AllLines) /\ input' \in Seq(AllLines) /\ Len(input) \in Nat
      /\ DOMAIN input' = 1 .. Len(input') /\ k \in 0 .. Len(input)
      /\ Len(input') = Len(input) - k
      /\ \A i \in DOMAIN input' : input'[i] = input[i + k] /\ i + k \in DOMAIN input
  BY LaterLines
<1>2. input = <<>> => input' = <<>>
  BY <1>1
<1>3. OKLast => OKLast'
  BY LaterOKLast
<1>4. NothingUnderWay'
  BY <1>2 DEF Answered, NothingUnderWay
<1>5. OneAnswer'
  BY <1>2, <1>3 DEF Answered, OneAnswer
<1>6. TwoAnswers'
  <2> SUFFICES ASSUME state = "ConsultingNetworkStatus"
               PROVE  TwoAnswers'
    BY DEF TwoAnswers
  <2>1. /\ object'.readyToSend => ~object'.retrieved
        /\ object'.retrieved => pending' = <<>> /\ OKLast'
        /\ \A i \in DOMAIN pending' : Asks(pending'[i]) = state' => i = Len(pending')
    BY <1>3 DEF Answered, TwoAnswers
  <2>2. ASSUME NEW i \in DOMAIN input', Tells(input'[i]) = state
        PROVE  /\ pending = <<>>
               /\ \A j \in DOMAIN input' : i < j /\ input'[j] = OK => j = Len(input')
    <3>1. i + k \in DOMAIN input /\ Tells(input[i + k]) = state
      BY <1>1, <2>2
    <3>2. pending = <<>>
      BY <3>1 DEF Answered, TwoAnswers
    <3>3. ASSUME NEW j \in DOMAIN input', i < j, input'[j] = OK
          PROVE  j = Len(input')
      <4>1. j + k \in DOMAIN input /\ input[j + k] = OK /\ i + k < j + k
        BY <1>1, <3>3
      <4>2. j + k = Len(input)
        BY <3>1, <4>1 DEF Answered, TwoAnswers
      <4>3. Len(input') = Len(input) - k /\ Len(input) \in Nat /\ k \in 0 .. Len(input)
            /\ j \in 1 .. Len(input')
        BY <1>1
      <4> QED BY <4>2, <4>3
    <3> QED BY <3>2, <3>3
  <2> QED BY <2>1, <2>2 DEF TwoAnswers
<1>7. Confirms'
  BY <1>1 DEF Answered, Confirms
<1>8. CardRead'
  <2> SUFFICES ASSUME state = "ConsultingSIMCardStatus",
                      NEW i \in DOMAIN input', input'[i] = NoSimCard
               PROVE  sim \notin Cards /\ i = Len(input')
    BY DEF CardRead
  <2>1. sim \notin Cards /\ i + k = Len(input)
    BY <1>1 DEF Answered, CardRead
  <2> QED BY <1>1, <2>1, SMTT(30)
<1> QED BY <1>4, <1>5, <1>6, <1>7, <1>8 DEF Answered

(* What was confirmed stays so, as long as the state and the modem stay.     *)
LEMMA StaysConfirmed ==
    ASSUME AttachInv, UNCHANGED <<state, begun, wakeUp>>, late => late',
           network.attached => network'.attached, network.context => network'.context,
           phase' \in {"connecting", "listing", "exchanging"}
              => phase \in {"connecting", "listing", "exchanging"},
           state = "ConnectedState" => phase' \in {"connecting", "listing", "exchanging"}
    PROVE  Confirmed' /\ StillOn'
<1>1. StillOn'
  BY DEF StillOn
<1>2. Confirmed'
  BY DEF AttachInv, Confirmed
<1> QED BY <1>1, <1>2

LEMMA SendAttach ==
    ASSUME Typed, AttachInv, NEW commands \in Seq(Commands), Send(commands),
           phase = "connecting",
           state # "ConsultingNetworkStatus" => Len(commands) = 1,
           state = "ConsultingNetworkStatus" => commands = <<"AT+CREG=2", "AT+CREG?">>,
           state = "AttachingToPacketService" => commands = <<"AT+CGATT=1">>,
           state = "DefinePDPContext" => commands = <<"AT+CGDCONT">>
    PROVE  AttachInv'
<1>0. /\ sendATCommand(commands) /\ object.readyToSend
      /\ UNCHANGED <<wakeUp, phase, state, input, network, begun, late>>
      /\ object' = [object EXCEPT !.readyToSend = FALSE]
  BY DEF Send, history
<1>1. object'.readyToSend = FALSE /\ object'.retrieved = object.retrieved
  BY <1>0 DEF Typed, Findings, Objects
<1>2. Confirmed' /\ StillOn'
  BY <1>0, StaysConfirmed DEF AttachInv, StillOn
<1>3. ASSUME Quiet' PROVE Answered'
  <2>1. Answered
    BY <1>0, <1>3 DEF AttachInv, Quiet
  <2>2. input = <<>> /\ pending = <<>> /\ input' = <<>>
    BY <1>0, <2>1 DEF Answered, NothingUnderWay
  <2>3. /\ pending' \in Seq(Commands) /\ DOMAIN pending' = 1 .. Len(pending')
        /\ Len(pending') \in Nat /\ Len(pending') <= Len(commands)
        /\ \A i \in DOMAIN pending' : i \in DOMAIN commands /\ pending'[i] = commands[i]
    <3>1. Len(pending) = 0 /\ DOMAIN pending = {} /\ Len(commands) \in Nat
      BY <2>2
    <3>2. /\ pending' \in Seq(Commands) /\ Len(pending') <= Len(pending) + Len(commands)
          /\ \A i \in 1 .. Len(pending') :
                \/ i \in DOMAIN pending /\ pending'[i] = pending[i]
                \/ /\ i - Len(pending) \in DOMAIN commands
                   /\ pending'[i] = commands[i - Len(pending)]
      BY <1>0, CommandsAppended DEF Typed
    <3>3. DOMAIN pending' = 1 .. Len(pending') /\ Len(pending') \in Nat
      BY <3>2
    <3>4. \A i \in 1 .. Len(pending') : i - Len(pending) = i
      BY <3>1, <3>3
    <3> QED BY <3>1, <3>2, <3>3, <3>4
  <2>4. DOMAIN input' = {}
    BY <2>2
  <2>5. NothingUnderWay' /\ OKLast'
    BY <1>0, <1>1, <2>4 DEF NothingUnderWay, OKLast
  <2>6. OneAnswer'
    BY <1>0, <2>2, <2>3, <2>5 DEF OneAnswer
  <2>7. TwoAnswers'
    <3> SUFFICES ASSUME state' = "ConsultingNetworkStatus" PROVE TwoAnswers'
      BY DEF TwoAnswers
    <3>1. ~object'.retrieved
      BY <1>0, <1>1, <2>1 DEF Answered, TwoAnswers
    <3>2. ASSUME NEW i \in DOMAIN pending', Asks(pending'[i]) = state'
          PROVE  i = Len(pending')
      <4>1. commands = <<"AT+CREG=2", "AT+CREG?">> /\ Asks("AT+CREG=2") = "none"
        BY <1>0 DEF Asks
      <4>2. i # 1
        BY <2>3, <3>2, <4>1
      <4>3. i \in 1 .. 2 /\ Len(pending') <= 2
        BY <2>3, <4>1
      <4> QED BY <2>3, <4>2, <4>3
    <3> QED BY <2>4, <3>1, <3>2 DEF TwoAnswers
  <2>8. Confirms'
    <3>1. ASSUME state' = "AttachingToPacketService", NEW i \in DOMAIN pending'
          PROVE  pending'[i] = "AT+CGATT=1"
      BY <1>0, <2>3, <3>1
    <3>2. ASSUME state' = "DefinePDPContext", NEW i \in DOMAIN pending'
          PROVE  pending'[i] = "AT+CGDCONT"
      BY <1>0, <2>3, <3>2
    <3> QED BY <2>4, <3>1, <3>2 DEF Confirms
  <2>9. CardRead'
    BY <2>4 DEF CardRead
  <2> QED BY <2>5, <2>6, <2>7, <2>8, <2>9 DEF Answered
<1> QED BY <1>2, <1>3 DEF AttachInv

LEMMA TimeOutAttach ==
    ASSUME Typed, AttachInv, NEW max, NEW next, NEW kept, timeOut(max, next, kept),
           phase = "connecting", state # "ConnectedState",
           kept => state # "ConsultingNetworkStatus"
    PROVE  AttachInv'
<1>0. /\ UNCHANGED <<wakeUp, state, input, pending, network, begun>>
      /\ late' = (late \/ Overtakes)
  BY DEF timeOut, modem
<1>1. Confirmed' /\ StillOn'
  BY <1>0, StaysConfirmed
<1>2. ASSUME Quiet' PROVE Answered'
  <2>1. input' = <<>> /\ pending' = <<>>
    BY <1>0, <1>2 DEF Quiet, Overtakes
  <2>2. state' = "ConsultingNetworkStatus" => ~object'.retrieved
    <3> SUFFICES ASSUME state = "ConsultingNetworkStatus" PROVE ~object'.retrieved
      BY <1>0
    <3>1. object \in Objects
      BY DEF Typed, Findings
    <3> DEFINE r == kept /\ object.retrieved
               o == TimedOut(kept)
    <3>2. o = [object EXCEPT !.readyToSend = TRUE, !.retrieved = r,
                             !.connectionAttempts = object.connectionAttempts + 1]
      BY DEF TimedOut
    <3>3. ~r
      OBVIOUS
    <3>4. object' = o \/ object' = [o EXCEPT !.connectionAttempts = next]
      BY DEF timeOut
    <3> HIDE DEF r, o
    <3>5. o.retrieved = r
      BY <3>1, <3>2 DEF Objects
    <3>6. object'.retrieved = o.retrieved
      BY <3>1, <3>2, <3>4 DEF Objects
    <3> QED BY <3>3, <3>5, <3>6
  <2> QED BY <2>1, <2>2, Silence
<1> QED BY <1>1, <1>2 DEF AttachInv

(* Lines that are read in a state and do not end it. *)
LEMMA ReadAttach ==
    ASSUME Typed, AttachInv, input # <<>>, input' = Tail(input),
           phase = "connecting", state # "ConnectedState",
           UNCHANGED <<wakeUp, state, pending, sim, network, begun, late>>,
           object'.readyToSend => object.readyToSend,
           object'.retrieved => object.retrieved,
           Quiet /\ phase' # "connecting" => input' = <<>> /\ pending = <<>>
    PROVE  AttachInv'
<1>1. Confirmed' /\ StillOn'
  BY StaysConfirmed
<1>2. ASSUME Quiet' PROVE Answered'
  <2>1. Answered
    BY <1>2 DEF AttachInv, Quiet
  <2>2. Later(1)
    BY ReadIsLater DEF Typed
  <2>3. Here' => Here
    BY DEF Here
  <2> QED BY <1>2, <2>1, <2>2, <2>3, Unmoved DEF Quiet
<1> QED BY <1>1, <1>2 DEF AttachInv

(* The OK that ends a state is the last line, and no command is waiting.     *)
LEMMA LastLineRead ==
    ASSUME Typed, input # <<>>, input' = Tail(input), Head(input) = OK, OKLast
    PROVE  input' = <<>> /\ 1 \in DOMAIN input /\ input[1] = OK
<1>1. input \in Seq(AllLines) /\ Head(input) = input[1] /\ 1 \in DOMAIN input
  BY ReadIsLater DEF Typed, Link
<1>2. Len(input) = 1
  BY <1>1 DEF OKLast
<1>3. input' \in Seq(AllLines) /\ Len(input') = 0
  BY <1>1, <1>2
<1> QED BY <1>1, <1>3, EmptySeq

LEMMA AwaitOKAttach ==
    ASSUME Typed, AttachInv, NEW next, AwaitOK(next), phase = "connecting",
           \/ state = "IdleState" /\ next = "CheckingSignalStrength"
           \/ state = "AttachingToPacketService" /\ next = "DefinePDPContext"
           \/ state = "DefinePDPContext" /\ next = "ConnectedState"
    PROVE  AttachInv'
<1>0. /\ input # <<>> /\ input' = Tail(input)
      /\ UNCHANGED <<wakeUp, phase, pending, sim, network, begun, late>>
  BY DEF AwaitOK, readATResponse, modem, history
<1>1. CASE Head(input) # OK
  <2>1. UNCHANGED <<state, object>>
    BY <1>1 DEF AwaitOK
  <2> QED BY <1>0, <2>1, ReadAttach
<1>2. CASE Head(input) = OK
  <2>1. state' = next /\ object' = New
    BY <1>2 DEF AwaitOK, changeConnectionState
  <2>2. StillOn'
    BY <1>0 DEF StillOn
  <2>3. ASSUME ~late, begun = wakeUp
        PROVE  /\ Quiet /\ Answered /\ input' = <<>> /\ pending = <<>>
               /\ \E i \in DOMAIN input : input[i] = OK
    <3>1. Quiet /\ Answered
      BY <2>3 DEF AttachInv, Quiet
    <3>2. OKLast /\ pending = <<>>
      BY <1>0, <3>1 DEF Answered, OneAnswer
    <3> QED BY <1>0, <1>2, <3>1, <3>2, LastLineRead
  <2>4. Confirmed'
    <3> SUFFICES ASSUME ~late, begun = wakeUp
                 PROVE  /\ state' \in {"DefinePDPContext", "ConnectedState"} => network.attached
                        /\ state' = "ConnectedState" => network.context
      BY <1>0 DEF Confirmed
    <3>1. CASE state = "IdleState"
      BY <2>1, <3>1
    <3>2. CASE state = "AttachingToPacketService"
      BY <2>1, <2>3, <3>2 DEF Answered, Confirms, Here
    <3>3. CASE state = "DefinePDPContext"
      <4>1. network.attached
        BY <3>3 DEF AttachInv, Confirmed
      <4> QED BY <2>3, <3>3, <4>1 DEF Answered, Confirms, Here
    <3> QED BY <3>1, <3>2, <3>3
  <2>5. ASSUME Quiet' PROVE Answered'
    <3>1. Answered
      BY <1>0, <2>5 DEF AttachInv, Quiet
    <3>2. OKLast /\ pending = <<>>
      BY <1>0, <3>1 DEF Answered, OneAnswer
    <3>3. input' = <<>> /\ ~object'.retrieved
      BY <1>0, <1>2, <2>1, <3>2, LastLineRead DEF New
    <3> QED BY <1>0, <3>2, <3>3, Silence
  <2> QED BY <2>2, <2>4, <2>5 DEF AttachInv
<1> QED BY <1>1, <1>2

LEMMA AwaitInfoAttach ==
    ASSUME Typed, AttachInv, AwaitInfo, phase = "connecting", state \in Informed,
           sim' # sim => state = "ConsultingSIMCardStatus" /\ Head(input) = NoSimCard
    PROVE  AttachInv'
<1>0. /\ input # <<>> /\ input' = Tail(input)
      /\ UNCHANGED <<wakeUp, phase, state, pending, network, begun, late>>
      /\ state # "ConnectedState"
  BY DEF AwaitInfo, readATResponse, modem, history, Informed, Fields
<1>1. Later(1) /\ Head(input) = input[1] /\ Head(input) \in AllLines /\ 1 \in DOMAIN input
  BY <1>0, ReadIsLater DEF Typed
<1>2. CASE ~(Head(input).kind = "INFO" /\ Head(input).of = state)
  <2>1. UNCHANGED object
    BY <1>2 DEF AwaitInfo
  <2>2. CASE UNCHANGED sim
    BY <1>0, <2>1, <2>2, ReadAttach
  <2>3. CASE sim' # sim
    <3>1. Confirmed' /\ StillOn'
      BY <1>0, StaysConfirmed
    <3>2. ASSUME Quiet' PROVE Answered'
      <4>1. Answered
        BY <1>0, <3>2 DEF AttachInv, Quiet
      <4>2. Len(input) = 1 /\ pending = <<>>
        BY <1>0, <1>1, <2>3, <4>1 DEF Answered, CardRead, OneAnswer
      <4>3. input' = <<>>
        <5>1. input' \in Seq(AllLines) /\ Len(input') = 0
          BY <1>1, <4>2 DEF Later
        <5> QED BY <5>1, EmptySeq
      <4> QED BY <1>0, <2>3, <4>2, <4>3, Silence
    <3> QED BY <3>1, <3>2 DEF AttachInv
  <2> QED BY <2>2, <2>3
<1>3. CASE Head(input).kind = "INFO" /\ Head(input).of = state
  <2>1. Tells(input[1]) = state /\ UNCHANGED sim
    BY <1>1, <1>3, InfoOfState DEF Tells, NoSimCard
  <2>2. object'.readyToSend = object.readyToSend
    BY <1>3 DEF AwaitInfo, Typed, Findings, Objects
  <2>3. Confirmed' /\ StillOn'
    BY <1>0, StaysConfirmed
  <2>4. ASSUME Quiet' PROVE Answered'
    <3>1. Answered /\ ~object.readyToSend
      <4>1. Answered
        BY <1>0, <2>4 DEF AttachInv, Quiet
      <4> QED BY <1>0, <4>1 DEF Answered, NothingUnderWay
    <3>2. CASE state # "ConsultingNetworkStatus"
      <4>1. NothingUnderWay' /\ TwoAnswers'
        BY <1>0, <2>2, <3>1, <3>2 DEF NothingUnderWay, TwoAnswers
      <4>2. OneAnswer'
        BY <1>0, <1>1, <3>1, <3>2, LaterOKLast DEF Answered, OneAnswer
      <4>3. Confirms'
        BY <1>0 DEF Confirms, Informed, Fields
      <4>4. CardRead'
        <5> SUFFICES ASSUME state = "ConsultingSIMCardStatus",
                            NEW i \in DOMAIN input', input'[i] = NoSimCard
                     PROVE  sim \notin Cards /\ i = Len(input')
          BY <1>0, <2>1 DEF CardRead
        <5>1. /\ i \in Nat /\ i + 1 \in DOMAIN input /\ input[i + 1] = NoSimCard
              /\ Len(input') = Len(input) - 1 /\ Len(input) \in Nat
          BY <1>1 DEF Later, Typed, Link
        <5> QED BY <3>1, <5>1 DEF Answered, CardRead
      <4> QED BY <4>1, <4>2, <4>3, <4>4 DEF Answered
    <3>3. CASE state = "ConsultingNetworkStatus"
      <4>1. pending = <<>> /\ \A j \in DOMAIN input : 1 < j /\ input[j] = OK => j = Len(input)
        BY <1>1, <2>1, <3>1, <3>3 DEF Answered, TwoAnswers
      <4>2. OKLast'
        <5> SUFFICES ASSUME NEW j \in DOMAIN input', input'[j] = OK PROVE j = Len(input')
          BY DEF OKLast
        <5>1. /\ input' \in Seq(AllLines) /\ input \in Seq(AllLines)
              /\ Len(input') = Len(input) - 1 /\ j \in 1 .. Len(input')
              /\ input'[j] = input[j + 1]
          BY <1>1 DEF Later, Typed, Link
        <5>2. j + 1 \in DOMAIN input /\ 1 < j + 1
          BY <5>1
        <5>3. j + 1 = Len(input)
          BY <4>1, <5>1, <5>2
        <5> QED BY <5>1, <5>3
      <4>3. NothingUnderWay' /\ OneAnswer' /\ Confirms' /\ CardRead'
        BY <1>0, <2>2, <3>1, <3>3 DEF NothingUnderWay, OneAnswer, Confirms, CardRead
      <4>4. TwoAnswers'
        <5>1. DOMAIN pending' = {}
          BY <1>0, <4>1
        <5>2. \A i, j \in DOMAIN input' : i < j /\ input'[j] = OK => j = Len(input')
          BY <4>2 DEF OKLast
        <5> QED BY <1>0, <2>2, <3>1, <4>1, <4>2, <5>1, <5>2 DEF TwoAnswers
      <4> QED BY <4>3, <4>4 DEF Answered
    <3> QED BY <3>2, <3>3
  <2> QED BY <2>3, <2>4 DEF AttachInv
<1> QED BY <1>2, <1>3

LEMMA AwaitOKBehindAttach ==
    ASSUME Typed, AttachInv, phase = "connecting", state \in Informed,
           NEW store \in BOOLEAN, NEW pass \in BOOLEAN,
           AwaitOKBehind(store, pass, Behind(state))
    PROVE  AttachInv'
<1>0. /\ input # <<>> /\ input' = Tail(input) /\ object.retrieved
      /\ UNCHANGED <<wakeUp, phase, pending, sim, network, begun, late>>
      /\ state # "ConnectedState"
  BY DEF AwaitOKBehind, readATResponse, modem, history, Informed, Fields
<1>1. CASE ~(Head(input) = OK /\ pass)
  <2>1. UNCHANGED <<state, object>>
    BY <1>1 DEF AwaitOKBehind
  <2> QED BY <1>0, <2>1, ReadAttach
<1>2. CASE Head(input) = OK /\ pass
  <2>1. state' = Behind(state) /\ object' = New
    BY <1>2 DEF AwaitOKBehind, changeConnectionState
  <2>2. state' \notin {"DefinePDPContext", "ConnectedState"}
    BY <2>1 DEF Behind
  <2>3. Confirmed' /\ StillOn'
    BY <2>2 DEF Confirmed, StillOn
  <2>4. ASSUME Quiet' PROVE Answered'
    <3>1. Answered
      BY <1>0, <2>4 DEF AttachInv, Quiet, Informed, Fields
    <3>2. OKLast /\ pending = <<>>
      BY <1>0, <3>1 DEF Answered, OneAnswer, TwoAnswers
    <3>3. input' = <<>>
      BY <1>0, <1>2, <3>2, LastLineRead
    <3>4. ~object'.retrieved
      BY <2>1 DEF New
    <3> QED BY <1>0, <3>2, <3>3, <3>4, Silence
  <2> QED BY <2>3, <2>4 DEF AttachInv
<1> QED BY <1>1, <1>2

LEMMA PoorSignalAttach ==
    ASSUME Typed, AttachInv, poorSignal, phase = "connecting", state \in Informed
    PROVE  AttachInv'
<1>0. /\ input # <<>> /\ input' = Tail(input) /\ state # "ConnectedState"
      /\ UNCHANGED <<wakeUp, state, pending, sim, network, begun, late>>
      /\ Head(input) = OK /\ object.retrieved
  BY DEF poorSignal, readATResponse, modem, history, Informed, Fields
<1>1. object'.retrieved = object.retrieved /\ object'.readyToSend = object.readyToSend
  <2>1. \/ object' = [object EXCEPT !.poorSignals = object.poorSignals + 1,
                                    !.connectionAttempts = 0]
        \/ object' = [object EXCEPT !.poorSignals = object.poorSignals + 1]
    BY DEF poorSignal
  <2>2. object \in Objects
    BY DEF Typed, Findings
  <2>3. CASE object' = [object EXCEPT !.poorSignals = object.poorSignals + 1,
                                      !.connectionAttempts = 0]
    BY <2>2, <2>3 DEF Objects
  <2>4. CASE object' = [object EXCEPT !.poorSignals = object.poorSignals + 1]
    BY <2>2, <2>4 DEF Objects
  <2> QED BY <2>1, <2>3, <2>4
<1>2. ASSUME Quiet PROVE input' = <<>> /\ pending = <<>>
  <2>1. OKLast /\ pending = <<>>
    BY <1>0, <1>2 DEF AttachInv, Answered, OneAnswer, TwoAnswers
  <2> QED BY <1>0, <2>1, LastLineRead
<1> QED BY <1>0, <1>1, <1>2, ReadAttach

(* A list is made of rows and an OK. *)
LEMMA ListReplied ==
    ASSUME Typed, NEW l \in Lists
    PROVE  /\ [j \in DOMAIN l |-> Row(l[j])] \in Seq(Rows)
           /\ [j \in DOMAIN l |-> Row(l[j])] \o <<OK>> \in Seq(Rows \union {OK})
<1>1. l \in Seq({"OPERATOR", "CELL"} \X Nat) /\ wakeUp \in Nat
  BY ConnectionAssumption DEF Typed, Course
<1>2. \A j \in DOMAIN l : l[j] \in {"OPERATOR", "CELL"} \X Nat
  BY <1>1
<1>3. \A j \in DOMAIN l : Row(l[j]) \in Rows
  BY <1>1, <1>2 DEF Row, Rows
<1>4. DOMAIN l = 1 .. Len(l) /\ Len(l) \in Nat
  BY <1>1
<1> DEFINE rows == [j \in DOMAIN l |-> Row(l[j])]
<1>5. rows \in Seq(Rows)
  BY <1>3, <1>4
<1> HIDE DEF rows
<1>6. rows \in Seq(Rows \union {OK}) /\ <<OK>> \in Seq(Rows \union {OK})
  BY <1>5
<1>7. rows \o <<OK>> \in Seq(Rows \union {OK})
  BY <1>6
<1> QED BY <1>5, <1>7 DEF rows

(* The modem's answer ends with its OK. *)
LEMMA OKEndsReply ==
    ASSUME Typed, NEW command \in Commands,
           NEW reply \in Accepted(command) \union {Refused(command), <<>>},
           NEW i \in DOMAIN reply, reply[i] = OK
    PROVE  i = Len(reply) /\ reply \notin {Refused(command), <<>>}
<1>1. reply \notin {Refused(command), <<>>}
  <2>1. Error # OK /\ NoSimCard # OK
    BY DEF Error, NoSimCard, OK
  <2>2. reply \in {Refused(command), <<>>} => reply = <<>> \/ reply = <<Error>> \/ reply = <<NoSimCard>>
    BY DEF Refused
  <2>3. reply # <<>> /\ reply # <<Error>> /\ reply # <<NoSimCard>>
    BY <2>1
  <2> QED BY <2>2, <2>3
<1>2. i = Len(reply)
  <2>1. CASE \E info \in InfoOf(command) : reply = <<info, OK>>
    <3>1. PICK info \in InfoOf(command) : reply = <<info, OK>>
      BY <2>1
    <3>2. \E of, good, at : info = Info(of, good, at)
      BY DEF InfoOf
    <3>3. info # OK
      BY <3>2 DEF Info, OK
    <3> QED BY <3>1, <3>3
  <2>2. CASE \E l \in Lists : reply = [j \in DOMAIN l |-> Row(l[j])] \o <<OK>>
    <3>1. PICK l \in Lists : reply = [j \in DOMAIN l |-> Row(l[j])] \o <<OK>>
      BY <2>2
    <3>2. l \in Seq({"OPERATOR", "CELL"} \X Nat)
      BY ConnectionAssumption
    <3> DEFINE rows == [j \in DOMAIN l |-> Row(l[j])]
    <3>3. \A j \in DOMAIN l : Row(l[j]) \in Rows
      <4>1. wakeUp \in Nat
        BY ConnectionAssumption DEF Typed, Course
      <4>2. \A j \in DOMAIN l : l[j] \in {"OPERATOR", "CELL"} \X Nat
        BY <3>2
      <4> QED BY <4>1, <4>2 DEF Row, Rows
    <3>4. rows \in Seq(Rows) /\ Len(rows) \in Nat
      <4>1. DOMAIN l = 1 .. Len(l) /\ Len(l) \in Nat
        BY <3>2
      <4> QED BY <3>3, <4>1
    <3>5. reply = rows \o <<OK>>
      BY <3>1
    <3> HIDE DEF rows
    <3>6. /\ Len(reply) = Len(rows) + 1 /\ DOMAIN reply = 1 .. Len(rows) + 1
          /\ \A j \in 1 .. Len(rows) : reply[j] = rows[j]
      BY <3>4, <3>5
    <3>7. \A j \in 1 .. Len(rows) : reply[j] # OK
      <4>1. OK \notin Rows
        BY DEF OK, Rows
      <4>2. \A j \in 1 .. Len(rows) : rows[j] \in Rows
        BY <3>4
      <4> QED BY <3>6, <4>1, <4>2
    <3> QED BY <3>4, <3>6, <3>7
  <2>3. CASE reply = <<OK>>
    BY <2>3
  <2>4. reply \in Accepted(command)
    BY <1>1
  <2> QED BY <2>1, <2>2, <2>3, <2>4 DEF Accepted
<1> QED BY <1>1, <1>2

(* Only an empty slot is said to have no card. *)
LEMMA NoCardSaid ==
    ASSUME Typed, NEW command \in Commands,
           NEW reply \in Accepted(command) \union {Refused(command), <<>>},
           NEW i \in DOMAIN reply, reply[i] = NoSimCard
    PROVE  sim \notin Cards /\ i = Len(reply)
<1>1. CASE reply = Refused(command) \/ reply = <<>>
  <2>1. Error # NoSimCard
    BY DEF Error, NoSimCard
  <2>2. reply # <<>> /\ reply # <<Error>>
    BY <2>1
  <2>3. reply = <<NoSimCard>> /\ sim \notin Cards
    BY <1>1, <2>2 DEF Refused
  <2> QED BY <2>3
<1>2. CASE reply \in Accepted(command)
  <2>1. \A line \in Rows \union {OK} : line # NoSimCard
    BY DEF Rows, OK, NoSimCard
  <2>2. CASE \E info \in InfoOf(command) : reply = <<info, OK>>
    <3>1. PICK info \in InfoOf(command) : reply = <<info, OK>>
      BY <2>2
    <3>2. \E of, good, at : info = Info(of, good, at)
      BY DEF InfoOf
    <3>3. info # NoSimCard
      BY <3>2 DEF Info, NoSimCard
    <3> QED BY <2>1, <3>1, <3>3
  <2>3. CASE \E l \in Lists : reply = [j \in DOMAIN l |-> Row(l[j])] \o <<OK>>
    <3>1. reply \in Seq(Rows \union {OK})
      BY <2>3, ListReplied
    <3> QED BY <2>1, <3>1
  <2>4. CASE reply = <<OK>>
    BY <2>1, <2>4
  <2> QED BY <1>2, <2>2, <2>3, <2>4 DEF Accepted
<1> QED BY <1>1, <1>2

LEMMA AnswerAttach ==
    ASSUME Typed, AttachInv, answer
    PROVE  AttachInv'
<1> DEFINE command == Head(pending)
<1>0. /\ pending # <<>> /\ command \in Commands
      /\ UNCHANGED <<wakeUp, phase, state, object, sim, begun, late>>
  BY DEF answer, module, history, Typed, Link
<1>1. PICK reply \in Accepted(command) \union {Refused(command), <<>>} :
         /\ Answers(reply)
         /\ \/ network' = [attached |-> network.attached \/ command = "AT+CGATT=1",
                           context |-> network.context \/ command = "AT+CGDCONT"]
            \/ reply \in {Refused(command), <<>>} /\ UNCHANGED network
  BY DEF answer
<1>a. /\ network.attached => network'.attached
      /\ network.context => network'.context
      /\ reply \notin {Refused(command), <<>>} =>
            /\ command = "AT+CGATT=1" => network'.attached
            /\ command = "AT+CGDCONT" => network'.context
  <2> DEFINE a == network.attached \/ command = "AT+CGATT=1"
             c == network.context \/ command = "AT+CGDCONT"
  <2>1. CASE network' = [attached |-> a, context |-> c]
    <3>1. network'.attached = a /\ network'.context = c
      <4> HIDE DEF a, c
      <4> QED BY <2>1
    <3> QED BY <3>1
  <2>2. CASE reply \in {Refused(command), <<>>} /\ UNCHANGED network
    BY <2>2
  <2> QED BY <1>1, <2>1, <2>2
<1>2. network.attached => network'.attached
  BY <1>a
<1>3. network.context => network'.context
  BY <1>a
<1>4. reply \notin {Refused(command), <<>>} =>
         /\ command = "AT+CGATT=1" => network'.attached
         /\ command = "AT+CGDCONT" => network'.context
  BY <1>a
<1>5. \A i \in DOMAIN reply : reply[i] = OK =>
         i = Len(reply) /\ reply \notin {Refused(command), <<>>}
  BY <1>0, OKEndsReply
<1>6. reply \in Seq(AnswerLines(command)) /\ reply \in Seq(AllLines)
  <2>1. reply \in Seq(AnswerLines(command))
    BY <1>0, RepliesAnswer DEF Typed
  <2>2. \A line \in AnswerLines(command) : line \in AllLines
    BY DEF AnswerLines
  <2> QED BY <2>1, <2>2
<1>7. /\ Len(input) \in Nat /\ Len(reply) \in Nat
      /\ input' \in Seq(AllLines) /\ Len(input') = Len(input) + Len(reply)
      /\ \A i \in DOMAIN input' :
            \/ i \in DOMAIN input /\ input'[i] = input[i]
            \/ /\ i > Len(input) /\ i - Len(input) \in DOMAIN reply
               /\ input'[i] = reply[i - Len(input)]
  <2>1. /\ input' \in Seq(AllLines) /\ Len(input') = Len(input) + Len(reply)
        /\ \A i \in 1 .. Len(input) : input'[i] = input[i]
        /\ \A i \in Len(input) + 1 .. Len(input') : input'[i] = reply[i - Len(input)]
    BY <1>0, <1>1, <1>6, AnswersShape
  <2>2. /\ Len(input) \in Nat /\ DOMAIN input = 1 .. Len(input) /\ Len(reply) \in Nat
        /\ DOMAIN reply = 1 .. Len(reply) /\ DOMAIN input' = 1 .. Len(input')
    BY <1>6, <2>1 DEF Typed, Link
  <2>3. ASSUME NEW i \in DOMAIN input', i > Len(input)
        PROVE  i - Len(input) \in DOMAIN reply /\ input'[i] = reply[i - Len(input)]
    BY <2>1, <2>2, <2>3
  <2> QED BY <2>1, <2>2, <2>3
<1>8. /\ command = pending[1] /\ 1 \in DOMAIN pending /\ Len(pending) \in Nat
      /\ pending' \in Seq(Commands) /\ Len(pending') = Len(pending) - 1
      /\ \A i \in DOMAIN pending' : i \in 1 .. Len(pending') /\ pending'[i] = pending[i + 1]
                                    /\ i + 1 \in DOMAIN pending
  <2>1. /\ pending' \in Seq(Commands) /\ Len(pending') = Len(pending) - 1
        /\ \A i \in 1 .. Len(pending') : pending'[i] = pending[i + 1]
        /\ 1 \in DOMAIN pending /\ Head(pending) = pending[1]
    BY <1>0, <1>1, <1>6, AnswersShape
  <2>2. Len(pending) \in Nat /\ DOMAIN pending = 1 .. Len(pending)
        /\ DOMAIN pending' = 1 .. Len(pending')
    BY <2>1 DEF Typed, Link
  <2> QED BY <2>1, <2>2
<1> HIDE DEF command
<1>9. Confirmed' /\ StillOn'
  BY <1>0, <1>2, <1>3, StaysConfirmed DEF AttachInv, StillOn
<1>10. ASSUME Quiet' PROVE Answered'
  <2>1. Answered
    BY <1>0, <1>10 DEF AttachInv, Quiet
  <2>2. ~object.readyToSend /\ ~object'.readyToSend /\ phase' = "connecting"
    BY <1>0, <2>1 DEF Answered, NothingUnderWay
  <2>3. NothingUnderWay'
    BY <2>2 DEF NothingUnderWay
  <2>4. CASE state # "ConsultingNetworkStatus"
    <3>1. input = <<>> /\ Len(pending) = 1
      BY <1>0, <1>8, <2>1, <2>4 DEF Answered, OneAnswer
    <3>2. pending' = <<>> /\ DOMAIN pending' = {}
      BY <1>8, <3>1, EmptySeq
    <3>3. \A i \in DOMAIN input' : i \in DOMAIN reply /\ input'[i] = reply[i]
      <4>1. Len(input) = 0 /\ DOMAIN input = {}
        BY <3>1
      <4>2. \A i \in DOMAIN input' : i \in Nat
        BY <1>7
      <4> QED BY <1>7, <4>1, <4>2
    <3>4. OKLast'
      <4>1. Len(input) = 0
        BY <3>1
      <4> QED BY <1>5, <1>7, <3>3, <4>1 DEF OKLast
    <3>5. OneAnswer' /\ TwoAnswers'
      BY <1>0, <2>4, <3>2, <3>4 DEF OneAnswer, TwoAnswers
    <3>6. Confirms'
      <4>1. ASSUME Here, state = "AttachingToPacketService",
                   NEW i \in DOMAIN input', input'[i] = OK
            PROVE  network'.attached
        <5>1. command = "AT+CGATT=1"
          BY <1>8, <2>1, <4>1 DEF Answered, Confirms
        <5> QED BY <1>4, <1>5, <3>3, <4>1, <5>1
      <4>2. ASSUME Here, state = "DefinePDPContext", NEW i \in DOMAIN input', input'[i] = OK
            PROVE  network'.context
        <5>1. command = "AT+CGDCONT"
          BY <1>8, <2>1, <4>2 DEF Answered, Confirms
        <5> QED BY <1>4, <1>5, <3>3, <4>2, <5>1
      <4> QED BY <1>0, <3>2, <4>1, <4>2 DEF Confirms, Here
    <3>7. CardRead'
      <4> SUFFICES ASSUME NEW i \in DOMAIN input', input'[i] = NoSimCard
                   PROVE  sim \notin Cards /\ i = Len(input')
        BY <1>0 DEF CardRead
      <4>1. i \in DOMAIN reply /\ reply[i] = NoSimCard /\ Len(input) = 0
        BY <3>1, <3>3
      <4> QED BY <1>0, <1>7, <4>1, NoCardSaid
    <3> QED BY <2>3, <3>5, <3>6, <3>7 DEF Answered
  <2>5. CASE state = "ConsultingNetworkStatus"
    <3>1. ~object'.retrieved
      BY <1>0, <2>1, <2>5 DEF Answered, TwoAnswers
    <3>2. ASSUME NEW i \in DOMAIN pending', Asks(pending'[i]) = state
          PROVE  i = Len(pending')
      <4>1. i + 1 = Len(pending)
        BY <1>8, <2>1, <2>5, <3>2 DEF Answered, TwoAnswers
      <4> QED BY <1>8, <4>1
    <3>3. ASSUME NEW i \in DOMAIN input', Tells(input'[i]) = state
          PROVE  /\ pending' = <<>>
                 /\ \A j \in DOMAIN input' : i < j /\ input'[j] = OK => j = Len(input')
      <4>1. ~(i \in DOMAIN input /\ input'[i] = input[i])
        BY <1>0, <2>1, <2>5, <3>3 DEF Answered, TwoAnswers
      <4>2. i > Len(input) /\ i - Len(input) \in DOMAIN reply /\ input'[i] = reply[i - Len(input)]
        BY <1>7, <4>1
      <4>3. input'[i] \in AnswerLines(command)
        BY <1>6, <4>2
      <4>4. Asks(command) = state
        BY <2>5, <3>3, <4>3 DEF AnswerLines
      <4>5. Len(pending) = 1
        BY <1>8, <2>1, <2>5, <4>4 DEF Answered, TwoAnswers
      <4>6. pending' = <<>>
        BY <1>8, <4>5, EmptySeq
      <4>7. ASSUME NEW j \in DOMAIN input', i < j, input'[j] = OK
            PROVE  j = Len(input')
        <5>1. i \in Nat /\ j \in Nat /\ j > Len(input) /\ DOMAIN input = 1 .. Len(input)
          BY <1>7, <4>2, <4>7 DEF Typed, Link
        <5>2. j - Len(input) \in DOMAIN reply /\ reply[j - Len(input)] = OK
          BY <1>7, <4>7, <5>1
        <5>3. j - Len(input) = Len(reply)
          BY <1>5, <5>2
        <5> QED BY <1>7, <5>1, <5>3, SMTT(30)
      <4> QED BY <4>6, <4>7
    <3>4. OneAnswer' /\ TwoAnswers' /\ Confirms' /\ CardRead'
      BY <1>0, <2>2, <2>5, <3>1, <3>2, <3>3 DEF OneAnswer, TwoAnswers, Confirms, CardRead
    <3> QED BY <2>3, <3>4 DEF Answered
  <2> QED BY <2>4, <2>5
<1> QED BY <1>9, <1>10 DEF AttachInv

(* The states that wait for an OK. *)
LEMMA PlainStatesAttach ==
    ASSUME Typed, AttachInv, idle \/ attachingToPacketService \/ definePDPContext
    PROVE  AttachInv'
<1>1. ASSUME NEW c \in {"ATI", "AT+CGATT=1", "AT+CGDCONT"}
      PROVE  <<c>> \in Seq(Commands) /\ Len(<<c>>) = 1
  BY DEF Commands
<1>2. CASE idle
  <2>1. state = "IdleState" /\ phase = "connecting"
    BY <1>2 DEF idle, Connecting
  <2>2. CASE Send(<<"ATI">>)
    BY <1>1, <2>1, <2>2, SendAttach
  <2>3. CASE AwaitOK("CheckingSignalStrength")
    BY <2>1, <2>3, AwaitOKAttach
  <2>4. CASE timeOut(MaxAttempts, object.connectionAttempts + 1, FALSE)
    BY <2>1, <2>4, TimeOutAttach
  <2> QED BY <1>2, <2>2, <2>3, <2>4 DEF idle
<1>3. CASE attachingToPacketService
  <2>1. state = "AttachingToPacketService" /\ phase = "connecting"
    BY <1>3 DEF attachingToPacketService, Connecting
  <2>2. CASE Send(<<"AT+CGATT=1">>)
    BY <1>1, <2>1, <2>2, SendAttach
  <2>3. CASE AwaitOK("DefinePDPContext")
    BY <2>1, <2>3, AwaitOKAttach
  <2>4. CASE timeOut(MaxAttempts, 0, FALSE)
    BY <2>1, <2>4, TimeOutAttach
  <2> QED BY <1>3, <2>2, <2>3, <2>4 DEF attachingToPacketService
<1>4. CASE definePDPContext
  <2>1. state = "DefinePDPContext" /\ phase = "connecting"
    BY <1>4 DEF definePDPContext, Connecting
  <2>2. CASE Send(<<"AT+CGDCONT">>)
    BY <1>1, <2>1, <2>2, SendAttach
  <2>3. CASE AwaitOK("ConnectedState")
    BY <2>1, <2>3, AwaitOKAttach
  <2>4. CASE timeOut(MaxAttempts, 0, FALSE)
    BY <2>1, <2>4, TimeOutAttach
  <2> QED BY <1>4, <2>2, <2>3, <2>4 DEF definePDPContext
<1> QED BY <1>2, <1>3, <1>4

(* The states that want information. *)
LEMMA InquiryAttach ==
    ASSUME Typed, AttachInv, Inquiries
    PROVE  AttachInv'
<1>1. /\ phase = "connecting" /\ state \in Informed
      /\ state \notin {"ConnectedState", "AttachingToPacketService", "DefinePDPContext"}
  BY InquiryForm DEF Informed, Fields
<1>2. CASE Send(Inquiry(state))
  <2>1. CASE state = "ConsultingNetworkStatus"
    <3>1. Inquiry(state) = <<"AT+CREG=2", "AT+CREG?">>
      BY <2>1 DEF Inquiry
    <3>2. "AT+CREG=2" \in Commands /\ "AT+CREG?" \in Commands
      BY DEF Commands
    <3>3. Inquiry(state) \in Seq(Commands)
      BY <3>1, <3>2
    <3> QED BY <1>1, <1>2, <2>1, <3>1, <3>3, SendAttach
  <2>2. CASE state # "ConsultingNetworkStatus"
    <3>1. PICK c \in Commands : Inquiry(state) = <<c>>
      BY <1>1, <2>2 DEF Inquiry, Commands, Informed, Fields
    <3>2. Inquiry(state) \in Seq(Commands) /\ Len(Inquiry(state)) = 1
      BY <3>1
    <3> QED BY <1>1, <1>2, <2>2, <3>2, SendAttach
  <2> QED BY <2>1, <2>2
<1>3. CASE /\ AwaitInfo
           /\ sim' # sim => state = "ConsultingSIMCardStatus" /\ Head(input) = NoSimCard
  BY <1>1, <1>3, AwaitInfoAttach
<1>4. CASE \E store, pass \in BOOLEAN : AwaitOKBehind(store, pass, Behind(state))
  BY <1>1, <1>4, AwaitOKBehindAttach
<1>5. CASE poorSignal
  BY <1>1, <1>5, PoorSignalAttach
<1>6. CASE \E max \in Nat, kept \in BOOLEAN :
              timeOut(max, 0, kept) /\ (kept => state # "ConsultingNetworkStatus")
  BY <1>1, <1>6, TimeOutAttach
<1> QED BY <1>2, <1>3, <1>4, <1>5, <1>6, InquiryForm

(* Making the list, the module is no longer connecting. *)
LEMMA ListAttach ==
    ASSUME Typed, Handed, AttachInv, askForCells \/ readRow \/ endList \/ listTimesOut
    PROVE  AttachInv'
<1>1. /\ phase = "listing" /\ phase' \in {"listing", "exchanging"}
      /\ UNCHANGED <<wakeUp, state, begun, late, network>>
  BY DEF askForCells, readRow, endList, listTimesOut, Listing, module, history
<1>2. Confirmed' /\ StillOn'
  BY <1>1, StaysConfirmed
<1>3. ~Quiet'
  BY <1>1 DEF Quiet, Handed
<1> QED BY <1>2, <1>3 DEF AttachInv

(* A chain begins with nothing on the line, or a time-out is known to have   *)
(* overtaken something; a chain taken up again is an older one.              *)
LEMMA CourseAttach ==
    ASSUME Typed, AttachInv,
           \/ enableConnection \/ connected \/ exchangeMessages \/ pursue
           \/ goToSleep \/ turnedOff \/ awake
    PROVE  AttachInv'
<1>1. CASE enableConnection
  <2>1. /\ state' = "IdleState" /\ late' = Overtakes /\ UNCHANGED <<input, pending>>
    BY <1>1 DEF enableConnection, changeConnectionState, modem
  <2>2. Confirmed' /\ StillOn'
    BY <2>1 DEF Confirmed, StillOn
  <2>3. ASSUME Quiet' PROVE Answered'
    BY <2>1, <2>3, Silence DEF Quiet, Overtakes
  <2> QED BY <2>2, <2>3 DEF AttachInv
<1>2. CASE connected
  <2>1. /\ state = "ConnectedState" /\ phase = "connecting"
        /\ phase' \in {"listing", "exchanging"}
        /\ UNCHANGED <<wakeUp, state, network, begun, late>>
    BY <1>2 DEF connected, Connecting, module, modem, history
  <2>2. Confirmed' /\ StillOn'
    BY <2>1, StaysConfirmed
  <2>3. ~Quiet'
    BY <2>1 DEF Quiet
  <2> QED BY <2>2, <2>3 DEF AttachInv
<1>3. CASE exchangeMessages
  <2>1. state' = "ConnectionUnavailableState" /\ phase' = "finished"
    BY <1>3 DEF exchangeMessages, changeConnectionState
  <2> QED BY <2>1 DEF AttachInv, Confirmed, StillOn, Quiet
<1>4. CASE pursue \/ awake
  <2>1. /\ phase \in {"finished", "off"} /\ wakeUp' = wakeUp + 1
        /\ UNCHANGED <<state, object, sim, pending, begun, late>> /\ Drain
    BY <1>4 DEF pursue, awake, module, modem, history
  <2>2. begun' # wakeUp'
    BY <2>1, ConnectionAssumption DEF Typed, Course
  <2>3. state' # "ConnectedState"
    BY <2>1 DEF AttachInv, StillOn
  <2>4. ASSUME Quiet' PROVE Answered'
    <3>1. Answered
      BY <2>1, <2>4 DEF AttachInv, Quiet
    <3>2. PICK k \in 0 .. Len(input) : Later(k)
      BY <2>1, DrainIsLater DEF Typed
    <3> QED BY <2>1, <2>2, <3>1, <3>2, Unmoved DEF Here
  <2> QED BY <2>2, <2>3, <2>4 DEF AttachInv, Confirmed, StillOn
<1>5. CASE goToSleep \/ turnedOff
  <2>1. /\ phase \in {"finished", "turning off"} /\ phase' \in {"turning off", "off"}
        /\ UNCHANGED <<wakeUp, state, object, sim, begun, late>>
        /\ pending' \in {pending, <<>>} /\ (Drain \/ UNCHANGED input)
    BY <1>5 DEF goToSleep, turnedOff, module, modem, history
  <2>2. ASSUME Quiet' PROVE Answered'
    <3>1. Answered /\ UNCHANGED pending
      BY <2>1, <2>2 DEF AttachInv, Quiet, Answered, NothingUnderWay
    <3>2. PICK k \in 0 .. Len(input) : Later(k)
      <4>1. 0 \in 0 .. Len(input)
        BY DEF Typed, Link
      <4> QED BY <2>1, <4>1, DrainIsLater, SameIsLater DEF Typed
    <3> QED BY <2>1, <3>1, <3>2, Unmoved DEF Here
  <2> QED BY <2>1, <2>2 DEF AttachInv, Confirmed, StillOn
<1> QED BY <1>1, <1>2, <1>3, <1>4, <1>5

LEMMA AttachStep == Typed /\ Handed /\ AttachInv /\ [Next]_vars => AttachInv'
<1> SUFFICES ASSUME Typed, Handed, AttachInv, [Next]_vars PROVE AttachInv'
  OBVIOUS
<1>1. CASE UNCHANGED vars
  <2>1. UNCHANGED <<wakeUp, phase, state, object, sim, input, pending, network, begun, late>>
    BY <1>1 DEF vars, module, modem, history
  <2>2. Confirmed' /\ StillOn' /\ (Quiet' => Quiet) /\ (Here' => Here)
    BY <2>1 DEF AttachInv, Confirmed, StillOn, Quiet, Here
  <2>3. Answered => Answered'
    <3>1. Later(0)
      BY <2>1, SameIsLater DEF Typed
    <3> QED BY <2>1, <2>2, <3>1, Unmoved
  <2> QED BY <2>2, <2>3 DEF AttachInv
<1>2. CASE Inquiries
  BY <1>2, InquiryAttach
<1>3. CASE idle \/ attachingToPacketService \/ definePDPContext
  BY <1>3, PlainStatesAttach
<1>4. CASE askForCells \/ readRow \/ endList \/ listTimesOut
  BY <1>4, ListAttach
<1>5. CASE \/ enableConnection \/ connected \/ exchangeMessages \/ pursue
           \/ goToSleep \/ turnedOff \/ awake
  BY <1>5, CourseAttach
<1>6. CASE answer
  BY <1>6, AnswerAttach
<1> QED BY <1>1, <1>2, <1>3, <1>4, <1>5, <1>6, Zenon DEF Next, Inquiries

THEOREM AttachInvariant == Spec => [](Typed /\ ChainInv /\ AttachInv)
<1>1. Init => AttachInv
  BY DEF Init, AttachInv, Confirmed, StillOn, Quiet
<1>2. Typed /\ ChainInv /\ AttachInv /\ [Next]_vars => AttachInv'
  BY AttachStep DEF ChainInv
<1> QED BY <1>1, <1>2, ChainInvariant, PTL DEF Spec

(* A tracker that says it is connected to the network, in the wake-up in      *)
(* which its chain began and with no answer overtaken by a time-out, has had  *)
(* its attachment and its context confirmed: an OK does not say what it       *)
(* answers, but none is taken for another's, although a state sends two       *)
(* commands at once and lines are dropped.                                    *)
THEOREM AttachmentConfirmed == Spec => []ConnectedIsAttached
<1>1. AttachInv => ConnectedIsAttached
  BY DEF AttachInv, Confirmed, StillOn, ConnectedIsAttached
<1> QED BY <1>1, AttachInvariant, PTL

-----------------------------------------------------------------------------
(* The list of neighbour cells.  The modem puts every cell below its         *)
(* operator.                                                                 *)
ListsGrouped ==
    \A l \in Lists : \A i \in DOMAIN l :
        l[i][1] = "CELL" =>
            \E j \in 1 .. i - 1 : /\ l[j] = <<"OPERATOR", l[i][2]>>
                                  /\ \A k \in j + 1 .. i - 1 : l[k][1] # "OPERATOR"

Operator(line) == line.kind = "OPERATOR"
Cell(line) == line.kind = "CELL"
IsRow(line) == Operator(line) \/ Cell(line)

(* The last operator of lines before the i-th is op. *)
Under(lines, i, op) ==
    \E j \in 1 .. i - 1 : /\ Operator(lines[j]) /\ lines[j].of = op
                          /\ \A k \in j + 1 .. i - 1 : ~Operator(lines[k])

(* The rows kept ... *)
KeptGrouped == \A i \in DOMAIN scan.rows :
    /\ IsRow(scan.rows[i]) => scan.rows[i].at = wakeUp
    /\ Cell(scan.rows[i]) => Under(scan.rows, i, scan.rows[i].of)

(* ... and those still to be read, the first of which may be below an        *)
(* operator that is kept; if there is no room they are dropped.              *)
BelowKept(op) == Len(scan.rows) = MaxRows \/ Under(scan.rows, Len(scan.rows) + 1, op)

ReadGrouped == \A i \in DOMAIN input :
    /\ IsRow(input[i]) => input[i].at = wakeUp
    /\ Cell(input[i]) => \/ Under(input, i, input[i].of)
                         \/ /\ \A j \in 1 .. i - 1 : ~Operator(input[j])
                            /\ BelowKept(input[i].of)

(* Rows of an earlier list come before the first information of the chain    *)
(* and are gone when it has been read.                                       *)
NoRow == \A i \in DOMAIN input : ~IsRow(input[i])
NoList == \A i \in DOMAIN pending : pending[i] # "AT+QOPS"

RowsFirst ==
    /\ \A i, j \in DOMAIN input : IsRow(input[i]) /\ Tells(input[j]) = state => i < j
    /\ \A i, j \in DOMAIN pending :
          pending[i] = "AT+QOPS" /\ Asks(pending[j]) = state => i < j
    /\ (\E j \in DOMAIN input : Tells(input[j]) = state) => NoList
    /\ object.retrieved => NoRow /\ NoList

Early == state \in {"ConnectionUnavailableState", "IdleState", "CheckingSignalStrength"}

NeighborInv ==
    /\ phase = "listing" => /\ KeptGrouped /\ ReadGrouped
                            /\ IF scan.vectorCleared THEN neighbors = <<>> ELSE scan.rows = <<>>
    /\ phase # "listing" => ~scan.vectorCleared /\ scan.rows = <<>>
    /\ phase \notin {"listing", "exchanging"} =>
          /\ state = "CheckingSignalStrength" => RowsFirst
          /\ ~Early => NoRow /\ NoList

-----------------------------------------------------------------------------
LEMMA RowsTellNothing ==
    ASSUME NEW line \in AllLines, IsRow(line)
    PROVE  line \in Rows /\ Tells(line) = "none" /\ line # OK
<1>1. line \in Rows
  BY DEF AllLines, InfoLines, OK, Error, NoSimCard, IsRow, Operator, Cell
<1>2. line # OK
  BY <1>1 DEF Rows, OK
<1> QED BY <1>1, <1>2, PlainLines

(* Rows answer AT+QOPS only, below their operators and measured now. *)
LEMMA RowsAnswer ==
    ASSUME Typed, ListsGrouped, NEW command \in Commands,
           NEW reply \in Accepted(command) \union {Refused(command), <<>>},
           NEW i \in DOMAIN reply, IsRow(reply[i])
    PROVE  /\ command = "AT+QOPS" /\ reply[i].at = wakeUp
           /\ Cell(reply[i]) => Under(reply, i, reply[i].of)
<1>1. \A line \in {OK, Error, NoSimCard} : ~IsRow(line)
  BY DEF OK, Error, NoSimCard, IsRow, Operator, Cell
<1>2. reply # <<OK>> /\ reply # <<>> /\ reply # <<Error>> /\ reply # <<NoSimCard>>
  BY <1>1
<1>3. reply \in Accepted(command)
  BY <1>2 DEF Refused
<1>4. ~(\E info \in InfoOf(command) : reply = <<info, OK>>)
  <2> SUFFICES ASSUME NEW info \in InfoOf(command), reply = <<info, OK>> PROVE FALSE
    OBVIOUS
  <2>1. \E of, good, at : info = Info(of, good, at)
    BY DEF InfoOf
  <2>2. ~IsRow(info)
    BY <2>1 DEF Info, IsRow, Operator, Cell
  <2> QED BY <1>1, <2>2
<1>5. command = "AT+QOPS" /\ \E l \in Lists : reply = [j \in DOMAIN l |-> Row(l[j])] \o <<OK>>
  BY <1>2, <1>3, <1>4 DEF Accepted
<1>6. PICK l \in Lists : reply = [j \in DOMAIN l |-> Row(l[j])] \o <<OK>>
  BY <1>5
<1> DEFINE rows == [j \in DOMAIN l |-> Row(l[j])]
<1>7. rows \in Seq(Rows) /\ Len(rows) \in Nat /\ DOMAIN rows = 1 .. Len(rows)
  BY ListReplied
<1>8. DOMAIN l = DOMAIN rows
  OBVIOUS
<1>9. \A j \in DOMAIN l : rows[j] = [kind |-> l[j][1], of |-> l[j][2], at |-> wakeUp]
  BY DEF Row
<1>10. reply = rows \o <<OK>>
  BY <1>6
<1> HIDE DEF rows
<1>11. /\ DOMAIN reply = 1 .. Len(rows) + 1 /\ reply[Len(rows) + 1] = OK
       /\ \A j \in 1 .. Len(rows) : reply[j] = rows[j]
  BY <1>7, <1>10
<1>12. i \in 1 .. Len(rows)
  BY <1>1, <1>7, <1>11
<1>13. \A j \in 1 .. Len(rows) :
          /\ reply[j].kind = l[j][1] /\ reply[j].of = l[j][2] /\ reply[j].at = wakeUp
  BY <1>7, <1>8, <1>9, <1>11
<1>14. ASSUME Cell(reply[i]) PROVE Under(reply, i, reply[i].of)
  <2>1. l[i][1] = "CELL" /\ i \in DOMAIN l
    BY <1>7, <1>8, <1>12, <1>13, <1>14 DEF Cell
  <2>2. PICK j \in 1 .. i - 1 : /\ l[j] = <<"OPERATOR", l[i][2]>>
                                /\ \A k \in j + 1 .. i - 1 : l[k][1] # "OPERATOR"
    BY <2>1 DEF ListsGrouped
  <2>3. j \in 1 .. Len(rows) /\ \A k \in j + 1 .. i - 1 : k \in 1 .. Len(rows)
    BY <1>7, <1>12
  <2>4. Operator(reply[j]) /\ reply[j].of = reply[i].of
    BY <1>12, <1>13, <2>2, <2>3 DEF Operator
  <2>5. \A k \in j + 1 .. i - 1 : ~Operator(reply[k])
    BY <1>13, <2>2, <2>3 DEF Operator
  <2> QED BY <2>4, <2>5 DEF Under
<1> QED BY <1>5, <1>12, <1>13, <1>14

-----------------------------------------------------------------------------
(* Outside the list: what happens to old rows and commands. *)

Elsewhere == phase \notin {"listing", "exchanging"}

LEMMA SameList ==
    ASSUME NeighborInv, Elsewhere, UNCHANGED scan, phase' # "listing",
           Elsewhere' => /\ state' = "CheckingSignalStrength" => RowsFirst'
                         /\ ~Early' => NoRow' /\ NoList'
    PROVE  NeighborInv'
  BY DEF NeighborInv, Elsewhere

(* Lines are read or lost, commands answered or forgotten. *)
LEMMA RowsOnward ==
    ASSUME Typed, NeighborInv, Elsewhere, Elsewhere', UNCHANGED <<state, scan>>,
           NEW k, Later(k), pending' = pending \/ pending' = <<>>,
           object'.retrieved => object.retrieved
    PROVE  NeighborInv'
<1>1. /\ \A i \in DOMAIN input' : input'[i] = input[i + k] /\ i + k \in DOMAIN input
      /\ k \in Nat /\ \A i \in DOMAIN input' : i \in Nat
  <2>1. /\ DOMAIN input' = 1 .. Len(input') /\ k \in 0 .. Len(input) /\ Len(input) \in Nat
        /\ \A i \in DOMAIN input' : input'[i] = input[i + k] /\ i + k \in DOMAIN input
    BY LaterLines
  <2> QED BY <2>1
<1>2. \A i \in DOMAIN pending' : i \in DOMAIN pending /\ pending'[i] = pending[i]
  OBVIOUS
<1>3. (NoRow => NoRow') /\ (NoList => NoList')
  BY <1>1, <1>2 DEF NoRow, NoList
<1>4. RowsFirst => RowsFirst'
  <2> SUFFICES ASSUME RowsFirst PROVE RowsFirst'
    OBVIOUS
  <2>1. ASSUME NEW i \in DOMAIN input', NEW j \in DOMAIN input',
               IsRow(input'[i]), Tells(input'[j]) = state
        PROVE  i < j
    <3>1. i + k < j + k
      BY <1>1, <2>1 DEF RowsFirst
    <3> QED BY <1>1, <3>1
  <2>2. ASSUME NEW i \in DOMAIN pending', NEW j \in DOMAIN pending',
               pending'[i] = "AT+QOPS", Asks(pending'[j]) = state
        PROVE  i < j
    BY <1>2, <2>2 DEF RowsFirst
  <2>3. ASSUME NEW j \in DOMAIN input', Tells(input'[j]) = state PROVE NoList'
    BY <1>1, <1>3, <2>3 DEF RowsFirst
  <2>4. object'.retrieved => NoRow' /\ NoList'
    BY <1>3 DEF RowsFirst
  <2> QED BY <2>1, <2>2, <2>3, <2>4 DEF RowsFirst
<1>5. Early' = Early
  BY DEF Early
<1> QED BY <1>3, <1>4, <1>5 DEF NeighborInv, Elsewhere

(* A state is entered when the rows are gone. *)
LEMMA RowsGone ==
    ASSUME Typed, NeighborInv, Elsewhere, UNCHANGED <<scan, pending>>,
           NEW k, Later(k), NoRow, NoList, phase' # "listing",
           state' # "CheckingSignalStrength"
    PROVE  NeighborInv'
<1>1. \A i \in DOMAIN input' : input'[i] = input[i + k] /\ i + k \in DOMAIN input
  BY LaterLines
<1>2. NoRow' /\ NoList'
  BY <1>1 DEF NoRow, NoList
<1> QED BY <1>2, SameList

LEMMA SendRows ==
    ASSUME Typed, ChainInv, NeighborInv, Elsewhere, NEW commands \in Seq(Commands),
           Send(commands), \A i \in DOMAIN commands : commands[i] # "AT+QOPS"
    PROVE  NeighborInv'
<1>0. /\ sendATCommand(commands) /\ UNCHANGED <<phase, state, input, scan>>
      /\ object'.retrieved = object.retrieved
  <2>1. object' = [object EXCEPT !.readyToSend = FALSE]
    BY DEF Send
  <2> QED BY <2>1 DEF Send, list, Typed, Findings, Objects
<1>1. /\ pending' \in Seq(Commands)
      /\ \A i \in 1 .. Len(pending') :
            \/ i \in DOMAIN pending /\ pending'[i] = pending[i]
            \/ /\ i - Len(pending) \in DOMAIN commands
               /\ pending'[i] = commands[i - Len(pending)]
  BY <1>0, CommandsAppended DEF Typed
<1>2. /\ DOMAIN pending' = 1 .. Len(pending') /\ DOMAIN pending = 1 .. Len(pending)
      /\ Len(pending) \in Nat /\ DOMAIN commands = 1 .. Len(commands)
  BY <1>1 DEF Typed, Link
<1>3. \A i \in DOMAIN pending' : pending'[i] = "AT+QOPS" =>
         i \in DOMAIN pending /\ pending[i] = "AT+QOPS"
  BY <1>1, <1>2
<1>4. (NoRow => NoRow') /\ (NoList => NoList')
  BY <1>0, <1>3 DEF NoRow, NoList
<1>5. RowsFirst => RowsFirst'
  <2> SUFFICES ASSUME RowsFirst PROVE RowsFirst'
    OBVIOUS
  <2>1. ASSUME NEW i \in DOMAIN pending', NEW j \in DOMAIN pending',
               pending'[i] = "AT+QOPS", Asks(pending'[j]) = state
        PROVE  i < j
    <3>1. i \in DOMAIN pending /\ pending[i] = "AT+QOPS"
      BY <1>3, <2>1
    <3>2. CASE j \in DOMAIN pending /\ pending'[j] = pending[j]
      BY <2>1, <3>1, <3>2 DEF RowsFirst
    <3>3. CASE j - Len(pending) \in DOMAIN commands
      BY <1>2, <3>1, <3>3
    <3> QED BY <1>1, <1>2, <3>2, <3>3
  <2> QED BY <1>0, <1>4, <2>1 DEF RowsFirst
<1>6. Early' = Early /\ Elsewhere'
  BY <1>0 DEF Early, Elsewhere
<1> QED BY <1>0, <1>4, <1>5, <1>6 DEF NeighborInv, Elsewhere

(* Information of the chain is read: the rows are gone. *)
LEMMA AwaitInfoRows ==
    ASSUME Typed, NeighborInv, Elsewhere, AwaitInfo, state \in Informed
    PROVE  NeighborInv'
<1>0. /\ input # <<>> /\ input' = Tail(input) /\ UNCHANGED <<phase, state, pending, scan>>
      /\ Elsewhere'
  BY DEF AwaitInfo, readATResponse, modem, list, Elsewhere
<1>1. Later(1) /\ Head(input) = input[1] /\ Head(input) \in AllLines /\ 1 \in DOMAIN input
  BY <1>0, ReadIsLater DEF Typed
<1>2. CASE ~(Head(input).kind = "INFO" /\ Head(input).of = state)
  <2>1. UNCHANGED object
    BY <1>2 DEF AwaitInfo
  <2> QED BY <1>0, <1>1, <2>1, RowsOnward
<1>3. CASE (Head(input).kind = "INFO" /\ Head(input).of = state) /\ state = "CheckingSignalStrength"
  <2>1. Tells(input[1]) = state
    BY <1>1, <1>3, InfoOfState DEF Tells
  <2>2. RowsFirst
    BY <1>3 DEF NeighborInv, Elsewhere
  <2>3. NoRow /\ NoList
    <3>1. \A i \in DOMAIN input : i \in Nat /\ i >= 1
      BY DEF Typed, Link
    <3> QED BY <1>1, <2>1, <2>2, <3>1 DEF RowsFirst, NoRow
  <2>4. \A i \in DOMAIN input' : input'[i] = input[i + 1] /\ i + 1 \in DOMAIN input
    BY <1>1, LaterLines
  <2>5. NoRow' /\ NoList'
    BY <1>0, <2>3, <2>4 DEF NoRow, NoList
  <2>6. RowsFirst'
    BY <2>5, <1>0 DEF RowsFirst, NoRow, NoList
  <2> QED BY <1>0, <2>5, <2>6, SameList DEF Elsewhere
<1>4. CASE state # "CheckingSignalStrength"
  <2>1. ~Early /\ NoRow /\ NoList
    BY <1>4 DEF NeighborInv, Elsewhere, Early, Informed, Fields
  <2> QED BY <1>0, <1>1, <1>4, <2>1, RowsGone DEF Elsewhere
<1> QED BY <1>2, <1>3, <1>4

(* A time-out leaves the line as it is. *)
LEMMA TimeOutRows ==
    ASSUME Typed, NeighborInv, phase = "connecting",
           NEW max, NEW next, NEW kept \in BOOLEAN, timeOut(max, next, kept)
    PROVE  NeighborInv'
<1>1. UNCHANGED <<state, scan, input, pending>> /\ phase' \in {phase, "turning off"}
  BY DEF timeOut, list, modem
<1>2. object'.retrieved => object.retrieved
  BY DEF timeOut, TimedOut, Typed, Findings, Objects
<1>3. Later(0) /\ Elsewhere /\ Elsewhere'
  BY <1>1, SameIsLater DEF Typed, Elsewhere
<1> QED BY <1>1, <1>2, <1>3, RowsOnward

(* The modem's answer comes behind what is to be read. *)
LEMMA AnswerForm ==
    ASSUME Typed, answer
    PROVE  \E command \in Commands :
           \E reply \in Accepted(command) \union {Refused(command), <<>>} :
              /\ command = pending[1] /\ 1 \in DOMAIN pending
              /\ \A i \in DOMAIN input : i \in 1 .. Len(input)
              /\ \A i \in DOMAIN reply : reply[i] \in AnswerLines(command)
              /\ \A i \in DOMAIN input' :
                    \/ i \in DOMAIN input /\ input'[i] = input[i]
                    \/ /\ i > Len(input) /\ i - Len(input) \in DOMAIN reply
                       /\ input'[i] = reply[i - Len(input)]
              /\ \A j \in DOMAIN reply : input'[j + Len(input)] = reply[j]
              /\ \A i \in DOMAIN pending' : i \in Nat /\ i > 0 /\ pending'[i] = pending[i + 1]
                                            /\ i + 1 \in DOMAIN pending
              /\ Len(input) \in Nat
<1> DEFINE command == Head(pending)
<1>0. pending # <<>> /\ command \in Commands
  BY DEF answer, Typed, Link
<1>1. PICK reply \in Accepted(command) \union {Refused(command), <<>>} : Answers(reply)
  BY DEF answer
<1>2. reply \in Seq(AnswerLines(command)) /\ reply \in Seq(AllLines)
  <2>1. reply \in Seq(AnswerLines(command))
    BY <1>0, RepliesAnswer DEF Typed
  <2>2. \A line \in AnswerLines(command) : line \in AllLines
    BY DEF AnswerLines
  <2> QED BY <2>1, <2>2
<1>3. /\ input' \in Seq(AllLines) /\ Len(input') = Len(input) + Len(reply)
      /\ \A i \in 1 .. Len(input) : input'[i] = input[i]
      /\ \A i \in Len(input) + 1 .. Len(input') : input'[i] = reply[i - Len(input)]
      /\ pending' \in Seq(Commands) /\ Len(pending') = Len(pending) - 1
      /\ \A i \in 1 .. Len(pending') : pending'[i] = pending[i + 1]
      /\ 1 \in DOMAIN pending /\ command = pending[1]
  BY <1>0, <1>1, <1>2, AnswersShape
<1>4. /\ Len(input) \in Nat /\ DOMAIN input = 1 .. Len(input) /\ Len(reply) \in Nat
      /\ DOMAIN reply = 1 .. Len(reply) /\ DOMAIN input' = 1 .. Len(input')
      /\ Len(pending) \in Nat /\ DOMAIN pending = 1 .. Len(pending)
      /\ DOMAIN pending' = 1 .. Len(pending')
  BY <1>2, <1>3 DEF Typed, Link
<1> HIDE DEF command
<1>5. ASSUME NEW i \in DOMAIN input', i > Len(input)
      PROVE  i - Len(input) \in DOMAIN reply /\ input'[i] = reply[i - Len(input)]
  <2>1. \A n, m, x \in Nat : x \in 1 .. n + m /\ x > n => x - n \in 1 .. m /\ x \in n + 1 .. n + m
    OBVIOUS
  <2>2. i \in 1 .. Len(input) + Len(reply) /\ i \in Nat
    BY <1>3, <1>4
  <2>3. i - Len(input) \in 1 .. Len(reply) /\ i \in Len(input) + 1 .. Len(input) + Len(reply)
    BY <1>4, <1>5, <2>1, <2>2
  <2> QED BY <1>3, <1>4, <2>3
<1>6. ASSUME NEW j \in DOMAIN reply PROVE input'[j + Len(input)] = reply[j]
  <2>1. \A n, m, x \in Nat : x \in 1 .. m => x + n \in n + 1 .. n + m /\ (x + n) - n = x
    OBVIOUS
  <2>2. j \in 1 .. Len(reply) /\ j \in Nat
    BY <1>4
  <2>3. j + Len(input) \in Len(input) + 1 .. Len(input) + Len(reply) /\ (j + Len(input)) - Len(input) = j
    BY <1>4, <2>1, <2>2
  <2>4. input'[j + Len(input)] = reply[(j + Len(input)) - Len(input)]
    BY <1>3, <2>3
  <2> QED BY <2>3, <2>4
<1>7. ASSUME NEW i \in DOMAIN pending'
      PROVE  /\ i \in Nat /\ i > 0 /\ pending'[i] = pending[i + 1] /\ i + 1 \in DOMAIN pending
  BY <1>3, <1>4
<1>8. \A i \in DOMAIN reply : reply[i] \in AnswerLines(command)
  BY <1>2
<1>9. \A i \in DOMAIN input' :
         \/ i \in DOMAIN input /\ input'[i] = input[i]
         \/ /\ i > Len(input) /\ i - Len(input) \in DOMAIN reply
            /\ input'[i] = reply[i - Len(input)]
  BY <1>3, <1>4, <1>5
<1> QED BY <1>0, <1>3, <1>4, <1>6, <1>7, <1>8, <1>9

LEMMA AnswerExtends ==
    ASSUME Typed, answer
    PROVE  DOMAIN input' \subseteq Nat /\ \A i \in 1 .. Len(input) : input'[i] = input[i]
<1> DEFINE command == Head(pending)
<1>1. pending # <<>> /\ command \in Commands
  BY DEF answer, Typed, Link
<1>2. PICK reply \in Accepted(command) \union {Refused(command), <<>>} : Answers(reply)
  BY DEF answer
<1>3. reply \in Seq(AllLines)
  <2>1. reply \in Seq(AnswerLines(command))
    BY <1>1, RepliesAnswer DEF Typed
  <2>2. \A line \in AnswerLines(command) : line \in AllLines
    BY DEF AnswerLines
  <2> QED BY <2>1, <2>2
<1>4. input' \in Seq(AllLines) /\ \A i \in 1 .. Len(input) : input'[i] = input[i]
  BY <1>1, <1>2, <1>3, AnswersShape
<1> QED BY <1>4

LEMMA AnswerRows ==
    ASSUME Typed, ListsGrouped, NeighborInv, answer
    PROVE  NeighborInv'
<1>0. UNCHANGED <<wakeUp, phase, state, object, scan, neighbors>>
  BY DEF answer, module, list
<1> DEFINE n == Len(input)
<1>1. PICK command \in Commands :
      \E reply \in Accepted(command) \union {Refused(command), <<>>} :
              /\ command = pending[1] /\ 1 \in DOMAIN pending
              /\ \A i \in DOMAIN input : i \in 1 .. n
              /\ \A i \in DOMAIN reply : reply[i] \in AnswerLines(command)
              /\ \A i \in DOMAIN input' :
                    \/ i \in DOMAIN input /\ input'[i] = input[i]
                    \/ /\ i > n /\ i - n \in DOMAIN reply /\ input'[i] = reply[i - n]
              /\ \A j \in DOMAIN reply : input'[j + n] = reply[j]
              /\ \A i \in DOMAIN pending' : i \in Nat /\ i > 0 /\ pending'[i] = pending[i + 1]
                                            /\ i + 1 \in DOMAIN pending
              /\ n \in Nat
  BY AnswerForm
<1>2. PICK reply \in Accepted(command) \union {Refused(command), <<>>} :
              /\ command = pending[1] /\ 1 \in DOMAIN pending
              /\ \A i \in DOMAIN input : i \in 1 .. n
              /\ \A i \in DOMAIN reply : reply[i] \in AnswerLines(command)
              /\ \A i \in DOMAIN input' :
                    \/ i \in DOMAIN input /\ input'[i] = input[i]
                    \/ /\ i > n /\ i - n \in DOMAIN reply /\ input'[i] = reply[i - n]
              /\ \A j \in DOMAIN reply : input'[j + n] = reply[j]
              /\ \A i \in DOMAIN pending' : i \in Nat /\ i > 0 /\ pending'[i] = pending[i + 1]
                                            /\ i + 1 \in DOMAIN pending
              /\ n \in Nat
  BY <1>1
<1> HIDE DEF n
<1>3. \A i \in DOMAIN reply : IsRow(reply[i]) =>
         /\ command = "AT+QOPS" /\ reply[i].at = wakeUp
         /\ Cell(reply[i]) => Under(reply, i, reply[i].of)
  BY RowsAnswer
<1>4. DOMAIN reply \subseteq Nat
  <2>1. reply \in Seq(AnswerLines(command))
    BY RepliesAnswer DEF Typed
  <2> QED BY <2>1
<1>8. /\ DOMAIN input' \subseteq Nat
      /\ \A i \in 1 .. Len(input) : input'[i] = input[i]
  BY AnswerExtends
<1>9. \A i \in DOMAIN reply : \A k \in 1 .. i : k \in DOMAIN reply
  <2>1. reply \in Seq(AnswerLines(command))
    BY RepliesAnswer DEF Typed
  <2> QED BY <2>1
<1>5. CASE phase = "listing"
  <2>1. KeptGrouped'
    BY <1>0, <1>5 DEF NeighborInv, KeptGrouped
  <2>2. ASSUME NEW i \in DOMAIN input', IsRow(input'[i]) PROVE input'[i].at = wakeUp
    BY <1>2, <1>3, <1>5, <2>2 DEF NeighborInv, ReadGrouped
  <2>3. ASSUME NEW i \in DOMAIN input', Cell(input'[i])
        PROVE  \/ Under(input', i, input'[i].of)
               \/ (\A j \in 1 .. i - 1 : ~Operator(input'[j])) /\ BelowKept(input'[i].of)
    <3>1. CASE i \in DOMAIN input /\ input'[i] = input[i]
      <4>1. i \in 1 .. n /\ DOMAIN input = 1 .. n
        BY <1>2, <3>1 DEF Typed, Link, n
      <4>2. \A j \in 1 .. i - 1 : input'[j] = input[j]
        BY <1>8, <4>1 DEF n
      <4>3. \/ Under(input, i, input[i].of)
            \/ (\A j \in 1 .. i - 1 : ~Operator(input[j])) /\ BelowKept(input[i].of)
        BY <1>5, <2>3, <3>1 DEF NeighborInv, ReadGrouped
      <4>4. ASSUME Under(input, i, input[i].of) PROVE Under(input', i, input[i].of)
        <5>1. PICK j \in 1 .. i - 1 : /\ Operator(input[j]) /\ input[j].of = input[i].of
                                      /\ \A k \in j + 1 .. i - 1 : ~Operator(input[k])
          BY <4>4 DEF Under
        <5>2. \A k \in j + 1 .. i - 1 : k \in 1 .. i - 1
          OBVIOUS
        <5> QED BY <4>2, <5>1, <5>2 DEF Under
      <4> QED BY <3>1, <4>2, <4>3, <4>4
    <3>2. CASE i > n /\ i - n \in DOMAIN reply /\ input'[i] = reply[i - n]
      <4>1. Under(reply, i - n, reply[i - n].of)
        BY <1>3, <2>3, <3>2 DEF IsRow
      <4>2. PICK j \in 1 .. i - n - 1 :
                 /\ Operator(reply[j]) /\ reply[j].of = reply[i - n].of
                 /\ \A k \in j + 1 .. i - n - 1 : ~Operator(reply[k])
        BY <4>1 DEF Under
      <4>3. i \in Nat /\ i - n \in Nat /\ n \in Nat
        BY <1>2, <1>4, <1>8, <3>2
      <4>4. \A k \in 1 .. i - n - 1 : k \in DOMAIN reply
        BY <1>9, <3>2, <4>3
      <4>5. j + n \in 1 .. i - 1 /\ input'[j + n] = reply[j]
        BY <1>2, <4>3, <4>4
      <4>6. ASSUME NEW k \in j + n + 1 .. i - 1 PROVE ~Operator(input'[k])
        <5>1. k - n \in j + 1 .. i - n - 1 /\ k - n \in 1 .. i - n - 1 /\ (k - n) + n = k
          BY <4>3
        <5>2. input'[k] = reply[k - n]
          BY <1>2, <4>4, <5>1
        <5> QED BY <4>2, <5>1, <5>2
      <4>7. \A k \in (j + n) + 1 .. i - 1 : ~Operator(input'[k])
        BY <4>3, <4>6
      <4> QED BY <3>2, <4>2, <4>5, <4>7 DEF Under
    <3> QED BY <1>2, <3>1, <3>2
  <2>5. ReadGrouped'
    BY <1>0, <2>2, <2>3 DEF ReadGrouped, BelowKept
  <2> QED BY <1>0, <1>5, <2>1, <2>5 DEF NeighborInv
<1>6. CASE phase = "exchanging"
  BY <1>0, <1>6 DEF NeighborInv
<1>7. CASE Elsewhere
  <2>1. ASSUME NoList PROVE NoList' /\ (NoRow => NoRow')
    <3>1. command # "AT+QOPS"
      BY <1>2, <2>1 DEF NoList
    <3>2. NoList'
      BY <1>2, <2>1 DEF NoList
    <3>3. NoRow => NoRow'
      BY <1>2, <1>3, <3>1 DEF NoRow
    <3> QED BY <3>2, <3>3
  <2>2. ASSUME RowsFirst, state = "CheckingSignalStrength" PROVE RowsFirst'
    <3>1. ASSUME NEW i \in DOMAIN input', NEW j \in DOMAIN input',
                 IsRow(input'[i]), Tells(input'[j]) = state
          PROVE  i < j
      <4>1. CASE j \in DOMAIN input /\ input'[j] = input[j]
        <5>1. NoList
          BY <2>2, <3>1, <4>1 DEF RowsFirst
        <5>2. command # "AT+QOPS"
          BY <1>2, <5>1 DEF NoList
        <5>3. i \in DOMAIN input /\ input'[i] = input[i]
          BY <1>2, <1>3, <3>1, <5>2
        <5> QED BY <2>2, <3>1, <4>1, <5>3 DEF RowsFirst
      <4>2. CASE j > n /\ j - n \in DOMAIN reply /\ input'[j] = reply[j - n]
        <5>1. reply[j - n] \in AnswerLines(command) /\ Tells(reply[j - n]) = state
          BY <1>2, <3>1, <4>2
        <5>2. Asks(command) = state
          BY <2>2, <5>1 DEF AnswerLines
        <5>3. command # "AT+QOPS"
          BY <2>2, <5>2 DEF Asks
        <5>4. i \in DOMAIN input
          BY <1>2, <1>3, <3>1, <5>3
        <5>5. i \in 1 .. n /\ j \in Nat
          BY <1>2, <1>8, <5>4
        <5> QED BY <1>2, <4>2, <5>5
      <4> QED BY <1>2, <3>1, <4>1, <4>2
    <3>2. ASSUME NEW i \in DOMAIN pending', NEW j \in DOMAIN pending',
                 pending'[i] = "AT+QOPS", Asks(pending'[j]) = state
          PROVE  i < j
      <4>1. i + 1 < j + 1
        BY <1>2, <2>2, <3>2 DEF RowsFirst
      <4> QED BY <1>2, <4>1
    <3>3. ASSUME NEW j \in DOMAIN input', Tells(input'[j]) = state PROVE NoList'
      <4>1. CASE j \in DOMAIN input /\ input'[j] = input[j]
        BY <2>1, <2>2, <3>3, <4>1 DEF RowsFirst
      <4>2. CASE j > n /\ j - n \in DOMAIN reply /\ input'[j] = reply[j - n]
        <5>1. reply[j - n] \in AnswerLines(command) /\ Tells(reply[j - n]) = state
          BY <1>2, <3>3, <4>2
        <5>2. Asks(pending[1]) = state
          BY <1>2, <2>2, <5>1 DEF AnswerLines
        <5>3. \A i \in DOMAIN pending : pending[i] = "AT+QOPS" => i < 1
          BY <1>2, <2>2, <5>2 DEF RowsFirst
        <5> QED BY <1>2, <5>3 DEF NoList
      <4> QED BY <1>2, <3>3, <4>1, <4>2
    <3>4. object'.retrieved => NoRow' /\ NoList'
      BY <1>0, <2>1, <2>2 DEF RowsFirst
    <3> QED BY <1>0, <3>1, <3>2, <3>3, <3>4 DEF RowsFirst
  <2>3. Early' = Early
    BY <1>0 DEF Early
  <2>4. (~Early => NoRow /\ NoList) /\ (state = "CheckingSignalStrength" => RowsFirst)
    BY <1>7 DEF NeighborInv, Elsewhere
  <2>5. phase' # "listing" /\ UNCHANGED <<scan, state>>
    BY <1>0, <1>7 DEF Elsewhere
  <2> QED BY <1>7, <2>1, <2>2, <2>3, <2>4, <2>5, SameList
<1> QED BY <1>5, <1>6, <1>7 DEF Elsewhere

-----------------------------------------------------------------------------
(* The states that want information. *)
LEMMA InquiryRows ==
    ASSUME Typed, ChainInv, NeighborInv, Inquiries
    PROVE  NeighborInv'
<1>1. phase = "connecting" /\ state \in Informed /\ Elsewhere
  BY InquiryForm DEF Elsewhere
<1>2. CASE Send(Inquiry(state))
  <2>1. /\ Inquiry(state) \in Seq(Commands)
        /\ \A i \in DOMAIN Inquiry(state) : Inquiry(state)[i] # "AT+QOPS"
    <3>1. CASE state = "ConsultingNetworkStatus"
      <4>1. Inquiry(state) = <<"AT+CREG=2", "AT+CREG?">>
        BY <3>1 DEF Inquiry
      <4>2. "AT+CREG=2" \in Commands /\ "AT+CREG?" \in Commands
        BY DEF Commands
      <4> QED BY <4>1, <4>2
    <3>2. CASE state # "ConsultingNetworkStatus"
      <4>1. PICK c \in Commands : Inquiry(state) = <<c>> /\ c # "AT+QOPS"
        BY <1>1, <3>2 DEF Inquiry, Commands, Informed, Fields
      <4> QED BY <4>1
    <3> QED BY <3>1, <3>2
  <2> QED BY <1>1, <1>2, <2>1, SendRows
<1>3. CASE AwaitInfo
  BY <1>1, <1>3, AwaitInfoRows
<1>4. CASE \E store, pass \in BOOLEAN : AwaitOKBehind(store, pass, Behind(state))
  <2>1. PICK store, pass \in BOOLEAN : AwaitOKBehind(store, pass, Behind(state))
    BY <1>4
  <2>2. /\ object.retrieved /\ input # <<>> /\ input' = Tail(input)
        /\ UNCHANGED <<phase, scan, pending>>
        /\ \/ UNCHANGED <<state, object>>
           \/ state' = Behind(state)
    BY <2>1 DEF AwaitOKBehind, readATResponse, changeConnectionState, list, modem
  <2>3. Later(1) /\ Elsewhere' /\ phase' # "listing"
    BY <1>1, <2>2, ReadIsLater DEF Typed, Elsewhere
  <2>4. NoRow /\ NoList
    <3>1. CASE state = "CheckingSignalStrength"
      BY <1>1, <2>2, <3>1 DEF NeighborInv, RowsFirst, Elsewhere
    <3>2. CASE state # "CheckingSignalStrength"
      BY <1>1, <3>2 DEF NeighborInv, Elsewhere, Early, Informed, Fields
    <3> QED BY <3>1, <3>2
  <2>5. CASE UNCHANGED <<state, object>>
    BY <1>1, <2>2, <2>3, <2>5, RowsOnward
  <2>6. CASE state' = Behind(state)
    <3>1. state' # "CheckingSignalStrength"
      BY <2>6 DEF Behind
    <3> QED BY <1>1, <2>2, <2>3, <2>4, <3>1, RowsGone
  <2> QED BY <2>2, <2>5, <2>6
<1>5. CASE poorSignal
  <2>1. /\ input # <<>> /\ input' = Tail(input) /\ UNCHANGED <<state, scan, pending>>
        /\ phase' \in {phase, "turning off"}
    BY <1>5 DEF poorSignal, readATResponse, list, modem
  <2>2. object'.retrieved = object.retrieved
    BY <1>5 DEF poorSignal, Typed, Findings, Objects
  <2>3. Later(1) /\ Elsewhere'
    BY <1>1, <2>1, ReadIsLater DEF Typed, Elsewhere
  <2> QED BY <1>1, <2>1, <2>2, <2>3, RowsOnward
<1>6. CASE \E max \in Nat, kept \in BOOLEAN : timeOut(max, 0, kept)
  BY <1>1, <1>6, TimeOutRows
<1> QED BY <1>2, <1>3, <1>4, <1>5, <1>6, InquiryForm

(* The states that wait for an OK.  When CheckingSignalStrength is entered   *)
(* nobody has asked for its information yet.                                 *)
LEMMA PlainStatesRows ==
    ASSUME Typed, ChainInv, NeighborInv, idle \/ attachingToPacketService \/ definePDPContext
    PROVE  NeighborInv'
<1>1. ASSUME NEW c \in {"ATI", "AT+CGATT=1", "AT+CGDCONT"}, Elsewhere, Send(<<c>>)
      PROVE  NeighborInv'
  <2>1. <<c>> \in Seq(Commands) /\ \A i \in DOMAIN <<c>> : <<c>>[i] # "AT+QOPS"
    BY DEF Commands
  <2> QED BY <1>1, <2>1, SendRows
<1>2. ASSUME NEW next, AwaitOK(next), Elsewhere
      PROVE  /\ Later(1) /\ Elsewhere' /\ phase' # "listing" /\ UNCHANGED <<scan, pending>>
             /\ UNCHANGED <<state, object>> \/ (state' = next /\ object' = New)
  <2>1. /\ input # <<>> /\ input' = Tail(input) /\ UNCHANGED <<phase, scan, pending>>
        /\ UNCHANGED <<state, object>> \/ (state' = next /\ object' = New)
    BY <1>2 DEF AwaitOK, readATResponse, changeConnectionState, list, modem
  <2> QED BY <1>2, <2>1, ReadIsLater DEF Typed, Elsewhere
<1>3. CASE idle
  <2>1. state = "IdleState" /\ phase = "connecting" /\ Elsewhere
    BY <1>3 DEF idle, Connecting, Elsewhere
  <2>2. CASE Send(<<"ATI">>)
    BY <1>1, <2>1, <2>2
  <2>3. CASE AwaitOK("CheckingSignalStrength")
    <3>1. /\ Later(1) /\ Elsewhere' /\ phase' # "listing" /\ UNCHANGED <<scan, pending>>
          /\ \/ UNCHANGED <<state, object>>
             \/ state' = "CheckingSignalStrength" /\ object' = New
      BY <1>2, <2>1, <2>3
    <3>2. CASE UNCHANGED <<state, object>>
      BY <2>1, <3>1, <3>2, RowsOnward
    <3>3. CASE state' = "CheckingSignalStrength" /\ object' = New
      <4>1. /\ \A i \in DOMAIN input : Tells(input[i]) # "CheckingSignalStrength"
            /\ \A i \in DOMAIN pending : Asks(pending[i]) # "CheckingSignalStrength"
        BY <2>1 DEF ChainInv, InOrder, Current, Sent, Previous
      <4>2. \A i \in DOMAIN input' : input'[i] = input[i + 1] /\ i + 1 \in DOMAIN input
        BY <3>1, LaterLines
      <4>3. RowsFirst'
        BY <3>1, <3>3, <4>1, <4>2 DEF RowsFirst, New
      <4>4. Early'
        BY <3>3 DEF Early
      <4> QED BY <2>1, <3>1, <4>3, <4>4, SameList
    <3> QED BY <3>1, <3>2, <3>3
  <2>4. CASE timeOut(MaxAttempts, object.connectionAttempts + 1, FALSE)
    BY <2>1, <2>4, TimeOutRows
  <2> QED BY <1>3, <2>2, <2>3, <2>4 DEF idle
<1>4. ASSUME Connecting(state), ~Early, NEW c \in {"AT+CGATT=1", "AT+CGDCONT"},
             NEW next \in {"DefinePDPContext", "ConnectedState"},
             Send(<<c>>) \/ AwaitOK(next) \/ timeOut(MaxAttempts, 0, FALSE)
      PROVE  NeighborInv'
  <2>1. Elsewhere
    BY <1>4 DEF Connecting, Elsewhere
  <2>2. CASE Send(<<c>>)
    BY <1>1, <2>1, <2>2
  <2>3. CASE AwaitOK(next)
    <3>1. /\ Later(1) /\ Elsewhere' /\ phase' # "listing" /\ UNCHANGED <<scan, pending>>
          /\ UNCHANGED <<state, object>> \/ (state' = next /\ object' = New)
      BY <1>2, <2>1, <2>3
    <3>2. CASE UNCHANGED <<state, object>>
      BY <2>1, <3>1, <3>2, RowsOnward
    <3>3. CASE state' = next
      BY <1>4, <2>1, <3>1, <3>3, RowsGone DEF NeighborInv, Elsewhere
    <3> QED BY <3>1, <3>2, <3>3
  <2>4. CASE timeOut(MaxAttempts, 0, FALSE)
    BY <1>4, <2>4, TimeOutRows DEF Connecting
  <2> QED BY <1>4, <2>2, <2>3, <2>4
<1>5. CASE attachingToPacketService
  <2>1. ~Early /\ Connecting(state)
    BY <1>5 DEF attachingToPacketService, Connecting, Early
  <2> QED BY <1>4, <1>5, <2>1 DEF attachingToPacketService
<1>6. CASE definePDPContext
  <2>1. ~Early /\ Connecting(state)
    BY <1>6 DEF definePDPContext, Connecting, Early
  <2> QED BY <1>4, <1>6, <2>1 DEF definePDPContext
<1> QED BY <1>3, <1>5, <1>6

-----------------------------------------------------------------------------
(* The list itself: a row read from the line goes behind those kept. *)
LEMMA RowKept ==
    ASSUME Typed, NeighborInv, phase = "listing", readRow
    PROVE  NeighborInv'
<1> DEFINE rows == scan.rows
           line == Head(input)
<1>0. /\ Asked /\ input # <<>> /\ input' = Tail(input) /\ UNCHANGED <<wakeUp, phase, neighbors>>
      /\ scan' = [scan EXCEPT !.rows = keepRow(line)]
  BY DEF readRow, Listing, readATResponse
<1>1. rows \in Seq(AllLines) /\ Len(rows) \in Nat /\ DOMAIN rows = 1 .. Len(rows) /\ Len(rows) <= MaxRows
      /\ MaxRows \in Nat
  BY ConnectionAssumption DEF Typed, Listed
<1>2. /\ scan'.rows = keepRow(line) /\ scan'.vectorCleared = scan.vectorCleared
      /\ scan.vectorCleared
  BY <1>0 DEF Typed, Listed, Asked
<1>3. Later(1) /\ line = input[1] /\ line \in AllLines /\ 1 \in DOMAIN input
  BY <1>0, ReadIsLater DEF Typed
<1>4. /\ \A i \in DOMAIN input' : input'[i] = input[i + 1] /\ i + 1 \in DOMAIN input
      /\ DOMAIN input' \subseteq Nat
  <2>1. DOMAIN input' = 1 .. Len(input') /\ Len(input) \in Nat /\ Len(input') = Len(input) - 1
        /\ \A i \in DOMAIN input' : input'[i] = input[i + 1] /\ i + 1 \in DOMAIN input
    BY <1>3, LaterLines
  <2> QED BY <2>1
<1>5. KeptGrouped /\ ReadGrouped /\ neighbors = <<>>
  BY <1>2 DEF NeighborInv
<1>6. CASE Len(rows) < MaxRows
  <2>1. scan'.rows = Append(rows, line)
    BY <1>2, <1>6 DEF keepRow
  <2>2. /\ Len(scan'.rows) = Len(rows) + 1 /\ DOMAIN scan'.rows = 1 .. Len(rows) + 1
        /\ scan'.rows[Len(rows) + 1] = line
        /\ \A j \in 1 .. Len(rows) : scan'.rows[j] = rows[j]
    BY <1>1, <1>3, <2>1
  <2> DEFINE n == Len(rows)
             new == scan'.rows
  <2>3. /\ n \in Nat /\ Len(new) = n + 1 /\ DOMAIN new = 1 .. n + 1 /\ new[n + 1] = line
        /\ \A j \in 1 .. n : new[j] = rows[j]
    BY <1>1, <2>2
  <2> HIDE DEF n, new
  <2>4. ASSUME NEW i \in 1 .. n + 1, NEW op, Under(rows, i, op)
        PROVE  Under(new, i, op)
    <3>1. PICK j \in 1 .. i - 1 : /\ Operator(rows[j]) /\ rows[j].of = op
                                  /\ \A k \in j + 1 .. i - 1 : ~Operator(rows[k])
      BY <2>4 DEF Under
    <3>2. j \in 1 .. n /\ \A k \in j + 1 .. i - 1 : k \in 1 .. n
      BY <2>3
    <3> QED BY <2>3, <3>1, <3>2 DEF Under
  <2>5. \A op : BelowKept(op) => Under(new, n + 1, op)
    <3>1. n # MaxRows /\ n + 1 \in 1 .. n + 1
      BY <1>1, <1>6, <2>3 DEF n
    <3> QED BY <2>4, <3>1 DEF BelowKept, n
  <2>6. ASSUME NEW i \in DOMAIN new
        PROVE  /\ IsRow(new[i]) => new[i].at = wakeUp
               /\ Cell(new[i]) => Under(new, i, new[i].of)
    <3>1. CASE i \in 1 .. n
      <4>1. /\ IsRow(rows[i]) => rows[i].at = wakeUp
            /\ Cell(rows[i]) => Under(rows, i, rows[i].of)
        BY <1>1, <1>5, <3>1 DEF KeptGrouped, n
      <4>2. i \in 1 .. n + 1
        BY <2>3, <3>1
      <4> QED BY <2>3, <2>4, <3>1, <4>1, <4>2
    <3>2. CASE i = n + 1
      <4>1. IsRow(line) => line.at = wakeUp
        BY <1>3, <1>5 DEF ReadGrouped
      <4>2. ASSUME Cell(line) PROVE Under(new, n + 1, line.of)
        <5>1. ~Under(input, 1, line.of)
          BY DEF Under
        <5>2. BelowKept(line.of)
          BY <1>3, <1>5, <4>2, <5>1 DEF ReadGrouped
        <5> QED BY <2>5, <5>2
      <4> QED BY <2>3, <3>2, <4>1, <4>2
    <3> QED BY <2>3, <2>6, <3>1, <3>2
  <2>7. ASSUME NEW i \in DOMAIN input', Cell(input'[i])
        PROVE  \/ Under(input', i, input'[i].of)
               \/ (\A j \in 1 .. i - 1 : ~Operator(input'[j])) /\ Under(new, n + 2, input'[i].of)
    <3> DEFINE op == input'[i].of
    <3>0. /\ i \in Nat /\ i > 0 /\ i + 1 \in DOMAIN input /\ input'[i] = input[i + 1]
          /\ \A k \in 1 .. i - 1 : k \in DOMAIN input'
      <4>1. DOMAIN input' = 1 .. Len(input') /\ Len(input') \in Nat
        BY <1>3, LaterLines
      <4>2. i \in Nat /\ i > 0 /\ \A k \in 1 .. i - 1 : k \in DOMAIN input'
        BY <4>1, <2>7
      <4> QED BY <1>4, <2>7, <4>2
    <3>1. \A k \in 1 .. i - 1 : input'[k] = input[k + 1]
      BY <1>4, <3>0
    <3>2. CASE Under(input, i + 1, op)
      <4>1. PICK j \in 1 .. i : /\ Operator(input[j]) /\ input[j].of = op
                                /\ \A k \in j + 1 .. i : ~Operator(input[k])
        <5>1. (i + 1) - 1 = i
          BY <3>0
        <5> QED BY <3>2, <5>1 DEF Under
      <4>2. ASSUME NEW k \in j .. i - 1 PROVE ~Operator(input'[k])
        <5>1. k + 1 \in j + 1 .. i /\ k \in 1 .. i - 1
          BY <3>0
        <5> QED BY <3>1, <4>1, <5>1
      <4>3. CASE j = 1
        <5>1. \A k \in 1 .. i - 1 : ~Operator(input'[k])
          BY <4>2, <4>3
        <5>2. Operator(new[n + 1]) /\ new[n + 1].of = op
          BY <1>3, <2>3, <4>1, <4>3
        <5>3. n + 1 \in 1 .. (n + 2) - 1 /\ (n + 1) + 1 .. (n + 2) - 1 = {}
          BY <2>3
        <5> QED BY <5>1, <5>2, <5>3 DEF Under
      <4>4. CASE j # 1
        <5>1. j - 1 \in 1 .. i - 1 /\ (j - 1) + 1 = j
          BY <3>0, <4>4
        <5>2. Operator(input'[j - 1]) /\ input'[j - 1].of = op
          BY <3>1, <4>1, <5>1
        <5>3. \A k \in (j - 1) + 1 .. i - 1 : ~Operator(input'[k])
          BY <4>2, <5>1
        <5> QED BY <5>1, <5>2, <5>3 DEF Under
      <4> QED BY <4>3, <4>4
    <3>3. CASE (\A j \in 1 .. (i + 1) - 1 : ~Operator(input[j])) /\ BelowKept(op)
      <4>1. \A k \in 1 .. i : ~Operator(input[k])
        BY <3>0, <3>3
      <4>2. \A k \in 1 .. i - 1 : k + 1 \in 1 .. i
        BY <3>0
      <4>3. \A k \in 1 .. i - 1 : ~Operator(input'[k])
        BY <3>1, <4>1, <4>2
      <4>4. 1 \in 1 .. i
        BY <3>0
      <4>5. ~Operator(new[n + 1]) /\ Under(new, n + 1, op)
        BY <1>3, <2>3, <2>5, <3>3, <4>1, <4>4
      <4>6. PICK j \in 1 .. n : /\ Operator(new[j]) /\ new[j].of = op
                                /\ \A k \in j + 1 .. n : ~Operator(new[k])
        <5>1. (n + 1) - 1 = n
          BY <2>3
        <5> QED BY <4>5, <5>1 DEF Under
      <4>7. j \in 1 .. (n + 2) - 1 /\ \A k \in j + 1 .. (n + 2) - 1 : k \in j + 1 .. n \/ k = n + 1
        BY <2>3
      <4> QED BY <4>3, <4>5, <4>6, <4>7 DEF Under
    <3> QED BY <1>5, <2>7, <3>0, <3>2, <3>3 DEF ReadGrouped
  <2>8. \A i \in DOMAIN input' : IsRow(input'[i]) => input'[i].at = wakeUp
    BY <1>4, <1>5 DEF ReadGrouped
  <2>9. KeptGrouped'
    BY <1>0, <2>6 DEF KeptGrouped, new
  <2>10. \A op : Under(new, n + 2, op) => BelowKept(op)'
    <3>1. (n + 1) + 1 = n + 2
      BY <2>3
    <3> QED BY <2>3, <3>1 DEF BelowKept, new
  <2>11. ReadGrouped'
    BY <1>0, <2>7, <2>8, <2>10 DEF ReadGrouped
  <2> QED BY <1>0, <1>2, <1>5, <2>9, <2>11 DEF NeighborInv
<1>7. CASE ~(Len(rows) < MaxRows)
  <2>1. scan'.rows = rows /\ Len(rows) = MaxRows
    BY <1>1, <1>2, <1>7 DEF keepRow
  <2>2. KeptGrouped' /\ \A op : BelowKept(op)'
    BY <1>0, <1>5, <2>1 DEF KeptGrouped, BelowKept
  <2>3. ASSUME NEW i \in DOMAIN input', Cell(input'[i])
        PROVE  Under(input', i, input'[i].of) \/ \A j \in 1 .. i - 1 : ~Operator(input'[j])
    <3> SUFFICES ASSUME NEW j \in 1 .. i - 1, Operator(input'[j])
                 PROVE  Under(input', i, input'[i].of)
      OBVIOUS
    <3>0. /\ i \in Nat /\ i > 0 /\ i + 1 \in DOMAIN input /\ input'[i] = input[i + 1]
          /\ \A k \in 1 .. i - 1 : k \in DOMAIN input'
      <4>1. DOMAIN input' = 1 .. Len(input') /\ Len(input') \in Nat
        BY <1>3, LaterLines
      <4>2. i \in Nat /\ i > 0 /\ \A k \in 1 .. i - 1 : k \in DOMAIN input'
        BY <4>1, <2>3
      <4> QED BY <1>4, <2>3, <4>2
    <3>1. \A k \in 1 .. i - 1 : input'[k] = input[k + 1]
      BY <1>4, <3>0
    <3>2. j + 1 \in 1 .. (i + 1) - 1 /\ Operator(input[j + 1]) /\ (i + 1) - 1 = i
      BY <3>0, <3>1
    <3>3. Under(input, i + 1, input'[i].of)
      BY <1>5, <2>3, <3>0, <3>2 DEF ReadGrouped
    <3>4. PICK m \in 1 .. i : /\ Operator(input[m]) /\ input[m].of = input'[i].of
                              /\ \A k \in m + 1 .. i : ~Operator(input[k])
      BY <3>2, <3>3 DEF Under
    <3>5. m # 1
      <4>1. m = 1 => j + 1 \in m + 1 .. i
        BY <3>0
      <4> QED BY <3>2, <3>4, <4>1
    <3>6. m - 1 \in 1 .. i - 1 /\ (m - 1) + 1 = m
      BY <3>0, <3>5
    <3>7. Operator(input'[m - 1]) /\ input'[m - 1].of = input'[i].of
      BY <3>1, <3>4, <3>6
    <3>8. ASSUME NEW k \in (m - 1) + 1 .. i - 1 PROVE ~Operator(input'[k])
      <4>1. k \in 1 .. i - 1 /\ k + 1 \in m + 1 .. i
        BY <3>0, <3>6
      <4> QED BY <3>1, <3>4, <4>1
    <3> QED BY <3>6, <3>7, <3>8 DEF Under
  <2>4. \A i \in DOMAIN input' : IsRow(input'[i]) => input'[i].at = wakeUp
    BY <1>4, <1>5 DEF ReadGrouped
  <2>5. ReadGrouped'
    BY <1>0, <2>2, <2>3, <2>4 DEF ReadGrouped
  <2> QED BY <1>0, <1>2, <1>5, <2>2, <2>5 DEF NeighborInv
<1> QED BY <1>6, <1>7

LEMMA ListRows ==
    ASSUME Typed, NeighborInv, askForCells \/ readRow \/ endList \/ listTimesOut
    PROVE  NeighborInv'
<1>1. phase = "listing" /\ UNCHANGED wakeUp
  BY DEF askForCells, readRow, endList, listTimesOut, Listing
<1>2. CASE askForCells
  <2>1. /\ UNCHANGED <<phase, input>>
        /\ neighbors' = IF scan.vectorCleared THEN neighbors ELSE <<>>
        /\ scan'.rows = scan.rows /\ scan'.vectorCleared = TRUE
    BY <1>2 DEF askForCells, Typed, Listed
  <2>2. KeptGrouped' /\ ReadGrouped' /\ neighbors' = <<>>
    BY <1>1, <2>1 DEF NeighborInv, KeptGrouped, ReadGrouped, BelowKept
  <2> QED BY <1>1, <2>1, <2>2 DEF NeighborInv
<1>3. CASE readRow
  BY <1>1, <1>3, RowKept
<1>4. CASE endList
  BY <1>4 DEF endList, NeighborInv, NoScan
<1>5. CASE listTimesOut
  <2>1. CASE scan' = GiveUpList /\ phase' = "exchanging"
    BY <2>1 DEF NeighborInv, GiveUpList, NoScan
  <2>2. CASE ~(scan' = GiveUpList /\ phase' = "exchanging")
    <3>1. /\ UNCHANGED <<phase, input, neighbors>>
          /\ scan'.rows = scan.rows /\ scan'.vectorCleared = scan.vectorCleared
      BY <1>5, <2>2 DEF listTimesOut, Typed, Listed
    <3>2. KeptGrouped' /\ ReadGrouped'
      BY <1>1, <3>1 DEF NeighborInv, KeptGrouped, ReadGrouped, BelowKept
    <3> QED BY <1>1, <3>1, <3>2 DEF NeighborInv
  <2> QED BY <2>1, <2>2
<1> QED BY <1>2, <1>3, <1>4, <1>5

(* A list begins with its variables cleared and nothing of another on the    *)
(* line.                                                                     *)
LEMMA CourseRows ==
    ASSUME Typed, NeighborInv,
           \/ enableConnection \/ connected \/ exchangeMessages \/ pursue
           \/ goToSleep \/ turnedOff \/ awake
    PROVE  NeighborInv'
<1>1. CASE enableConnection
  <2>1. phase = "connecting" /\ UNCHANGED <<phase, scan>> /\ state' = "IdleState"
    BY <1>1 DEF enableConnection, Connecting, changeConnectionState, list
  <2> QED BY <2>1, SameList DEF Elsewhere, Early
<1>2. CASE connected
  <2>1. /\ phase = "connecting" /\ state = "ConnectedState" /\ UNCHANGED <<scan, input>>
        /\ phase' \in {"listing", "exchanging"}
    BY <1>2 DEF connected, Connecting, list
  <2>2. NoRow /\ scan.rows = <<>> /\ ~scan.vectorCleared
    BY <2>1 DEF NeighborInv, Early
  <2>3. KeptGrouped' /\ ReadGrouped'
    BY <2>1, <2>2 DEF KeptGrouped, ReadGrouped, NoRow, IsRow
  <2> QED BY <2>1, <2>2, <2>3 DEF NeighborInv
<1>3. CASE exchangeMessages
  <2>1. /\ phase = "exchanging" /\ phase' = "finished" /\ UNCHANGED scan
        /\ state' = "ConnectionUnavailableState"
    BY <1>3 DEF exchangeMessages, changeConnectionState, list
  <2> QED BY <2>1 DEF NeighborInv, Early
<1>4. CASE pursue \/ goToSleep \/ turnedOff \/ awake
  <2>1. /\ Elsewhere /\ Elsewhere' /\ UNCHANGED <<state, object, scan>>
        /\ pending' = pending \/ pending' = <<>>
        /\ Drain \/ UNCHANGED input
    BY <1>4 DEF pursue, goToSleep, turnedOff, awake, module, modem, list, Elsewhere
  <2>2. PICK k : Later(k)
    BY <2>1, DrainIsLater, SameIsLater DEF Typed
  <2> QED BY <2>1, <2>2, RowsOnward
<1> QED BY <1>1, <1>2, <1>3, <1>4

LEMMA NeighborStep ==
    ASSUME Typed, ChainInv, ListsGrouped, NeighborInv, [Next]_vars
    PROVE  NeighborInv'
<1>1. CASE UNCHANGED vars
  <2>1. UNCHANGED <<wakeUp, phase, state, object, scan, neighbors, input, pending>>
    BY <1>1 DEF vars, module, list, modem
  <2>2. KeptGrouped' = KeptGrouped /\ ReadGrouped' = ReadGrouped
    BY <2>1 DEF KeptGrouped, ReadGrouped, BelowKept
  <2>3. RowsFirst' = RowsFirst /\ NoRow' = NoRow /\ NoList' = NoList /\ Early' = Early
    BY <2>1 DEF RowsFirst, NoRow, NoList, Early
  <2> QED BY <2>1, <2>2, <2>3 DEF NeighborInv
<1>2. CASE Inquiries
  BY <1>2, InquiryRows
<1>3. CASE idle \/ attachingToPacketService \/ definePDPContext
  BY <1>3, PlainStatesRows
<1>4. CASE askForCells \/ readRow \/ endList \/ listTimesOut
  BY <1>4, ListRows
<1>5. CASE \/ enableConnection \/ connected \/ exchangeMessages \/ pursue
           \/ goToSleep \/ turnedOff \/ awake
  BY <1>5, CourseRows
<1>6. CASE answer
  BY <1>6, AnswerRows
<1> QED BY <1>1, <1>2, <1>3, <1>4, <1>5, <1>6, Zenon DEF Next, Inquiries

(* Rows stay below their operators and those of an earlier list are gone     *)
(* before the next.                                                          *)
THEOREM NeighborInvariant == ListsGrouped => (Spec => [](Typed /\ ChainInv /\ NeighborInv))
<1> SUFFICES ASSUME ListsGrouped PROVE Spec => [](Typed /\ ChainInv /\ NeighborInv)
  OBVIOUS
<1>1. Init => NeighborInv
  BY DEF Init, NeighborInv, NoScan, Early
<1>2. Typed /\ ChainInv /\ NeighborInv /\ [Next]_vars => NeighborInv'
  BY NeighborStep
<1> QED BY <1>1, <1>2, ChainInvariant, PTL DEF Spec

-----------------------------------------------------------------------------
(* What is found in the rows, by induction over them.                        *)
LEMMA Least ==
    ASSUME NEW S \in SUBSET Nat, S # {}
    PROVE  \E m \in S : \A k \in S : ~(k < m)
<1> DEFINE R == OpToRel(<, Nat)
<1>1. IsWellFoundedOn(R, Nat)
  BY NatLessThanWellFounded
<1>2. \A x, y \in Nat : <<x, y>> \in R <=> x < y
  BY DEF OpToRel
<1> HIDE DEF R
<1>3. \E x \in S : \A y \in S : ~(<<y, x>> \in R)
  BY <1>1, WFMin
<1> QED BY <1>2, <1>3

LEMMA FoundEquation ==
    ASSUME Len(scan.rows) \in Nat
    PROVE  found = [i \in 0 .. Len(scan.rows) |->
                      IF i = 0 THEN [operator |-> scan.operator, cells |-> neighbors]
                      ELSE addRow(found[i - 1], scan.rows[i])]
<1> DEFINE n == Len(scan.rows)
           first == [operator |-> scan.operator, cells |-> neighbors]
           Gives(h, m) == h = [i \in 0 .. m |->
                                 IF i = 0 THEN first ELSE addRow(h[i - 1], scan.rows[i])]
           Missing == {m \in 0 .. n : ~\E g : Gives(g, m)}
<1>1. Missing = {}
  <2> SUFFICES ASSUME Missing # {} PROVE FALSE
    OBVIOUS
  <2>1. Missing \in SUBSET Nat
    OBVIOUS
  <2>2. PICK m \in Missing : \A k \in Missing : ~(k < m)
    BY <2>1, Least
  <2>3. m # 0
    <3>1. Gives([i \in 0 .. 0 |-> first], 0)
      OBVIOUS
    <3> QED BY <2>2, <3>1
  <2>4. m \in Nat /\ m - 1 \in 0 .. n /\ m - 1 < m
    BY <2>2, <2>3
  <2>5. PICK g : Gives(g, m - 1)
    BY <2>2, <2>4
  <2> DEFINE longer == [i \in 0 .. m |-> IF i = m THEN addRow(g[m - 1], scan.rows[m]) ELSE g[i]]
  <2>6. ASSUME NEW i \in 0 .. m
        PROVE  longer[i] = IF i = 0 THEN first ELSE addRow(longer[i - 1], scan.rows[i])
    <3>1. CASE i = m
      <4>1. m - 1 \in 0 .. m /\ m - 1 # m
        BY <2>4
      <4>2. longer[m - 1] = g[m - 1]
        BY <4>1
      <4> QED BY <2>3, <3>1, <4>2
    <3>2. CASE i # m
      <4>1. i \in 0 .. m - 1 /\ (i # 0 => i - 1 \in 0 .. m /\ i - 1 # m)
        BY <2>4, <3>2
      <4>2. g[i] = IF i = 0 THEN first ELSE addRow(g[i - 1], scan.rows[i])
        BY <2>5, <4>1
      <4>3. i # 0 => longer[i - 1] = g[i - 1]
        BY <4>1
      <4> QED BY <3>2, <4>2, <4>3
    <3> QED BY <3>1, <3>2
  <2>7. Gives(longer, m)
    BY <2>6
  <2> QED BY <2>2, <2>7
<1>2. n \in 0 .. n
  OBVIOUS
<1>3. PICK g : Gives(g, n)
  BY <1>1, <1>2
<1>4. found = CHOOSE h : Gives(h, n)
  BY DEF found
<1>5. Gives(found, n)
  BY <1>3, <1>4
<1> QED BY <1>5

(* A neighbour measured in this wake-up, with the operator it is below. *)
SoundCells == {c \in [row : Rows, operator : Nat] :
                 c.row.at = wakeUp /\ c.operator = c.row.of}

(* After i rows the operator is that of the last operator row. *)
FoundSoFar(i) ==
    /\ found[i] \in [operator : Nat \union {scan.operator},
                     cells : {cells \in Seq(SoundCells) : Len(cells) <= MaxCells}]
    /\ Len(found[i].cells) < MaxCells =>
          \A op : Under(scan.rows, i + 1, op) => found[i].operator = op

LEMMA FoundNext ==
    ASSUME Typed, KeptGrouped, NEW i \in DOMAIN scan.rows, FoundSoFar(i - 1),
           found[i] = addRow(found[i - 1], scan.rows[i])
    PROVE  FoundSoFar(i)
<1> DEFINE so == found[i - 1]
           row == scan.rows[i]
           Bounded == {cells \in Seq(SoundCells) : Len(cells) <= MaxCells}
<1>1. /\ so \in [operator : Nat \union {scan.operator}, cells : Bounded]
      /\ row \in AllLines /\ i \in Nat /\ i > 0 /\ MaxCells \in Nat
      /\ so.cells \in Seq(SoundCells) /\ Len(so.cells) \in Nat /\ Len(so.cells) <= MaxCells
      /\ (i - 1) + 1 = i /\ (i + 1) - 1 = i
  <2>1. scan.rows \in Seq(AllLines)
    BY DEF Typed, Listed
  <2>2. i \in Nat /\ i > 0 /\ row \in AllLines
    BY <2>1
  <2> QED BY <2>2, ConnectionAssumption DEF FoundSoFar
<1>2. Len(so.cells) < MaxCells => \A op : Under(scan.rows, i, op) => so.operator = op
  BY <1>1 DEF FoundSoFar
<1>3. found[i] = addRow(so, row)
  OBVIOUS
<1>4. /\ IsRow(row) => row.at = wakeUp
      /\ Cell(row) => Under(scan.rows, i, row.of)
  BY DEF KeptGrouped
<1>5. IsRow(row) => row \in Rows
  BY <1>1, RowsTellNothing
<1>6. ASSUME NEW op, Under(scan.rows, i + 1, op), ~Operator(row)
      PROVE  Under(scan.rows, i, op)
  <2>1. PICK j \in 1 .. i : /\ Operator(scan.rows[j]) /\ scan.rows[j].of = op
                            /\ \A k \in j + 1 .. i : ~Operator(scan.rows[k])
    BY <1>1, <1>6 DEF Under
  <2>2. j # i
    BY <1>6, <2>1
  <2>3. j \in 1 .. i - 1 /\ \A k \in j + 1 .. i - 1 : k \in j + 1 .. i
    BY <1>1, <2>2
  <2> QED BY <2>1, <2>3 DEF Under
<1>7. ASSUME NEW op, Under(scan.rows, i + 1, op), Operator(row)
      PROVE  op = row.of
  <2>1. PICK j \in 1 .. i : /\ Operator(scan.rows[j]) /\ scan.rows[j].of = op
                            /\ \A k \in j + 1 .. i : ~Operator(scan.rows[k])
    BY <1>1, <1>7 DEF Under
  <2>2. j # i => i \in j + 1 .. i
    BY <1>1
  <2> QED BY <1>7, <2>1, <2>2
<1> HIDE DEF so, row
<1>8. CASE Len(so.cells) >= MaxCells
  <2>1. found[i] = so
    BY <1>3, <1>8 DEF addRow
  <2>2. ~(Len(so.cells) < MaxCells)
    BY <1>1, <1>8
  <2> QED BY <1>1, <2>1, <2>2 DEF FoundSoFar
<1>9. CASE Len(so.cells) < MaxCells /\ Operator(row)
  <2>1. found[i] = [so EXCEPT !.operator = row.of]
    BY <1>1, <1>3, <1>9 DEF addRow, Operator
  <2>2. row.of \in Nat
    BY <1>5, <1>9 DEF IsRow, Rows
  <2>3. /\ found[i] \in [operator : Nat \union {scan.operator}, cells : Bounded]
        /\ found[i].operator = row.of
    BY <1>1, <2>1, <2>2
  <2> QED BY <1>7, <1>9, <2>3 DEF FoundSoFar
<1>10. CASE Len(so.cells) < MaxCells /\ Cell(row)
  <2> DEFINE new == [row |-> row, operator |-> so.operator]
  <2>1. found[i] = [so EXCEPT !.cells = Append(@, new)]
    BY <1>1, <1>3, <1>10 DEF addRow, Cell
  <2>2. so.operator = row.of /\ row \in Rows /\ row.at = wakeUp
    BY <1>2, <1>4, <1>5, <1>10 DEF IsRow
  <2>3. new \in SoundCells
    BY <2>2 DEF SoundCells, Rows
  <2> HIDE DEF new
  <2>4. Append(so.cells, new) \in Seq(SoundCells) /\ Len(Append(so.cells, new)) = Len(so.cells) + 1
    BY <1>1, <2>3
  <2>5. Append(so.cells, new) \in Bounded
    BY <1>1, <1>10, <2>4
  <2>6. /\ found[i] \in [operator : Nat \union {scan.operator}, cells : Bounded]
        /\ found[i].operator = so.operator
    BY <1>1, <2>1, <2>5
  <2>7. ~Operator(row)
    BY <1>10 DEF Operator, Cell
  <2> QED BY <1>2, <1>6, <1>10, <2>6, <2>7 DEF FoundSoFar
<1>11. CASE Len(so.cells) < MaxCells /\ ~IsRow(row)
  <2>1. found[i] = so
    BY <1>1, <1>3, <1>11 DEF addRow, IsRow, Operator, Cell
  <2>2. ~Operator(row)
    BY <1>11 DEF IsRow
  <2> QED BY <1>1, <1>2, <1>6, <1>11, <2>1, <2>2 DEF FoundSoFar
<1> QED BY <1>1, <1>8, <1>9, <1>10, <1>11 DEF IsRow

LEMMA FoundSound ==
    ASSUME Typed, KeptGrouped, neighbors = <<>>
    PROVE  FoundSoFar(Len(scan.rows))
<1> DEFINE n == Len(scan.rows)
           Wrong == {m \in 0 .. n : ~FoundSoFar(m)}
<1>1. n \in Nat /\ DOMAIN scan.rows = 1 .. n
  <2>1. scan.rows \in Seq(AllLines)
    BY DEF Typed, Listed
  <2> QED BY <2>1
<1>2. found = [i \in 0 .. n |->
                 IF i = 0 THEN [operator |-> scan.operator, cells |-> neighbors]
                 ELSE addRow(found[i - 1], scan.rows[i])]
  BY <1>1, FoundEquation
<1> HIDE DEF n
<1>3. FoundSoFar(0)
  <2>1. 0 \in 0 .. n
    BY <1>1
  <2>2. found[0] = [operator |-> scan.operator, cells |-> <<>>]
    BY <1>2, <2>1
  <2>3. ~\E op : Under(scan.rows, 0 + 1, op)
    BY DEF Under
  <2>4. MaxCells \in Nat /\ <<>> \in Seq(SoundCells) /\ Len(<<>>) = 0
    BY ConnectionAssumption
  <2> QED BY <2>2, <2>3, <2>4 DEF FoundSoFar
<1>4. Wrong = {}
  <2> SUFFICES ASSUME Wrong # {} PROVE FALSE
    OBVIOUS
  <2>1. Wrong \in SUBSET Nat
    OBVIOUS
  <2>2. PICK m \in Wrong : \A k \in Wrong : ~(k < m)
    BY <2>1, Least
  <2>3. m # 0 /\ m \in 1 .. n /\ m \in 0 .. n /\ m - 1 \in 0 .. n /\ m - 1 < m
    BY <1>1, <1>3, <2>2
  <2>4. FoundSoFar(m - 1)
    BY <2>2, <2>3
  <2>5. found[m] = addRow(found[m - 1], scan.rows[m])
    BY <1>2, <2>3
  <2>6. FoundSoFar(m)
    BY <1>1, <2>3, <2>4, <2>5, FoundNext
  <2> QED BY <2>2, <2>6
<1>5. n \in 0 .. n
  BY <1>1
<1>6. FoundSoFar(n)
  BY <1>4, <1>5
<1> QED BY <1>6 DEF n

(* What is handed on: the cells found, or none when the list was given up.   *)
LEMMA HandedOn ==
    ASSUME Typed, NeighborInv, Next, phase = "listing", phase' = "exchanging"
    PROVE  neighbors' \in Seq(SoundCells) /\ Len(neighbors') <= MaxCells /\ UNCHANGED wakeUp
<1>1. endList \/ listTimesOut
  BY DEF Next, enableConnection, idle, checkingSignalStrength, consultingIMEI,
         consultingSIMCardStatus, consultingNetworkStatus, consultingAvailableOperators,
         retrievingTimeAndDate, attachingToPacketService, definePDPContext, connected,
         askForCells, readRow, exchangeMessages, pursue, goToSleep, turnedOff, awake, answer,
         Connecting
<1>2. UNCHANGED wakeUp /\ scan.vectorCleared
  BY <1>1 DEF endList, listTimesOut, Listing, Asked
<1>3. KeptGrouped /\ neighbors = <<>>
  BY <1>2 DEF NeighborInv
<1>4. CASE endList
  <2>1. neighbors' = found[Len(scan.rows)].cells
    BY <1>4 DEF endList
  <2> QED BY <1>2, <1>3, <2>1, FoundSound DEF FoundSoFar
<1>5. CASE listTimesOut
  <2>1. neighbors' = <<>> /\ MaxCells \in Nat
    BY <1>3, <1>5, ConnectionAssumption DEF listTimesOut
  <2> QED BY <1>2, <2>1
<1> QED BY <1>1, <1>4, <1>5

(* If the modem puts every cell below its operator, then every neighbour     *)
(* handed on was listed in this wake-up, under its operator, and there are   *)
(* no more of them than a report has room for: although the rows, the        *)
(* operator and the counter of retrivNeighborCellsInformation() are static,   *)
(* lists are asked for again while another is read, and rows are dropped.     *)
THEOREM NeighborsListed == ListsGrouped => (Spec => NeighborsAreCurrent)
<1> SUFFICES ASSUME ListsGrouped PROVE Spec => NeighborsAreCurrent
  OBVIOUS
<1> DEFINE HandedSound ==
      phase = "listing" /\ phase' = "exchanging" =>
          Len(neighbors') <= MaxCells /\
          \A i \in DOMAIN neighbors' :
              LET cellFound == neighbors'[i]
              IN  cellFound.row.at = wakeUp /\ cellFound.operator = cellFound.row.of
<1>1. Typed /\ NeighborInv /\ [Next]_vars => [HandedSound]_vars
  <2> SUFFICES ASSUME Typed, NeighborInv, Next, phase = "listing", phase' = "exchanging"
               PROVE  Len(neighbors') <= MaxCells /\
                      \A i \in DOMAIN neighbors' :
                          LET cellFound == neighbors'[i]
                          IN  cellFound.row.at = wakeUp /\ cellFound.operator = cellFound.row.of
    OBVIOUS
  <2>1. neighbors' \in Seq(SoundCells) /\ Len(neighbors') <= MaxCells /\ UNCHANGED wakeUp
    BY HandedOn
  <2>2. \A i \in DOMAIN neighbors' : neighbors'[i] \in SoundCells
    BY <2>1
  <2> QED BY <2>1, <2>2 DEF SoundCells
<1>2. Spec => [][HandedSound]_vars
  BY <1>1, NeighborInvariant, PTL DEF Spec
<1> QED BY <1>2 DEF NeighborsAreCurrent
=============================================================================
