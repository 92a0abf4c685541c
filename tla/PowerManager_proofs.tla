------------------------- MODULE PowerManager_proofs -------------------------
(***************************************************************************)
(* Proofs about the modem's power, for every number of tries and readings, *)
(* and for a user and a modem that do what they like: how often the button *)
(* is pressed and the modem fails, and whether it fails early.             *)
(***************************************************************************)
EXTENDS PowerManager, SequenceTheorems, TLAPS

Commands == {"AT+CBC", "AT+QPOWD"}

Objects == [manual : BOOLEAN, signal : BOOLEAN, turning : BOOLEAN,
            turnOffWasCalled : BOOLEAN, buttonPushed : BOOLEAN,
            turnOnCounter : 0 .. TurnOnCounter + 1]

Statics == [turnOffCounter : 0 .. MaxCount + 1, turningPower : BOOLEAN,
            signalTurningOn : BOOLEAN, measureReady : BOOLEAN,
            rebootReady : BOOLEAN, offReady : BOOLEAN, hard : BOOLEAN,
            retryCounter : 0 .. MaxTries + 1]

-----------------------------------------------------------------------------
(* Type correctness. *)

LEMMA TypeParts ==
    TypeOK <=> /\ phase \in Phases /\ polled \in BOOLEAN /\ powerState \in PowerStates
               /\ object \in Objects /\ statics \in Statics
               /\ timer \in {"stopped", "running", "due"}
               /\ key \in BOOLEAN /\ supply \in BOOLEAN
               /\ input \in Seq(Lines) /\ Len(input) <= MaxLines
               /\ modem \in {"off", "starting", "on"}
               /\ pending \in Seq(Commands) /\ Len(pending) <= MaxPending
               /\ announced \in BOOLEAN /\ leftover \in BOOLEAN
               /\ presses \in 0 .. MaxPresses /\ failures \in 0 .. MaxFailures
  BY Zenon DEF TypeOK, Objects, Statics, Commands

LEMMA TypedNext ==
    ASSUME phase' \in Phases, polled' \in BOOLEAN, powerState' \in PowerStates,
           object' \in Objects, statics' \in Statics,
           timer' \in {"stopped", "running", "due"},
           key' \in BOOLEAN, supply' \in BOOLEAN,
           input' \in Seq(Lines), Len(input') <= MaxLines,
           modem' \in {"off", "starting", "on"},
           pending' \in Seq(Commands), Len(pending') <= MaxPending,
           announced' \in BOOLEAN, leftover' \in BOOLEAN,
           presses' \in 0 .. MaxPresses, failures' \in 0 .. MaxFailures
    PROVE  TypeOK'
  BY Zenon DEF TypeOK, Objects, Statics, Commands

(* A new object, a command sent, a pulse on the key. *)
LEMMA NewTyped == New \in Objects
  BY PowerAssumption DEF New, Objects

LEMMA SentTyped ==
    ASSUME TypeOK, NEW command \in Commands, sendATCommand(command)
    PROVE  pending' \in Seq(Commands) /\ Len(pending') <= MaxPending
<1>1. pending \in Seq(Commands) /\ Len(pending) <= MaxPending
  BY TypeParts
<1>2. CASE modem = "on" /\ Len(pending) < MaxPending
  <2>1. pending' = Append(pending, command)
    BY <1>2 DEF sendATCommand
  <2> QED BY <1>1, <1>2, <2>1, PowerAssumption
<1>3. CASE ~(modem = "on" /\ Len(pending) < MaxPending)
  BY <1>1, <1>3 DEF sendATCommand
<1> QED BY <1>2, <1>3

LEMMA KeyTyped ==
    ASSUME TypeOK, NEW level \in BOOLEAN, changeKeyDigitalSignal(level)
    PROVE  /\ key' \in BOOLEAN /\ modem' \in {"off", "starting", "on"}
           /\ pending' \in Seq(Commands) /\ Len(pending') <= MaxPending
<1>1. pending \in Seq(Commands) /\ Len(pending) <= MaxPending /\ modem \in {"off", "starting", "on"}
  BY TypeParts
<1>2. key' \in BOOLEAN /\ modem' \in {"off", "starting", "on"}
  BY <1>1 DEF changeKeyDigitalSignal
<1>3. pending' = pending \/ pending' = <<>>
  BY DEF changeKeyDigitalSignal
<1>4. <<>> \in Seq(Commands) /\ Len(<<>>) <= MaxPending
  BY PowerAssumption
<1> QED BY <1>1, <1>2, <1>3, <1>4

LEMMA ReadTyped == read \in {"stopped", "running", "due"} /\ Restarted \in {"stopped", "running", "due"}
  BY DEF read, Restarted

LEMMA ButtonTyped ==
    ASSUME TypeOK, NEW members \in Objects, ReadButton(members)
    PROVE  /\ object' \in Objects /\ timer' \in {"stopped", "running", "due"}
           /\ key' \in BOOLEAN /\ modem' \in {"off", "starting", "on"}
           /\ pending' \in Seq(Commands) /\ Len(pending') <= MaxPending
           /\ presses' \in 0 .. MaxPresses
<1>1. PICK pressed \in (IF presses < MaxPresses THEN BOOLEAN ELSE {FALSE}) :
         LET manual == members.manual \/ pressed
             turning == members.turning \/ pressed
             next == [members EXCEPT !.manual = manual, !.turning = turning,
                                     !.buttonPushed = @ \/ pressed]
             rises == manual /\ turning /\ ~members.signal
         IN  /\ presses' = presses + (IF pressed THEN 1 ELSE 0)
             /\ \/ /\ rises
                   /\ object' = [next EXCEPT !.signal = TRUE]
                   /\ timer' = Restarted /\ changeKeyDigitalSignal(TRUE)
                \/ /\ members.signal /\ Fires /\ turning
                   /\ object' = [next EXCEPT !.signal = FALSE, !.turning = FALSE]
                   /\ timer' = Restarted /\ changeKeyDigitalSignal(FALSE)
                \/ /\ ~rises /\ ~(members.signal /\ Fires /\ turning)
                   /\ object' = next
                   /\ timer' = (IF members.signal THEN read ELSE timer) /\ UNCHANGED keyed
  BY DEF ReadButton
<1> DEFINE next == [members EXCEPT !.manual = members.manual \/ pressed,
                                   !.turning = members.turning \/ pressed,
                                   !.buttonPushed = @ \/ pressed]
<1>2. pressed \in BOOLEAN /\ (pressed => presses < MaxPresses)
  BY <1>1
<1>3. next \in Objects
  BY <1>2 DEF Objects
<1>4. presses' \in 0 .. MaxPresses
  BY <1>1, <1>2, TypeParts, PowerAssumption
<1>5. /\ \/ object' = next \/ object' = [next EXCEPT !.signal = TRUE]
         \/ object' = [next EXCEPT !.signal = FALSE, !.turning = FALSE]
      /\ timer' \in {Restarted, read, timer}
      /\ changeKeyDigitalSignal(TRUE) \/ changeKeyDigitalSignal(FALSE) \/ UNCHANGED keyed
  BY <1>1
<1> HIDE DEF next
<1>6. object' \in Objects
  BY <1>3, <1>5 DEF Objects
<1>7. timer' \in {"stopped", "running", "due"}
  BY <1>5, ReadTyped, TypeParts
<1>8. CASE UNCHANGED keyed
  BY <1>4, <1>6, <1>7, <1>8, TypeParts DEF keyed
<1>9. CASE changeKeyDigitalSignal(TRUE) \/ changeKeyDigitalSignal(FALSE)
  BY <1>4, <1>6, <1>7, <1>9, KeyTyped
<1> QED BY <1>5, <1>8, <1>9

LEMMA OffTyped ==
    ASSUME ManualPowerOFF
    PROVE  /\ powerState' \in PowerStates /\ object' \in Objects
           /\ supply' \in BOOLEAN /\ modem' \in {"off", "starting", "on"}
           /\ pending' \in Seq(Commands) /\ Len(pending') <= MaxPending
<1>1. pending' = <<>> /\ supply' = FALSE /\ modem' = "off" /\ object' = New
      /\ powerState' = "ManualPowerOFFState"
  BY DEF ManualPowerOFF, changePowerState
<1>2. <<>> \in Seq(Commands) /\ Len(<<>>) <= MaxPending
  BY PowerAssumption
<1> QED BY <1>1, <1>2, NewTyped DEF PowerStates

LEMMA TailTyped ==
    ASSUME TypeOK, UNCHANGED input \/ (input # <<>> /\ input' = Tail(input))
    PROVE  input' \in Seq(Lines) /\ Len(input') <= MaxLines
<1>1. input \in Seq(Lines) /\ Len(input) <= MaxLines
  BY TypeParts
<1>2. CASE UNCHANGED input
  BY <1>1, <1>2
<1>3. CASE input # <<>> /\ input' = Tail(input)
  <2>1. input' \in Seq(Lines) /\ Len(input') = Len(input) - 1
    BY <1>1, <1>3
  <2> QED BY <1>1, <2>1, PowerAssumption
<1> QED BY <1>2, <1>3

LEMMA TypeInit == Init => TypeOK
<1> SUFFICES ASSUME Init PROVE TypeOK
  OBVIOUS
<1>1. object \in Objects /\ statics \in Statics
  BY NewTyped, PowerAssumption DEF Init, Statics
<1>2. /\ input \in Seq(Lines) /\ Len(input) <= MaxLines
      /\ pending \in Seq(Commands) /\ Len(pending) <= MaxPending
  BY PowerAssumption DEF Init
<1>3. presses \in 0 .. MaxPresses /\ failures \in 0 .. MaxFailures
  BY PowerAssumption DEF Init
<1> QED BY <1>1, <1>2, <1>3, TypeParts DEF Init, Phases, PowerStates

LEMMA PollTyped ==
    TypeOK /\ (startStopUpdateON \/ startStopUpdateOFF \/ startStopUpdateManual) => TypeOK'
<1> SUFFICES ASSUME TypeOK, startStopUpdateON \/ startStopUpdateOFF \/ startStopUpdateManual
             PROVE  TypeOK'
  OBVIOUS
<1>1. /\ UNCHANGED <<phase, input, announced, leftover>> /\ polled' \in BOOLEAN
  <2>1. UNCHANGED <<phase, input, said>> /\ Poll
    BY DEF startStopUpdateON, startStopUpdateOFF, startStopUpdateManual
  <2>2. polled' = (phase \in {"measuring", "turning off"})
    BY <2>1 DEF Poll
  <2>3. polled' \in BOOLEAN
    <3>1. CASE phase \in {"measuring", "turning off"}
      BY <2>2, <3>1, Zenon
    <3>2. CASE ~(phase \in {"measuring", "turning off"})
      <4> DEFINE called == phase \in {"measuring", "turning off"}
      <4>1. ~called /\ polled' = called
        BY <2>2, <3>2
      <4> HIDE DEF called
      <4>2. polled' = FALSE
        BY <4>1
      <4> QED BY <4>2
    <3> QED BY <3>1, <3>2
  <2> QED BY <2>1, <2>3 DEF said
<1>2. CASE startStopUpdateON
  <2>1. Readings \in 0 .. MaxCount + 1
    BY TypeParts, PowerAssumption, SMTT(30) DEF Readings, Statics
  <2>2. statics' \in Statics
    BY <1>2, <2>1, TypeParts DEF startStopUpdateON, Statics, manager
  <2>3. CASE object.turnOffWasCalled
    BY <1>1, <1>2, <2>3, TypeParts, TypedNext DEF startStopUpdateON, manager, outputs, user
  <2>4. CASE ~object.turnOffWasCalled /\ Readings = MaxCount /\ ~object.manual
    <3>1. /\ powerState' = "PowerOFFState" /\ object' = New
          /\ UNCHANGED <<timer, outputs, modem, pending, user>>
      BY <1>2, <2>4 DEF startStopUpdateON, changePowerState
    <3> QED BY <1>1, <2>2, <3>1, NewTyped, TypeParts, TypedNext DEF outputs, user, PowerStates
  <2>5. CASE ~object.turnOffWasCalled /\ Readings = MaxCount /\ object.manual
    <3>1. ManualPowerOFF /\ UNCHANGED <<timer, key, user>>
      BY <1>2, <2>5 DEF startStopUpdateON
    <3> QED BY <1>1, <2>2, <3>1, OffTyped, TypeParts, TypedNext DEF user
  <2>6. CASE ~object.turnOffWasCalled /\ Readings # MaxCount
    <3>1. ReadButton(object) /\ UNCHANGED <<powerState, supply, failures>>
      BY <1>2, <2>6 DEF startStopUpdateON
    <3>2. object \in Objects
      BY TypeParts, TypedNext
    <3> QED BY <1>1, <2>2, <3>1, <3>2, ButtonTyped, TypeParts, TypedNext
  <2> QED BY <2>3, <2>4, <2>5, <2>6
<1>3. CASE startStopUpdateOFF
  <2>1. UNCHANGED <<supply, presses, failures>>
    BY <1>3 DEF startStopUpdateOFF, user
  <2>2. powerState' \in PowerStates /\ object' \in Objects
    BY <1>3, NewTyped, TypeParts DEF startStopUpdateOFF, changePowerState, PowerStates
  <2>3. statics' \in Statics /\ timer' \in {"stopped", "running", "due"}
    BY <1>3, ReadTyped, TypeParts DEF startStopUpdateOFF, Statics
  <2>4. /\ key' \in BOOLEAN /\ modem' \in {"off", "starting", "on"}
        /\ pending' \in Seq(Commands) /\ Len(pending') <= MaxPending
    <3>1. CASE UNCHANGED keyed
      BY <3>1, TypeParts DEF keyed
    <3>2. CASE changeKeyDigitalSignal(~statics.turningPower)
      BY <3>2, KeyTyped
    <3> QED BY <1>3, <3>1, <3>2 DEF startStopUpdateOFF
  <2> QED BY <1>1, <2>1, <2>2, <2>3, <2>4, TypeParts, TypedNext
<1>4. CASE startStopUpdateManual
  <2> DEFINE counts == modem = "on" /\ object.buttonPushed
  <2>1. UNCHANGED <<statics, supply>>
    BY <1>4 DEF startStopUpdateManual
  <2>2. CASE counts /\ object.turnOnCounter > TurnOnCounter
    <3>1. /\ powerState' = "PowerONState" /\ object' = New
          /\ UNCHANGED <<timer, keyed, user>>
      BY <1>4, <2>2 DEF startStopUpdateManual, changePowerState
    <3> QED BY <1>1, <2>1, <3>1, NewTyped, TypeParts, TypedNext DEF keyed, user, PowerStates
  <2>3. CASE ~(counts /\ object.turnOnCounter > TurnOnCounter)
    <3> DEFINE members == [object EXCEPT !.turnOnCounter = @ + (IF counts THEN 1 ELSE 0)]
    <3>1. ReadButton(members) /\ UNCHANGED <<powerState, failures>>
      BY <1>4, <2>3 DEF startStopUpdateManual
    <3>2. members \in Objects
      <4> DEFINE v == object.turnOnCounter + (IF counts THEN 1 ELSE 0)
      <4>1. object \in Objects /\ object.turnOnCounter \in 0 .. TurnOnCounter + 1
        BY TypeParts DEF Objects
      <4>2. v \in 0 .. TurnOnCounter + 1
        <5>1. counts => object.turnOnCounter <= TurnOnCounter
          BY <2>3, <4>1, PowerAssumption
        <5> HIDE DEF counts
        <5> QED BY <4>1, <5>1, PowerAssumption
      <4> HIDE DEF v
      <4>3. [object EXCEPT !.turnOnCounter = v] \in Objects
        BY <4>1, <4>2 DEF Objects
      <4> QED BY <4>3 DEF v
    <3> HIDE DEF members
    <3> QED BY <1>1, <2>1, <3>1, <3>2, ButtonTyped, TypeParts, TypedNext
  <2> QED BY <2>2, <2>3
<1> QED BY <1>2, <1>3, <1>4

LEMMA MeasureTyped ==
    TypeOK /\ (measureSends \/ measureReads \/ measureTimesOut \/ measureNothing) => TypeOK'
<1> SUFFICES ASSUME TypeOK, measureSends \/ measureReads \/ measureTimesOut \/ measureNothing
             PROVE  TypeOK'
  OBVIOUS
<1>1. UNCHANGED <<powerState, object, key, supply, modem, announced, leftover, presses, failures>>
  BY DEF measureSends, measureReads, measureTimesOut, measureNothing, Measuring, manager,
         outputs, said, user
<1>2. phase' \in Phases /\ polled' \in BOOLEAN
  BY TypeParts DEF measureSends, measureReads, measureTimesOut, measureNothing, Call, Phases
<1>3. statics' \in Statics /\ timer' \in {"stopped", "running", "due"}
  <2>1. \/ UNCHANGED statics \/ \E b \in BOOLEAN : statics' = [statics EXCEPT !.measureReady = b]
    <3>1. Fires \in BOOLEAN
      BY DEF Fires
    <3> QED BY <3>1 DEF measureSends, measureReads, measureTimesOut, measureNothing, manager
  <2>2. UNCHANGED timer \/ timer' = read
    BY DEF measureSends, measureReads, measureTimesOut, measureNothing, manager
  <2> QED BY <2>1, <2>2, ReadTyped, TypeParts DEF Statics
<1>4. input' \in Seq(Lines) /\ Len(input') <= MaxLines
  <2>1. UNCHANGED input \/ (input # <<>> /\ input' = Tail(input))
    BY DEF measureSends, measureReads, measureTimesOut, measureNothing, readATResponse
  <2> QED BY <2>1, TailTyped
<1>5. pending' \in Seq(Commands) /\ Len(pending') <= MaxPending
  <2>1. "AT+CBC" \in Commands /\ (UNCHANGED pending \/ sendATCommand("AT+CBC"))
    BY DEF measureSends, measureReads, measureTimesOut, measureNothing, Commands
  <2> QED BY <2>1, SentTyped, TypeParts, TypedNext
<1> QED BY <1>1, <1>2, <1>3, <1>4, <1>5, TypeParts, TypedNext

LEMMA TurnOffTyped ==
    TypeOK /\ (sendPowerDown \/ readPoweredDown \/ turnOffTimesOut \/ turnOffAtOnce) => TypeOK'
<1> SUFFICES ASSUME TypeOK, sendPowerDown \/ readPoweredDown \/ turnOffTimesOut \/ turnOffAtOnce
             PROVE  TypeOK'
  OBVIOUS
<1>1. UNCHANGED <<key, announced, leftover, presses, failures>>
  BY DEF sendPowerDown, readPoweredDown, turnOffTimesOut, turnOffAtOnce, outputs, said, user
<1>2. phase' \in Phases /\ polled' \in BOOLEAN
  BY TypeParts
     DEF sendPowerDown, readPoweredDown, turnOffTimesOut, turnOffAtOnce, TurnedOff, Phases
<1>3. timer' \in {"stopped", "running", "due"}
  <2>1. UNCHANGED timer \/ timer' = read
    BY DEF sendPowerDown, readPoweredDown, turnOffTimesOut, turnOffAtOnce
  <2> QED BY <2>1, ReadTyped, TypeParts
<1>4. statics' \in Statics
  <2>1. CASE sendPowerDown
    BY <2>1, TypeParts DEF sendPowerDown, Statics
  <2>2. CASE readPoweredDown \/ turnOffAtOnce
    BY <2>2, TypeParts DEF readPoweredDown, turnOffAtOnce
  <2>3. CASE turnOffTimesOut
    <3>1. statics \in Statics /\ statics.retryCounter \in 0 .. MaxTries + 1
      BY TypeParts DEF Statics
    <3>2. TriesLeft => Tries \in 0 .. MaxTries + 1
      BY <3>1, PowerAssumption DEF TriesLeft, Tries
    <3>3. \/ UNCHANGED statics
          \/ TriesLeft /\ statics' = [statics EXCEPT !.retryCounter = Tries, !.offReady = TRUE]
          \/ statics' = [statics EXCEPT !.hard = TRUE]
          \/ statics' = [statics EXCEPT !.hard = FALSE, !.offReady = TRUE, !.retryCounter = 0]
      BY <2>3 DEF turnOffTimesOut
    <3>4. 0 \in 0 .. MaxTries + 1
      BY PowerAssumption
    <3> QED BY <3>1, <3>2, <3>3, <3>4 DEF Statics
  <2> QED BY <2>1, <2>2, <2>3
<1>5. input' \in Seq(Lines) /\ Len(input') <= MaxLines
  <2>1. UNCHANGED input \/ (input # <<>> /\ input' = Tail(input))
    BY DEF sendPowerDown, readPoweredDown, turnOffTimesOut, turnOffAtOnce, readATResponse
  <2> QED BY <2>1, TailTyped
<1>6. /\ powerState' \in PowerStates /\ object' \in Objects /\ supply' \in BOOLEAN
      /\ modem' \in {"off", "starting", "on"}
      /\ pending' \in Seq(Commands) /\ Len(pending') <= MaxPending
  <2>1. CASE ManualPowerOFF
    BY <2>1, OffTyped
  <2>2. CASE UNCHANGED <<powerState, object, supply, modem, pending>>
    BY <2>2, TypeParts
  <2>3. CASE /\ UNCHANGED <<powerState, object>>
             /\ supply' = FALSE /\ modem' = "off" /\ pending' = <<>>
    <3>1. <<>> \in Seq(Commands) /\ Len(<<>>) <= MaxPending
      BY PowerAssumption
    <3> QED BY <2>3, <3>1, TypeParts
  <2>4. CASE sendPowerDown
    <3>1. /\ UNCHANGED <<powerState, supply, modem>> /\ sendATCommand("AT+QPOWD")
          /\ object' = [object EXCEPT !.turnOffWasCalled = TRUE]
      BY <2>4 DEF sendPowerDown, outputs
    <3>2. "AT+QPOWD" \in Commands
      BY DEF Commands
    <3>3. object' \in Objects
      BY <3>1, TypeParts DEF Objects
    <3> QED BY <3>1, <3>2, <3>3, SentTyped, TypeParts
  <2>5. \/ ManualPowerOFF \/ UNCHANGED <<powerState, object, supply, modem, pending>>
        \/ /\ UNCHANGED <<powerState, object>>
           /\ supply' = FALSE /\ modem' = "off" /\ pending' = <<>>
        \/ sendPowerDown
    BY DEF readPoweredDown, turnOffTimesOut, turnOffAtOnce
  <2> QED BY <2>1, <2>2, <2>3, <2>4, <2>5
<1> QED BY <1>1, <1>2, <1>3, <1>4, <1>5, <1>6, TypeParts, TypedNext

LEMMA CallerTyped ==
    TypeOK /\ (turnOnON \/ turnOnManual \/ work \/ turnOff \/ pursue \/ reboot) => TypeOK'
<1> SUFFICES ASSUME TypeOK,
                    turnOnON \/ turnOnManual \/ work \/ turnOff \/ pursue \/ reboot
             PROVE  TypeOK'
  OBVIOUS
<1>1. UNCHANGED <<announced, leftover, presses, failures>>
  BY DEF turnOnON, turnOnManual, Waking, work, turnOff, pursue, reboot, said, user
<1>2. phase' \in Phases
  BY TypeParts
     DEF turnOnON, turnOnManual, awakened, stillWaking, work, turnOff, pursue, reboot, Phases
<1>3. polled' \in BOOLEAN
  BY TypeParts DEF turnOnON, turnOnManual, Waking, work, turnOff, pursue, reboot
<1>4. input' \in Seq(Lines) /\ Len(input') <= MaxLines
  <2>1. UNCHANGED input \/ (input # <<>> /\ input' = Tail(input))
    BY DEF turnOnON, turnOnManual, Waking, work, turnOff, pursue, reboot
  <2> QED BY <2>1, TailTyped
<1>5. powerState' \in PowerStates /\ object' \in Objects
  <2>1. \/ UNCHANGED <<powerState, object>>
        \/ changePowerState("PowerONState") \/ changePowerState("PowerOFFState")
    BY DEF turnOnON, turnOnManual, work, turnOff, pursue, reboot, manager
  <2> QED BY <2>1, NewTyped, TypeParts DEF changePowerState, PowerStates
<1>6. statics' \in Statics /\ timer' \in {"stopped", "running", "due"}
  <2>1. Fires \in BOOLEAN
    BY DEF Fires
  <2>2. statics \in Statics
    BY TypeParts
  <2>3. \/ UNCHANGED statics \/ statics' = [statics EXCEPT !.signalTurningOn = ~@]
        \/ statics' = [statics EXCEPT !.rebootReady = Fires]
    BY DEF turnOnON, turnOnManual, work, turnOff, pursue, reboot, manager
  <2>4. timer' \in {timer, read, Restarted}
    BY DEF turnOnON, turnOnManual, work, turnOff, pursue, reboot, manager
  <2>5. statics' \in Statics
    BY <2>1, <2>2, <2>3 DEF Statics
  <2> QED BY <2>4, <2>5, ReadTyped, TypeParts
<1>7. /\ key' \in BOOLEAN /\ modem' \in {"off", "starting", "on"}
      /\ pending' \in Seq(Commands) /\ Len(pending') <= MaxPending
  <2>1. CASE UNCHANGED <<key, modem, pending>>
    BY <2>1, TypeParts
  <2>2. CASE changeKeyDigitalSignal(~statics.signalTurningOn)
    BY <2>2, KeyTyped
  <2>3. CASE UNCHANGED <<key, modem>> /\ sendATCommand("AT+QPOWD")
    <3>1. "AT+QPOWD" \in Commands
      BY DEF Commands
    <3> QED BY <2>3, <3>1, SentTyped, TypeParts
  <2>4. \/ UNCHANGED <<key, modem, pending>> \/ changeKeyDigitalSignal(~statics.signalTurningOn)
        \/ UNCHANGED <<key, modem>> /\ sendATCommand("AT+QPOWD")
    BY DEF turnOnON, turnOnManual, work, turnOff, pursue, reboot, keyed, outputs
  <2> QED BY <2>1, <2>2, <2>3, <2>4
<1>8. supply' \in BOOLEAN
  BY TypeParts DEF turnOnON, turnOnManual, Supplies, work, turnOff, pursue, reboot, outputs
<1> QED BY <1>1, <1>2, <1>3, <1>4, <1>5, <1>6, <1>7, <1>8, TypeParts, TypedNext

LEMMA ModemTyped ==
    TypeOK /\ (timerDue \/ started \/ stopped \/ answer \/ refuse \/ stayMute) => TypeOK'
<1> SUFFICES ASSUME TypeOK, timerDue \/ started \/ stopped \/ answer \/ refuse \/ stayMute
             PROVE  TypeOK'
  OBVIOUS
<1>1. UNCHANGED <<phase, polled, powerState, object, statics, key, supply, presses>>
  BY DEF timerDue, started, stopped, answer, refuse, Answer, stayMute, manager, outputs, user
<1>2. timer' \in {"stopped", "running", "due"}
  BY TypeParts DEF timerDue, started, stopped, answer, refuse, Answer, stayMute, manager
<1>3. modem' \in {"off", "starting", "on"}
  BY TypeParts DEF timerDue, started, stopped, answer, refuse, Answer, stayMute
<1>4. announced' \in BOOLEAN /\ leftover' \in BOOLEAN
  <2>1. \/ UNCHANGED announced \/ announced' = FALSE
        \/ announced' = (announced \/ Head(pending) = "AT+QPOWD")
    BY DEF timerDue, started, stopped, answer, refuse, stayMute, said
  <2>2. \/ UNCHANGED leftover
        \/ leftover' = (\E i \in DOMAIN input : input[i] = "POWERED DOWN")
    BY DEF timerDue, started, stopped, answer, refuse, Answer, stayMute, said
  <2> QED BY <2>1, <2>2, TypeParts, Zenon
<1>5. failures' \in 0 .. MaxFailures
  <2>1. failures' = failures \/ (failures < MaxFailures /\ failures' = failures + 1)
    BY DEF timerDue, started, stopped, answer, refuse, Answer, stayMute, user
  <2>2. failures \in 0 .. MaxFailures
    BY TypeParts
  <2> QED BY <2>1, <2>2, PowerAssumption
<1>6. pending' \in Seq(Commands) /\ Len(pending') <= MaxPending
  <2>1. \/ UNCHANGED pending \/ pending' = <<>>
        \/ pending # <<>> /\ pending' = Tail(pending)
    BY DEF timerDue, started, stopped, answer, refuse, Answer, stayMute
  <2>2. pending \in Seq(Commands) /\ Len(pending) <= MaxPending
    BY TypeParts
  <2>3. CASE pending' = <<>>
    BY <2>3, PowerAssumption
  <2>4. CASE pending # <<>> /\ pending' = Tail(pending)
    <3>1. pending' \in Seq(Commands) /\ Len(pending') = Len(pending) - 1
      BY <2>2, <2>4
    <3> QED BY <2>2, <3>1, PowerAssumption
  <2> QED BY <2>1, <2>2, <2>3, <2>4
<1>7. input' \in Seq(Lines) /\ Len(input') <= MaxLines
  <2>1. input \in Seq(Lines) /\ Len(input) <= MaxLines
    BY TypeParts
  <2>2. CASE \E line \in Lines : Len(input) < MaxLines /\ input' = Append(input, line)
    BY <2>1, <2>2, PowerAssumption
  <2>3. CASE UNCHANGED input
    BY <2>1, <2>3
  <2>4. CASE answer
    <3>1. Answer(AnswerTo[Head(pending)]) /\ pending # <<>>
      BY <2>4 DEF answer
    <3>2. Head(pending) \in Commands
      <4>1. pending \in Seq(Commands)
        BY TypeParts
      <4> QED BY <3>1, <4>1
    <3>3. AnswerTo[Head(pending)] \in Lines
      BY <3>2 DEF AnswerTo, Lines, Commands
    <3> QED BY <2>2, <3>1, <3>3 DEF Answer
  <2>5. CASE refuse
    <3>1. Answer("OTHER") /\ "OTHER" \in Lines
      BY <2>5 DEF refuse, Lines
    <3> QED BY <2>2, <3>1 DEF Answer
  <2> QED BY <2>3, <2>4, <2>5 DEF timerDue, started, stopped, stayMute
<1> QED BY <1>1, <1>2, <1>3, <1>4, <1>5, <1>6, <1>7, TypeParts, TypedNext

LEMMA TypeStep == TypeOK /\ [Next]_vars => TypeOK'
<1> SUFFICES ASSUME TypeOK, [Next]_vars PROVE TypeOK'
  OBVIOUS
<1>1. CASE UNCHANGED vars
  BY <1>1, TypeParts, TypedNext DEF vars, manager, outputs, said, user
<1>2. CASE Next
  BY <1>2, PollTyped, MeasureTyped, TurnOffTyped, CallerTyped, ModemTyped DEF Next
<1> QED BY <1>1, <1>2

-----------------------------------------------------------------------------
(* Whatever way turnOff() went, it ended with the supply cut, in the state   *)
(* whose pulses on the key start nothing.                                    *)
RestsUnsupplied ==
    phase = "resting" =>
        powerState = "ManualPowerOFFState" /\ ~supply /\ modem = "off"

(* A line that the modem goes down is there because it said so since it      *)
(* started, or before and nobody has read it.                                *)
PowerDownIsExplained ==
    /\ input \in Seq(Lines)
    /\ modem = "on" /\ (\E i \in DOMAIN input : input[i] = "POWERED DOWN")
          => announced \/ leftover

ModemInv == RestsUnsupplied /\ PowerDownIsExplained

PowerInv == TypeOK /\ ModemInv

-----------------------------------------------------------------------------
LEMMA PowerInit == Init => ModemInv
<1> SUFFICES ASSUME Init PROVE ModemInv
  OBVIOUS
<1>1. phase = "measuring" /\ input = <<>> /\ powerState = "PowerOFFState"
  BY DEF Init
<1>2. input \in Seq(Lines) /\ ~\E i \in DOMAIN input : input[i] = "POWERED DOWN"
  BY <1>1
<1> QED BY <1>1, <1>2 DEF PowerInv, ModemInv, RestsUnsupplied, PowerDownIsExplained

(* What reading a line, or none, leaves to explain. *)
LEMMA FewerLines ==
    ASSUME PowerDownIsExplained, modem' = "on" => modem = "on",
           UNCHANGED said, UNCHANGED input \/ (input # <<>> /\ input' = Tail(input))
    PROVE  PowerDownIsExplained'
<1>1. UNCHANGED <<announced, leftover>>
  BY DEF said
<1>2. input \in Seq(Lines)
  BY DEF PowerDownIsExplained
<1>3. CASE UNCHANGED input
  BY <1>1, <1>3 DEF PowerDownIsExplained
<1>4. CASE input # <<>> /\ input' = Tail(input)
  <2>1. input' \in Seq(Lines) /\ \A i \in DOMAIN input' : i + 1 \in DOMAIN input /\ input'[i] = input[i + 1]
    BY <1>2, <1>4
  <2> QED BY <1>1, <2>1 DEF PowerDownIsExplained
<1> QED BY <1>3, <1>4

(* A pulse on the key never turns an unsupplied modem on, and no modem is on *)
(* at once.                                                                  *)
LEMMA KeyStep ==
    ASSUME NEW level, changeKeyDigitalSignal(level)
    PROVE  /\ modem' = "on" => modem = "on"
           /\ ~supply => UNCHANGED modem
  BY DEF changeKeyDigitalSignal

LEMMA ButtonStep ==
    ASSUME NEW members, ReadButton(members)
    PROVE  /\ modem' = "on" => modem = "on"
           /\ ~supply => UNCHANGED modem
<1>1. \/ changeKeyDigitalSignal(TRUE) \/ changeKeyDigitalSignal(FALSE)
      \/ UNCHANGED keyed
  BY DEF ReadButton
<1>2. CASE UNCHANGED keyed
  BY <1>2 DEF keyed
<1> QED BY <1>1, <1>2, KeyStep

LEMMA PollStep ==
    PowerInv /\ (startStopUpdateON \/ startStopUpdateOFF \/ startStopUpdateManual) => ModemInv'
<1> SUFFICES ASSUME PowerInv, startStopUpdateON \/ startStopUpdateOFF \/ startStopUpdateManual
             PROVE  ModemInv'
  OBVIOUS
<1>1. UNCHANGED <<phase, input, said>>
  BY DEF startStopUpdateON, startStopUpdateOFF, startStopUpdateManual
<1>2. modem' = "on" => modem = "on"
  <2>1. CASE startStopUpdateON
    <3>1. \/ UNCHANGED modem \/ ManualPowerOFF \/ ReadButton(object)
      BY <2>1 DEF startStopUpdateON
    <3> QED BY <3>1, ButtonStep DEF ManualPowerOFF
  <2>2. CASE startStopUpdateOFF
    <3>1. \/ UNCHANGED keyed \/ \E level : changeKeyDigitalSignal(level)
      BY <2>2 DEF startStopUpdateOFF
    <3> QED BY <3>1, KeyStep DEF keyed
  <2>3. CASE startStopUpdateManual
    <3>1. \/ UNCHANGED keyed \/ \E members : ReadButton(members)
      BY <2>3 DEF startStopUpdateManual
    <3> QED BY <3>1, ButtonStep DEF keyed
  <2> QED BY <2>1, <2>2, <2>3
<1>3. RestsUnsupplied'
  <2> SUFFICES ASSUME phase = "resting"
               PROVE  powerState' = "ManualPowerOFFState" /\ ~supply' /\ modem' = "off"
    BY <1>1 DEF RestsUnsupplied
  <2>1. powerState = "ManualPowerOFFState" /\ ~supply /\ modem = "off"
    BY DEF PowerInv, ModemInv, RestsUnsupplied
  <2>2. startStopUpdateManual
    BY <2>1 DEF startStopUpdateON, startStopUpdateOFF
  <2>3. /\ \E members : ReadButton(members)
        /\ UNCHANGED <<powerState, supply>>
    BY <2>1, <2>2 DEF startStopUpdateManual
  <2> QED BY <2>1, <2>3, ButtonStep
<1> QED BY <1>1, <1>2, <1>3, FewerLines DEF PowerInv, ModemInv

LEMMA MeasureStep ==
    PowerInv /\ (measureSends \/ measureReads \/ measureTimesOut \/ measureNothing) => ModemInv'
<1> SUFFICES ASSUME PowerInv, measureSends \/ measureReads \/ measureTimesOut \/ measureNothing
             PROVE  ModemInv'
  OBVIOUS
<1>1. /\ UNCHANGED <<modem, said, powerState>> /\ phase' # "resting"
      /\ UNCHANGED input \/ (input # <<>> /\ input' = Tail(input))
  BY DEF measureSends, measureReads, measureTimesOut, measureNothing, Measuring, Call, readATResponse,
         manager
<1> QED BY <1>1, FewerLines DEF PowerInv, ModemInv, RestsUnsupplied

LEMMA TurnOffStep ==
    PowerInv /\ (sendPowerDown \/ readPoweredDown \/ turnOffTimesOut \/ turnOffAtOnce) => ModemInv'
<1> SUFFICES ASSUME PowerInv, sendPowerDown \/ readPoweredDown \/ turnOffTimesOut \/ turnOffAtOnce
             PROVE  ModemInv'
  OBVIOUS
<1> USE DEF Call, ManualPowerOFF, changePowerState, outputs
<1>1. CASE sendPowerDown
  <2>1. UNCHANGED <<phase, modem, input, said, powerState>> /\ phase # "resting"
    BY <1>1 DEF sendPowerDown
  <2> QED BY <2>1, FewerLines DEF PowerInv, ModemInv, RestsUnsupplied
<1>2. CASE readPoweredDown
  <2>1. /\ UNCHANGED said /\ input # <<>> /\ input' = Tail(input)
        /\ modem' = "on" => modem = "on"
    BY <1>2 DEF readPoweredDown, readATResponse
  <2>2. RestsUnsupplied'
    BY <1>2 DEF readPoweredDown, RestsUnsupplied, TurnedOff
  <2> QED BY <2>1, <2>2, FewerLines DEF PowerInv, ModemInv
<1>3. CASE turnOffTimesOut
  <2>1. UNCHANGED <<input, said>> /\ (modem' = "on" => modem = "on")
    BY <1>3 DEF turnOffTimesOut
  <2>2. RestsUnsupplied'
    BY <1>3 DEF turnOffTimesOut, RestsUnsupplied, TurnedOff
  <2> QED BY <2>1, <2>2, FewerLines DEF PowerInv, ModemInv
<1>4. CASE turnOffAtOnce
  <2>1. UNCHANGED <<input, said>> /\ modem' = "off" /\ ~supply'
    BY <1>4 DEF turnOffAtOnce
  <2>2. powerState' = "ManualPowerOFFState"
    <3>1. CASE powerState = "PowerOFFState"
      BY <1>4, <3>1 DEF turnOffAtOnce
    <3>2. CASE powerState # "PowerOFFState"
      <4>1. powerState \in PowerStates /\ powerState # "PowerONState"
        BY <1>4, TypeParts DEF turnOffAtOnce, PowerInv
      <4> QED BY <1>4, <3>2, <4>1 DEF turnOffAtOnce, PowerStates
    <3> QED BY <3>1, <3>2
  <2> QED BY <2>1, <2>2, FewerLines DEF PowerInv, ModemInv, RestsUnsupplied
<1> QED BY <1>1, <1>2, <1>3, <1>4

LEMMA TurnOnStep == PowerInv /\ (turnOnON \/ turnOnManual) => ModemInv'
<1> SUFFICES ASSUME PowerInv, turnOnON \/ turnOnManual PROVE ModemInv'
  OBVIOUS
<1>1. UNCHANGED <<input, said>> /\ phase' # "resting"
  BY DEF turnOnON, turnOnManual, Waking, awakened, stillWaking
<1>2. modem' = "on" => modem = "on"
  <2>1. \/ UNCHANGED modem \/ \E level : changeKeyDigitalSignal(level)
    BY DEF turnOnON, turnOnManual, keyed
  <2> QED BY <2>1, KeyStep
<1> QED BY <1>1, <1>2, FewerLines DEF PowerInv, ModemInv, RestsUnsupplied

LEMMA CallerStep == PowerInv /\ (work \/ turnOff \/ pursue \/ reboot) => ModemInv'
<1> SUFFICES ASSUME PowerInv, work \/ turnOff \/ pursue \/ reboot PROVE ModemInv'
  OBVIOUS
<1>1. UNCHANGED <<modem, said>> /\ phase' # "resting"
  BY DEF work, turnOff, pursue, reboot, awakened
<1>2. UNCHANGED input \/ (input # <<>> /\ input' = Tail(input))
  BY DEF work, turnOff, pursue, reboot
<1> QED BY <1>1, <1>2, FewerLines DEF PowerInv, ModemInv, RestsUnsupplied

(* The modem answers: its line that it goes down is announced as it comes.   *)
LEMMA AnswerStep == PowerInv /\ (answer \/ refuse) => ModemInv'
<1> SUFFICES ASSUME PowerInv, answer \/ refuse PROVE ModemInv'
  OBVIOUS
<1>1. UNCHANGED <<phase, powerState, supply, modem, leftover>>
  BY DEF answer, refuse, Answer, manager, outputs
<1>2. PICK line \in Lines :
         /\ input' = Append(input, line)
         /\ line = "POWERED DOWN" => announced'
         /\ announced => announced'
  <2>1. CASE answer
    <3>1. /\ Answer(AnswerTo[Head(pending)])
          /\ announced' = (announced \/ Head(pending) = "AT+QPOWD")
      BY <2>1 DEF answer
    <3>2. CASE Head(pending) \in {"AT+CBC", "AT+QPOWD"}
      <4>1. /\ AnswerTo[Head(pending)] \in Lines
            /\ AnswerTo[Head(pending)] = "POWERED DOWN" => Head(pending) = "AT+QPOWD"
        BY <3>2 DEF AnswerTo, Lines
      <4>2. input' = Append(input, AnswerTo[Head(pending)])
        BY <3>1 DEF Answer
      <4> QED BY <3>1, <4>1, <4>2
    <3>3. Head(pending) \in Commands
      <4>1. pending \in Seq(Commands) /\ pending # <<>>
        BY <2>1, TypeParts DEF answer, PowerInv
      <4> QED BY <4>1
    <3> QED BY <3>2, <3>3 DEF Commands
  <2>2. CASE refuse
    <3>1. Answer("OTHER") /\ UNCHANGED announced
      BY <2>2 DEF refuse
    <3>2. "OTHER" \in Lines /\ "OTHER" # "POWERED DOWN"
      BY DEF Lines
    <3>3. input' = Append(input, "OTHER")
      BY <3>1 DEF Answer
    <3> QED BY <3>1, <3>2, <3>3
  <2> QED BY <2>1, <2>2
<1>3. PowerDownIsExplained'
  <2>1. input \in Seq(Lines)
    BY DEF PowerInv, ModemInv, PowerDownIsExplained
  <2>2. input' \in Seq(Lines)
        /\ \A i \in DOMAIN input' :
              \/ i \in DOMAIN input /\ input'[i] = input[i]
              \/ input'[i] = line
    <3>1. input' = Append(input, line)
      BY <1>2
    <3>2. /\ Len(input) \in Nat /\ DOMAIN input = 1 .. Len(input)
          /\ input' \in Seq(Lines) /\ DOMAIN input' = 1 .. Len(input) + 1
          /\ \A i \in 1 .. Len(input) : input'[i] = input[i]
          /\ input'[Len(input) + 1] = line
      BY <2>1, <3>1
    <3> QED BY <3>2
  <2> QED BY <1>1, <1>2, <2>2 DEF PowerInv, ModemInv, PowerDownIsExplained
<1> QED BY <1>1, <1>3 DEF PowerInv, ModemInv, RestsUnsupplied

LEMMA ModemStep == PowerInv /\ (timerDue \/ started \/ stopped \/ stayMute) => ModemInv'
<1> SUFFICES ASSUME PowerInv, timerDue \/ started \/ stopped \/ stayMute PROVE ModemInv'
  OBVIOUS
<1> USE DEF manager, outputs
<1>1. CASE timerDue
  <2>1. UNCHANGED <<phase, powerState, supply, modem, input, said>>
    BY <1>1 DEF timerDue
  <2> QED BY <2>1, FewerLines DEF PowerInv, ModemInv, RestsUnsupplied
<1>2. CASE started
  <2>1. /\ UNCHANGED <<phase, powerState, supply, input>> /\ supply
        /\ leftover' = (\E i \in DOMAIN input : input[i] = "POWERED DOWN")
    BY <1>2 DEF started
  <2> QED BY <2>1 DEF PowerInv, ModemInv, RestsUnsupplied, PowerDownIsExplained
<1>3. CASE stopped
  <2>1. UNCHANGED <<phase, powerState, supply, input, said>> /\ modem' = "off"
    BY <1>3 DEF stopped
  <2> QED BY <2>1, FewerLines DEF PowerInv, ModemInv, RestsUnsupplied
<1>4. CASE stayMute
  <2>1. UNCHANGED <<phase, powerState, supply, modem, input, said>>
    BY <1>4 DEF stayMute
  <2> QED BY <2>1, FewerLines DEF PowerInv, ModemInv, RestsUnsupplied
<1> QED BY <1>1, <1>2, <1>3, <1>4

LEMMA PowerStep == PowerInv /\ [Next]_vars => ModemInv'
<1> SUFFICES ASSUME PowerInv, [Next]_vars PROVE ModemInv'
  OBVIOUS
<1>1. CASE UNCHANGED vars
  <2>1. UNCHANGED <<phase, powerState, supply, modem, input, said>>
    BY <1>1 DEF vars, manager, outputs
  <2> QED BY <2>1, FewerLines DEF PowerInv, ModemInv, RestsUnsupplied
<1>2. CASE Next
  BY <1>2, PollStep, MeasureStep, TurnOffStep, TurnOnStep, CallerStep, AnswerStep, ModemStep
     DEF Next
<1> QED BY <1>1, <1>2

-----------------------------------------------------------------------------
(* Type correctness, with the counts that outlive a wake-up in their bounds: *)
(* PowerONState's reading of the status pin never runs past its maximum.     *)
THEOREM PowerTypes == Spec => []TypeOK
<1> QED BY TypeInit, TypeStep, PTL DEF Spec

(* PowerInv holds in every state. *)
THEOREM PowerInvariant == Spec => []PowerInv
<1>1. PowerInv /\ [Next]_vars => PowerInv'
  BY TypeStep, PowerStep DEF PowerInv
<1>2. Init => PowerInv
  BY TypeInit, PowerInit DEF PowerInv
<1> QED BY <1>1, <1>2, PTL DEF Spec

(* Once PowerManager::turnOff() has returned true the modem stays off until  *)
(* turnOn(), whatever its button and its late answers do.                    *)
THEOREM StaysOff == Spec => []OffIsOff
<1>1. PowerInv => OffIsOff
  BY DEF PowerInv, ModemInv, RestsUnsupplied, OffIsOff
<1> QED BY <1>1, PowerInvariant, PTL

(* PowerONState::turnOff() cuts a running modem's supply only behind a line  *)
(* that says it goes down, or after MAX_TRIES attempts; startStopUpdate()    *)
(* never does.                                                               *)
THEOREM ShutsDownOrderly == Spec => OrderlyShutdown
<1>1. PowerInv /\ [Next]_vars
         => (powerState = "PowerONState" /\ modem = "on" /\ supply /\ ~supply'
                => announced \/ leftover \/ statics.retryCounter > MaxTries)
  <2> SUFFICES ASSUME PowerInv, [Next]_vars,
                      powerState = "PowerONState", modem = "on", supply, ~supply'
               PROVE  announced \/ leftover \/ statics.retryCounter > MaxTries
    OBVIOUS
  <2>1. \/ startStopUpdateON \/ readPoweredDown \/ turnOffTimesOut
    BY DEF Next, vars, manager, outputs, startStopUpdateOFF, startStopUpdateManual, measureSends,
           measureReads, measureTimesOut, measureNothing, Measuring, sendPowerDown, turnOffAtOnce,
           turnOnON, turnOnManual, Waking, work, turnOff, pursue, reboot, timerDue, started,
           stopped, answer, refuse, Answer, stayMute
  <2>2. CASE startStopUpdateON
    <3>1. Readings = 0 /\ Readings # MaxCount
      BY PowerAssumption DEF Readings
    <3> QED BY <2>2, <3>1 DEF startStopUpdateON, outputs
  <2>3. CASE readPoweredDown
    <3>1. input # <<>> /\ Head(input) = "POWERED DOWN"
      BY <2>3 DEF readPoweredDown, readATResponse, Confirms
    <3>2. input \in Seq(Lines)
      BY DEF PowerInv, ModemInv, PowerDownIsExplained
    <3>3. 1 \in DOMAIN input
      <4>1. Len(input) \in Nat /\ DOMAIN input = 1 .. Len(input)
        BY <3>2
      <4>2. Len(input) # 0
        BY <3>1, <3>2, EmptySeq
      <4> QED BY <4>1, <4>2
    <3>4. input[1] = Head(input)
      BY <3>2
    <3> QED BY <3>1, <3>3, <3>4 DEF PowerInv, ModemInv, PowerDownIsExplained
  <2>4. CASE turnOffTimesOut
    <3>1. ~TriesLeft
      BY <2>4 DEF turnOffTimesOut, outputs
    <3>2. statics.retryCounter \in Nat
      BY TypeParts, PowerAssumption DEF PowerInv, ModemInv, Statics
    <3> QED BY <3>1, <3>2, PowerAssumption DEF TriesLeft
  <2> QED BY <2>1, <2>2, <2>3, <2>4
<1>2. PowerInv /\ [Next]_vars => [powerState = "PowerONState" /\ modem = "on" /\ supply /\ ~supply'
          => announced \/ leftover \/ statics.retryCounter > MaxTries]_vars
  BY <1>1
<1> QED BY <1>2, PowerInvariant, PTL DEF Spec, OrderlyShutdown
=============================================================================
