------------------------------- MODULE WakeUp -------------------------------
(***************************************************************************)
(* What wakes the tracker: Slepping::awake() is called by every update()   *)
(* while the tracker sleeps, and weighs the movement, two timers and the   *)
(* operation mode.  Its decisions live in static variables that outlast    *)
(* the state object, and one of the timers serves two purposes: it ends    *)
(* silent mode and it is the keep-alive of a tracker that does not move.   *)
(*                                                                         *)
(* One action is one call, a change of the measured motion, or a timer     *)
(* coming due.  Durations are left out: a running timer comes due at any   *)
(* time.                                                                   *)
(***************************************************************************)
EXTENDS Naturals

Modes == {"NORMAL", "PURSUIT", "SILENT"}
Motions == {"STATIONARY", "ON_MOTION"}
Events == {"MOVING", "STOPPED", "PARKING", "MOVEMENT_RESTARTED"}

VARIABLES
    currentState,           \* "Slepping", or "awake" in every other state
    mode,                   \* currentOperationMode
    newMotion,              \* newMotionStatus, from the inertial sensor
    motion,                 \* currentMotionStatus
    event,                  \* currentMovementEvent
    timeToWakeUp, initialize, initializeKeepAlive,  \* awake()'s static variables
    latency,                \* timer
    silentKeepAlive,        \* timer
    modem                   \* "off", "starting" once turnOn() was called, "on"

(* History variable: read by properties only. *)
VARIABLES
    moved                   \* this sleep saw PARKING or MOVEMENT_RESTARTED

decisions == <<timeToWakeUp, initialize, initializeKeepAlive>>
timers == <<latency, silentKeepAlive>>
wakeVars == <<currentState, mode, newMotion, motion, event, decisions, timers, modem, moved>>

-----------------------------------------------------------------------------
(* NonBlockingDelay.  *)

Idle == [running |-> FALSE, due |-> FALSE]
restart(t) == [running |-> TRUE, due |-> FALSE]

Fires(t) == t.running /\ t.due

(* Mutant: read() leaves a timer that is not running alone. *)
read_NoStart(t) == IF Fires(t) THEN Idle ELSE t

(* read() starts a timer that is not running and stops one that is due. *)
read(t) == IF ~t.running THEN restart(t)
           ELSE IF t.due THEN Idle
           ELSE t

WakeInit ==
    /\ currentState = "awake" /\ mode = "NORMAL"
    /\ newMotion = "STATIONARY" /\ motion = "STATIONARY" /\ event = "MOVING"
    /\ timeToWakeUp = FALSE /\ initialize = FALSE /\ initializeKeepAlive = FALSE
    /\ latency = Idle /\ silentKeepAlive = Idle
    /\ modem = "on"
    /\ moved = FALSE

-----------------------------------------------------------------------------
(* The environment *)

checkStability ==
    /\ newMotion' \in Motions \ {newMotion}
    /\ UNCHANGED <<currentState, mode, motion, event, decisions, timers, modem, moved>>

latencyDue ==
    /\ latency.running /\ ~latency.due
    /\ latency' = [latency EXCEPT !.due = TRUE]
    /\ UNCHANGED <<currentState, mode, newMotion, motion, event, decisions,
                   silentKeepAlive, modem, moved>>

silentKeepAliveDue ==
    /\ silentKeepAlive.running /\ ~silentKeepAlive.due
    /\ silentKeepAlive' = [silentKeepAlive EXCEPT !.due = TRUE]
    /\ UNCHANGED <<currentState, mode, newMotion, motion, event, decisions,
                   latency, modem, moved>>

modemUp ==
    /\ modem = "starting"
    /\ modem' = "on"
    /\ UNCHANGED <<currentState, mode, newMotion, motion, event, decisions, timers, moved>>

-----------------------------------------------------------------------------
(* While the tracker is awake: the server's orders, and the way to sleep. *)

setLatency ==
    /\ currentState = "awake"
    /\ latency' = restart(latency)
    /\ UNCHANGED <<currentState, mode, newMotion, motion, event, decisions,
                   silentKeepAlive, modem, moved>>

setOperationMode ==
    /\ currentState = "awake"
    /\ mode' \in Modes \ {"SILENT"}
    /\ UNCHANGED <<currentState, newMotion, motion, event, decisions, timers, modem, moved>>

(* A new duration may make a running timer due, or no longer due. *)
setSilentTimer ==
    /\ currentState = "awake"
    /\ mode' = "SILENT"
    /\ \E due \in {FALSE, silentKeepAlive.running} :
          silentKeepAlive' = [silentKeepAlive EXCEPT !.due = due]
    /\ UNCHANGED <<currentState, newMotion, motion, event, decisions, latency, modem, moved>>

EventOf(new, current) ==
    CASE new = "ON_MOTION" /\ current = "STATIONARY" -> "MOVEMENT_RESTARTED"
      [] new = "STATIONARY" /\ current = "ON_MOTION" -> "PARKING"
      [] new = "ON_MOTION" /\ current = "ON_MOTION" -> "MOVING"
      [] new = "STATIONARY" /\ current = "STATIONARY" -> "STOPPED"

updateMovementEvent ==
    /\ event' = EventOf(newMotion, motion)
    /\ motion' = newMotion

pursue ==
    /\ currentState = "awake" /\ mode = "PURSUIT"
    /\ updateMovementEvent
    /\ UNCHANGED <<currentState, mode, newMotion, decisions, timers, modem, moved>>

goToSleep ==
    /\ currentState = "awake" /\ mode # "PURSUIT"
    /\ currentState' = "Slepping"
    /\ modem' = "off"
    /\ moved' = FALSE
    /\ UNCHANGED <<mode, newMotion, motion, event, decisions, timers>>

-----------------------------------------------------------------------------
(* Slepping::awake().  Every call begins by updating the movement event, by  *)
(* restarting the latency timer the first time, and by looking whether the   *)
(* silent period is over.                                                    *)

SilentEnds == mode = "SILENT" /\ Fires(silentKeepAlive)
LatencyNow == IF initialize THEN latency ELSE restart(latency)
SilentKeepAliveNow == IF mode = "SILENT" THEN read(silentKeepAlive) ELSE silentKeepAlive

Begin(now) ==
    /\ currentState = "Slepping"
    /\ now = EventOf(newMotion, motion)
    /\ updateMovementEvent
    /\ mode' = IF SilentEnds THEN "NORMAL" ELSE mode
    /\ moved' = (moved \/ now \in {"PARKING", "MOVEMENT_RESTARTED"})
    /\ UNCHANGED newMotion

StayAsleep == initialize' = TRUE /\ UNCHANGED currentState

(* turnOn() is called again and again until the modem is up. *)
TurnOn(wish) ==
    /\ IF modem = "on"
       THEN /\ currentState' = "awake"
            /\ timeToWakeUp' = FALSE /\ initialize' = FALSE
            /\ UNCHANGED modem
       ELSE /\ StayAsleep
            /\ timeToWakeUp' = wish
            /\ modem' = "starting"

DoNotTurnOn == StayAsleep /\ UNCHANGED <<timeToWakeUp, modem>>

(* PARKING, MOVEMENT_RESTARTED: on the one call that sees the change.        *)
(* (awake() does the same in pursuit, where the tracker never sleeps.)       *)
movementChanges ==
    /\ \E now \in {"PARKING", "MOVEMENT_RESTARTED"} : Begin(now)
    /\ TurnOn(timeToWakeUp)
    /\ latency' = LatencyNow /\ silentKeepAlive' = SilentKeepAliveNow
    /\ UNCHANGED initializeKeepAlive

(* Mutant: the modem is turned on before the latency has elapsed. *)
moving_Eager ==
    /\ Begin("MOVING")
    /\ TurnOn(timeToWakeUp \/ Fires(LatencyNow))
    /\ latency' = read(LatencyNow) /\ silentKeepAlive' = SilentKeepAliveNow
    /\ UNCHANGED initializeKeepAlive

moving ==
    /\ Begin("MOVING")
    /\ IF timeToWakeUp \/ Fires(LatencyNow) THEN TurnOn(TRUE) ELSE DoNotTurnOn
    /\ latency' = read(LatencyNow) /\ silentKeepAlive' = SilentKeepAliveNow
    /\ UNCHANGED initializeKeepAlive

(* STOPPED: actualizeKeepAliveLatency() first ... *)
stoppedFirst ==
    /\ Begin("STOPPED")
    /\ ~initializeKeepAlive
    /\ initializeKeepAlive' = TRUE
    /\ DoNotTurnOn
    /\ latency' = LatencyNow
    /\ silentKeepAlive' = restart(SilentKeepAliveNow)

(* ... and from then on the keep-alive decides. *)
stopped ==
    /\ Begin("STOPPED")
    /\ initializeKeepAlive
    /\ IF timeToWakeUp \/ Fires(SilentKeepAliveNow) THEN TurnOn(TRUE) ELSE DoNotTurnOn
    /\ initializeKeepAlive' = (currentState' = "Slepping")
    /\ latency' = LatencyNow
    /\ silentKeepAlive' = read(SilentKeepAliveNow)

awake == movementChanges \/ moving \/ stoppedFirst \/ stopped

WakeNext ==
    \/ checkStability \/ latencyDue \/ silentKeepAliveDue \/ modemUp
    \/ setLatency \/ setOperationMode \/ setSilentTimer \/ pursue \/ goToSleep
    \/ awake

WakeSpec == WakeInit /\ [][WakeNext]_wakeVars

(* update() calls awake() for ever, the ticker advances every timer, and a   *)
(* modem whose power key was pulsed comes up.  The device may move or not.   *)
Fairness ==
    /\ WF_wakeVars(awake)
    /\ WF_wakeVars(latencyDue) /\ WF_wakeVars(silentKeepAliveDue)
    /\ WF_wakeVars(modemUp)

WakeFairSpec == WakeSpec /\ Fairness

-----------------------------------------------------------------------------
(* Properties *)

TimerOK(t) == /\ t \in [running : BOOLEAN, due : BOOLEAN]
              /\ t.due => t.running

(* Types; a timer that does not run is not due.                              *)
TypeOK ==
    /\ currentState \in {"Slepping", "awake"} /\ mode \in Modes
    /\ newMotion \in Motions /\ motion \in Motions /\ event \in Events
    /\ timeToWakeUp \in BOOLEAN /\ initialize \in BOOLEAN /\ initializeKeepAlive \in BOOLEAN
    /\ TimerOK(latency) /\ TimerOK(silentKeepAlive)
    /\ modem \in {"off", "starting", "on"}
    /\ moved \in BOOLEAN

(* read() reports an elapsed latency once and forgets it; the tracker does   *)
(* not: until it wakes, the latency is running or known to have elapsed,     *)
(* whether the device stops, parks or moves in the meantime.                 *)
LatencyRemembered ==
    currentState = "Slepping" /\ initialize => latency.running \/ timeToWakeUp

(* A stopped tracker always has something that will wake it, also when the   *)
(* end of silent mode has used up the timer's expiry.                        *)
KeepAliveArmed ==
    currentState = "Slepping" /\ initialize /\ event = "STOPPED" =>
        silentKeepAlive.running \/ timeToWakeUp

(* The modem stays off during a sleep nothing has interrupted. *)
QuietSleep ==
    currentState = "Slepping" /\ modem # "off" => moved \/ timeToWakeUp

(* The tracker wakes up, however the device moves and whoever used the timer.*)
WakesUp == currentState = "Slepping" ~> currentState = "awake"

=============================================================================
