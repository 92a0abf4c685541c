----------------------------- MODULE SH2Client ------------------------------
(***************************************************************************)
(* Any client of the driver of the inertial sensor: it opens a session,    *)
(* calls operations one after the other, services the transport between    *)
(* them and closes the session.  The sensor hub can be reset by it, or by  *)
(* itself, the bus refuses writes and transfers are lost.                  *)
(***************************************************************************)
EXTENDS SH2

CONSTANTS
    ClientOps,      \* the operations the client calls
    MaxCalls, MaxResets

ASSUME ClientAssumption ==
    /\ ClientOps \subseteq Ops
    /\ MaxCalls \in Nat /\ MaxResets \in Nat

VARIABLES
    at,         \* where the client is: "closed", "opening", "idle" or "calling"
    op, call,   \* the operation it called last, and of which call
    resets,     \* resets so far
    done        \* what the last operation that ended returned

clientVars == <<at, op, call, resets, done>>
vars == <<sh2Vars, clientVars>>

NoResult == [op |-> "none", call |-> 0, status |-> "none", heard |-> {}, resets |-> 0]

Init ==
    /\ lib = ClearedSh2 /\ at = "closed"
    /\ hubIn = <<>> /\ wire = <<>> /\ hubSeq = [c \in Channels |-> 0]
    /\ enabled = {} /\ taken = {} /\ faults = 0 /\ losses = 0
    /\ op = "none" /\ call = 0 /\ resets = 0 /\ done = NoResult

-----------------------------------------------------------------------------
(* sh2_open(): the hardware layer resets the hub.                            *)
open ==
    /\ at = "closed" /\ resets < MaxResets
    /\ lib' = Opened(lib) /\ HubReset
    /\ at' = "opening" /\ resets' = resets + 1
    /\ UNCHANGED <<counts, op, call, done>>

(* It waits for the reset to be told,                                        *)
awaitReset ==
    /\ at = "opening" /\ ~lib.resetComplete
    /\ service
    /\ UNCHANGED <<counts, clientVars>>

(* no longer than ADVERT_TIMEOUT_US, and returns without an error.           *)
opened ==
    /\ at = "opening"
    /\ at' = "idle"
    /\ UNCHANGED <<sh2Vars, op, call, resets, done>>

(* sh2_close() gives the instance back.                                      *)
close ==
    /\ at = "idle"
    /\ lib' = Closed(lib) /\ at' = "closed"
    /\ UNCHANGED <<hub, counts, op, call, resets, done>>

(* sh2_devReset(), sh2_devOn()                                               *)
devReset ==
    /\ at = "idle" /\ lib.controlChan /\ resets < MaxResets
    /\ HubReset
    /\ resets' = resets + 1
    /\ UNCHANGED <<lib, counts, at, op, call, done>>

(* sh2_service()                                                             *)
idleService ==
    /\ at = "idle"
    /\ service
    /\ UNCHANGED <<counts, clientVars>>

start ==
    /\ at = "idle" /\ call < MaxCalls
    /\ \E o \in ClientOps, sensor \in Sensors :
          /\ lib' = Started(lib, o, sensor, call + 1)
          /\ op' = o
    /\ call' = call + 1 /\ at' = "calling"
    /\ UNCHANGED <<hub, counts, resets, done>>

return ==
    /\ at = "calling" /\ ~Blocked
    /\ done' = [op |-> op, call |-> call, status |-> lib.opStatus, heard |-> lib.heard,
                resets |-> resets]
    /\ at' = "idle"
    /\ UNCHANGED <<sh2Vars, op, call, resets>>

(* The hub resets itself.                                                    *)
spontaneousReset ==
    /\ at # "closed" /\ resets < MaxResets
    /\ HubReset
    /\ resets' = resets + 1
    /\ UNCHANGED <<lib, counts, at, op, call, done>>

Driver == write \/ writeFails \/ poll
Hub == hubTakes \/ lose

Next ==
    \/ open \/ awaitReset \/ opened \/ close \/ devReset \/ idleService
    \/ start \/ return \/ spontaneousReset
    \/ Driver /\ UNCHANGED clientVars
    \/ Hub /\ UNCHANGED clientVars

(* The processor runs: the call it is in goes on.  The hub answers what it   *)
(* has been asked.                                                           *)
Fairness ==
    /\ WF_vars(return)
    /\ WF_vars((write \/ poll) /\ UNCHANGED clientVars)
    /\ WF_vars(hubTakes /\ UNCHANGED clientVars)

Spec == Init /\ [][Next]_vars /\ Fairness

-----------------------------------------------------------------------------
(* A command that ends well was answered by reports of its own call, though   *)
(* the answers to commands the driver does not wait for arrive meanwhile, at  *)
(* any time (wrongResponse, sh2.c:1282).                                     *)
AnswersAreOwn ==
    done.op \in CommandOps /\ done.status = "SH2_OK"
        => \A h \in done.heard : h[1] = done.call

(* Whatever transfers are lost, and wherever, a payload put together from     *)
(* fragments has the consecutive reports of one cargo: lost fragments leave  *)
(* a payload that is torn at its start, never one with a hole.               *)
PayloadIsConsecutive ==
    wire # <<>> =>
        LET payload == rxAppend(lib.shtp, Head(wire)).inPayload
        IN  \A i \in 1..(Len(payload) - 1) :
               /\ payload[i + 1].of = payload[i].of
               /\ payload[i + 1].n = payload[i].n + 1

(* An operation that ends well has reached the hub, however often the bus     *)
(* refused it and whatever arrived meanwhile, unless the hub was reset and    *)
(* forgot it.                                                                *)
RequestsArrive ==
    done.status = "SH2_OK" =>
        \/ done.call \in taken
        \/ \E i \in DOMAIN hubIn : hubIn[i].of = done.call
        \/ resets > 1

(* An operation ends, although none has a time-out, as long as nothing the    *)
(* hub says is lost and it is not reset meanwhile.                           *)
OpEnds == at = "calling" ~> (at # "calling" \/ losses > 0 \/ resets > 1)
=============================================================================
