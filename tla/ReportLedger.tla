---------------------------- MODULE ReportLedger ----------------------------
(***************************************************************************)
(* What the tracker promises about its reports, whatever radio it uses:    *)
(* it works on one report at a time; a report it cannot deliver is put on  *)
(* top of a bounded stack; the stack gives back the newest report first;   *)
(* a report leaves the tracker only by being released.  Tracker.tla is     *)
(* shown to implement this specification.                                  *)
(***************************************************************************)
EXTENDS Naturals, Sequences, SequencesExt

CONSTANTS Capacity      \* number of reports the stack can hold

VARIABLES
    taken,      \* number of reports the tracker has started so far
    hand,       \* the report being worked on, Nobody when there is none
    stack,      \* the reports put aside, newest on top (last)
    released    \* the reports the tracker no longer holds

lvars == <<taken, hand, stack, released>>

Nobody == 0

LInit == taken = 1 /\ hand = 1 /\ stack = <<>> /\ released = {}

(* A wake-up starts a new report. *)
Take == /\ hand = Nobody
        /\ taken' = taken + 1
        /\ hand' = taken'
        /\ UNCHANGED <<stack, released>>

(* The report in hand is put aside. *)
Keep == /\ hand # Nobody
        /\ Len(stack) < Capacity
        /\ stack' = Append(stack, hand)
        /\ hand' = Nobody
        /\ UNCHANGED <<taken, released>>

(* The newest report put aside is taken back. *)
Recall == /\ hand = Nobody
          /\ stack # <<>>
          /\ hand' = Last(stack)
          /\ stack' = Front(stack)
          /\ UNCHANGED <<taken, released>>

(* The newest report put aside turns out to be unreadable. *)
Spoil == /\ hand = Nobody
         /\ stack # <<>>
         /\ released' = released \union {Last(stack)}
         /\ stack' = Front(stack)
         /\ UNCHANGED <<taken, hand>>

(* The report in hand is confirmed, or given up on. *)
Release == /\ hand # Nobody
           /\ released' = released \union {hand}
           /\ hand' = Nobody
           /\ UNCHANGED <<taken, stack>>

(* A restart wipes what the tracker holds and starts over. *)
Wipe == /\ released' = released \union (1 .. taken)
        /\ taken' = taken + 1
        /\ hand' = taken'
        /\ stack' = <<>>

LNext == Take \/ Keep \/ Recall \/ Spoil \/ Release \/ Wipe

LSpec == LInit /\ [][LNext]_lvars
=============================================================================
