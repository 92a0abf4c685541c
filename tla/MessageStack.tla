---------------------------- MODULE MessageStack ----------------------------
(***************************************************************************)
(* What the EEPROM manager promises its callers: a stack of strings that   *)
(* share Size bytes, each string taking one byte more than its length.     *)
(* EEPROMManager.tla is shown to implement this specification.             *)
(***************************************************************************)
EXTENDS Naturals, Sequences, SequencesExt

CONSTANTS Strings,      \* the strings callers push
          Size          \* bytes in the memory

VARIABLES stack,        \* the strings stored, last in on top
          used,         \* the bytes they take
          answer        \* what the last operation to end returned

svars == <<stack, used, answer>>

Answer(status, string) == [status |-> status, string |-> string]

Cost(s) == Len(s) + 1

SInit == stack = <<>> /\ used = 0 /\ answer = Answer("NONE", <<>>)

Push(s) == /\ used + Cost(s) <= Size
           /\ stack' = Append(stack, s) /\ used' = used + Cost(s)
           /\ answer' = Answer("PUSHOK", <<>>)

Refuse(s) == /\ used + Cost(s) > Size
             /\ answer' = Answer("NOMEMORY", <<>>)
             /\ UNCHANGED <<stack, used>>

Pop == /\ stack # <<>>
       /\ stack' = Front(stack) /\ used' = used - Cost(Last(stack))
       /\ answer' = Answer("POPPEDSTRINGOK", Last(stack))

FindEmpty == /\ stack = <<>>
             /\ answer' = Answer("EMPTY", <<>>)
             /\ UNCHANGED <<stack, used>>

(* A restart clears the memory. *)
Clear == /\ stack' = <<>> /\ used' = 0
         /\ answer' = Answer("NONE", <<>>)

SNext == (\E s \in Strings : Push(s) \/ Refuse(s)) \/ Pop \/ FindEmpty \/ Clear

SSpec == SInit /\ [][SNext]_svars
=============================================================================
