---------------------------- MODULE EEPROMManager ----------------------------
(***************************************************************************)
(* The EEPROM manager: strings one after the other, each ended by a zero   *)
(* byte, in an AT24C256 written page by page.  Every operation is called   *)
(* again and again until it ends, keeps its progress in static variables,  *)
(* and does one page or one string per call once its delay has elapsed.    *)
(*                                                                         *)
(* One action is one call.  The caller is the tracker: clearAll() when it  *)
(* starts, then whole pushes and pops in any order.  A restart loses the   *)
(* static variables and keeps the cells.                                   *)
(***************************************************************************)
EXTENDS Naturals, Sequences, FiniteSets

CONSTANTS
    Size,          \* EEPROM_SIZE, a multiple of PageSize
    PageSize,      \* PAGE_SIZE
    MaxString,     \* MAX_STRING_SIZE_ALLOWED
    Strings,       \* the strings pushed: sequences of non-zero bytes
    MaxResets,     \* bound on the number of restarts
    CrashPoints    \* operations a restart may interrupt

Operations == {"none", "clearAll", "push", "pop"}

ASSUME EEPROMAssumption ==
    /\ PageSize \in Nat \ {0}
    /\ Size \in Nat \ {0} /\ Size % PageSize = 0
    /\ MaxString \in Nat \ {0}
    /\ \A s \in Strings : s \in Seq(Nat \ {0}) /\ Len(s) \in 1 .. MaxString
    /\ MaxResets \in Nat
    /\ CrashPoints \subseteq Operations

Virgin == 255      \* what a cell that was never written reads as
Bytes == {0, Virgin} \union UNION {{s[i] : i \in DOMAIN s} : s \in Strings}

VARIABLES
    cells,      \* the bytes of the EEPROM
    op,         \* the operation the tracker is calling
    arg,        \* the string being pushed
    out,        \* the buffer pop copies to
    answer,     \* what the last operation to end returned
    clear,      \* static variables of clearAll()
    pop,        \* static variables of popStringFromEEPROM()
    push,       \* static variables of pushStringToEEPROM()
    write,      \* static variables of writeStringToEEPROM()
    resets      \* number of restarts so far

statics == <<clear, pop, push, write>>
vars == <<cells, op, arg, out, answer, statics, resets>>

(* Addresses are cut to 16 bits before use; the chip ignores the top one. *)
Address(n) == n % (2 * Size)
At(a) == cells[a % Size]

(* readCStringFromEEPROM() *)
LengthAt(a) == CHOOSE n \in 0 .. MaxString :
                   /\ n = MaxString \/ At(a + n) = 0
                   /\ \A k \in 0 .. n - 1 : At(a + k) # 0

readCStringFromEEPROM(a) == [i \in 1 .. LengthAt(a) |-> At(a + i - 1)]

Advance(a) == Address(a + LengthAt(a) + 1)

(* One page of a write: the bytes from a on, at most to the end of a's page. *)
PageBytes(a, n) == LET space == PageSize - (a % PageSize)
                   IN  IF n < space THEN n ELSE space

WritePage(a, bytes) ==
    cells' = [c \in DOMAIN cells |->
                 LET i == c - (a % Size)
                 IN  IF c >= a % Size /\ i < Len(bytes) THEN bytes[i + 1]
                     ELSE cells[c]]

Zeros(n) == [i \in 1 .. n |-> 0]

clearStatics == [addr |-> 0, len |-> 0, busy |-> FALSE, reading |-> TRUE]
popStatics == [addr |-> 0, prev |-> 0, string |-> <<>>, len |-> 0, reading |-> TRUE]
pushStatics == [addr |-> 0, locating |-> TRUE]
writeStatics == [addr |-> 0, written |-> 0, busy |-> FALSE]

Answer(status, string) == [status |-> status, string |-> string]

Finish(status, string) ==
    /\ op' = "none"
    /\ arg' = <<>> /\ out' = <<>>
    /\ answer' = Answer(status, string)

GoOn == UNCHANGED <<op, arg, answer>>

Init ==
    /\ \E b \in {0, Virgin} : cells = [c \in 0 .. Size - 1 |-> b]
    /\ op = "clearAll" /\ arg = <<>> /\ out = <<>>
    /\ answer = Answer("NONE", <<>>)
    /\ clear = clearStatics /\ pop = popStatics
    /\ push = pushStatics /\ write = writeStatics
    /\ resets = 0

-----------------------------------------------------------------------------
(* clearAll(): the string to clear is read, then zeroed page by page. *)
ClearPage(a, len) ==
    LET n == PageBytes(a, len)
    IN  /\ WritePage(a, Zeros(n))
        /\ clear' = [addr |-> Address(a + n), len |-> len - n,
                     busy |-> TRUE, reading |-> len - n = 0]

clearAll ==
    /\ op = "clearAll"
    /\ LET a == IF clear.busy THEN clear.addr ELSE 0
           reading == clear.reading \/ ~clear.busy
       IN  IF reading /\ LengthAt(a) = 0
           THEN /\ clear' = clearStatics
                /\ Finish("NONE", <<>>)
                /\ UNCHANGED cells
           ELSE /\ ClearPage(a, IF reading THEN LengthAt(a) + 1 ELSE clear.len)
                /\ GoOn /\ UNCHANGED out
    /\ UNCHANGED <<pop, push, write, resets>>

-----------------------------------------------------------------------------
(* popStringFromEEPROM(), reading phase: one string per call. *)
popReads ==
    /\ op = "pop" /\ pop.reading
    /\ IF LengthAt(pop.addr) > 0
       THEN /\ pop' = [pop EXCEPT !.addr = Advance(pop.addr),
                                  !.prev = pop.addr,
                                  !.string = readCStringFromEEPROM(pop.addr)]
            /\ GoOn /\ UNCHANGED out
       ELSE IF pop.string = <<>>
       THEN /\ pop' = popStatics
            /\ Finish("EMPTY", <<>>)
       ELSE /\ pop' = [pop EXCEPT !.reading = FALSE, !.len = Len(pop.string) + 1]
            /\ out' = pop.string
            /\ GoOn
    /\ UNCHANGED <<cells, clear, push, write, resets>>

(* Mutant: done after the first page, the static variables not reset. *)
popClears_OnePage ==
    /\ op = "pop" /\ ~pop.reading
    /\ LET n == PageBytes(pop.prev, pop.len)
       IN  /\ WritePage(pop.prev, Zeros(n))
           /\ pop' = popStatics /\ Finish("POPPEDSTRINGOK", out)
    /\ UNCHANGED <<clear, push, write, resets>>

(* popStringFromEEPROM(), clearing phase: one page per call. *)
popClears ==
    /\ op = "pop" /\ ~pop.reading
    /\ LET n == PageBytes(pop.prev, pop.len)
       IN  /\ WritePage(pop.prev, Zeros(n))
           /\ IF pop.len = n
              THEN pop' = popStatics /\ Finish("POPPEDSTRINGOK", out)
              ELSE /\ pop' = [pop EXCEPT !.prev = Address(pop.prev + n), !.len = pop.len - n]
                   /\ GoOn /\ UNCHANGED out
    /\ UNCHANGED <<clear, push, write, resets>>

-----------------------------------------------------------------------------
(* pushStringToEEPROM() skips strings, in one call, until it reads an empty  *)
(* one: a string starts behind each zero, so it stops at the first zero that *)
(* follows another, and never when there is none.                            *)
Starts == {0} \union {a + 1 : a \in {b \in 0 .. Size - 2 : At(b) = 0}}
Ends == {a \in Starts : At(a) = 0}
Endless == Ends = {}
End == CHOOSE a \in Ends : \A b \in Ends : a <= b

Fits(a) == a + Len(arg) + 1 <= Size

(* A call, before it waits for the delay ... *)
Located == IF push.locating THEN End ELSE push.addr

Started == IF write.busy THEN write
           ELSE [addr |-> Located, written |-> 0, busy |-> TRUE]

pushRefused ==
    /\ op = "push"
    /\ ~(push.locating /\ Endless)
    /\ ~Fits(Located)
    /\ push' = [addr |-> Located, locating |-> TRUE]
    /\ Finish("NOMEMORY", <<>>)
    /\ UNCHANGED <<cells, clear, pop, write, resets>>

pushWaits ==
    /\ op = "push"
    /\ ~(push.locating /\ Endless)
    /\ Fits(Located)
    /\ push' = [addr |-> Located, locating |-> FALSE]
    /\ write' = Started
    /\ GoOn /\ UNCHANGED <<cells, out, clear, pop, resets>>

(* Mutant: done as soon as the last page is begun. *)
pushWrites_Early ==
    /\ op = "push"
    /\ ~(push.locating /\ Endless)
    /\ Fits(Located)
    /\ LET string == Append(arg, 0)
           n == PageBytes(Started.addr, Len(string) - Started.written)
       IN  IF Started.written + PageSize >= Len(string)
           THEN /\ push' = [addr |-> Located, locating |-> TRUE]
                /\ write' = [Started EXCEPT !.busy = FALSE]
                /\ Finish("PUSHOK", <<>>)
                /\ UNCHANGED cells
           ELSE /\ push' = [addr |-> Located, locating |-> FALSE]
                /\ WritePage(Started.addr,
                             SubSeq(string, Started.written + 1, Started.written + n))
                /\ write' = [Started EXCEPT !.addr = @ + n, !.written = @ + n]
                /\ GoOn /\ UNCHANGED out
    /\ UNCHANGED <<clear, pop, resets>>

(* Mutant: the string is written again and again. *)
pushWrites_Forever ==
    /\ op = "push"
    /\ ~(push.locating /\ Endless)
    /\ Fits(Located)
    /\ LET string == Append(arg, 0)
           n == PageBytes(Started.addr, Len(string) - Started.written)
       IN  /\ push' = [addr |-> Located, locating |-> FALSE]
           /\ WritePage(Started.addr,
                        SubSeq(string, Started.written + 1, Started.written + n))
           /\ write' = IF Started.written + n = Len(string) THEN writeStatics
                       ELSE [Started EXCEPT !.addr = @ + n, !.written = @ + n]
           /\ GoOn /\ UNCHANGED out
    /\ UNCHANGED <<clear, pop, resets>>

(* ... and once it has elapsed: one page, or the end of the operation. *)
pushWrites ==
    /\ op = "push"
    /\ ~(push.locating /\ Endless)
    /\ Fits(Located)
    /\ LET string == Append(arg, 0)
           n == PageBytes(Started.addr, Len(string) - Started.written)
       IN  IF Started.written = Len(string)
           THEN /\ push' = [addr |-> Located, locating |-> TRUE]
                /\ write' = [Started EXCEPT !.busy = FALSE]
                /\ Finish("PUSHOK", <<>>)
                /\ UNCHANGED cells
           ELSE /\ push' = [addr |-> Located, locating |-> FALSE]
                /\ WritePage(Started.addr,
                             SubSeq(string, Started.written + 1, Started.written + n))
                /\ write' = [Started EXCEPT !.addr = @ + n, !.written = @ + n]
                /\ GoOn /\ UNCHANGED out
    /\ UNCHANGED <<clear, pop, resets>>

-----------------------------------------------------------------------------
(* SavingMessage and LoadingMessage begin an operation. *)
startPush == /\ op = "none"
             /\ op' = "push"
             /\ arg' \in Strings
             /\ UNCHANGED <<cells, out, answer, statics, resets>>

startPop == /\ op = "none"
            /\ op' = "pop"
            /\ UNCHANGED <<cells, arg, out, answer, statics, resets>>

(* A new Tracker: its constructor calls clearAll(). *)
Restarted ==
    /\ op' = "clearAll" /\ arg' = <<>> /\ out' = <<>>
    /\ answer' = Answer("NONE", <<>>)
    /\ clear' = clearStatics /\ pop' = popStatics
    /\ push' = pushStatics /\ write' = writeStatics
    /\ UNCHANGED cells

restart == /\ resets < MaxResets
           /\ op \in CrashPoints
           /\ resets' = resets + 1
           /\ Restarted

(* The search that never ends is ended by the watchdog. *)
watchdogBites == /\ op = "push" /\ push.locating /\ Endless
                 /\ Restarted
                 /\ UNCHANGED resets

Next == \/ clearAll \/ popReads \/ popClears
        \/ pushRefused \/ pushWaits \/ pushWrites
        \/ startPush \/ startPop \/ restart \/ watchdogBites

Spec == Init /\ [][Next]_vars

(* update() repeats the call of the current state and the ticker runs, so a *)
(* call that finds its delay elapsed comes; the tracker need not call.      *)
Fairness == /\ WF_vars(clearAll) /\ WF_vars(popReads) /\ WF_vars(popClears)
            /\ WF_vars(pushRefused \/ pushWrites) /\ WF_vars(watchdogBites)

FairSpec == Spec /\ Fairness

-----------------------------------------------------------------------------
(* Properties *)

(* Types; no search or copy runs further than one round of the memory.       *)
TypeOK ==
    /\ cells \in [0 .. Size - 1 -> Bytes]
    /\ op \in Operations /\ arg \in Strings \union {<<>>}
    /\ clear.addr \in 0 .. 2 * Size - 1 /\ clear.len \in 0 .. MaxString + 1
    /\ pop.addr \in 0 .. 2 * Size - 1 /\ pop.prev \in 0 .. 2 * Size - 1
    /\ pop.len \in 0 .. MaxString + 1
    /\ push.addr \in 0 .. Size /\ write.addr \in 0 .. Size
    /\ write.written \in 0 .. Len(arg) + 1 \/ ~write.busy
    /\ resets \in 0 .. MaxResets

(* The strings found below an address, reading as pop does. *)
Occupied(limit) == {a \in Starts : a < limit /\ At(a) # 0}

Smaller(S, a) == {b \in S : b < a}
Nth(S, i) == CHOOSE a \in S : Cardinality(Smaller(S, a)) = i - 1

StringsBelow(limit) ==
    [i \in 1 .. Cardinality(Occupied(limit)) |->
        readCStringFromEEPROM(Nth(Occupied(limit), i))]

Top == IF Endless THEN Size ELSE End

PopStart == pop.prev - (Len(pop.string) + 1 - pop.len)

(* Between operations no byte is left behind the last string: the next push  *)
(* ends in a zero byte followed by zeros, and a pop finds whole strings only.*)
BlankBehind ==
    op = "none" /\ ~Endless => \A c \in End .. Size - 1 : cells[c] = 0

(* The manager is a last-in-first-out stack of whole strings for its         *)
(* callers, down to the last byte of the memory, in spite of pages,          *)
(* interrupted pushes and static variables that outlive an operation.        *)
Contents ==
    CASE op = "clearAll" -> <<>>
      [] op = "push" /\ ~push.locating -> StringsBelow(push.addr)
      [] op = "pop" /\ ~pop.reading -> Append(StringsBelow(PopStart), pop.string)
      [] OTHER -> StringsBelow(Size)

Used ==
    CASE op = "clearAll" -> 0
      [] op = "push" /\ ~push.locating -> push.addr
      [] op = "pop" /\ ~pop.reading -> PopStart + Len(pop.string) + 1
      [] OTHER -> Top

Stack == INSTANCE MessageStack WITH stack <- Contents, used <- Used

ImplementsStack == Stack!SSpec

(* Every operation ends, unless the memory is full to the last byte: then a   *)
(* reader finds no blank byte after the last string and goes round for ever.  *)
OperationsEnd == op # "none" /\ ~Endless ~> op = "none"

=============================================================================
