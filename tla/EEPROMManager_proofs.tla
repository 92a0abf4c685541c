------------------------- MODULE EEPROMManager_proofs -------------------------
(***************************************************************************)
(* Proofs about the EEPROM manager, for every size of the memory, of its   *)
(* pages and of the strings, and restarts anywhere.                        *)
(***************************************************************************)
EXTENDS EEPROMManager, FiniteSetTheorems, WellFoundedInduction, TLAPS

-----------------------------------------------------------------------------
(* Addresses, lengths and pages. *)
Addresses == 0 .. 2 * Size - 1
Texts == UNION {[1 .. n -> Bytes] : n \in 0 .. MaxString}

(* What the types rest on: the progress of an operation lies in the memory,  *)
(* and a write under way is the one of the string being pushed, which fits.  *)
Shapes ==
    /\ cells \in [0 .. Size - 1 -> Bytes]
    /\ op \in Operations /\ arg \in Strings \union {<<>>} /\ (op = "push" => arg \in Strings)
    /\ clear \in [addr : Addresses, len : 0 .. MaxString + 1, busy : BOOLEAN, reading : BOOLEAN]
    /\ pop \in [addr : Addresses, prev : Addresses, string : Texts,
                len : 0 .. MaxString + 1, reading : BOOLEAN]
    /\ push \in [addr : 0 .. Size, locating : BOOLEAN]
    /\ write \in [addr : 0 .. Size, written : 0 .. MaxString + 1, busy : BOOLEAN]
    /\ resets \in 0 .. MaxResets

WriteInside ==
    write.busy => /\ op = "push" /\ ~push.locating
                  /\ write.addr = push.addr + write.written
                  /\ write.written <= Len(arg) + 1
                  /\ Fits(push.addr)

EEPROMInv == Shapes /\ WriteInside

(* What the memory looks like.  Below A: texts of at most MaxString bytes,   *)
(* none empty, each with its zero; from A on: nothing.                       *)
Packed(A) ==
    /\ A \in 0 .. Size
    /\ \A c \in 0 .. A - 1 :
          /\ \E d \in c .. A - 1 : d <= c + MaxString /\ cells[d] = 0
          /\ cells[c] = 0 => c > 0 /\ cells[c - 1] # 0

BlankFrom(A) == \A c \in A .. Size - 1 : cells[c] = 0

Whole == Packed(Top) /\ BlankFrom(Top)

(* What clearAll() reads from b on comes to an end there.                    *)
Readable(b) ==
    \A c \in b .. Size - 1 :
       /\ \E d \in c .. Size - 1 : d <= c + MaxString /\ cells[d] = 0
       /\ cells[c] = 0 /\ (c = b \/ cells[c - 1] = 0) => BlankFrom(c)

(* The operations under way.  clearAll() has cleared all below ClearAddr and *)
(* is about to clear what lies below ClearEnd; the memory may be new.        *)
ClearAddr == IF clear.busy THEN clear.addr ELSE 0
ClearEnd == IF clear.busy /\ ~clear.reading THEN clear.addr + clear.len ELSE ClearAddr

Clearing ==
    /\ \A c \in 0 .. Size - 1 : c < ClearAddr => cells[c] = 0
    /\ BlankFrom(0) \/ Readable(ClearEnd) \/ \A c \in ClearEnd .. Size - 1 : cells[c] # 0

Pushing ==
    /\ write.busy /\ Packed(push.addr)
    /\ \A c \in push.addr .. Size - 1 :
          cells[c] = IF c - push.addr < write.written /\ c - push.addr < Len(arg)
                     THEN arg[c - push.addr + 1] ELSE 0

Reading ==
    /\ Whole
    /\ Packed(pop.addr % Size)
    /\ pop.string = <<>> => pop.addr = 0
    /\ pop.string # <<>> /\ Top < Size =>
          /\ pop.prev < Top /\ Packed(pop.prev)
          /\ pop.string = readCStringFromEEPROM(pop.prev)
          /\ pop.addr = pop.prev + Len(pop.string) + 1

Popping ==
    /\ out = pop.string /\ pop.string # <<>> /\ pop.len > 0
    /\ Packed(PopStart)
    /\ PopStart <= pop.prev /\ pop.prev + pop.len <= Size
    /\ \A c \in PopStart .. Size - 1 :
          c < pop.prev \/ c >= pop.prev + pop.len => cells[c] = 0

Layout ==
    /\ op # "push" => push.locating
    /\ op # "pop" => pop = popStatics
    /\ op = "clearAll" => Clearing
    /\ op = "none" \/ (op = "push" /\ push.locating) => Whole
    /\ op = "push" /\ ~push.locating => Pushing
    /\ op = "pop" /\ pop.reading => Reading
    /\ op = "pop" /\ ~pop.reading => Popping

LEMMA Least ==
    ASSUME NEW T, T \subseteq Nat, T # {}
    PROVE  \E n \in T : \A m \in T : n <= m
<1>1. PICK n \in T : \A m \in T : ~(<<m, n>> \in OpToRel(<, Nat))
  BY WFMin, NatLessThanWellFounded, Zenon
<1>2. \A m \in T : ~(m < n)
  <2> SUFFICES ASSUME NEW m \in T, m < n PROVE FALSE
    OBVIOUS
  <2>1. <<m, n>> \in OpToRel(<, Nat)
    BY Zenon DEF OpToRel
  <2> QED BY <1>1, <2>1, Zenon
<1> QED BY <1>2

LEMMA Remainder ==
    ASSUME NEW a \in Nat, NEW n \in Nat \ {0}
    PROVE  a % n \in 0 .. n - 1
  OBVIOUS

LEMMA AddressTyped ==
    ASSUME NEW n \in Nat
    PROVE  Address(n) \in Addresses
  BY Remainder, EEPROMAssumption DEF Address, Addresses

(* A string read goes to the first zero, or is cut at MaxString bytes. *)
LEMMA LengthFacts ==
    ASSUME NEW a
    PROVE  /\ LengthAt(a) \in 0 .. MaxString
           /\ LengthAt(a) = MaxString \/ At(a + LengthAt(a)) = 0
           /\ \A k \in 0 .. LengthAt(a) - 1 : At(a + k) # 0
<1> DEFINE T == {n \in 0 .. MaxString : n = MaxString \/ At(a + n) = 0}
<1>1. T \subseteq Nat /\ MaxString \in T
  BY EEPROMAssumption
<1>2. PICK n \in T : \A m \in T : n <= m
  BY <1>1, Least
<1>3. \A k \in 0 .. n - 1 : At(a + k) # 0
  <2> SUFFICES ASSUME NEW k \in 0 .. n - 1, At(a + k) = 0 PROVE FALSE
    OBVIOUS
  <2>1. n \in 0 .. MaxString
    BY <1>2
  <2>2. k \in T /\ k < n
    BY <2>1, EEPROMAssumption
  <2> QED BY <1>2, <2>1, <2>2
<1>4. \E m \in 0 .. MaxString :
         (m = MaxString \/ At(a + m) = 0) /\ \A k \in 0 .. m - 1 : At(a + k) # 0
  BY <1>2, <1>3
<1> QED BY <1>4 DEF LengthAt

LEMMA LengthTyped ==
    ASSUME NEW a
    PROVE  LengthAt(a) \in 0 .. MaxString
  BY LengthFacts

LEMMA TextTyped ==
    ASSUME Shapes, NEW a \in Nat
    PROVE  /\ readCStringFromEEPROM(a) \in Texts
           /\ Len(readCStringFromEEPROM(a)) = LengthAt(a)
<1> DEFINE n == LengthAt(a)
<1>1. n \in 0 .. MaxString
  BY LengthTyped
<1> HIDE DEF n
<1>2. \A i \in 1 .. n : At(a + i - 1) \in Bytes
  <2> SUFFICES ASSUME NEW i \in 1 .. n PROVE At(a + i - 1) \in Bytes
    OBVIOUS
  <2>1. a + i - 1 \in Nat
    BY <1>1, EEPROMAssumption
  <2>2. (a + i - 1) % Size \in 0 .. Size - 1
    BY <2>1, Remainder, EEPROMAssumption
  <2> QED BY <2>2 DEF At, Shapes
<1>3. readCStringFromEEPROM(a) = [i \in 1 .. n |-> At(a + i - 1)]
  BY DEF readCStringFromEEPROM, n
<1>4. [i \in 1 .. n |-> At(a + i - 1)] \in [1 .. n -> Bytes]
  BY <1>2
<1>5. Len([i \in 1 .. n |-> At(a + i - 1)]) = n
  BY <1>1
<1> QED BY <1>1, <1>3, <1>4, <1>5 DEF Texts, n

LEMMA PageTyped ==
    ASSUME NEW a \in Nat, NEW n \in Nat
    PROVE  PageBytes(a, n) \in 0 .. n
<1>1. a % PageSize \in 0 .. PageSize - 1
  BY Remainder, EEPROMAssumption
<1> QED BY <1>1, EEPROMAssumption DEF PageBytes

LEMMA WrittenTyped ==
    ASSUME Shapes, NEW a \in Nat, NEW bytes \in Seq(Bytes), WritePage(a, bytes)
    PROVE  cells' \in [0 .. Size - 1 -> Bytes]
<1>1. a % Size \in 0 .. Size - 1
  BY Remainder, EEPROMAssumption
<1> DEFINE start == a % Size
<1>2. start \in Nat /\ DOMAIN cells = 0 .. Size - 1
  BY <1>1, EEPROMAssumption DEF Shapes
<1>3. cells' = [c \in 0 .. Size - 1 |->
                  IF c >= start /\ c - start < Len(bytes) THEN bytes[c - start + 1] ELSE cells[c]]
  BY <1>2, Zenon DEF WritePage
<1> HIDE DEF start
<1>4. ASSUME NEW c \in 0 .. Size - 1
      PROVE  (IF c >= start /\ c - start < Len(bytes) THEN bytes[c - start + 1] ELSE cells[c]) \in Bytes
  <2>1. c \in Nat /\ Len(bytes) \in Nat
    BY EEPROMAssumption
  <2>2. CASE c >= start /\ c - start < Len(bytes)
    <3>1. c - start + 1 \in 1 .. Len(bytes)
      BY <1>2, <2>1, <2>2
    <3> QED BY <2>2, <3>1
  <2>3. CASE ~(c >= start /\ c - start < Len(bytes))
    BY <2>3 DEF Shapes
  <2> QED BY <2>2, <2>3
<1> QED BY <1>3, <1>4

LEMMA ZerosTyped ==
    ASSUME NEW n \in Nat
    PROVE  Zeros(n) \in Seq(Bytes)
  BY DEF Zeros, Bytes

-----------------------------------------------------------------------------
LEMMA NewTyped ==
    /\ clearStatics \in [addr : Addresses, len : 0 .. MaxString + 1, busy : BOOLEAN, reading : BOOLEAN]
    /\ popStatics \in [addr : Addresses, prev : Addresses, string : Texts,
                       len : 0 .. MaxString + 1, reading : BOOLEAN]
    /\ pushStatics \in [addr : 0 .. Size, locating : BOOLEAN]
    /\ writeStatics \in [addr : 0 .. Size, written : 0 .. MaxString + 1, busy : BOOLEAN]
<1>1. <<>> \in Texts
  <2>1. 0 \in 0 .. MaxString /\ <<>> \in [1 .. 0 -> Bytes]
    BY EEPROMAssumption
  <2> QED BY <2>1 DEF Texts
<1>2. 0 \in Addresses
  BY EEPROMAssumption DEF Addresses
<1> QED BY <1>1, <1>2, EEPROMAssumption DEF clearStatics, popStatics, pushStatics, writeStatics

LEMMA EEPROMInit == Init => EEPROMInv
<1> SUFFICES ASSUME Init PROVE EEPROMInv
  OBVIOUS
<1>1. cells \in [0 .. Size - 1 -> Bytes]
  BY DEF Init, Bytes
<1>2. op \in Operations /\ arg \in Strings \union {<<>>} /\ op # "push"
  BY DEF Init, Operations
<1>3. resets \in 0 .. MaxResets
  BY EEPROMAssumption DEF Init
<1>4. ~write.busy
  BY DEF Init, writeStatics
<1>5. clear = clearStatics /\ pop = popStatics /\ push = pushStatics /\ write = writeStatics
  BY DEF Init
<1> QED BY <1>1, <1>2, <1>3, <1>4, <1>5, NewTyped DEF EEPROMInv, Shapes, WriteInside

LEMMA RestartStep == EEPROMInv /\ (restart \/ watchdogBites) => EEPROMInv'
<1> SUFFICES ASSUME EEPROMInv, restart \/ watchdogBites PROVE EEPROMInv'
  OBVIOUS
<1>1. /\ op' = "clearAll" /\ arg' = <<>> /\ UNCHANGED cells
      /\ clear' = clearStatics /\ pop' = popStatics /\ push' = pushStatics /\ write' = writeStatics
  BY DEF restart, watchdogBites, Restarted
<1>2. resets' \in 0 .. MaxResets
  <2>1. resets \in 0 .. MaxResets
    BY DEF EEPROMInv, Shapes
  <2>2. resets' = resets \/ (resets < MaxResets /\ resets' = resets + 1)
    BY DEF restart, watchdogBites
  <2> QED BY <2>1, <2>2, EEPROMAssumption
<1> QED BY <1>1, <1>2, NewTyped DEF EEPROMInv, Shapes, WriteInside, writeStatics, Operations

LEMMA StartStep == EEPROMInv /\ (startPush \/ startPop) => EEPROMInv'
<1> SUFFICES ASSUME EEPROMInv, startPush \/ startPop PROVE EEPROMInv'
  OBVIOUS
<1>1. /\ UNCHANGED <<cells, clear, pop, push, write, resets>> /\ op = "none"
      /\ op' \in {"push", "pop"} /\ arg' \in Strings \union {arg}
      /\ op' = "push" => arg' \in Strings
  BY DEF startPush, startPop, statics
<1> QED BY <1>1 DEF EEPROMInv, Shapes, WriteInside, Operations

LEMMA ClearStep == EEPROMInv /\ clearAll => EEPROMInv'
<1> SUFFICES ASSUME EEPROMInv, clearAll PROVE EEPROMInv'
  OBVIOUS
<1>1. UNCHANGED <<pop, push, write, resets>> /\ op = "clearAll"
  BY DEF clearAll
<1>2. ~write.busy
  BY <1>1 DEF EEPROMInv, WriteInside
<1>3. CASE clear' = clearStatics /\ Finish("NONE", <<>>) /\ UNCHANGED cells
  BY <1>1, <1>2, <1>3, NewTyped DEF EEPROMInv, Shapes, WriteInside, Finish, Operations
<1>4. CASE \E a \in Addresses, len \in 0 .. MaxString + 1 : ClearPage(a, len) /\ GoOn
  <2>1. PICK a \in Addresses, len \in 0 .. MaxString + 1 : ClearPage(a, len) /\ GoOn
    BY <1>4
  <2> DEFINE n == PageBytes(a, len)
  <2>2. a \in Nat /\ len \in Nat /\ n \in 0 .. len
    BY PageTyped, EEPROMAssumption DEF Addresses
  <2>3. /\ WritePage(a, Zeros(n))
        /\ clear' = [addr |-> Address(a + n), len |-> len - n, busy |-> TRUE, reading |-> len - n = 0]
    BY <2>1, Zenon DEF ClearPage
  <2> HIDE DEF n
  <2>4. cells' \in [0 .. Size - 1 -> Bytes]
    BY <2>2, <2>3, ZerosTyped, WrittenTyped DEF EEPROMInv
  <2>5. Address(a + n) \in Addresses /\ len - n \in 0 .. MaxString + 1 /\ (len - n = 0) \in BOOLEAN
    BY <2>2, AddressTyped, EEPROMAssumption
  <2>6. clear' \in [addr : Addresses, len : 0 .. MaxString + 1, busy : BOOLEAN, reading : BOOLEAN]
    BY <2>3, <2>5
  <2> QED BY <1>1, <1>2, <2>1, <2>4, <2>6 DEF EEPROMInv, Shapes, WriteInside, GoOn
<1> DEFINE b == IF clear.busy THEN clear.addr ELSE 0
           reading == clear.reading \/ ~clear.busy
           l == IF reading THEN LengthAt(b) + 1 ELSE clear.len
<1>5. b \in Addresses /\ l \in 0 .. MaxString + 1
  <2>1. b \in Addresses /\ clear.len \in 0 .. MaxString + 1
    BY EEPROMAssumption, SMTT(30) DEF EEPROMInv, Shapes, Addresses
  <2>2. LengthAt(b) + 1 \in 0 .. MaxString + 1
    BY LengthTyped, EEPROMAssumption
  <2> QED BY <2>1, <2>2
<1>6. \/ clear' = clearStatics /\ Finish("NONE", <<>>) /\ UNCHANGED cells
      \/ ClearPage(b, l) /\ GoOn
  BY Zenon DEF clearAll
<1> HIDE DEF b, l, reading
<1> QED BY <1>3, <1>4, <1>5, <1>6

LEMMA PopStep == EEPROMInv /\ (popReads \/ popClears) => EEPROMInv'
<1> SUFFICES ASSUME EEPROMInv, popReads \/ popClears PROVE EEPROMInv'
  OBVIOUS
<1> DEFINE Pops == [addr : Addresses, prev : Addresses, string : Texts,
                    len : 0 .. MaxString + 1, reading : BOOLEAN]
<1>1. UNCHANGED <<clear, push, write, resets>> /\ op = "pop" /\ ~write.busy
  BY DEF popReads, popClears, EEPROMInv, WriteInside
<1>2. pop \in Pops /\ pop.addr \in Nat /\ pop.prev \in Nat
  BY EEPROMAssumption DEF EEPROMInv, Shapes, Addresses
<1>3. /\ op' \in Operations /\ op' # "push" /\ arg' \in {arg, <<>>}
  BY <1>1 DEF popReads, popClears, Finish, GoOn, Operations
<1>4. cells' \in [0 .. Size - 1 -> Bytes] /\ pop' \in Pops
  <2>1. CASE popReads
    <3>1. UNCHANGED cells
      BY <2>1 DEF popReads
    <3>2. CASE pop' = popStatics
      BY <3>1, <3>2, NewTyped DEF EEPROMInv, Shapes
    <3>3. CASE pop' = [pop EXCEPT !.addr = Advance(pop.addr), !.prev = pop.addr,
                                  !.string = readCStringFromEEPROM(pop.addr)]
      <4>1. Advance(pop.addr) \in Addresses
        <5>1. pop.addr + LengthAt(pop.addr) + 1 \in Nat
          BY <1>2, LengthTyped, EEPROMAssumption
        <5> QED BY <5>1, AddressTyped DEF Advance
      <4>2. readCStringFromEEPROM(pop.addr) \in Texts
        BY <1>2, TextTyped DEF EEPROMInv
      <4> QED BY <1>2, <3>1, <3>3, <4>1, <4>2 DEF EEPROMInv, Shapes
    <3>4. CASE pop' = [pop EXCEPT !.reading = FALSE, !.len = Len(pop.string) + 1]
      <4>1. Len(pop.string) + 1 \in 0 .. MaxString + 1
        <5>1. PICK n \in 0 .. MaxString : pop.string \in [1 .. n -> Bytes]
          BY <1>2 DEF Texts
        <5>2. Len(pop.string) = n
          BY <5>1, EEPROMAssumption
        <5> QED BY <5>2, EEPROMAssumption
      <4> QED BY <1>2, <3>1, <3>4, <4>1 DEF EEPROMInv, Shapes
    <3> QED BY <2>1, <3>2, <3>3, <3>4 DEF popReads
  <2>2. CASE popClears
    <3> DEFINE n == PageBytes(pop.prev, pop.len)
    <3>1. pop.len \in 0 .. MaxString + 1 /\ pop.len \in Nat
      BY <1>2, EEPROMAssumption
    <3>2. n \in 0 .. pop.len
      BY <1>2, <3>1, PageTyped
    <3>3. /\ WritePage(pop.prev, Zeros(n))
          /\ \/ pop' = popStatics
             \/ pop' = [pop EXCEPT !.prev = Address(pop.prev + n), !.len = pop.len - n]
      BY <2>2, Zenon DEF popClears
    <3> HIDE DEF n
    <3>4. cells' \in [0 .. Size - 1 -> Bytes]
      BY <1>2, <3>1, <3>2, <3>3, ZerosTyped, WrittenTyped DEF EEPROMInv
    <3>5. Address(pop.prev + n) \in Addresses /\ pop.len - n \in 0 .. MaxString + 1
      BY <1>2, <3>1, <3>2, AddressTyped, EEPROMAssumption
    <3> QED BY <1>2, <3>3, <3>4, <3>5, NewTyped
  <2> QED BY <2>1, <2>2
<1> QED BY <1>1, <1>3, <1>4 DEF EEPROMInv, Shapes, WriteInside

-----------------------------------------------------------------------------
(* pushStringToEEPROM() *)

LEMMA EndTyped == ~Endless => End \in 0 .. Size - 1
<1> SUFFICES ASSUME Ends # {} PROVE End \in 0 .. Size - 1
  BY DEF Endless
<1>1. Starts \subseteq 0 .. Size - 1
  BY EEPROMAssumption DEF Starts
<1>2. Ends \subseteq 0 .. Size - 1 /\ Ends \subseteq Nat
  <2>1. Ends \subseteq Starts /\ 0 .. Size - 1 \subseteq Nat
    BY EEPROMAssumption DEF Ends
  <2> QED BY <1>1, <2>1
<1>3. \E a \in Ends : \A b \in Ends : a <= b
  BY <1>2, Least
<1>4. End \in Ends
  BY <1>3 DEF End
<1> QED BY <1>2, <1>4

LEMMA PushStep == EEPROMInv /\ (pushRefused \/ pushWaits \/ pushWrites) => EEPROMInv'
<1> SUFFICES ASSUME EEPROMInv, pushRefused \/ pushWaits \/ pushWrites PROVE EEPROMInv'
  OBVIOUS
<1>1. /\ UNCHANGED <<clear, pop, resets>> /\ op = "push" /\ ~(push.locating /\ Endless)
  BY DEF pushRefused, pushWaits, pushWrites
<1>2. arg \in Seq(Nat \ {0}) /\ Len(arg) \in 1 .. MaxString /\ arg \in Strings
  BY <1>1, EEPROMAssumption DEF EEPROMInv, Shapes
<1>3. Located \in 0 .. Size
  <2>1. push.addr \in 0 .. Size
    BY DEF EEPROMInv, Shapes
  <2>2. push.locating => End \in 0 .. Size
    BY <1>1, EndTyped, EEPROMAssumption
  <2> QED BY <2>1, <2>2 DEF Located
<1> DEFINE Writes == [addr : 0 .. Size, written : 0 .. MaxString + 1, busy : BOOLEAN]
<1>4. Fits(Located) =>
        /\ Started \in Writes /\ Started.busy
        /\ Started.addr = Located + Started.written /\ Started.written <= Len(arg) + 1
  <2> SUFFICES ASSUME Fits(Located)
               PROVE  /\ Started \in Writes /\ Started.busy
                      /\ Started.addr = Located + Started.written
                      /\ Started.written <= Len(arg) + 1
    OBVIOUS
  <2>1. CASE write.busy
    <3>1. Located = push.addr
      BY <2>1 DEF Located, EEPROMInv, WriteInside
    <3> QED BY <2>1, <3>1 DEF Started, EEPROMInv, Shapes, WriteInside
  <2>2. CASE ~write.busy
    <3>1. Started = [addr |-> Located, written |-> 0, busy |-> TRUE]
      BY <2>2 DEF Started
    <3> QED BY <1>2, <1>3, <3>1, EEPROMAssumption
  <2> QED BY <2>1, <2>2
<1>5. /\ op' \in {"none", "push"} /\ arg' \in {<<>>, arg} /\ (op' = "push" => arg' = arg)
  BY <1>1 DEF pushRefused, pushWaits, pushWrites, Finish, GoOn
<1>6. op' \in Operations /\ arg' \in Strings \union {<<>>} /\ (op' = "push" => arg' \in Strings)
  BY <1>2, <1>5 DEF Operations
<1>7. push' \in [addr : 0 .. Size, locating : BOOLEAN]
  <2>1. \E b \in BOOLEAN : push' = [addr |-> Located, locating |-> b]
    BY DEF pushRefused, pushWaits, pushWrites
  <2> QED BY <1>3, <2>1
<1>8. CASE pushRefused
  <2>1. UNCHANGED <<cells, write>> /\ ~Fits(Located) /\ op' = "none"
    BY <1>8 DEF pushRefused, Finish
  <2>2. ~write.busy
    BY <2>1 DEF EEPROMInv, WriteInside, Located
  <2> QED BY <1>1, <1>6, <1>7, <2>1, <2>2 DEF EEPROMInv, Shapes, WriteInside
<1>9. CASE pushWaits
  <2>1. /\ UNCHANGED <<cells, op, arg>> /\ write' = Started /\ Fits(Located)
        /\ push' = [addr |-> Located, locating |-> FALSE]
    BY <1>9 DEF pushWaits, GoOn
  <2>2. WriteInside'
    BY <1>1, <1>4, <2>1 DEF WriteInside, Fits
  <2>3. write' \in Writes
    BY <1>4, <2>1
  <2> QED BY <1>1, <1>6, <1>7, <2>1, <2>2, <2>3 DEF EEPROMInv, Shapes
<1>10. CASE pushWrites
  <2> DEFINE string == Append(arg, 0)
             n == PageBytes(Started.addr, Len(string) - Started.written)
  <2>1. Len(string) = Len(arg) + 1 /\ Len(arg) \in Nat
    BY <1>2
  <2>2. Fits(Located)
    BY <1>10 DEF pushWrites
  <2>3. CASE UNCHANGED cells /\ write' = [Started EXCEPT !.busy = FALSE]
    <3>1. write' \in Writes /\ ~write'.busy
      <4> DEFINE w == Started
      <4>1. w \in Writes
        BY <1>4, <2>2
      <4> HIDE DEF w
      <4>2. [w EXCEPT !.busy = FALSE] \in Writes /\ ~[w EXCEPT !.busy = FALSE].busy
        BY <4>1
      <4> QED BY <2>3, <4>2 DEF w
    <3> QED BY <1>1, <1>6, <1>7, <2>3, <3>1 DEF EEPROMInv, Shapes, WriteInside
  <2>4. CASE /\ push' = [addr |-> Located, locating |-> FALSE]
             /\ WritePage(Started.addr, SubSeq(string, Started.written + 1, Started.written + n))
             /\ write' = [Started EXCEPT !.addr = @ + n, !.written = @ + n]
             /\ GoOn
    <3>1. /\ Started \in Writes /\ Started.busy /\ Started.addr = Located + Started.written
          /\ Started.addr \in Nat /\ Started.written \in 0 .. Len(arg) + 1
      <4> DEFINE w == Started
      <4>1. w \in Writes /\ w.busy /\ w.addr = Located + w.written /\ w.written <= Len(arg) + 1
        BY <1>4, <2>2
      <4> HIDE DEF w
      <4>2. w.addr \in Nat /\ w.written \in 0 .. Len(arg) + 1
        BY <1>2, <4>1, EEPROMAssumption
      <4> QED BY <4>1, <4>2 DEF w
    <3>2. n \in 0 .. Len(arg) + 1 - Started.written
      <4> DEFINE left == Len(string) - Started.written
      <4>1. left \in Nat /\ left = Len(arg) + 1 - Started.written
        BY <2>1, <3>1
      <4> HIDE DEF left
      <4>2. PageBytes(Started.addr, left) \in 0 .. left
        BY <3>1, <4>1, PageTyped
      <4> QED BY <4>1, <4>2 DEF left
    <3> DEFINE bytes == SubSeq(string, Started.written + 1, Started.written + n)
    <3>3. bytes \in Seq(Bytes)
      <4>1. string \in Seq(Bytes)
        <5>1. \A i \in DOMAIN arg : arg[i] \in Bytes
          BY <1>2 DEF Bytes
        <5>2. arg \in Seq(Bytes)
          BY <1>2, <5>1
        <5> QED BY <5>2 DEF Bytes
      <4>2. Started.written + 1 \in 1 .. Len(string) + 1 /\ Started.written + n \in 0 .. Len(string)
        BY <2>1, <3>1, <3>2
      <4> HIDE DEF string, n
      <4> QED BY <4>1, <4>2
    <3> HIDE DEF bytes, n, string
    <3>4. cells' \in [0 .. Size - 1 -> Bytes]
      BY <2>4, <3>1, <3>3, WrittenTyped DEF EEPROMInv, bytes
    <3>5. /\ Started.addr + n \in 0 .. Size /\ Started.written + n \in 0 .. Len(arg) + 1
          /\ Started.written + n \in 0 .. MaxString + 1
      <4> DEFINE l == Located
                 w == Started.written
      <4>1. /\ l \in Nat /\ w \in Nat /\ n \in Nat /\ Len(arg) \in Nat /\ MaxString \in Nat
            /\ w + n <= Len(arg) + 1 /\ Len(arg) <= MaxString
            /\ Size \in Nat /\ l + Len(arg) + 1 <= Size /\ Started.addr = l + w
        BY <1>2, <1>3, <2>2, <3>1, <3>2, EEPROMAssumption, SMTT(30) DEF Fits
      <4> HIDE DEF l, w
      <4>2. /\ l + w + n \in 0 .. Size /\ w + n \in 0 .. Len(arg) + 1
            /\ w + n \in 0 .. MaxString + 1
        BY <4>1
      <4> QED BY <4>1, <4>2 DEF w
    <3>6. /\ write' \in Writes /\ write'.addr = Started.addr + n
          /\ write'.written = Started.written + n
      BY <2>4, <3>1, <3>5
    <3>7. op' = "push" /\ arg' = arg /\ push'.addr = Located /\ push'.locating = FALSE
      BY <1>1, <2>4 DEF GoOn
    <3>8. Located + (Started.written + n) = Started.addr + n
      BY <1>3, <3>1, <3>2, EEPROMAssumption
    <3>9. WriteInside'
      BY <2>2, <3>5, <3>6, <3>7, <3>8 DEF WriteInside, Fits
    <3> QED BY <1>1, <1>6, <1>7, <3>4, <3>6, <3>9 DEF EEPROMInv, Shapes
  <2> QED BY <1>10, <2>3, <2>4, Zenon DEF pushWrites
<1> QED BY <1>8, <1>9, <1>10

LEMMA EEPROMStep == EEPROMInv /\ [Next]_vars => EEPROMInv'
<1> SUFFICES ASSUME EEPROMInv, [Next]_vars PROVE EEPROMInv'
  OBVIOUS
<1>1. CASE UNCHANGED vars
  BY <1>1 DEF vars, statics, EEPROMInv, Shapes, WriteInside, Fits
<1>2. CASE Next
  BY <1>2, RestartStep, StartStep, ClearStep, PopStep, PushStep DEF Next
<1> QED BY <1>1, <1>2

-----------------------------------------------------------------------------
(* EEPROMInv holds in every state. *)
THEOREM EEPROMInvariant == Spec => []EEPROMInv
<1> QED BY EEPROMInit, EEPROMStep, PTL DEF Spec

(* Type correctness: whatever a restart interrupts, no search, page or copy  *)
(* leaves the memory, and no write goes past the end of its string.          *)
THEOREM EEPROMTypes == Spec => []TypeOK
<1>1. EEPROMInv => TypeOK
  <2> SUFFICES ASSUME EEPROMInv PROVE TypeOK
    OBVIOUS
  <2>1. write.busy => write.written \in 0 .. Len(arg) + 1
    <3>1. write.busy => arg \in Strings /\ write.written <= Len(arg) + 1
      BY DEF EEPROMInv, Shapes, WriteInside
    <3> QED BY <3>1, EEPROMAssumption DEF EEPROMInv, Shapes
  <2> QED BY <2>1 DEF TypeOK, EEPROMInv, Shapes, Addresses
<1> QED BY <1>1, EEPROMInvariant, PTL

-----------------------------------------------------------------------------
LEMMA SmallRemainder ==
    ASSUME NEW n \in Nat \ {0}, NEW a \in Nat, a < n
    PROVE  a % n = a
  OBVIOUS

LEMMA OnceRound ==
    ASSUME NEW n \in Nat \ {0}, NEW a \in Nat, n <= a, a < 2 * n
    PROVE  a % n = a - n
  OBVIOUS

LEMMA FullRound ==
    ASSUME NEW n \in Nat \ {0}
    PROVE  n % n = 0
  OBVIOUS

LEMMA LengthIs ==
    ASSUME NEW a, NEW n \in 0 .. MaxString, n = MaxString \/ At(a + n) = 0,
           \A k \in 0 .. n - 1 : At(a + k) # 0
    PROVE  LengthAt(a) = n
<1> DEFINE P(m) == /\ m = MaxString \/ At(a + m) = 0
                   /\ \A k \in 0 .. m - 1 : At(a + k) # 0
<1>1. P(n)
  OBVIOUS
<1>2. ASSUME NEW m \in 0 .. MaxString, P(m) PROVE m = n
  <2>1. m \in Nat /\ n \in Nat /\ m <= MaxString /\ n <= MaxString
    BY EEPROMAssumption
  <2>2. ~(m < n)
    <3> SUFFICES ASSUME m < n PROVE FALSE
      OBVIOUS
    <3>1. m \in 0 .. n - 1 /\ m # MaxString
      BY <2>1, EEPROMAssumption
    <3> QED BY <1>2, <3>1
  <2>3. ~(n < m)
    <3> SUFFICES ASSUME n < m PROVE FALSE
      OBVIOUS
    <3>1. n \in 0 .. m - 1 /\ n # MaxString
      BY <2>1, EEPROMAssumption
    <3> QED BY <1>2, <3>1
  <2> QED BY <2>1, <2>2, <2>3
<1> HIDE DEF P
<1>3. LengthAt(a) = CHOOSE m \in 0 .. MaxString : P(m)
  BY DEF LengthAt, P
<1>4. (CHOOSE m \in 0 .. MaxString : P(m)) = n
  BY <1>1, <1>2
<1> QED BY <1>3, <1>4

CellAt == \A c \in 0 .. Size - 1 : At(c) = cells[c]
LEMMA CellIs == CellAt
  BY SmallRemainder, EEPROMAssumption DEF CellAt, At

(* A text that starts at a packed address, below another one.                *)
TextEnds(A, a, n) ==
    /\ n \in 1 .. MaxString /\ a + n + 1 <= A
    /\ \A c \in a .. a + n - 1 : cells[c] # 0
    /\ cells[a + n] = 0
    /\ Packed(a + n + 1)
    /\ readCStringFromEEPROM(a) = [i \in 1 .. n |-> cells[a + i - 1]]

TextsEnd == \A A, a : Packed(A) /\ Packed(a) /\ a < A => TextEnds(A, a, LengthAt(a))

LEMMA StartsWithText ==
    ASSUME NEW A, NEW a, Packed(A), Packed(a), a < A
    PROVE  cells[a] # 0
<1>1. a \in 0 .. A - 1 /\ A \in 0 .. Size /\ a \in Nat
  BY EEPROMAssumption DEF Packed
<1> SUFFICES ASSUME cells[a] = 0 PROVE FALSE
  OBVIOUS
<1>2. a > 0 /\ cells[a - 1] # 0
  BY <1>1 DEF Packed
<1>3. a - 1 \in 0 .. a - 1
  BY <1>1, <1>2
<1>4. PICK d \in (a - 1) .. (a - 1) : cells[d] = 0
  BY <1>3 DEF Packed
<1> QED BY <1>1, <1>2, <1>4

LEMMA TextEnding == TextsEnd
<1> SUFFICES ASSUME NEW A, NEW a, Packed(A), Packed(a), a < A
             PROVE  TextEnds(A, a, LengthAt(a))
  BY DEF TextsEnd
<1>1. a \in 0 .. A - 1 /\ A \in 0 .. Size /\ a \in Nat /\ A \in Nat /\ A <= Size
      /\ Size \in Nat /\ MaxString \in Nat
  BY EEPROMAssumption DEF Packed
<1> DEFINE T == {d \in a .. A - 1 : cells[d] = 0}
<1>2. PICK e \in T : e <= a + MaxString
  BY <1>1 DEF Packed
<1>3. PICK d \in T : \A m \in T : d <= m
  <2>1. T \subseteq Nat
    BY <1>1
  <2> QED BY <1>2, <2>1, Least
<1>4. d \in a .. A - 1 /\ cells[d] = 0 /\ d <= a + MaxString /\ d \in Nat
  BY <1>1, <1>2, <1>3, EEPROMAssumption
<1>5. \A c \in a .. d - 1 : cells[c] # 0
  <2> SUFFICES ASSUME NEW c \in a .. d - 1, cells[c] = 0 PROVE FALSE
    OBVIOUS
  <2>1. c \in T /\ c < d
    BY <1>1, <1>4
  <2> QED BY <1>3, <1>4, <2>1
<1>6. cells[a] # 0
  BY StartsWithText
<1> DEFINE n == d - a
<1>7. n \in 1 .. MaxString /\ a + n = d /\ n \in 0 .. MaxString /\ n \in Nat
  <2>1. d # a
    BY <1>4, <1>6
  <2> QED BY <1>1, <1>4, <2>1, EEPROMAssumption
<1> HIDE DEF T, n
<1>8. \A k \in 0 .. n : At(a + k) = cells[a + k]
  <2> SUFFICES ASSUME NEW k \in 0 .. n PROVE At(a + k) = cells[a + k]
    OBVIOUS
  <2>1. a + k \in 0 .. Size - 1
    BY <1>1, <1>4, <1>7
  <2> QED BY <2>1, CellIs DEF CellAt
<1>9. LengthAt(a) = n
  <2>1. At(a + n) = 0
    BY <1>4, <1>7, <1>8
  <2>2. \A k \in 0 .. n - 1 : At(a + k) # 0
    <3> SUFFICES ASSUME NEW k \in 0 .. n - 1 PROVE At(a + k) # 0
      OBVIOUS
    <3>1. k \in 0 .. n /\ a + k \in a .. d - 1
      BY <1>1, <1>7
    <3> QED BY <1>5, <1>8, <3>1
  <2> QED BY <1>7, <2>1, <2>2, LengthIs
<1>10. Packed(a + n + 1)
  <2>1. a + n + 1 = d + 1 /\ d + 1 \in 0 .. Size
    BY <1>1, <1>4, <1>7
  <2> SUFFICES ASSUME NEW c \in 0 .. d
               PROVE  /\ \E x \in c .. d : x <= c + MaxString /\ cells[x] = 0
                      /\ cells[c] = 0 => c > 0 /\ cells[c - 1] # 0
    BY <1>4, <2>1 DEF Packed
  <2>2. CASE c < a
    <3>1. c \in 0 .. a - 1
      BY <1>1, <2>2
    <3>2. PICK x \in c .. a - 1 : x <= c + MaxString /\ cells[x] = 0
      BY <3>1 DEF Packed
    <3>3. x \in c .. d
      BY <1>1, <1>4, <3>2
    <3> QED BY <3>1, <3>2, <3>3 DEF Packed
  <2>3. CASE c >= a
    <3>1. d \in c .. d /\ d <= c + MaxString
      BY <1>1, <1>4, <2>3, EEPROMAssumption
    <3>2. ASSUME cells[c] = 0 PROVE c > 0 /\ cells[c - 1] # 0
      <4>1. c = d
        BY <1>1, <1>4, <1>5, <2>3, <3>2
      <4>2. d - 1 \in a .. d - 1 /\ d > 0
        BY <1>1, <1>4, <1>7
      <4> QED BY <1>5, <4>1, <4>2
    <3> QED BY <1>4, <3>1, <3>2
  <2> QED BY <1>1, <2>2, <2>3
<1>11. readCStringFromEEPROM(a) = [i \in 1 .. n |-> cells[a + i - 1]]
  <2>1. \A i \in 1 .. n : At(a + i - 1) = cells[a + i - 1]
    <3> SUFFICES ASSUME NEW i \in 1 .. n PROVE At(a + i - 1) = cells[a + i - 1]
      OBVIOUS
    <3>1. i - 1 \in 0 .. n /\ a + (i - 1) = a + i - 1
      BY <1>1, <1>7
    <3> QED BY <1>8, <3>1
  <2>2. readCStringFromEEPROM(a) = [i \in 1 .. n |-> At(a + i - 1)]
    BY <1>9 DEF readCStringFromEEPROM
  <2> QED BY <2>1, <2>2
<1> QED BY <1>1, <1>4, <1>5, <1>7, <1>9, <1>10, <1>11 DEF TextEnds

(* Where the texts start. *)
StartsRight == Starts = {a \in 0 .. Size - 1 : a = 0 \/ cells[a - 1] = 0}

LEMMA StartsAre == StartsRight
<1>1. ASSUME NEW a PROVE a \in Starts <=> a \in 0 .. Size - 1 /\ (a = 0 \/ cells[a - 1] = 0)
  <2>1. ASSUME a \in Starts, a # 0 PROVE a \in 0 .. Size - 1 /\ cells[a - 1] = 0
    <3>1. PICK b \in 0 .. Size - 2 : At(b) = 0 /\ a = b + 1
      BY <2>1 DEF Starts
    <3>2. b \in 0 .. Size - 1 /\ a - 1 = b /\ a \in 0 .. Size - 1
      BY <3>1, EEPROMAssumption
    <3> QED BY <3>1, <3>2, CellIs DEF CellAt
  <2>2. 0 \in 0 .. Size - 1 /\ 0 \in Starts
    BY EEPROMAssumption DEF Starts
  <2>3. ASSUME a \in 0 .. Size - 1, a # 0, cells[a - 1] = 0 PROVE a \in Starts
    <3>1. a - 1 \in 0 .. Size - 2 /\ a - 1 \in 0 .. Size - 1 /\ a = (a - 1) + 1
      BY <2>3, EEPROMAssumption
    <3>2. At(a - 1) = 0
      BY <2>3, <3>1, CellIs DEF CellAt
    <3> QED BY <3>1, <3>2 DEF Starts
  <2> QED BY <2>1, <2>2, <2>3
<1> QED BY <1>1 DEF StartsRight

LEMMA EndsAre ==
    Ends = {a \in 0 .. Size - 1 : cells[a] = 0 /\ (a = 0 \/ cells[a - 1] = 0)}
  BY StartsAre, CellIs DEF StartsRight, CellAt, Ends

TopRight == \A A : Packed(A) /\ BlankFrom(A) => Top = A

LEMMA TopIs == TopRight
<1> SUFFICES ASSUME NEW A, Packed(A), BlankFrom(A) PROVE Top = A
  BY DEF TopRight
<1>1. A \in 0 .. Size /\ A \in Nat /\ Size \in Nat
  BY EEPROMAssumption DEF Packed
<1>2. \A e \in Ends : e >= A
  <2> SUFFICES ASSUME NEW e \in Ends, e < A PROVE FALSE
    BY <1>1, EndsAre
  <2>1. e \in 0 .. A - 1 /\ cells[e] = 0 /\ (e = 0 \/ cells[e - 1] = 0)
    BY <1>1, EndsAre
  <2> QED BY <2>1 DEF Packed
<1>3. CASE A = Size
  BY <1>1, <1>2, <1>3, EndsAre DEF Top, Endless
<1>4. CASE A < Size
  <2>1. A \in Ends
    <3>1. A # 0 => cells[A - 1] = 0
      <4> SUFFICES ASSUME A # 0 PROVE cells[A - 1] = 0
        OBVIOUS
      <4>1. A - 1 \in 0 .. A - 1
        BY <1>1
      <4>2. PICK d \in (A - 1) .. (A - 1) : cells[d] = 0
        BY <4>1 DEF Packed
      <4> QED BY <1>1, <4>2
    <3> QED BY <1>1, <1>4, <3>1, EndsAre DEF BlankFrom
  <2>2. End = A
    <3>1. \A b \in Ends : b \in Nat
      BY <1>1, EndsAre
    <3>2. \A b \in Ends : A <= b
      BY <1>1, <1>2, <3>1
    <3>3. End \in Ends /\ \A b \in Ends : End <= b
      BY <2>1, <3>2 DEF End
    <3> QED BY <1>1, <1>2, <2>1, <3>1, <3>3
  <2> QED BY <2>1, <2>2 DEF Top, Endless
<1> QED BY <1>1, <1>3, <1>4

LEMMA NothingPacked == Packed(0)
  BY EEPROMAssumption DEF Packed

(* An address that starts a text is packed.                                  *)
LEMMA StartPacked ==
    ASSUME NEW A, Packed(A), NEW a \in 0 .. A, a = 0 \/ cells[a - 1] = 0
    PROVE  Packed(a)
<1>1. A \in 0 .. Size /\ a \in Nat /\ A \in Nat /\ Size \in Nat /\ MaxString \in Nat
  BY EEPROMAssumption DEF Packed
<1> SUFFICES ASSUME NEW c \in 0 .. a - 1
             PROVE  /\ \E d \in c .. a - 1 : d <= c + MaxString /\ cells[d] = 0
                    /\ cells[c] = 0 => c > 0 /\ cells[c - 1] # 0
  BY <1>1 DEF Packed
<1>2. c \in 0 .. A - 1 /\ a # 0 /\ c \in Nat
  BY <1>1
<1>3. PICK d \in c .. A - 1 : d <= c + MaxString /\ cells[d] = 0
  BY <1>2 DEF Packed
<1>4. \E x \in c .. a - 1 : x <= c + MaxString /\ cells[x] = 0
  <2>1. CASE d <= a - 1
    BY <1>1, <1>2, <1>3, <2>1
  <2>2. CASE d > a - 1
    <3>1. a - 1 \in c .. a - 1 /\ a - 1 <= c + MaxString
      BY <1>1, <1>2, <1>3, <2>2
    <3> QED BY <1>2, <3>1
  <2> QED BY <1>1, <1>2, <1>3, <2>1, <2>2
<1> QED BY <1>2, <1>4 DEF Packed

-----------------------------------------------------------------------------
Ranked(S) ==
    /\ IsFiniteSet(S) /\ Cardinality(S) \in Nat
    /\ \A i \in 1 .. Cardinality(S) : \E a \in S : Cardinality(Smaller(S, a)) = i - 1

(* A set of addresses has an element at every rank.                          *)
LEMMA AllRanked ==
    ASSUME NEW S, S \in SUBSET (0 .. Size - 1)
    PROVE  Ranked(S)
<1> DEFINE Sets == SUBSET (0 .. Size - 1)
           Bad == {n \in Nat : \E T \in Sets : Cardinality(T) = n /\ ~Ranked(T)}
<1>1. \A T \in Sets : IsFiniteSet(T) /\ Cardinality(T) \in Nat /\ T \subseteq Nat
  <2> SUFFICES ASSUME NEW T \in Sets PROVE IsFiniteSet(T) /\ Cardinality(T) \in Nat /\ T \subseteq Nat
    OBVIOUS
  <2>1. IsFiniteSet(0 .. Size - 1) /\ 0 .. Size - 1 \subseteq Nat
    BY FS_Interval, EEPROMAssumption
  <2>2. IsFiniteSet(T)
    BY <2>1, FS_Subset
  <2> QED BY <2>1, <2>2, FS_CardinalityType
<1> SUFFICES ASSUME Bad # {} PROVE FALSE
  BY <1>1
<1>2. PICK n \in Bad : \A m \in Bad : n <= m
  BY Least
<1>3. PICK T \in Sets : Cardinality(T) = n /\ ~Ranked(T)
  BY <1>2
<1>4. T # {}
  <2> SUFFICES ASSUME T = {} PROVE Ranked(T)
    BY <1>3
  <2> QED BY FS_EmptySet DEF Ranked
<1>5. PICK x \in T : \A y \in T : y <= x
  <2> DEFINE Bounds == {m \in Nat : \A y \in T : y <= m}
  <2>1. Size - 1 \in Bounds
    BY EEPROMAssumption
  <2>2. PICK m \in Bounds : \A k \in Bounds : m <= k
    BY <2>1, Least
  <2>3. m \in T
    <3> SUFFICES ASSUME m \notin T PROVE FALSE
      OBVIOUS
    <3>1. m > 0
      <4>1. PICK y \in T : TRUE
        BY <1>4
      <4>2. y \in Nat /\ m \in Nat /\ y <= m /\ y # m
        BY <1>1, <1>3, <2>2
      <4> QED BY <4>2
    <3>2. m - 1 \in Bounds
      <4>1. \A y \in T : y \in Nat /\ y <= m /\ y # m
        BY <1>1, <1>3, <2>2
      <4> QED BY <2>2, <3>1, <4>1
    <3> QED BY <2>2, <3>2
  <2> QED BY <2>2, <2>3
<1> DEFINE R == T \ {x}
<1>6. R \in Sets /\ Cardinality(R) = n - 1 /\ Cardinality(R) \in Nat /\ n \in Nat
  <2>1. IsFiniteSet(T)
    BY <1>1, <1>3
  <2>2. Cardinality(R) = n - 1
    BY <1>3, <1>5, <2>1, FS_RemoveElement
  <2>3. R \in Sets
    OBVIOUS
  <2> QED BY <1>1, <1>2, <2>2, <2>3
<1>7. Ranked(R)
  <2> SUFFICES ASSUME ~Ranked(R) PROVE FALSE
    OBVIOUS
  <2>1. n - 1 \in Bad
    BY <1>6
  <2> QED BY <1>2, <1>6, <2>1
<1>8. \A y \in T : y \in Nat
  BY <1>1, <1>3
<1>9. Smaller(T, x) = R
  <2>1. \A b \in T : b < x <=> b # x
    BY <1>5, <1>8
  <2> QED BY <2>1 DEF Smaller
<1>10. \A a \in R : Smaller(T, a) = Smaller(R, a)
  <2> SUFFICES ASSUME NEW a \in R, x < a PROVE FALSE
    BY DEF Smaller
  <2> QED BY <1>5, <1>8
<1>11. \A i \in 1 .. n : \E a \in T : Cardinality(Smaller(T, a)) = i - 1
  <2> SUFFICES ASSUME NEW i \in 1 .. n PROVE \E a \in T : Cardinality(Smaller(T, a)) = i - 1
    OBVIOUS
  <2>1. CASE i = n
    BY <1>6, <1>9, <2>1
  <2>2. CASE i # n
    <3>1. i \in 1 .. Cardinality(R)
      BY <1>6, <2>2
    <3>2. PICK a \in R : Cardinality(Smaller(R, a)) = i - 1
      BY <1>7, <3>1 DEF Ranked
    <3> QED BY <1>10, <3>2
  <2> QED BY <2>1, <2>2
<1> QED BY <1>1, <1>3, <1>11 DEF Ranked

(* No two have the same.                                                     *)
LEMMA RankIsOwn ==
    ASSUME NEW S, S \in SUBSET (0 .. Size - 1), NEW a \in S, NEW c \in S,
           Cardinality(Smaller(S, a)) = Cardinality(Smaller(S, c))
    PROVE  a = c
<1>1. \A s \in S : s \in Nat
  BY EEPROMAssumption
<1>2. ASSUME NEW x \in S, NEW y \in S, x < y
      PROVE  Cardinality(Smaller(S, x)) # Cardinality(Smaller(S, y))
  <2> DEFINE X == Smaller(S, x)
             Y == Smaller(S, y)
  <2>1. X \in SUBSET Y /\ x \in Y /\ x \notin X
    <3>1. x \in Nat /\ y \in Nat /\ ~(x < x)
      BY <1>1
    <3>2. \A b \in S : b < x => b < y
      BY <1>1, <1>2
    <3> QED BY <1>2, <3>1, <3>2 DEF Smaller
  <2>3. Y \in SUBSET S
    BY DEF Smaller
  <2> HIDE DEF X, Y
  <2>2. IsFiniteSet(Y)
    <3>1. IsFiniteSet(S)
      BY AllRanked DEF Ranked
    <3> QED BY <2>3, <3>1, FS_Subset
  <2>4. Cardinality(X) # Cardinality(Y)
    BY <2>1, <2>2, FS_Subset
  <2> QED BY <2>4 DEF X, Y
<1>3. ~(a < c) /\ ~(c < a)
  BY <1>2
<1> QED BY <1>1, <1>3

LEMMA NthRanked ==
    ASSUME NEW S, S \in SUBSET (0 .. Size - 1), NEW i \in 1 .. Cardinality(S)
    PROVE  Nth(S, i) \in S /\ Cardinality(Smaller(S, Nth(S, i))) = i - 1
<1>1. \E a \in S : Cardinality(Smaller(S, a)) = i - 1
  BY AllRanked DEF Ranked
<1> QED BY <1>1 DEF Nth

LEMMA NthIs ==
    ASSUME NEW S, S \in SUBSET (0 .. Size - 1), NEW i \in 1 .. Cardinality(S),
           NEW a \in S, Cardinality(Smaller(S, a)) = i - 1
    PROVE  Nth(S, i) = a
<1>1. Nth(S, i) \in S /\ Cardinality(Smaller(S, Nth(S, i))) = i - 1
  BY NthRanked
<1> QED BY <1>1, RankIsOwn

(* A new greatest element takes the last rank.                               *)
LEMMA GreatestRanked ==
    ASSUME NEW S, S \in SUBSET (0 .. Size - 1), NEW x \in 0 .. Size - 1, \A y \in S : y < x
    PROVE  /\ Cardinality(S \union {x}) = Cardinality(S) + 1
           /\ Nth(S \union {x}, Cardinality(S) + 1) = x
           /\ \A i \in 1 .. Cardinality(S) : Nth(S \union {x}, i) = Nth(S, i)
<1> DEFINE T == S \union {x}
<1>1. IsFiniteSet(S) /\ Cardinality(S) \in Nat
  BY AllRanked DEF Ranked
<1>2. \A y \in T : y \in Nat
  BY EEPROMAssumption
<1>3. x \notin S
  BY <1>2
<1>4. Cardinality(T) = Cardinality(S) + 1
  BY <1>1, <1>3, FS_AddElement
<1>5. Smaller(T, x) = S
  <2>1. ~(x < x) /\ x \in Nat
    BY <1>2
  <2> QED BY <2>1 DEF Smaller
<1>6. \A a \in S : Smaller(T, a) = Smaller(S, a)
  <2> SUFFICES ASSUME NEW a \in S, x < a PROVE FALSE
    BY DEF Smaller
  <2> QED BY <1>2
<1>7. T \in SUBSET (0 .. Size - 1)
  OBVIOUS
<1>8. Nth(T, Cardinality(S) + 1) = x
  <2> DEFINE k == Cardinality(S) + 1
  <2>1. k \in 1 .. Cardinality(T) /\ x \in T
    BY <1>1, <1>4
  <2>2. Cardinality(Smaller(T, x)) = k - 1
    BY <1>1, <1>5
  <2> HIDE DEF T, k
  <2>3. Nth(T, k) = x
    BY <1>7, <2>1, <2>2, NthIs
  <2> QED BY <2>3 DEF k
<1>9. ASSUME NEW i \in 1 .. Cardinality(S) PROVE Nth(T, i) = Nth(S, i)
  <2> DEFINE a == Nth(S, i)
  <2>1. a \in S /\ Cardinality(Smaller(S, a)) = i - 1
    BY NthRanked
  <2>2. Cardinality(Smaller(T, a)) = i - 1
    BY <1>6, <2>1
  <2>3. i \in 1 .. Cardinality(T) /\ a \in T
    BY <1>1, <1>4, <2>1
  <2> HIDE DEF T, a
  <2>4. Nth(T, i) = a
    BY <1>7, <2>2, <2>3, NthIs
  <2> QED BY <2>4 DEF a
<1> QED BY <1>4, <1>8, <1>9

-----------------------------------------------------------------------------
OccupiedRight ==
    \A limit : Occupied(limit) =
        {a \in 0 .. Size - 1 : (a = 0 \/ cells[a - 1] = 0) /\ a < limit /\ cells[a] # 0}

StartsPacked == \A A, a : Packed(A) /\ a \in 0 .. A /\ (a = 0 \/ cells[a - 1] = 0) => Packed(a)

LEMMA StartsArePacked == StartsPacked
  BY StartPacked DEF StartsPacked

LEMMA OccupiedIs == OccupiedRight
  BY StartsAre, CellIs DEF StartsRight, CellAt, Occupied, OccupiedRight

(* Writing above A changes no text below it.                                 *)
LEMMA StringsKept ==
    ASSUME NEW A, Packed(A), \A c \in 0 .. A - 1 : cells'[c] = cells[c]
    PROVE  Packed(A)' /\ StringsBelow(A)' = StringsBelow(A)
<1>1. A \in 0 .. Size /\ A \in Nat /\ Size \in Nat
  BY EEPROMAssumption DEF Packed
<1>2. Packed(A)'
  <2> SUFFICES ASSUME NEW c \in 0 .. A - 1
               PROVE  /\ \E d \in c .. A - 1 : d <= c + MaxString /\ cells'[d] = 0
                      /\ cells'[c] = 0 => c > 0 /\ cells'[c - 1] # 0
    BY <1>1 DEF Packed
  <2>1. PICK d \in c .. A - 1 : d <= c + MaxString /\ cells[d] = 0
    BY DEF Packed
  <2>2. d \in 0 .. A - 1 /\ (c > 0 => c - 1 \in 0 .. A - 1)
    BY <1>1, <2>1
  <2>3. cells[c] = 0 => c > 0 /\ cells[c - 1] # 0
    BY DEF Packed
  <2> QED BY <2>1, <2>2, <2>3
<1>3. Occupied(A)' = Occupied(A)
  <2>1. Occupied(A)' =
          {a \in 0 .. Size - 1 : (a = 0 \/ cells'[a - 1] = 0) /\ a < A /\ cells'[a] # 0}
    <3>1. OccupiedRight'
      BY OccupiedIs, PTL
    <3> QED BY <3>1 DEF OccupiedRight
  <2>2. Occupied(A) =
          {a \in 0 .. Size - 1 : (a = 0 \/ cells[a - 1] = 0) /\ a < A /\ cells[a] # 0}
    BY OccupiedIs DEF OccupiedRight
  <2>3. ASSUME NEW a \in 0 .. Size - 1, a < A
        PROVE  /\ cells'[a] = cells[a]
               /\ a # 0 => cells'[a - 1] = cells[a - 1]
    <3>1. a \in 0 .. A - 1 /\ (a # 0 => a - 1 \in 0 .. A - 1)
      BY <1>1, <2>3
    <3> QED BY <3>1
  <2> QED BY <2>1, <2>2, <2>3
<1>4. ASSUME NEW a \in Occupied(A)
      PROVE  readCStringFromEEPROM(a)' = readCStringFromEEPROM(a)
  <2>1. a \in 0 .. Size - 1 /\ (a = 0 \/ cells[a - 1] = 0) /\ a < A /\ cells[a] # 0
    BY <1>4, OccupiedIs DEF OccupiedRight
  <2>2. Packed(a)
    BY <1>1, <2>1, StartPacked
  <2>3. Packed(a)'
    <3>1. a = 0 \/ cells'[a - 1] = 0
      <4>1. a # 0 => a - 1 \in 0 .. A - 1
        BY <1>1, <2>1
      <4> QED BY <2>1, <4>1
    <3>2. StartsPacked'
      BY StartsArePacked, PTL
    <3>3. a \in 0 .. A
      BY <1>1, <2>1
    <3> QED BY <1>2, <3>1, <3>2, <3>3 DEF StartsPacked
  <2>4. TextEnds(A, a, LengthAt(a))
    BY <2>1, <2>2, TextEnding DEF TextsEnd
  <2>5. TextEnds(A, a, LengthAt(a))'
    <3>1. TextsEnd'
      BY TextEnding, PTL
    <3> QED BY <1>2, <2>1, <2>3, <3>1 DEF TextsEnd
  <2>6. PICK n, k : n = LengthAt(a) /\ k = LengthAt(a)'
    OBVIOUS
  <2>7. /\ n \in Nat /\ a + n + 1 <= A /\ cells[a + n] = 0
        /\ \A c \in a .. a + n - 1 : cells[c] # 0
        /\ readCStringFromEEPROM(a) = [i \in 1 .. n |-> cells[a + i - 1]]
    BY <2>4, <2>6, EEPROMAssumption DEF TextEnds
  <2>8. /\ k \in Nat /\ a + k + 1 <= A /\ cells'[a + k] = 0
        /\ \A c \in a .. a + k - 1 : cells'[c] # 0
        /\ readCStringFromEEPROM(a)' = [i \in 1 .. k |-> cells'[a + i - 1]]
    BY <2>5, <2>6, EEPROMAssumption DEF TextEnds
  <2>9. \A c \in a .. A - 1 : cells'[c] = cells[c]
    BY <1>1, <2>1
  <2>10. n = k
    <3>1. ~(n < k)
      <4> SUFFICES ASSUME n < k PROVE FALSE
        OBVIOUS
      <4>1. a + n \in a .. a + k - 1 /\ a + n \in a .. A - 1
        BY <1>1, <2>1, <2>7, <2>8
      <4> QED BY <2>7, <2>8, <2>9, <4>1
    <3>2. ~(k < n)
      <4> SUFFICES ASSUME k < n PROVE FALSE
        OBVIOUS
      <4>1. a + k \in a .. a + n - 1 /\ a + k \in a .. A - 1
        BY <1>1, <2>1, <2>7, <2>8
      <4> QED BY <2>7, <2>8, <2>9, <4>1
    <3> QED BY <2>7, <2>8, <3>1, <3>2
  <2>11. \A i \in 1 .. n : a + i - 1 \in a .. A - 1
    BY <1>1, <2>1, <2>7
  <2> QED BY <2>7, <2>8, <2>9, <2>10, <2>11
<1>5. StringsBelow(A)' = StringsBelow(A)
  <2>1. \A i \in 1 .. Cardinality(Occupied(A)) : Nth(Occupied(A), i) \in Occupied(A)
    <3>1. Occupied(A) \in SUBSET (0 .. Size - 1)
      BY OccupiedIs DEF OccupiedRight
    <3> QED BY <3>1, NthRanked
  <2> QED BY <1>3, <1>4, <2>1 DEF StringsBelow
<1> QED BY <1>2, <1>5

LEMMA AppendIs ==
    ASSUME NEW k \in Nat, NEW f, NEW s, f = [i \in 1 .. k |-> f[i]]
    PROVE  /\ Append(f, s) = [i \in 1 .. k + 1 |-> IF i <= k THEN f[i] ELSE s]
           /\ Len(f) = k
<1> DEFINE X == {f[i] : i \in 1 .. k} \union {s}
<1>1. f \in Seq(X) /\ s \in X
  <2>1. f \in [1 .. k -> X]
    OBVIOUS
  <2> QED BY <2>1
<1> HIDE DEF X
<1>2. Len(f) = k
  OBVIOUS
<1>3. /\ Append(f, s) \in Seq(X) /\ Len(Append(f, s)) = k + 1
      /\ \A i \in 1 .. k : Append(f, s)[i] = f[i]
      /\ Append(f, s)[k + 1] = s
  BY <1>1, <1>2
<1> QED BY <1>2, <1>3

(* A text stands at A when it is there, zero included, inside the memory.     *)
Stands(A, s) ==
    /\ Len(s) \in 1 .. MaxString /\ A + Len(s) + 1 <= Size
    /\ s = [i \in 1 .. Len(s) |-> cells[A + i - 1]]
    /\ \A i \in 1 .. Len(s) : s[i] # 0
    /\ cells[A + Len(s)] = 0

Appends ==
    \A A, s : Packed(A) /\ Stands(A, s) =>
        /\ Packed(A + Len(s) + 1)
        /\ StringsBelow(A + Len(s) + 1) = Append(StringsBelow(A), s)

LEMMA Appending == Appends
<1> SUFFICES ASSUME NEW A, NEW s, Packed(A), Stands(A, s)
             PROVE  /\ Packed(A + Len(s) + 1)
                    /\ StringsBelow(A + Len(s) + 1) = Append(StringsBelow(A), s)
  BY DEF Appends
<1> DEFINE n == Len(s)
<1>1. /\ A \in Nat /\ Size \in Nat /\ MaxString \in Nat /\ n \in Nat
      /\ n \in 1 .. MaxString /\ A + n + 1 <= Size /\ cells[A + n] = 0
      /\ s = [i \in 1 .. n |-> cells[A + i - 1]]
  BY EEPROMAssumption DEF Packed, Stands
<1>2. \A c \in A .. A + n - 1 : cells[c] # 0
  <2> SUFFICES ASSUME NEW c \in A .. A + n - 1 PROVE cells[c] # 0
    OBVIOUS
  <2>1. c - A + 1 \in 1 .. n /\ A + (c - A + 1) - 1 = c
    BY <1>1
  <2>2. s[c - A + 1] # 0
    BY <2>1 DEF Stands
  <2>3. s[c - A + 1] = cells[A + (c - A + 1) - 1]
    BY <1>1, <2>1
  <2> QED BY <2>1, <2>2, <2>3
<1> DEFINE B == A + n + 1
<1>3. B \in 0 .. Size /\ B \in Nat /\ A \in 0 .. Size - 1 /\ A < B /\ A + n < B
  BY <1>1
<1> HIDE DEF n
<1>4. Packed(B)
  <2> SUFFICES ASSUME NEW c \in 0 .. B - 1
               PROVE  /\ \E d \in c .. B - 1 : d <= c + MaxString /\ cells[d] = 0
                      /\ cells[c] = 0 => c > 0 /\ cells[c - 1] # 0
    BY <1>3 DEF Packed
  <2>1. CASE c < A
    <3>1. c \in 0 .. A - 1
      BY <1>1, <2>1
    <3>2. PICK d \in c .. A - 1 : d <= c + MaxString /\ cells[d] = 0
      BY <3>1 DEF Packed
    <3>3. d \in c .. B - 1
      BY <1>1, <3>2
    <3> QED BY <3>1, <3>2, <3>3 DEF Packed
  <2>2. CASE c >= A
    <3>1. A + n \in c .. B - 1 /\ A + n <= c + MaxString
      BY <1>1, <2>2
    <3>2. ASSUME cells[c] = 0 PROVE c > 0 /\ cells[c - 1] # 0
      <4>1. c = A + n
        BY <1>1, <1>2, <2>2, <3>2
      <4>2. c - 1 \in A .. A + n - 1 /\ c > 0
        BY <1>1, <4>1
      <4> QED BY <1>2, <4>2
    <3> QED BY <1>1, <3>1, <3>2
  <2> QED BY <1>1, <2>1, <2>2
<1>5. cells[A] # 0
  BY <1>1, <1>2
<1> DEFINE S == Occupied(A)
           T == Occupied(B)
<1>6. /\ S = {a \in 0 .. Size - 1 : (a = 0 \/ cells[a - 1] = 0) /\ a < A /\ cells[a] # 0}
      /\ T = {a \in 0 .. Size - 1 : (a = 0 \/ cells[a - 1] = 0) /\ a < B /\ cells[a] # 0}
  BY OccupiedIs DEF OccupiedRight
<1> HIDE DEF B, S, T
<1>7. T = S \union {A}
  <2>1. A = 0 \/ cells[A - 1] = 0
    <3> SUFFICES ASSUME A # 0 PROVE cells[A - 1] = 0
      OBVIOUS
    <3>1. A - 1 \in 0 .. A - 1
      BY <1>1
    <3>2. PICK d \in (A - 1) .. (A - 1) : cells[d] = 0
      BY <3>1 DEF Packed
    <3> QED BY <1>1, <3>2
  <2>2. ASSUME NEW a \in 0 .. Size - 1, a = 0 \/ cells[a - 1] = 0, a < B, cells[a] # 0
        PROVE  a <= A
    <3> SUFFICES ASSUME A < a PROVE FALSE
      BY <1>1
    <3>1. a \in A .. A + n /\ a - 1 \in A .. A + n - 1
      BY <1>1, <2>2 DEF B
    <3> QED BY <1>1, <1>2, <2>2, <3>1
  <2>3. A \in T
    BY <1>3, <1>5, <1>6, <2>1
  <2>4. \A a \in T : a \in S \/ a = A
    BY <1>1, <1>6, <2>2
  <2>5. S \subseteq T
    BY <1>1, <1>3, <1>6
  <2> QED BY <2>3, <2>4, <2>5
<1> DEFINE k == Cardinality(S)
<1>8. S \in SUBSET (0 .. Size - 1) /\ \A y \in S : y < A
  BY <1>6
<1>9. /\ k \in Nat /\ Cardinality(T) = k + 1
      /\ Nth(T, k + 1) = A /\ \A i \in 1 .. k : Nth(T, i) = Nth(S, i)
  BY <1>3, <1>7, <1>8, GreatestRanked, AllRanked DEF Ranked
<1>10. readCStringFromEEPROM(A) = s
  <2>1. TextEnds(B, A, LengthAt(A))
    BY <1>3, <1>4, TextEnding DEF TextsEnd
  <2>2. LengthAt(A) = n
    <3> DEFINE m == LengthAt(A)
    <3>1. m \in Nat /\ A + m + 1 <= B /\ cells[A + m] = 0 /\ \A c \in A .. A + m - 1 : cells[c] # 0
      BY <2>1, EEPROMAssumption DEF TextEnds
    <3> HIDE DEF m
    <3>2. ~(m < n)
      BY <1>1, <1>2, <3>1
    <3>3. m <= n
      BY <1>1, <3>1 DEF B
    <3> QED BY <1>1, <3>1, <3>2, <3>3 DEF m
  <2> QED BY <1>1, <2>1, <2>2 DEF TextEnds
<1> HIDE DEF k
<1>11. /\ StringsBelow(B) = [i \in 1 .. k + 1 |-> readCStringFromEEPROM(Nth(T, i))]
       /\ StringsBelow(A) = [i \in 1 .. k |-> readCStringFromEEPROM(Nth(S, i))]
  BY <1>9 DEF StringsBelow, S, T, k
<1> DEFINE f == StringsBelow(A)
<1>12. /\ f = [i \in 1 .. k |-> f[i]]
       /\ \A i \in 1 .. k : f[i] = readCStringFromEEPROM(Nth(T, i))
  BY <1>9, <1>11
<1> HIDE DEF f
<1>13. Append(f, s) = [i \in 1 .. k + 1 |-> IF i <= k THEN f[i] ELSE s]
  BY <1>9, <1>12, AppendIs
<1>14. StringsBelow(B) = [i \in 1 .. k + 1 |-> IF i <= k THEN f[i] ELSE s]
  <2>1. ASSUME NEW i \in 1 .. k + 1
        PROVE  readCStringFromEEPROM(Nth(T, i)) = IF i <= k THEN f[i] ELSE s
    <3>1. CASE i <= k
      BY <1>9, <1>12, <3>1
    <3>2. CASE ~(i <= k)
      <4>1. i = k + 1
        BY <1>9, <3>2
      <4> QED BY <1>9, <1>10, <3>2, <4>1
    <3> QED BY <3>1, <3>2
  <2> QED BY <1>11, <2>1
<1> QED BY <1>4, <1>13, <1>14 DEF B, f, n

(* Behind the last text there is none. *)
Beyond == \A A : Packed(A) /\ BlankFrom(A) => StringsBelow(Size) = StringsBelow(A)

LEMMA NoneBeyond == Beyond
<1> SUFFICES ASSUME NEW A, Packed(A), BlankFrom(A) PROVE StringsBelow(Size) = StringsBelow(A)
  BY DEF Beyond
<1>1. A \in Nat /\ Size \in Nat /\ A <= Size
  BY EEPROMAssumption DEF Packed
<1>2. \A a \in 0 .. Size - 1 : cells[a] # 0 => a < A /\ a < Size
  BY <1>1 DEF BlankFrom
<1>3. Occupied(Size) = Occupied(A)
  BY <1>2, OccupiedIs DEF OccupiedRight
<1> QED BY <1>3 DEF StringsBelow

-----------------------------------------------------------------------------
(* What a write of n bytes leaves in the memory.                             *)
LEMMA WrittenIs ==
    ASSUME cells \in [0 .. Size - 1 -> Bytes], NEW a \in Nat, NEW bytes, NEW n \in Nat,
           Len(bytes) = n, WritePage(a, bytes)
    PROVE  \A c \in 0 .. Size - 1 :
              cells'[c] = IF a % Size <= c /\ c < (a % Size) + n THEN bytes[c - (a % Size) + 1]
                          ELSE cells[c]
<1>1. a % Size \in 0 .. Size - 1
  BY Remainder, EEPROMAssumption
<1> DEFINE start == a % Size
<1>2. start \in Nat /\ DOMAIN cells = 0 .. Size - 1
  BY <1>1, EEPROMAssumption
<1>3. cells' = [c \in 0 .. Size - 1 |->
                  IF c >= start /\ c - start < Len(bytes) THEN bytes[c - start + 1] ELSE cells[c]]
  BY <1>2, Zenon DEF WritePage
<1> HIDE DEF start
<1>4. \A c \in 0 .. Size - 1 : cells'[c] = IF start <= c /\ c < start + n THEN bytes[c - start + 1]
                                           ELSE cells[c]
  <2> SUFFICES ASSUME NEW c \in 0 .. Size - 1
               PROVE  cells'[c] = IF start <= c /\ c < start + n THEN bytes[c - start + 1]
                                  ELSE cells[c]
    OBVIOUS
  <2>1. c >= start /\ c - start < n <=> start <= c /\ c < start + n
    BY <1>2, EEPROMAssumption
  <2> QED BY <1>3, <2>1
<1> QED BY <1>4 DEF start

LEMMA ZerosWritten ==
    ASSUME cells \in [0 .. Size - 1 -> Bytes], NEW a \in Nat, NEW n \in Nat,
           WritePage(a, Zeros(n))
    PROVE  /\ \A c \in 0 .. Size - 1 : cells'[c] = 0 \/ cells'[c] = cells[c]
           /\ a < Size => \A c \in 0 .. Size - 1 :
                 cells'[c] = IF a <= c /\ c < a + n THEN 0 ELSE cells[c]
<1>1. Len(Zeros(n)) = n /\ \A i \in 1 .. n : Zeros(n)[i] = 0
  BY DEF Zeros
<1>2. a % Size \in 0 .. Size - 1
  BY Remainder, EEPROMAssumption
<1> DEFINE start == a % Size
<1>3. \A c \in 0 .. Size - 1 :
         cells'[c] = IF start <= c /\ c < start + n THEN Zeros(n)[c - start + 1] ELSE cells[c]
  BY <1>1, WrittenIs
<1>4. start \in Nat /\ (a < Size => start = a)
  BY <1>2, SmallRemainder, EEPROMAssumption
<1> HIDE DEF start
<1>5. \A c \in 0 .. Size - 1 : cells'[c] = IF start <= c /\ c < start + n THEN 0 ELSE cells[c]
  <2> SUFFICES ASSUME NEW c \in 0 .. Size - 1, start <= c, c < start + n
               PROVE  Zeros(n)[c - start + 1] = 0
    BY <1>3
  <2>1. c - start + 1 \in 1 .. n
    BY <1>4, EEPROMAssumption
  <2> QED BY <1>1, <2>1
<1> QED BY <1>4, <1>5

(* A page is no larger than the memory. *)
LEMMA PageSmall ==
    ASSUME NEW a \in Nat, NEW n \in Nat
    PROVE  PageBytes(a, n) \in 0 .. n /\ PageBytes(a, n) <= Size
<1>1. PageSize <= Size
  <2> SUFFICES ASSUME Size < PageSize PROVE FALSE
    BY EEPROMAssumption
  <2> QED BY SmallRemainder, EEPROMAssumption
<1>2. a % PageSize \in 0 .. PageSize - 1
  BY Remainder, EEPROMAssumption
<1>3. PageBytes(a, n) <= PageSize
  BY <1>2, EEPROMAssumption DEF PageBytes
<1>4. PageBytes(a, n) \in 0 .. n
  BY PageTyped
<1> QED BY <1>1, <1>3, <1>4, EEPROMAssumption

LEMMA AddressIs ==
    ASSUME NEW a \in Nat, a < 2 * Size
    PROVE  Address(a) = a
  BY SmallRemainder, EEPROMAssumption DEF Address

-----------------------------------------------------------------------------
(* A memory that holds whole strings, or the beginning of one more, can be cleared. *)
LEMMA WholeReadable == Whole => Readable(0)
<1> SUFFICES ASSUME Whole, NEW c \in 0 .. Size - 1
             PROVE  /\ \E d \in c .. Size - 1 : d <= c + MaxString /\ cells[d] = 0
                    /\ cells[c] = 0 /\ (c = 0 \/ cells[c - 1] = 0) => BlankFrom(c)
  BY DEF Readable
<1> DEFINE t == Top
<1>1. t \in 0 .. Size /\ t \in Nat /\ Packed(t) /\ BlankFrom(t) /\ Size \in Nat /\ MaxString \in Nat
  BY EEPROMAssumption DEF Whole, Packed
<1> HIDE DEF t
<1>2. CASE c < t
  <2>1. c \in 0 .. t - 1
    BY <1>1, <1>2
  <2>2. PICK d \in c .. t - 1 : d <= c + MaxString /\ cells[d] = 0
    BY <2>1 DEF Packed, t, Whole
  <2>3. d \in c .. Size - 1
    BY <1>1, <2>2
  <2>4. cells[c] = 0 => c > 0 /\ cells[c - 1] # 0
    BY <1>1, <2>1 DEF Packed
  <2> QED BY <2>2, <2>3, <2>4
<1>3. CASE c >= t
  <2>1. cells[c] = 0 /\ c \in c .. Size - 1 /\ c <= c + MaxString
    BY <1>1, <1>3 DEF BlankFrom
  <2>2. BlankFrom(c)
    BY <1>1, <1>3 DEF BlankFrom
  <2> QED BY <2>1, <2>2
<1> QED BY <1>1, <1>2, <1>3

LEMMA PushingReadable ==
    EEPROMInv /\ op = "push" /\ Pushing => Readable(0)
<1> SUFFICES ASSUME EEPROMInv, op = "push", Pushing, NEW c \in 0 .. Size - 1
             PROVE  /\ \E d \in c .. Size - 1 : d <= c + MaxString /\ cells[d] = 0
                    /\ cells[c] = 0 /\ (c = 0 \/ cells[c - 1] = 0) => BlankFrom(c)
  BY DEF Readable
<1> DEFINE t == push.addr
           l == Len(arg)
           w == write.written
<1>1. arg \in Strings /\ l \in Nat /\ l <= MaxString /\ \A i \in 1 .. l : arg[i] # 0
  <2>1. arg \in Strings
    BY DEF EEPROMInv, Shapes
  <2>2. arg \in Seq(Nat \ {0}) /\ l \in 1 .. MaxString
    BY <2>1, EEPROMAssumption
  <2> QED BY <2>1, <2>2, EEPROMAssumption
<1>2. w \in Nat /\ t \in Nat /\ t + l + 1 <= Size /\ Size \in Nat /\ MaxString \in Nat
  BY EEPROMAssumption DEF EEPROMInv, Shapes, WriteInside, Pushing, Fits
<1>3. \A x \in t .. Size - 1 : cells[x] = IF x - t < w /\ x - t < l THEN arg[x - t + 1] ELSE 0
  BY DEF Pushing
<1>4. Packed(t)
  BY DEF Pushing
<1> HIDE DEF t, l, w
<1>5. CASE c < t
  <2>1. c \in 0 .. t - 1
    BY <1>2, <1>5
  <2>2. PICK d \in c .. t - 1 : d <= c + MaxString /\ cells[d] = 0
    BY <1>4, <2>1 DEF Packed
  <2>3. d \in c .. Size - 1
    BY <1>1, <1>2, <2>2
  <2>4. cells[c] = 0 => c > 0 /\ cells[c - 1] # 0
    BY <1>4, <2>1 DEF Packed
  <2> QED BY <2>2, <2>3, <2>4
<1>6. CASE c >= t /\ c - t < w /\ c - t < l
  <2>1. cells[c] # 0
    <3>1. c \in t .. Size - 1 /\ c - t + 1 \in 1 .. l
      BY <1>1, <1>2, <1>6
    <3> QED BY <1>1, <1>3, <1>6, <3>1
  <2>2. t + l \in c .. Size - 1 /\ t + l <= c + MaxString /\ t + l \in t .. Size - 1 /\ (t + l) - t = l
    BY <1>1, <1>2, <1>6
  <2>3. cells[t + l] = 0
    BY <1>1, <1>3, <2>2
  <2> QED BY <2>1, <2>2, <2>3
<1>7. CASE c >= t /\ ~(c - t < w /\ c - t < l)
  <2>1. \A x \in c .. Size - 1 : x \in t .. Size - 1 /\ ~(x - t < w /\ x - t < l)
    BY <1>1, <1>2, <1>7
  <2>2. BlankFrom(c)
    BY <1>3, <2>1 DEF BlankFrom
  <2>3. c \in c .. Size - 1 /\ c <= c + MaxString
    BY <1>2
  <2> QED BY <2>2, <2>3 DEF BlankFrom
<1> QED BY <1>2, <1>5, <1>6, <1>7

-----------------------------------------------------------------------------
(* What is known of a memory whose texts end at A. *)
Settled ==
    \A A : Packed(A) /\ BlankFrom(A) =>
        /\ Whole /\ Top = A
        /\ StringsBelow(Size) = StringsBelow(A)

LEMMA Settling == Settled
<1> SUFFICES ASSUME NEW A, Packed(A), BlankFrom(A)
             PROVE  Top = A /\ Whole /\ StringsBelow(Size) = StringsBelow(A)
  BY DEF Settled
<1>1. Top = A
  BY TopIs DEF TopRight
<1>2. StringsBelow(Size) = StringsBelow(A)
  BY NoneBeyond DEF Beyond
<1> QED BY <1>1, <1>2 DEF Whole

NothingBelow == Packed(0) /\ StringsBelow(0) = <<>>

LEMMA NothingIsBelow == NothingBelow
<1>1. Occupied(0) = {}
  BY OccupiedIs DEF OccupiedRight
<1>2. Cardinality(Occupied(0)) = 0
  BY <1>1, FS_EmptySet
<1>3. StringsBelow(0) = <<>>
  BY <1>2 DEF StringsBelow
<1> QED BY <1>3, NothingPacked DEF NothingBelow

(* An empty memory, seen by the callers. *)
Emptied == BlankFrom(0) => Whole /\ Top = 0 /\ StringsBelow(Size) = <<>>

LEMMA Emptying == Emptied
  BY Settling, NothingIsBelow DEF Emptied, Settled, NothingBelow

(* What is readable up to its end is so behind the text at its start.         *)
LEMMA ReadableBehind ==
    ASSUME NEW a \in Nat, a < Size, Readable(a)
    PROVE  Readable(a + (LengthAt(a) + 1))
<1> DEFINE n == LengthAt(a)
           e == a + (n + 1)
<1>1. n \in Nat /\ n <= MaxString /\ Size \in Nat /\ MaxString \in Nat
  BY LengthTyped, EEPROMAssumption
<1>2. /\ n = MaxString \/ At(a + n) = 0
      /\ \A k \in 0 .. n - 1 : At(a + k) # 0
  BY LengthFacts
<1> HIDE DEF n
<1>3. PICK d \in a .. Size - 1 : d <= a + MaxString /\ cells[d] = 0
  BY <1>1 DEF Readable
<1>4. a + n <= d
  <2> SUFFICES ASSUME d < a + n PROVE FALSE
    BY <1>1, <1>3
  <2>1. d - a \in 0 .. n - 1 /\ a + (d - a) = d /\ d \in 0 .. Size - 1
    BY <1>1, <1>3
  <2> QED BY <1>2, <1>3, <2>1, CellIs DEF CellAt
<1>5. cells[a + n] = 0
  <2>1. a + n \in 0 .. Size - 1
    BY <1>1, <1>3, <1>4
  <2>2. CASE n = MaxString
    BY <1>1, <1>3, <1>4, <2>2
  <2>3. CASE At(a + n) = 0
    BY <2>1, <2>3, CellIs DEF CellAt
  <2> QED BY <1>2, <2>2, <2>3
<1> SUFFICES ASSUME NEW c \in e .. Size - 1
             PROVE  /\ \E x \in c .. Size - 1 : x <= c + MaxString /\ cells[x] = 0
                    /\ cells[c] = 0 /\ (c = e \/ cells[c - 1] = 0) => BlankFrom(c)
  BY DEF Readable, n
<1>6. c \in a .. Size - 1 /\ (c = e => c - 1 = a + n)
  BY <1>1
<1> QED BY <1>5, <1>6 DEF Readable

(* clearAll() leaves nothing in front of the page it is at, and ends on an   *)
(* empty memory only.                                                        *)
LEMMA ClearLayout ==
    ASSUME EEPROMInv, Layout, clearAll
    PROVE  IF op' = "none" THEN UNCHANGED cells /\ BlankFrom(0) ELSE op' = "clearAll" /\ Clearing'
<1>1. Clearing /\ op = "clearAll" /\ cells \in [0 .. Size - 1 -> Bytes]
  BY DEF clearAll, Layout, EEPROMInv, Shapes
<1> DEFINE reading == clear.reading \/ ~clear.busy
<1>10. PICK a, l : /\ a = IF clear.busy THEN clear.addr ELSE 0
                  /\ l = IF reading THEN LengthAt(a) + 1 ELSE clear.len
  OBVIOUS
<1> DEFINE n == PageBytes(a, l)
<1>2. a \in 0 .. 2 * Size - 1 /\ a \in Nat /\ l \in Nat /\ Size \in Nat /\ MaxString \in Nat
  <2>1. a \in 0 .. 2 * Size - 1 /\ clear.len \in Nat
    BY <1>10, EEPROMAssumption, SMTT(30) DEF EEPROMInv, Shapes, Addresses
  <2>2. LengthAt(a) + 1 \in Nat
    BY LengthTyped, EEPROMAssumption
  <2> QED BY <1>10, <2>1, <2>2, EEPROMAssumption
<1>3. n \in 0 .. l /\ n <= Size
  BY <1>2, PageSmall
<1>4. /\ \A c \in 0 .. Size - 1 : c < a => cells[c] = 0
      /\ LET e == IF reading THEN a ELSE a + l
         IN  BlankFrom(0) \/ Readable(e) \/ \A c \in e .. Size - 1 : cells[c] # 0
  BY <1>1, <1>10 DEF Clearing, ClearAddr, ClearEnd
<1>5. a >= Size => BlankFrom(0)
  BY <1>2, <1>4 DEF BlankFrom
<1>6. a < Size => At(a) = cells[a]
  BY <1>2, CellIs DEF CellAt
<1>7. CASE reading /\ LengthAt(a) = 0
  <2>1. op' = "none" /\ UNCHANGED cells
    BY <1>7, <1>10, Zenon DEF clearAll, Finish
  <2>2. At(a) = 0
    <3>1. MaxString # 0 /\ (LengthAt(a) = MaxString \/ At(a + LengthAt(a)) = 0)
      BY LengthFacts, EEPROMAssumption
    <3> QED BY <1>2, <1>7, <3>1
  <2>3. BlankFrom(0)
    <3> SUFFICES ASSUME a < Size PROVE BlankFrom(0)
      BY <1>2, <1>5
    <3>1. cells[a] = 0 /\ a \in a .. Size - 1
      BY <1>2, <1>6, <2>2
    <3>2. BlankFrom(0) \/ BlankFrom(a)
      BY <1>4, <1>7, <3>1 DEF Readable
    <3> QED BY <1>2, <1>4, <3>2 DEF BlankFrom
  <2> QED BY <2>1, <2>3
<1>8. CASE ~(reading /\ LengthAt(a) = 0)
  <2>1. /\ ClearPage(a, l) /\ op' = "clearAll"
    BY <1>1, <1>8, <1>10, Zenon DEF clearAll, GoOn
  <2>2. /\ WritePage(a, Zeros(n))
        /\ clear' = [addr |-> Address(a + n), len |-> l - n, busy |-> TRUE, reading |-> l - n = 0]
    BY <2>1, Zenon DEF ClearPage
  <2>7. reading => LengthAt(a) > 0 /\ l = LengthAt(a) + 1
    BY <1>8, <1>10, LengthTyped, EEPROMAssumption
  <2> HIDE DEF n, reading
  <2>3. /\ \A c \in 0 .. Size - 1 : cells'[c] = 0 \/ cells'[c] = cells[c]
        /\ a < Size => \A c \in 0 .. Size - 1 :
              cells'[c] = IF a <= c /\ c < a + n THEN 0 ELSE cells[c]
    BY <1>1, <1>2, <1>3, <2>2, ZerosWritten
  <2>4. ClearAddr' = Address(a + n) /\ ClearEnd' = Address(a + n) + (l - n)
    <3>1. /\ clear'.busy = TRUE /\ clear'.reading = (l - n = 0)
          /\ clear'.addr = Address(a + n) /\ clear'.len = l - n
      BY <2>2
    <3>2. l - n \in Nat /\ Address(a + n) \in Nat
      <4>1. l - n \in Nat /\ a + n \in Nat
        BY <1>2, <1>3
      <4> QED BY <4>1, AddressTyped, EEPROMAssumption DEF Addresses
    <3>3. CASE l - n = 0
      <4>1. clear'.reading = TRUE
        BY <3>1, <3>3
      <4> QED BY <3>1, <3>2, <3>3, <4>1 DEF ClearAddr, ClearEnd
    <3>4. CASE l - n # 0
      <4>1. clear'.reading = FALSE
        BY <3>1, <3>4
      <4> QED BY <3>1, <3>2, <3>4, <4>1 DEF ClearAddr, ClearEnd
    <3> QED BY <3>3, <3>4
  <2>5. CASE BlankFrom(0)
    <3>1. \A c \in 0 .. Size - 1 : cells'[c] = 0
      BY <2>3, <2>5 DEF BlankFrom
    <3> QED BY <2>1, <3>1 DEF Clearing, BlankFrom
  <2>6. CASE ~BlankFrom(0)
    <3> DEFINE e == a + l
    <3>1. a < Size
      BY <1>2, <1>5, <2>6
    <3>2. ClearAddr' = a + n /\ ClearEnd' = e
      BY <1>2, <1>3, <2>4, <3>1, AddressIs
    <3>3. /\ \A c \in 0 .. Size - 1 : c < a + n => cells'[c] = 0
          /\ \A c \in e .. Size - 1 : c \in 0 .. Size - 1 /\ cells'[c] = cells[c]
      BY <1>2, <1>3, <1>4, <2>3, <3>1
    <3>4. Readable(e) \/ \A c \in e .. Size - 1 : cells[c] # 0
      <4>1. CASE ~reading
        BY <1>4, <2>6, <4>1
      <4>2. CASE reading /\ \A c \in a .. Size - 1 : cells[c] # 0
        BY <1>2, <4>2
      <4>3. CASE reading /\ Readable(a)
        BY <1>2, <2>7, <3>1, <4>3, ReadableBehind
      <4> QED BY <1>4, <2>6, <4>1, <4>2, <4>3
    <3>5. Readable(e)' \/ \A c \in e .. Size - 1 : cells'[c] # 0
      <4>1. ASSUME Readable(e) PROVE Readable(e)'
        <5> SUFFICES ASSUME NEW c \in e .. Size - 1
                     PROVE  /\ \E d \in c .. Size - 1 : d <= c + MaxString /\ cells'[d] = 0
                            /\ cells'[c] = 0 /\ (c = e \/ cells'[c - 1] = 0) => BlankFrom(c)'
          BY DEF Readable
        <5>1. /\ \E d \in c .. Size - 1 : d <= c + MaxString /\ cells[d] = 0
              /\ cells[c] = 0 /\ (c = e \/ cells[c - 1] = 0) => BlankFrom(c)
          BY <4>1 DEF Readable
        <5>2. \A d \in c .. Size - 1 : cells'[d] = cells[d]
          BY <1>2, <3>3
        <5>3. c = e \/ cells'[c - 1] = cells[c - 1]
          BY <1>2, <3>3
        <5>4. BlankFrom(c) => BlankFrom(c)'
          BY <5>2 DEF BlankFrom
        <5>5. cells'[c] = cells[c]
          BY <1>2, <3>3
        <5> QED BY <5>1, <5>2, <5>3, <5>4, <5>5
      <4> QED BY <3>3, <3>4, <4>1
    <3> QED BY <2>1, <3>2, <3>3, <3>5 DEF Clearing
  <2> QED BY <2>5, <2>6
<1> QED BY <1>7, <1>8

(* A memory that is not written keeps its texts. *)
LEMMA Untouched ==
    ASSUME UNCHANGED cells
    PROVE  /\ \A A : Packed(A) => Packed(A)' /\ StringsBelow(A)' = StringsBelow(A)
           /\ \A A : BlankFrom(A) => BlankFrom(A)'
           /\ Whole => Whole' /\ Top' = Top /\ StringsBelow(Size)' = StringsBelow(Size)
<1>1. ASSUME NEW A, Packed(A) PROVE Packed(A)' /\ StringsBelow(A)' = StringsBelow(A)
  BY <1>1, StringsKept
<1>2. ASSUME NEW A, BlankFrom(A) PROVE BlankFrom(A)'
  BY <1>2 DEF BlankFrom
<1>3. ASSUME Whole PROVE Whole' /\ Top' = Top /\ StringsBelow(Size)' = StringsBelow(Size)
  <2>1. PICK t : t = Top
    OBVIOUS
  <2>2. Packed(t) /\ BlankFrom(t) /\ StringsBelow(Size) = StringsBelow(t)
    BY <1>3, <2>1, Settling DEF Whole, Settled
  <2>3. Packed(t)' /\ BlankFrom(t)' /\ StringsBelow(t)' = StringsBelow(t)
    BY <1>1, <1>2, <2>2
  <2>4. Settled'
    BY Settling, PTL
  <2> QED BY <2>1, <2>2, <2>3, <2>4 DEF Settled
<1> QED BY <1>1, <1>2, <1>3

(* In a memory that is not full a reader that starts at a text goes on to    *)
(* the next one, and finds an empty one behind the last only.                *)
LEMMA TextRead ==
    ASSUME NEW t, Packed(t), BlankFrom(t), t < Size, NEW p, Packed(p), p <= t
    PROVE  /\ LengthAt(p) = 0 <=> p = t
           /\ LengthAt(p) > 0 => /\ Advance(p) = p + LengthAt(p) + 1 /\ p < t
                                 /\ Advance(p) <= t /\ Packed(Advance(p))
                                 /\ Len(readCStringFromEEPROM(p)) = LengthAt(p)
                                 /\ Stands(p, readCStringFromEEPROM(p))
<1> DEFINE n == LengthAt(p)
<1>1. p \in Nat /\ t \in Nat /\ Size \in Nat /\ n \in Nat /\ MaxString \in Nat
  BY LengthTyped, EEPROMAssumption DEF Packed
<1>2. CASE p = t
  <2>1. At(p + 0) = 0 /\ 0 \in 0 .. MaxString
    <3>1. p \in 0 .. Size - 1 /\ cells[p] = 0
      BY <1>1, <1>2 DEF BlankFrom
    <3> QED BY <1>1, <3>1, CellIs DEF CellAt
  <2>2. n = 0
    BY <2>1, LengthIs
  <2> QED BY <1>1, <1>2, <2>2
<1>3. CASE p < t
  <2>1. TextEnds(t, p, n)
    BY <1>3, TextEnding DEF TextsEnd
  <2> HIDE DEF n
  <2>2. /\ n \in 1 .. MaxString /\ p + n + 1 <= t /\ cells[p + n] = 0 /\ Packed(p + n + 1)
        /\ readCStringFromEEPROM(p) = [i \in 1 .. n |-> cells[p + i - 1]]
        /\ \A c \in p .. p + n - 1 : cells[c] # 0
    BY <2>1 DEF TextEnds
  <2>3. Advance(p) = p + n + 1
    BY <1>1, <2>2, AddressIs DEF Advance, n
  <2>4. Len(readCStringFromEEPROM(p)) = n
    BY <1>1, <2>2
  <2>5. \A i \in 1 .. n : readCStringFromEEPROM(p)[i] # 0
    <3> SUFFICES ASSUME NEW i \in 1 .. n PROVE readCStringFromEEPROM(p)[i] # 0
      OBVIOUS
    <3>1. p + i - 1 \in p .. p + n - 1
      BY <1>1
    <3> QED BY <2>2, <3>1
  <2>6. p + n + 1 <= Size /\ n > 0 /\ n # 0
    BY <1>1, <2>2
  <2> QED BY <1>1, <1>3, <2>2, <2>3, <2>4, <2>5, <2>6 DEF Stands, n
<1> QED BY <1>1, <1>2, <1>3

(* In a full memory a reader goes round and round.                           *)
LEMMA FullRead ==
    ASSUME NEW p \in Addresses, Packed(Size), Packed(p % Size)
    PROVE  LengthAt(p) > 0 /\ Packed(Advance(p) % Size)
<1> DEFINE b == p % Size
           n == LengthAt(b)
<1>1. p \in Nat /\ p < 2 * Size /\ Size \in Nat \ {0} /\ b \in 0 .. Size - 1 /\ MaxString \in Nat
  BY Remainder, EEPROMAssumption DEF Addresses
<1>2. p = b \/ p = Size + b
  BY <1>1, SmallRemainder, OnceRound
<1> HIDE DEF b
<1>3. Packed(b)
  BY DEF b
<1>4. TextEnds(Size, b, n)
  BY <1>1, <1>3, TextEnding DEF TextsEnd
<1>5. /\ n \in 1 .. MaxString /\ n \in 0 .. MaxString /\ n \in Nat /\ b + n + 1 <= Size
      /\ cells[b + n] = 0 /\ Packed(b + n + 1) /\ \A c \in b .. b + n - 1 : cells[c] # 0
  BY <1>1, <1>4 DEF TextEnds
<1> HIDE DEF n
<1>6. \A k \in 0 .. n : At(p + k) = cells[b + k]
  <2> SUFFICES ASSUME NEW k \in 0 .. n PROVE At(p + k) = cells[b + k]
    OBVIOUS
  <2>1. b + k \in Nat /\ b + k < Size
    BY <1>1, <1>5
  <2>2. (p + k) % Size = b + k
    <3>1. CASE p = b
      BY <1>1, <2>1, <3>1, SmallRemainder
    <3>2. CASE p = Size + b
      <4>1. p + k \in Nat /\ Size <= p + k /\ p + k < 2 * Size /\ (p + k) - Size = b + k
        BY <1>1, <1>5, <2>1, <3>2
      <4> QED BY <1>1, <4>1, OnceRound
    <3> QED BY <1>2, <3>1, <3>2
  <2> QED BY <2>2 DEF At
<1>7. LengthAt(p) = n
  <2>1. At(p + n) = 0
    BY <1>5, <1>6
  <2>2. \A k \in 0 .. n - 1 : At(p + k) # 0
    <3> SUFFICES ASSUME NEW k \in 0 .. n - 1 PROVE At(p + k) # 0
      OBVIOUS
    <3>1. k \in 0 .. n /\ b + k \in b .. b + n - 1
      BY <1>1, <1>5
    <3> QED BY <1>5, <1>6, <3>1
  <2> QED BY <1>5, <2>1, <2>2, LengthIs
<1>8. Advance(p) = (p + n + 1) % (2 * Size)
  BY <1>7 DEF Advance, Address
<1> DEFINE e == b + n + 1
<1>9. e \in Nat /\ e <= Size /\ Packed(e) /\ (p + n + 1 = e \/ p + n + 1 = Size + e)
  BY <1>1, <1>2, <1>5
<1> HIDE DEF e
<1>10. Packed(Advance(p) % Size)
  <2>1. CASE p + n + 1 = 2 * Size
    <3>1. Advance(p) = 0 /\ 0 % Size = 0
      BY <1>1, <1>8, <2>1, FullRound, SmallRemainder
    <3> QED BY <3>1, NothingPacked
  <2>2. CASE p + n + 1 # 2 * Size
    <3>1. p + n + 1 < 2 * Size /\ Advance(p) = p + n + 1
      <4>1. p + n + 1 < 2 * Size /\ p + n + 1 \in Nat
        BY <1>1, <1>9, <2>2
      <4> QED BY <1>7, <4>1, AddressIs DEF Advance
    <3>2. CASE e < Size
      <4>1. (p + n + 1) % Size = e
        <5>1. CASE p + n + 1 = e
          BY <1>1, <1>9, <3>2, <5>1, SmallRemainder
        <5>2. CASE p + n + 1 = Size + e
          <6>1. Size <= p + n + 1 /\ (p + n + 1) - Size = e /\ p + n + 1 \in Nat
            BY <1>1, <1>9, <5>2
          <6> QED BY <1>1, <3>1, <6>1, OnceRound
        <5> QED BY <1>9, <5>1, <5>2
      <4> QED BY <1>9, <3>1, <4>1
    <3>3. CASE e = Size
      <4>1. p + n + 1 = Size
        BY <1>1, <1>9, <2>2, <3>3
      <4>2. (p + n + 1) % Size = 0
        BY <1>1, <4>1, FullRound
      <4> QED BY <3>1, <4>2, NothingPacked
    <3> QED BY <1>1, <1>9, <3>2, <3>3
  <2> QED BY <2>1, <2>2
<1> QED BY <1>5, <1>7, <1>10

(* popStringFromEEPROM() reads on, or finds an empty memory, or has found    *)
(* the last text and where it starts.                                        *)
LEMMA ReadingLayout ==
    ASSUME EEPROMInv, Layout, popReads
    PROVE  /\ UNCHANGED cells /\ Whole
           /\ \/ op' = "none" /\ pop' = popStatics /\ BlankFrom(0)
                 /\ answer' = Answer("EMPTY", <<>>)
              \/ op' = "pop" /\ pop'.reading /\ Reading' /\ UNCHANGED answer
              \/ /\ op' = "pop" /\ ~pop'.reading /\ Popping' /\ UNCHANGED answer
                 /\ pop'.len = Len(pop'.string) + 1 /\ Packed(pop'.prev)
                 /\ Top = pop'.prev + Len(pop'.string) + 1
                 /\ StringsBelow(Size) = Append(StringsBelow(pop'.prev), pop'.string)
<1>1. /\ op = "pop" /\ pop.reading /\ UNCHANGED cells /\ Reading /\ Whole
  BY DEF popReads, Layout, Reading
<1>2. PICK t, p, q, s : t = Top /\ p = pop.addr /\ q = pop.prev /\ s = pop.string
  OBVIOUS
<1>3. /\ pop \in [addr : Addresses, prev : Addresses, string : Texts,
                  len : 0 .. MaxString + 1, reading : BOOLEAN]
      /\ p \in Addresses /\ p \in Nat /\ p < 2 * Size /\ Size \in Nat
  BY <1>2, EEPROMAssumption DEF EEPROMInv, Shapes, Addresses
<1>4. Packed(t) /\ BlankFrom(t) /\ t \in 0 .. Size
  BY <1>1, <1>2 DEF Whole, Packed
<1>5. /\ Packed(p % Size) /\ (s = <<>> => p = 0)
      /\ s # <<>> /\ t < Size =>
            /\ q < t /\ Packed(q) /\ s = readCStringFromEEPROM(q) /\ p = q + Len(s) + 1
  BY <1>1, <1>2 DEF Reading
<1>6. s # <<>> /\ t < Size => Stands(q, s) /\ Len(s) > 0
  <2> SUFFICES ASSUME s # <<>>, t < Size PROVE Stands(q, s) /\ Len(s) > 0
    OBVIOUS
  <2>1. q <= t /\ q # t
    <3>1. q \in Nat /\ t \in Nat /\ q < t
      BY <1>4, <1>5, EEPROMAssumption DEF Packed
    <3> QED BY <3>1
  <2>2. LengthAt(q) # 0 /\ LengthAt(q) \in Nat
    BY <1>4, <1>5, <2>1, TextRead, LengthTyped, EEPROMAssumption
  <2> QED BY <1>4, <1>5, <2>1, <2>2, TextRead
<1>7. t < Size => Packed(p) /\ p <= t
  <2> SUFFICES ASSUME t < Size PROVE Packed(p) /\ p <= t
    OBVIOUS
  <2>1. CASE s = <<>>
    BY <1>4, <1>5, <2>1, NothingPacked
  <2>2. CASE s # <<>>
    <3>1. q <= t /\ q # t
      <4>1. q \in Nat /\ t \in Nat /\ q < t
        BY <1>4, <1>5, <2>2, EEPROMAssumption DEF Packed
      <4> QED BY <4>1
    <3>2. LengthAt(q) # 0 /\ LengthAt(q) \in Nat
      BY <1>4, <1>5, <2>2, <3>1, TextRead, LengthTyped, EEPROMAssumption
    <3>3. Advance(q) = q + LengthAt(q) + 1 /\ Advance(q) <= t /\ Packed(Advance(q))
          /\ Len(readCStringFromEEPROM(q)) = LengthAt(q)
      BY <1>4, <1>5, <2>2, <3>1, <3>2, TextRead
    <3> QED BY <1>5, <2>2, <3>3
  <2> QED BY <2>1, <2>2
<1>8. Whole' /\ Top' = t /\ \A A : Packed(A) => Packed(A)'
  BY <1>1, <1>2, Untouched
<1> DEFINE n == LengthAt(p)
<1>9. n \in Nat /\ n = LengthAt(pop.addr)
  BY <1>2, LengthTyped, EEPROMAssumption
<1>10. CASE n > 0
  <2>1. /\ pop' = [pop EXCEPT !.addr = Advance(pop.addr), !.prev = pop.addr,
                              !.string = readCStringFromEEPROM(pop.addr)]
        /\ UNCHANGED <<op, answer>>
    BY <1>9, <1>10, Zenon DEF popReads, GoOn
  <2>2. /\ pop'.addr = Advance(p) /\ pop'.prev = p /\ pop'.string = readCStringFromEEPROM(p)
        /\ pop'.reading = pop.reading
    BY <1>2, <1>3, <2>1
  <2>3. Len(readCStringFromEEPROM(p)) = n /\ readCStringFromEEPROM(p) # <<>>
    <3>1. Len(readCStringFromEEPROM(p)) = n
      BY <1>3, TextTyped DEF EEPROMInv
    <3>2. Len(<<>>) = 0
      OBVIOUS
    <3> QED BY <1>9, <1>10, <3>1, <3>2
  <2>4. Packed(Advance(p) % Size)
        /\ (t < Size => p < t /\ Packed(p) /\ Advance(p) = p + n + 1)
    <3>1. CASE t < Size
      <4>1. Advance(p) = p + n + 1 /\ Advance(p) <= t /\ Packed(Advance(p)) /\ p < t
        BY <1>4, <1>7, <1>10, <3>1, TextRead
      <4>2. Advance(p) % Size = Advance(p)
        BY <1>3, <1>4, <1>9, <3>1, <4>1, SmallRemainder, EEPROMAssumption
      <4> QED BY <1>7, <3>1, <4>1, <4>2
    <3>2. CASE t = Size
      BY <1>3, <1>4, <1>5, <3>2, FullRead
    <3> QED BY <1>3, <1>4, <3>1, <3>2
  <2>5. readCStringFromEEPROM(p)' = readCStringFromEEPROM(p)
    BY <1>1 DEF readCStringFromEEPROM, LengthAt, At
  <2>6. Reading'
    <3>1. PICK v, m : v = Advance(p) /\ m = n
      OBVIOUS
    <3>2. Packed(v % Size)' /\ (t < Size => Packed(p)')
      BY <1>8, <2>4, <3>1
    <3>3. pop'.string # <<>> /\ pop'.addr = v /\ pop'.prev = p
          /\ pop'.string = readCStringFromEEPROM(p)'
      BY <2>2, <2>3, <2>5, <3>1
    <3>4. t < Size => p < t /\ v = p + Len(pop'.string) + 1
      BY <2>2, <2>3, <2>4, <3>1
    <3> HIDE DEF n
    <3> QED BY <1>8, <3>2, <3>3, <3>4 DEF Reading
  <2> QED BY <1>1, <2>1, <2>2, <2>6
<1>11. CASE n = 0
  <2>1. t < Size
    BY <1>3, <1>4, <1>5, <1>11, FullRead
  <2>2. p = t
    BY <1>4, <1>7, <1>11, <2>1, TextRead
  <2>3. CASE s = <<>>
    <3>1. op' = "none" /\ pop' = popStatics /\ answer' = Answer("EMPTY", <<>>)
      BY <1>2, <1>9, <1>11, <2>3 DEF popReads, Finish
    <3> QED BY <1>1, <1>4, <1>5, <2>2, <2>3, <3>1
  <2>4. CASE s # <<>>
    <3>1. /\ pop' = [pop EXCEPT !.reading = FALSE, !.len = Len(pop.string) + 1]
          /\ out' = s /\ UNCHANGED <<op, arg, answer>>
      BY <1>2, <1>9, <1>11, <2>4 DEF popReads, GoOn
    <3>2. /\ pop'.prev = q /\ pop'.string = s /\ pop'.len = Len(s) + 1 /\ ~pop'.reading
      BY <1>2, <1>3, <3>1
    <3>3. Stands(q, s) /\ Packed(q) /\ q \in Nat /\ Len(s) \in Nat /\ t = q + Len(s) + 1
      BY <1>5, <1>6, <2>1, <2>2, <2>4, EEPROMAssumption DEF Packed, Stands
    <3>4. StringsBelow(Size) = Append(StringsBelow(q), s)
      <4>1. StringsBelow(Size) = StringsBelow(t)
        BY <1>4, Settling DEF Settled
      <4>2. StringsBelow(q + Len(s) + 1) = Append(StringsBelow(q), s)
        BY <3>3, Appending DEF Appends
      <4> QED BY <3>3, <4>1, <4>2
    <3>5. PopStart' = q
      BY <3>2, <3>3 DEF PopStart
    <3>6. Popping'
      <4>1. \A c \in q .. Size - 1 : c >= q + (Len(s) + 1) => cells'[c] = 0
        BY <1>1, <1>4, <3>3 DEF BlankFrom
      <4>2. Packed(q)' /\ Len(s) + 1 > 0 /\ q + (Len(s) + 1) <= Size /\ q <= q
        BY <1>4, <1>8, <3>3
      <4>3. out' = pop'.string /\ pop'.string # <<>>
        BY <2>4, <3>1, <3>2
      <4>4. \A c \in q .. Size - 1 : ~(c < q)
        BY <3>3
      <4> QED BY <3>2, <3>5, <4>1, <4>2, <4>3, <4>4 DEF Popping
    <3> QED BY <1>1, <1>2, <3>1, <3>2, <3>3, <3>4, <3>6
  <2> QED BY <2>3, <2>4
<1> QED BY <1>9, <1>10, <1>11

-----------------------------------------------------------------------------
(* It then erases that text, page by page, and nothing else.                 *)
LEMMA PoppingLayout ==
    ASSUME EEPROMInv, Layout, popClears
    PROVE  \E b : /\ b = PopStart /\ StringsBelow(b)' = StringsBelow(b)
                  /\ \/ /\ op' = "none" /\ pop' = popStatics
                        /\ answer' = Answer("POPPEDSTRINGOK", pop.string)
                        /\ Packed(b)' /\ BlankFrom(b)'
                     \/ /\ op' = "pop" /\ ~pop'.reading /\ Popping' /\ UNCHANGED answer
                        /\ PopStart' = b /\ pop'.string = pop.string
<1>1. /\ op = "pop" /\ ~pop.reading /\ Popping /\ cells \in [0 .. Size - 1 -> Bytes]
      /\ pop \in [addr : Addresses, prev : Addresses, string : Texts,
                  len : 0 .. MaxString + 1, reading : BOOLEAN]
  BY DEF popClears, Layout, EEPROMInv, Shapes
<1>2. PICK b, q, l, s : b = PopStart /\ q = pop.prev /\ l = pop.len /\ s = pop.string
  OBVIOUS
<1>3. /\ q \in Nat /\ l \in Nat /\ Size \in Nat /\ b = q - (Len(s) + 1 - l) /\ Len(s) \in Nat
  <2>1. PICK m \in 0 .. MaxString : s \in [1 .. m -> Bytes]
    BY <1>1, <1>2 DEF Texts
  <2>2. Len(s) = m /\ m \in Nat
    BY <2>1, EEPROMAssumption
  <2> QED BY <1>1, <1>2, <2>2, EEPROMAssumption DEF Addresses, PopStart
<1>4. /\ out = s /\ s # <<>> /\ l > 0 /\ Packed(b) /\ b <= q /\ q + l <= Size
      /\ \A c \in b .. Size - 1 : c < q \/ c >= q + l => cells[c] = 0
  BY <1>1, <1>2 DEF Popping
<1>5. b \in Nat /\ b \in 0 .. Size /\ q < Size
  BY <1>3, <1>4 DEF Packed
<1>6. PICK n : n = PageBytes(q, l)
  OBVIOUS
<1>7. n \in 0 .. l /\ n \in Nat
  BY <1>3, <1>6, PageTyped
<1>8. WritePage(q, Zeros(n))
  BY <1>2, <1>6, Zenon DEF popClears
<1>9. \A c \in 0 .. Size - 1 : cells'[c] = IF q <= c /\ c < q + n THEN 0 ELSE cells[c]
  BY <1>1, <1>3, <1>5, <1>7, <1>8, ZerosWritten
<1>10. Packed(b)' /\ StringsBelow(b)' = StringsBelow(b)
  <2>1. \A c \in 0 .. b - 1 : cells'[c] = cells[c]
    BY <1>3, <1>4, <1>5, <1>9
  <2> QED BY <1>4, <2>1, StringsKept
<1>11. CASE l = n
  <2>1. op' = "none" /\ pop' = popStatics /\ answer' = Answer("POPPEDSTRINGOK", s)
    BY <1>2, <1>4, <1>6, <1>11, Zenon DEF popClears, Finish
  <2>2. BlankFrom(b)'
    <3>1. \A c \in b .. Size - 1 : cells'[c] = 0
      BY <1>3, <1>4, <1>5, <1>7, <1>9, <1>11
    <3> QED BY <3>1 DEF BlankFrom
  <2> QED BY <1>2, <1>10, <2>1, <2>2
<1>12. CASE l # n
  <2>1. /\ pop' = [pop EXCEPT !.prev = Address(q + n), !.len = l - n]
        /\ UNCHANGED <<op, answer, out>>
    BY <1>2, <1>6, <1>12, Zenon DEF popClears, GoOn
  <2>2. Address(q + n) = q + n
    BY <1>3, <1>4, <1>7, EEPROMAssumption, AddressIs
  <2>3. /\ pop'.prev = q + n /\ pop'.len = l - n /\ pop'.string = s
        /\ pop'.reading = pop.reading
    BY <1>1, <1>2, <2>1, <2>2
  <2>4. PopStart' = b
    BY <1>3, <1>7, <2>3 DEF PopStart
  <2>5. Popping'
    <3>1. \A c \in b .. Size - 1 : c < q + n \/ c >= q + n + (l - n) => cells'[c] = 0
      BY <1>3, <1>4, <1>5, <1>7, <1>9
    <3>2. l - n > 0 /\ b <= q + n /\ q + n + (l - n) <= Size
      BY <1>3, <1>4, <1>5, <1>7, <1>12
    <3>3. out' = pop'.string /\ pop'.string # <<>>
      BY <1>2, <1>4, <2>1, <2>3
    <3> QED BY <1>10, <2>3, <2>4, <3>1, <3>2, <3>3 DEF Popping
  <2> QED BY <1>1, <1>2, <1>10, <2>1, <2>3, <2>4, <2>5
<1> QED BY <1>11, <1>12

(* Where a push writes, before it is under way and while it is.              *)
Placed(A, w) ==
    /\ Packed(A)
    /\ \A c \in A .. Size - 1 :
          cells[c] = IF c - A < w /\ c - A < Len(arg) THEN arg[c - A + 1] ELSE 0

LEMMA PushPlace ==
    ASSUME EEPROMInv, Layout, op = "push", ~(push.locating /\ Endless)
    PROVE  /\ Placed(Located, Started.written)
           /\ Contents = StringsBelow(Located) /\ Used = Located
           /\ push.locating => Whole
           /\ ~push.locating => Fits(Located)
<1>1. CASE push.locating
  <2>1. ~write.busy /\ Located = Top /\ Whole
    BY <1>1 DEF EEPROMInv, WriteInside, Located, Top, Layout
  <2>2. Placed(Located, 0)
    <3>1. PICK t : t = Top
      OBVIOUS
    <3>2. t \in Nat /\ Size \in Nat /\ Packed(t) /\ BlankFrom(t)
      BY <2>1, <3>1, EEPROMAssumption DEF Whole, Packed
    <3>3. \A c \in t .. Size - 1 : cells[c] = 0 /\ ~(c - t < 0)
      BY <3>2 DEF BlankFrom
    <3> QED BY <2>1, <3>1, <3>2, <3>3 DEF Placed
  <2>3. Started.written = 0
    BY <2>1 DEF Started
  <2>4. Contents = StringsBelow(Located) /\ Used = Located
    BY <1>1, <2>1, Settling DEF Contents, Used, Settled, Whole
  <2> QED BY <1>1, <2>1, <2>2, <2>3, <2>4
<1>2. CASE ~push.locating
  <2>1. Pushing /\ Started = write /\ Located = push.addr /\ Fits(Located)
    BY <1>2 DEF Layout, Pushing, Started, Located, EEPROMInv, WriteInside
  <2> QED BY <1>2, <2>1 DEF Contents, Used, Placed, Pushing
<1> QED BY <1>1, <1>2

(* pushStringToEEPROM() writes its string behind the last one, page by page. *)
LEMMA WritingLayout ==
    ASSUME EEPROMInv, Layout, pushWrites
    PROVE  \E A, B : /\ A = Located /\ Fits(A) /\ push'.addr = A /\ B = A + Len(arg) + 1
                     /\ StringsBelow(A)' = StringsBelow(A)
                     /\ \/ /\ op' = "none" /\ push'.locating
                           /\ answer' = Answer("PUSHOK", <<>>)
                           /\ Packed(B)' /\ BlankFrom(B)'
                           /\ StringsBelow(B)' = Append(StringsBelow(A), arg)
                        \/ /\ op' = "push" /\ ~push'.locating /\ Pushing'
                           /\ UNCHANGED <<arg, answer>>
<1>1. /\ op = "push" /\ ~(push.locating /\ Endless) /\ Fits(Located)
      /\ cells \in [0 .. Size - 1 -> Bytes]
  BY DEF pushWrites, EEPROMInv, Shapes
<1>2. /\ Placed(Located, Started.written)
  BY <1>1, PushPlace
<1>3. arg \in Seq(Nat \ {0}) /\ Len(arg) \in 1 .. MaxString /\ arg \in Strings
  BY <1>1, EEPROMAssumption DEF EEPROMInv, Shapes
<1>4. PICK A, w, s : A = Located /\ w = Started.written /\ s = arg
  OBVIOUS
<1>5. /\ A \in 0 .. Size /\ A \in Nat /\ Size \in Nat /\ Len(s) \in Nat /\ Len(s) > 0
      /\ A + Len(s) + 1 <= Size /\ Len(s) \in 1 .. MaxString
      /\ s = [i \in 1 .. Len(s) |-> s[i]] /\ \A i \in 1 .. Len(s) : s[i] # 0
  BY <1>1, <1>2, <1>3, <1>4, EEPROMAssumption DEF Placed, Packed, Fits
<1>6. /\ Packed(A) /\ \A c \in A .. Size - 1 :
            cells[c] = IF c - A < w /\ c - A < Len(s) THEN s[c - A + 1] ELSE 0
  BY <1>2, <1>4 DEF Placed
<1>7. w \in Nat /\ w <= Len(s) + 1 /\ Started.addr = A + w /\ Started.busy
      /\ Started \in [addr : 0 .. Size, written : 0 .. MaxString + 1, busy : BOOLEAN]
  <2>1. CASE write.busy
    BY <1>4, <2>1, EEPROMAssumption DEF Started, Located, EEPROMInv, Shapes, WriteInside
  <2>2. CASE ~write.busy
    <3>1. Started = [addr |-> Located, written |-> 0, busy |-> TRUE]
      BY <2>2 DEF Started
    <3> QED BY <1>4, <1>5, <3>1, EEPROMAssumption
  <2> QED BY <2>1, <2>2
<1> DEFINE string == Append(arg, 0)
<1>8. Len(string) = Len(s) + 1
      /\ \A i \in 1 .. Len(s) + 1 : string[i] = IF i <= Len(s) THEN s[i] ELSE 0
  BY <1>3, <1>4
<1>9. PICK n : n = PageBytes(Started.addr, Len(string) - w)
  OBVIOUS
<1>10. n \in Nat /\ w + n <= Len(s) + 1
  <2>1. Len(string) - w \in Nat /\ Started.addr \in Nat
    BY <1>5, <1>7, <1>8
  <2>2. n \in 0 .. Len(string) - w
    BY <1>9, <2>1, PageTyped
  <2> QED BY <1>5, <1>7, <1>8, <2>2, SMTT(30)
<1>11. CASE w = Len(string)
  <2>1. /\ op' = "none" /\ push' = [addr |-> Located, locating |-> TRUE] /\ UNCHANGED cells
        /\ answer' = Answer("PUSHOK", <<>>)
    BY <1>4, <1>11 DEF pushWrites, Finish
  <2>2. Stands(A, s)
    <3>1. s = [i \in 1 .. Len(s) |-> cells[A + i - 1]]
      <4>1. ASSUME NEW i \in 1 .. Len(s) PROVE cells[A + i - 1] = s[i]
        <5>1. /\ A + i - 1 \in A .. Size - 1 /\ (A + i - 1) - A < w
              /\ (A + i - 1) - A < Len(s) /\ (A + i - 1) - A + 1 = i
          BY <1>5, <1>8, <1>11
        <5> QED BY <1>6, <5>1
      <4> QED BY <1>5, <4>1
    <3>2. cells[A + Len(s)] = 0
      <4>1. A + Len(s) \in A .. Size - 1 /\ ~((A + Len(s)) - A < Len(s))
        BY <1>5
      <4> QED BY <1>6, <4>1
    <3> QED BY <1>5, <3>1, <3>2 DEF Stands
  <2> DEFINE B == A + Len(s) + 1
  <2>3. Packed(B) /\ StringsBelow(B) = Append(StringsBelow(A), s)
    BY <1>6, <2>2, Appending DEF Appends
  <2>4. BlankFrom(B)
    <3>1. \A c \in B .. Size - 1 : c \in A .. Size - 1 /\ ~(c - A < Len(s))
      BY <1>5
    <3> QED BY <1>6, <3>1 DEF BlankFrom
  <2>5. Packed(B)' /\ BlankFrom(B)' /\ StringsBelow(B)' = StringsBelow(B)
        /\ StringsBelow(A)' = StringsBelow(A)
    BY <1>6, <2>1, <2>3, <2>4, Untouched
  <2>6. push'.addr = A /\ push'.locating
    BY <1>4, <2>1
  <2> HIDE DEF B
  <2>7. B = A + Len(arg) + 1
    BY <1>4 DEF B
  <2> QED BY <1>1, <1>4, <2>1, <2>3, <2>5, <2>6, <2>7
<1>12. CASE w # Len(string)
  <2>1. /\ push' = [addr |-> Located, locating |-> FALSE]
        /\ WritePage(Started.addr, SubSeq(string, w + 1, w + n))
        /\ write' = [Started EXCEPT !.addr = @ + n, !.written = @ + n]
        /\ UNCHANGED <<op, arg, answer>>
    BY <1>4, <1>9, <1>12, Zenon DEF pushWrites, GoOn
  <2> DEFINE bytes == SubSeq(string, w + 1, w + n)
  <2>2. Len(bytes) = n /\ \A i \in 1 .. n : bytes[i] = string[w + i]
    <3>1. string \in Seq(Nat)
      BY <1>3
    <3> HIDE DEF string
    <3>2. /\ w + 1 \in 1 .. Len(string) + 1 /\ w + n \in w .. Len(string)
          /\ (w + n) - (w + 1) + 1 = n /\ (w + 1 <= w + n <=> n # 0)
      <4>1. PICK m : m = Len(string)
        OBVIOUS
      <4>2. w \in Nat /\ n \in Nat /\ m \in Nat /\ w + n <= m
        BY <1>5, <1>7, <1>8, <1>10, <4>1
      <4>3. /\ w + 1 \in 1 .. m + 1 /\ w + n \in w .. m
            /\ (w + n) - (w + 1) + 1 = n /\ (w + 1 <= w + n <=> n # 0)
        BY <4>2
      <4> QED BY <4>1, <4>3
    <3>3. ASSUME NEW i \in 1 .. n PROVE (w + 1) + i - 1 = w + i
      BY <1>7, <1>10
    <3> QED BY <3>1, <3>2, <3>3, SMTT(30)
  <2> HIDE DEF bytes, string
  <2>3. A + w < Size
    BY <1>5, <1>7, <1>8, <1>12
  <2>4. \A c \in 0 .. Size - 1 :
           cells'[c] = IF A + w <= c /\ c < A + w + n THEN bytes[c - (A + w) + 1] ELSE cells[c]
    <3>1. A + w \in Nat /\ (A + w) % Size = A + w
      BY <1>5, <1>7, <2>3, SmallRemainder, EEPROMAssumption
    <3>2. WritePage(A + w, bytes)
      BY <1>7, <2>1 DEF bytes
    <3>3. \A c \in 0 .. Size - 1 :
             cells'[c] = IF (A + w) % Size <= c /\ c < ((A + w) % Size) + n
                         THEN bytes[c - ((A + w) % Size) + 1] ELSE cells[c]
      BY <1>1, <1>10, <2>2, <3>1, <3>2, WrittenIs
    <3> QED BY <3>1, <3>3
  <2>5. Packed(A)' /\ StringsBelow(A)' = StringsBelow(A)
    <3>1. \A c \in 0 .. A - 1 : cells'[c] = cells[c]
      BY <1>5, <1>7, <2>4, SMTT(30)
    <3> QED BY <1>6, <3>1, StringsKept
  <2>6. \A c \in A .. Size - 1 :
           cells'[c] = IF c - A < w + n /\ c - A < Len(s) THEN s[c - A + 1] ELSE 0
    <3> SUFFICES ASSUME NEW c \in A .. Size - 1
                 PROVE  cells'[c] = IF c - A < w + n /\ c - A < Len(s) THEN s[c - A + 1] ELSE 0
      OBVIOUS
    <3>1. c \in 0 .. Size - 1 /\ c \in Nat
      BY <1>5
    <3>2. CASE A + w <= c /\ c < A + w + n
      <4>1. c - (A + w) + 1 \in 1 .. n /\ w + (c - (A + w) + 1) = c - A + 1
            /\ c - A + 1 \in 1 .. Len(s) + 1
        <5>1. PICK k : k = Len(s)
          OBVIOUS
        <5>2. /\ A \in Nat /\ w \in Nat /\ n \in Nat /\ k \in Nat /\ w + n <= k + 1
              /\ c \in Nat /\ A + w <= c /\ c < A + w + n
          BY <1>5, <1>7, <1>10, <3>1, <3>2, <5>1
        <5>3. /\ c - (A + w) + 1 \in 1 .. n /\ w + (c - (A + w) + 1) = c - A + 1
              /\ c - A + 1 \in 1 .. k + 1
          BY <5>2
        <5> QED BY <5>1, <5>3
      <4>2. cells'[c] = string[c - A + 1]
        BY <2>2, <2>4, <3>1, <3>2, <4>1
      <4>3. c - A < w + n /\ (c - A < Len(s) <=> c - A + 1 <= Len(s))
        BY <1>5, <1>7, <1>10, <3>1, <3>2, SMTT(30)
      <4> QED BY <1>8, <4>1, <4>2, <4>3
    <3>3. CASE ~(A + w <= c /\ c < A + w + n)
      <4>1. cells'[c] = cells[c]
        BY <2>4, <3>1, <3>3
      <4>2. c - A < Len(s) => (c - A < w <=> c - A < w + n)
        BY <1>5, <1>7, <1>10, <3>1, <3>3, SMTT(30)
      <4> QED BY <1>6, <4>1, <4>2
    <3> QED BY <3>2, <3>3
  <2>7. /\ push'.addr = A /\ ~push'.locating /\ write'.busy
        /\ write'.written = w + n
    <3> DEFINE v == Started
    <3>1. /\ v \in [addr : 0 .. Size, written : 0 .. MaxString + 1, busy : BOOLEAN]
          /\ v.busy /\ v.written = w
          /\ write' = [v EXCEPT !.addr = v.addr + n, !.written = v.written + n]
      BY <1>4, <1>7, <2>1
    <3> HIDE DEF v
    <3>2. write'.busy /\ write'.written = w + n
      BY <3>1
    <3> QED BY <1>4, <2>1, <3>2
  <2>8. Pushing'
    BY <1>4, <2>1, <2>5, <2>6, <2>7 DEF Pushing
  <2> QED BY <1>1, <1>4, <2>1, <2>5, <2>7, <2>8
<1> QED BY <1>11, <1>12

-----------------------------------------------------------------------------
(* Restarts interrupt pushes or nothing: a memory half cleared, or a string  *)
(* half erased, is not one that clearAll() reads to its end.                 *)
RestartsSpareErasing == CrashPoints \subseteq {"none", "push"}

StackStep == [Stack!SNext]_(Stack!svars)

LEMMA LayoutInit == Init => Layout /\ Stack!SInit
<1> SUFFICES ASSUME Init PROVE Layout /\ Stack!SInit
  OBVIOUS
<1>1. op = "clearAll" /\ push.locating /\ pop = popStatics /\ ~clear.busy
      /\ answer = Answer("NONE", <<>>)
  BY DEF Init, clearStatics, pushStatics
<1>2. Clearing
  <2>1. ClearAddr = 0 /\ ClearEnd = 0
    BY <1>1 DEF ClearAddr, ClearEnd
  <2>2. BlankFrom(0) \/ \A c \in 0 .. Size - 1 : cells[c] # 0
    BY DEF Init, Virgin, BlankFrom
  <2>3. \A c \in 0 .. Size - 1 : ~(c < 0)
    BY EEPROMAssumption
  <2> QED BY <2>1, <2>2, <2>3 DEF Clearing
<1>3. Layout
  BY <1>1, <1>2 DEF Layout
<1>4. Stack!SInit
  BY <1>1 DEF Stack!SInit, Stack!Answer, Answer, Contents, Used
<1> QED BY <1>3, <1>4

(* Between operations, and while one only searches, the callers' stack is    *)
(* the whole memory.                                                         *)
IdleSeen == (op = "none" \/ (op = "push" /\ push.locating) \/ (op = "pop" /\ pop.reading))
               => Contents = StringsBelow(Size) /\ Used = Top

LEMMA IdleIsSeen == IdleSeen
  BY DEF IdleSeen, Contents, Used

LEMMA StackClear ==
    ASSUME Contents' = <<>>, Used' = 0, answer' = Answer("NONE", <<>>)
    PROVE  StackStep
  BY DEF StackStep, Stack!SNext, Stack!Clear, Stack!Answer, Answer

LEMMA StackStays ==
    ASSUME Contents' = Contents, Used' = Used, answer' = answer
    PROVE  StackStep
  BY DEF StackStep, Stack!svars

LEMMA RestartLayout ==
    ASSUME RestartsSpareErasing, EEPROMInv, Layout, restart \/ watchdogBites
    PROVE  Layout' /\ StackStep
<1>1. /\ op' = "clearAll" /\ UNCHANGED cells /\ answer' = Answer("NONE", <<>>)
      /\ clear' = clearStatics /\ pop' = popStatics /\ push' = pushStatics
  BY DEF restart, watchdogBites, Restarted
<1>2. Readable(0)
  <2>1. op \in {"none", "push"}
    BY DEF restart, watchdogBites, RestartsSpareErasing
  <2> QED BY <2>1, WholeReadable, PushingReadable DEF Layout
<1>3. Clearing'
  <2>1. ClearAddr' = 0 /\ ClearEnd' = 0
    BY <1>1 DEF ClearAddr, ClearEnd, clearStatics
  <2>2. Readable(0)'
    BY <1>1, <1>2 DEF Readable, BlankFrom
  <2>3. \A c \in 0 .. Size - 1 : ~(c < 0)
    BY EEPROMAssumption
  <2> QED BY <2>1, <2>2, <2>3 DEF Clearing
<1>4. Layout'
  BY <1>1, <1>3 DEF Layout, pushStatics
<1>5. Contents' = <<>> /\ Used' = 0
  BY <1>1 DEF Contents, Used
<1> QED BY <1>1, <1>4, <1>5, StackClear

LEMMA StartLayout ==
    ASSUME EEPROMInv, Layout, startPush \/ startPop
    PROVE  Layout' /\ StackStep
<1>1. /\ op = "none" /\ op' \in {"push", "pop"}
      /\ UNCHANGED <<cells, answer, clear, pop, push, write>>
  BY DEF startPush, startPop, statics
<1>2. Whole /\ push.locating /\ pop = popStatics
  BY <1>1 DEF Layout
<1>3. Whole' /\ Top' = Top /\ StringsBelow(Size)' = StringsBelow(Size)
  BY <1>1, <1>2, Untouched
<1>4. pop.reading /\ pop.addr = 0 /\ pop.string = <<>>
  BY <1>2 DEF popStatics
<1>5. Reading'
  <2>1. Packed(0)'
    BY NothingPacked, <1>1, Untouched
  <2>2. 0 % Size = 0
    BY SmallRemainder, EEPROMAssumption
  <2> QED BY <1>1, <1>3, <1>4, <2>1, <2>2 DEF Reading
<1>6. Layout'
  BY <1>1, <1>2, <1>3, <1>4, <1>5 DEF Layout
<1>7. Contents' = Contents /\ Used' = Used
  <2>1. IdleSeen'
    BY IdleIsSeen, PTL
  <2> QED BY <1>1, <1>2, <1>3, <1>4, <2>1, IdleIsSeen DEF IdleSeen
<1> QED BY <1>1, <1>6, <1>7, StackStays

LEMMA ClearingStep ==
    ASSUME EEPROMInv, Layout, clearAll
    PROVE  Layout' /\ StackStep
<1>1. op = "clearAll" /\ push.locating /\ pop = popStatics /\ UNCHANGED <<pop, push, write>>
  BY DEF clearAll, Layout
<1>2. Contents = <<>> /\ Used = 0
  BY <1>1 DEF Contents, Used
<1>3. CASE op' = "none"
  <2>1. UNCHANGED cells /\ BlankFrom(0) /\ answer' = Answer("NONE", <<>>)
    BY <1>1, <1>3, ClearLayout DEF clearAll, Finish, GoOn
  <2>2. BlankFrom(0)'
    BY <2>1, Untouched
  <2>3. Whole' /\ Top' = 0 /\ StringsBelow(Size)' = <<>>
    <3>1. Emptied'
      BY Emptying, PTL
    <3> QED BY <2>2, <3>1 DEF Emptied
  <2>4. Contents' = <<>> /\ Used' = 0
    <3>1. IdleSeen'
      BY IdleIsSeen, PTL
    <3> QED BY <1>3, <2>3, <3>1 DEF IdleSeen
  <2>5. Layout'
    BY <1>1, <1>3, <2>3 DEF Layout
  <2> QED BY <2>1, <2>4, <2>5, StackClear
<1>4. CASE op' # "none"
  <2>1. op' = "clearAll" /\ Clearing'
    BY <1>4, ClearLayout
  <2>2. answer' = answer
    BY <1>1, <2>1 DEF clearAll, Finish, GoOn
  <2>3. Contents' = <<>> /\ Used' = 0
    BY <2>1 DEF Contents, Used
  <2>4. Layout'
    BY <1>1, <2>1 DEF Layout
  <2> QED BY <1>2, <2>2, <2>3, <2>4, StackStays
<1> QED BY <1>3, <1>4

(* What Pop takes off a stack of k strings. *)
LEMMA FrontOfAppend ==
    ASSUME NEW k \in Nat, NEW f, NEW s, f = [i \in 1 .. k |-> f[i]]
    PROVE  /\ Append(f, s) # <<>>
           /\ Stack!Front(Append(f, s)) = f /\ Stack!Last(Append(f, s)) = s
<1> DEFINE g == Append(f, s)
<1>1. g = [i \in 1 .. k + 1 |-> IF i <= k THEN f[i] ELSE s]
  BY AppendIs
<1> HIDE DEF g
<1>2. Len(g) = k + 1 /\ g[k + 1] = s /\ \A i \in 1 .. k : g[i] = f[i]
  BY <1>1
<1>3. SubSeq(g, 1, k) = [i \in 1 .. k |-> g[i]]
  <2>1. g \in Seq({g[i] : i \in 1 .. k + 1})
    BY <1>1
  <2> QED BY <1>2, <2>1
<1>4. Stack!Front(g) = f /\ Stack!Last(g) = s
  <2>1. Len(g) - 1 = k
    BY <1>2
  <2> QED BY <1>2, <1>3, <2>1 DEF Stack!Front, Stack!Last
<1>5. g # <<>>
  <2>1. Len(<<>>) = 0
    OBVIOUS
  <2> QED BY <1>2, <2>1
<1> QED BY <1>4, <1>5 DEF g

LEMMA PoppingStep ==
    ASSUME EEPROMInv, Layout, popReads \/ popClears
    PROVE  Layout' /\ StackStep
<1>1. op = "pop" /\ push.locating /\ UNCHANGED <<push, write>>
  BY DEF popReads, popClears, Layout
<1>2. op' = "none" => IdleSeen'
  BY IdleIsSeen, PTL
<1>3. CASE popReads
  <2>1. UNCHANGED cells /\ Whole /\ pop.reading
    BY <1>3, ReadingLayout DEF popReads
  <2>2. Whole' /\ Top' = Top /\ StringsBelow(Size)' = StringsBelow(Size)
    BY <2>1, Untouched
  <2>3. Contents = StringsBelow(Size) /\ Used = Top
    BY <1>1, <2>1, IdleIsSeen DEF IdleSeen
  <2>4. CASE op' = "none" /\ pop' = popStatics /\ BlankFrom(0) /\ answer' = Answer("EMPTY", <<>>)
    <3>1. Contents' = Contents /\ Used' = Used /\ Contents = <<>>
      BY <1>2, <2>2, <2>3, <2>4, Emptying DEF Emptied, IdleSeen
    <3>2. StackStep
      BY <2>4, <3>1 DEF StackStep, Stack!SNext, Stack!FindEmpty, Stack!Answer, Answer
    <3>3. Layout'
      BY <1>1, <2>2, <2>4 DEF Layout
    <3> QED BY <3>2, <3>3
  <2>5. CASE op' = "pop" /\ pop'.reading /\ Reading' /\ UNCHANGED answer
    <3>1. Contents' = Contents /\ Used' = Used
      <4>1. IdleSeen'
        BY IdleIsSeen, PTL
      <4> QED BY <2>2, <2>3, <2>5, <4>1 DEF IdleSeen
    <3>2. Layout'
      BY <1>1, <2>5 DEF Layout
    <3> QED BY <2>5, <3>1, <3>2, StackStays
  <2>6. CASE /\ op' = "pop" /\ ~pop'.reading /\ Popping' /\ UNCHANGED answer
             /\ pop'.len = Len(pop'.string) + 1 /\ Packed(pop'.prev)
             /\ Top = pop'.prev + Len(pop'.string) + 1
             /\ StringsBelow(Size) = Append(StringsBelow(pop'.prev), pop'.string)
    <3>1. PICK q, s : q = pop'.prev /\ s = pop'.string
      OBVIOUS
    <3>2. PopStart' = q
      <4>1. q \in Nat /\ Len(s) \in Nat
        <5>1. EEPROMInv'
          BY <1>3, PopStep
        <5>2. /\ pop' \in [addr : Addresses, prev : Addresses, string : Texts,
                           len : 0 .. MaxString + 1, reading : BOOLEAN]
          BY <5>1 DEF EEPROMInv, Shapes
        <5>3. PICK m \in 0 .. MaxString : s \in [1 .. m -> Bytes]
          BY <3>1, <5>2 DEF Texts
        <5>4. Len(s) = m /\ m \in Nat
          BY <5>3, EEPROMAssumption
        <5> QED BY <3>1, <5>2, <5>4, EEPROMAssumption DEF Addresses
      <4>2. PopStart' = q - (Len(s) + 1 - (Len(s) + 1))
        BY <2>6, <3>1 DEF PopStart
      <4> QED BY <4>1, <4>2
    <3>3. StringsBelow(q)' = StringsBelow(q)
      BY <2>1, <2>6, <3>1, Untouched
    <3>4. Contents' = Append(StringsBelow(PopStart)', s) /\ Used' = q + Len(s) + 1
      BY <2>6, <3>1, <3>2 DEF Contents, Used
    <3>5. StringsBelow(PopStart)' = StringsBelow(q)'
      BY <3>2 DEF StringsBelow, Occupied
    <3>6. Layout'
      BY <1>1, <2>6 DEF Layout
    <3> QED BY <2>3, <2>6, <3>1, <3>3, <3>4, <3>5, <3>6, StackStays
  <2> QED BY <1>3, <2>4, <2>5, <2>6, ReadingLayout
<1>4. CASE popClears
  <2>1. PICK b : /\ b = PopStart /\ StringsBelow(b)' = StringsBelow(b)
                 /\ \/ /\ op' = "none" /\ pop' = popStatics
                       /\ answer' = Answer("POPPEDSTRINGOK", pop.string)
                       /\ Packed(b)' /\ BlankFrom(b)'
                    \/ /\ op' = "pop" /\ ~pop'.reading /\ Popping' /\ UNCHANGED answer
                       /\ PopStart' = b /\ pop'.string = pop.string
    BY <1>4, PoppingLayout
  <2>2. PICK s : s = pop.string
    OBVIOUS
  <2>3. Contents = Append(StringsBelow(b), s) /\ Used = b + Len(s) + 1
    BY <1>1, <1>4, <2>1, <2>2 DEF popClears, Contents, Used
  <2>4. b \in Nat /\ Len(s) \in Nat /\ Popping
    <3>1. PICK m \in 0 .. MaxString : s \in [1 .. m -> Bytes]
      BY <2>2 DEF EEPROMInv, Shapes, Texts
    <3>2. Len(s) = m /\ m \in Nat
      BY <3>1, EEPROMAssumption
    <3>3. Popping
      BY <1>1, <1>4 DEF popClears, Layout
    <3> QED BY <2>1, <3>2, <3>3, EEPROMAssumption DEF Popping, Packed
  <2>5. CASE op' = "none"
    <3>1. /\ pop' = popStatics /\ answer' = Answer("POPPEDSTRINGOK", s)
          /\ Packed(b)' /\ BlankFrom(b)'
      BY <2>1, <2>2, <2>5
    <3>2. Whole' /\ Top' = b /\ StringsBelow(Size)' = StringsBelow(b)
      <4>1. Settled'
        BY Settling, PTL
      <4> QED BY <2>1, <3>1, <4>1 DEF Settled
    <3>3. Contents' = StringsBelow(b) /\ Used' = b
      BY <1>2, <2>5, <3>2 DEF IdleSeen
    <3>4. /\ Contents # <<>> /\ Stack!Front(Contents) = StringsBelow(b)
          /\ Stack!Last(Contents) = s
      <4> DEFINE k == Cardinality(Occupied(b))
                 f == StringsBelow(b)
      <4>1. k \in Nat
        <5>1. Occupied(b) \in SUBSET (0 .. Size - 1)
          BY OccupiedIs DEF OccupiedRight
        <5> QED BY <5>1, AllRanked DEF Ranked
      <4>2. f = [i \in 1 .. k |-> f[i]]
        BY DEF StringsBelow
      <4> HIDE DEF k, f
      <4>3. /\ Append(f, s) # <<>> /\ Stack!Front(Append(f, s)) = f
            /\ Stack!Last(Append(f, s)) = s
        BY <4>1, <4>2, FrontOfAppend
      <4> QED BY <2>3, <4>3 DEF f
    <3>5. Used' = Used - (Len(s) + 1)
      BY <2>3, <2>4, <3>3
    <3>6. Stack!Pop
      BY <3>1, <3>3, <3>4, <3>5 DEF Stack!Pop, Stack!Cost, Stack!Answer, Answer
    <3>7. Layout'
      BY <1>1, <2>5, <3>1, <3>2 DEF Layout
    <3> QED BY <3>6, <3>7 DEF StackStep, Stack!SNext
  <2>6. CASE op' = "pop"
    <3>1. ~pop'.reading /\ Popping' /\ UNCHANGED answer /\ PopStart' = b /\ pop'.string = s
      BY <2>1, <2>2, <2>6
    <3>2. StringsBelow(PopStart)' = StringsBelow(b)'
      BY <3>1 DEF StringsBelow, Occupied
    <3>3. Contents' = Append(StringsBelow(b), s) /\ Used' = b + Len(s) + 1
      BY <2>1, <2>6, <3>1, <3>2 DEF Contents, Used
    <3>4. Layout'
      BY <1>1, <2>6, <3>1 DEF Layout
    <3> QED BY <2>3, <3>1, <3>3, <3>4, StackStays
  <2> QED BY <2>1, <2>5, <2>6
<1> QED BY <1>3, <1>4

LEMMA PushingStep ==
    ASSUME EEPROMInv, Layout, pushRefused \/ pushWaits \/ pushWrites
    PROVE  Layout' /\ StackStep
<1>1. /\ op = "push" /\ pop = popStatics /\ UNCHANGED <<clear, pop>>
      /\ ~(push.locating /\ Endless)
  BY DEF pushRefused, pushWaits, pushWrites, Layout
<1>2. /\ Placed(Located, Started.written)
      /\ Contents = StringsBelow(Located) /\ Used = Located
      /\ push.locating => Whole
      /\ ~push.locating => Fits(Located)
  BY <1>1, PushPlace
<1>3. arg \in Strings /\ Len(arg) \in Nat /\ Located \in Nat
  <2>1. arg \in Strings
    BY <1>1 DEF EEPROMInv, Shapes
  <2>2. Len(arg) \in 1 .. MaxString
    BY <2>1, EEPROMAssumption
  <2>3. Located \in Nat
    BY <1>2, EEPROMAssumption DEF Placed, Packed
  <2> QED BY <2>1, <2>2, <2>3, EEPROMAssumption
<1>4. IdleSeen'
  BY IdleIsSeen, PTL
<1>5. CASE pushRefused
  <2>1. /\ ~Fits(Located) /\ op' = "none" /\ push'.locating /\ UNCHANGED cells
        /\ answer' = Answer("NOMEMORY", <<>>) /\ Whole /\ push.locating
    BY <1>2, <1>5 DEF pushRefused, Finish
  <2>2. Whole' /\ Top' = Top /\ StringsBelow(Size)' = StringsBelow(Size)
    BY <2>1, Untouched
  <2>3. Contents' = Contents /\ Used' = Used
    BY <1>1, <1>4, <2>1, <2>2, IdleIsSeen DEF IdleSeen
  <2>4. Used + (Len(arg) + 1) > Size
    BY <1>2, <1>3, <2>1, EEPROMAssumption DEF Fits
  <2>5. Stack!Refuse(arg)
    BY <2>1, <2>3, <2>4 DEF Stack!Refuse, Stack!Cost, Stack!Answer, Answer
  <2>6. Layout'
    BY <1>1, <2>1, <2>2 DEF Layout
  <2> QED BY <1>3, <2>5, <2>6 DEF StackStep, Stack!SNext
<1>6. CASE pushWaits
  <2>1. /\ op' = "push" /\ push' = [addr |-> Located, locating |-> FALSE] /\ write' = Started
        /\ UNCHANGED <<cells, arg, answer>> /\ Fits(Located)
    BY <1>1, <1>6 DEF pushWaits, GoOn
  <2>2. PICK A : A = Located
    OBVIOUS
  <2>3. Packed(A)' /\ StringsBelow(A)' = StringsBelow(A)
    BY <1>2, <2>1, <2>2, Untouched DEF Placed
  <2>4. push'.addr = A /\ ~push'.locating
    BY <2>1, <2>2
  <2>5. write'.busy
    BY <2>1 DEF Started
  <2>6. Pushing'
    <3>1. \A c \in A .. Size - 1 :
             cells'[c] = IF c - A < write'.written /\ c - A < Len(arg')
                         THEN arg'[c - A + 1] ELSE 0
      BY <1>2, <2>1, <2>2 DEF Placed
    <3> QED BY <2>3, <2>4, <2>5, <3>1 DEF Pushing
  <2>7. Contents' = StringsBelow(push.addr)' /\ Used' = A
    BY <2>1, <2>4 DEF Contents, Used
  <2>8. StringsBelow(push.addr)' = StringsBelow(A)'
    BY <2>4 DEF StringsBelow, Occupied
  <2>9. Layout'
    BY <1>1, <2>1, <2>4, <2>6 DEF Layout
  <2> QED BY <1>2, <2>1, <2>2, <2>3, <2>7, <2>8, <2>9, StackStays
<1>7. CASE pushWrites
  <2>1. PICK A, B : /\ A = Located /\ Fits(A) /\ push'.addr = A /\ B = A + Len(arg) + 1
                    /\ StringsBelow(A)' = StringsBelow(A)
                    /\ \/ /\ op' = "none" /\ push'.locating
                          /\ answer' = Answer("PUSHOK", <<>>)
                          /\ Packed(B)' /\ BlankFrom(B)'
                          /\ StringsBelow(B)' = Append(StringsBelow(A), arg)
                       \/ /\ op' = "push" /\ ~push'.locating /\ Pushing'
                          /\ UNCHANGED <<arg, answer>>
    BY <1>7, WritingLayout
  <2>2. CASE op' = "none"
    <3>1. /\ push'.locating /\ answer' = Answer("PUSHOK", <<>>) /\ Packed(B)' /\ BlankFrom(B)'
          /\ StringsBelow(B)' = Append(StringsBelow(A), arg)
      BY <2>1, <2>2
    <3>2. Whole' /\ Top' = B /\ StringsBelow(Size)' = StringsBelow(B)'
      <4>1. Settled'
        BY Settling, PTL
      <4> QED BY <3>1, <4>1 DEF Settled
    <3>3. Contents' = Append(Contents, arg) /\ Used' = Used + (Len(arg) + 1)
      <4>1. Used' = B /\ B = Used + (Len(arg) + 1)
        BY <1>2, <1>3, <1>4, <2>1, <2>2, <3>2 DEF IdleSeen
      <4> QED BY <1>2, <1>4, <2>1, <2>2, <3>1, <3>2, <4>1 DEF IdleSeen
    <3>4. Used + (Len(arg) + 1) <= Size
      BY <1>2, <1>3, <2>1, EEPROMAssumption DEF Fits
    <3>5. Stack!Push(arg)
      BY <3>1, <3>3, <3>4 DEF Stack!Push, Stack!Cost, Stack!Answer, Answer
    <3>6. Layout'
      BY <1>1, <2>2, <3>1, <3>2 DEF Layout
    <3> QED BY <1>3, <3>5, <3>6 DEF StackStep, Stack!SNext
  <2>3. CASE op' = "push"
    <3>1. ~push'.locating /\ Pushing' /\ UNCHANGED <<arg, answer>>
      BY <2>1, <2>3
    <3>2. Contents' = StringsBelow(push.addr)' /\ Used' = A
      BY <2>1, <2>3, <3>1 DEF Contents, Used
    <3>3. StringsBelow(push.addr)' = StringsBelow(A)'
      BY <2>1 DEF StringsBelow, Occupied
    <3>4. Layout'
      BY <1>1, <2>3, <3>1 DEF Layout
    <3> QED BY <1>2, <2>1, <3>1, <3>2, <3>3, <3>4, StackStays
  <2> QED BY <2>1, <2>2, <2>3
<1> QED BY <1>5, <1>6, <1>7

LEMMA LayoutStep ==
    ASSUME RestartsSpareErasing
    PROVE  EEPROMInv /\ Layout /\ [Next]_vars => Layout' /\ StackStep
<1> SUFFICES ASSUME EEPROMInv, Layout, [Next]_vars PROVE Layout' /\ StackStep
  OBVIOUS
<1>1. CASE UNCHANGED vars
  <2>1. /\ UNCHANGED <<cells, op, arg, out, answer, clear, pop, push, write>>
    BY <1>1 DEF vars, statics
  <2>2. Contents' = Contents /\ Used' = Used
    BY <2>1 DEF Contents, Used, PopStart, Top, End, Endless, Ends, Starts, At, StringsBelow,
                Occupied, readCStringFromEEPROM, LengthAt
  <2>3. Top' = Top /\ Endless' = Endless
    BY <2>1 DEF Top, End, Endless, Ends, Starts, At
  <2>4. /\ Whole' = Whole /\ Pushing' = Pushing
        /\ (Packed(PopStart))' = Packed(PopStart) /\ PopStart' = PopStart
    BY <2>1, <2>3, Zenon DEF Whole, Packed, BlankFrom, Pushing, PopStart
  <2>5. Clearing' = Clearing
    BY <2>1, ZenonT(30) DEF Clearing, ClearAddr, ClearEnd, BlankFrom, Readable
  <2>6. Reading' = Reading
    <3>1. /\ (Packed(pop.addr % Size))' = Packed(pop.addr % Size)
          /\ (Packed(pop.prev))' = Packed(pop.prev)
      BY <2>1, Zenon DEF Packed
    <3>2. (readCStringFromEEPROM(pop.prev))' = readCStringFromEEPROM(pop.prev)
      BY <2>1 DEF readCStringFromEEPROM, LengthAt, At
    <3> QED BY <2>1, <2>3, <2>4, <3>1, <3>2 DEF Reading
  <2>7. Popping' = Popping
    BY <2>1, <2>4, Zenon DEF Popping
  <2>8. Layout'
    BY <2>1, <2>4, <2>5, <2>6, <2>7 DEF Layout
  <2> QED BY <2>1, <2>2, <2>8, StackStays
<1>2. CASE Next
  BY <1>2, ClearingStep, PoppingStep, PushingStep, StartLayout, RestartLayout DEF Next
<1> QED BY <1>1, <1>2

(* Layout holds in every state. *)
THEOREM LayoutInvariant ==
    ASSUME RestartsSpareErasing
    PROVE  Spec => []Layout
<1>1. EEPROMInv /\ Layout /\ [Next]_vars => Layout'
  BY LayoutStep
<1>2. Init => Layout
  BY LayoutInit
<1>3. Spec => []EEPROMInv
  BY EEPROMInvariant
<1> QED BY <1>1, <1>2, <1>3, PTL DEF Spec

THEOREM NothingBehind ==
    ASSUME RestartsSpareErasing
    PROVE  Spec => []BlankBehind
<1>1. Layout => BlankBehind
  BY DEF Layout, BlankBehind, Whole, BlankFrom, Top
<1> QED BY <1>1, LayoutInvariant, PTL

THEOREM StackImplemented ==
    ASSUME RestartsSpareErasing
    PROVE  Spec => ImplementsStack
<1>1. Init => Stack!SInit
  BY LayoutInit
<1>2. EEPROMInv /\ Layout /\ [Next]_vars => [Stack!SNext]_(Stack!svars)
  BY LayoutStep DEF StackStep
<1>3. Spec => []EEPROMInv /\ []Layout
  BY EEPROMInvariant, LayoutInvariant
<1> QED BY <1>1, <1>2, <1>3, PTL DEF Spec, ImplementsStack, Stack!SSpec

=============================================================================
