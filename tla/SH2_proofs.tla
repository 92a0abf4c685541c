----------------------------- MODULE SH2_proofs -----------------------------
(***************************************************************************)
(* Proofs about the driver of the inertial sensor and its two clients.     *)
(* The first part says what servicing the transport leaves of the driver,  *)
(* whatever reports a payload holds; the next ones what is on its way      *)
(* between driver and hub, and how the transfers on the wire are numbered, *)
(* for any client (SH2Client).  The last ones are about the program's own  *)
(* client (IMUManager): what it asked of the hub, and what it counts.      *)
(***************************************************************************)
EXTENDS SH2Client, IMUManager, WellFoundedInduction, FiniteSetTheorems, TLAPS

-----------------------------------------------------------------------------
(* Sequences of anything.                                                    *)

Sequence(s) == \E S : s \in Seq(S)

LEMMA SequenceFacts ==
    ASSUME NEW s, Sequence(s)
    PROVE  Len(s) \in Nat /\ DOMAIN s = 1 .. Len(s) /\ (s # <<>> <=> Len(s) > 0)
  BY DEF Sequence

LEMMA ConcatFacts ==
    ASSUME NEW s, NEW t, Sequence(s), Sequence(t)
    PROVE  /\ Sequence(s \o t) /\ Len(s \o t) = Len(s) + Len(t)
           /\ \A i \in 1 .. Len(s) : (s \o t)[i] = s[i]
           /\ \A i \in 1 .. Len(t) : (s \o t)[Len(s) + i] = t[i]
<1> PICK S : s \in Seq(S)
  BY DEF Sequence
<1> PICK T : t \in Seq(T)
  BY DEF Sequence
<1>1. s \in Seq(S \union T) /\ t \in Seq(S \union T)
  OBVIOUS
<1>2. s \o t \in Seq(S \union T) /\ Len(s \o t) = Len(s) + Len(t)
  BY <1>1
<1>3. \A i \in 1 .. Len(s) : (s \o t)[i] = s[i]
  BY <1>1
<1>4. \A i \in 1 .. Len(t) : (s \o t)[Len(s) + i] = t[i]
  BY <1>1
<1> QED BY <1>2, <1>3, <1>4 DEF Sequence

LEMMA AppendFacts ==
    ASSUME NEW s, NEW e, Sequence(s)
    PROVE  /\ Sequence(Append(s, e)) /\ Len(Append(s, e)) = Len(s) + 1
           /\ \A i \in 1 .. Len(s) : Append(s, e)[i] = s[i]
           /\ Append(s, e)[Len(s) + 1] = e
<1> PICK S : s \in Seq(S)
  BY DEF Sequence
<1>1. s \in Seq(S \union {e})
  OBVIOUS
<1> QED BY <1>1 DEF Sequence

LEMMA TailFacts ==
    ASSUME NEW s, Sequence(s), s # <<>>
    PROVE  /\ Sequence(Tail(s)) /\ Len(Tail(s)) = Len(s) - 1 /\ Len(s) > 0
           /\ Head(s) = s[1]
           /\ \A i \in 1 .. Len(s) - 1 : Tail(s)[i] = s[i + 1]
  BY DEF Sequence

LEMMA RowFacts ==
    ASSUME NEW n \in Nat, NEW f, f = [i \in 1 .. n |-> f[i]]
    PROVE  Sequence(f) /\ Len(f) = n
<1> DEFINE S == {f[i] : i \in 1 .. n}
<1>1. f \in [1 .. n -> S]
  OBVIOUS
<1> HIDE DEF S
<1>2. f \in Seq(S) /\ Len(f) = n
  BY <1>1
<1> QED BY <1>2 DEF Sequence

LEMMA SingleFacts ==
    ASSUME NEW e
    PROVE  Sequence(<<e>>) /\ Len(<<e>>) = 1 /\ <<e>>[1] = e
<1>1. <<e>> \in Seq({e})
  OBVIOUS
<1> QED BY <1>1 DEF Sequence

LEMMA EmptyFacts == Sequence(<<>>) /\ Len(<<>>) = 0
<1>1. <<>> \in Seq({})
  OBVIOUS
<1> QED BY <1>1 DEF Sequence

(* A set of numbers has a least element: how the proofs go along a payload.  *)
LEMMA Least ==
    ASSUME NEW S \in SUBSET Nat, S # {}
    PROVE  \E m \in S : \A k \in S : ~(k < m)
<1> DEFINE R == OpToRel(<, Nat)
<1>1. IsWellFoundedOn(R, Nat)
  BY NatLessThanWellFounded
<1>2. \A x, y \in Nat : <<x, y>> \in R <=> x < y
  BY DEF OpToRel
<1> HIDE DEF R
<1>3. \E x \in S : \A y \in S : ~(<<y, x>> \in R)
  BY <1>1, WFMin
<1> QED BY <1>2, <1>3

-----------------------------------------------------------------------------
(* What the driver does with the reports of a payload.                       *)

Driver1(l) ==
    l \in [controlChan : {l.controlChan}, resetComplete : {l.resetComplete},
           pOp : {l.pOp}, opStatus : {l.opStatus}, of : {l.of}, sensor : {l.sensor},
           got : {l.got}, words : {l.words}, heard : {l.heard}, cmd : {l.cmd},
           nextCmdSeq : {l.nextCmdSeq}, out : {l.out}, copies : {l.copies},
           pShtp : {l.pShtp}, inUse : {l.inUse}, shtp : {l.shtp},
           resetSeen : {l.resetSeen}, event : {l.event}, hasValue : {l.hasValue},
           broken : {l.broken}]

(* The record of the driver, and what an operation that is in progress is.   *)
DriverOK(l) ==
    /\ Driver1(l)
    /\ l.copies \in Nat
    /\ l.pOp \in Ops \union {"none"}

(* A request that was being written still is, or one of the same call is     *)
(* written in its place.                                                     *)
KeepsWriting(l, m) ==
    \/ m.copies = l.copies /\ m.out = l.out
    \/ m.copies > l.copies /\ m.out.of = l.of /\ m.out.id = "FRS_WRITE_DATA_REQ"

(* m is what reports make of l.                                              *)
Kept(l, m) ==
    /\ DriverOK(m)
    /\ m.of = l.of /\ m.cmd = l.cmd /\ m.nextCmdSeq = l.nextCmdSeq
    /\ m.pOp \in {l.pOp, "none"}
    /\ l.pOp = "none" => m.opStatus = l.opStatus /\ m.copies = l.copies
    /\ KeepsWriting(l, m)

(* What a command hears: reports that have its number.                       *)
Response(l, r) == r.id = "COMMAND_RESP" /\ r.key = l.cmd

HearsOwn(l, m, R) ==
    l.pOp \in CommandOps \union {"none"} =>
        \A h \in m.heard : h \in l.heard \/ \E r \in R : Response(l, r) /\ h[1] = r.of

After(l, m, R) == Kept(l, m) /\ m.shtp = l.shtp /\ HearsOwn(l, m, R)

LEMMA KeptSelf == ASSUME NEW l, DriverOK(l), NEW R PROVE After(l, l, R)
  BY DEF After, Kept, KeepsWriting, HearsOwn

LEMMA AfterBoth ==
    ASSUME NEW l, NEW m, NEW n, NEW R, DriverOK(l), After(l, m, R), After(m, n, R)
    PROVE  After(l, n, R)
<1>1. Kept(l, n)
  BY DEF After, Kept, KeepsWriting, DriverOK
<1>2. HearsOwn(l, n, R)
  BY DEF After, Kept, HearsOwn, Response
<1> QED BY <1>1, <1>2 DEF After

LEMMA CompleteAfter ==
    ASSUME NEW l, NEW status, NEW R, DriverOK(l), l.pOp # "none"
    PROVE  After(l, Complete(l, status), R)
<1> DEFINE m == Complete(l, status)
<1>1. m.heard = l.heard /\ m.shtp = l.shtp
  BY DEF Complete, DriverOK, Driver1
<1>2. /\ Driver1(m) /\ m.copies = l.copies /\ m.out = l.out /\ m.pOp = "none"
      /\ m.of = l.of /\ m.cmd = l.cmd /\ m.nextCmdSeq = l.nextCmdSeq
      /\ l.pOp = "none" => m.opStatus = status
  BY DEF Complete, DriverOK, Driver1
<1>3. After(l, m, R)
  <2> HIDE DEF m
  <2>1. Kept(l, m)
    BY <1>2 DEF Kept, KeepsWriting, DriverOK
  <2> QED BY <1>1, <2>1 DEF After, HearsOwn
<1> QED BY <1>3

LEMMA HearAfter ==
    ASSUME NEW l, NEW r, DriverOK(l),
           l.pOp \in CommandOps \union {"none"} => Response(l, r)
    PROVE  After(l, Hear(l, r), {r})
<1> DEFINE m == Hear(l, r)
<1>1. m.heard = l.heard \union {<<r.of, r.n>>}
  BY DEF Hear, DriverOK, Driver1
<1>2. HearsOwn(l, m, {r})
  BY <1>1 DEF HearsOwn
<1>3. Kept(l, m) /\ m.shtp = l.shtp
  BY DEF Hear, Kept, KeepsWriting, DriverOK, Driver1
<1> QED BY <1>2, <1>3 DEF After

LEMMA HeardLast ==
    ASSUME NEW l, NEW r, NEW status, DriverOK(l),
           l.pOp # "none", l.pOp \in CommandOps => Response(l, r)
    PROVE  After(l, Complete(Hear(l, r), status), {r})
<1>1. After(l, Hear(l, r), {r})
  BY HearAfter
<1>2. After(Hear(l, r), Complete(Hear(l, r), status), {r})
  <2>1. Hear(l, r).pOp = l.pOp
    BY DEF Hear, DriverOK, Driver1
  <2> QED BY <1>1, <2>1, CompleteAfter DEF After, Kept
<1> QED BY <1>1, <1>2, AfterBoth

LEMMA ResultAfter ==
    ASSUME NEW l, NEW r, NEW ok, DriverOK(l), l.pOp # "none"
    PROVE  After(l, resultRx(l, r, ok), {r})
<1>1. CASE wrongResponse(l, r)
  BY <1>1, KeptSelf DEF resultRx
<1>2. CASE ~wrongResponse(l, r)
  <2>1. Response(l, r)
    BY <1>2 DEF wrongResponse, Response
  <2>2. resultRx(l, r, ok) = Complete(Hear(l, r), IF ok THEN "SH2_OK" ELSE "SH2_ERR_HUB")
    BY <1>2 DEF resultRx
  <2> QED BY <2>1, <2>2, HeardLast
<1> QED BY <1>1, <1>2

LEMMA SeriesAfter ==
    ASSUME NEW l, NEW r, DriverOK(l), l.pOp # "none"
    PROVE  After(l, seriesRx(l, r), {r})
<1>1. CASE wrongResponse(l, r)
  BY <1>1, KeptSelf DEF seriesRx
<1>2. CASE ~wrongResponse(l, r)
  <2>1. Response(l, r)
    BY <1>2 DEF wrongResponse, Response
  <2>2. seriesRx(l, r) = IF r.last THEN Complete(Hear(l, r), "SH2_OK") ELSE Hear(l, r)
    BY <1>2 DEF seriesRx
  <2> QED BY <2>1, <2>2, HeardLast, HearAfter
<1> QED BY <1>1, <1>2

(* The operations that are no commands hear what they like.                  *)
LEMMA ConfigAfter ==
    ASSUME NEW l, NEW r, DriverOK(l), l.pOp \notin CommandOps \union {"none"}
    PROVE  /\ After(l, getProdIdRx(l, r), {r})
           /\ After(l, getSensorConfigRx(l, r), {r})
           /\ After(l, forceFlushRx(l, r), {r})
           /\ After(l, getFrsRx(l, r), {r})
<1>1. After(l, getProdIdRx(l, r), {r})
  BY DEF getProdIdRx, Complete, Hear, After, Kept, KeepsWriting, HearsOwn, DriverOK, Driver1
<1>2. After(l, getSensorConfigRx(l, r), {r})
  BY DEF getSensorConfigRx, Complete, Hear, After, Kept, KeepsWriting, HearsOwn, DriverOK,
         Driver1
<1>3. After(l, forceFlushRx(l, r), {r})
  BY DEF forceFlushRx, Complete, Hear, After, Kept, KeepsWriting, HearsOwn, DriverOK, Driver1
<1>4. After(l, getFrsRx(l, r), {r})
  BY ZenonT(30) DEF getFrsRx, Complete, Hear, After, Kept, KeepsWriting, HearsOwn, DriverOK, Driver1
<1> QED BY <1>1, <1>2, <1>3, <1>4

ReportOK(r) == r.id = "FRS_WRITE_RESP" => r.key \in {"completed", "more", "error"}

LEMMA SetFrsAfter ==
    ASSUME NEW l, NEW r, DriverOK(l), l.pOp \notin CommandOps \union {"none"}, ReportOK(r)
    PROVE  After(l, setFrsRx(l, r), {r})
<1>1. CASE r.id # "FRS_WRITE_RESP"
  BY <1>1, KeptSelf DEF setFrsRx
<1>2. CASE r.id = "FRS_WRITE_RESP" /\ r.key = "completed"
  <2>1. setFrsRx(l, r) = Complete(Hear(l, r), "SH2_OK")
    BY <1>2 DEF setFrsRx
  <2> QED BY <2>1, ZenonT(30) DEF Complete, Hear, After, Kept, KeepsWriting, HearsOwn, DriverOK, Driver1
<1>3. CASE r.id = "FRS_WRITE_RESP" /\ r.key = "error"
  <2>1. setFrsRx(l, r) = Complete(l, "SH2_ERR_HUB")
    BY <1>3 DEF setFrsRx
  <2> QED BY <2>1 DEF Complete, Hear, After, Kept, KeepsWriting, HearsOwn, DriverOK, Driver1
<1>4. CASE r.id = "FRS_WRITE_RESP" /\ r.key = "more"
  <2>1. setFrsRx(l, r) =
           IF l.got < FrsWords
           THEN sendCtrl([l EXCEPT !.got = @ + 1],
                         Request("FRS_WRITE_DATA_REQ", l.of, ToString(l.got)))
           ELSE l
    BY <1>4 DEF setFrsRx
  <2> HIDE DEF ReportOK
  <2> DEFINE request == Request("FRS_WRITE_DATA_REQ", l.of, ToString(l.got))
             m == [l EXCEPT !.got = @ + 1]
  <2>2. request.of = l.of /\ request.id = "FRS_WRITE_DATA_REQ"
    BY DEF Request
  <2>3. After(l, m, {r}) /\ m.of = l.of
    BY DEF After, Kept, KeepsWriting, HearsOwn, DriverOK, Driver1
  <2>4. After(m, sendCtrl(m, request), {r})
    <3> DEFINE sent == [m EXCEPT !.out = request, !.copies = @ + 1]
    <3> HIDE DEF request, m
    <3>1. /\ DriverOK(m) /\ m.copies \in Nat /\ l.pOp = m.pOp
          /\ m.pOp \notin CommandOps \union {"none"}
      <4>1. m.pOp = l.pOp
        BY DEF m, DriverOK, Driver1
      <4> QED BY <2>3, <4>1 DEF After, Kept, DriverOK
    <3>2. sent.copies = m.copies + 1 /\ sent.out = request /\ sent.heard = m.heard
      BY <3>1 DEF DriverOK, Driver1
    <3>3. DriverOK(sent)
      <4>1. Driver1(sent) /\ sent.pOp = m.pOp
        BY <3>1 DEF DriverOK, Driver1
      <4> HIDE DEF sent
      <4> QED BY <3>1, <3>2, <4>1 DEF DriverOK
    <3>4. Kept(m, sent)
      BY <2>2, <2>3, <3>1, <3>2, <3>3 DEF Kept, KeepsWriting, DriverOK, Driver1
    <3>5. After(m, sent, {r})
      BY <3>1, <3>4 DEF After, HearsOwn, DriverOK, Driver1
    <3>6. After(m, Complete(m, "SH2_ERR_BAD_PARAM"), {r})
      BY <3>1, CompleteAfter
    <3> QED BY <3>5, <3>6 DEF sendCtrl
  <2> QED BY <2>1, <2>3, <2>4, AfterBoth, KeptSelf
<1> QED BY <1>1, <1>2, <1>3, <1>4 DEF ReportOK

LEMMA OpAfter ==
    ASSUME NEW l, NEW r, DriverOK(l), ReportOK(r)
    PROVE  After(l, opRx(l, r), {r})
<1>1. CASE l.pOp \in SendOnly \union {"none"}
  BY <1>1, KeptSelf DEF opRx, SendOnly
<1>2. CASE l.pOp \in CommandOps \ SendOnly
  BY <1>2, ResultAfter, SeriesAfter
     DEF opRx, CommandOps, SendOnly, getErrorsRx, getCountsRx, reinitRx, saveDcdNowRx,
         getOscTypeRx, setCalConfigRx, getCalConfigRx, startCalRx, finishCalRx
<1>3. CASE l.pOp \in {"getProdIds", "getSensorConfig", "getFrs", "setFrs", "flush"}
  <2>1. l.pOp \notin CommandOps \union {"none"}
    BY <1>3 DEF CommandOps
  <2>2. /\ l.pOp = "getProdIds" => opRx(l, r) = getProdIdRx(l, r)
        /\ l.pOp = "getSensorConfig" => opRx(l, r) = getSensorConfigRx(l, r)
        /\ l.pOp = "getFrs" => opRx(l, r) = getFrsRx(l, r)
        /\ l.pOp = "setFrs" => opRx(l, r) = setFrsRx(l, r)
        /\ l.pOp = "flush" => opRx(l, r) = forceFlushRx(l, r)
    BY DEF opRx, SendOnly
  <2> QED BY <1>3, <2>1, <2>2, ConfigAfter, SetFrsAfter
<1> QED BY <1>1, <1>2, <1>3 DEF DriverOK, Ops, SendOnly

LEMMA InputAfter ==
    ASSUME NEW l, NEW r, DriverOK(l), ReportOK(r)
    PROVE  After(l, inputRx(l, r), {r})
<1>1. CASE r.id = "FLUSH_COMPLETED"
  BY <1>1, OpAfter DEF inputRx
<1>2. CASE r.id # "FLUSH_COMPLETED" /\ l.hasValue
  <2>1. inputRx(l, r) = [l EXCEPT !.event = r]
    BY <1>2 DEF inputRx
  <2> QED BY <2>1 DEF After, Kept, KeepsWriting, HearsOwn, DriverOK, Driver1
<1>3. CASE r.id # "FLUSH_COMPLETED" /\ ~l.hasValue
  <2>1. inputRx(l, r) = [l EXCEPT !.broken = TRUE]
    BY <1>3 DEF inputRx
  <2> QED BY <2>1, ZenonT(30) DEF After, Kept, KeepsWriting, HearsOwn, DriverOK, Driver1
<1> QED BY <1>1, <1>2, <1>3

(* The reports of a payload are handed on along a function of how many have  *)
(* been: there is one.                                                       *)
Receive(chan, m, r) == IF chan = "control" THEN opRx(m, r) ELSE inputRx(m, r)

HandsOn(l, chan, payload, f, k) ==
    f = [i \in 0 .. k |-> IF i = 0 THEN l ELSE Receive(chan, f[i - 1], payload[i])]

LEMMA PayloadHanded ==
    ASSUME NEW l, NEW chan, NEW payload, Sequence(payload)
    PROVE  \E f : /\ HandsOn(l, chan, payload, f, Len(payload))
                  /\ handPayload(l, chan, payload) = f[Len(payload)]
<1> DEFINE n == Len(payload)
           Gives(f, k) ==
             f = [i \in 0 .. k |-> IF i = 0 THEN l ELSE Receive(chan, f[i - 1], payload[i])]
           f0 == CHOOSE f : Gives(f, n)
<1>1. n \in Nat
  BY SequenceFacts
<1>2. \E f : Gives(f, n)
  <2> DEFINE Missing == {k \in 0 .. n : ~\E g : Gives(g, k)}
  <2> SUFFICES ASSUME Missing # {} PROVE FALSE
    BY <1>1
  <2>1. Missing \in SUBSET Nat
    BY <1>1
  <2>2. PICK k \in Missing : \A j \in Missing : ~(j < k)
    BY <2>1, Least
  <2>3. k # 0
    <3>1. Gives([i \in 0 .. 0 |-> l], 0)
      OBVIOUS
    <3> QED BY <2>2, <3>1
  <2>4. k \in Nat /\ k - 1 \in 0 .. n /\ k - 1 < k
    BY <1>1, <2>2, <2>3
  <2>5. PICK g : Gives(g, k - 1)
    BY <2>2, <2>4
  <2> DEFINE longer == [i \in 0 .. k |-> IF i = k THEN Receive(chan, g[k - 1], payload[k])
                                                  ELSE g[i]]
  <2>6. ASSUME NEW i \in 0 .. k
        PROVE  longer[i] = IF i = 0 THEN l ELSE Receive(chan, longer[i - 1], payload[i])
    <3>1. CASE i = k
      <4>1. k - 1 \in 0 .. k /\ k - 1 # k
        BY <2>4
      <4>2. longer[k - 1] = g[k - 1]
        BY <4>1
      <4> QED BY <2>3, <3>1, <4>2
    <3>2. CASE i # k
      <4>1. i \in 0 .. k - 1 /\ (i # 0 => i - 1 \in 0 .. k /\ i - 1 # k)
        BY <2>4, <3>2
      <4>2. g[i] = IF i = 0 THEN l ELSE Receive(chan, g[i - 1], payload[i])
        BY <2>5, <4>1
      <4>3. i # 0 => longer[i - 1] = g[i - 1]
        BY <4>1
      <4> QED BY <3>2, <4>2, <4>3
    <3> QED BY <3>1, <3>2
  <2>7. Gives(longer, k)
    BY <2>6
  <2> QED BY <2>2, <2>7
<1>3. Gives(f0, n)
  BY <1>2
<1>4. handPayload(l, chan, payload) = f0[n]
  BY DEF handPayload, Receive
<1>5. HandsOn(l, chan, payload, f0, n)
  BY <1>3 DEF HandsOn
<1> HIDE DEF f0
<1> QED BY <1>4, <1>5

LEMMA PayloadAfter ==
    ASSUME NEW l, NEW chan, NEW payload, DriverOK(l), Sequence(payload),
           \A i \in 1 .. Len(payload) : ReportOK(payload[i])
    PROVE  After(l, handPayload(l, chan, payload), {payload[i] : i \in 1 .. Len(payload)})
<1> DEFINE n == Len(payload)
           R == {payload[i] : i \in 1 .. n}
<1>1. n \in Nat
  BY SequenceFacts
<1>2. PICK f : HandsOn(l, chan, payload, f, n) /\ handPayload(l, chan, payload) = f[n]
  BY PayloadHanded
<1>3. ASSUME NEW m, After(l, m, R), NEW i \in 1 .. n
      PROVE  After(l, Receive(chan, m, payload[i]), R)
  <2> DEFINE received == Receive(chan, m, payload[i])
  <2>1. DriverOK(m) /\ ReportOK(payload[i]) /\ payload[i] \in R
    BY <1>3 DEF After, Kept
  <2>2. After(m, received, {payload[i]})
    BY <2>1, OpAfter, InputAfter DEF Receive
  <2>3. After(m, received, R)
    <3> HIDE DEF received, R
    <3> QED BY <2>1, <2>2 DEF After, HearsOwn
  <2> HIDE DEF received, R
  <2>4. After(l, received, R)
    BY <1>3, <2>1, <2>3, AfterBoth
  <2> QED BY <2>4 DEF received
<1> HIDE DEF R
<1>4. f[0] = l /\ \A i \in 1 .. n : f[i] = Receive(chan, f[i - 1], payload[i])
  BY <1>1, <1>2 DEF HandsOn
<1>5. \A i \in 0 .. n : After(l, f[i], R)
  <2> DEFINE Wrong == {i \in 0 .. n : ~After(l, f[i], R)}
  <2> SUFFICES ASSUME Wrong # {} PROVE FALSE
    OBVIOUS
  <2>1. Wrong \in SUBSET Nat
    BY <1>1
  <2>2. PICK k \in Wrong : \A j \in Wrong : ~(j < k)
    BY <2>1, Least
  <2>3. k # 0
    BY <1>4, <2>2, KeptSelf
  <2>4. k \in 1 .. n /\ k - 1 \in 0 .. n /\ k - 1 < k
    BY <1>1, <2>2, <2>3
  <2>5. After(l, f[k - 1], R)
    BY <2>2, <2>4
  <2> QED BY <1>3, <1>4, <2>2, <2>4, <2>5
<1>6. n \in 0 .. n
  BY <1>1
<1>7. After(l, handPayload(l, chan, payload), R)
  BY <1>2, <1>5, <1>6
<1> QED BY <1>7 DEF R

-----------------------------------------------------------------------------
(* Servicing the transport.                                                  *)

Numbers == 0 .. SeqModulus - 1
Succ(n) == (n + 1) % SeqModulus

PayloadOK(p) == Sequence(p) /\ \A i \in 1 .. Len(p) : ReportOK(p[i])

TransferOK(t) ==
    t.chan \in Channels /\ t.seq \in Numbers /\ t.rest \in Nat /\ PayloadOK(t.part)

ShtpOK(s) ==
    /\ s \in [known : SUBSET Channels, nextInSeq : [Channels -> Numbers], inChan : Channels,
              inPayload : {s.inPayload}, inRemaining : Nat]
    /\ PayloadOK(s.inPayload)

ReportsOf(p) == {p[i] : i \in 1 .. Len(p)}

LEMMA SuccNumber == ASSUME NEW n \in Numbers PROVE Succ(n) \in Numbers
  BY SeqAssumption DEF Numbers, Succ

LEMMA ConcatPayload ==
    ASSUME NEW p, NEW q, PayloadOK(p), PayloadOK(q)
    PROVE  PayloadOK(p \o q) /\ ReportsOf(p \o q) = ReportsOf(p) \union ReportsOf(q)
<1>1. /\ Sequence(p) /\ Sequence(q) /\ Len(p) \in Nat /\ Len(q) \in Nat
      /\ Sequence(p \o q) /\ Len(p \o q) = Len(p) + Len(q)
      /\ \A i \in 1 .. Len(p) : (p \o q)[i] = p[i]
      /\ \A i \in 1 .. Len(q) : (p \o q)[Len(p) + i] = q[i]
  BY SequenceFacts, ConcatFacts DEF PayloadOK
<1>2. ASSUME NEW i \in 1 .. Len(p) + Len(q)
      PROVE  \/ i \in 1 .. Len(p) /\ (p \o q)[i] = p[i]
             \/ i - Len(p) \in 1 .. Len(q) /\ (p \o q)[i] = q[i - Len(p)]
  <2>1. CASE i <= Len(p)
    BY <1>1, <2>1
  <2>2. CASE i > Len(p)
    <3>1. i - Len(p) \in 1 .. Len(q) /\ Len(p) + (i - Len(p)) = i
      BY <1>1, <2>2
    <3> QED BY <1>1, <3>1
  <2> QED BY <1>1, <2>1, <2>2
<1>3. PayloadOK(p \o q)
  BY <1>1, <1>2 DEF PayloadOK
<1>4. ReportsOf(p \o q) \subseteq ReportsOf(p) \union ReportsOf(q)
  BY <1>1, <1>2 DEF ReportsOf
<1>5. ASSUME NEW i \in 1 .. Len(p) PROVE p[i] \in ReportsOf(p \o q)
  <2>1. i \in 1 .. Len(p) + Len(q)
    BY <1>1
  <2> QED BY <1>1, <2>1 DEF ReportsOf
<1>6. ASSUME NEW i \in 1 .. Len(q) PROVE q[i] \in ReportsOf(p \o q)
  <2>1. Len(p) + i \in 1 .. Len(p) + Len(q)
    BY <1>1
  <2> QED BY <1>1, <2>1 DEF ReportsOf
<1> QED BY <1>3, <1>4, <1>5, <1>6 DEF ReportsOf

LEMMA AppendedFacts ==
    ASSUME NEW s, NEW t, ShtpOK(s), TransferOK(t)
    PROVE  LET a == rxAppend(s, t) IN
           /\ ShtpOK(a) /\ a.inChan = t.chan /\ a.inRemaining = t.rest
           /\ a.inPayload = IF Continues(s, t) THEN s.inPayload \o t.part ELSE t.part
           /\ ReportsOf(a.inPayload) \subseteq
                ReportsOf(t.part) \union (IF s.inRemaining > 0 THEN ReportsOf(s.inPayload) ELSE {})
<1> DEFINE a == rxAppend(s, t)
           p == IF Continues(s, t) THEN s.inPayload \o t.part ELSE t.part
<1>1. /\ PayloadOK(p)
      /\ ReportsOf(p) \subseteq
           ReportsOf(t.part) \union (IF s.inRemaining > 0 THEN ReportsOf(s.inPayload) ELSE {})
  BY ConcatPayload DEF ShtpOK, TransferOK, Continues
<1>2. a = [s EXCEPT !.inChan = t.chan, !.inPayload = p, !.inRemaining = t.rest]
  BY DEF rxAppend
<1> HIDE DEF a, p
<1>3. /\ a.inChan = t.chan /\ a.inRemaining = t.rest /\ a.inPayload = p
      /\ a \in [known : SUBSET Channels, nextInSeq : [Channels -> Numbers], inChan : Channels,
                inPayload : {p}, inRemaining : Nat]
  BY <1>2 DEF ShtpOK, TransferOK
<1>4. ShtpOK(a)
  BY <1>1, <1>3 DEF ShtpOK
<1> QED BY <1>1, <1>3, <1>4 DEF a, p

LEMMA DoneFacts ==
    ASSUME NEW s, NEW t, ShtpOK(s), TransferOK(t)
    PROVE  LET d == rxDone(s, t) IN
           /\ ShtpOK(d) /\ d.inChan = s.inChan /\ d.inRemaining = s.inRemaining
           /\ d.inPayload = IF s.inRemaining = 0 THEN <<>> ELSE s.inPayload
           /\ d.nextInSeq[t.chan] = Succ(t.seq)
<1> DEFINE d == rxDone(s, t)
           p == IF s.inRemaining = 0 THEN <<>> ELSE s.inPayload
<1>1. PayloadOK(p)
  BY EmptyFacts DEF PayloadOK, ShtpOK
<1>2. d = [s EXCEPT !.inPayload = p, !.nextInSeq[t.chan] = Succ(t.seq)]
  BY DEF rxDone, Succ
<1>3. Succ(t.seq) \in Numbers
  BY SuccNumber DEF TransferOK
<1> HIDE DEF d, p
<1>4. /\ d.inChan = s.inChan /\ d.inRemaining = s.inRemaining /\ d.inPayload = p
      /\ d.nextInSeq[t.chan] = Succ(t.seq)
      /\ d \in [known : SUBSET Channels, nextInSeq : [Channels -> Numbers], inChan : Channels,
                inPayload : {p}, inRemaining : Nat]
  BY <1>2, <1>3 DEF ShtpOK, TransferOK
<1>5. ShtpOK(d)
  BY <1>1, <1>4 DEF ShtpOK
<1> QED BY <1>4, <1>5 DEF d, p

LEMMA ChannelsFacts ==
    ASSUME NEW s, ShtpOK(s)
    PROVE  LET c == addChannels(s, Channels) IN
           /\ ShtpOK(c) /\ c.inChan = s.inChan /\ c.inRemaining = s.inRemaining
           /\ c.inPayload = s.inPayload
<1> DEFINE c == addChannels(s, Channels)
<1>1. [d \in Channels |-> IF d \in Channels THEN 0 ELSE s.nextInSeq[d]] \in [Channels -> Numbers]
  BY SeqAssumption DEF Numbers
<1>2. /\ c.inChan = s.inChan /\ c.inRemaining = s.inRemaining /\ c.inPayload = s.inPayload
      /\ c \in [known : SUBSET Channels, nextInSeq : [Channels -> Numbers], inChan : Channels,
                inPayload : {s.inPayload}, inRemaining : Nat]
  BY <1>1 DEF ShtpOK, addChannels
<1> HIDE DEF c
<1>3. ShtpOK(c)
  BY <1>2 DEF ShtpOK
<1> QED BY <1>2, <1>3 DEF c

(* What a transfer makes of the driver: the rest of it is kept, but for the  *)
(* reports of a payload that is whole.                                       *)
LEMMA ListenerAfter ==
    ASSUME NEW l, DriverOK(l), ShtpOK(l.shtp), NEW chan \in Channels
    PROVE  LET m == Listener(l, chan, l.shtp.inPayload) IN
           /\ Kept(l, m) /\ HearsOwn(l, m, ReportsOf(l.shtp.inPayload))
           /\ ShtpOK(m.shtp) /\ m.shtp.inChan = l.shtp.inChan
           /\ m.shtp.inRemaining = l.shtp.inRemaining
           /\ m.shtp.inPayload = l.shtp.inPayload
<1> DEFINE p == l.shtp.inPayload
           m == Listener(l, chan, p)
<1>1. CASE chan = "command"
  <2> DEFINE c == addChannels(l.shtp, Channels)
  <2>1. m = [l EXCEPT !.shtp = c, !.controlChan = KnowsChannel(c, "control")]
    BY <1>1 DEF Listener, advertised
  <2> HIDE DEF c, m
  <2>2. m.heard = l.heard /\ m.shtp = c
    BY <2>1 DEF DriverOK, Driver1
  <2>3. Kept(l, m)
    BY <2>1 DEF Kept, KeepsWriting, DriverOK, Driver1
  <2>4. HearsOwn(l, m, ReportsOf(p))
    BY <2>2 DEF HearsOwn
  <2> QED BY <2>2, <2>3, <2>4, ChannelsFacts DEF c, m
<1>2. CASE chan = "device"
  <2>1. m = [l EXCEPT !.resetComplete = TRUE, !.resetSeen = TRUE]
    BY <1>2 DEF Listener, resetDone
  <2> HIDE DEF m
  <2>2. m.heard = l.heard /\ m.shtp = l.shtp
    BY <2>1 DEF DriverOK, Driver1
  <2>3. Kept(l, m)
    BY <2>1 DEF Kept, KeepsWriting, DriverOK, Driver1
  <2>4. HearsOwn(l, m, ReportsOf(p))
    BY <2>2 DEF HearsOwn
  <2> QED BY <2>2, <2>3, <2>4 DEF m
<1>3. CASE chan \in {"control", "inputNormal"}
  <2>1. m = handPayload(l, chan, p)
    BY <1>3 DEF Listener
  <2>2. PayloadOK(p)
    BY DEF ShtpOK
  <2>3. After(l, m, ReportsOf(p))
    BY <2>1, <2>2, PayloadAfter DEF PayloadOK, ReportsOf
  <2> HIDE DEF m
  <2> QED BY <2>3 DEF After, m
<1> QED BY <1>1, <1>2, <1>3 DEF Channels

LEMMA WithShtp ==
    ASSUME NEW l, DriverOK(l), NEW s
    PROVE  LET m == [l EXCEPT !.shtp = s] IN
           /\ DriverOK(m) /\ m.shtp = s /\ Kept(l, m)
           /\ m.heard = l.heard /\ m.pOp = l.pOp /\ m.cmd = l.cmd
  BY DEF Kept, KeepsWriting, DriverOK, Driver1

LEMMA KeptBoth ==
    ASSUME NEW l, NEW m, NEW n, DriverOK(l), Kept(l, m), Kept(m, n)
    PROVE  Kept(l, n)
  BY DEF Kept, KeepsWriting, DriverOK

LEMMA ServicedFacts ==
    ASSUME NEW l, NEW t, DriverOK(l), ShtpOK(l.shtp), TransferOK(t)
    PROVE  LET m == Serviced(l, t)
               p == rxAppend(l.shtp, t).inPayload
           IN  /\ Kept(l, m) /\ HearsOwn(l, m, ReportsOf(p)) /\ ShtpOK(m.shtp)
               /\ m.shtp.inChan = t.chan /\ m.shtp.inRemaining = t.rest
               /\ m.shtp.inPayload = IF t.rest = 0 THEN <<>> ELSE p
               /\ m.shtp.nextInSeq[t.chan] = Succ(t.seq)
<1> DEFINE a == rxAppend(l.shtp, t)
           appended == [l EXCEPT !.shtp = a]
           delivered == IF Delivers(appended.shtp)
                        THEN Listener(appended, t.chan, appended.shtp.inPayload) ELSE appended
           m == [delivered EXCEPT !.shtp = rxDone(delivered.shtp, t)]
<1>1. Serviced(l, t) = m
  BY DEF Serviced
<1>2. ShtpOK(a) /\ a.inChan = t.chan /\ a.inRemaining = t.rest
  BY AppendedFacts
<1> HIDE DEF a
<1>3. /\ DriverOK(appended) /\ appended.shtp = a /\ Kept(l, appended)
      /\ appended.heard = l.heard /\ appended.pOp = l.pOp /\ appended.cmd = l.cmd
  BY WithShtp
<1> HIDE DEF appended
<1>4. /\ Kept(appended, delivered) /\ HearsOwn(appended, delivered, ReportsOf(a.inPayload))
      /\ ShtpOK(delivered.shtp) /\ delivered.shtp.inChan = t.chan
      /\ delivered.shtp.inRemaining = t.rest
      /\ delivered.shtp.inPayload = a.inPayload
  <2>1. t.chan \in Channels
    BY DEF TransferOK
  <2>2. CASE Delivers(appended.shtp)
    <3>1. delivered = Listener(appended, t.chan, appended.shtp.inPayload)
      BY <2>2
    <3> QED BY <3>1, <1>2, <1>3, <2>1, ListenerAfter
  <2>3. CASE ~Delivers(appended.shtp)
    <3>1. delivered = appended
      BY <2>3
    <3>2. After(appended, appended, ReportsOf(a.inPayload))
      BY <1>3, KeptSelf
    <3> HIDE DEF delivered
    <3> QED BY <1>2, <1>3, <3>1, <3>2 DEF After
  <2> QED BY <2>2, <2>3
<1> HIDE DEF delivered
<1>5. DriverOK(delivered)
  BY <1>4 DEF Kept
<1>6. /\ DriverOK(m) /\ m.shtp = rxDone(delivered.shtp, t) /\ Kept(delivered, m)
      /\ m.heard = delivered.heard
  BY <1>5, WithShtp
<1> HIDE DEF m
<1>7. /\ ShtpOK(m.shtp) /\ m.shtp.inChan = t.chan /\ m.shtp.inRemaining = t.rest
      /\ m.shtp.inPayload = IF t.rest = 0 THEN <<>> ELSE a.inPayload
      /\ m.shtp.nextInSeq[t.chan] = Succ(t.seq)
  BY <1>4, <1>6, DoneFacts
<1>8. Kept(l, m)
  <2>1. Kept(l, delivered)
    BY <1>3, <1>4, KeptBoth
  <2> QED BY <2>1, <1>6, KeptBoth
<1>9. HearsOwn(l, m, ReportsOf(a.inPayload))
  BY <1>3, <1>4, <1>6 DEF HearsOwn, Response
<1> QED BY <1>1, <1>7, <1>8, <1>9 DEF a

-----------------------------------------------------------------------------
(* What the hub answers, and how.                                            *)

RequestIds ==
    {"PROD_ID_REQ", "GET_FEATURE_REQ", "SET_FEATURE_CMD", "FRS_READ_REQ", "FRS_WRITE_REQ",
     "FRS_WRITE_DATA_REQ", "FORCE_SENSOR_FLUSH", "COMMAND_REQ"}

(* A fragment of a payload and the next one: reports of the same call, with  *)
(* consecutive places in its answer.                                         *)
Follows(r, s) == s.of = r.of /\ s.n = r.n + 1

Consecutive(p) == \A i \in 1 .. Len(p) - 1 : Follows(p[i], p[i + 1])

(* The reports of an answer are of the call that asked, a response has the   *)
(* number of its command.                                                    *)
AnswerTo(q, r) ==
    /\ r.of = q.of /\ r.id # "COMMAND_REQ"
    /\ r.id = "COMMAND_RESP" => q.id = "COMMAND_REQ" /\ r.key = q.key

LEMMA SeriesFacts ==
    ASSUME NEW id, NEW of, NEW n \in Nat, NEW key,
           id = "FRS_WRITE_RESP" => key \in {"completed", "more", "error"}
    PROVE  LET s == Series(id, of, n, key) IN
           /\ PayloadOK(s) /\ Consecutive(s) /\ Len(s) = n
           /\ \A r \in ReportsOf(s) : r.id = id /\ r.of = of /\ r.key = key
<1> DEFINE s == Series(id, of, n, key)
<1>1. s = [i \in 1 .. n |-> s[i]]
  BY DEF Series
<1>2. \A i \in 1 .. n : s[i].id = id /\ s[i].of = of /\ s[i].key = key /\ s[i].n = i - 1
  BY DEF Series, Report
<1> HIDE DEF s
<1>3. Sequence(s) /\ Len(s) = n
  BY <1>1, RowFacts
<1>4. PayloadOK(s)
  BY <1>2, <1>3 DEF PayloadOK, ReportOK
<1>5. Consecutive(s)
  BY <1>2, <1>3 DEF Consecutive, Follows
<1> QED BY <1>2, <1>3, <1>4, <1>5 DEF ReportsOf, s

LEMMA AnswerFacts ==
    ASSUME NEW q, q.id \in RequestIds, NEW answer \in Answers(q)
    PROVE  /\ PayloadOK(answer) /\ Consecutive(answer)
           /\ \A r \in ReportsOf(answer) : AnswerTo(q, r)
<1> DEFINE Good == PayloadOK(answer) /\ Consecutive(answer)
                   /\ \A r \in ReportsOf(answer) : AnswerTo(q, r)
<1>1. ProdEntries \in Nat /\ FrsWords \in Nat /\ 1 \in Nat /\ 2 \in Nat
  BY SH2Assumption
<1>2. ASSUME answer = <<>> PROVE Good
  <2>1. Sequence(answer) /\ Len(answer) = 0
    BY <1>2, EmptyFacts
  <2> QED BY <2>1 DEF PayloadOK, Consecutive, ReportsOf
<1>3. ASSUME NEW id, NEW n \in Nat, NEW key, answer = Series(id, q.of, n, key),
             id = "FRS_WRITE_RESP" => key \in {"completed", "more", "error"},
             id # "COMMAND_REQ",
             id = "COMMAND_RESP" => q.id = "COMMAND_REQ" /\ key = q.key
      PROVE  Good
  <2>1. /\ PayloadOK(answer) /\ Consecutive(answer)
        /\ \A r \in ReportsOf(answer) : r.id = id /\ r.of = q.of /\ r.key = key
    BY <1>3, SeriesFacts
  <2> QED BY <1>3, <2>1 DEF AnswerTo
<1>4. CASE q.id = "PROD_ID_REQ"
  <2>1. answer = Series("PROD_ID_RESP", q.of, ProdEntries, "none")
    BY <1>4 DEF Answers
  <2> QED BY <1>1, <1>3, <2>1
<1>5. CASE q.id = "GET_FEATURE_REQ" \/ q.id = "SET_FEATURE_CMD"
  <2>1. answer = <<>> \/ answer = Series("GET_FEATURE_RESP", q.of, 1, q.key)
    BY <1>5 DEF Answers
  <2> QED BY <1>1, <1>2, <1>3, <2>1
<1>6. CASE q.id = "FRS_READ_REQ"
  <2>1. \/ answer = Series("FRS_READ_RESP", q.of, FrsWords, "data")
        \/ answer = Series("FRS_READ_RESP", q.of, 1, "error")
        \/ answer = Series("FRS_READ_RESP", q.of, 1, "empty")
    BY <1>6 DEF Answers
  <2> QED BY <1>1, <1>3, <2>1
<1>7. CASE q.id = "FRS_WRITE_REQ"
  <2>1. \/ answer = Series("FRS_WRITE_RESP", q.of, 1, "more")
        \/ answer = Series("FRS_WRITE_RESP", q.of, 1, "error")
    BY <1>7 DEF Answers
  <2> QED BY <1>1, <1>3, <2>1
<1>8. CASE q.id = "FRS_WRITE_DATA_REQ"
  <2>1. PICK key \in {"completed", "more"} : answer = Series("FRS_WRITE_RESP", q.of, 1, key)
    BY <1>8 DEF Answers
  <2> QED BY <1>1, <1>3, <2>1
<1>9. CASE q.id = "FORCE_SENSOR_FLUSH"
  <2>1. answer = Series("FLUSH_COMPLETED", q.of, 1, q.key)
    BY <1>9 DEF Answers
  <2> QED BY <1>1, <1>3, <2>1
<1>10. CASE q.id = "COMMAND_REQ"
  <2>1. \/ answer = Series("COMMAND_RESP", q.of, 2, q.key)
        \/ \E ok \in BOOLEAN : answer = <<Report("COMMAND_RESP", q.of, 0, q.key, ok)>>
    BY <1>10 DEF Answers
  <2>2. CASE answer = Series("COMMAND_RESP", q.of, 2, q.key)
    BY <1>1, <1>3, <1>10, <2>2
  <2>3. ASSUME NEW ok \in BOOLEAN, answer = <<Report("COMMAND_RESP", q.of, 0, q.key, ok)>>
        PROVE  Good
    <3>1. Sequence(answer) /\ Len(answer) = 1
          /\ answer[1] = Report("COMMAND_RESP", q.of, 0, q.key, ok)
      BY <2>3, SingleFacts
    <3>2. answer[1].id = "COMMAND_RESP" /\ answer[1].of = q.of /\ answer[1].key = q.key
      BY <3>1 DEF Report
    <3>3. \A i \in 1 .. Len(answer) : i = 1
      BY <3>1
    <3> QED BY <1>10, <3>1, <3>2, <3>3
            DEF PayloadOK, ReportOK, Consecutive, ReportsOf, AnswerTo
  <2> QED BY <2>1, <2>2, <2>3
<1> QED BY <1>4, <1>5, <1>6, <1>7, <1>8, <1>9, <1>10 DEF RequestIds

(* However an answer is cut into transfers: they are on one channel, with    *)
(* consecutive numbers, and a transfer that is not the last of its cargo is  *)
(* followed by the one with the next report.                                 *)
Emission(chan, answer, ts) ==
    /\ Sequence(ts) /\ Len(ts) > 0 /\ ~ts[1].continuation
    /\ \A i \in 1 .. Len(ts) :
          /\ TransferOK(ts[i]) /\ ts[i].chan = chan
          /\ ReportsOf(ts[i].part) \subseteq ReportsOf(answer) /\ Consecutive(ts[i].part)
          /\ ts[i].seq = (hubSeq[chan] + i - 1) % SeqModulus
          /\ ts[i].rest > 0 =>
                /\ i + 1 \in 1 .. Len(ts)
                /\ Len(ts[i].part) = 1 /\ Len(ts[i + 1].part) = 1
                /\ Follows(ts[i].part[1], ts[i + 1].part[1])

LEMMA NumberedFacts ==
    ASSUME hubSeq \in [Channels -> Numbers], NEW chan \in Channels, NEW i \in Nat, i > 0
    PROVE  (hubSeq[chan] + i - 1) % SeqModulus \in Numbers
  BY SeqAssumption DEF Numbers

LEMMA EmissionFacts ==
    ASSUME hubSeq \in [Channels -> Numbers], NEW chan \in Channels,
           NEW answer, PayloadOK(answer), Consecutive(answer), answer # <<>>,
           NEW ts \in {Pieces(chan, answer), Whole(chan, answer), Singles(chan, answer)}
    PROVE  Emission(chan, answer, ts)
<1> DEFINE n == Len(answer)
<1>1. n \in Nat /\ n > 0 /\ DOMAIN answer = 1 .. n
  BY SequenceFacts DEF PayloadOK
<1>2. ASSUME NEW i \in 1 .. n
      PROVE  /\ PayloadOK(<<answer[i]>>) /\ Consecutive(<<answer[i]>>)
             /\ ReportsOf(<<answer[i]>>) \subseteq ReportsOf(answer)
             /\ Len(<<answer[i]>>) = 1 /\ <<answer[i]>>[1] = answer[i]
  <2> DEFINE p == <<answer[i]>>
  <2>1. Sequence(p) /\ Len(p) = 1 /\ p[1] = answer[i]
    BY SingleFacts
  <2>2. ReportOK(answer[i])
    BY DEF PayloadOK
  <2> HIDE DEF p
  <2>3. \A k \in 1 .. Len(p) : k = 1
    BY <2>1
  <2>4. PayloadOK(p) /\ Consecutive(p) /\ ReportsOf(p) \subseteq ReportsOf(answer)
    BY <2>1, <2>2, <2>3 DEF PayloadOK, Consecutive, ReportsOf
  <2> QED BY <2>1, <2>4 DEF p
<1>3. \A i \in 1 .. n - 1 : Follows(answer[i], answer[i + 1])
  BY DEF Consecutive
<1>4. CASE ts = Pieces(chan, answer) \/ ts = Singles(chan, answer)
  <2>1. ts = [i \in 1 .. n |-> ts[i]]
    BY <1>1, <1>4 DEF Pieces, Singles
  <2>2. Sequence(ts) /\ Len(ts) = n
    BY <1>1, <2>1, RowFacts
  <2>3. ASSUME NEW i \in 1 .. n
        PROVE  /\ ts[i].chan = chan /\ ts[i].part = <<answer[i]>>
               /\ ts[i].seq = (hubSeq[chan] + i - 1) % SeqModulus
               /\ ts[i].rest \in {0, n - i}
               /\ i = 1 => ~ts[i].continuation
    <3>1. Pieces(chan, answer)[i] = Transfer(chan, (hubSeq[chan] + i - 1) % SeqModulus, i > 1,
                                              <<answer[i]>>, n - i)
      BY <1>1 DEF Pieces
    <3>2. CASE ts = Pieces(chan, answer)
      <4>1. /\ ts[i].chan = chan /\ ts[i].part = <<answer[i]>> /\ ts[i].rest = n - i
            /\ ts[i].seq = (hubSeq[chan] + i - 1) % SeqModulus
        BY <3>1, <3>2 DEF Transfer
      <4>2. ts[i].continuation = (i > 1)
        BY <3>1, <3>2 DEF Transfer
      <4>3. i = 1 => ~(i > 1)
        BY <1>1
      <4> QED BY <4>1, <4>2, <4>3
    <3>3. CASE ts = Singles(chan, answer)
      <4>1. ts[i] = [Pieces(chan, answer)[i] EXCEPT !.continuation = FALSE, !.rest = 0]
        BY <1>1, <3>3 DEF Singles
      <4> QED BY <3>1, <4>1 DEF Transfer
    <3> QED BY <1>4, <3>2, <3>3
  <2>4. ASSUME NEW i \in 1 .. n PROVE TransferOK(ts[i])
    <3>1. (hubSeq[chan] + i - 1) % SeqModulus \in Numbers
      BY <1>1, NumberedFacts
    <3>2. ts[i].rest \in Nat
      BY <1>1, <2>3
    <3> QED BY <1>2, <2>3, <3>1, <3>2 DEF TransferOK
  <2>5. ASSUME NEW i \in 1 .. n, ts[i].rest > 0
        PROVE  /\ i + 1 \in 1 .. n
               /\ Len(ts[i].part) = 1 /\ Len(ts[i + 1].part) = 1
               /\ Follows(ts[i].part[1], ts[i + 1].part[1])
    <3>1. i \in 1 .. n - 1 /\ i + 1 \in 1 .. n
      BY <1>1, <2>3, <2>5
    <3> QED BY <1>2, <1>3, <2>3, <3>1, ZenonT(30)
  <2>6. ASSUME NEW i \in 1 .. n
        PROVE  ReportsOf(ts[i].part) \subseteq ReportsOf(answer) /\ Consecutive(ts[i].part)
    BY <1>2, <2>3
  <2>7. 1 \in 1 .. n
    BY <1>1
  <2>8. ~ts[1].continuation
    BY <2>3, <2>7
  <2> QED BY <1>1, <2>2, <2>3, <2>4, <2>5, <2>6, <2>8 DEF Emission
<1>5. CASE ts = Whole(chan, answer)
  <2>1. Sequence(ts) /\ Len(ts) = 1 /\ ts[1] = Transfer(chan, hubSeq[chan], FALSE, answer, 0)
    BY <1>5, SingleFacts DEF Whole
  <2>2. /\ ts[1].chan = chan /\ ts[1].seq = hubSeq[chan] /\ ~ts[1].continuation
        /\ ts[1].part = answer /\ ts[1].rest = 0
    BY <2>1 DEF Transfer
  <2>3. hubSeq[chan] \in Numbers /\ hubSeq[chan] = (hubSeq[chan] + 1 - 1) % SeqModulus
    BY SeqAssumption DEF Numbers
  <2>4. TransferOK(ts[1])
    BY <2>2, <2>3 DEF TransferOK
  <2>5. \A i \in 1 .. Len(ts) : i = 1
    BY <2>1
  <2>6. ASSUME NEW i \in 1 .. Len(ts)
        PROVE  /\ TransferOK(ts[i]) /\ ts[i].chan = chan /\ ~(ts[i].rest > 0)
               /\ ReportsOf(ts[i].part) \subseteq ReportsOf(answer) /\ Consecutive(ts[i].part)
               /\ ts[i].seq = (hubSeq[chan] + i - 1) % SeqModulus
    BY <2>2, <2>3, <2>4, <2>5
  <2>7. Sequence(ts) /\ Len(ts) > 0 /\ ~ts[1].continuation
    <3>1. ~ts[1].continuation
      BY <2>2
    <3>2. Sequence(ts) /\ Len(ts) > 0
      BY <2>1
    <3> QED BY <3>1, <3>2
  <2> HIDE DEF n
  <2> QED BY <2>6, <2>7 DEF Emission
<1> QED BY <1>4, <1>5

-----------------------------------------------------------------------------
(* The steps, by what they do to the driver and to what is on its way.       *)

Serves ==
    /\ wire # <<>> /\ lib' = Serviced(lib, Head(wire)) /\ wire' = Tail(wire)
    /\ UNCHANGED <<hubIn, hubSeq, enabled, taken, losses, clientVars>>

(* The hub was reset, by the client or by itself.                            *)
Resets ==
    /\ at # "closed" /\ HubReset /\ resets' = resets + 1
    /\ UNCHANGED <<lib, losses, at, op, call, done>>

Rests == UNCHANGED <<lib, hub, losses, clientVars>>

LEMMA Steps ==
    ASSUME [Next]_vars
    PROVE  \/ Serves \/ Resets \/ Rests \/ open \/ opened \/ close \/ start \/ return
           \/ write /\ UNCHANGED clientVars
           \/ hubTakes /\ UNCHANGED clientVars
           \/ lose /\ UNCHANGED clientVars
<1>1. CASE awaitReset \/ idleService
  BY <1>1 DEF awaitReset, idleService, service, Serves, counts
<1>2. CASE devReset \/ spontaneousReset
  BY <1>2 DEF devReset, spontaneousReset, Resets, counts
<1>3. CASE UNCHANGED vars
  BY <1>3 DEF vars, sh2Vars, Rests, counts
<1>4. CASE poll /\ UNCHANGED clientVars
  BY <1>4 DEF poll, service, Serves, counts
<1>5. CASE writeFails /\ UNCHANGED clientVars
  BY <1>5 DEF writeFails, service, Serves, Rests, hub
<1> QED BY <1>1, <1>2, <1>3, <1>4, <1>5 DEF Next, Driver, Hub

(* What the driver, its transport, the wire and the hub hold.                *)
SH2Typed ==
    /\ DriverOK(lib) /\ ShtpOK(lib.shtp)
    /\ lib.copies > 0 => lib.out.id \in RequestIds
    /\ Sequence(hubIn) /\ \A i \in 1 .. Len(hubIn) : hubIn[i].id \in RequestIds
    /\ Sequence(wire) /\ \A i \in 1 .. Len(wire) : TransferOK(wire[i])
    /\ hubSeq \in [Channels -> Numbers]
    /\ losses \in 0 .. MaxLosses

(* A new transport: nothing is under construction.                           *)
LEMMA NewInstanceOK == ShtpOK(NewInstance) /\ NewInstance.inRemaining = 0
<1>1. PayloadOK(<<>>)
  BY EmptyFacts DEF PayloadOK
<1>2. NewInstance.inPayload = <<>> /\ NewInstance.inRemaining = 0
  BY DEF NewInstance
<1>3. [c \in Channels |-> 0] \in [Channels -> Numbers]
  BY SeqAssumption DEF Numbers
<1>4. NewInstance \in [known : SUBSET Channels, nextInSeq : [Channels -> Numbers],
                       inChan : Channels, inPayload : {NewInstance.inPayload},
                       inRemaining : Nat]
  BY <1>2, <1>3 DEF NewInstance, Channels
<1> QED BY <1>1, <1>2, <1>4 DEF ShtpOK

(* A session that begins or ends leaves nothing of the last one.             *)
LEMMA FreshDriver ==
    ASSUME NEW m, m = ClearedSh2 \/ m = Opened(lib) \/ m = Closed(lib)
    PROVE  /\ DriverOK(m) /\ m.shtp = NewInstance /\ m.copies = 0 /\ m.pOp = "none"
           /\ m.nextCmdSeq = 0 /\ m.heard = {}
<1>1. /\ Driver1(ClearedSh2) /\ ClearedSh2.shtp = NewInstance /\ ClearedSh2.copies = 0
      /\ ClearedSh2.pOp = "none" /\ ClearedSh2.nextCmdSeq = 0 /\ ClearedSh2.heard = {}
  BY DEF ClearedSh2, Driver1
<1> DEFINE taking == ~lib.inUse
<1>2. Opened(lib) = [ClearedSh2 EXCEPT !.inUse = TRUE, !.pShtp = taking,
                                       !.resetSeen = lib.resetSeen, !.hasValue = lib.hasValue]
  BY DEF Opened
<1> HIDE DEF taking
<1>3. \/ m = ClearedSh2
      \/ m = [ClearedSh2 EXCEPT !.inUse = TRUE, !.pShtp = taking,
                                !.resetSeen = lib.resetSeen, !.hasValue = lib.hasValue]
      \/ m = [ClearedSh2 EXCEPT !.resetSeen = lib.resetSeen, !.hasValue = lib.hasValue]
  BY <1>2 DEF Closed
<1>4. /\ Driver1(m) /\ m.shtp = NewInstance /\ m.copies = 0 /\ m.pOp = "none"
      /\ m.nextCmdSeq = 0 /\ m.heard = {}
  BY <1>1, <1>3 DEF Driver1
<1> QED BY <1>4 DEF DriverOK

(* What a reset leaves to the driver to read.                                *)
Advertises == Transfer("command", 0, FALSE, <<Report("ADVERTISE", 0, 0, "none", TRUE)>>, 0)
TellsReset == Transfer("device", 0, FALSE, <<Report("RESET_COMPLETE", 0, 0, "none", TRUE)>>, 0)
Announces ==
    Transfer("control", 0, FALSE,
             <<Report("COMMAND_RESP", 0, 0, <<"UNSOLICITED", 0>>, TRUE)>>, 0)

LEMMA SinglePayload ==
    ASSUME NEW r, ReportOK(r)
    PROVE  PayloadOK(<<r>>) /\ Consecutive(<<r>>) /\ ReportsOf(<<r>>) = {r} /\ Len(<<r>>) = 1
<1> DEFINE p == <<r>>
<1>1. Sequence(p) /\ Len(p) = 1 /\ p[1] = r
  BY SingleFacts
<1> HIDE DEF p
<1>2. \A i \in 1 .. Len(p) : i = 1
  BY <1>1
<1>3. PayloadOK(p) /\ Consecutive(p) /\ ReportsOf(p) = {r}
  BY <1>1, <1>2 DEF PayloadOK, Consecutive, ReportsOf
<1> QED BY <1>1, <1>3 DEF p

(* One of the transfers that follow a reset.                                 *)
Told(t, chan, r) ==
    /\ TransferOK(t) /\ t.chan = chan /\ t.seq = 0 /\ t.rest = 0
    /\ ~t.continuation
    /\ Consecutive(t.part) /\ ReportsOf(t.part) = {r}

LEMMA ResetTransfer ==
    ASSUME NEW chan \in Channels, NEW r, ReportOK(r)
    PROVE  Told(Transfer(chan, 0, FALSE, <<r>>, 0), chan, r)
<1> DEFINE t == Transfer(chan, 0, FALSE, <<r>>, 0)
<1>1. t.chan = chan /\ t.seq = 0 /\ t.rest = 0 /\ t.part = <<r>>
  BY DEF Transfer
<1>2. ~t.continuation
  BY DEF Transfer
<1> HIDE DEF t
<1>3. 0 \in Numbers /\ 0 \in Nat
  BY SeqAssumption DEF Numbers
<1>4. t.seq \in Numbers /\ t.rest \in Nat
  BY <1>1, <1>3
<1>5. PayloadOK(t.part) /\ Consecutive(t.part) /\ ReportsOf(t.part) = {r}
  BY <1>1, SinglePayload
<1>6. TransferOK(t)
  BY <1>1, <1>4, <1>5 DEF TransferOK
<1>7. Told(t, chan, r)
  BY <1>1, <1>2, <1>5, <1>6 DEF Told
<1> QED BY <1>7 DEF t

LEMMA ResetFacts ==
    ASSUME HubReset
    PROVE  /\ hubIn' = <<>> /\ Sequence(wire') /\ Len(wire') = 3
           /\ \A i \in 1 .. 3 :
                 /\ TransferOK(wire'[i]) /\ wire'[i].seq = 0 /\ wire'[i].rest = 0
                 /\ ~wire'[i].continuation
                 /\ Consecutive(wire'[i].part)
                 /\ \A r \in ReportsOf(wire'[i].part) :
                       r.id \in {"COMMAND_REQ", "COMMAND_RESP"} => r.key[1] = "UNSOLICITED"
           /\ wire'[1].chan = "command" /\ wire'[2].chan = "device"
           /\ wire'[3].chan = "control"
           /\ hubSeq' = [c \in Channels |-> IF c = "inputNormal" THEN 0 ELSE 1]
<1>1. /\ hubIn' = <<>> /\ wire' = <<Advertises, TellsReset, Announces>>
      /\ hubSeq' = [c \in Channels |-> IF c = "inputNormal" THEN 0 ELSE 1]
  BY DEF HubReset, Advertises, TellsReset, Announces
<1>2. <<Advertises, TellsReset, Announces>> \in Seq({Advertises, TellsReset, Announces})
  OBVIOUS
<1>3. /\ Sequence(wire') /\ Len(wire') = 3
      /\ wire'[1] = Advertises /\ wire'[2] = TellsReset /\ wire'[3] = Announces
  BY <1>1, <1>2 DEF Sequence
<1> DEFINE a == Report("ADVERTISE", 0, 0, "none", TRUE)
           d == Report("RESET_COMPLETE", 0, 0, "none", TRUE)
           u == Report("COMMAND_RESP", 0, 0, <<"UNSOLICITED", 0>>, TRUE)
<1>4. /\ a.id = "ADVERTISE" /\ d.id = "RESET_COMPLETE" /\ u.id = "COMMAND_RESP"
      /\ u.key = <<"UNSOLICITED", 0>>
  BY DEF Report
<1>5. ReportOK(a) /\ ReportOK(d) /\ ReportOK(u) /\ u.key[1] = "UNSOLICITED"
  <2> HIDE DEF a, d, u
  <2> QED BY <1>4 DEF ReportOK
<1>6. /\ Advertises = Transfer("command", 0, FALSE, <<a>>, 0)
      /\ TellsReset = Transfer("device", 0, FALSE, <<d>>, 0)
      /\ Announces = Transfer("control", 0, FALSE, <<u>>, 0)
  BY DEF Advertises, TellsReset, Announces
<1> HIDE DEF a, d, u
<1>7. /\ Told(wire'[1], "command", a)
      /\ Told(wire'[2], "device", d)
      /\ Told(wire'[3], "control", u)
  <2>1. "command" \in Channels /\ "device" \in Channels /\ "control" \in Channels
    BY DEF Channels
  <2>2. Told(wire'[1], "command", a)
    <3>1. wire'[1] = Transfer("command", 0, FALSE, <<a>>, 0)
      BY <1>3, <1>6
    <3> QED BY <1>5, <2>1, <3>1, ResetTransfer
  <2>3. Told(wire'[2], "device", d)
    <3>1. wire'[2] = Transfer("device", 0, FALSE, <<d>>, 0)
      BY <1>3, <1>6
    <3> QED BY <1>5, <2>1, <3>1, ResetTransfer
  <2>4. Told(wire'[3], "control", u)
    <3>1. wire'[3] = Transfer("control", 0, FALSE, <<u>>, 0)
      BY <1>3, <1>6
    <3> QED BY <1>5, <2>1, <3>1, ResetTransfer
  <2> QED BY <2>2, <2>3, <2>4
<1>8. \A i \in 1 .. 3 : i = 1 \/ i = 2 \/ i = 3
  OBVIOUS
<1> QED BY <1>1, <1>3, <1>4, <1>5, <1>7, <1>8 DEF Told

(* A call is being written, or failed at once for want of a channel.  The    *)
(* one of a command has a new number.                                        *)
Begun(l, m, o, of) ==
    /\ DriverOK(m) /\ m.of = of /\ m.heard = {} /\ m.shtp = l.shtp
    /\ m.pOp \in {o, "none"}
    /\ \/ /\ m.copies = l.copies + 1 /\ m.out.of = of /\ m.out.id \in RequestIds
          /\ m.out.id = "COMMAND_REQ" => o \in CommandOps /\ m.out.key = m.cmd
       \/ /\ m.copies = l.copies /\ m.out = l.out
          /\ m.pOp = "none" /\ m.opStatus = "SH2_ERR_BAD_PARAM"
    /\ o \in CommandOps =>
          /\ m.nextCmdSeq = (l.nextCmdSeq + 1) % SeqModulus
          /\ m.cmd[1] # "UNSOLICITED" /\ m.cmd[2] = l.nextCmdSeq
    /\ o \notin CommandOps => m.nextCmdSeq = l.nextCmdSeq

LEMMA SentFacts ==
    ASSUME NEW l, DriverOK(l), NEW request
    PROVE  LET m == sendCtrl(l, request) IN
           /\ DriverOK(m) /\ m.of = l.of /\ m.heard = l.heard /\ m.shtp = l.shtp
           /\ m.nextCmdSeq = l.nextCmdSeq /\ m.cmd = l.cmd
           /\ \/ m.copies = l.copies + 1 /\ m.out = request /\ m.pOp = l.pOp
              \/ m.copies = l.copies /\ m.out = l.out
                 /\ m.pOp = "none" /\ m.opStatus = "SH2_ERR_BAD_PARAM"
<1> DEFINE sent == [l EXCEPT !.out = request, !.copies = @ + 1]
           m == sendCtrl(l, request)
<1>1. /\ Driver1(sent) /\ sent.of = l.of /\ sent.heard = l.heard /\ sent.shtp = l.shtp
      /\ sent.nextCmdSeq = l.nextCmdSeq /\ sent.cmd = l.cmd
      /\ sent.copies = l.copies + 1 /\ sent.out = request /\ sent.pOp = l.pOp
  BY DEF DriverOK, Driver1
<1> DEFINE failed == Complete(l, "SH2_ERR_BAD_PARAM")
<1>2. /\ Driver1(failed) /\ failed.of = l.of /\ failed.heard = l.heard
      /\ failed.shtp = l.shtp /\ failed.nextCmdSeq = l.nextCmdSeq /\ failed.cmd = l.cmd
      /\ failed.copies = l.copies /\ failed.out = l.out /\ failed.pOp = "none"
      /\ failed.opStatus = "SH2_ERR_BAD_PARAM"
  BY DEF Complete, DriverOK, Driver1
<1>3. m = sent \/ m = failed
  BY DEF sendCtrl
<1> HIDE DEF sent, failed, m
<1>4. l.copies \in Nat /\ l.pOp \in Ops \union {"none"}
  BY DEF DriverOK
<1>5. DriverOK(sent) /\ DriverOK(failed)
  BY <1>1, <1>2, <1>4 DEF DriverOK
<1> QED BY <1>1, <1>2, <1>3, <1>5 DEF m

LEMMA CommandFacts ==
    ASSUME NEW l, DriverOK(l), NEW command, command # "UNSOLICITED",
           l.pOp \in CommandOps, l.heard = {}
    PROVE  Begun(l, sendCmd(l, command), l.pOp, l.of)
<1> DEFINE key == <<command, l.nextCmdSeq>>
           n == [l EXCEPT !.cmd = key, !.nextCmdSeq = (@ + 1) % SeqModulus]
           request == Request("COMMAND_REQ", l.of, key)
           m == sendCtrl(n, request)
<1>1. sendCmd(l, command) = m
  BY DEF sendCmd
<1>2. request.id = "COMMAND_REQ" /\ request.of = l.of /\ request.key = key
  BY DEF Request
<1>3. key[1] = command /\ key[2] = l.nextCmdSeq
  OBVIOUS
<1> HIDE DEF key, request
<1>4. /\ Driver1(n) /\ n.of = l.of /\ n.heard = l.heard /\ n.shtp = l.shtp
      /\ n.nextCmdSeq = (l.nextCmdSeq + 1) % SeqModulus /\ n.cmd = key
      /\ n.copies = l.copies /\ n.out = l.out /\ n.pOp = l.pOp
  BY DEF DriverOK, Driver1
<1> HIDE DEF n
<1>5. DriverOK(n)
  BY <1>4 DEF DriverOK
<1>6. /\ DriverOK(m) /\ m.of = n.of /\ m.heard = n.heard /\ m.shtp = n.shtp
      /\ m.nextCmdSeq = n.nextCmdSeq /\ m.cmd = n.cmd
      /\ \/ m.copies = n.copies + 1 /\ m.out = request /\ m.pOp = n.pOp
         \/ m.copies = n.copies /\ m.out = n.out
            /\ m.pOp = "none" /\ m.opStatus = "SH2_ERR_BAD_PARAM"
  BY <1>5, SentFacts
<1> HIDE DEF m
<1>7. Begun(l, m, l.pOp, l.of)
  BY <1>2, <1>3, <1>4, <1>6 DEF Begun, RequestIds
<1> QED BY <1>1, <1>7

LEMMA RequestFacts ==
    ASSUME NEW l, DriverOK(l), NEW id \in RequestIds \ {"COMMAND_REQ"}, NEW key,
           l.pOp \notin CommandOps, l.heard = {}
    PROVE  Begun(l, sendCtrl(l, Request(id, l.of, key)), l.pOp, l.of)
<1> DEFINE request == Request(id, l.of, key)
           m == sendCtrl(l, request)
<1>1. request.id = id /\ request.of = l.of
  BY DEF Request
<1> HIDE DEF request
<1>2. /\ DriverOK(m) /\ m.of = l.of /\ m.heard = l.heard /\ m.shtp = l.shtp
      /\ m.nextCmdSeq = l.nextCmdSeq /\ m.cmd = l.cmd
      /\ \/ m.copies = l.copies + 1 /\ m.out = request /\ m.pOp = l.pOp
         \/ m.copies = l.copies /\ m.out = l.out
            /\ m.pOp = "none" /\ m.opStatus = "SH2_ERR_BAD_PARAM"
  BY SentFacts
<1> HIDE DEF m
<1>3. Begun(l, m, l.pOp, l.of)
  BY <1>1, <1>2 DEF Begun
<1> QED BY <1>3 DEF m, request

LEMMA StartFacts ==
    ASSUME NEW l, DriverOK(l), l.pOp \in Ops, l.heard = {}
    PROVE  Begun(l, opStart(l), l.pOp, l.of)
<1>1. CASE l.pOp \in CommandOps
  <2>1. \E command \in {"ERRORS", "COUNTS", "INITIALIZE", "DCD", "GET_OSC_TYPE", "ME_CAL",
                        "CAL"} : opStart(l) = sendCmd(l, command)
    BY <1>1 DEF CommandOps, opStart, getErrorsStart, getCountsStart, sendCmdStart, reinitStart,
                saveDcdNowStart, getOscTypeStart, setCalConfigStart, getCalConfigStart,
                startCalStart, finishCalStart
  <2> QED BY <1>1, <2>1, CommandFacts
<1>2. CASE l.pOp \notin CommandOps
  <2>1. \E id \in RequestIds \ {"COMMAND_REQ"} : \E key \in {"none", l.sensor} :
           opStart(l) = sendCtrl(l, Request(id, l.of, key))
    BY <1>2 DEF Ops, opStart, getProdIdStart, getSensorConfigStart, setSensorConfigStart,
                getFrsStart, setFrsStart, forceFlushStart, RequestIds
  <2> QED BY <1>2, <2>1, RequestFacts
<1> QED BY <1>1, <1>2

LEMMA StartedFacts ==
    ASSUME NEW l, DriverOK(l), NEW o \in Ops, NEW sensor, NEW of
    PROVE  Begun(l, Started(l, o, sensor, of), o, of)
<1> DEFINE c == Called(l, o, sensor, of)
<1>1. /\ Driver1(c) /\ c.pOp = o /\ c.of = of /\ c.heard = {} /\ c.shtp = l.shtp
      /\ c.copies = l.copies /\ c.out = l.out /\ c.nextCmdSeq = l.nextCmdSeq
  BY DEF Called, DriverOK, Driver1
<1>2. Started(l, o, sensor, of) = opStart(c)
  BY DEF Started
<1> HIDE DEF c
<1>3. DriverOK(c)
  BY <1>1 DEF DriverOK
<1>4. Begun(c, opStart(c), o, of)
  BY <1>1, <1>3, StartFacts
<1> QED BY <1>1, <1>2, <1>4 DEF Begun

LEMMA WroteFacts ==
    ASSUME SH2Typed, write
    PROVE  /\ DriverOK(lib') /\ lib'.copies = lib.copies - 1 /\ lib.copies > 0
           /\ lib'.out = lib.out /\ lib'.of = lib.of /\ lib'.heard = lib.heard
           /\ lib'.cmd = lib.cmd /\ lib'.nextCmdSeq = lib.nextCmdSeq /\ lib'.shtp = lib.shtp
           /\ \/ lib'.pOp = lib.pOp /\ lib'.opStatus = lib.opStatus
              \/ lib'.pOp = "none" /\ lib.pOp \in SendOnly
<1> DEFINE l == [lib EXCEPT !.copies = @ - 1]
           m == Complete(l, "SH2_OK")
<1>1. DriverOK(lib) /\ lib.copies > 0 /\ lib.copies \in Nat
  BY DEF SH2Typed, DriverOK, write
<1>2. /\ Driver1(l) /\ l.copies = lib.copies - 1 /\ l.pOp = lib.pOp
      /\ l.out = lib.out /\ l.of = lib.of /\ l.heard = lib.heard /\ l.opStatus = lib.opStatus
      /\ l.cmd = lib.cmd /\ l.nextCmdSeq = lib.nextCmdSeq /\ l.shtp = lib.shtp
  BY <1>1 DEF DriverOK, Driver1
<1>3. lib' = IF l.copies = 0 /\ l.pOp \in SendOnly THEN m ELSE l
  BY DEF write
<1> HIDE DEF l
<1>4. DriverOK(l)
  BY <1>1, <1>2 DEF DriverOK
<1>5. /\ Driver1(m) /\ m.copies = l.copies /\ m.pOp = "none"
      /\ m.out = l.out /\ m.of = l.of /\ m.heard = l.heard
      /\ m.cmd = l.cmd /\ m.nextCmdSeq = l.nextCmdSeq /\ m.shtp = l.shtp
  BY <1>4 DEF Complete, DriverOK, Driver1
<1> HIDE DEF m
<1>6. DriverOK(m)
  BY <1>4, <1>5 DEF DriverOK
<1>7. CASE l.copies = 0 /\ l.pOp \in SendOnly
  BY <1>1, <1>2, <1>3, <1>5, <1>6, <1>7
<1>8. CASE ~(l.copies = 0 /\ l.pOp \in SendOnly)
  BY <1>1, <1>2, <1>3, <1>4, <1>8
<1> QED BY <1>7, <1>8

(* The transfer that is serviced next.                                       *)
LEMMA HeadFacts ==
    ASSUME SH2Typed, wire # <<>>
    PROVE  /\ Head(wire) = wire[1] /\ TransferOK(wire[1]) /\ 1 \in 1 .. Len(wire)
           /\ Sequence(Tail(wire)) /\ Len(Tail(wire)) = Len(wire) - 1 /\ Len(wire) \in Nat
           /\ \A i \in 1 .. Len(wire) - 1 : Tail(wire)[i] = wire[i + 1] /\ i + 1 \in 1 .. Len(wire)
<1>1. Sequence(wire) /\ \A i \in 1 .. Len(wire) : TransferOK(wire[i])
  BY DEF SH2Typed
<1>2. Len(wire) \in Nat /\ Len(wire) > 0
  BY <1>1, SequenceFacts
<1> QED BY <1>1, <1>2, TailFacts

LEMMA ServedFacts ==
    ASSUME SH2Typed, Serves
    PROVE  LET t == wire[1]
               p == rxAppend(lib.shtp, t).inPayload
           IN  /\ Kept(lib, lib') /\ HearsOwn(lib, lib', ReportsOf(p)) /\ ShtpOK(lib'.shtp)
               /\ lib'.shtp.inChan = t.chan /\ lib'.shtp.inRemaining = t.rest
               /\ lib'.shtp.inPayload = IF t.rest = 0 THEN <<>> ELSE p
               /\ lib'.shtp.nextInSeq[t.chan] = Succ(t.seq)
               /\ ReportsOf(p) \subseteq
                    ReportsOf(t.part) \union
                    (IF lib.shtp.inRemaining > 0 THEN ReportsOf(lib.shtp.inPayload) ELSE {})
<1>1. DriverOK(lib) /\ ShtpOK(lib.shtp) /\ TransferOK(wire[1]) /\ lib' = Serviced(lib, wire[1])
  BY HeadFacts DEF SH2Typed, Serves
<1> QED BY <1>1, ServicedFacts, AppendedFacts

LEMMA TookFacts ==
    ASSUME SH2Typed, hubTakes
    PROVE  /\ Sequence(hubIn) /\ Len(hubIn) \in Nat /\ 1 \in 1 .. Len(hubIn)
           /\ Sequence(hubIn') /\ Len(hubIn') = Len(hubIn) - 1
           /\ \A i \in 1 .. Len(hubIn) - 1 :
                 hubIn'[i] = hubIn[i + 1] /\ i + 1 \in 1 .. Len(hubIn)
           /\ taken' = taken \union {hubIn[1].of}
           /\ \/ UNCHANGED <<wire, hubSeq>>
              \/ \E chan \in Channels : \E answer, ts :
                    /\ Emission(chan, answer, ts)
                    /\ \A r \in ReportsOf(answer) : AnswerTo(hubIn[1], r)
                    /\ wire' = wire \o ts
                    /\ hubSeq' = [hubSeq EXCEPT ![chan] = (@ + Len(ts)) % SeqModulus]
<1>1. Sequence(hubIn) /\ hubIn # <<>> /\ hubIn' = Tail(hubIn)
  BY DEF SH2Typed, hubTakes
<1>2. /\ Len(hubIn) \in Nat /\ 1 \in 1 .. Len(hubIn) /\ Head(hubIn) = hubIn[1]
      /\ Sequence(hubIn') /\ Len(hubIn') = Len(hubIn) - 1
      /\ \A i \in 1 .. Len(hubIn) - 1 :
            hubIn'[i] = hubIn[i + 1] /\ i + 1 \in 1 .. Len(hubIn)
  BY <1>1, SequenceFacts, TailFacts
<1> DEFINE q == hubIn[1]
           chan == IF q.id = "FORCE_SENSOR_FLUSH" THEN "inputNormal" ELSE "control"
<1>3. q.id \in RequestIds /\ chan \in Channels
  BY <1>2 DEF SH2Typed, Channels
<1>4. PICK answer \in Answers(q) :
         \E ts \in {Pieces(chan, answer), Whole(chan, answer), Singles(chan, answer)} :
            IF answer = <<>> THEN UNCHANGED <<wire, hubSeq>> ELSE Emit(chan, ts)
  BY <1>2 DEF hubTakes
<1>5. taken' = taken \union {q.of}
  BY <1>2 DEF hubTakes
<1> HIDE DEF chan, q
<1>6. PICK ts \in {Pieces(chan, answer), Whole(chan, answer), Singles(chan, answer)} :
         IF answer = <<>> THEN UNCHANGED <<wire, hubSeq>> ELSE Emit(chan, ts)
  BY <1>4
<1>7. CASE answer = <<>>
  BY <1>1, <1>2, <1>5, <1>6, <1>7 DEF q
<1>8. CASE answer # <<>>
  <2>1. /\ PayloadOK(answer) /\ Consecutive(answer)
        /\ \A r \in ReportsOf(answer) : AnswerTo(q, r)
    BY <1>3, AnswerFacts
  <2>2. hubSeq \in [Channels -> Numbers]
    BY DEF SH2Typed
  <2>3. Emission(chan, answer, ts)
    BY <1>3, <1>6, <1>8, <2>1, <2>2, EmissionFacts
  <2>4. /\ wire' = wire \o ts
        /\ hubSeq' = [hubSeq EXCEPT ![chan] = (@ + Len(ts)) % SeqModulus]
    BY <1>6, <1>8 DEF Emit
  <2> QED BY <1>1, <1>2, <1>3, <1>5, <2>1, <2>3, <2>4 DEF q
<1> QED BY <1>7, <1>8

(* The wire after an emission.                                               *)
LEMMA EmittedFacts ==
    ASSUME SH2Typed, NEW chan \in Channels, NEW answer, NEW ts, Emission(chan, answer, ts),
           wire' = wire \o ts
    PROVE  /\ Sequence(wire') /\ Len(wire') = Len(wire) + Len(ts)
           /\ Len(wire) \in Nat /\ Len(ts) \in Nat
           /\ \A i \in 1 .. Len(wire) : wire'[i] = wire[i]
           /\ \A i \in 1 .. Len(ts) : wire'[Len(wire) + i] = ts[i]
           /\ \A j \in 1 .. Len(wire') :
                 \/ j \in 1 .. Len(wire) /\ wire'[j] = wire[j]
                 \/ j - Len(wire) \in 1 .. Len(ts) /\ wire'[j] = ts[j - Len(wire)]
<1>1. Sequence(wire) /\ Sequence(ts)
  BY DEF SH2Typed, Emission
<1>2. /\ Sequence(wire') /\ Len(wire') = Len(wire) + Len(ts)
      /\ Len(wire) \in Nat /\ Len(ts) \in Nat
      /\ \A i \in 1 .. Len(wire) : wire'[i] = wire[i]
      /\ \A i \in 1 .. Len(ts) : wire'[Len(wire) + i] = ts[i]
  BY <1>1, SequenceFacts, ConcatFacts
<1>3. ASSUME NEW j \in 1 .. Len(wire')
      PROVE  \/ j \in 1 .. Len(wire) /\ wire'[j] = wire[j]
             \/ j - Len(wire) \in 1 .. Len(ts) /\ wire'[j] = ts[j - Len(wire)]
  <2>1. CASE j <= Len(wire)
    BY <1>2, <2>1
  <2>2. CASE j > Len(wire)
    <3>1. j - Len(wire) \in 1 .. Len(ts) /\ Len(wire) + (j - Len(wire)) = j
      BY <1>2, <2>2
    <3>2. wire'[Len(wire) + (j - Len(wire))] = ts[j - Len(wire)]
      BY <1>2, <3>1
    <3> QED BY <3>1, <3>2
  <2> QED BY <1>2, <2>1, <2>2
<1> QED BY <1>2, <1>3

-----------------------------------------------------------------------------
(* The types of the driver, of its transport and of what is on its way, for  *)
(* any client: one lemma for each thing that can happen to them.             *)

LEMMA SH2Init ==
    ASSUME lib = ClearedSh2, hubIn = <<>>, wire = <<>>, hubSeq = [c \in Channels |-> 0],
           losses = 0
    PROVE  SH2Typed
<1>1. DriverOK(lib) /\ ShtpOK(lib.shtp) /\ lib.copies = 0
  BY FreshDriver, NewInstanceOK
<1>2. Sequence(<<>>) /\ \A i : i \notin 1 .. Len(<<>>)
  BY EmptyFacts
<1>3. hubSeq \in [Channels -> Numbers]
  BY SeqAssumption DEF Numbers
<1>4. losses \in 0 .. MaxLosses
  BY SH2Assumption
<1> QED BY <1>1, <1>2, <1>3, <1>4 DEF SH2Typed

(* The next transfer is read from the wire, and given to the driver.         *)
LEMMA SH2Served ==
    ASSUME SH2Typed, wire # <<>>, wire' = Tail(wire), NEW l, DriverOK(l), ShtpOK(l.shtp),
           l.copies > 0 => l.out.id \in RequestIds,
           lib' = Serviced(l, Head(wire)), UNCHANGED <<hubIn, hubSeq, losses>>
    PROVE  SH2Typed'
<1>1. Kept(l, lib') /\ ShtpOK(lib'.shtp)
  BY HeadFacts, ServicedFacts
<1>2. lib'.copies > 0 => lib'.out.id \in RequestIds
  BY <1>1 DEF Kept, KeepsWriting, DriverOK, RequestIds
<1>3. Sequence(wire') /\ \A i \in 1 .. Len(wire') : TransferOK(wire'[i])
  BY HeadFacts DEF SH2Typed
<1> QED BY <1>1, <1>2, <1>3 DEF SH2Typed, Kept

LEMMA SH2Reset ==
    ASSUME SH2Typed, HubReset, UNCHANGED losses,
           DriverOK(lib'), ShtpOK(lib'.shtp), lib'.copies > 0 => lib'.out.id \in RequestIds
    PROVE  SH2Typed'
<1>1. /\ hubIn' = <<>> /\ Sequence(wire') /\ Len(wire') = 3
      /\ \A i \in 1 .. 3 : TransferOK(wire'[i])
      /\ hubSeq' = [c \in Channels |-> IF c = "inputNormal" THEN 0 ELSE 1]
  BY ResetFacts
<1>2. Sequence(hubIn') /\ \A i : i \notin 1 .. Len(hubIn')
  BY <1>1, EmptyFacts
<1>3. hubSeq' \in [Channels -> Numbers]
  BY <1>1, SeqAssumption DEF Numbers
<1> QED BY <1>1, <1>2, <1>3 DEF SH2Typed

LEMMA SH2Wrote == SH2Typed /\ write => SH2Typed'
<1> SUFFICES ASSUME SH2Typed, write PROVE SH2Typed'
  OBVIOUS
<1>1. /\ DriverOK(lib') /\ lib'.copies = lib.copies - 1 /\ lib.copies > 0
      /\ lib'.out = lib.out /\ lib'.shtp = lib.shtp
  BY WroteFacts
<1>2. lib.out.id \in RequestIds
  BY <1>1 DEF SH2Typed
<1>3. hubIn' = Append(hubIn, lib.out) /\ UNCHANGED <<wire, hubSeq, losses>>
  BY DEF write, counts
<1>4. Sequence(hubIn') /\ \A i \in 1 .. Len(hubIn') : hubIn'[i].id \in RequestIds
  <2>1. /\ Sequence(hubIn) /\ Sequence(hubIn') /\ Len(hubIn') = Len(hubIn) + 1
        /\ Len(hubIn) \in Nat
        /\ \A i \in 1 .. Len(hubIn) : hubIn'[i] = hubIn[i]
        /\ hubIn'[Len(hubIn) + 1] = lib.out
    BY <1>3, AppendFacts, SequenceFacts DEF SH2Typed
  <2>2. ASSUME NEW i \in 1 .. Len(hubIn')
        PROVE  i \in 1 .. Len(hubIn) \/ i = Len(hubIn) + 1
    BY <2>1
  <2> QED BY <1>2, <2>1, <2>2 DEF SH2Typed
<1> QED BY <1>1, <1>2, <1>3, <1>4 DEF SH2Typed

(* Transfers are added to the wire.                                          *)
LEMMA SH2Emitted ==
    ASSUME SH2Typed, NEW chan \in Channels, NEW answer, NEW ts, Emission(chan, answer, ts),
           wire' = wire \o ts,
           hubSeq' = [hubSeq EXCEPT ![chan] = (@ + Len(ts)) % SeqModulus]
    PROVE  /\ Sequence(wire') /\ \A i \in 1 .. Len(wire') : TransferOK(wire'[i])
           /\ hubSeq' \in [Channels -> Numbers]
<1>1. /\ Sequence(wire') /\ Len(ts) \in Nat
      /\ \A j \in 1 .. Len(wire') :
             \/ j \in 1 .. Len(wire) /\ wire'[j] = wire[j]
             \/ j - Len(wire) \in 1 .. Len(ts) /\ wire'[j] = ts[j - Len(wire)]
  BY EmittedFacts
<1>2. \A i \in 1 .. Len(ts) : TransferOK(ts[i])
  BY DEF Emission
<1>3. (hubSeq[chan] + Len(ts)) % SeqModulus \in Numbers
  BY <1>1, SeqAssumption DEF SH2Typed, Numbers
<1>4. hubSeq' \in [Channels -> Numbers]
  BY <1>3 DEF SH2Typed
<1>5. \A j \in 1 .. Len(wire) : TransferOK(wire[j])
  BY DEF SH2Typed
<1> QED BY <1>1, <1>2, <1>4, <1>5

LEMMA SH2Takes == SH2Typed /\ hubTakes => SH2Typed'
<1> SUFFICES ASSUME SH2Typed, hubTakes PROVE SH2Typed'
  OBVIOUS
<1>1. Sequence(hubIn') /\ \A i \in 1 .. Len(hubIn') : hubIn'[i].id \in RequestIds
  BY TookFacts DEF SH2Typed
<1>2. UNCHANGED <<lib, losses>>
  BY DEF hubTakes, counts
<1>3. /\ Sequence(wire') /\ \A i \in 1 .. Len(wire') : TransferOK(wire'[i])
      /\ hubSeq' \in [Channels -> Numbers]
  <2>1. CASE UNCHANGED <<wire, hubSeq>>
    BY <2>1 DEF SH2Typed
  <2> QED BY <2>1, TookFacts, SH2Emitted
<1> QED BY <1>1, <1>2, <1>3 DEF SH2Typed

LEMMA SH2Loses == SH2Typed /\ lose => SH2Typed'
<1> SUFFICES ASSUME SH2Typed, lose PROVE SH2Typed'
  OBVIOUS
<1>1. /\ wire # <<>> /\ wire' = Tail(wire) /\ losses' = losses + 1 /\ losses < MaxLosses
      /\ UNCHANGED <<lib, hubIn, hubSeq>>
  BY DEF lose
<1>2. Sequence(wire') /\ \A i \in 1 .. Len(wire') : TransferOK(wire'[i])
  BY <1>1, HeadFacts DEF SH2Typed
<1>3. losses' \in 0 .. MaxLosses
  BY <1>1, SH2Assumption DEF SH2Typed
<1> QED BY <1>1, <1>2, <1>3 DEF SH2Typed

-----------------------------------------------------------------------------
(* The types of any client.                                                  *)

(* Its own, and that no operation is in progress outside a call.             *)
Typed ==
    /\ SH2Typed
    /\ at \in {"closed", "opening", "idle", "calling"}
    /\ call \in 0 .. MaxCalls /\ resets \in Nat
    /\ at # "calling" => lib.copies = 0 /\ lib.pOp = "none"

LEMMA TypedInit == Init => Typed
<1> SUFFICES ASSUME Init PROVE Typed
  OBVIOUS
<1>1. SH2Typed
  BY SH2Init DEF Init
<1>2. lib.copies = 0 /\ lib.pOp = "none"
  BY FreshDriver DEF Init
<1>3. call \in 0 .. MaxCalls /\ resets \in Nat /\ at = "closed"
  BY ClientAssumption DEF Init
<1> QED BY <1>1, <1>2, <1>3 DEF Typed

LEMMA TypedServes == Typed /\ Serves => Typed'
<1> SUFFICES ASSUME Typed, Serves PROVE Typed'
  OBVIOUS
<1>1. SH2Typed'
  <2>1. /\ SH2Typed /\ DriverOK(lib) /\ ShtpOK(lib.shtp)
        /\ lib.copies > 0 => lib.out.id \in RequestIds
    BY DEF Typed, SH2Typed
  <2> QED BY <2>1, SH2Served DEF Serves
<1>2. Kept(lib, lib')
  BY ServedFacts DEF Typed
<1>3. at # "calling" => lib'.copies = 0 /\ lib'.pOp = "none"
  BY <1>2 DEF Typed, Kept
<1>4. UNCHANGED <<at, call, resets>>
  BY DEF Serves, clientVars
<1> QED BY <1>1, <1>3, <1>4 DEF Typed

LEMMA TypedReset ==
    ASSUME Typed, HubReset, resets' = resets + 1, UNCHANGED <<losses, call>>,
           DriverOK(lib'), ShtpOK(lib'.shtp), lib'.copies > 0 => lib'.out.id \in RequestIds,
           at' \in {"opening", "idle", "calling"},
           at' # "calling" => lib'.copies = 0 /\ lib'.pOp = "none"
    PROVE  Typed'
<1>1. SH2Typed'
  BY SH2Reset DEF Typed
<1>2. resets' \in Nat
  BY DEF Typed
<1> QED BY <1>1, <1>2 DEF Typed

LEMMA TypedStart == Typed /\ start => Typed'
<1> SUFFICES ASSUME Typed, start PROVE Typed'
  OBVIOUS
<1>1. PICK o \in ClientOps, sensor \in Sensors : lib' = Started(lib, o, sensor, call + 1)
  BY DEF start
<1>2. Begun(lib, lib', o, call + 1)
  BY <1>1, StartedFacts, ClientAssumption DEF Typed, SH2Typed
<1>3. /\ at = "idle" /\ lib.copies = 0 /\ call < MaxCalls /\ call' = call + 1 /\ at' = "calling"
      /\ UNCHANGED <<hubIn, wire, hubSeq, losses, resets>>
  BY DEF Typed, start, hub, counts
<1>4. DriverOK(lib') /\ lib'.shtp = lib.shtp /\ (lib'.copies > 0 => lib'.out.id \in RequestIds)
  BY <1>2, <1>3 DEF Begun
<1>5. call' \in 0 .. MaxCalls
  BY <1>3, ClientAssumption DEF Typed
<1>6. SH2Typed'
  BY <1>3, <1>4 DEF Typed, SH2Typed
<1> QED BY <1>3, <1>5, <1>6 DEF Typed

LEMMA TypedWrite == Typed /\ write /\ UNCHANGED clientVars => Typed'
<1> SUFFICES ASSUME Typed, write, UNCHANGED clientVars PROVE Typed'
  OBVIOUS
<1>1. SH2Typed'
  BY SH2Wrote DEF Typed
<1>2. at = "calling" /\ UNCHANGED <<at, call, resets>>
  BY WroteFacts DEF Typed, clientVars
<1> QED BY <1>1, <1>2 DEF Typed

LEMMA TypedTakes == Typed /\ hubTakes /\ UNCHANGED clientVars => Typed'
  BY SH2Takes DEF Typed, hubTakes, clientVars

LEMMA TypedStep == Typed /\ [Next]_vars => Typed'
<1> SUFFICES ASSUME Typed, [Next]_vars PROVE Typed'
  OBVIOUS
<1>1. CASE Resets
  <2>1. at' \in {"opening", "idle", "calling"}
    BY <1>1 DEF Resets, Typed, SH2Typed
  <2>2. /\ HubReset /\ resets' = resets + 1
        /\ UNCHANGED <<losses, call, lib, at>>
    BY <1>1 DEF Resets
  <2>3. /\ DriverOK(lib') /\ ShtpOK(lib'.shtp) /\ (lib'.copies > 0 => lib'.out.id \in RequestIds)
        /\ (at' # "calling" => lib'.copies = 0 /\ lib'.pOp = "none")
    BY <2>2 DEF Typed, SH2Typed
  <2> QED BY <2>1, <2>2, <2>3, TypedReset
<1>2. CASE open
  <2>1. lib' = Opened(lib) /\ HubReset /\ at' = "opening" /\ resets' = resets + 1
        /\ UNCHANGED <<losses, call>>
    BY <1>2 DEF open, counts
  <2>2. DriverOK(lib') /\ ShtpOK(lib'.shtp) /\ lib'.copies = 0 /\ lib'.pOp = "none"
    BY <2>1, FreshDriver, NewInstanceOK
  <2>3. ~(lib'.copies > 0)
    BY <2>2
  <2> QED BY <2>1, <2>2, <2>3, TypedReset
<1>3. CASE close
  <2>1. /\ lib' = Closed(lib) /\ at' = "closed"
        /\ UNCHANGED <<hubIn, wire, hubSeq, losses, call, resets>>
    BY <1>3 DEF close, hub, counts
  <2>2. DriverOK(lib') /\ ShtpOK(lib'.shtp) /\ lib'.copies = 0 /\ lib'.pOp = "none"
    BY <2>1, FreshDriver, NewInstanceOK
  <2>3. ~(lib'.copies > 0)
    BY <2>2
  <2> QED BY <2>1, <2>2, <2>3 DEF Typed, SH2Typed
<1>4. CASE opened
  BY <1>4 DEF opened, Typed, SH2Typed, sh2Vars, hub, counts
<1>5. CASE return
  <2>1. ~(lib.copies > 0) /\ lib.pOp = "none" /\ lib.copies \in Nat
    BY <1>5 DEF return, Blocked, Typed, SH2Typed, DriverOK
  <2>2. lib.copies = 0
    BY <2>1
  <2>3. at' = "idle" /\ UNCHANGED <<lib, hubIn, wire, hubSeq, losses, call, resets>>
    BY <1>5 DEF return, sh2Vars, hub, counts
  <2> QED BY <2>1, <2>2, <2>3 DEF Typed, SH2Typed
<1>6. CASE Rests
  BY <1>6 DEF Rests, Typed, SH2Typed, hub, clientVars
<1>7. CASE lose /\ UNCHANGED clientVars
  BY <1>7, SH2Loses DEF Typed, lose, clientVars
<1> QED BY <1>1, <1>2, <1>3, <1>4, <1>5, <1>6, <1>7, Steps, TypedServes, TypedStart, TypedWrite,
           TypedTakes

(* What the driver, its transport and the wire hold are always of their      *)
(* types: a payload under construction and the transfers are of channels and *)
(* numbers there are, and no operation is in progress outside a call.        *)
THEOREM DriverTypes == Spec => []Typed
  BY TypedInit, TypedStep, PTL DEF Spec

-----------------------------------------------------------------------------
(* Requests arrive.                                                          *)

Arrived(c, in, by) == c \in by \/ \E i \in 1 .. Len(in) : in[i].of = c

(* A call that goes on is still being written, or has arrived, or has failed *)
(* for want of a channel.  A reset makes the hub forget it, but not the      *)
(* first one, that of sh2_open().                                            *)
ReqInv ==
    /\ at = "calling" => lib.of = call
    /\ at = "calling" /\ lib.copies > 0 => lib.out.of = call
    /\ resets = 0 => at = "closed" /\ done.status # "SH2_OK"
    /\ resets <= 1 =>
          /\ at = "calling" =>
                \/ lib.copies > 0 \/ Arrived(call, hubIn, taken)
                \/ lib.pOp = "none" /\ lib.opStatus = "SH2_ERR_BAD_PARAM"
          /\ done.status = "SH2_OK" => Arrived(done.call, hubIn, taken)

LEMMA StaysArrived ==
    ASSUME Typed, [Next]_vars, ~(Resets \/ open), NEW c, Arrived(c, hubIn, taken)
    PROVE  Arrived(c, hubIn', taken')
<1>1. CASE UNCHANGED <<hubIn, taken>>
  BY <1>1 DEF Arrived
<1>2. CASE write /\ UNCHANGED clientVars
  <2>1. hubIn' = Append(hubIn, lib.out) /\ taken' = taken /\ Sequence(hubIn)
    BY <1>2 DEF write, Typed, SH2Typed
  <2>2. /\ Len(hubIn') = Len(hubIn) + 1 /\ Len(hubIn) \in Nat
        /\ \A i \in 1 .. Len(hubIn) : hubIn'[i] = hubIn[i]
    BY <2>1, AppendFacts, SequenceFacts
  <2>3. \A i \in 1 .. Len(hubIn) : i \in 1 .. Len(hubIn')
    BY <2>2
  <2> QED BY <2>1, <2>2, <2>3 DEF Arrived
<1>3. CASE hubTakes /\ UNCHANGED clientVars
  <2>1. /\ Len(hubIn) \in Nat /\ 1 \in 1 .. Len(hubIn) /\ Len(hubIn') = Len(hubIn) - 1
        /\ \A i \in 1 .. Len(hubIn) - 1 : hubIn'[i] = hubIn[i + 1]
        /\ taken' = taken \union {hubIn[1].of}
    BY <1>3, TookFacts DEF Typed
  <2>2. CASE c \in taken
    BY <2>1, <2>2 DEF Typed, Arrived
  <2>3. ASSUME NEW i \in 1 .. Len(hubIn), hubIn[i].of = c PROVE Arrived(c, hubIn', taken')
    <3>1. CASE i = 1
      BY <2>1, <2>3, <3>1 DEF Arrived
    <3>2. CASE i # 1
      <4>1. i - 1 \in 1 .. Len(hubIn') /\ i - 1 \in 1 .. Len(hubIn) - 1 /\ (i - 1) + 1 = i
        BY <2>1, <3>2
      <4>2. hubIn'[i - 1].of = c
        BY <2>1, <2>3, <4>1
      <4> QED BY <4>1, <4>2 DEF Arrived
    <3> QED BY <3>1, <3>2
  <2> QED BY <2>2, <2>3 DEF Arrived
<1>4. CASE Serves \/ Rests \/ opened \/ close \/ start \/ return \/ (lose /\ UNCHANGED clientVars)
  <2>1. UNCHANGED <<hubIn, taken>>
    BY <1>4 DEF Serves, Rests, opened, close, start, return, lose, hub, sh2Vars
  <2> QED BY <1>1, <2>1
<1> QED BY <1>2, <1>3, <1>4, Steps

LEMMA ReqInit == Init => ReqInv
  BY DEF Init, ReqInv, NoResult

LEMMA ReqStep == Typed /\ ReqInv /\ [Next]_vars => ReqInv'
<1> SUFFICES ASSUME Typed, ReqInv, [Next]_vars PROVE ReqInv'
  OBVIOUS
<1>1. resets \in Nat /\ lib.copies \in Nat
  BY DEF Typed, SH2Typed, DriverOK
<1>2. CASE Resets
  <2>1. resets' = resets + 1 /\ resets # 0 /\ UNCHANGED <<lib, at, call>>
    BY <1>2 DEF Resets, ReqInv
  <2>2. resets' # 0 /\ ~(resets' <= 1)
    BY <1>1, <2>1
  <2> QED BY <2>1, <2>2 DEF ReqInv
<1>3. CASE open
  <2>1. at' = "opening" /\ resets' = resets + 1 /\ done' = done
    BY <1>3 DEF open
  <2>2. resets' # 0 /\ (resets' <= 1 => resets = 0)
    BY <1>1, <2>1
  <2> QED BY <2>1, <2>2 DEF ReqInv
<1>4. ASSUME ~(Resets \/ open), done' = done, resets' = resets,
             resets = 0 => at' = "closed",
             at' = "calling" =>
                /\ lib'.of = call' /\ (lib'.copies > 0 => lib'.out.of = call')
                /\ resets <= 1 =>
                      \/ lib'.copies > 0 \/ Arrived(call', hubIn', taken') \/ Arrived(call', hubIn, taken)
                      \/ lib'.pOp = "none" /\ lib'.opStatus = "SH2_ERR_BAD_PARAM"
      PROVE  ReqInv'
  <2>1. resets <= 1 /\ done'.status = "SH2_OK" => Arrived(done'.call, hubIn', taken')
    BY <1>4, StaysArrived DEF ReqInv
  <2>2. Arrived(call', hubIn, taken) => Arrived(call', hubIn', taken')
    BY <1>4, StaysArrived
  <2> QED BY <1>4, <2>1, <2>2 DEF ReqInv
<1>5. CASE Serves /\ ~(Resets \/ open)
  <2>1. Kept(lib, lib')
    BY <1>5, ServedFacts DEF Typed
  <2>2. UNCHANGED <<at, call, done, resets>>
    BY <1>5 DEF Serves, clientVars
  <2>3. ASSUME at = "calling"
        PROVE  /\ lib'.of = call /\ (lib'.copies > 0 => lib'.out.of = call)
               /\ resets <= 1 =>
                      \/ lib'.copies > 0 \/ Arrived(call, hubIn, taken)
                      \/ lib'.pOp = "none" /\ lib'.opStatus = "SH2_ERR_BAD_PARAM"
    <3>1. lib'.copies \in Nat /\ lib'.copies >= lib.copies
      BY <1>1, <2>1 DEF Kept, KeepsWriting, DriverOK
    <3> QED BY <1>1, <2>1, <2>3, <3>1 DEF ReqInv, Kept, KeepsWriting
  <2> QED BY <1>4, <1>5, <2>2, <2>3 DEF ReqInv
<1>6. CASE start /\ ~(Resets \/ open)
  <2>1. PICK o \in ClientOps, sensor \in Sensors : lib' = Started(lib, o, sensor, call + 1)
    BY <1>6 DEF start
  <2>2. Begun(lib, lib', o, call + 1)
    BY <2>1, StartedFacts, ClientAssumption DEF Typed, SH2Typed
  <2>3. /\ at = "idle" /\ lib.copies = 0 /\ call' = call + 1 /\ done' = done /\ resets' = resets
    BY <1>6 DEF Typed, SH2Typed, start
  <2>4. /\ lib'.of = call' /\ (lib'.copies > 0 => lib'.out.of = call')
        /\ \/ lib'.copies > 0
           \/ lib'.pOp = "none" /\ lib'.opStatus = "SH2_ERR_BAD_PARAM"
    BY <2>2, <2>3 DEF Begun
  <2> QED BY <1>4, <1>6, <2>3, <2>4 DEF ReqInv
<1>7. CASE write /\ UNCHANGED clientVars /\ ~(Resets \/ open)
  <2>1. /\ lib'.copies = lib.copies - 1 /\ lib.copies > 0
        /\ lib'.out = lib.out /\ lib'.of = lib.of
    BY <1>7, WroteFacts DEF Typed
  <2>2. at = "calling" /\ UNCHANGED <<at, call, done, resets>>
    BY <1>7, <2>1 DEF Typed, SH2Typed, clientVars
  <2>3. lib.of = call /\ lib.out.of = call
    BY <2>1, <2>2 DEF ReqInv
  <2>4. hubIn' = Append(hubIn, lib.out) /\ Sequence(hubIn)
    BY <1>7 DEF write, Typed, SH2Typed
  <2>5. Len(hubIn) \in Nat /\ Len(hubIn') = Len(hubIn) + 1 /\ hubIn'[Len(hubIn) + 1] = lib.out
    BY <2>4, AppendFacts, SequenceFacts
  <2>6. Len(hubIn) + 1 \in 1 .. Len(hubIn')
    BY <2>5
  <2>7. Arrived(call', hubIn', taken')
    BY <2>2, <2>3, <2>5, <2>6 DEF Arrived
  <2> QED BY <1>4, <1>7, <2>1, <2>2, <2>3, <2>7 DEF ReqInv
<1>8. CASE return /\ ~(Resets \/ open)
  <2>1. /\ at = "calling" /\ ~(lib.copies > 0) /\ at' = "idle" /\ resets' = resets
        /\ done'.status = lib.opStatus /\ done'.call = call
    BY <1>8 DEF return, Blocked
  <2>2. resets <= 1 /\ done'.status = "SH2_OK" => Arrived(call, hubIn', taken')
    <3>1. lib.opStatus = "SH2_OK" => lib.opStatus # "SH2_ERR_BAD_PARAM"
      OBVIOUS
    <3> QED BY <1>8, <2>1, <3>1, StaysArrived DEF ReqInv
  <2>3. resets # 0
    BY <2>1 DEF ReqInv
  <2> QED BY <2>1, <2>2, <2>3 DEF ReqInv
<1>9. CASE (hubTakes \/ lose) /\ UNCHANGED clientVars /\ ~(Resets \/ open)
  <2>1. UNCHANGED <<lib, at, call, done, resets>>
    BY <1>9 DEF hubTakes, lose, clientVars
  <2> QED BY <1>4, <1>9, <2>1 DEF ReqInv
<1>10. CASE Rests /\ ~(Resets \/ open)
  <2>1. UNCHANGED <<lib, at, call, done, resets>>
    BY <1>10 DEF Rests, clientVars
  <2> QED BY <1>4, <1>10, <2>1 DEF ReqInv
<1>11. CASE (opened \/ close) /\ ~(Resets \/ open)
  <2>1. /\ at' # "calling" /\ UNCHANGED <<call, done, resets>>
        /\ resets # 0
    BY <1>11 DEF opened, close, sh2Vars, ReqInv
  <2> QED BY <1>4, <1>11, <2>1
<1> QED BY <1>2, <1>3, <1>5, <1>6, <1>7, <1>8, <1>9, <1>10, <1>11, Steps

(* Every request of an operation that ended well has reached the hub: with   *)
(* no bound on refused writes or lost transfers.                             *)
THEOREM RequestsInvariant == Spec => []ReqInv
<1>1. Typed /\ ReqInv /\ [Next]_vars => ReqInv'
  BY ReqStep
<1> QED BY <1>1, ReqInit, DriverTypes, PTL DEF Spec

(* An operation that ends well has reached the hub, unless the hub was reset *)
(* after that (opProcess, txProcess).                                        *)
THEOREM RequestsReachHub == Spec => []RequestsArrive
<1>1. Typed /\ ReqInv => RequestsArrive
  <2> SUFFICES ASSUME Typed, ReqInv, done.status = "SH2_OK", ~(resets > 1)
               PROVE  done.call \in taken \/ \E i \in DOMAIN hubIn : hubIn[i].of = done.call
    BY DEF RequestsArrive
  <2>1. resets <= 1 /\ DOMAIN hubIn = 1 .. Len(hubIn)
    BY SequenceFacts DEF Typed, SH2Typed
  <2> QED BY <2>1 DEF ReqInv, Arrived
<1> QED BY <1>1, DriverTypes, RequestsInvariant, PTL

-----------------------------------------------------------------------------
(* Answers are of their calls.                                               *)

IsCommand(r) == r.id \in {"COMMAND_REQ", "COMMAND_RESP"}

(* What is on its way between the driver and the hub: requests the hub has   *)
(* not taken, the one being written, reports on the wire, and those of a     *)
(* payload under construction.                                               *)
OnWay(r, l, in, w) ==
    \/ \E i \in 1 .. Len(in) : in[i] = r
    \/ l.copies > 0 /\ l.out = r
    \/ \E i \in 1 .. Len(w) : r \in ReportsOf(w[i].part)
    \/ l.shtp.inRemaining > 0 /\ r \in ReportsOf(l.shtp.inPayload)

(* The numbers of commands on their way have been given to a command before. *)
Numbered(r) == r.key[1] = "UNSOLICITED" \/ (r.key[2] \in Nat /\ r.key[2] < lib.nextCmdSeq)

(* As long as the numbers do not come round, one that a command waits for is *)
(* its own.                                                                  *)
CmdInv ==
    /\ lib.nextCmdSeq \in 0 .. call
    /\ at # "closed" =>
          \A r : OnWay(r, lib, hubIn, wire) /\ IsCommand(r) => Numbered(r)
    /\ at = "calling" /\ op \in CommandOps =>
          /\ lib.pOp \in {op, "none"} /\ lib.cmd[1] # "UNSOLICITED"
          /\ \A h \in lib.heard : h[1] = call
          /\ \A r : OnWay(r, lib, hubIn, wire) /\ IsCommand(r) /\ r.key = lib.cmd => r.of = call

LEMMA ServedWay ==
    ASSUME Typed, Serves, NEW r, IsCommand(r), OnWay(r, lib', hubIn', wire')
    PROVE  OnWay(r, lib, hubIn, wire)
<1> DEFINE p == rxAppend(lib.shtp, wire[1]).inPayload
           old == IF lib.shtp.inRemaining > 0 THEN ReportsOf(lib.shtp.inPayload) ELSE {}
<1>1. /\ Kept(lib, lib') /\ lib'.shtp.inRemaining = wire[1].rest
      /\ lib'.shtp.inPayload = IF wire[1].rest = 0 THEN <<>> ELSE p
      /\ ReportsOf(p) \subseteq ReportsOf(wire[1].part) \union old
  BY ServedFacts DEF Typed
<1> HIDE DEF p
<1>2. hubIn' = hubIn /\ wire # <<>> /\ wire' = Tail(wire)
  BY DEF Serves
<1>3. /\ Len(wire) \in Nat /\ Len(wire') = Len(wire) - 1 /\ 1 \in 1 .. Len(wire)
      /\ \A i \in 1 .. Len(wire) - 1 : wire'[i] = wire[i + 1] /\ i + 1 \in 1 .. Len(wire)
  BY <1>2, HeadFacts DEF Typed
<1>4. CASE \E i \in 1 .. Len(hubIn') : hubIn'[i] = r
  BY <1>2, <1>4 DEF OnWay
<1>5. CASE lib'.copies > 0 /\ lib'.out = r
  <2>1. r.id # "FRS_WRITE_DATA_REQ"
    BY DEF IsCommand
  <2> QED BY <1>1, <1>5, <2>1 DEF OnWay, Kept, KeepsWriting
<1>6. ASSUME NEW i \in 1 .. Len(wire'), r \in ReportsOf(wire'[i].part)
      PROVE  OnWay(r, lib, hubIn, wire)
  <2>1. i + 1 \in 1 .. Len(wire) /\ wire'[i] = wire[i + 1]
    BY <1>3
  <2> QED BY <1>6, <2>1 DEF OnWay
<1>7. CASE lib'.shtp.inRemaining > 0 /\ r \in ReportsOf(lib'.shtp.inPayload)
  <2>1. r \in ReportsOf(wire[1].part) \union old
    BY <1>1, <1>7
  <2>2. CASE r \in ReportsOf(wire[1].part)
    BY <1>3, <2>2 DEF OnWay
  <2>3. CASE r \in old
    BY <2>3 DEF OnWay
  <2> QED BY <2>1, <2>2, <2>3
<1> QED BY <1>4, <1>5, <1>6, <1>7 DEF OnWay

LEMMA PayloadWay ==
    ASSUME Typed, wire # <<>>, NEW r \in ReportsOf(rxAppend(lib.shtp, wire[1]).inPayload)
    PROVE  OnWay(r, lib, hubIn, wire)
<1>1. 1 \in 1 .. Len(wire) /\ TransferOK(wire[1]) /\ ShtpOK(lib.shtp)
  BY HeadFacts DEF Typed, SH2Typed
<1>2. r \in ReportsOf(wire[1].part) \union
             (IF lib.shtp.inRemaining > 0 THEN ReportsOf(lib.shtp.inPayload) ELSE {})
  BY <1>1, AppendedFacts
<1>3. CASE r \in ReportsOf(wire[1].part)
  BY <1>1, <1>3 DEF OnWay
<1>4. CASE lib.shtp.inRemaining > 0 /\ r \in ReportsOf(lib.shtp.inPayload)
  BY <1>4 DEF OnWay
<1> QED BY <1>2, <1>3, <1>4

LEMMA TookWay ==
    ASSUME Typed, hubTakes, NEW r, OnWay(r, lib', hubIn', wire')
    PROVE  \/ OnWay(r, lib, hubIn, wire)
           \/ AnswerTo(hubIn[1], r) /\ OnWay(hubIn[1], lib, hubIn, wire)
<1>1. lib' = lib
  BY DEF hubTakes
<1>2. /\ Len(hubIn) \in Nat /\ 1 \in 1 .. Len(hubIn) /\ Len(hubIn') = Len(hubIn) - 1
      /\ \A i \in 1 .. Len(hubIn) - 1 : hubIn'[i] = hubIn[i + 1] /\ i + 1 \in 1 .. Len(hubIn)
  BY TookFacts DEF Typed
<1>3. OnWay(hubIn[1], lib, hubIn, wire)
  BY <1>2 DEF OnWay
<1>4. ASSUME NEW i \in 1 .. Len(hubIn'), hubIn'[i] = r PROVE OnWay(r, lib, hubIn, wire)
  <2>1. i + 1 \in 1 .. Len(hubIn) /\ hubIn'[i] = hubIn[i + 1]
    BY <1>2
  <2> QED BY <1>4, <2>1 DEF OnWay
<1>5. ASSUME NEW i \in 1 .. Len(wire'), r \in ReportsOf(wire'[i].part)
      PROVE  OnWay(r, lib, hubIn, wire) \/ AnswerTo(hubIn[1], r)
  <2>1. CASE UNCHANGED <<wire, hubSeq>>
    BY <1>5, <2>1 DEF OnWay
  <2>2. ASSUME NEW chan \in Channels, NEW answer, NEW ts, Emission(chan, answer, ts),
               \A a \in ReportsOf(answer) : AnswerTo(hubIn[1], a),
               wire' = wire \o ts
        PROVE  OnWay(r, lib, hubIn, wire) \/ AnswerTo(hubIn[1], r)
    <3>1. \/ i \in 1 .. Len(wire) /\ wire'[i] = wire[i]
          \/ i - Len(wire) \in 1 .. Len(ts) /\ wire'[i] = ts[i - Len(wire)]
      BY <2>2, EmittedFacts
    <3>2. CASE i \in 1 .. Len(wire) /\ wire'[i] = wire[i]
      BY <1>5, <3>2 DEF OnWay
    <3>3. CASE i - Len(wire) \in 1 .. Len(ts) /\ wire'[i] = ts[i - Len(wire)]
      <4>1. ReportsOf(wire'[i].part) \subseteq ReportsOf(answer)
        BY <2>2, <3>3 DEF Emission
      <4> QED BY <1>5, <2>2, <4>1
    <3> QED BY <3>1, <3>2, <3>3
  <2> QED BY <2>1, <2>2, TookFacts DEF Typed
<1> QED BY <1>1, <1>3, <1>4, <1>5 DEF OnWay

LEMMA WroteWay ==
    ASSUME Typed, write, NEW r, OnWay(r, lib', hubIn', wire')
    PROVE  OnWay(r, lib, hubIn, wire)
<1>1. /\ lib'.copies = lib.copies - 1 /\ lib.copies > 0 /\ lib.copies \in Nat
      /\ lib'.out = lib.out /\ lib'.shtp = lib.shtp
  BY WroteFacts DEF Typed, SH2Typed, DriverOK
<1>2. wire' = wire /\ hubIn' = Append(hubIn, lib.out)
  BY DEF write
<1>3. /\ Len(hubIn') = Len(hubIn) + 1 /\ Len(hubIn) \in Nat
      /\ \A i \in 1 .. Len(hubIn) : hubIn'[i] = hubIn[i]
      /\ hubIn'[Len(hubIn) + 1] = lib.out
  BY <1>2, AppendFacts, SequenceFacts DEF Typed, SH2Typed
<1>4. ASSUME NEW i \in 1 .. Len(hubIn'), hubIn'[i] = r PROVE OnWay(r, lib, hubIn, wire)
  <2>1. i \in 1 .. Len(hubIn) \/ i = Len(hubIn) + 1
    BY <1>3
  <2> QED BY <1>1, <1>3, <1>4, <2>1 DEF OnWay
<1>5. CASE lib'.copies > 0 /\ lib'.out = r
  BY <1>1, <1>5 DEF OnWay
<1> QED BY <1>1, <1>2, <1>4, <1>5 DEF OnWay

LEMMA LostWay ==
    ASSUME Typed, lose, NEW r, OnWay(r, lib', hubIn', wire')
    PROVE  OnWay(r, lib, hubIn, wire)
<1>1. lib' = lib /\ hubIn' = hubIn /\ wire # <<>> /\ wire' = Tail(wire)
  BY DEF lose
<1>2. /\ Len(wire') = Len(wire) - 1
      /\ \A i \in 1 .. Len(wire) - 1 : wire'[i] = wire[i + 1] /\ i + 1 \in 1 .. Len(wire)
  BY <1>1, HeadFacts DEF Typed
<1>3. ASSUME NEW i \in 1 .. Len(wire'), r \in ReportsOf(wire'[i].part)
      PROVE  OnWay(r, lib, hubIn, wire)
  <2>1. i + 1 \in 1 .. Len(wire) /\ wire'[i] = wire[i + 1]
    BY <1>2
  <2> QED BY <1>3, <2>1 DEF OnWay
<1> QED BY <1>1, <1>3 DEF OnWay

(* A reset leaves what the driver has, and what the hub says of it.          *)
LEMMA ResetWay ==
    ASSUME HubReset, NEW r, IsCommand(r), NEW l, OnWay(r, l, hubIn', wire')
    PROVE  \/ r.key[1] = "UNSOLICITED"
           \/ l.copies > 0 /\ l.out = r
           \/ l.shtp.inRemaining > 0 /\ r \in ReportsOf(l.shtp.inPayload)
<1>1. /\ hubIn' = <<>> /\ Len(wire') = 3
      /\ \A i \in 1 .. 3 : \A s \in ReportsOf(wire'[i].part) :
            s.id \in {"COMMAND_REQ", "COMMAND_RESP"} => s.key[1] = "UNSOLICITED"
  BY ResetFacts
<1>2. \A i : i \notin 1 .. Len(hubIn')
  BY <1>1, EmptyFacts
<1> QED BY <1>1, <1>2 DEF OnWay, IsCommand

(* The client makes fewer calls than there are numbers of commands (256).    *)
NumbersSuffice == MaxCalls < SeqModulus

LEMMA CmdInit == Init => CmdInv
<1> SUFFICES ASSUME Init PROVE CmdInv
  OBVIOUS
<1>1. at = "closed" /\ call = 0 /\ lib.nextCmdSeq = 0
  BY FreshDriver DEF Init
<1> QED BY <1>1 DEF CmdInv

(* A step in which the driver goes on as it is and nothing new is on its way.*)
LEMMA CmdKept ==
    ASSUME CmdInv, UNCHANGED <<at, op, call>>, lib'.nextCmdSeq = lib.nextCmdSeq,
           lib'.cmd = lib.cmd, lib'.pOp \in {lib.pOp, "none"},
           \A r : IsCommand(r) /\ OnWay(r, lib', hubIn', wire') =>
                     OnWay(r, lib, hubIn, wire)
                     \/ (r.key[1] = "UNSOLICITED" /\ at # "closed"),
           at = "calling" /\ op \in CommandOps => \A h \in lib'.heard : h[1] = call
    PROVE  CmdInv'
<1>1. lib'.nextCmdSeq \in 0 .. call'
  BY DEF CmdInv
<1>2. at' # "closed" =>
          \A r : OnWay(r, lib', hubIn', wire') /\ IsCommand(r) => Numbered(r)'
  BY DEF CmdInv, Numbered
<1>3. ASSUME at' = "calling", op' \in CommandOps
      PROVE  /\ lib'.pOp \in {op', "none"} /\ lib'.cmd[1] # "UNSOLICITED"
             /\ \A h \in lib'.heard : h[1] = call'
             /\ \A r : OnWay(r, lib', hubIn', wire') /\ IsCommand(r) /\ r.key = lib'.cmd
                          => r.of = call'
  BY <1>3 DEF CmdInv
<1> QED BY <1>1, <1>2, <1>3 DEF CmdInv

LEMMA CmdServes == Typed /\ CmdInv /\ Serves => CmdInv'
<1> SUFFICES ASSUME Typed, CmdInv, Serves PROVE CmdInv'
  OBVIOUS
<1> DEFINE p == rxAppend(lib.shtp, wire[1]).inPayload
<1>1. Kept(lib, lib') /\ HearsOwn(lib, lib', ReportsOf(p))
  BY ServedFacts DEF Typed
<1>2. UNCHANGED <<at, op, call>> /\ wire # <<>>
  BY DEF Serves, clientVars
<1>3. \A r \in ReportsOf(p) : OnWay(r, lib, hubIn, wire)
  BY <1>2, PayloadWay
<1> HIDE DEF p
<1>4. ASSUME at = "calling", op \in CommandOps, NEW h \in lib'.heard PROVE h[1] = call
  <2>1. lib.pOp \in CommandOps \union {"none"}
    BY <1>4 DEF CmdInv
  <2>2. h \in lib.heard \/ \E r \in ReportsOf(p) : Response(lib, r) /\ h[1] = r.of
    BY <1>1, <1>4, <2>1 DEF HearsOwn
  <2> QED BY <1>3, <1>4, <2>2 DEF CmdInv, Response, IsCommand
<1>5. \A r : IsCommand(r) /\ OnWay(r, lib', hubIn', wire') => OnWay(r, lib, hubIn, wire)
  BY ServedWay
<1> QED BY <1>1, <1>2, <1>4, <1>5, CmdKept DEF Kept

LEMMA CmdStart == NumbersSuffice /\ Typed /\ CmdInv /\ start => CmdInv'
<1> SUFFICES ASSUME NumbersSuffice, Typed, CmdInv, start PROVE CmdInv'
  OBVIOUS
<1>1. PICK o \in ClientOps, sensor \in Sensors :
         lib' = Started(lib, o, sensor, call + 1) /\ op' = o
  BY DEF start
<1>2. Begun(lib, lib', o, call + 1)
  BY <1>1, StartedFacts, ClientAssumption DEF Typed, SH2Typed
<1>3. /\ at = "idle" /\ lib.copies = 0 /\ call < MaxCalls /\ call' = call + 1 /\ at' = "calling"
      /\ UNCHANGED <<hubIn, wire>> /\ call \in 0 .. MaxCalls
  BY DEF Typed, SH2Typed, start, hub
<1>4. lib.nextCmdSeq \in 0 .. call
  BY DEF CmdInv
<1>5. (lib.nextCmdSeq + 1) % SeqModulus = lib.nextCmdSeq + 1
  BY <1>3, <1>4, SeqAssumption, ClientAssumption DEF NumbersSuffice
<1>6. /\ o \in CommandOps => lib'.nextCmdSeq = lib.nextCmdSeq + 1
      /\ o \notin CommandOps => lib'.nextCmdSeq = lib.nextCmdSeq
  BY <1>2, <1>5 DEF Begun
<1>7. lib'.nextCmdSeq \in 0 .. call' /\ lib.nextCmdSeq \in Nat
      /\ lib'.nextCmdSeq >= lib.nextCmdSeq
  BY <1>3, <1>4, <1>6
<1>8. ASSUME NEW r, OnWay(r, lib', hubIn', wire'), IsCommand(r)
      PROVE  \/ OnWay(r, lib, hubIn, wire)
             \/ r = lib'.out /\ r.of = call' /\ r.key = lib'.cmd /\ o \in CommandOps
  <2>1. CASE lib'.copies > 0 /\ lib'.out = r
    <3>1. /\ r.of = call + 1 /\ r.id \in RequestIds
          /\ r.id = "COMMAND_REQ" => o \in CommandOps /\ r.key = lib'.cmd
      BY <1>2, <1>3, <2>1 DEF Begun
    <3>2. r.id = "COMMAND_REQ"
      BY <1>8, <3>1 DEF RequestIds, IsCommand
    <3> QED BY <1>3, <2>1, <3>1, <3>2
  <2>2. CASE ~(lib'.copies > 0 /\ lib'.out = r)
    BY <1>2, <1>3, <1>8, <2>2 DEF OnWay, Begun
  <2> QED BY <2>1, <2>2
<1>9. ASSUME NEW r, OnWay(r, lib, hubIn, wire), IsCommand(r)
      PROVE  Numbered(r)' /\ (o \in CommandOps => r.key # lib'.cmd)
  <2>1. Numbered(r)
    BY <1>3, <1>9 DEF CmdInv
  <2>2. Numbered(r)'
    BY <1>7, <2>1 DEF Numbered
  <2>3. ASSUME o \in CommandOps, r.key = lib'.cmd PROVE FALSE
    <3>1. r.key[1] # "UNSOLICITED" /\ r.key[2] = lib.nextCmdSeq
      BY <1>2, <2>3 DEF Begun
    <3> QED BY <1>7, <2>1, <3>1 DEF Numbered
  <2> QED BY <2>2, <2>3
<1>10. ASSUME NEW r, OnWay(r, lib', hubIn', wire'), IsCommand(r)
       PROVE  Numbered(r)' /\ (o \in CommandOps /\ r.key = lib'.cmd => r.of = call')
  <2>1. CASE OnWay(r, lib, hubIn, wire)
    BY <1>9, <1>10, <2>1
  <2>2. CASE r.of = call' /\ r.key = lib'.cmd /\ o \in CommandOps
    <3>1. r.key[2] = lib.nextCmdSeq /\ lib'.nextCmdSeq = lib.nextCmdSeq + 1
      BY <1>2, <1>6, <2>2 DEF Begun
    <3> QED BY <1>7, <2>2, <3>1 DEF Numbered
  <2> QED BY <1>8, <1>10, <2>1, <2>2
<1>11. ASSUME op' \in CommandOps
       PROVE  lib'.pOp \in {op', "none"} /\ lib'.cmd[1] # "UNSOLICITED" /\ lib'.heard = {}
  BY <1>1, <1>2, <1>11 DEF Begun
<1> QED BY <1>1, <1>3, <1>7, <1>10, <1>11 DEF CmdInv

LEMMA CmdStep == NumbersSuffice /\ Typed /\ CmdInv /\ [Next]_vars => CmdInv'
<1> SUFFICES ASSUME NumbersSuffice, Typed, CmdInv, [Next]_vars PROVE CmdInv'
  OBVIOUS
<1>1. CASE Resets
  <2>1. HubReset /\ UNCHANGED <<lib, at, op, call>> /\ at # "closed"
    BY <1>1 DEF Resets
  <2>2. \A r : IsCommand(r) /\ OnWay(r, lib', hubIn', wire') =>
                  OnWay(r, lib, hubIn, wire) \/ (r.key[1] = "UNSOLICITED" /\ at # "closed")
    BY <2>1, ResetWay DEF OnWay
  <2>3. at = "calling" /\ op \in CommandOps => \A h \in lib'.heard : h[1] = call
    BY <2>1 DEF CmdInv
  <2> QED BY <2>1, <2>2, <2>3, CmdKept
<1>2. CASE open
  <2>1. HubReset /\ lib' = Opened(lib) /\ call' = call /\ at' = "opening" /\ call \in Nat
    BY <1>2 DEF open, Typed, SH2Typed
  <2>2. lib'.copies = 0 /\ lib'.nextCmdSeq = 0 /\ lib'.shtp.inRemaining = 0
    BY <2>1, FreshDriver, NewInstanceOK
  <2>3. \A r : IsCommand(r) /\ OnWay(r, lib', hubIn', wire') => r.key[1] = "UNSOLICITED"
    BY <2>1, <2>2, ResetWay
  <2> QED BY <2>1, <2>2, <2>3 DEF CmdInv, Numbered
<1>3. CASE close
  <2>1. lib' = Closed(lib) /\ call' = call /\ at' = "closed" /\ call \in Nat
    BY <1>3 DEF close, Typed, SH2Typed
  <2>2. lib'.nextCmdSeq = 0
    BY <2>1, FreshDriver
  <2> QED BY <2>1, <2>2 DEF CmdInv
<1>4. CASE opened \/ return
  <2>1. /\ UNCHANGED <<lib, hubIn, wire, call>>
        /\ at' = "idle" /\ at # "closed"
    BY <1>4 DEF opened, return, sh2Vars, hub
  <2> QED BY <2>1 DEF CmdInv, Numbered
<1>5. CASE Rests
  BY <1>5 DEF Rests, CmdInv, Numbered, clientVars, hub
<1>6. CASE hubTakes /\ UNCHANGED clientVars
  <2>1. UNCHANGED <<lib, at, op, call>>
    BY <1>6 DEF hubTakes, clientVars
  <2>2. ASSUME NEW r, IsCommand(r), OnWay(r, lib', hubIn', wire'),
               ~OnWay(r, lib, hubIn, wire)
        PROVE  /\ hubIn[1].id = "COMMAND_REQ" /\ r.key = hubIn[1].key /\ r.of = hubIn[1].of
               /\ IsCommand(hubIn[1]) /\ OnWay(hubIn[1], lib, hubIn, wire)
    <3>1. AnswerTo(hubIn[1], r) /\ OnWay(hubIn[1], lib, hubIn, wire)
      BY <1>6, <2>2, TookWay
    <3>2. r.id = "COMMAND_RESP"
      BY <2>2, <3>1 DEF IsCommand, AnswerTo
    <3> QED BY <3>1, <3>2 DEF IsCommand, AnswerTo
  <2>3. ASSUME at # "closed", NEW r, IsCommand(r), OnWay(r, lib', hubIn', wire')
        PROVE  Numbered(r)
    BY <2>2, <2>3 DEF CmdInv, Numbered
  <2>4. ASSUME at = "calling", op \in CommandOps, NEW r, IsCommand(r),
               OnWay(r, lib', hubIn', wire'), r.key = lib.cmd
        PROVE  r.of = call
    BY <2>2, <2>4 DEF CmdInv
  <2> QED BY <2>1, <2>3, <2>4 DEF CmdInv, Numbered
<1>7. CASE write /\ UNCHANGED clientVars
  <2>1. /\ lib'.cmd = lib.cmd /\ lib'.nextCmdSeq = lib.nextCmdSeq /\ lib'.heard = lib.heard
        /\ lib'.pOp \in {lib.pOp, "none"} /\ UNCHANGED <<at, op, call>>
    BY <1>7, WroteFacts DEF Typed, clientVars
  <2>2. \A r : OnWay(r, lib', hubIn', wire') => OnWay(r, lib, hubIn, wire)
    BY <1>7, WroteWay
  <2>3. at = "calling" /\ op \in CommandOps => \A h \in lib'.heard : h[1] = call
    BY <2>1 DEF CmdInv
  <2> QED BY <2>1, <2>2, <2>3, CmdKept
<1>8. CASE lose /\ UNCHANGED clientVars
  <2>1. UNCHANGED <<lib, at, op, call>>
    BY <1>8 DEF lose, clientVars
  <2>2. \A r : OnWay(r, lib', hubIn', wire') => OnWay(r, lib, hubIn, wire)
    BY <1>8, LostWay
  <2>3. at = "calling" /\ op \in CommandOps => \A h \in lib'.heard : h[1] = call
    BY <2>1 DEF CmdInv
  <2> QED BY <2>1, <2>2, <2>3, CmdKept
<1> QED BY <1>1, <1>2, <1>3, <1>4, <1>5, <1>6, <1>7, <1>8, Steps, CmdServes, CmdStart

(* With fewer calls than numbers no two commands whose requests or responses *)
(* are on their way have the same number: the responses a command takes for  *)
(* its own answer its own request.                                           *)
THEOREM CommandsInvariant == NumbersSuffice => (Spec => []CmdInv)
<1> SUFFICES ASSUME NumbersSuffice PROVE Spec => []CmdInv
  OBVIOUS
<1>1. Typed /\ CmdInv /\ [Next]_vars => CmdInv'
  BY CmdStep
<1> QED BY <1>1, CmdInit, DriverTypes, PTL DEF Spec

LEMMA AnswersInit == Init => AnswersAreOwn
  BY DEF Init, NoResult, AnswersAreOwn, CommandOps

LEMMA AnswersStep == CmdInv /\ AnswersAreOwn /\ [Next]_vars => AnswersAreOwn'
<1> SUFFICES ASSUME CmdInv, AnswersAreOwn, [Next]_vars PROVE AnswersAreOwn'
  OBVIOUS
<1>1. CASE return
  <2>1. at = "calling" /\ done'.op = op /\ done'.call = call /\ done'.heard = lib.heard
    BY <1>1 DEF return
  <2> QED BY <2>1 DEF CmdInv, AnswersAreOwn
<1>2. CASE ~return
  <2>1. done' = done
    BY <1>2, Steps DEF Serves, Resets, Rests, open, opened, close, start, clientVars
  <2> QED BY <2>1 DEF AnswersAreOwn
<1> QED BY <1>1, <1>2

(* A command that ends well was answered by reports of its own call only,    *)
(* whatever responses to others arrive meanwhile, as long as the numbers of  *)
(* commands do not come round (wrongResponse, sh2.c:1282).                   *)
THEOREM OwnAnswers == NumbersSuffice => (Spec => []AnswersAreOwn)
<1> SUFFICES ASSUME NumbersSuffice PROVE Spec => []AnswersAreOwn
  OBVIOUS
<1>1. CmdInv /\ AnswersAreOwn /\ [Next]_vars => AnswersAreOwn'
  BY AnswersStep
<1>2. Spec => []CmdInv
  BY CommandsInvariant
<1> QED BY <1>1, <1>2, AnswersInit, PTL DEF Spec

-----------------------------------------------------------------------------
(* Payloads have no holes.  First numbers, and how the transfers on the wire *)
(* are numbered.                                                             *)

LEMMA Remainder ==
    ASSUME NEW m \in Nat \ {0}, NEW q \in Int, NEW r \in 0 .. m - 1
    PROVE  (m * q + r) % m = r
  BY Z3

LEMMA Quotient ==
    ASSUME NEW m \in Nat \ {0}, NEW a \in Nat
    PROVE  a = m * (a \div m) + (a % m) /\ a \div m \in Int /\ a % m \in 0 .. m - 1
  BY Z3

LEMMA NextRemainder ==
    ASSUME NEW m \in Nat \ {0}, NEW a \in Nat
    PROVE  ((a % m) + 1) % m = (a + 1) % m
<1> DEFINE q == a \div m
           r == a % m
<1>1. a = m * q + r /\ q \in Int /\ r \in 0 .. m - 1
  BY Quotient
<1> HIDE DEF q, r
<1>2. CASE r + 1 < m
  <2>1. a + 1 = m * q + (r + 1) /\ r + 1 \in 0 .. m - 1
    BY <1>1, <1>2
  <2>2. (a + 1) % m = r + 1
    BY <1>1, <2>1, Remainder
  <2>3. (r + 1) % m = r + 1
    BY <1>1, <1>2
  <2> QED BY <2>2, <2>3 DEF r
<1>3. CASE r + 1 = m
  <2>1. a + 1 = m * (q + 1) + 0
    <3>1. m * (q + 1) = m * q + m
      BY <1>1
    <3> QED BY <1>1, <1>3, <3>1
  <2>2. (a + 1) % m = 0
    BY <1>1, <2>1, Remainder
  <2>3. m % m = 0
    BY <1>1
  <2> QED BY <1>3, <2>2, <2>3 DEF r
<1> QED BY <1>1, <1>2, <1>3

(* The number that is g after n.                                             *)
Ahead(n, g) == IF n + g < SeqModulus THEN n + g ELSE n + g - SeqModulus

LEMMA AheadFacts ==
    ASSUME NEW n \in Numbers, NEW g \in Nat, g < SeqModulus
    PROVE  /\ Ahead(n, 0) = n
           /\ Ahead(n, g) = n => g = 0
           /\ g + 1 < SeqModulus => Ahead(n, g + 1) = Succ(Ahead(n, g))
<1>1. SeqModulus \in Nat \ {0, 1} /\ n \in Nat /\ n < SeqModulus
  BY SeqAssumption DEF Numbers
<1>2. Ahead(n, 0) = n /\ (Ahead(n, g) = n => g = 0)
  BY <1>1 DEF Ahead
<1>3. ASSUME g + 1 < SeqModulus PROVE Ahead(n, g + 1) = Succ(Ahead(n, g))
  <2>1. CASE n + g + 1 < SeqModulus
    <3>1. Ahead(n, g) = n + g /\ Ahead(n, g + 1) = n + g + 1 /\ n + g + 1 \in Nat
      BY <1>1, <2>1 DEF Ahead
    <3>2. (n + g + 1) % SeqModulus = n + g + 1
      BY <1>1, <2>1
    <3> QED BY <3>1, <3>2 DEF Succ
  <2>2. CASE n + g + 1 = SeqModulus
    <3>1. Ahead(n, g) = n + g /\ Ahead(n, g + 1) = 0
      BY <1>1, <2>2 DEF Ahead
    <3>2. (n + g + 1) % SeqModulus = 0
      BY <1>1, <2>2
    <3> QED BY <3>1, <3>2 DEF Succ
  <2>3. CASE n + g + 1 > SeqModulus
    <3> DEFINE k == n + g - SeqModulus
    <3>1. Ahead(n, g) = k /\ Ahead(n, g + 1) = k + 1 /\ k \in Nat /\ k + 1 < SeqModulus
      BY <1>1, <1>3, <2>3 DEF Ahead
    <3> HIDE DEF k
    <3>2. (k + 1) % SeqModulus = k + 1
      BY <1>1, <3>1
    <3> QED BY <3>1, <3>2 DEF Succ
  <2> QED BY <1>1, <2>1, <2>2, <2>3
<1> QED BY <1>2, <1>3

(* From place i on, the first transfer of a channel has the number n, or the *)
(* hub has sent none and gives it to the next one.                           *)
NextNumber(w, seqs, c, i, n) ==
    /\ \A j \in i .. Len(w) :
          w[j].chan = c /\ (\A k \in i .. j - 1 : w[k].chan # c) => w[j].seq = n
    /\ (\A j \in i .. Len(w) : w[j].chan # c) => seqs[c] = n

InSequence(w, seqs) ==
    \A i \in 1 .. Len(w) : NextNumber(w, seqs, w[i].chan, i + 1, Succ(w[i].seq))

(* A transfer that is not the last of its cargo is followed by the next.     *)
Chained(w) ==
    \A i \in 1 .. Len(w) :
       /\ Consecutive(w[i].part)
       /\ w[i].rest > 0 =>
             /\ i + 1 \in 1 .. Len(w) /\ w[i + 1].chan = w[i].chan
             /\ Len(w[i].part) = 1 /\ Len(w[i + 1].part) = 1
             /\ Follows(w[i].part[1], w[i + 1].part[1])

(* v is w without its head.                                                  *)
TailOf(v, w) ==
    /\ Len(w) \in Nat /\ Len(w) > 0 /\ Len(v) = Len(w) - 1
    /\ \A i \in 1 .. Len(w) - 1 : v[i] = w[i + 1]

LEMMA ShiftNumber ==
    ASSUME NEW v, NEW w, TailOf(v, w), NEW seqs, NEW c, NEW i \in Nat, i > 0, NEW n,
           NextNumber(w, seqs, c, i + 1, n)
    PROVE  NextNumber(v, seqs, c, i, n)
<1>1. ASSUME NEW j \in i .. Len(v), v[j].chan = c, \A k \in i .. j - 1 : v[k].chan # c
      PROVE  v[j].seq = n
  <2>1. /\ j + 1 \in (i + 1) .. Len(w) /\ j \in 1 .. Len(w) - 1 /\ v[j] = w[j + 1]
        /\ (j + 1) - 1 = j
    BY DEF TailOf
  <2>2. ASSUME NEW k \in (i + 1) .. (j + 1) - 1 PROVE w[k].chan # c
    <3>1. k - 1 \in i .. j - 1 /\ k - 1 \in 1 .. Len(w) - 1 /\ (k - 1) + 1 = k
      BY <2>1
    <3>2. v[k - 1] = w[k]
      BY <3>1 DEF TailOf
    <3> QED BY <1>1, <3>1, <3>2
  <2>3. w[j + 1].seq = n
    BY <1>1, <2>1, <2>2 DEF NextNumber
  <2> QED BY <2>1, <2>3
<1>2. ASSUME \A j \in i .. Len(v) : v[j].chan # c PROVE seqs[c] = n
  <2>1. ASSUME NEW j \in (i + 1) .. Len(w) PROVE w[j].chan # c
    <3>1. j - 1 \in i .. Len(v) /\ j - 1 \in 1 .. Len(w) - 1 /\ (j - 1) + 1 = j
      BY DEF TailOf
    <3>2. v[j - 1] = w[j]
      BY <3>1 DEF TailOf
    <3> QED BY <1>2, <3>1, <3>2
  <2> QED BY <2>1 DEF NextNumber
<1> QED BY <1>1, <1>2 DEF NextNumber

(* The head is on another channel, or has the number.                        *)
LEMMA HeadNumber ==
    ASSUME NEW w, Len(w) \in Nat, Len(w) > 0, NEW seqs, NEW c, NEW n,
           NextNumber(w, seqs, c, 1, n)
    PROVE  /\ w[1].chan = c => w[1].seq = n
           /\ w[1].chan # c => NextNumber(w, seqs, c, 2, n)
<1>1. w[1].chan = c => w[1].seq = n
  <2>1. 1 \in 1 .. Len(w) /\ \A k : k \notin 1 .. 1 - 1
    OBVIOUS
  <2> QED BY <2>1 DEF NextNumber
<1>2. ASSUME w[1].chan # c PROVE NextNumber(w, seqs, c, 2, n)
  <2>1. ASSUME NEW j \in 2 .. Len(w), w[j].chan = c, \A k \in 2 .. j - 1 : w[k].chan # c
        PROVE  w[j].seq = n
    <3>1. j \in 1 .. Len(w) /\ \A k \in 1 .. j - 1 : k = 1 \/ k \in 2 .. j - 1
      OBVIOUS
    <3> QED BY <1>2, <2>1, <3>1 DEF NextNumber
  <2>2. ASSUME \A j \in 2 .. Len(w) : w[j].chan # c PROVE seqs[c] = n
    <3>1. \A j \in 1 .. Len(w) : j = 1 \/ j \in 2 .. Len(w)
      OBVIOUS
    <3> QED BY <1>2, <2>2, <3>1 DEF NextNumber
  <2> QED BY <2>1, <2>2 DEF NextNumber
<1> QED BY <1>1, <1>2

LEMMA TailWire ==
    ASSUME NEW v, NEW w, TailOf(v, w), NEW seqs, InSequence(w, seqs), Chained(w)
    PROVE  InSequence(v, seqs) /\ Chained(v)
<1>1. ASSUME NEW i \in 1 .. Len(v)
      PROVE  /\ i + 1 \in 1 .. Len(w) /\ v[i] = w[i + 1] /\ i \in Nat
             /\ i + 1 \in 1 .. Len(v) => v[i + 1] = w[i + 1 + 1]
             /\ i + 1 + 1 \in 1 .. Len(w) => i + 1 \in 1 .. Len(v)
  BY DEF TailOf
<1>2. ASSUME NEW i \in 1 .. Len(v)
      PROVE  NextNumber(v, seqs, v[i].chan, i + 1, Succ(v[i].seq))
  <2>1. NextNumber(w, seqs, v[i].chan, i + 1 + 1, Succ(v[i].seq))
    BY <1>1 DEF InSequence
  <2>2. i + 1 \in Nat /\ i + 1 > 0
    BY <1>1
  <2> QED BY <2>1, <2>2, ShiftNumber
<1>3. ASSUME NEW i \in 1 .. Len(v)
      PROVE  /\ Consecutive(v[i].part)
             /\ v[i].rest > 0 =>
                  /\ i + 1 \in 1 .. Len(v) /\ v[i + 1].chan = v[i].chan
                  /\ Len(v[i].part) = 1 /\ Len(v[i + 1].part) = 1
                  /\ Follows(v[i].part[1], v[i + 1].part[1])
  <2>1. Consecutive(w[i + 1].part)
    BY <1>1 DEF Chained
  <2>2. ASSUME w[i + 1].rest > 0
        PROVE  /\ i + 1 + 1 \in 1 .. Len(w) /\ w[i + 1 + 1].chan = w[i + 1].chan
               /\ Len(w[i + 1].part) = 1 /\ Len(w[i + 1 + 1].part) = 1
               /\ Follows(w[i + 1].part[1], w[i + 1 + 1].part[1])
    BY <1>1, <2>2 DEF Chained
  <2> QED BY <1>1, <2>1, <2>2
<1> QED BY <1>2, <1>3 DEF InSequence, Chained

(* What the hub adds goes on with the numbers.                               *)
Emits(chan, answer, ts) ==
    /\ Emission(chan, answer, ts) /\ wire' = wire \o ts
    /\ hubSeq' = [hubSeq EXCEPT ![chan] = (@ + Len(ts)) % SeqModulus]

LEMMA EmitKeeps ==
    ASSUME Typed, NEW chan \in Channels, NEW answer, NEW ts, Emits(chan, answer, ts),
           NEW c \in Channels, NEW i \in 1 .. Len(wire) + 1, NEW n,
           NextNumber(wire, hubSeq, c, i, n)
    PROVE  NextNumber(wire', hubSeq', c, i, n)
<1>1. /\ Len(wire') = Len(wire) + Len(ts)
      /\ Len(wire) \in Nat /\ Len(ts) \in Nat /\ Len(ts) > 0
      /\ \A k \in 1 .. Len(wire) : wire'[k] = wire[k]
      /\ \A k \in 1 .. Len(ts) : wire'[Len(wire) + k] = ts[k]
  BY EmittedFacts DEF Typed, Emits, Emission
<1>2. hubSeq[chan] \in Nat /\ hubSeq[chan] < SeqModulus /\ SeqModulus \in Nat
  BY SeqAssumption DEF Typed, SH2Typed, Numbers
<1>3. ts[1].chan = chan /\ ts[1].seq = hubSeq[chan]
  <2>1. 1 \in 1 .. Len(ts)
    BY <1>1
  <2>2. ts[1].chan = chan /\ ts[1].seq = (hubSeq[chan] + 1 - 1) % SeqModulus
    BY <2>1 DEF Emits, Emission
  <2> QED BY <1>2, <2>2
<1>4. Len(wire) + 1 \in i .. Len(wire') /\ wire'[Len(wire) + 1] = ts[1]
  BY <1>1
<1>5. ASSUME \A k \in i .. Len(wire) : wire'[k].chan # c PROVE hubSeq[c] = n
  BY <1>1, <1>5 DEF NextNumber
<1>6. ASSUME NEW j \in i .. Len(wire'), wire'[j].chan = c,
             \A k \in i .. j - 1 : wire'[k].chan # c
      PROVE  wire'[j].seq = n
  <2>1. CASE j <= Len(wire)
    <3>1. j \in i .. Len(wire) /\ j \in 1 .. Len(wire) /\ \A k \in i .. j - 1 : k \in 1 .. Len(wire)
      BY <1>1, <2>1
    <3>2. wire[j].chan = c /\ \A k \in i .. j - 1 : wire[k].chan # c
      BY <1>1, <1>6, <3>1
    <3> QED BY <1>1, <3>1, <3>2 DEF NextNumber
  <2>2. CASE j > Len(wire)
    <3>1. j \in (Len(wire) + 1) .. Len(wire') /\ \A k \in i .. Len(wire) : k \in i .. j - 1
      BY <1>1, <2>2
    <3>2. hubSeq[c] = n
      BY <1>5, <1>6, <3>1
    <3>3. j - Len(wire) \in 1 .. Len(ts) /\ j = Len(wire) + (j - Len(wire))
      BY <1>1, <3>1
    <3>4. wire'[j] = ts[j - Len(wire)]
      BY <1>1, <3>3
    <3>5. chan = c
      BY <1>6, <3>3, <3>4 DEF Emits, Emission
    <3>6. j = Len(wire) + 1
      <4>1. Len(wire) + 1 \notin i .. j - 1
        BY <1>3, <1>4, <1>6, <3>5
      <4> QED BY <1>1, <3>1, <4>1
    <3> QED BY <1>3, <1>4, <3>2, <3>5, <3>6
  <2> QED BY <1>1, <2>1, <2>2
<1>7. ASSUME \A j \in i .. Len(wire') : wire'[j].chan # c PROVE hubSeq'[c] = n
  <2>1. chan # c
    BY <1>3, <1>4, <1>7
  <2>2. \A k \in i .. Len(wire) : k \in i .. Len(wire')
    BY <1>1
  <2>3. hubSeq[c] = n
    BY <1>5, <1>7, <2>2
  <2> QED BY <2>1, <2>3 DEF Emits, Typed, SH2Typed
<1> QED BY <1>6, <1>7 DEF NextNumber

LEMMA EmitNumbers ==
    ASSUME Typed, NEW chan \in Channels, NEW answer, NEW ts, Emits(chan, answer, ts),
           NEW m \in 1 .. Len(ts)
    PROVE  NextNumber(wire', hubSeq', chan, Len(wire) + m + 1, Succ(ts[m].seq))
<1>1. /\ Len(wire') = Len(wire) + Len(ts)
      /\ Len(wire) \in Nat /\ Len(ts) \in Nat
      /\ \A k \in 1 .. Len(ts) : wire'[Len(wire) + k] = ts[k]
  BY EmittedFacts DEF Typed, Emits, Emission
<1> DEFINE a == hubSeq[chan] + m - 1
<1>2. a \in Nat /\ SeqModulus \in Nat \ {0} /\ a + 1 = hubSeq[chan] + m
  <2>1. hubSeq \in [Channels -> Numbers]
    BY DEF Typed, SH2Typed
  <2>2. hubSeq[chan] \in Nat
    BY <2>1, SeqAssumption DEF Numbers
  <2>3. m \in Nat \ {0}
    BY <1>1
  <2> QED BY <2>2, <2>3, SeqAssumption
<1>3. ts[m].seq = a % SeqModulus
  BY DEF Emits, Emission
<1>4. Succ(ts[m].seq) = (hubSeq[chan] + m) % SeqModulus
  <2> HIDE DEF a
  <2>1. ((a % SeqModulus) + 1) % SeqModulus = (a + 1) % SeqModulus
    BY <1>2, NextRemainder
  <2> QED BY <1>2, <1>3, <2>1 DEF Succ
<1> DEFINE p == Len(wire) + m + 1
<1>5. CASE m < Len(ts)
  <2>1. m + 1 \in 1 .. Len(ts) /\ p = Len(wire) + (m + 1) /\ p \in p .. Len(wire')
        /\ p \in Nat /\ hubSeq[chan] + (m + 1) - 1 = hubSeq[chan] + m
    BY <1>1, <1>5, SeqAssumption DEF Typed, SH2Typed, Numbers
  <2>2. wire'[p] = ts[m + 1]
    BY <1>1, <2>1
  <2>3. ts[m + 1].chan = chan /\ ts[m + 1].seq = (hubSeq[chan] + (m + 1) - 1) % SeqModulus
    BY <2>1 DEF Emits, Emission
  <2>4. wire'[p].chan = chan /\ wire'[p].seq = Succ(ts[m].seq)
    BY <1>4, <2>1, <2>2, <2>3
  <2> HIDE DEF p
  <2>5. ASSUME NEW j \in p .. Len(wire'), \A k \in p .. j - 1 : wire'[k].chan # chan
        PROVE  j = p
    <3>1. p \notin p .. j - 1
      BY <2>4, <2>5
    <3> QED BY <2>1, <3>1
  <2>6. NextNumber(wire', hubSeq', chan, p, Succ(ts[m].seq))
    BY <2>1, <2>4, <2>5 DEF NextNumber
  <2> QED BY <2>6 DEF p
<1>6. CASE m = Len(ts)
  <2>1. \A j : j \notin p .. Len(wire')
    BY <1>1, <1>6
  <2>2. hubSeq'[chan] = Succ(ts[m].seq)
    BY <1>4, <1>6 DEF Emits, Typed, SH2Typed
  <2> HIDE DEF p
  <2>3. NextNumber(wire', hubSeq', chan, p, Succ(ts[m].seq))
    BY <2>1, <2>2 DEF NextNumber
  <2> QED BY <2>3 DEF p
<1> QED BY <1>1, <1>5, <1>6

LEMMA EmitWire ==
    ASSUME Typed, NEW chan \in Channels, NEW answer, NEW ts, Emits(chan, answer, ts),
           InSequence(wire, hubSeq), Chained(wire)
    PROVE  InSequence(wire', hubSeq') /\ Chained(wire')
<1>1. /\ Len(wire') = Len(wire) + Len(ts)
      /\ Len(wire) \in Nat /\ Len(ts) \in Nat
      /\ \A i \in 1 .. Len(wire) : wire'[i] = wire[i]
      /\ \A i \in 1 .. Len(ts) : wire'[Len(wire) + i] = ts[i]
  BY EmittedFacts DEF Typed, Emits, Emission
<1>2. ASSUME NEW i \in 1 .. Len(wire)
      PROVE  NextNumber(wire', hubSeq', wire[i].chan, i + 1, Succ(wire[i].seq))
  <2>1. wire[i].chan \in Channels /\ i + 1 \in 1 .. Len(wire) + 1
    BY <1>1 DEF Typed, SH2Typed, TransferOK
  <2>2. NextNumber(wire, hubSeq, wire[i].chan, i + 1, Succ(wire[i].seq))
    BY DEF InSequence
  <2> QED BY <2>1, <2>2, EmitKeeps
<1>3. ASSUME NEW i \in 1 .. Len(wire)
      PROVE  /\ Consecutive(wire[i].part)
             /\ wire[i].rest > 0 =>
                  /\ i + 1 \in 1 .. Len(wire') /\ wire'[i + 1].chan = wire[i].chan
                  /\ Len(wire[i].part) = 1 /\ Len(wire'[i + 1].part) = 1
                  /\ Follows(wire[i].part[1], wire'[i + 1].part[1])
  <2>1. Consecutive(wire[i].part)
    BY DEF Chained
  <2>2. ASSUME wire[i].rest > 0
        PROVE  /\ i + 1 \in 1 .. Len(wire') /\ wire'[i + 1].chan = wire[i].chan
               /\ Len(wire[i].part) = 1 /\ Len(wire'[i + 1].part) = 1
               /\ Follows(wire[i].part[1], wire'[i + 1].part[1])
    <3>1. /\ i + 1 \in 1 .. Len(wire) /\ wire[i + 1].chan = wire[i].chan
          /\ Len(wire[i].part) = 1 /\ Len(wire[i + 1].part) = 1
          /\ Follows(wire[i].part[1], wire[i + 1].part[1])
      BY <2>2 DEF Chained
    <3>2. i + 1 \in 1 .. Len(wire') /\ wire'[i + 1] = wire[i + 1]
      BY <1>1, <3>1
    <3> QED BY <3>1, <3>2
  <2> QED BY <2>1, <2>2
<1>4. ASSUME NEW m \in 1 .. Len(ts)
      PROVE  /\ ts[m].chan = chan /\ Consecutive(ts[m].part)
             /\ ts[m].rest > 0 =>
                  /\ Len(wire) + m + 1 \in 1 .. Len(wire')
                  /\ wire'[Len(wire) + m + 1].chan = chan
                  /\ Len(ts[m].part) = 1 /\ Len(wire'[Len(wire) + m + 1].part) = 1
                  /\ Follows(ts[m].part[1], wire'[Len(wire) + m + 1].part[1])
  <2>1. ts[m].chan = chan /\ Consecutive(ts[m].part)
    BY DEF Emits, Emission
  <2>2. ASSUME ts[m].rest > 0
        PROVE  /\ Len(wire) + m + 1 \in 1 .. Len(wire')
               /\ wire'[Len(wire) + m + 1].chan = chan
               /\ Len(ts[m].part) = 1 /\ Len(wire'[Len(wire) + m + 1].part) = 1
               /\ Follows(ts[m].part[1], wire'[Len(wire) + m + 1].part[1])
    <3>1. /\ m + 1 \in 1 .. Len(ts) /\ Len(ts[m].part) = 1 /\ Len(ts[m + 1].part) = 1
          /\ Follows(ts[m].part[1], ts[m + 1].part[1])
      BY <2>2 DEF Emits, Emission
    <3>2. ts[m + 1].chan = chan
      BY <3>1 DEF Emits, Emission
    <3>3. Len(wire) + m + 1 \in 1 .. Len(wire') /\ Len(wire) + m + 1 = Len(wire) + (m + 1)
      BY <1>1, <3>1, SMTT(30)
    <3>4. wire'[Len(wire) + m + 1] = ts[m + 1]
      BY <1>1, <3>1, <3>3
    <3> QED BY <3>1, <3>2, <3>3, <3>4
  <2> QED BY <2>1, <2>2
<1>5. ASSUME NEW j \in 1 .. Len(wire')
      PROVE  \/ j \in 1 .. Len(wire) /\ wire'[j] = wire[j]
             \/ \E m \in 1 .. Len(ts) : j = Len(wire) + m /\ wire'[j] = ts[m]
  <2>1. CASE j <= Len(wire)
    BY <1>1, <2>1
  <2>2. CASE j > Len(wire)
    <3>1. j - Len(wire) \in 1 .. Len(ts) /\ j = Len(wire) + (j - Len(wire))
      BY <1>1, <2>2
    <3> QED BY <1>1, <3>1
  <2>3. j <= Len(wire) \/ j > Len(wire)
    BY <1>1
  <2> QED BY <2>1, <2>2, <2>3
<1>6. ASSUME NEW j \in 1 .. Len(wire')
      PROVE  NextNumber(wire', hubSeq', wire'[j].chan, j + 1, Succ(wire'[j].seq))
  <2>1. CASE j \in 1 .. Len(wire) /\ wire'[j] = wire[j]
    BY <1>2, <2>1
  <2>2. ASSUME NEW m \in 1 .. Len(ts), j = Len(wire) + m, wire'[j] = ts[m]
        PROVE  NextNumber(wire', hubSeq', wire'[j].chan, j + 1, Succ(wire'[j].seq))
    <3>1. wire'[j].chan = chan
      BY <1>4, <2>2
    <3> QED BY <2>2, <3>1, EmitNumbers
  <2> QED BY <1>5, <2>1, <2>2
<1>7. ASSUME NEW j \in 1 .. Len(wire')
      PROVE  /\ Consecutive(wire'[j].part)
             /\ wire'[j].rest > 0 =>
                   /\ j + 1 \in 1 .. Len(wire') /\ wire'[j + 1].chan = wire'[j].chan
                   /\ Len(wire'[j].part) = 1 /\ Len(wire'[j + 1].part) = 1
                   /\ Follows(wire'[j].part[1], wire'[j + 1].part[1])
  <2>1. CASE j \in 1 .. Len(wire) /\ wire'[j] = wire[j]
    BY <1>3, <2>1
  <2>2. ASSUME NEW m \in 1 .. Len(ts), j = Len(wire) + m, wire'[j] = ts[m]
        PROVE  /\ Consecutive(wire'[j].part)
               /\ wire'[j].rest > 0 =>
                     /\ j + 1 \in 1 .. Len(wire') /\ wire'[j + 1].chan = wire'[j].chan
                     /\ Len(wire'[j].part) = 1 /\ Len(wire'[j + 1].part) = 1
                     /\ Follows(wire'[j].part[1], wire'[j + 1].part[1])
    BY <1>4, <2>2
  <2> QED BY <1>5, <2>1, <2>2
<1> QED BY <1>6, <1>7 DEF InSequence, Chained

(* The payload under construction waits for its next fragment, behind g lost *)
(* transfers of its channel; with none lost the next one is its own.         *)
Gap(s, w, seqs, g) ==
    /\ NextNumber(w, seqs, s.inChan, 1, Ahead(s.nextInSeq[s.inChan], g))
    /\ g = 0 =>
          /\ Len(w) > 0 /\ w[1].chan = s.inChan /\ Len(w[1].part) = 1
          /\ Follows(s.inPayload[Len(s.inPayload)], w[1].part[1])

(* Or the hub was reset meanwhile: the three transfers that say so, less the *)
(* k lost ones, and the first of the next answer go on with no payload.      *)
Begins(t) == ~t.continuation
AfterReset(w, k) ==
    /\ Len(w) >= 3 - k
    /\ \A i \in 1 .. Len(w) : i <= 4 - k => Begins(w[i])

Assembly(s, w, seqs, lost) ==
    s.inRemaining > 0 =>
       /\ Len(s.inPayload) > 0 /\ Consecutive(s.inPayload)
       /\ \/ \E g \in 0 .. lost : Gap(s, w, seqs, g)
          \/ \E k \in 0 .. lost : AfterReset(w, k)

TransportInv ==
    InSequence(wire, hubSeq) /\ Chained(wire) /\ Assembly(lib.shtp, wire, hubSeq, losses)

(* Fewer transfers are lost than there are numbers (256), and fewer than the *)
(* three of a reset and the one that begins the next answer.                 *)
FewLost == MaxLosses < SeqModulus /\ MaxLosses < 4

LEMMA ConcatOne ==
    ASSUME NEW p, NEW q, Sequence(p), Sequence(q), Len(q) = 1
    PROVE  /\ Len(p \o q) = Len(p) + 1
           /\ \A i \in 1 .. Len(p) : (p \o q)[i] = p[i]
           /\ (p \o q)[Len(p) + 1] = q[1]
<1>1. 1 \in 1 .. Len(q)
  OBVIOUS
<1>2. \A i \in 1 .. Len(q) : (p \o q)[Len(p) + i] = q[i]
  BY ConcatFacts, SMTT(30)
<1>3. Len(p \o q) = Len(p) + 1 /\ \A i \in 1 .. Len(p) : (p \o q)[i] = p[i]
  BY ConcatFacts, SMTT(30)
<1> QED BY <1>1, <1>2, <1>3

LEMMA NextPayload ==
    ASSUME FewLost, Typed, TransportInv, wire # <<>>
    PROVE  LET t == wire[1]
               p == rxAppend(lib.shtp, t).inPayload
           IN  /\ Consecutive(p)
               /\ t.rest > 0 => Len(p) > 0 /\ p[Len(p)] = t.part[1]
<1> DEFINE s == lib.shtp
           t == wire[1]
           p == rxAppend(s, t).inPayload
<1>1. /\ ShtpOK(s) /\ TransferOK(t) /\ 1 \in 1 .. Len(wire)
      /\ Len(wire) \in Nat /\ Len(wire) > 0
  BY HeadFacts DEF Typed, SH2Typed
<1>2. /\ Sequence(s.inPayload) /\ Sequence(t.part)
      /\ Len(s.inPayload) \in Nat /\ Len(t.part) \in Nat
  BY <1>1, SequenceFacts DEF ShtpOK, TransferOK, PayloadOK
<1>3. Consecutive(t.part) /\ (t.rest > 0 => Len(t.part) = 1)
  BY <1>1 DEF TransportInv, Chained
<1>4. p = IF Continues(s, t) THEN s.inPayload \o t.part ELSE t.part
  BY <1>1, AppendedFacts
<1>5. CASE ~Continues(s, t)
  BY <1>2, <1>3, <1>4, <1>5
<1>6. CASE Continues(s, t)
  <2>1. s.inRemaining > 0 /\ t.chan = s.inChan /\ t.seq = s.nextInSeq[s.inChan]
    BY <1>6 DEF Continues
  <2>2. ~Begins(t)
    BY <1>6 DEF Continues, Begins
  <2>3. /\ Len(s.inPayload) > 0 /\ Consecutive(s.inPayload)
        /\ \/ \E g \in 0 .. losses : Gap(s, wire, hubSeq, g)
           \/ \E k \in 0 .. losses : AfterReset(wire, k)
    BY <2>1 DEF TransportInv, Assembly
  <2>4. losses \in Nat /\ losses < 4 /\ losses < SeqModulus
    BY SeqAssumption, SH2Assumption DEF Typed, SH2Typed, FewLost
  <2>5. ASSUME NEW k \in 0 .. losses, AfterReset(wire, k) PROVE FALSE
    <3>1. 1 <= 4 - k
      BY <2>4
    <3> QED BY <1>1, <2>2, <2>5, <3>1 DEF AfterReset
  <2>6. PICK g \in 0 .. losses : Gap(s, wire, hubSeq, g)
    BY <2>3, <2>5
  <2>7. s.nextInSeq[s.inChan] \in Numbers /\ g \in Nat /\ g < SeqModulus
    BY <1>1, <2>4, SeqAssumption DEF ShtpOK
  <2>8. t.seq = Ahead(s.nextInSeq[s.inChan], g)
    BY <1>1, <2>1, <2>6, HeadNumber DEF Gap
  <2>9. g = 0
    BY <2>1, <2>7, <2>8, AheadFacts
  <2>10. Len(t.part) = 1 /\ Follows(s.inPayload[Len(s.inPayload)], t.part[1])
    BY <2>6, <2>9 DEF Gap
  <2>11. /\ Len(p) = Len(s.inPayload) + 1
         /\ \A i \in 1 .. Len(s.inPayload) : p[i] = s.inPayload[i]
         /\ p[Len(s.inPayload) + 1] = t.part[1]
    <3> HIDE DEF p, s, t
    <3>1. p = s.inPayload \o t.part
      BY <1>4, <1>6
    <3> QED BY <1>2, <2>10, <3>1, ConcatOne
  <2> HIDE DEF p, s, t
  <2>12. ASSUME NEW i \in 1 .. Len(p) - 1 PROVE Follows(p[i], p[i + 1])
    <3>1. CASE i = Len(s.inPayload)
      BY <1>2, <2>3, <2>10, <2>11, <3>1
    <3>2. CASE i # Len(s.inPayload)
      <4>1. i \in 1 .. Len(s.inPayload) - 1 /\ i \in 1 .. Len(s.inPayload)
            /\ i + 1 \in 1 .. Len(s.inPayload)
        BY <1>2, <2>11, <3>2
      <4>2. Follows(s.inPayload[i], s.inPayload[i + 1])
        BY <2>3, <4>1 DEF Consecutive
      <4> QED BY <2>11, <4>1, <4>2
    <3> QED BY <3>1, <3>2
  <2>13. Len(p) > 0 /\ p[Len(p)] = t.part[1]
    BY <1>2, <2>11
  <2> QED BY <2>12, <2>13 DEF Consecutive, p, s, t
<1> QED BY <1>5, <1>6

LEMMA TransportServes == FewLost /\ Typed /\ TransportInv /\ Serves => TransportInv'
<1> SUFFICES ASSUME FewLost, Typed, TransportInv, Serves PROVE TransportInv'
  OBVIOUS
<1> DEFINE t == wire[1]
           s == lib'.shtp
<1>1. wire # <<>> /\ wire' = Tail(wire) /\ UNCHANGED <<hubSeq, losses>>
  BY DEF Serves
<1>2. TailOf(wire', wire) /\ 1 \in 1 .. Len(wire) /\ TransferOK(t)
  <2>1. Sequence(wire)
    BY DEF Typed, SH2Typed
  <2> QED BY <1>1, <2>1, HeadFacts, TailFacts DEF Typed, TailOf
<1>3. InSequence(wire', hubSeq') /\ Chained(wire')
  BY <1>1, <1>2, TailWire DEF TransportInv
<1>4. ASSUME s.inRemaining > 0
      PROVE  Len(s.inPayload) > 0 /\ Consecutive(s.inPayload) /\ Gap(s, wire', hubSeq', 0)
  <2>1. /\ s.inChan = t.chan /\ t.rest > 0
        /\ s.inPayload = rxAppend(lib.shtp, t).inPayload
        /\ s.nextInSeq[t.chan] = Succ(t.seq)
    BY <1>4, ServedFacts DEF Typed
  <2>2. /\ Len(s.inPayload) > 0 /\ Consecutive(s.inPayload)
        /\ s.inPayload[Len(s.inPayload)] = t.part[1]
    BY <1>1, <2>1, NextPayload
  <2>3. /\ 1 + 1 \in 1 .. Len(wire) /\ wire[1 + 1].chan = t.chan
        /\ Len(wire[1 + 1].part) = 1 /\ Follows(t.part[1], wire[1 + 1].part[1])
    BY <1>2, <2>1 DEF TransportInv, Chained
  <2>4. wire'[1] = wire[1 + 1] /\ Len(wire') > 0
    BY <1>2, <2>3 DEF TailOf
  <2>5. NextNumber(wire, hubSeq, t.chan, 1 + 1, Succ(t.seq))
    BY <1>2 DEF TransportInv, InSequence
  <2>6. NextNumber(wire', hubSeq, t.chan, 1, Succ(t.seq))
    BY <1>2, <2>5, ShiftNumber
  <2>7. Ahead(Succ(t.seq), 0) = Succ(t.seq)
    <3>1. Succ(t.seq) \in Numbers /\ 0 < SeqModulus
      BY <1>2, SuccNumber, SeqAssumption DEF TransferOK
    <3> QED BY <3>1, AheadFacts
  <2> HIDE DEF s, t
  <2>8. Gap(s, wire', hubSeq', 0)
    BY <1>1, <2>1, <2>2, <2>3, <2>4, <2>6, <2>7 DEF Gap
  <2> QED BY <2>2, <2>8
<1>5. 0 \in 0 .. losses'
  BY <1>1 DEF Typed, SH2Typed
<1>6. Assembly(s, wire', hubSeq', losses')
  BY <1>4, <1>5 DEF Assembly
<1> QED BY <1>3, <1>6 DEF TransportInv

LEMMA TransportLose ==
    FewLost /\ Typed /\ TransportInv /\ lose => TransportInv'
<1> SUFFICES ASSUME FewLost, Typed, TransportInv, lose PROVE TransportInv'
  OBVIOUS
<1> DEFINE t == wire[1]
           s == lib.shtp
           n == s.nextInSeq[s.inChan]
<1>1. /\ wire # <<>> /\ wire' = Tail(wire) /\ UNCHANGED <<lib, hubSeq>>
      /\ losses' = losses + 1 /\ losses < MaxLosses
  BY DEF lose
<1>2. TailOf(wire', wire) /\ 1 \in 1 .. Len(wire) /\ Len(wire) > 0 /\ Len(wire) \in Nat
  <2>1. Sequence(wire)
    BY DEF Typed, SH2Typed
  <2> QED BY <1>1, <2>1, HeadFacts, TailFacts DEF TailOf
<1>3. InSequence(wire', hubSeq') /\ Chained(wire')
  BY <1>1, <1>2, TailWire DEF TransportInv
<1>4. /\ losses \in Nat /\ losses' \in Nat /\ losses' < SeqModulus /\ SeqModulus \in Nat
  BY <1>1, SeqAssumption, SH2Assumption DEF Typed, SH2Typed, FewLost
<1>5. n \in Numbers
  BY DEF Typed, SH2Typed, ShtpOK
<1>6. ASSUME NEW g \in 0 .. losses, Gap(s, wire, hubSeq, g)
      PROVE  \E h \in 0 .. losses' : Gap(s, wire', hubSeq', h)
  <2>1. NextNumber(wire, hubSeq, s.inChan, 1, Ahead(n, g))
    BY <1>6 DEF Gap
  <2>2. g \in Nat /\ g \in 0 .. losses' /\ g + 1 \in 0 .. losses' /\ g + 1 # 0
        /\ g < SeqModulus /\ g + 1 < SeqModulus
    BY <1>1, <1>4
  <2>3. CASE t.chan = s.inChan
    <3>1. t.seq = Ahead(n, g)
      BY <1>2, <2>1, <2>3, HeadNumber
    <3>2. Succ(t.seq) = Ahead(n, g + 1)
      BY <1>5, <2>2, <3>1, AheadFacts
    <3>3. NextNumber(wire, hubSeq, s.inChan, 1 + 1, Ahead(n, g + 1))
      BY <1>2, <2>3, <3>2 DEF TransportInv, InSequence
    <3>4. NextNumber(wire', hubSeq, s.inChan, 1, Ahead(n, g + 1))
      BY <1>2, <3>3, ShiftNumber
    <3>5. Gap(s, wire', hubSeq', g + 1)
      BY <1>1, <2>2, <3>4 DEF Gap
    <3> QED BY <2>2, <3>5
  <2>4. CASE t.chan # s.inChan
    <3>1. g # 0
      BY <1>6, <2>4 DEF Gap
    <3>2. NextNumber(wire, hubSeq, s.inChan, 1 + 1, Ahead(n, g))
      <4>1. NextNumber(wire, hubSeq, s.inChan, 2, Ahead(n, g))
        BY <1>2, <2>1, <2>4, HeadNumber
      <4> QED BY <4>1
    <3>3. NextNumber(wire', hubSeq, s.inChan, 1, Ahead(n, g))
      BY <1>2, <3>2, ShiftNumber
    <3>4. Gap(s, wire', hubSeq', g)
      BY <1>1, <3>1, <3>3 DEF Gap
    <3> QED BY <2>2, <3>4
  <2> QED BY <2>3, <2>4
<1>7. ASSUME NEW k \in 0 .. losses, AfterReset(wire, k)
      PROVE  \E h \in 0 .. losses' : AfterReset(wire', h)
  <2>1. k + 1 \in 0 .. losses'
    BY <1>1, <1>4
  <2>2. Len(wire') >= 3 - (k + 1)
    BY <1>2, <1>7 DEF AfterReset, TailOf
  <2>3. ASSUME NEW i \in 1 .. Len(wire'), i <= 4 - (k + 1) PROVE Begins(wire'[i])
    <3>1. i + 1 \in 1 .. Len(wire) /\ i + 1 <= 4 - k /\ wire'[i] = wire[i + 1]
      BY <1>2, <2>3 DEF TailOf
    <3> QED BY <1>7, <3>1 DEF AfterReset
  <2>4. AfterReset(wire', k + 1)
    BY <2>2, <2>3 DEF AfterReset
  <2> QED BY <2>1, <2>4
<1>8. Assembly(s, wire', hubSeq', losses')
  BY <1>6, <1>7 DEF TransportInv, Assembly
<1> QED BY <1>1, <1>3, <1>8 DEF TransportInv

LEMMA TransportTakes == Typed /\ TransportInv /\ hubTakes => TransportInv'
<1> SUFFICES ASSUME Typed, TransportInv, hubTakes PROVE TransportInv'
  OBVIOUS
<1> DEFINE s == lib.shtp
<1>1. lib' = lib /\ losses' = losses
  BY DEF hubTakes, counts
<1>2. CASE UNCHANGED <<wire, hubSeq>>
  BY <1>1, <1>2 DEF TransportInv
<1>3. ASSUME NEW chan \in Channels, NEW answer, NEW ts, Emits(chan, answer, ts)
      PROVE  TransportInv'
  <2>1. /\ Len(wire') = Len(wire) + Len(ts)
        /\ Len(wire) \in Nat /\ Len(ts) \in Nat /\ Len(ts) > 0
        /\ \A i \in 1 .. Len(wire) : wire'[i] = wire[i]
        /\ \A i \in 1 .. Len(ts) : wire'[Len(wire) + i] = ts[i]
    BY <1>3, EmittedFacts DEF Emits, Emission
  <2>2. InSequence(wire', hubSeq') /\ Chained(wire')
    BY <1>3, EmitWire DEF TransportInv
  <2>3. s.inChan \in Channels
    BY DEF Typed, SH2Typed, ShtpOK
  <2>4. ASSUME NEW g \in 0 .. losses, Gap(s, wire, hubSeq, g) PROVE Gap(s, wire', hubSeq', g)
    <3>1. NextNumber(wire, hubSeq, s.inChan, 1, Ahead(s.nextInSeq[s.inChan], g))
      BY <2>4 DEF Gap
    <3>2. 1 \in 1 .. Len(wire) + 1
      BY <2>1
    <3>3. NextNumber(wire', hubSeq', s.inChan, 1, Ahead(s.nextInSeq[s.inChan], g))
      BY <1>3, <2>3, <3>1, <3>2, EmitKeeps
    <3>4. g = 0 => Len(wire) > 0 /\ wire'[1] = wire[1] /\ Len(wire') > 0
      <4>1. Len(wire) > 0 => 1 \in 1 .. Len(wire) /\ Len(wire') > 0
        BY <2>1
      <4> QED BY <2>1, <2>4, <4>1 DEF Gap
    <3> QED BY <2>4, <3>3, <3>4 DEF Gap
  <2>5. ASSUME NEW k \in 0 .. losses, AfterReset(wire, k) PROVE AfterReset(wire', k)
    <3>1. Len(wire) >= 3 - k /\ Len(wire') >= 3 - k
      BY <2>1, <2>5 DEF AfterReset
    <3>2. Begins(ts[1])
      BY <1>3 DEF Emits, Emission, Begins
    <3>3. ASSUME NEW i \in 1 .. Len(wire'), i <= 4 - k PROVE Begins(wire'[i])
      <4>1. i \in 1 .. Len(wire) \/ i = Len(wire) + 1
        BY <2>1, <3>1, <3>3
      <4>2. CASE i \in 1 .. Len(wire)
        BY <2>1, <2>5, <3>3, <4>2 DEF AfterReset
      <4>3. CASE i = Len(wire) + 1
        <5>1. 1 \in 1 .. Len(ts)
          BY <2>1
        <5> QED BY <2>1, <3>2, <4>3, <5>1
      <4> QED BY <4>1, <4>2, <4>3
    <3> QED BY <3>1, <3>3 DEF AfterReset
  <2>6. Assembly(s, wire', hubSeq', losses)
    BY <2>4, <2>5 DEF TransportInv, Assembly
  <2> QED BY <1>1, <2>2, <2>6 DEF TransportInv
<1> QED BY <1>2, <1>3, TookFacts DEF Typed, Emits

(* A reset: three transfers, each the first of its channel.                  *)
LEMMA ResetWire ==
    ASSUME HubReset
    PROVE  InSequence(wire', hubSeq') /\ Chained(wire') /\ AfterReset(wire', 0)
<1>1. /\ Len(wire') = 3
      /\ \A i \in 1 .. 3 : wire'[i].seq = 0 /\ wire'[i].rest = 0 /\ Consecutive(wire'[i].part)
      /\ wire'[1].chan = "command" /\ wire'[2].chan = "device" /\ wire'[3].chan = "control"
      /\ hubSeq' = [c \in Channels |-> IF c = "inputNormal" THEN 0 ELSE 1]
  BY ResetFacts
<1>2. \A i \in 1 .. 3 : Begins(wire'[i])
  BY ResetFacts DEF Begins
<1>3. Succ(0) = 1
  BY SeqAssumption DEF Succ
<1>4. ASSUME NEW i \in 1 .. 3
      PROVE  /\ \A j \in i + 1 .. 3 : wire'[j].chan # wire'[i].chan
             /\ hubSeq'[wire'[i].chan] = 1
  <2>1. i = 1 \/ i = 2 \/ i = 3
    OBVIOUS
  <2>2. ASSUME NEW j \in i + 1 .. 3 PROVE wire'[j].chan # wire'[i].chan
    <3>1. (i = 1 /\ j = 2) \/ (i = 1 /\ j = 3) \/ (i = 2 /\ j = 3)
      BY <2>1
    <3> QED BY <1>1, <3>1
  <2>3. wire'[i].chan \in {"command", "device", "control"}
    BY <1>1, <2>1
  <2>4. hubSeq'[wire'[i].chan] = 1
    BY <1>1, <2>3 DEF Channels
  <2> QED BY <2>2, <2>4
<1>5. ASSUME NEW i \in 1 .. 3
      PROVE  NextNumber(wire', hubSeq', wire'[i].chan, i + 1, Succ(wire'[i].seq))
  BY <1>1, <1>3, <1>4 DEF NextNumber
<1>6. Chained(wire')
  BY <1>1 DEF Chained
<1>7. AfterReset(wire', 0)
  BY <1>1, <1>2 DEF AfterReset
<1> QED BY <1>1, <1>5, <1>6, <1>7 DEF InSequence

LEMMA TransportInit == Init => TransportInv
<1> SUFFICES ASSUME Init PROVE TransportInv
  OBVIOUS
<1>1. lib.shtp.inRemaining = 0
  BY FreshDriver, NewInstanceOK DEF Init
<1>2. \A i : i \notin 1 .. Len(wire)
  BY EmptyFacts DEF Init
<1> QED BY <1>1, <1>2 DEF TransportInv, InSequence, Chained, Assembly

LEMMA TransportStep == FewLost /\ Typed /\ TransportInv /\ [Next]_vars => TransportInv'
<1> SUFFICES ASSUME FewLost, Typed, TransportInv, [Next]_vars PROVE TransportInv'
  OBVIOUS
<1>1. CASE Resets
  <2>1. HubReset /\ UNCHANGED <<lib, losses>> /\ 0 \in 0 .. losses
    BY <1>1 DEF Resets, Typed, SH2Typed
  <2> QED BY <2>1, ResetWire DEF TransportInv, Assembly
<1>2. CASE open
  <2>1. HubReset /\ lib' = Opened(lib)
    BY <1>2 DEF open
  <2>2. lib'.shtp.inRemaining = 0
    BY <2>1, FreshDriver, NewInstanceOK
  <2> QED BY <2>1, <2>2, ResetWire DEF TransportInv, Assembly
<1>3. CASE close
  <2>1. lib' = Closed(lib) /\ UNCHANGED <<wire, hubSeq>>
    BY <1>3 DEF close, hub
  <2>2. lib'.shtp.inRemaining = 0
    BY <2>1, FreshDriver, NewInstanceOK
  <2> QED BY <2>1, <2>2 DEF TransportInv, Assembly
<1>4. CASE start
  <2>1. PICK o \in ClientOps, sensor \in Sensors : lib' = Started(lib, o, sensor, call + 1)
    BY <1>4 DEF start
  <2>2. Begun(lib, lib', o, call + 1)
    BY <2>1, StartedFacts, ClientAssumption DEF Typed, SH2Typed
  <2>3. lib'.shtp = lib.shtp /\ UNCHANGED <<wire, hubSeq, losses>>
    BY <1>4, <2>2 DEF start, Begun, hub, counts
  <2> QED BY <2>3 DEF TransportInv
<1>5. CASE write /\ UNCHANGED clientVars
  <2>1. lib'.shtp = lib.shtp /\ UNCHANGED <<wire, hubSeq, losses>>
    BY <1>5, WroteFacts DEF Typed, write, counts
  <2> QED BY <2>1 DEF TransportInv
<1>6. CASE opened \/ return \/ Rests
  <2>1. UNCHANGED <<lib, wire, hubSeq, losses>>
    BY <1>6 DEF opened, return, Rests, sh2Vars, hub, counts
  <2> QED BY <2>1 DEF TransportInv
<1> QED BY <1>1, <1>2, <1>3, <1>4, <1>5, <1>6, Steps, TransportServes, TransportLose,
           TransportTakes

(* The transfers on the wire are numbered in sequence, whatever was lost     *)
(* before them, and a payload under construction waits for its own next      *)
(* fragment, for a later number, or for what a reset left.                   *)
THEOREM TransportInvariant == FewLost => (Spec => []TransportInv)
<1> SUFFICES ASSUME FewLost PROVE Spec => []TransportInv
  OBVIOUS
<1>1. Typed /\ TransportInv /\ [Next]_vars => TransportInv'
  BY TransportStep
<1> QED BY <1>1, TransportInit, DriverTypes, PTL DEF Spec

(* A payload put together from fragments has the consecutive reports of one  *)
(* cargo, whatever up to three losses and any number of resets leave of the  *)
(* transfers (rxAssemble, shtp.c).                                           *)
THEOREM PayloadsConsecutive == FewLost => (Spec => []PayloadIsConsecutive)
<1> SUFFICES ASSUME FewLost PROVE Spec => []PayloadIsConsecutive
  OBVIOUS
<1>1. Typed /\ TransportInv => PayloadIsConsecutive
  <2> SUFFICES ASSUME Typed, TransportInv, wire # <<>>
               PROVE  Consecutive(rxAppend(lib.shtp, Head(wire)).inPayload)
    BY DEF PayloadIsConsecutive, Consecutive, Follows
  <2>1. Head(wire) = wire[1]
    BY HeadFacts
  <2> QED BY <2>1, NextPayload
<1>2. Spec => []TransportInv
  BY TransportInvariant
<1> QED BY <1>1, <1>2, DriverTypes, PTL

-----------------------------------------------------------------------------
(* What reports leave of the driver to IMUManager, which calls two of the    *)
(* operations.                                                               *)

ManagerOps == {"getProdIds", "setSensorConfig", "none"}

(* Which session it is, whether it was told of the reset, and whether it has *)
(* a value to fill.                                                          *)
Session(l) == <<l.pShtp, l.inUse, l.resetComplete, l.hasValue>>

(* What is being written goes on, and the operation that is only sent knows  *)
(* of no report.                                                             *)
Leaves(l, m) ==
    /\ DriverOK(m) /\ m.pOp \in ManagerOps /\ m.pOp \in {l.pOp, "none"}
    /\ Session(m) = Session(l)
    /\ l.opStatus = "SH2_OK" => m.opStatus = "SH2_OK"
    /\ m.controlChan = l.controlChan /\ m.resetSeen = l.resetSeen /\ m.shtp = l.shtp
    /\ m.copies = l.copies /\ m.out = l.out
    /\ l.pOp # "getProdIds" => m.pOp = l.pOp /\ m.opStatus = l.opStatus

LEMMA ProdIdLeaves ==
    ASSUME NEW l, NEW r, DriverOK(l), l.pOp = "getProdIds"
    PROVE  /\ Leaves(l, getProdIdRx(l, r))
           /\ getProdIdRx(l, r).event = l.event /\ getProdIdRx(l, r).broken = l.broken
<1> DEFINE m == getProdIdRx(l, r)
           stored == [Hear(l, r) EXCEPT !.got = @ + 1]
           ended == Complete(stored, "SH2_OK")
<1>1. m = l \/ m = stored \/ m = ended
  BY DEF getProdIdRx
<1>2. /\ Driver1(stored) /\ stored.copies = l.copies /\ stored.out = l.out
      /\ stored.controlChan = l.controlChan /\ stored.resetSeen = l.resetSeen
      /\ stored.shtp = l.shtp /\ stored.event = l.event /\ stored.pOp = l.pOp
      /\ stored.broken = l.broken /\ stored.opStatus = l.opStatus /\ Session(stored) = Session(l)
  BY DEF Hear, DriverOK, Driver1, Session
<1> HIDE DEF stored
<1>3. /\ Driver1(ended) /\ ended.copies = l.copies /\ ended.out = l.out
      /\ ended.controlChan = l.controlChan /\ ended.resetSeen = l.resetSeen
      /\ ended.shtp = l.shtp /\ ended.event = l.event /\ ended.pOp = "none"
      /\ ended.broken = l.broken /\ ended.opStatus = "SH2_OK" /\ Session(ended) = Session(l)
  BY <1>2 DEF Complete, Driver1, Session
<1> HIDE DEF ended
<1>4. DriverOK(stored) /\ DriverOK(ended)
  BY <1>2, <1>3 DEF DriverOK
<1> HIDE DEF m
<1>5. /\ DriverOK(m) /\ m.copies = l.copies /\ m.out = l.out
      /\ m.controlChan = l.controlChan /\ m.resetSeen = l.resetSeen
      /\ m.shtp = l.shtp /\ m.event = l.event /\ m.pOp \in {l.pOp, "none"}
      /\ m.broken = l.broken /\ m.opStatus \in {l.opStatus, "SH2_OK"} /\ Session(m) = Session(l)
  BY <1>1, <1>2, <1>3, <1>4
<1>6. Leaves(l, m) /\ m.event = l.event /\ m.broken = l.broken
  BY <1>5 DEF Leaves, ManagerOps
<1> QED BY <1>6 DEF m

LEMMA LeavesSelf == ASSUME NEW l, DriverOK(l), l.pOp \in ManagerOps PROVE Leaves(l, l)
  BY DEF Leaves

LEMMA LeavesBoth ==
    ASSUME NEW l, NEW m, NEW n, Leaves(l, m), Leaves(m, n), l.pOp \in ManagerOps
    PROVE  Leaves(l, n)
  BY DEF Leaves, ManagerOps

LEMMA OpLeaves ==
    ASSUME NEW l, NEW r, DriverOK(l), l.pOp \in ManagerOps
    PROVE  Leaves(l, opRx(l, r)) /\ opRx(l, r).event = l.event /\ opRx(l, r).broken = l.broken
<1>1. CASE l.pOp = "getProdIds"
  <2>1. opRx(l, r) = getProdIdRx(l, r)
    BY <1>1 DEF opRx, SendOnly
  <2> QED BY <1>1, <2>1, ProdIdLeaves
<1>2. CASE l.pOp # "getProdIds"
  <2>1. opRx(l, r) = l
    BY <1>2 DEF opRx, ManagerOps, SendOnly
  <2> QED BY <2>1, LeavesSelf
<1> QED BY <1>1, <1>2

(* A report of a sensor is put into the client's value, a report of the      *)
(* control channel is not.                                                   *)
LEMMA ReceiveLeaves ==
    ASSUME NEW l, NEW r, NEW chan, DriverOK(l), l.pOp \in ManagerOps
    PROVE  LET m == Receive(chan, l, r) IN
           /\ Leaves(l, m)
           /\ m.event = l.event \/ (chan # "control" /\ m.event = r)
           /\ chan = "control" \/ l.hasValue => m.broken = l.broken
<1>1. CASE chan = "control" \/ r.id = "FLUSH_COMPLETED"
  <2>1. Receive(chan, l, r) = opRx(l, r)
    BY <1>1 DEF Receive, inputRx
  <2> QED BY <2>1, OpLeaves
<1>2. CASE chan # "control" /\ r.id # "FLUSH_COMPLETED"
  <2> DEFINE given == [l EXCEPT !.event = r]
             lost == [l EXCEPT !.broken = TRUE]
             m == Receive(chan, l, r)
  <2>1. m = given \/ (m = lost /\ ~l.hasValue)
    BY <1>2 DEF Receive, inputRx
  <2>2. /\ Driver1(given) /\ given.copies = l.copies /\ given.out = l.out
        /\ given.controlChan = l.controlChan /\ given.resetSeen = l.resetSeen
        /\ given.shtp = l.shtp /\ given.pOp = l.pOp /\ given.opStatus = l.opStatus
        /\ given.event = r /\ given.broken = l.broken /\ Session(given) = Session(l)
    BY DEF DriverOK, Driver1, Session
  <2>3. /\ Driver1(lost) /\ lost.copies = l.copies /\ lost.out = l.out
        /\ lost.controlChan = l.controlChan /\ lost.resetSeen = l.resetSeen
        /\ lost.shtp = l.shtp /\ lost.pOp = l.pOp /\ lost.opStatus = l.opStatus
        /\ lost.event = l.event /\ Session(lost) = Session(l)
    BY DEF DriverOK, Driver1, Session
  <2> HIDE DEF given, lost, m
  <2>4. Leaves(l, given) /\ Leaves(l, lost)
    BY <2>2, <2>3 DEF Leaves, DriverOK
  <2> QED BY <1>2, <2>1, <2>2, <2>3, <2>4 DEF m
<1> QED BY <1>1, <1>2

LEMMA PayloadLeaves ==
    ASSUME NEW l, NEW chan, NEW payload, DriverOK(l), l.pOp \in ManagerOps, Sequence(payload)
    PROVE  LET m == handPayload(l, chan, payload) IN
           /\ Leaves(l, m)
           /\ m.event = l.event \/ (chan # "control" /\ m.event \in ReportsOf(payload))
           /\ chan = "control" \/ l.hasValue => m.broken = l.broken
<1> DEFINE n == Len(payload)
           Left(m) == /\ Leaves(l, m)
                      /\ \/ m.event = l.event
                         \/ chan # "control" /\ m.event \in ReportsOf(payload)
                      /\ chan = "control" \/ l.hasValue => m.broken = l.broken
<1>1. n \in Nat
  BY SequenceFacts
<1>2. PICK f : HandsOn(l, chan, payload, f, n) /\ handPayload(l, chan, payload) = f[n]
  BY PayloadHanded
<1>3. f[0] = l /\ \A i \in 1 .. n : f[i] = Receive(chan, f[i - 1], payload[i])
  BY <1>1, <1>2 DEF HandsOn
<1>4. ASSUME NEW m, Left(m), NEW i \in 1 .. n PROVE Left(Receive(chan, m, payload[i]))
  <2> DEFINE received == Receive(chan, m, payload[i])
  <2>1. DriverOK(m) /\ m.pOp \in ManagerOps
    BY <1>4 DEF Leaves
  <2>2. /\ Leaves(m, received)
        /\ received.event = m.event \/ (chan # "control" /\ received.event = payload[i])
        /\ chan = "control" \/ m.hasValue => received.broken = m.broken
    BY <2>1, ReceiveLeaves
  <2>3. payload[i] \in ReportsOf(payload)
    BY DEF ReportsOf
  <2> HIDE DEF received
  <2>4. Leaves(l, received)
    BY <1>4, <2>2, LeavesBoth
  <2>5. m.hasValue = l.hasValue
    BY <1>4 DEF Leaves, Session
  <2> QED BY <1>4, <2>2, <2>3, <2>4, <2>5 DEF received
<1>5. \A i \in 0 .. n : Left(f[i])
  <2> DEFINE Wrong == {i \in 0 .. n : ~Left(f[i])}
  <2> SUFFICES ASSUME Wrong # {} PROVE FALSE
    OBVIOUS
  <2>1. Wrong \in SUBSET Nat
    BY <1>1
  <2>2. PICK k \in Wrong : \A j \in Wrong : ~(j < k)
    BY <2>1, Least
  <2>3. k # 0
    BY <1>3, <2>2, LeavesSelf
  <2>4. k \in 1 .. n /\ k - 1 \in 0 .. n /\ k - 1 < k
    BY <1>1, <2>2, <2>3
  <2>5. Left(f[k - 1])
    BY <2>2, <2>4
  <2> HIDE DEF Left
  <2> QED BY <1>3, <1>4, <2>2, <2>4, <2>5
<1>6. n \in 0 .. n
  BY <1>1
<1>7. Left(handPayload(l, chan, payload))
  BY <1>2, <1>5, <1>6
<1> QED BY <1>7

-----------------------------------------------------------------------------
(* Servicing the transport, as IMUManager relies on it.                      *)

LEMMA KnownFacts ==
    ASSUME NEW s, NEW t, ShtpOK(s), TransferOK(t)
    PROVE  /\ rxAppend(s, t).known = s.known /\ rxDone(s, t).known = s.known
           /\ addChannels(s, Channels).known = Channels
  BY DEF rxAppend, rxDone, addChannels, ShtpOK

(* The control channel is found with all the others.                         *)
ChannelsKnown(l) == l.controlChan => l.shtp.known = Channels

(* What a transfer makes of the driver.                                      *)
Served(l, t, m) ==
    /\ m.pOp \in ManagerOps /\ m.copies = l.copies /\ m.out = l.out
    /\ l.pOp # "getProdIds" => m.pOp = l.pOp /\ m.opStatus = l.opStatus
    /\ m.pOp \in {l.pOp, "none"} /\ (l.opStatus = "SH2_OK" => m.opStatus = "SH2_OK")
    /\ m.pShtp = l.pShtp /\ m.inUse = l.inUse
    /\ l.hasValue \/ t.chan # "inputNormal" => m.broken = l.broken
    /\ t.chan # "device" => m.resetComplete = l.resetComplete
    /\ t.chan = "command" /\ t.rest = 0 /\ "command" \in l.shtp.known => m.controlChan
    /\ "command" \in l.shtp.known => "command" \in m.shtp.known
    /\ l.controlChan => m.controlChan
    /\ ChannelsKnown(l) => ChannelsKnown(m)
    /\ l.resetSeen => m.resetSeen
    /\ t.chan = "device" /\ t.rest = 0 /\ l.shtp.known = Channels => m.resetSeen
    /\ \/ m.event = l.event
       \/ t.chan = "inputNormal" /\ m.event \in ReportsOf(rxAppend(l.shtp, t).inPayload)

(* What a payload handed on makes of it.                                     *)
Listened(l, chan, m) ==
    /\ DriverOK(m) /\ m.pOp \in ManagerOps /\ m.copies = l.copies /\ m.out = l.out
    /\ l.pOp # "getProdIds" => m.pOp = l.pOp /\ m.opStatus = l.opStatus
    /\ m.pOp \in {l.pOp, "none"} /\ (l.opStatus = "SH2_OK" => m.opStatus = "SH2_OK")
    /\ m.pShtp = l.pShtp /\ m.inUse = l.inUse
    /\ l.hasValue \/ chan # "inputNormal" => m.broken = l.broken
    /\ chan # "device" => m.resetComplete = l.resetComplete
    /\ chan = "command" => m.controlChan
    /\ m.controlChan = l.controlChan \/ m.controlChan = TRUE
    /\ \/ m.controlChan = l.controlChan /\ m.shtp.known = l.shtp.known
       \/ m.shtp.known = Channels
    /\ chan # "device" => m.resetSeen = l.resetSeen
    /\ chan = "device" => m.resetSeen = TRUE
    /\ \/ m.event = l.event
       \/ chan = "inputNormal" /\ m.event \in ReportsOf(l.shtp.inPayload)

LEMMA ListenerLeaves ==
    ASSUME NEW l, DriverOK(l), ShtpOK(l.shtp), l.pOp \in ManagerOps, NEW chan \in Channels
    PROVE  Listened(l, chan, Listener(l, chan, l.shtp.inPayload))
<1> DEFINE p == l.shtp.inPayload
           m == Listener(l, chan, p)
<1>1. CASE chan = "command"
  <2> DEFINE c == addChannels(l.shtp, Channels)
             v == KnowsChannel(c, "control")
  <2>1. m = [l EXCEPT !.shtp = c, !.controlChan = v]
    BY <1>1 DEF Listener, advertised
  <2>2. c.known = Channels
    BY DEF addChannels, ShtpOK
  <2>3. v = TRUE
    BY <2>2 DEF KnowsChannel, Channels
  <2> HIDE DEF c, v, m
  <2>4. /\ Driver1(m) /\ m.copies = l.copies /\ m.out = l.out /\ m.pOp = l.pOp
        /\ m.opStatus = l.opStatus /\ m.controlChan = TRUE /\ m.shtp = c
        /\ m.resetSeen = l.resetSeen /\ m.event = l.event /\ m.broken = l.broken
        /\ m.pShtp = l.pShtp /\ m.inUse = l.inUse /\ m.resetComplete = l.resetComplete
    BY <2>1, <2>3 DEF DriverOK, Driver1
  <2> QED BY <1>1, <2>2, <2>4 DEF DriverOK, Listened, m
<1>2. CASE chan = "device"
  <2>1. m = [l EXCEPT !.resetComplete = TRUE, !.resetSeen = TRUE]
    BY <1>2 DEF Listener, resetDone
  <2> HIDE DEF m
  <2>2. /\ Driver1(m) /\ m.copies = l.copies /\ m.out = l.out /\ m.pOp = l.pOp
        /\ m.opStatus = l.opStatus /\ m.controlChan = l.controlChan /\ m.shtp = l.shtp
        /\ m.resetSeen = TRUE /\ m.event = l.event /\ m.broken = l.broken
        /\ m.pShtp = l.pShtp /\ m.inUse = l.inUse
    BY <2>1 DEF DriverOK, Driver1
  <2> QED BY <1>2, <2>2 DEF DriverOK, Listened, m
<1>3. CASE chan \in {"control", "inputNormal"}
  <2>1. m = handPayload(l, chan, p)
    BY <1>3 DEF Listener
  <2>2. Sequence(p)
    BY DEF ShtpOK, PayloadOK
  <2>3. /\ Leaves(l, m)
        /\ m.event = l.event \/ (chan # "control" /\ m.event \in ReportsOf(p))
        /\ chan = "control" \/ l.hasValue => m.broken = l.broken
    BY <2>1, <2>2, PayloadLeaves
  <2> HIDE DEF m
  <2>4. m.pShtp = l.pShtp /\ m.inUse = l.inUse /\ m.resetComplete = l.resetComplete
    BY <2>3 DEF Leaves, Session
  <2> QED BY <1>3, <2>3, <2>4 DEF Leaves, Listened, m
<1> QED BY <1>1, <1>2, <1>3 DEF Channels

LEMMA ServicedLeaves ==
    ASSUME NEW l, NEW t, DriverOK(l), ShtpOK(l.shtp), TransferOK(t), l.pOp \in ManagerOps
    PROVE  Served(l, t, Serviced(l, t))
<1> DEFINE a == rxAppend(l.shtp, t)
           appended == [l EXCEPT !.shtp = a]
           delivered == IF Delivers(appended.shtp)
                        THEN Listener(appended, t.chan, appended.shtp.inPayload) ELSE appended
           m == [delivered EXCEPT !.shtp = rxDone(delivered.shtp, t)]
<1>1. Serviced(l, t) = m
  BY DEF Serviced
<1>2. ShtpOK(a) /\ a.inChan = t.chan /\ a.inRemaining = t.rest /\ a.known = l.shtp.known
  BY AppendedFacts, KnownFacts
<1>3. t.chan \in Channels
  BY DEF TransferOK
<1>4. t.chan = "device" /\ t.rest = 0 /\ l.shtp.known = Channels => Delivers(a)
  BY <1>2 DEF Delivers, Channels
<1>8. t.chan = "command" /\ t.rest = 0 /\ "command" \in l.shtp.known => Delivers(a)
  BY <1>2 DEF Delivers
<1> HIDE DEF a
<1>5. /\ DriverOK(appended) /\ appended.shtp = a /\ appended.copies = l.copies
      /\ appended.out = l.out /\ appended.pOp = l.pOp /\ appended.opStatus = l.opStatus
      /\ appended.controlChan = l.controlChan /\ appended.resetSeen = l.resetSeen
      /\ appended.event = l.event /\ appended.broken = l.broken
      /\ appended.pShtp = l.pShtp /\ appended.inUse = l.inUse
      /\ appended.resetComplete = l.resetComplete /\ appended.hasValue = l.hasValue
  BY DEF DriverOK, Driver1
<1> HIDE DEF appended
<1>6. CASE Delivers(a)
  <2>1. delivered = Listener(appended, t.chan, appended.shtp.inPayload)
    BY <1>5, <1>6
  <2> HIDE DEF delivered
  <2>2. ShtpOK(delivered.shtp)
    BY <1>2, <1>3, <1>5, <2>1, ListenerAfter
  <2>3. /\ DriverOK(delivered) /\ delivered.pOp \in ManagerOps
        /\ delivered.copies = l.copies /\ delivered.out = l.out
        /\ l.pOp # "getProdIds" => delivered.pOp = l.pOp /\ delivered.opStatus = l.opStatus
        /\ delivered.pOp \in {l.pOp, "none"}
        /\ l.opStatus = "SH2_OK" => delivered.opStatus = "SH2_OK"
        /\ delivered.pShtp = l.pShtp /\ delivered.inUse = l.inUse
        /\ l.hasValue \/ t.chan # "inputNormal" => delivered.broken = l.broken
        /\ t.chan # "device" => delivered.resetComplete = l.resetComplete
        /\ t.chan = "command" => delivered.controlChan
        /\ delivered.controlChan = l.controlChan \/ delivered.controlChan = TRUE
        /\ \/ delivered.controlChan = l.controlChan /\ delivered.shtp.known = l.shtp.known
           \/ delivered.shtp.known = Channels
        /\ t.chan # "device" => delivered.resetSeen = l.resetSeen
        /\ t.chan = "device" => delivered.resetSeen = TRUE
        /\ \/ delivered.event = l.event
           \/ t.chan = "inputNormal" /\ delivered.event \in ReportsOf(a.inPayload)
    <3> DEFINE w == appended
    <3>1. DriverOK(w) /\ ShtpOK(w.shtp) /\ w.pOp \in ManagerOps /\ t.chan \in Channels
      BY <1>2, <1>3, <1>5
    <3>2. Listened(w, t.chan, delivered)
      BY <2>1, <3>1, ListenerLeaves
    <3> QED BY <1>2, <1>5, <3>2 DEF Listened
  <2>4. rxDone(delivered.shtp, t).known = delivered.shtp.known
    BY <2>2, KnownFacts
  <2>5. /\ m.copies = delivered.copies /\ m.out = delivered.out /\ m.pOp = delivered.pOp
        /\ m.opStatus = delivered.opStatus /\ m.controlChan = delivered.controlChan
        /\ m.resetSeen = delivered.resetSeen /\ m.event = delivered.event
        /\ m.pShtp = delivered.pShtp /\ m.inUse = delivered.inUse
        /\ m.broken = delivered.broken /\ m.resetComplete = delivered.resetComplete
        /\ m.shtp = rxDone(delivered.shtp, t)
    BY <2>3 DEF DriverOK, Driver1
  <2> HIDE DEF m
  <2>6. "command" \in Channels
    BY DEF Channels
  <2>7. Served(l, t, m)
    BY <2>3, <2>4, <2>5, <2>6 DEF Served, ChannelsKnown, a
  <2> QED BY <1>1, <2>7
<1>7. CASE ~Delivers(a)
  <2>1. delivered = appended
    BY <1>5, <1>7
  <2> HIDE DEF delivered
  <2>2. rxDone(a, t).known = a.known
    BY <1>2, KnownFacts
  <2>3. /\ m.copies = l.copies /\ m.out = l.out /\ m.pOp = l.pOp
        /\ m.opStatus = l.opStatus /\ m.controlChan = l.controlChan
        /\ m.resetSeen = l.resetSeen /\ m.event = l.event
        /\ m.pShtp = l.pShtp /\ m.inUse = l.inUse
        /\ m.broken = l.broken /\ m.resetComplete = l.resetComplete
        /\ m.shtp = rxDone(a, t)
    BY <1>5, <2>1 DEF DriverOK, Driver1
  <2> HIDE DEF m
  <2>4. Served(l, t, m)
    BY <1>2, <1>4, <1>7, <1>8, <2>2, <2>3 DEF Served, ChannelsKnown
  <2> QED BY <1>1, <2>4
<1> QED BY <1>6, <1>7

-----------------------------------------------------------------------------
(* The types of IMUManager, and of what it puts on the way.                  *)

ReportTypes == {"RV", "LA", "STABILITY", "none"}

(* The two requests it makes.                                                *)
ManagerRequest(q) ==
    /\ q.id \in {"PROD_ID_REQ", "SET_FEATURE_CMD"}
    /\ q.id = "SET_FEATURE_CMD" => q.key \in ReportTypes

(* A report of a sensor; that of stability says which.                       *)
SensorReport(r) ==
    r.id \in ReportTypes /\ (r.id = "STABILITY" => r.key \in {"moving", "still"})

(* What the hub tells of a reset and what its sensors report comes in one    *)
(* transfer.                                                                 *)
ManagerTransfer(t) ==
    /\ t.chan \in {"device", "inputNormal"} => t.rest = 0
    /\ t.chan = "inputNormal" =>
          ~t.continuation /\ \A r \in ReportsOf(t.part) : SensorReport(r)

BusTyped ==
    /\ SH2Typed
    /\ lib.pOp \in ManagerOps
    /\ lib.copies > 0 => ManagerRequest(lib.out)
    /\ \A i \in 1 .. Len(hubIn) : ManagerRequest(hubIn[i])
    /\ \A i \in 1 .. Len(wire) : ManagerTransfer(wire[i])
    /\ enabled \subseteq ReportTypes

ManagerTyped ==
    /\ step \in {"calibrate", "opening", "prodIds", "enable", "check", "checkEvent", "obtain",
                 "obtainEvent"}
    /\ ready \in BOOLEAN /\ gathering \in BOOLEAN /\ onMotion \in BOOLEAN
    /\ setting \in 1 .. 3 /\ reportType \in ReportTypes
    /\ counter \in [Kinds -> Nat] /\ spent \in [Kinds -> Nat] /\ emitted \in [Kinds -> Nat]
    /\ late \in 0 .. MaxLate /\ hubResets \in 0 .. MaxHubResets

IMUTyped == BusTyped /\ ManagerTyped

(* The manager gives the driver its value before it services the transport.  *)
Asking == [lib EXCEPT !.hasValue = TRUE, !.event = NoReport]

LEMMA AskingFacts ==
    ASSUME DriverOK(lib)
    PROVE  /\ DriverOK(Asking) /\ Asking.event = NoReport /\ Asking.shtp = lib.shtp
           /\ Asking.pOp = lib.pOp /\ Asking.opStatus = lib.opStatus
           /\ Asking.copies = lib.copies /\ Asking.out = lib.out
           /\ Asking.controlChan = lib.controlChan /\ Asking.resetSeen = lib.resetSeen
           /\ Asking.pShtp = lib.pShtp /\ Asking.broken = lib.broken /\ Asking.hasValue = TRUE
<1>1. /\ Driver1(Asking) /\ Asking.event = NoReport /\ Asking.shtp = lib.shtp
      /\ Asking.pOp = lib.pOp /\ Asking.opStatus = lib.opStatus
      /\ Asking.copies = lib.copies /\ Asking.out = lib.out
      /\ Asking.controlChan = lib.controlChan /\ Asking.resetSeen = lib.resetSeen
      /\ Asking.pShtp = lib.pShtp /\ Asking.broken = lib.broken /\ Asking.hasValue = TRUE
  BY DEF Asking, DriverOK, Driver1
<1> QED BY <1>1 DEF DriverOK

(* The next transfer is read.                                                *)
Reads(l) ==
    /\ wire # <<>> /\ lib' = Serviced(l, Head(wire)) /\ wire' = Tail(wire)
    /\ UNCHANGED <<hubIn, hubSeq, enabled, losses>>

LEMMA ReadsFacts ==
    ASSUME BusTyped, NEW l \in {lib, Asking}, Reads(l)
    PROVE  /\ Served(l, wire[1], lib') /\ ManagerTransfer(wire[1])
           /\ SH2Typed' /\ Sequence(wire) /\ Len(wire) \in Nat /\ 1 \in 1 .. Len(wire)
           /\ Sequence(wire') /\ Len(wire') = Len(wire) - 1
           /\ \A i \in 1 .. Len(wire') : wire'[i] = wire[i + 1] /\ i + 1 \in 1 .. Len(wire)
<1>1. SH2Typed /\ wire # <<>> /\ Sequence(wire)
  BY DEF BusTyped, SH2Typed, Reads
<1>2. /\ Head(wire) = wire[1] /\ TransferOK(wire[1]) /\ 1 \in 1 .. Len(wire)
      /\ Sequence(Tail(wire)) /\ Len(Tail(wire)) = Len(wire) - 1 /\ Len(wire) \in Nat
      /\ \A i \in 1 .. Len(wire) - 1 : Tail(wire)[i] = wire[i + 1] /\ i + 1 \in 1 .. Len(wire)
  BY <1>1, HeadFacts
<1>3. /\ DriverOK(l) /\ ShtpOK(l.shtp) /\ l.pOp \in ManagerOps
      /\ l.copies > 0 => l.out.id \in RequestIds
  BY AskingFacts DEF BusTyped, SH2Typed
<1>4. lib' = Serviced(l, wire[1]) /\ wire' = Tail(wire) /\ UNCHANGED <<hubIn, hubSeq, losses>>
  BY <1>2 DEF Reads
<1>5. Served(l, wire[1], lib')
  BY <1>2, <1>3, <1>4, ServicedLeaves
<1>6. SH2Typed'
  BY <1>1, <1>2, <1>3, <1>4, SH2Served
<1>7. ManagerTransfer(wire[1])
  BY <1>2 DEF BusTyped
<1> QED BY <1>1, <1>2, <1>4, <1>5, <1>6, <1>7

LEMMA BusReads ==
    ASSUME BusTyped, NEW l \in {lib, Asking}, Reads(l)
    PROVE  BusTyped'
<1>1. /\ Served(l, wire[1], lib') /\ SH2Typed'
      /\ \A i \in 1 .. Len(wire') : wire'[i] = wire[i + 1] /\ i + 1 \in 1 .. Len(wire)
  BY ReadsFacts
<1>2. l.copies = lib.copies /\ l.out = lib.out
  BY AskingFacts DEF BusTyped, SH2Typed
<1>3. lib'.pOp \in ManagerOps /\ (lib'.copies > 0 => ManagerRequest(lib'.out))
  BY <1>1, <1>2 DEF Served, BusTyped
<1>4. \A i \in 1 .. Len(wire') : ManagerTransfer(wire'[i])
  BY <1>1 DEF BusTyped
<1>5. UNCHANGED <<hubIn, enabled>>
  BY DEF Reads
<1> QED BY <1>1, <1>3, <1>4, <1>5 DEF BusTyped

LEMMA BusWrites ==
    ASSUME BusTyped, write
    PROVE  /\ BusTyped' /\ lib.copies > 0 /\ lib.copies \in Nat /\ lib'.copies = lib.copies - 1
           /\ lib'.out = lib.out /\ lib'.shtp = lib.shtp
           /\ lib'.controlChan = lib.controlChan /\ lib'.resetSeen = lib.resetSeen
           /\ \/ lib'.pOp = lib.pOp /\ lib'.opStatus = lib.opStatus
              \/ lib'.pOp = "none" /\ lib'.opStatus = "SH2_OK" /\ lib.pOp = "setSensorConfig"
           /\ lib'.pOp = "setSensorConfig" => lib'.copies > 0
           /\ lib'.pShtp = lib.pShtp /\ lib'.broken = lib.broken
           /\ Len(hubIn) \in Nat /\ Len(hubIn') = Len(hubIn) + 1
           /\ \A i \in 1 .. Len(hubIn) : hubIn'[i] = hubIn[i]
           /\ hubIn'[Len(hubIn) + 1] = lib.out
<1> DEFINE l == [lib EXCEPT !.copies = @ - 1]
           m == Complete(l, "SH2_OK")
<1>1. DriverOK(lib) /\ lib.copies > 0 /\ lib.copies \in Nat
  BY DEF BusTyped, SH2Typed, DriverOK, write
<1>2. /\ Driver1(l) /\ l.copies = lib.copies - 1 /\ l.pOp = lib.pOp /\ l.out = lib.out
      /\ l.opStatus = lib.opStatus /\ l.shtp = lib.shtp
      /\ l.controlChan = lib.controlChan /\ l.resetSeen = lib.resetSeen
      /\ l.pShtp = lib.pShtp /\ l.broken = lib.broken
  BY <1>1 DEF DriverOK, Driver1
<1>3. lib' = IF l.copies = 0 /\ l.pOp \in SendOnly THEN m ELSE l
  BY DEF write
<1> HIDE DEF l
<1>4. /\ m.copies = l.copies /\ m.pOp = "none" /\ m.out = l.out
      /\ m.opStatus = "SH2_OK" /\ m.shtp = l.shtp
      /\ m.controlChan = l.controlChan /\ m.resetSeen = l.resetSeen
      /\ m.pShtp = l.pShtp /\ m.broken = l.broken
  BY <1>2 DEF Complete, Driver1
<1> HIDE DEF m
<1>5. lib.pOp \in SendOnly => lib.pOp = "setSensorConfig"
  BY DEF BusTyped, ManagerOps, SendOnly
<1>6. /\ lib'.copies = lib.copies - 1 /\ lib'.out = lib.out /\ lib'.shtp = lib.shtp
      /\ lib'.controlChan = lib.controlChan /\ lib'.resetSeen = lib.resetSeen
      /\ \/ lib'.pOp = lib.pOp /\ lib'.opStatus = lib.opStatus
         \/ lib'.pOp = "none" /\ lib'.opStatus = "SH2_OK" /\ lib.pOp = "setSensorConfig"
      /\ lib'.pOp = "setSensorConfig" => lib'.copies > 0
      /\ lib'.pShtp = lib.pShtp /\ lib'.broken = lib.broken
  BY <1>1, <1>2, <1>3, <1>4, <1>5 DEF SendOnly
<1>7. SH2Typed'
  BY SH2Wrote DEF BusTyped
<1>8. /\ Sequence(hubIn) /\ hubIn' = Append(hubIn, lib.out) /\ UNCHANGED <<wire, enabled>>
  BY DEF BusTyped, SH2Typed, write
<1>9. /\ Len(hubIn) \in Nat /\ Len(hubIn') = Len(hubIn) + 1
      /\ \A i \in 1 .. Len(hubIn) : hubIn'[i] = hubIn[i]
      /\ hubIn'[Len(hubIn) + 1] = lib.out
  BY <1>8, AppendFacts, SequenceFacts
<1>10. \A i \in 1 .. Len(hubIn') : ManagerRequest(hubIn'[i])
  <2>1. \A i \in 1 .. Len(hubIn') : i \in 1 .. Len(hubIn) \/ i = Len(hubIn) + 1
    BY <1>9
  <2> QED BY <1>1, <1>9, <2>1 DEF BusTyped
<1>11. lib'.pOp \in ManagerOps /\ (lib'.copies > 0 => ManagerRequest(lib'.out))
  BY <1>1, <1>6 DEF BusTyped, ManagerOps
<1>12. BusTyped'
  BY <1>7, <1>8, <1>10, <1>11 DEF BusTyped
<1> QED BY <1>1, <1>6, <1>9, <1>12

(* The hub answers a request on the control channel.                         *)
LEMMA BusTakes ==
    ASSUME BusTyped, hubTakes
    PROVE  /\ BusTyped' /\ UNCHANGED lib
           /\ Len(hubIn) \in Nat /\ 1 \in 1 .. Len(hubIn) /\ Len(hubIn') = Len(hubIn) - 1
           /\ \A i \in 1 .. Len(hubIn) - 1 : hubIn'[i] = hubIn[i + 1]
           /\ enabled' = IF hubIn[1].id = "SET_FEATURE_CMD" THEN enabled \union {hubIn[1].key}
                                                            ELSE enabled
           /\ \/ UNCHANGED wire
              \/ \E ts : /\ wire' = wire \o ts /\ Sequence(ts)
                         /\ \A i \in 1 .. Len(ts) : ts[i].chan = "control"
<1>1. SH2Typed /\ SH2Typed'
  BY SH2Takes DEF BusTyped
<1>2. /\ Sequence(hubIn) /\ Len(hubIn) \in Nat /\ 1 \in 1 .. Len(hubIn)
      /\ Sequence(hubIn') /\ Len(hubIn') = Len(hubIn) - 1
      /\ \A i \in 1 .. Len(hubIn) - 1 :
            hubIn'[i] = hubIn[i + 1] /\ i + 1 \in 1 .. Len(hubIn)
  BY <1>1, TookFacts
<1> DEFINE q == hubIn[1]
<1>3. Head(hubIn) = q
  BY <1>2, TailFacts DEF hubTakes
<1>4. ManagerRequest(q) /\ q.id \in RequestIds
  BY <1>2 DEF BusTyped, SH2Typed
<1>5. enabled' = IF q.id = "SET_FEATURE_CMD" THEN enabled \union {q.key} ELSE enabled
  BY <1>3 DEF hubTakes
<1>6. q.id # "FORCE_SENSOR_FLUSH"
  BY <1>4 DEF ManagerRequest
<1>7. PICK answer \in Answers(q) :
         \E ts \in {Pieces("control", answer), Whole("control", answer),
                    Singles("control", answer)} :
            IF answer = <<>> THEN UNCHANGED <<wire, hubSeq>> ELSE Emit("control", ts)
  BY <1>3, <1>6 DEF hubTakes
<1> HIDE DEF q
<1>8. PICK ts \in {Pieces("control", answer), Whole("control", answer),
                   Singles("control", answer)} :
         IF answer = <<>> THEN UNCHANGED <<wire, hubSeq>> ELSE Emit("control", ts)
  BY <1>7
<1>9. CASE answer = <<>>
  <2>1. UNCHANGED wire
    BY <1>8, <1>9
  <2>2. BusTyped'
    BY <1>1, <1>2, <1>4, <1>5, <2>1 DEF BusTyped, ManagerRequest, hubTakes
  <2> QED BY <1>2, <1>5, <2>1, <2>2 DEF hubTakes, q
<1>10. CASE answer # <<>>
  <2>1. /\ PayloadOK(answer) /\ Consecutive(answer)
    BY <1>4, AnswerFacts
  <2>2. hubSeq \in [Channels -> Numbers] /\ "control" \in Channels
    BY <1>1 DEF SH2Typed, Channels
  <2>3. Emission("control", answer, ts)
    BY <1>8, <1>10, <2>1, <2>2, EmissionFacts
  <2>4. wire' = wire \o ts
    BY <1>8, <1>10 DEF Emit
  <2>5. Sequence(ts) /\ \A i \in 1 .. Len(ts) : ts[i].chan = "control"
    BY <2>3 DEF Emission
  <2>6. \A j \in 1 .. Len(wire') :
            \/ j \in 1 .. Len(wire) /\ wire'[j] = wire[j]
            \/ j - Len(wire) \in 1 .. Len(ts) /\ wire'[j] = ts[j - Len(wire)]
    BY <1>1, <2>2, <2>3, <2>4, EmittedFacts
  <2>7. \A j \in 1 .. Len(wire') : ManagerTransfer(wire'[j])
    BY <2>5, <2>6 DEF BusTyped, ManagerTransfer
  <2>8. BusTyped'
    BY <1>1, <1>2, <1>4, <1>5, <2>7 DEF BusTyped, ManagerRequest, hubTakes
  <2> QED BY <1>2, <1>5, <2>4, <2>5, <2>8 DEF hubTakes, q
<1> QED BY <1>9, <1>10

LEMMA BusLoses ==
    ASSUME BusTyped, lose
    PROVE  /\ BusTyped' /\ UNCHANGED <<lib, hubIn, enabled>> /\ losses' = losses + 1
           /\ losses \in Nat
           /\ Sequence(wire) /\ Len(wire) \in Nat /\ 1 \in 1 .. Len(wire)
           /\ Sequence(wire') /\ Len(wire') = Len(wire) - 1
           /\ \A i \in 1 .. Len(wire') : wire'[i] = wire[i + 1] /\ i + 1 \in 1 .. Len(wire)
<1>1. /\ SH2Typed /\ Sequence(wire) /\ wire # <<>> /\ wire' = Tail(wire)
      /\ losses' = losses + 1 /\ UNCHANGED <<lib, hubIn, hubSeq, enabled>>
  BY DEF BusTyped, SH2Typed, lose
<1>2. SH2Typed'
  BY <1>1, SH2Loses
<1>3. /\ 1 \in 1 .. Len(wire) /\ Len(wire) \in Nat
      /\ Sequence(wire') /\ Len(wire') = Len(wire) - 1
      /\ \A i \in 1 .. Len(wire') : wire'[i] = wire[i + 1] /\ i + 1 \in 1 .. Len(wire)
  BY <1>1, HeadFacts
<1>4. BusTyped'
  BY <1>1, <1>2, <1>3 DEF BusTyped
<1>5. losses \in Nat
  BY <1>1, SH2Assumption DEF SH2Typed
<1> QED BY <1>1, <1>3, <1>4, <1>5

LEMMA BusResets ==
    ASSUME BusTyped, HubReset, UNCHANGED losses, lib' = lib \/ lib' = Opened(lib)
    PROVE  /\ BusTyped' /\ enabled' = {} /\ hubIn' = <<>>
           /\ Sequence(wire') /\ Len(wire') = 3
           /\ wire'[1].chan = "command" /\ wire'[2].chan = "device"
           /\ wire'[3].chan = "control"
<1>1. /\ hubIn' = <<>> /\ Sequence(wire') /\ Len(wire') = 3
      /\ \A i \in 1 .. 3 : wire'[i].rest = 0
      /\ wire'[1].chan = "command" /\ wire'[2].chan = "device"
      /\ wire'[3].chan = "control"
  BY ResetFacts
<1>2. enabled' = {}
  BY DEF HubReset
<1>3. /\ DriverOK(lib') /\ ShtpOK(lib'.shtp) /\ lib'.pOp \in ManagerOps
      /\ lib'.copies > 0 => lib'.out.id \in RequestIds /\ ManagerRequest(lib'.out)
  <2>1. CASE lib' = lib
    BY <2>1 DEF BusTyped, SH2Typed
  <2>2. CASE lib' = Opened(lib)
    <3>1. /\ DriverOK(lib') /\ lib'.shtp = NewInstance /\ lib'.copies = 0
          /\ lib'.pOp = "none"
      BY <2>2, FreshDriver
    <3> QED BY <3>1, NewInstanceOK DEF ManagerOps
  <2> QED BY <2>1, <2>2
<1>4. SH2Typed'
  BY <1>3, SH2Reset DEF BusTyped
<1>5. \A i \in 1 .. Len(wire') : ManagerTransfer(wire'[i])
  <2>1. \A i \in 1 .. 3 : i = 1 \/ i = 2 \/ i = 3
    OBVIOUS
  <2> QED BY <1>1, <2>1 DEF ManagerTransfer
<1>6. \A i : i \notin 1 .. Len(hubIn')
  BY <1>1, EmptyFacts
<1>7. BusTyped'
  BY <1>2, <1>3, <1>4, <1>5, <1>6 DEF BusTyped
<1> QED BY <1>1, <1>2, <1>7

(* The manager calls an operation: the request is to be written, or there is *)
(* no channel for it.                                                        *)
Asks(l, m, o, id, key) ==
    /\ DriverOK(m) /\ m.shtp = l.shtp
    /\ m.controlChan = l.controlChan /\ m.resetSeen = l.resetSeen
    /\ m.pShtp = l.pShtp /\ m.broken = l.broken
    /\ l.controlChan => /\ m.pOp = o /\ m.opStatus = "SH2_OK"
                        /\ m.copies = l.copies + 1 /\ m.out.id = id /\ m.out.key = key
    /\ ~l.controlChan => /\ m.pOp = "none" /\ m.opStatus = "SH2_ERR_BAD_PARAM"
                         /\ m.copies = l.copies /\ m.out = l.out

LEMMA AsksFacts ==
    ASSUME NEW l, DriverOK(l), NEW sensor
    PROVE  /\ Asks(l, Started(l, "getProdIds", sensor, 0), "getProdIds", "PROD_ID_REQ", "none")
           /\ Asks(l, Started(l, "setSensorConfig", sensor, 0), "setSensorConfig",
                   "SET_FEATURE_CMD", sensor)
<1> SUFFICES ASSUME NEW o \in {"getProdIds", "setSensorConfig"}
             PROVE  Asks(l, Started(l, o, sensor, 0), o,
                         IF o = "getProdIds" THEN "PROD_ID_REQ" ELSE "SET_FEATURE_CMD",
                         IF o = "getProdIds" THEN "none" ELSE sensor)
  OBVIOUS
<1> DEFINE c == Called(l, o, sensor, 0)
           id == IF o = "getProdIds" THEN "PROD_ID_REQ" ELSE "SET_FEATURE_CMD"
           key == IF o = "getProdIds" THEN "none" ELSE sensor
           request == Request(id, 0, key)
           sent == [c EXCEPT !.out = request, !.copies = @ + 1]
           failed == Complete(c, "SH2_ERR_BAD_PARAM")
           m == Started(l, o, sensor, 0)
<1>1. /\ Driver1(c) /\ c.pOp = o /\ c.of = 0 /\ c.sensor = sensor /\ c.opStatus = "SH2_OK"
      /\ c.shtp = l.shtp /\ c.controlChan = l.controlChan /\ c.resetSeen = l.resetSeen
      /\ c.copies = l.copies /\ c.out = l.out /\ c.pShtp = l.pShtp /\ c.broken = l.broken
  BY DEF Called, DriverOK, Driver1
<1>2. request.id = id /\ request.key = key
  BY DEF Request
<1>3. m = sendCtrl(c, request)
  <2>1. m = opStart(c)
    BY DEF Started
  <2> HIDE DEF c
  <2> QED BY <1>1, <2>1 DEF opStart, getProdIdStart, setSensorConfigStart
<1> HIDE DEF c, id, key, request
<1>4. /\ Driver1(sent) /\ sent.pOp = o /\ sent.opStatus = "SH2_OK" /\ sent.shtp = l.shtp
      /\ sent.controlChan = l.controlChan /\ sent.resetSeen = l.resetSeen
      /\ sent.copies = l.copies + 1 /\ sent.out = request
      /\ sent.pShtp = l.pShtp /\ sent.broken = l.broken
  BY <1>1 DEF Driver1
<1>5. /\ Driver1(failed) /\ failed.pOp = "none" /\ failed.opStatus = "SH2_ERR_BAD_PARAM"
      /\ failed.shtp = l.shtp /\ failed.controlChan = l.controlChan
      /\ failed.resetSeen = l.resetSeen /\ failed.copies = l.copies
      /\ failed.out = l.out /\ failed.pShtp = l.pShtp /\ failed.broken = l.broken
  BY <1>1 DEF Complete, Driver1
<1>6. m = IF l.controlChan THEN sent ELSE failed
  BY <1>1, <1>3 DEF sendCtrl
<1> HIDE DEF sent, failed, m
<1>7. DriverOK(sent) /\ DriverOK(failed)
  BY <1>4, <1>5 DEF DriverOK, Ops
<1>8. Asks(l, m, o, id, key)
  BY <1>2, <1>4, <1>5, <1>6, <1>7 DEF Asks
<1> QED BY <1>8 DEF m, id, key

LEMMA BusAsks ==
    ASSUME BusTyped, UNCHANGED <<hubIn, wire, hubSeq, enabled, losses>>,
           NEW l, DriverOK(l), l.shtp = lib.shtp, l.copies = lib.copies, l.out = lib.out,
           NEW o \in ManagerOps, NEW id, NEW key, Asks(l, lib', o, id, key),
           id = "PROD_ID_REQ" \/ (id = "SET_FEATURE_CMD" /\ key \in ReportTypes)
    PROVE  BusTyped'
<1>1. DriverOK(lib') /\ ShtpOK(lib'.shtp) /\ lib'.pOp \in ManagerOps
  BY DEF BusTyped, SH2Typed, Asks, ManagerOps
<1>2. lib'.copies > 0 => ManagerRequest(lib'.out) /\ lib'.out.id \in RequestIds
  BY DEF Asks, BusTyped, SH2Typed, ManagerRequest, RequestIds
<1> QED BY <1>1, <1>2 DEF BusTyped, SH2Typed

-----------------------------------------------------------------------------
(* A report or two of the sensors.                                           *)

Reporting(payload, t) ==
    /\ Sequence(payload) /\ \A r \in ReportsOf(payload) : SensorReport(r)
    /\ t.chan = "inputNormal" /\ t.part = payload
    /\ wire' = wire \o <<t>>
    /\ Sequence(wire) /\ Len(wire) \in Nat /\ Len(wire') = Len(wire) + 1
    /\ \A i \in 1 .. Len(wire) : wire'[i] = wire[i]
    /\ wire'[Len(wire) + 1] = t
    /\ emitted' = [k \in Kinds |-> emitted[k] +
                     Cardinality({i \in DOMAIN payload : KindOf(payload[i]) = k})]

LEMMA MadeFacts ==
    ASSUME enabled \subseteq ReportTypes,
           NEW payload \in {<<r>> : r \in Made} \union (Made \X Made)
    PROVE  PayloadOK(payload) /\ \A r \in ReportsOf(payload) : SensorReport(r)
<1>1. ASSUME NEW r \in Made PROVE SensorReport(r) /\ ReportOK(r)
  <2>1. r \in {Report(s, 0, 0, k, TRUE) : s \in enabled, k \in {"moving", "still"}}
    BY DEF Made, Report
  <2>2. PICK s \in enabled, k \in {"moving", "still"} : r = Report(s, 0, 0, k, TRUE)
    BY <2>1 DEF Report
  <2>3. r.id = s /\ r.key = k
    BY <2>2 DEF Report
  <2> QED BY <2>3 DEF SensorReport, ReportOK, ReportTypes
<1>2. PICK a \in Made, b \in Made : payload = <<a>> \/ payload = <<a, b>>
  OBVIOUS
<1>3. payload \in Seq({a, b})
  <2>1. <<a>> \in Seq({a, b}) /\ <<a, b>> \in Seq({a, b})
    OBVIOUS
  <2> QED BY <1>2, <2>1
<1>4. Sequence(payload) /\ \A i \in 1 .. Len(payload) : payload[i] \in Made
  BY <1>3 DEF Sequence
<1> QED BY <1>1, <1>4 DEF PayloadOK, ReportsOf

LEMMA EmitFacts ==
    ASSUME BusTyped, emit
    PROVE  \E payload, t : Reporting(payload, t)
<1>1. PICK payload \in {<<r>> : r \in Made} \union (Made \X Made) :
         /\ emitted' = [k \in Kinds |-> emitted[k] +
                          Cardinality({i \in DOMAIN payload : KindOf(payload[i]) = k})]
         /\ Emit("inputNormal", Whole("inputNormal", payload))
  BY DEF emit
<1> DEFINE t == Transfer("inputNormal", hubSeq["inputNormal"], FALSE, payload, 0)
<1>2. t.chan = "inputNormal" /\ t.part = payload
  BY DEF Transfer
<1>3. wire' = wire \o <<t>>
  BY <1>1 DEF Emit, Whole
<1> HIDE DEF t
<1>4. Sequence(payload) /\ \A r \in ReportsOf(payload) : SensorReport(r)
  BY MadeFacts DEF BusTyped, PayloadOK
<1>5. /\ Sequence(wire) /\ Len(wire) \in Nat /\ Len(wire') = Len(wire) + 1
      /\ \A i \in 1 .. Len(wire) : wire'[i] = wire[i]
      /\ wire'[Len(wire) + 1] = t
  <2>1. Sequence(wire) /\ Sequence(<<t>>) /\ Len(<<t>>) = 1 /\ <<t>>[1] = t
    BY SingleFacts DEF BusTyped, SH2Typed
  <2>2. 1 \in 1 .. Len(<<t>>)
    BY <2>1
  <2> QED BY <1>3, <2>1, <2>2, ConcatFacts, SequenceFacts
<1>6. Reporting(payload, t)
  BY <1>1, <1>2, <1>3, <1>4, <1>5 DEF Reporting
<1> QED BY <1>6

LEMMA BusEmits == ASSUME BusTyped, emit PROVE BusTyped'
<1>1. PICK payload \in {<<r>> : r \in Made} \union (Made \X Made) :
         Emit("inputNormal", Whole("inputNormal", payload))
  BY DEF emit
<1> DEFINE t == Transfer("inputNormal", hubSeq["inputNormal"], FALSE, payload, 0)
<1>2. /\ t.chan = "inputNormal" /\ t.part = payload /\ t.seq = hubSeq["inputNormal"]
      /\ t.rest = 0
  BY DEF Transfer
<1>3. ~t.continuation
  BY DEF Transfer
<1>4. /\ wire' = wire \o <<t>>
      /\ hubSeq' = [hubSeq EXCEPT !["inputNormal"] = (@ + Len(<<t>>)) % SeqModulus]
  BY <1>1 DEF Emit, Whole
<1> HIDE DEF t
<1>5. PayloadOK(payload) /\ \A r \in ReportsOf(payload) : SensorReport(r)
  BY MadeFacts DEF BusTyped
<1>6. "inputNormal" \in Channels /\ hubSeq["inputNormal"] \in Numbers /\ 0 \in Nat
  BY DEF Channels, BusTyped, SH2Typed
<1>7. TransferOK(t) /\ ManagerTransfer(t)
  BY <1>2, <1>3, <1>5, <1>6 DEF TransferOK, ManagerTransfer
<1>8. Sequence(wire) /\ Sequence(<<t>>) /\ Len(<<t>>) = 1 /\ <<t>>[1] = t
  BY SingleFacts DEF BusTyped, SH2Typed
<1>9. /\ Len(wire) \in Nat /\ Sequence(wire') /\ Len(wire') = Len(wire) + 1
      /\ \A i \in 1 .. Len(wire) : wire'[i] = wire[i]
      /\ wire'[Len(wire) + 1] = t
  <2>1. 1 \in 1 .. Len(<<t>>)
    BY <1>8
  <2> QED BY <1>4, <1>8, <2>1, ConcatFacts, SequenceFacts
<1>10. \A i \in 1 .. Len(wire') : i \in 1 .. Len(wire) \/ i = Len(wire) + 1
  BY <1>9
<1>11. \A i \in 1 .. Len(wire') : TransferOK(wire'[i]) /\ ManagerTransfer(wire'[i])
  BY <1>7, <1>9, <1>10 DEF BusTyped, SH2Typed
<1>12. hubSeq' \in [Channels -> Numbers]
  <2>1. (hubSeq["inputNormal"] + 1) % SeqModulus \in Numbers
    BY <1>6, SeqAssumption DEF Numbers
  <2> QED BY <1>4, <1>8, <2>1 DEF BusTyped, SH2Typed
<1>13. UNCHANGED <<lib, hubIn, enabled, losses>>
  BY DEF emit, counts
<1> QED BY <1>9, <1>11, <1>12, <1>13 DEF BusTyped, SH2Typed

-----------------------------------------------------------------------------
LEMMA ReportsFacts ==
    Len(Reports) = 3 /\ Reports[1] = "RV" /\ Reports[2] = "LA" /\ Reports[3] = "STABILITY"
  BY DEF Reports

HubRests == UNCHANGED <<hubIn, wire, hubSeq, enabled, losses>>

LEMMA HubRestsFacts == ASSUME UNCHANGED <<hub, counts>> PROVE HubRests
  BY DEF HubRests, hub, counts

LEMMA BusRests ==
    ASSUME BusTyped, HubRests,
           DriverOK(lib'), lib'.shtp = lib.shtp, lib'.pOp = lib.pOp,
           lib'.copies = lib.copies, lib'.out = lib.out
    PROVE  BusTyped'
  BY DEF BusTyped, SH2Typed, HubRests

(* The manager asks for an event: it reads a transfer, if there is one.      *)
LEMMA EventRead ==
    ASSUME BusTyped, getSensorEvent, UNCHANGED counts
    PROVE  /\ BusTyped'
           /\ Reads(Asking) \/ (HubRests /\ lib' = Asking)
<1>1. CASE wire = <<>>
  <2>1. HubRests /\ lib' = Asking
    BY <1>1, HubRestsFacts DEF getSensorEvent, Asking
  <2> QED BY <2>1, BusRests, AskingFacts DEF BusTyped, SH2Typed
<1>2. CASE wire # <<>>
  <2>1. Reads(Asking)
    BY <1>2 DEF getSensorEvent, Asking, Reads, counts
  <2> QED BY <2>1, BusReads
<1> QED BY <1>1, <1>2

(* An operation is called, with the driver it finds.                         *)
Calls(l, o, id, key) ==
    /\ Asks(l, lib', o, id, key) /\ HubRests
    /\ DriverOK(l) /\ l.shtp = lib.shtp /\ l.copies = lib.copies /\ l.out = lib.out
    /\ l.controlChan = lib.controlChan /\ l.pShtp = lib.pShtp /\ l.broken = lib.broken

LEMMA BusCalls ==
    ASSUME BusTyped, NEW l, NEW o \in ManagerOps, NEW id, NEW key, Calls(l, o, id, key),
           id = "PROD_ID_REQ" \/ (id = "SET_FEATURE_CMD" /\ key \in ReportTypes)
    PROVE  BusTyped'
  BY BusAsks DEF Calls, HubRests

LEMMA ReturnCalls ==
    ASSUME BusTyped, openReturns
    PROVE  Calls(lib, "getProdIds", "PROD_ID_REQ", "none")
<1>1. DriverOK(lib) /\ lib' = Started(lib, "getProdIds", "none", 0)
  BY DEF BusTyped, SH2Typed, openReturns
<1>2. HubRests
  BY HubRestsFacts DEF openReturns
<1> QED BY <1>1, <1>2, AsksFacts DEF Calls

LEMMA SetCalls ==
    ASSUME BusTyped, HubRests, NEW i, setReport(i)
    PROVE  Calls(lib, "setSensorConfig", "SET_FEATURE_CMD", Reports[i])
<1>1. DriverOK(lib) /\ lib' = Started(lib, "setSensorConfig", Reports[i], 0)
  BY DEF BusTyped, SH2Typed, setReport, enableReport
<1> QED BY <1>1, AsksFacts DEF Calls

(* The reset that was seen is forgotten, and the report asked for again.     *)
Seen == [lib EXCEPT !.resetSeen = FALSE]

LEMMA ResetCalls ==
    ASSUME BusTyped, checkReset \/ obtainReset
    PROVE  /\ HubRests
           /\ \/ /\ lib.resetSeen
                 /\ Calls(Seen, "setSensorConfig", "SET_FEATURE_CMD", reportType)
              \/ ~lib.resetSeen /\ lib' = lib
<1>1. HubRests
  BY HubRestsFacts DEF checkReset, obtainReset, wasReset
<1>2. CASE ~lib.resetSeen
  BY <1>1, <1>2 DEF checkReset, obtainReset, wasReset
<1>3. CASE lib.resetSeen
  <2>1. lib' = Started(Seen, "setSensorConfig", reportType, 0)
    BY <1>3 DEF checkReset, obtainReset, wasReset, Seen
  <2>2. /\ Driver1(Seen) /\ Seen.shtp = lib.shtp /\ Seen.copies = lib.copies
        /\ Seen.out = lib.out /\ Seen.controlChan = lib.controlChan /\ Seen.pOp = lib.pOp
        /\ Seen.pShtp = lib.pShtp /\ Seen.broken = lib.broken
    BY DEF Seen, BusTyped, SH2Typed, DriverOK, Driver1
  <2>3. DriverOK(Seen)
    BY <2>2 DEF BusTyped, SH2Typed, DriverOK
  <2>4. Asks(Seen, lib', "setSensorConfig", "SET_FEATURE_CMD", reportType)
    BY <2>1, <2>3, AsksFacts
  <2> QED BY <1>1, <1>3, <2>2, <2>3, <2>4 DEF Calls
<1> QED BY <1>2, <1>3

(* What a step does between the driver and the hub.                          *)
Waits == openWaits \/ ((writeFails \/ poll) /\ UNCHANGED <<manager, environment, spent>>)

LEMMA WaitsFacts ==
    ASSUME Waits
    PROVE  /\ Reads(lib) \/ (HubRests /\ lib' = lib)
           /\ UNCHANGED <<manager, environment, spent>>
           /\ step = "opening" \/ Blocked
<1>1. CASE openWaits
  BY <1>1 DEF openWaits, service, Reads, counts
<1>2. CASE writeFails /\ UNCHANGED <<manager, environment, spent>>
  BY <1>2 DEF writeFails, service, Reads, HubRests, hub, Blocked
<1>3. CASE poll /\ UNCHANGED <<manager, environment, spent>>
  BY <1>3 DEF poll, service, Reads, counts, Blocked
<1> QED BY <1>1, <1>2, <1>3 DEF Waits

LEMMA IMUSteps ==
    ASSUME [IMUNext]_imuVars
    PROVE  \/ beginMissed \/ begin \/ Waits \/ openReturns \/ prodIdsDone \/ enableDone
           \/ checkReset \/ obtainReset \/ noTransport
           \/ checkStability \/ obtainInertialMeasures
           \/ write /\ UNCHANGED <<manager, environment, spent>>
           \/ hubTakes /\ UNCHANGED <<manager, environment, spent>>
           \/ lose /\ UNCHANGED <<manager, environment, spent>>
           \/ emit \/ sensorResets
           \/ UNCHANGED imuVars
  BY DEF IMUNext, Manager, DriverSteps, HubSteps, Waits

LEMMA BusStep ==
    ASSUME IMUTyped, [IMUNext]_imuVars
    PROVE  BusTyped'
<1> USE DEF IMUTyped
<1>1. CASE beginMissed \/ UNCHANGED imuVars
  <2>1. HubRests /\ lib' = lib
    BY <1>1, HubRestsFacts DEF beginMissed, imuVars, sh2Vars
  <2> QED BY <2>1, BusRests DEF BusTyped, SH2Typed
<1>2. CASE begin
  BY <1>2, BusResets DEF begin, counts
<1>3. CASE Waits
  BY <1>3, WaitsFacts, BusReads, BusRests DEF BusTyped, SH2Typed
<1>4. CASE openReturns
  BY <1>4, ReturnCalls, BusCalls DEF ManagerOps
<1>5. CASE prodIdsDone \/ enableDone
  <2>1. HubRests
    BY <1>5, HubRestsFacts DEF prodIdsDone, enableDone
  <2>2. CASE lib' = lib
    BY <2>1, <2>2, BusRests DEF BusTyped, SH2Typed
  <2>3. ASSUME NEW i \in 1 .. 3, setReport(i) PROVE BusTyped'
    <3>1. Reports[i] \in ReportTypes
      BY ReportsFacts DEF ReportTypes
    <3> QED BY <2>1, <2>3, <3>1, SetCalls, BusCalls DEF ManagerOps
  <2>4. lib' = lib \/ \E i \in 1 .. 3 : setReport(i)
    BY <1>5, ReportsFacts DEF prodIdsDone, enableDone, ManagerTyped
  <2> QED BY <2>2, <2>3, <2>4
<1>6. CASE checkReset \/ obtainReset
  <2>1. CASE lib' = lib
    BY <1>6, <2>1, ResetCalls, BusRests DEF BusTyped, SH2Typed
  <2>2. CASE Calls(Seen, "setSensorConfig", "SET_FEATURE_CMD", reportType)
    BY <2>2, BusCalls DEF ManagerTyped, ManagerOps
  <2> QED BY <1>6, <2>1, <2>2, ResetCalls
<1>7. CASE noTransport
  <2>1. HubRests /\ lib' = [lib EXCEPT !.broken = TRUE]
    BY <1>7, HubRestsFacts DEF noTransport
  <2>2. /\ Driver1(lib') /\ lib'.shtp = lib.shtp /\ lib'.pOp = lib.pOp
        /\ lib'.copies = lib.copies /\ lib'.out = lib.out
    BY <2>1 DEF BusTyped, SH2Typed, DriverOK, Driver1
  <2>3. DriverOK(lib')
    BY <2>2 DEF BusTyped, SH2Typed, DriverOK
  <2> QED BY <2>1, <2>2, <2>3, BusRests
<1>8. CASE checkStability \/ obtainInertialMeasures
  BY <1>8, EventRead DEF checkStability, obtainInertialMeasures
<1>9. CASE write
  BY <1>9, BusWrites
<1>10. CASE hubTakes
  BY <1>10, BusTakes
<1>11. CASE lose
  BY <1>11, BusLoses
<1>12. CASE emit
  BY <1>12, BusEmits
<1>13. CASE sensorResets
  BY <1>13, BusResets DEF sensorResets, counts
<1> QED BY <1>1, <1>2, <1>3, <1>4, <1>5, <1>6, <1>7, <1>8, <1>9, <1>10, <1>11, <1>12, <1>13,
           IMUSteps

-----------------------------------------------------------------------------
(* What the manager makes of an event: one more of its kind, or none.        *)

LEMMA EventFacts ==
    ASSUME BusTyped, getSensorEvent, UNCHANGED counts
    PROVE  \/ lib'.event = NoReport
           \/ /\ Reads(Asking) /\ wire[1].chan = "inputNormal"
              /\ lib'.event \in ReportsOf(wire[1].part) /\ SensorReport(lib'.event)
<1>1. DriverOK(lib)
  BY DEF BusTyped, SH2Typed
<1>2. Asking.event = NoReport /\ Asking.shtp = lib.shtp
  BY <1>1, AskingFacts
<1>3. CASE lib' = Asking
  BY <1>2, <1>3
<1>4. CASE Reads(Asking)
  <2>1. Served(Asking, wire[1], lib') /\ ManagerTransfer(wire[1])
    BY <1>4, ReadsFacts
  <2>2. CASE wire[1].chan = "inputNormal"
            /\ lib'.event \in ReportsOf(rxAppend(lib.shtp, wire[1]).inPayload)
    <3>1. ~Continues(lib.shtp, wire[1]) /\ \A r \in ReportsOf(wire[1].part) : SensorReport(r)
      BY <2>1, <2>2 DEF ManagerTransfer, Continues
    <3>2. rxAppend(lib.shtp, wire[1]).inPayload = wire[1].part
      BY <3>1 DEF rxAppend, BusTyped, SH2Typed, ShtpOK
    <3> QED BY <1>4, <2>2, <3>1, <3>2
  <2> QED BY <1>2, <2>1, <2>2 DEF Served
<1> QED BY <1>3, <1>4, EventRead

(* The counters, and those zeroed, before an event and after it.             *)
Counts(r) ==
    /\ counter' \in [Kinds -> Nat] /\ spent' \in [Kinds -> Nat]
    /\ \A k \in Kinds :
          spent'[k] + counter'[k] <= spent[k] + counter[k]
              + (IF r.id # "none" /\ KindOf(r) = k THEN 1 ELSE 0)

LEMMA ClassifiedFacts ==
    ASSUME counter \in [Kinds -> Nat], onMotion \in BOOLEAN, NEW kind \in {"moving", "still"}
    PROVE  /\ Classified(kind) \in [Kinds -> Nat]
           /\ \A k \in Kinds :
                 \/ Classified(kind)[k] = counter[k]
                 \/ k = kind /\ Classified(kind)[k] = counter[k] + 1
                 \/ k \notin {"RV", "LA"} /\ Classified(kind)[k] = 0
<1>1. \/ Classified(kind) = [counter EXCEPT !["still"] = @ + 1] /\ kind = "still"
      \/ Classified(kind) = [counter EXCEPT !["still"] = 0]
      \/ Classified(kind) = [counter EXCEPT !["moving"] = @ + 1] /\ kind = "moving"
      \/ Classified(kind) = counter
  BY DEF Classified
<1> QED BY <1>1 DEF Kinds

LEMMA StabilityCounts ==
    ASSUME ManagerTyped, checkStability, lib'.event = NoReport \/ SensorReport(lib'.event)
    PROVE  Counts(lib'.event)
<1> DEFINE r == lib'.event
           counted == IF r.id = "STABILITY" THEN Classified(r.key) ELSE counter
           changes == IF onMotion THEN counted["still"] >= StillnessThreshold
                                  ELSE counted["moving"] >= MotionThreshold
           one(k) == IF r.id # "none" /\ KindOf(r) = k THEN 1 ELSE 0
<1>1. /\ counter \in [Kinds -> Nat] /\ spent \in [Kinds -> Nat] /\ onMotion \in BOOLEAN
  BY DEF ManagerTyped
<1>2. /\ counted \in [Kinds -> Nat]
      /\ \A k \in Kinds :
            \/ counted[k] = counter[k]
            \/ one(k) = 1 /\ counted[k] = counter[k] + 1
            \/ k \notin {"RV", "LA"} /\ counted[k] = 0
  <2>1. CASE r.id = "STABILITY"
    <3>1. r.key \in {"moving", "still"}
      BY <2>1 DEF SensorReport, NoReport, Report
    <3>2. KindOf(r) = r.key /\ r.id # "none"
      BY <2>1 DEF KindOf
    <3>3. counted = Classified(r.key)
      BY <2>1
    <3> HIDE DEF counted
    <3> QED BY <1>1, <3>1, <3>2, <3>3, ClassifiedFacts
  <2>2. CASE r.id # "STABILITY"
    BY <1>1, <2>2
  <2> QED BY <2>1, <2>2
<1>3. \A k \in Kinds : one(k) \in {0, 1}
  OBVIOUS
<1>4. /\ counter' = IF changes THEN [counted EXCEPT !["moving"] = 0, !["still"] = 0] ELSE counted
      /\ spent' = [k \in Kinds |->
            CASE k \in {"RV", "LA"}                    -> spent[k]
              [] k \notin {"RV", "LA"} /\ changes      -> spent[k] + counted[k]
              [] k \notin {"RV", "LA"} /\ ~changes     ->
                   spent[k] + (IF counted[k] < counter[k] THEN counter[k] ELSE 0)]
  BY DEF checkStability
<1> HIDE DEF counted, changes, one, r
<1>5. counter' \in [Kinds -> Nat]
  BY <1>2, <1>4 DEF Kinds
<1>6. \A k \in Kinds : counter'[k] = IF changes /\ k \notin {"RV", "LA"} THEN 0 ELSE counted[k]
  BY <1>2, <1>4 DEF Kinds
<1>7. \A k \in Kinds :
         spent'[k] = IF k \in {"RV", "LA"} THEN spent[k]
                     ELSE IF changes THEN spent[k] + counted[k]
                     ELSE IF counted[k] < counter[k] THEN spent[k] + counter[k] ELSE spent[k]
  <2> TAKE k \in Kinds
  <2>1. /\ spent[k] \in Nat /\ counted[k] \in Nat /\ counter[k] \in Nat
        /\ changes \/ ~changes
    BY <1>1, <1>2
  <2> QED BY <1>4, <2>1
<1>8. \A k \in Kinds : /\ spent'[k] \in Nat
                       /\ spent'[k] + counter'[k] <= spent[k] + counter[k] + one(k)
  <2> TAKE k \in Kinds
  <2>1. /\ spent[k] \in Nat /\ counted[k] \in Nat /\ counter[k] \in Nat /\ one(k) \in {0, 1}
        /\ \/ counted[k] = counter[k]
           \/ one(k) = 1 /\ counted[k] = counter[k] + 1
           \/ k \notin {"RV", "LA"} /\ counted[k] = 0
    BY <1>1, <1>2, <1>3
  <2> QED BY <1>6, <1>7, <2>1
<1>9. spent' \in [Kinds -> Nat]
  BY <1>4, <1>8
<1> QED BY <1>5, <1>8, <1>9 DEF Counts, one, r

LEMMA SampleCounts ==
    ASSUME ManagerTyped, obtainInertialMeasures,
           lib'.event = NoReport \/ SensorReport(lib'.event)
    PROVE  Counts(lib'.event)
<1> DEFINE r == lib'.event
           counted == IF r.id \in {"RV", "LA"} /\ counter[r.id] < Samples
                      THEN [counter EXCEPT ![r.id] = @ + 1] ELSE counter
           complete == counted["RV"] >= Samples /\ counted["LA"] >= Samples
           one(k) == IF r.id # "none" /\ KindOf(r) = k THEN 1 ELSE 0
<1>1. counter \in [Kinds -> Nat] /\ spent \in [Kinds -> Nat]
  BY DEF ManagerTyped
<1>2. /\ counted \in [Kinds -> Nat]
      /\ \A k \in Kinds : counted[k] = counter[k] \/ (one(k) = 1 /\ counted[k] = counter[k] + 1)
  <2>1. CASE r.id \in {"RV", "LA"} /\ counter[r.id] < Samples
    <3>1. counted = [counter EXCEPT ![r.id] = @ + 1]
      BY <2>1
    <3>2. r.id \in Kinds /\ one(r.id) = 1
      BY <2>1 DEF Kinds, KindOf
    <3> HIDE DEF counted, one, r
    <3> QED BY <1>1, <3>1, <3>2
  <2>2. CASE ~(r.id \in {"RV", "LA"} /\ counter[r.id] < Samples)
    BY <1>1, <2>2
  <2> QED BY <2>1, <2>2
<1>3. \A k \in Kinds : one(k) \in {0, 1}
  OBVIOUS
<1>4. /\ counter' = IF complete THEN [counted EXCEPT !["RV"] = 0, !["LA"] = 0] ELSE counted
      /\ spent' = IF complete
                  THEN [spent EXCEPT !["RV"] = @ + counted["RV"], !["LA"] = @ + counted["LA"]]
                  ELSE spent
  BY DEF obtainInertialMeasures
<1> HIDE DEF counted, complete, one, r
<1>5. counter' \in [Kinds -> Nat] /\ spent' \in [Kinds -> Nat]
  <2>1. counted["RV"] \in Nat /\ counted["LA"] \in Nat /\ spent["RV"] \in Nat /\ spent["LA"] \in Nat
    BY <1>1, <1>2 DEF Kinds
  <2>2. [spent EXCEPT !["RV"] = @ + counted["RV"], !["LA"] = @ + counted["LA"]]
           \in [Kinds -> Nat]
    <3>1. \A f \in [Kinds -> Nat], k \in Kinds, n \in Nat : [f EXCEPT ![k] = n] \in [Kinds -> Nat]
      OBVIOUS
    <3>2. "RV" \in Kinds /\ "LA" \in Kinds
      BY DEF Kinds
    <3> DEFINE f == [spent EXCEPT !["RV"] = spent["RV"] + counted["RV"]]
    <3>3. f \in [Kinds -> Nat] /\ f["LA"] + counted["LA"] \in Nat
      <4>1. f \in [Kinds -> Nat]
        BY <1>1, <2>1, <3>1, <3>2
      <4> QED BY <2>1, <3>2, <4>1
    <3>4. [f EXCEPT !["LA"] = f["LA"] + counted["LA"]] \in [Kinds -> Nat]
      <4> HIDE DEF f
      <4> QED BY <3>1, <3>2, <3>3
    <3> QED BY <3>4
  <2>3. [counted EXCEPT !["RV"] = 0, !["LA"] = 0] \in [Kinds -> Nat]
    BY <1>2
  <2> QED BY <1>1, <1>2, <1>4, <2>2, <2>3
<1>6. \A k \in Kinds :
         \/ counter'[k] = counted[k] /\ spent'[k] = spent[k]
         \/ counter'[k] = 0 /\ spent'[k] = spent[k] + counted[k]
  BY <1>1, <1>2, <1>4 DEF Kinds
<1>7. \A k \in Kinds : spent'[k] + counter'[k] <= spent[k] + counter[k] + one(k)
  <2> TAKE k \in Kinds
  <2>1. /\ spent[k] \in Nat /\ counted[k] \in Nat /\ counter[k] \in Nat /\ one(k) \in {0, 1}
        /\ counted[k] = counter[k] \/ (one(k) = 1 /\ counted[k] = counter[k] + 1)
    BY <1>1, <1>2, <1>3
  <2> QED BY <1>6, <2>1
<1> QED BY <1>5, <1>7 DEF Counts, one, r

(* Zeroing counters keeps what was counted.                                  *)
LEMMA ClearFacts ==
    ASSUME ManagerTyped, NEW kinds \in SUBSET Kinds, Clear(kinds)
    PROVE  /\ counter' \in [Kinds -> Nat] /\ spent' \in [Kinds -> Nat]
           /\ \A k \in Kinds : spent'[k] + counter'[k] = spent[k] + counter[k]
  BY DEF ManagerTyped, Clear

LEMMA PlacesFacts ==
    ASSUME NEW n \in Nat, NEW S \in SUBSET (1 .. n)
    PROVE  IsFiniteSet(S) /\ Cardinality(S) \in Nat
<1>1. IsFiniteSet(1 .. n)
  BY FS_Interval
<1> QED BY <1>1, FS_Subset, FS_CardinalityType

LEMMA EventCounts ==
    ASSUME IMUTyped, checkStability \/ obtainInertialMeasures
    PROVE  Counts(lib'.event)
<1>1. getSensorEvent /\ UNCHANGED counts
  BY DEF checkStability, obtainInertialMeasures
<1> QED BY <1>1, EventFacts, StabilityCounts, SampleCounts DEF IMUTyped

LEMMA ManagerStep ==
    ASSUME IMUTyped, [IMUNext]_imuVars
    PROVE  ManagerTyped'
<1>1. ManagerTyped
  BY DEF IMUTyped
<1>2. CASE UNCHANGED <<manager, environment, spent>>
  BY <1>1, <1>2 DEF ManagerTyped, manager, environment
<1>3. CASE beginMissed \/ begin \/ openReturns \/ checkReset \/ obtainReset
  <2>1. /\ step' \in {"check", "opening", "prodIds", "checkEvent", "obtainEvent"}
        /\ late' = late \/ (late < MaxLate /\ late' = late + 1)
        /\ UNCHANGED <<ready, setting, reportType, gathering, onMotion, counter, hubResets,
                       emitted, spent>>
    BY <1>3 DEF environment, beginMissed, begin, openReturns, checkReset, obtainReset, wasReset
  <2>2. late' \in 0 .. MaxLate
    BY <1>1, <2>1, IMUAssumption DEF ManagerTyped
  <2> QED BY <1>1, <2>1, <2>2 DEF ManagerTyped
<1>4. CASE prodIdsDone
  <2>1. /\ step' \in {"check", "enable"} /\ setting' \in 1 .. 3 /\ reportType' \in ReportTypes
        /\ UNCHANGED <<ready, gathering, onMotion, counter, environment, spent>>
    BY <1>1, <1>4, ReportsFacts DEF prodIdsDone, setReport, ManagerTyped, ReportTypes
  <2> QED BY <1>1, <2>1 DEF ManagerTyped, environment
<1>5. CASE enableDone
  <2>1. /\ step' \in {"check", "enable"} /\ setting' \in 1 .. 3 /\ reportType' \in ReportTypes
        /\ ready' \in BOOLEAN /\ UNCHANGED <<gathering, onMotion, environment>>
    <3>1. setting < 3 => setting + 1 \in {2, 3}
      BY <1>1 DEF ManagerTyped
    <3>2. CASE setting < 3
      BY <1>1, <1>5, <3>1, <3>2, ReportsFacts DEF enableDone, setReport, ManagerTyped, ReportTypes
    <3>3. CASE ~(setting < 3)
      BY <1>1, <1>5, <3>3, ReportsFacts DEF enableDone, ManagerTyped
    <3> QED BY <3>2, <3>3
  <2>2. UNCHANGED <<counter, spent>> \/ Clear({"RV", "LA"})
    BY <1>5 DEF enableDone
  <2>3. counter' \in [Kinds -> Nat] /\ spent' \in [Kinds -> Nat]
    <3>1. {"RV", "LA"} \in SUBSET Kinds
      BY DEF Kinds
    <3> QED BY <1>1, <2>2, <3>1, ClearFacts DEF ManagerTyped
  <2> QED BY <1>1, <2>1, <2>3 DEF ManagerTyped, environment
<1>6. CASE checkStability \/ obtainInertialMeasures
  <2>1. counter' \in [Kinds -> Nat] /\ spent' \in [Kinds -> Nat]
    BY <1>6, EventCounts DEF Counts
  <2>2. CASE checkStability
    <3>1. /\ step' \in {"obtain", "check", "calibrate"} /\ gathering' \in BOOLEAN
          /\ onMotion' \in BOOLEAN /\ UNCHANGED <<ready, setting, reportType, environment>>
      BY <1>1, <2>2 DEF checkStability, Update, ManagerTyped
    <3> QED BY <1>1, <2>1, <3>1 DEF ManagerTyped, environment
  <2>3. CASE obtainInertialMeasures
    <3>1. /\ step' = "check" /\ gathering' \in BOOLEAN
          /\ UNCHANGED <<ready, setting, reportType, onMotion, environment>>
      BY <2>3 DEF obtainInertialMeasures
    <3> QED BY <1>1, <2>1, <3>1 DEF ManagerTyped, environment
  <2> QED BY <1>6, <2>2, <2>3
<1>7. CASE emit
  <2>1. PICK payload, t : Reporting(payload, t)
    BY <1>7, EmitFacts DEF IMUTyped
  <2>2. \A k : Cardinality({i \in DOMAIN payload : KindOf(payload[i]) = k}) \in Nat
    <3>1. Sequence(payload)
      BY <2>1 DEF Reporting
    <3>2. Len(payload) \in Nat /\ DOMAIN payload = 1 .. Len(payload)
      BY <3>1, SequenceFacts
    <3> QED BY <3>2, PlacesFacts
  <2>3. emitted' \in [Kinds -> Nat]
    <3> DEFINE n(k) == Cardinality({i \in DOMAIN payload : KindOf(payload[i]) = k})
    <3>1. emitted' = [k \in Kinds |-> emitted[k] + n(k)] /\ \A k : n(k) \in Nat
      BY <2>1, <2>2 DEF Reporting
    <3> HIDE DEF n
    <3> QED BY <1>1, <3>1 DEF ManagerTyped
  <2>4. UNCHANGED <<manager, late, hubResets, spent>>
    BY <1>7 DEF emit
  <2> QED BY <1>1, <2>3, <2>4 DEF ManagerTyped, manager
<1>8. CASE sensorResets
  <2>1. hubResets' \in 0 .. MaxHubResets
    BY <1>1, <1>8, IMUAssumption DEF sensorResets, ManagerTyped
  <2>2. UNCHANGED <<manager, late, emitted, spent>>
    BY <1>8 DEF sensorResets
  <2> QED BY <1>1, <2>1, <2>2 DEF ManagerTyped, manager
<1>9. CASE noTransport
  BY <1>2, <1>9 DEF noTransport
<1>10. CASE Waits
  BY <1>2, <1>10, WaitsFacts
<1>11. CASE UNCHANGED imuVars
  BY <1>2, <1>11 DEF imuVars
<1> QED BY <1>2, <1>3, <1>4, <1>5, <1>6, <1>7, <1>8, <1>9, <1>10, <1>11, IMUSteps

LEMMA IMUTypedInit == IMUInit => IMUTyped
<1> SUFFICES ASSUME IMUInit PROVE IMUTyped
  OBVIOUS
<1>1. SH2Typed
  BY SH2Init DEF IMUInit
<1>2. lib.copies = 0 /\ lib.pOp = "none"
  BY DEF IMUInit, ClearedSh2
<1>3. \A i : i \notin 1 .. Len(hubIn) /\ i \notin 1 .. Len(wire)
  <2>1. Len(hubIn) = 0 /\ Len(wire) = 0
    BY EmptyFacts DEF IMUInit
  <2> QED BY <2>1
<1>4. BusTyped
  BY <1>1, <1>2, <1>3 DEF BusTyped, ManagerOps, IMUInit
<1>5. ManagerTyped
  <2>1. Zero \in [Kinds -> Nat]
    BY DEF Zero
  <2>2. 0 \in 0 .. MaxLate /\ 0 \in 0 .. MaxHubResets
    BY IMUAssumption
  <2>3. /\ step = "calibrate" /\ ready = FALSE /\ setting = 1 /\ reportType = "none"
        /\ gathering = FALSE /\ onMotion = TRUE /\ counter = Zero
        /\ late = 0 /\ hubResets = 0 /\ emitted = Zero /\ spent = Zero
    BY DEF IMUInit
  <2>4. ready \in BOOLEAN /\ gathering \in BOOLEAN /\ onMotion \in BOOLEAN
    BY <2>3
  <2>5. setting \in 1 .. 3 /\ late \in 0 .. MaxLate /\ hubResets \in 0 .. MaxHubResets
    BY <2>2, <2>3
  <2>6. counter \in [Kinds -> Nat] /\ spent \in [Kinds -> Nat] /\ emitted \in [Kinds -> Nat]
    BY <2>1, <2>3
  <2> QED BY <2>3, <2>4, <2>5, <2>6 DEF ManagerTyped, ReportTypes
<1> QED BY <1>4, <1>5 DEF IMUTyped

(* The states of the program's client of the sensor have their types: the    *)
(* hub is only asked what initialize() and wasReset() ask it, and sends only *)
(* what it may.                                                              *)
THEOREM IMUTypes == IMUSpec => []IMUTyped
<1>1. IMUTyped /\ [IMUNext]_imuVars => IMUTyped'
  BY BusStep, ManagerStep DEF IMUTyped
<1> QED BY <1>1, IMUTypedInit, PTL DEF IMUSpec

-----------------------------------------------------------------------------
(* What the program asked of the hub is not lost: it is enabled, or it is    *)
(* written or to be written.                                                 *)

Sets(q, s) == q.id = "SET_FEATURE_CMD" /\ q.key = s

Asked(s) ==
    \/ s \in enabled
    \/ \E i \in 1 .. Len(hubIn) : Sets(hubIn[i], s)
    \/ lib.copies > 0 /\ Sets(lib.out, s)

(* The hub has told of a reset the driver has not read.                      *)
ResetTold == \E i \in 1 .. Len(wire) : wire[i].chan = "device"

SetOps == {"none", "setSensorConfig"}

(* Between two calls nothing is on its way.                                  *)
Calm == step \in {"calibrate", "check", "obtain", "opening"} => lib.pOp = "none" /\ lib.copies = 0

(* The product ids come through the control channel.                         *)
Identified == step = "prodIds" /\ (Blocked \/ lib.opStatus = "SH2_OK") => lib.controlChan

(* The reports initialize() went through are asked for, the last one included.*)
Enabling ==
    step = "enable" =>
        /\ lib.controlChan /\ lib.opStatus = "SH2_OK" /\ lib.pOp \in SetOps
        /\ reportType = Reports[setting] /\ \A j \in 1 .. setting : Asked(Reports[j])

(* After a reset wasReset() asks for the report of stability again.          *)
Initialized ==
    ready =>
        /\ lib.controlChan /\ lib.pOp \in SetOps /\ reportType = "STABILITY"
        /\ step \in {"check", "checkEvent", "obtain", "obtainEvent"}
        /\ hubResets = 0 => \A j \in 1 .. 3 : Asked(Reports[j])
        /\ losses = 0 => Asked("STABILITY") \/ lib.resetSeen \/ ResetTold

Control == ChannelsKnown(lib) /\ Calm /\ Identified /\ Enabling /\ Initialized
ReportsInv == IMUTyped /\ Control

-----------------------------------------------------------------------------
LEMMA AskedRests ==
    ASSUME UNCHANGED <<hubIn, enabled>>, lib'.copies = lib.copies, lib'.out = lib.out,
           NEW s, Asked(s)
    PROVE  Asked(s)'
  BY DEF Asked

LEMMA AskedWrites ==
    ASSUME BusTyped, write, NEW s, Asked(s)
    PROVE  Asked(s)'
<1>1. /\ lib.copies > 0 /\ UNCHANGED enabled
      /\ Len(hubIn) \in Nat /\ Len(hubIn') = Len(hubIn) + 1
      /\ \A i \in 1 .. Len(hubIn) : hubIn'[i] = hubIn[i]
      /\ hubIn'[Len(hubIn) + 1] = lib.out
  BY BusWrites DEF write
<1>2. CASE s \in enabled
  BY <1>1, <1>2 DEF Asked
<1>3. ASSUME NEW i \in 1 .. Len(hubIn), Sets(hubIn[i], s) PROVE Asked(s)'
  <2>1. i \in 1 .. Len(hubIn') /\ Sets(hubIn'[i], s)
    BY <1>1, <1>3
  <2> QED BY <2>1 DEF Asked
<1>4. CASE Sets(lib.out, s)
  <2>1. Len(hubIn) + 1 \in 1 .. Len(hubIn') /\ Sets(hubIn'[Len(hubIn) + 1], s)
    BY <1>1, <1>4
  <2> QED BY <2>1 DEF Asked
<1> QED BY <1>2, <1>3, <1>4 DEF Asked

LEMMA AskedTakes ==
    ASSUME BusTyped, hubTakes, NEW s, Asked(s)
    PROVE  Asked(s)'
<1>1. /\ UNCHANGED lib
      /\ Len(hubIn) \in Nat /\ Len(hubIn') = Len(hubIn) - 1
      /\ \A i \in 1 .. Len(hubIn) - 1 : hubIn'[i] = hubIn[i + 1]
      /\ enabled' = IF hubIn[1].id = "SET_FEATURE_CMD" THEN enabled \union {hubIn[1].key}
                                                       ELSE enabled
  BY BusTakes
<1>2. CASE s \in enabled \/ (lib.copies > 0 /\ Sets(lib.out, s))
  BY <1>1, <1>2 DEF Asked
<1>3. ASSUME NEW i \in 1 .. Len(hubIn), Sets(hubIn[i], s) PROVE Asked(s)'
  <2>1. CASE i = 1
    BY <1>1, <1>3, <2>1 DEF Asked, Sets
  <2>2. CASE i # 1
    <3>1. i - 1 \in 1 .. Len(hubIn) - 1 /\ i - 1 \in 1 .. Len(hubIn') /\ (i - 1) + 1 = i
      BY <1>1, <2>2
    <3>2. Sets(hubIn'[i - 1], s)
      BY <1>1, <1>3, <3>1
    <3> QED BY <3>1, <3>2 DEF Asked
  <2> QED BY <2>1, <2>2
<1> QED BY <1>2, <1>3 DEF Asked

(* Nothing else is being written when an operation is called.                *)
LEMMA AskedCalls ==
    ASSUME NEW l, NEW o, NEW id, NEW key, Calls(l, o, id, key), lib.copies = 0
    PROVE  /\ \A s : Asked(s) => Asked(s)'
           /\ lib.controlChan /\ id = "SET_FEATURE_CMD" => Asked(key)'
<1>1. UNCHANGED <<hubIn, enabled>>
  BY DEF Calls, HubRests
<1>2. \A s : Asked(s) => s \in enabled \/ \E i \in 1 .. Len(hubIn) : Sets(hubIn[i], s)
  BY DEF Asked
<1>3. lib.controlChan => lib'.copies = 1 /\ lib'.out.id = id /\ lib'.out.key = key
  BY DEF Calls, Asks
<1> QED BY <1>1, <1>2, <1>3 DEF Asked, Sets

(* What the steps between the driver and the hub leave as it is.             *)
Carries ==
    /\ UNCHANGED <<manager, hubResets>>
    /\ ChannelsKnown(lib')
    /\ lib.controlChan => lib'.controlChan
    /\ \A s : Asked(s) => Asked(s)'
    /\ \/ lib.pOp = "getProdIds"
       \/ lib'.pOp = lib.pOp /\ lib'.opStatus = lib.opStatus
       \/ lib'.pOp = "none" /\ lib'.opStatus = "SH2_OK" /\ lib.pOp = "setSensorConfig"
    /\ lib.copies = 0 => lib'.copies = 0
    /\ step = "prodIds" =>
          Blocked \/ (lib'.pOp = lib.pOp /\ lib'.copies = lib.copies /\ lib'.opStatus = lib.opStatus)
    /\ losses' = 0 /\ ready => losses = 0 /\ (lib.resetSeen \/ ResetTold
                                              => lib'.resetSeen \/ ResetTold')

LEMMA CarriedControl ==
    ASSUME Control, Carries
    PROVE  Control'
<1>1. UNCHANGED <<step, ready, setting, reportType, hubResets>>
  BY DEF Carries, manager
<1>2. Calm'
  BY <1>1 DEF Control, Calm, Carries
<1>3. Identified'
  BY <1>1 DEF Control, Identified, Carries, Blocked
<1>4. Enabling'
  <2> SUFFICES ASSUME step = "enable" PROVE Enabling'
    BY <1>1 DEF Enabling
  <2>1. /\ lib.controlChan /\ lib.opStatus = "SH2_OK" /\ lib.pOp \in SetOps
        /\ reportType = Reports[setting] /\ \A j \in 1 .. setting : Asked(Reports[j])
    BY DEF Control, Enabling
  <2>2. /\ lib'.controlChan /\ lib'.opStatus = "SH2_OK" /\ lib'.pOp \in SetOps
        /\ \A j \in 1 .. setting : Asked(Reports[j])'
    BY <2>1 DEF Carries, SetOps, Reports
  <2> QED BY <1>1, <2>1, <2>2 DEF Enabling, Reports
<1>5. Initialized'
  <2> SUFFICES ASSUME ready PROVE Initialized'
    BY <1>1 DEF Initialized
  <2>1. /\ lib.controlChan /\ lib.pOp \in SetOps /\ reportType = "STABILITY"
        /\ step \in {"check", "checkEvent", "obtain", "obtainEvent"}
        /\ hubResets = 0 => \A j \in 1 .. 3 : Asked(Reports[j])
        /\ losses = 0 => Asked("STABILITY") \/ lib.resetSeen \/ ResetTold
    BY DEF Control, Initialized
  <2>2. lib'.controlChan /\ lib'.pOp \in SetOps
    BY <2>1 DEF Carries, SetOps
  <2>3. hubResets = 0 => \A j \in 1 .. 3 : Asked(Reports[j])'
    BY <2>1 DEF Carries, Reports
  <2>4. losses' = 0 => Asked("STABILITY")' \/ lib'.resetSeen \/ ResetTold'
    BY <2>1 DEF Carries
  <2> QED BY <1>1, <2>1, <2>2, <2>3, <2>4 DEF Initialized, Reports
<1> QED BY <1>2, <1>3, <1>4, <1>5 DEF Control, Carries

LEMMA RestsCarry ==
    ASSUME ReportsInv, HubRests, lib' = lib, UNCHANGED <<manager, hubResets>>
    PROVE  Carries
<1>1. \A s : Asked(s) => Asked(s)'
  BY AskedRests DEF HubRests
<1>2. ResetTold => ResetTold'
  BY DEF ResetTold, HubRests
<1> QED BY <1>1, <1>2 DEF Carries, ReportsInv, Control, ChannelsKnown, HubRests

(* A reset that has been told is seen when the transfer is read.             *)
LEMMA ToldSeen ==
    ASSUME ReportsInv, ready, NEW l \in {lib, Asking}, Reads(l), lib.resetSeen \/ ResetTold
    PROVE  lib'.resetSeen \/ ResetTold'
<1>1. /\ Served(l, wire[1], lib') /\ ManagerTransfer(wire[1])
      /\ Len(wire) \in Nat /\ Len(wire') = Len(wire) - 1
      /\ \A i \in 1 .. Len(wire') : wire'[i] = wire[i + 1]
  BY ReadsFacts DEF ReportsInv, IMUTyped
<1>2. l.resetSeen = lib.resetSeen /\ l.shtp = lib.shtp
  BY AskingFacts DEF ReportsInv, IMUTyped, BusTyped, SH2Typed
<1>3. lib.shtp.known = Channels
  BY DEF ReportsInv, Control, Initialized, ChannelsKnown
<1>4. CASE lib.resetSeen
  BY <1>1, <1>2, <1>4 DEF Served
<1>5. ASSUME NEW i \in 1 .. Len(wire), wire[i].chan = "device"
      PROVE  lib'.resetSeen \/ ResetTold'
  <2>1. CASE i = 1
    BY <1>1, <1>2, <1>3, <1>5, <2>1 DEF Served, ManagerTransfer
  <2>2. CASE i # 1
    <3>1. i - 1 \in 1 .. Len(wire') /\ (i - 1) + 1 = i
      BY <1>1, <2>2
    <3>2. wire'[i - 1].chan = "device"
      BY <1>1, <1>5, <3>1
    <3> QED BY <3>1, <3>2 DEF ResetTold
  <2> QED BY <2>1, <2>2
<1> QED BY <1>4, <1>5 DEF ResetTold

LEMMA WaitsCarry ==
    ASSUME ReportsInv, Waits
    PROVE  Carries
<1>1. Reads(lib) \/ (HubRests /\ lib' = lib)
  BY WaitsFacts
<1> UNCHANGED <<manager, hubResets>> /\ (step = "opening" \/ Blocked)
  BY WaitsFacts DEF environment
<1>2. CASE Reads(lib)
  <2>1. Served(lib, wire[1], lib')
    BY <1>2, ReadsFacts DEF ReportsInv, IMUTyped
  <2>2. UNCHANGED <<hubIn, enabled, losses>>
    BY <1>2 DEF Reads
  <2>3. \A s : Asked(s) => Asked(s)'
    BY <2>1, <2>2, AskedRests DEF Served
  <2>4. ready /\ (lib.resetSeen \/ ResetTold) => lib'.resetSeen \/ ResetTold'
    BY <1>2, ToldSeen
  <2>5. /\ ChannelsKnown(lib') /\ (lib.controlChan => lib'.controlChan)
        /\ lib'.copies = lib.copies
        /\ lib.pOp = "getProdIds" \/ (lib'.pOp = lib.pOp /\ lib'.opStatus = lib.opStatus)
    BY <2>1 DEF Served, ReportsInv, Control
  <2> QED BY <2>2, <2>3, <2>4, <2>5 DEF Carries
<1>3. CASE HubRests /\ lib' = lib
  BY <1>3, RestsCarry
<1> QED BY <1>1, <1>2, <1>3

LEMMA WireCarries ==
    ASSUME ReportsInv,
           write \/ hubTakes \/ lose, UNCHANGED <<manager, environment, spent>>
    PROVE  Carries
<1>1. BusTyped /\ UNCHANGED <<manager, hubResets>>
  BY DEF ReportsInv, IMUTyped, environment
<1>2. CASE write
  <2>1. UNCHANGED <<wire, losses>>
    BY <1>2 DEF write, counts
  <2>2. ResetTold => ResetTold'
    BY <2>1 DEF ResetTold
  <2>3. \A s : Asked(s) => Asked(s)'
    BY <1>1, <1>2, AskedWrites
  <2>4. /\ lib.copies > 0 /\ lib'.shtp = lib.shtp /\ lib'.controlChan = lib.controlChan
        /\ lib'.resetSeen = lib.resetSeen /\ Blocked
        /\ \/ lib'.pOp = lib.pOp /\ lib'.opStatus = lib.opStatus
           \/ lib'.pOp = "none" /\ lib'.opStatus = "SH2_OK" /\ lib.pOp = "setSensorConfig"
    BY <1>1, <1>2, BusWrites DEF Blocked
  <2> QED BY <1>1, <2>1, <2>2, <2>3, <2>4 DEF Carries, ReportsInv, Control, ChannelsKnown
<1>3. CASE hubTakes
  <2>1. UNCHANGED <<lib, losses>>
    BY <1>3 DEF hubTakes, counts
  <2>2. \A s : Asked(s) => Asked(s)'
    BY <1>1, <1>3, AskedTakes
  <2>3. ResetTold => ResetTold'
    <3>1. CASE UNCHANGED wire
      BY <3>1 DEF ResetTold
    <3>2. ASSUME NEW ts, wire' = wire \o ts, Sequence(ts) PROVE ResetTold => ResetTold'
      <4>1. /\ Len(wire) \in Nat /\ Len(ts) \in Nat /\ Len(wire') = Len(wire) + Len(ts)
            /\ \A i \in 1 .. Len(wire) : wire'[i] = wire[i]
        BY <1>1, <3>2, ConcatFacts, SequenceFacts DEF BusTyped, SH2Typed
      <4> QED BY <4>1 DEF ResetTold
    <3> QED BY <1>1, <1>3, <3>1, <3>2, BusTakes
  <2> QED BY <1>1, <2>1, <2>2, <2>3 DEF Carries, ReportsInv, Control, ChannelsKnown
<1>4. CASE lose
  <2>1. UNCHANGED <<lib, hubIn, enabled>> /\ losses' = losses + 1 /\ losses \in Nat
    BY <1>1, <1>4, BusLoses
  <2>2. \A s : Asked(s) => Asked(s)'
    BY <2>1, AskedRests
  <2> QED BY <1>1, <2>1, <2>2 DEF Carries, ReportsInv, Control, ChannelsKnown
<1> QED BY <1>2, <1>3, <1>4

LEMMA EmitCarries ==
    ASSUME ReportsInv, emit
    PROVE  Carries
<1>1. UNCHANGED <<lib, hubIn, enabled, losses, manager, hubResets>>
  BY DEF emit, counts
<1>2. \A s : Asked(s) => Asked(s)'
  BY <1>1, AskedRests
<1>3. PICK payload, t : Reporting(payload, t)
  BY EmitFacts DEF ReportsInv, IMUTyped
<1>4. ResetTold => ResetTold'
  BY <1>3 DEF ResetTold, Reporting
<1> QED BY <1>1, <1>2, <1>4 DEF Carries, ReportsInv, Control, ChannelsKnown

LEMMA ControlInit == IMUInit => Control
<1> SUFFICES ASSUME IMUInit PROVE Control
  OBVIOUS
<1>1. lib.controlChan = FALSE /\ lib.pOp = "none" /\ lib.copies = 0
  BY DEF IMUInit, ClearedSh2
<1>2. step = "calibrate" /\ ready = FALSE
  BY DEF IMUInit
<1> QED BY <1>1, <1>2 DEF Control, ChannelsKnown, Calm, Identified, Enabling, Initialized

(* initialize(): the session is opened and the product ids are asked for.    *)
LEMMA OpeningControl ==
    ASSUME ReportsInv, beginMissed \/ begin \/ openReturns
    PROVE  Control'
<1>1. step \in {"calibrate", "opening"} /\ ~ready /\ ~ready'
  BY DEF ReportsInv, Control, Initialized, beginMissed, begin, openReturns
<1>2. lib.pOp = "none" /\ lib.copies = 0 /\ ChannelsKnown(lib)
  BY <1>1 DEF ReportsInv, Control, Calm
<1>3. CASE beginMissed
  <2>1. lib' = lib /\ step' = "check"
    BY <1>3 DEF beginMissed, sh2Vars
  <2> QED BY <1>1, <1>2, <2>1
             DEF Control, ChannelsKnown, Calm, Identified, Enabling, Initialized
<1>4. CASE begin
  <2>1. lib' = Opened(lib) /\ step' \in {"opening", "check"}
    BY <1>4 DEF begin
  <2>2. lib'.pOp = "none" /\ lib'.copies = 0
    BY <2>1, FreshDriver
  <2>3. lib'.controlChan = FALSE
    BY <2>1 DEF Opened, ClearedSh2
  <2> QED BY <1>1, <2>1, <2>2, <2>3
             DEF Control, ChannelsKnown, Calm, Identified, Enabling, Initialized
<1>5. CASE openReturns
  <2>1. step' = "prodIds"
    BY <1>5 DEF openReturns
  <2>2. Asks(lib, lib', "getProdIds", "PROD_ID_REQ", "none")
    BY <1>5, ReturnCalls DEF Calls, ReportsInv, IMUTyped
  <2>3. /\ lib'.shtp = lib.shtp /\ lib'.controlChan = lib.controlChan
        /\ ~lib.controlChan => /\ lib'.pOp = "none" /\ lib'.copies = 0
                               /\ lib'.opStatus = "SH2_ERR_BAD_PARAM"
    BY <1>2, <2>2 DEF Asks
  <2>4. Identified'
    BY <2>3 DEF Identified, Blocked
  <2> QED BY <1>1, <1>2, <2>1, <2>3, <2>4
             DEF Control, ChannelsKnown, Calm, Enabling, Initialized
<1> QED BY <1>3, <1>4, <1>5

(* A report is asked for: those before it are, and the channel is there.     *)
LEMMA SetControl ==
    ASSUME ReportsInv, HubRests, ~Blocked, ~ready, UNCHANGED ready, lib.controlChan,
           NEW i \in 1 .. 3, setReport(i), \A j \in 1 .. (i - 1) : Asked(Reports[j])
    PROVE  Control'
<1>1. /\ lib.copies = 0 /\ ChannelsKnown(lib) /\ DriverOK(lib)
  BY DEF ReportsInv, Control, Blocked, IMUTyped, BusTyped, SH2Typed, DriverOK
<1>2. Calls(lib, "setSensorConfig", "SET_FEATURE_CMD", Reports[i])
  BY SetCalls DEF ReportsInv, IMUTyped
<1>3. (\A s : Asked(s) => Asked(s)') /\ Asked(Reports[i])'
  BY <1>1, <1>2, AskedCalls
<1>4. /\ lib'.shtp = lib.shtp /\ lib'.controlChan = lib.controlChan
      /\ lib'.pOp = "setSensorConfig" /\ lib'.opStatus = "SH2_OK"
  BY <1>2 DEF Calls, Asks
<1>5. step' = "enable" /\ setting' = i /\ reportType' = Reports[i]
  BY DEF setReport
<1>6. \A j \in 1 .. i : Asked(Reports[j])'
  <2>1. \A j \in 1 .. i : j \in 1 .. (i - 1) \/ j = i
    OBVIOUS
  <2> QED BY <1>3, <2>1 DEF Reports
<1>7. Enabling'
  BY <1>4, <1>5, <1>6 DEF Enabling, SetOps, Reports
<1> QED BY <1>1, <1>4, <1>5, <1>7 DEF Control, ChannelsKnown, Calm, Identified, Initialized

LEMMA EnablingControl ==
    ASSUME ReportsInv, prodIdsDone \/ enableDone
    PROVE  Control'
<1>1. HubRests /\ ~Blocked /\ ~ready
  BY HubRestsFacts DEF prodIdsDone, enableDone, ReportsInv, Control, Initialized
<1>2. ChannelsKnown(lib) /\ DriverOK(lib) /\ setting \in 1 .. 3
  BY DEF ReportsInv, Control, IMUTyped, BusTyped, SH2Typed, ManagerTyped
<1>3. lib.pOp = "none" /\ lib.copies = 0
  BY <1>1, <1>2 DEF Blocked, DriverOK
<1>4. CASE prodIdsDone
  <2>1. UNCHANGED ready
    BY <1>4 DEF prodIdsDone
  <2>2. CASE lib.opStatus = "SH2_OK"
    <3>1. lib.controlChan /\ setReport(1)
      BY <1>4, <2>2 DEF prodIdsDone, ReportsInv, Control, Identified
    <3>2. \A j \in 1 .. (1 - 1) : Asked(Reports[j])
      OBVIOUS
    <3>3. 1 \in 1 .. 3
      OBVIOUS
    <3> QED BY <1>1, <2>1, <3>1, <3>2, <3>3, SetControl
  <2>3. CASE lib.opStatus # "SH2_OK"
    <3>1. lib' = lib /\ step' = "check"
      BY <1>4, <2>3 DEF prodIdsDone
    <3> QED BY <1>1, <1>2, <1>3, <2>1, <3>1
               DEF Control, ChannelsKnown, Calm, Identified, Enabling, Initialized
  <2> QED BY <2>2, <2>3
<1>5. CASE enableDone
  <2>1. /\ lib.controlChan /\ reportType = Reports[setting]
        /\ \A j \in 1 .. setting : Asked(Reports[j])
    BY <1>5 DEF enableDone, ReportsInv, Control, Enabling
  <2>2. CASE setting < 3
    <3>1. setReport(setting + 1) /\ UNCHANGED ready
      BY <1>5, <2>2, ReportsFacts DEF enableDone
    <3>2. setting + 1 \in 1 .. 3 /\ 1 .. ((setting + 1) - 1) = 1 .. setting
      BY <1>2, <2>2
    <3> QED BY <1>1, <2>1, <3>1, <3>2, SetControl
  <2>3. CASE ~(setting < 3)
    <3>1. setting = 3 /\ lib' = lib /\ step' = "check" /\ UNCHANGED <<reportType, setting>>
      BY <1>2, <1>5, <2>3, ReportsFacts DEF enableDone
    <3>2. reportType = "STABILITY" /\ \A j \in 1 .. 3 : Asked(Reports[j])
      BY <2>1, <3>1, ReportsFacts
    <3>3. \A s : Asked(s) => Asked(s)'
      BY <1>1, <3>1, AskedRests DEF HubRests
    <3>4. (\A j \in 1 .. 3 : Asked(Reports[j])') /\ Asked("STABILITY")'
      BY <3>2, <3>3, ReportsFacts DEF Reports
    <3>5. Initialized'
      BY <1>3, <2>1, <3>1, <3>2, <3>4 DEF Initialized, SetOps, Reports
    <3> QED BY <1>2, <1>3, <3>1, <3>5 DEF Control, ChannelsKnown, Calm, Identified, Enabling
  <2> QED BY <2>2, <2>3
<1> QED BY <1>4, <1>5

(* wasReset(): the reset seen is forgotten with the report asked for again.  *)
LEMMA ResetControl ==
    ASSUME ReportsInv, checkReset \/ obtainReset
    PROVE  Control'
<1>1. /\ step \in {"check", "obtain"} /\ step' \in {"checkEvent", "obtainEvent"}
      /\ UNCHANGED <<ready, reportType, hubResets>>
  BY DEF checkReset, obtainReset, wasReset, environment
<1>2. lib.pOp = "none" /\ lib.copies = 0 /\ ChannelsKnown(lib)
  BY <1>1 DEF ReportsInv, Control, Calm
<1>3. HubRests
  BY ResetCalls DEF ReportsInv, IMUTyped
<1>4. /\ lib'.shtp = lib.shtp /\ lib'.controlChan = lib.controlChan
      /\ \A s : Asked(s) => Asked(s)'
      /\ lib'.pOp \in SetOps \/ ~lib.controlChan
      /\ \/ lib.controlChan => Asked(reportType)'
         \/ lib' = lib /\ ~lib.resetSeen
  <2>1. CASE ~lib.resetSeen /\ lib' = lib
    <3>1. \A s : Asked(s) => Asked(s)'
      BY <1>3, <2>1, AskedRests DEF HubRests
    <3> QED BY <1>2, <2>1, <3>1 DEF SetOps
  <2>2. CASE Calls(Seen, "setSensorConfig", "SET_FEATURE_CMD", reportType)
    <3>1. /\ \A s : Asked(s) => Asked(s)'
          /\ lib.controlChan => Asked(reportType)'
      BY <1>1, <1>2, <2>2, AskedCalls
    <3> QED BY <2>2, <3>1 DEF Calls, Asks, SetOps
  <2> QED BY <2>1, <2>2, ResetCalls DEF ReportsInv, IMUTyped
<1>5. Initialized'
  <2> SUFFICES ASSUME ready PROVE Initialized'
    BY <1>1 DEF Initialized
  <2>1. /\ lib.controlChan /\ reportType = "STABILITY"
        /\ hubResets = 0 => \A j \in 1 .. 3 : Asked(Reports[j])
        /\ losses = 0 => Asked("STABILITY") \/ lib.resetSeen \/ ResetTold
    BY DEF ReportsInv, Control, Initialized
  <2>2. losses' = losses /\ (ResetTold => ResetTold')
    BY <1>3 DEF HubRests, ResetTold
  <2>3. losses' = 0 => Asked("STABILITY")' \/ lib'.resetSeen \/ ResetTold'
    BY <1>1, <1>4, <2>1, <2>2
  <2>4. hubResets = 0 => \A j \in 1 .. 3 : Asked(Reports[j])'
    BY <1>4, <2>1 DEF Reports
  <2> QED BY <1>1, <1>4, <2>1, <2>3, <2>4 DEF Initialized, Reports
<1> QED BY <1>1, <1>2, <1>4, <1>5 DEF Control, ChannelsKnown, Calm, Identified, Enabling

(* An event is read between two calls.                                       *)
LEMMA EventControl ==
    ASSUME ReportsInv, checkStability \/ obtainInertialMeasures
    PROVE  Control'
<1>1. /\ step \in {"checkEvent", "obtainEvent"} /\ ~Blocked /\ getSensorEvent
      /\ UNCHANGED <<counts, ready, reportType, hubResets>>
      /\ step' \in {"check", "obtain", "calibrate"} /\ (ready => step' # "calibrate")
  BY DEF checkStability, obtainInertialMeasures, Update, environment
<1>2. IMUTyped /\ BusTyped /\ DriverOK(lib) /\ ChannelsKnown(lib)
  BY DEF ReportsInv, Control, IMUTyped, BusTyped, SH2Typed
<1>3. lib.pOp = "none" /\ lib.copies = 0
  BY <1>1, <1>2 DEF Blocked, DriverOK
<1>4. /\ Asking.shtp = lib.shtp /\ Asking.pOp = lib.pOp /\ Asking.opStatus = lib.opStatus
      /\ Asking.copies = lib.copies /\ Asking.out = lib.out
      /\ Asking.controlChan = lib.controlChan /\ Asking.resetSeen = lib.resetSeen
  BY <1>2, AskingFacts
<1>5. /\ lib'.pOp = "none" /\ lib'.copies = 0 /\ lib'.out = lib.out
      /\ ChannelsKnown(lib') /\ (lib.controlChan => lib'.controlChan)
      /\ UNCHANGED <<hubIn, enabled, losses>>
      /\ ready /\ (lib.resetSeen \/ ResetTold) => lib'.resetSeen \/ ResetTold'
  <2>1. CASE Reads(Asking)
    <3>1. Served(Asking, wire[1], lib')
      BY <1>2, <2>1, ReadsFacts
    <3>2. /\ lib'.pOp = "none" /\ lib'.copies = 0 /\ lib'.out = lib.out
          /\ ChannelsKnown(lib') /\ (lib.controlChan => lib'.controlChan)
      BY <1>2, <1>3, <1>4, <3>1 DEF Served, ChannelsKnown
    <3>3. UNCHANGED <<hubIn, enabled, losses>>
      BY <2>1 DEF Reads
    <3>4. ready /\ (lib.resetSeen \/ ResetTold) => lib'.resetSeen \/ ResetTold'
      BY <2>1, ToldSeen
    <3> QED BY <3>2, <3>3, <3>4
  <2>2. CASE HubRests /\ lib' = Asking
    <3>1. ResetTold => ResetTold'
      BY <2>2 DEF HubRests, ResetTold
    <3> QED BY <1>2, <1>3, <1>4, <2>2, <3>1 DEF HubRests, ChannelsKnown
  <2> QED BY <1>1, <1>2, <2>1, <2>2, EventRead
<1>6. \A s : Asked(s) => Asked(s)'
  BY <1>3, <1>5, AskedRests
<1>7. Initialized'
  <2> SUFFICES ASSUME ready PROVE Initialized'
    BY <1>1 DEF Initialized
  <2>1. /\ lib.controlChan /\ reportType = "STABILITY"
        /\ hubResets = 0 => \A j \in 1 .. 3 : Asked(Reports[j])
        /\ losses = 0 => Asked("STABILITY") \/ lib.resetSeen \/ ResetTold
    BY DEF ReportsInv, Control, Initialized
  <2>2. losses' = 0 => Asked("STABILITY")' \/ lib'.resetSeen \/ ResetTold'
    BY <1>5, <1>6, <2>1
  <2>3. hubResets = 0 => \A j \in 1 .. 3 : Asked(Reports[j])'
    BY <1>6, <2>1 DEF Reports
  <2> QED BY <1>1, <1>5, <2>1, <2>2, <2>3 DEF Initialized, SetOps, Reports
<1> QED BY <1>1, <1>5, <1>7 DEF Control, Calm, Identified, Enabling

(* The hub resets itself: it is to tell so.                                  *)
LEMMA SensorControl ==
    ASSUME ReportsInv, sensorResets
    PROVE  Control'
<1>1. /\ ready /\ HubReset /\ UNCHANGED <<lib, losses, manager>> /\ hubResets' = hubResets + 1
  BY DEF sensorResets, counts
<1>2. BusTyped /\ hubResets \in Nat
  BY DEF ReportsInv, IMUTyped, ManagerTyped
<1>3. ResetTold'
  <2>1. Len(wire') = 3 /\ wire'[2].chan = "device"
    BY <1>1, <1>2, BusResets
  <2>2. 2 \in 1 .. Len(wire')
    BY <2>1
  <2> QED BY <2>1, <2>2 DEF ResetTold
<1>4. /\ lib.controlChan /\ lib.pOp \in SetOps /\ reportType = "STABILITY"
      /\ step \in {"check", "checkEvent", "obtain", "obtainEvent"}
      /\ ChannelsKnown(lib) /\ Calm
  BY <1>1 DEF ReportsInv, Control, Initialized
<1>5. UNCHANGED <<step, ready, reportType>>
  BY <1>1 DEF manager
<1>6. hubResets' # 0
  BY <1>1, <1>2
<1>7. Initialized'
  BY <1>1, <1>3, <1>4, <1>5, <1>6 DEF Initialized
<1> QED BY <1>1, <1>4, <1>5, <1>7 DEF Control, ChannelsKnown, Calm, Identified, Enabling

LEMMA ControlStep ==
    ASSUME ReportsInv, [IMUNext]_imuVars
    PROVE  Control'
<1>1. CASE beginMissed \/ begin \/ openReturns
  BY <1>1, OpeningControl
<1>2. CASE prodIdsDone \/ enableDone
  BY <1>2, EnablingControl
<1>3. CASE checkReset \/ obtainReset
  BY <1>3, ResetControl
<1>4. CASE checkStability \/ obtainInertialMeasures
  BY <1>4, EventControl
<1>5. CASE sensorResets
  BY <1>5, SensorControl
<1>6. CASE Waits
  BY <1>6, WaitsCarry, CarriedControl DEF ReportsInv
<1>7. CASE (write \/ hubTakes \/ lose) /\ UNCHANGED <<manager, environment, spent>>
  BY <1>7, WireCarries, CarriedControl DEF ReportsInv
<1>8. CASE emit
  BY <1>8, EmitCarries, CarriedControl DEF ReportsInv
<1>9. CASE noTransport
  <2>1. /\ step = "check" /\ lib' = [lib EXCEPT !.broken = TRUE] /\ HubRests
        /\ UNCHANGED <<manager, hubResets>>
    BY <1>9, HubRestsFacts DEF noTransport, environment
  <2>2. /\ lib'.shtp = lib.shtp /\ lib'.pOp = lib.pOp /\ lib'.copies = lib.copies
        /\ lib'.out = lib.out /\ lib'.opStatus = lib.opStatus
        /\ lib'.controlChan = lib.controlChan /\ lib'.resetSeen = lib.resetSeen
    BY <2>1 DEF ReportsInv, IMUTyped, BusTyped, SH2Typed, DriverOK, Driver1
  <2>3. \A s : Asked(s) => Asked(s)'
    BY <2>1, <2>2, AskedRests DEF HubRests
  <2>4. ResetTold => ResetTold'
    BY <2>1 DEF HubRests, ResetTold
  <2>5. Carries
    BY <2>1, <2>2, <2>3, <2>4 DEF Carries, ReportsInv, Control, ChannelsKnown, HubRests
  <2> QED BY <2>5, CarriedControl DEF ReportsInv
<1>10. CASE UNCHANGED imuVars
  <2>1. HubRests /\ lib' = lib /\ UNCHANGED <<manager, hubResets>>
    BY <1>10, HubRestsFacts DEF imuVars, sh2Vars, environment
  <2> QED BY <2>1, RestsCarry, CarriedControl DEF ReportsInv
<1> QED BY <1>1, <1>2, <1>3, <1>4, <1>5, <1>6, <1>7, <1>8, <1>9, <1>10, IMUSteps

(* What initialize() and wasReset() asked for is enabled, or on its way, or  *)
(* to be asked for again when the reset that undid it is read.               *)
THEOREM ReportsInvariant == IMUSpec => []ReportsInv
<1>1. IMUInit => ReportsInv
  BY IMUTypedInit, ControlInit DEF ReportsInv
<1>2. ReportsInv /\ [IMUNext]_imuVars => ReportsInv'
  BY BusStep, ManagerStep, ControlStep DEF ReportsInv, IMUTyped
<1> QED BY <1>1, <1>2, PTL DEF IMUSpec

(* A sensor that is ready reports the stability the program waits for, and,  *)
(* unless the hub was reset, all initialize() asked for: no refused write    *)
(* and no order of the two sides leaves a report that nobody asks for again. *)
THEOREM ReportsKept == IMUSpec => []ReportsEnabled
<1>1. ReportsInv => ReportsEnabled
  <2> SUFFICES ASSUME ReportsInv, Settled PROVE ReportsEnabled
    BY DEF ReportsEnabled
  <2>1. /\ ready /\ ~Blocked /\ ~lib.resetSeen /\ hubIn = <<>> /\ losses = 0
        /\ \A i \in DOMAIN wire : wire[i].chan # "device"
    BY DEF Settled
  <2>2. DOMAIN wire = 1 .. Len(wire) /\ \A i : i \notin 1 .. Len(hubIn)
    <3>1. Sequence(wire)
      BY DEF ReportsInv, IMUTyped, BusTyped, SH2Typed
    <3>2. Len(hubIn) = 0
      BY <2>1, EmptyFacts
    <3> QED BY <3>1, <3>2, SequenceFacts
  <2>3. ~ResetTold /\ ~(lib.copies > 0)
    BY <2>1, <2>2 DEF ResetTold, Blocked
  <2>4. \A s : Asked(s) => s \in enabled
    BY <2>2, <2>3 DEF Asked
  <2>5. /\ hubResets = 0 => \A j \in 1 .. 3 : Asked(Reports[j])
        /\ Asked("STABILITY")
    BY <2>1, <2>3 DEF ReportsInv, Control, Initialized
  <2>6. DOMAIN Reports = 1 .. 3
    BY DEF Reports
  <2> QED BY <2>4, <2>5, <2>6 DEF ReportsEnabled
<1> QED BY <1>1, ReportsInvariant, PTL

-----------------------------------------------------------------------------
(* A report the hub made is on its way, is counted, has been zeroed, or is   *)
(* gone.                                                                     *)

Carried(t, k) == t.chan = "inputNormal" /\ \E r \in ReportsOf(t.part) : KindOf(r) = k

Pending(k) == {i \in 1 .. Len(wire) : Carried(wire[i], k)}

Counted(k) == spent[k] + counter[k] + Cardinality(Pending(k)) <= emitted[k]

CountsInv == IMUTyped /\ \A k \in Kinds : Counted(k)

LEMMA PendingFacts ==
    ASSUME BusTyped, NEW k
    PROVE  IsFiniteSet(Pending(k)) /\ Cardinality(Pending(k)) \in Nat
<1>1. Len(wire) \in Nat
  BY SequenceFacts DEF BusTyped, SH2Typed
<1>2. Pending(k) \in SUBSET (1 .. Len(wire))
  BY DEF Pending
<1> QED BY <1>1, <1>2, PlacesFacts

LEMMA PendingNext ==
    ASSUME BusTyped', NEW k
    PROVE  Cardinality(Pending(k)') \in Nat
<1>1. Len(wire') \in Nat
  <2>1. Sequence(wire')
    BY DEF BusTyped, SH2Typed, Sequence
  <2> QED BY <2>1, SequenceFacts
<1>2. Pending(k)' \in SUBSET (1 .. Len(wire'))
  BY DEF Pending
<1> QED BY <1>1, <1>2, PlacesFacts

(* The first transfer is taken away.                                         *)
LEMMA PendingTaken ==
    ASSUME BusTyped, wire # <<>>, Len(wire') = Len(wire) - 1,
           \A i \in 1 .. Len(wire') : wire'[i] = wire[i + 1],
           NEW k
    PROVE  /\ Cardinality(Pending(k)') <= Cardinality(Pending(k))
           /\ Carried(wire[1], k) => Cardinality(Pending(k)') <= Cardinality(Pending(k)) - 1
<1> DEFINE P == Pending(k)
           Q == Pending(k)'
           f == [i \in Q |-> i + 1]
<1>1. Len(wire) \in Nat /\ Len(wire) > 0
  BY SequenceFacts DEF BusTyped, SH2Typed
<1>2. IsFiniteSet(P) /\ Cardinality(P) \in Nat
  BY PendingFacts
<1>3. \A i \in Q : i \in Nat /\ i + 1 \in P /\ i + 1 # 1
  <2> TAKE i \in Q
  <2>1. i \in 1 .. Len(wire') /\ Carried(wire'[i], k)
    BY DEF Pending, Carried, ReportsOf, KindOf
  <2>2. i + 1 \in 1 .. Len(wire) /\ Carried(wire[i + 1], k) /\ i \in Nat /\ i + 1 # 1
    BY <1>1, <2>1
  <2> QED BY <2>2 DEF Pending
<1>4. Carried(wire[1], k) => 1 \in P
  BY <1>1 DEF Pending
<1> HIDE DEF P, Q
<1>5. f \in Injection(Q, P \ {1})
  BY <1>3 DEF Injection, IsInjective
<1>6. /\ IsFiniteSet(P \ {1})
      /\ Cardinality(P \ {1}) = IF 1 \in P THEN Cardinality(P) - 1 ELSE Cardinality(P)
  BY <1>2, FS_RemoveElement
<1>7. Cardinality(Q) <= Cardinality(P \ {1})
  BY <1>5, <1>6, FS_Injection
<1>8. IsFiniteSet(Q) /\ Cardinality(Q) \in Nat
  BY <1>5, <1>6, FS_Injection, FS_CardinalityType
<1>9. /\ Cardinality(Q) <= Cardinality(P)
      /\ 1 \in P => Cardinality(Q) <= Cardinality(P) - 1
  BY <1>2, <1>6, <1>7, <1>8
<1> QED BY <1>4, <1>9 DEF P, Q

(* Nothing of a kind is added.                                               *)
LEMMA PendingSame ==
    ASSUME BusTyped, NEW k, Pending(k)' \subseteq Pending(k)
    PROVE  Cardinality(Pending(k)') <= Cardinality(Pending(k))
<1> DEFINE P == Pending(k)
           Q == Pending(k)'
<1>1. IsFiniteSet(P) /\ Q \in SUBSET P
  BY PendingFacts
<1> HIDE DEF P, Q
<1>2. Cardinality(Q) <= Cardinality(P)
  BY <1>1, FS_Subset
<1> QED BY <1>2 DEF P, Q

(* The counters and what has been zeroed are the same together.              *)
Holds == \A k \in Kinds : spent'[k] + counter'[k] = spent[k] + counter[k]

LEMMA CountedHolds ==
    ASSUME CountsInv, BusTyped', ManagerTyped', Holds, UNCHANGED emitted,
           \A k \in Kinds : Cardinality(Pending(k)') <= Cardinality(Pending(k))
    PROVE  \A k \in Kinds : Counted(k)'
<1> TAKE k \in Kinds
<1> DEFINE p == Cardinality(Pending(k))
           q == Cardinality(Pending(k)')
<1>1. p \in Nat /\ q \in Nat
  <2>1. BusTyped
    BY DEF CountsInv, IMUTyped
  <2> QED BY <2>1, PendingFacts, PendingNext
<1>2. /\ spent[k] + counter[k] + p <= emitted[k] /\ q <= p
      /\ spent[k] \in Nat /\ counter[k] \in Nat /\ emitted[k] \in Nat
      /\ spent'[k] \in Nat /\ counter'[k] \in Nat /\ emitted'[k] = emitted[k]
      /\ spent'[k] + counter'[k] = spent[k] + counter[k]
  BY DEF CountsInv, IMUTyped, ManagerTyped, Counted, Holds
<1> HIDE DEF p, q
<1>3. spent'[k] + counter'[k] + q <= emitted'[k]
  BY <1>1, <1>2
<1> QED BY <1>3 DEF Counted, q

(* A transfer is read or lost, or none is.                                   *)
LEMMA PendingRests ==
    ASSUME BusTyped, NEW k,
           UNCHANGED wire \/ Reads(lib) \/ Reads(Asking) \/ lose
    PROVE  Cardinality(Pending(k)') <= Cardinality(Pending(k))
<1>1. CASE UNCHANGED wire
  BY <1>1, PendingSame DEF Pending
<1>2. CASE Reads(lib) \/ Reads(Asking)
  <2>1. /\ wire # <<>> /\ Len(wire') = Len(wire) - 1
        /\ \A i \in 1 .. Len(wire') : wire'[i] = wire[i + 1]
    BY <1>2, ReadsFacts DEF Reads
  <2> QED BY <2>1, PendingTaken
<1>3. CASE lose
  <2>1. /\ wire # <<>> /\ Len(wire') = Len(wire) - 1
        /\ \A i \in 1 .. Len(wire') : wire'[i] = wire[i + 1]
    BY <1>3, BusLoses DEF lose
  <2> QED BY <2>1, PendingTaken
<1> QED BY <1>1, <1>2, <1>3

LEMMA PendingAnswers ==
    ASSUME BusTyped, hubTakes, NEW k
    PROVE  Cardinality(Pending(k)') <= Cardinality(Pending(k))
<1>1. CASE UNCHANGED wire
  BY <1>1, PendingRests
<1>2. ASSUME NEW ts, wire' = wire \o ts, Sequence(ts),
             \A i \in 1 .. Len(ts) : ts[i].chan = "control"
      PROVE  Cardinality(Pending(k)') <= Cardinality(Pending(k))
  <2>1. /\ Len(wire) \in Nat /\ Len(ts) \in Nat /\ Len(wire') = Len(wire) + Len(ts)
        /\ \A i \in 1 .. Len(wire) : wire'[i] = wire[i]
        /\ \A i \in 1 .. Len(ts) : wire'[Len(wire) + i] = ts[i]
    BY <1>2, ConcatFacts, SequenceFacts DEF BusTyped, SH2Typed
  <2>2. ASSUME NEW i \in Pending(k)' PROVE i \in Pending(k)
    <3>1. i \in 1 .. Len(wire') /\ Carried(wire'[i], k)
      BY <2>2 DEF Pending, Carried, ReportsOf, KindOf
    <3>2. CASE i \in 1 .. Len(wire)
      BY <2>1, <3>1, <3>2 DEF Pending
    <3>3. CASE i \notin 1 .. Len(wire)
      <4>1. i - Len(wire) \in 1 .. Len(ts) /\ Len(wire) + (i - Len(wire)) = i
        BY <2>1, <3>1, <3>3
      <4>2. wire'[i].chan = "control"
        BY <1>2, <2>1, <4>1
      <4> QED BY <3>1, <4>2 DEF Carried
    <3> QED BY <3>2, <3>3
  <2> QED BY <2>2, PendingSame
<1> QED BY <1>1, <1>2, BusTakes

LEMMA PendingResets ==
    ASSUME BusTyped, HubReset, UNCHANGED losses, lib' = lib \/ lib' = Opened(lib), NEW k
    PROVE  Cardinality(Pending(k)') <= Cardinality(Pending(k))
<1>1. /\ Len(wire') = 3 /\ wire'[1].chan = "command" /\ wire'[2].chan = "device"
      /\ wire'[3].chan = "control"
  BY BusResets
<1>2. ASSUME NEW i \in Pending(k)' PROVE FALSE
  <2>1. i \in 1 .. 3 /\ wire'[i].chan = "inputNormal"
    BY <1>1, <1>2 DEF Pending, Carried
  <2> QED BY <1>1, <2>1
<1> QED BY <1>2, PendingSame

-----------------------------------------------------------------------------
LEMMA EmitCounted ==
    ASSUME CountsInv, emit, BusTyped', ManagerTyped'
    PROVE  \A k \in Kinds : Counted(k)'
<1>1. PICK payload, t : Reporting(payload, t)
  BY EmitFacts DEF CountsInv, IMUTyped
<1> TAKE k \in Kinds
<1> DEFINE P == Pending(k)
           Q == Pending(k)'
           S == {i \in DOMAIN payload : KindOf(payload[i]) = k}
           new == Len(wire) + 1
<1>2. BusTyped /\ UNCHANGED <<spent, counter>>
  BY DEF CountsInv, IMUTyped, emit, manager
<1>3. IsFiniteSet(P) /\ Cardinality(P) \in Nat /\ Cardinality(Q) \in Nat
  BY <1>2, PendingFacts, PendingNext
<1>4. IsFiniteSet(S) /\ Cardinality(S) \in Nat
  <2>1. Len(payload) \in Nat /\ DOMAIN payload = 1 .. Len(payload)
    BY <1>1, SequenceFacts DEF Reporting
  <2> QED BY <2>1, PlacesFacts
<1>5. Carried(t, k) => S # {}
  <2> SUFFICES ASSUME Carried(t, k) PROVE S # {}
    OBVIOUS
  <2>1. DOMAIN payload = 1 .. Len(payload) /\ t.part = payload
    BY <1>1, SequenceFacts DEF Reporting
  <2>2. PICK i \in 1 .. Len(payload) : KindOf(payload[i]) = k
    BY <2>1 DEF Carried, ReportsOf
  <2> QED BY <2>1, <2>2
<1>6. Q \subseteq P \union {new} /\ (new \in Q => Carried(t, k))
  <2>1. /\ Len(wire) \in Nat /\ Len(wire') = new /\ wire'[new] = t
        /\ \A i \in 1 .. Len(wire) : wire'[i] = wire[i]
    BY <1>1 DEF Reporting
  <2>2. ASSUME NEW i \in Q PROVE (i \in P \/ i = new) /\ (i = new => Carried(t, k))
    <3>1. i \in 1 .. Len(wire') /\ Carried(wire'[i], k)
      BY <2>2 DEF Pending, Carried, ReportsOf, KindOf
    <3>2. i \in 1 .. Len(wire) \/ i = new
      BY <2>1, <3>1
    <3> QED BY <2>1, <3>1, <3>2 DEF Pending
  <2> QED BY <2>2
<1>7. emitted'[k] = emitted[k] + Cardinality(S)
  BY <1>1 DEF Reporting
<1> HIDE DEF P, Q, S, new
<1>8. Cardinality(Q) <= Cardinality(P) + Cardinality(S)
  <2>1. CASE new \in Q
    <3>1. /\ IsFiniteSet(P \union {new})
          /\ Cardinality(P \union {new}) = IF new \in P THEN Cardinality(P) ELSE Cardinality(P) + 1
      BY <1>3, FS_AddElement
    <3>2. Cardinality(Q) <= Cardinality(P \union {new})
      BY <1>6, <3>1, FS_Subset
    <3>3. Cardinality(S) # 0
      BY <1>4, <1>5, <1>6, <2>1, FS_EmptySet
    <3> QED BY <1>3, <1>4, <3>1, <3>2, <3>3
  <2>2. CASE new \notin Q
    <3>1. Q \in SUBSET P
      BY <1>6, <2>2
    <3>2. Cardinality(Q) <= Cardinality(P)
      BY <1>3, <3>1, FS_Subset
    <3> QED BY <1>3, <1>4, <3>2
  <2> QED BY <2>1, <2>2
<1>9. /\ spent[k] + counter[k] + Cardinality(P) <= emitted[k]
      /\ spent[k] \in Nat /\ counter[k] \in Nat /\ emitted[k] \in Nat
  BY DEF CountsInv, IMUTyped, ManagerTyped, Counted, P
<1>10. spent'[k] + counter'[k] + Cardinality(Q) <= emitted'[k]
  BY <1>2, <1>3, <1>4, <1>7, <1>8, <1>9
<1> QED BY <1>10 DEF Counted, Q

(* A report that is counted is no longer on its way.                         *)
LEMMA EventCounted ==
    ASSUME CountsInv, checkStability \/ obtainInertialMeasures, BusTyped'
    PROVE  \A k \in Kinds : Counted(k)'
<1> DEFINE r == lib'.event
<1>1. BusTyped /\ getSensorEvent /\ UNCHANGED <<counts, emitted>>
  BY DEF CountsInv, IMUTyped, checkStability, obtainInertialMeasures, environment
<1>2. Counts(r)
  BY EventCounts DEF CountsInv
<1>3. \/ r = NoReport
      \/ /\ Reads(Asking) /\ wire[1].chan = "inputNormal"
         /\ r \in ReportsOf(wire[1].part)
  BY <1>1, EventFacts
<1> HIDE DEF r
<1> TAKE k \in Kinds
<1> DEFINE p == Cardinality(Pending(k))
           q == Cardinality(Pending(k)')
           one == IF r.id # "none" /\ KindOf(r) = k THEN 1 ELSE 0
<1>4. p \in Nat /\ q \in Nat
  BY <1>1, PendingFacts, PendingNext
<1>5. q + one <= p
  <2>1. q <= p
    <3>1. UNCHANGED wire \/ Reads(Asking)
      BY <1>1, EventRead DEF HubRests
    <3> QED BY <1>1, <3>1, PendingRests
  <2>2. CASE one = 0
    BY <1>4, <2>1, <2>2
  <2>3. CASE one # 0
    <3>1. r.id # "none" /\ KindOf(r) = k
      BY <2>3
    <3>2. Reads(Asking) /\ Carried(wire[1], k)
      BY <1>3, <3>1 DEF Carried, NoReport, Report
    <3>3. /\ wire # <<>> /\ Len(wire') = Len(wire) - 1
          /\ \A i \in 1 .. Len(wire') : wire'[i] = wire[i + 1]
      BY <1>1, <3>2, ReadsFacts DEF Reads
    <3>4. q <= p - 1
      BY <1>1, <3>2, <3>3, PendingTaken
    <3> QED BY <1>4, <3>1, <3>4
  <2> QED BY <2>2, <2>3
<1>6. /\ spent[k] + counter[k] + p <= emitted[k]
      /\ spent[k] \in Nat /\ counter[k] \in Nat /\ emitted[k] \in Nat
      /\ spent'[k] \in Nat /\ counter'[k] \in Nat /\ emitted'[k] = emitted[k]
      /\ spent'[k] + counter'[k] <= spent[k] + counter[k] + one
  BY <1>1, <1>2 DEF CountsInv, IMUTyped, ManagerTyped, Counted, Counts
<1>7. one \in {0, 1}
  OBVIOUS
<1> HIDE DEF p, q, one
<1>8. spent'[k] + counter'[k] + q <= emitted'[k]
  BY <1>4, <1>5, <1>6, <1>7
<1> QED BY <1>8 DEF Counted, q

LEMMA CountedStep ==
    ASSUME CountsInv, [IMUNext]_imuVars, BusTyped', ManagerTyped'
    PROVE  \A k \in Kinds : Counted(k)'
<1>1. BusTyped /\ ManagerTyped
  BY DEF CountsInv, IMUTyped
<1>2. UNCHANGED <<counter, spent>> => Holds
  BY DEF Holds
<1>3. CASE checkStability \/ obtainInertialMeasures
  BY <1>3, EventCounted
<1>4. CASE emit
  BY <1>4, EmitCounted
<1>5. CASE begin \/ sensorResets
  <2>1. /\ HubReset /\ UNCHANGED <<losses, counter, spent, emitted>>
        /\ lib' = lib \/ lib' = Opened(lib)
    BY <1>5 DEF begin, sensorResets, counts, manager, environment
  <2> QED BY <1>1, <1>2, <2>1, PendingResets, CountedHolds
<1>6. CASE hubTakes /\ UNCHANGED <<manager, environment, spent>>
  <2>1. UNCHANGED <<counter, spent, emitted>>
    BY <1>6 DEF manager, environment
  <2> QED BY <1>1, <1>2, <1>6, <2>1, PendingAnswers, CountedHolds
<1>7. CASE \/ lose /\ UNCHANGED <<manager, environment, spent>>
           \/ write /\ UNCHANGED <<manager, environment, spent>>
           \/ Waits
  <2>1. UNCHANGED <<counter, spent, emitted>>
    BY <1>7, WaitsFacts DEF manager, environment
  <2>2. UNCHANGED wire \/ Reads(lib) \/ lose
    BY <1>7, WaitsFacts DEF write, HubRests
  <2> QED BY <1>1, <1>2, <2>1, <2>2, PendingRests, CountedHolds
<1>8. CASE enableDone
  <2>1. UNCHANGED <<counter, spent>> \/ Clear({"RV", "LA"})
    BY <1>8 DEF enableDone
  <2>2. UNCHANGED wire /\ UNCHANGED emitted
    BY <1>8 DEF enableDone, hub, environment
  <2>3. Holds
    <3>1. {"RV", "LA"} \in SUBSET Kinds
      BY DEF Kinds
    <3> QED BY <1>1, <1>2, <2>1, <3>1, ClearFacts DEF Holds
  <2> QED BY <1>1, <2>2, <2>3, PendingRests, CountedHolds
<1>9. CASE beginMissed \/ openReturns \/ prodIdsDone \/ checkReset \/ obtainReset \/ noTransport
           \/ UNCHANGED imuVars
  <2>1. UNCHANGED <<wire, counter, spent, emitted>>
    BY <1>9 DEF beginMissed, openReturns, prodIdsDone, checkReset, obtainReset, wasReset,
                noTransport, imuVars, sh2Vars, hub, manager, environment
  <2> QED BY <1>1, <1>2, <2>1, PendingRests, CountedHolds
<1> QED BY <1>3, <1>4, <1>5, <1>6, <1>7, <1>8, <1>9, IMUSteps

(* No report is counted twice, or without having been made, however the two  *)
(* calls that read events take turns, and whatever is lost or reset: the     *)
(* value the driver fills is emptied before the transport is serviced.       *)
THEOREM ReportsCounted == IMUSpec => []CountedOnce
<1>1. IMUInit => CountsInv
  <2> SUFFICES ASSUME IMUInit PROVE CountsInv
    OBVIOUS
  <2>1. IMUTyped
    BY IMUTypedInit
  <2>2. ASSUME NEW k \in Kinds PROVE Counted(k)
    <3>1. Len(wire) = 0
      BY EmptyFacts DEF IMUInit
    <3>2. Pending(k) = {}
      BY <3>1 DEF Pending
    <3>3. spent[k] = 0 /\ counter[k] = 0 /\ emitted[k] = 0
      BY DEF IMUInit, Zero
    <3> QED BY <3>2, <3>3, FS_EmptySet DEF Counted
  <2> QED BY <2>1, <2>2 DEF CountsInv
<1>2. CountsInv /\ [IMUNext]_imuVars => CountsInv'
  BY BusStep, ManagerStep, CountedStep DEF CountsInv, IMUTyped
<1>3. CountsInv => CountedOnce
  <2> SUFFICES ASSUME CountsInv, NEW k \in Kinds PROVE spent[k] + counter[k] <= emitted[k]
    BY DEF CountedOnce
  <2>1. Cardinality(Pending(k)) \in Nat
    BY PendingFacts DEF CountsInv, IMUTyped
  <2>2. /\ spent[k] + counter[k] + Cardinality(Pending(k)) <= emitted[k]
        /\ spent[k] \in Nat /\ counter[k] \in Nat /\ emitted[k] \in Nat
    BY DEF CountsInv, IMUTyped, ManagerTyped, Counted
  <2> QED BY <2>1, <2>2
<1> QED BY <1>1, <1>2, <1>3, PTL DEF IMUSpec
-----------------------------------------------------------------------------
(* As long as nothing fails, initialize() succeeds the first time, and what  *)
(* the driver does without a value to fill or a transport is never done.     *)

Early == {"calibrate", "opening", "prodIds"}
Polled == {"check", "checkEvent", "obtain", "obtainEvent"}

Faultless == late = 0 /\ faults = 0 /\ losses = 0

(* No sensor reports before it is asked to.                                  *)
Quiet ==
    /\ enabled = {}
    /\ \A i \in 1 .. Len(hubIn) : hubIn[i].id # "SET_FEATURE_CMD"
    /\ lib.copies > 0 => lib.out.id # "SET_FEATURE_CMD"
    /\ \A i \in 1 .. Len(wire) : wire[i].chan # "inputNormal"

(* The hub names its channels before it tells of the reset.                  *)
ChannelsFirst ==
    \A i \in 1 .. Len(wire) : wire[i].chan = "device" =>
        \/ lib.controlChan
        \/ \E j \in 1 .. (i - 1) : wire[j].chan = "command" /\ wire[j].rest = 0

(* There is one session, which has the transport.                            *)
Attached ==
    /\ "command" \in lib.shtp.known
    /\ step = "calibrate" => ~lib.inUse
    /\ step # "calibrate" => lib.pShtp

Opening == step = "opening" => (lib.resetComplete => lib.controlChan) /\ ChannelsFirst
Identifying == step = "prodIds" => lib.controlChan /\ lib.opStatus = "SH2_OK"

(* Only the product ids are waited for, the settings are only written.       *)
Sending ==
    /\ lib.pOp = "setSensorConfig" => lib.copies > 0
    /\ lib.pOp = "getProdIds" => step = "prodIds"

Sound ==
    /\ ~lib.broken /\ Attached /\ Opening /\ Identifying /\ Sending
    /\ step \in Early => Quiet
    /\ step \in Polled => ready

SoundInv == ReportsInv /\ faults \in Nat /\ (Faultless => Sound)

LEMMA SoundInit == IMUInit => Sound /\ faults \in Nat
<1> SUFFICES ASSUME IMUInit PROVE Sound /\ faults \in Nat
  OBVIOUS
<1>1. /\ lib = ClearedSh2 /\ hubIn = <<>> /\ wire = <<>> /\ enabled = {} /\ faults = 0
      /\ step = "calibrate"
  BY DEF IMUInit
<1>2. /\ lib.broken = FALSE /\ lib.inUse = FALSE /\ lib.pOp = "none" /\ lib.copies = 0
      /\ lib.shtp = NewInstance
  BY <1>1 DEF ClearedSh2
<1>3. "command" \in lib.shtp.known
  BY <1>2 DEF NewInstance
<1>4. Quiet
  <2>1. \A i : i \notin 1 .. Len(hubIn) /\ i \notin 1 .. Len(wire)
    <3>1. Len(hubIn) = 0 /\ Len(wire) = 0
      BY <1>1, EmptyFacts
    <3> QED BY <3>1
  <2> QED BY <1>1, <1>2, <2>1 DEF Quiet
<1> QED BY <1>1, <1>2, <1>3, <1>4 DEF Sound, Attached, Opening, Identifying, Sending, Polled

(* The session is opened, the first one.                                     *)
LEMMA SoundBegins ==
    ASSUME ReportsInv, Sound, begin
    PROVE  Sound'
<1>1. /\ step = "calibrate" /\ lib' = Opened(lib) /\ HubReset
      /\ step' = IF lib'.pShtp THEN "opening" ELSE "check"
      /\ UNCHANGED losses
  BY DEF begin, counts
<1>2. ~lib.inUse
  BY <1>1 DEF Sound, Attached
<1>3. /\ lib'.shtp = NewInstance /\ lib'.copies = 0 /\ lib'.pOp = "none"
  BY <1>1, FreshDriver
<1>4. lib'.pShtp = TRUE /\ lib'.broken = FALSE /\ lib'.resetComplete = FALSE
  BY <1>1, <1>2 DEF Opened, ClearedSh2
<1>5. step' = "opening"
  BY <1>1, <1>4
<1>6. /\ hubIn' = <<>> /\ Len(wire') = 3 /\ wire'[1].rest = 0 /\ enabled' = {}
      /\ wire'[1].chan = "command" /\ wire'[2].chan = "device" /\ wire'[3].chan = "control"
  <2>1. 1 \in 1 .. 3 /\ enabled' = {}
    BY <1>1 DEF HubReset
  <2> QED BY <1>1, <2>1, ResetFacts
<1>7. \A i \in 1 .. Len(wire') : i = 1 \/ i = 2 \/ i = 3
  BY <1>6
<1>8. Quiet'
  <2>1. \A i : i \notin 1 .. Len(hubIn')
    <3>1. Len(hubIn') = 0
      BY <1>6, EmptyFacts
    <3> QED BY <3>1
  <2> QED BY <1>3, <1>6, <1>7, <2>1 DEF Quiet
<1>9. ChannelsFirst'
  <2>1. 1 \in 1 .. (2 - 1)
    OBVIOUS
  <2> QED BY <1>6, <1>7, <2>1 DEF ChannelsFirst
<1>10. Attached' /\ Opening' /\ Identifying' /\ Sending'
  BY <1>3, <1>4, <1>5, <1>9 DEF Attached, Opening, Identifying, Sending, NewInstance
<1> QED BY <1>4, <1>5, <1>8, <1>10 DEF Sound, Polled

(* A transfer is read while the notifications or the product ids are waited  *)
(* for: it is none of a sensor.                                              *)
LEMMA SoundReads ==
    ASSUME ReportsInv, Sound, Reads(lib), step \in {"opening", "prodIds"}, UNCHANGED <<step, ready>>
    PROVE  Sound'
<1>1. /\ Served(lib, wire[1], lib') /\ ManagerTransfer(wire[1])
      /\ Len(wire) \in Nat /\ 1 \in 1 .. Len(wire) /\ Len(wire') = Len(wire) - 1
      /\ \A i \in 1 .. Len(wire') : wire'[i] = wire[i + 1] /\ i + 1 \in 1 .. Len(wire)
  BY ReadsFacts DEF ReportsInv, IMUTyped
<1>2. UNCHANGED <<hubIn, enabled>>
  BY DEF Reads
<1>3. Quiet /\ ~lib.broken /\ lib.pShtp /\ "command" \in lib.shtp.known
  BY DEF Sound, Attached, Early
<1>4. wire[1].chan # "inputNormal"
  BY <1>1, <1>3 DEF Quiet
<1>5. /\ lib'.broken = lib.broken /\ lib'.pShtp = lib.pShtp /\ "command" \in lib'.shtp.known
      /\ lib'.copies = lib.copies /\ lib'.out = lib.out /\ lib'.pOp \in {lib.pOp, "none"}
      /\ lib.opStatus = "SH2_OK" => lib'.opStatus = "SH2_OK"
      /\ lib.controlChan => lib'.controlChan
      /\ wire[1].chan # "device" => lib'.resetComplete = lib.resetComplete
      /\ wire[1].chan = "command" /\ wire[1].rest = 0 => lib'.controlChan
  BY <1>1, <1>3, <1>4 DEF Served
<1>6. Quiet'
  BY <1>1, <1>2, <1>3, <1>5 DEF Quiet
<1>7. Attached' /\ Identifying' /\ Sending'
  BY <1>3, <1>5 DEF Sound, Attached, Identifying, Sending
<1>8. Opening'
  <2> SUFFICES ASSUME step = "opening"
               PROVE  (lib'.resetComplete => lib'.controlChan) /\ ChannelsFirst'
    BY DEF Opening
  <2>1. (lib.resetComplete => lib.controlChan) /\ ChannelsFirst
    BY DEF Sound, Opening
  <2>2. wire[1].chan = "device" => lib.controlChan
    <3>1. \A j : j \notin 1 .. (1 - 1)
      OBVIOUS
    <3> QED BY <1>1, <2>1, <3>1 DEF ChannelsFirst
  <2>3. lib'.resetComplete => lib'.controlChan
    BY <1>5, <2>1, <2>2
  <2>4. ASSUME NEW i \in 1 .. Len(wire'), wire'[i].chan = "device", ~lib'.controlChan
        PROVE  \E j \in 1 .. (i - 1) : wire'[j].chan = "command" /\ wire'[j].rest = 0
    <3>1. i \in Nat /\ i + 1 \in 1 .. Len(wire) /\ wire[i + 1].chan = "device"
      BY <1>1, <2>4
    <3>2. ~lib.controlChan
      BY <1>5, <2>4
    <3>3. PICK j \in 1 .. ((i + 1) - 1) : wire[j].chan = "command" /\ wire[j].rest = 0
      BY <2>1, <3>1, <3>2 DEF ChannelsFirst
    <3>4. j # 1
      BY <1>5, <2>4, <3>3
    <3>5. j - 1 \in 1 .. (i - 1) /\ j - 1 \in 1 .. Len(wire') /\ (j - 1) + 1 = j
      BY <1>1, <3>1, <3>3, <3>4
    <3>6. wire'[j - 1] = wire[j]
      BY <1>1, <3>5
    <3> QED BY <3>3, <3>5, <3>6
  <2>5. ChannelsFirst'
    BY <2>4 DEF ChannelsFirst
  <2> QED BY <2>3, <2>5
<1> QED BY <1>3, <1>5, <1>6, <1>7, <1>8 DEF Sound, Polled

(* The notifications were there, and the channel of the requests with them.  *)
LEMMA SoundReturns ==
    ASSUME ReportsInv, Sound, openReturns, lib.resetComplete
    PROVE  Sound'
<1>1. step = "opening" /\ step' = "prodIds" /\ UNCHANGED ready
  BY DEF openReturns
<1>2. lib.controlChan /\ Quiet /\ ~lib.broken /\ lib.pShtp /\ "command" \in lib.shtp.known
  BY <1>1 DEF Sound, Opening, Attached, Early
<1>3. Asks(lib, lib', "getProdIds", "PROD_ID_REQ", "none") /\ HubRests
  BY ReturnCalls DEF Calls, ReportsInv, IMUTyped
<1>4. /\ lib'.shtp = lib.shtp /\ lib'.controlChan = lib.controlChan
      /\ lib'.pShtp = lib.pShtp /\ lib'.broken = lib.broken
      /\ lib'.pOp = "getProdIds" /\ lib'.opStatus = "SH2_OK" /\ lib'.out.id = "PROD_ID_REQ"
  BY <1>2, <1>3 DEF Asks
<1>5. Quiet'
  BY <1>2, <1>3, <1>4 DEF Quiet, HubRests
<1> QED BY <1>1, <1>2, <1>4, <1>5
           DEF Sound, Attached, Opening, Identifying, Sending, Polled

(* What calls of the driver leave once the reports are being enabled.        *)
LEMMA SoundLater ==
    ASSUME Sound, step' \notin Early, step' \in Polled => ready', step # "calibrate",
           lib'.broken = lib.broken, lib'.pShtp = lib.pShtp,
           "command" \in lib.shtp.known => "command" \in lib'.shtp.known,
           lib'.pOp = "setSensorConfig" => lib'.copies > 0, lib'.pOp # "getProdIds"
    PROVE  Sound'
  BY DEF Sound, Attached, Opening, Identifying, Sending, Early

LEMMA SoundSets ==
    ASSUME ReportsInv, Sound, HubRests, step \in {"prodIds", "enable"}, lib.controlChan,
           NEW i, setReport(i)
    PROVE  Sound'
<1>1. Calls(lib, "setSensorConfig", "SET_FEATURE_CMD", Reports[i]) /\ lib.copies \in Nat
  BY SetCalls DEF ReportsInv, IMUTyped, BusTyped, SH2Typed, DriverOK
<1>2. /\ lib'.shtp = lib.shtp /\ lib'.pShtp = lib.pShtp /\ lib'.broken = lib.broken
      /\ lib'.pOp = "setSensorConfig" /\ lib'.copies > 0
  BY <1>1 DEF Calls, Asks
<1>3. step' = "enable"
  BY DEF setReport
<1> QED BY <1>2, <1>3, SoundLater DEF Early, Polled

LEMMA SoundEnables ==
    ASSUME ReportsInv, Sound, prodIdsDone \/ enableDone
    PROVE  Sound'
<1>1. HubRests /\ ~Blocked /\ step \in {"prodIds", "enable"} /\ setting \in 1 .. 3
  BY HubRestsFacts DEF prodIdsDone, enableDone, ReportsInv, IMUTyped, ManagerTyped
<1>2. lib.controlChan
  BY <1>1 DEF Sound, Identifying, ReportsInv, Control, Enabling
<1>3. CASE \E i \in 1 .. 3 : setReport(i)
  BY <1>1, <1>2, <1>3, SoundSets
<1>4. CASE ~\E i \in 1 .. 3 : setReport(i)
  <2>1. enableDone /\ setting = 3 /\ lib' = lib /\ step' = "check" /\ ready'
    BY <1>1, <1>4, ReportsFacts DEF prodIdsDone, enableDone, Sound, Identifying
  <2>2. lib.pOp = "none"
    BY <1>1 DEF Blocked
  <2> QED BY <1>1, <2>1, <2>2, SoundLater DEF Early
<1> QED BY <1>3, <1>4

LEMMA SoundSees ==
    ASSUME ReportsInv, Sound, checkReset \/ obtainReset
    PROVE  Sound'
<1>1. /\ step \in {"check", "obtain"} /\ step' \in {"checkEvent", "obtainEvent"}
      /\ UNCHANGED ready
  BY DEF checkReset, obtainReset, wasReset
<1>2. ready /\ lib.pOp = "none"
  BY <1>1 DEF Sound, Polled, ReportsInv, Control, Calm
<1>3. lib.controlChan /\ lib.copies \in Nat
  BY <1>2 DEF ReportsInv, Control, Initialized, IMUTyped, BusTyped, SH2Typed, DriverOK
<1>4. /\ lib'.shtp = lib.shtp /\ lib'.pShtp = lib.pShtp /\ lib'.broken = lib.broken
      /\ lib'.pOp # "getProdIds" /\ (lib'.pOp = "setSensorConfig" => lib'.copies > 0)
  <2>1. CASE lib' = lib
    BY <1>2, <2>1
  <2>2. CASE Calls(Seen, "setSensorConfig", "SET_FEATURE_CMD", reportType)
    BY <1>3, <2>2 DEF Calls, Asks
  <2> QED BY <2>1, <2>2, ResetCalls DEF ReportsInv, IMUTyped
<1> QED BY <1>1, <1>2, <1>4, SoundLater DEF Early, Polled

(* The value is there before an event is read.                               *)
LEMMA SoundEvents ==
    ASSUME ReportsInv, Sound, checkStability \/ obtainInertialMeasures
    PROVE  Sound'
<1>1. /\ step \in {"checkEvent", "obtainEvent"} /\ ~Blocked /\ getSensorEvent
      /\ UNCHANGED <<counts, ready>>
      /\ step' \in {"check", "obtain", "calibrate"} /\ (ready => step' # "calibrate")
  BY DEF checkStability, obtainInertialMeasures, Update
<1>2. ready /\ lib.pOp = "none" /\ BusTyped /\ DriverOK(lib)
  BY <1>1 DEF Sound, Polled, Blocked, ReportsInv, IMUTyped, BusTyped, SH2Typed
<1>3. /\ Asking.shtp = lib.shtp /\ Asking.pOp = lib.pOp /\ Asking.pShtp = lib.pShtp
      /\ Asking.broken = lib.broken /\ Asking.hasValue = TRUE
  BY <1>2, AskingFacts
<1>4. /\ lib'.pOp = "none" /\ lib'.broken = lib.broken /\ lib'.pShtp = lib.pShtp
      /\ "command" \in lib.shtp.known => "command" \in lib'.shtp.known
  <2>1. CASE Reads(Asking)
    <3>1. Served(Asking, wire[1], lib')
      BY <1>2, <2>1, ReadsFacts
    <3> QED BY <1>2, <1>3, <3>1 DEF Served
  <2>2. CASE lib' = Asking
    BY <1>2, <1>3, <2>2
  <2> QED BY <1>1, <1>2, <2>1, <2>2, EventRead
<1> QED BY <1>1, <1>2, <1>4, SoundLater DEF Early, Polled

LEMMA SoundWrites ==
    ASSUME ReportsInv, Sound, write, UNCHANGED manager
    PROVE  Sound'
<1>1. /\ lib.copies > 0 /\ lib.copies \in Nat /\ lib'.copies = lib.copies - 1
      /\ lib'.out = lib.out /\ lib'.shtp = lib.shtp /\ lib'.controlChan = lib.controlChan
      /\ \/ lib'.pOp = lib.pOp /\ lib'.opStatus = lib.opStatus
         \/ lib'.pOp = "none" /\ lib'.opStatus = "SH2_OK" /\ lib.pOp = "setSensorConfig"
      /\ lib'.pOp = "setSensorConfig" => lib'.copies > 0
      /\ lib'.pShtp = lib.pShtp /\ lib'.broken = lib.broken
      /\ Len(hubIn) \in Nat /\ Len(hubIn') = Len(hubIn) + 1
      /\ \A i \in 1 .. Len(hubIn) : hubIn'[i] = hubIn[i]
      /\ hubIn'[Len(hubIn) + 1] = lib.out
  BY BusWrites DEF ReportsInv, IMUTyped
<1>2. UNCHANGED <<wire, enabled, step, ready>>
  BY DEF write, manager
<1>3. step \notin {"calibrate", "opening"}
  BY <1>1 DEF ReportsInv, Control, Calm
<1>4. Quiet => Quiet'
  <2>1. \A i \in 1 .. Len(hubIn') : i \in 1 .. Len(hubIn) \/ i = Len(hubIn) + 1
    BY <1>1
  <2> QED BY <1>1, <1>2, <2>1 DEF Quiet
<1> QED BY <1>1, <1>2, <1>3, <1>4 DEF Sound, Attached, Opening, Identifying, Sending

LEMMA SoundTakes ==
    ASSUME ReportsInv, Sound, hubTakes, UNCHANGED manager
    PROVE  Sound'
<1>1. /\ UNCHANGED lib
      /\ Len(hubIn) \in Nat /\ 1 \in 1 .. Len(hubIn) /\ Len(hubIn') = Len(hubIn) - 1
      /\ \A i \in 1 .. Len(hubIn) - 1 : hubIn'[i] = hubIn[i + 1]
      /\ enabled' = IF hubIn[1].id = "SET_FEATURE_CMD" THEN enabled \union {hubIn[1].key}
                                                       ELSE enabled
      /\ \/ UNCHANGED wire
         \/ \E ts : /\ wire' = wire \o ts /\ Sequence(ts)
                    /\ \A i \in 1 .. Len(ts) : ts[i].chan = "control"
  BY BusTakes DEF ReportsInv, IMUTyped
<1>2. UNCHANGED <<step, ready>>
  BY DEF manager
<1>3. /\ Len(wire) \in Nat
      /\ \A i \in 1 .. Len(wire') : (i \in 1 .. Len(wire) /\ wire'[i] = wire[i])
                                    \/ wire'[i].chan = "control"
      /\ \A i \in 1 .. Len(wire) : i \in 1 .. Len(wire') /\ wire'[i] = wire[i]
  <2>1. Sequence(wire) /\ Len(wire) \in Nat
    BY SequenceFacts DEF ReportsInv, IMUTyped, BusTyped, SH2Typed
  <2>2. CASE UNCHANGED wire
    BY <2>1, <2>2
  <2>3. ASSUME NEW ts, wire' = wire \o ts, Sequence(ts), \A i \in 1 .. Len(ts) : ts[i].chan = "control"
        PROVE  /\ \A i \in 1 .. Len(wire') : (i \in 1 .. Len(wire) /\ wire'[i] = wire[i])
                                             \/ wire'[i].chan = "control"
               /\ \A i \in 1 .. Len(wire) : i \in 1 .. Len(wire') /\ wire'[i] = wire[i]
    <3>1. /\ Len(ts) \in Nat /\ Len(wire') = Len(wire) + Len(ts)
          /\ \A i \in 1 .. Len(wire) : wire'[i] = wire[i]
          /\ \A i \in 1 .. Len(ts) : wire'[Len(wire) + i] = ts[i]
      BY <2>1, <2>3, ConcatFacts, SequenceFacts
    <3>2. ASSUME NEW i \in 1 .. Len(wire'), i \notin 1 .. Len(wire)
          PROVE  wire'[i].chan = "control"
      <4>1. i - Len(wire) \in 1 .. Len(ts) /\ Len(wire) + (i - Len(wire)) = i
        BY <2>1, <3>1, <3>2
      <4>2. wire'[i] = ts[i - Len(wire)]
        BY <3>1, <4>1
      <4> QED BY <2>3, <4>1, <4>2
    <3>3. \A i \in 1 .. Len(wire) : i \in 1 .. Len(wire')
      BY <2>1, <3>1
    <3> QED BY <3>1, <3>2, <3>3
  <2> QED BY <1>1, <2>1, <2>2, <2>3
<1>4. Quiet => Quiet'
  <2> SUFFICES ASSUME Quiet PROVE Quiet'
    OBVIOUS
  <2>1. \A i \in 1 .. Len(hubIn') : i \in 1 .. Len(hubIn) - 1 /\ i + 1 \in 1 .. Len(hubIn)
    BY <1>1
  <2>2. hubIn[1].id # "SET_FEATURE_CMD"
    BY <1>1 DEF Quiet
  <2>3. \A i \in 1 .. Len(wire') : wire'[i].chan # "inputNormal"
    BY <1>3 DEF Quiet
  <2>4. \A i \in 1 .. Len(hubIn') : hubIn'[i].id # "SET_FEATURE_CMD"
    BY <1>1, <2>1 DEF Quiet
  <2> QED BY <1>1, <2>2, <2>3, <2>4 DEF Quiet
<1>5. ChannelsFirst => ChannelsFirst'
  <2> SUFFICES ASSUME ChannelsFirst, NEW i \in 1 .. Len(wire'), wire'[i].chan = "device",
                      ~lib.controlChan
               PROVE  \E j \in 1 .. (i - 1) : wire'[j].chan = "command" /\ wire'[j].rest = 0
    BY <1>1 DEF ChannelsFirst
  <2>1. i \in 1 .. Len(wire) /\ wire'[i] = wire[i]
    BY <1>3
  <2>2. PICK j \in 1 .. (i - 1) : wire[j].chan = "command" /\ wire[j].rest = 0
    BY <2>1 DEF ChannelsFirst
  <2>3. j \in 1 .. Len(wire)
    BY <1>3, <2>1
  <2> QED BY <1>3, <2>2, <2>3
<1> QED BY <1>1, <1>2, <1>4, <1>5 DEF Sound, Attached, Opening, Identifying, Sending

(* A sensor reports, or the hub resets itself: the reports are enabled.      *)
LEMMA SoundHub ==
    ASSUME ReportsInv, Sound, emit \/ sensorResets
    PROVE  Sound'
<1>1. UNCHANGED <<lib, step, ready>>
  BY DEF emit, sensorResets, manager
<1>2. step \notin Early
  <2>1. CASE sensorResets
    BY <2>1 DEF sensorResets, ReportsInv, Control, Initialized, Early
  <2>2. CASE emit
    <3>1. PICK r : r \in Made
      BY <2>2 DEF emit
    <3>2. r \in {Report(s, 0, 0, k, TRUE) : s \in enabled, k \in {"moving", "still"}}
      BY <3>1 DEF Made, Report
    <3>3. enabled # {}
      BY <3>2 DEF Report
    <3> QED BY <3>3 DEF Sound, Quiet
  <2> QED BY <2>1, <2>2
<1> QED BY <1>1, <1>2 DEF Sound, Attached, Opening, Identifying, Sending, Early

(* What failed is counted for good.                                          *)
LEMMA FaultsKept ==
    ASSUME ReportsInv, faults \in Nat, [IMUNext]_imuVars
    PROVE  /\ faults' \in Nat
           /\ Faultless' => /\ Faultless /\ ~beginMissed /\ ~lose /\ ~writeFails
                            /\ openReturns => lib.resetComplete
<1>1. late \in Nat /\ losses \in Nat
  BY SH2Assumption, IMUAssumption DEF ReportsInv, IMUTyped, ManagerTyped, BusTyped, SH2Typed
<1>2. Faultless' => /\ ~beginMissed /\ ~lose /\ ~writeFails
                    /\ openReturns => lib.resetComplete
  BY <1>1 DEF Faultless, beginMissed, lose, writeFails, openReturns
<1>3. /\ faults' = faults \/ faults' = faults + 1
      /\ late' = late \/ late' = late + 1
      /\ losses' = losses \/ losses' = losses + 1
  <2>1. CASE beginMissed
    BY <2>1 DEF beginMissed, sh2Vars, counts
  <2>2. CASE openReturns
    BY <2>2 DEF openReturns, counts
  <2>3. CASE begin \/ openWaits \/ prodIdsDone \/ enableDone
    BY <2>3 DEF begin, openWaits, prodIdsDone, enableDone, counts, environment
  <2>4. CASE checkReset \/ obtainReset \/ noTransport
    BY <2>4 DEF checkReset, obtainReset, wasReset, noTransport, counts, environment
  <2>5. CASE checkStability \/ obtainInertialMeasures
    BY <2>5 DEF checkStability, obtainInertialMeasures, counts, environment
  <2>6. CASE (write \/ poll \/ hubTakes) /\ UNCHANGED <<manager, environment, spent>>
    <3>1. UNCHANGED counts
      BY <2>6 DEF write, poll, hubTakes
    <3> QED BY <2>6, <3>1 DEF counts, environment
  <2>7. CASE (writeFails \/ lose) /\ UNCHANGED <<manager, environment, spent>>
    BY <2>7 DEF writeFails, lose, environment
  <2>8. CASE emit
    BY <2>8 DEF emit, counts
  <2>9. CASE sensorResets
    BY <2>9 DEF sensorResets, counts
  <2>10. CASE UNCHANGED imuVars
    BY <2>10 DEF imuVars, sh2Vars, counts, environment
  <2> QED BY <2>1, <2>2, <2>3, <2>4, <2>5, <2>6, <2>7, <2>8, <2>9, <2>10
             DEF IMUNext, Manager, DriverSteps, HubSteps
<1> QED BY <1>1, <1>2, <1>3 DEF Faultless

LEMMA SoundStep ==
    ASSUME ReportsInv, Sound, [IMUNext]_imuVars,
           ~beginMissed, ~lose, ~writeFails, openReturns => lib.resetComplete
    PROVE  Sound'
<1>1. CASE begin
  BY <1>1, SoundBegins
<1>2. CASE Waits
  <2>1. /\ UNCHANGED <<step, ready>> /\ Reads(lib)
        /\ step = "opening" \/ (lib.pOp # "none" /\ lib.copies = 0)
    BY <1>2 DEF Waits, openWaits, poll, service, Reads, counts, manager
  <2>2. lib.pOp \in ManagerOps /\ lib.copies \in Nat
    BY DEF ReportsInv, IMUTyped, BusTyped, SH2Typed, DriverOK
  <2>3. step \in {"opening", "prodIds"}
    BY <2>1, <2>2 DEF Sound, Sending, ManagerOps
  <2> QED BY <2>1, <2>3, SoundReads
<1>3. CASE openReturns
  BY <1>3, SoundReturns
<1>4. CASE prodIdsDone \/ enableDone
  BY <1>4, SoundEnables
<1>5. CASE checkReset \/ obtainReset
  BY <1>5, SoundSees
<1>6. CASE checkStability \/ obtainInertialMeasures
  BY <1>6, SoundEvents
<1>7. CASE write /\ UNCHANGED <<manager, environment, spent>>
  BY <1>7, SoundWrites
<1>8. CASE hubTakes /\ UNCHANGED <<manager, environment, spent>>
  BY <1>8, SoundTakes
<1>9. CASE emit \/ sensorResets
  BY <1>9, SoundHub
<1>10. ~noTransport
  BY DEF noTransport, Sound, Attached
<1>11. CASE UNCHANGED imuVars
  BY <1>11 DEF imuVars, sh2Vars, hub, manager, Sound, Attached, Opening, Identifying, Sending,
               Quiet, ChannelsFirst
<1> QED BY <1>1, <1>2, <1>3, <1>4, <1>5, <1>6, <1>7, <1>8, <1>9, <1>10, <1>11, IMUSteps

(* As long as the sensor is found and answers in time, every write is taken  *)
(* and no transfer is lost, the first initialize() succeeds: no sensor is    *)
(* heard before the driver has a value for it, and the session keeps its     *)
(* transport.                                                                *)
THEOREM SoundInvariant == IMUSpec => []SoundInv
<1>1. IMUInit => SoundInv
  BY IMUTypedInit, ControlInit, SoundInit DEF SoundInv, ReportsInv
<1>2. ReportsInv /\ SoundInv /\ [IMUNext]_imuVars /\ ReportsInv' => SoundInv'
  <2> SUFFICES ASSUME ReportsInv, SoundInv, [IMUNext]_imuVars, ReportsInv' PROVE SoundInv'
    OBVIOUS
  <2>1. faults \in Nat /\ (Faultless => Sound)
    BY DEF SoundInv
  <2>2. faults' \in Nat
    BY <2>1, FaultsKept
  <2>3. Faultless' => Sound'
    <3> SUFFICES ASSUME Faultless' PROVE Sound'
      OBVIOUS
    <3> QED BY <2>1, FaultsKept, SoundStep
  <2> QED BY <2>2, <2>3 DEF SoundInv
<1> QED BY <1>1, <1>2, ReportsInvariant, PTL DEF IMUSpec

(* A null pointer is followed only after something failed (calibrateIMU,     *)
(* sensorHandler).                                                           *)
THEOREM NullsNeedFaults == IMUSpec => []NullNeedsFault
<1>1. SoundInv => NullNeedsFault
  <2> SUFFICES ASSUME SoundInv, lib.broken PROVE late > 0 \/ faults > 0 \/ losses > 0
    BY DEF NullNeedsFault
  <2>1. ~Faultless
    BY DEF SoundInv, Sound
  <2>2. late \in Nat /\ faults \in Nat /\ losses \in Nat
    BY SH2Assumption, IMUAssumption
       DEF SoundInv, ReportsInv, IMUTyped, ManagerTyped, BusTyped, SH2Typed
  <2> QED BY <2>1, <2>2 DEF Faultless
<1> QED BY <1>1, SoundInvariant, PTL
===============================================================================
