-------------------------- MODULE HTTPSession_proofs --------------------------
(***************************************************************************)
(* Proofs about the exchange with the server, for any number of exchanges, *)
(* attempts and bytes the modem and the line may hold.                     *)
(***************************************************************************)
EXTENDS HTTPSession, TLAPS

InputNames == {"CONFIGURE", "QUERY", "POST_SET_URL", "URL", "POST", "MESSAGE", "POST_READ"}
LineNames == {"OK", "ERROR", "INFORMATION", "CONNECT", "POST_OK", "POST_OK_NO_DATA",
              "POST_FAILURE", "RESPONSE", "NONE"}

(* The server answered a POST of this exchange, and the response the modem   *)
(* holds is the one to it.                                                   *)
Posted == session \in posts /\ stored \in {session, Garbled}

(* What the modem may have been sent, and what may be on its way from it, in *)
(* an exchange that found nothing left over.                                 *)
Asked == {i \in [what : InputNames, of : {session}] : i.what = "POST_READ" => Posted}
Told == {l \in [what : LineNames, of : {session, Garbled}] :
            l.what \in {"POST_OK", "POST_OK_NO_DATA", "RESPONSE"} => Posted}

Carried ==
    clean =>
        /\ inputs \in Seq(Asked) /\ lines \in Seq(Told)
        /\ text.of \in {session, Garbled} \/ step # "DECODING_DATA"
        /\ reply.of \in {session, Garbled}

Backed ==
    clean =>
        (step \in {"READING_DATA", "DECODING_DATA"} \/ watingForResponse => Posted)

HTTPInv == Carried /\ Backed /\ SuccessWasPosted

-----------------------------------------------------------------------------
LEMMA HTTPInit == Init => HTTPInv
<1> SUFFICES ASSUME Init PROVE HTTPInv
  OBVIOUS
<1>1. /\ inputs = <<>> /\ lines = <<>> /\ reply.of = 0 /\ step = "TransceiverUnavailable"
      /\ watingForResponse = FALSE
  BY DEF Init, NoReply, Line
<1>2. inputs \in Seq(Asked) /\ lines \in Seq(Told)
  BY <1>1
<1> QED BY <1>1, <1>2 DEF HTTPInv, Carried, Backed, SuccessWasPosted, Garbled

LEMMA WiderSeq ==
    ASSUME NEW S, NEW T, S \subseteq T, NEW s \in Seq(S)
    PROVE  s \in Seq(T)
<1>1. Len(s) \in Nat /\ s = [i \in 1 .. Len(s) |-> s[i]] /\ \A i \in 1 .. Len(s) : s[i] \in S
  OBVIOUS
<1>2. \A i \in 1 .. Len(s) : s[i] \in T
  BY <1>1
<1>3. [i \in 1 .. Len(s) |-> s[i]] \in Seq(T)
  BY <1>1, <1>2
<1> QED BY <1>1, <1>3

LEMMA Wider ==
    ASSUME session' = session, Posted => Posted'
    PROVE  Asked \subseteq Asked' /\ Told \subseteq Told'
  BY DEF Asked, Told

(* What a call sends and reads keeps the two sequences as they should be.    *)
LEMMA Dialogue ==
    ASSUME HTTPInv, clean, UNCHANGED <<session, stored, posts>>,
           \/ UNCHANGED inputs
           \/ \E what \in InputNames : (what = "POST_READ" => Posted) /\ Send(what),
           UNCHANGED lines \/ (lines # <<>> /\ lines' = Tail(lines))
    PROVE  /\ Posted' = Posted
           /\ inputs' \in Seq(Asked') /\ lines' \in Seq(Told')
<1>1. Posted' = Posted /\ Asked' = Asked /\ Told' = Told
  BY DEF Posted, Asked, Told
<1>2. inputs \in Seq(Asked) /\ lines \in Seq(Told)
  BY DEF HTTPInv, Carried
<1>3. lines' \in Seq(Told)
  BY <1>2, SMTT(30)
<1>4. inputs' \in Seq(Asked)
  <2>1. CASE UNCHANGED inputs
    BY <1>2, <2>1
  <2>2. ASSUME NEW what \in InputNames, what = "POST_READ" => Posted, Send(what)
        PROVE  inputs' \in Seq(Asked)
    <3>1. Line(what, session) \in Asked
      BY <2>2 DEF Line, Asked
    <3> QED BY <1>2, <2>2, <3>1 DEF Send
  <2> QED BY <2>1, <2>2
<1> QED BY <1>1, <1>3, <1>4

(* The line a call reads. *)
LEMMA Reading ==
    ASSUME HTTPInv, clean, Read
    PROVE  /\ lines # <<>> /\ lines' = Tail(lines)
           /\ NextLine \in Told
<1>1. lines \in Seq(Told) /\ lines # <<>> /\ lines' = Tail(lines)
  BY DEF HTTPInv, Carried, Read
<1>2. Head(lines) \in Told
  BY <1>1
<1> QED BY <1>1, <1>2 DEF NextLine

-----------------------------------------------------------------------------
(* A new exchange finds nothing, or says so. *)
LEMMA EnableStep == HTTPInv /\ enableTransceiver => HTTPInv'
<1> SUFFICES ASSUME enableTransceiver PROVE HTTPInv'
  OBVIOUS
<1>1. /\ step' = "ASSING_PDPCONTEXT_TO_HTTP_STACK" /\ reply' = NoReply
      /\ UNCHANGED watingForResponse
      /\ clean' => ~watingForResponse /\ inputs' = <<>> /\ lines' = <<>>
  BY DEF enableTransceiver, NewObject, NewStep, statics
<1>2. clean' => inputs' \in Seq(Asked') /\ lines' \in Seq(Told')
  BY <1>1
<1>3. reply'.of = Garbled
  BY <1>1 DEF NoReply, Line, Garbled
<1> QED BY <1>1, <1>2, <1>3 DEF HTTPInv, Carried, Backed, SuccessWasPosted

LEMMA SendStep == HTTPInv /\ clean /\ sendCommand => HTTPInv'
<1> SUFFICES ASSUME HTTPInv, clean, sendCommand PROVE HTTPInv'
  OBVIOUS
<1>1. UNCHANGED <<session, step, success, text, watingForResponse, reply, lines, stored, posts, clean>>
  BY DEF sendCommand, statics
<1>2. Command(step) \in InputNames /\ (Command(step) = "POST_READ" => step = "READING_DATA")
  BY DEF Command, InputNames
<1>3. Command(step) = "POST_READ" => Posted
  BY <1>2 DEF HTTPInv, Backed
<1>4. Send(Command(step))
  BY DEF sendCommand
<1> HIDE DEF Command
<1>5. Posted' = Posted /\ inputs' \in Seq(Asked') /\ lines' \in Seq(Told')
  BY <1>1, <1>2, <1>3, <1>4, Dialogue
<1> QED BY <1>1, <1>5 DEF HTTPInv, Carried, Backed, SuccessWasPosted, Posted

LEMMA ConfigureNamesAre ==
    ConfigureNames = {"ASSING_PDPCONTEXT_TO_HTTP_STACK", "CONFIGURING_PDP_PROFILE",
                      "ACTIVATING_PDP_CONTEXT", "QUERING_PDP_CONTEXT", "CONFIGURING_SERVER_DNS",
                      "SETTING_SSL_CONTEXT", "SETTING_SSL_VERSION", "SETTING_SSL_LEVEL"}
<1>1. DOMAIN ConfigureSteps = 1 .. 8
  BY DEF ConfigureSteps
<1>2. ConfigureNames = {ConfigureSteps[i] : i \in 1 .. 8}
  BY <1>1 DEF ConfigureNames, Range
<1>3. 1 .. 8 = {1, 2, 3, 4, 5, 6, 7, 8}
  OBVIOUS
<1> QED BY <1>2, <1>3 DEF ConfigureSteps

(* The configuring states lead to SETTING_URL at most. *)
LEMMA StepsFollow ==
    ASSUME NEW s \in ConfigureNames
    PROVE  {StepAfter(s), s} \subseteq ConfigureNames \union {"SETTING_URL"}
<1>1. ConfigureNames = {ConfigureSteps[i] : i \in DOMAIN ConfigureSteps}
  BY DEF ConfigureNames, Range
<1> DEFINE n == CHOOSE i \in DOMAIN ConfigureSteps : ConfigureSteps[i] = s
<1>2. n \in DOMAIN ConfigureSteps
  BY <1>1
<1>3. DOMAIN ConfigureSteps = 1 .. 8 /\ Len(ConfigureSteps) = 8
  BY DEF ConfigureSteps
<1> HIDE DEF n
<1>4. n # 8 => n + 1 \in DOMAIN ConfigureSteps
  BY <1>2, <1>3
<1>5. StepAfter(s) = IF n = 8 THEN "SETTING_URL" ELSE ConfigureSteps[n + 1]
  BY <1>3 DEF StepAfter, n
<1> QED BY <1>1, <1>4, <1>5

LEMMA ReadStep ==
    /\ HTTPInv /\ clean
    /\ configure \/ setUrl \/ post \/ readResponse \/ decode \/ deactivatePDP
    => HTTPInv'
<1> SUFFICES ASSUME HTTPInv, clean,
                    configure \/ setUrl \/ post \/ readResponse \/ decode \/ deactivatePDP
             PROVE  HTTPInv'
  OBVIOUS
<1> USE DEF NewStep, NewObject
<1>1. UNCHANGED <<session, stored, posts, clean>>
  BY DEF configure, setUrl, post, readResponse, decode, deactivatePDP, modem
<1>2. \/ UNCHANGED inputs
      \/ \E what \in InputNames : (what = "POST_READ" => Posted) /\ Send(what)
  <2>1. \/ UNCHANGED inputs \/ Send("URL") \/ Send("MESSAGE")
    BY DEF configure, setUrl, post, readResponse, decode, deactivatePDP, modem
  <2>2. {"URL", "MESSAGE"} \subseteq InputNames
    BY DEF InputNames
  <2> QED BY <2>1, <2>2
<1>3. decode \/ Read
  BY DEF configure, setUrl, post, readResponse, deactivatePDP
<1>4. Posted' = Posted /\ inputs' \in Seq(Asked') /\ lines' \in Seq(Told')
  <2>1. UNCHANGED lines \/ (lines # <<>> /\ lines' = Tail(lines))
    BY <1>3, Reading DEF decode, modem
  <2> QED BY <1>1, <1>2, <2>1, Dialogue
<1>5. CASE configure
  <2>1. /\ step \in ConfigureNames /\ UNCHANGED <<success, watingForResponse, text, reply>>
        /\ step' \in {StepAfter(step), step}
    BY <1>5 DEF configure, statics
  <2>2. step' \notin {"READING_DATA", "DECODING_DATA", "DeactivatePDP"}
    <3>1. step' \in ConfigureNames \union {"SETTING_URL"}
      BY <2>1, StepsFollow
    <3>2. ConfigureNames = {"ASSING_PDPCONTEXT_TO_HTTP_STACK", "CONFIGURING_PDP_PROFILE",
                            "ACTIVATING_PDP_CONTEXT", "QUERING_PDP_CONTEXT",
                            "CONFIGURING_SERVER_DNS", "SETTING_SSL_CONTEXT",
                            "SETTING_SSL_VERSION", "SETTING_SSL_LEVEL"}
      BY ConfigureNamesAre
    <3> QED BY <3>1, <3>2
  <2> QED BY <1>1, <1>4, <2>1, <2>2 DEF HTTPInv, Carried, Backed, SuccessWasPosted
<1>6. CASE setUrl
  <2>1. /\ UNCHANGED <<success, watingForResponse, text, reply>>
        /\ step' \in {"SETTING_URL", "POSTING_DATA"}
    BY <1>6 DEF setUrl
  <2> QED BY <1>1, <1>4, <2>1 DEF HTTPInv, Carried, Backed, SuccessWasPosted
<1>7. CASE post
  <2>1. UNCHANGED <<success, watingForResponse, text, reply>>
    BY <1>7 DEF post
  <2>2. \/ step' = "POSTING_DATA"
        \/ step' = "READING_DATA" /\ NextLine.what \in {"POST_OK", "POST_OK_NO_DATA"}
    BY <1>7 DEF post
  <2>3. step' = "READING_DATA" => Posted
    BY <1>7, <2>2, Reading DEF post, Told
  <2> QED BY <1>1, <1>4, <2>1, <2>2, <2>3 DEF HTTPInv, Carried, Backed, SuccessWasPosted
<1>8. CASE readResponse
  <2>1. /\ Read /\ step = "READING_DATA" /\ step' \in {"READING_DATA", "DECODING_DATA"}
        /\ UNCHANGED <<success, reply>> /\ text' \in {text, NoReply, NextLine}
        /\ step' = "DECODING_DATA" => text' # text \/ text' \in {NoReply, NextLine}
    BY <1>8 DEF readResponse
  <2>2. Posted
    BY <2>1 DEF HTTPInv, Backed
  <2>3. step' = "DECODING_DATA" => text'.of \in {session, Garbled}
    <3>1. NextLine.of \in {session, Garbled} /\ NoReply.of = Garbled
      BY <2>1, Reading DEF Told, NoReply, Line, Garbled
    <3> QED BY <2>1, <3>1
  <2> QED BY <1>1, <1>4, <2>1, <2>2, <2>3 DEF HTTPInv, Carried, Backed, SuccessWasPosted
<1>9. CASE decode
  <2>1. /\ step = "DECODING_DATA" /\ UNCHANGED <<watingForResponse, text>>
        /\ step' \in {"READING_DATA", "DeactivatePDP"} /\ reply' \in {reply, text}
    BY <1>9 DEF decode, statics
  <2>2. Posted /\ {reply.of, text.of} \subseteq {session, Garbled}
    BY <2>1 DEF HTTPInv, Backed, Carried
  <2> QED BY <1>1, <1>4, <2>1, <2>2 DEF HTTPInv, Carried, Backed, SuccessWasPosted, Posted
<1>10. CASE deactivatePDP
  <2>1. /\ step = "DeactivatePDP" /\ UNCHANGED <<success, watingForResponse, text, reply>>
        /\ step' \in {"DeactivatePDP", "TransceiverUnavailable"}
    BY <1>10 DEF deactivatePDP, End, statics
  <2> QED BY <1>1, <1>4, <2>1 DEF HTTPInv, Carried, Backed, SuccessWasPosted
<1> QED BY <1>5, <1>6, <1>7, <1>8, <1>9, <1>10

LEMMA TimeoutStep ==
    HTTPInv /\ clean /\ (configureTimesOut \/ postTimesOut \/ deactivateTimesOut) => HTTPInv'
<1> SUFFICES ASSUME HTTPInv, clean, configureTimesOut \/ postTimesOut \/ deactivateTimesOut
             PROVE  HTTPInv'
  OBVIOUS
<1> USE DEF NewStep, NewObject
<1>1. UNCHANGED <<session, stored, posts, clean, inputs, lines, watingForResponse, text, reply>>
  BY DEF configureTimesOut, postTimesOut, deactivateTimesOut, modem, statics
<1>2. Posted' = Posted /\ inputs' \in Seq(Asked') /\ lines' \in Seq(Told')
  BY <1>1, Dialogue
<1>3. \/ step' = step /\ UNCHANGED success
      \/ step' = "TransceiverUnavailable"
      \/ step' = "DeactivatePDP" /\ success' = watingForResponse
  BY DEF configureTimesOut, postTimesOut, deactivateTimesOut, End
<1> QED BY <1>1, <1>2, <1>3 DEF HTTPInv, Carried, Backed, SuccessWasPosted, Posted

-----------------------------------------------------------------------------
(* What the modem says is true of this exchange when it is. *)
LEMMA Saying ==
    ASSUME NEW T, lines \in Seq(T), NEW answer \in Seq(T), Say(answer), HTTPAssumption
    PROVE  lines' \in Seq(T)
<1> DEFINE all == lines \o answer
           n == IF Len(all) < MaxLines THEN Len(all) ELSE MaxLines
<1>1. all \in Seq(T) /\ n \in 0 .. Len(all)
  BY DEF HTTPAssumption
<1>2. lines' = SubSeq(all, 1, n)
  BY DEF Say
<1> HIDE DEF all, n
<1>3. SubSeq(all, 1, n) \in Seq(T)
  BY <1>1
<1> QED BY <1>2, <1>3

(* The answers that are no response. *)
LEMMA PlainOf ==
    ASSUME NEW T, NEW whats, NEW n \in Nat, DOMAIN whats = 1 .. n,
           \A i \in 1 .. n : Line(whats[i], 0) \in T
    PROVE  Plain(whats) \in Seq(T)
<1>1. Plain(whats) = [i \in 1 .. n |-> Line(whats[i], 0)]
  BY Zenon DEF Plain
<1>2. [i \in 1 .. n |-> Line(whats[i], 0)] \in Seq(T)
  OBVIOUS
<1> QED BY <1>1, <1>2

LEMMA PlainSeq ==
    ASSUME NEW T
    PROVE  /\ \A w : Line(w, 0) \in T => Plain(<<w>>) \in Seq(T)
           /\ \A w, x : {Line(w, 0), Line(x, 0)} \subseteq T => Plain(<<w, x>>) \in Seq(T)
<1>1. ASSUME NEW w, Line(w, 0) \in T PROVE Plain(<<w>>) \in Seq(T)
  <2>1. DOMAIN <<w>> = 1 .. 1 /\ \A i \in 1 .. 1 : Line(<<w>>[i], 0) \in T
    BY <1>1
  <2> QED BY <2>1, PlainOf
<1>2. ASSUME NEW w, NEW x, {Line(w, 0), Line(x, 0)} \subseteq T PROVE Plain(<<w, x>>) \in Seq(T)
  <2>1. DOMAIN <<w, x>> = 1 .. 2 /\ \A i \in 1 .. 2 : Line(<<w, x>>[i], 0) \in T
    BY <1>2
  <2> QED BY <2>1, PlainOf
<1> QED BY <1>1, <1>2

LEMMA PlainTold ==
    /\ Plain(<<"OK">>) \in Seq(Told) /\ Plain(<<"ERROR">>) \in Seq(Told)
    /\ Plain(<<"CONNECT">>) \in Seq(Told)
    /\ Plain(<<"INFORMATION", "OK">>) \in Seq(Told)
    /\ Plain(<<"OK", "POST_FAILURE">>) \in Seq(Told)
    /\ Posted => \A result \in {"POST_OK", "POST_OK_NO_DATA"} :
                    Plain(<<"OK", result>>) \in Seq(Told)
<1>1. \A w \in {"OK", "ERROR", "CONNECT", "INFORMATION", "POST_FAILURE"} : Line(w, 0) \in Told
  BY DEF Line, Told, LineNames, Garbled
<1>2. Posted => \A w \in {"POST_OK", "POST_OK_NO_DATA"} : Line(w, 0) \in Told
  BY DEF Line, Told, LineNames, Garbled
<1> QED BY <1>1, <1>2, PlainSeq

LEMMA PlainToldNext ==
    ASSUME Posted'
    PROVE  \A result \in {"POST_OK", "POST_OK_NO_DATA"} : Plain(<<"OK", result>>) \in Seq(Told')
<1>1. \A w \in {"OK", "POST_OK", "POST_OK_NO_DATA"} : Line(w, 0) \in Told'
  BY DEF Line, Told, LineNames, Garbled
<1> QED BY <1>1, PlainSeq

LEMMA ModemStep == HTTPInv /\ clean /\ modemAnswers => HTTPInv'
<1> SUFFICES ASSUME HTTPInv, clean, modemAnswers PROVE HTTPInv'
  OBVIOUS
<1>1. /\ UNCHANGED <<session, step, success, watingForResponse, text, reply, clean>>
      /\ inputs # <<>> /\ inputs' = Tail(inputs)
  BY DEF modemAnswers, object, statics
<1> DEFINE input == Head(inputs)
<1>2. inputs \in Seq(Asked) /\ lines \in Seq(Told)
  BY DEF HTTPInv, Carried
<1>3. input \in Asked /\ inputs' \in Seq(Asked)
  BY <1>1, <1>2
<1>4. takeData(input) \/ takeCommand(input)
  BY DEF modemAnswers
<1> HIDE DEF input
<1>5. /\ posts \subseteq posts'
      /\ Posted => Posted'
      /\ \E answer \in Seq(Told') : Say(answer)
  <2>1. CASE takeData(input)
    <3>1. input.of = session
      BY <1>3 DEF Asked
    <3>2. CASE /\ UNCHANGED <<stored, posts>>
               /\ Say(Plain(<<"OK">>)) \/ Say(Plain(<<"OK", "POST_FAILURE">>))
      <4>1. Told' = Told /\ Posted' = Posted
        BY <1>1, <3>2 DEF Told, Posted
      <4> QED BY <3>2, <4>1, PlainTold
    <3>3. CASE \E result \in {"POST_OK", "POST_OK_NO_DATA"} :
                 /\ Say(Plain(<<"OK", result>>))
                 /\ stored' \in {session, Garbled} /\ posts' = posts \union {session}
      <4>1. Posted'
        BY <1>1, <3>3 DEF Posted, Garbled
      <4>2. \A result \in {"POST_OK", "POST_OK_NO_DATA"} : Plain(<<"OK", result>>) \in Seq(Told')
        BY <4>1, PlainToldNext
      <4> QED BY <3>3, <4>1, <4>2
    <3> QED BY <2>1, <3>1, <3>2, <3>3 DEF takeData
  <2>2. CASE takeCommand(input)
    <3>1. UNCHANGED <<stored, posts>>
      BY <2>2 DEF takeCommand
    <3>2. Told' = Told /\ Posted' = Posted
      BY <1>1, <3>1 DEF Told, Posted
    <3>3. \E answer \in Seq(Told) : Say(answer)
      <4>1. CASE /\ input.what = "POST_READ"
                 /\ Say(<<Line("CONNECT", 0), Line("RESPONSE", stored), Line("OK", 0)>>)
        <5>1. Posted
          BY <1>3, <4>1 DEF Asked
        <5>2. {Line("CONNECT", 0), Line("RESPONSE", stored), Line("OK", 0)} \subseteq Told
          BY <5>1 DEF Line, Told, LineNames, Posted, Garbled
        <5>3. <<Line("CONNECT", 0), Line("RESPONSE", stored), Line("OK", 0)>> \in Seq(Told)
          BY <5>2
        <5> QED BY <4>1, <5>3
      <4>2. CASE \/ Say(Plain(<<"ERROR">>)) \/ Say(Plain(<<"OK">>))
                 \/ Say(Plain(<<"INFORMATION", "OK">>)) \/ Say(Plain(<<"CONNECT">>))
        BY <4>2, PlainTold
      <4> QED BY <2>2, <4>1, <4>2 DEF takeCommand
    <3> QED BY <3>1, <3>2, <3>3
  <2> QED BY <1>4, <2>1, <2>2
<1>6. inputs' \in Seq(Asked') /\ lines' \in Seq(Told')
  <2>1. Asked \subseteq Asked' /\ Told \subseteq Told'
    BY <1>1, <1>5, Wider
  <2>2. inputs' \in Seq(Asked') /\ lines \in Seq(Told')
    BY <1>2, <1>3, <2>1, WiderSeq
  <2> QED BY <1>5, <2>2, Saying, HTTPAssumption
<1>7. SuccessWasPosted'
  <2>1. UNCHANGED <<session, step, success>> /\ posts \subseteq posts'
    BY <1>1, <1>5
  <2>2. SuccessWasPosted /\ clean
    BY DEF HTTPInv
  <2>3. session \in posts => session' \in posts'
    BY <2>1
  <2> QED BY <2>1, <2>2, <2>3, Zenon DEF SuccessWasPosted
<1>8. Backed'
  <2>1. UNCHANGED <<step, watingForResponse>> /\ (Posted => Posted')
    BY <1>1, <1>5
  <2>2. Backed /\ clean
    BY DEF HTTPInv
  <2> QED BY <2>1, <2>2, Zenon DEF Backed
<1> QED BY <1>1, <1>6, <1>7, <1>8 DEF HTTPInv, Carried

LEMMA HTTPStep == HTTPInv /\ [Next]_vars => HTTPInv'
<1> SUFFICES ASSUME HTTPInv, [Next]_vars PROVE HTTPInv'
  OBVIOUS
<1>1. CASE UNCHANGED vars
  <2>1. /\ UNCHANGED <<session, step, success, watingForResponse, text, reply, clean>>
        /\ UNCHANGED <<inputs, lines, stored, posts>>
    BY <1>1 DEF vars, object, statics, modem
  <2> QED BY <2>1 DEF HTTPInv, Carried, Backed, SuccessWasPosted, Posted, Asked, Told
<1>2. CASE enableTransceiver
  BY <1>2, EnableStep
<1>3. CASE Next /\ ~enableTransceiver /\ ~clean
  <2>1. UNCHANGED clean
    BY <1>3 DEF Next, sendCommand, configure, setUrl, post, readResponse, decode, deactivatePDP,
                configureTimesOut, postTimesOut, deactivateTimesOut, modemAnswers
  <2> QED BY <1>3, <2>1 DEF HTTPInv, Carried, Backed, SuccessWasPosted
<1>4. CASE Next /\ ~enableTransceiver /\ clean
  BY <1>4, SendStep, ReadStep, TimeoutStep, ModemStep DEF Next
<1> QED BY <1>1, <1>2, <1>3, <1>4

-----------------------------------------------------------------------------
(* Type correctness, part by part. *)
Bound(s) == IF s \in ConfigureNames THEN ConfigAttempts ELSE PostAttempts

Counted == step \in Steps /\ attempts \in 0 .. Bound(step) - 1

Numbered == session \in (IF step = "TransceiverUnavailable" THEN 0 ELSE 1) .. MaxSessions

Flags == /\ readyToSend \in BOOLEAN /\ success \in BOOLEAN
         /\ watingForResponse \in BOOLEAN /\ urlSet \in BOOLEAN /\ clean \in BOOLEAN
         /\ dataLen \in {"some", "none"}
         /\ outcome \in {"NONE", "TRYNING_TO_SEND", "SEND_OK", "UNAVAIBLE_TO_SEND",
                         "FAIL_TO_ACTIVATE_PDP"}

Buffers == /\ inputs \in Seq(Inputs) /\ Len(inputs) <= MaxInputs
           /\ lines \in Seq(Lines) /\ Len(lines) <= MaxLines
           /\ text \in Lines /\ reply \in Lines

Server == /\ asks \in {"nothing", "URL", "MESSAGE"} /\ stored \in -1 .. MaxSessions
          /\ posts \subseteq 1 .. session

LEMMA TypeParts == TypeOK <=> Counted /\ Numbered /\ Flags /\ Buffers /\ Server
  BY Zenon DEF TypeOK, Counted, Bound, Numbered, Flags, Buffers, Server

LEMMA Bounds ==
    /\ \A s : Bound(s) \in Nat \ {0}
    /\ \A s \in PostNames \union {"TransceiverUnavailable", "DeactivatePDP"} :
          s \in Steps /\ s \notin ConfigureNames /\ Bound(s) = PostAttempts
    /\ \A s \in ConfigureNames : s \in Steps /\ Bound(s) = ConfigAttempts
<1>1. \A s \in PostNames \union {"TransceiverUnavailable", "DeactivatePDP"} : s \notin ConfigureNames
  BY ConfigureNamesAre DEF PostNames
<1> QED BY <1>1, HTTPAssumption DEF Bound, Steps

LEMMA TypeInit == Init => TypeOK
<1> SUFFICES ASSUME Init PROVE TypeOK
  OBVIOUS
<1>1. /\ session = 0 /\ step = "TransceiverUnavailable" /\ attempts = 0
      /\ text = NoReply /\ reply = NoReply /\ inputs = <<>> /\ lines = <<>>
      /\ asks = "nothing" /\ stored = -1 /\ posts = {}
  BY DEF Init
<1>2. Counted
  BY <1>1, Bounds DEF Counted
<1>3. Numbered /\ Server
  BY <1>1, HTTPAssumption DEF Numbered, Server
<1>4. Flags
  BY DEF Init, Flags
<1>5. Buffers
  BY <1>1, HTTPAssumption DEF Buffers, NoReply, Line, Lines
<1> QED BY <1>2, <1>3, <1>4, <1>5, TypeParts

LEMMA CountedStep == TypeOK /\ Next => Counted'
<1> SUFFICES ASSUME TypeOK, Next PROVE Counted'
  OBVIOUS
<1> USE DEF NewObject, NewStep
<1>1. Counted
  BY TypeParts
<1>2. attempts \in Nat
  BY <1>1, Bounds DEF Counted
<1>3. CASE enableTransceiver
  <2>1. step' = "ASSING_PDPCONTEXT_TO_HTTP_STACK" /\ attempts' = 0
    BY <1>3 DEF enableTransceiver
  <2>2. step' \in ConfigureNames
    BY <2>1, ConfigureNamesAre
  <2> QED BY <2>1, <2>2, Bounds DEF Counted, Bound
<1>4. CASE sendCommand \/ modemAnswers \/ deactivateTimesOut
  <2>1. UNCHANGED <<step, attempts>>
    BY <1>4 DEF sendCommand, modemAnswers, deactivateTimesOut, object
  <2> QED BY <1>1, <2>1 DEF Counted, Bound
<1>5. CASE configure
  <2>1. CASE UNCHANGED <<step, attempts>>
    BY <1>1, <2>1 DEF Counted, Bound
  <2>2. CASE step' = StepAfter(step) /\ attempts' = IF step' \in FirstSteps THEN 0 ELSE attempts
    <3>1. step \in ConfigureNames /\ step' \in ConfigureNames \union {"SETTING_URL"}
      BY <1>5, <2>2, StepsFollow DEF configure
    <3>2. CASE step' \in ConfigureNames
      <4>1. attempts \in 0 .. ConfigAttempts - 1 /\ attempts' \in {0, attempts}
        BY <1>1, <2>2, <3>1, Bounds DEF Counted
      <4> QED BY <3>2, <4>1, Bounds, HTTPAssumption DEF Counted, Bound
    <3>3. CASE step' = "SETTING_URL"
      <4>1. attempts' = 0
        BY <2>2, <3>3 DEF FirstSteps
      <4> QED BY <3>3, <4>1, Bounds, HTTPAssumption DEF Counted, Bound, PostNames
    <3> QED BY <3>1, <3>2, <3>3
  <2> QED BY <1>5, <2>1, <2>2 DEF configure
<1>6. CASE setUrl \/ post \/ readResponse \/ decode \/ deactivatePDP
  <2>1. /\ step \in PostNames \union {"DeactivatePDP"}
        /\ step' \in PostNames \union {"TransceiverUnavailable", "DeactivatePDP"}
        /\ attempts' \in {0, 1, attempts}
    BY <1>6 DEF setUrl, post, readResponse, decode, deactivatePDP, End, PostNames
  <2>2. Bound(step) = PostAttempts
    BY <2>1, Bounds
  <2>3. attempts' \in 0 .. PostAttempts - 1
    BY <1>1, <2>1, <2>2, HTTPAssumption DEF Counted
  <2>4. step' \in Steps /\ Bound(step') = PostAttempts
    BY <2>1, Bounds
  <2> QED BY <2>3, <2>4 DEF Counted, Bound
<1>7. CASE configureTimesOut
  <2>1. \/ attempts + 1 < ConfigAttempts /\ attempts' = attempts + 1 /\ step' = step
        \/ step' = "TransceiverUnavailable" /\ attempts' = 0
    BY <1>2, <1>7, HTTPAssumption DEF configureTimesOut, End
  <2>2. step \in ConfigureNames /\ step \in Steps
    BY <1>1, <1>7 DEF configureTimesOut, Counted
  <2> QED BY <1>2, <2>1, <2>2, Bounds, HTTPAssumption DEF Counted, Bound
<1>8. CASE postTimesOut
  <2>1. \/ attempts + 1 < PostAttempts /\ attempts' = attempts + 1 /\ step' = step
        \/ step' = "DeactivatePDP" /\ attempts' = 0
    BY <1>2, <1>8, HTTPAssumption DEF postTimesOut
  <2>2. step \in PostNames
    BY <1>8 DEF postTimesOut
  <2> QED BY <1>2, <2>1, <2>2, Bounds, HTTPAssumption DEF Counted, Bound
<1> QED BY <1>3, <1>4, <1>5, <1>6, <1>7, <1>8 DEF Next

LEMMA NumberedStep == TypeOK /\ Next => Numbered'
<1> SUFFICES ASSUME TypeOK, Next PROVE Numbered'
  OBVIOUS
<1>1. Numbered
  BY TypeParts
<1>2. CASE enableTransceiver
  <2>1. session' = session + 1 /\ session < MaxSessions /\ session \in 0 .. MaxSessions
    BY <1>1, <1>2, HTTPAssumption DEF enableTransceiver, Numbered
  <2> QED BY <2>1, HTTPAssumption DEF Numbered
<1>3. CASE ~enableTransceiver
  <2>1. session' = session /\ (step' # "TransceiverUnavailable" => step # "TransceiverUnavailable")
    BY <1>3, ConfigureNamesAre
       DEF Next, sendCommand, configure, setUrl, post, readResponse, decode, deactivatePDP,
           configureTimesOut, postTimesOut, deactivateTimesOut, modemAnswers, object,
           NewObject, NewStep, End, PostNames
  <2>2. 0 .. MaxSessions = {0} \union 1 .. MaxSessions
    BY HTTPAssumption
  <2> QED BY <1>1, <2>1, <2>2 DEF Numbered
<1> QED BY <1>2, <1>3

LEMMA FlagsStep == TypeOK /\ Next => Flags'
<1> SUFFICES ASSUME TypeOK, Next PROVE Flags'
  OBVIOUS
<1>1. Flags
  BY TypeParts
<1>2. readyToSend' \in {readyToSend, TRUE, FALSE}
  BY DEF Next, enableTransceiver, sendCommand, configure, setUrl, post, readResponse, decode,
         deactivatePDP, configureTimesOut, postTimesOut, deactivateTimesOut, modemAnswers, object,
         NewObject, NewStep, End
<1>3. success' \in {success, TRUE, watingForResponse}
  BY DEF Next, enableTransceiver, sendCommand, configure, setUrl, post, readResponse, decode,
         deactivatePDP, configureTimesOut, postTimesOut, deactivateTimesOut, modemAnswers, object
<1>4. watingForResponse' \in BOOLEAN
  <2>1. \/ watingForResponse' = watingForResponse \/ watingForResponse' = FALSE
        \/ watingForResponse' = (NextLine.what = "CONNECT")
    BY DEF Next, enableTransceiver, sendCommand, configure, setUrl, post, readResponse, decode,
           deactivatePDP, configureTimesOut, postTimesOut, deactivateTimesOut, modemAnswers, statics
  <2> QED BY <1>1, <2>1 DEF Flags
<1>5. urlSet' \in {urlSet, TRUE, FALSE} /\ dataLen' \in {dataLen, "some", "none"}
  BY DEF Next, enableTransceiver, sendCommand, configure, setUrl, post, readResponse, decode,
         deactivatePDP, configureTimesOut, postTimesOut, deactivateTimesOut, modemAnswers, statics
<1>6. clean' \in BOOLEAN
  <2>1. CASE enableTransceiver
    BY <2>1 DEF enableTransceiver
  <2>2. CASE ~enableTransceiver
    <3>1. UNCHANGED clean
      BY <2>2 DEF Next, sendCommand, configure, setUrl, post, readResponse, decode, deactivatePDP,
                  configureTimesOut, postTimesOut, deactivateTimesOut, modemAnswers
    <3> QED BY <1>1, <3>1 DEF Flags
  <2> QED BY <2>1, <2>2
<1>7. outcome' \in {outcome, "TRYNING_TO_SEND", "SEND_OK", "UNAVAIBLE_TO_SEND",
                    "FAIL_TO_ACTIVATE_PDP"}
  BY DEF Next, enableTransceiver, sendCommand, configure, setUrl, post, readResponse, decode,
         deactivatePDP, configureTimesOut, postTimesOut, deactivateTimesOut, modemAnswers, End
<1> QED BY <1>1, <1>2, <1>3, <1>4, <1>5, <1>6, <1>7, ZenonT(30) DEF Flags

LEMMA TailTyped ==
    ASSUME NEW S, NEW s \in Seq(S), s # <<>>
    PROVE  Tail(s) \in Seq(S) /\ Len(Tail(s)) = Len(s) - 1 /\ Len(s) \in Nat
<1>1. Len(s) \in Nat
  OBVIOUS
<1>2. Len(s) # 0
  OBVIOUS
<1>3. Tail(s) \in Seq(S)
  OBVIOUS
<1>4. Len(Tail(s)) = Len(s) - 1
  BY <1>1, <1>2
<1> QED BY <1>1, <1>3, <1>4

LEMMA InputsStep == TypeOK /\ Next => inputs' \in Seq(Inputs') /\ Len(inputs') <= MaxInputs
<1> SUFFICES ASSUME TypeOK, Next PROVE inputs' \in Seq(Inputs') /\ Len(inputs') <= MaxInputs
  OBVIOUS
<1>1. inputs \in Seq(Inputs) /\ Len(inputs) <= MaxInputs
  BY TypeParts DEF Buffers
<1>2. Inputs \subseteq Inputs'
  <2>1. session \in Nat /\ session' \in {session, session + 1}
    BY TypeParts, HTTPAssumption
       DEF Numbered, Next, enableTransceiver, sendCommand, configure, setUrl, post, readResponse,
           decode, deactivatePDP, configureTimesOut, postTimesOut, deactivateTimesOut, modemAnswers
  <2>2. 1 .. session \subseteq 1 .. session'
    BY <2>1
  <2> QED BY <2>2 DEF Inputs
<1>3. \/ UNCHANGED inputs \/ inputs' = <<>> \/ (inputs # <<>> /\ inputs' = Tail(inputs))
      \/ /\ session' = session /\ step # "TransceiverUnavailable"
         /\ \E what \in InputNames : Send(what)
  <2>1. CASE sendCommand
    <3>1. /\ session' = session /\ step # "TransceiverUnavailable" /\ Send(Command(step))
      BY <2>1 DEF sendCommand
    <3>2. Command(step) \in InputNames
      BY DEF Command, InputNames
    <3> QED BY <3>1, <3>2
  <2>2. CASE setUrl \/ post
    <3>1. /\ session' = session /\ step # "TransceiverUnavailable"
          /\ UNCHANGED inputs \/ Send("URL") \/ Send("MESSAGE")
      BY <2>2 DEF setUrl, post
    <3>2. {"URL", "MESSAGE"} \subseteq InputNames
      BY DEF InputNames
    <3> QED BY <3>1, <3>2
  <2>3. CASE ~(sendCommand \/ setUrl \/ post)
    BY <2>3 DEF Next, enableTransceiver, configure, readResponse, decode, deactivatePDP,
                configureTimesOut, postTimesOut, deactivateTimesOut, modemAnswers, modem
  <2> QED BY <2>1, <2>2, <2>3
<1>4. inputs' \in Seq(Inputs) /\ Len(inputs') <= MaxInputs
  <2>1. CASE UNCHANGED inputs \/ inputs' = <<>>
    <3>1. CASE inputs' = inputs
      BY <1>1, <3>1
    <3>2. CASE inputs' = <<>>
      <4>1. <<>> \in Seq(Inputs) /\ Len(<<>>) = 0 /\ 0 <= MaxInputs
        BY HTTPAssumption
      <4> QED BY <3>2, <4>1
    <3> QED BY <2>1, <3>1, <3>2
  <2>2. CASE inputs # <<>> /\ inputs' = Tail(inputs)
    <3>1. inputs' \in Seq(Inputs) /\ Len(inputs') = Len(inputs) - 1 /\ Len(inputs) \in Nat
      BY <1>1, <2>2, TailTyped
    <3> QED BY <1>1, <3>1, HTTPAssumption
  <2>3. ASSUME session' = session, step # "TransceiverUnavailable",
               NEW what \in InputNames, Send(what)
        PROVE  inputs' \in Seq(Inputs) /\ Len(inputs') <= MaxInputs
    <3>1. session \in 1 .. session
      BY <2>3, TypeParts, HTTPAssumption DEF Numbered
    <3>2. Line(what, session) \in Inputs
      BY <3>1 DEF Line, Inputs, InputNames
    <3>3. CASE inputs' = inputs
      BY <1>1, <3>3
    <3>4. CASE Len(inputs) < MaxInputs /\ inputs' = Append(inputs, Line(what, session))
      <4>1. inputs' \in Seq(Inputs) /\ Len(inputs') = Len(inputs) + 1 /\ Len(inputs) \in Nat
        BY <1>1, <3>2, <3>4
      <4> QED BY <3>4, <4>1, HTTPAssumption
    <3> QED BY <2>3, <3>3, <3>4 DEF Send
  <2> QED BY <1>3, <2>1, <2>2, <2>3
<1> QED BY <1>2, <1>4, WiderSeq

(* What the modem can say, and no more of it than the line holds. *)
LEMMA Said ==
    ASSUME TypeOK, NEW input \in Inputs, takeData(input) \/ takeCommand(input)
    PROVE  \E answer \in Seq(Lines) : Say(answer)
<1>1. \A w \in LineNames : Line(w, 0) \in Lines
  BY HTTPAssumption DEF Line, Lines, LineNames
<1>2. \A w \in LineNames : Plain(<<w>>) \in Seq(Lines)
  BY <1>1, PlainSeq
<1>3. \A w, x \in LineNames : Plain(<<w, x>>) \in Seq(Lines)
  BY <1>1, PlainSeq
<1>4. CASE \/ \E w \in LineNames : Say(Plain(<<w>>))
           \/ \E w, x \in LineNames : Say(Plain(<<w, x>>))
  BY <1>2, <1>3, <1>4
<1>5. CASE stored # -1 /\ Say(<<Line("CONNECT", 0), Line("RESPONSE", stored), Line("OK", 0)>>)
  <2>1. stored \in 0 .. MaxSessions
    BY <1>5, TypeParts, HTTPAssumption DEF Server
  <2>2. {Line("CONNECT", 0), Line("RESPONSE", stored), Line("OK", 0)} \subseteq Lines
    BY <2>1, HTTPAssumption DEF Line, Lines
  <2>3. <<Line("CONNECT", 0), Line("RESPONSE", stored), Line("OK", 0)>> \in Seq(Lines)
    BY <2>2
  <2> QED BY <1>5, <2>3
<1> QED BY <1>4, <1>5 DEF takeData, takeCommand, LineNames

LEMMA LinesStep == TypeOK /\ Next => lines' \in Seq(Lines) /\ Len(lines') <= MaxLines
<1> SUFFICES ASSUME TypeOK, Next PROVE lines' \in Seq(Lines) /\ Len(lines') <= MaxLines
  OBVIOUS
<1>1. /\ lines \in Seq(Lines) /\ Len(lines) <= MaxLines
      /\ inputs \in Seq(Inputs)
  BY TypeParts DEF Buffers
<1>2. CASE modemAnswers
  <2> DEFINE input == Head(inputs)
  <2>1. input \in Inputs /\ (takeData(input) \/ takeCommand(input))
    BY <1>1, <1>2 DEF modemAnswers
  <2> HIDE DEF input
  <2>2. PICK answer \in Seq(Lines) : Say(answer)
    BY <2>1, Said
  <2>3. lines' \in Seq(Lines)
    BY <1>1, <2>2, Saying, HTTPAssumption
  <2>4. Len(lines') <= MaxLines
    <3> DEFINE all == lines \o answer
               n == IF Len(all) < MaxLines THEN Len(all) ELSE MaxLines
    <3>1. all \in Seq(Lines) /\ n \in 0 .. Len(all) /\ n <= MaxLines
      BY <1>1, HTTPAssumption
    <3>2. lines' = SubSeq(all, 1, n)
      BY <2>2 DEF Say
    <3> HIDE DEF all, n
    <3>3. Len(SubSeq(all, 1, n)) = n
      BY <3>1
    <3> QED BY <3>1, <3>2, <3>3
  <2> QED BY <2>3, <2>4
<1>3. CASE ~modemAnswers
  <2>1. UNCHANGED lines \/ lines' = <<>> \/ (lines # <<>> /\ lines' = Tail(lines))
    BY <1>3 DEF Next, enableTransceiver, sendCommand, configure, setUrl, post, readResponse, decode,
                deactivatePDP, Read, configureTimesOut, postTimesOut, deactivateTimesOut, modem
  <2>2. CASE lines # <<>> /\ lines' = Tail(lines)
    <3>1. lines' \in Seq(Lines) /\ Len(lines') = Len(lines) - 1 /\ Len(lines) \in Nat
      BY <1>1, <2>2, TailTyped
    <3> QED BY <1>1, <3>1, HTTPAssumption
  <2>3. CASE UNCHANGED lines \/ lines' = <<>>
    <3>1. CASE lines' = lines
      BY <1>1, <3>1
    <3>2. CASE lines' = <<>>
      <4>1. <<>> \in Seq(Lines) /\ Len(<<>>) = 0 /\ 0 <= MaxLines
        BY HTTPAssumption
      <4> QED BY <3>2, <4>1
    <3> QED BY <2>3, <3>1, <3>2
  <2> QED BY <2>1, <2>2, <2>3
<1> QED BY <1>2, <1>3

LEMMA BuffersStep == TypeOK /\ Next => Buffers'
<1> SUFFICES ASSUME TypeOK, Next PROVE Buffers'
  OBVIOUS
<1>1. text \in Lines /\ reply \in Lines /\ lines \in Seq(Lines)
  BY TypeParts DEF Buffers
<1>2. NoReply \in Lines
  BY HTTPAssumption DEF NoReply, Line, Lines
<1>3. text' \in {text, NoReply} \/ (lines # <<>> /\ text' = Head(lines))
  BY DEF Next, enableTransceiver, sendCommand, configure, setUrl, post, readResponse, decode,
         deactivatePDP, Read, NextLine, configureTimesOut, postTimesOut, deactivateTimesOut,
         modemAnswers, statics
<1>4. reply' \in {reply, NoReply, text}
  BY DEF Next, enableTransceiver, sendCommand, configure, setUrl, post, readResponse, decode,
         deactivatePDP, configureTimesOut, postTimesOut, deactivateTimesOut, modemAnswers
<1>5. text' \in Lines /\ reply' \in Lines
  BY <1>1, <1>2, <1>3, <1>4
<1> QED BY <1>5, InputsStep, LinesStep DEF Buffers, Lines

LEMMA ServerStep == TypeOK /\ Next => Server'
<1> SUFFICES ASSUME TypeOK, Next PROVE Server'
  OBVIOUS
<1>1. /\ Server /\ session \in 0 .. MaxSessions /\ inputs \in Seq(Inputs)
  BY TypeParts, HTTPAssumption DEF Buffers, Numbered
<1>2. CASE enableTransceiver
  <2>1. /\ session' = session + 1 /\ UNCHANGED posts
        /\ asks' \in {asks, "nothing"} /\ stored' \in {stored, -1}
    BY <1>2 DEF enableTransceiver, modem
  <2>2. 1 .. session \subseteq 1 .. session' /\ -1 \in -1 .. MaxSessions
    BY <1>1, <2>1, HTTPAssumption
  <2> QED BY <1>1, <2>1, <2>2 DEF Server
<1>3. CASE modemAnswers
  <2> DEFINE input == Head(inputs)
  <2>1. input \in Inputs /\ (takeData(input) \/ takeCommand(input)) /\ session' = session
    BY <1>1, <1>3 DEF modemAnswers
  <2> HIDE DEF input
  <2>2. input.of \in 1 .. session
    BY <2>1 DEF Inputs
  <2>3. asks' \in {asks, "nothing", "URL", "MESSAGE"} /\ stored' \in {stored, input.of, Garbled}
        /\ posts' \in {posts, posts \union {input.of}}
    BY <2>1 DEF takeData, takeCommand
  <2>4. {input.of, Garbled} \subseteq -1 .. MaxSessions
    BY <1>1, <2>2, HTTPAssumption DEF Garbled
  <2> QED BY <1>1, <2>1, <2>2, <2>3, <2>4 DEF Server
<1>4. CASE ~enableTransceiver /\ ~modemAnswers
  <2>1. UNCHANGED <<session, asks, stored, posts>>
    BY <1>4 DEF Next, sendCommand, configure, setUrl, post, readResponse, decode, deactivatePDP,
                configureTimesOut, postTimesOut, deactivateTimesOut, modem
  <2> QED BY <1>1, <2>1 DEF Server
<1> QED BY <1>2, <1>3, <1>4

LEMMA TypeStep == TypeOK /\ [Next]_vars => TypeOK'
<1> SUFFICES ASSUME TypeOK, [Next]_vars PROVE TypeOK'
  OBVIOUS
<1>1. CASE UNCHANGED vars
  BY <1>1 DEF vars, object, statics, modem, TypeOK, Inputs
<1>2. CASE Next
  <2>1. Counted' /\ Numbered' /\ Flags' /\ Buffers' /\ Server'
    BY <1>2, CountedStep, NumberedStep, FlagsStep, BuffersStep, ServerStep
  <2> QED BY <2>1, Zenon DEF TypeOK, Counted, Bound, Numbered, Flags, Buffers, Server
<1> QED BY <1>1, <1>2

(* Type correctness: no state overruns its attempts, and neither the modem   *)
(* nor the line its buffer.                                                  *)
THEOREM HTTPTypes == Spec => []TypeOK
<1> QED BY TypeInit, TypeStep, PTL DEF Spec

-----------------------------------------------------------------------------
(* HTTPInv holds in every state. *)
THEOREM HTTPInvariant == Spec => []HTTPInv
<1> QED BY HTTPInit, HTTPStep, PTL DEF Spec

(* PostHTTP hands DeactivatePDP a success only for a message whose POST the  *)
(* server answered, if the exchange found nothing left over.                 *)
THEOREM SuccessIsPosted == Spec => []SuccessWasPosted
<1>1. HTTPInv => SuccessWasPosted
  BY DEF HTTPInv
<1> QED BY <1>1, HTTPInvariant, PTL

(* The response decodeTransmission() takes is the one to this exchange's     *)
(* POST, or to one whose data were not a message.                            *)
THEOREM ReplyBelongs == Spec => []ReplyIsOwn
<1>1. HTTPInv => ReplyIsOwn
  BY DEF HTTPInv, Carried, ReplyIsOwn
<1> QED BY <1>1, HTTPInvariant, PTL
=============================================================================
