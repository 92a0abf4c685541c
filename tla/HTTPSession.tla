----------------------------- MODULE HTTPSession -----------------------------
(***************************************************************************)
(* The exchange of a message with the server: the transceiver states that  *)
(* CellularModule::exchangeMessages() calls, from ConfigurePDPForHTTP over *)
(* ConfigureSSL and PostHTTP to DeactivatePDP.  Each of them sends an AT   *)
(* command and waits for a line; a time-out sends the command again.       *)
(* Nothing ties a line to the command it answers: the lines of the modem   *)
(* arrive in order, late, or not at all, and whichever state is current    *)
(* reads them.                                                             *)
(*                                                                         *)
(* One action is what one call does with one event: its first pass (the    *)
(* command), a line, or a time-out.  The modem is the environment: it      *)
(* takes what it is sent in order and may stop at any time.                *)
(***************************************************************************)
EXTENDS Integers, Sequences, SequencesExt

CONSTANTS
    MaxSessions,     \* bound on the number of exchanges
    ConfigAttempts,  \* time-outs the configuring states allow themselves (20)
    PostAttempts,    \* time-outs PostHTTP allows itself (5)
    MaxInputs,       \* bound on what the modem holds unanswered
    MaxLines         \* bound on the lines the serial buffer holds

ASSUME HTTPAssumption ==
    /\ MaxSessions \in Nat \ {0}
    /\ ConfigAttempts \in Nat \ {0} /\ PostAttempts \in Nat \ {0, 1}
    /\ MaxInputs \in Nat \ {0} /\ MaxLines \in Nat \ {0}

-----------------------------------------------------------------------------
(* The steps of the configuring states, in order; all of one state's steps   *)
(* share its attempts.                                                       *)
ConfigureSteps ==
    <<"ASSING_PDPCONTEXT_TO_HTTP_STACK", "CONFIGURING_PDP_PROFILE",
      "ACTIVATING_PDP_CONTEXT", "QUERING_PDP_CONTEXT", "CONFIGURING_SERVER_DNS",
      "SETTING_SSL_CONTEXT", "SETTING_SSL_VERSION", "SETTING_SSL_LEVEL">>

ConfigureNames == Range(ConfigureSteps)
PostNames == {"SETTING_URL", "POSTING_DATA", "READING_DATA", "DECODING_DATA"}
Steps == ConfigureNames \union PostNames \union {"TransceiverUnavailable", "DeactivatePDP"}

StepAfter(s) ==
    LET i == CHOOSE n \in DOMAIN ConfigureSteps : ConfigureSteps[n] = s
    IN  IF i = Len(ConfigureSteps) THEN "SETTING_URL" ELSE ConfigureSteps[i + 1]

(* The steps at which a new state object starts to count. *)
FirstSteps == {"SETTING_SSL_CONTEXT", "SETTING_URL"}

(* What goes over the line.  "of" is the exchange it belongs to.             *)
Garbled == 0        \* a POST whose data were not a message
Line(what, of) == [what |-> what, of |-> of]
NoReply == Line("NONE", 0)

Command(s) == CASE s = "SETTING_URL"         -> "POST_SET_URL"
                [] s = "POSTING_DATA"        -> "POST"
                [] s = "READING_DATA"        -> "POST_READ"
                [] s = "QUERING_PDP_CONTEXT" -> "QUERY"
                [] OTHER                     -> "CONFIGURE"

VARIABLES
    session,        \* number of the exchange in progress, or the last one
    step,           \* the state object and its currentStatus
    readyToSend, attempts,
    success,        \* transmissionWasASuccess of DeactivatePDP
    watingForResponse, urlSet, dataLen, text,  \* static variables of PostHTTP
    reply,          \* receivedMessage, NoReply when newDataAvailable is false
    outcome         \* what exchangeMessages() returned last

(* The modem, and what properties look at. *)
VARIABLES
    inputs,         \* what the modem has been sent and not yet taken
    asks,           \* the data it waits for after a CONNECT
    stored,         \* the exchange its last response belongs to, -1 for none
    lines,          \* lines on their way to the tracker
    posts,          \* the exchanges whose data the server answered
    clean           \* this exchange found nothing left over by another

statics == <<watingForResponse, urlSet, dataLen, text>>
object == <<step, readyToSend, attempts, success>>
modem == <<inputs, asks, stored, lines>>
vars == <<session, object, statics, reply, outcome, modem, posts, clean>>

Init ==
    /\ session = 0 /\ step = "TransceiverUnavailable"
    /\ readyToSend = TRUE /\ attempts = 0 /\ success = FALSE
    /\ watingForResponse = FALSE /\ urlSet = FALSE /\ dataLen = "some" /\ text = NoReply
    /\ reply = NoReply /\ outcome = "NONE"
    /\ inputs = <<>> /\ asks = "nothing" /\ stored = -1 /\ lines = <<>>
    /\ posts = {} /\ clean = TRUE

-----------------------------------------------------------------------------
(* A full buffer takes no more. *)
Send(what) ==
    inputs' = IF Len(inputs) < MaxInputs THEN Append(inputs, Line(what, session)) ELSE inputs

NewStep(s) == step' = s /\ readyToSend' = TRUE
NewObject(s) == NewStep(s) /\ attempts' = 0

(* Mutant: newDataAvailable is not reset when an exchange ends. *)
enableTransceiver_ReplyKept ==
    /\ step = "TransceiverUnavailable"
    /\ session < MaxSessions
    /\ session' = session + 1
    /\ NewObject("ASSING_PDPCONTEXT_TO_HTTP_STACK")
    /\ outcome' = "TRYNING_TO_SEND"
    /\ \/ UNCHANGED modem
       \/ inputs' = <<>> /\ asks' = "nothing" /\ stored' = -1 /\ lines' = <<>>
    /\ clean' = (~watingForResponse /\ ~urlSet
                 /\ inputs' = <<>> /\ asks' = "nothing" /\ lines' = <<>>)
    /\ UNCHANGED <<success, statics, reply, posts>>

(* ExchangingMessages enables the transceiver: at once for a reloaded        *)
(* report, or in a later wake-up, the modem having been off in between.      *)
enableTransceiver ==
    /\ step = "TransceiverUnavailable"
    /\ session < MaxSessions
    /\ session' = session + 1
    /\ NewObject("ASSING_PDPCONTEXT_TO_HTTP_STACK")
    /\ reply' = NoReply /\ outcome' = "TRYNING_TO_SEND"
    /\ \/ UNCHANGED modem
       \/ inputs' = <<>> /\ asks' = "nothing" /\ stored' = -1 /\ lines' = <<>>
    /\ clean' = (~watingForResponse /\ ~urlSet
                 /\ inputs' = <<>> /\ asks' = "nothing" /\ lines' = <<>>)
    /\ UNCHANGED <<success, statics, posts>>

sendCommand ==
    /\ step \notin {"TransceiverUnavailable", "DECODING_DATA"}
    /\ readyToSend
    /\ readyToSend' = FALSE
    /\ Send(Command(step))
    /\ UNCHANGED <<session, step, attempts, success, statics, reply, outcome,
                   asks, stored, lines, posts, clean>>

(* readATResponse(): a line is complete. *)
NextLine == Head(lines)

Read == ~readyToSend /\ lines # <<>> /\ lines' = Tail(lines)

(* CellularModule puts the transceiver back when an exchange ends.           *)
End(result) ==
    /\ NewObject("TransceiverUnavailable")
    /\ outcome' = result

(* ConfigurePDPForHTTP and ConfigureSSL: an OK, and for the query any line.  *)
configure ==
    /\ step \in ConfigureNames
    /\ Read
    /\ IF NextLine.what = "OK" \/ step = "QUERING_PDP_CONTEXT"
       THEN /\ NewStep(StepAfter(step))
            /\ attempts' = IF step' \in FirstSteps THEN 0 ELSE attempts
       ELSE UNCHANGED <<step, readyToSend, attempts>>
    /\ UNCHANGED <<session, success, statics, reply, outcome, inputs, asks, stored,
                   posts, clean>>

(* The timer may elapse in the call that goes on to POSTING_DATA. *)
setUrl ==
    /\ step = "SETTING_URL"
    /\ Read
    /\ IF NextLine.what = "CONNECT"
       THEN Send("URL") /\ urlSet' = TRUE /\ UNCHANGED <<step, readyToSend, attempts>>
       ELSE IF NextLine.what = "OK" /\ urlSet
       THEN /\ NewStep("POSTING_DATA") /\ attempts' \in {0, 1}
            /\ urlSet' = FALSE /\ UNCHANGED inputs
       ELSE UNCHANGED <<step, readyToSend, attempts, urlSet, inputs>>
    /\ UNCHANGED <<session, success, watingForResponse, dataLen, text, reply, outcome,
                   asks, stored, posts, clean>>

(* A result that is no success is ignored: only a time-out follows it.       *)
post ==
    /\ step = "POSTING_DATA"
    /\ Read
    /\ CASE NextLine.what = "CONNECT" ->
                Send("MESSAGE") /\ UNCHANGED <<step, readyToSend, attempts, dataLen>>
         [] NextLine.what \in {"POST_OK", "POST_OK_NO_DATA"} ->
                /\ NewObject("READING_DATA")
                /\ dataLen' = IF NextLine.what = "POST_OK" THEN "some" ELSE "none"
                /\ UNCHANGED inputs
         [] OTHER -> UNCHANGED <<step, readyToSend, attempts, dataLen, inputs>>
    /\ UNCHANGED <<session, success, watingForResponse, urlSet, text, reply, outcome,
                   asks, stored, posts, clean>>

(* After the CONNECT any line is the response, cut to the length announced,  *)
(* which is "none" also for one too long to be decoded.                      *)
readResponse ==
    /\ step = "READING_DATA"
    /\ Read
    /\ IF watingForResponse
       THEN /\ text' = IF dataLen = "none" THEN NoReply ELSE NextLine
            /\ watingForResponse' = FALSE
            /\ step' = "DECODING_DATA" /\ attempts' = 0
       ELSE /\ watingForResponse' = (NextLine.what = "CONNECT")
            /\ UNCHANGED <<step, attempts, text>>
    /\ UNCHANGED <<session, readyToSend, success, urlSet, dataLen, reply, outcome,
                   inputs, asks, stored, posts, clean>>

(* An empty or overlong response is asked for again. *)
decode ==
    /\ step = "DECODING_DATA"
    /\ IF text = NoReply
       THEN NewStep("READING_DATA") /\ UNCHANGED <<attempts, success, reply>>
       ELSE NewObject("DeactivatePDP") /\ success' = TRUE /\ reply' = text
    /\ UNCHANGED <<session, statics, outcome, modem, posts, clean>>

(* transmissionWasASuccess is read after changeTransceiverState() deleted    *)
(* the object that holds it, so the result is whatever the heap left there.  *)
deactivatePDP ==
    /\ step = "DeactivatePDP"
    /\ Read
    /\ IF NextLine.what = "OK"
       THEN \E result \in {"SEND_OK", "UNAVAIBLE_TO_SEND"} : End(result)
       ELSE UNCHANGED <<step, readyToSend, attempts, outcome>>
    /\ UNCHANGED <<session, success, statics, reply, inputs, asks, stored, posts, clean>>

-----------------------------------------------------------------------------
(* refreshTime has elapsed: the command is sent again, or the state gives up.*)

Elapsed == ~readyToSend /\ step # "DECODING_DATA" /\ step # "TransceiverUnavailable"

configureTimesOut ==
    /\ Elapsed /\ step \in ConfigureNames
    /\ IF attempts + 1 >= ConfigAttempts
       THEN End("FAIL_TO_ACTIVATE_PDP")
       ELSE readyToSend' = TRUE /\ attempts' = attempts + 1 /\ UNCHANGED <<step, outcome>>
    /\ UNCHANGED <<session, success, statics, reply, modem, posts, clean>>

(* Mutant: whatever the state waits for, giving up counts as a success. *)
postTimesOut_Success ==
    /\ Elapsed /\ step \in PostNames
    /\ IF attempts + 1 >= PostAttempts
       THEN NewObject("DeactivatePDP") /\ success' = TRUE
       ELSE readyToSend' = TRUE /\ attempts' = attempts + 1 /\ UNCHANGED <<step, success>>
    /\ UNCHANGED <<session, statics, reply, outcome, modem, posts, clean>>

(* Mutant: the attempts are not counted. *)
postTimesOut_Uncounted ==
    /\ Elapsed /\ step \in PostNames
    /\ readyToSend' = TRUE
    /\ UNCHANGED <<session, step, attempts, success, statics, reply, outcome, modem,
                   posts, clean>>

(* While it awaits the response PostHTTP takes the message for sent; it      *)
(* leaves watingForResponse as it is.                                        *)
postTimesOut ==
    /\ Elapsed /\ step \in PostNames
    /\ IF attempts + 1 >= PostAttempts
       THEN NewObject("DeactivatePDP") /\ success' = watingForResponse
       ELSE readyToSend' = TRUE /\ attempts' = attempts + 1 /\ UNCHANGED <<step, success>>
    /\ UNCHANGED <<session, statics, reply, outcome, modem, posts, clean>>

(* DeactivatePDP counts nothing. *)
deactivateTimesOut ==
    /\ Elapsed /\ step = "DeactivatePDP"
    /\ readyToSend' = TRUE
    /\ UNCHANGED <<session, step, attempts, success, statics, reply, outcome, modem,
                   posts, clean>>

-----------------------------------------------------------------------------
(* The modem takes the next thing it was sent: as the data it waits for,     *)
(* whatever it is, or as a command.                                          *)

Say(answer) ==
    LET all == lines \o answer
    IN  lines' = SubSeq(all, 1, IF Len(all) < MaxLines THEN Len(all) ELSE MaxLines)

Plain(whats) == [i \in DOMAIN whats |-> Line(whats[i], 0)]

takeData(input) ==
    /\ asks # "nothing"
    /\ asks' = "nothing"
    /\ LET message == IF input.what = "MESSAGE" THEN input.of ELSE Garbled
       IN  IF asks = "URL"
           THEN Say(Plain(<<"OK">>)) /\ UNCHANGED <<stored, posts>>
           ELSE \/ /\ \E result \in {"POST_OK", "POST_OK_NO_DATA"} : Say(Plain(<<"OK", result>>))
                   /\ stored' = message
                   /\ posts' = posts \union {input.of}
                \/ Say(Plain(<<"OK", "POST_FAILURE">>)) /\ UNCHANGED <<stored, posts>>

takeCommand(input) ==
    /\ asks = "nothing"
    /\ \/ Say(Plain(<<"ERROR">>)) /\ UNCHANGED asks
       \/ input.what = "CONFIGURE" /\ Say(Plain(<<"OK">>)) /\ UNCHANGED asks
       \/ input.what = "QUERY" /\ Say(Plain(<<"INFORMATION", "OK">>)) /\ UNCHANGED asks
       \/ input.what = "POST_SET_URL" /\ Say(Plain(<<"CONNECT">>)) /\ asks' = "URL"
       \/ input.what = "POST" /\ Say(Plain(<<"CONNECT">>)) /\ asks' = "MESSAGE"
       \/ /\ input.what = "POST_READ" /\ stored # -1
          /\ Say(<<Line("CONNECT", 0), Line("RESPONSE", stored), Line("OK", 0)>>)
          /\ UNCHANGED asks
    /\ UNCHANGED <<stored, posts>>

modemAnswers ==
    /\ inputs # <<>>
    /\ inputs' = Tail(inputs)
    /\ takeData(Head(inputs)) \/ takeCommand(Head(inputs))
    /\ UNCHANGED <<session, object, statics, reply, outcome, clean>>

-----------------------------------------------------------------------------
Next ==
    \/ enableTransceiver \/ sendCommand
    \/ configure \/ setUrl \/ post \/ readResponse \/ decode \/ deactivatePDP
    \/ configureTimesOut \/ postTimesOut \/ deactivateTimesOut
    \/ modemAnswers

Spec == Init /\ [][Next]_vars

(* update() calls the exchange for ever and its timer runs.  Nothing is owed *)
(* of the modem.                                                             *)
Fairness == /\ WF_vars(sendCommand) /\ WF_vars(decode)
            /\ WF_vars(configureTimesOut) /\ WF_vars(postTimesOut)

FairSpec == Spec /\ Fairness

-----------------------------------------------------------------------------
(* Properties *)

Lines == [what : {"OK", "ERROR", "INFORMATION", "CONNECT", "POST_OK", "POST_OK_NO_DATA",
                  "POST_FAILURE", "RESPONSE", "NONE"},
          of : 0 .. MaxSessions]

Inputs == [what : {"CONFIGURE", "QUERY", "POST_SET_URL", "URL", "POST", "MESSAGE", "POST_READ"},
           of : 1 .. session]

(* Types, with the bounds of the attempts and of the buffers of the link.    *)
TypeOK ==
    /\ session \in (IF step = "TransceiverUnavailable" THEN 0 ELSE 1) .. MaxSessions
    /\ step \in Steps
    /\ readyToSend \in BOOLEAN /\ success \in BOOLEAN
    /\ attempts \in 0 .. (IF step \in ConfigureNames THEN ConfigAttempts ELSE PostAttempts) - 1
    /\ watingForResponse \in BOOLEAN /\ urlSet \in BOOLEAN
    /\ dataLen \in {"some", "none"} /\ text \in Lines /\ reply \in Lines
    /\ outcome \in {"NONE", "TRYNING_TO_SEND", "SEND_OK", "UNAVAIBLE_TO_SEND",
                    "FAIL_TO_ACTIVATE_PDP"}
    /\ inputs \in Seq(Inputs) /\ Len(inputs) <= MaxInputs
    /\ lines \in Seq(Lines) /\ Len(lines) <= MaxLines
    /\ asks \in {"nothing", "URL", "MESSAGE"} /\ stored \in -1 .. MaxSessions
    /\ posts \subseteq 1 .. session /\ clean \in BOOLEAN

(* A success handed to DeactivatePDP means that the server answered a POST   *)
(* of this exchange, if the exchange found nothing left over by an earlier   *)
(* one, whatever was repeated or came late within it.                        *)
SuccessWasPosted ==
    clean /\ step = "DeactivatePDP" /\ success => session \in posts

(* The reply that confirms a message is the response to this message, under  *)
(* the same condition: no repeated command, late line or response stored in  *)
(* the modem lets an earlier message's response confirm this one.            *)
ReplyIsOwn == clean /\ reply.what = "RESPONSE" => reply.of \in {session, Garbled}

(* However little the modem answers, an exchange gets to DeactivatePDP or    *)
(* ends; only a response that is empty or too long can keep it from that.    *)
GivesUp ==
    step \in ConfigureNames \union PostNames ~>
        step \in {"DeactivatePDP", "TransceiverUnavailable"} \/ dataLen = "none"

=============================================================================
