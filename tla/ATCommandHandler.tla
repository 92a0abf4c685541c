-------------------------- MODULE ATCommandHandler --------------------------
(***************************************************************************)
(* The lines the modem's characters are put together to.  The handler is   *)
(* one object that takes a character in each call, whichever state calls   *)
(* it, and keeps an unfinished line for the next caller.  The dialogues    *)
(* with the modem are about whole lines; here is why they may be.          *)
(***************************************************************************)
EXTENDS Naturals, Sequences, SequencesExt, FiniteSetsExt

(* BUFFER_LEN_AT_COMMAND_HANDLER (1024) and what the string of the caller    *)
(* holds (128 or 256), small so that lines are longer.                        *)
BufferLen == 4
StringLen == 2

Terminators == {"CR", "LF"}

NewHandler == [buffer |-> <<>>, lines |-> <<>>]

(* The beginning of a line of which n characters fit. *)
Beginning(line, n) == SubSeq(line, 1, Min({Len(line), n}))

(* What either readATResponse() does with a character: "held" is how much of *)
(* a line it returns, "noRoom" what the buffer is when the character does    *)
(* not fit.  "lines" are those returned.                                     *)
Take(handler, char, held, noRoom) ==
    CASE char \in Terminators /\ handler.buffer # <<>> ->
            [buffer |-> <<>>, lines |-> Append(handler.lines, Beginning(handler.buffer, held))]
      [] char \in Terminators -> handler
      [] Len(handler.buffer) < BufferLen - 1 -> [handler EXCEPT !.buffer = Append(@, char)]
      [] OTHER -> [handler EXCEPT !.buffer = noRoom]

(* readATResponse(string) drops what does not fit ... *)
readATResponse(handler, char) == Take(handler, char, BufferLen - 1, handler.buffer)

(* ... readATResponse(string, size) drops all it has, and the character.     *)
readATResponseSized(handler, char) == Take(handler, char, StringLen, <<>>)

-----------------------------------------------------------------------------
Texts == UNION {[1 .. n -> {"a", "b", "CR", "LF"}] : n \in 0 .. 6}

(* The lines a text has: the longest runs without a terminator that have one *)
(* behind them.                                                              *)
Runs(text) ==
    {r \in (DOMAIN text) \X (DOMAIN text) :
        /\ r[1] <= r[2] /\ r[2] + 1 \in DOMAIN text /\ text[r[2] + 1] \in Terminators
        /\ \A i \in r[1] .. r[2] : text[i] \notin Terminators
        /\ r[1] = 1 \/ text[r[1] - 1] \in Terminators}

LinesOf(text) ==
    LET runs == SetToSortSeq(Runs(text), LAMBDA r, s : r[1] < s[1])
    IN  [i \in DOMAIN runs |-> SubSeq(text, runs[i][1], runs[i][2])]

(* What is left of a line by a buffer that is emptied when it is full: its   *)
(* end behind the last character that did not fit, perhaps nothing.          *)
End(line) == SubSeq(line, Len(line) - (Len(line) % BufferLen) + 1, Len(line))

(* Every line is returned once, in order, apart from the others, and whole   *)
(* as long as it fits, wherever the characters stop coming; of a longer one  *)
(* the sized function returns something out of the middle that passes for a  *)
(* line, or nothing (ATCommandHandler.cpp:50-106).                           *)
ASSUME LinesAreWhole ==
    \A text \in Texts :
        LET sent == LinesOf(text)
            ends == SelectSeq([i \in DOMAIN sent |-> End(sent[i])], LAMBDA line : line # <<>>)
        IN  /\ FoldLeft(readATResponse, NewHandler, text).lines =
                  [i \in DOMAIN sent |-> Beginning(sent[i], BufferLen - 1)]
            /\ FoldLeft(readATResponseSized, NewHandler, text).lines =
                  [i \in DOMAIN ends |-> Beginning(ends[i], StringLen)]

(* A line begun for one caller is finished for another, whichever function   *)
(* they call: a change of state in the middle of a line costs no character.  *)
ASSUME LinesOutliveCallers ==
    \A text \in Texts : \A n \in 0 .. Len(text) :
        LET first == FoldLeft(readATResponseSized, NewHandler, SubSeq(text, 1, n))
            both == FoldLeft(readATResponse, first, SubSeq(text, n + 1, Len(text)))
        IN  (\A i \in DOMAIN LinesOf(text) : Len(LinesOf(text)[i]) <= StringLen)
                => both.lines = LinesOf(text)
=============================================================================
