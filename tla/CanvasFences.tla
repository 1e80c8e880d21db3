---------------------------- MODULE CanvasFences ----------------------------
(***************************************************************************)
(* The interceptor between the agent loop and the event stream: it takes   *)
(* the canvas fences out of the text of an answer, however the provider    *)
(* cuts the text into tokens, and opens canvases for them.                 *)
(*                                                                         *)
(* Text is a sequence of symbols: "t", a backtick; "c", canvas-; "D",      *)
(* dashboard; "O", object-detail; "n", a line break; "x", other prose; a   *)
(* member of Payloads, valid JSON content; "b", content that               *)
(* normalizeCanvasPayload rejects.                                         *)
(***************************************************************************)
EXTENDS Texts, SequencesExt, FiniteSets

CONSTANTS Payloads,   \* the valid contents of canvas fences
          TabOf,      \* the tab ID of each
          Answers,    \* what a provider stream may say
          MaxToken,   \* bound on the symbols of a token
          MaxStreams  \* bound on the streams of a run

Symbols == {"t", "c", "D", "O", "n", "x", "b"} \cup Payloads

\* A part is in a text, from a position on.
IsAt(text, i, part) ==
    /\ i + Len(part) - 1 <= Len(text)
    /\ \A k \in DOMAIN part : text[i + k - 1] = part[k]

CanvasFencePrefixes == << <<"t", "t", "t", "c", "O">>, <<"t", "t", "t", "c", "D">> >>
Closing == <<"n", "t", "t", "t">>

Opens(text, i) == \E k \in 1 .. 2 : IsAt(text, i, CanvasFencePrefixes[k])

ASSUME FencesAssumption ==
    DOMAIN TabOf = Payloads /\ MaxToken \in Nat /\ Answers \subseteq Seq(Symbols)

TabIds == {TabOf[p] : p \in Payloads}

VARIABLES buffer,     \* the text held back
          inside,     \* in a canvas fence
          lastValid,  \* the content last opened in each tab, or "none"
          out,        \* what the stream's text led to: <<"text", symbol>>, <<"canvas", content>>
          rest,       \* what the stream has still to say
          sent,       \* what it has said
          before,     \* lastValid when it began
          retried,    \* the text follows a failed attempt
          ended,      \* the event that ends the text has been emitted
          streams     \* the streams so far

fenceVars == <<buffer, inside, lastValid, out, rest, sent, before, retried, ended, streams>>

-----------------------------------------------------------------------------
(* HandleToken and Flush, as functions of the interceptor's own state *)

IndexOf(text, part) == FirstOf({i \in DOMAIN text : IsAt(text, i, part)})

From(text, i) == SubSeq(text, i, Len(text))

TrimLeft(text) ==
    LET first == FirstOf({i \in DOMAIN text : text[i] # "n"})
    IN  IF first = 0 THEN <<>> ELSE From(text, first)

AsText(text) == [i \in DOMAIN text |-> <<"text", text[i]>>]

EmitText(s, text) == [s EXCEPT !.out = @ \o AsText(text)]

\* Line breaks around and within JSON mean nothing.
Normalized(content) == Without(content, {"n"})

EmitCanvasEvent(s, content) ==
    LET json == Normalized(content) IN
    IF Len(json) = 1 /\ json[1] \in Payloads /\ s.lastValid[TabOf[json[1]]] # json[1]
    THEN [s EXCEPT !.lastValid[TabOf[json[1]]] = json[1],
                   !.out = Append(@, <<"canvas", json[1]>>)]
    ELSE s

EndsWith(text, part) == Len(part) <= Len(text) /\ IsAt(text, Len(text) - Len(part) + 1, part)

\* Mutant: text is held from the name of a fence on, not from its backticks.
PartialFence(text) == EndsWith(text, <<"t", "t", "t", "c">>)

\* canvasPartialMatch: the end of the text may become a fence.
PartialMatch(text) ==
    \/ EndsWith(text, <<"t", "t", "t", "c">>)
    \/ \E k \in 1 .. 2 : EndsWith(text, CanvasFencePrefixes[k])
    \/ \E n \in 1 .. 3 : /\ EndsWith(text, [i \in 1 .. n |-> "t"])
                         /\ Len(text) = n \/ text[Len(text) - n] = "n"

\* What HandleToken does up to where it calls itself.
Pass(s) ==
    LET close == IndexOf(s.buffer, Closing)
        found == {k \in 1 .. 2 : IndexOf(s.buffer, CanvasFencePrefixes[k]) # 0}
        open == IndexOf(s.buffer, CanvasFencePrefixes[FirstOf(found)])
        body == From(s.buffer, open + 5)
        line == IndexOf(body, <<"n">>)
    IN  CASE s.inside /\ close = 0 -> s
          [] s.inside /\ close # 0 ->
                [EmitCanvasEvent(s, SubSeq(s.buffer, 1, close - 1)) EXCEPT
                    !.buffer = TrimLeft(From(s.buffer, close + Len(Closing))),
                    !.inside = FALSE]
          [] ~s.inside /\ found # {} ->
                [EmitText(s, SubSeq(s.buffer, 1, open - 1)) EXCEPT
                    !.buffer = IF line = 0 THEN <<>> ELSE From(body, line + 1),
                    !.inside = TRUE]
          [] ~s.inside /\ found = {} /\ PartialMatch(s.buffer) -> s
          [] OTHER -> [EmitText(s, s.buffer) EXCEPT !.buffer = <<>>]

\* A pass that is not the last one takes four symbols or more off the buffer;
\* what follows the last one changes nothing.
Settle(s) ==
    LET passes == Len(s.buffer) \div 4 + 1
        after[n \in 0 .. passes] == IF n = 0 THEN s ELSE Pass(after[n - 1])
    IN  after[passes]

HandleToken(s, token) == Settle([s EXCEPT !.buffer = @ \o token])

Flushed(s) ==
    [(IF s.inside THEN s ELSE EmitText(s, s.buffer)) EXCEPT !.buffer = <<>>, !.inside = FALSE]

-----------------------------------------------------------------------------
(* A run of the agent: streams of text, each ended by another event *)

Interceptor == [buffer |-> buffer, inside |-> inside, lastValid |-> lastValid, out |-> out]

Becomes(s) ==
    /\ buffer' = s.buffer /\ inside' = s.inside
    /\ lastValid' = s.lastValid /\ out' = s.out

FencesInit ==
    /\ buffer = <<>> /\ inside = FALSE /\ out = <<>> /\ sent = <<>>
    /\ lastValid = [tab \in TabIds |-> "none"] /\ before = lastValid
    /\ rest \in Answers /\ retried = FALSE /\ ended = FALSE /\ streams = 1

\* The next token: the provider cuts where it likes.
Token ==
    \E n \in 1 .. MaxToken :
        /\ ~ended /\ n <= Len(rest)
        /\ Becomes(HandleToken(Interceptor, SubSeq(rest, 1, n)))
        /\ sent' = sent \o SubSeq(rest, 1, n) /\ rest' = From(rest, n + 1)
        /\ UNCHANGED <<before, retried, ended, streams>>

\* The stream is over, or broken off; any event but text follows.
Flush ==
    /\ ~ended /\ ended' = TRUE
    /\ Becomes(Flushed(Interceptor))
    /\ UNCHANGED <<rest, sent, before, retried, streams>>

\* After the results of the tools, the next round.
NextRound ==
    /\ ended /\ streams < MaxStreams
    /\ rest' \in Answers /\ streams' = streams + 1
    /\ ended' = FALSE /\ sent' = <<>> /\ out' = <<>>
    /\ before' = lastValid /\ retried' = FALSE
    /\ UNCHANGED <<buffer, inside, lastValid>>

\* A rate limit breaks the stream off; the next attempt begins with no event
\* between them.  One retry makes its text meet the rest, and MaxStreams leaves
\* a round to see what follows.
Retry ==
    /\ ~ended /\ ~retried /\ streams + 1 < MaxStreams
    /\ rest' \in Answers /\ streams' = streams + 1
    /\ sent' = <<>> /\ out' = <<>>
    /\ before' = lastValid /\ retried' = TRUE
    /\ UNCHANGED <<buffer, inside, lastValid, ended>>

FencesNext == Token \/ Flush \/ NextRound \/ Retry

FencesSpec == FencesInit /\ [][FencesNext]_fenceVars

-----------------------------------------------------------------------------
(* Properties *)

\* What a text says from each position on when it is read at once, given what
\* the tabs show: the words outside canvas fences, and the canvases of complete
\* ones that change their tab.
Readings(text) ==
    LET read[i \in 1 .. Len(text) + 1] ==
            LET close == FirstOf({j \in i + 5 .. Len(text) : IsAt(text, j, Closing)})
                json == Normalized(SubSeq(text, i + 5, close - 1))
                Changes(tabs) == /\ Len(json) = 1 /\ json[1] \in Payloads
                                 /\ tabs[TabOf[json[1]]] # json[1]
            IN  [tabs \in [TabIds -> Payloads \cup {"none"}] |->
                    CASE i > Len(text) -> <<>>
                      [] i <= Len(text) /\ ~Opens(text, i) ->
                            (IF text[i] = "n" THEN <<>> ELSE << <<"text", text[i]>> >>)
                              \o read[i + 1][tabs]
                      [] i <= Len(text) /\ Opens(text, i) /\ close = 0 -> <<>>
                      [] OTHER ->
                            IF Changes(tabs)
                            THEN << <<"canvas", json[1]>> >>
                                   \o read[close + 4][[tabs EXCEPT ![TabOf[json[1]]] = json[1]]]
                            ELSE read[close + 4][tabs]]
    IN  read

Reading(text, shown) == Readings(text)[1][shown]

WithoutBreaks(events) == Without(events, {<<"text", "n">>})

\* A fence opens on a line of its own, with something in it, and no object detail
\* opens within the token of a dashboard before it.
Regular(text) ==
    \A i \in DOMAIN text : Opens(text, i) =>
        /\ i > 1 => text[i - 1] = "n"
        /\ i + 5 <= Len(text) => text[i + 5] = "n"
        /\ ~IsAt(text, i + 5, Closing)
        /\ IsAt(text, i, CanvasFencePrefixes[2]) =>
             \A j \in DOMAIN text :
                IsAt(text, j, CanvasFencePrefixes[1]) /\ i < j => j - i >= MaxToken

\* However a text of regular fences is cut into tokens, and wherever the stream
\* ends, its prose and its canvases come out as if it had been read at once: nothing
\* of a rejected, repeated or unfinished fence leaks into the prose, no prose is
\* lost, and nothing of one round, regular or not, reaches the next.
EmitsWhatWasWritten ==
    ended /\ ~retried /\ Regular(sent \o rest) => WithoutBreaks(out) = Reading(sent, before)

\* What canvas.go says of any text: the interceptor suppresses a complete canvas
\* fence, so none is in the text it emits.
FencesAreSuppressed ==
    LET words == SelectSeq(out, LAMBDA event : event[1] = "text")
        text == [i \in DOMAIN words |-> words[i][2]]
    IN  \A i, j \in DOMAIN text : Opens(text, i) /\ IsAt(text, j, Closing) => j < i
=============================================================================
