---------------------------- MODULE InlineCharts ----------------------------
(***************************************************************************)
(* The chart JSON of an assistant message: found in the prose, repaired,   *)
(* wrapped in a fence for the renderer, and hidden while it streams in.    *)
(*                                                                         *)
(* A message is a sequence of tokens: braces; "F", a ``` with or without   *)
(* a plain language tag; "D", a ``` tagged chart, dashboard or             *)
(* object-detail; "t", a backtick; "q", a double quote; "k", a member that *)
(* makes its object structured and its text a CHART_HINT ("panels":        *)
(* [...]); "m", any other member; "x", words.  A brace in a brace is a row *)
(* of an array of objects.  "P" is the streaming placeholder.              *)
(***************************************************************************)
EXTENDS Texts, SequencesExt, FiniteSets

Fences == {"F", "D"}

FirstAfter(t, i, S) == FirstOf({j \in i + 1 .. Len(t) : t[j] \in S})

\* The detector walks over a text: where it is, it writes something and says
\* where it goes on.
Writes(text, next) == [text |-> text, next |-> next]

Walk(steps, end) ==
    LET rest[i \in 1 .. end + 1] ==
          IF i > end THEN <<>>
          ELSE LET step == steps[i] IN step.text \o rest[step.next]
    IN  rest[1]

-----------------------------------------------------------------------------
(* extractJsonObject and its fence-aware variant: a fence changes neither   *)
(* the depth nor the string state, so both end at the same brace.           *)

Scan(t, start) ==
    LET scan[i \in start - 1 .. Len(t)] ==
            IF i < start THEN [depth |-> 0, string |-> FALSE]
            ELSE LET s == scan[i - 1] IN
                 CASE t[i] = "q" -> [s EXCEPT !.string = ~@]
                   [] t[i] = "{" /\ ~s.string -> [s EXCEPT !.depth = @ + 1]
                   [] t[i] = "}" /\ ~s.string -> [s EXCEPT !.depth = @ - 1]
                   [] OTHER -> s
    IN scan

\* The brace that closes the object at start, or 0.
ObjectEnd(t, start) ==
    LET scan == Scan(t, start)
    IN  FirstOf({i \in start .. Len(t) : scan[i] = [depth |-> 0, string |-> FALSE]})

\* The positions of an object that are outside its strings, at a depth.
Plain(o, depth) ==
    LET scan == Scan(o, 1)
    IN  {i \in DOMAIN o : ~scan[i].string /\ o[i] # "q" /\ scan[i].depth = depth}

\* JSON.parse(sanitizeJson(o)) does not throw.
Parses(o) ==
    LET scan == Scan(o, 1)
    IN  \A i \in DOMAIN o : scan[i].string \/ o[i] \notin Fences \cup {"t", "x"}

\* classify finds a kind: structured data, three members, or rows.
Structured(o) ==
    \/ \E i \in Plain(o, 1) : o[i] = "k"
    \/ Cardinality({i \in Plain(o, 1) : o[i] = "m"}) >= 3
    \/ \E i \in Plain(o, 2) : o[i] = "{"

Renders(o) == Parses(o) /\ Structured(o)

Hints(t, i) == \E j \in i .. Len(t) : t[j] = "k"

-----------------------------------------------------------------------------
(* reassembleFencedJson *)

WithoutFences(o) ==
    LET scan == Scan(o, 1)
    IN  ItemsAt(o, {i \in DOMAIN o : scan[i].string \/ o[i] \notin Fences})

Reassemble(t) ==
    LET Step(i) ==
            LET end == IF t[i] = "{" THEN ObjectEnd(t, i) ELSE 0
                o == SubSeq(t, i, end)
            IN  IF end # 0 /\ WithoutFences(o) # o /\ Renders(WithoutFences(o))
                THEN Writes(WithoutFences(o), end + 1)
                ELSE Writes(<<t[i]>>, i + 1)
    IN  Walk([i \in DOMAIN t |-> Step(i)], Len(t))

-----------------------------------------------------------------------------
(* processSegment, for text outside fences *)

\* Mutant: one character is skipped, whatever it is.
AfterAnything(s, end) == IF end < Len(s) THEN end + 2 ELSE end + 1

\* Where the text goes on behind an object: a closing backtick goes.
AfterObject(s, end) == IF end < Len(s) /\ s[end + 1] = "t" THEN end + 2 ELSE end + 1

\* An object that renders is wrapped, and the backticks around it go; one that
\* never closes and looks like a chart leaves all that follows as it is.
ProcessSegment(s) ==
    LET Object(i) == SubSeq(s, i, ObjectEnd(s, i))
        Wraps(i) == s[i] = "{" /\ ObjectEnd(s, i) # 0 /\ Renders(Object(i))
        Step(i) ==
            CASE Wraps(i) ->
                    Writes(<<"D">> \o Object(i) \o <<"F">>, AfterObject(s, ObjectEnd(s, i)))
              [] s[i] = "t" /\ i < Len(s) /\ Wraps(i + 1) -> Writes(<<>>, i + 1)
              [] s[i] = "{" /\ ObjectEnd(s, i) = 0 /\ Hints(s, i) ->
                    Writes(SubSeq(s, i, Len(s)), Len(s) + 1)
              [] OTHER -> Writes(<<s[i]>>, i + 1)
    IN  Walk([i \in DOMAIN s |-> Step(i)], Len(s))

-----------------------------------------------------------------------------
(* wrapInlineChartJson *)

RetagJsonFence(s) ==
    LET body == SubSeq(s, 2, Len(s) - 1) IN
    IF s[1] = "F" /\ body # <<>> /\ body[1] = "{" /\ ObjectEnd(body, 1) = Len(body) /\ Renders(body)
    THEN <<"D">> \o body \o <<"F">> ELSE s

\* The fences pair up from the left; one without a partner is text.
WrapInlineChartJson(content) ==
    LET t == Reassemble(content)
        Step(i) ==
            LET open == FirstAfter(t, i - 1, Fences)
                close == IF open = 0 THEN 0 ELSE FirstAfter(t, open, Fences)
            IN  IF close = 0 THEN Writes(ProcessSegment(SubSeq(t, i, Len(t))), Len(t) + 1)
                ELSE Writes(ProcessSegment(SubSeq(t, i, open - 1))
                              \o RetagJsonFence(SubSeq(t, open, close)), close + 1)
    IN  Walk([i \in DOMAIN t |-> Step(i)], Len(t))

-----------------------------------------------------------------------------
(* hideIncompleteChartJson, what is shown of a message while it streams *)

FenceCount(t) == Cardinality({i \in DOMAIN t : t[i] \in Fences})

LastFence(t) == CHOOSE i \in DOMAIN t : t[i] \in Fences /\ FirstAfter(t, i, Fences) = 0

\* The first brace, walking from object to object, that nothing closes.
Unclosed(t) ==
    LET from[i \in 1 .. Len(t) + 1] ==
            LET brace == FirstAfter(t, i - 1, {"{"}) IN
            CASE brace = 0 -> 0
              [] brace # 0 /\ ObjectEnd(t, brace) = 0 -> brace
              [] OTHER -> from[ObjectEnd(t, brace) + 1]
    IN  from[1]

\* Mutant: the last fence counts as open.
HasFence(t) == FenceCount(t) > 0

FenceIsOpen(t) == FenceCount(t) % 2 = 1

HideIncompleteChartJson(content) ==
    LET t == WrapInlineChartJson(content)
        HidesFence == FenceIsOpen(t) /\ Hints(t, LastFence(t))
    IN  CASE HidesFence -> SubSeq(t, 1, LastFence(t) - 1) \o <<"P">>
          [] ~HidesFence /\ Unclosed(t) # 0 /\ Hints(t, Unclosed(t)) ->
                SubSeq(t, 1, Unclosed(t) - 1) \o <<"P">>
          [] OTHER -> t

-----------------------------------------------------------------------------
(* The message as it arrives *)

CONSTANTS Tokens,     \* the tokens an answer is made of
          MaxTokens   \* bound on the length of an answer

VARIABLE answer

\* A tagged fence is only used to open a block.
StreamToken ==
    /\ Len(answer) < MaxTokens
    /\ \E token \in Tokens :
        /\ token = "D" => FenceCount(answer) % 2 = 0
        /\ answer' = Append(answer, token)

TextSpec == answer = <<>> /\ [][StreamToken]_answer

-----------------------------------------------------------------------------
(* Properties *)

Words(t) == Without(t, Fences \cup {"t"})

\* Repairing, wrapping and retagging neither drop, double nor reorder anything
\* of an answer but fences and backticks, however its braces, quotes and fences
\* are nested or cut off.
AnswerIsKept == Words(WrapInlineChartJson(answer)) = Words(answer)

IsObject(t) == t # <<>> /\ t[1] = "{" /\ ObjectEnd(t, 1) = Len(t)

\* The blocks of a text that reach a chart renderer with an object that renders.
Charts(t) ==
    Cardinality({i \in DOMAIN t : t[i] = "D" /\
        LET close == FirstAfter(t, i, Fences)
            body == SubSeq(t, i + 1, close - 1)
        IN  close # 0 /\ IsObject(body) /\ Renders(body)})

\* No object of a text is left open, wherever one is taken to begin.
Complete(t) == \A i \in DOMAIN t : t[i] = "{" => ObjectEnd(t, i) # 0

\* A chart that is on screen while an answer streams in stays there as more of
\* the answer arrives, if the answer so far leaves no object open and, repaired,
\* no fence.
ShownChartStays ==
    [][FenceCount(Reassemble(answer)) % 2 = 0 /\ Complete(answer) =>
         Charts(HideIncompleteChartJson(answer')) >= Charts(HideIncompleteChartJson(answer))]_answer
=============================================================================
