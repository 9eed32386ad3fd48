---------------------------- MODULE TextRequest ----------------------------
(***************************************************************************)
(* A text request: an account is chosen for it, its upstream answers with  *)
(* a stream of edits to a message, the answer so far is cleaned of markup  *)
(* that clients cannot show and what is new of it is passed on, as chunks  *)
(* of a chat completion, events of a response or blocks of a message       *)
(* (services/protocol/conversation.py, openai_v1_chat_complete.py,         *)
(* openai_v1_response.py, anthropic_v1_messages.py).                       *)
(*                                                                         *)
(* Text is a sequence of tokens: words "w" and spaces " ", a full stop     *)
(* ".", a citation "(" ")" that is not shown, or is shown as the words     *)
(* in it, and a tool call "<" ">".  Which model is asked for, how accounts *)
(* are refreshed and how tokens of usage are counted is left out.          *)
(***************************************************************************)
EXTENDS Integers, FiniteSets, SequencesExt

CONSTANTS Account,
          Formats,  \* of "chat", "response", "message", "tools"
          Tokens,   \* what answers are made of
          MaxText,  \* their length
          History,  \* the assistant's earlier messages
          Rewrites, \* whether the upstream takes back text that it sent
          Loose     \* whether it writes text after a tool call or leaves one open

ASSUME TextAssumption ==
    /\ Formats \subseteq {"chat", "response", "message", "tools"}
    /\ Tokens \subseteq STRING
    /\ MaxText \in Nat
    /\ History \in Seq(Seq(STRING))

VARIABLES
    format, \* what the client asked for
    stage,  \* "pick", "check", "stream", "done" or "failed"
    token,  \* the token in use
    tried,  \* attempted_tokens
    latest, \* the present token of each account, or 0 if it is marked abnormal
    open,   \* tokens whose breaker is open
    reply,  \* the answer as the upstream holds it
    echo,   \* history_index
    raw,    \* raw_text
    text,   \* text, what of it can be shown
    got,    \* current_text, the deltas so far
    sent,   \* streamed_text, what of them was passed on
    cut,    \* the beginning of the first tool tag came alone and was passed on as text
    out     \* the events sent to the client

textVars == <<format, stage, token, tried, latest, open, reply, echo, raw, text, got, sent, cut,
              out>>

Generation == 1 .. 2
AccountToken == Account \X Generation
Anonymous == <<"nobody", 1>>
EventKind == {"begin", "start", "delta", "call", "stop", "end"}

TextTypeOK ==
    /\ format \in Formats
    /\ stage \in {"pick", "check", "stream", "done", "failed"}
    /\ token \in AccountToken \cup {Anonymous}
    /\ tried \subseteq AccountToken
    /\ latest \in [Account -> Generation \cup {0}]
    /\ open \subseteq AccountToken
    /\ echo \in 0 .. Len(History)
    /\ \A s \in {reply, raw, text, got, sent} : s \in Seq(STRING)
    /\ cut \in BOOLEAN
    /\ out \in Seq([kind : EventKind, index : Nat, text : Seq(STRING)])

TextInit ==
    /\ format \in Formats
    /\ stage = "pick"
    /\ token = Anonymous
    /\ tried = {}
    /\ latest = [a \in Account |-> 1]
    /\ open \in SUBSET {<<a, 1>> : a \in Account}
    /\ reply = <<>> /\ echo = 0 /\ raw = <<>> /\ text = <<>>
    /\ got = <<>> /\ sent = <<>> /\ cut = FALSE /\ out = <<>>

-----------------------------------------------------------------------------
(* What the client is shown of a text. *)

First(t, s) == CHOOSE i \in DOMAIN s : s[i] = t /\ \A j \in 1 .. i - 1 : s[j] # t
Upto(s, n) == SubSeq(s, 1, n)
After(s, n) == SubSeq(s, n + 1, Len(s))
IsIn(t, s) == t \in ToSet(s)

\* The tokens of a text at these places, in their order.
Selected(s, places) ==
    [n \in 1 .. Cardinality(places) |->
        s[CHOOSE i \in places : Cardinality({j \in places : j <= i}) = n]]

NoSpaces(s) == {i \in DOMAIN s : s[i] # " "}
Trimmed(s) == Upto(s, Max(NoSpaces(s) \cup {0}))
Stripped(s) == After(Trimmed(s), Min(NoSpaces(s) \cup {Len(s) + 1}) - 1)

\* Place i is at or behind an opening mark, not behind the mark that closes it.
Marked(s, i, opening, closing) ==
    \E j \in 1 .. i : s[j] = opening /\ \A k \in j .. i - 1 : s[k] # closing
IsClosed(s, i, closing) == \E k \in i .. Len(s) : s[k] = closing

\* A space before an annotation that is not shown, with a full stop behind it.
Hugs(s, i) ==
    \E j, k \in i .. Len(s) - 1 :
        /\ s[j] = "(" /\ \A n \in i .. j - 1 : s[n] = " "
        /\ j < k /\ s[k] = ")" /\ \A n \in j .. k - 1 : s[n] \notin {"w", ")"}
        /\ s[k + 1] = "."

\* sanitize_output_text: of an annotation its words are shown, when it is closed; what
\* is not closed yet is hidden.
IsKept(s, i) ==
    IF Marked(s, i, "(", ")") THEN s[i] = "w" /\ IsClosed(s, i, ")") ELSE ~Hugs(s, i)
Sanitized(s) == Selected(s, {i \in DOMAIN s : IsKept(s, i)})

HistoryText == FlattenSeq(History)

\* strip_history: as often as the text begins with it.
Times(s, n) == [i \in 1 .. n * Len(s) |-> s[((i - 1) % Len(s)) + 1]]
Unprefixed(s) ==
    LET often == Max({n \in 0 .. Len(s) : IsPrefix(Times(HistoryText, n), s)})
    IN  After(s, often * Len(HistoryText))

\* strip_tool_markup and the calls that parse_tool_calls finds, each at its end.
InCall(s, i) == Marked(s, i, "<", ">") /\ IsClosed(s, i, ">")
Plain(s) == Selected(s, {i \in DOMAIN s : ~InCall(s, i)})
Shown(s) == Stripped(Plain(s))
Calls(s) == Cardinality({i \in DOMAIN s : s[i] = ">" /\ InCall(s, i)})

\* streamable_text, of a text whose tags are complete.  Mutant: the call is passed on
\* as text.
StreamableAll(s) == s
Streamable(s) == IF IsIn("<", s) THEN Trimmed(Upto(s, First("<", s) - 1)) ELSE s

-----------------------------------------------------------------------------
(* The events of each format: its kind, the block it is about, its text. *)

Event(kind, index, s) == <<[kind |-> kind, index |-> index, text |-> s]>>
Delta(index, s) == IF s = <<>> THEN <<>> ELSE Event("delta", index, s)
Said(events) == FlattenSeq([e \in DOMAIN events |-> events[e].text])

Opening ==
    CASE format = "chat" -> <<>>
      [] format \in {"response", "message"} -> Event("begin", 0, <<>>) \o Event("start", 0, <<>>)
      [] format = "tools" -> Event("begin", 0, <<>>)

\* A delta ends in the first tag of the text, which may be there in part: streamable_text
\* takes what is no complete name of a tag for text.
EndsInTag(delta) == delta # <<>> /\ Last(delta) = "<" /\ ~IsIn("<", got \o Front(delta))

\* What the client has been told after a delta of the text: with tools, only what comes
\* before the first call, and nothing when what was sent is no longer how that begins.
Told(delta, part) ==
    LET visible == IF format = "tools" /\ ~part THEN Streamable(got \o delta) ELSE got \o delta
    IN  IF (format = "tools" /\ IsIn("<", got)) \/ ~IsPrefix(sent, visible)
        THEN sent ELSE visible

\* text_open
TextOpen == format = "message" \/ sent # <<>>

\* The events that tell it.
Passed(told) ==
    IF told = sent THEN <<>>
    ELSE (IF format = "tools" /\ ~TextOpen THEN Event("start", 0, <<>>) ELSE <<>>)
         \o Delta(0, After(told, Len(sent)))

\* The blocks of the calls.
Blocks(first, n) ==
    [e \in 1 .. 3 * n |-> [kind |-> <<"start", "call", "stop">>[((e - 1) % 3) + 1],
                           index |-> first + (e - 1) \div 3, text |-> <<>>]]

\* Mutant: the text before the calls has no block of its own.
FirstCallAlwaysZero == 0
FirstCall == IF TextOpen \/ Shown(got) # <<>> THEN 1 ELSE 0

\* stream_events, when the chunk with the finish reason comes.
Finished ==
    LET rest == After(Shown(got), Len(sent))
        stop == IF TextOpen THEN Event("stop", 0, <<>>) ELSE <<>>
        late == IF rest = <<>> THEN <<>>
                ELSE IF TextOpen THEN Delta(0, rest)
                ELSE Event("start", 0, <<>>) \o Delta(0, rest) \o Event("stop", 0, <<>>)
    IN  IF format = "tools" /\ Calls(got) > 0
        THEN stop \o late \o Blocks(FirstCall, Calls(got)) ELSE stop

Closing ==
    CASE format = "chat" -> Event("end", 0, <<>>)
      [] format = "response" -> Event("stop", 0, <<>>) \o Event("end", 0, <<>>)
      [] OTHER -> Finished \o Event("end", 0, <<>>)

-----------------------------------------------------------------------------
(* Accounts: text_backend and stream_text_deltas. *)

Answer == <<reply, echo, raw, text>>
NewAnswer == reply' = <<>> /\ echo' = 0 /\ raw' = <<>> /\ text' = <<>>
Fail == stage' = "failed" /\ UNCHANGED <<token, tried, latest, open>>

\* get_text_access_token: an account that was not tried, whose token may be refreshed
\* meanwhile; without any, the anonymous access.  Where the model does not allow that,
\* it raises.
Candidates(accounts, excluded) ==
    LET free == {a \in Account : accounts[a] > 0 /\ <<a, accounts[a]>> \notin excluded}
    IN  IF free = {} THEN {Anonymous}
        ELSE {t \in free \X Generation : t[2] >= accounts[t[1]]}
Refreshed(accounts, t) == IF t = Anonymous THEN accounts ELSE [accounts EXCEPT ![t[1]] = t[2]]

\* text_backend skips accounts whose breaker is open.
Pick ==
    /\ stage = "pick"
    /\ \/ \E t \in Candidates(latest, tried) :
            /\ latest' = Refreshed(latest, t)
            /\ IF t \in open
               THEN tried' = tried \cup {t} /\ UNCHANGED <<stage, token>>
               ELSE stage' = "check" /\ token' = t /\ tried' = {}
            /\ UNCHANGED open
       \/ Fail
    /\ out' = IF stage' = "check" THEN Opening ELSE out
    /\ UNCHANGED <<format, Answer, got, sent, cut>>

SkipOpen ==
    /\ stage = "check" /\ token \notin tried /\ token \in open
    /\ \/ \E t \in Candidates(latest, tried \cup {token}) :
            /\ latest' = Refreshed(latest, t)
            /\ token' = t
            /\ tried' = tried \cup {token}
            /\ UNCHANGED <<stage, open>>
       \/ Fail
    /\ UNCHANGED <<format, Answer, got, sent, cut, out>>

Ask ==
    /\ stage = "check" /\ token \notin open
    /\ IF token \in tried THEN Fail /\ UNCHANGED Answer
       ELSE /\ stage' = "stream"
            /\ tried' = tried \cup ({token} \cap AccountToken)
            /\ NewAnswer
            /\ UNCHANGED <<token, latest, open>>
    /\ UNCHANGED <<format, got, sent, cut, out>>

\* remove_invalid_token marks an account, at once or after more of the kind.
MarkedOrNot(t) == {latest, [a \in Account |-> IF t[1] = a THEN 0 ELSE latest[a]]}

\* Nothing of the answer was passed on.  Mutant: another account starts over anyway.
MayStartOverAnyway == TRUE
MayStartOver == got = <<>>

\* A token that is rejected before any text came is refreshed, or the account marked
\* and another one tried.
Rejected ==
    /\ stage = "stream"
    /\ token # Anonymous /\ MayStartOver
    /\ \/ \E g \in Generation :
            LET t == <<token[1], g>> IN
            /\ t \notin tried
            /\ latest' = Refreshed(latest, t)
            /\ token' = t
            /\ stage' = "check"
       \/ \E after \in MarkedOrNot(token) :
            \/ \E t \in Candidates(after, tried) \ {Anonymous} :
                /\ latest' = Refreshed(after, t)
                /\ token' = t
                /\ stage' = "check"
            \/ latest' = after /\ stage' = "failed" /\ UNCHANGED token
    /\ UNCHANGED <<format, tried, open, Answer, got, sent, cut, out>>

\* Any other failure ends the request; the breaker may open on those of the upstream,
\* and an account may be marked.
Breaks ==
    /\ stage = "stream"
    /\ stage' = "failed"
    /\ \/ token # Anonymous /\ open' = open \cup {token}
       \/ UNCHANGED open
    /\ latest' \in MarkedOrNot(token)
    /\ UNCHANGED <<format, token, tried, Answer, got, sent, cut, out>>

-----------------------------------------------------------------------------
(* The stream: iter_conversation_payloads. *)

\* What is new of the text.
New(next) == IF IsPrefix(text, next) THEN After(next, Len(text)) ELSE next

\* A tag that comes in parts is complete before anything else comes; the part that
\* completes it is not passed on, so it is no step of its own.
Say(newraw) ==
    LET next == Sanitized(newraw) IN
    /\ raw' = newraw
    /\ text' = next
    /\ IF next = text THEN UNCHANGED <<got, sent, cut, out>>
       ELSE /\ got' = got \o New(next)
            /\ \E part \in {FALSE, format = "tools" /\ EndsInTag(New(next))} :
                 /\ cut' = (cut \/ part)
                 /\ sent' = Told(New(next), part)
                 /\ out' = out \o Passed(Told(New(next), part))
    /\ UNCHANGED <<format, stage, token, tried, latest, open, echo>>

\* Well-behaved upstreams write a tool call in one piece and nothing behind it.
Proper(s) == \A i \in DOMAIN s :
    /\ s[i] = ">" => i > 1 /\ s[i - 1] = "<"
    /\ s[i] # ">" /\ i > 1 => s[i - 1] # "<"
    /\ s[i] \notin {"<", ">"} => ~IsIn("<", Upto(s, i))

MayWrite(s) == Len(s) <= MaxText /\ (Loose \/ Proper(s))

\* Bound: up to two tokens come at once, or a text in place of what was sent; the marks
\* of a call only where there are tools, they are like any word elsewhere.
Room == MaxText - Len(reply)
Written == IF format = "tools" THEN Tokens ELSE Tokens \ {"<", ">"}
Pieces == BoundedSeq(Written, IF Room > 2 THEN 2 ELSE Room)
Texts == IF Rewrites THEN BoundedSeq(Written, MaxText)
         ELSE {reply \o more : more \in BoundedSeq(Written, Room)}

\* The upstream appends to its message, sends it in full, perhaps behind the history,
\* or replaces it.
AppendText(more) ==
    /\ stage = "stream"
    /\ more # <<>> /\ MayWrite(reply \o more)
    /\ reply' = reply \o more
    /\ Say(raw \o more)

WholeText(more) ==
    /\ stage = "stream"
    /\ reply \o more # <<>> /\ MayWrite(reply \o more)
    /\ reply' = reply \o more
    /\ \E prefix \in {<<>>, HistoryText} : Say(Unprefixed(prefix \o reply \o more))

ReplaceText(s) ==
    /\ stage = "stream"
    /\ MayWrite(s)
    /\ reply' = s
    /\ Say(Unprefixed(s))

\* An earlier message comes again.
Echo ==
    /\ stage = "stream"
    /\ reply = <<>>
    /\ echo < Len(History)
    /\ LET m == History[echo + 1] IN
        IF Unprefixed(m) = m
        THEN /\ echo' = echo + 1 /\ raw' = <<>> /\ text' = <<>>
             /\ UNCHANGED <<format, stage, token, tried, latest, open, reply, got, sent, cut, out>>
        ELSE Say(Unprefixed(m)) /\ UNCHANGED reply

\* The stream ends, whether or not with its end mark.
Done ==
    /\ stage = "stream"
    /\ Loose \/ ~IsSuffix(<<"<">>, reply)
    /\ stage' = "done"
    /\ out' = out \o Closing
    /\ UNCHANGED <<format, token, tried, latest, open, Answer, got, sent, cut>>

TextNext ==
    \/ Pick \/ SkipOpen \/ Ask \/ Rejected \/ Breaks
    \/ \E more \in Pieces : AppendText(more) \/ WholeText(more)
    \/ \E s \in Texts : ReplaceText(s)
    \/ Echo \/ Done

TextSpec == TextInit /\ [][TextNext]_textVars

-----------------------------------------------------------------------------
(* What a client may rely on. *)

\* The deltas that a client got, one after the other, are the answer as the upstream
\* has it by then, cleaned: nothing is repeated, nothing missing, nothing of an answer
\* of another account, as
\* test_stream_sanitizer_does_not_emit_partial_annotation_or_repeat_prefix means to
\* show for citations (test/test_chat_completion_cache.py:270).
DeltasAddUp ==
    /\ stage \in {"stream", "done"} => got = Sanitized(reply)
    /\ stage \in {"stream", "done"} /\ format # "tools" => Said(out) = got

\* Blocks are numbered without gaps, one is open at a time, text is only added to the
\* open one, and all are closed before the end, which comes last
\* (services/protocol/anthropic_v1_messages.py:225-284).
BlocksWellFormed ==
    format # "chat" =>
        \A n \in DOMAIN out :
            LET e == out[n]
                before == out[n - 1]
                between == before.kind \in {"begin", "stop"}
            IN
            /\ e.kind = "begin" <=> n = 1
            /\ e.kind = "start" =>
                   between /\ e.index = IF before.kind = "begin" THEN 0 ELSE before.index + 1
            /\ e.kind \in {"delta", "call", "stop"} => ~between /\ e.index = before.index
            /\ e.kind = "end" => between /\ n = Len(out)

\* A client that streams is told the same, text and calls, as one that does not
\* (content_blocks), and of a first tag that came in parts its beginning besides.
SameAsWhole ==
    stage = "done" /\ format = "tools" =>
        /\ Said(out) = IF cut THEN Append(Shown(got), "<") ELSE Shown(got)
        /\ Cardinality({n \in DOMAIN out : out[n].kind = "call"}) = Calls(got)

=============================================================================
