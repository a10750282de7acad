---------------------------- MODULE ProviderWire ----------------------------
(***************************************************************************)
(* The three model clients (provider/openaicompatible, provider/ollama,    *)
(* provider/openaicodex): how a conversation becomes a request, and how a  *)
(* streamed answer becomes the assistant messages the loop stores and      *)
(* sends back, to the same client or, after a switch, to another one.      *)
(*                                                                         *)
(* Text, arguments, names and ids are numbered atoms: the n-th event of a  *)
(* stream carries atom n, Blank is white space, Broken a piece of          *)
(* arguments after which they are not JSON.  The provider is external: it  *)
(* sends any events its protocol allows, and the connection may break or   *)
(* the caller cancel between any two of them.                              *)
(***************************************************************************)
EXTENDS Integers, Sequences, FiniteSets, SequencesExt

CONSTANTS
    Starts,       \* conversations the first request may be made from
    MaxEvents,    \* events of one stream
    MaxItems,     \* output items of one response
    MaxReplies    \* replies kept in one behaviour

VARIABLES
    conv,         \* the conversation: <<[role, parts], ...>>
    client,       \* the client of the stream
    phase,        \* "idle", "streaming", "ok" or "failed"
    wire,         \* the events of the stream so far
    acc,          \* what the client has assembled of them
    shown,        \* text passed to onDelta
    reply,        \* the messages of the result
    replies       \* replies appended to the conversation

pwVars == <<conv, client, phase, wire, acc, shown, reply, replies>>

Clients == {"compatible", "ollama", "codex"}
Blank   == 0
Broken  == 99
FallbackId(i) == 100 + i

(***************************************************************************)
(* Conversations.  A part has a kind, a text or id x, a name, arguments    *)
(* and a tag: the disposition of a text, the client whose opaque replay    *)
(* state a reasoning part carries.                                         *)
(***************************************************************************)
Part(kind, x, name, args, tag) ==
    [kind |-> kind, x |-> x, name |-> name, args |-> args, tag |-> tag]
Text(x, disposition)      == Part("text", x, 0, <<>>, disposition)
Reasoning(x, owner)       == Part("reasoning", x, 0, <<>>, owner)
ToolCall(id, name, args)  == Part("call", <<id>>, name, args, "")
ToolResultPart(id)        == Part("result", <<id>>, 0, <<>>, "")
Image(x)                  == Part("image", <<x>>, 0, <<>>, "")
Message(role, ps)         == [role |-> role, parts |-> ps]

Black(s) == SelectSeq(s, LAMBDA a : a # Blank)

\* strings.TrimSpace
TrimSpace(s) ==
    IF Black(s) = <<>> THEN <<>>
    ELSE LET I == {i \in DOMAIN s : s[i] # Blank}
         IN  SubSeq(s, CHOOSE i \in I : \A j \in I : i <= j,
                       CHOOSE i \in I : \A j \in I : i >= j)

OfKind(ps, kind) == SelectSeq(ps, LAMBDA p : p.kind = kind)
Xs(ps)           == FlattenSeq([i \in DOMAIN ps |-> ps[i].x])
AllParts(ms)     == FlattenSeq([i \in DOMAIN ms |-> ms[i].parts])
Ids(ps)          == Xs(OfKind(ps, "call"))

\* conversation.shouldKeepPart, for the kinds a reply may hold
shouldKeepPart(p) ==
    CASE p.kind = "text"      -> TrimSpace(p.x) # <<>>
      [] p.kind = "reasoning" -> TrimSpace(p.x) # <<>> \/ p.tag # ""
      [] OTHER                -> TRUE
NormalizeParts(ps) == SelectSeq(ps, shouldKeepPart)

\* conversation.FinalAnswer: the last final text, else the last plain text.
FinalAnswer(ms) ==
    LET T(d) == SelectSeq(AllParts(ms), LAMBDA p :
                    p.kind = "text" /\ p.tag = d /\ TrimSpace(p.x) # <<>>)
    IN  IF T("final") # <<>> THEN TrimSpace(Last(T("final")).x)
        ELSE IF T("") # <<>> THEN TrimSpace(Last(T("")).x)
        ELSE <<>>

(***************************************************************************)
(* Requests.  An item of a request: its role, its text, its thinking, the  *)
(* client whose opaque state it carries, its calls or the id it answers,   *)
(* its images, and the tool name Ollama wants beside a result.             *)
(***************************************************************************)
Item(role, x, think, own, calls, images, name) ==
    [role |-> role, x |-> x, think |-> think, own |-> own, calls |-> calls,
     images |-> images, name |-> name]
Said(role, x)     == Item(role, x, <<>>, "", <<>>, <<>>, 0)
Followup(images)  == Item("user", <<>>, <<>>, "", <<>>, images, 0)
Asking            == Said("user", <<>>)

\* textOnlyMessageContent, trimmed by its callers
systemItems(m) ==
    LET x == TrimSpace(Xs(m.parts)) IN IF x = <<>> THEN <<>> ELSE <<Said("system", x)>>

\* buildUserMessage, buildUserInputItem
buildUserMessage(m) ==
    LET ps == NormalizeParts(m.parts)
    IN  Item("user", Xs(OfKind(ps, "text")), <<>>, "", <<>>, Xs(OfKind(ps, "image")), 0)

imageFollowup(ps) ==
    IF OfKind(ps, "image") = <<>> THEN <<>> ELSE <<Followup(Xs(OfKind(ps, "image")))>>

(***************************************************************************)
(* The tool name under which Ollama expects a result: the name of the last *)
(* earlier call with its id (toolNamesByID).                               *)
(***************************************************************************)
toolNameFirst(ms, i, id) ==    \* fault: the first call with the id names its results
    LET C == SelectSeq(AllParts(SubSeq(ms, 1, i)), LAMBDA p : p.kind = "call" /\ p.x = <<id>>)
    IN  IF C = <<>> THEN 0 ELSE Head(C).name

toolName(ms, i, id) ==
    LET C == SelectSeq(AllParts(SubSeq(ms, 1, i)), LAMBDA p : p.kind = "call" /\ p.x = <<id>>)
    IN  IF C = <<>> THEN 0 ELSE Last(C).name

toolItems(c, ms, i) ==
    LET ps == ms[i].parts
        R  == OfKind(ps, "result")
    IN  [j \in DOMAIN R |->
            Item("tool", R[j].x, <<>>, "", <<>>, <<>>,
                 IF c = "ollama" THEN toolName(ms, i, R[j].x[1]) ELSE 0)]
        \o imageFollowup(ps)

\* Arguments that are no JSON make the whole request fail: normalizeToolCallArguments, buildToolCall.
GoodArguments(ps) == \A i \in DOMAIN ps : ps[i].kind = "call" => Broken \notin Range(ps[i].args)

\* The opaque state of a group for a client: the first reasoning part it issued.
ownReplay(c, ps) ==
    IF \E i \in DOMAIN ps : ps[i].kind = "reasoning" /\ ps[i].tag = c THEN c ELSE ""

\* fault: opaque state is sent to whichever client comes next
anyReplay(c, ps) ==
    IF \E i \in DOMAIN ps : ps[i].kind = "reasoning" /\ ps[i].tag # ""
    THEN (CHOOSE p \in Range(ps) : p.kind = "reasoning" /\ p.tag # "").tag ELSE ""

extractReplay(c, ps) == ownReplay(c, ps)

(***************************************************************************)
(* buildAssistantReplayMessage of the compatible and the Ollama client:    *)
(* one message for a run of assistant messages.                            *)
(***************************************************************************)
buildAssistantReplayMessage(c, ps) ==
    LET x     == Xs(OfKind(ps, "text"))
        think == Xs(SelectSeq(ps, LAMBDA p : p.kind = "reasoning" /\ TrimSpace(p.x) # <<>>))
        own   == extractReplay(c, ps)
        calls == OfKind(ps, "call")
    IN  IF TrimSpace(x) = <<>> /\ think = <<>> /\ own = "" /\ calls = <<>> THEN <<>>
        ELSE <<Item("assistant", IF c = "compatible" THEN TrimSpace(x) ELSE x,
                    think, own, calls, <<>>, 0)>>

(***************************************************************************)
(* One assistant message for the Responses API: reasoning and calls are    *)
(* items of their own, the texts and images between two of them one item   *)
(* each (flushAssistantParts, buildAssistantReplayItems).                  *)
(***************************************************************************)
flushAssistantParts(ps) ==
    LET T == SelectSeq(ps, LAMBDA p : p.kind = "text" /\ TrimSpace(p.x) # <<>>)
    IN  (IF T = <<>> THEN <<>> ELSE <<Said("assistant", Xs(T))>>) \o imageFollowup(ps)

buildReasoningReplayItem(p) ==
    IF p.tag = "codex" THEN <<Item("reasoning", <<>>, TrimSpace(p.x), "codex", <<>>, <<>>, 0)>>
    ELSE IF TrimSpace(p.x) = <<>> THEN <<>>
    ELSE <<Item("reasoning", <<>>, TrimSpace(p.x), "", <<>>, <<>>, 0)>>

codexItems(ps) ==
    LET Breaks(i) == ps[i].kind \in {"reasoning", "call"}
        Open(i)   == {j \in i .. Len(ps) : \A k \in i .. j : ~Breaks(k)}
        Starting(i) == ~Breaks(i) /\ (i = 1 \/ Breaks(i - 1))
        At(i) == CASE ps[i].kind = "reasoning" -> buildReasoningReplayItem(ps[i])
                   [] ps[i].kind = "call" ->
                        <<Item("call", <<>>, <<>>, "", <<ps[i]>>, <<>>, 0)>>
                   [] Starting(i) -> flushAssistantParts(SubSeq(ps, i, i + Cardinality(Open(i)) - 1))
                   [] OTHER -> <<>>
    IN  FlattenSeq([i \in DOMAIN ps |-> At(i)])

\* A run of assistant messages is one group for the two chat APIs.
groupEnd(ms, i) ==
    CHOOSE j \in i .. Len(ms) :
        /\ \A k \in i .. j : ms[k].role = "assistant"
        /\ j = Len(ms) \/ ms[j + 1].role # "assistant"

assistantItems(c, ms, i) ==
    IF c = "codex" THEN codexItems(ms[i].parts)
    ELSE IF i > 1 /\ ms[i - 1].role = "assistant" THEN <<>>
    ELSE LET ps == AllParts(SubSeq(ms, i, groupEnd(ms, i)))
         IN  buildAssistantReplayMessage(c, ps) \o imageFollowup(NormalizeParts(ps))

itemsOf(c, ms, i) ==
    CASE ms[i].role = "system"    -> systemItems(ms[i])
      [] ms[i].role = "user"      -> <<buildUserMessage(ms[i])>>
      [] ms[i].role = "assistant" -> assistantItems(c, ms, i)
      [] ms[i].role = "tool"      -> toolItems(c, ms, i)

leadingSystemMessageCount(ms) ==
    Cardinality({i \in DOMAIN ms : \A j \in 1 .. i : ms[j].role = "system"})
hasSystemMessage(ms) == \E i \in DOMAIN ms : ms[i].role = "system"
hasUserMessage(ms)   == \E i \in DOMAIN ms : ms[i].role = "user"

Profile == Message("system", <<Text(<<90>>, "")>>)

\* withPromptProfile: the client's profile follows the leading system messages.
withPromptProfile(ms) == InsertAt(ms, leadingSystemMessageCount(ms) + 1, Profile)

(***************************************************************************)
(* mapMessages and buildRequestParams.  A conversation nobody asks         *)
(* anything in gets a user message: before the first message that is not   *)
(* system-authored, or where only system items would be sent.              *)
(***************************************************************************)
mapMessages(c, conversation) ==
    LET ms    == IF c = "codex" THEN conversation ELSE withPromptProfile(conversation)
        lead  == leadingSystemMessageCount(ms)
        Flat(from, to) == FlattenSeq([i \in 1 .. to - from + 1 |-> itemsOf(c, ms, from + i - 1)])
        whole == Flat(1, Len(ms))
    IN  IF c # "codex"
        THEN Flat(1, lead) \o (IF hasUserMessage(ms) THEN <<>> ELSE <<Asking>>)
             \o Flat(lead + 1, Len(ms))
        ELSE LET input  == IF hasSystemMessage(ms) THEN whole ELSE <<Said("system", <<90>>)>> \o whole
                 prefix == IF hasSystemMessage(ms) THEN lead ELSE 1
                 only   == input # <<>> /\ \A i \in DOMAIN input : input[i].role = "system"
             IN  IF only THEN InsertAt(input, (IF prefix > Len(input) THEN Len(input) ELSE prefix) + 1, Asking)
                 ELSE input

\* Whether mapMessages returns an error.
Unmappable(c, ms) == c # "codex" /\ ~GoodArguments(AllParts(ms))

(***************************************************************************)
(* Streams.  An event has a type, an atom and an index: the tool call a    *)
(* fragment belongs to, or the output item of a Responses event.           *)
(***************************************************************************)
Event(t, n, at) == [t |-> t, n |-> n, at |-> at]
Fresh == Len(wire) + 1

NoCall == [id |-> 0, name |-> 0, args |-> <<>>]
NewAcc == [content |-> <<>>, refusal |-> <<>>, thinking |-> <<>>, opaque |-> FALSE,
           calls |-> [i \in 0 .. 1 |-> NoCall], began |-> {}, finish |-> "",
           list |-> <<>>, done |-> FALSE, items |-> <<>>, seen |-> {}]

Failed == Message("failed", <<>>)

\* parseAssistantMessage of the two chat clients
parseAssistantMessage(c, think, opaque, content, calls) ==
    LET owner == CASE c = "compatible" -> IF opaque THEN c ELSE ""
                   [] c = "ollama"     -> IF TrimSpace(think) # <<>> THEN c ELSE ""
        ps == (IF TrimSpace(think) # <<>> \/ owner # ""
               THEN <<Reasoning(TrimSpace(think), owner)>> ELSE <<>>)
              \o (IF TrimSpace(content) # <<>> THEN <<Text(TrimSpace(content), "")>> ELSE <<>>)
              \o calls
    IN  IF ps = <<>> THEN <<>> ELSE <<Message("assistant", ps)>>

\* fault: [DONE] alone ends the answer
FinishedAnyway(s) == TRUE

Finished(s) == s.finish # ""

(***************************************************************************)
(* completionStream.result: no finish reason, a gap in the indexes or a    *)
(* call without id or name is an error.                                    *)
(***************************************************************************)
result(s) ==
    LET whole == /\ Finished(s)
                 /\ s.began = 0 .. Cardinality(s.began) - 1
                 /\ \A i \in s.began : s.calls[i].id # 0
        calls == [i \in 1 .. Cardinality(s.began) |->
                    ToolCall(s.calls[i - 1].id, s.calls[i - 1].name, s.calls[i - 1].args)]
        text  == IF TrimSpace(s.content) = <<>> THEN s.refusal ELSE s.content
    IN  IF whole THEN parseAssistantMessage("compatible", s.thinking, s.opaque, text, calls)
        ELSE <<Failed>>

(***************************************************************************)
(* completionStream.add.  Choices after the finish reason and a changed    *)
(* id are errors; other choices are ignored.                               *)
(***************************************************************************)
add(s, e) ==
    CASE e.t = "other"     -> s
      [] e.t = "content"   -> [s EXCEPT !.content = Append(@, e.n)]
      [] e.t = "refusal"   -> [s EXCEPT !.refusal = Append(@, e.n)]
      [] e.t = "reasoning" -> [s EXCEPT !.thinking = Append(@, e.n)]
      [] e.t = "opaque"    -> [s EXCEPT !.opaque = TRUE]
      [] e.t = "head"      -> [s EXCEPT !.began = @ \cup {e.at}, !.calls[e.at].id = e.n,
                                        !.calls[e.at].name = e.n]
      [] e.t = "args"      -> [s EXCEPT !.began = @ \cup {e.at},
                                        !.calls[e.at].args = Append(@, e.n)]
      [] e.t = "finish"    -> [s EXCEPT !.finish = "stop"]

addRefuses(s, e) ==
    \/ e.t = "error"
    \/ e.t # "other" /\ s.finish # ""
    \/ e.t = "head" /\ s.calls[e.at].id # 0

\* streamCollector.Record
Record(s, e) ==
    CASE e.t = "content"   -> [s EXCEPT !.content = Append(@, e.n)]
      [] e.t = "reasoning" -> [s EXCEPT !.thinking = Append(@, e.n)]
      [] e.t = "toolcall"  -> [s EXCEPT !.list = Append(@, [id |-> e.at, name |-> e.n])]
      [] e.t = "finish"    -> [s EXCEPT !.done = TRUE]

\* streamCollector.Result and its parseAssistantMessage: a call without id gets its place as id.
collectorResult(s) ==
    IF ~s.done THEN <<Failed>>
    ELSE parseAssistantMessage("ollama", s.thinking, FALSE, s.content,
            [i \in DOMAIN s.list |->
                ToolCall(IF s.list[i].id = 0 THEN FallbackId(i) ELSE s.list[i].id,
                         s.list[i].name, <<>>)])

(***************************************************************************)
(* Responses API: items are the provider's output items, in the order it   *)
(* opened them, each with the atoms it generated.  streamSnapshot.record   *)
(* collects text from deltas, or from the done event of an item that had   *)
(* none, and each call once.                                               *)
(***************************************************************************)
TextKinds == {"final", "commentary", "plain"}

snapshotRecord(s, e) ==
    LET kind == s.items[e.at].kind
        put(t) == IF kind \in TextKinds THEN [t EXCEPT !.content = Append(@, e.n)]
                  ELSE IF kind = "refusal" THEN [t EXCEPT !.refusal = Append(@, e.n)]
                  ELSE t
    IN  CASE e.t = "delta" -> [put(s) EXCEPT !.items[e.at].text = Append(@, e.n),
                                             !.items[e.at].summary = Append(@, e.n),
                                             !.seen = @ \cup {e.at}]
          [] e.t = "itemdone" /\ kind = "call" ->
                IF e.at \in s.seen THEN s
                ELSE [s EXCEPT !.list = Append(@, [id |-> s.items[e.at].id, name |-> s.items[e.at].id]),
                               !.seen = @ \cup {e.at}]
          [] e.t = "itemdone" -> IF e.at \in s.seen THEN s
                                 ELSE [put(s) EXCEPT !.items[e.at].text = <<e.n>>,
                                                     !.items[e.at].summary = <<e.n>>,
                                                     !.seen = @ \cup {e.at}]

\* parseResponse, with the summaries of reasoning items present or not
parseResponse(items, summaries) ==
    FlattenSeq([i \in DOMAIN items |->
        LET it == items[i]
        IN  CASE it.kind \in TextKinds \cup {"refusal"} ->
                    IF TrimSpace(it.text) = <<>> THEN <<>>
                    ELSE <<Message("assistant", <<Text(it.text,
                            IF it.kind \in {"final", "commentary"} THEN it.kind ELSE "")>>)>>
              [] it.kind = "reasoning" ->
                    <<Message("assistant", <<Reasoning(IF summaries THEN TrimSpace(it.text) ELSE <<>>,
                                                       "codex")>>)>>
              [] it.kind = "call" -> <<Message("assistant", <<ToolCall(it.id, it.id, <<>>)>>)>>])

\* The reasoning parts that came without a summary get the streamed one.
withSummaries(ms, items) ==
    LET R == SelectSeq(items, LAMBDA it : it.kind = "reasoning")
        Nth(i) == Cardinality({j \in 1 .. i : ms[j].parts[1].kind = "reasoning"})
    IN  [i \in DOMAIN ms |->
            IF ms[i].parts[1].kind = "reasoning" /\ TrimSpace(ms[i].parts[1].x) = <<>>
            THEN [ms[i] EXCEPT !.parts[1].x = TrimSpace(R[Nth(i)].summary)] ELSE ms[i]]

mergeResultWithStreamSnapshot(ms, s) ==
    LET filled == withSummaries(ms, s.items)
        text   == IF TrimSpace(s.content) # <<>> THEN TrimSpace(s.content) ELSE TrimSpace(s.refusal)
        spoken == IF FinalAnswer(filled) = <<>> /\ text # <<>>
                  THEN Append(filled, Message("assistant", <<Text(text, "")>>)) ELSE filled
        calls  == [i \in DOMAIN s.list |->
                     Message("assistant", <<ToolCall(s.list[i].id, s.list[i].name, <<>>)>>)]
    IN  IF Ids(AllParts(spoken)) = <<>> THEN spoken \o calls ELSE spoken

-----------------------------------------------------------------------------
(***************************************************************************)
(* One completion: the request, the events, the end.                       *)
(***************************************************************************)
Complete(c) ==
    /\ phase = "idle" /\ replies < MaxReplies
    /\ client' = c
    /\ phase' = IF Unmappable(c, conv) THEN "failed" ELSE "streaming"
    /\ wire' = <<>> /\ acc' = NewAcc /\ shown' = <<>> /\ reply' = <<>>
    /\ UNCHANGED <<conv, replies>>

\* A stream goes on with the next event.
Proceed(e, next) ==
    /\ wire' = Append(wire, e)
    /\ acc' = next
    /\ UNCHANGED <<conv, client, phase, reply, replies>>

\* What has been assembled is forgotten with the error.
Fail ==
    /\ phase' = "failed"
    /\ wire' = <<>> /\ acc' = NewAcc /\ shown' = <<>>
    /\ UNCHANGED <<conv, client, reply, replies>>

\* The stream is over with these messages.
Return(e, ms) ==
    IF ms = <<Failed>> THEN Fail
    ELSE /\ phase' = "ok"
         /\ reply' = ms
         /\ wire' = Append(wire, e)
         /\ UNCHANGED <<conv, client, acc, shown, replies>>

\* fault: reasoning goes to the same callback
ShowsThinking(e) == e.t \in {"content", "reasoning"}

\* The events whose text goes to onDelta.
Shows(e) == e.t = "content"

Room == phase = "streaming" /\ Len(wire) < MaxEvents

ChatEvents ==
    {Event(t, Fresh, 0) : t \in {"content", "reasoning"}}
        \cup {Event("content", Blank, 0), Event("finish", 0, 0)}

CompatibleEvents ==
    ChatEvents \cup {Event(t, Fresh, 0) : t \in {"refusal", "opaque", "other", "error"}}
        \cup {Event("head", Fresh, i) : i \in 0 .. 1}
        \cup {Event("args", n, i) : n \in {Fresh, Broken}, i \in 0 .. 1}

\* completionStream events, onDelta called once the chunk is taken in
CompatibleEvent ==
    /\ Room /\ client = "compatible"
    /\ \E e \in CompatibleEvents :
          IF addRefuses(acc, e) THEN Fail
          ELSE /\ Proceed(e, add(acc, e))
               /\ shown' = IF Shows(e) THEN Append(shown, e.n) ELSE shown

CompatibleDone ==
    /\ phase = "streaming" /\ client = "compatible"
    /\ Return(Event("done", 0, 0), result(acc))

OllamaEvents == ChatEvents \cup {Event("toolcall", Fresh, at) : at \in {0, Fresh}}

OllamaEvent ==
    /\ Room /\ client = "ollama"
    /\ \E e \in OllamaEvents :
          /\ Proceed(e, Record(acc, e))
          /\ shown' = IF Shows(e) THEN Append(shown, e.n) ELSE shown

\* The response body ends, in the middle of the answer or after it.
OllamaEnd ==
    /\ phase = "streaming" /\ client = "ollama"
    /\ Return(Event("end", 0, 0), collectorResult(acc))

\* The provider opens its next output item.
CodexItem ==
    /\ Room /\ client = "codex" /\ Len(acc.items) < MaxItems
    /\ \E kind \in TextKinds \cup {"refusal", "reasoning", "call"} :
          acc' = [acc EXCEPT !.items = Append(@, [kind |-> kind, text |-> <<>>,
                    summary |-> <<>>, id |-> Len(acc.items) + 1])]
    /\ UNCHANGED <<conv, client, phase, wire, shown, reply, replies>>

CodexEvent ==
    /\ Room /\ client = "codex" /\ acc.items # <<>>
    /\ UNCHANGED shown
    /\ LET at == Len(acc.items)
       IN  \/ /\ acc.items[at].kind # "call"
              /\ Proceed(Event("delta", Fresh, at), snapshotRecord(acc, Event("delta", Fresh, at)))
           \/ Proceed(Event("itemdone", Fresh, at), snapshotRecord(acc, Event("itemdone", Fresh, at)))

\* Every item of the response has been streamed.
Streamed == DOMAIN acc.items = acc.seen

(***************************************************************************)
(* The terminal event, then the end of the stream: with the output items   *)
(* listed, listed without their reasoning summaries, or not listed.        *)
(***************************************************************************)
CodexDone ==
    /\ phase = "streaming" /\ client = "codex" /\ Streamed
    /\ \E listed \in {"all", "bare", "none"} :
          Return(Event("completed", 0, 0),
                 mergeResultWithStreamSnapshot(
                    IF listed = "none" THEN <<>> ELSE parseResponse(acc.items, listed = "all"), acc))

\* The response failed, the connection broke, no terminal event came, or the caller gave up.
Break == phase = "streaming" /\ Fail

(***************************************************************************)
(* The loop stores the reply and one tool message per call, which may      *)
(* bring an image.                                                         *)
(***************************************************************************)
Keep ==
    /\ phase = "ok"
    /\ \E pictured \in SUBSET DOMAIN Ids(AllParts(reply)) :
          LET ids == Ids(AllParts(reply))
          IN  conv' = conv \o reply \o [i \in DOMAIN ids |->
                 Message("tool", <<ToolResultPart(ids[i])>> \o
                    (IF i \in pictured THEN <<Image(80 + i)>> ELSE <<>>))]
    /\ phase' = "idle" /\ replies' = replies + 1
    /\ wire' = <<>> /\ acc' = NewAcc /\ shown' = <<>> /\ reply' = <<>> /\ client' = "none"

\* After an error the turn is given up; the conversation is as it was.
GiveUp ==
    /\ phase = "failed"
    /\ phase' = "idle" /\ replies' = MaxReplies
    /\ wire' = <<>> /\ acc' = NewAcc /\ shown' = <<>> /\ reply' = <<>> /\ client' = "none"
    /\ UNCHANGED conv

WireInit ==
    /\ conv \in Starts
    /\ client = "none" /\ phase = "idle" /\ replies = 0
    /\ wire = <<>> /\ acc = NewAcc /\ shown = <<>> /\ reply = <<>>

WireNext ==
    \/ \E c \in Clients : Complete(c)
    \/ CompatibleEvent \/ CompatibleDone
    \/ OllamaEvent \/ OllamaEnd
    \/ CodexItem \/ CodexEvent \/ CodexDone
    \/ Break \/ Keep \/ GiveUp

WireSpec == WireInit /\ [][WireNext]_pwVars

-----------------------------------------------------------------------------
(***************************************************************************)
(* What was sent, read off the whole stream.                               *)
(***************************************************************************)
Sent(t)     == SelectSeq(wire, LAMBDA e : e.t = t)
Atoms(t)    == [i \in DOMAIN Sent(t) |-> Sent(t)[i].n]
ArgsOf(i)   == LET A == SelectSeq(wire, LAMBDA e : e.t = "args" /\ e.at = i)
               IN  [j \in DOMAIN A |-> A[j].n]
CallParts   == OfKind(AllParts(reply), "call")
WordsOf(ms) == Black(Xs(OfKind(AllParts(ms), "text")))
ItemsOf(K)  == SelectSeq(acc.items, LAMBDA it : it.kind \in K)
ItemWords(K) == Black(FlattenSeq([i \in DOMAIN ItemsOf(K) |-> ItemsOf(K)[i].text]))

\* A result is the whole answer: a stream that ended early gives none, every
\* call the provider made is in it once, in the provider's order and with all
\* of its arguments, and the text is there (completionStream.result,
\* streamCollector.Result, mergeResultWithStreamSnapshot).
CommittedIsWhole ==
    phase = "ok" =>
      CASE client = "compatible" ->
             /\ Sent("finish") # <<>>
             /\ Len(CallParts) = Cardinality({e.at : e \in Range(Sent("head")) \cup Range(Sent("args"))})
             /\ \A i \in DOMAIN CallParts : CallParts[i].args = ArgsOf(i - 1)
             /\ WordsOf(reply) = IF Black(Atoms("content")) # <<>> THEN Black(Atoms("content"))
                                 ELSE Atoms("refusal")
        [] client = "ollama" ->
             /\ Sent("finish") # <<>>
             /\ [i \in DOMAIN CallParts |-> CallParts[i].name] = Atoms("toolcall")
             /\ Cardinality(Range(Ids(AllParts(reply)))) = Len(CallParts)
             /\ WordsOf(reply) = Black(Atoms("content"))
        [] client = "codex" ->
             /\ Ids(AllParts(reply)) = [i \in DOMAIN ItemsOf({"call"}) |-> ItemsOf({"call"})[i].id]
             /\ ItemWords(TextKinds) = <<>> \/ ItemWords({"refusal"}) = <<>> =>
                  IF ItemWords({"final", "plain", "refusal"}) # <<>>
                  THEN WordsOf(reply) = ItemWords(TextKinds \cup {"refusal"})
                  ELSE Range(WordsOf(reply)) = Range(ItemWords({"commentary"}))

\* The text streamed to the user while the answer was assembled is the answer
\* that is stored, but for surrounding white space and a refusal, which is not
\* streamed (onDelta in completionStream.add and streamCollector.Record).
PreviewIsTheAnswer ==
    phase = "ok" /\ client # "codex" /\ Black(shown) # <<>> => Xs(OfKind(AllParts(reply), "text")) = TrimSpace(shown)

Block(r, j) ==
    LET B == {i \in 1 .. j : r[i].role \in {"assistant", "call"}}
        E == CHOOSE i \in B : \A k \in B : k <= i
    IN  IF B = {} THEN {} ELSE {i \in B : \A k \in i .. E : r[k].role \in {"assistant", "call", "reasoning"}}
CallsIn(r)  == FlattenSeq([i \in DOMAIN r |-> r[i].calls])

\* Whichever client the conversation goes to next, every call is sent once, in
\* order and with the arguments it was made with, and every result follows the
\* calls it answers with no other assistant turn between; Ollama is told the
\* name of the tool that was really called, although ids it did not issue
\* repeat from one answer to the next (mapMessages, toolNamesByID).
CallsMeetTheirResults ==
    phase = "idle" => \A c \in Clients : ~Unmappable(c, conv) =>
      LET r == mapMessages(c, conv)
      IN  /\ CallsIn(r) = OfKind(AllParts(conv), "call")
          /\ Len(SelectSeq(r, LAMBDA it : it.role = "tool")) = Len(OfKind(AllParts(conv), "result"))
          /\ \A j \in DOMAIN r : r[j].role = "tool" =>
               \E i \in Block(r, j) : \E p \in Range(r[i].calls) :
                    p.x = r[j].x /\ (c = "ollama" => p.name = r[j].name)

\* Every word and every image of the conversation reaches the model exactly
\* once and in order, whichever client takes over; what one client keeps
\* opaque is sent back to no other; and there is always something to answer
\* (buildAssistantReplayMessage, codexItems, withPromptProfile, Asking).
NothingIsLostInReplay ==
    phase = "idle" => \A c \in Clients : ~Unmappable(c, conv) =>
      LET r     == mapMessages(c, conv)
          Spoke == SelectSeq(r, LAMBDA it : it.role \in {"user", "assistant"})
          Told  == SelectSeq(conv, LAMBDA m : m.role \in {"user", "assistant"})
      IN  /\ Black(FlattenSeq([i \in DOMAIN Spoke |-> Spoke[i].x])) = WordsOf(Told)
          /\ FlattenSeq([i \in DOMAIN r |-> r[i].images]) = Xs(OfKind(AllParts(conv), "image"))
          /\ \A i \in DOMAIN r : r[i].own \in {"", c}
          /\ \E i \in DOMAIN r : r[i].role # "system"
=============================================================================
