----------------------------- MODULE AgentChat -----------------------------
(***************************************************************************)
(* The agents' page and the edge it talks to: a chat or an orchestration   *)
(* sent from LocalAgentsPage.tsx, checked by the worker (pages-worker.ts), *)
(* signed and passed to the runtime, and the answer read back as it comes. *)
(* Other callers use the same routes.  StreamRuntime is the runtime.       *)
(***************************************************************************)
EXTENDS Naturals, Sequences, FiniteSets, FiniteSetsExt, SequencesExt, Collections

CONSTANTS Shown,             \* what health may report: functions agent -> model tag
          Strangers,         \* requests of callers that are not this page
          MaxBytes,          \* limit of a request's body
          RuntimeConfigured,
          MaxTurns, MaxPieces

ASSUME ChatConstants ==
    /\ RuntimeConfigured \in BOOLEAN
    /\ {MaxBytes, MaxTurns, MaxPieces} \subseteq Nat \ {0}
    /\ \A r \in Strangers : r.crew = <<>>   \* whom a stranger names is not followed

MAX_ORCHESTRATION_AGENTS == 3
Peers == {"page", "stranger"}

VARIABLES humanCheck,  \* TURNSTILE_SECRET is set, for as long as the worker is deployed
          busy, turn, offline,
          display,     \* agent -> model tag, as last reported
          crew,        \* agents picked for an orchestration, in order
          messages,    \* what the page shows: [role, turn, text]
          flight,      \* the page's request under way: [kind, turn, index], or grounded
          exchanges,   \* caller -> the exchange the edge has with it
          wire,        \* what the edge has passed on and the page has not read
          streamed,    \* turn -> pieces the runtime answered with
          reached      \* requests the runtime has received

chatVars == <<humanCheck, busy, turn, offline, display, crew, messages, flight, exchanges, wire, streamed, reached>>
pageVars == <<humanCheck, busy, turn, offline, display, crew, messages, flight>>

NoExchange == [at |-> "none", request |-> {}]
Grounded == [kind |-> "none", turn |-> 0, index |-> 0]

ChatInit ==
    /\ humanCheck \in BOOLEAN /\ busy = FALSE /\ turn = 0 /\ offline = TRUE /\ display \in Shown /\ crew = <<>>
    /\ messages = <<>> /\ flight = Grounded
    /\ exchanges = [c \in Peers |-> NoExchange] /\ wire = <<>> /\ streamed = <<>> /\ reached = {}

-----------------------------------------------------------------------------
(* The page.                                                               *)

OrchestrationAgents == Those(crew, DOMAIN display)
Models(agents) == {display[a] : a \in Range(agents)}
hasDuplicateModels(agents) == Cardinality(Models(agents)) < Len(agents)

ReadHealth(health, reachable) ==
    /\ offline' = ~reachable /\ display' = health
    /\ UNCHANGED <<humanCheck, busy, turn, crew, messages, flight, exchanges, wire, streamed, reached>>

addSelectedToOrchestration(a) ==
    /\ ~busy /\ Len(crew) < MAX_ORCHESTRATION_AGENTS /\ a \in DOMAIN display
    /\ a \notin Range(crew) /\ display[a] \notin Models(OrchestrationAgents)
    /\ crew' = Append(crew, a)
    /\ UNCHANGED <<humanCheck, busy, turn, offline, display, messages, flight, exchanges, wire, streamed, reached>>
resetOrchestration ==
    /\ ~busy /\ crew # <<>> /\ crew' = <<>>
    /\ UNCHANGED <<humanCheck, busy, turn, offline, display, messages, flight, exchanges, wire, streamed, reached>>

Says(role, text) == [role |-> role, turn |-> turn + 1, text |-> text]
\* The page sends its own origin and no human token; only a long history is too large.
PageRequest(path, shape, size, agents) ==
    [path |-> path, method |-> "POST", origin |-> "own", declared |-> size, size |-> size,
     shape |-> shape, token |-> "none", crew |-> agents]

Takeoff(kind, request) ==
    /\ busy' = TRUE /\ turn' = turn + 1
    /\ messages' = messages \o <<Says("user", <<>>), Says("assistant", <<>>)>>
    /\ exchanges' = [exchanges EXCEPT !["page"] = [at |-> "gate", request |-> {request}]]
    /\ streamed' = Append(streamed, <<>>)
    /\ UNCHANGED <<humanCheck, offline, display, crew, wire, reached>>

\* The reply is added to the message after the last one shown and the prompt.
AfterLast == Len(messages) + 1
AfterPrompt == Len(messages) + 2
SubmitPrompt(size) ==
    /\ ~busy /\ ~offline /\ turn < MaxTurns
    /\ Takeoff("chat", PageRequest("chat", "chat", size, <<>>))
    /\ flight' = [kind |-> "chat", turn |-> turn + 1, index |-> AfterPrompt]

canRunOrchestration == ~offline /\ ~busy /\ Len(OrchestrationAgents) >= 2 /\ ~hasDuplicateModels(OrchestrationAgents)
runOrchestration(size) ==
    /\ canRunOrchestration /\ turn < MaxTurns
    /\ Takeoff("orchestration", PageRequest("graphql", "orchestrate", size, OrchestrationAgents))
    /\ flight' = [kind |-> "orchestration", turn |-> turn + 1, index |-> 0]

replaceLastAssistant(text) ==
    LET last == Max({i \in DOMAIN messages : messages[i].role = "assistant"}) IN
    [messages EXCEPT ![last].text = text]

\* Aborting settles the request at once: nothing more of it is read.
cancel ==
    /\ busy
    /\ busy' = FALSE /\ flight' = Grounded /\ wire' = <<>>
    /\ exchanges' = [exchanges EXCEPT !["page"] = NoExchange]
    /\ UNCHANGED <<humanCheck, turn, offline, display, crew, messages, streamed, reached>>

Lands ==
    /\ busy' = FALSE /\ flight' = Grounded /\ wire' = <<>>
    /\ exchanges' = [exchanges EXCEPT !["page"] = NoExchange]
    /\ UNCHANGED <<humanCheck, turn, offline, display, crew, streamed, reached>>

Failure == <<<<"failed">>>>
\* The next thing the page reads: a piece, an error, the end, or a broken connection.
\* An event that is no JSON counts as an error; reading goes on after one.
ReadPiece ==
    /\ flight.kind = "chat" /\ wire # <<>> /\ Head(wire)[1] \in {"delta", "error"}
    /\ messages' = [messages EXCEPT ![flight.index].text =
                        IF Head(wire)[1] = "error" THEN Failure ELSE Append(@, Head(wire))]
    /\ wire' = Tail(wire)
    /\ UNCHANGED <<humanCheck, busy, turn, offline, display, crew, flight, exchanges, streamed, reached>>
ReadEnd ==
    /\ flight.kind = "chat" /\ wire # <<>> /\ Head(wire)[1] = "end"
    /\ UNCHANGED messages /\ Lands
ReadRefusal ==
    /\ flight.kind = "chat" /\ wire # <<>> /\ Head(wire)[1] = "refused"
    /\ messages' = [messages EXCEPT ![flight.index].text = Failure] /\ Lands

\* An orchestration is read whole; errors are added as a message of their own.
ReadResult ==
    /\ flight.kind = "orchestration" /\ wire # <<>> /\ Last(wire)[1] \in {"end", "refused"}
    /\ messages' = IF Last(wire)[1] = "end" /\ Front(wire) # <<>> /\ \A i \in DOMAIN Front(wire) : wire[i][1] = "delta"
                   THEN replaceLastAssistant(Front(wire))
                   ELSE Append(messages, [role |-> "assistant", turn |-> turn, text |-> Failure])
    /\ Lands

-----------------------------------------------------------------------------
(* The edge.                                                               *)

OnlyEdge == UNCHANGED pageVars
Request(c) == CHOOSE r \in exchanges[c].request : TRUE
Advances(c, at) == exchanges' = [exchanges EXCEPT ![c].at = at]
\* What a stranger is answered is not followed.
Answers(c, parts) ==
    /\ exchanges' = [exchanges EXCEPT ![c] = IF c = "page" THEN [@ EXCEPT !.at = "answered"] ELSE NoExchange]
    /\ wire' = IF c = "page" THEN wire \o parts ELSE wire

Arrive(r) ==
    /\ exchanges["stranger"] = NoExchange
    /\ exchanges' = [exchanges EXCEPT !["stranger"] = [at |-> "gate", request |-> {r}]]
    /\ UNCHANGED <<wire, streamed, reached>> /\ OnlyEdge

isOriginAllowed(r) == r.origin \in {"none", "own", "listed"}
WithinLimits(r) == r.size <= MaxBytes /\ (r.path = "chat" => r.declared <= MaxBytes)
TrustsTheHeader(r) == r.declared <= MaxBytes
Bounded(r) == WithinLimits(r)
WellShaped(r) == r.shape \in IF r.path = "chat" THEN {"chat"} ELSE {"orchestrate", "queen"}
Passes(r) == r.method = "POST" /\ isOriginAllowed(r) /\ Bounded(r) /\ WellShaped(r)

Gate(c) ==
    /\ exchanges[c].at = "gate"
    /\ IF Passes(Request(c)) THEN Advances(c, "human") /\ UNCHANGED wire ELSE Answers(c, <<<<"refused">>>>)
    /\ UNCHANGED <<streamed, reached>> /\ OnlyEdge

\* Without a token the service is not asked.  A call that fails ends the worker's
\* own request with an error.
verifyTurnstile(c, passed) ==
    /\ exchanges[c].at = "human"
    /\ passed => ~humanCheck \/ Request(c).token = "good"
    /\ ~passed => humanCheck
    /\ IF passed THEN Advances(c, "runtime") /\ UNCHANGED wire ELSE Answers(c, <<<<"refused">>>>)
    /\ UNCHANGED <<streamed, reached>> /\ OnlyEdge

\* Trouble behind the edge is an answer of status 200 that carries an error: an event of
\* the stream, or errors beside empty data.  A runtime that denies a task keeps its status.
Trouble(c) == IF Request(c).path = "chat" THEN <<<<"error">>, <<"end">>>> ELSE <<<<"refused">>>>
CallRuntime(c, arrives) ==
    /\ exchanges[c].at = "runtime"
    /\ IF RuntimeConfigured /\ arrives
       THEN Advances(c, "streaming") /\ reached' = reached \cup {Request(c)} /\ UNCHANGED wire
       ELSE Answers(c, Trouble(c)) /\ UNCHANGED reached
    /\ UNCHANGED streamed /\ OnlyEdge
RuntimeFails(c) ==    \* a status that is no success, or no answer within 120 s
    /\ exchanges[c].at = "streaming" /\ (c = "page" => streamed[turn] = <<>>)
    /\ Answers(c, Trouble(c)) /\ UNCHANGED <<streamed, reached>> /\ OnlyEdge

RuntimeSends ==
    /\ exchanges["page"].at = "streaming" /\ Len(streamed[turn]) < MaxPieces
    /\ LET piece == <<"delta", turn, Len(streamed[turn]) + 1>> IN
       /\ wire' = Append(wire, piece) /\ streamed' = [streamed EXCEPT ![turn] = Append(@, piece)]
    /\ UNCHANGED <<exchanges, reached>> /\ OnlyEdge
RuntimeErrs ==
    /\ exchanges["page"].at = "streaming" /\ wire' = Append(wire, <<"error">>)
    /\ Advances("page", "closing") /\ UNCHANGED <<streamed, reached>> /\ OnlyEdge
\* The stream ends, or the connection breaks, which the reader sees as a failure.
StreamEnds(c, broken) ==
    /\ exchanges[c].at \in {"streaming", "closing"}
    /\ Answers(c, IF broken THEN <<<<"refused">>>> ELSE <<<<"end">>>>)
    /\ UNCHANGED <<streamed, reached>> /\ OnlyEdge

-----------------------------------------------------------------------------
ChatNext ==
    \/ \E health \in Shown, reachable \in BOOLEAN : ReadHealth(health, reachable)
    \/ \E a \in DOMAIN display : addSelectedToOrchestration(a)
    \/ resetOrchestration \/ cancel \/ ReadPiece \/ ReadEnd \/ ReadRefusal \/ ReadResult
    \/ \E size \in {MaxBytes, MaxBytes + 1} : SubmitPrompt(size) \/ runOrchestration(size)
    \/ \E r \in Strangers : Arrive(r)
    \/ \E c \in Peers :
         \/ Gate(c) \/ RuntimeFails(c)
         \/ \E passed \in BOOLEAN : verifyTurnstile(c, passed)
         \/ \E arrives \in BOOLEAN : CallRuntime(c, arrives)
         \/ \E broken \in BOOLEAN : StreamEnds(c, broken)
    \/ RuntimeSends \/ RuntimeErrs

ChatSpec == ChatInit /\ [][ChatNext]_chatVars

-----------------------------------------------------------------------------
Heard == Subsequence(wire, {i \in DOMAIN wire : wire[i][1] = "delta"})
\* Whatever was cancelled, refused or broken before: a reply holds pieces of its own turn,
\* in the order sent, and none is missing but those not read yet; a prompt keeps its
\* words; a page at rest is fed by no exchange.  And whatever a caller declares, the
\* runtime hears only requests of a permitted origin that fit the limit, whose sender
\* was checked where that is asked.
RepliesAreTheirOwn ==
    /\ \A i \in DOMAIN messages :
         IF messages[i].role = "user" THEN messages[i].text = <<>>
         ELSE messages[i].text # Failure =>
              /\ IsPrefix(messages[i].text, streamed[messages[i].turn])
              /\ i = flight.index => messages[i].text \o Heard = streamed[turn]
    /\ ~busy => flight = Grounded /\ exchanges["page"] = NoExchange /\ wire = <<>>
    /\ \A r \in reached : /\ isOriginAllowed(r) /\ r.size <= MaxBytes
                          /\ humanCheck => r.token = "good"
                          /\ Len(r.crew) <= MAX_ORCHESTRATION_AGENTS
=============================================================================
