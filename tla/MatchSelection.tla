--------------------------- MODULE MatchSelection ---------------------------
(***************************************************************************)
(* How one task finds its agent: the publisher chooses ranking or a draw,  *)
(* the matcher is woken by events and writes candidates, and a draw is     *)
(* frozen with the qualified pool, decided by a random word on chain, read *)
(* by whoever refreshes the status, and recorded as the only candidate.    *)
(*                                                                         *)
(* Every transaction of the service and of the matcher takes the advisory  *)
(* lock of the task, so a transaction is a step; reading the oracle is not *)
(* part of one.  The chain is seen twice: at its head and at the depth the *)
(* reader asks for.                                                        *)
(***************************************************************************)
EXTENDS Integers, FiniteSets, SequencesExt, Collections

CONSTANTS
    Ranking,    \* the agents, best total score first
    ByKey,      \* the same agents in the order of their keys
    ModelOf,    \* ModelOf[a]: the model behind a
    Newcomers,  \* agents without a completed task
    Words,      \* random words the oracle may deliver
    Requests,   \* request identifiers of the coordinator
    Refreshers, \* concurrent refreshes by the publisher
    MaxClock, MaxVersion, MaxStamp  \* bounds of the qualification clock, the
                                    \* task's version and the workflow's record

Agents == Range(Ranking)
Nobody == "nobody"

ASSUME MatchingConstants ==
    /\ Ranking \in Seq(Agents) /\ ByKey \in Seq(Agents) /\ Range(ByKey) = Agents
    /\ \A i, j \in DOMAIN Ranking : Ranking[i] = Ranking[j] => i = j
    /\ \A i, j \in DOMAIN ByKey : ByKey[i] = ByKey[j] => i = j
    /\ Newcomers \subseteq Agents /\ Nobody \notin Agents
    /\ Words \subseteq Nat /\ {MaxClock, MaxVersion, MaxStamp} \subseteq Nat

VARIABLES
    mode,       \* tasks.selection_mode
    version,    \* tasks.version
    agent,      \* tasks.agent_id; the status is matching while there is none
    qualified,  \* the agents that pass the gates of the recall, by the database
    clock,      \* vrf_qualification_clock.revision
    stamp,      \* record version of the task's workflow, 0 without one
    confirmed,  \* its graph is confirmed or running
    intent,     \* row of vrf_selection_intents with its frozen pool
    binding,    \* phase and request of vrf_exploration_bindings
    verified,   \* agent of vrf_verified_selections
    events,     \* match.requested.v1 events in the outbox, delivered at least once
    consumed,   \* the matcher's consumed_events
    candidates, \* match_candidates
    draw,       \* the selector's record at the head of the chain
    deep,       \* the same, as deep as the reader asks for
    refresh     \* refresh[p]: where p stands, and what it brought from the oracle

matchVars == <<mode, version, agent, qualified, clock, stamp, confirmed, intent, binding,
               verified, events, consumed, candidates, draw, deep, refresh>>
marketVars == <<version, agent, qualified, clock, stamp, confirmed>>
bindingVars == <<intent, binding, verified, mode>>
matcherVars == <<events, consumed, candidates>>
chainVars == <<draw, deep>>

NoIntent == [mode |-> "none"]
NoEvidence == [request |-> 0]
Undrawn == [state |-> "None"]

MatchInit ==
    /\ mode = "ranked" /\ version = 1 /\ agent = Nobody
    /\ qualified \in SUBSET Agents /\ clock = 1 /\ stamp \in {0, 1} /\ confirmed = FALSE
    /\ intent = NoIntent /\ binding = [phase |-> "none", request |-> 0]
    /\ verified = Nobody /\ events = {} /\ consumed = {} /\ candidates = {}
    /\ draw = Undrawn /\ deep = Undrawn
    /\ refresh = [p \in Refreshers |-> [at |-> "idle", evidence |-> NoEvidence]]

----------------------------------------------------------------------------
\* Selecting from a pool.  One agent per model, the nearest to the task.
Before(seq, a, b) == \E i, j \in DOMAIN seq : i < j /\ seq[i] = a /\ seq[j] = b
PoolOf(S) == {a \in S : ~\E b \in S : ModelOf[b] = ModelOf[a] /\ Before(Ranking, b, a)}

\* The ticket falls on one candidate of the frozen pool, all of weight 1.
Winner(pool, word) ==
    LET order == Those(ByKey, pool) IN order[(word % Len(order)) + 1]

\* appendHistory: at most limit more of seq, the first of every model not seated yet.
Novel(seated, seq) ==
    {i \in DOMAIN seq :
        /\ \A k \in DOMAIN seated : ModelOf[seated[k]] # ModelOf[seq[i]]
        /\ \A j \in DOMAIN seq : ModelOf[seq[j]] = ModelOf[seq[i]] => i <= j}
Seat(seated, seq, limit) ==
    seated \o Leading(Subsequence(seq, Novel(seated, seq)), Min({limit, 3 - Len(seated)}))

\* Two seats for the history, the next for newcomers in the seed's order, the
\* rest for the history again.
Seats(S, shuffled) ==
    LET history == Those(Ranking, S \ Newcomers)
        newcomers == Those(shuffled, S \cap Newcomers)
        explored == Seat(Seat(<<>>, history, 2), newcomers, 3)
    IN Seat(explored, history, 3 - Len(explored))

----------------------------------------------------------------------------
\* What the market does meanwhile: agents and scores change (setAccess among
\* others), the task is edited, its workflow moves.
AgentsChange ==
    /\ clock < MaxClock
    /\ clock' = clock + 1 /\ qualified' \in SUBSET Agents
    /\ UNCHANGED <<version, agent, stamp, confirmed, bindingVars, matcherVars, chainVars, refresh>>

TaskEdited ==
    /\ agent = Nobody /\ version < MaxVersion
    /\ version' = version + 1 /\ qualified' \in SUBSET Agents
    /\ UNCHANGED <<agent, clock, stamp, confirmed, bindingVars, matcherVars, chainVars, refresh>>

WorkflowMoves ==
    /\ stamp < MaxStamp
    /\ stamp = 0 => intent.mode # "vrf-exploration"
    /\ stamp' = stamp + 1 /\ confirmed' \in {confirmed, TRUE}
    /\ UNCHANGED <<version, agent, qualified, clock, bindingVars, matcherVars, chainVars, refresh>>

\* lock(), as every operation of the publisher begins.
Unlocked == agent = Nobody /\ ~confirmed

Configure(m) ==
    /\ Unlocked /\ version < MaxVersion
    /\ intent = NoIntent /\ candidates = {} /\ consumed = {}
    /\ m = "vrf-exploration" => qualified # {}
    /\ mode' = m /\ version' = version + 1
    /\ intent' = [mode |-> m, version |-> version + 1, revision |-> clock, stamp |-> stamp,
                  pool |-> IF m = "ranked" THEN {} ELSE PoolOf(qualified)]
    /\ binding' = [phase |-> IF m = "ranked" THEN "none" ELSE "awaiting_request", request |-> 0]
    /\ events' = events \cup {"configured"}
    /\ UNCHANGED <<agent, qualified, clock, stamp, confirmed, verified, consumed, candidates,
                   chainVars, refresh>>

----------------------------------------------------------------------------
\* vrf_match_gate.
Gate ==
    IF agent # Nobody THEN "locked"
    ELSE IF mode = "ranked" THEN "ranked"
    ELSE IF <<version, clock, stamp>> # <<intent.version, intent.revision, intent.stamp>> THEN "binding_stale"
    ELSE IF verified # Nobody THEN "verified" ELSE "oracle_pending"

\* The matcher: the gate, then the claim of the event; an event that was
\* consumed before counts again only for a verified draw.  The guard of
\* match_candidates asks the gate once more and would find the same.
Match(e) ==
    /\ Gate # "locked"
    /\ consumed' = consumed \cup {e}
    /\ \/ /\ Gate = "ranked" /\ e \notin consumed
          /\ \E shuffled \in SetToSeqs(Newcomers) :
               LET seats == Seats(qualified, shuffled)
               IN candidates' = candidates \cup
                    {[agent |-> seats[i], rank |-> i] : i \in DOMAIN seats}
       \/ Gate = "verified" /\ candidates' = candidates \cup {[agent |-> verified, rank |-> 1]}
       \/ Gate \in {"oracle_pending", "binding_stale"} /\ UNCHANGED candidates
       \/ Gate = "ranked" /\ e \in consumed /\ UNCHANGED candidates
    /\ UNCHANGED <<marketVars, bindingVars, events, chainVars, refresh>>

\* Whoever writes tasks.agent_id meets the guard of the table.
Assign(a) ==
    /\ agent = Nobody /\ version < MaxVersion
    /\ mode = "vrf-exploration" => Gate = "verified" /\ a = verified
    /\ agent' = a /\ version' = version + 1
    /\ UNCHANGED <<qualified, clock, stamp, confirmed, bindingVars, matcherVars, chainVars, refresh>>

----------------------------------------------------------------------------
\* The selector contract.  Its freezer gives it a pool once, the service's or another.
Commitment == <<intent.version, intent.revision, intent.stamp, intent.pool>>

FreezePool(commitment) ==
    /\ draw.state = "None"
    /\ draw' = [state |-> "Frozen", commitment |-> commitment]
    /\ UNCHANGED <<marketVars, bindingVars, matcherVars, deep, refresh>>

RequestSelection(r) ==
    /\ draw.state = "Frozen"
    /\ draw' = [state |-> "Requested", commitment |-> draw.commitment, request |-> r]
    /\ UNCHANGED <<marketVars, bindingVars, matcherVars, deep, refresh>>

\* A callback that is unknown, late by a second or malformed changes nothing.
Fulfill(r, word) ==
    /\ draw.state = "Requested" /\ draw.request = r
    /\ draw' = [state |-> "RandomReady", commitment |-> draw.commitment,
                request |-> r, word |-> word]
    /\ UNCHANGED <<marketVars, bindingVars, matcherVars, deep, refresh>>

Finalize ==
    /\ draw.state = "RandomReady" /\ draw' = [draw EXCEPT !.state = "Selected"]
    /\ UNCHANGED <<marketVars, bindingVars, matcherVars, deep, refresh>>

\* Blocks are added until the head's record is deep enough, or replaced.
Deepen ==
    /\ deep # draw /\ deep' = draw
    /\ UNCHANGED <<marketVars, bindingVars, matcherVars, draw, refresh>>
Reorganise ==
    /\ draw # deep /\ draw' = deep
    /\ UNCHANGED <<marketVars, bindingVars, matcherVars, deep, refresh>>

----------------------------------------------------------------------------
\* refreshFromOracle: what is pending, the read outside the transaction, the
\* binding of its request, the record.  Any of them may fail and end the refresh.
Moves(p, to, evidence) == refresh' = [refresh EXCEPT ![p] = [at |-> to, evidence |-> evidence]]

ReadPending(p) ==
    /\ refresh[p].at = "idle" /\ Unlocked
    /\ mode = "vrf-exploration" /\ Gate = "oracle_pending"
    /\ Moves(p, "asking", NoEvidence)
    /\ UNCHANGED <<marketVars, bindingVars, matcherVars, chainVars>>

\* Mutant: the reader looks at the head of the chain.
SeenAtHead == draw
\* The record at head - confirmations + 1, which is still canonical at the end.
Seen == deep

AskOracle(p) ==
    /\ refresh[p].at = "asking"
    /\ Seen.state \in {"RandomReady", "Selected"} /\ Seen.commitment = Commitment
    /\ Moves(p, "answered", [request |-> Seen.request, agent |-> Winner(intent.pool, Seen.word)])
    /\ UNCHANGED <<marketVars, bindingVars, matcherVars, chainVars>>

BindEvidence(p) ==
    /\ refresh[p].at = "answered" /\ Unlocked /\ Gate = "oracle_pending"
    /\ \/ /\ binding.phase = "awaiting_request"
          /\ binding' = [phase |-> "awaiting_oracle", request |-> refresh[p].evidence.request]
       \/ /\ binding.phase # "awaiting_request" /\ binding.request = refresh[p].evidence.request
          /\ UNCHANGED binding
    /\ Moves(p, "bound", refresh[p].evidence)
    /\ UNCHANGED <<marketVars, intent, verified, mode, matcherVars, chainVars>>

\* vrf_record_verified_selection, which computes the winner again, and the
\* wake-up of the matcher.
RecordVerified(p) ==
    /\ refresh[p].at = "bound" /\ Gate = "oracle_pending"
    /\ binding.request = refresh[p].evidence.request
    /\ verified' = refresh[p].evidence.agent
    /\ events' = events \cup {"wakeup"}
    /\ Moves(p, "idle", NoEvidence)
    /\ UNCHANGED <<marketVars, intent, binding, mode, consumed, candidates, chainVars>>

GiveUp(p) ==
    /\ refresh[p].at # "idle" /\ Moves(p, "idle", NoEvidence)
    /\ UNCHANGED <<marketVars, bindingVars, matcherVars, chainVars>>

MatchNext ==
    \/ AgentsChange \/ TaskEdited \/ WorkflowMoves
    \/ \E m \in {"ranked", "vrf-exploration"} : Configure(m)
    \/ \E e \in events : Match(e)
    \/ \E a \in Agents : Assign(a)
    \/ intent.mode = "vrf-exploration" /\ \E c \in {Commitment, <<"another">>} : FreezePool(c)
    \/ \E r \in Requests : RequestSelection(r) \/ \E word \in Words : Fulfill(r, word)
    \/ Finalize \/ Deepen \/ Reorganise
    \/ \E p \in Refreshers :
         ReadPending(p) \/ AskOracle(p) \/ BindEvidence(p) \/ RecordVerified(p) \/ GiveUp(p)

MatchSpec == MatchInit /\ [][MatchNext]_matchVars

----------------------------------------------------------------------------
MatchTypeOK ==
    /\ mode \in {"ranked", "vrf-exploration"} /\ agent \in Agents \cup {Nobody}
    /\ verified \in Agents \cup {Nobody} /\ qualified \subseteq Agents
    /\ events \subseteq {"configured", "wakeup"} /\ consumed \subseteq events
    /\ \A c \in candidates : c.agent \in Agents /\ c.rank \in 1..3
    /\ binding.request \in Requests \cup {0}
    /\ refresh \in [Refreshers -> [at : {"idle", "asking", "answered", "bound"},
                     evidence : {NoEvidence} \cup [request : Requests, agent : Agents]]]

\* Events that are repeated or cross a refresh never rank a task twice: its candidates
\* have a rank and a model of their own.  A draw has one winner: what is recorded is
\* what the deep random word picks from the pool frozen with the task, and nobody else
\* becomes a candidate or is assigned, whichever refreshes, callbacks,
\* reorganisations and events cross.  And whoever a draw assigns still belongs to the
\* pool that would be drawn from now: nothing that qualification rests on has changed
\* since the freeze.
OnlyTheDrawnAgent ==
    /\ [](/\ MatchTypeOK
          /\ \A c, d \in candidates :
               c.rank = d.rank \/ ModelOf[c.agent] = ModelOf[d.agent] => c = d
          /\ verified # Nobody =>
               /\ deep.state \in {"RandomReady", "Selected"} /\ deep.commitment = Commitment
               /\ verified = Winner(intent.pool, deep.word)
          /\ mode = "vrf-exploration" =>
               /\ \A c \in candidates : c.agent = verified
               /\ agent \in {Nobody, verified})
    /\ [][mode = "vrf-exploration" /\ agent' # agent =>
             agent' \in PoolOf(qualified) /\ intent.pool = PoolOf(qualified)]_matchVars
=============================================================================
