---------------------------- MODULE StreamRuntime ----------------------------
(***************************************************************************)
(* The local runtime's one signed door (stream-runtime.ts, signing.ts,     *)
(* runtime-server.ts): requests signed by the edge under a public or an    *)
(* owner key arrive late, twice or out of order; each is verified, its     *)
(* nonce remembered, and then served as a chat stream, a sequential        *)
(* orchestration of several agents, or a call of the Queen's orchestrator. *)
(* The wall clock is taken to be monotonic.                                *)
(***************************************************************************)
EXTENDS Naturals, Sequences, FiniteSets, TLC

CONSTANTS Keys,          \* signing keys the runtime holds
          ScopeOf,       \* the caller scope each key may sign for
          Nonces,
          Window, MaxTime,
          Stamps,        \* what a signer's clock may show
          Manifests,     \* agent -> [model, status, ownerOnly, streams]
          Wants,         \* what callers ask: [kind, agents]
          QueenAuthorized,   \* whether the host authorises Queen mutations
          MaxRuns, MaxDeltas \* bounds on requests served and on deltas per stream

ASSUME RuntimeConstants ==
    /\ ScopeOf \in [Keys -> {"public", "owner"}]
    /\ Window \in Nat /\ MaxTime \in Nat /\ Stamps \subseteq Nat
    /\ MaxRuns \in Nat /\ MaxDeltas \in Nat

\* A chat is with one agent; an orchestration names two at least (live-chat.ts:21).
ASSUME WantsShaped ==
    \A want \in Wants :
        /\ want.kind \in {"chat", "orchestrate", "queen"}
        /\ Len(want.agents) \in Nat /\ DOMAIN want.agents = 1..Len(want.agents)
        /\ want.kind = "chat" => Len(want.agents) = 1
        /\ want.kind = "orchestrate" => Len(want.agents) >= 2

VARIABLES clock, sent,   \* requests signed so far; any of them may arrive, again
          seen,          \* the nonce store: <<key, nonce>> -> timestamp
          runs           \* requests served by this process, in order

runtimeVars == <<clock, sent, seen, runs>>

Apart(a, b) == IF a < b THEN b - a ELSE a - b
Reachable(a) == a \in DOMAIN Manifests /\ Manifests[a].status # "offline"
CanSelect(a, scope) == Manifests[a].ownerOnly => scope = "owner"
Usable(a, scope) == Reachable(a) /\ CanSelect(a, scope)

RuntimeInit == clock = 0 /\ sent = {} /\ seen = <<>> /\ runs = <<>>

Tick == clock < MaxTime /\ clock' = clock + 1 /\ UNCHANGED <<sent, seen, runs>>

\* The signer's clock may be off by more than the window, either way.
SignRequest(k, n, ts, want) ==
    /\ \A m \in sent : <<m.key, m.nonce>> # <<k, n>>      \* nonces are fresh UUIDs
    /\ sent' = sent \cup {[key |-> k, scope |-> ScopeOf[k], nonce |-> n, ts |-> ts, want |-> want]}
    /\ UNCHANGED <<clock, seen, runs>>

\* Timestamps in the future are outside the window like those in the past.
InWindowPastOnly(ts) == clock <= ts + Window
InWindow(ts) == Apart(clock, ts) <= Window

\* A scope header that was changed or lost no longer matches the signature.
Verified(m, header) ==
    /\ InWindow(m.ts)
    /\ header = ScopeOf[m.key] /\ header = m.scope
    /\ <<m.key, m.nonce>> \notin {e \in DOMAIN seen : Apart(clock, seen[e]) <= Window}

Remember(m) ==
    [e \in {x \in DOMAIN seen : Apart(clock, seen[x]) <= Window} \cup {<<m.key, m.nonce>>} |->
        IF e = <<m.key, m.nonce>> THEN m.ts ELSE seen[e]]

\* What an accepted request is answered with, before anything is awaited.
Distinct(agents) ==
    \A i, j \in DOMAIN agents : i # j => Manifests[agents[i]].model # Manifests[agents[j]].model
Opening(want, scope) ==
    CASE want.kind = "queen" -> IF QueenAuthorized THEN scope ELSE "FORBIDDEN"
      [] want.kind = "chat" ->
            IF ~Reachable(want.agents[1]) THEN "MODEL_UNAVAILABLE"
            ELSE IF ~CanSelect(want.agents[1], scope) THEN "FORBIDDEN" ELSE "meta"
      [] want.kind = "orchestrate" -> IF Distinct(want.agents) THEN "open" ELSE "MODEL_UNAVAILABLE"

Ongoing == {"meta", "open"}

\* log: what the caller is shown; called: the agents that were run for it.
Accept(m, header) ==
    /\ Len(runs) < MaxRuns /\ Verified(m, header)
    /\ seen' = Remember(m)
    /\ LET opening == Opening(m.want, header) IN
       runs' = Append(runs, [of |-> m, scope |-> header, log |-> <<opening>>, called |-> {},
                             cause |-> "none", closed |-> opening \notin Ongoing])
    /\ UNCHANGED <<clock, sent>>

Extended(run, log, called, closed) ==
    [run EXCEPT !.log = run.log \o log, !.called = run.called \cup called, !.closed = closed]
Update(i, log, called, closed) ==
    /\ runs' = [runs EXCEPT ![i] = Extended(runs[i], log, called, closed)]
    /\ UNCHANGED <<clock, sent, seen>>
Open(i, kind) == i \in DOMAIN runs /\ ~runs[i].closed /\ runs[i].of.want.kind = kind
Crew(i) == runs[i].of.want.agents

\* A streaming model sends deltas; the others send their answer as one.
Delta(i) ==
    /\ Open(i, "chat")
    /\ Len(runs[i].log) <= (IF Manifests[Crew(i)[1]].streams THEN MaxDeltas ELSE 1)
    /\ Update(i, <<"delta">>, {Crew(i)[1]}, FALSE)
Done(i) ==
    /\ Open(i, "chat")
    /\ Manifests[Crew(i)[1]].streams \/ Len(runs[i].log) > 1
    /\ Update(i, <<"done">>, {Crew(i)[1]}, TRUE)

\* Each agent is looked up when its turn comes; the first is asked again to sum up.
NextStep(i) == Len(runs[i].log)
Step(i) ==
    /\ Open(i, "orchestrate") /\ NextStep(i) <= Len(Crew(i))
    /\ Usable(Crew(i)[NextStep(i)], runs[i].scope)
    /\ Update(i, <<"output">>, {Crew(i)[NextStep(i)]}, FALSE)
Synthesize(i) ==
    /\ Open(i, "orchestrate") /\ NextStep(i) > Len(Crew(i))
    /\ Usable(Crew(i)[1], runs[i].scope)
    /\ Update(i, <<"done">>, {Crew(i)[1]}, TRUE)

\* The caller went away or the time ran out: the agent's call is aborted.
Abort(i, cause) ==
    /\ i \in DOMAIN runs /\ ~runs[i].closed /\ runs[i].cause # "cancelled"
    /\ runs' = [runs EXCEPT ![i].cause = cause]
    /\ UNCHANGED <<clock, sent, seen>>

\* The agent's call failed, or the next agent may not be used.
ErrorCode(cause) ==
    CASE cause = "cancelled" -> "CANCELLED" [] cause = "timeout" -> "UPSTREAM_TIMEOUT"
      [] OTHER -> "MODEL_UNAVAILABLE"
Break(i) ==
    /\ Open(i, "chat") \/ Open(i, "orchestrate")
    /\ Update(i, <<ErrorCode(runs[i].cause)>>, {}, TRUE)

\* The nonce store lives in memory.
RestartRuntime == runs # <<>> /\ seen' = <<>> /\ runs' = <<>> /\ UNCHANGED <<clock, sent>>

RuntimeNext ==
    \/ Tick \/ RestartRuntime
    \/ \E k \in Keys, n \in Nonces, ts \in Stamps, want \in Wants : SignRequest(k, n, ts, want)
    \/ \E m \in sent, header \in {"public", "owner"} : Accept(m, header)
    \/ \E i \in 1..MaxRuns : \/ Delta(i) \/ Done(i) \/ Step(i) \/ Synthesize(i) \/ Break(i)
                             \/ \E cause \in {"cancelled", "timeout"} : Abort(i, cause)

RuntimeSpec == RuntimeInit /\ [][RuntimeNext]_runtimeVars

-----------------------------------------------------------------------------
Final == {"done", "CANCELLED", "UPSTREAM_TIMEOUT", "MODEL_UNAVAILABLE", "FORBIDDEN", "public", "owner"}

\* Whatever is delivered late, again or out of order, in the life of a process:
\* a signature opens at most one run; an agent reserved to its owner, and the
\* owner's orchestrator, are reached only under the owner's key; an answer ends
\* with exactly one closing event, and one that is done has been through every
\* agent it names (stream-runtime.ts:106-170, 246-289, 386-441; signing.ts:68-192).
ServedOncePerSignature ==
    /\ \A i, j \in DOMAIN runs : i # j => runs[i].of # runs[j].of
    /\ \A i \in DOMAIN runs :
          LET run == runs[i]  last == Len(run.log) IN
          /\ ScopeOf[run.of.key] # "owner" =>
                (\A a \in run.called : ~Manifests[a].ownerOnly) /\ run.log[1] # "owner"
          /\ run.closed <=> run.log[last] \in Final
          /\ \A x \in 1..(last - 1) : run.log[x] \notin Final
          /\ run.log[last] = "done" => run.called = {run.of.want.agents[x] : x \in DOMAIN run.of.want.agents}
=============================================================================
