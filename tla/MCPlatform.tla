------------------------------ MODULE MCPlatform ------------------------------
(***************************************************************************)
(* Model checking of the parts of the platform that share no state in one  *)
(* process: the Queen's task operations, the lease runner, the streaming   *)
(* runtime, risk pricing, routing, the trainer and its registry, the       *)
(* planning console, the performance pipeline and the agents' page.  As in *)
(* MCMarketServices a behaviour exercises one of them, its part.           *)
(***************************************************************************)
EXTENDS QueenOrchestrator, AgentRunner, StreamRuntime, RiskPricing, AgentRouting, Trainer,
        PlanningConsole, PerformancePipeline, AgentChat

CONSTANTS p1, p2, v1, v2, e1, e2    \* model values, p and v symmetric

VARIABLE part
platform == <<queenTaskVars, runnerVars, runtimeVars, pricingVars, routingVars, trainerVars,
              registryVars, consoleVars, pipelineVars, chatVars>>

-----------------------------------------------------------------------------
(* QueenOrchestrator: two agents share a model; the history of a task may  *)
(* already be as long as one of these.                                     *)
MCModelServing == [x \in Agents |-> IF x = "b2" THEN "b" ELSE x]
MCOffers == {<<"execute-1", "a">>, <<"execute-1", "b">>, <<"judge-1", "b">>, <<"final-1", "c">>}
MCAmendments == {[n \in DOMAIN Proposed(FALSE) \ {"repair-1"} |->
                     IF n = "judge-1" THEN Node("execute", TRUE, Nobody) ELSE Proposed(FALSE)[n]]}
Accepting(a) == [agent |-> a, accepted |-> TRUE]
Planned == [NewTask(FALSE) EXCEPT !.version = 6,
               !.assigned = ("plan-1" :> Accepting("a")) @@ ("execute-1" :> Accepting("a"))
                            @@ ("judge-1" :> Accepting("b")) @@ ("deliver-1" :> Accepting("c"))
                            @@ ("final-1" :> Accepting("c"))]
Started == [Planned EXCEPT !.version = 8, !.confirmed = 1, !.run = TRUE]
Submitted == [Started EXCEPT !.version = 9, !.outputs = "execute-1" :> [by |-> "a", id |-> 9]]
Worked == [Submitted EXCEPT !.version = 10,
              !.judged = "execute-1" :> [by |-> "b", of |-> 9, approved |-> FALSE]]

-----------------------------------------------------------------------------
(* AgentRunner: a lease of an agent registered, one of another model, and   *)
(* one of an agent whose runtime is offline.                                *)
MCRegistered == [a \in {"a", "o"} |-> "m"]
MCLeaseAgent == [l \in Leases |-> IF l = "l3" THEN "o" ELSE "a"]
MCLeaseModel == [l \in Leases |-> IF l = "l2" THEN "other" ELSE "m"]

(* StreamRuntime. *)
MCScopeOf == [k \in Keys |-> IF k = "pub" THEN "public" ELSE "owner"]
Manifest(model, status, ownerOnly, streams) ==
    [model |-> model, status |-> status, ownerOnly |-> ownerOnly, streams |-> streams]
MCManifests == [a |-> Manifest("m", "online", TRUE, TRUE), b |-> Manifest("n", "degraded", FALSE, FALSE),
                c |-> Manifest("n", "online", FALSE, TRUE), d |-> Manifest("k", "offline", FALSE, FALSE)]
Want(kind, agents) == [kind |-> kind, agents |-> agents]
MCWants == {Want("chat", <<"a">>), Want("chat", <<"b">>), Want("orchestrate", <<"b", "a">>),
            Want("queen", <<>>)}

(* RiskPricing: a graph drafted without nodes and then with three of two agents, *)
(* an odd budget, an assessment whose deposit does not divide evenly and one that *)
(* calls for an operator's approval.                                             *)
PricedNode(a, share, risk, reputation) ==
    [agent |-> a, share |-> share, risk |-> risk, reputation |-> reputation]
MCTerms ==
    (0 :> [budget |-> 1001, nodes |-> <<>>])
    @@ (1 :> [budget |-> 1001, nodes |-> [n1 |-> PricedNode("x", 3000, 2, 1),
                                          n2 |-> PricedNode("y", 3500, 1, 1),
                                          n3 |-> PricedNode("y", 3500, 1, 1)]])
MCPlace == [x |-> 1, y |-> 2]
MCAssessed == {[f \in DOMAIN RISK_WEIGHTS |-> IF f = "complexity" THEN 43 ELSE 41],
               [f \in DOMAIN RISK_WEIGHTS |-> 90]}

(* AgentRouting: two of four candidates are newcomers, two share a model.   *)
MCModelTag == [a |-> "m", b |-> "n", c |-> "n", d |-> "o"]
MCFirstSeen == [a |-> 0, b |-> 0, c |-> 1, d |-> 1]
MCOutlay == [a |-> 10, b |-> 20, c |-> 10, d |-> 30]
MCByName == [a |-> 1, b |-> 2, c |-> 3, d |-> 4]
MCShuffle == <<<<"d", "c", "b", "a">>, <<"c", "d", "a", "b">>>>
MCKinds == [match |-> {}, dispute |-> {"judge", "repair"}]
MCAdvices == {[http |-> 429, choice |-> "a", confidence |-> 0, odds |-> [a |-> 100]],
              [http |-> 200, choice |-> "a", confidence |-> 90, odds |-> [a |-> 60, b |-> 40]],
              [http |-> 200, choice |-> "judge", confidence |-> 90, odds |-> [judge |-> 50, repair |-> 50]]}
MCPolicy == [mode |-> "shadow", calibrated |-> TRUE, confidence |-> 50, margin |-> 10]

(* The registry: what the gate recommends, and audits that fit it or not.   *)
MCRecommended == [r \in {"run"} |-> "approve"]
Audit(outcome, reason, decision) ==
    [outcome |-> outcome, reason |-> reason, decision |-> decision, reviewer |-> "w"]
MCAudits == {Audit("approved", "policy-review-approved", "d2"),
             Audit("rejected", "gate-recommendation-accepted", "d1"),
             Audit("rejected", "policy-review-rejected", "d1")}

(* PerformancePipeline: a page load of its own, or reports that arrive with *)
(* values, one of them of frames only.                                      *)
Reported == [BlankPage EXCEPT !.document = "reported", !.live = TRUE, !.recovered = TRUE]
Report(at, metrics, n) ==
    [metrics |-> metrics, mode |-> "csr", outcome |-> "csr", faults |-> 0, fallback |-> 0,
     at |-> at, order |-> n]
Painting == {<<"LCP", 30>>}

(* AgentChat: callers that lie about their length, come from elsewhere or   *)
(* bring no human.                                                          *)
Foreign(path, method, origin, declared, size, shape, token) ==
    [path |-> path, method |-> method, origin |-> origin, declared |-> declared, size |-> size,
     shape |-> shape, token |-> token, crew |-> <<>>]
MCStrangers == {Foreign("chat", "POST", "none", 1, 2, "chat", "good"),
                Foreign("graphql", "POST", "listed", 2, 1, "queen", "good"),
                Foreign("graphql", "POST", "foreign", 1, 1, "queen", "good"),
                Foreign("chat", "POST", "own", 1, 1, "chat", "bad"),
                Foreign("chat", "GET", "own", 1, 1, "chat", "good"),
                Foreign("chat", "POST", "own", 1, 1, "queen", "good")}
MCShown == {[a |-> "m", b |-> "n"], [a |-> "m", b |-> "m"]}

(* PlanningConsole: what may end a plan.                                    *)
Ends == {end \in {"revised", "closed", "expired"} :
            CASE end = "revised" -> task.version > 1
              [] end = "closed" -> ~task.open
              [] end = "expired" -> \E v \in AskedVersions : ~asked[v].live}

-----------------------------------------------------------------------------
\* A part that a behaviour does not exercise begins in one of its initial states.
MCInit ==
    /\ part \in {"queen", "leases", "streams", "pricing", "routing", "trainer", "registry",
                 "console", "load", "reports", "page", "strangers"}
    /\ memory = [r \in Runtimes |-> NoTask] /\ calls = [c \in Callers |-> NoCall] /\ served = 0
    /\ IF part = "queen"
       THEN stored \in {NoTask, Planned, Started, Submitted, Worked} /\ home \in [Callers -> Runtimes]
       ELSE stored = NoTask /\ home = [c \in Callers |-> e1]
    /\ RunnerInit /\ RuntimeInit /\ PricingInit /\ RoutingInit /\ TrainerInit /\ RegistryInit
    /\ ConsoleInit /\ wallet = Owner
    /\ pages = [e \in PageLoads |-> IF part = "load" /\ e = e1 THEN BlankPage ELSE Reported]
    /\ \E metrics \in IF part = "reports" THEN {{<<"LCP", 10>>}, {<<"FPS", 1>>}} ELSE {Painting} :
         envelopes = CASE part = "reports" -> (e1 :> Report("signed", metrics, 0)) @@ (e2 :> Report("signed", Painting, 1))
                       [] part = "load" -> e2 :> Report("lost", Painting, 0)
                       [] OTHER -> <<>>
    /\ queue = <<>> /\ accepted = {} /\ receives = [e \in PageLoads |-> 0] /\ dead = {}
    /\ dispatcher = NoInvocation /\ tasks = <<>> /\ samples = {} /\ summaries = {}
    /\ ChatInit
    /\ part \notin {"page", "strangers"} => humanCheck = FALSE
    /\ part # "page" => display = CHOOSE d \in Shown : TRUE

\* The dispatcher and the page of a load run after each other here, and so do the
\* page and the strangers, whose requests meet only in the set the runtime received.
\* The browser that prices leaves the publisher's wallet once.  An advice ends a
\* behaviour of the routing, as the next draw drops it and nothing else reads it.  A
\* plan ceases to be current in one of three ways.
MCNext ==
    /\ UNCHANGED part
    /\ \/ /\ part = "queen" /\ QueenTaskNext
          /\ UNCHANGED <<runnerVars, runtimeVars, pricingVars, routingVars, trainerVars, registryVars,
                         consoleVars, pipelineVars, chatVars>>
       \/ /\ part = "leases" /\ RunnerNext
          /\ UNCHANGED <<queenTaskVars, runtimeVars, pricingVars, routingVars, trainerVars, registryVars,
                         consoleVars, pipelineVars, chatVars>>
       \/ /\ part = "streams" /\ RuntimeNext
          /\ UNCHANGED <<queenTaskVars, runnerVars, pricingVars, routingVars, trainerVars, registryVars,
                         consoleVars, pipelineVars, chatVars>>
       \/ /\ part = "pricing" /\ PricingNext
          /\ panel.wallet # Publisher => panel'.wallet = panel.wallet
          /\ UNCHANGED <<queenTaskVars, runnerVars, runtimeVars, routingVars, trainerVars, registryVars,
                         consoleVars, pipelineVars, chatVars>>
       \/ /\ part = "routing" /\ advice.status = "none" /\ RoutingNext
          /\ UNCHANGED <<queenTaskVars, runnerVars, runtimeVars, pricingVars, trainerVars, registryVars,
                         consoleVars, pipelineVars, chatVars>>
       \/ /\ part = "trainer" /\ TrainerNext
          /\ UNCHANGED <<queenTaskVars, runnerVars, runtimeVars, pricingVars, routingVars, registryVars,
                         consoleVars, pipelineVars, chatVars>>
       \/ /\ part = "registry" /\ RegistryNext
          /\ UNCHANGED <<queenTaskVars, runnerVars, runtimeVars, pricingVars, routingVars, trainerVars,
                         consoleVars, pipelineVars, chatVars>>
       \/ /\ part = "console" /\ ConsoleNext
          /\ Cardinality(Ends') <= 1
          /\ UNCHANGED <<queenTaskVars, runnerVars, runtimeVars, pricingVars, routingVars, trainerVars,
                         registryVars, pipelineVars, chatVars>>
       \/ /\ part \in {"load", "reports"} /\ PipelineNext
          /\ part = "load" => dispatcher' = NoInvocation
          /\ UNCHANGED <<queenTaskVars, runnerVars, runtimeVars, pricingVars, routingVars, trainerVars,
                         registryVars, consoleVars, chatVars>>
       \/ /\ part \in {"page", "strangers"} /\ ChatNext
          /\ IF part = "page" THEN UNCHANGED exchanges["stranger"] ELSE UNCHANGED pageVars
          /\ UNCHANGED <<queenTaskVars, runnerVars, runtimeVars, pricingVars, routingVars, trainerVars,
                         registryVars, consoleVars, pipelineVars>>

MCSpec == MCInit /\ [][MCNext]_<<part, platform>>

MCSymmetry == Permutations({p1, p2}) \cup Permutations({v1, v2})
=============================================================================
