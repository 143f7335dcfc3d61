----------------------------- MODULE AgentRunner -----------------------------
(***************************************************************************)
(* LocalAgentRunner: pollers of one process take leases from the control   *)
(* plane, run the leased model, and report a result (runner.ts).  The      *)
(* control plane is external: it may offer a lease again for as long as it *)
(* likes, to any poller.                                                   *)
(***************************************************************************)
EXTENDS Naturals, FiniteSets

CONSTANTS Pollers, Leases,
          Registered,      \* agent -> model of its manifest, for the agents registered
          OfflineAgents,
          LeaseAgent, LeaseModel,
          MaxConcurrency, MaxOffers    \* MaxOffers bounds the leases handed out

ASSUME RunnerConstants ==
    /\ MaxConcurrency \in {1, 2} /\ MaxOffers \in Nat /\ IsFiniteSet(Pollers)
    /\ DOMAIN LeaseAgent = Leases /\ DOMAIN LeaseModel = Leases

VARIABLES poller,      \* what each poller awaits, and the lease it holds
          flights,     \* leases being run, and whether their signal was aborted
          completed,   \* lease -> result, kept for the life of the process
          stopped,
          modelCalls,  \* calls of a model for a lease, in this process
          reported,    \* <<lease, result>> the control plane was sent by this process
          offers

runnerVars == <<poller, flights, completed, stopped, modelCalls, reported, offers>>

Resting == [at |-> "resting"]
LeaseCount == Cardinality(DOMAIN flights)

RunnerInit ==
    /\ poller = [p \in Pollers |-> Resting]
    /\ flights = <<>> /\ completed = <<>> /\ stopped = FALSE
    /\ modelCalls = [l \in Leases |-> 0] /\ reported = {} /\ offers = 0

\* The count of running leases is read before the lease is asked for.
PollOnce(p) ==
    /\ poller[p] = Resting /\ ~stopped /\ LeaseCount < MaxConcurrency
    /\ poller' = [poller EXCEPT ![p] = [at |-> "leasing"]]
    /\ UNCHANGED <<flights, completed, stopped, modelCalls, reported, offers>>

\* No lease, or the control plane did not answer.
NoLease(p) ==
    /\ poller[p].at = "leasing"
    /\ poller' = [poller EXCEPT ![p] = Resting]
    /\ UNCHANGED <<flights, completed, stopped, modelCalls, reported, offers>>

Refusal(l) ==
    CASE LeaseAgent[l] \notin DOMAIN Registered -> "VALIDATION_FAILED"
      [] LeaseAgent[l] \in DOMAIN Registered /\ Registered[LeaseAgent[l]] # LeaseModel[l] -> "VALIDATION_FAILED"
      [] LeaseAgent[l] \in OfflineAgents -> "UNAVAILABLE"
      [] OTHER -> "none"

\* A Map of the process with one entry more.
Entered(map, l, value) == [x \in DOMAIN map \cup {l} |-> IF x = l THEN value ELSE map[x]]

\* A lease already under way is joined, not run a second time.
JoinsNothing(l) == FALSE
UnderWay(l) == l \in DOMAIN flights

RunLease(p, l) ==
    /\ poller[p].at = "leasing" /\ offers < MaxOffers
    /\ offers' = offers + 1
    /\ poller' = [poller EXCEPT ![p] = [at |-> "waiting", lease |-> l]]
    /\ IF l \in DOMAIN completed \/ UnderWay(l)
       THEN UNCHANGED <<flights, completed, modelCalls>>
       ELSE IF Refusal(l) # "none"
       THEN completed' = Entered(completed, l, Refusal(l)) /\ UNCHANGED <<flights, modelCalls>>
       ELSE /\ flights' = Entered(flights, l, FALSE)
            /\ modelCalls' = [modelCalls EXCEPT ![l] = @ + 1]
            /\ UNCHANGED completed
    /\ UNCHANGED <<stopped, reported>>

\* The lease expired, or the caller gave up: its signal is aborted.
AbortLease(l) ==
    /\ l \in DOMAIN flights
    /\ flights' = [flights EXCEPT ![l] = TRUE]
    /\ UNCHANGED <<poller, completed, stopped, modelCalls, reported, offers>>

\* Stop aborts what runs now, and only that.
Stop ==
    /\ ~stopped
    /\ stopped' = TRUE
    /\ flights' = [l \in DOMAIN flights |-> TRUE]
    /\ UNCHANGED <<poller, completed, modelCalls, reported, offers>>

\* An answer may still come in after the abort; an error is named by its cause.
Finish(l) ==
    /\ l \in DOMAIN flights
    /\ flights' = [x \in DOMAIN flights \ {l} |-> flights[x]]
    /\ \E result \in {"succeeded", IF ~flights[l] THEN "MODEL_ERROR"
                                   ELSE IF stopped THEN "CANCELLED" ELSE "TIMEOUT"} :
          completed' = Entered(completed, l, result)
    /\ UNCHANGED <<poller, stopped, modelCalls, reported, offers>>

Submit(p) ==
    /\ poller[p].at = "waiting" /\ poller[p].lease \in DOMAIN completed
    /\ poller' = [poller EXCEPT ![p] = Resting]
    /\ \/ reported' = reported \cup {<<poller[p].lease, completed[poller[p].lease]>>}
       \/ UNCHANGED reported       \* the request failed and pollOnce throws
    /\ UNCHANGED <<flights, completed, stopped, modelCalls, offers>>

\* The memory of what was run is the process's own.
RestartRunner ==
    /\ poller' = [p \in Pollers |-> Resting]
    /\ flights' = <<>> /\ completed' = <<>> /\ stopped' = FALSE
    /\ modelCalls' = [l \in Leases |-> 0] /\ reported' = {}
    /\ UNCHANGED offers

RunnerNext ==
    \/ \E p \in Pollers : PollOnce(p) \/ NoLease(p) \/ Submit(p) \/ \E l \in Leases : RunLease(p, l)
    \/ \E l \in Leases : AbortLease(l) \/ Finish(l)
    \/ Stop \/ RestartRunner

RunnerSpec == RunnerInit /\ [][RunnerNext]_runnerVars

\* However often a lease is offered, and to however many pollers at once, a
\* process calls a model for it at most once, only the model the lease names on a
\* registered agent that is online, and reports one result; a lease reads
\* cancelled only after a stop (runner.ts:75-158).
LeaseAnsweredOnce ==
    /\ \A l \in Leases :
          /\ modelCalls[l] <= 1
          /\ modelCalls[l] > 0 =>
                /\ LeaseAgent[l] \in DOMAIN Registered \ OfflineAgents
                /\ Registered[LeaseAgent[l]] = LeaseModel[l]
          /\ Cardinality({r \in reported : r[1] = l}) <= 1
          /\ (<<l, "succeeded">> \in reported => modelCalls[l] = 1)
    /\ (\E l \in Leases : <<l, "CANCELLED">> \in reported) => stopped
    /\ LeaseCount <= Cardinality(Pollers)
=============================================================================
