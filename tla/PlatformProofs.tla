-------------------------- MODULE PlatformProofs --------------------------
(***************************************************************************)
(* The services beside the contracts, each for any number of actors: the   *)
(* lease runner, the streaming runtime, the model registry, the            *)
(* orchestrator's record, the agents' page, pricing, the trainer's holdout *)
(* and the performance pipeline.                                           *)
(*                                                                         *)
(* Every part states what its service keeps as an inductive invariant and  *)
(* takes it through each action.  The lease runner's adds to               *)
(* LeaseAnsweredOnce where a call of a model comes from: a lease that was  *)
(* run is under way or completed, never both, and what is under way is     *)
(* awaited by a poller.                                                    *)
(***************************************************************************)
EXTENDS QueenOrchestrator, AgentRunner, StreamRuntime, RiskPricing, Trainer,
        PerformancePipeline, AgentChat, CollectionsProofs, SequenceTheorems, FiniteSetTheorems, TLAPS

Waiting == [at : {"waiting"}, lease : Leases]
Awaited(l) == \E p \in Pollers : poller[p].at = "waiting" /\ poller[p].lease = l

RunnerTypeOK ==
    /\ poller \in [Pollers -> {Resting, [at |-> "leasing"]} \cup Waiting]
    /\ DOMAIN flights \subseteq Leases /\ DOMAIN completed \subseteq Leases
    /\ modelCalls \in [Leases -> Nat]
    /\ stopped \in BOOLEAN

\* What is under way is awaited, was called once, and is not completed.
FlightsAwaited ==
    \A l \in DOMAIN flights :
        /\ l \notin DOMAIN completed /\ modelCalls[l] = 1 /\ Awaited(l)

CallsAccounted ==
    \A l \in Leases :
        /\ modelCalls[l] <= 1
        /\ modelCalls[l] > 0 => l \in DOMAIN flights \cup DOMAIN completed /\ Refusal(l) = "none"

CompletedAsRun ==
    \A l \in DOMAIN completed :
        /\ completed[l] = "succeeded" => modelCalls[l] = 1
        /\ completed[l] = "CANCELLED" => stopped

ReportedAsCompleted ==
    \A r \in reported : \E l \in DOMAIN completed : r = <<l, completed[l]>>

RunnerIInv ==
    RunnerTypeOK /\ FlightsAwaited /\ CallsAccounted /\ CompletedAsRun /\ ReportedAsCompleted

-----------------------------------------------------------------------------
LEMMA RefusalIs == \A l : Refusal(l) \in {"VALIDATION_FAILED", "UNAVAILABLE", "none"}
  BY DEF Refusal

LEMMA PollersDiffer == Resting.at # "waiting" /\ [at |-> "leasing"].at # "waiting"
  BY DEF Resting

\* A process that starts has run nothing.
LEMMA FreshRunner ==
  ASSUME poller' = [p \in Pollers |-> Resting], flights' = <<>>, completed' = <<>>, stopped' = FALSE,
         modelCalls' = [l \in Leases |-> 0], reported' = {}
  PROVE  RunnerIInv'
<1>1. DOMAIN flights' = {} /\ DOMAIN completed' = {}
  OBVIOUS
<1>2. modelCalls' \in [Leases -> Nat] /\ \A l \in Leases : modelCalls'[l] = 0
  OBVIOUS
<1>3. poller' \in [Pollers -> {Resting, [at |-> "leasing"]} \cup Waiting]
  OBVIOUS
<1>4. RunnerTypeOK'
  BY <1>1, <1>2, <1>3 DEF RunnerTypeOK
<1>5. FlightsAwaited' /\ CompletedAsRun'
  BY <1>1 DEF FlightsAwaited, CompletedAsRun
<1>6. CallsAccounted'
  BY <1>2 DEF CallsAccounted
<1>7. ReportedAsCompleted'
  BY DEF ReportedAsCompleted
<1>. QED
  BY <1>4, <1>5, <1>6, <1>7 DEF RunnerIInv

LEMMA InitRunnerIInv == RunnerInit => RunnerIInv
<1>. SUFFICES ASSUME RunnerInit PROVE RunnerIInv
  OBVIOUS
<1>1. DOMAIN flights = {} /\ DOMAIN completed = {}
  BY DEF RunnerInit
<1>2. modelCalls \in [Leases -> Nat] /\ \A l \in Leases : modelCalls[l] = 0
  BY DEF RunnerInit
<1>3. poller \in [Pollers -> {Resting, [at |-> "leasing"]} \cup Waiting] /\ stopped \in BOOLEAN
  BY DEF RunnerInit
<1>4. RunnerTypeOK
  BY <1>1, <1>2, <1>3 DEF RunnerTypeOK
<1>5. FlightsAwaited /\ CompletedAsRun
  BY <1>1 DEF FlightsAwaited, CompletedAsRun
<1>6. CallsAccounted
  BY <1>2 DEF CallsAccounted
<1>7. ReportedAsCompleted
  BY DEF RunnerInit, ReportedAsCompleted
<1>. QED
  BY <1>4, <1>5, <1>6, <1>7 DEF RunnerIInv

\* Polling moves only pollers that await nothing, or whose lease is completed.
LEMMA PollerKeeps ==
  ASSUME RunnerIInv, NEW p \in Pollers, PollOnce(p) \/ NoLease(p) \/ Submit(p)
  PROVE  RunnerIInv'
<1>. USE DEF RunnerIInv
<1>1. /\ flights' = flights /\ completed' = completed /\ modelCalls' = modelCalls /\ stopped' = stopped
      /\ poller' = [poller EXCEPT ![p] = Resting] \/ poller' = [poller EXCEPT ![p] = [at |-> "leasing"]]
  BY DEF PollOnce, NoLease, Submit
<1>2. RunnerTypeOK'
  BY <1>1 DEF RunnerTypeOK
<1>3. ASSUME NEW l \in DOMAIN flights
      PROVE  Awaited(l)'
  <2>1. PICK q \in Pollers : poller[q].at = "waiting" /\ poller[q].lease = l
    BY DEF FlightsAwaited, Awaited
  <2>2. q # p
    BY <1>3, <2>1, PollersDiffer DEF PollOnce, NoLease, Submit, FlightsAwaited
  <2>3. poller'[q] = poller[q]
    BY <1>1, <2>2 DEF RunnerTypeOK
  <2>. QED
    BY <2>1, <2>3 DEF Awaited
<1>4. FlightsAwaited'
  BY <1>1, <1>3 DEF FlightsAwaited
<1>5. ReportedAsCompleted'
  BY <1>1 DEF ReportedAsCompleted, PollOnce, NoLease, Submit
<1>. QED
  BY <1>1, <1>2, <1>4, <1>5 DEF CallsAccounted, CompletedAsRun

\* A lease is run only when it is neither under way nor completed.
LEMMA RunKeeps ==
  ASSUME RunnerIInv, NEW p \in Pollers, NEW l \in Leases, RunLease(p, l)
  PROVE  RunnerIInv'
<1>. USE DEF RunnerIInv
<1>1. /\ poller[p].at = "leasing" /\ poller' = [poller EXCEPT ![p] = [at |-> "waiting", lease |-> l]]
      /\ stopped' = stopped /\ reported' = reported
  BY DEF RunLease
<1>2. poller' \in [Pollers -> {Resting, [at |-> "leasing"]} \cup Waiting]
  BY <1>1 DEF RunnerTypeOK, Waiting
<1>3. \A x : Awaited(x) => Awaited(x)'
  <2>. SUFFICES ASSUME NEW x, NEW q \in Pollers, poller[q].at = "waiting", poller[q].lease = x
                PROVE  poller'[q].at = "waiting" /\ poller'[q].lease = x
    BY DEF Awaited
  <2>1. q # p
    BY <1>1
  <2>. QED
    BY <1>1, <2>1 DEF RunnerTypeOK
<1>4. Awaited(l)'
  <2>1. poller'[p] = [at |-> "waiting", lease |-> l]
    BY <1>1 DEF RunnerTypeOK
  <2>. QED
    BY <2>1 DEF Awaited
<1>5. CASE l \in DOMAIN completed \/ UnderWay(l)
  <2>1. flights' = flights /\ completed' = completed /\ modelCalls' = modelCalls
    BY <1>5 DEF RunLease
  <2>. QED
    BY <1>1, <1>2, <1>3, <2>1 DEF RunnerTypeOK, FlightsAwaited, CallsAccounted, CompletedAsRun, ReportedAsCompleted
<1>6. CASE ~(l \in DOMAIN completed \/ UnderWay(l)) /\ Refusal(l) # "none"
  <2>1. flights' = flights /\ completed' = Entered(completed, l, Refusal(l)) /\ modelCalls' = modelCalls
    BY <1>6 DEF RunLease
  <2>2. /\ DOMAIN completed' = DOMAIN completed \cup {l} /\ completed'[l] = Refusal(l)
        /\ \A x \in DOMAIN completed : completed'[x] = completed[x]
    BY <1>6, <2>1 DEF Entered
  <2>3. completed'[l] # "succeeded" /\ completed'[l] # "CANCELLED" /\ l \notin DOMAIN flights
    BY <1>6, <2>2, RefusalIs DEF UnderWay
  <2>. QED
    BY <1>1, <1>2, <1>3, <2>1, <2>2, <2>3
       DEF RunnerTypeOK, FlightsAwaited, CallsAccounted, CompletedAsRun, ReportedAsCompleted
<1>7. CASE ~(l \in DOMAIN completed \/ UnderWay(l)) /\ Refusal(l) = "none"
  <2>1. /\ flights' = Entered(flights, l, FALSE) /\ completed' = completed
        /\ modelCalls' = [modelCalls EXCEPT ![l] = @ + 1]
    BY <1>7 DEF RunLease
  <2>2. DOMAIN flights' = DOMAIN flights \cup {l} /\ l \notin DOMAIN flights \cup DOMAIN completed
    BY <1>7, <2>1 DEF Entered, UnderWay
  <2>3. modelCalls[l] = 0
    BY <2>2 DEF RunnerTypeOK, CallsAccounted
  <2>4. /\ modelCalls' \in [Leases -> Nat] /\ modelCalls'[l] = 1
        /\ \A x \in Leases \ {l} : modelCalls'[x] = modelCalls[x]
    BY <2>1, <2>3 DEF RunnerTypeOK
  <2>5. RunnerTypeOK'
    BY <1>1, <1>2, <2>1, <2>2, <2>4 DEF RunnerTypeOK
  <2>6. \A x \in DOMAIN flights : x \in Leases \ {l} /\ modelCalls'[x] = 1 /\ Awaited(x)'
    BY <1>3, <2>2, <2>4 DEF RunnerTypeOK, FlightsAwaited
  <2>7. FlightsAwaited'
    BY <1>4, <2>1, <2>2, <2>4, <2>6 DEF FlightsAwaited
  <2>8. CallsAccounted'
    <3>. SUFFICES ASSUME NEW x \in Leases
                  PROVE  /\ modelCalls'[x] <= 1
                         /\ modelCalls'[x] > 0 =>
                               x \in DOMAIN flights' \cup DOMAIN completed' /\ Refusal(x) = "none"
      BY DEF CallsAccounted, Refusal
    <3>1. CASE x = l
      BY <1>7, <2>2, <2>4, <3>1
    <3>2. CASE x # l
      BY <2>1, <2>2, <2>4, <3>2 DEF CallsAccounted
    <3>. QED
      BY <3>1, <3>2
  <2>9. CompletedAsRun'
    BY <1>1, <2>1, <2>2, <2>4 DEF CompletedAsRun, RunnerTypeOK
  <2>10. ReportedAsCompleted'
    BY <1>1, <2>1 DEF ReportedAsCompleted
  <2>. QED
    BY <2>5, <2>7, <2>8, <2>9, <2>10
<1>. QED
  BY <1>5, <1>6, <1>7

\* Aborting, one lease or all, leaves a lease under way.
LEMMA AbortKeeps ==
  ASSUME RunnerIInv, (\E l \in Leases : AbortLease(l)) \/ Stop
  PROVE  RunnerIInv'
<1>. USE DEF RunnerIInv
<1>1. /\ poller' = poller /\ completed' = completed /\ modelCalls' = modelCalls /\ reported' = reported
      /\ DOMAIN flights' = DOMAIN flights
      /\ stopped' \in BOOLEAN
      /\ stopped => stopped'
  BY DEF AbortLease, Stop, RunnerTypeOK
<1>. QED
  BY <1>1 DEF RunnerTypeOK, FlightsAwaited, Awaited, CallsAccounted, CompletedAsRun, ReportedAsCompleted

\* A lease that ends is completed; it reads cancelled only when the process was stopped.
LEMMA FinishKeeps ==
  ASSUME RunnerIInv, NEW l \in Leases, Finish(l)
  PROVE  RunnerIInv'
<1>. USE DEF RunnerIInv
<1>1. /\ l \in DOMAIN flights /\ flights' = [x \in DOMAIN flights \ {l} |-> flights[x]]
      /\ poller' = poller /\ stopped' = stopped /\ modelCalls' = modelCalls /\ reported' = reported
  BY DEF Finish
<1>2. PICK result : /\ completed' = Entered(completed, l, result)
                    /\ result = "CANCELLED" => stopped
  BY DEF Finish
<1>3. DOMAIN flights' = DOMAIN flights \ {l}
  BY <1>1
<1>4. /\ DOMAIN completed' = DOMAIN completed \cup {l} /\ completed'[l] = result
      /\ \A x \in DOMAIN completed : x # l /\ completed'[x] = completed[x]
  BY <1>1, <1>2 DEF Entered, FlightsAwaited
<1>. QED
  BY <1>1, <1>2, <1>3, <1>4
     DEF RunnerTypeOK, FlightsAwaited, Awaited, CallsAccounted, CompletedAsRun, ReportedAsCompleted

LEMMA NextRunnerIInv == RunnerIInv /\ [RunnerNext]_runnerVars => RunnerIInv'
<1>. SUFFICES ASSUME RunnerIInv, [RunnerNext]_runnerVars PROVE RunnerIInv'
  OBVIOUS
<1>1. CASE UNCHANGED runnerVars
  BY <1>1 DEF runnerVars, RunnerIInv, RunnerTypeOK, FlightsAwaited, Awaited, CallsAccounted, CompletedAsRun,
              ReportedAsCompleted
<1>2. CASE \E p \in Pollers : PollOnce(p) \/ NoLease(p) \/ Submit(p)
  BY <1>2, PollerKeeps
<1>3. CASE \E p \in Pollers, l \in Leases : RunLease(p, l)
  BY <1>3, RunKeeps
<1>4. CASE (\E l \in Leases : AbortLease(l)) \/ Stop
  BY <1>4, AbortKeeps
<1>5. CASE \E l \in Leases : Finish(l)
  BY <1>5, FinishKeeps
<1>6. CASE RestartRunner
  BY <1>6, FreshRunner DEF RestartRunner
<1>. QED
  BY <1>1, <1>2, <1>3, <1>4, <1>5, <1>6 DEF RunnerNext

-----------------------------------------------------------------------------
\* No more leases are under way than there are pollers that await them.
LEMMA FlightsBounded == RunnerIInv => LeaseCount <= Cardinality(Pollers)
<1>. SUFFICES ASSUME RunnerIInv PROVE LeaseCount <= Cardinality(Pollers)
  OBVIOUS
<1>. DEFINE W == {p \in Pollers : poller[p].at = "waiting" /\ poller[p].lease \in DOMAIN flights}
            f == [p \in W |-> poller[p].lease]
<1>1. IsFiniteSet(Pollers) /\ W \in SUBSET Pollers
  BY RunnerConstants
<1>2. IsFiniteSet(W) /\ Cardinality(W) <= Cardinality(Pollers)
  BY <1>1, FS_Subset
<1>3. f \in Surjection(W, DOMAIN flights)
  BY DEF Surjection, RunnerIInv, FlightsAwaited, Awaited
<1>4. Cardinality(DOMAIN flights) <= Cardinality(W) /\ IsFiniteSet(DOMAIN flights)
  BY <1>2, <1>3, FS_Surjection
<1>5. /\ Cardinality(DOMAIN flights) \in Nat /\ Cardinality(W) \in Nat /\ Cardinality(Pollers) \in Nat
  BY <1>1, <1>2, <1>4, FS_CardinalityType
<1>. HIDE DEF W
<1>. QED
  BY <1>2, <1>4, <1>5 DEF LeaseCount

\* A lease has one result, the one it was completed with.
LEMMA OneResult ==
  ASSUME RunnerIInv, NEW l
  PROVE  Cardinality({r \in reported : r[1] = l}) <= 1
<1>. DEFINE S == {r \in reported : r[1] = l}
<1>1. \A r \in S : r = <<l, completed[l]>>
  BY DEF RunnerIInv, ReportedAsCompleted
<1>2. CASE S = {}
  BY <1>2, FS_EmptySet
<1>3. CASE S = {<<l, completed[l]>>}
  <2>1. Cardinality({<<l, completed[l]>>}) = 1
    BY FS_Singleton
  <2>. QED
    BY <1>3, <2>1
<1>. QED
  BY <1>1, <1>2, <1>3

LEMMA RunnerIInvSuffices == RunnerIInv => LeaseAnsweredOnce
<1>. SUFFICES ASSUME RunnerIInv PROVE LeaseAnsweredOnce
  OBVIOUS
<1>1. \A l \in Leases : Refusal(l) = "none" =>
        /\ LeaseAgent[l] \in DOMAIN Registered \ OfflineAgents
        /\ Registered[LeaseAgent[l]] = LeaseModel[l]
  BY DEF Refusal
<1>2. \A l : \A v : <<l, v>> \in reported => l \in DOMAIN completed /\ v = completed[l]
  BY DEF RunnerIInv, ReportedAsCompleted
<1>3. \A l \in Leases : <<l, "succeeded">> \in reported => modelCalls[l] = 1
  BY <1>2 DEF RunnerIInv, CompletedAsRun
<1>4. (\E l \in Leases : <<l, "CANCELLED">> \in reported) => stopped
  BY <1>2 DEF RunnerIInv, CompletedAsRun
<1>. QED
  BY <1>1, <1>3, <1>4, OneResult, FlightsBounded DEF RunnerIInv, CallsAccounted, LeaseAnsweredOnce

\* The inductive invariant holds in every reachable state.
THEOREM RunnerInvariance == RunnerSpec => []RunnerIInv
<1>. QED
  BY InitRunnerIInv, NextRunnerIInv, PTL DEF RunnerSpec

\* However often a lease is offered, and to however many pollers, a process calls a
\* model for it once at most, the one it names, and reports one result (runner.ts:75-158).
THEOREM LeasesAnsweredOnce == RunnerSpec => []LeaseAnsweredOnce
<1>. QED
  BY RunnerInvariance, RunnerIInvSuffices, PTL

-----------------------------------------------------------------------------
(* Requests served by the streaming runtime.  A nonce may be forgotten, but *)
(* only when the clock has left the window of its signature behind; and a   *)
(* run that is still open has called just the agents its log has reached.   *)

Mentioned == UNION {{want.agents[x] : x \in DOMAIN want.agents} : want \in Wants}
Parts == Ongoing \cup Final \cup {"delta", "output"}
Asked == [key : Keys, scope : {"public", "owner"}, nonce : Nonces, ts : Nat, want : Wants]
Run == [of : Asked, scope : {"public", "owner"}, log : Seq(Parts), called : SUBSET Mentioned,
        cause : {"none", "cancelled", "timeout"}, closed : BOOLEAN]

Everyone(r) == {r.of.want.agents[x] : x \in DOMAIN r.of.want.agents}
Reached(r) == {r.of.want.agents[x] : x \in 1..(Len(r.log) - 1)}

\* What an open run has done of what was asked.
InProgress(r) ==
    \/ /\ r.of.want.kind = "chat" /\ CanSelect(r.of.want.agents[1], r.scope)
       /\ r.called \subseteq Everyone(r)
    \/ /\ r.of.want.kind = "orchestrate" /\ Len(r.log) - 1 <= Len(r.of.want.agents)
       /\ r.called = Reached(r)

RunRight(r) ==
    /\ r.scope = ScopeOf[r.of.key] /\ Len(r.log) >= 1
    /\ r.closed <=> r.log[Len(r.log)] \in Final
    /\ \A x \in 1..(Len(r.log) - 1) : r.log[x] \notin Final
    /\ r.log[1] = "owner" => r.scope = "owner"
    /\ \A a \in r.called : CanSelect(a, r.scope)
    /\ r.log[Len(r.log)] = "done" => r.called = Everyone(r)
    /\ ~r.closed => InProgress(r)

SentAsSigned ==
    /\ sent \subseteq Asked
    /\ \A m \in sent : m.scope = ScopeOf[m.key]
    /\ \A m, n \in sent : m.key = n.key /\ m.nonce = n.nonce => m = n

RunsRight == runs \in Seq(Run) /\ \A i \in DOMAIN runs : runs[i].of \in sent /\ RunRight(runs[i])

Noted(m) == <<m.key, m.nonce>> \in DOMAIN seen /\ seen[<<m.key, m.nonce>>] = m.ts
Remembered ==
    /\ clock \in Nat
    /\ \A i \in DOMAIN runs :
         LET m == runs[i].of IN m.ts <= clock + Window /\ (Noted(m) \/ m.ts + Window < clock)

ServedApart == \A i, j \in DOMAIN runs : i # j => runs[i].of # runs[j].of

RuntimeIInv == SentAsSigned /\ RunsRight /\ Remembered /\ ServedApart

-----------------------------------------------------------------------------
LEMMA FinalParts == Final \subseteq Parts /\ Ongoing \subseteq Parts /\ Ongoing \cap Final = {}
                    /\ "delta" \notin Final /\ "output" \notin Final /\ "done" \in Final
  BY DEF Parts, Final, Ongoing

LEMMA ExtendedIsRun ==
  ASSUME NEW r \in Run, NEW more \in Seq(Parts), NEW C \in SUBSET Mentioned, NEW closed \in BOOLEAN,
         NEW s, s = Extended(r, more, C, closed)
  PROVE  s \in Run
<1>1. r.called \in SUBSET Mentioned
  BY DEF Run
<1>2. PICK longer : longer = r.log \o more
  OBVIOUS
<1>5. longer \in Seq(Parts)
  <2>1. r.log \in Seq(Parts)
    BY DEF Run
  <2>. QED
    BY <1>2, <2>1, ConcatProperties
<1>3. PICK called : called = r.called \cup C /\ called \in SUBSET Mentioned
  BY <1>1
<1>4. s = [r EXCEPT !.log = longer, !.called = called, !.closed = closed]
  BY <1>2, <1>3 DEF Extended
<1>6. s = [of |-> r.of, scope |-> r.scope, log |-> longer, called |-> called, cause |-> r.cause, closed |-> closed]
  BY <1>4 DEF Run
<1>7. r.of \in Asked /\ r.scope \in {"public", "owner"} /\ r.cause \in {"none", "cancelled", "timeout"}
  BY DEF Run
<1>. QED
  BY <1>3, <1>5, <1>6, <1>7 DEF Run

\* A run that goes on by one part of its answer stays right.
LEMMA RunGoesOn ==
  ASSUME NEW r \in Run, RunRight(r), ~r.closed,
         NEW part \in Parts, NEW C \in SUBSET Mentioned, NEW closed \in BOOLEAN, NEW s,
         s = Extended(r, <<part>>, C, closed),
         closed <=> part \in Final,
         \A a \in C : CanSelect(a, r.scope),
         part = "done" => r.called \cup C = Everyone(r),
         ~closed => InProgress(s)
  PROVE  s \in Run /\ RunRight(s) /\ s.of = r.of
<1>1. r.log \in Seq(Parts) /\ r.called \in SUBSET Mentioned
  BY DEF Run
<1>2. r.log \o <<part>> = Append(r.log, part)
  BY <1>1, AppendIsConcat
<1>3. PICK longer \in Seq(Parts) : longer = Append(r.log, part)
  BY <1>1, AppendProperties
<1>4. /\ Len(longer) = Len(r.log) + 1 /\ longer[Len(longer)] = part /\ Len(r.log) \in Nat
      /\ \A x \in 1..Len(r.log) : longer[x] = r.log[x]
  BY <1>1, <1>3, AppendProperties, LenProperties
<1>5. s = [r EXCEPT !.log = longer, !.called = r.called \cup C, !.closed = closed]
  BY <1>2, <1>3 DEF Extended
<1>6. s \in Run
  <2>1. <<part>> \in Seq(Parts)
    OBVIOUS
  <2>. QED
    BY <2>1, ExtendedIsRun
<1>7. /\ s.log = longer /\ s.called = r.called \cup C /\ s.closed = closed /\ s.of = r.of /\ s.scope = r.scope
  BY <1>5 DEF Run
<1>8. r.log[Len(r.log)] \notin Final /\ Len(r.log) >= 1
  BY DEF RunRight
<1>9. \A x \in 1..(Len(s.log) - 1) : s.log[x] \notin Final
  <2>. SUFFICES ASSUME NEW x \in 1..(Len(s.log) - 1) PROVE s.log[x] \notin Final
    OBVIOUS
  <2>1. x \in 1..Len(r.log) /\ s.log[x] = r.log[x]
    BY <1>4, <1>7
  <2>2. CASE x = Len(r.log)
    BY <1>8, <2>1, <2>2
  <2>3. CASE x # Len(r.log)
    <3>1. x \in 1..(Len(r.log) - 1)
      BY <1>4, <2>1, <2>3
    <3>. QED
      BY <2>1, <3>1 DEF RunRight
  <2>. QED
    BY <2>2, <2>3
<1>10. s.log[1] = r.log[1] /\ Len(s.log) >= 1 /\ s.log[Len(s.log)] = part
  BY <1>4, <1>7, <1>8
<1>11. Everyone(s) = Everyone(r)
  BY <1>7 DEF Everyone
<1>. QED
  BY <1>6, <1>7, <1>9, <1>10, <1>11 DEF RunRight

\* The runs stay right when one of them is replaced by another of the same request.
LEMMA RunReplaced ==
  ASSUME RuntimeIInv, NEW i \in DOMAIN runs, NEW s \in Run, RunRight(s), s.of = runs[i].of,
         runs' = [runs EXCEPT ![i] = s], UNCHANGED <<clock, sent, seen>>
  PROVE  RuntimeIInv'
<1>. USE DEF RuntimeIInv
<1>1. runs \in Seq(Run)
  BY DEF RunsRight
<1>2. runs' \in Seq(Run) /\ DOMAIN runs' = DOMAIN runs
  BY <1>1, ExceptSeq
<1>3. \A j \in DOMAIN runs : runs'[j] = IF j = i THEN s ELSE runs[j]
  BY <1>1
<1>4. \A j \in DOMAIN runs : runs'[j].of = runs[j].of /\ RunRight(runs'[j])
  BY <1>3 DEF RunsRight
<1>5. SentAsSigned'
  BY DEF SentAsSigned
<1>6. RunsRight'
  <2>1. \A j \in DOMAIN runs' : runs'[j].of \in sent' /\ RunRight(runs'[j])
    BY <1>2, <1>4 DEF RunsRight
  <2>2. \A r : RunRight(r)' <=> RunRight(r)
    OBVIOUS
  <2>. QED
    BY <1>2, <2>1 DEF RunsRight
<1>7. Remembered'
  BY <1>2, <1>4 DEF Remembered, Noted
<1>8. ServedApart'
  BY <1>2, <1>4 DEF ServedApart
<1>. QED
  BY <1>5, <1>6, <1>7, <1>8

-----------------------------------------------------------------------------
LEMMA InitRuntimeIInv == RuntimeInit => RuntimeIInv
<1>. SUFFICES ASSUME RuntimeInit PROVE RuntimeIInv
  OBVIOUS
<1>1. runs \in Seq(Run) /\ DOMAIN runs = {}
  BY EmptySeq DEF RuntimeInit
<1>2. clock \in Nat /\ sent = {}
  BY DEF RuntimeInit
<1>. QED
  BY <1>1, <1>2 DEF RuntimeIInv, SentAsSigned, RunsRight, Remembered, ServedApart

LEMMA TickKeeps ==
  ASSUME RuntimeIInv, Tick
  PROVE  RuntimeIInv'
<1>. USE DEF RuntimeIInv
<1>1. clock' = clock + 1 /\ sent' = sent /\ seen' = seen /\ runs' = runs
  BY DEF Tick
<1>2. SentAsSigned' /\ ServedApart'
  BY <1>1 DEF SentAsSigned, ServedApart
<1>3. RunsRight'
  <2>1. \A r : RunRight(r)' <=> RunRight(r)
    OBVIOUS
  <2>. QED
    BY <1>1, <2>1 DEF RunsRight
<1>4. Remembered'
  <2>1. \A i \in DOMAIN runs : runs[i].of.ts \in Nat /\ (Noted(runs[i].of)' <=> Noted(runs[i].of))
    BY <1>1 DEF RunsRight, SentAsSigned, Asked, Noted
  <2>. QED
    BY <1>1, <2>1, RuntimeConstants DEF Remembered
<1>. QED
  BY <1>2, <1>3, <1>4

\* Nonces are fresh, so no two requests bear the same under one key.
LEMMA SignKeeps ==
  ASSUME RuntimeIInv, NEW k \in Keys, NEW n \in Nonces, NEW ts \in Stamps, NEW want \in Wants,
         SignRequest(k, n, ts, want)
  PROVE  RuntimeIInv'
<1>. USE DEF RuntimeIInv
<1>1. PICK m : m = [key |-> k, scope |-> ScopeOf[k], nonce |-> n, ts |-> ts, want |-> want]
  OBVIOUS
<1>2. /\ m \in Asked /\ m.scope = ScopeOf[m.key]
      /\ \A x \in sent : ~(x.key = m.key /\ x.nonce = m.nonce)
  BY <1>1, RuntimeConstants DEF Asked, SignRequest
<1>3. sent' = sent \cup {m} /\ clock' = clock /\ seen' = seen /\ runs' = runs
  BY <1>1 DEF SignRequest
<1>4. SentAsSigned'
  BY <1>2, <1>3 DEF SentAsSigned
<1>5. RunsRight'
  <2>1. \A r : RunRight(r)' <=> RunRight(r)
    OBVIOUS
  <2>. QED
    BY <1>3, <2>1 DEF RunsRight
<1>6. Remembered' /\ ServedApart'
  BY <1>3 DEF Remembered, Noted, ServedApart
<1>. QED
  BY <1>4, <1>5, <1>6

\* The first word of an answer says whether it goes on.
LEMMA OpeningIs ==
  ASSUME NEW want \in Wants, NEW scope \in {"public", "owner"}, NEW opening, opening = Opening(want, scope)
  PROVE  /\ opening \in Parts /\ (opening \in Final <=> opening \notin Ongoing)
         /\ opening = "owner" => scope = "owner"
         /\ opening # "done"
         /\ opening = "meta" => want.kind = "chat" /\ CanSelect(want.agents[1], scope)
         /\ opening = "open" => want.kind = "orchestrate"
<1>1. CASE want.kind = "queen"
  <2>1. opening \in {scope, "FORBIDDEN"}
    BY <1>1 DEF Opening
  <2>. QED
    BY <2>1 DEF Parts, Final, Ongoing
<1>2. CASE want.kind = "chat"
  <2>1. opening \in {"MODEL_UNAVAILABLE", "FORBIDDEN", "meta"} /\ (opening = "meta" => CanSelect(want.agents[1], scope))
    BY <1>2 DEF Opening
  <2>. QED
    BY <1>2, <2>1 DEF Parts, Final, Ongoing
<1>3. CASE want.kind = "orchestrate"
  <2>1. opening \in {"MODEL_UNAVAILABLE", "open"}
    BY <1>3 DEF Opening
  <2>. QED
    BY <1>3, <2>1 DEF Parts, Final, Ongoing
<1>. QED
  BY <1>1, <1>2, <1>3, WantsShaped

\* A request is accepted once: while its signature is fresh its nonce is remembered.
LEMMA AcceptKeeps ==
  ASSUME RuntimeIInv, NEW m \in sent, NEW header \in {"public", "owner"}, Accept(m, header)
  PROVE  RuntimeIInv'
<1>. USE DEF RuntimeIInv
<1>1. PICK opening : opening = Opening(m.want, header)
  OBVIOUS
<1>2. PICK r : r = [of |-> m, scope |-> header, log |-> <<opening>>, called |-> {},
                    cause |-> "none", closed |-> opening \notin Ongoing]
  OBVIOUS
<1>3. /\ Verified(m, header) /\ seen' = Remember(m) /\ runs' = Append(runs, r)
      /\ clock' = clock /\ sent' = sent
  BY <1>1, <1>2 DEF Accept
<1>4. m \in Asked /\ m.want \in Wants /\ m.ts \in Nat /\ m.scope = ScopeOf[m.key]
  BY DEF SentAsSigned, Asked
<1>5. clock \in Nat /\ Window \in Nat
  BY RuntimeConstants DEF Remembered
<1>6. header = ScopeOf[m.key] /\ m.ts <= clock + Window /\ clock <= m.ts + Window
  BY <1>3, <1>4, <1>5 DEF Verified, InWindow, Apart
<1>7. /\ opening \in Parts /\ (opening \in Final <=> opening \notin Ongoing)
      /\ opening = "owner" => header = "owner"
      /\ opening # "done"
      /\ opening = "meta" => m.want.kind = "chat" /\ CanSelect(m.want.agents[1], header)
      /\ opening = "open" => m.want.kind = "orchestrate"
  BY <1>1, <1>4, OpeningIs
<1>8. r \in Run /\ RunRight(r)
  <2>1. <<opening>> \in Seq(Parts) /\ Len(<<opening>>) = 1 /\ <<opening>>[1] = opening
    BY <1>7
  <2>2. r \in Run
    BY <1>2, <1>4, <2>1 DEF Run
  <2>3. /\ r.scope = header /\ r.of = m /\ r.called = {} /\ r.log = <<opening>>
        /\ r.closed <=> opening \notin Ongoing
    BY <1>2
  <2>4. ~r.closed => InProgress(r)
    <3>. SUFFICES ASSUME opening \in Ongoing PROVE InProgress(r)
      BY <2>3
    <3>1. CASE opening = "meta"
      BY <1>7, <2>3, <3>1 DEF InProgress
    <3>2. CASE opening = "open"
      <4>1. Reached(r) = {} /\ Len(m.want.agents) \in Nat
        BY <1>4, <2>1, <2>3, WantsShaped DEF Reached
      <4>. QED
        BY <1>7, <2>1, <2>3, <3>2, <4>1 DEF InProgress
    <3>. QED
      BY <3>1, <3>2 DEF Ongoing
  <2>. QED
    BY <1>6, <1>7, <2>1, <2>2, <2>3, <2>4 DEF RunRight
<1>9. /\ runs \in Seq(Run) /\ Len(runs) \in Nat /\ runs' \in Seq(Run)
      /\ DOMAIN runs = 1..Len(runs) /\ DOMAIN runs' = 1..(Len(runs) + 1)
      /\ runs'[Len(runs) + 1] = r /\ \A i \in DOMAIN runs : runs'[i] = runs[i]
  BY <1>3, <1>8, AppendProperties, LenProperties DEF RunsRight
<1>10. \A i \in DOMAIN runs : runs[i].of # m
  <2>. SUFFICES ASSUME NEW i \in DOMAIN runs, runs[i].of = m PROVE FALSE
    OBVIOUS
  <2>1. Noted(m)
    BY <1>4, <1>5, <1>6 DEF Remembered
  <2>2. Apart(clock, seen[<<m.key, m.nonce>>]) <= Window
    BY <1>3, <2>1 DEF Noted, Verified, InWindow
  <2>. QED
    BY <1>3, <2>1, <2>2 DEF Noted, Verified
<1>11. SentAsSigned'
  BY <1>3 DEF SentAsSigned
<1>12. RunsRight'
  <2>1. \A x : RunRight(x)' <=> RunRight(x)
    OBVIOUS
  <2>2. \A i \in DOMAIN runs' : i \in DOMAIN runs \/ runs'[i] = r
    BY <1>9
  <2>3. r.of = m
    BY <1>2
  <2>. QED
    BY <1>3, <1>8, <1>9, <2>1, <2>2, <2>3 DEF RunsRight
<1>13. Noted(m)'
  BY <1>3 DEF Noted, Remember
<1>14. ASSUME NEW i \in DOMAIN runs
       PROVE  LET x == runs[i].of IN x.ts <= clock' + Window /\ (Noted(x)' \/ x.ts + Window < clock')
  <2>1. PICK x : x = runs[i].of
    OBVIOUS
  <2>2. x \in sent /\ x \in Asked /\ x.ts \in Nat /\ x # m /\ x.ts <= clock + Window
    BY <1>10, <2>1 DEF RunsRight, SentAsSigned, Asked, Remembered
  <2>3. <<x.key, x.nonce>> # <<m.key, m.nonce>>
    BY <2>2 DEF SentAsSigned
  <2>4. CASE x.ts + Window < clock
    BY <1>3, <2>1, <2>2, <2>4
  <2>5. CASE ~(x.ts + Window < clock)
    <3>1. Noted(x)
      BY <2>1, <2>5 DEF Remembered
    <3>2. Apart(clock, x.ts) <= Window
      BY <1>5, <2>2, <2>5 DEF Apart
    <3>3. Noted(x)'
      BY <1>3, <2>3, <3>1, <3>2 DEF Noted, Remember
    <3>. QED
      BY <1>3, <2>1, <2>2, <3>3
  <2>. QED
    BY <2>4, <2>5
<1>15. Remembered'
  <2>1. \A i \in DOMAIN runs' : i \in DOMAIN runs \/ runs'[i].of = m
    BY <1>2, <1>9
  <2>. QED
    BY <1>3, <1>5, <1>6, <1>9, <1>13, <1>14, <2>1 DEF Remembered
<1>16. ServedApart'
  <2>1. \A i \in DOMAIN runs' : (i \in DOMAIN runs /\ runs'[i].of = runs[i].of) \/ (i = Len(runs) + 1 /\ runs'[i].of = m)
    BY <1>2, <1>9
  <2>. QED
    BY <1>10, <2>1 DEF ServedApart
<1>. QED
  BY <1>11, <1>12, <1>15, <1>16

\* An open run i that is updated by one part; the steps below say by which.
LEMMA UpdateKeeps ==
  ASSUME RuntimeIInv, NEW i \in DOMAIN runs, ~runs[i].closed,
         NEW part \in Parts, NEW C \in SUBSET Mentioned, NEW closed \in BOOLEAN, NEW s,
         Update(i, <<part>>, C, closed),
         s = Extended(runs[i], <<part>>, C, closed),
         closed <=> part \in Final,
         \A a \in C : CanSelect(a, runs[i].scope),
         part = "done" => runs[i].called \cup C = Everyone(runs[i]),
         ~closed => InProgress(s)
  PROVE  RuntimeIInv'
<1>1. PICK r : r = runs[i]
  OBVIOUS
<1>2. r \in Run /\ RunRight(r) /\ ~r.closed
  BY <1>1 DEF RuntimeIInv, RunsRight
<1>3. /\ s = Extended(r, <<part>>, C, closed)
      /\ \A a \in C : CanSelect(a, r.scope)
      /\ part = "done" => r.called \cup C = Everyone(r)
  BY <1>1
<1>4. s \in Run /\ RunRight(s) /\ s.of = r.of
  BY <1>2, <1>3, RunGoesOn
<1>5. runs' = [runs EXCEPT ![i] = s] /\ UNCHANGED <<clock, sent, seen>>
  BY <1>1, <1>3 DEF Update
<1>. QED
  BY <1>1, <1>4, <1>5, RunReplaced

LEMMA WantsOf ==
  ASSUME NEW r \in Run
  PROVE  LET want == r.of.want IN
         /\ Len(want.agents) \in Nat /\ DOMAIN want.agents = 1..Len(want.agents)
         /\ want.kind = "chat" => Len(want.agents) = 1 /\ Everyone(r) = {want.agents[1]}
         /\ want.kind = "orchestrate" => Len(want.agents) >= 2
         /\ Everyone(r) \subseteq Mentioned
<1>1. r.of.want \in Wants
  BY DEF Run, Asked
<1>2. PICK want : want = r.of.want
  OBVIOUS
<1>3. Everyone(r) = {want.agents[x] : x \in DOMAIN want.agents}
  BY <1>2 DEF Everyone
<1>4. Everyone(r) \subseteq Mentioned
  BY <1>1, <1>2, <1>3 DEF Mentioned
<1>. QED
  BY <1>1, <1>2, <1>3, <1>4, WantsShaped

LEMMA ChatKeeps ==
  ASSUME RuntimeIInv, NEW i \in 1..MaxRuns, Delta(i) \/ Done(i)
  PROVE  RuntimeIInv'
<1>1. i \in DOMAIN runs /\ ~runs[i].closed /\ runs[i].of.want.kind = "chat"
  BY DEF Delta, Done, Open
<1>2. PICK r : r = runs[i]
  OBVIOUS
<1>3. r \in Run /\ RunRight(r)
  BY <1>1, <1>2 DEF RuntimeIInv, RunsRight
<1>4. InProgress(r)
  BY <1>1, <1>2, <1>3 DEF RunRight
<1>5. PICK C : C = {r.of.want.agents[1]}
  OBVIOUS
<1>6. C = Everyone(r) /\ C \in SUBSET Mentioned /\ r.called \cup C = C /\ \A a \in C : CanSelect(a, r.scope)
  BY <1>1, <1>2, <1>3, <1>4, <1>5, WantsOf DEF InProgress
<1>7. CASE Delta(i)
  <2>1. PICK s : s = Extended(r, <<"delta">>, C, FALSE)
    OBVIOUS
  <2>2. "delta" \in Parts /\ Update(i, <<"delta">>, C, FALSE)
    BY <1>2, <1>5, <1>7, FinalParts DEF Delta, Crew, Parts
  <2>3. s.of = r.of /\ s.scope = r.scope /\ s.called = r.called \cup C
    <3>1. PICK longer : longer = r.log \o <<"delta">>
      OBVIOUS
    <3>2. s = [r EXCEPT !.log = longer, !.called = r.called \cup C, !.closed = FALSE]
      BY <2>1, <3>1 DEF Extended
    <3>. QED
      BY <1>3, <3>2 DEF Run
  <2>4. InProgress(s)
    BY <1>1, <1>2, <1>5, <1>6, <2>3 DEF InProgress, Everyone
  <2>. QED
    BY <1>1, <1>2, <1>6, <2>1, <2>2, <2>4, FinalParts, UpdateKeeps
<1>8. CASE Done(i)
  <2>1. PICK s : s = Extended(r, <<"done">>, C, TRUE)
    OBVIOUS
  <2>2. "done" \in Parts /\ Update(i, <<"done">>, C, TRUE)
    BY <1>2, <1>5, <1>8, FinalParts DEF Done, Crew
  <2>. QED
    BY <1>1, <1>2, <1>6, <2>1, <2>2, FinalParts, UpdateKeeps
<1>. QED
  BY <1>7, <1>8

\* The agents reached are those of the log, in order, until all have been.
LEMMA OrchestrationKeeps ==
  ASSUME RuntimeIInv, NEW i \in 1..MaxRuns, Step(i) \/ Synthesize(i)
  PROVE  RuntimeIInv'
<1>1. i \in DOMAIN runs /\ ~runs[i].closed /\ runs[i].of.want.kind = "orchestrate"
  BY DEF Step, Synthesize, Open
<1>2. PICK r : r = runs[i]
  OBVIOUS
<1>3. r \in Run /\ RunRight(r)
  BY <1>1, <1>2 DEF RuntimeIInv, RunsRight
<1>4. InProgress(r)
  BY <1>1, <1>2, <1>3 DEF RunRight
<1>5. PICK team : team = r.of.want.agents
  OBVIOUS
<1>6. PICK n : n = Len(r.log)
  OBVIOUS
<1>7. /\ n \in Nat /\ n >= 1 /\ n - 1 <= Len(team) /\ Len(team) \in Nat /\ Len(team) >= 2
      /\ DOMAIN team = 1..Len(team) /\ r.called = {team[x] : x \in 1..(n - 1)}
      /\ Everyone(r) = {team[x] : x \in 1..Len(team)} /\ Everyone(r) \subseteq Mentioned
  <2>1. n \in Nat
    BY <1>3, <1>6, LenProperties DEF Run
  <2>2. n >= 1
    BY <1>3, <1>6 DEF RunRight
  <2>3. Len(team) \in Nat /\ DOMAIN team = 1..Len(team)
    BY <1>3, <1>5, WantsOf
  <2>4. Len(team) >= 2 /\ Everyone(r) \subseteq Mentioned
    BY <1>1, <1>2, <1>3, <1>5, WantsOf
  <2>5. Everyone(r) = {team[x] : x \in 1..Len(team)}
    BY <1>5, <2>3 DEF Everyone
  <2>6. r.called = {team[x] : x \in 1..(n - 1)} /\ n - 1 <= Len(team)
    BY <1>1, <1>2, <1>4, <1>5, <1>6 DEF InProgress, Reached
  <2>. QED
    BY <2>1, <2>2, <2>3, <2>4, <2>5, <2>6
<1>8. CASE Step(i)
  <2>1. n <= Len(team) /\ CanSelect(team[n], r.scope) /\ Update(i, <<"output">>, {team[n]}, FALSE)
    BY <1>2, <1>5, <1>6, <1>8 DEF Step, NextStep, Crew, Usable
  <2>2. PICK C : C = {team[n]}
    OBVIOUS
  <2>3. C \in SUBSET Mentioned /\ (\A a \in C : CanSelect(a, r.scope))
    BY <1>7, <2>1, <2>2
  <2>4. PICK s : s = Extended(r, <<"output">>, C, FALSE)
    OBVIOUS
  <2>5. "output" \in Parts
    BY DEF Parts
  <2>6. s.of = r.of /\ s.scope = r.scope /\ s.called = r.called \cup C /\ Len(s.log) = n + 1
    <3>1. PICK longer : longer = Append(r.log, "output")
      OBVIOUS
    <3>2. r.log \in Seq(Parts) /\ longer = r.log \o <<"output">> /\ Len(longer) = n + 1
      BY <1>3, <1>6, <2>5, <3>1, AppendIsConcat, AppendProperties DEF Run
    <3>3. s = [r EXCEPT !.log = longer, !.called = r.called \cup C, !.closed = FALSE]
      BY <2>4, <3>2 DEF Extended
    <3>. QED
      BY <1>3, <3>2, <3>3 DEF Run
  <2>7. r.called \cup C = {team[x] : x \in 1..n}
    <3>1. 1..n = 1..(n - 1) \cup {n}
      BY <1>7
    <3>. QED
      BY <1>7, <2>2, <3>1
  <2>8. InProgress(s)
    <3>1. Len(s.log) - 1 = n /\ Reached(s) = {team[x] : x \in 1..n}
      BY <1>5, <1>7, <2>6 DEF Reached
    <3>. QED
      BY <1>1, <1>2, <1>5, <2>1, <2>6, <2>7, <3>1 DEF InProgress
  <2>. QED
    BY <1>1, <1>2, <2>1, <2>2, <2>3, <2>4, <2>5, <2>8, FinalParts, UpdateKeeps
<1>9. CASE Synthesize(i)
  <2>1. n > Len(team) /\ CanSelect(team[1], r.scope) /\ Update(i, <<"done">>, {team[1]}, TRUE)
    BY <1>2, <1>5, <1>6, <1>9 DEF Synthesize, NextStep, Crew, Usable
  <2>2. PICK C : C = {team[1]}
    OBVIOUS
  <2>3. C \in SUBSET Mentioned /\ (\A a \in C : CanSelect(a, r.scope)) /\ C \subseteq Everyone(r)
    BY <1>7, <2>1, <2>2
  <2>4. n - 1 = Len(team)
    BY <1>7, <2>1
  <2>5. r.called \cup C = Everyone(r)
    BY <1>7, <2>3, <2>4
  <2>6. PICK s : s = Extended(r, <<"done">>, C, TRUE)
    OBVIOUS
  <2>. QED
    BY <1>1, <1>2, <2>1, <2>2, <2>3, <2>5, <2>6, FinalParts, UpdateKeeps
<1>. QED
  BY <1>8, <1>9

\* A run that breaks off is closed by one error.
LEMMA BreakKeeps ==
  ASSUME RuntimeIInv, NEW i \in 1..MaxRuns, Break(i)
  PROVE  RuntimeIInv'
<1>1. i \in DOMAIN runs /\ ~runs[i].closed
  BY DEF Break, Open
<1>2. PICK r : r = runs[i]
  OBVIOUS
<1>3. r \in Run
  BY <1>1, <1>2 DEF RuntimeIInv, RunsRight
<1>4. PICK code : code = ErrorCode(r.cause)
  OBVIOUS
<1>5. code \in {"CANCELLED", "UPSTREAM_TIMEOUT", "MODEL_UNAVAILABLE"}
  BY <1>4 DEF ErrorCode
<1>6. code \in Parts /\ code \in Final /\ code # "done"
  BY <1>5 DEF Parts, Final
<1>7. PICK C : C = {}
  OBVIOUS
<1>8. Update(i, <<code>>, C, TRUE) /\ C \in SUBSET Mentioned /\ \A a \in C : CanSelect(a, r.scope)
  BY <1>2, <1>4, <1>7 DEF Break
<1>9. PICK s : s = Extended(r, <<code>>, C, TRUE)
  OBVIOUS
<1>. QED
  BY <1>1, <1>2, <1>6, <1>8, <1>9, UpdateKeeps

LEMMA AbortRunKeeps ==
  ASSUME RuntimeIInv, NEW i \in 1..MaxRuns, NEW cause \in {"cancelled", "timeout"}, Abort(i, cause)
  PROVE  RuntimeIInv'
<1>1. i \in DOMAIN runs /\ UNCHANGED <<clock, sent, seen>>
  BY DEF Abort
<1>2. PICK r : r = runs[i]
  OBVIOUS
<1>3. r \in Run /\ RunRight(r)
  BY <1>1, <1>2 DEF RuntimeIInv, RunsRight
<1>4. PICK s : s = [r EXCEPT !.cause = cause]
  OBVIOUS
<1>5. runs' = [runs EXCEPT ![i] = s]
  BY <1>1, <1>2, <1>4 DEF Abort
<1>6. s \in Run
  BY <1>3, <1>4 DEF Run
<1>7. s.of = r.of /\ s.scope = r.scope /\ s.log = r.log /\ s.called = r.called /\ s.closed = r.closed
  BY <1>3, <1>4 DEF Run
<1>8. RunRight(s)
  BY <1>3, <1>7 DEF RunRight, InProgress, Everyone, Reached
<1>. QED
  BY <1>1, <1>2, <1>5, <1>6, <1>7, <1>8, RunReplaced

\* A process that starts has served nothing, and forgets its nonces.
LEMMA RestartRuntimeKeeps ==
  ASSUME RuntimeIInv, RestartRuntime
  PROVE  RuntimeIInv'
<1>. USE DEF RuntimeIInv
<1>1. runs' \in Seq(Run) /\ DOMAIN runs' = {} /\ clock' = clock /\ sent' = sent
  BY EmptySeq DEF RestartRuntime
<1>2. SentAsSigned'
  BY <1>1 DEF SentAsSigned
<1>3. RunsRight' /\ ServedApart'
  BY <1>1 DEF RunsRight, ServedApart
<1>4. Remembered'
  BY <1>1 DEF Remembered
<1>. QED
  BY <1>2, <1>3, <1>4

LEMMA NextRuntimeIInv == RuntimeIInv /\ [RuntimeNext]_runtimeVars => RuntimeIInv'
<1>. SUFFICES ASSUME RuntimeIInv, [RuntimeNext]_runtimeVars PROVE RuntimeIInv'
  OBVIOUS
<1>1. CASE UNCHANGED runtimeVars
  <2>1. \A r : RunRight(r)' <=> RunRight(r)
    OBVIOUS
  <2>. QED
    BY <1>1, <2>1 DEF runtimeVars, RuntimeIInv, SentAsSigned, RunsRight, Remembered, Noted, ServedApart
<1>2. CASE Tick
  BY <1>2, TickKeeps
<1>3. CASE RestartRuntime
  BY <1>3, RestartRuntimeKeeps
<1>4. CASE \E k \in Keys, n \in Nonces, ts \in Stamps, want \in Wants : SignRequest(k, n, ts, want)
  BY <1>4, SignKeeps
<1>5. CASE \E m \in sent, header \in {"public", "owner"} : Accept(m, header)
  BY <1>5, AcceptKeeps
<1>6. CASE \E i \in 1..MaxRuns : Delta(i) \/ Done(i)
  BY <1>6, ChatKeeps
<1>7. CASE \E i \in 1..MaxRuns : Step(i) \/ Synthesize(i)
  BY <1>7, OrchestrationKeeps
<1>8. CASE \E i \in 1..MaxRuns : Break(i)
  BY <1>8, BreakKeeps
<1>9. CASE \E i \in 1..MaxRuns, cause \in {"cancelled", "timeout"} : Abort(i, cause)
  BY <1>9, AbortRunKeeps
<1>. QED
  BY <1>1, <1>2, <1>3, <1>4, <1>5, <1>6, <1>7, <1>8, <1>9 DEF RuntimeNext

LEMMA RuntimeIInvSuffices == RuntimeIInv => ServedOncePerSignature
<1>. SUFFICES ASSUME RuntimeIInv PROVE ServedOncePerSignature
  OBVIOUS
<1>1. \A i, j \in DOMAIN runs : i # j => runs[i].of # runs[j].of
  BY DEF RuntimeIInv, ServedApart
<1>2. ASSUME NEW r \in Run, RunRight(r)
      PROVE  /\ ScopeOf[r.of.key] # "owner" =>
                    (\A a \in r.called : ~Manifests[a].ownerOnly) /\ r.log[1] # "owner"
             /\ r.closed <=> r.log[Len(r.log)] \in Final
             /\ \A x \in 1..(Len(r.log) - 1) : r.log[x] \notin Final
             /\ r.log[Len(r.log)] = "done" => r.called = {r.of.want.agents[x] : x \in DOMAIN r.of.want.agents}
  BY <1>2 DEF RunRight, CanSelect, Everyone
<1>. QED
  BY <1>1, <1>2 DEF RuntimeIInv, RunsRight, ServedOncePerSignature

\* Whatever is delivered late, again or out of order in the life of a process: a
\* signature opens one run at most; what is reserved to the owner is reached only
\* under the owner's key; each answer is closed once, and is done only when every
\* agent it names has been called (stream-runtime.ts:106-441, signing.ts:68-192).
THEOREM SignaturesServedOnce == RuntimeSpec => []ServedOncePerSignature
<1>. QED
  BY InitRuntimeIInv, NextRuntimeIInv, RuntimeIInvSuffices, PTL DEF RuntimeSpec

-----------------------------------------------------------------------------
(* The model registry.  An artifact that is approved carries a decision    *)
(* that fits its gate, on disk as in the file and in the operator's copy   *)
(* of it; and the epoch of a process's last prediction is one it has read. *)

Artifacts == [run : DOMAIN Recommended \cup {"none"}, status : {"candidate", "approved", "rejected"},
              audit : Audits \cup {NoAudit}]
Records == [artifact : Artifacts,
            status : {"absent", "candidate", "approved", "rejected", "active", "retired"}]
Handles == [epoch : Nat, version : Versions, artifact : Artifacts]

Reviewed(artifact) ==
    artifact.audit.outcome = "approved" /\ ValidAudit(artifact.run, artifact.audit)
ArtifactRight(artifact) == artifact.status = "approved" => Reviewed(artifact)
RecordRight(record) == record.status \in {"approved", "active", "retired"} => Reviewed(record.artifact)

FileRight(f) ==
    /\ f.epoch \in Nat /\ f.models \in [Versions -> Records]
    /\ \A v \in Versions : RecordRight(f.models[v])
    /\ \A v, w \in Active(f.models) : v = w
    /\ Active(f.models) = {} <=> f.epoch = 0

FilesRight ==
    /\ FileRight(file) /\ FileRight(backup)
    /\ disk \subseteq Artifacts /\ \A a \in disk : ArtifactRight(a)

ProcessesRight ==
    /\ floor \in [Processes -> Nat] /\ handle \in [Processes -> Handles \cup {NoHandle}]
    /\ predicted \in [Processes -> Handles \cup {NoHandle}]
    /\ \A p \in Processes : predicted[p].epoch \in 0..floor[p]

RegistryIInv == FilesRight /\ ProcessesRight

\* What a step may newly predict with.
PredictsRightly ==
    \A p \in Processes :
        predicted'[p] \notin {NoHandle, predicted[p]} =>
            LET made == predicted'[p] IN
            /\ made.epoch >= predicted[p].epoch
            /\ Active(file.models) = {made.version}
            /\ made.artifact.audit.outcome = "approved"
            /\ ValidAudit(made.artifact.run, made.artifact.audit)

-----------------------------------------------------------------------------
LEMMA InitRegistryIInv == RegistryInit => RegistryIInv
<1>. SUFFICES ASSUME RegistryInit PROVE RegistryIInv
  OBVIOUS
<1>1. NoRecord \in Records /\ NoRecord.status = "absent"
  BY DEF NoRecord, Records, Artifacts, Candidate
<1>2. PICK models : models = [v \in Versions |-> NoRecord]
  OBVIOUS
<1>3. file.epoch = 0 /\ file.models = models /\ backup = file
  BY <1>2 DEF RegistryInit
<1>4. Active(models) = {}
  BY <1>1, <1>2 DEF Active
<1>5. FileRight(file)
  BY <1>1, <1>2, <1>3, <1>4 DEF FileRight, RecordRight
<1>6. NoHandle.epoch = 0
  BY DEF NoHandle
<1>. QED
  BY <1>3, <1>5, <1>6 DEF RegistryInit, RegistryIInv, FilesRight, ProcessesRight

LEMMA AtMostOneActive ==
  ASSUME NEW f, FileRight(f)
  PROVE  Cardinality(Active(f.models)) <= 1
<1>1. CASE Active(f.models) = {}
  BY <1>1, FS_EmptySet
<1>2. CASE Active(f.models) # {}
  <2>1. PICK v : v \in Active(f.models)
    BY <1>2
  <2>2. Active(f.models) = {v}
    BY <2>1 DEF FileRight
  <2>. QED
    BY <2>2, FS_Singleton
<1>. QED
  BY <1>1, <1>2

\* Records change while no model is made active and none ceases to be.
LEMMA RecordsChange ==
  ASSUME NEW f, FileRight(f), NEW version \in Versions, NEW record \in Records, RecordRight(record),
         f.models[version].status # "active", record.status # "active", NEW g,
         g.epoch = f.epoch, g.models = [f.models EXCEPT ![version] = record]
  PROVE  FileRight(g)
<1>1. g.models \in [Versions -> Records]
  BY DEF FileRight
<1>2. \A v \in Versions : g.models[v] = IF v = version THEN record ELSE f.models[v]
  BY DEF FileRight
<1>3. Active(g.models) = Active(f.models)
  BY <1>2 DEF Active
<1>. QED
  BY <1>1, <1>2, <1>3 DEF FileRight

\* A process writes what it has read, under the epoch it has read or a later one.
LEMMA WriteKeeps ==
  ASSUME RegistryIInv, NEW p \in Processes, NEW models, NEW epoch \in Nat, Write(p, models, epoch),
         Readable(p), epoch >= file.epoch, FileRight(file'),
         disk' \subseteq Artifacts, \A a \in disk' : ArtifactRight(a),
         UNCHANGED <<backup, handle, predicted>>
  PROVE  RegistryIInv' /\ PredictsRightly
<1>. USE DEF RegistryIInv
<1>1. floor' = [floor EXCEPT ![p] = epoch] /\ epoch >= floor[p]
  BY DEF Write, Readable, FilesRight, FileRight, ProcessesRight
<1>2. FilesRight'
  <2>1. FileRight(backup)'
    BY DEF FilesRight
  <2>. QED
    BY <2>1 DEF FilesRight
<1>3. ProcessesRight'
  BY <1>1 DEF ProcessesRight
<1>. QED
  BY <1>2, <1>3 DEF PredictsRightly

\* A process only reads, or starts anew, and the file is left as it is.
LEMMA ReadKeeps ==
  ASSUME RegistryIInv, NEW p \in Processes, UNCHANGED <<file, backup>>,
         disk' \subseteq Artifacts, \A a \in disk' : ArtifactRight(a),
         \/ Reads(p) /\ UNCHANGED predicted
            /\ \E h \in Handles \cup {NoHandle} : handle' = [handle EXCEPT ![p] = h]
         \/ Forgets(p)
  PROVE  RegistryIInv' /\ PredictsRightly
<1>. USE DEF RegistryIInv
<1>1. FileRight(file)' /\ FileRight(backup)'
  BY DEF FilesRight
<1>2. FilesRight'
  BY <1>1 DEF FilesRight
<1>3. CASE Reads(p) /\ UNCHANGED predicted /\ \E h \in Handles \cup {NoHandle} : handle' = [handle EXCEPT ![p] = h]
  <2>1. PICK n : n = IF Readable(p) THEN file.epoch ELSE floor[p]
    OBVIOUS
  <2>2. n \in Nat /\ n >= floor[p] /\ floor' = [floor EXCEPT ![p] = n]
    BY <1>3, <2>1 DEF Reads, Readable, FilesRight, FileRight, ProcessesRight
  <2>3. ProcessesRight'
    BY <1>3, <2>2 DEF ProcessesRight
  <2>. QED
    BY <1>2, <1>3, <2>3 DEF PredictsRightly
<1>4. CASE Forgets(p)
  <2>1. NoHandle.epoch = 0
    BY DEF NoHandle
  <2>2. ProcessesRight'
    BY <1>4, <2>1 DEF ProcessesRight, Forgets
  <2>3. PredictsRightly
    BY <1>4 DEF PredictsRightly, Forgets, ProcessesRight
  <2>. QED
    BY <1>2, <2>2, <2>3
<1>. QED
  BY <1>3, <1>4

\* The artifact is managed whatever becomes of its record.
LEMMA RegisterKeeps ==
  ASSUME RegistryIInv, NEW p \in Processes, NEW v \in Versions,
         NEW artifact \in disk \cup {Candidate(r) : r \in DOMAIN Recommended}, Register(p, v, artifact)
  PROVE  RegistryIInv' /\ PredictsRightly
<1>1. artifact \in Artifacts /\ ArtifactRight(artifact)
  <2>1. \A r \in DOMAIN Recommended : Candidate(r) \in Artifacts /\ Candidate(r).status = "candidate"
    BY DEF Candidate, Artifacts
  <2>. QED
    BY <2>1 DEF RegistryIInv, FilesRight, ArtifactRight
<1>2. disk' \subseteq Artifacts /\ (\A a \in disk' : ArtifactRight(a)) /\ backup' = backup
  BY <1>1 DEF Register, RegistryIInv, FilesRight
<1>3. PICK record : record = [artifact |-> artifact, status |-> artifact.status]
  OBVIOUS
<1>4. record \in Records /\ RecordRight(record) /\ record.status # "active"
  BY <1>1, <1>3 DEF Records, Artifacts, RecordRight, ArtifactRight
<1>5. FileRight(file) /\ file.epoch \in Nat
  BY DEF RegistryIInv, FilesRight, FileRight
<1>6. CASE Readable(p) /\ file.models[v] \in {NoRecord, record} /\ Record(p, v, artifact)
  <2>1. file.models[v].status # "active"
    BY <1>4, <1>6 DEF NoRecord
  <2>2. PICK models : models = [file.models EXCEPT ![v] = record]
    OBVIOUS
  <2>3. Write(p, models, file.epoch) /\ UNCHANGED <<handle, predicted>>
    BY <1>3, <1>6, <2>2 DEF Record
  <2>4. FileRight(file')
    BY <1>4, <1>5, <2>1, <2>2, <2>3, RecordsChange DEF Write
  <2>. QED
    BY <1>2, <1>5, <1>6, <2>3, <2>4, WriteKeeps
<1>7. CASE Reads(p) /\ UNCHANGED <<file, handle, predicted>>
  <2>1. \E h \in Handles \cup {NoHandle} : handle' = [handle EXCEPT ![p] = h]
    BY <1>7 DEF RegistryIInv, ProcessesRight
  <2>. QED
    BY <1>2, <1>7, <2>1, ReadKeeps
<1>8. CASE Forgets(p) /\ UNCHANGED file
  BY <1>2, <1>8, ReadKeeps
<1>. QED
  BY <1>3, <1>6, <1>7, <1>8 DEF Register

\* A decision is taken of a candidate once.
LEMMA DecideKeeps ==
  ASSUME RegistryIInv, NEW p \in Processes, NEW v \in Versions, NEW audit \in Audits, Decide(p, v, audit)
  PROVE  RegistryIInv' /\ PredictsRightly
<1>1. PICK record : record = file.models[v]
  OBVIOUS
<1>2. FileRight(file) /\ file.epoch \in Nat /\ record \in Records /\ Readable(p)
  BY <1>1 DEF RegistryIInv, FilesRight, FileRight, Decide
<1>3. PICK decided : decided = [record.artifact EXCEPT !.status = audit.outcome, !.audit = audit]
  OBVIOUS
<1>4. CASE record.artifact.status = "candidate"
  <2>1. record.artifact \in Artifacts /\ ValidAudit(record.artifact.run, audit) /\ Bound(record)
    BY <1>1, <1>2 DEF Records, Decide
  <2>2. audit.outcome \in {"approved", "rejected"}
    BY RegistryConstants
  <2>3. /\ decided \in Artifacts /\ decided.status = audit.outcome /\ decided.audit = audit
        /\ decided.run = record.artifact.run
    BY <1>3, <2>1, <2>2 DEF Artifacts
  <2>4. ArtifactRight(decided)
    BY <2>1, <2>3 DEF ArtifactRight, Reviewed
  <2>5. record.status = "candidate"
    <3>1. record.artifact.status = IF record.status \in {"candidate", "rejected"} THEN record.status ELSE "approved"
      BY <2>1 DEF Bound
    <3>. QED
      BY <1>4, <3>1
  <2>6. disk' = disk \cup {decided} /\ backup' = backup
        /\ (Record(p, v, decided) \/ (Forgets(p) /\ UNCHANGED file))
    BY <1>1, <1>3, <1>4 DEF Decide
  <2>7. disk' \subseteq Artifacts /\ (\A a \in disk' : ArtifactRight(a))
    BY <2>3, <2>4, <2>6 DEF RegistryIInv, FilesRight
  <2>8. PICK new : new = [artifact |-> decided, status |-> decided.status]
    OBVIOUS
  <2>9. new \in Records /\ RecordRight(new) /\ new.status # "active"
    BY <2>2, <2>3, <2>4, <2>8 DEF Records, Artifacts, RecordRight, ArtifactRight
  <2>10. CASE Record(p, v, decided)
    <3>1. PICK models : models = [file.models EXCEPT ![v] = new]
      OBVIOUS
    <3>2. Write(p, models, file.epoch) /\ UNCHANGED <<handle, predicted>>
      BY <2>8, <2>10, <3>1 DEF Record
    <3>3. FileRight(file')
      BY <1>1, <1>2, <2>5, <2>9, <3>1, <3>2, RecordsChange DEF Write
    <3>. QED
      BY <1>2, <2>6, <2>7, <3>2, <3>3, WriteKeeps
  <2>11. CASE Forgets(p) /\ UNCHANGED file
    BY <2>6, <2>7, <2>11, ReadKeeps
  <2>. QED
    BY <2>6, <2>10, <2>11
<1>5. CASE record.artifact.status # "candidate"
  <2>1. Reads(p) /\ UNCHANGED <<file, backup, disk, handle, predicted>>
    BY <1>1, <1>5 DEF Decide
  <2>2. \E h \in Handles \cup {NoHandle} : handle' = [handle EXCEPT ![p] = h]
    BY <2>1 DEF RegistryIInv, ProcessesRight
  <2>3. disk' \subseteq Artifacts /\ (\A a \in disk' : ArtifactRight(a))
    BY <2>1 DEF RegistryIInv, FilesRight
  <2>. QED
    BY <2>1, <2>2, <2>3, ReadKeeps
<1>. QED
  BY <1>4, <1>5

\* The version activated takes the place of the one that was, under a new epoch.
LEMMA ActivateKeeps ==
  ASSUME RegistryIInv, NEW p \in Processes, NEW version \in Versions, Activate(p, version)
  PROVE  RegistryIInv' /\ PredictsRightly
<1>1. PICK record : record = file.models[version]
  OBVIOUS
<1>2. /\ FileRight(file) /\ file.epoch \in Nat /\ record \in Records /\ RecordRight(record)
      /\ file.models \in [Versions -> Records]
  BY <1>1 DEF RegistryIInv, FilesRight, FileRight
<1>3. /\ Readable(p) /\ record.status \in {"approved", "active"} /\ UNCHANGED <<backup, disk, handle, predicted>>
      /\ disk' \subseteq Artifacts /\ (\A a \in disk' : ArtifactRight(a))
  BY <1>1 DEF Activate, RegistryIInv, FilesRight
<1>4. CASE record.status = "active"
  <2>1. Reads(p) /\ UNCHANGED file
    BY <1>1, <1>4 DEF Activate
  <2>2. \E h \in Handles \cup {NoHandle} : handle' = [handle EXCEPT ![p] = h]
    BY <1>3 DEF RegistryIInv, ProcessesRight
  <2>. QED
    BY <1>3, <2>1, <2>2, ReadKeeps
<1>5. CASE record.status # "active"
  <2>1. PICK models : models = [v \in Versions |->
                  IF v = version THEN [record EXCEPT !.status = "active"]
                  ELSE IF file.models[v].status = "active" THEN [file.models[v] EXCEPT !.status = "retired"]
                  ELSE file.models[v]]
    OBVIOUS
  <2>2. Write(p, models, file.epoch + 1)
    BY <1>1, <1>5, <2>1 DEF Activate
  <2>3. \A r \in Records : /\ [r EXCEPT !.status = "active"] \in Records
                           /\ [r EXCEPT !.status = "active"].status = "active"
                           /\ [r EXCEPT !.status = "active"].artifact = r.artifact
                           /\ [r EXCEPT !.status = "retired"] \in Records
                           /\ [r EXCEPT !.status = "retired"].status = "retired"
                           /\ [r EXCEPT !.status = "retired"].artifact = r.artifact
    BY DEF Records
  <2>4. Reviewed(record.artifact)
    BY <1>2, <1>3 DEF RecordRight
  <2>5. models[version] \in Records /\ models[version].status = "active" /\ RecordRight(models[version])
    BY <1>2, <2>1, <2>3, <2>4 DEF RecordRight
  <2>6. ASSUME NEW v \in Versions, v # version
        PROVE  models[v] \in Records /\ models[v].status # "active" /\ RecordRight(models[v])
    <3>1. file.models[v] \in Records /\ RecordRight(file.models[v])
      BY <1>2 DEF FileRight
    <3>2. CASE file.models[v].status = "active"
      BY <2>1, <2>3, <2>6, <3>1, <3>2 DEF RecordRight
    <3>3. CASE file.models[v].status # "active"
      BY <2>1, <2>6, <3>1, <3>3
    <3>. QED
      BY <3>2, <3>3
  <2>7. models \in [Versions -> Records]
    BY <2>1, <2>5, <2>6
  <2>8. Active(models) = {version}
    BY <2>5, <2>6 DEF Active
  <2>9. file'.models = models /\ file'.epoch = file.epoch + 1
    BY <2>2 DEF Write
  <2>10. FileRight(file')
    <3>1. \A v \in Versions : RecordRight(file'.models[v])
      BY <2>5, <2>6, <2>9
    <3>2. file'.epoch \in Nat /\ file'.epoch # 0
      BY <1>2, <2>9
    <3>. QED
      BY <2>7, <2>8, <2>9, <3>1, <3>2 DEF FileRight
  <2>. QED
    BY <1>2, <1>3, <2>2, <2>10, WriteKeeps
<1>. QED
  BY <1>4, <1>5

LEMMA LoadKeeps ==
  ASSUME RegistryIInv, NEW p \in Processes, LoadActive(p)
  PROVE  RegistryIInv' /\ PredictsRightly
<1>1. PICK version \in Active(file.models) :
         /\ Reads(p) /\ UNCHANGED <<file, backup, disk, predicted>>
         /\ handle' = [handle EXCEPT ![p] =
               [epoch |-> file.epoch, version |-> version, artifact |-> file.models[version].artifact]]
  BY DEF LoadActive
<1>2. PICK h : h = [epoch |-> file.epoch, version |-> version, artifact |-> file.models[version].artifact]
  OBVIOUS
<1>3. file.epoch \in Nat /\ version \in Versions /\ file.models[version] \in Records
  BY <1>1 DEF RegistryIInv, FilesRight, FileRight, Active
<1>4. h \in Handles
  BY <1>2, <1>3 DEF Handles, Records
<1>5. disk' \subseteq Artifacts /\ (\A a \in disk' : ArtifactRight(a))
  BY <1>1 DEF RegistryIInv, FilesRight
<1>. QED
  BY <1>1, <1>2, <1>4, <1>5, ReadKeeps

\* What is predicted with is active, reviewed and of the latest epoch read.
LEMMA PredictKeeps ==
  ASSUME RegistryIInv, NEW p \in Processes, PredictProbability(p)
  PROVE  RegistryIInv' /\ PredictsRightly
<1>. USE DEF RegistryIInv
<1>1. PICK h : h = handle[p]
  OBVIOUS
<1>2. h \in Handles /\ h.epoch = file.epoch /\ Readable(p)
  BY <1>1 DEF PredictProbability, ProcessesRight
<1>3. PICK record : record = file.models[h.version]
  OBVIOUS
<1>4. /\ FileRight(file) /\ h.version \in Versions /\ record \in Records /\ RecordRight(record)
      /\ record.status = "active"
  BY <1>1, <1>2, <1>3 DEF FilesRight, FileRight, Handles, PredictProbability
<1>5. PICK made : made = [h EXCEPT !.artifact = record.artifact]
  OBVIOUS
<1>6. made \in Handles /\ made.epoch = file.epoch /\ made.version = h.version
      /\ made.artifact = record.artifact
  BY <1>2, <1>4, <1>5 DEF Handles, Records
<1>7. /\ predicted' = [predicted EXCEPT ![p] = made]
      /\ floor' = [floor EXCEPT ![p] = file.epoch]
      /\ UNCHANGED <<file, backup, disk, handle>>
  BY <1>1, <1>2, <1>3, <1>5 DEF PredictProbability, Reads
<1>8. file.epoch \in Nat /\ file.epoch >= floor[p]
  BY <1>2, <1>4 DEF FileRight, Readable
<1>9. FilesRight'
  <2>1. FileRight(file)' /\ FileRight(backup)'
    BY <1>7 DEF FilesRight
  <2>. QED
    BY <1>7, <2>1 DEF FilesRight
<1>10. ProcessesRight'
  BY <1>6, <1>7, <1>8 DEF ProcessesRight
<1>11. PredictsRightly
  <2>1. made.epoch >= predicted[p].epoch
    BY <1>6, <1>8 DEF ProcessesRight
  <2>2. Active(file.models) = {made.version}
    BY <1>3, <1>4, <1>6 DEF FileRight, Active
  <2>3. made.artifact.audit.outcome = "approved" /\ ValidAudit(made.artifact.run, made.artifact.audit)
    BY <1>4, <1>6 DEF RecordRight, Reviewed
  <2>4. \A q \in Processes : predicted'[q] = IF q = p THEN made ELSE predicted[q]
    BY <1>7 DEF ProcessesRight
  <2>. QED
    BY <2>1, <2>2, <2>3, <2>4 DEF PredictsRightly
<1>. QED
  BY <1>9, <1>10, <1>11

\* The operator copies, puts back and loses files; a service may be restarted.
LEMMA OperatorKeeps ==
  ASSUME RegistryIInv, BackUp \/ Restore \/ \E artifact \in disk : LoseArtifact(artifact)
  PROVE  RegistryIInv' /\ PredictsRightly
<1>. USE DEF RegistryIInv
<1>1. /\ UNCHANGED <<floor, handle, predicted>> /\ disk' \subseteq disk
      /\ file' \in {file, backup} /\ backup' \in {file, backup}
  BY DEF BackUp, Restore, LoseArtifact
<1>2. FileRight(file')
  BY <1>1 DEF FilesRight
<1>3. FileRight(backup')
  BY <1>1 DEF FilesRight
<1>4. FilesRight'
  BY <1>1, <1>2, <1>3 DEF FilesRight
<1>5. ProcessesRight' /\ PredictsRightly
  BY <1>1 DEF ProcessesRight, PredictsRightly
<1>. QED
  BY <1>4, <1>5

LEMMA NextRegistryIInv == RegistryIInv /\ [RegistryNext]_registryVars => RegistryIInv' /\ PredictsRightly
<1>. SUFFICES ASSUME RegistryIInv, [RegistryNext]_registryVars PROVE RegistryIInv' /\ PredictsRightly
  OBVIOUS
<1>1. CASE UNCHANGED registryVars
  <2>1. FileRight(file)' /\ FileRight(backup)'
    BY <1>1 DEF registryVars, RegistryIInv, FilesRight
  <2>. QED
    BY <1>1, <2>1 DEF registryVars, RegistryIInv, FilesRight, ProcessesRight, PredictsRightly
<1>2. CASE \E p \in Processes, v \in Versions :
             \E artifact \in disk \cup {Candidate(r) : r \in DOMAIN Recommended} : Register(p, v, artifact)
  BY <1>2, RegisterKeeps
<1>3. CASE \E p \in Processes, v \in Versions, audit \in Audits : Decide(p, v, audit)
  BY <1>3, DecideKeeps
<1>4. CASE \E p \in Processes, v \in Versions : Activate(p, v)
  BY <1>4, ActivateKeeps
<1>5. CASE \E p \in Processes : LoadActive(p)
  BY <1>5, LoadKeeps
<1>6. CASE \E p \in Processes : PredictProbability(p)
  BY <1>6, PredictKeeps
<1>7. CASE \E p \in Processes : RestartService(p)
  <2>1. disk' \subseteq Artifacts /\ (\A a \in disk' : ArtifactRight(a))
    BY <1>7 DEF RestartService, RegistryIInv, FilesRight
  <2>. QED
    BY <1>7, <2>1, ReadKeeps DEF RestartService
<1>8. CASE (\E artifact \in disk : LoseArtifact(artifact)) \/ BackUp \/ Restore
  BY <1>8, OperatorKeeps
<1>. QED
  BY <1>1, <1>2, <1>3, <1>4, <1>5, <1>6, <1>7, <1>8 DEF RegistryNext

\* However processes write, die and restart, and whatever older file is restored:
\* a prediction is made with the one active model, approved by a decision that fits
\* its gate, and never of an older epoch than the one before it (model_store.py).
THEOREM PredictionsReviewed == RegistrySpec => OnlyReviewedModelsServe
<1>1. RegistryIInv /\ [RegistryNext]_registryVars =>
        RegistryIInv' /\
        [/\ Cardinality(Active(file'.models)) <= 1
         /\ (Active(file'.models) = {}) <=> (file'.epoch = 0)
         /\ \A p \in Processes :
              predicted'[p] \notin {NoHandle, predicted[p]} =>
                  LET made == predicted'[p] IN
                  /\ made.epoch >= predicted[p].epoch
                  /\ Active(file.models) = {made.version}
                  /\ made.artifact.audit.outcome = "approved"
                  /\ ValidAudit(made.artifact.run, made.artifact.audit)]_registryVars
  <2>. SUFFICES ASSUME RegistryIInv, [RegistryNext]_registryVars
                PROVE  /\ RegistryIInv'
                       /\ Cardinality(Active(file'.models)) <= 1
                       /\ (Active(file'.models) = {}) <=> (file'.epoch = 0)
                       /\ \A p \in Processes :
                            predicted'[p] \notin {NoHandle, predicted[p]} =>
                                LET made == predicted'[p] IN
                                /\ made.epoch >= predicted[p].epoch
                                /\ Active(file.models) = {made.version}
                                /\ made.artifact.audit.outcome = "approved"
                                /\ ValidAudit(made.artifact.run, made.artifact.audit)
    OBVIOUS
  <2>1. RegistryIInv' /\ PredictsRightly
    BY NextRegistryIInv
  <2>2. FileRight(file')
    BY <2>1 DEF RegistryIInv, FilesRight
  <2>. QED
    BY <2>1, <2>2, AtMostOneActive DEF PredictsRightly, FileRight
<1>. QED
  BY InitRegistryIInv, <1>1, PTL DEF RegistrySpec, OnlyReviewedModelsServe

-----------------------------------------------------------------------------
(* The orchestrator's record.  Every copy of it, in a runtime's memory or  *)
(* in a call, is of a version the store has had, and of its latest version *)
(* there is one content; what a call is about to save keeps all that the   *)
(* version it was made from has recorded.                                  *)

TaskFields == {"version", "rev", "manual", "nodes", "assigned", "outputs", "judged", "done", "final",
               "confirmed", "run", "learned"}

\* A record whose outputs were numbered up to a version.
Numbered(t, version) ==
    /\ DOMAIN t = TaskFields
    /\ t.version \in Nat /\ t.rev \in Nat \ {0} /\ t.confirmed \in Nat /\ t.learned \in Nat
    /\ t.run \in BOOLEAN
    /\ IsFiniteSet(DOMAIN t.done)
    /\ \A n \in DOMAIN t.outputs : t.outputs[n].id \in 0..version
    /\ ~t.run => t.done = <<>>
    /\ RecordBinds(t)

Draft(t) == Numbered(t, t.version + 1)

\* A record that a store with record s has or has had.
Known(t, s) ==
    /\ t.version >= 1 /\ Numbered(t, t.version)
    /\ t.version <= s.version
    /\ t.version = s.version => t = s

\* A record about to be saved over s.
Savable(t, s) ==
    /\ Draft(t) /\ t.version <= s.version
    /\ t.version = s.version /\ s # NoTask => Keeps(s, t)

CallRight(call, s) ==
    /\ call.at \in {"loading", "ready"} => call.task = NoTask \/ Known(call.task, s)
    /\ call.at = "saving" => Savable(call.task, s)
    /\ call.at = "saved" => Known(call.task, s)

StoreRight == stored = NoTask \/ Known(stored, stored)
TasksTypeOK ==
    home \in [Callers -> Runtimes] /\ DOMAIN memory = Runtimes /\ DOMAIN calls = Callers

QueenIInv ==
    /\ TasksTypeOK /\ StoreRight
    /\ \A c \in Callers : CallRight(calls[c], stored)
    /\ \A r \in Runtimes : memory[r] = NoTask \/ Known(memory[r], stored)

-----------------------------------------------------------------------------
\* What an operation makes of a record keeps what the record has.
Effect(t, u) == Draft(u) /\ u.version = t.version /\ Keeps(t, u)

LEMMA TasksAreNot == \A t : DOMAIN t = TaskFields => t # NoTask
  BY DEF TaskFields, NoTask

LEMMA Unchanged ==
  ASSUME NEW t, Numbered(t, t.version)
  PROVE  Effect(t, t)
  BY DEF Effect, Draft, Numbered, Keeps

\* An edit of the plan, of a task that does not run: anything but its work.
LEMMA PlanEdited ==
  ASSUME NEW t, Numbered(t, t.version), ~t.run, NEW u, DOMAIN u = TaskFields,
         u.version = t.version, u.outputs = t.outputs, u.judged = t.judged, u.done = t.done,
         u.final = t.final, u.learned = t.learned, ~u.run, u.run \in BOOLEAN,
         u.rev \in Nat \ {0}, u.confirmed \in {0, u.rev}
  PROVE  Effect(t, u)
<1>1. t.done = <<>> /\ DOMAIN t.done = {} /\ Cardinality(DOMAIN t.done) = 0
  <2>1. t.done = <<>>
    BY DEF Numbered
  <2>2. DOMAIN t.done = {}
    BY <2>1
  <2>. QED
    BY <2>1, <2>2, FS_EmptySet
<1>2. RecordBinds(u)
  <2>1. \A n \in DOMAIN u.judged : JudgementBinds(u, n)
    BY DEF Numbered, RecordBinds, JudgementBinds
  <2>2. u.confirmed > 0 => u.rev = u.confirmed + Cardinality(DOMAIN u.done)
    BY <1>1
  <2>. QED
    BY <2>1, <2>2 DEF RecordBinds
<1>3. Draft(u)
  BY <1>2 DEF Draft, Numbered
<1>4. Keeps(t, u)
  BY DEF Keeps, Numbered
<1>. QED
  BY <1>3, <1>4 DEF Effect

LEMMA AssignHas ==
  ASSUME NEW t, Numbered(t, t.version), Mutable(t), NEW n, NEW a, NEW firm
  PROVE  Effect(t, Assign(t, n, a, firm))
<1>1. PICK assigned : assigned = With(t.assigned, n, [agent |-> a, accepted |-> firm])
  OBVIOUS
<1>2. PICK u : u = Assign(t, n, a, firm)
  OBVIOUS
<1>3. u = [t EXCEPT !.assigned = assigned, !.confirmed = 0]
  BY <1>1, <1>2 DEF Assign
<1>4. /\ DOMAIN u = TaskFields /\ u.version = t.version /\ u.outputs = t.outputs /\ u.judged = t.judged
      /\ u.done = t.done /\ u.final = t.final /\ u.learned = t.learned /\ u.run = t.run
      /\ u.rev = t.rev /\ u.confirmed = 0
  BY <1>3 DEF Numbered, TaskFields
<1>5. t.rev \in Nat \ {0} /\ t.run = FALSE
  BY DEF Numbered, Mutable
<1>. QED
  BY <1>2, <1>4, <1>5, PlanEdited

LEMMA AmendHas ==
  ASSUME NEW t, Numbered(t, t.version), Mutable(t), NEW nodes
  PROVE  Effect(t, Amended(t, nodes))
<1>1. PICK kept : kept = {n \in DOMAIN t.assigned : n \in DOMAIN nodes /\ nodes[n].type = t.nodes[n].type}
  OBVIOUS
<1>2. PICK assigned : assigned = [n \in kept |-> t.assigned[n]]
  OBVIOUS
<1>3. PICK u : u = Amended(t, nodes)
  OBVIOUS
<1>4. u = [t EXCEPT !.rev = t.rev + 1, !.nodes = nodes, !.confirmed = 0, !.assigned = assigned]
  BY <1>1, <1>2, <1>3 DEF Amended
<1>5. /\ DOMAIN u = TaskFields /\ u.version = t.version /\ u.outputs = t.outputs /\ u.judged = t.judged
      /\ u.done = t.done /\ u.final = t.final /\ u.learned = t.learned /\ u.run = t.run
      /\ u.rev = t.rev + 1 /\ u.confirmed = 0
  BY <1>4 DEF Numbered, TaskFields
<1>6. u.rev \in Nat \ {0} /\ t.run = FALSE
  BY <1>5 DEF Numbered, Mutable
<1>. QED
  BY <1>3, <1>5, <1>6, PlanEdited

LEMMA ConfirmHas ==
  ASSUME NEW t, Numbered(t, t.version), Mutable(t), NEW u, u = [t EXCEPT !.confirmed = t.rev]
  PROVE  Effect(t, u)
<1>1. PICK rev : rev = t.rev
  OBVIOUS
<1>2. u = [t EXCEPT !.confirmed = rev]
  BY <1>1
<1>3. /\ DOMAIN u = TaskFields /\ u.version = t.version /\ u.outputs = t.outputs /\ u.judged = t.judged
      /\ u.done = t.done /\ u.final = t.final /\ u.learned = t.learned /\ u.run = t.run
      /\ u.rev = rev /\ u.confirmed = rev
  BY <1>1, <1>2 DEF Numbered, TaskFields
<1>4. rev \in Nat \ {0} /\ t.run = FALSE
  BY <1>1 DEF Numbered, Mutable
<1>. QED
  BY <1>3, <1>4, PlanEdited

\* Records with one plan miss the same nodes.
LEMMA SamePlan ==
  ASSUME NEW t, NEW u, u.nodes = t.nodes, u.assigned = t.assigned
  PROVE  MissingRequired(u) = MissingRequired(t)
  BY DEF MissingRequired, RequiredNodes, AcceptedBy

LEMMA StartHas ==
  ASSUME NEW t, Numbered(t, t.version), NEW approved \in BOOLEAN,
         NEW u, u = [t EXCEPT !.run = t.run \/ Startable(t, approved)]
  PROVE  Effect(t, u)
<1>1. CASE t.run \/ Startable(t, approved)
  <2>1. u = [t EXCEPT !.run = TRUE]
    BY <1>1
  <2>2. /\ DOMAIN u = TaskFields /\ u.version = t.version /\ u.outputs = t.outputs /\ u.judged = t.judged
        /\ u.done = t.done /\ u.final = t.final /\ u.learned = t.learned /\ u.run = TRUE
        /\ u.rev = t.rev /\ u.confirmed = t.confirmed /\ u.nodes = t.nodes /\ u.assigned = t.assigned
    BY <2>1 DEF Numbered, TaskFields
  <2>3. MissingRequired(t) = {} /\ t.confirmed > 0
    BY <1>1 DEF Numbered, RecordBinds, Startable
  <2>4. RecordBinds(u)
    BY <2>2, <2>3, SamePlan, ZenonT(40) DEF Numbered, RecordBinds, JudgementBinds
  <2>. QED
    BY <2>2, <2>4 DEF Effect, Draft, Numbered, Keeps
<1>2. CASE ~(t.run \/ Startable(t, approved))
  <2>1. u = [t EXCEPT !.run = FALSE] /\ t.run = FALSE
    BY <1>2 DEF Numbered
  <2>2. /\ DOMAIN u = TaskFields /\ u.version = t.version /\ u.outputs = t.outputs /\ u.judged = t.judged
        /\ u.done = t.done /\ u.final = t.final /\ u.learned = t.learned /\ u.run = FALSE
        /\ u.rev = t.rev /\ u.confirmed = t.confirmed /\ u.nodes = t.nodes /\ u.assigned = t.assigned
    BY <2>1 DEF Numbered, TaskFields
  <2>3. RecordBinds(u)
    BY <2>2 DEF Numbered, RecordBinds, JudgementBinds
  <2>. QED
    BY <2>1, <2>2, <2>3 DEF Effect, Draft, Numbered, Keeps
<1>. QED
  BY <1>1, <1>2

\* Work on a running task: its plan stands, and outputs are only renewed.
WorkDone(t, u) ==
    /\ DOMAIN u = TaskFields /\ u.version = t.version /\ u.run = t.run /\ u.confirmed = t.confirmed
    /\ u.nodes = t.nodes /\ u.assigned = t.assigned

LEMMA WorkHas ==
  ASSUME NEW t, Numbered(t, t.version), t.run, NEW u, WorkDone(t, u),
         u.rev \in Nat \ {0}, u.learned \in Nat, t.learned <= u.learned, t.final \in {Nobody, u.final},
         IsFiniteSet(DOMAIN u.done), DOMAIN t.done \subseteq DOMAIN u.done,
         u.rev = u.confirmed + Cardinality(DOMAIN u.done),
         \A n \in DOMAIN t.outputs : n \in DOMAIN u.outputs,
         \A n \in DOMAIN u.outputs :
             u.outputs[n].id = t.version + 1 \/ (n \in DOMAIN t.outputs /\ u.outputs[n] = t.outputs[n]),
         \A n \in DOMAIN u.judged : JudgementBinds(u, n)
  PROVE  Effect(t, u)
<1>1. MissingRequired(u) = MissingRequired(t)
  BY SamePlan DEF WorkDone
<1>2. RecordBinds(u)
  BY <1>1 DEF WorkDone, RecordBinds, Numbered
<1>3. \A n \in DOMAIN u.outputs : u.outputs[n].id \in 0..(t.version + 1)
  BY DEF Numbered
<1>4. Draft(u)
  BY <1>2, <1>3 DEF Draft, Numbered, WorkDone
<1>5. \A n \in DOMAIN t.outputs : n \in DOMAIN u.outputs /\ t.outputs[n].id <= u.outputs[n].id
  BY DEF Numbered
<1>6. Keeps(t, u)
  BY <1>5 DEF Keeps, WorkDone
<1>. QED
  BY <1>4, <1>6 DEF Effect, WorkDone

LEMMA SubmitHas ==
  ASSUME NEW t, Numbered(t, t.version), t.run, NEW n, n \notin DOMAIN t.outputs, NEW a,
         NEW u, u = [t EXCEPT !.outputs = With(t.outputs, n, Output(t, a))]
  PROVE  Effect(t, u)
<1>0. /\ t.rev = t.confirmed + Cardinality(DOMAIN t.done) /\ IsFiniteSet(DOMAIN t.done)
      /\ \A m \in DOMAIN t.judged : JudgementBinds(t, m)
      /\ t.rev \in Nat \ {0} /\ t.learned \in Nat /\ t.version \in Nat /\ DOMAIN t = TaskFields
      /\ t.confirmed \in Nat
  BY DEF Numbered, RecordBinds
<1>1. PICK outputs : outputs = With(t.outputs, n, Output(t, a))
  OBVIOUS
<1>2. /\ DOMAIN outputs = DOMAIN t.outputs \cup {n} /\ outputs[n].id = t.version + 1
      /\ \A m \in DOMAIN t.outputs : outputs[m] = t.outputs[m]
  BY <1>1 DEF With, Output
<1>3. u = [t EXCEPT !.outputs = outputs]
  BY <1>1
<1>4. /\ WorkDone(t, u) /\ u.outputs = outputs /\ u.judged = t.judged /\ u.done = t.done /\ u.final = t.final
      /\ u.learned = t.learned /\ u.rev = t.rev /\ u.confirmed = t.confirmed
  BY <1>3, <1>0 DEF TaskFields, WorkDone
<1>5. \A m \in DOMAIN u.judged : JudgementBinds(u, m)
  BY <1>2, <1>4, <1>0, ZenonT(40) DEF JudgementBinds
<1>6. /\ u.rev \in Nat \ {0} /\ u.learned \in Nat /\ t.learned <= u.learned /\ t.final \in {Nobody, u.final}
      /\ IsFiniteSet(DOMAIN u.done) /\ DOMAIN t.done \subseteq DOMAIN u.done
      /\ u.rev = u.confirmed + Cardinality(DOMAIN u.done)
  BY <1>0, <1>4
<1>7. /\ \A m \in DOMAIN t.outputs : m \in DOMAIN u.outputs
      /\ \A m \in DOMAIN u.outputs :
           u.outputs[m].id = t.version + 1 \/ (m \in DOMAIN t.outputs /\ u.outputs[m] = t.outputs[m])
  BY <1>2, <1>4
<1>. QED
  BY <1>4, <1>5, <1>6, <1>7, WorkHas

LEMMA JudgeHas ==
  ASSUME NEW t, Numbered(t, t.version), t.run, NEW n, NEW a, NEW approved, MayJudge(t, n, a),
         NEW u, u = [t EXCEPT !.judged = With(t.judged, n,
                             [by |-> a, of |-> t.outputs[n].id, approved |-> approved])]
  PROVE  Effect(t, u)
<1>0. /\ t.rev = t.confirmed + Cardinality(DOMAIN t.done) /\ IsFiniteSet(DOMAIN t.done)
      /\ \A m \in DOMAIN t.judged : JudgementBinds(t, m)
      /\ t.rev \in Nat \ {0} /\ t.learned \in Nat /\ t.version \in Nat /\ DOMAIN t = TaskFields
      /\ t.confirmed \in Nat
  BY DEF Numbered, RecordBinds
<1>1. PICK judged : judged = With(t.judged, n, [by |-> a, of |-> t.outputs[n].id, approved |-> approved])
  OBVIOUS
<1>2. /\ DOMAIN judged = DOMAIN t.judged \cup {n} /\ judged[n].by = a /\ judged[n].of = t.outputs[n].id
      /\ \A m \in DOMAIN t.judged : m # n => judged[m] = t.judged[m]
  BY <1>1 DEF With
<1>3. u = [t EXCEPT !.judged = judged]
  BY <1>1
<1>4. /\ WorkDone(t, u) /\ u.outputs = t.outputs /\ u.judged = judged /\ u.done = t.done /\ u.final = t.final
      /\ u.learned = t.learned /\ u.rev = t.rev /\ u.confirmed = t.confirmed
  BY <1>3, <1>0 DEF TaskFields, WorkDone
<1>5. \A m \in DOMAIN u.judged : JudgementBinds(u, m)
  <2>1. JudgementBinds(u, n)
    <3>1. n \in DOMAIN t.outputs /\ Independent(a, {Queen, t.outputs[n].by})
      BY DEF MayJudge
    <3>2. u.judged[n].by = a /\ u.judged[n].of = t.outputs[n].id
      BY <1>2, <1>4
    <3>. QED
      BY <1>4, <3>1, <3>2 DEF JudgementBinds
  <2>2. ASSUME NEW m \in DOMAIN t.judged, m # n PROVE JudgementBinds(u, m)
    <3>1. JudgementBinds(t, m) /\ u.judged[m] = t.judged[m]
      BY <1>0, <1>2, <1>4, <2>2
    <3>. QED
      BY <1>4, <3>1 DEF JudgementBinds
  <2>. QED
    BY <1>2, <1>4, <2>1, <2>2
<1>6. /\ u.rev \in Nat \ {0} /\ u.learned \in Nat /\ t.learned <= u.learned /\ t.final \in {Nobody, u.final}
      /\ IsFiniteSet(DOMAIN u.done) /\ DOMAIN t.done \subseteq DOMAIN u.done
      /\ u.rev = u.confirmed + Cardinality(DOMAIN u.done)
  BY <1>0, <1>4
<1>. QED
  BY <1>4, <1>5, <1>6, WorkHas

\* An attempt that is new adds one node to the graph.
LEMMA AppendedIs ==
  ASSUME NEW t, Numbered(t, t.version), t.run, NEW key, key \notin DOMAIN t.done, NEW a
  PROVE  LET u == Appended(t, key, a) IN
         /\ WorkDone(t, u) /\ u.outputs = t.outputs /\ u.judged = t.judged /\ u.final = t.final
         /\ u.learned = t.learned /\ u.rev = t.rev + 1 /\ DOMAIN t.done \subseteq DOMAIN u.done
         /\ IsFiniteSet(DOMAIN u.done) /\ u.rev = u.confirmed + Cardinality(DOMAIN u.done)
<1>0. /\ t.rev = t.confirmed + Cardinality(DOMAIN t.done) /\ IsFiniteSet(DOMAIN t.done)
      /\ \A m \in DOMAIN t.judged : JudgementBinds(t, m)
      /\ t.rev \in Nat \ {0} /\ t.learned \in Nat /\ t.version \in Nat /\ DOMAIN t = TaskFields
      /\ t.confirmed \in Nat
  BY DEF Numbered, RecordBinds
<1>1. PICK done : done = With(t.done, key, a)
  OBVIOUS
<1>2. DOMAIN done = DOMAIN t.done \cup {key}
  BY <1>1 DEF With
<1>3. PICK rev : rev = t.rev + 1
  OBVIOUS
<1>4. PICK u : u = Appended(t, key, a)
  OBVIOUS
<1>5. u = [t EXCEPT !.done = done, !.rev = rev]
  BY <1>1, <1>3, <1>4 DEF Appended
<1>6. /\ WorkDone(t, u) /\ u.outputs = t.outputs /\ u.judged = t.judged /\ u.final = t.final
      /\ u.learned = t.learned /\ u.rev = rev /\ u.done = done /\ u.confirmed = t.confirmed
  BY <1>5, <1>0 DEF TaskFields, WorkDone
<1>7. IsFiniteSet(DOMAIN done) /\ Cardinality(DOMAIN done) = Cardinality(DOMAIN t.done) + 1
      /\ Cardinality(DOMAIN t.done) \in Nat
  BY <1>2, <1>0, FS_AddElement, FS_CardinalityType
<1>8. rev = t.confirmed + Cardinality(DOMAIN done)
  BY <1>3, <1>7, <1>0
<1>. QED
  BY <1>2, <1>3, <1>4, <1>6, <1>7, <1>8

LEMMA AppendHas ==
  ASSUME NEW t, Numbered(t, t.version), t.run, NEW key, NEW a
  PROVE  Effect(t, Appended(t, key, a))
<1>0. /\ t.rev = t.confirmed + Cardinality(DOMAIN t.done) /\ IsFiniteSet(DOMAIN t.done)
      /\ \A m \in DOMAIN t.judged : JudgementBinds(t, m)
      /\ t.rev \in Nat \ {0} /\ t.learned \in Nat /\ t.version \in Nat /\ DOMAIN t = TaskFields
      /\ t.confirmed \in Nat
  BY DEF Numbered, RecordBinds
<1>1. CASE key \in DOMAIN t.done
  BY <1>1, Unchanged DEF Appended
<1>2. CASE key \notin DOMAIN t.done
  <2>1. PICK u : u = Appended(t, key, a)
    OBVIOUS
  <2>2. /\ WorkDone(t, u) /\ u.outputs = t.outputs /\ u.judged = t.judged /\ u.final = t.final
        /\ u.learned = t.learned /\ u.rev = t.rev + 1 /\ DOMAIN t.done \subseteq DOMAIN u.done
        /\ IsFiniteSet(DOMAIN u.done) /\ u.rev = u.confirmed + Cardinality(DOMAIN u.done)
    BY <1>2, <2>1, AppendedIs
  <2>3. u.rev \in Nat \ {0} /\ u.learned \in Nat /\ t.learned <= u.learned
    BY <2>2, <1>0
  <2>4. \A n \in DOMAIN u.judged : JudgementBinds(u, n)
    BY <2>2, <1>0 DEF JudgementBinds
  <2>. QED
    BY <2>1, <2>2, <2>3, <2>4, WorkHas
<1>. QED
  BY <1>1, <1>2

LEMMA RepairHas ==
  ASSUME NEW t, Numbered(t, t.version), t.run, NEW key, key \notin DOMAIN t.done, NEW n, NEW a
  PROVE  Effect(t, Repaired(Appended(t, key, a), n, a))
<1>0. /\ t.rev = t.confirmed + Cardinality(DOMAIN t.done) /\ IsFiniteSet(DOMAIN t.done)
      /\ \A m \in DOMAIN t.judged : JudgementBinds(t, m)
      /\ t.rev \in Nat \ {0} /\ t.learned \in Nat /\ t.version \in Nat /\ DOMAIN t = TaskFields
      /\ t.confirmed \in Nat
  BY DEF Numbered, RecordBinds
<1>1. PICK s : s = Appended(t, key, a)
  OBVIOUS
<1>2. /\ WorkDone(t, s) /\ s.outputs = t.outputs /\ s.judged = t.judged /\ s.final = t.final
      /\ s.learned = t.learned /\ s.rev = t.rev + 1 /\ DOMAIN t.done \subseteq DOMAIN s.done
      /\ IsFiniteSet(DOMAIN s.done) /\ s.rev = s.confirmed + Cardinality(DOMAIN s.done)
  BY <1>1, AppendedIs
<1>3. PICK outputs : outputs = With(s.outputs, n, Output(s, a))
  OBVIOUS
<1>4. PICK judged : judged = [m \in DOMAIN s.judged \ {n} |-> s.judged[m]]
  OBVIOUS
<1>5. PICK u : u = Repaired(s, n, a)
  OBVIOUS
<1>6. u = [s EXCEPT !.outputs = outputs, !.judged = judged]
  BY <1>3, <1>4, <1>5 DEF Repaired
<1>7. DOMAIN s = TaskFields
  BY <1>2 DEF WorkDone
<1>8. /\ DOMAIN u = TaskFields /\ u.version = s.version /\ u.run = s.run /\ u.confirmed = s.confirmed
      /\ u.nodes = s.nodes /\ u.assigned = s.assigned /\ u.outputs = outputs /\ u.judged = judged
      /\ u.final = s.final /\ u.learned = s.learned /\ u.rev = s.rev /\ u.done = s.done
  BY <1>6, <1>7 DEF TaskFields
<1>9. WorkDone(t, u)
  BY <1>2, <1>8 DEF WorkDone
<1>10. /\ DOMAIN outputs = DOMAIN t.outputs \cup {n} /\ outputs[n].id = t.version + 1
       /\ \A m \in DOMAIN t.outputs : m # n => outputs[m] = t.outputs[m]
  BY <1>2, <1>3 DEF With, Output, WorkDone
<1>11. \A m \in DOMAIN judged : m # n /\ m \in DOMAIN t.judged /\ judged[m] = t.judged[m]
  BY <1>2, <1>4
<1>12. \A m \in DOMAIN u.judged : JudgementBinds(u, m)
  BY <1>8, <1>10, <1>11, <1>0, ZenonT(40) DEF JudgementBinds
<1>13. u.rev \in Nat \ {0} /\ u.learned \in Nat /\ t.learned <= u.learned
  BY <1>2, <1>8, <1>0
<1>14. IsFiniteSet(DOMAIN u.done) /\ DOMAIN t.done \subseteq DOMAIN u.done
       /\ u.rev = u.confirmed + Cardinality(DOMAIN u.done) /\ u.final = t.final
  BY <1>2, <1>8
<1>15. /\ \A m \in DOMAIN t.outputs : m \in DOMAIN u.outputs
       /\ \A m \in DOMAIN u.outputs :
            u.outputs[m].id = t.version + 1 \/ (m \in DOMAIN t.outputs /\ u.outputs[m] = t.outputs[m])
  BY <1>8, <1>10
<1>. QED
  BY <1>1, <1>5, <1>9, <1>12, <1>13, <1>14, <1>15, WorkHas

LEMMA FinalHas ==
  ASSUME NEW t, Numbered(t, t.version), t.run, NEW a, t.final \in {Nobody, a}, NEW u, u = [t EXCEPT !.final = a]
  PROVE  Effect(t, u)
<1>0. DOMAIN t = TaskFields
  BY DEF Numbered
<1>1. /\ DOMAIN u = TaskFields /\ u.version = t.version /\ u.run = t.run /\ u.confirmed = t.confirmed
      /\ u.nodes = t.nodes /\ u.assigned = t.assigned /\ u.outputs = t.outputs /\ u.judged = t.judged
      /\ u.final = a /\ u.learned = t.learned /\ u.rev = t.rev /\ u.done = t.done
  BY <1>0 DEF TaskFields
<1>2. RecordBinds(u)
  BY <1>1, SamePlan, ZenonT(40) DEF Numbered, RecordBinds, JudgementBinds
<1>. QED
  <2>1. Draft(u)
    <3>1. u.run /\ u.run \in BOOLEAN
      BY <1>1 DEF Numbered
    <3>2. \A n \in DOMAIN u.outputs : u.outputs[n].id \in 0..(u.version + 1)
      BY <1>1 DEF Numbered
    <3>. QED
      BY <1>1, <1>2, <3>1, <3>2 DEF Draft, Numbered
  <2>2. Keeps(t, u)
    BY <1>1 DEF Numbered, Keeps
  <2>. QED
    BY <1>1, <2>1, <2>2 DEF Effect

LEMMA LearnHas ==
  ASSUME NEW t, Numbered(t, t.version), t.run, NEW u, u = [t EXCEPT !.learned = t.learned + 1]
  PROVE  Effect(t, u)
<1>0. DOMAIN t = TaskFields /\ t.learned \in Nat
  BY DEF Numbered
<1>1. PICK learned : learned = t.learned + 1
  OBVIOUS
<1>2. u = [t EXCEPT !.learned = learned]
  BY <1>1
<1>3. /\ DOMAIN u = TaskFields /\ u.version = t.version /\ u.run = t.run /\ u.confirmed = t.confirmed
      /\ u.nodes = t.nodes /\ u.assigned = t.assigned /\ u.outputs = t.outputs /\ u.judged = t.judged
      /\ u.final = t.final /\ u.learned = learned /\ u.rev = t.rev /\ u.done = t.done
  BY <1>0, <1>2 DEF TaskFields
<1>4. RecordBinds(u)
  BY <1>3, SamePlan, ZenonT(40) DEF Numbered, RecordBinds, JudgementBinds
<1>. QED
  <2>1. Draft(u)
    <3>1. u.run /\ u.run \in BOOLEAN
      BY <1>3 DEF Numbered
    <3>2. \A n \in DOMAIN u.outputs : u.outputs[n].id \in 0..(u.version + 1)
      BY <1>3 DEF Numbered
    <3>. QED
      BY <1>0, <1>1, <1>3, <1>4, <3>1, <3>2 DEF Draft, Numbered
  <2>2. Keeps(t, u)
    BY <1>0, <1>1, <1>3 DEF Numbered, Keeps
  <2>. QED
    BY <1>3, <2>1, <2>2 DEF Effect

LEMMA NewHas ==
  ASSUME NEW high \in BOOLEAN
  PROVE  LET t == NewTask(high) IN Draft(t) /\ t.version = 0
<1>1. PICK nodes : nodes = Proposed(high)
  OBVIOUS
<1>2. PICK t : t = NewTask(high)
  OBVIOUS
<1>3. t = [version |-> 0, rev |-> 1, manual |-> high, nodes |-> nodes, assigned |-> <<>>,
           outputs |-> <<>>, judged |-> <<>>, done |-> <<>>, final |-> Nobody,
           confirmed |-> 0, run |-> FALSE, learned |-> 0]
  BY <1>1, <1>2 DEF NewTask
<1>4. /\ t.version = 0 /\ t.rev = 1 /\ t.outputs = <<>> /\ t.judged = <<>> /\ t.done = <<>>
      /\ t.confirmed = 0 /\ t.run = FALSE /\ t.learned = 0 /\ DOMAIN t = TaskFields
  BY <1>3 DEF TaskFields
<1>5. DOMAIN t.outputs = {} /\ DOMAIN t.judged = {} /\ DOMAIN t.done = {}
  BY <1>4
<1>6. IsFiniteSet(DOMAIN t.done)
  BY <1>5, FS_EmptySet
<1>7. RecordBinds(t)
  BY <1>4, <1>5 DEF RecordBinds
<1>. QED
  <2>1. Numbered(t, 1)
    <3>1. t.run \in BOOLEAN
      BY <1>4
    <3>2. t.version \in Nat /\ t.rev \in Nat \ {0} /\ t.confirmed \in Nat /\ t.learned \in Nat
      BY <1>4
    <3>3. \A n \in DOMAIN t.outputs : t.outputs[n].id \in 0..1
      BY <1>5
    <3>. QED
      BY <1>4, <1>6, <1>7, <3>1, <3>2, <3>3 DEF Numbered
  <2>2. t.version + 1 = 1
    BY <1>4
  <2>. QED
    BY <1>2, <1>4, <2>1, <2>2 DEF Draft

-----------------------------------------------------------------------------
LEMMA InitQueenIInv == QueenTaskInit => QueenIInv
<1>. SUFFICES ASSUME QueenTaskInit PROVE QueenIInv
  OBVIOUS
<1>1. NoCall.at = "idle"
  BY DEF NoCall
<1>2. \A c \in Callers : calls[c].at = "idle"
  BY <1>1 DEF QueenTaskInit
<1>. QED
  BY <1>2 DEF QueenTaskInit, QueenIInv, TasksTypeOK, StoreRight, CallRight

\* One call moves on, with a record that fits where it has come to.
LEMMA CallMoves ==
  ASSUME QueenIInv, NEW c \in Callers, NEW at, NEW record, Become(c, at, record), UNCHANGED <<stored, home>>,
         CallRight([at |-> at, task |-> record], stored),
         DOMAIN memory' = Runtimes, \A r \in Runtimes : memory'[r] = NoTask \/ Known(memory'[r], stored)
  PROVE  QueenIInv'
<1>1. PICK call : call = [at |-> at, task |-> record]
  OBVIOUS
<1>2. DOMAIN calls' = Callers /\ \A d \in Callers : calls'[d] = IF d = c THEN call ELSE calls[d]
  BY <1>1 DEF Become, QueenIInv, TasksTypeOK
<1>3. TasksTypeOK'
  BY <1>2 DEF QueenIInv, TasksTypeOK
<1>4. StoreRight'
  BY DEF QueenIInv, StoreRight
<1>5. \A d \in Callers : CallRight(calls'[d], stored')
  BY <1>1, <1>2 DEF QueenIInv
<1>. QED
  BY <1>3, <1>4, <1>5 DEF QueenIInv

\* An operation is performed on a clone of what the call was given.
LEMMA PerformKeeps ==
  ASSUME QueenIInv, NEW c \in Callers, Has(c), NEW u, Perform(c, u), Effect(calls[c].task, u)
  PROVE  QueenIInv'
<1>1. PICK t : t = calls[c].task
  OBVIOUS
<1>2. CallRight(calls[c], stored) /\ calls[c].at = "ready" /\ t # NoTask
  BY <1>1 DEF QueenIInv, Has, On
<1>3. Known(t, stored) /\ Effect(t, u)
  BY <1>1, <1>2 DEF CallRight
<1>4. Savable(u, stored)
  BY <1>3 DEF Known, Savable, Effect
<1>5. PICK call : call = [at |-> "saving", task |-> u]
  OBVIOUS
<1>6. CallRight(call, stored)
  BY <1>4, <1>5 DEF CallRight
<1>7. DOMAIN memory' = Runtimes /\ \A r \in Runtimes : memory'[r] = NoTask \/ Known(memory'[r], stored)
  BY DEF Perform, QueenIInv, TasksTypeOK
<1>. QED
  BY <1>5, <1>6, <1>7, CallMoves DEF Perform

\* ... and that is a record with all of its invariants.
LEMMA OnIs ==
  ASSUME QueenIInv, NEW c \in Callers, Has(c)
  PROVE  Numbered(On(c), On(c).version) /\ On(c) = calls[c].task
<1>1. CallRight(calls[c], stored)
  BY DEF QueenIInv
<1>. QED
  BY <1>1 DEF Has, On, CallRight, Known

LEMMA ProposeKeeps ==
  ASSUME QueenIInv, NEW c \in Callers, NEW high \in BOOLEAN, ProposeTaskGraph(c, high)
  PROVE  QueenIInv'
<1>1. CASE On(c) = NoTask
  <2>1. PICK u : u = NewTask(high)
    OBVIOUS
  <2>2. Draft(u) /\ u.version = 0
    BY <2>1, NewHas
  <2>3. (stored = NoTask /\ stored.version = 0) \/ stored.version >= 1
    BY DEF QueenIInv, StoreRight, Known, NoTask
  <2>4. stored.version \in Nat
    BY DEF QueenIInv, StoreRight, Known, Numbered, NoTask
  <2>5. Savable(u, stored)
    BY <2>2, <2>3, <2>4 DEF Savable
  <2>6. PICK call : call = [at |-> "saving", task |-> u]
    OBVIOUS
  <2>7. CallRight(call, stored)
    BY <2>5, <2>6 DEF CallRight
  <2>8. Perform(c, u)
    BY <1>1, <2>1 DEF ProposeTaskGraph
  <2>9. DOMAIN memory' = Runtimes /\ \A r \in Runtimes : memory'[r] = NoTask \/ Known(memory'[r], stored)
    BY <2>8 DEF Perform, QueenIInv, TasksTypeOK
  <2>. QED
    BY <2>6, <2>7, <2>8, <2>9, CallMoves DEF Perform
<1>2. CASE On(c) # NoTask
  <2>1. Has(c) /\ Perform(c, On(c))
    BY <1>2 DEF ProposeTaskGraph, Has
  <2>. QED
    BY <2>1, OnIs, Unchanged, PerformKeeps
<1>. QED
  BY <1>1, <1>2

LEMMA PlanningKeeps ==
  ASSUME QueenIInv, NEW c \in Callers,
         \/ \E nodes \in Amendments : AmendTaskGraph(c, nodes)
         \/ ConfirmTaskGraph(c)
         \/ \E approved \in BOOLEAN : StartTaskRun(c, approved)
         \/ \E n, a : RankNodeAgents(c, n) \/ SelectNodeAgent(c, n, a) \/ AcceptNodeAssignment(c, n, a)
  PROVE  QueenIInv'
<1>1. Has(c)
  BY DEF AmendTaskGraph, ConfirmTaskGraph, StartTaskRun, RankNodeAgents, SelectNodeAgent,
         AcceptNodeAssignment, Editable
<1>2. PICK t : t = On(c)
  OBVIOUS
<1>3. Numbered(t, t.version) /\ t = calls[c].task
  BY <1>1, <1>2, OnIs
<1>4. \A u : Perform(c, u) /\ Effect(t, u) => QueenIInv'
  BY <1>1, <1>3, PerformKeeps
<1>5. CASE \E nodes \in Amendments : AmendTaskGraph(c, nodes)
  <2>1. PICK nodes \in Amendments : Mutable(t) /\ Perform(c, Amended(t, nodes))
    BY <1>2, <1>5 DEF AmendTaskGraph, Editable
  <2>. QED
    BY <1>3, <1>4, <2>1, AmendHas
<1>6. CASE ConfirmTaskGraph(c)
  <2>1. PICK u : u = [t EXCEPT !.confirmed = t.rev]
    OBVIOUS
  <2>2. Mutable(t) /\ Perform(c, u)
    BY <1>2, <1>6, <2>1 DEF ConfirmTaskGraph, Editable
  <2>. QED
    BY <1>3, <1>4, <2>1, <2>2, ConfirmHas
<1>7. CASE \E approved \in BOOLEAN : StartTaskRun(c, approved)
  <2>1. PICK approved \in BOOLEAN : StartTaskRun(c, approved)
    BY <1>7
  <2>2. PICK u : u = [t EXCEPT !.run = t.run \/ Startable(t, approved)]
    OBVIOUS
  <2>3. Perform(c, u)
    BY <1>2, <2>1, <2>2 DEF StartTaskRun
  <2>. QED
    BY <1>3, <1>4, <2>2, <2>3, StartHas
<1>8. CASE \E n, a : RankNodeAgents(c, n) \/ SelectNodeAgent(c, n, a) \/ AcceptNodeAssignment(c, n, a)
  <2>1. Mutable(t) /\ (Perform(c, t) \/ \E n, a, firm : Perform(c, Assign(t, n, a, firm)))
    BY <1>2, <1>8 DEF RankNodeAgents, SelectNodeAgent, AcceptNodeAssignment, Editable
  <2>. QED
    BY <1>3, <1>4, <2>1, Unchanged, AssignHas
<1>. QED
  BY <1>5, <1>6, <1>7, <1>8

LEMMA ExecutionKeeps ==
  ASSUME QueenIInv, NEW c \in Callers,
         \/ WriteLearningLoop(c)
         \/ \E n, a : SubmitNodeOutput(c, n, a) \/ JudgeNodeOutput(c, n, a)
         \/ \E a : FinalArbitrate(c, a)
         \/ \E n, a, k : RequestAdversarialReview(c, n, a, k) \/ RepairNode(c, n, a, k)
  PROVE  QueenIInv'
<1>1. Running(c)
  BY DEF WriteLearningLoop, SubmitNodeOutput, JudgeNodeOutput, FinalArbitrate,
         RequestAdversarialReview, RepairNode
<1>2. PICK t : t = On(c)
  OBVIOUS
<1>3. Has(c) /\ Numbered(t, t.version) /\ t = calls[c].task /\ t.run
  BY <1>1, <1>2, OnIs DEF Running
<1>4. \A u : Perform(c, u) /\ Effect(t, u) => QueenIInv'
  BY <1>3, PerformKeeps
<1>5. CASE WriteLearningLoop(c)
  <2>1. PICK u : u = [t EXCEPT !.learned = t.learned + 1]
    OBVIOUS
  <2>2. Perform(c, u)
    BY <1>2, <1>5, <2>1 DEF WriteLearningLoop
  <2>. QED
    BY <1>3, <1>4, <2>1, <2>2, LearnHas
<1>6. CASE \E n, a : SubmitNodeOutput(c, n, a)
  <2>1. PICK n, a : SubmitNodeOutput(c, n, a)
    BY <1>6
  <2>2. PICK u : u = [t EXCEPT !.outputs = With(t.outputs, n, Output(t, a))]
    OBVIOUS
  <2>3. Perform(c, IF n \in DOMAIN t.outputs THEN t ELSE u)
    BY <1>2, <2>1, <2>2 DEF SubmitNodeOutput
  <2>4. n \notin DOMAIN t.outputs => Effect(t, u)
    BY <1>3, <2>2, SubmitHas
  <2>. QED
    BY <1>3, <1>4, <2>3, <2>4, Unchanged
<1>7. CASE \E n, a : JudgeNodeOutput(c, n, a)
  <2>1. PICK n, a : JudgeNodeOutput(c, n, a)
    BY <1>7
  <2>2. PICK approved \in BOOLEAN :
           Perform(c, IF n \in DOMAIN t.judged THEN t
                      ELSE [t EXCEPT !.judged = With(t.judged, n,
                              [by |-> a, of |-> t.outputs[n].id, approved |-> approved])])
    BY <1>2, <2>1 DEF JudgeNodeOutput
  <2>3. PICK u : u = [t EXCEPT !.judged = With(t.judged, n,
                              [by |-> a, of |-> t.outputs[n].id, approved |-> approved])]
    OBVIOUS
  <2>4. Perform(c, IF n \in DOMAIN t.judged THEN t ELSE u)
    BY <2>2, <2>3
  <2>5. MayJudge(t, n, a)
    BY <1>2, <2>1 DEF JudgeNodeOutput
  <2>6. Effect(t, u)
    BY <1>3, <2>3, <2>5, JudgeHas
  <2>. QED
    BY <1>3, <1>4, <2>4, <2>6, Unchanged
<1>8. CASE \E a : FinalArbitrate(c, a)
  <2>1. PICK a : FinalArbitrate(c, a)
    BY <1>8
  <2>2. PICK u : u = [t EXCEPT !.final = a]
    OBVIOUS
  <2>3. Perform(c, u) /\ t.final \in {Nobody, a}
    BY <1>2, <2>1, <2>2 DEF FinalArbitrate
  <2>. QED
    BY <1>3, <1>4, <2>2, <2>3, FinalHas
<1>9. CASE \E n, a, k : RequestAdversarialReview(c, n, a, k)
  <2>1. PICK key, a : Perform(c, Appended(t, key, a))
    BY <1>2, <1>9 DEF RequestAdversarialReview
  <2>. QED
    BY <1>3, <1>4, <2>1, AppendHas
<1>10. CASE \E n, a, k : RepairNode(c, n, a, k)
  <2>1. PICK n, a, key : Perform(c, IF key \in DOMAIN t.done THEN t ELSE Repaired(Appended(t, key, a), n, a))
    BY <1>2, <1>10 DEF RepairNode
  <2>. QED
    BY <1>3, <1>4, <2>1, Unchanged, RepairHas
<1>. QED
  BY <1>5, <1>6, <1>7, <1>8, <1>9, <1>10

\* What the runtimes do with the record around an operation, short of saving it.
LEMMA CarriedKeeps ==
  ASSUME QueenIInv, NEW c \in Callers, Receive(c) \/ Hydrate(c) \/ Publish(c) \/ Fail(c)
  PROVE  QueenIInv'
<1>1. /\ CallRight(calls[c], stored) /\ home[c] \in Runtimes /\ DOMAIN memory = Runtimes
      /\ \A r \in Runtimes : memory[r] = NoTask \/ Known(memory[r], stored)
      /\ stored = NoTask \/ Known(stored, stored)
  BY DEF QueenIInv, TasksTypeOK, StoreRight
<1>2. UNCHANGED <<stored, home>>
  BY DEF Receive, Hydrate, Publish, Fail
<1>3. ASSUME NEW at, NEW record, Become(c, at, record), CallRight([at |-> at, task |-> record], stored),
             DOMAIN memory' = Runtimes, \A r \in Runtimes : memory'[r] = NoTask \/ Known(memory'[r], stored)
      PROVE  QueenIInv'
  BY <1>2, <1>3, CallMoves
<1>4. \A record : /\ record = NoTask \/ Known(record, stored) =>
                     /\ CallRight([at |-> "loading", task |-> record], stored)
                     /\ CallRight([at |-> "ready", task |-> record], stored)
                /\ CallRight([at |-> "idle", task |-> record], stored)
  BY DEF CallRight
<1>5. CASE Receive(c)
  <2>1. PICK at, record : at \in {"loading", "ready"} /\ Become(c, at, record) /\ (record = NoTask \/ Known(record, stored)) /\ UNCHANGED memory
    BY <1>1, <1>5 DEF Receive
  <2>. QED
    BY <1>1, <1>3, <1>4, <2>1
<1>6. CASE Hydrate(c)
  <2>1. PICK known : known = IF calls[c].task = NoTask THEN memory[home[c]] ELSE calls[c].task
    OBVIOUS
  <2>2. known = NoTask \/ Known(known, stored)
    BY <1>1, <1>6, <2>1 DEF Hydrate, CallRight
  <2>3. Become(c, "ready", known) /\ memory' = [memory EXCEPT ![home[c]] = known]
    BY <1>6, <2>1 DEF Hydrate
  <2>4. DOMAIN memory' = Runtimes /\ \A r \in Runtimes : memory'[r] = NoTask \/ Known(memory'[r], stored)
    BY <1>1, <2>2, <2>3
  <2>. QED
    BY <1>3, <1>4, <2>2, <2>3, <2>4
<1>7. CASE Publish(c)
  <2>1. Known(calls[c].task, stored)
    BY <1>1, <1>7 DEF Publish, CallRight
  <2>2. DOMAIN memory' = Runtimes /\ \A r \in Runtimes : memory'[r] = NoTask \/ Known(memory'[r], stored)
    BY <1>1, <1>7, <2>1 DEF Publish
  <2>. QED
    BY <1>3, <1>4, <1>7, <2>2 DEF Publish
<1>8. CASE Fail(c)
  <2>1. DOMAIN memory' = Runtimes /\ \A r \in Runtimes : memory'[r] = NoTask \/ Known(memory'[r], stored)
    BY <1>1, <1>8 DEF Fail
  <2>. QED
    BY <1>3, <1>4, <1>8, <2>1 DEF Fail
<1>. QED
  BY <1>5, <1>6, <1>7, <1>8

\* A save under the version in the store succeeds what is in the store.
LEMMA SaveKeeps ==
  ASSUME QueenIInv, NEW c \in Callers, Save(c)
  PROVE  /\ QueenIInv'
         /\ stored' = stored \/ (stored' # NoTask /\ (stored # NoTask => Keeps(stored, stored')))
<1>1. PICK t : t = calls[c].task
  OBVIOUS
<1>2. CallRight(calls[c], stored) /\ calls[c].at = "saving" /\ UNCHANGED <<memory, home>>
  BY DEF QueenIInv, Save
<1>3. Savable(t, stored) /\ Draft(t) /\ t.version \in Nat
  BY <1>1, <1>2 DEF CallRight, Savable, Draft, Numbered
<1>4. DOMAIN memory = Runtimes /\ \A r \in Runtimes : memory[r] = NoTask \/ Known(memory[r], stored)
  BY DEF QueenIInv, TasksTypeOK
<1>5. PICK version : version = t.version + 1
  OBVIOUS
<1>6. PICK saved : saved = [t EXCEPT !.version = version]
  OBVIOUS
<1>7. CASE IsSuccessor(t)
  <2>1. stored' = saved /\ Become(c, "saved", saved)
    BY <1>1, <1>5, <1>6, <1>7 DEF Save
  <2>2. /\ DOMAIN saved = TaskFields /\ saved.version = version /\ saved.run = t.run
        /\ saved.confirmed = t.confirmed /\ saved.nodes = t.nodes /\ saved.assigned = t.assigned
        /\ saved.outputs = t.outputs /\ saved.judged = t.judged /\ saved.final = t.final
        /\ saved.learned = t.learned /\ saved.rev = t.rev /\ saved.done = t.done
    BY <1>3, <1>6 DEF Draft, Numbered, TaskFields
  <2>3. RecordBinds(saved)
    BY <1>3, <2>2, SamePlan DEF Draft, Numbered, RecordBinds, JudgementBinds
  <2>4. Numbered(saved, saved.version)
    BY <1>3, <1>5, <2>2, <2>3 DEF Draft, Numbered
  <2>5. version \in Nat /\ version >= 1 /\ stored.version = t.version
    BY <1>3, <1>5, <1>7 DEF IsSuccessor
  <2>6. Known(saved, saved) /\ saved # NoTask
    BY <2>2, <2>4, <2>5, TasksAreNot DEF Known
  <2>7. \A x : Known(x, stored) => Known(x, saved)
    <3>. SUFFICES ASSUME NEW x, Known(x, stored) PROVE Known(x, saved)
      OBVIOUS
    <3>1. x.version \in Nat /\ x.version < version
      BY <1>3, <1>5, <2>5 DEF Known, Numbered
    <3>. QED
      BY <2>2, <2>5, <3>1 DEF Known
  <2>8. \A x : Savable(x, stored) => Savable(x, saved)
    <3>. SUFFICES ASSUME NEW x, Savable(x, stored) PROVE Savable(x, saved)
      OBVIOUS
    <3>1. x.version \in Nat /\ x.version < version
      BY <1>3, <1>5, <2>5 DEF Savable, Draft, Numbered
    <3>. QED
      BY <2>2, <2>5, <3>1 DEF Savable
  <2>9. PICK call : call = [at |-> "saved", task |-> saved]
    OBVIOUS
  <2>10. DOMAIN calls' = Callers /\ \A d \in Callers : calls'[d] = IF d = c THEN call ELSE calls[d]
    BY <2>1, <2>9 DEF Become, QueenIInv, TasksTypeOK
  <2>11. CallRight(call, saved)
    BY <2>6, <2>9 DEF CallRight
  <2>12. \A d \in Callers : CallRight(calls'[d], saved)
    <3>1. ASSUME NEW d \in Callers, d # c PROVE CallRight(calls'[d], saved)
      <4>1. CallRight(calls[d], stored) /\ calls'[d] = calls[d]
        BY <2>10, <3>1 DEF QueenIInv
      <4>. QED
        BY <2>7, <2>8, <4>1 DEF CallRight
    <3>. QED
      BY <2>10, <2>11, <3>1
  <2>13. QueenIInv'
    <3>1. TasksTypeOK' /\ StoreRight'
      BY <1>2, <2>1, <2>6, <2>10 DEF QueenIInv, TasksTypeOK, StoreRight
    <3>2. \A r \in Runtimes : memory'[r] = NoTask \/ Known(memory'[r], stored')
      BY <1>2, <1>4, <2>1, <2>7
    <3>. QED
      BY <2>1, <2>12, <3>1, <3>2 DEF QueenIInv
  <2>14. stored # NoTask => Keeps(stored, saved)
    <3>1. stored # NoTask => Keeps(stored, t)
      BY <1>3, <2>5 DEF Savable
    <3>. QED
      BY <2>2, <3>1 DEF Keeps
  <2>. QED
    BY <2>1, <2>6, <2>13, <2>14
<1>8. CASE ~IsSuccessor(t)
  <2>1. UNCHANGED stored /\ Become(c, "idle", NoTask)
    BY <1>1, <1>8 DEF Save
  <2>2. CallRight([at |-> "idle", task |-> NoTask], stored)
    BY DEF CallRight
  <2>3. DOMAIN memory' = Runtimes /\ \A r \in Runtimes : memory'[r] = NoTask \/ Known(memory'[r], stored)
    BY <1>2, <1>4
  <2>. QED
    BY <1>2, <2>1, <2>2, <2>3, CallMoves
<1>. QED
  BY <1>7, <1>8

LEMMA RedeployKeeps ==
  ASSUME QueenIInv, NEW r \in Runtimes, Redeploy(r)
  PROVE  QueenIInv'
<1>1. NoCall.at = "idle"
  BY DEF NoCall
<1>2. /\ UNCHANGED <<stored, home>> /\ memory' = [memory EXCEPT ![r] = NoTask]
      /\ calls' = [c \in Callers |-> IF home[c] = r THEN NoCall ELSE calls[c]]
  BY DEF Redeploy
<1>3. CallRight(NoCall, stored)
  BY <1>1 DEF CallRight
<1>4. TasksTypeOK' /\ StoreRight'
  BY <1>2 DEF QueenIInv, TasksTypeOK, StoreRight
<1>5. \A c \in Callers : CallRight(calls'[c], stored')
  BY <1>2, <1>3 DEF QueenIInv
<1>6. \A q \in Runtimes : memory'[q] = NoTask \/ Known(memory'[q], stored')
  BY <1>2 DEF QueenIInv, TasksTypeOK
<1>. QED
  BY <1>4, <1>5, <1>6 DEF QueenIInv

\* Only a save changes the store, and it keeps what is there.
StoredKept == stored' = stored \/ (stored' # NoTask /\ (stored # NoTask => Keeps(stored, stored')))

LEMMA NextQueenIInv == QueenIInv /\ [QueenTaskNext]_queenTaskVars => QueenIInv' /\ StoredKept
<1>. SUFFICES ASSUME QueenIInv, [QueenTaskNext]_queenTaskVars PROVE QueenIInv' /\ StoredKept
  OBVIOUS
<1>1. CASE UNCHANGED queenTaskVars
  BY <1>1 DEF queenTaskVars, QueenIInv, TasksTypeOK, StoreRight, StoredKept
<1>2. CASE \E c \in Callers : Save(c)
  BY <1>2, SaveKeeps DEF StoredKept
<1>3. CASE \E c \in Callers : Receive(c) \/ Hydrate(c) \/ Publish(c) \/ Fail(c)
  BY <1>3, CarriedKeeps DEF StoredKept, Receive, Hydrate, Publish, Fail
<1>4. ASSUME NEW c \in Callers, NEW u, Perform(c, u)
      PROVE  StoredKept
  BY <1>4 DEF Perform, StoredKept
<1>5. CASE \E c \in Callers, high \in BOOLEAN : ProposeTaskGraph(c, high)
  BY <1>4, <1>5, ProposeKeeps DEF ProposeTaskGraph
<1>6. CASE \E c \in Callers :
             \/ \E nodes \in Amendments : AmendTaskGraph(c, nodes)
             \/ ConfirmTaskGraph(c)
             \/ \E approved \in BOOLEAN : StartTaskRun(c, approved)
             \/ \E n, a : RankNodeAgents(c, n) \/ SelectNodeAgent(c, n, a) \/ AcceptNodeAssignment(c, n, a)
  <2>1. QueenIInv'
    BY <1>6, PlanningKeeps
  <2>2. StoredKept
    BY <1>4, <1>6 DEF AmendTaskGraph, ConfirmTaskGraph, StartTaskRun, RankNodeAgents, SelectNodeAgent,
                      AcceptNodeAssignment
  <2>. QED
    BY <2>1, <2>2
<1>7. CASE \E c \in Callers :
             \/ WriteLearningLoop(c)
             \/ \E n, a : SubmitNodeOutput(c, n, a) \/ JudgeNodeOutput(c, n, a)
             \/ \E a : FinalArbitrate(c, a)
             \/ \E n, a, k : RequestAdversarialReview(c, n, a, k) \/ RepairNode(c, n, a, k)
  <2>1. QueenIInv'
    BY <1>7, ExecutionKeeps
  <2>2. StoredKept
    <3>1. ASSUME NEW c \in Callers, WriteLearningLoop(c) PROVE StoredKept
      BY <1>4, <3>1 DEF WriteLearningLoop
    <3>2. ASSUME NEW c \in Callers, NEW n, NEW a, SubmitNodeOutput(c, n, a) PROVE StoredKept
      BY <1>4, <3>2 DEF SubmitNodeOutput
    <3>3. ASSUME NEW c \in Callers, NEW n, NEW a, JudgeNodeOutput(c, n, a) PROVE StoredKept
      BY <1>4, <3>3 DEF JudgeNodeOutput
    <3>4. ASSUME NEW c \in Callers, NEW a, FinalArbitrate(c, a) PROVE StoredKept
      BY <1>4, <3>4 DEF FinalArbitrate
    <3>5. ASSUME NEW c \in Callers, NEW n, NEW a, NEW k,
                 RequestAdversarialReview(c, n, a, k) \/ RepairNode(c, n, a, k)
          PROVE  StoredKept
      BY <1>4, <3>5 DEF RequestAdversarialReview, RepairNode
    <3>. QED
      BY <1>7, <3>1, <3>2, <3>3, <3>4, <3>5
  <2>. QED
    BY <2>1, <2>2
<1>8. CASE \E r \in Runtimes : Redeploy(r)
  BY <1>8, RedeployKeeps DEF Redeploy, StoredKept
<1>. QED
  BY <1>1, <1>2, <1>3, <1>5, <1>6, <1>7, <1>8 DEF QueenTaskNext

\* Whatever the interleaving of callers, runtimes and restarts: judgements bind, a run
\* has its agents, and no save takes back what another has recorded meanwhile
\* (queen-orchestrator.ts:408-548, 593-706, queen-workflow-store.ts:83-125).
THEOREM WorkStaysReviewed == QueenTaskSpec => ReviewedWorkBinds
<1>1. QueenIInv => (stored # NoTask => RecordBinds(stored))
  BY DEF QueenIInv, StoreRight, Known, Numbered
<1>2. QueenIInv /\ [QueenTaskNext]_queenTaskVars =>
        [stored # NoTask => stored' # NoTask /\ Keeps(stored, stored')]_stored
  BY NextQueenIInv DEF StoredKept
<1>. QED
  BY InitQueenIInv, NextQueenIInv, <1>1, <1>2, PTL DEF QueenTaskSpec, ReviewedWorkBinds

-----------------------------------------------------------------------------
(* The agents' page.  The inductive invariant numbers every piece by its   *)
(* turn and place, and says of the exchange under way that what the page   *)
(* has not read begins with the pieces its reply lacks, and ends with      *)
(* nothing that is one.                                                    *)

Stages == {"none", "gate", "human", "runtime", "streaming", "closing", "answered"}
Named == UNION {DOMAIN health : health \in Shown}
Requested == Strangers \cup
    [path : {"chat", "graphql"}, method : {"POST"}, origin : {"own"}, declared : Nat, size : Nat,
     shape : {"chat", "orchestrate"}, token : {"none"}, crew : Seq(Named)]
Piece(t, k) == <<"delta", t, k>>
Trailers == {<<"error">>, <<"end">>, <<"refused">>}
WireParts == Trailers \cup ({"delta"} \X Nat \X Nat)
Text == Seq({<<"failed">>} \cup ({"delta"} \X Nat \X Nat))
Said == [role : {"user", "assistant"}, turn : Nat, text : Text]

ChatKinds ==
    /\ humanCheck \in BOOLEAN /\ busy \in BOOLEAN /\ turn \in Nat /\ offline \in BOOLEAN
    /\ display \in Shown /\ crew \in Seq(Named) /\ Len(crew) <= MAX_ORCHESTRATION_AGENTS
    /\ messages \in Seq(Said)
    /\ flight \in [kind : {"none", "chat", "orchestration"}, turn : Nat, index : Nat]
    /\ exchanges \in [Peers -> [at : Stages, request : SUBSET Requested]]
    /\ wire \in Seq(WireParts)
    /\ streamed \in Seq(Seq({"delta"} \X Nat \X Nat)) /\ Len(streamed) = turn
    /\ reached \subseteq Requested

PiecesNumbered ==
    \A t \in 1..turn : \A k \in 1..Len(streamed[t]) : streamed[t][k] = Piece(t, k)

\* A reply so far: its first pieces.
Begins(text, t) ==
    /\ Len(text) <= Len(streamed[t])
    /\ \A k \in 1..Len(text) : text[k] = Piece(t, k)
MessageRight(said) ==
    /\ said.turn \in 1..turn
    /\ said.role = "user" => said.text = <<>>
    /\ said.role = "assistant" => said.text = Failure \/ Begins(said.text, said.turn)
MessagesRight == \A i \in 1..Len(messages) : MessageRight(messages[i])

\* The reply under way, and what it lacks of its turn.
Spoken == messages[Len(messages)].text
Lacks == Len(streamed[turn]) - Len(Spoken)
FlightRight ==
    IF busy
    THEN /\ messages # <<>> /\ turn # 0
         /\ messages[Len(messages)].role = "assistant" /\ messages[Len(messages)].turn = turn
         /\ flight.kind = "chat" => flight.index = Len(messages)
         /\ flight.kind # "chat" => flight.kind = "orchestration" /\ flight.index = 0 /\ Spoken = <<>>
         /\ exchanges["page"].at # "none"
    ELSE flight = Grounded /\ exchanges["page"] = NoExchange /\ wire = <<>>

WireRight ==
    LET at == exchanges["page"].at IN
    busy =>
        /\ at \in {"gate", "human", "runtime"} => wire = <<>> /\ streamed[turn] = <<>> /\ Spoken = <<>>
        /\ at = "streaming" => Spoken # Failure /\ Len(wire) = Lacks
        /\ Spoken = Failure => \A k \in 1..Len(wire) : wire[k] \in Trailers
        /\ Spoken # Failure =>
             /\ Lacks <= Len(wire)
             /\ \A k \in 1..Len(wire) : IF k <= Lacks THEN wire[k] = Piece(turn, Len(Spoken) + k)
                                        ELSE wire[k] \in Trailers

\* What the edge holds for a caller has passed the checks before.
Served(r) == Passes(r) /\ (humanCheck => r.token = "good") /\ Len(r.crew) <= MAX_ORCHESTRATION_AGENTS
CallerRight(c) ==
    exchanges[c].at # "none" =>
        \E r \in Requested :
            /\ exchanges[c].request = {r} /\ Len(r.crew) <= MAX_ORCHESTRATION_AGENTS
            /\ exchanges[c].at = "human" => Passes(r)
            /\ exchanges[c].at = "runtime" => Served(r)
ExchangesRight == (\A c \in Peers : CallerRight(c)) /\ \A r \in reached : Served(r)

ChatIInv == ChatKinds /\ PiecesNumbered /\ MessagesRight /\ FlightRight /\ WireRight /\ ExchangesRight

\* The first pieces of a sequence, if only those are of interest.
LEMMA FirstOnes ==
    ASSUME NEW S, NEW s \in Seq(S), NEW n \in 0..Len(s)
    PROVE  /\ Subsequence(s, 1..n) \in Seq(S) /\ Len(Subsequence(s, 1..n)) = n
           /\ \A k \in 1..n : Subsequence(s, 1..n)[k] = s[k]
<1> DEFINE T == 1..n
<1>0. Len(s) \in Nat /\ n \in Nat
  OBVIOUS
<1>1. T \in SUBSET (1..Len(s)) /\ Cardinality(T) = n
  <2>1. 1 \in Int /\ n \in Int /\ (1 > n => n = 0) /\ n - 1 + 1 = n
    BY <1>0
  <2>2. T \in SUBSET (1..Len(s))
    BY <1>0
  <2>3. Cardinality(1..n) = n
    BY <2>1, FS_Interval
  <2> QED
    BY <2>2, <2>3
<1>2. ASSUME NEW k \in 1..n PROVE Nth(T, k) = k
  <2>1. Nth(T, k) \in T /\ Cardinality(Below(T, Nth(T, k))) = k - 1
    BY <1>0, <1>1, NthIs
  <2> PICK i \in T : i = Nth(T, k)
    BY <2>1
  <2>2. Below(T, i) = 1..(i - 1)
    BY <1>0 DEF Below
  <2>3. Cardinality(1..(i - 1)) = i - 1
    <3>1. 1 \in Int /\ i - 1 \in Int /\ (1 > i - 1 => i - 1 = 0) /\ i - 1 - 1 + 1 = i - 1
      BY <1>0
    <3> QED
      BY <3>1, FS_Interval
  <2>4. i - 1 = k - 1 /\ i \in Nat /\ k \in Nat
    BY <1>0, <2>1, <2>2, <2>3
  <2> QED
    BY <2>4
<1> HIDE DEF T
<1>3. /\ Subsequence(s, T) \in Seq(S) /\ Len(Subsequence(s, T)) = n
      /\ \A k \in 1..n : Subsequence(s, T)[k] = s[Nth(T, k)]
  BY <1>1, SubsequenceIs
<1> QED
  BY <1>2, <1>3 DEF T

LEMMA TrailersAreNoPieces ==
    ASSUME NEW part \in Trailers, NEW t, NEW k
    PROVE  /\ part[1] # "delta" /\ part # Piece(t, k) /\ part \in WireParts
           /\ part[1] \in {"error", "end", "refused"}
BY DEF Trailers, Piece, WireParts

LEMMA FailureIsNoReply ==
    /\ Failure \in Text /\ Failure # <<>>
    /\ \A text, t : Begins(text, t) => text # Failure
<1>1. Failure[1] = <<"failed">> /\ Len(Failure) = 1 /\ Failure[1][1] = "failed"
  BY DEF Failure
<1>2. Failure \in Text
  BY DEF Failure, Text
<1>3. ASSUME NEW text, NEW t, Begins(text, t), text = Failure PROVE FALSE
  <2>1. text[1] = Piece(t, 1)
    BY <1>1, <1>3 DEF Begins
  <2>2. Piece(t, 1)[1] = "delta"
    BY DEF Piece
  <2> QED
    BY <1>1, <1>3, <2>1, <2>2
<1> QED
  BY <1>1, <1>2, <1>3

LEMMA ChatStart == ChatInit => ChatIInv
<1> SUFFICES ASSUME ChatInit PROVE ChatIInv
  OBVIOUS
<1>1. ChatKinds
  <2>1. exchanges \in [Peers -> [at : Stages, request : SUBSET Requested]]
    BY DEF ChatInit, NoExchange, Stages
  <2>2. flight \in [kind : {"none", "chat", "orchestration"}, turn : Nat, index : Nat]
    BY DEF ChatInit, Grounded
  <2> QED
    <3>1. crew \in Seq(Named) /\ Len(crew) <= 3
      BY DEF ChatInit
    <3>2. messages \in Seq(Said) /\ wire \in Seq(WireParts)
      BY DEF ChatInit
    <3>3. streamed \in Seq(Seq({"delta"} \X Nat \X Nat)) /\ Len(streamed) = turn /\ turn \in Nat
      BY DEF ChatInit
    <3>4. humanCheck \in BOOLEAN /\ busy \in BOOLEAN /\ offline \in BOOLEAN /\ display \in Shown /\ reached \subseteq Requested
      BY DEF ChatInit
    <3> QED
      BY <2>1, <2>2, <3>1, <3>2, <3>3, <3>4 DEF ChatKinds, MAX_ORCHESTRATION_AGENTS
<1>2. PiecesNumbered /\ MessagesRight
  BY DEF ChatInit, PiecesNumbered, MessagesRight
<1>3. FlightRight /\ WireRight
  BY DEF ChatInit, FlightRight, WireRight, Peers
<1>4. ExchangesRight
  BY DEF ChatInit, ExchangesRight, CallerRight, NoExchange
<1> QED
  BY <1>1, <1>2, <1>3, <1>4 DEF ChatIInv

\* The page and the edge do not disturb what the other keeps.
LEMMA CrewFits ==
    ASSUME ChatKinds
    PROVE  OrchestrationAgents \in Seq(Named) /\ Len(OrchestrationAgents) <= MAX_ORCHESTRATION_AGENTS
<1>1. crew \in Seq(Named) /\ Len(crew) <= 3
  BY DEF ChatKinds, MAX_ORCHESTRATION_AGENTS
<1>2. /\ OrchestrationAgents \in Seq(Named \cap DOMAIN display)
      /\ Len(OrchestrationAgents) <= Len(crew)
  BY <1>1, ThoseAre DEF OrchestrationAgents
<1>3. Len(OrchestrationAgents) \in Nat /\ Len(crew) \in Nat
  BY <1>1, <1>2
<1>4. OrchestrationAgents \in Seq(Named)
  BY <1>2
<1> QED
  BY <1>1, <1>2, <1>3, <1>4 DEF MAX_ORCHESTRATION_AGENTS

LEMMA ReadHealthKeeps ==
    ASSUME ChatIInv, NEW health \in Shown, NEW reachable \in BOOLEAN, ReadHealth(health, reachable)
    PROVE  ChatIInv'
<1>1. ChatKinds'
  BY DEF ChatIInv, ChatKinds, ReadHealth
<1> QED
  BY <1>1 DEF ChatIInv, ReadHealth, PiecesNumbered, MessagesRight, MessageRight, Begins, FlightRight, WireRight,
              ExchangesRight, CallerRight, Served, Spoken, Lacks

LEMMA CrewKeeps ==
    ASSUME ChatIInv, NEW a, addSelectedToOrchestration(a) \/ resetOrchestration
    PROVE  ChatIInv'
<1>1. crew' \in Seq(Named) /\ Len(crew') <= MAX_ORCHESTRATION_AGENTS
  <2>1. CASE addSelectedToOrchestration(a)
    <3>1. crew \in Seq(Named) /\ a \in Named /\ Len(crew) < MAX_ORCHESTRATION_AGENTS /\ crew' = Append(crew, a)
      BY <2>1 DEF addSelectedToOrchestration, ChatIInv, ChatKinds, Named
    <3> QED
      BY <3>1 DEF MAX_ORCHESTRATION_AGENTS
  <2>2. CASE resetOrchestration
    BY <2>2 DEF resetOrchestration, MAX_ORCHESTRATION_AGENTS
  <2> QED
    BY <2>1, <2>2
<1>2. UNCHANGED <<humanCheck, busy, turn, offline, display, messages, flight, exchanges, wire, streamed, reached>>
  BY DEF addSelectedToOrchestration, resetOrchestration
<1>3. ChatKinds'
  BY <1>1, <1>2 DEF ChatIInv, ChatKinds
<1> QED
  BY <1>2, <1>3 DEF ChatIInv, PiecesNumbered, MessagesRight, MessageRight, Begins, FlightRight, WireRight,
              ExchangesRight, CallerRight, Served, Spoken, Lacks

\* A request that sets out: the prompt and an empty reply are shown, the turn begins.
LEMMA TakeoffKeeps ==
    ASSUME ChatIInv, ~busy, NEW kind \in {"chat", "orchestration"}, NEW r \in Requested,
           Len(r.crew) <= MAX_ORCHESTRATION_AGENTS, Takeoff(kind, r),
           flight' = [kind |-> kind, turn |-> turn + 1,
                      index |-> IF kind = "chat" THEN Len(messages) + 2 ELSE 0]
    PROVE  ChatIInv'
<1> PICK n : n = Len(messages)
  OBVIOUS
<1> PICK now : now = turn + 1
  OBVIOUS
<1> PICK prompt : prompt = [role |-> "user", turn |-> now, text |-> <<>>]
  OBVIOUS
<1> PICK answer : answer = [role |-> "assistant", turn |-> now, text |-> <<>>]
  OBVIOUS
<1>0. ChatKinds /\ PiecesNumbered /\ MessagesRight /\ FlightRight /\ ExchangesRight
  BY DEF ChatIInv
<1>1. /\ messages' = messages \o <<prompt, answer>> /\ busy' = TRUE /\ turn' = now
      /\ exchanges' = [exchanges EXCEPT !["page"] = [at |-> "gate", request |-> {r}]]
      /\ streamed' = Append(streamed, <<>>)
      /\ UNCHANGED <<humanCheck, offline, display, crew, wire, reached>>
  BY DEF Takeoff, Says
<1>2. turn \in Nat /\ now \in Nat /\ now # 0 /\ messages \in Seq(Said) /\ n \in Nat
  BY <1>0 DEF ChatKinds
<1>3. prompt \in Said /\ answer \in Said
  BY <1>2 DEF Said, Text
<1>4. /\ messages' \in Seq(Said) /\ Len(messages') = n + 2
      /\ \A i \in 1..n : messages'[i] = messages[i]
      /\ messages'[n + 1] = prompt /\ messages'[n + 2] = answer
  BY <1>1, <1>2, <1>3
<1>5. /\ streamed' \in Seq(Seq({"delta"} \X Nat \X Nat)) /\ Len(streamed') = now
      /\ \A t \in 1..turn : streamed'[t] = streamed[t]
      /\ streamed'[now] = <<>> /\ Len(streamed'[now]) = 0
  BY <1>0, <1>1, <1>2, SMTT(30) DEF ChatKinds
<1>6. wire = <<>> /\ exchanges \in [Peers -> [at : Stages, request : SUBSET Requested]]
  BY <1>0 DEF FlightRight, ChatKinds
<1>7. /\ exchanges' \in [Peers -> [at : Stages, request : SUBSET Requested]]
      /\ exchanges'["page"] = [at |-> "gate", request |-> {r}]
      /\ exchanges'["stranger"] = exchanges["stranger"]
  BY <1>1, <1>6 DEF Peers, Stages
<1>8. ChatKinds'
  <2>1. flight' \in [kind : {"none", "chat", "orchestration"}, turn : Nat, index : Nat]
    BY <1>2
  <2> QED
    BY <1>0, <1>1, <1>2, <1>4, <1>5, <1>7, <2>1 DEF ChatKinds
<1>9. PiecesNumbered'
  <2>1. \A t \in 1..now : t \in 1..turn \/ t = now
    BY <1>2
  <2>2. ASSUME NEW t \in 1..turn, NEW k \in 1..Len(streamed'[t]) PROVE streamed'[t][k] = Piece(t, k)
    BY <1>0, <1>5, <2>2 DEF PiecesNumbered
  <2>3. \A k \in 1..Len(streamed'[now]) : FALSE
    BY <1>5
  <2> QED
    BY <1>1, <2>1, <2>2, <2>3 DEF PiecesNumbered
<1>10. MessagesRight'
  <2>1. ASSUME NEW i \in 1..n
        PROVE  MessageRight(messages[i])'
    <3>1. messages'[i] = messages[i] /\ messages[i].turn \in 1..turn
      BY <1>0, <1>2, <1>4 DEF MessagesRight, MessageRight
    <3>2. messages[i].turn \in 1..now /\ streamed'[messages[i].turn] = streamed[messages[i].turn]
      BY <1>2, <1>5, <3>1, SMTT(30)
    <3>3. Begins(messages[i].text, messages[i].turn) => Begins(messages[i].text, messages[i].turn)'
      BY <3>1, <3>2 DEF Begins
    <3>4. MessageRight(messages[i])
      BY <1>0, <1>2 DEF MessagesRight
    <3> QED
      BY <1>1, <3>1, <3>2, <3>3, <3>4 DEF MessageRight
  <2>2. Begins(answer.text, now)'
    BY <1>5 DEF Begins
  <2>3. \A i \in 1..(n + 2) : i \in 1..n \/ i = n + 1 \/ i = n + 2
    BY <1>2, SMTT(30)
  <2>4. now \in 1..now
    BY <1>2
  <2> QED
    <3>1. MessageRight(messages[n + 1])'
      BY <1>1, <1>4, <2>4 DEF MessageRight
    <3>2. MessageRight(messages[n + 2])'
      BY <1>1, <1>4, <2>2, <2>4 DEF MessageRight
    <3> QED
      BY <1>4, <2>1, <2>3, <3>1, <3>2 DEF MessagesRight
<1>11. FlightRight'
  <2>1. messages' # <<>> /\ messages'[Len(messages')] = answer
    BY <1>2, <1>4
  <2> QED
    BY <1>1, <1>2, <1>4, <1>7, <2>1 DEF FlightRight, Spoken
<1>12. WireRight'
  <2>1. Spoken' = <<>> /\ <<>> # Failure /\ Len(<<>>) = 0
    BY <1>2, <1>4, FailureIsNoReply DEF Spoken
  <2>2. Lacks' = 0
    BY <1>1, <1>5, <2>1 DEF Lacks
  <2> QED
    BY <1>1, <1>5, <1>6, <1>7, <2>1, <2>2 DEF WireRight
<1>13. ExchangesRight'
  BY <1>0, <1>1, <1>7 DEF ExchangesRight, CallerRight, Peers, Served
<1> QED
  BY <1>8, <1>9, <1>10, <1>11, <1>12, <1>13 DEF ChatIInv

LEMMA PagesRequest ==
    ASSUME NEW path \in {"chat", "graphql"}, NEW shape \in {"chat", "orchestrate"}, NEW size \in Nat,
           NEW agents \in Seq(Named)
    PROVE  PageRequest(path, shape, size, agents) \in Requested
  BY DEF Requested, PageRequest

LEMMA SubmitKeeps ==
    ASSUME ChatIInv, NEW size \in Nat, SubmitPrompt(size) \/ runOrchestration(size)
    PROVE  ChatIInv'
<1>0. ChatKinds
  BY DEF ChatIInv
<1>1. OrchestrationAgents \in Seq(Named) /\ Len(OrchestrationAgents) <= MAX_ORCHESTRATION_AGENTS
  BY <1>0, CrewFits
<1>2. CASE SubmitPrompt(size)
  <2> PICK r : r = PageRequest("chat", "chat", size, <<>>)
    OBVIOUS
  <2>1. r \in Requested /\ r.crew = <<>> /\ Len(r.crew) <= MAX_ORCHESTRATION_AGENTS
    <3>1. <<>> \in Seq(Named)
      OBVIOUS
    <3>2. r \in Requested
      BY <3>1, PagesRequest
    <3>3. r.crew = <<>> /\ Len(<<>>) = 0
      BY DEF PageRequest
    <3> QED
      BY <3>2, <3>3 DEF MAX_ORCHESTRATION_AGENTS
  <2>2. /\ ~busy /\ Takeoff("chat", r)
        /\ flight' = [kind |-> "chat", turn |-> turn + 1, index |-> Len(messages) + 2]
    BY <1>2 DEF SubmitPrompt, AfterPrompt
  <2> QED
    BY <2>1, <2>2, TakeoffKeeps
<1>3. CASE runOrchestration(size)
  <2> PICK r : r = PageRequest("graphql", "orchestrate", size, OrchestrationAgents)
    OBVIOUS
  <2>1. r \in Requested /\ r.crew = OrchestrationAgents /\ Len(r.crew) <= MAX_ORCHESTRATION_AGENTS
    BY <1>1, PagesRequest DEF PageRequest
  <2>2. /\ ~busy /\ Takeoff("orchestration", r)
        /\ flight' = [kind |-> "orchestration", turn |-> turn + 1, index |-> 0]
    BY <1>3 DEF runOrchestration, canRunOrchestration
  <2> QED
    BY <2>1, <2>2, TakeoffKeeps
<1> QED
  BY <1>2, <1>3

\* A message of the assistant is given another text of its turn.
LEMMA TextChanges ==
    ASSUME ChatIInv, NEW i \in 1..Len(messages), messages[i].role = "assistant", NEW text \in Text,
           text = Failure \/ Begins(text, messages[i].turn),
           messages' = [messages EXCEPT ![i].text = text], UNCHANGED <<turn, streamed>>
    PROVE  /\ messages' \in Seq(Said) /\ Len(messages') = Len(messages) /\ MessagesRight'
           /\ messages'[i].text = text
           /\ messages'[i].role = "assistant" /\ messages'[i].turn = messages[i].turn
<1>0. ChatKinds /\ MessagesRight
  BY DEF ChatIInv
<1>1. messages \in Seq(Said) /\ messages[i] \in Said /\ Len(messages) \in Nat
  BY <1>0 DEF ChatKinds
<1> PICK said : said = [messages[i] EXCEPT !.text = text]
  OBVIOUS
<1>2. /\ said \in Said /\ said.text = text /\ said.role = "assistant" /\ said.turn = messages[i].turn
  BY <1>1 DEF Said
<1>3. messages' = [messages EXCEPT ![i] = said]
  OBVIOUS
<1>4. /\ messages' \in Seq(Said) /\ Len(messages') = Len(messages) /\ messages'[i] = said
      /\ \A j \in 1..Len(messages) : j # i => messages'[j] = messages[j]
  BY <1>1, <1>2, <1>3
<1>5. ASSUME NEW said0 PROVE MessageRight(said0) => MessageRight(said0)'
  BY DEF MessageRight, Begins
<1>6. MessageRight(said)
  BY <1>0, <1>2 DEF MessagesRight, MessageRight
<1>7. ASSUME NEW j \in 1..Len(messages) PROVE MessageRight(messages[j])'
  <2>1. MessageRight(messages[j])
    BY <1>0 DEF MessagesRight
  <2>2. messages'[j] = messages[j] \/ messages'[j] = said
    BY <1>4
  <2>3. MessageRight(messages[j])' <=> MessageRight(messages'[j])
    BY DEF MessageRight, Begins
  <2> QED
    BY <1>6, <2>1, <2>2, <2>3
<1>8. MessagesRight'
  BY <1>4, <1>7 DEF MessagesRight
<1> QED
  BY <1>2, <1>4, <1>8

\* The end of a request, however it comes.
LEMMA LandingKeeps ==
    ASSUME ChatIInv, busy' = FALSE, flight' = Grounded, wire' = <<>>,
           exchanges' = [exchanges EXCEPT !["page"] = NoExchange],
           UNCHANGED <<humanCheck, turn, offline, display, crew, streamed, reached>>,
           messages' \in Seq(Said), MessagesRight'
    PROVE  ChatIInv'
<1>0. ChatKinds /\ PiecesNumbered /\ ExchangesRight
  BY DEF ChatIInv
<1>1. exchanges \in [Peers -> [at : Stages, request : SUBSET Requested]]
  BY <1>0 DEF ChatKinds
<1>2. /\ exchanges' \in [Peers -> [at : Stages, request : SUBSET Requested]]
      /\ exchanges'["page"] = NoExchange /\ exchanges'["stranger"] = exchanges["stranger"]
  BY <1>1 DEF Peers, Stages, NoExchange
<1>3. ChatKinds'
  <2>1. flight' \in [kind : {"none", "chat", "orchestration"}, turn : Nat, index : Nat] /\ wire' \in Seq(WireParts)
    BY DEF Grounded
  <2> QED
    BY <1>0, <1>2, <2>1 DEF ChatKinds
<1>4. PiecesNumbered'
  BY <1>0 DEF PiecesNumbered
<1>5. FlightRight' /\ WireRight'
  BY <1>2 DEF FlightRight, WireRight
<1>6. ExchangesRight'
  BY <1>0, <1>2 DEF ExchangesRight, CallerRight, Peers, NoExchange, Served
<1> QED
  BY <1>3, <1>4, <1>5, <1>6 DEF ChatIInv

LEMMA EndKeeps ==
    ASSUME ChatIInv, cancel \/ ReadEnd
    PROVE  ChatIInv'
<1>1. /\ busy' = FALSE /\ flight' = Grounded /\ wire' = <<>>
      /\ exchanges' = [exchanges EXCEPT !["page"] = NoExchange]
      /\ UNCHANGED <<humanCheck, turn, offline, display, crew, streamed, reached, messages>>
  BY DEF cancel, ReadEnd, Lands
<1>2. messages' \in Seq(Said)
  BY <1>1 DEF ChatIInv, ChatKinds
<1>3. MessagesRight'
  BY <1>1 DEF ChatIInv, MessagesRight, MessageRight, Begins
<1> QED
  BY <1>1, <1>2, <1>3, LandingKeeps

\* Where a request is under way, the last message is its reply.
LEMMA ReplyStands ==
    ASSUME ChatIInv, flight.kind # "none"
    PROVE  /\ busy /\ Len(messages) \in Nat /\ Len(messages) \in 1..Len(messages)
           /\ messages[Len(messages)].role = "assistant" /\ messages[Len(messages)].turn = turn
           /\ messages[Len(messages)] \in Said /\ Spoken \in Text
           /\ turn \in 1..turn /\ turn \in Nat
           /\ Spoken = Failure \/ Begins(Spoken, turn)
<1>0. ChatKinds /\ FlightRight /\ MessagesRight
  BY DEF ChatIInv
<1>1. busy
  BY <1>0 DEF FlightRight, Grounded
<1>2. /\ messages # <<>> /\ turn # 0
      /\ messages[Len(messages)].role = "assistant" /\ messages[Len(messages)].turn = turn
  BY <1>0, <1>1 DEF FlightRight
<1>3. messages \in Seq(Said) /\ turn \in Nat
  BY <1>0 DEF ChatKinds
<1>4. Len(messages) \in Nat /\ Len(messages) \in 1..Len(messages)
  BY <1>2, <1>3
<1>5. MessageRight(messages[Len(messages)]) /\ messages[Len(messages)] \in Said
  BY <1>0, <1>3, <1>4 DEF MessagesRight
<1> QED
  BY <1>1, <1>2, <1>3, <1>4, <1>5 DEF MessageRight, Spoken, Said

LEMMA RefusalKeeps ==
    ASSUME ChatIInv, ReadRefusal
    PROVE  ChatIInv'
<1>1. /\ flight.kind = "chat" /\ messages' = [messages EXCEPT ![flight.index].text = Failure]
      /\ busy' = FALSE /\ flight' = Grounded /\ wire' = <<>>
      /\ exchanges' = [exchanges EXCEPT !["page"] = NoExchange]
      /\ UNCHANGED <<humanCheck, turn, offline, display, crew, streamed, reached>>
  BY DEF ReadRefusal, Lands
<1> PICK n : n = Len(messages)
  OBVIOUS
<1>2. n \in 1..Len(messages) /\ messages[n].role = "assistant" /\ flight.index = n
  BY <1>1, ReplyStands DEF ChatIInv, FlightRight
<1>3. Failure \in Text
  BY FailureIsNoReply
<1>4. messages' = [messages EXCEPT ![n].text = Failure] /\ UNCHANGED <<turn, streamed>>
  BY <1>1, <1>2
<1>5. messages' \in Seq(Said) /\ MessagesRight'
  BY <1>2, <1>3, <1>4, TextChanges
<1> QED
  BY <1>1, <1>5, LandingKeeps

LEMMA PieceKeeps ==
    ASSUME ChatIInv, ReadPiece
    PROVE  ChatIInv'
<1> PICK n : n = Len(messages)
  OBVIOUS
<1> PICK part : part = Head(wire)
  OBVIOUS
<1> PICK text : text = IF part[1] = "error" THEN Failure ELSE Append(Spoken, part)
  OBVIOUS
<1> PICK rest : rest = Tail(wire)
  OBVIOUS
<1>0. ChatKinds /\ PiecesNumbered /\ MessagesRight /\ FlightRight /\ WireRight /\ ExchangesRight
  BY DEF ChatIInv
<1>1. /\ flight.kind = "chat" /\ wire # <<>> /\ part[1] \in {"delta", "error"} /\ wire' = rest
      /\ UNCHANGED <<humanCheck, busy, turn, offline, display, crew, flight, exchanges, streamed, reached>>
  BY DEF ReadPiece
<1>2. /\ busy /\ n \in Nat /\ n \in 1..Len(messages) /\ messages[n].role = "assistant"
      /\ messages[n].turn = turn /\ Spoken \in Text /\ Spoken = messages[n].text
      /\ turn \in 1..turn /\ turn \in Nat /\ (Spoken = Failure \/ Begins(Spoken, turn))
  BY <1>1, ReplyStands DEF Spoken
<1>3. flight.index = n
  BY <1>0, <1>1, <1>2 DEF FlightRight
<1>4. messages' = [messages EXCEPT ![n].text = text]
  BY <1>2, <1>3 DEF ReadPiece
<1>5. wire \in Seq(WireParts)
  BY <1>0 DEF ChatKinds
<1>6. /\ rest \in Seq(WireParts) /\ Len(rest) = Len(wire) - 1 /\ part = wire[1] /\ Len(wire) \in Nat /\ Len(wire) > 0
      /\ \A k \in 1..Len(rest) : rest[k] = wire[k + 1] /\ k + 1 \in 1..Len(wire)
  BY <1>1, <1>5
<1>7. Len(Spoken) \in Nat /\ Len(streamed[turn]) \in Nat
  <2>1. streamed[turn] \in Seq({"delta"} \X Nat \X Nat)
    BY <1>0, <1>2 DEF ChatKinds
  <2>2. Spoken \in Seq({<<"failed">>} \cup ({"delta"} \X Nat \X Nat))
    BY <1>2 DEF Text
  <2> QED
    BY <2>1, <2>2
<1> PICK lacks : lacks = Lacks
  OBVIOUS
<1>8. /\ lacks = Len(streamed[turn]) - Len(Spoken) /\ lacks \in Int
  BY <1>7 DEF Lacks
<1>9. /\ Spoken = Failure => \A k \in 1..Len(wire) : wire[k] \in Trailers
      /\ Spoken # Failure =>
           /\ lacks <= Len(wire)
           /\ \A k \in 1..Len(wire) : IF k <= lacks THEN wire[k] = Piece(turn, Len(Spoken) + k)
                                      ELSE wire[k] \in Trailers
  BY <1>0, <1>2 DEF WireRight
<1>10. exchanges["page"].at \notin {"gate", "human", "runtime"}
  BY <1>0, <1>1, <1>2 DEF WireRight
<1>11. CASE part[1] = "delta"
  <2>1. part \notin Trailers
    BY <1>11, TrailersAreNoPieces
  <2>2. Spoken # Failure /\ 1 <= lacks /\ part = Piece(turn, Len(Spoken) + 1)
    <3>1. 1 \in 1..Len(wire)
      BY <1>6
    <3> QED
      BY <1>6, <1>9, <2>1, <3>1
  <2>3. /\ text = Append(Spoken, part) /\ text \in Text /\ Len(text) = Len(Spoken) + 1
        /\ \A k \in 1..Len(Spoken) : text[k] = Spoken[k]
        /\ text[Len(Spoken) + 1] = part
    <3>1. Piece(turn, Len(Spoken) + 1) \in ({"delta"} \X Nat \X Nat)
      BY <1>2, <1>7 DEF Piece
    <3>2. Spoken \in Seq({<<"failed">>} \cup ({"delta"} \X Nat \X Nat))
      BY <1>2 DEF Text
    <3>3. text = Append(Spoken, part)
      BY <1>11
    <3> QED
      BY <1>7, <2>2, <3>1, <3>2, <3>3 DEF Text
  <2>4. Begins(text, turn)
    <3>1. Begins(Spoken, turn)
      BY <1>2, <2>2
    <3>2. \A k \in 1..(Len(Spoken) + 1) : k \in 1..Len(Spoken) \/ k = Len(Spoken) + 1
      BY <1>7
    <3> QED
      BY <1>7, <1>8, <2>2, <2>3, <3>1, <3>2 DEF Begins
  <2>5. /\ messages' \in Seq(Said) /\ Len(messages') = n /\ MessagesRight' /\ messages'[n].text = text
        /\ messages'[n].role = "assistant" /\ messages'[n].turn = turn
    BY <1>1, <1>2, <1>4, <2>3, <2>4, TextChanges
  <2>6. ChatKinds' /\ PiecesNumbered'
    BY <1>0, <1>1, <1>6, <2>5 DEF ChatKinds, PiecesNumbered
  <2>7. FlightRight'
    BY <1>0, <1>1, <1>2, <2>5 DEF FlightRight
  <2> PICK had : had = Len(Spoken)
    OBVIOUS
  <2> PICK upto : upto = Len(streamed[turn])
    OBVIOUS
  <2>11. had \in Nat /\ upto \in Nat /\ Len(text) = had + 1 /\ lacks = upto - had
    BY <1>7, <1>8, <2>3
  <2>12. Spoken' = text
    BY <2>5 DEF Spoken
  <2>13. Lacks' = upto - Len(text)
    BY <1>1, <2>12 DEF Lacks
  <2>8. Spoken' = text /\ Lacks' = lacks - 1
    BY <2>11, <2>12, <2>13
  <2>9. WireRight'
    <3>1. text # Failure
      BY <2>4, FailureIsNoReply
    <3>2. lacks - 1 <= Len(rest)
      BY <1>6, <1>8, <1>9, <2>2
    <3>3. ASSUME NEW k \in 1..Len(rest)
          PROVE  IF k <= lacks - 1 THEN rest[k] = Piece(turn, Len(text) + k) ELSE rest[k] \in Trailers
      <4>1. rest[k] = wire[k + 1] /\ k + 1 \in 1..Len(wire) /\ k \in Nat /\ (k <= lacks - 1 <=> k + 1 <= lacks)
        BY <1>6, <1>8
      <4>2. Len(text) + k = Len(Spoken) + (k + 1)
        <5>1. k \in Nat /\ had \in Nat /\ Len(text) = had + 1
          BY <2>11, <4>1
        <5>2. \A x, y \in Nat : (x + 1) + y = x + (y + 1)
          OBVIOUS
        <5> QED
          BY <5>1, <5>2
      <4> QED
        BY <1>9, <2>2, <4>1, <4>2
    <3>4. exchanges["page"].at = "streaming" => Len(rest) = lacks - 1
      BY <1>0, <1>2, <1>6 DEF WireRight
    <3> QED
      BY <1>1, <1>10, <2>8, <3>1, <3>2, <3>3, <3>4 DEF WireRight
  <2>10. ExchangesRight'
    BY <1>0, <1>1 DEF ExchangesRight, CallerRight, Served
  <2> QED
    BY <2>5, <2>6, <2>7, <2>9, <2>10 DEF ChatIInv
<1>12. CASE part[1] = "error"
  <2>1. Spoken # Failure => lacks <= 0
    <3>1. ASSUME Spoken # Failure, 1 <= lacks PROVE FALSE
      <4>1. 1 \in 1..Len(wire)
        BY <1>6
      <4>2. part = Piece(turn, Len(Spoken) + 1)
        BY <1>6, <1>9, <3>1, <4>1
      <4> QED
        BY <1>12, <4>2 DEF Piece
    <3> QED
      BY <1>8, <3>1
  <2>2. \A k \in 1..Len(wire) : wire[k] \in Trailers
    <3>1. ASSUME NEW k \in 1..Len(wire), Spoken # Failure PROVE wire[k] \in Trailers
      <4>1. ~(k <= lacks)
        BY <1>8, <2>1, <3>1
      <4> QED
        BY <1>9, <3>1, <4>1
    <3> QED
      BY <1>9, <3>1
  <2>3. text = Failure /\ text \in Text
    BY <1>12, FailureIsNoReply
  <2>4. /\ messages' \in Seq(Said) /\ Len(messages') = n /\ MessagesRight' /\ messages'[n].text = text
        /\ messages'[n].role = "assistant" /\ messages'[n].turn = turn
    BY <1>1, <1>2, <1>4, <2>3, TextChanges
  <2>5. ChatKinds' /\ PiecesNumbered'
    BY <1>0, <1>1, <1>6, <2>4 DEF ChatKinds, PiecesNumbered
  <2>6. FlightRight'
    BY <1>0, <1>1, <1>2, <2>4 DEF FlightRight
  <2>7. Spoken' = Failure
    BY <2>3, <2>4 DEF Spoken
  <2>8. exchanges["page"].at # "streaming"
    <3>1. ASSUME exchanges["page"].at = "streaming" PROVE FALSE
      <4>1. Spoken # Failure /\ Len(wire) = lacks
        BY <1>0, <1>2, <3>1 DEF WireRight
      <4> QED
        BY <1>6, <2>1, <4>1
    <3> QED
      BY <3>1
  <2>9. WireRight'
    <3>1. \A k \in 1..Len(rest) : rest[k] \in Trailers
      BY <1>6, <2>2
    <3> QED
      BY <1>1, <1>10, <2>7, <2>8, <3>1 DEF WireRight
  <2>10. ExchangesRight'
    BY <1>0, <1>1 DEF ExchangesRight, CallerRight, Served
  <2> QED
    BY <2>4, <2>5, <2>6, <2>9, <2>10 DEF ChatIInv
<1> QED
  BY <1>1, <1>11, <1>12

\* The message that is replaced is the last of all.
LEMMA LastOfAssistant ==
    ASSUME NEW n \in Nat, n \in 1..Len(messages), Len(messages) = n, messages \in Seq(Said),
           messages[n].role = "assistant", NEW text
    PROVE  replaceLastAssistant(text) = [messages EXCEPT ![n].text = text]
<1> DEFINE S == {i \in DOMAIN messages : messages[i].role = "assistant"}
<1>1. S \subseteq 1..n /\ n \in S
  OBVIOUS
<1> HIDE DEF S
<1>2. \A i \in S : i \in Nat /\ i <= n
  <2>1. \A i \in 1..n : i \in Nat /\ i <= n
    OBVIOUS
  <2> QED
    BY <1>1, <2>1
<1>3. \E x \in S : \A y \in S : x >= y
  BY <1>1, <1>2
<1> PICK m : m = Max(S)
  OBVIOUS
<1>4. m \in S /\ \A y \in S : m >= y
  BY <1>3 DEF Max
<1>5. m = n
  BY <1>1, <1>2, <1>4
<1> QED
  BY <1>5 DEF replaceLastAssistant, S

LEMMA ResultKeeps ==
    ASSUME ChatIInv, ReadResult
    PROVE  ChatIInv'
<1> PICK n : n = Len(messages)
  OBVIOUS
<1> PICK whole : whole = Front(wire)
  OBVIOUS
<1> PICK note : note = [role |-> "assistant", turn |-> turn, text |-> Failure]
  OBVIOUS
<1>0. ChatKinds /\ PiecesNumbered /\ MessagesRight /\ FlightRight /\ WireRight /\ ExchangesRight
  BY DEF ChatIInv
<1>1. /\ flight.kind = "orchestration" /\ wire # <<>> /\ Last(wire)[1] \in {"end", "refused"}
      /\ busy' = FALSE /\ flight' = Grounded /\ wire' = <<>>
      /\ exchanges' = [exchanges EXCEPT !["page"] = NoExchange]
      /\ UNCHANGED <<humanCheck, turn, offline, display, crew, streamed, reached>>
  BY DEF ReadResult, Lands
<1>2. /\ busy /\ n \in Nat /\ n \in 1..Len(messages) /\ messages[n].role = "assistant"
      /\ messages[n].turn = turn /\ turn \in 1..turn /\ turn \in Nat /\ Spoken = messages[n].text
  BY <1>1, ReplyStands DEF Spoken
<1>3. messages \in Seq(Said) /\ wire \in Seq(WireParts)
  BY <1>0 DEF ChatKinds
<1>4. \/ /\ whole # <<>> /\ \A i \in DOMAIN whole : wire[i][1] = "delta"
         /\ messages' = replaceLastAssistant(whole)
      \/ messages' = Append(messages, note)
  BY DEF ReadResult
<1>5. CASE messages' = Append(messages, note)
  <2>1. note \in Said
    BY <1>2, FailureIsNoReply DEF Said
  <2>2. /\ messages' \in Seq(Said) /\ Len(messages') = n + 1 /\ messages'[n + 1] = note
        /\ \A i \in 1..n : messages'[i] = messages[i]
    BY <1>2, <1>3, <1>5, <2>1
  <2>3. ASSUME NEW i \in 1..n PROVE MessageRight(messages[i])'
    <3>1. MessageRight(messages[i]) /\ messages'[i] = messages[i]
      BY <1>0, <1>2, <2>2 DEF MessagesRight
    <3> QED
      BY <1>1, <3>1 DEF MessageRight, Begins
  <2>4. MessageRight(messages[n + 1])'
    BY <1>1, <1>2, <2>2 DEF MessageRight
  <2>5. \A i \in 1..(n + 1) : i \in 1..n \/ i = n + 1
    BY <1>2
  <2>6. MessagesRight'
    BY <2>2, <2>3, <2>4, <2>5 DEF MessagesRight
  <2> QED
    BY <1>1, <2>2, <2>6, LandingKeeps
<1>6. CASE /\ whole # <<>> /\ \A i \in DOMAIN whole : wire[i][1] = "delta"
           /\ messages' = replaceLastAssistant(whole)
  <2>1. /\ Len(wire) \in Nat /\ Len(wire) > 0 /\ whole \in Seq(WireParts) /\ Len(whole) = Len(wire) - 1
        /\ \A k \in 1..Len(whole) : whole[k] = wire[k] /\ k \in 1..Len(wire)
    <3>1. Len(wire) \in Nat /\ Len(wire) > 0
      BY <1>1, <1>3
    <3> PICK m : m = Len(wire) - 1
      OBVIOUS
    <3>2. m \in Nat /\ m <= Len(wire) /\ whole = SubSeq(wire, 1, m)
      BY <3>1 DEF Front
    <3>3. whole \in Seq(WireParts) /\ Len(whole) = m /\ \A k \in 1..m : whole[k] = wire[k]
      <4>1. \A i \in 1..m : wire[i] \in WireParts
        BY <1>3, <3>1, <3>2
      <4>2. 1 \in Int /\ m \in Int /\ m - 1 + 1 = m /\ (1 <= m \/ m = 0) /\ \A i \in 1..m : 1 + i - 1 = i
        BY <3>2
      <4>3. /\ SubSeq(wire, 1, m) \in Seq(WireParts)
            /\ Len(SubSeq(wire, 1, m)) = IF 1 <= m THEN m - 1 + 1 ELSE 0
            /\ \A i \in 1 .. m - 1 + 1 : SubSeq(wire, 1, m)[i] = wire[1 + i - 1]
        BY <4>1, <4>2, SubSeqProperties
      <4> QED
        BY <3>2, <4>2, <4>3
    <3>4. \A k \in 1..m : k \in 1..Len(wire)
      BY <3>1, <3>2
    <3> QED
      BY <3>1, <3>3, <3>4
  <2>2. Len(whole) \in Nat /\ Len(whole) > 0 /\ DOMAIN whole = 1..Len(whole)
    BY <1>6, <2>1
  <2>3. Spoken = <<>> /\ <<>> # Failure /\ Len(<<>>) = 0
    BY <1>0, <1>1, <1>2, FailureIsNoReply DEF FlightRight
  <2>4. streamed[turn] \in Seq({"delta"} \X Nat \X Nat)
    BY <1>0, <1>2 DEF ChatKinds
  <2> PICK upto : upto = Len(streamed[turn])
    OBVIOUS
  <2>5. upto \in Nat /\ Lacks = upto
    BY <2>3, <2>4 DEF Lacks
  <2>6. \A k \in 1..Len(wire) : IF k <= upto THEN wire[k] = Piece(turn, 0 + k) ELSE wire[k] \in Trailers
    BY <1>0, <1>2, <2>3, <2>5 DEF WireRight
  <2>7. ASSUME NEW k \in 1..Len(whole) PROVE k <= upto /\ whole[k] = Piece(turn, k)
    <3>1. wire[k][1] = "delta" /\ whole[k] = wire[k] /\ k \in 1..Len(wire) /\ k \in Nat
      <4>1. k \in DOMAIN whole /\ k \in Nat
        BY <2>2
      <4>2. whole[k] = wire[k] /\ k \in 1..Len(wire)
        BY <2>1
      <4> QED
        BY <1>6, <4>1, <4>2
    <3>2. wire[k] \notin Trailers
      BY <3>1, TrailersAreNoPieces
    <3>3. 0 + k = k
      BY <3>1
    <3>4. k <= upto /\ wire[k] = Piece(turn, 0 + k)
      BY <2>6, <3>1, <3>2
    <3> QED
      BY <3>1, <3>3, <3>4
  <2>8. Len(whole) <= upto
    BY <2>2, <2>7
  <2>9. Begins(whole, turn)
    BY <2>7, <2>8 DEF Begins
  <2>10. whole \in Text
    <3>1. ASSUME NEW k \in 1..Len(whole) PROVE whole[k] \in ({"delta"} \X Nat \X Nat)
      <4>1. whole[k] = <<"delta", turn, k>> /\ k \in Nat
        BY <2>2, <2>7 DEF Piece
      <4> QED
        BY <1>2, <4>1
    <3>2. whole = [k \in 1..Len(whole) |-> whole[k]]
      BY <2>1
    <3> QED
      BY <2>2, <3>1, <3>2 DEF Text
  <2>11. messages' = [messages EXCEPT ![n].text = whole]
    BY <1>2, <1>3, <1>6, LastOfAssistant
  <2>12. messages' \in Seq(Said) /\ MessagesRight'
    BY <1>1, <1>2, <2>9, <2>10, <2>11, TextChanges
  <2> QED
    BY <1>1, <2>12, LandingKeeps
<1> QED
  BY <1>4, <1>5, <1>6

-----------------------------------------------------------------------------
\* The edge's part.  An exchange holds one request; the page's belongs to the
\* request under way.
LEMMA ExchangeStands ==
    ASSUME ChatIInv, NEW c \in Peers, exchanges[c].at # "none"
    PROVE  /\ Request(c) \in Requested /\ exchanges[c].request = {Request(c)}
           /\ Len(Request(c).crew) <= MAX_ORCHESTRATION_AGENTS
           /\ exchanges[c].at = "human" => Passes(Request(c))
           /\ exchanges[c].at = "runtime" => Served(Request(c))
           /\ c = "page" => busy
           /\ exchanges \in [Peers -> [at : Stages, request : SUBSET Requested]]
<1> PICK r \in Requested :
        /\ exchanges[c].request = {r} /\ Len(r.crew) <= MAX_ORCHESTRATION_AGENTS
        /\ exchanges[c].at = "human" => Passes(r)
        /\ exchanges[c].at = "runtime" => Served(r)
  BY DEF ChatIInv, ExchangesRight, CallerRight
<1>1. Request(c) = r
  BY DEF Request
<1>2. c = "page" => busy
  BY DEF ChatIInv, FlightRight, NoExchange
<1> QED
  BY <1>1, <1>2 DEF ChatIInv, ChatKinds

\* What the page and its reply keep while the edge goes on.
LEMMA PageRests ==
    ASSUME ChatIInv, OnlyEdge, UNCHANGED streamed,
           exchanges' \in [Peers -> [at : Stages, request : SUBSET Requested]], wire' \in Seq(WireParts),
           reached' \subseteq Requested,
           busy => exchanges'["page"].at # "none",
           ~busy => exchanges'["page"] = NoExchange /\ wire' = <<>>,
           WireRight', ExchangesRight'
    PROVE  ChatIInv'
<1>1. ChatKinds'
  BY DEF ChatIInv, ChatKinds, OnlyEdge, pageVars
<1>2. PiecesNumbered' /\ MessagesRight'
  BY DEF ChatIInv, PiecesNumbered, MessagesRight, MessageRight, Begins, OnlyEdge, pageVars
<1>3. FlightRight'
  BY DEF ChatIInv, FlightRight, OnlyEdge, pageVars, Spoken
<1> QED
  BY <1>1, <1>2, <1>3 DEF ChatIInv

LEMMA LacksIs ==
    ASSUME ChatIInv, busy
    PROVE  Len(Spoken) \in Nat /\ Len(streamed[turn]) \in Nat /\ Lacks \in Int
<1>0. ChatKinds /\ FlightRight
  BY DEF ChatIInv
<1>1. messages \in Seq(Said) /\ messages # <<>> /\ turn \in Nat /\ turn # 0
  BY <1>0 DEF ChatKinds, FlightRight
<1>2. Spoken \in Seq({<<"failed">>} \cup ({"delta"} \X Nat \X Nat))
  <2>1. messages[Len(messages)] \in Said
    BY <1>1
  <2> QED
    BY <2>1 DEF Spoken, Said, Text
<1>3. streamed[turn] \in Seq({"delta"} \X Nat \X Nat)
  BY <1>0, <1>1 DEF ChatKinds
<1>4. Len(Spoken) \in Nat /\ Len(streamed[turn]) \in Nat
  BY <1>2, <1>3
<1> QED
  BY <1>4 DEF Lacks

LEMMA SpokenRests ==
    ASSUME OnlyEdge, UNCHANGED streamed
    PROVE  Spoken' = Spoken /\ Lacks' = Lacks /\ busy' = busy /\ turn' = turn
  BY DEF OnlyEdge, pageVars, Spoken, Lacks

\* A caller is answered: nothing but trailers is added.
LEMMA AnswersKeeps ==
    ASSUME ChatIInv, NEW c \in Peers, exchanges[c].at # "none", NEW parts \in Seq(Trailers),
           Answers(c, parts), OnlyEdge, UNCHANGED <<streamed, reached>>
    PROVE  ChatIInv'
<1>0. ChatKinds /\ FlightRight /\ WireRight /\ ExchangesRight
  BY DEF ChatIInv
<1>1. /\ exchanges \in [Peers -> [at : Stages, request : SUBSET Requested]] /\ wire \in Seq(WireParts)
      /\ reached \subseteq Requested
  BY <1>0 DEF ChatKinds
<1>2. CASE c = "stranger"
  <2>1. /\ exchanges' = [exchanges EXCEPT !["stranger"] = NoExchange] /\ wire' = wire
    BY <1>2 DEF Answers
  <2>2. /\ exchanges' \in [Peers -> [at : Stages, request : SUBSET Requested]]
        /\ exchanges'["page"] = exchanges["page"] /\ exchanges'["stranger"] = NoExchange
    BY <1>1, <2>1 DEF Peers, NoExchange, Stages
  <2>3. WireRight'
    BY <1>0, <2>1, <2>2, SpokenRests DEF WireRight
  <2>4. ExchangesRight'
    BY <1>0, <2>2 DEF ExchangesRight, CallerRight, Peers, NoExchange, Served, OnlyEdge, pageVars
  <2> QED
    BY <1>0, <1>1, <2>1, <2>2, <2>3, <2>4, PageRests DEF FlightRight
<1>3. CASE c = "page"
  <2>1. /\ exchanges' = [exchanges EXCEPT !["page"] = [exchanges["page"] EXCEPT !.at = "answered"]]
        /\ wire' = wire \o parts
    BY <1>3 DEF Answers
  <2>2. /\ exchanges' \in [Peers -> [at : Stages, request : SUBSET Requested]]
        /\ exchanges'["page"].at = "answered" /\ exchanges'["page"].request = exchanges["page"].request
        /\ exchanges'["stranger"] = exchanges["stranger"]
    BY <1>1, <2>1 DEF Peers, Stages
  <2>3. busy
    BY <1>3, ExchangeStands
  <2>4. \A part \in Trailers : part \in WireParts
    BY TrailersAreNoPieces
  <2>5. parts \in Seq(WireParts) /\ Len(parts) \in Nat /\ Len(wire) \in Nat
    BY <1>1, <2>4
  <2>6. /\ wire' \in Seq(WireParts) /\ Len(wire') = Len(wire) + Len(parts)
        /\ \A k \in 1..Len(wire) : wire'[k] = wire[k]
        /\ \A k \in 1..Len(wire') : k > Len(wire) => wire'[k] \in Trailers
    BY <1>1, <2>1, <2>5
  <2>7. WireRight'
    <3>1. Spoken = Failure => \A k \in 1..Len(wire') : wire'[k] \in Trailers
      <4>1. Spoken = Failure => \A k \in 1..Len(wire) : wire[k] \in Trailers
        BY <1>0, <2>3 DEF WireRight
      <4>2. \A k \in 1..Len(wire') : k \in 1..Len(wire) \/ k > Len(wire)
        BY <2>5, <2>6
      <4> QED
        BY <2>6, <4>1, <4>2
    <3>2. Spoken # Failure =>
             /\ Lacks <= Len(wire')
             /\ \A k \in 1..Len(wire') : IF k <= Lacks THEN wire'[k] = Piece(turn, Len(Spoken) + k)
                                         ELSE wire'[k] \in Trailers
      <4>0. HAVE Spoken # Failure
      <4>1. /\ Lacks <= Len(wire)
            /\ \A k \in 1..Len(wire) : IF k <= Lacks THEN wire[k] = Piece(turn, Len(Spoken) + k)
                                       ELSE wire[k] \in Trailers
        BY <1>0, <2>3, <4>0 DEF WireRight
      <4>2. Lacks \in Int
        BY <2>3, LacksIs
      <4>3. \A k \in 1..Len(wire') : k \in 1..Len(wire) \/ (k > Len(wire) /\ ~(k <= Lacks))
        BY <2>5, <2>6, <4>1, <4>2
      <4>4. Lacks <= Len(wire')
        BY <2>5, <2>6, <4>1, <4>2
      <4> QED
        BY <2>6, <4>1, <4>3, <4>4
    <3> QED
      BY <2>2, <3>1, <3>2, SpokenRests DEF WireRight
  <2>8. ExchangesRight'
    <3>1. \A r : Served(r)' <=> Served(r)
      BY DEF Served, OnlyEdge, pageVars
    <3>2. PICK r \in Requested : exchanges["page"].request = {r} /\ Len(r.crew) <= MAX_ORCHESTRATION_AGENTS
      BY <1>0, <1>3 DEF ExchangesRight, CallerRight
    <3>3. \A who \in Peers : who = "page" \/ who = "stranger"
      BY DEF Peers
    <3>4. exchanges'["page"].request = {r} /\ exchanges'["page"].at \notin {"human", "runtime"}
      BY <2>2, <3>2
    <3> QED
      <4>1. \A q \in reached' : Served(q)'
        BY <1>0, <3>1 DEF ExchangesRight, CallerRight
      <4>2. CallerRight("stranger")'
        BY <1>0, <2>2, <3>1 DEF ExchangesRight, CallerRight, Peers
      <4>3. CallerRight("page")'
        BY <3>2, <3>4 DEF CallerRight
      <4> QED
        BY <3>3, <4>1, <4>2, <4>3 DEF ExchangesRight, CallerRight
  <2> QED
    BY <1>1, <2>2, <2>3, <2>6, <2>7, <2>8, PageRests
<1> QED
  BY <1>2, <1>3 DEF Peers

\* A request that passes one of the checks is held for the next.
LEMMA AdvancesKeeps ==
    ASSUME ChatIInv, NEW c \in Peers, NEW at \in {"human", "runtime", "streaming"},
           exchanges[c].at \in {"gate", "human", "runtime"}, Advances(c, at),
           at = "human" => Passes(Request(c)),
           at = "runtime" => Served(Request(c)),
           reached' = reached \/ (Served(Request(c)) /\ reached' = reached \cup {Request(c)}),
           OnlyEdge, UNCHANGED <<streamed, wire>>
    PROVE  ChatIInv'
<1>0. ChatKinds /\ FlightRight /\ WireRight /\ ExchangesRight
  BY DEF ChatIInv
<1>1. /\ exchanges \in [Peers -> [at : Stages, request : SUBSET Requested]] /\ wire \in Seq(WireParts)
      /\ reached \subseteq Requested
  BY <1>0 DEF ChatKinds
<1>2. /\ Request(c) \in Requested /\ exchanges[c].request = {Request(c)}
      /\ Len(Request(c).crew) <= MAX_ORCHESTRATION_AGENTS /\ (c = "page" => busy)
  BY ExchangeStands
<1>3. /\ exchanges' \in [Peers -> [at : Stages, request : SUBSET Requested]]
      /\ exchanges'[c].at = at /\ exchanges'[c].request = exchanges[c].request
      /\ \A d \in Peers : d # c => exchanges'[d] = exchanges[d]
  BY <1>1 DEF Advances, Stages
<1>4. WireRight'
  <2>1. CASE c = "page"
    <3>1. busy /\ wire = <<>> /\ streamed[turn] = <<>> /\ Spoken = <<>> /\ Len(<<>>) = 0 /\ <<>> # Failure
      BY <1>0, <1>2, <2>1, FailureIsNoReply DEF WireRight
    <3>2. Lacks = 0
      BY <3>1 DEF Lacks
    <3>3. exchanges'["page"].at = at
      BY <1>3, <2>1
    <3> QED
      BY <3>1, <3>2, <3>3, SpokenRests DEF WireRight
  <2>2. CASE c # "page"
    <3>1. exchanges'["page"] = exchanges["page"]
      BY <1>3, <2>2 DEF Peers
    <3> QED
      BY <1>0, <3>1, SpokenRests DEF WireRight
  <2> QED
    BY <2>1, <2>2
<1>5. ExchangesRight'
  <2>1. \A r : Served(r)' <=> Served(r)
    BY DEF Served, OnlyEdge, pageVars
  <2>2. \A r \in reached' : Served(r)
    BY <1>0 DEF ExchangesRight, CallerRight
  <2>3. /\ exchanges'[c].request = {Request(c)}
        /\ exchanges'[c].at = "human" => Passes(Request(c))
        /\ exchanges'[c].at = "runtime" => Served(Request(c))
    BY <1>2, <1>3
  <2> QED
    BY <1>0, <1>2, <1>3, <2>1, <2>2, <2>3 DEF ExchangesRight, CallerRight
<1>6. reached' \subseteq Requested
  BY <1>1, <1>2
<1>7. /\ busy => exchanges'["page"].at # "none"
      /\ ~busy => exchanges'["page"] = NoExchange /\ wire' = <<>>
  BY <1>0, <1>2, <1>3 DEF FlightRight, Peers
<1> QED
  BY <1>1, <1>3, <1>4, <1>5, <1>6, <1>7, PageRests

LEMMA ArriveKeeps ==
    ASSUME ChatIInv, NEW r \in Strangers, Arrive(r)
    PROVE  ChatIInv'
<1>0. ChatKinds /\ FlightRight /\ WireRight /\ ExchangesRight
  BY DEF ChatIInv
<1>1. /\ exchanges \in [Peers -> [at : Stages, request : SUBSET Requested]] /\ wire \in Seq(WireParts)
      /\ reached \subseteq Requested
  BY <1>0 DEF ChatKinds
<1>2. /\ exchanges' = [exchanges EXCEPT !["stranger"] = [at |-> "gate", request |-> {r}]]
      /\ UNCHANGED <<wire, streamed, reached>> /\ OnlyEdge
  BY DEF Arrive
<1>3. r \in Requested /\ r.crew = <<>> /\ Len(r.crew) <= MAX_ORCHESTRATION_AGENTS
  BY ChatConstants DEF Requested, MAX_ORCHESTRATION_AGENTS
<1>4. /\ exchanges' \in [Peers -> [at : Stages, request : SUBSET Requested]]
      /\ exchanges'["page"] = exchanges["page"]
      /\ exchanges'["stranger"] = [at |-> "gate", request |-> {r}]
  BY <1>1, <1>2, <1>3 DEF Peers, Stages
<1>5. WireRight'
  BY <1>0, <1>2, <1>4, SpokenRests DEF WireRight
<1>6. ExchangesRight'
  <2>1. \A q : Served(q)' <=> Served(q)
    BY <1>2 DEF Served, OnlyEdge, pageVars
  <2> QED
    BY <1>0, <1>2, <1>3, <1>4, <2>1 DEF ExchangesRight, CallerRight, Peers
<1> QED
  BY <1>0, <1>1, <1>2, <1>4, <1>5, <1>6, PageRests DEF FlightRight

LEMMA TroubleTrails ==
    /\ \A c : Trouble(c) \in Seq(Trailers)
    /\ <<<<"refused">>>> \in Seq(Trailers) /\ <<<<"end">>>> \in Seq(Trailers)
<1>1. <<<<"refused">>>> \in Seq(Trailers) /\ <<<<"end">>>> \in Seq(Trailers)
  BY DEF Trailers
<1>2. <<<<"error">>, <<"end">>>> \in Seq(Trailers)
  BY DEF Trailers
<1> QED
  BY <1>1, <1>2 DEF Trouble

LEMMA EdgeKeeps ==
    ASSUME ChatIInv, NEW c \in Peers,
           \/ Gate(c) \/ RuntimeFails(c)
           \/ \E passed \in BOOLEAN : verifyTurnstile(c, passed)
           \/ \E arrives \in BOOLEAN : CallRuntime(c, arrives)
           \/ \E broken \in BOOLEAN : StreamEnds(c, broken)
    PROVE  ChatIInv'
<1>1. CASE Gate(c)
  <2>1. exchanges[c].at = "gate" /\ OnlyEdge /\ UNCHANGED <<streamed, reached>>
    BY <1>1 DEF Gate
  <2>2. CASE Passes(Request(c)) /\ Advances(c, "human") /\ UNCHANGED wire
    BY <2>1, <2>2, AdvancesKeeps
  <2>3. CASE Answers(c, <<<<"refused">>>>)
    BY <2>1, <2>3, AnswersKeeps, TroubleTrails
  <2> QED
    BY <1>1, <2>2, <2>3 DEF Gate
<1>2. CASE RuntimeFails(c)
  BY <1>2, AnswersKeeps, TroubleTrails DEF RuntimeFails
<1>3. ASSUME NEW passed \in BOOLEAN, verifyTurnstile(c, passed) PROVE ChatIInv'
  <2>1. /\ exchanges[c].at = "human" /\ OnlyEdge /\ UNCHANGED <<streamed, reached>>
        /\ passed => ~humanCheck \/ Request(c).token = "good"
    BY <1>3 DEF verifyTurnstile
  <2>2. Passes(Request(c)) /\ Len(Request(c).crew) <= MAX_ORCHESTRATION_AGENTS
    BY <2>1, ExchangeStands
  <2>3. CASE passed /\ Advances(c, "runtime") /\ UNCHANGED wire
    <3>1. Served(Request(c))
      BY <2>1, <2>2, <2>3 DEF Served
    <3> QED
      BY <2>1, <2>3, <3>1, AdvancesKeeps
  <2>4. CASE Answers(c, <<<<"refused">>>>)
    BY <2>1, <2>4, AnswersKeeps, TroubleTrails
  <2> QED
    BY <1>3, <2>3, <2>4 DEF verifyTurnstile
<1>4. ASSUME NEW arrives \in BOOLEAN, CallRuntime(c, arrives) PROVE ChatIInv'
  <2>1. exchanges[c].at = "runtime" /\ OnlyEdge /\ UNCHANGED streamed
    BY <1>4 DEF CallRuntime
  <2>2. Served(Request(c))
    BY <2>1, ExchangeStands
  <2>3. CASE Advances(c, "streaming") /\ reached' = reached \cup {Request(c)} /\ UNCHANGED wire
    BY <2>1, <2>2, <2>3, AdvancesKeeps
  <2>4. CASE Answers(c, Trouble(c)) /\ UNCHANGED reached
    BY <2>1, <2>4, AnswersKeeps, TroubleTrails
  <2> QED
    BY <1>4, <2>3, <2>4 DEF CallRuntime
<1>5. ASSUME NEW broken \in BOOLEAN, StreamEnds(c, broken) PROVE ChatIInv'
  <2>1. exchanges[c].at # "none" /\ OnlyEdge /\ UNCHANGED <<streamed, reached>>
    BY <1>5 DEF StreamEnds
  <2>2. Answers(c, <<<<"refused">>>>) \/ Answers(c, <<<<"end">>>>)
    BY <1>5 DEF StreamEnds
  <2> QED
    BY <2>1, <2>2, AnswersKeeps, TroubleTrails
<1> QED
  BY <1>1, <1>2, <1>3, <1>4, <1>5

LEMMA SendsKeeps ==
    ASSUME ChatIInv, RuntimeSends
    PROVE  ChatIInv'
<1> PICK upto : upto = Len(streamed[turn])
  OBVIOUS
<1> PICK piece : piece = Piece(turn, upto + 1)
  OBVIOUS
<1>0. ChatKinds /\ PiecesNumbered /\ MessagesRight /\ FlightRight /\ WireRight /\ ExchangesRight
  BY DEF ChatIInv
<1>1. /\ exchanges["page"].at = "streaming" /\ wire' = Append(wire, piece)
      /\ streamed' = [streamed EXCEPT ![turn] = Append(streamed[turn], piece)]
      /\ UNCHANGED <<exchanges, reached, humanCheck, busy, turn, offline, display, crew, messages, flight>>
  BY DEF RuntimeSends, Piece, OnlyEdge, pageVars
<1>2. busy
  BY <1>1, ExchangeStands DEF Peers
<1>3. turn \in Nat /\ turn # 0 /\ Len(streamed) = turn /\ turn \in 1..Len(streamed) /\ turn \in 1..turn
  BY <1>0, <1>2 DEF ChatKinds, FlightRight
<1>4. /\ streamed \in Seq(Seq({"delta"} \X Nat \X Nat)) /\ streamed[turn] \in Seq({"delta"} \X Nat \X Nat)
      /\ wire \in Seq(WireParts)
  BY <1>0, <1>3 DEF ChatKinds
<1>5. upto \in Nat /\ piece \in ({"delta"} \X Nat \X Nat) /\ piece \in WireParts
  <2>1. upto \in Nat
    BY <1>4
  <2> QED
    BY <1>3, <2>1 DEF Piece, WireParts
<1> PICK more : more = Append(streamed[turn], piece)
  OBVIOUS
<1>6. /\ more \in Seq({"delta"} \X Nat \X Nat) /\ Len(more) = upto + 1 /\ more[upto + 1] = piece
      /\ \A k \in 1..upto : more[k] = streamed[turn][k]
  BY <1>4, <1>5
<1>7. /\ streamed' = [streamed EXCEPT ![turn] = more]
      /\ streamed' \in Seq(Seq({"delta"} \X Nat \X Nat)) /\ Len(streamed') = turn
      /\ streamed'[turn] = more /\ \A t \in 1..turn : t # turn => streamed'[t] = streamed[t]
  BY <1>1, <1>3, <1>4, <1>6
<1>8. \A k \in 1..(upto + 1) : k \in 1..upto \/ k = upto + 1
  BY <1>5
<1>9. PiecesNumbered'
  <2>1. ASSUME NEW t \in 1..turn, NEW k \in 1..Len(streamed'[t]) PROVE streamed'[t][k] = Piece(t, k)
    <3>1. CASE t = turn
      BY <1>0, <1>3, <1>6, <1>7, <1>8, <2>1, <3>1 DEF PiecesNumbered
    <3>2. CASE t # turn
      BY <1>0, <1>7, <2>1, <3>2 DEF PiecesNumbered
    <3> QED
      BY <3>1, <3>2
  <2> QED
    BY <1>1, <2>1 DEF PiecesNumbered
<1>10. MessagesRight'
  <2>1. ASSUME NEW i \in 1..Len(messages) PROVE MessageRight(messages[i])'
    <3>1. MessageRight(messages[i]) /\ messages[i] \in Said
      BY <1>0 DEF MessagesRight, ChatKinds
    <3> PICK t : t = messages[i].turn
      OBVIOUS
    <3>2. t \in 1..turn
      BY <3>1 DEF MessageRight
    <3>3. Len(streamed[t]) <= Len(streamed'[t])
      <4>1. CASE t = turn
        BY <1>5, <1>6, <1>7, <4>1
      <4>2. CASE t # turn
        <5>1. streamed[t] \in Seq({"delta"} \X Nat \X Nat)
          BY <1>3, <1>4, <3>2
        <5> QED
          BY <1>7, <3>2, <4>2, <5>1
      <4> QED
        BY <4>1, <4>2
    <3>4. Begins(messages[i].text, t) => Begins(messages[i].text, t)'
      <4>1. HAVE Begins(messages[i].text, t)
      <4>2. Len(messages[i].text) \in Nat /\ Len(streamed[t]) \in Nat /\ Len(streamed'[t]) \in Nat
        <5>1. messages[i].text \in Text
          BY <3>1 DEF Said
        <5>2. streamed[t] \in Seq({"delta"} \X Nat \X Nat) /\ streamed'[t] \in Seq({"delta"} \X Nat \X Nat)
          BY <1>3, <1>4, <1>7, <3>2, SMTT(30)
        <5>3. Len(messages[i].text) \in Nat
          BY <5>1 DEF Text
        <5> QED
          BY <5>2, <5>3
      <4>3. Len(messages[i].text) <= Len(streamed'[t])
        BY <3>3, <4>1, <4>2 DEF Begins
      <4> QED
        BY <1>1, <4>1, <4>3 DEF Begins
    <3> QED
      BY <1>1, <3>1, <3>4 DEF MessageRight
  <2> QED
    BY <1>1, <2>1 DEF MessagesRight
<1>11. ChatKinds'
  BY <1>0, <1>1, <1>4, <1>5, <1>7 DEF ChatKinds
<1>12. FlightRight'
  BY <1>0, <1>1, <1>2 DEF FlightRight, Spoken
<1>13. ExchangesRight'
  BY <1>0, <1>1 DEF ExchangesRight, CallerRight, Served
<1> PICK had : had = Len(Spoken)
  OBVIOUS
<1>14. had \in Nat /\ Lacks = upto - had
  BY <1>2, LacksIs DEF Lacks
<1>15. Spoken' = Spoken /\ Lacks' = upto + 1 - had
  <2>1. Spoken' = Spoken
    BY <1>1 DEF Spoken
  <2> QED
    BY <1>1, <1>6, <1>7, <2>1 DEF Lacks
<1>16. WireRight'
  <2>1. /\ Spoken # Failure /\ Len(wire) = upto - had
        /\ \A k \in 1..Len(wire) : IF k <= upto - had THEN wire[k] = Piece(turn, had + k)
                                   ELSE wire[k] \in Trailers
    BY <1>0, <1>1, <1>2, <1>14 DEF WireRight
  <2> PICK w : w = Len(wire)
    OBVIOUS
  <2>2. w \in Nat /\ Len(wire') = w + 1 /\ (\A k \in 1..w : wire'[k] = wire[k]) /\ wire'[w + 1] = piece
    BY <1>1, <1>4, <1>5
  <2>3. w = upto - had
    BY <2>1
  <2>4. had + (w + 1) = upto + 1 /\ upto + 1 - had = w + 1
    BY <1>5, <1>14, <2>2, <2>3
  <2>5. ASSUME NEW k \in 1..(w + 1) PROVE k <= w + 1 /\ wire'[k] = Piece(turn, had + k)
    <3>1. CASE k \in 1..w
      <4>1. k <= upto - had /\ k \in 1..Len(wire)
        BY <2>2, <2>3, <3>1
      <4> QED
        BY <2>1, <2>2, <3>1, <4>1
    <3>2. CASE k = w + 1
      BY <2>2, <2>4, <3>2
    <3> QED
      BY <2>2, <3>1, <3>2
  <2> QED
    BY <1>1, <1>15, <2>1, <2>2, <2>4, <2>5, SMTT(30) DEF WireRight
<1> QED
  BY <1>9, <1>10, <1>11, <1>12, <1>13, <1>16 DEF ChatIInv

LEMMA ErrsKeeps ==
    ASSUME ChatIInv, RuntimeErrs
    PROVE  ChatIInv'
<1> PICK part : part = <<"error">>
  OBVIOUS
<1>0. ChatKinds /\ FlightRight /\ WireRight /\ ExchangesRight
  BY DEF ChatIInv
<1>1. /\ exchanges["page"].at = "streaming" /\ wire' = Append(wire, part)
      /\ exchanges' = [exchanges EXCEPT !["page"].at = "closing"]
      /\ UNCHANGED <<streamed, reached>> /\ OnlyEdge
  BY DEF RuntimeErrs, Advances
<1>2. busy /\ exchanges \in [Peers -> [at : Stages, request : SUBSET Requested]]
  BY <1>1, ExchangeStands DEF Peers
<1>3. part \in Trailers /\ part \in WireParts /\ wire \in Seq(WireParts)
  BY <1>0 DEF ChatKinds, Trailers, WireParts
<1>4. /\ exchanges' \in [Peers -> [at : Stages, request : SUBSET Requested]]
      /\ exchanges'["page"].at = "closing" /\ exchanges'["page"].request = exchanges["page"].request
      /\ exchanges'["stranger"] = exchanges["stranger"]
  BY <1>1, <1>2 DEF Peers, Stages
<1> PICK w : w = Len(wire)
  OBVIOUS
<1>5. /\ w \in Nat /\ wire' \in Seq(WireParts) /\ Len(wire') = w + 1 /\ wire'[w + 1] = part
      /\ \A k \in 1..w : wire'[k] = wire[k]
  BY <1>1, <1>3
<1>6. WireRight'
  <2>1. /\ Spoken # Failure /\ w = Lacks
        /\ \A k \in 1..w : IF k <= Lacks THEN wire[k] = Piece(turn, Len(Spoken) + k) ELSE wire[k] \in Trailers
    BY <1>0, <1>1, <1>2 DEF WireRight
  <2>2. \A k \in 1..(w + 1) : (k \in 1..w /\ k <= w) \/ (k = w + 1 /\ ~(k <= w))
    BY <1>5
  <2>3. Lacks <= w + 1
    BY <1>5, <2>1
  <2>4. \A k \in 1..(w + 1) : IF k <= Lacks THEN wire'[k] = Piece(turn, Len(Spoken) + k) ELSE wire'[k] \in Trailers
    BY <1>3, <1>5, <2>1, <2>2
  <2> QED
    BY <1>1, <1>4, <1>5, <2>1, <2>3, <2>4, SpokenRests DEF WireRight
<1>7. ExchangesRight'
  <2>1. \A q : Served(q)' <=> Served(q)
    BY <1>1 DEF Served, OnlyEdge, pageVars
  <2>2. CallerRight("stranger")'
    BY <1>0, <1>4, <2>1 DEF ExchangesRight, CallerRight, Peers
  <2>3. CallerRight("page")'
    BY <1>0, <1>1, <1>4 DEF ExchangesRight, CallerRight, Peers
  <2> QED
    BY <1>0, <1>1, <2>1, <2>2, <2>3 DEF ExchangesRight, Peers
<1>8. reached' \subseteq Requested
  BY <1>0, <1>1 DEF ChatKinds
<1> QED
  BY <1>1, <1>2, <1>4, <1>5, <1>6, <1>7, <1>8, PageRests

-----------------------------------------------------------------------------
LEMMA ChatSteps == ChatIInv /\ [ChatNext]_chatVars => ChatIInv'
<1> SUFFICES ASSUME ChatIInv, [ChatNext]_chatVars PROVE ChatIInv'
  OBVIOUS
<1>1. CASE UNCHANGED chatVars
  BY <1>1 DEF chatVars, ChatIInv, ChatKinds, PiecesNumbered, MessagesRight, MessageRight, Begins, FlightRight,
              WireRight, ExchangesRight, CallerRight, Served, Spoken, Lacks
<1>2. CASE \E health \in Shown, reachable \in BOOLEAN : ReadHealth(health, reachable)
  BY <1>2, ReadHealthKeeps
<1>3. CASE (\E a \in DOMAIN display : addSelectedToOrchestration(a)) \/ resetOrchestration
  BY <1>3, CrewKeeps
<1>4. CASE cancel \/ ReadEnd
  BY <1>4, EndKeeps
<1>5. CASE ReadPiece
  BY <1>5, PieceKeeps
<1>6. CASE ReadRefusal
  BY <1>6, RefusalKeeps
<1>7. CASE ReadResult
  BY <1>7, ResultKeeps
<1>8. CASE \E size \in {MaxBytes, MaxBytes + 1} : SubmitPrompt(size) \/ runOrchestration(size)
  BY <1>8, SubmitKeeps, ChatConstants
<1>9. CASE \E r \in Strangers : Arrive(r)
  BY <1>9, ArriveKeeps
<1>10. CASE \E c \in Peers :
              \/ Gate(c) \/ RuntimeFails(c)
              \/ \E passed \in BOOLEAN : verifyTurnstile(c, passed)
              \/ \E arrives \in BOOLEAN : CallRuntime(c, arrives)
              \/ \E broken \in BOOLEAN : StreamEnds(c, broken)
  BY <1>10, EdgeKeeps
<1>11. CASE RuntimeSends
  BY <1>11, SendsKeeps
<1>12. CASE RuntimeErrs
  BY <1>12, ErrsKeeps
<1> QED
  BY <1>1, <1>2, <1>3, <1>4, <1>5, <1>6, <1>7, <1>8, <1>9, <1>10, <1>11, <1>12 DEF ChatNext

\* What the page has not read of a reply is what the reply lacks.
LEMMA HeardIsLacking ==
    ASSUME ChatIInv, busy, Spoken # Failure
    PROVE  /\ Heard \in Seq(WireParts) /\ Len(Heard) = Lacks
           /\ \A k \in 1..Len(Heard) : Heard[k] = Piece(turn, Len(Spoken) + k)
<1> DEFINE T == {i \in DOMAIN wire : wire[i][1] = "delta"}
<1> PICK n : n = Lacks
  OBVIOUS
<1>0. wire \in Seq(WireParts) /\ Len(wire) \in Nat /\ DOMAIN wire = 1..Len(wire)
  BY DEF ChatIInv, ChatKinds
<1>1. /\ n <= Len(wire)
      /\ \A k \in 1..Len(wire) : IF k <= n THEN wire[k] = Piece(turn, Len(Spoken) + k) ELSE wire[k] \in Trailers
  BY DEF ChatIInv, WireRight
<1>2. n \in Nat
  <2>1. Spoken = Failure \/ Begins(Spoken, turn)
    BY ReplyStands DEF ChatIInv, FlightRight
  <2>2. Len(Spoken) <= Len(streamed[turn]) /\ Len(Spoken) \in Nat /\ Len(streamed[turn]) \in Nat
    BY <2>1, LacksIs DEF Begins
  <2> QED
    BY <2>2 DEF Lacks
<1>3. \A t, k : Piece(t, k)[1] = "delta"
  BY DEF Piece
<1>4. T = 1..n
  <2>1. ASSUME NEW i \in 1..Len(wire) PROVE wire[i][1] = "delta" <=> i <= n
    BY <1>1, <1>3, TrailersAreNoPieces
  <2> QED
    BY <1>0, <1>1, <1>2, <2>1
<1>5. n \in 0..Len(wire)
  BY <1>0, <1>1, <1>2
<1> HIDE DEF T
<1>6. /\ Subsequence(wire, 1..n) \in Seq(WireParts) /\ Len(Subsequence(wire, 1..n)) = n
      /\ \A k \in 1..n : Subsequence(wire, 1..n)[k] = wire[k]
  BY <1>0, <1>5, FirstOnes
<1>7. Heard = Subsequence(wire, 1..n)
  BY <1>4 DEF Heard, T
<1>8. \A k \in 1..n : k <= n /\ k \in 1..Len(wire)
  BY <1>0, <1>1, <1>2
<1> QED
  BY <1>1, <1>6, <1>7, <1>8

LEMMA RepliesFollow == ChatIInv => RepliesAreTheirOwn
<1> SUFFICES ASSUME ChatIInv PROVE RepliesAreTheirOwn
  OBVIOUS
<1>0. ChatKinds /\ PiecesNumbered /\ MessagesRight /\ FlightRight /\ ExchangesRight
  BY DEF ChatIInv
<1>5. messages \in Seq(Said) /\ DOMAIN messages = 1..Len(messages)
  BY <1>0 DEF ChatKinds
<1>1. ASSUME NEW i \in DOMAIN messages, messages[i].role # "user", messages[i].text # Failure
      PROVE  /\ IsPrefix(messages[i].text, streamed[messages[i].turn])
             /\ i = flight.index => messages[i].text \o Heard = streamed[turn]
  <2> PICK text : text = messages[i].text
    OBVIOUS
  <2> PICK t : t = messages[i].turn
    OBVIOUS
  <2>1. /\ i \in 1..Len(messages) /\ messages[i] \in Said /\ MessageRight(messages[i])
        /\ messages[i].role = "assistant"
    <3>1. i \in 1..Len(messages)
      BY <1>5
    <3>2. messages[i] \in Said /\ MessageRight(messages[i])
      BY <1>0, <1>5, <3>1 DEF MessagesRight
    <3> QED
      BY <1>1, <3>1, <3>2 DEF Said
  <2>2. t \in 1..turn /\ text \in Text /\ Begins(text, t)
    BY <1>1, <2>1 DEF MessageRight, Said
  <2>3. streamed[t] \in Seq({"delta"} \X Nat \X Nat)
    BY <1>0, <2>2 DEF ChatKinds
  <2>4. /\ Len(text) \in Nat /\ Len(streamed[t]) \in Nat /\ Len(text) <= Len(streamed[t])
        /\ \A k \in 1..Len(text) : text[k] = Piece(t, k) /\ k \in 1..Len(streamed[t])
    BY <2>2, <2>3 DEF Begins, Text
  <2>5. \A k \in 1..Len(text) : text[k] = streamed[t][k]
    BY <1>0, <2>2, <2>4 DEF PiecesNumbered
  <2>6. IsPrefix(text, streamed[t])
    BY <2>2, <2>3, <2>4, <2>5 DEF IsPrefix, Text
  <2>7. ASSUME i = flight.index PROVE text \o Heard = streamed[turn]
    <3>1. flight.index # 0
      BY <2>1, <2>7
    <3>2. busy /\ flight.kind = "chat" /\ i = Len(messages)
      BY <1>0, <2>7, <3>1 DEF FlightRight, Grounded
    <3>3. Spoken = text /\ t = turn
      BY <1>0, <3>2 DEF Spoken, FlightRight
    <3>4. /\ Heard \in Seq(WireParts) /\ Len(Heard) = Len(streamed[turn]) - Len(text)
          /\ \A k \in 1..Len(Heard) : Heard[k] = Piece(turn, Len(text) + k)
      BY <1>1, <3>2, <3>3, HeardIsLacking DEF Lacks
    <3> PICK had : had = Len(text)
      OBVIOUS
    <3> PICK upto : upto = Len(streamed[turn])
      OBVIOUS
    <3> PICK rest : rest = Heard
      OBVIOUS
    <3>5. had \in Nat /\ upto \in Nat /\ had <= upto /\ Len(rest) = upto - had
      BY <2>4, <3>3, <3>4
    <3>6. text \in Seq({<<"failed">>} \cup ({"delta"} \X Nat \X Nat)) /\ rest \in Seq(WireParts)
      BY <2>2, <3>4 DEF Text
    <3> PICK all : all = text \o rest
      OBVIOUS
    <3>7. /\ Len(all) = upto /\ DOMAIN all = 1..upto
          /\ \A k \in 1..upto : all[k] = IF k <= had THEN text[k] ELSE rest[k - had]
      BY <3>5, <3>6
    <3>8. ASSUME NEW k \in 1..upto PROVE all[k] = streamed[turn][k]
      <4>1. streamed[turn][k] = Piece(turn, k)
        BY <1>0, <2>2, <3>3 DEF PiecesNumbered
      <4>2. CASE k <= had
        BY <2>4, <3>3, <3>5, <3>7, <4>1, <4>2
      <4>3. CASE ~(k <= had)
        <5>1. k - had \in 1..Len(rest) /\ had + (k - had) = k
          BY <3>5, <4>3
        <5> QED
          BY <3>4, <3>7, <4>1, <4>3, <5>1
      <4> QED
        BY <4>2, <4>3
    <3>9. all = [k \in 1..upto |-> all[k]]
      BY <3>6, <3>7
    <3>10. streamed[turn] = [k \in 1..upto |-> streamed[turn][k]]
      <4>1. streamed[turn] \in Seq({"delta"} \X Nat \X Nat) /\ Len(streamed[turn]) = upto
        BY <2>3, <3>3
      <4> QED
        BY <4>1
    <3> QED
      BY <3>8, <3>9, <3>10
  <2> QED
    BY <2>6, <2>7
<1>2. \A i \in DOMAIN messages : messages[i].role = "user" => messages[i].text = <<>>
  BY <1>0, <1>5 DEF MessagesRight, MessageRight
<1>3. ~busy => flight = Grounded /\ exchanges["page"] = NoExchange /\ wire = <<>>
  BY <1>0 DEF FlightRight
<1>4. \A r \in reached : /\ isOriginAllowed(r) /\ r.size <= MaxBytes
                         /\ humanCheck => r.token = "good"
                         /\ Len(r.crew) <= MAX_ORCHESTRATION_AGENTS
  BY <1>0 DEF ExchangesRight, Served, Passes, Bounded, WithinLimits
<1> QED
  BY <1>1, <1>2, <1>3, <1>4 DEF RepliesAreTheirOwn

\* A reply holds pieces of its own turn, in order, and none is missing but those not
\* read yet, however requests were cancelled, refused or broken off before; and the
\* runtime hears only requests that passed every check of the edge.
THEOREM RepliesKeepApart == ChatSpec => []RepliesAreTheirOwn
<1>1. ChatInit => ChatIInv
  BY ChatStart
<1>2. ChatIInv /\ [ChatNext]_chatVars => ChatIInv'
  BY ChatSteps
<1>3. ChatIInv => RepliesAreTheirOwn
  BY RepliesFollow
<1> QED
  BY <1>1, <1>2, <1>3, PTL DEF ChatSpec

-----------------------------------------------------------------------------
(* Pricing.  The amounts of a quote follow from arithmetic alone.  For the *)
(* panel the inductive invariant says what an answer that reads            *)
(* "confirmed" still means when it is used: the quote it names has the     *)
(* confirmations of everyone with a part in it, whatever was issued since. *)

Quotes == [terms : DOMAIN Terms, P : Nat, A : Nat, B : Nat, review : BOOLEAN, approved : BOOLEAN,
           shares : UNION {[TaskTeam(t) -> Nat] : t \in DOMAIN Terms}, expires : Nat,
           confirmed : SUBSET ({Publisher} \cup DOMAIN Place)]
Statuses == {"none", "not_issued", "superseded", "expired", "manual_review", "confirmed", "active", "error", "issued"}
Errors == {"none", "failed", "RISK_QUOTE_CONFIRM_FORBIDDEN", "RISK_QUOTE_CONFIRMATION_INVALID"}
Visits == [at : {"loading", "context", "issuing", "verify"}, action : {"load", "create", "confirm", "refresh"},
           press : Nat, record : Nat, call : {0} \cup Assessments,
           reply : [active : Nat, terms : DOMAIN Terms, status : Statuses]]
Panels == [wallet : {Publisher} \cup Visitors, record : Nat, ready : Nat, busy : BOOLEAN, error : Errors,
           pressed : Nat, expired : BOOLEAN]

\* Everyone with a part in the quote has confirmed it, and an operator, if he must.
Settled(list, q) ==
    /\ q \in 1..Len(list) /\ (list[q].review => list[q].approved)
    /\ {Publisher} \cup DOMAIN list[q].shares \subseteq list[q].confirmed

PricingTypeOK ==
    /\ hour \in Nat /\ current \in DOMAIN Terms /\ issued \in Seq(Quotes)
    /\ visits \in [Slots -> {Silent} \cup Visits] /\ panel \in Panels
QuotesRight ==
    \A i \in 1..Len(issued) :
        DOMAIN issued[i].shares = TaskTeam(issued[i].terms) /\ AmountsAddUp(issued[i])
AnswersRight ==
    \A r \in Slots : visits[r] # Silent /\ visits[r].reply.status = "confirmed"
                         => Settled(issued, visits[r].reply.active)
PanelRight == panel.ready # 0 => panel.ready = panel.record /\ Settled(issued, panel.ready)

PricingIInv == PricingTypeOK /\ QuotesRight /\ AnswersRight /\ PanelRight

\* A team is finite, and each of its agents has a positive weight.
LEMMA WeightsAre ==
  ASSUME NEW t \in DOMAIN Terms
  PROVE  /\ IsFiniteSet(TaskTeam(t)) /\ TaskTeam(t) \subseteq DOMAIN Place
         /\ AgentWeights[t] \in [TaskTeam(t) -> Nat] /\ \A a \in TaskTeam(t) : AgentWeights[t][a] > 0
         /\ TotalWeight[t] = Total(AgentWeights[t]) /\ TotalWeight[t] \in Nat
         /\ TaskTeam(t) # {} => TotalWeight[t] > 0
<1>1. PICK N, node : N = DOMAIN Terms[t].nodes /\ node = Terms[t].nodes
  OBVIOUS
<1>2. IsFiniteSet(N) /\ \A n \in N : node[n] \in PricedNodes
  BY <1>1, TermsConstants
<1>3. TaskTeam(t) = {node[n].agent : n \in N}
  BY <1>1 DEF TaskTeam
<1>4. TaskTeam(t) \subseteq DOMAIN Place
  BY <1>2, <1>3 DEF PricedNodes
<1>5. IsFiniteSet(TaskTeam(t))
  <2>. DEFINE f == [n \in N |-> node[n].agent]
  <2>1. f \in Surjection(N, TaskTeam(t))
    BY <1>3 DEF Surjection
  <2>. QED
    BY <1>2, <2>1, FS_Surjection
<1>6. ASSUME NEW a \in TaskTeam(t)
      PROVE  AgentWeights[t][a] \in Nat /\ AgentWeights[t][a] > 0
  <2>. DEFINE D == {m \in N : node[m].agent = a}
              g == [n \in D |-> node[n].share * node[n].risk * node[n].reputation]
  <2>1. AgentWeights[t][a] = Total(g)
    BY <1>1 DEF AgentWeights
  <2>2. IsFiniteSet(D)
    BY <1>2, FS_Subset
  <2>3. ASSUME NEW n \in N
        PROVE  node[n].share * node[n].risk * node[n].reputation \in Nat \ {0}
    <3>1. node[n].share \in Nat \ {0} /\ node[n].risk \in Nat \ {0} /\ node[n].reputation \in Nat \ {0}
      BY <1>2 DEF PricedNodes
    <3>2. \A x, y \in Nat \ {0} : x * y \in Nat \ {0}
      BY Z3
    <3>3. node[n].share * node[n].risk \in Nat \ {0}
      BY <3>1, <3>2
    <3>. QED
      BY <3>1, <3>2, <3>3
  <2>4. g \in [D -> Nat] /\ \A n \in D : g[n] > 0
    BY <2>3
  <2>5. PICK n \in D : TRUE
    BY <1>3
  <2>. HIDE DEF D, g
  <2>6. Total(g) \in Nat /\ g[n] <= Total(g)
    BY <2>2, <2>4, <2>5, TotalType, TotalBounds
  <2>7. g[n] \in Nat /\ g[n] > 0
    BY <2>4, <2>5
  <2>. QED
    BY <2>1, <2>6, <2>7
<1>7. AgentWeights[t] \in [TaskTeam(t) -> Nat]
  <2>1. AgentWeights[t] = [a \in TaskTeam(t) |-> AgentWeights[t][a]]
    BY DEF AgentWeights
  <2>. QED
    BY <1>6, <2>1
<1>8. TotalWeight[t] = Total(AgentWeights[t])
  BY DEF TotalWeight
<1>9. TotalWeight[t] \in Nat
  BY <1>5, <1>7, <1>8, TotalType
<1>10. ASSUME NEW a \in TaskTeam(t) PROVE TotalWeight[t] > 0
  <2>1. AgentWeights[t][a] <= Total(AgentWeights[t])
    BY <1>5, <1>7, TotalBounds
  <2>. QED
    BY <1>6, <1>8, <1>9, <2>1
<1>. QED
  BY <1>4, <1>5, <1>6, <1>7, <1>8, <1>9, <1>10

\* By weight, and by name among equals: a strict order of the team.
HeavierPairs(t) == {p \in TaskTeam(t) \X TaskTeam(t) : Heavier(t, p[1], p[2])}
LEMMA HeavierOrders ==
  ASSUME NEW t \in DOMAIN Terms
  PROVE  /\ StrictlyOrders(HeavierPairs(t), TaskTeam(t))
         /\ \A a, b \in TaskTeam(t) : <<a, b>> \in HeavierPairs(t) <=> Heavier(t, a, b)
         /\ \A a \in TaskTeam(t) : Ahead(TaskTeam(t), HeavierPairs(t), a) = {b \in TaskTeam(t) : Heavier(t, b, a)}
<1>1. PICK w, S : w = AgentWeights[t] /\ S = TaskTeam(t)
  OBVIOUS
<1>2. /\ \A a \in S : w[a] \in Nat /\ a \in DOMAIN Place /\ Place[a] \in Nat
      /\ \A a, b \in S : Place[a] = Place[b] => a = b
  <2>1. \A a \in S : w[a] \in Nat /\ a \in DOMAIN Place
    BY <1>1, WeightsAre
  <2>. QED
    BY <2>1, PricingConstants
<1>3. \A a, b \in S : <<a, b>> \in HeavierPairs(t) <=> w[a] > w[b] \/ (w[a] = w[b] /\ Place[a] < Place[b])
  BY <1>1 DEF HeavierPairs, Heavier
<1>4. StrictlyOrders(HeavierPairs(t), S)
  <2>1. \A a \in S : <<a, a>> \notin HeavierPairs(t)
    BY <1>2, <1>3
  <2>2. \A a, b \in S : a # b => <<a, b>> \in HeavierPairs(t) \/ <<b, a>> \in HeavierPairs(t)
    BY <1>2, <1>3
  <2>3. \A a, b, c \in S : <<a, b>> \in HeavierPairs(t) /\ <<b, c>> \in HeavierPairs(t) => <<a, c>> \in HeavierPairs(t)
    BY <1>2, <1>3
  <2>. QED
    BY <2>1, <2>2, <2>3 DEF StrictlyOrders
<1>5. \A a, b \in S : <<a, b>> \in HeavierPairs(t) <=> Heavier(t, a, b)
  BY <1>1 DEF HeavierPairs
<1>. QED
  BY <1>1, <1>4, <1>5 DEF Ahead

\* Whatever the deposit, the parts add up to it and follow the weights.
LEMMA SharesAddUp ==
  ASSUME NEW t \in DOMAIN Terms, NEW deposit \in Nat
  PROVE  LET shares == AllocateAgentTeamDeposit(t, deposit) IN
         /\ shares \in [TaskTeam(t) -> Nat]
         /\ TaskTeam(t) # {} => Total(shares) = deposit
         /\ \A a, b \in TaskTeam(t) : Heavier(t, a, b) => shares[a] >= shares[b]
<1>1. PICK S, w, whole : S = TaskTeam(t) /\ w = AgentWeights[t] /\ whole = TotalWeight[t]
  OBVIOUS
<1>2. PICK base : base = AllocateRoundedDown(t, deposit)
  OBVIOUS
<1>3. PICK left : left = deposit - Total(base)
  OBVIOUS
<1>4. PICK R : R = HeavierPairs(t)
  OBVIOUS
<1>. DEFINE rank(a) == Cardinality(Ahead(S, R, a))
            D == {a \in S : rank(a) < left}
            extra == [a \in S |-> IF a \in D THEN 1 ELSE 0]
            shares == [a \in S |-> base[a] + extra[a]]
<1>5. AllocateAgentTeamDeposit(t, deposit) = shares
  <2>1. \A a \in S : {b \in S : Heavier(t, b, a)} = Ahead(S, R, a)
    BY <1>1, <1>4, HeavierOrders
  <2>2. AllocateAgentTeamDeposit(t, deposit) =
          [a \in S |-> base[a] + (IF Cardinality({b \in S : Heavier(t, b, a)}) < left THEN 1 ELSE 0)]
    BY <1>1, <1>2, <1>3 DEF AllocateAgentTeamDeposit
  <2>. QED
    BY <2>1, <2>2
<1>6. /\ IsFiniteSet(S) /\ w \in [S -> Nat] /\ whole = Total(w) /\ whole \in Nat
      /\ S # {} => whole > 0
  BY <1>1, WeightsAre
<1>7. base = [a \in S |-> (deposit * w[a]) \div whole]
  BY <1>1, <1>2 DEF AllocateRoundedDown
<1>8. \A a \in S : base[a] \in Nat
  <2>. SUFFICES ASSUME NEW a \in S PROVE base[a] \in Nat
    OBVIOUS
  <2>1. whole > 0 /\ w[a] \in Nat
    BY <1>6
  <2>2. PICK d \in Nat : d = deposit * w[a]
    BY <2>1
  <2>3. d \div whole \in Nat
    BY <1>6, <2>1
  <2>. QED
    BY <1>7, <2>2, <2>3
<1>9. base \in [S -> Nat]
  BY <1>7, <1>8
<1>10. StrictlyOrders(R, S) /\ \A a, b \in S : Heavier(t, a, b) <=> <<a, b>> \in R
  BY <1>1, <1>4, HeavierOrders
<1>11. extra \in [S -> Nat] /\ \A a \in S : extra[a] = IF a \in D THEN 1 ELSE 0
  OBVIOUS
<1>12. shares \in [S -> Nat] /\ \A a \in S : shares[a] = base[a] + extra[a]
  BY <1>8, <1>11
<1>13. ASSUME S # {} PROVE Total(shares) = deposit
  <2>1. Total(base) \in Nat /\ Total(base) <= deposit /\ deposit - Total(base) < Cardinality(S)
    <3>1. Total(w) > 0 /\ \A a \in S : base[a] = (deposit * w[a]) \div Total(w)
      BY <1>6, <1>7, <1>13
    <3>. QED
      BY <1>6, <1>9, <1>13, <3>1, LittleIsLeft
  <2>2. left \in Nat /\ left <= Cardinality(S) /\ Total(base) + left = deposit
    BY <1>3, <1>6, <2>1, FS_CardinalityType
  <2>3. Cardinality(D) = left
    BY <1>6, <1>10, <2>2, FirstInRank
  <2>4. D \in SUBSET S
    OBVIOUS
  <2>. HIDE DEF D, extra, shares
  <2>5. Total(extra) = left
    BY <1>6, <1>11, <2>3, <2>4, TotalOfChosen
  <2>6. Total(shares) = Total(base) + Total(extra)
    BY <1>6, <1>9, <1>11, <1>12, TotalOfSum
  <2>. QED
    BY <2>2, <2>5, <2>6
<1>14. ASSUME NEW a \in S, NEW b \in S, Heavier(t, a, b)
       PROVE  shares[a] >= shares[b]
  <2>1. w[a] \in Nat /\ w[b] \in Nat /\ w[b] <= w[a] /\ whole \in Nat \ {0}
    BY <1>1, <1>6, <1>14 DEF Heavier
  <2>2. base[b] <= base[a]
    <3>1. PICK x \in Nat, y \in Nat : x = deposit * w[b] /\ y = deposit * w[a]
      BY <2>1
    <3>2. x <= y
      BY <2>1, <3>1, Z3
    <3>3. x \div whole <= y \div whole
      <4>1. PICK p \in Nat, q \in Nat : p = x \div whole /\ q = y \div whole
        BY <2>1
      <4>2. whole * p <= x
        BY <2>1, <4>1, Z3
      <4>3. y < whole * q + whole
        BY <2>1, <4>1, Z3
      <4>4. ASSUME q + 1 <= p PROVE FALSE
        <5>1. whole * (q + 1) <= whole * p
          BY <2>1, <4>4, Z3
        <5>2. whole * (q + 1) = whole * q + whole
          BY <2>1, Z3
        <5>3. whole * p \in Nat /\ whole * q \in Nat
          BY <2>1
        <5>. QED
          BY <2>1, <3>2, <4>2, <4>3, <5>1, <5>2, <5>3
      <4>. QED
        BY <4>1, <4>4
    <3>. QED
      BY <1>7, <3>1, <3>3
  <2>3. rank(a) \in Nat /\ rank(b) \in Nat /\ rank(a) < rank(b)
    <3>1. Cardinality(S) \in Nat /\ \A x \in S : rank(x) \in 0..(Cardinality(S) - 1)
      BY <1>6, <1>10, RankIs
    <3>2. \A x, y \in S : <<x, y>> \in R <=> rank(x) < rank(y)
      BY <1>6, <1>10, RankIs
    <3>3. <<a, b>> \in R
      BY <1>10, <1>14
    <3>4. rank(a) \in 0..(Cardinality(S) - 1) /\ rank(b) \in 0..(Cardinality(S) - 1) /\ rank(a) < rank(b)
      BY <3>1, <3>2, <3>3
    <3>. HIDE DEF rank
    <3>. QED
      BY <3>1, <3>4
  <2>4. extra[b] <= extra[a] /\ extra[a] \in Nat /\ extra[b] \in Nat
    <3>1. ASSUME b \in D PROVE a \in D
      <4>1. rank(b) < left
        BY <3>1
      <4>2. left \in Int
        <5>1. Total(base) \in Nat
          BY <1>6, <1>9, TotalType
        <5>. QED
          BY <1>3, <5>1
      <4>. HIDE DEF rank
      <4>3. rank(a) < left
        BY <2>3, <4>1, <4>2
      <4>. QED
        BY <4>3
    <3>. HIDE DEF D, extra
    <3>. QED
      BY <1>11, <3>1
  <2>. HIDE DEF extra, shares, D
  <2>. QED
    BY <1>8, <1>12, <2>2, <2>4
<1>. HIDE DEF shares
<1>. QED
  BY <1>1, <1>5, <1>12, <1>13, <1>14

\* A quote has what its terms and the assessment say.
LEMMA QuoteIsRight ==
  ASSUME NEW t \in DOMAIN Terms, NEW f \in Assessed, hour \in Nat
  PROVE  LET q == CreateRiskQuote(t, f) IN
         q \in Quotes /\ q.shares \in [TaskTeam(t) -> Nat] /\ q.terms = t /\ AmountsAddUp(q)
<1>1. RiskScore(f) \in Nat
  <2>1. \A x \in DOMAIN RISK_WEIGHTS : f[x] \in Nat /\ RISK_WEIGHTS[x] \in Nat /\ Weighed(f, x) \in Nat
    <3>. SUFFICES ASSUME NEW x \in DOMAIN RISK_WEIGHTS
                  PROVE  f[x] \in Nat /\ RISK_WEIGHTS[x] \in Nat /\ Weighed(f, x) \in Nat
      OBVIOUS
    <3>1. f[x] \in Nat
      BY AssessedConstants
    <3>2. RISK_WEIGHTS[x] \in Nat
      BY DEF RISK_WEIGHTS
    <3>. QED
      BY <3>1, <3>2 DEF Weighed
  <2>2. DOMAIN RISK_WEIGHTS = {"complexity", "acceptanceAmbiguity", "externalDependency", "dataSensitivity",
                               "financialRisk", "irreversibility", "deadlineRisk", "agentUncertainty"}
    BY DEF RISK_WEIGHTS
  <2>3. /\ Weighed(f, "complexity") \in Nat /\ Weighed(f, "acceptanceAmbiguity") \in Nat
        /\ Weighed(f, "externalDependency") \in Nat /\ Weighed(f, "dataSensitivity") \in Nat
        /\ Weighed(f, "financialRisk") \in Nat /\ Weighed(f, "irreversibility") \in Nat
        /\ Weighed(f, "deadlineRisk") \in Nat /\ Weighed(f, "agentUncertainty") \in Nat
    BY <2>1, <2>2
  <2>. QED
    BY <2>3 DEF RiskScore
<1>2. ASSUME NEW r \in Nat, NEW m \in Nat, r <= 10000
      PROVE  CeilBps(m, r) \in Nat /\ CeilBps(m, r) <= m
  <2>1. PICK x \in Nat : x = m * r
    OBVIOUS
  <2>2. x <= m * 10000
    BY <1>2, <2>1, Z3
  <2>3. (x + 9999) \div 10000 \in Nat /\ (x + 9999) \div 10000 <= m
    BY <2>2
  <2>. QED
    BY <2>1, <2>3 DEF CeilBps
<1>3. PICK rate \in Nat : rate = DepositRate(RiskScore(f)) /\ rate <= 10000
  BY <1>1 DEF DepositRate
<1>4. PICK deposit : deposit = CeilBps(Terms[t].budget, DepositRate(RiskScore(f)))
  OBVIOUS
<1>5. PICK budget \in Nat : budget = Terms[t].budget
  BY TermsConstants
<1>6. deposit \in Nat /\ deposit <= Terms[t].budget
  <2>1. rate \in Nat /\ budget \in Nat /\ rate <= 10000
    BY <1>3
  <2>2. CeilBps(budget, rate) \in Nat
    BY <1>2, <2>1
  <2>3. CeilBps(budget, rate) <= budget
    BY <1>2, <2>1
  <2>. QED
    BY <1>3, <1>4, <1>5, <2>2, <2>3
<1>7. CeilBps(Terms[t].budget, FeeBps) \in Nat /\ CeilBps(Terms[t].budget, FeeBps) <= Terms[t].budget
  <2>1. FeeBps \in Nat /\ FeeBps <= 10000
    BY PricingConstants
  <2>. QED
    BY <1>2, <1>5, <2>1
<1>8. PICK q, shares : q = CreateRiskQuote(t, f) /\ shares = AllocateAgentTeamDeposit(t, deposit)
  OBVIOUS
<1>9. q = [terms |-> t, P |-> Terms[t].budget, A |-> deposit, B |-> CeilBps(Terms[t].budget, FeeBps),
           review |-> RiskScore(f) > 80, approved |-> FALSE, shares |-> shares,
           expires |-> hour + Lifetime, confirmed |-> {}]
  BY <1>4, <1>8 DEF CreateRiskQuote
<1>10. /\ shares \in [TaskTeam(t) -> Nat]
       /\ TaskTeam(t) # {} => Total(shares) = deposit
       /\ \A a, b \in TaskTeam(t) : Heavier(t, a, b) => shares[a] >= shares[b]
  BY <1>6, <1>8, SharesAddUp
<1>11. q \in Quotes
  <2>1. shares \in UNION {[TaskTeam(x) -> Nat] : x \in DOMAIN Terms}
    BY <1>10
  <2>2. hour + Lifetime \in Nat /\ (RiskScore(f) > 80) \in BOOLEAN
    BY <1>1, PricingConstants
  <2>. QED
    BY <1>5, <1>6, <1>7, <1>9, <2>1, <2>2 DEF Quotes
<1>12. AmountsAddUp(q)
  <2>1. q.terms = t /\ q.shares = shares /\ q.A = deposit /\ q.P = Terms[t].budget
        /\ q.B = CeilBps(Terms[t].budget, FeeBps) /\ DOMAIN shares = TaskTeam(t)
    BY <1>9, <1>10
  <2>. QED
    BY <1>6, <1>7, <1>10, <2>1 DEF AmountsAddUp
<1>. QED
  BY <1>8, <1>9, <1>10, <1>11, <1>12

LEMMA PricingBegins == PricingInit => PricingIInv
<1>. SUFFICES ASSUME PricingInit PROVE PricingIInv
  OBVIOUS
<1>1. PricingTypeOK
  <2>1. hour \in Nat /\ current \in DOMAIN Terms /\ issued \in Seq(Quotes)
    BY TermsConstants DEF PricingInit
  <2>2. visits \in [Slots -> {Silent} \cup Visits]
    BY DEF PricingInit
  <2>3. panel \in Panels
    BY DEF PricingInit, Panels, Blank, Errors
  <2>. QED
    BY <2>1, <2>2, <2>3 DEF PricingTypeOK
<1>2. Len(issued) = 0 /\ panel.ready = 0 /\ \A r \in Slots : visits[r] = Silent
  BY DEF PricingInit, Blank
<1>. QED
  BY <1>1, <1>2 DEF PricingIInv, QuotesRight, AnswersRight, PanelRight

\* What was settled stays so while quotes are added and confirmations come in.
LEMMA SettledStays ==
  ASSUME NEW old \in Seq(Quotes), NEW new \in Seq(Quotes), Len(old) <= Len(new),
         \A i \in 1..Len(old) : /\ new[i].review = old[i].review /\ new[i].shares = old[i].shares
                                /\ old[i].approved => new[i].approved
                                /\ old[i].confirmed \subseteq new[i].confirmed
  PROVE  \A q : Settled(old, q) => Settled(new, q)
<1>1. Len(old) \in Nat /\ Len(new) \in Nat
  OBVIOUS
<1>. QED
  BY <1>1 DEF Settled

\* A run goes on to its next answer.
LEMMA GotoKeeps ==
  ASSUME PricingIInv, NEW r \in Slots, NEW visit \in Visits, Goto(r, visit),
         visit.reply.status = "confirmed" => Settled(issued, visit.reply.active),
         UNCHANGED <<hour, current, issued, panel>>
  PROVE  PricingIInv'
<1>1. PricingTypeOK'
  BY DEF PricingIInv, PricingTypeOK, Goto
<1>2. \A s \in Slots : visits'[s] = IF s = r THEN visit ELSE visits[s]
  BY DEF PricingIInv, PricingTypeOK, Goto
<1>3. AnswersRight'
  BY <1>2 DEF PricingIInv, AnswersRight
<1>4. QuotesRight' /\ PanelRight'
  BY DEF PricingIInv, QuotesRight, PanelRight
<1>. QED
  BY <1>1, <1>3, <1>4 DEF PricingIInv

\* A run ends, and the panel shows its result only if it is the last one pressed.
LEMMA VisitEndKeeps ==
  ASSUME PricingIInv, NEW r \in Slots, NEW record \in Nat, NEW ready \in Nat, NEW error \in Errors,
         End(r, record, ready, error), ready # 0 => ready = record /\ Settled(issued, ready),
         UNCHANGED <<hour, current, issued>>
  PROVE  PricingIInv'
<1>1. /\ panel \in Panels
      /\ panel' = panel \/ panel' = [panel EXCEPT !.record = record, !.ready = ready, !.error = error, !.busy = FALSE]
  BY DEF PricingIInv, PricingTypeOK, End
<1>2. visits' = [visits EXCEPT ![r] = Silent]
  BY DEF End, Goto
<1>3. PricingTypeOK'
  <2>1. panel' \in Panels
    BY <1>1 DEF Panels
  <2>. QED
    BY <1>2, <2>1 DEF PricingIInv, PricingTypeOK
<1>4. \A s \in Slots : visits'[s] = Silent \/ visits'[s] = visits[s]
  BY <1>2 DEF PricingIInv, PricingTypeOK
<1>5. AnswersRight'
  BY <1>4 DEF PricingIInv, AnswersRight
<1>6. PanelRight'
  <2>1. \/ panel'.ready = panel.ready /\ panel'.record = panel.record
        \/ panel'.ready = ready /\ panel'.record = record
    BY <1>1 DEF Panels
  <2>. QED
    BY <2>1 DEF PricingIInv, PanelRight
<1>7. QuotesRight'
  BY DEF PricingIInv, QuotesRight
<1>. QED
  BY <1>3, <1>5, <1>6, <1>7 DEF PricingIInv

\* A quote that gains a confirmation or an approval, and changes nothing else.
LEMMA QuoteGains ==
  ASSUME PricingIInv, NEW q \in 1..Len(issued), NEW changed \in Quotes,
         changed.shares = issued[q].shares, changed.terms = issued[q].terms,
         changed.A = issued[q].A, changed.B = issued[q].B, changed.P = issued[q].P,
         changed.review = issued[q].review, issued[q].approved => changed.approved,
         issued[q].confirmed \subseteq changed.confirmed
  PROVE  LET new == [issued EXCEPT ![q] = changed] IN
         /\ new \in Seq(Quotes) /\ Len(new) = Len(issued)
         /\ \A i \in 1..Len(new) : DOMAIN new[i].shares = TaskTeam(new[i].terms) /\ AmountsAddUp(new[i])
         /\ \A p : Settled(issued, p) => Settled(new, p)
<1>1. PICK new : new = [issued EXCEPT ![q] = changed]
  OBVIOUS
<1>2. issued \in Seq(Quotes) /\ Len(issued) \in Nat /\ \A i \in 1..Len(issued) : issued[i] \in Quotes
  BY DEF PricingIInv, PricingTypeOK
<1>3. new \in Seq(Quotes) /\ Len(new) = Len(issued)
  BY <1>1, <1>2
<1>4. \A i \in 1..Len(new) : new[i] = IF i = q THEN changed ELSE issued[i]
  BY <1>1, <1>2, <1>3
<1>5. \A i \in 1..Len(issued) : /\ new[i].review = issued[i].review /\ new[i].shares = issued[i].shares
                                /\ issued[i].approved => new[i].approved
                                /\ issued[i].confirmed \subseteq new[i].confirmed
                                /\ new[i].terms = issued[i].terms /\ new[i].A = issued[i].A
                                /\ new[i].B = issued[i].B /\ new[i].P = issued[i].P
  BY <1>3, <1>4
<1>6. \A i \in 1..Len(new) : DOMAIN new[i].shares = TaskTeam(new[i].terms) /\ AmountsAddUp(new[i])
  BY <1>3, <1>5 DEF PricingIInv, QuotesRight, AmountsAddUp
<1>7. \A p : Settled(issued, p) => Settled(new, p)
  <2>1. Len(issued) <= Len(new)
    BY <1>2, <1>3
  <2>2. \A i \in 1..Len(issued) : /\ new[i].review = issued[i].review /\ new[i].shares = issued[i].shares
                                  /\ issued[i].approved => new[i].approved
                                  /\ issued[i].confirmed \subseteq new[i].confirmed
    BY <1>5
  <2>. QED
    BY <1>2, <1>3, <2>1, <2>2, SettledStays
<1>. QED
  BY <1>1, <1>3, <1>6, <1>7

\* A confirmation adds a party's name to one quote.
LEMMA ConfirmationKeeps ==
  ASSUME PricingIInv, NEW q \in 1..Len(issued), NEW who \in Parties(current)
  PROVE  LET new == Confirmed(q, who) IN
         /\ new \in Seq(Quotes) /\ Len(new) = Len(issued)
         /\ \A i \in 1..Len(new) : DOMAIN new[i].shares = TaskTeam(new[i].terms) /\ AmountsAddUp(new[i])
         /\ \A p : Settled(issued, p) => Settled(new, p)
<1>1. issued[q] \in Quotes
  BY DEF PricingIInv, PricingTypeOK
<1>2. who \in {Publisher} \cup DOMAIN Place
  BY WeightsAre DEF PricingIInv, PricingTypeOK, Parties
<1>3. PICK changed : changed = [issued[q] EXCEPT !.confirmed = @ \cup {who}]
  OBVIOUS
<1>4. /\ changed \in Quotes /\ changed.shares = issued[q].shares /\ changed.terms = issued[q].terms
      /\ changed.A = issued[q].A /\ changed.B = issued[q].B /\ changed.P = issued[q].P
      /\ changed.review = issued[q].review
      /\ issued[q].approved => changed.approved
      /\ issued[q].confirmed \subseteq changed.confirmed
  BY <1>1, <1>2, <1>3 DEF Quotes
<1>5. Confirmed(q, who) = [issued EXCEPT ![q] = changed]
  BY <1>3 DEF Confirmed
<1>6. LET new == [issued EXCEPT ![q] = changed] IN
         /\ new \in Seq(Quotes) /\ Len(new) = Len(issued)
         /\ \A i \in 1..Len(new) : DOMAIN new[i].shares = TaskTeam(new[i].terms) /\ AmountsAddUp(new[i])
         /\ \A p : Settled(issued, p) => Settled(new, p)
  BY <1>4, QuoteGains
<1>. QED
  BY <1>5, <1>6

\* Whatever list of quotes comes next, if it is right and keeps what was settled.
LEMMA QuotesChange ==
  ASSUME PricingIInv, issued' \in Seq(Quotes),
         \A i \in 1..Len(issued') : DOMAIN issued'[i].shares = TaskTeam(issued'[i].terms) /\ AmountsAddUp(issued'[i]),
         \A p : Settled(issued, p) => Settled(issued', p),
         UNCHANGED <<hour, current, panel>>, visits' \in [Slots -> {Silent} \cup Visits],
         \A r \in Slots : visits'[r] # Silent /\ visits'[r].reply.status = "confirmed"
                            => \/ visits[r] # Silent /\ visits'[r].reply = visits[r].reply
                               \/ Settled(issued', visits'[r].reply.active)
  PROVE  PricingIInv'
<1>1. PricingTypeOK' /\ QuotesRight'
  BY DEF PricingIInv, PricingTypeOK, QuotesRight
<1>2. AnswersRight'
  BY DEF PricingIInv, AnswersRight
<1>3. PanelRight'
  BY DEF PricingIInv, PanelRight
<1>. QED
  BY <1>1, <1>2, <1>3 DEF PricingIInv

\* An operator approves the active quote.
LEMMA ApprovalKeeps ==
  ASSUME PricingIInv, ApproveManual
  PROVE  PricingIInv'
<1>1. PICK q : q = LatestQuote
  OBVIOUS
<1>2. q \in 1..Len(issued)
  BY <1>1 DEF ApproveManual, LatestQuote, PricingIInv, PricingTypeOK
<1>3. issued[q] \in Quotes
  BY <1>2 DEF PricingIInv, PricingTypeOK
<1>4. PICK changed : changed = [issued[q] EXCEPT !.approved = TRUE]
  OBVIOUS
<1>5. /\ changed \in Quotes /\ changed.shares = issued[q].shares /\ changed.terms = issued[q].terms
      /\ changed.A = issued[q].A /\ changed.B = issued[q].B /\ changed.P = issued[q].P
      /\ changed.review = issued[q].review /\ changed.approved
      /\ issued[q].confirmed \subseteq changed.confirmed
  BY <1>3, <1>4 DEF Quotes
<1>6. issued' = [issued EXCEPT ![q] = changed] /\ UNCHANGED <<hour, current, panel, visits>>
  BY <1>1, <1>4 DEF ApproveManual, Approved
<1>7. /\ issued' \in Seq(Quotes)
      /\ \A i \in 1..Len(issued') : DOMAIN issued'[i].shares = TaskTeam(issued'[i].terms) /\ AmountsAddUp(issued'[i])
      /\ \A p : Settled(issued, p) => Settled(issued', p)
  BY <1>2, <1>5, <1>6, QuoteGains
<1>8. visits' \in [Slots -> {Silent} \cup Visits]
  BY <1>6 DEF PricingIInv, PricingTypeOK
<1>. QED
  BY <1>6, <1>7, <1>8, QuotesChange

\* Runs waiting for a call get its answer, which never reads "confirmed".
LEMMA ReplyIs ==
  ASSUME PricingIInv, NEW c \in Assessments,
         NEW reply \in [active : Nat, terms : DOMAIN Terms, status : Statuses], reply.status # "confirmed"
  PROVE  /\ Reply(c, reply) \in [Slots -> {Silent} \cup Visits]
         /\ \A r \in Slots : Reply(c, reply)[r] # Silent /\ Reply(c, reply)[r].reply.status = "confirmed"
                               => visits[r] # Silent /\ Reply(c, reply)[r].reply = visits[r].reply
<1>1. ASSUME NEW r \in Slots
      PROVE  /\ Reply(c, reply)[r] \in {Silent} \cup Visits
             /\ \/ Reply(c, reply)[r] = visits[r]
                \/ Reply(c, reply)[r].reply = reply
  <2>1. visits[r] = Silent \/ visits[r] \in Visits
    BY DEF PricingIInv, PricingTypeOK
  <2>2. Reply(c, reply)[r] = IF visits[r].at = "issuing" /\ visits[r].call = c
                             THEN [visits[r] EXCEPT !.reply = reply] ELSE visits[r]
    BY DEF Reply
  <2>3. Silent.at # "issuing"
    BY DEF Silent
  <2>4. CASE visits[r].at = "issuing" /\ visits[r].call = c
    <3>1. visits[r] \in Visits
      BY <2>1, <2>3, <2>4
    <3>2. PICK v : v = [visits[r] EXCEPT !.reply = reply]
      OBVIOUS
    <3>3. v \in Visits /\ v.reply = reply
      BY <3>1, <3>2 DEF Visits
    <3>. QED
      BY <2>2, <2>4, <3>2, <3>3
  <2>5. CASE ~(visits[r].at = "issuing" /\ visits[r].call = c)
    BY <2>1, <2>2, <2>5
  <2>. QED
    BY <2>4, <2>5
<1>2. Reply(c, reply) = [r \in Slots |-> Reply(c, reply)[r]]
  BY DEF Reply
<1>. QED
  BY <1>1, <1>2

LEMMA IssueKeeps ==
  ASSUME PricingIInv, NEW c \in Assessments, NEW f \in Assessed, IssueQuote(c, f)
  PROVE  PricingIInv'
<1>1. PICK q : q = CreateRiskQuote(current, f)
  OBVIOUS
<1>2. q \in Quotes /\ q.shares \in [TaskTeam(current) -> Nat] /\ q.terms = current /\ AmountsAddUp(q)
  BY <1>1, QuoteIsRight DEF PricingIInv, PricingTypeOK
<1>3. issued \in Seq(Quotes) /\ Len(issued) \in Nat /\ issued' = Append(issued, q)
  BY <1>1 DEF PricingIInv, PricingTypeOK, IssueQuote
<1>4. /\ issued' \in Seq(Quotes) /\ Len(issued') = Len(issued) + 1
      /\ \A i \in 1..Len(issued) : issued'[i] = issued[i]
      /\ issued'[Len(issued) + 1] = q
  BY <1>2, <1>3, AppendProperties
<1>5. \A i \in 1..Len(issued') : DOMAIN issued'[i].shares = TaskTeam(issued'[i].terms) /\ AmountsAddUp(issued'[i])
  <2>1. \A i \in 1..Len(issued') : i \in 1..Len(issued) \/ i = Len(issued) + 1
    BY <1>3, <1>4
  <2>. QED
    BY <1>2, <1>4, <2>1 DEF PricingIInv, QuotesRight
<1>6. \A p : Settled(issued, p) => Settled(issued', p)
  <2>1. Len(issued) <= Len(issued')
    BY <1>3, <1>4
  <2>. QED
    BY <1>3, <1>4, <2>1, SettledStays
<1>7. PICK reply : reply = Reading(LatestQuote + 1, "issued")
  OBVIOUS
<1>8. reply \in [active : Nat, terms : DOMAIN Terms, status : Statuses] /\ reply.status # "confirmed"
  BY <1>3, <1>7 DEF Reading, LatestQuote, Statuses, PricingIInv, PricingTypeOK
<1>9. visits' = Reply(c, reply)
  BY <1>7 DEF IssueQuote
<1>10. /\ visits' \in [Slots -> {Silent} \cup Visits]
       /\ \A r \in Slots : visits'[r] # Silent /\ visits'[r].reply.status = "confirmed"
                             => visits[r] # Silent /\ visits'[r].reply = visits[r].reply
  BY <1>8, <1>9, ReplyIs
<1>11. UNCHANGED <<hour, current, panel>>
  BY DEF IssueQuote
<1>. QED
  BY <1>4, <1>5, <1>6, <1>10, <1>11, QuotesChange

LEMMA FailureKeeps ==
  ASSUME PricingIInv, NEW c \in Assessments, AssessmentFails(c)
  PROVE  PricingIInv'
<1>1. PICK reply : reply = Reading(0, "error")
  OBVIOUS
<1>2. reply \in [active : Nat, terms : DOMAIN Terms, status : Statuses] /\ reply.status # "confirmed"
  BY <1>1 DEF Reading, Statuses, PricingIInv, PricingTypeOK
<1>3. visits' = Reply(c, reply) /\ UNCHANGED <<hour, current, issued, panel>>
  BY <1>1 DEF AssessmentFails
<1>4. /\ visits' \in [Slots -> {Silent} \cup Visits]
      /\ \A r \in Slots : visits'[r] # Silent /\ visits'[r].reply.status = "confirmed"
                            => visits[r] # Silent /\ visits'[r].reply = visits[r].reply
  BY <1>2, <1>3, ReplyIs
<1>5. issued' = issued /\ issued' \in Seq(Quotes)
  BY <1>3 DEF PricingIInv, PricingTypeOK
<1>6. \A i \in 1..Len(issued') : DOMAIN issued'[i].shares = TaskTeam(issued'[i].terms) /\ AmountsAddUp(issued'[i])
  BY <1>5 DEF PricingIInv, QuotesRight
<1>. QED
  BY <1>3, <1>4, <1>5, <1>6, QuotesChange

LEMMA ConfirmKeeps ==
  ASSUME PricingIInv, NEW who \in {Publisher} \cup DOMAIN Place, ConfirmQuote(who)
  PROVE  PricingIInv'
<1>1. PICK q : q = LatestQuote
  OBVIOUS
<1>2. q \in 1..Len(issued) /\ who \in Parties(current)
  BY <1>1 DEF ConfirmQuote, Confirmable, LatestQuote, PricingIInv, PricingTypeOK
<1>3. issued' = Confirmed(q, who) /\ UNCHANGED <<hour, current, panel, visits>>
  BY <1>1 DEF ConfirmQuote
<1>4. /\ issued' \in Seq(Quotes)
      /\ \A i \in 1..Len(issued') : DOMAIN issued'[i].shares = TaskTeam(issued'[i].terms) /\ AmountsAddUp(issued'[i])
      /\ \A p : Settled(issued, p) => Settled(issued', p)
  BY <1>2, <1>3, ConfirmationKeeps
<1>5. visits' \in [Slots -> {Silent} \cup Visits]
  BY <1>3 DEF PricingIInv, PricingTypeOK
<1>. QED
  BY <1>3, <1>4, <1>5, QuotesChange

\* A run with an answer: a change of where it stands, with the answer forgotten.
LEMMA RunIs ==
  ASSUME PricingIInv, NEW r \in Slots, visits[r] # Silent
  PROVE  /\ visits[r] \in Visits
         /\ visits[r].record \in Nat /\ visits[r].reply.active \in Nat
         /\ Unanswered \in [active : Nat, terms : DOMAIN Terms, status : Statuses] /\ Unanswered.status = "none"
<1>1. visits[r] \in Visits
  BY DEF PricingIInv, PricingTypeOK
<1>2. visits[r].record \in Nat /\ visits[r].reply.active \in Nat
  BY <1>1 DEF Visits
<1>3. Unanswered \in [active : Nat, terms : DOMAIN Terms, status : Statuses] /\ Unanswered.status = "none"
  BY TermsConstants DEF Unanswered, Statuses
<1>. QED
  BY <1>1, <1>2, <1>3

LEMMA AwaitsAnswer ==
  ASSUME NEW r \in Slots, visits[r].at # "idle"
  PROVE  visits[r] # Silent
BY DEF Silent

LEMMA BeginKeeps ==
  ASSUME PricingIInv, NEW r \in Slots, NEW action \in {"load", "create", "confirm", "refresh"}, Begin(r, action)
  PROVE  PricingIInv'
<1>1. PICK visit : visit = [at |-> IF action = "load" THEN "loading" ELSE "context", action |-> action,
                            press |-> panel.pressed + 1, record |-> panel.record, reply |-> Unanswered, call |-> 0]
  OBVIOUS
<1>2. panel \in Panels
  BY DEF PricingIInv, PricingTypeOK
<1>3. Unanswered \in [active : Nat, terms : DOMAIN Terms, status : Statuses] /\ Unanswered.status = "none"
  BY TermsConstants DEF Unanswered, Statuses
<1>4. visit \in Visits /\ visit.reply.status # "confirmed"
  BY <1>1, <1>2, <1>3 DEF Visits, Panels
<1>5. visits' = [visits EXCEPT ![r] = visit] /\ UNCHANGED <<hour, current, issued>>
  BY <1>1 DEF Begin, Goto
<1>6. panel' \in Panels /\ panel'.ready = 0
  <2>1. PICK kept \in Nat : kept = IF action \in {"load", "create"} THEN 0 ELSE panel.record
    BY <1>2 DEF Panels
  <2>2. panel' = [Blank(panel.wallet) EXCEPT !.record = kept, !.busy = TRUE, !.pressed = panel.pressed + 1]
    BY <2>1 DEF Begin
  <2>3. PICK blank : blank = Blank(panel.wallet)
    OBVIOUS
  <2>4. blank \in Panels /\ blank.ready = 0
    BY <1>2, <2>3 DEF Panels, Blank, Errors
  <2>5. PICK next \in Nat : next = panel.pressed + 1
    BY <1>2 DEF Panels
  <2>6. panel' = [blank EXCEPT !.record = kept, !.busy = TRUE, !.pressed = next]
    BY <2>2, <2>3, <2>5
  <2>. QED
    BY <2>4, <2>6 DEF Panels
<1>7. PricingTypeOK'
  BY <1>4, <1>5, <1>6 DEF PricingIInv, PricingTypeOK
<1>8. \A s \in Slots : visits'[s] = IF s = r THEN visit ELSE visits[s]
  BY <1>5 DEF PricingIInv, PricingTypeOK
<1>9. AnswersRight' /\ QuotesRight' /\ PanelRight'
  BY <1>4, <1>5, <1>6, <1>8 DEF PricingIInv, AnswersRight, QuotesRight, PanelRight
<1>. QED
  BY <1>7, <1>9 DEF PricingIInv

\* The server says "confirmed" only of a quote that everyone has confirmed.
LEMMA AnswerKeeps ==
  ASSUME PricingIInv, NEW r \in Slots, Answer(r)
  PROVE  PricingIInv'
<1>1. visits[r].at # "idle"
  BY DEF Answer
<1>2. visits[r] \in Visits
  BY <1>1, AwaitsAnswer, RunIs
<1>3. PICK reply : reply = RiskContext
  OBVIOUS
<1>4. PICK n : n = Len(issued)
  OBVIOUS
<1>5. n \in Nat /\ current \in DOMAIN Terms /\ reply = [active |-> n, terms |-> current, status |-> QuoteStatus]
  BY <1>3, <1>4 DEF PricingIInv, PricingTypeOK, RiskContext, Reading, LatestQuote
<1>6. QuoteStatus \in Statuses
  BY DEF QuoteStatus, Statuses
<1>7. reply \in [active : Nat, terms : DOMAIN Terms, status : Statuses]
  BY <1>5, <1>6
<1>8. ASSUME reply.status = "confirmed" PROVE Settled(issued, reply.active)
  <2>1. QuoteStatus = "confirmed" /\ reply.active = n
    BY <1>5, <1>8
  <2>2. /\ n # 0 /\ issued[n].terms = current /\ (issued[n].review => issued[n].approved)
        /\ Parties(current) \subseteq issued[n].confirmed
    BY <1>4, <2>1 DEF QuoteStatus, AwaitsApproval, LatestQuote
  <2>3. n \in 1..Len(issued)
    BY <1>4, <1>5, <2>2
  <2>4. DOMAIN issued[n].shares = TaskTeam(current)
    BY <2>2, <2>3 DEF PricingIInv, QuotesRight
  <2>. QED
    BY <2>1, <2>2, <2>3, <2>4 DEF Settled, Parties
<1>9. PICK visit : visit = [visits[r] EXCEPT !.reply = reply]
  OBVIOUS
<1>10. visit \in Visits /\ visit.reply = reply
  BY <1>2, <1>7, <1>9 DEF Visits
<1>11. Goto(r, visit) /\ UNCHANGED <<hour, current, issued, panel>>
  BY <1>3, <1>9 DEF Answer
<1>. QED
  BY <1>8, <1>10, <1>11, GotoKeeps

LEMMA PostQuoteKeeps ==
  ASSUME PricingIInv, NEW r \in Slots, NEW c \in Assessments, PostQuote(r, c)
  PROVE  PricingIInv'
<1>1. visits[r] # Silent
  BY AwaitsAnswer DEF PostQuote, HasReply
<1>2. visits[r] \in Visits /\ Unanswered.status = "none"
      /\ Unanswered \in [active : Nat, terms : DOMAIN Terms, status : Statuses]
  BY <1>1, RunIs
<1>3. PICK visit : visit = [visits[r] EXCEPT !.at = "issuing", !.reply = Unanswered, !.call = c]
  OBVIOUS
<1>4. visit \in Visits /\ visit.reply.status # "confirmed"
  BY <1>2, <1>3 DEF Visits
<1>5. Goto(r, visit) /\ UNCHANGED <<hour, current, issued, panel>>
  BY <1>3 DEF PostQuote
<1>. QED
  BY <1>4, <1>5, GotoKeeps

LEMMA VerifyKeeps ==
  ASSUME PricingIInv, NEW r \in Slots, VerifyNewQuote(r)
  PROVE  PricingIInv'
<1>1. visits[r] # Silent
  BY AwaitsAnswer DEF VerifyNewQuote, HasReply
<1>2. visits[r] \in Visits /\ visits[r].reply.active \in Nat /\ Unanswered.status = "none"
      /\ Unanswered \in [active : Nat, terms : DOMAIN Terms, status : Statuses]
  BY <1>1, RunIs
<1>3. PICK visit : visit = [visits[r] EXCEPT !.at = "verify", !.record = visits[r].reply.active, !.reply = Unanswered]
  OBVIOUS
<1>4. visit \in Visits /\ visit.reply.status # "confirmed"
  BY <1>2, <1>3 DEF Visits
<1>5. Goto(r, visit) /\ UNCHANGED <<hour, current, issued, panel>>
  BY <1>3 DEF VerifyNewQuote
<1>. QED
  BY <1>4, <1>5, GotoKeeps

LEMMA ShowKeeps ==
  ASSUME PricingIInv, NEW r \in Slots, FailRun(r) \/ ShowCurrent(r) \/ ShowNewQuote(r)
  PROVE  PricingIInv'
<1>1. visits[r] # Silent
  BY AwaitsAnswer DEF FailRun, ShowCurrent, ShowNewQuote, HasReply
<1>2. visits[r].record \in Nat /\ visits[r].reply.active \in Nat /\ panel.record \in Nat
  BY <1>1, RunIs DEF PricingIInv, PricingTypeOK, Panels
<1>3. PICK record \in Nat, error \in Errors : End(r, record, 0, error)
  BY <1>2 DEF FailRun, ShowCurrent, ShowNewQuote, Errors
<1>4. UNCHANGED <<hour, current, issued>>
  BY DEF FailRun, ShowCurrent, ShowNewQuote
<1>. QED
  BY <1>3, <1>4, VisitEndKeeps

LEMMA PostConfirmationKeeps ==
  ASSUME PricingIInv, NEW r \in Slots, PostConfirmation(r)
  PROVE  PricingIInv'
<1>1. visits[r] # Silent
  BY AwaitsAnswer DEF PostConfirmation, HasReply
<1>2. visits[r] \in Visits /\ Unanswered.status = "none"
      /\ Unanswered \in [active : Nat, terms : DOMAIN Terms, status : Statuses]
  BY <1>1, RunIs
<1>3. UNCHANGED <<hour, current>>
  BY DEF PostConfirmation
<1>4. CASE Understood(PanelFields) /\ Confirmable(visits[r].record, panel.wallet)
  <2>1. PICK q, who : q = visits[r].record /\ who = panel.wallet
    OBVIOUS
  <2>2. q \in 1..Len(issued) /\ who \in Parties(current)
    BY <1>4, <2>1 DEF PostConfirmation, SameQuote, Confirmable, LatestQuote, PricingIInv, PricingTypeOK
  <2>3. PICK visit : visit = [visits[r] EXCEPT !.at = "verify", !.reply = Unanswered]
    OBVIOUS
  <2>4. visit \in Visits /\ visit.reply.status = "none"
    BY <1>2, <2>3 DEF Visits
  <2>5. issued' = Confirmed(q, who) /\ visits' = [visits EXCEPT ![r] = visit] /\ UNCHANGED panel
    BY <1>4, <2>1, <2>3 DEF PostConfirmation, Goto
  <2>6. /\ issued' \in Seq(Quotes)
        /\ \A i \in 1..Len(issued') : DOMAIN issued'[i].shares = TaskTeam(issued'[i].terms) /\ AmountsAddUp(issued'[i])
        /\ \A p : Settled(issued, p) => Settled(issued', p)
    BY <2>2, <2>5, ConfirmationKeeps
  <2>7. visits' \in [Slots -> {Silent} \cup Visits]
    BY <2>4, <2>5 DEF PricingIInv, PricingTypeOK
  <2>8. \A s \in Slots : visits'[s] = IF s = r THEN visit ELSE visits[s]
    BY <2>5 DEF PricingIInv, PricingTypeOK
  <2>9. \A s \in Slots : visits'[s] # Silent /\ visits'[s].reply.status = "confirmed"
                           => visits[s] # Silent /\ visits'[s].reply = visits[s].reply
    BY <2>4, <2>8
  <2>. QED
    BY <1>3, <2>5, <2>6, <2>7, <2>9, QuotesChange
<1>5. CASE ~(Understood(PanelFields) /\ Confirmable(visits[r].record, panel.wallet))
  <2>1. PICK error \in Errors : End(r, panel.record, 0, error)
    BY <1>5 DEF PostConfirmation, Errors
  <2>2. UNCHANGED issued /\ panel.record \in Nat
    BY <1>5 DEF PostConfirmation, PricingIInv, PricingTypeOK, Panels
  <2>. QED
    BY <1>3, <2>1, <2>2, VisitEndKeeps
<1>. QED
  BY <1>4, <1>5

\* Ready is said of the quote shown, on an answer that reads "confirmed".
LEMMA RefreshedKeeps ==
  ASSUME PricingIInv, NEW r \in Slots, Refreshed(r)
  PROVE  PricingIInv'
<1>1. visits[r] # Silent
  BY AwaitsAnswer DEF Refreshed, HasReply
<1>2. visits[r].record \in Nat /\ UNCHANGED <<hour, current, issued>>
  BY <1>1, RunIs DEF Refreshed
<1>3. PICK q, context : q = visits[r].record /\ context = visits[r].reply
  OBVIOUS
<1>4. PICK ready : ready = IF context.status = "confirmed" /\ TaskTeam(context.terms) # {} THEN q ELSE 0
  OBVIOUS
<1>5. ready \in Nat /\ End(r, q, ready, "none") /\ context.active = q
  BY <1>2, <1>3, <1>4 DEF Refreshed, SameQuote
<1>6. ready # 0 => ready = q /\ Settled(issued, ready)
  BY <1>1, <1>3, <1>4, <1>5 DEF PricingIInv, AnswersRight
<1>7. "none" \in Errors
  BY DEF Errors
<1>. QED
  BY <1>2, <1>3, <1>5, <1>6, <1>7, VisitEndKeeps

\* What changes neither a quote nor a run.
LEMMA QuietStep ==
  ASSUME PricingIInv, UNCHANGED issued, hour' \in Nat, current' \in DOMAIN Terms, panel' \in Panels,
         visits' = visits \/ visits' = [r \in Slots |-> Silent], panel' = panel \/ panel'.ready = 0
  PROVE  PricingIInv'
<1>1. \A r \in Slots : visits'[r] = visits[r] \/ visits'[r] = Silent
  OBVIOUS
<1>2. PricingTypeOK'
  BY DEF PricingIInv, PricingTypeOK
<1>3. AnswersRight'
  BY <1>1 DEF PricingIInv, AnswersRight
<1>4. QuotesRight' /\ PanelRight'
  BY DEF PricingIInv, QuotesRight, PanelRight
<1>. QED
  BY <1>2, <1>3, <1>4 DEF PricingIInv

LEMMA PricingStep == PricingIInv /\ [PricingNext]_pricingVars => PricingIInv'
<1>. SUFFICES ASSUME PricingIInv, [PricingNext]_pricingVars PROVE PricingIInv'
  OBVIOUS
<1>1. hour \in Nat /\ current \in DOMAIN Terms /\ panel \in Panels
  BY DEF PricingIInv, PricingTypeOK
<1>2. CASE TickPricing
  BY <1>1, <1>2, QuietStep DEF TickPricing
<1>3. CASE ChangeTerms
  BY <1>1, <1>3, QuietStep DEF ChangeTerms
<1>4. CASE WatchExpiry
  <2>1. PICK next \in Nat : next = panel.pressed + 1
    BY <1>1 DEF Panels
  <2>2. panel' \in Panels /\ panel'.ready = 0
    BY <1>1, <1>4, <2>1 DEF WatchExpiry, Panels
  <2>. QED
    BY <1>1, <1>4, <2>2, QuietStep DEF WatchExpiry
<1>5. CASE \E c \in Assessments : Consume(c)
  BY <1>1, <1>5, QuietStep DEF Consume, Hear
<1>6. CASE \E c \in Assessments : AssessmentFails(c)
  BY <1>6, FailureKeeps
<1>7. CASE \E c \in Assessments : \E f \in Assessed : IssueQuote(c, f)
  BY <1>7, IssueKeeps
<1>8. CASE \E who \in {Publisher} \cup DOMAIN Place : ConfirmQuote(who)
  BY <1>8, ConfirmKeeps
<1>9. CASE \E who \in Visitors : SwitchWallet(who)
  <2>1. PICK who \in Visitors : SwitchWallet(who)
    BY <1>9
  <2>2. panel' \in Panels /\ panel'.ready = 0
    BY <2>1 DEF SwitchWallet, Blank, Panels, Errors
  <2>. QED
    BY <1>1, <2>1, <2>2, QuietStep DEF SwitchWallet
<1>10. CASE \E r \in Slots : \E action \in {"load", "create", "confirm", "refresh"} : Begin(r, action)
  BY <1>10, BeginKeeps
<1>11. CASE \E r \in Slots : Answer(r)
  BY <1>11, AnswerKeeps
<1>12. CASE \E r \in Slots : FailRun(r) \/ ShowCurrent(r) \/ ShowNewQuote(r)
  BY <1>12, ShowKeeps
<1>13. CASE \E r \in Slots : VerifyNewQuote(r)
  BY <1>13, VerifyKeeps
<1>14. CASE \E r \in Slots : PostConfirmation(r)
  BY <1>14, PostConfirmationKeeps
<1>15. CASE \E r \in Slots : Refreshed(r)
  BY <1>15, RefreshedKeeps
<1>16. CASE \E r \in Slots : \E c \in Assessments : PostQuote(r, c)
  BY <1>16, PostQuoteKeeps
<1>17. CASE UNCHANGED pricingVars
  BY <1>1, <1>17, QuietStep DEF pricingVars
<1>18. CASE ApproveManual
  BY <1>18, ApprovalKeeps
<1>. QED
  BY <1>2, <1>3, <1>4, <1>5, <1>6, <1>7, <1>8, <1>9, <1>10, <1>11, <1>12, <1>13, <1>14, <1>15, <1>16, <1>17, <1>18
     DEF PricingNext

\* The panel announces an order as ready only for the quote it shows, confirmed by
\* everyone with a part in the deposit; and the parts add up to the deposit and
\* follow the weights, for any terms, teams, assessments and budgets.
THEOREM FundingRests == PricingSpec => []FundingRestsOnTheQuote
<1>1. PricingIInv => FundingRestsOnTheQuote
  <2>. SUFFICES ASSUME PricingIInv PROVE FundingRestsOnTheQuote
    OBVIOUS
  <2>1. \A q \in 1..LatestQuote : AmountsAddUp(issued[q])
    BY DEF PricingIInv, QuotesRight, LatestQuote
  <2>2. panel.ready # 0 => panel.ready = panel.record
          /\ (issued[panel.ready].review => issued[panel.ready].approved)
          /\ {Publisher} \cup DOMAIN issued[panel.ready].shares \subseteq issued[panel.ready].confirmed
    BY DEF PricingIInv, PanelRight, Settled
  <2>. QED
    BY <2>1, <2>2 DEF FundingRestsOnTheQuote
<1>. QED
  BY <1>1, PricingBegins, PricingStep, PTL DEF PricingSpec

-----------------------------------------------------------------------------
(* The holdout.  Nothing is asked of the log but that its times are        *)
(* numbers: the requests are put in the order of their first exposures, a  *)
(* boundary is one that every request before it ended before, and one of   *)
(* the valid boundaries is nearest to a fifth.                             *)

Exposed == [request : Nat, clicked : BOOLEAN, at : Nat]
TrainerIInv ==
    /\ exposures \in Seq(Exposed)
    /\ \A i \in 1..Len(exposures) : exposures[i].at <= Len(exposures)

LEMMA LastOf ==
  ASSUME NEW n \in Nat, NEW T \in SUBSET (0..n), NEW k \in T
  PROVE  \E m \in T : \A j \in T : j <= m
<1>. DEFINE U == {j + 1 : j \in T}
<1>1. U \in SUBSET (1..(n + 1)) /\ k + 1 \in U /\ n + 1 \in Nat
  OBVIOUS
<1>2. PICK u \in U : \A j \in U : j <= u
  <2>. HIDE DEF U
  <2>. QED
    BY <1>1, Greatest
<1>3. PICK m \in T : u = m + 1
  OBVIOUS
<1>4. ASSUME NEW j \in T PROVE j <= m
  <2>1. j + 1 \in U
    OBVIOUS
  <2>. HIDE DEF U
  <2>2. j \in Nat /\ m \in Nat
    OBVIOUS
  <2>. QED
    BY <1>2, <1>3, <2>1, <2>2
<1>. QED
  BY <1>4

\* When a request was first and last exposed.
LEMMA TimesAre ==
  ASSUME NEW s \in Seq(Exposed), NEW n \in Nat, \A i \in 1..Len(s) : s[i].at <= n, NEW r \in Requests(s)
  PROVE  /\ First(s, r) \in Nat /\ Latest(s, r) \in Nat
         /\ \A i \in Of(s, r) : First(s, r) <= s[i].at /\ s[i].at <= Latest(s, r)
<1>. DEFINE T == {s[i].at : i \in Of(s, r)}
<1>1. DOMAIN s = 1..Len(s) /\ \A i \in 1..Len(s) : s[i] \in Exposed
  OBVIOUS
<1>2. PICK i \in DOMAIN s : s[i].request = r
  BY DEF Requests
<1>3. i \in Of(s, r) /\ Of(s, r) \subseteq DOMAIN s
  BY <1>2 DEF Of
<1>4. T \in SUBSET (0..n) /\ T \in SUBSET Nat /\ s[i].at \in T
  BY <1>1, <1>3 DEF Exposed
<1>5. First(s, r) = Min(T) /\ Latest(s, r) = Max(T) /\ \A j \in Of(s, r) : s[j].at \in T
  BY DEF First, Latest
<1>. HIDE DEF T
<1>6. \E m \in T : \A k \in T : m <= k
  BY <1>4, Least
<1>7. \E m \in T : \A k \in T : k <= m
  BY <1>4, LastOf
<1>8. Min(T) \in T /\ \A k \in T : Min(T) <= k
  <2>1. Min(T) = CHOOSE x \in T : \A y \in T : x <= y
    BY DEF Min
  <2>. QED
    BY <1>6, <2>1
<1>9. Max(T) \in T /\ \A k \in T : k <= Max(T)
  <2>1. Max(T) = CHOOSE x \in T : \A y \in T : x >= y
    BY DEF Max
  <2>2. \E m \in T : \A k \in T : m >= k
    <3>1. PICK m \in T : \A k \in T : k <= m
      BY <1>7
    <3>2. \A k \in T : m >= k
      BY <1>4, <3>1
    <3>. QED
      BY <3>2
  <2>3. Max(T) \in T /\ \A k \in T : Max(T) >= k
    BY <2>1, <2>2
  <2>. QED
    BY <1>4, <2>3
<1>. QED
  BY <1>4, <1>5, <1>8, <1>9

LEMMA RowsAre ==
  ASSUME NEW s \in Seq(Exposed), NEW n \in Nat, \A i \in 1..Len(s) : s[i].at <= n
  PROVE  /\ GroupRows(s) \in Seq(Requests(s)) /\ In(GroupRows(s)) = Requests(s)
         /\ \A i, j \in 1..Len(GroupRows(s)) :
               i < j => First(s, GroupRows(s)[i]) <= First(s, GroupRows(s)[j])
<1>. DEFINE R == Requests(s)
            E == {p \in R \X R : Earlier(s, p[1], p[2])}
            rows == GroupRows(s)
<1>1. IsFiniteSet(R) /\ R \subseteq Nat
  <2>1. DOMAIN s = 1..Len(s) /\ Len(s) \in Nat /\ \A i \in 1..Len(s) : s[i].request \in Nat
    <3>1. DOMAIN s = 1..Len(s) /\ Len(s) \in Nat /\ \A i \in 1..Len(s) : s[i] \in Exposed
      OBVIOUS
    <3>. QED
      BY <3>1 DEF Exposed
  <2>2. IsFiniteSet(1..Len(s))
    BY <2>1, FS_Interval
  <2>. DEFINE asks == [i \in 1..Len(s) |-> s[i].request]
  <2>3. asks \in Surjection(1..Len(s), R)
    BY <2>1 DEF Requests, Surjection
  <2>4. R \subseteq Nat
    BY <2>1 DEF Requests
  <2>. HIDE DEF R, asks
  <2>. QED
    BY <2>2, <2>3, <2>4, FS_Surjection
<1>2. \A r \in R : First(s, r) \in Nat /\ Latest(s, r) \in Nat
  BY TimesAre
<1>3. \A a, b \in R : <<a, b>> \in E <=> Earlier(s, a, b)
  OBVIOUS
<1>4. rows = InOrder(R, E)
  BY DEF GroupRows
<1>. HIDE DEF R, E, rows
<1>5. StrictlyOrders(E, R)
  <2>1. \A a \in R : <<a, a>> \notin E
    BY <1>1, <1>2, <1>3 DEF Earlier
  <2>2. \A a, b \in R : a # b => <<a, b>> \in E \/ <<b, a>> \in E
    BY <1>1, <1>2, <1>3 DEF Earlier
  <2>3. ASSUME NEW a \in R, NEW b \in R, NEW c \in R, <<a, b>> \in E, <<b, c>> \in E
        PROVE  <<a, c>> \in E
    <3>1. Earlier(s, a, b) /\ Earlier(s, b, c)
      BY <1>3, <2>3
    <3>2. /\ a \in Nat /\ b \in Nat /\ c \in Nat
          /\ First(s, a) \in Nat /\ First(s, b) \in Nat /\ First(s, c) \in Nat
          /\ Latest(s, a) \in Nat /\ Latest(s, b) \in Nat /\ Latest(s, c) \in Nat
      BY <1>1, <1>2
    <3>3. Earlier(s, a, c)
      BY <3>1, <3>2 DEF Earlier
    <3>. QED
      BY <1>3, <3>3
  <2>. QED
    BY <2>1, <2>2, <2>3 DEF StrictlyOrders
<1>6. /\ rows \in Seq(R) /\ Len(rows) = Cardinality(R) /\ In(rows) = R
      /\ \A i, j \in 1..Cardinality(R) : i < j => <<rows[i], rows[j]>> \in E
  BY <1>1, <1>4, <1>5, InOrderIs
<1>7. ASSUME NEW i \in 1..Len(rows), NEW j \in 1..Len(rows), i < j
      PROVE  First(s, rows[i]) <= First(s, rows[j])
  <2>1. rows[i] \in R /\ rows[j] \in R
    BY <1>6
  <2>2. Earlier(s, rows[i], rows[j])
    BY <1>3, <1>6, <1>7, <2>1
  <2>. QED
    BY <1>2, <2>1, <2>2 DEF Earlier
<1>. QED
  BY <1>6, <1>7 DEF R, rows

\* Of several boundaries one is nearest: the least of three measures, one after the other.
HasNearest(valid, off, groups, size) ==
    \E i \in valid : \A j \in valid :
        ~(\/ off[j] < off[i]
          \/ off[j] = off[i] /\ groups[j] < groups[i]
          \/ off[j] = off[i] /\ groups[j] = groups[i] /\ size[j] > size[i])
LEMMA NearestIs ==
  ASSUME NEW valid \in SUBSET Nat, NEW n \in Nat, NEW v \in valid,
         NEW off \in [valid -> Nat], NEW groups \in [valid -> Nat], NEW size \in [valid -> 0..n]
  PROVE  HasNearest(valid, off, groups, size)
<1>. DEFINE A == {off[i] : i \in valid}
<1>1. PICK a \in A : \A k \in A : a <= k
  <2>1. A \in SUBSET Nat /\ off[v] \in A
    OBVIOUS
  <2>. HIDE DEF A
  <2>. QED
    BY <2>1, Least
<1>2. PICK va \in valid : off[va] = a
  OBVIOUS
<1>. DEFINE B == {groups[i] : i \in {j \in valid : off[j] = a}}
<1>3. PICK b \in B : \A k \in B : b <= k
  <2>1. B \in SUBSET Nat /\ groups[va] \in B
    BY <1>2
  <2>. HIDE DEF B
  <2>. QED
    BY <2>1, Least
<1>4. PICK vb \in valid : off[vb] = a /\ groups[vb] = b
  OBVIOUS
<1>. DEFINE C == {size[i] : i \in {j \in valid : off[j] = a /\ groups[j] = b}}
<1>5. PICK c \in C : \A k \in C : k <= c
  <2>1. C \in SUBSET (0..n) /\ size[vb] \in C
    BY <1>4
  <2>. HIDE DEF C
  <2>. QED
    BY <2>1, LastOf
<1>6. PICK vc \in valid : off[vc] = a /\ groups[vc] = b /\ size[vc] = c
  OBVIOUS
<1>7. ASSUME NEW j \in valid,
             \/ off[j] < off[vc]
             \/ off[j] = off[vc] /\ groups[j] < groups[vc]
             \/ off[j] = off[vc] /\ groups[j] = groups[vc] /\ size[j] > size[vc]
      PROVE  FALSE
  <2>1. off[j] \in A /\ (off[j] = a => groups[j] \in B) /\ (off[j] = a /\ groups[j] = b => size[j] \in C)
    OBVIOUS
  <2>2. /\ off[j] \in Nat /\ groups[j] \in Nat /\ size[j] \in Nat
        /\ off[vc] \in Nat /\ groups[vc] \in Nat /\ size[vc] \in Nat
    OBVIOUS
  <2>. HIDE DEF A, B, C
  <2>. QED
    BY <1>1, <1>3, <1>5, <1>6, <1>7, <2>1, <2>2
<1>. QED
  BY <1>7 DEF HasNearest

\* A split that is found has the past on one side and the future on the other.
LEMMA SplitFollows ==
  ASSUME NEW s \in Seq(Exposed), NEW n \in Nat, \A i \in 1..Len(s) : s[i].at <= n, TemporalHoldout(s) # {}
  PROVE  LET held == TemporalHoldout(s) IN
         /\ \A i \in DOMAIN s \ held, j \in held : s[i].at < s[j].at /\ s[i].request # s[j].request
         /\ SmallerClass(s, held) >= MIN_TEMPORAL_CLASS_SAMPLES
<1>. DEFINE rows == GroupRows(s)
            valid == {i \in 2..Len(rows) :
                        /\ Len(rows) >= MIN_TEMPORAL_GROUPS + 1 /\ IsBoundary(s, rows, i)
                        /\ Cardinality(Suffix(s, rows, i)) >= MIN_TEMPORAL_SAMPLES
                        /\ Len(rows) - i + 1 >= MIN_TEMPORAL_GROUPS
                        /\ SmallerClass(s, Suffix(s, rows, i)) >= MIN_TEMPORAL_CLASS_SAMPLES}
            best == {i \in valid : \A j \in valid : ~Closer(s, rows, j, i)}
            held == TemporalHoldout(s)
<1>1. valid # {} /\ held = Suffix(s, rows, Min(best))
  BY DEF TemporalHoldout
<1>2. /\ rows \in Seq(Requests(s)) /\ In(rows) = Requests(s) /\ Len(rows) \in Nat
      /\ \A i, j \in 1..Len(rows) : i < j => First(s, rows[i]) <= First(s, rows[j])
  <2>1. /\ GroupRows(s) \in Seq(Requests(s)) /\ In(GroupRows(s)) = Requests(s)
        /\ \A i, j \in 1..Len(GroupRows(s)) :
              i < j => First(s, GroupRows(s)[i]) <= First(s, GroupRows(s)[j])
    BY RowsAre
  <2>. QED
    BY <2>1
<1>3. DOMAIN s = 1..Len(s) /\ Len(s) \in Nat /\ \A i \in 1..Len(s) : s[i] \in Exposed
  OBVIOUS
<1>4. valid \in SUBSET (2..Len(rows)) /\ best \in SUBSET valid
      /\ \A i \in valid : IsBoundary(s, rows, i) /\ SmallerClass(s, Suffix(s, rows, i)) >= MIN_TEMPORAL_CLASS_SAMPLES
  OBVIOUS
<1>. HIDE DEF rows, valid, held
<1>5. best # {}
  <2>. DEFINE off == [i \in valid |-> Distance(Len(s), Cardinality(Suffix(s, rows, i)))]
              groups == [i \in valid |-> Distance(Len(rows), Len(rows) - i + 1)]
              size == [i \in valid |-> Cardinality(Suffix(s, rows, i))]
  <2>1. \A i \in valid : Cardinality(Suffix(s, rows, i)) \in 0..Len(s)
    <3>0. PICK top : top = Len(s)
      OBVIOUS
    <3>1. IsFiniteSet(1..Len(s)) /\ Cardinality(1..Len(s)) = Len(s)
      <4>1. top \in Nat /\ 1 \in Int /\ top \in Int
        BY <1>3, <3>0
      <4>2. IsFiniteSet(1..top) /\ Cardinality(1..top) = IF 1 > top THEN 0 ELSE top - 1 + 1
        BY <4>1, FS_Interval
      <4>. QED
        BY <3>0, <4>1, <4>2
    <3>. SUFFICES ASSUME NEW i \in valid PROVE Cardinality(Suffix(s, rows, i)) \in 0..Len(s)
      OBVIOUS
    <3>2. Suffix(s, rows, i) \in SUBSET (1..Len(s))
      BY <1>3 DEF Suffix, Of
    <3>3. /\ IsFiniteSet(Suffix(s, rows, i)) /\ Cardinality(Suffix(s, rows, i)) <= Cardinality(1..Len(s))
      BY <3>1, <3>2, FS_Subset
    <3>4. Cardinality(Suffix(s, rows, i)) \in Nat
      BY <3>3, FS_CardinalityType
    <3>. QED
      BY <1>3, <3>1, <3>3, <3>4
  <2>2. off \in [valid -> Nat] /\ groups \in [valid -> Nat] /\ size \in [valid -> 0..Len(s)]
    <3>1. \A whole, share \in Nat : Distance(whole, share) \in Nat
      BY DEF Distance
    <3>2. \A i \in valid : Distance(Len(s), Cardinality(Suffix(s, rows, i))) \in Nat
      BY <1>3, <2>1, <3>1
    <3>3. \A i \in valid : Distance(Len(rows), Len(rows) - i + 1) \in Nat
      <4>. SUFFICES ASSUME NEW i \in valid PROVE Distance(Len(rows), Len(rows) - i + 1) \in Nat
        OBVIOUS
      <4>1. i \in 2..Len(rows)
        BY <1>4
      <4>2. Len(rows) - i + 1 \in Nat
        BY <1>2, <4>1
      <4>. QED
        BY <1>2, <3>1, <4>2
    <3>. QED
      BY <2>1, <3>2, <3>3
  <2>3. \A i, j \in valid : Closer(s, rows, j, i) <=>
            \/ off[j] < off[i]
            \/ off[j] = off[i] /\ groups[j] < groups[i]
            \/ off[j] = off[i] /\ groups[j] = groups[i] /\ size[j] > size[i]
    BY DEF Closer
  <2>4. PICK v : v \in valid
    BY <1>1
  <2>5. valid \in SUBSET Nat
    <3>1. 2..Len(rows) \subseteq Nat
      BY <1>2
    <3>. QED
      BY <1>4, <3>1
  <2>. HIDE DEF off, groups, size
  <2>6. HasNearest(valid, off, groups, size)
    <3>1. PICK m \in Nat : m = Len(s)
      BY <1>3
    <3>2. size \in [valid -> 0..m]
      BY <2>2, <3>1
    <3>. QED
      BY <2>2, <2>4, <2>5, <3>2, NearestIs
  <2>. QED
    BY <2>3, <2>6 DEF HasNearest
<1>. HIDE DEF best
<1>6. Min(best) \in valid
  <2>1. PICK v : v \in best
    BY <1>5
  <2>2. best \in SUBSET Nat
    <3>1. 2..Len(rows) \subseteq Nat
      BY <1>2
    <3>. QED
      BY <1>4, <3>1
  <2>3. \E m \in best : \A k \in best : m <= k
    BY <2>1, <2>2, Least
  <2>4. Min(best) = CHOOSE x \in best : \A y \in best : x <= y
    BY DEF Min
  <2>. QED
    BY <1>4, <2>3, <2>4
<1>7. PICK b \in valid : held = Suffix(s, rows, b)
  BY <1>1, <1>6
<1>8. b \in 2..Len(rows) /\ IsBoundary(s, rows, b) /\ SmallerClass(s, held) >= MIN_TEMPORAL_CLASS_SAMPLES
  BY <1>4, <1>7
<1>9. ASSUME NEW i \in DOMAIN s, i \notin held, NEW j \in held
      PROVE  s[i].at < s[j].at /\ s[i].request # s[j].request
  <2>1. PICK k \in b..Len(rows) : j \in Of(s, rows[k])
    BY <1>7 DEF Suffix
  <2>2. s[i].request \in Requests(s)
    BY DEF Requests
  <2>3. PICK l \in 1..Len(rows) : rows[l] = s[i].request
    BY <1>2, <2>2 DEF In
  <2>4. i \in Of(s, rows[l])
    BY <2>3 DEF Of
  <2>5. ~(l >= b)
    <3>1. \A m \in b..Len(rows) : i \notin Of(s, rows[m])
      BY <1>7, <1>9 DEF Suffix
    <3>. QED
      BY <1>2, <1>8, <2>4, <3>1
  <2>6. k \in 1..Len(rows) /\ l \in 1..b - 1 /\ b \in 1..Len(rows) /\ l < b /\ (b = k \/ b < k)
    BY <1>2, <1>8, <2>5
  <2>7. rows[k] \in Requests(s) /\ rows[l] \in Requests(s) /\ rows[b] \in Requests(s)
    BY <1>2, <2>6
  <2>8. Latest(s, rows[l]) < First(s, rows[b])
    BY <1>8, <2>6 DEF IsBoundary
  <2>9. First(s, rows[b]) <= First(s, rows[k])
    <3>1. First(s, rows[b]) \in Nat
      BY <2>7, TimesAre
    <3>. QED
      BY <1>2, <2>6, <3>1
  <2>10. First(s, rows[k]) <= s[j].at /\ First(s, rows[k]) \in Nat
    BY <2>1, <2>7, TimesAre
  <2>11. s[i].at <= Latest(s, rows[l]) /\ Latest(s, rows[l]) \in Nat
    BY <2>4, <2>7, TimesAre
  <2>12. First(s, rows[b]) \in Nat
    BY <2>7, TimesAre
  <2>13. i \in 1..Len(s) /\ j \in 1..Len(s) /\ s[j].request = rows[k]
    BY <1>3, <2>1 DEF Of
  <2>14. s[i].at \in Nat /\ s[j].at \in Nat
    BY <1>3, <2>13 DEF Exposed
  <2>15. s[i].at < s[j].at
    BY <2>8, <2>9, <2>10, <2>11, <2>12, <2>14
  <2>16. rows[l] # rows[k]
    <3>1. SUFFICES ASSUME rows[l] = rows[k] PROVE FALSE
      OBVIOUS
    <3>2. i \in Of(s, rows[k])
      BY <2>4, <3>1
    <3>. QED
      BY <1>7, <1>9, <2>1, <3>2 DEF Suffix
  <2>. QED
    BY <2>3, <2>13, <2>15, <2>16
<1>. QED
  BY <1>8, <1>9 DEF held

LEMMA TrainerBegins == TrainerInit => TrainerIInv
  BY DEF TrainerInit, TrainerIInv

LEMMA TrainerStep ==
  ASSUME TrainerIInv, [TrainerNext]_trainerVars
  PROVE  TrainerIInv'
<1>1. ASSUME NEW r \in 1..MaxRequests, NEW later \in BOOLEAN, NEW clicked \in BOOLEAN, Expose(r, later, clicked)
      PROVE  TrainerIInv'
  <2>. DEFINE now == IF exposures = <<>> THEN 0 ELSE Last(exposures).at
              sample == [request |-> r, clicked |-> clicked, at |-> IF later THEN now + 1 ELSE now]
  <2>1. exposures \in Seq(Exposed) /\ Len(exposures) \in Nat
        /\ \A i \in 1..Len(exposures) : exposures[i] \in Exposed /\ exposures[i].at <= Len(exposures)
    BY DEF TrainerIInv
  <2>2. now \in Nat /\ now <= Len(exposures)
    <3>1. CASE exposures = <<>>
      BY <2>1, <3>1
    <3>2. CASE exposures # <<>>
      <4>1. Len(exposures) \in 1..Len(exposures) /\ Last(exposures) = exposures[Len(exposures)]
        BY <2>1, <3>2 DEF Last
      <4>. QED
        BY <2>1, <3>2, <4>1 DEF Exposed
    <3>. QED
      BY <3>1, <3>2
  <2>3. exposures' = Append(exposures, sample)
    BY <1>1 DEF Expose
  <2>. HIDE DEF now
  <2>4. sample \in Exposed /\ sample.at <= Len(exposures) + 1
    BY <2>1, <2>2 DEF Exposed
  <2>. HIDE DEF sample
  <2>5. /\ exposures' \in Seq(Exposed) /\ Len(exposures') = Len(exposures) + 1
        /\ \A i \in 1..Len(exposures') : exposures'[i] = IF i <= Len(exposures) THEN exposures[i] ELSE sample
    BY <2>1, <2>3, <2>4, AppendProperties
  <2>6. ASSUME NEW i \in 1..Len(exposures') PROVE exposures'[i].at <= Len(exposures')
    <3>1. CASE i <= Len(exposures)
      <4>1. exposures[i].at <= Len(exposures) /\ exposures[i] \in Exposed /\ exposures'[i] = exposures[i]
        BY <2>1, <2>5, <3>1
      <4>2. exposures[i].at \in Nat
        BY <4>1 DEF Exposed
      <4>. QED
        BY <2>1, <2>5, <4>1, <4>2
    <3>2. CASE ~(i <= Len(exposures))
      BY <2>4, <2>5, <3>2
    <3>. QED
      BY <3>1, <3>2
  <2>. QED
    BY <2>5, <2>6 DEF TrainerIInv
<1>2. ASSUME NEW run \in TrainingRuns, TrainModel(run)
      PROVE  TrainerIInv'
  <2>1. exposures' = exposures
    BY <1>2 DEF TrainModel
  <2>. QED
    BY <2>1 DEF TrainerIInv
<1>3. CASE UNCHANGED trainerVars
  BY <1>3 DEF trainerVars, TrainerIInv
<1>. QED
  BY <1>1, <1>2, <1>3 DEF TrainerNext

\* A model is never tested on the past of what it was trained on: whatever was exposed
\* and however requests overlap, a split that is found has every sample it trains on
\* before every sample it holds out and each request on one side, so that the check of
\* the overlap the code ends with never fires (train.py:346-410).
THEOREM HoldoutsFollow == TrainerSpec => []HoldoutFollowsTraining
<1>1. TrainerIInv => HoldoutFollowsTraining
  <2>. SUFFICES ASSUME TrainerIInv, TemporalHoldout(exposures) # {}
                PROVE  LET held == TemporalHoldout(exposures) IN
                       /\ \A i \in DOMAIN exposures \ held, j \in held :
                            exposures[i].at < exposures[j].at /\ exposures[i].request # exposures[j].request
                       /\ SmallerClass(exposures, held) >= MIN_TEMPORAL_CLASS_SAMPLES
    BY DEF HoldoutFollowsTraining
  <2>1. exposures \in Seq(Exposed) /\ Len(exposures) \in Nat /\ \A i \in 1..Len(exposures) : exposures[i].at <= Len(exposures)
    BY DEF TrainerIInv
  <2>. QED
    BY <2>1, SplitFollows
<1>2. TrainerSpec => []TrainerIInv
  BY TrainerBegins, TrainerStep, PTL DEF TrainerSpec
<1>. QED
  BY <1>1, <1>2, PTL

-----------------------------------------------------------------------------
(* The pipeline: first its arithmetic.  The k-th value in order is the     *)
(* least that k values do not exceed, so it grows with k, and interpolation *)
(* between neighbours grows with the weight of the greater.                *)

LEMMA Between ==
  ASSUME NEW a \in Nat, NEW b \in Nat, NEW w \in 0..100, a <= b
  PROVE  /\ Interpolated(a, b, w) \in Nat
         /\ 100 * a <= Interpolated(a, b, w) /\ Interpolated(a, b, w) <= 100 * b
<1>1. PICK d \in Nat : b = a + d
  <2>1. b - a \in Nat /\ b = a + (b - a)
    OBVIOUS
  <2>. QED
    BY <2>1
<1>2. Interpolated(a, b, w) = 100 * a + d * w
  BY <1>1 DEF Interpolated
<1>3. d * w \in Nat /\ d * w <= 100 * d
  OBVIOUS
<1>. QED
  BY <1>1, <1>2, <1>3

LEMMA Further ==
  ASSUME NEW a \in Nat, NEW b \in Nat, NEW v \in 0..100, NEW w \in 0..100, a <= b, v <= w
  PROVE  Interpolated(a, b, v) <= Interpolated(a, b, w)
<1>1. PICK d \in Nat : b = a + d
  <2>1. b - a \in Nat /\ b = a + (b - a)
    OBVIOUS
  <2>. QED
    BY <2>1
<1>2. Interpolated(a, b, v) = 100 * a + d * v /\ Interpolated(a, b, w) = 100 * a + d * w
  BY <1>1 DEF Interpolated
<1>3. PICK x \in Nat, y \in Nat : x = d * v /\ y = d * w /\ x <= y
  <2>1. d * v \in Nat /\ d * w \in Nat /\ d * v <= d * w
    OBVIOUS
  <2>. QED
    BY <2>1
<1>4. PICK e \in Nat : e = 100 * a
  OBVIOUS
<1>5. Interpolated(a, b, v) = e + x /\ Interpolated(a, b, w) = e + y
  BY <1>2, <1>3, <1>4
<1>6. e + x <= e + y
  BY <1>3
<1>. QED
  BY <1>5, <1>6

LEMMA KthIs ==
  ASSUME NEW B \in Nat, NEW values \in Seq(0..B), NEW k \in 1..Len(values)
  PROVE  /\ Kth(values, k) \in 0..B
         /\ \A l \in 1..Len(values) : k <= l => Kth(values, k) <= Kth(values, l)
<1>. DEFINE T(l) == {v \in Range(values) : Cardinality(AtMost(values, v)) >= l}
<1>1. /\ Len(values) \in Nat /\ DOMAIN values = 1..Len(values)
      /\ \A i \in 1..Len(values) : values[i] \in 0..B
  OBVIOUS
<1>2. Range(values) \in SUBSET (0..B) /\ values[k] \in Range(values)
  BY <1>1 DEF Range
<1>3. PICK top \in Range(values) : \A v \in Range(values) : v <= top
  BY <1>2, LastOf
<1>4. Cardinality(AtMost(values, top)) = Len(values)
  <2>1. \A i \in 1..Len(values) : values[i] <= top
    BY <1>1, <1>3 DEF Range
  <2>2. AtMost(values, top) = 1..Len(values)
    BY <2>1 DEF AtMost
  <2>. QED
    <3>1. PICK n \in Nat : n = Len(values)
      BY <1>1
    <3>2. 1 \in Int /\ n \in Int
      OBVIOUS
    <3>3. Cardinality(1..n) = n
      BY <3>2, FS_Interval
    <3>. QED
      BY <2>2, <3>1, <3>3
<1>5. ASSUME NEW l \in 1..Len(values)
      PROVE  Kth(values, l) \in T(l) /\ \A v \in T(l) : Kth(values, l) <= v
  <2>1. top \in T(l) /\ T(l) \in SUBSET Nat
    BY <1>1, <1>2, <1>4
  <2>2. Kth(values, l) = Min(T(l))
    BY DEF Kth
  <2>. DEFINE S == T(l)
  <2>3. top \in S /\ S \in SUBSET Nat /\ Kth(values, l) = Min(S)
    BY <2>1, <2>2
  <2>. HIDE DEF S
  <2>4. \E m \in S : \A v \in S : m <= v
    BY <2>3, Least
  <2>5. Min(S) = CHOOSE x \in S : \A y \in S : x <= y
    BY DEF Min
  <2>6. Kth(values, l) \in S /\ \A v \in S : Kth(values, l) <= v
    BY <2>3, <2>4, <2>5
  <2>. QED
    BY <2>6 DEF S
<1>6. ASSUME NEW l \in 1..Len(values), k <= l
      PROVE  Kth(values, k) <= Kth(values, l)
  <2>1. Kth(values, l) \in Range(values) /\ Cardinality(AtMost(values, Kth(values, l))) >= l
    BY <1>5
  <2>2. Cardinality(AtMost(values, Kth(values, l))) \in Nat
    <3>1. AtMost(values, Kth(values, l)) \in SUBSET (1..Len(values))
      BY DEF AtMost
    <3>2. IsFiniteSet(1..Len(values))
      BY <1>1, FS_Interval
    <3>. QED
      BY <3>1, <3>2, FS_Subset, FS_CardinalityType
  <2>3. Cardinality(AtMost(values, Kth(values, l))) >= k
    BY <1>1, <1>6, <2>1, <2>2
  <2>. QED
    BY <1>5, <2>1, <2>3
<1>. QED
  BY <1>2, <1>5, <1>6

\* What a percentile is made of: two neighbours in order and a weight.
Interpolates(values, percent, l, w) ==
    /\ l \in 0..(Len(values) - 1) /\ w \in 0..99 /\ 100 * l + w = (Len(values) - 1) * percent
    /\ IF w = 0 THEN percentile(values, percent) = 100 * Kth(values, l + 1)
       ELSE /\ l + 2 \in 1..Len(values)
            /\ percentile(values, percent) = Interpolated(Kth(values, l + 1), Kth(values, l + 2), w)
LEMMA PercentileMade ==
  ASSUME NEW B \in Nat, NEW values \in Seq(0..B), values # <<>>, NEW percent \in 0..100
  PROVE  \E l, w \in Nat : Interpolates(values, percent, l, w)
<1>1. PICK n \in Nat : n = Len(values) - 1
  <2>1. Len(values) \in Nat /\ Len(values) # 0
    BY EmptySeq
  <2>. QED
    BY <2>1
<1>2. PICK pos \in Nat : pos = n * percent /\ pos <= 100 * n
  <2>1. n * percent \in Nat /\ n * percent <= 100 * n
    OBVIOUS
  <2>. QED
    BY <2>1
<1>3. PICK l \in Nat : l = pos \div 100 /\ 100 * l <= pos /\ pos - 100 * l < 100
  <2>1. pos \div 100 \in Nat /\ 100 * (pos \div 100) <= pos /\ pos - 100 * (pos \div 100) < 100
    BY Z3
  <2>. QED
    BY <2>1
<1>4. PICK w \in 0..99 : w = pos - 100 * l
  <2>1. pos - 100 * l \in 0..99
    BY <1>3
  <2>. QED
    BY <2>1
<1>5. 100 * l + w = pos /\ l <= n /\ (w # 0 => l < n)
  BY <1>2, <1>3, <1>4
<1>6. percentile(values, percent) =
         IF w = 0 THEN 100 * Kth(values, l + 1) ELSE Interpolated(Kth(values, l + 1), Kth(values, l + 2), w)
  <2>1. (Len(values) - 1) * percent = pos
    BY <1>1, <1>2
  <2>. QED
    BY <1>3, <1>4, <2>1 DEF percentile
<1>7. Len(values) = n + 1
  BY <1>1
<1>8. l \in 0..(Len(values) - 1) /\ (w # 0 => l + 2 \in 1..Len(values))
  BY <1>5, <1>7
<1>9. Interpolates(values, percent, l, w)
  BY <1>1, <1>2, <1>5, <1>6, <1>8 DEF Interpolates
<1>. QED
  BY <1>9

\* Percentiles are ordered, and none exceeds the greatest value.
LEMMA PercentilesOrdered ==
  ASSUME NEW B \in Nat, NEW values \in Seq(0..B), NEW p \in 0..100, NEW q \in 0..100, p <= q
  PROVE  /\ percentile(values, p) \in Nat /\ percentile(values, q) \in Nat
         /\ percentile(values, p) <= percentile(values, q) /\ percentile(values, q) <= 100 * B
<1>1. CASE values = <<>>
  <2>1. percentile(values, p) = 0 /\ percentile(values, q) = 0
    BY <1>1 DEF percentile
  <2>. QED
    BY <2>1
<1>2. CASE values # <<>>
  <2>1. PICK n \in Nat : n = Len(values) - 1 /\ Len(values) = n + 1
    <3>1. Len(values) \in Nat /\ Len(values) # 0
      BY <1>2, EmptySeq
    <3>. QED
      BY <3>1
  <2>2. PICK i \in 0..n, v \in 0..99 :
            /\ 100 * i + v = n * p
            /\ IF v = 0 THEN percentile(values, p) = 100 * Kth(values, i + 1)
               ELSE /\ i + 2 \in 1..(n + 1)
                    /\ percentile(values, p) = Interpolated(Kth(values, i + 1), Kth(values, i + 2), v)
    <3>1. PICK k, u \in Nat : Interpolates(values, p, k, u)
      BY <1>2, PercentileMade
    <3>. QED
      BY <2>1, <3>1 DEF Interpolates
  <2>3. PICK j \in 0..n, w \in 0..99 :
            /\ 100 * j + w = n * q
            /\ IF w = 0 THEN percentile(values, q) = 100 * Kth(values, j + 1)
               ELSE /\ j + 2 \in 1..(n + 1)
                    /\ percentile(values, q) = Interpolated(Kth(values, j + 1), Kth(values, j + 2), w)
    <3>1. PICK k, u \in Nat : Interpolates(values, q, k, u)
      BY <1>2, PercentileMade
    <3>. QED
      BY <2>1, <3>1 DEF Interpolates
  <2>4. \A k \in 1..(n + 1) : Kth(values, k) \in 0..B /\ \A l \in 1..(n + 1) : k <= l => Kth(values, k) <= Kth(values, l)
    BY <2>1, KthIs
  <2>5. PICK a \in 0..B, b \in 0..B :
            /\ a = Kth(values, i + 1) /\ b = (IF v = 0 THEN a ELSE Kth(values, i + 2)) /\ a <= b
            /\ percentile(values, p) = Interpolated(a, b, v)
    <3>1. i + 1 \in 1..(n + 1) /\ Kth(values, i + 1) \in 0..B
      BY <2>4
    <3>2. CASE v = 0
      <4>1. percentile(values, p) = Interpolated(Kth(values, i + 1), Kth(values, i + 1), v)
        BY <2>2, <3>1, <3>2 DEF Interpolated
      <4>. QED
        BY <3>1, <3>2, <4>1
    <3>3. CASE v # 0
      <4>1. i + 2 \in 1..(n + 1) /\ Kth(values, i + 2) \in 0..B
        BY <2>2, <2>4, <3>3
      <4>2. Kth(values, i + 1) <= Kth(values, i + 2)
        BY <2>4, <3>1, <4>1
      <4>. QED
        BY <2>2, <3>1, <3>3, <4>1, <4>2
    <3>. QED
      BY <3>2, <3>3
  <2>6. PICK c \in 0..B, d \in 0..B :
            /\ c = Kth(values, j + 1) /\ d = (IF w = 0 THEN c ELSE Kth(values, j + 2)) /\ c <= d
            /\ percentile(values, q) = Interpolated(c, d, w)
    <3>1. j + 1 \in 1..(n + 1) /\ Kth(values, j + 1) \in 0..B
      BY <2>4
    <3>2. CASE w = 0
      <4>1. percentile(values, q) = Interpolated(Kth(values, j + 1), Kth(values, j + 1), w)
        BY <2>3, <3>1, <3>2 DEF Interpolated
      <4>. QED
        BY <3>1, <3>2, <4>1
    <3>3. CASE w # 0
      <4>1. j + 2 \in 1..(n + 1) /\ Kth(values, j + 2) \in 0..B
        BY <2>3, <2>4, <3>3
      <4>2. Kth(values, j + 1) <= Kth(values, j + 2)
        BY <2>4, <3>1, <4>1
      <4>. QED
        BY <2>3, <3>1, <3>3, <4>1, <4>2
    <3>. QED
      BY <3>2, <3>3
  <2>6a. a \in Nat /\ b \in Nat /\ c \in Nat /\ d \in Nat /\ v \in 0..100 /\ w \in 0..100
    OBVIOUS
  <2>7. /\ percentile(values, p) \in Nat /\ percentile(values, p) <= 100 * b
        /\ percentile(values, q) \in Nat /\ 100 * c <= percentile(values, q) /\ percentile(values, q) <= 100 * d
    <3>1. /\ Interpolated(a, b, v) \in Nat /\ Interpolated(a, b, v) <= 100 * b
      BY <2>5, <2>6a, Between
    <3>2. /\ Interpolated(c, d, w) \in Nat /\ 100 * c <= Interpolated(c, d, w) /\ Interpolated(c, d, w) <= 100 * d
      BY <2>6, <2>6a, Between
    <3>. QED
      BY <2>5, <2>6, <3>1, <3>2
  <2>8. 100 * i + v <= 100 * j + w
    <3>1. n * p <= n * q /\ n * p \in Nat /\ n * q \in Nat
      OBVIOUS
    <3>. QED
      BY <2>2, <2>3, <3>1
  <2>9. i < j \/ (i = j /\ v <= w)
    BY <2>8
  <2>10. CASE i < j
    <3>1. b <= c
      <4>1. i + 1 \in 1..(n + 1) /\ j + 1 \in 1..(n + 1) /\ i + 1 <= j + 1 /\ i + 2 <= j + 1
        BY <2>10
      <4>2. CASE v = 0
        BY <2>4, <2>5, <2>6, <4>1, <4>2
      <4>3. CASE v # 0
        <5>1. i + 2 \in 1..(n + 1)
          BY <2>2, <4>3
        <5>. QED
          BY <2>4, <2>5, <2>6, <4>1, <4>3, <5>1
      <4>. QED
        BY <4>2, <4>3
    <3>. QED
      BY <2>7, <3>1
  <2>11. CASE i = j /\ v <= w
    <3>1. a = c
      BY <2>5, <2>6, <2>11
    <3>2. CASE v = 0
      <4>1. Interpolated(a, b, v) = 100 * a
        BY <2>6a, <3>2 DEF Interpolated
      <4>2. percentile(values, p) = 100 * c
        BY <2>5, <3>1, <4>1
      <4>. QED
        BY <2>7, <4>2
    <3>3. CASE v # 0
      <4>1. w # 0
        BY <2>11, <3>3
      <4>2. b = Kth(values, i + 2) /\ d = Kth(values, j + 2)
        BY <2>5, <2>6, <3>3, <4>1
      <4>3. b = d
        BY <2>11, <4>2
      <4>4. Interpolated(a, b, v) <= Interpolated(a, b, w)
        BY <2>5, <2>6a, <2>11, Further
      <4>. QED
        <5>1. percentile(values, p) = Interpolated(a, b, v) /\ percentile(values, q) = Interpolated(c, d, w)
          BY <2>5, <2>6
        <5>2. Interpolated(c, d, w) = Interpolated(a, b, w)
          BY <3>1, <4>3
        <5>. QED
          BY <2>7, <4>4, <5>1, <5>2
    <3>. QED
      BY <3>2, <3>3
  <2>12. percentile(values, p) <= percentile(values, q)
    BY <2>9, <2>10, <2>11
  <2>13. percentile(values, q) <= 100 * B
    BY <2>7
  <2>. QED
    BY <2>7, <2>12, <2>13
<1>. QED
  BY <1>1, <1>2

-----------------------------------------------------------------------------
(* What the pipeline keeps.  A report's record of its fallback goes with   *)
(* the page's; the message an attempt works on stays at the head of the    *)
(* queue; an attempt launches a task only when none is wanted, and waits   *)
(* only for a task of that message; a task that stopped well has stored    *)
(* its sample, and a run is only ever overtaken by more samples.           *)

PaintModes == {"unknown", "hydrate", "csr"}
PaintOutcomes == {"not-observed", "csr-fallback", "hydrated", "csr"}
Measures == ({"LCP"} \X LcpValues) \cup ({"FPS", "HYDRATION"} \X {1})
Visited == [document : {"none", "csr-fallback", "shared", "ssr", "reported"}, mode : PaintModes,
           outcome : PaintOutcomes, faults : Nat, fallback : {0, 1}, live : BOOLEAN, recovered : BOOLEAN,
           measured : SUBSET Measures]
Envelope == [metrics : SUBSET Measures, mode : PaintModes, outcome : PaintOutcomes, faults : Nat, fallback : {0, 1},
             at : {"edge", "signed", "lost", "published", "refused"}, order : Nat]
TaskRow == [of : PageLoads, status : {"running", "stopped"}, exit : {0, 1}, overdue : BOOLEAN,
            stopping : BOOLEAN, stored : BOOLEAN]
Invocation == [at : {"idle", "reconcile", "launch", "wait"}, of : SUBSET PageLoads, task : SUBSET Tasks]

\* A report says it fell back exactly when it counts a fallback.
FallbackCounted(r) == r.outcome = "csr-fallback" <=> r.fallback = 1

PagesRight == pages \in [PageLoads -> Visited] /\ \A e \in PageLoads : FallbackCounted(pages[e])

EnvelopesRight ==
    /\ DOMAIN envelopes \in SUBSET PageLoads /\ envelopes \in [DOMAIN envelopes -> Envelope]
    /\ \A e \in DOMAIN envelopes :
          /\ FallbackCounted(envelopes[e])
          /\ \A v \in LcpValues : <<"LCP", v>> \in envelopes[e].metrics => v <= LcpBound
          /\ envelopes[e].order < Cardinality(DOMAIN envelopes)
    /\ \A a, b \in DOMAIN envelopes : envelopes[a].order = envelopes[b].order => a = b

IsWanted(row) == row.status = "running" /\ ~row.stopping
RowRight(row, reports, kept) ==
    /\ row.of \in reports /\ (row.stored => row.of \in kept)
    /\ row.status = "stopped" /\ row.exit = 0 => row.stored
OneWanted(rows) == \A t, u \in DOMAIN rows : IsWanted(rows[t]) /\ IsWanted(rows[u]) => t = u
RowsRight(rows) ==
    /\ DOMAIN rows \in SUBSET Tasks /\ rows \in [DOMAIN rows -> TaskRow]
    /\ \A t \in DOMAIN rows : RowRight(rows[t], DOMAIN envelopes, samples)
    /\ OneWanted(rows)
TasksRight == RowsRight(tasks)

DispatchRight ==
    /\ queue \in Seq(DOMAIN envelopes) /\ dispatcher \in Invocation
    /\ dispatcher.at = "idle" => dispatcher = NoInvocation
    /\ dispatcher.at # "idle" => queue # <<>>
    /\ dispatcher.at = "launch" => \A t \in DOMAIN tasks : ~IsWanted(tasks[t])
    /\ dispatcher.at = "wait" =>
          /\ \A t \in dispatcher.task : t \in DOMAIN tasks /\ tasks[t].of = Head(queue)
          /\ \A t \in DOMAIN tasks : IsWanted(tasks[t]) => t \in dispatcher.task

Accounted == accepted \subseteq Range(queue) \cup dead \cup samples

SummariesRight ==
    /\ samples \in SUBSET DOMAIN envelopes
    /\ \A s \in summaries :
          /\ s.of \in samples /\ s.count \in Nat /\ s.count <= Cardinality({e \in samples : Painted(e)})
          /\ s.p50 <= s.p75 /\ s.p75 <= s.p95 /\ s.p95 <= 100 * LcpBound

PipelineIInv == PagesRight /\ EnvelopesRight /\ TasksRight /\ DispatchRight /\ Accounted /\ SummariesRight

LEMMA PipelineBegins == PipelineInit => PipelineIInv
<1>. SUFFICES ASSUME PipelineInit PROVE PipelineIInv
  OBVIOUS
<1>1. PagesRight
  BY DEF PipelineInit, PagesRight, Visited, BlankPage, FallbackCounted, PaintModes, PaintOutcomes
<1>2. envelopes = <<>> /\ DOMAIN envelopes = {} /\ tasks = <<>> /\ DOMAIN tasks = {}
  BY DEF PipelineInit
<1>3. EnvelopesRight /\ TasksRight
  BY <1>2 DEF EnvelopesRight, TasksRight, RowsRight, OneWanted
<1>4. DispatchRight
  BY <1>2 DEF PipelineInit, DispatchRight, Invocation, NoInvocation
<1>5. Accounted /\ SummariesRight
  BY DEF PipelineInit, Accounted, SummariesRight
<1>. QED
  BY <1>1, <1>3, <1>4, <1>5 DEF PipelineIInv

\* What happens on a page happens to that page alone.
LEMMA PageMoves ==
  ASSUME PipelineIInv, NEW e \in PageLoads, NEW p \in Visited, FallbackCounted(p),
         pages' = [pages EXCEPT ![e] = p], OnlyPages
  PROVE  PipelineIInv'
<1>1. PagesRight'
  BY DEF PipelineIInv, PagesRight
<1>2. UNCHANGED <<envelopes, queue, accepted, receives, dead, dispatcher, tasks, samples, summaries>>
  BY DEF OnlyPages
<1>3. EnvelopesRight'
  BY <1>2 DEF PipelineIInv, EnvelopesRight
<1>4. TasksRight'
  BY <1>2 DEF PipelineIInv, TasksRight, RowsRight
<1>5. DispatchRight'
  BY <1>2 DEF PipelineIInv, DispatchRight
<1>6. Accounted'
  BY <1>2 DEF PipelineIInv, Accounted
<1>7. SummariesRight'
  BY <1>2 DEF PipelineIInv, SummariesRight, Painted
<1>. QED
  BY <1>1, <1>3, <1>4, <1>5, <1>6, <1>7 DEF PipelineIInv

LEMMA PageSteps ==
  ASSUME PipelineIInv, NEW e \in PageLoads,
         \/ \E rendered, known, cookie \in BOOLEAN : RenderDocument(e, rendered, known, cookie)
         \/ \E sameBuild, throws \in BOOLEAN : Boot(e, sameBuild, throws)
         \/ RecoverableError(e) \/ RecoverToCsr(e) \/ MarkInteractive(e)
         \/ \E v \in LcpValues : Observe(e, "LCP", v)
         \/ Observe(e, "FPS", 1)
  PROVE  PipelineIInv'
<1>. DEFINE load == pages[e]
<1>1. pages \in [PageLoads -> Visited] /\ load \in Visited /\ FallbackCounted(load)
  BY DEF PipelineIInv, PagesRight
<1>2. ASSUME NEW rendered \in BOOLEAN, NEW known \in BOOLEAN, NEW cookie \in BOOLEAN,
             RenderDocument(e, rendered, known, cookie)
      PROVE  PipelineIInv'
  <2>1. PICK d \in {"csr-fallback", "shared", "ssr"} : pages' = [pages EXCEPT ![e].document = d]
    BY <1>2 DEF RenderDocument
  <2>2. PICK p : p = [load EXCEPT !.document = d]
    OBVIOUS
  <2>3. pages' = [pages EXCEPT ![e] = p]
    BY <2>1, <2>2
  <2>4. p \in Visited /\ FallbackCounted(p)
    BY <1>1, <2>2 DEF Visited, FallbackCounted
  <2>. QED
    BY <1>2, <2>3, <2>4, PageMoves DEF RenderDocument
<1>3. ASSUME NEW sameBuild \in BOOLEAN, NEW throws \in BOOLEAN, Boot(e, sameBuild, throws)
      PROVE  PipelineIInv'
  <2>1. PICK m \in {"hydrate", "csr"} :
            pages' = [pages EXCEPT ![e] =
              IF throws THEN [FellBack([load EXCEPT !.mode = m]) EXCEPT !.recovered = TRUE]
              ELSE IF load.document = "csr-fallback" THEN FellBack([load EXCEPT !.mode = m])
              ELSE [load EXCEPT !.mode = m]]
    BY <1>3 DEF Boot
  <2>2. PICK p : p = IF throws THEN [FellBack([load EXCEPT !.mode = m]) EXCEPT !.recovered = TRUE]
                     ELSE IF load.document = "csr-fallback" THEN FellBack([load EXCEPT !.mode = m])
                     ELSE [load EXCEPT !.mode = m]
    OBVIOUS
  <2>3. pages' = [pages EXCEPT ![e] = p]
    BY <2>1, <2>2
  <2>4. [load EXCEPT !.mode = m] \in Visited /\ FallbackCounted([load EXCEPT !.mode = m])
    BY <1>1 DEF Visited, FallbackCounted, PaintModes
  <2>5. p \in Visited /\ FallbackCounted(p)
    BY <2>2, <2>4 DEF Visited, FallbackCounted, FellBack, PaintOutcomes
  <2>. QED
    BY <1>3, <2>3, <2>5, PageMoves DEF Boot
<1>4. CASE RecoverableError(e)
  <2>1. PICK p : p = [load EXCEPT !.faults = @ + 1]
    OBVIOUS
  <2>2. pages' = [pages EXCEPT ![e] = p]
    BY <1>4, <2>1 DEF RecoverableError
  <2>3. p \in Visited /\ FallbackCounted(p)
    BY <1>1, <2>1 DEF Visited, FallbackCounted
  <2>. QED
    BY <1>4, <2>2, <2>3, PageMoves DEF RecoverableError
<1>5. CASE RecoverToCsr(e)
  <2>1. PICK p : p = [FellBack(load) EXCEPT !.recovered = TRUE]
    OBVIOUS
  <2>2. pages' = [pages EXCEPT ![e] = p]
    BY <1>5, <2>1 DEF RecoverToCsr
  <2>3. p \in Visited /\ FallbackCounted(p)
    BY <1>1, <2>1 DEF Visited, FallbackCounted, FellBack, PaintOutcomes
  <2>. QED
    BY <1>5, <2>2, <2>3, PageMoves DEF RecoverToCsr
<1>6. CASE MarkInteractive(e)
  <2>. DEFINE now == {m \in load.measured : m[1] # "HYDRATION"} \cup {<<"HYDRATION", 1>>}
  <2>1. PICK p : p = [load EXCEPT !.live = TRUE, !.outcome = OutcomeOf(load), !.measured = now]
    OBVIOUS
  <2>2. pages' = [pages EXCEPT ![e] = p]
    BY <1>1, <1>6, <2>1 DEF MarkInteractive
  <2>3. OutcomeOf(load) \in PaintOutcomes /\ (OutcomeOf(load) = "csr-fallback" <=> load.fallback = 1)
    BY <1>1 DEF Visited, OutcomeOf, OutcomeOfMode, PaintOutcomes
  <2>4. now \in SUBSET Measures
    <3>1. load.measured \in SUBSET Measures
      BY <1>1 DEF Visited
    <3>2. <<"HYDRATION", 1>> \in Measures
      BY DEF Measures
    <3>. QED
      BY <3>1, <3>2
  <2>. HIDE DEF now
  <2>5. p \in Visited /\ FallbackCounted(p)
    BY <1>1, <2>1, <2>3, <2>4 DEF Visited, FallbackCounted
  <2>. QED
    BY <1>6, <2>2, <2>5, PageMoves DEF MarkInteractive
<1>7. ASSUME NEW metric, NEW v, <<metric, v>> \in Measures, Observe(e, metric, v)
      PROVE  PipelineIInv'
  <2>. DEFINE now == {m \in load.measured : m[1] # metric} \cup {<<metric, v>>}
  <2>1. PICK p : p = [load EXCEPT !.measured = now]
    OBVIOUS
  <2>2. pages' = [pages EXCEPT ![e] = p]
    BY <1>1, <1>7, <2>1 DEF Observe
  <2>3. now \in SUBSET Measures
    <3>1. load.measured \in SUBSET Measures
      BY <1>1 DEF Visited
    <3>. QED
      BY <1>7, <3>1
  <2>. HIDE DEF now
  <2>4. p \in Visited /\ FallbackCounted(p)
    BY <1>1, <2>1, <2>3 DEF Visited, FallbackCounted
  <2>. QED
    BY <1>7, <2>2, <2>4, PageMoves DEF Observe
<1>8. <<"FPS", 1>> \in Measures /\ \A v \in LcpValues : <<"LCP", v>> \in Measures
  BY DEF Measures
<1>. QED
  BY <1>2, <1>3, <1>4, <1>5, <1>6, <1>7, <1>8

\* There are as many reports as have been flushed, and no two at one place.
LEMMA FlushKeeps ==
  ASSUME PipelineIInv, NEW e \in PageLoads, Flush(e)
  PROVE  PipelineIInv'
<1>. DEFINE D == DOMAIN envelopes
            load == pages[e]
            kept == {m \in load.measured : m[1] = "LCP" => m[2] <= LcpBound}
            r == [metrics |-> kept, mode |-> load.mode, outcome |-> load.outcome, faults |-> load.faults,
                  fallback |-> load.fallback, at |-> "edge", order |-> Cardinality(D)]
<1>1. pages \in [PageLoads -> Visited] /\ load \in Visited /\ FallbackCounted(load)
  BY DEF PipelineIInv, PagesRight
<1>2. D \in SUBSET PageLoads /\ envelopes \in [D -> Envelope] /\ e \notin D
  BY DEF PipelineIInv, EnvelopesRight, Flush
<1>3. IsFiniteSet(D) /\ Cardinality(D) \in Nat /\ Cardinality(D \cup {e}) = Cardinality(D) + 1
  <2>1. IsFiniteSet(D)
    BY <1>2, PipelineConstants, FS_Subset
  <2>. QED
    BY <1>2, <2>1, FS_CardinalityType, FS_AddElement
<1>4. envelopes' = Put(envelopes, e, r)
  BY DEF Flush
<1>5. r \in Envelope /\ FallbackCounted(r) /\ r.order = Cardinality(D)
      /\ \A v \in LcpValues : <<"LCP", v>> \in r.metrics => v <= LcpBound
  <2>1. kept \in SUBSET Measures
    BY <1>1 DEF Visited
  <2>2. \A v \in LcpValues : <<"LCP", v>> \in kept => v <= LcpBound
    OBVIOUS
  <2>. HIDE DEF kept, load
  <2>. QED
    BY <1>1, <1>3, <2>1, <2>2 DEF Envelope, Visited, FallbackCounted
<1>. HIDE DEF r
<1>6. /\ DOMAIN envelopes' = D \cup {e} /\ envelopes'[e] = r
      /\ \A x \in D : envelopes'[x] = envelopes[x]
      /\ envelopes' \in [D \cup {e} -> Envelope]
  BY <1>2, <1>4, <1>5 DEF Put
<1>7. EnvelopesRight'
  <2>1. \A x \in D : /\ FallbackCounted(envelopes[x]) /\ envelopes[x].order < Cardinality(D) /\ envelopes[x].order \in Nat
                      /\ \A v \in LcpValues : <<"LCP", v>> \in envelopes[x].metrics => v <= LcpBound
    BY <1>2 DEF PipelineIInv, EnvelopesRight, Envelope
  <2>2. \A a, b \in D : envelopes[a].order = envelopes[b].order => a = b
    BY DEF PipelineIInv, EnvelopesRight
  <2>. HIDE DEF D
  <2>3. ASSUME NEW x \in D \cup {e}
        PROVE  /\ FallbackCounted(envelopes'[x]) /\ envelopes'[x].order < Cardinality(D \cup {e})
               /\ \A v \in LcpValues : <<"LCP", v>> \in envelopes'[x].metrics => v <= LcpBound
    <3>1. CASE x = e
      BY <1>3, <1>5, <1>6, <3>1
    <3>2. CASE x # e
      BY <1>3, <1>6, <2>1, <3>2
    <3>. QED
      BY <3>1, <3>2
  <2>4. ASSUME NEW a \in D \cup {e}, NEW b \in D \cup {e}, envelopes'[a].order = envelopes'[b].order
        PROVE  a = b
    <3>1. \A x \in D : envelopes'[x].order # envelopes'[e].order
      BY <1>3, <1>5, <1>6, <2>1
    <3>. QED
      BY <1>6, <2>2, <2>4, <3>1
  <2>5. DOMAIN envelopes' \in SUBSET PageLoads /\ envelopes' \in [DOMAIN envelopes' -> Envelope]
    BY <1>2, <1>6
  <2>. QED
    BY <1>6, <2>3, <2>4, <2>5 DEF EnvelopesRight
<1>8. PagesRight'
  <2>1. PICK p : p = [BlankPage EXCEPT !.document = "reported", !.live = TRUE, !.recovered = TRUE]
    OBVIOUS
  <2>2. pages' = [pages EXCEPT ![e] = p]
    BY <2>1 DEF Flush
  <2>3. p = [document |-> "reported", mode |-> "unknown", outcome |-> "not-observed", faults |-> 0,
             fallback |-> 0, live |-> TRUE, recovered |-> TRUE, measured |-> {}]
    BY <2>1 DEF BlankPage
  <2>4. p \in Visited
    BY <2>3 DEF Visited, PaintModes, PaintOutcomes
  <2>5. FallbackCounted(p)
    BY <2>3 DEF FallbackCounted
  <2>. QED
    BY <1>1, <2>2, <2>4, <2>5 DEF PipelineIInv, PagesRight
<1>9. UNCHANGED <<queue, accepted, receives, dead, dispatcher, tasks, samples, summaries>>
  BY DEF Flush
<1>10. TasksRight'
  BY <1>6, <1>9 DEF PipelineIInv, TasksRight, RowsRight, RowRight
<1>11. DispatchRight'
  <2>1. queue \in Seq(DOMAIN envelopes')
    <3>1. queue \in Seq(D) /\ D \subseteq D \cup {e}
      BY DEF PipelineIInv, DispatchRight
    <3>. HIDE DEF D
    <3>. QED
      BY <1>6, <3>1
  <2>. QED
    BY <1>9, <2>1 DEF PipelineIInv, DispatchRight
<1>12. Accounted'
  BY <1>9 DEF PipelineIInv, Accounted
<1>13. SummariesRight'
  <2>1. samples \in SUBSET D
    BY DEF PipelineIInv, SummariesRight
  <2>2. {x \in samples : Painted(x)'} = {x \in samples : Painted(x)}
    BY <1>6, <2>1 DEF Painted
  <2>. QED
    BY <1>6, <1>9, <2>1, <2>2 DEF PipelineIInv, SummariesRight
<1>. QED
  BY <1>7, <1>8, <1>10, <1>11, <1>12, <1>13 DEF PipelineIInv

\* A signature, a loss, a refusal: only where the report has got to.
LEMMA ReportMoves ==
  ASSUME PipelineIInv, NEW e \in DOMAIN envelopes, NEW to \in {"signed", "lost", "published", "refused"},
         Moves(e, to)
  PROVE  EnvelopesRight' /\ DOMAIN envelopes' = DOMAIN envelopes /\ \A x \in DOMAIN envelopes : Painted(x)' <=> Painted(x)
<1>. DEFINE D == DOMAIN envelopes
<1>1. PICK r : r = [envelopes[e] EXCEPT !.at = to]
  OBVIOUS
<1>2. D \in SUBSET PageLoads /\ envelopes \in [D -> Envelope]
  BY DEF PipelineIInv, EnvelopesRight
<1>3. envelopes' = [envelopes EXCEPT ![e] = r] /\ envelopes[e] \in Envelope
  BY <1>1, <1>2 DEF Moves
<1>4. /\ r \in Envelope /\ r.metrics = envelopes[e].metrics /\ r.order = envelopes[e].order
      /\ r.outcome = envelopes[e].outcome /\ r.fallback = envelopes[e].fallback
  BY <1>1, <1>3 DEF Envelope
<1>5. DOMAIN envelopes' = D /\ envelopes' \in [D -> Envelope]
  BY <1>2, <1>3, <1>4
<1>6. \A x \in D : /\ envelopes'[x].metrics = envelopes[x].metrics /\ envelopes'[x].order = envelopes[x].order
                    /\ envelopes'[x].outcome = envelopes[x].outcome /\ envelopes'[x].fallback = envelopes[x].fallback
  BY <1>2, <1>3, <1>4
<1>7. \A x \in D : (FallbackCounted(envelopes'[x]) <=> FallbackCounted(envelopes[x])) /\ (Painted(x)' <=> Painted(x))
  BY <1>6 DEF FallbackCounted, Painted
<1>8. \A x \in D : /\ FallbackCounted(envelopes[x]) /\ envelopes[x].order < Cardinality(D)
                    /\ \A v \in LcpValues : <<"LCP", v>> \in envelopes[x].metrics => v <= LcpBound
  BY DEF PipelineIInv, EnvelopesRight
<1>9. \A a, b \in D : envelopes[a].order = envelopes[b].order => a = b
  BY DEF PipelineIInv, EnvelopesRight
<1>. HIDE DEF D
<1>10. EnvelopesRight'
  <2>1. \A x \in D : /\ FallbackCounted(envelopes'[x]) /\ envelopes'[x].order < Cardinality(D)
                      /\ \A v \in LcpValues : <<"LCP", v>> \in envelopes'[x].metrics => v <= LcpBound
    BY <1>6, <1>7, <1>8
  <2>2. \A a, b \in D : envelopes'[a].order = envelopes'[b].order => a = b
    BY <1>6, <1>9
  <2>. QED
    BY <1>2, <1>5, <2>1, <2>2 DEF EnvelopesRight
<1>. QED
  BY <1>5, <1>7, <1>10 DEF D

LEMMA ReportSteps ==
  ASSUME PipelineIInv, NEW e \in PageLoads,
         SignReport(e) \/ \E late, published \in BOOLEAN : Ingest(e, late, published)
  PROVE  PipelineIInv'
<1>1. PICK to \in {"signed", "lost", "published", "refused"} :
         /\ e \in DOMAIN envelopes /\ Moves(e, to)
         /\ \/ accepted' = accepted \cup {e} /\ queue' = Append(queue, e)
            \/ UNCHANGED <<queue, accepted>>
  BY DEF SignReport, Ingest
<1>2. UNCHANGED <<pages, receives, dead, dispatcher, tasks, samples, summaries>>
  BY DEF SignReport, Ingest, OnlyIngest
<1>3. EnvelopesRight' /\ DOMAIN envelopes' = DOMAIN envelopes /\ \A x \in DOMAIN envelopes : Painted(x)' <=> Painted(x)
  BY <1>1, ReportMoves
<1>4. PagesRight'
  BY <1>2 DEF PipelineIInv, PagesRight
<1>5. TasksRight'
  BY <1>2, <1>3 DEF PipelineIInv, TasksRight, RowsRight
<1>6. /\ queue' \in Seq(DOMAIN envelopes) /\ Range(queue) \subseteq Range(queue') /\ accepted' \subseteq accepted \cup Range(queue')
      /\ (queue # <<>> => queue' # <<>> /\ Head(queue') = Head(queue))
  <2>1. queue \in Seq(DOMAIN envelopes)
    BY DEF PipelineIInv, DispatchRight
  <2>. DEFINE D == DOMAIN envelopes
              q == queue
  <2>2. q \in Seq(D) /\ e \in D
    BY <1>1, <2>1
  <2>. HIDE DEF D, q
  <2>3. /\ Append(q, e) \in Seq(D) /\ Append(q, e) # <<>>
        /\ Len(Append(q, e)) = Len(q) + 1 /\ Append(q, e)[Len(q) + 1] = e
        /\ \A i \in 1..Len(q) : Append(q, e)[i] = q[i]
    BY <2>2, AppendProperties
  <2>4. Len(q) \in Nat /\ DOMAIN q = 1..Len(q) /\ DOMAIN Append(q, e) = 1..(Len(q) + 1)
    BY <2>2, <2>3
  <2>5. Range(q) \subseteq Range(Append(q, e)) /\ e \in Range(Append(q, e))
    BY <2>3, <2>4 DEF Range
  <2>6. q # <<>> => Head(Append(q, e)) = Head(q)
    <3>1. q # <<>> => Len(q) > 0
      BY <2>2, EmptySeq
    <3>2. q # <<>> => Append(q, e)[1] = q[1]
      BY <2>3, <2>4, <3>1
    <3>. QED
      BY <2>2, <2>3, <3>2, HeadTailProperties
  <2>7. CASE accepted' = accepted \cup {e} /\ queue' = Append(queue, e)
    BY <2>3, <2>5, <2>6, <2>7 DEF q, D
  <2>8. CASE UNCHANGED <<queue, accepted>>
    BY <2>1, <2>8
  <2>. QED
    BY <1>1, <2>7, <2>8
<1>7. DispatchRight'
  BY <1>2, <1>3, <1>6 DEF PipelineIInv, DispatchRight
<1>8. Accounted'
  BY <1>2, <1>6 DEF PipelineIInv, Accounted
<1>9. SummariesRight'
  <2>1. samples \in SUBSET DOMAIN envelopes
    BY DEF PipelineIInv, SummariesRight
  <2>2. {x \in samples : Painted(x)'} = {x \in samples : Painted(x)}
    BY <1>3, <2>1
  <2>. QED
    BY <1>2, <1>3, <2>1, <2>2 DEF PipelineIInv, SummariesRight
<1>. QED
  BY <1>3, <1>4, <1>5, <1>7, <1>8, <1>9 DEF PipelineIInv

\* The head of a queue is all that its tail leaves out.
LEMMA HeadAndTail ==
  ASSUME NEW S, NEW q \in Seq(S), q # <<>>
  PROVE  Head(q) \in S /\ Tail(q) \in Seq(S) /\ Range(q) \subseteq Range(Tail(q)) \cup {Head(q)}
<1>1. /\ Head(q) \in S /\ Head(q) = q[1] /\ Tail(q) \in Seq(S) /\ Len(Tail(q)) = Len(q) - 1
      /\ \A i \in 1..Len(Tail(q)) : Tail(q)[i] = q[i + 1]
  BY HeadTailProperties
<1>2. Len(q) \in Nat /\ DOMAIN q = 1..Len(q) /\ Len(Tail(q)) \in Nat /\ DOMAIN Tail(q) = 1..Len(Tail(q))
  BY <1>1
<1>3. ASSUME NEW i \in 1..Len(q), i # 1 PROVE q[i] \in Range(Tail(q))
  <2>1. i - 1 \in 1..Len(Tail(q)) /\ (i - 1) + 1 = i
    BY <1>1, <1>2, <1>3
  <2>2. Tail(q)[i - 1] = q[i]
    BY <1>1, <2>1
  <2>. QED
    BY <1>2, <2>1, <2>2 DEF Range
<1>. QED
  BY <1>1, <1>2, <1>3 DEF Range

\* However an attempt ends, its message is seen again or dead-lettered.
LEMMA AttemptEnds ==
  ASSUME PipelineIInv, NEW records, RowsRight(records), dispatcher.at # "idle", Fails(records), DispatchOnly
  PROVE  PipelineIInv'
<1>1. UNCHANGED <<pages, envelopes, accepted, samples, summaries>> /\ dispatcher' = NoInvocation
  BY DEF DispatchOnly, Fails
<1>2. /\ queue \in Seq(DOMAIN envelopes) /\ queue # <<>>
      /\ Tail(queue) \in Seq(DOMAIN envelopes) /\ Range(queue) \subseteq Range(Tail(queue)) \cup {Head(queue)}
  <2>1. queue \in Seq(DOMAIN envelopes) /\ queue # <<>>
    BY DEF PipelineIInv, DispatchRight
  <2>. QED
    BY <2>1, HeadAndTail
<1>3. /\ queue' \in Seq(DOMAIN envelopes)
      /\ accepted \subseteq Range(queue') \cup dead' \cup samples
  <2>1. accepted \subseteq Range(queue) \cup dead \cup samples
    BY DEF PipelineIInv, Accounted
  <2>. QED
    BY <1>2, <2>1 DEF Fails
<1>4. RowsRight(tasks')
  <2>1. CASE tasks' = records
    BY <2>1
  <2>2. CASE tasks' = [t \in DOMAIN records |-> [records[t] EXCEPT !.overdue = TRUE]]
    <3>1. DOMAIN tasks' = DOMAIN records
      BY <2>2
    <3>2. \A t \in DOMAIN records : records[t] \in TaskRow
      BY DEF RowsRight
    <3>3. \A t \in DOMAIN records :
             /\ tasks'[t] \in TaskRow /\ tasks'[t].of = records[t].of /\ tasks'[t].status = records[t].status
             /\ tasks'[t].exit = records[t].exit /\ tasks'[t].stored = records[t].stored
             /\ tasks'[t].stopping = records[t].stopping
      BY <2>2, <3>2 DEF TaskRow
    <3>4. \A t \in DOMAIN records : IsWanted(tasks'[t]) <=> IsWanted(records[t])
      BY <3>3 DEF IsWanted
    <3>5. \A t \in DOMAIN records : RowRight(tasks'[t], DOMAIN envelopes, samples)
      BY <3>3 DEF RowsRight, RowRight
    <3>6. OneWanted(tasks')
      BY <3>1, <3>4 DEF RowsRight, OneWanted
    <3>7. tasks' \in [DOMAIN tasks' -> TaskRow]
      BY <2>2, <3>1, <3>3
    <3>8. DOMAIN tasks' \in SUBSET Tasks
      BY <3>1 DEF RowsRight
    <3>. QED
      BY <3>1, <3>5, <3>6, <3>7, <3>8 DEF RowsRight
  <2>. QED
    BY <2>1, <2>2 DEF Fails
<1>5. TasksRight'
  BY <1>1, <1>4 DEF TasksRight, RowsRight
<1>6. DispatchRight'
  BY <1>1, <1>3 DEF DispatchRight, Invocation, NoInvocation
<1>7. PagesRight' /\ EnvelopesRight'
  BY <1>1 DEF PipelineIInv, PagesRight, EnvelopesRight
<1>8. Accounted'
  BY <1>1, <1>3 DEF Accounted
<1>9. SummariesRight'
  BY <1>1 DEF PipelineIInv, SummariesRight, Painted
<1>. QED
  BY <1>5, <1>6, <1>7, <1>8, <1>9 DEF PipelineIInv

\* What an attempt does without ending.
LEMMA AttemptGoesOn ==
  ASSUME PipelineIInv, DispatchOnly, UNCHANGED queue, TasksRight', DispatchRight', dead' = dead
  PROVE  PipelineIInv'
<1>1. UNCHANGED <<pages, envelopes, accepted, samples, summaries>>
  BY DEF DispatchOnly
<1>2. PagesRight' /\ EnvelopesRight'
  BY <1>1 DEF PipelineIInv, PagesRight, EnvelopesRight
<1>3. Accounted'
  BY <1>1 DEF PipelineIInv, Accounted
<1>4. SummariesRight'
  BY <1>1 DEF PipelineIInv, SummariesRight, Painted
<1>. QED
  BY <1>2, <1>3, <1>4 DEF PipelineIInv

LEMMA MessageReceived ==
  ASSUME PipelineIInv, ReceiveMessage
  PROVE  PipelineIInv'
<1>1. /\ UNCHANGED <<queue, dead, tasks>> /\ queue # <<>> /\ UNCHANGED <<envelopes, samples>>
      /\ dispatcher' = [at |-> "reconcile", of |-> {Head(queue)}, task |-> {}]
  BY DEF ReceiveMessage, DispatchOnly
<1>2. queue \in Seq(DOMAIN envelopes) /\ Head(queue) \in PageLoads
  <2>1. queue \in Seq(DOMAIN envelopes) /\ DOMAIN envelopes \in SUBSET PageLoads
    BY DEF PipelineIInv, DispatchRight, EnvelopesRight
  <2>. QED
    BY <1>1, <2>1, HeadAndTail
<1>3. TasksRight'
  BY <1>1 DEF PipelineIInv, TasksRight, RowsRight
<1>4. DispatchRight'
  BY <1>1, <1>2 DEF DispatchRight, Invocation
<1>. QED
  BY <1>1, <1>3, <1>4, AttemptGoesOn DEF ReceiveMessage

LEMMA TasksReconciled ==
  ASSUME PipelineIInv, ReconcileExistingTasks
  PROVE  PipelineIInv'
<1>1. dispatcher.at = "reconcile" /\ DispatchOnly /\ RowsRight(tasks)
  BY DEF ReconcileExistingTasks, PipelineIInv, TasksRight
<1>2. CASE Wanted = {}
  <2>1. UNCHANGED <<queue, dead, tasks, envelopes, samples>> /\ dispatcher' = [dispatcher EXCEPT !.at = "launch"]
    BY <1>2 DEF ReconcileExistingTasks, DispatchOnly
  <2>2. \A t \in DOMAIN tasks : ~IsWanted(tasks[t])
    BY <1>2 DEF Wanted, IsWanted, Alive
  <2>3. dispatcher' \in Invocation /\ dispatcher'.at = "launch"
    BY <2>1 DEF PipelineIInv, DispatchRight, Invocation
  <2>4. TasksRight'
    BY <2>1 DEF PipelineIInv, TasksRight, RowsRight
  <2>5. queue \in Seq(DOMAIN envelopes) /\ queue # <<>>
    BY <1>1 DEF PipelineIInv, DispatchRight
  <2>6. DispatchRight'
    BY <2>1, <2>2, <2>3, <2>5 DEF DispatchRight
  <2>. QED
    BY <1>1, <2>1, <2>4, <2>6, AttemptGoesOn
<1>3. CASE Wanted # {}
  <2>1. PICK ended, records :
           /\ records = [t \in DOMAIN tasks |-> IF t \in ended THEN [tasks[t] EXCEPT !.stopping = TRUE] ELSE tasks[t]]
           /\ Fails(records)
    BY <1>3 DEF ReconcileExistingTasks
  <2>2. DOMAIN records = DOMAIN tasks /\ \A t \in DOMAIN tasks : tasks[t] \in TaskRow
    BY <1>1, <2>1 DEF RowsRight
  <2>3. \A t \in DOMAIN tasks :
           /\ records[t] \in TaskRow /\ records[t].of = tasks[t].of /\ records[t].status = tasks[t].status
           /\ records[t].exit = tasks[t].exit /\ records[t].stored = tasks[t].stored
           /\ (tasks[t].stopping => records[t].stopping)
    BY <2>1, <2>2 DEF TaskRow
  <2>4. OneWanted(records)
    BY <1>1, <2>2, <2>3 DEF RowsRight, OneWanted, IsWanted
  <2>5. \A t \in DOMAIN records : RowRight(records[t], DOMAIN envelopes, samples)
    BY <1>1, <2>2, <2>3 DEF RowsRight, RowRight
  <2>6. DOMAIN records \in SUBSET Tasks /\ records \in [DOMAIN records -> TaskRow]
    BY <1>1, <2>1, <2>2, <2>3 DEF RowsRight
  <2>7. RowsRight(records)
    BY <2>4, <2>5, <2>6 DEF RowsRight
  <2>. QED
    BY <1>1, <2>1, <2>7, AttemptEnds
<1>. QED
  BY <1>2, <1>3

LEMMA TaskLaunched ==
  ASSUME PipelineIInv, NEW t \in Tasks, NEW answered \in BOOLEAN, RunTask(t, answered)
  PROVE  PipelineIInv'
<1>1. dispatcher.at = "launch" /\ DispatchOnly /\ RowsRight(tasks) /\ queue # <<>>
  BY DEF RunTask, PipelineIInv, TasksRight, DispatchRight
<1>2. PICK e : e = Head(queue)
  OBVIOUS
<1>3. queue \in Seq(DOMAIN envelopes) /\ e \in DOMAIN envelopes /\ e \in PageLoads
  <2>1. queue \in Seq(DOMAIN envelopes) /\ DOMAIN envelopes \in SUBSET PageLoads
    BY DEF PipelineIInv, DispatchRight, EnvelopesRight
  <2>. QED
    BY <1>1, <1>2, <2>1, HeadAndTail
<1>4. \A u \in DOMAIN tasks : ~IsWanted(tasks[u])
  BY <1>1 DEF PipelineIInv, DispatchRight
<1>5. dispatcher \in Invocation
  BY DEF PipelineIInv, DispatchRight
<1>6. CASE t \in DOMAIN tasks
  <2>1. /\ UNCHANGED <<queue, dead, tasks, envelopes, samples>> /\ tasks[t].of = e
        /\ dispatcher' = [dispatcher EXCEPT !.at = "wait", !.task = {t}]
    BY <1>2, <1>6 DEF RunTask, DispatchOnly
  <2>2. dispatcher' \in Invocation /\ dispatcher'.at = "wait" /\ dispatcher'.task = {t}
    BY <1>5, <2>1 DEF Invocation
  <2>3. TasksRight'
    BY <2>1 DEF PipelineIInv, TasksRight, RowsRight
  <2>4. DispatchRight'
    BY <1>1, <1>2, <1>3, <1>4, <1>6, <2>1, <2>2 DEF DispatchRight
  <2>. QED
    BY <1>1, <2>1, <2>3, <2>4, AttemptGoesOn
<1>7. CASE t \notin DOMAIN tasks
  <2>1. PICK records : records = Put(tasks, t, Fresh(e))
    OBVIOUS
  <2>2. Fresh(e) \in TaskRow /\ RowRight(Fresh(e), DOMAIN envelopes, samples) /\ Fresh(e).of = e
    BY <1>3 DEF Fresh, TaskRow, RowRight
  <2>3. /\ DOMAIN records = DOMAIN tasks \cup {t} /\ records[t] = Fresh(e)
        /\ \A u \in DOMAIN tasks : records[u] = tasks[u]
    BY <1>7, <2>1 DEF Put
  <2>4. records \in [DOMAIN records -> TaskRow] /\ DOMAIN records \in SUBSET Tasks
    <3>1. \A u \in DOMAIN tasks : tasks[u] \in TaskRow
      BY <1>1 DEF RowsRight
    <3>. QED
      BY <1>1, <2>1, <2>2, <2>3, <3>1 DEF RowsRight, Put
  <2>5. \A u \in DOMAIN records : RowRight(records[u], DOMAIN envelopes, samples)
    BY <1>1, <2>2, <2>3 DEF RowsRight
  <2>6. OneWanted(records)
    BY <1>4, <2>3 DEF OneWanted
  <2>7. RowsRight(records)
    BY <2>4, <2>5, <2>6 DEF RowsRight
  <2>8. CASE answered
    <3>1. /\ UNCHANGED <<queue, dead, envelopes, samples>> /\ tasks' = records
          /\ dispatcher' = [dispatcher EXCEPT !.at = "wait", !.task = {t}]
      BY <1>2, <1>7, <2>1, <2>8 DEF RunTask, DispatchOnly
    <3>2. dispatcher' \in Invocation /\ dispatcher'.at = "wait" /\ dispatcher'.task = {t}
      BY <1>5, <3>1 DEF Invocation
    <3>3. TasksRight'
      BY <2>7, <3>1 DEF TasksRight, RowsRight
    <3>4. DispatchRight'
      BY <1>1, <1>2, <1>3, <1>4, <2>2, <2>3, <3>1, <3>2 DEF DispatchRight
    <3>. QED
      BY <1>1, <3>1, <3>3, <3>4, AttemptGoesOn
  <2>9. CASE ~answered
    <3>1. Fails(records)
      BY <1>2, <1>7, <2>1, <2>9 DEF RunTask
    <3>. QED
      BY <1>1, <2>7, <3>1, AttemptEnds
  <2>. QED
    BY <2>8, <2>9
<1>. QED
  BY <1>6, <1>7

\* Deleted, then stored: what the message asked for had been done.
LEMMA TaskAwaited ==
  ASSUME PipelineIInv, AwaitTask
  PROVE  PipelineIInv'
<1>1. /\ dispatcher.at = "wait" /\ dispatcher.at # "idle" /\ DispatchOnly /\ RowsRight(tasks)
      /\ queue \in Seq(DOMAIN envelopes) /\ queue # <<>>
  BY DEF AwaitTask, PipelineIInv, TasksRight, DispatchRight
<1>2. PICK t \in dispatcher.task :
         \/ StoppedWell(t) /\ Deletes /\ UNCHANGED tasks
         \/ Fails(tasks)
         \/ \E stop \in BOOLEAN : Fails([tasks EXCEPT ![t].stopping = @ \/ (stop /\ Alive(t))])
  BY DEF AwaitTask
<1>3. t \in DOMAIN tasks /\ tasks[t].of = Head(queue) /\ tasks[t] \in TaskRow
      /\ RowRight(tasks[t], DOMAIN envelopes, samples)
  BY <1>1 DEF PipelineIInv, DispatchRight, RowsRight
<1>4. CASE StoppedWell(t) /\ Deletes /\ UNCHANGED tasks
  <2>1. Head(queue) \in samples
    BY <1>3, <1>4 DEF StoppedWell, RowRight
  <2>2. /\ UNCHANGED <<pages, envelopes, accepted, samples, summaries, tasks, dead>>
        /\ dispatcher' = NoInvocation /\ queue' = Tail(queue)
    BY <1>1, <1>4 DEF Deletes, DispatchOnly
  <2>3. Tail(queue) \in Seq(DOMAIN envelopes) /\ Range(queue) \subseteq Range(Tail(queue)) \cup {Head(queue)}
    BY <1>1, HeadAndTail
  <2>4. Accounted'
    BY <2>1, <2>2, <2>3 DEF PipelineIInv, Accounted
  <2>5. DispatchRight'
    BY <2>2, <2>3 DEF DispatchRight, Invocation, NoInvocation
  <2>6. TasksRight'
    BY <2>2 DEF PipelineIInv, TasksRight, RowsRight
  <2>7. PagesRight' /\ EnvelopesRight'
    BY <2>2 DEF PipelineIInv, PagesRight, EnvelopesRight
  <2>8. SummariesRight'
    BY <2>2 DEF PipelineIInv, SummariesRight, Painted
  <2>. QED
    BY <2>4, <2>5, <2>6, <2>7, <2>8 DEF PipelineIInv
<1>5. CASE Fails(tasks)
  <2>1. PICK records : records = tasks
    OBVIOUS
  <2>2. RowsRight(records) /\ Fails(records)
    BY <1>1, <1>5, <2>1
  <2>. QED
    BY <1>1, <2>2, AttemptEnds
<1>6. ASSUME NEW stop \in BOOLEAN, Fails([tasks EXCEPT ![t].stopping = @ \/ (stop /\ Alive(t))])
      PROVE  PipelineIInv'
  <2>1. PICK b \in BOOLEAN : b = (tasks[t].stopping \/ (stop /\ Alive(t))) /\ (tasks[t].stopping => b)
    BY <1>3 DEF TaskRow, Alive
  <2>2. PICK row : row = [tasks[t] EXCEPT !.stopping = b]
    OBVIOUS
  <2>3. PICK records : records = [tasks EXCEPT ![t] = row] /\ Fails(records)
    BY <1>6, <2>1, <2>2
  <2>4. /\ row \in TaskRow /\ row.of = tasks[t].of /\ row.status = tasks[t].status /\ row.exit = tasks[t].exit
        /\ row.stored = tasks[t].stored /\ (tasks[t].stopping => row.stopping)
    BY <1>3, <2>1, <2>2 DEF TaskRow
  <2>5. RowRight(row, DOMAIN envelopes, samples)
    BY <1>3, <2>4 DEF RowRight
  <2>6. /\ DOMAIN records = DOMAIN tasks /\ records[t] = row
        /\ \A u \in DOMAIN tasks : u # t => records[u] = tasks[u]
    BY <1>1, <1>3, <2>3 DEF RowsRight
  <2>7. OneWanted(records)
    <3>1. \A u \in DOMAIN tasks : IsWanted(records[u]) => IsWanted(tasks[u])
      BY <2>4, <2>6 DEF IsWanted
    <3>. QED
      BY <1>1, <2>6, <3>1 DEF RowsRight, OneWanted
  <2>8. RowsRight(records)
    BY <1>1, <2>3, <2>4, <2>5, <2>6, <2>7 DEF RowsRight
  <2>. QED
    BY <1>1, <2>3, <2>8, AttemptEnds
<1>. QED
  BY <1>2, <1>4, <1>5, <1>6

LEMMA AttemptDies ==
  ASSUME PipelineIInv, RunTaskFails \/ DispatcherDies
  PROVE  PipelineIInv'
<1>1. dispatcher.at # "idle" /\ DispatchOnly /\ Fails(tasks)
  BY DEF RunTaskFails, DispatcherDies, PipelineIInv, DispatchRight
<1>2. PICK records : records = tasks
  OBVIOUS
<1>3. RowsRight(records) /\ Fails(records)
  BY <1>1, <1>2 DEF PipelineIInv, TasksRight
<1>. QED
  BY <1>1, <1>3, AttemptEnds

\* A task changes its own row, and never comes to be wanted again.
LEMMA TaskMoves ==
  ASSUME PipelineIInv, NEW t \in DOMAIN tasks, NEW row \in TaskRow, NEW kept, kept = samples', samples \subseteq kept,
         row.of = tasks[t].of, IsWanted(row) => IsWanted(tasks[t]), RowRight(row, DOMAIN envelopes, kept),
         tasks' = [tasks EXCEPT ![t] = row], TaskOnly
  PROVE  PagesRight' /\ EnvelopesRight' /\ TasksRight' /\ DispatchRight' /\ Accounted'
<1>1. UNCHANGED <<pages, envelopes, queue, accepted, receives, dead, dispatcher>>
  BY DEF TaskOnly
<1>2. RowsRight(tasks)
  BY DEF PipelineIInv, TasksRight
<1>3. /\ DOMAIN tasks' = DOMAIN tasks /\ tasks' \in [DOMAIN tasks -> TaskRow] /\ tasks'[t] = row
      /\ \A u \in DOMAIN tasks : u # t => tasks'[u] = tasks[u]
  BY <1>2 DEF RowsRight
<1>4. \A u \in DOMAIN tasks : tasks'[u].of = tasks[u].of /\ (IsWanted(tasks'[u]) => IsWanted(tasks[u]))
  BY <1>3
<1>5. \A u \in DOMAIN tasks : RowRight(tasks'[u], DOMAIN envelopes, kept)
  <2>1. \A u \in DOMAIN tasks : RowRight(tasks[u], DOMAIN envelopes, kept)
    BY <1>2 DEF RowsRight, RowRight
  <2>. QED
    BY <1>3, <2>1
<1>6. TasksRight'
  <2>1. OneWanted(tasks')
    BY <1>2, <1>3, <1>4 DEF RowsRight, OneWanted
  <2>2. DOMAIN tasks' \in SUBSET Tasks /\ tasks' \in [DOMAIN tasks' -> TaskRow]
    BY <1>2, <1>3 DEF RowsRight
  <2>3. \A u \in DOMAIN tasks' : RowRight(tasks'[u], DOMAIN envelopes', samples')
    BY <1>1, <1>3, <1>5
  <2>. QED
    BY <2>1, <2>2, <2>3 DEF TasksRight, RowsRight
<1>7. DispatchRight'
  BY <1>1, <1>3, <1>4 DEF PipelineIInv, DispatchRight
<1>8. PagesRight' /\ EnvelopesRight'
  BY <1>1 DEF PipelineIInv, PagesRight, EnvelopesRight
<1>9. Accounted'
  BY <1>1 DEF PipelineIInv, Accounted
<1>. QED
  BY <1>6, <1>7, <1>8, <1>9

LEMMA TaskEnds ==
  ASSUME PipelineIInv, NEW t \in Tasks, Overdue(t) \/ \E exit \in {0, 1} : TaskStops(t, exit)
  PROVE  PipelineIInv'
<1>1. /\ t \in DOMAIN tasks /\ Alive(t) /\ UNCHANGED <<samples, summaries>> /\ TaskOnly
      /\ tasks[t] \in TaskRow /\ RowRight(tasks[t], DOMAIN envelopes, samples)
  BY DEF Overdue, TaskStops, PipelineIInv, TasksRight, RowsRight
<1>2. PICK row \in TaskRow :
         /\ tasks' = [tasks EXCEPT ![t] = row] /\ row.of = tasks[t].of
         /\ (IsWanted(row) => IsWanted(tasks[t])) /\ RowRight(row, DOMAIN envelopes, samples)
  <2>1. CASE Overdue(t)
    <3>1. PICK row : row = [tasks[t] EXCEPT !.overdue = TRUE]
      OBVIOUS
    <3>2. row \in TaskRow /\ row.of = tasks[t].of /\ row.status = tasks[t].status /\ row.exit = tasks[t].exit
          /\ row.stored = tasks[t].stored /\ row.stopping = tasks[t].stopping
      BY <1>1, <3>1 DEF TaskRow
    <3>3. (IsWanted(row) => IsWanted(tasks[t])) /\ RowRight(row, DOMAIN envelopes, samples)
      BY <1>1, <3>2 DEF IsWanted, RowRight
    <3>. QED
      BY <2>1, <3>1, <3>2, <3>3 DEF Overdue, Becomes
  <2>2. ASSUME NEW exit \in {0, 1}, TaskStops(t, exit)
        PROVE  \E row \in TaskRow :
                  /\ tasks' = [tasks EXCEPT ![t] = row] /\ row.of = tasks[t].of
                  /\ (IsWanted(row) => IsWanted(tasks[t])) /\ RowRight(row, DOMAIN envelopes, samples)
    <3>1. PICK row : row = [tasks[t] EXCEPT !.status = "stopped", !.exit = exit]
      OBVIOUS
    <3>2. row \in TaskRow /\ row.of = tasks[t].of /\ row.status = "stopped" /\ row.exit = exit
          /\ row.stored = tasks[t].stored
      BY <1>1, <3>1 DEF TaskRow
    <3>3. (IsWanted(row) => IsWanted(tasks[t])) /\ RowRight(row, DOMAIN envelopes, samples)
      BY <1>1, <2>2, <3>2 DEF IsWanted, RowRight, TaskStops
    <3>. QED
      BY <2>2, <3>1, <3>2, <3>3 DEF TaskStops, Becomes
  <2>. QED
    BY <2>1, <2>2
<1>3. PICK kept : kept = samples' /\ kept = samples
  BY <1>1
<1>4. PagesRight' /\ EnvelopesRight' /\ TasksRight' /\ DispatchRight' /\ Accounted'
  BY <1>1, <1>2, <1>3, TaskMoves
<1>5. SummariesRight'
  BY <1>1 DEF PipelineIInv, SummariesRight, TaskOnly, Painted
<1>. QED
  BY <1>4, <1>5 DEF PipelineIInv

\* What a run summarizes are paints within the bound, no more than there are.
LEMMA SummarizedAre ==
  ASSUME EnvelopesRight, NEW rows \in SUBSET DOMAIN envelopes
  PROVE  /\ Summarized(rows) \in Seq(0..LcpBound) /\ Len(Summarized(rows)) \in Nat
         /\ Len(Summarized(rows)) <= Cardinality({e \in rows : Painted(e)})
<1>. DEFINE painted == {e \in rows : Painted(e)}
            R == {p \in painted \X painted : Later(p[1], p[2])}
<1>1. painted \in SUBSET DOMAIN envelopes /\ IsFiniteSet(painted) /\ Cardinality(painted) \in Nat
  <2>1. painted \in SUBSET PageLoads
    BY DEF EnvelopesRight
  <2>2. IsFiniteSet(painted)
    BY <2>1, PipelineConstants, FS_Subset
  <2>. QED
    BY <2>2, FS_CardinalityType
<1>2. StrictlyOrders(R, painted)
  <2>1. \A a \in painted : envelopes[a].order \in Nat
    BY <1>1 DEF EnvelopesRight, Envelope
  <2>2. \A a, b \in painted : envelopes[a].order = envelopes[b].order => a = b
    BY <1>1 DEF EnvelopesRight
  <2>3. \A a, b \in painted : <<a, b>> \in R <=> envelopes[a].order > envelopes[b].order
    BY DEF Later
  <2>. HIDE DEF R, painted
  <2>. QED
    BY <2>1, <2>2, <2>3 DEF StrictlyOrders
<1>3. Newest(rows) = Leading(InOrder(painted, R), RunWindow)
  BY DEF Newest
<1>4. \A e \in painted : LcpOf(e) \in 0..LcpBound
  <2>1. ASSUME NEW e \in painted PROVE LcpOf(e) \in 0..LcpBound
    <3>1. Painted(e) /\ e \in DOMAIN envelopes
      OBVIOUS
    <3>2. LcpOf(e) \in LcpValues /\ <<"LCP", LcpOf(e)>> \in envelopes[e].metrics
      BY <3>1 DEF LcpOf, Painted
    <3>3. LcpOf(e) <= LcpBound /\ LcpOf(e) \in Nat /\ LcpBound \in Nat
      BY <3>1, <3>2, PipelineConstants DEF EnvelopesRight
    <3>. QED
      BY <3>3
  <2>. QED
    BY <2>1
<1>5. PICK P, S : P = painted /\ S = InOrder(painted, R)
  OBVIOUS
<1>6. S \in Seq(P) /\ Len(S) = Cardinality(P)
  <2>. HIDE DEF painted, R
  <2>. QED
    BY <1>1, <1>2, <1>5, InOrderIs
<1>7. PICK N : N = Newest(rows) /\ N = Leading(S, RunWindow)
  BY <1>3, <1>5
<1>8. N \in Seq(P) /\ Len(N) \in Nat /\ Len(N) <= Cardinality(P)
  <2>1. RunWindow \in Nat
    BY PipelineConstants
  <2>2. N \in Seq(P) /\ Len(N) = IF Len(S) < RunWindow THEN Len(S) ELSE RunWindow
    BY <1>6, <1>7, <2>1, LeadingIs
  <2>3. Cardinality(P) \in Nat
    BY <1>1, <1>5
  <2>. QED
    BY <1>6, <2>1, <2>2, <2>3
<1>9. Summarized(rows) = [i \in 1..Len(N) |-> LcpOf(N[i])]
  BY <1>7 DEF Summarized
<1>10. \A i \in 1..Len(N) : LcpOf(N[i]) \in 0..LcpBound
  <2>1. \A i \in 1..Len(N) : N[i] \in P
    BY <1>8
  <2>. QED
    BY <1>4, <1>5, <2>1
<1>11. Summarized(rows) \in Seq(0..LcpBound) /\ Len(Summarized(rows)) = Len(N)
  BY <1>8, <1>9, <1>10
<1>. QED
  BY <1>5, <1>8, <1>11

LEMMA PersistKeeps ==
  ASSUME PipelineIInv, NEW t \in Tasks, Persist(t)
  PROVE  PipelineIInv'
<1>1. /\ t \in DOMAIN tasks /\ TaskOnly /\ tasks[t] \in TaskRow /\ RowRight(tasks[t], DOMAIN envelopes, samples)
      /\ EnvelopesRight /\ samples \in SUBSET DOMAIN envelopes
  BY DEF Persist, PipelineIInv, TasksRight, RowsRight, SummariesRight
<1>2. PICK e, kept, values :
         /\ e = tasks[t].of /\ kept = samples \cup {e} /\ values = Summarized(kept)
         /\ samples' = kept
         /\ summaries' = summaries \cup {[of |-> e, task |-> t, count |-> Len(values),
              p50 |-> percentile(values, 50), p75 |-> percentile(values, 75), p95 |-> percentile(values, 95)]}
  BY DEF Persist, WithSample
<1>3. kept \in SUBSET DOMAIN envelopes /\ e \in kept /\ samples \subseteq kept
  BY <1>1, <1>2 DEF RowRight
<1>4. PICK row : row = [tasks[t] EXCEPT !.stored = TRUE]
  OBVIOUS
<1>5. /\ row \in TaskRow /\ row.of = e /\ row.status = tasks[t].status /\ row.exit = tasks[t].exit
      /\ row.stopping = tasks[t].stopping /\ row.stored
  BY <1>1, <1>2, <1>4 DEF TaskRow
<1>6. tasks' = [tasks EXCEPT ![t] = row] /\ RowRight(row, DOMAIN envelopes, kept) /\ (IsWanted(row) => IsWanted(tasks[t]))
  <2>1. tasks' = [tasks EXCEPT ![t] = row]
    BY <1>4 DEF Persist, Becomes
  <2>. QED
    BY <1>3, <1>5, <2>1 DEF RowRight, IsWanted
<1>7. PagesRight' /\ EnvelopesRight' /\ TasksRight' /\ DispatchRight' /\ Accounted'
  BY <1>1, <1>2, <1>3, <1>5, <1>6, TaskMoves
<1>8. PICK run : run = [of |-> e, task |-> t, count |-> Len(values), p50 |-> percentile(values, 50),
                        p75 |-> percentile(values, 75), p95 |-> percentile(values, 95)]
  OBVIOUS
<1>9. PICK most : most = Cardinality({x \in kept : Painted(x)})
  OBVIOUS
<1>10. /\ run.of \in kept /\ run.count \in Nat /\ run.count <= most
       /\ run.p50 <= run.p75 /\ run.p75 <= run.p95 /\ run.p95 <= 100 * LcpBound
  <2>1. values \in Seq(0..LcpBound) /\ Len(values) \in Nat /\ Len(values) <= most
    BY <1>1, <1>2, <1>3, <1>9, SummarizedAre
  <2>2. LcpBound \in Nat /\ 50 \in 0..100 /\ 75 \in 0..100 /\ 95 \in 0..100
    BY PipelineConstants
  <2>0. PICK B \in Nat : B = LcpBound
    BY <2>2
  <2>3. percentile(values, 50) <= percentile(values, 75)
    <3>1. values \in Seq(0..B) /\ 50 \in 0..100 /\ 75 \in 0..100 /\ 50 <= 75
      BY <2>0, <2>1
    <3>. QED
      BY <3>1, PercentilesOrdered
  <2>4. percentile(values, 75) <= percentile(values, 95)
    <3>1. values \in Seq(0..B) /\ 75 \in 0..100 /\ 95 \in 0..100 /\ 75 <= 95
      BY <2>0, <2>1
    <3>. QED
      BY <3>1, PercentilesOrdered
  <2>5. percentile(values, 75) <= percentile(values, 95) /\ percentile(values, 95) <= 100 * LcpBound
    <3>1. values \in Seq(0..B) /\ 75 \in 0..100 /\ 95 \in 0..100 /\ 75 <= 95
      BY <2>0, <2>1
    <3>2. percentile(values, 95) <= 100 * B
      BY <3>1, PercentilesOrdered
    <3>. QED
      BY <2>0, <2>4, <3>2
  <2>. QED
    BY <1>3, <1>8, <2>1, <2>3, <2>4, <2>5
<1>11. \A s \in summaries :
         /\ s.of \in kept /\ s.count \in Nat /\ s.count <= most
         /\ s.p50 <= s.p75 /\ s.p75 <= s.p95 /\ s.p95 <= 100 * LcpBound
  <2>1. PICK fewer : fewer = Cardinality({x \in samples : Painted(x)})
    OBVIOUS
  <2>2. fewer \in Nat /\ most \in Nat /\ fewer <= most
    <3>1. PICK A, B : A = {x \in samples : Painted(x)} /\ B = {x \in kept : Painted(x)}
      OBVIOUS
    <3>2. A \in SUBSET B /\ B \in SUBSET PageLoads
      BY <1>1, <1>3, <3>1 DEF EnvelopesRight
    <3>3. IsFiniteSet(B) /\ IsFiniteSet(A) /\ Cardinality(A) <= Cardinality(B)
      BY <3>2, PipelineConstants, FS_Subset
    <3>. QED
      BY <1>9, <2>1, <3>1, <3>3, FS_CardinalityType
  <2>3. \A s \in summaries :
         /\ s.of \in samples /\ s.count \in Nat /\ s.count <= fewer
         /\ s.p50 <= s.p75 /\ s.p75 <= s.p95 /\ s.p95 <= 100 * LcpBound
    BY <2>1 DEF PipelineIInv, SummariesRight
  <2>. QED
    BY <1>3, <2>2, <2>3
<1>12. SummariesRight'
  <2>1. UNCHANGED envelopes
    BY <1>1 DEF TaskOnly
  <2>2. {x \in samples' : Painted(x)'} = {x \in kept : Painted(x)}
    BY <1>2, <2>1 DEF Painted
  <2>3. Cardinality({x \in samples' : Painted(x)'}) = most
    BY <1>9, <2>2
  <2>4. summaries' = summaries \cup {run}
    BY <1>2, <1>8
  <2>. QED
    BY <1>2, <1>3, <1>10, <1>11, <2>1, <2>3, <2>4 DEF SummariesRight
<1>. QED
  BY <1>7, <1>12 DEF PipelineIInv

LEMMA PipelineSteps ==
  ASSUME PipelineIInv, [PipelineNext]_pipelineVars
  PROVE  PipelineIInv'
<1>1. ASSUME NEW e \in PageLoads,
             \/ \E rendered, known, cookie \in BOOLEAN : RenderDocument(e, rendered, known, cookie)
             \/ \E sameBuild, throws \in BOOLEAN : Boot(e, sameBuild, throws)
             \/ RecoverableError(e) \/ RecoverToCsr(e) \/ MarkInteractive(e)
             \/ \E v \in LcpValues : Observe(e, "LCP", v)
             \/ Observe(e, "FPS", 1)
             \/ Flush(e) \/ SignReport(e)
             \/ \E late, published \in BOOLEAN : Ingest(e, late, published)
      PROVE  PipelineIInv'
  BY <1>1, PageSteps, FlushKeeps, ReportSteps
<1>2. CASE ReceiveMessage \/ ReconcileExistingTasks \/ RunTaskFails \/ AwaitTask \/ DispatcherDies
  BY <1>2, MessageReceived, TasksReconciled, AttemptDies, TaskAwaited
<1>3. ASSUME NEW t \in Tasks,
             \/ \E answered \in BOOLEAN : RunTask(t, answered)
             \/ Overdue(t) \/ Persist(t) \/ \E exit \in {0, 1} : TaskStops(t, exit)
      PROVE  PipelineIInv'
  BY <1>3, TaskLaunched, PersistKeeps, TaskEnds
<1>4. CASE UNCHANGED pipelineVars
  <2>1. UNCHANGED <<pages, envelopes, queue, accepted, receives, dead, dispatcher, tasks, samples, summaries>>
    BY <1>4 DEF pipelineVars
  <2>2. PagesRight' /\ EnvelopesRight'
    BY <2>1 DEF PipelineIInv, PagesRight, EnvelopesRight
  <2>3. TasksRight' /\ DispatchRight'
    BY <2>1 DEF PipelineIInv, TasksRight, RowsRight, DispatchRight
  <2>4. Accounted' /\ SummariesRight'
    BY <2>1 DEF PipelineIInv, Accounted, SummariesRight, Painted
  <2>. QED
    BY <2>2, <2>3, <2>4 DEF PipelineIInv
<1>. QED
  BY <1>1, <1>2, <1>3, <1>4 DEF PipelineNext

LEMMA AccountedFor == PipelineIInv => ReportsAccountedFor
<1>. SUFFICES ASSUME PipelineIInv PROVE ReportsAccountedFor
  OBVIOUS
<1>1. accepted \subseteq Range(queue) \cup dead \cup samples
  BY DEF PipelineIInv, Accounted
<1>2. Cardinality(Wanted) <= 1
  <2>1. \A t, u \in Wanted : t = u
    BY DEF PipelineIInv, TasksRight, RowsRight, OneWanted, IsWanted, Wanted, Alive
  <2>2. CASE Wanted = {}
    BY <2>2, FS_EmptySet
  <2>3. ASSUME NEW t \in Wanted PROVE Cardinality(Wanted) <= 1
    <3>1. Wanted = {t}
      BY <2>1, <2>3
    <3>2. Cardinality(Wanted) = 1
      BY <3>1, FS_Singleton
    <3>. QED
      BY <3>2
  <2>. QED
    BY <2>2, <2>3
<1>3. \A e \in DOMAIN envelopes : envelopes[e].outcome = "csr-fallback" <=> envelopes[e].fallback = 1
  BY DEF PipelineIInv, EnvelopesRight, FallbackCounted
<1>4. \A run \in summaries :
         /\ run.of \in samples /\ run.count <= Cardinality({e \in samples : Painted(e)})
         /\ run.p50 <= run.p75 /\ run.p75 <= run.p95 /\ run.p95 <= 100 * LcpBound
  BY DEF PipelineIInv, SummariesRight
<1>. QED
  BY <1>1, <1>2, <1>3, <1>4 DEF ReportsAccountedFor

\* No accepted report is forgotten, whatever dies between queue, dispatcher and task, at
\* most one task is wanted at a time, and what a run states of its samples is in order.
THEOREM ReportsAccounted == PipelineSpec => []ReportsAccountedFor
<1>1. PipelineInit => PipelineIInv
  BY PipelineBegins
<1>2. PipelineIInv /\ [PipelineNext]_pipelineVars => PipelineIInv'
  BY PipelineSteps
<1>3. PipelineIInv => ReportsAccountedFor
  BY AccountedFor
<1>. QED
  BY <1>1, <1>2, <1>3, PTL DEF PipelineSpec

=============================================================================
