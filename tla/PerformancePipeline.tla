------------------------ MODULE PerformancePipeline ------------------------
(***************************************************************************)
(* A page load and what becomes of its performance report: the document    *)
(* rendered at the edge (pages-worker.ts), hydration and its fallback      *)
(* (bootstrap.tsx, main.tsx), the browser's collector (collector.ts), the  *)
(* ingest and dispatch functions with the queue between them               *)
(* (infra/aws/template.yaml) and the aggregator's task (worker.py).        *)
(* SQS delivers a FIFO group one message at a time; visibility (5400 s)    *)
(* outlasts the dispatcher (900 s) and a task's deadline (720 s).          *)
(***************************************************************************)
EXTENDS Naturals, Sequences, FiniteSets, FiniteSetsExt, SequencesExt, Collections

CONSTANTS PageLoads,    \* page loads; each has the request id of its report
          LcpValues,    \* what the browser may measure, some beyond the bound
          LcpBound, MaxFaults,
          MaxReceives,  \* maxReceiveCount of the work queue
          RunWindow,    \* samples of a route one run summarizes
          Tasks         \* tasks the cluster may start, a bound

ASSUME PipelineConstants ==
    /\ {LcpBound, MaxFaults, MaxReceives, RunWindow} \subseteq Nat \ {0} /\ LcpValues \subseteq Nat
    /\ IsFiniteSet(PageLoads)

VARIABLES pages,       \* load -> the browser's page
          envelopes,   \* load -> its report, once flushed
          queue,       \* accepted reports, in order, not yet deleted
          accepted, receives, dead,
          dispatcher,  \* the invocation under way
          tasks,       \* task -> its record
          samples,     \* performance_samples, by request id
          summaries    \* performance_runs

pipelineVars == <<pages, envelopes, queue, accepted, receives, dead, dispatcher,
                  tasks, samples, summaries>>

BlankPage == [document |-> "none", mode |-> "unknown", outcome |-> "not-observed", faults |-> 0,
          fallback |-> 0, live |-> FALSE, recovered |-> FALSE, measured |-> {}]
NoInvocation == [at |-> "idle", of |-> {}, task |-> {}]

PipelineInit ==
    /\ pages = [e \in PageLoads |-> BlankPage] /\ envelopes = <<>>
    /\ queue = <<>> /\ accepted = {} /\ receives = [e \in PageLoads |-> 0] /\ dead = {}
    /\ dispatcher = NoInvocation /\ tasks = <<>> /\ samples = {} /\ summaries = {}

-----------------------------------------------------------------------------
(* The page.                                                               *)

OnlyPages == UNCHANGED <<envelopes, queue, accepted, receives, dead, dispatcher, tasks, samples, summaries>>

\* Rendering either wins its race with the timeout or leaves the fallback document;
\* only a known route without a cookie is ever shared.
RenderDocument(e, rendered, known, cookie) ==
    /\ pages[e].document = "none"
    /\ pages' = [pages EXCEPT ![e].document =
           IF ~rendered THEN "csr-fallback" ELSE IF known /\ ~cookie THEN "shared" ELSE "ssr"]
    /\ OnlyPages

Booted(e) == pages[e].mode # "unknown"
FellBack(page) == [page EXCEPT !.fallback = 1, !.outcome = "csr-fallback"]

\* A shared document may be of another build.  Hydration may also throw at once.
Boot(e, sameBuild, throws) ==
    /\ pages[e].document # "none" /\ ~Booted(e)
    /\ pages[e].document # "shared" => sameBuild
    /\ LET hydrates == pages[e].document # "csr-fallback" /\ sameBuild
           booted == [pages[e] EXCEPT !.mode = IF hydrates /\ ~throws THEN "hydrate" ELSE "csr"] IN
       /\ throws => hydrates
       /\ pages' = [pages EXCEPT ![e] =
              IF throws THEN [FellBack(booted) EXCEPT !.recovered = TRUE]
              ELSE IF pages[e].document = "csr-fallback" THEN FellBack(booted) ELSE booted]
    /\ OnlyPages

RecoverableError(e) ==
    /\ Booted(e) /\ pages[e].mode = "hydrate" /\ ~pages[e].recovered /\ pages[e].faults < MaxFaults
    /\ pages' = [pages EXCEPT ![e].faults = @ + 1]
    /\ OnlyPages

\* An uncaught error or the watchdog, whichever is first.
RecoverToCsr(e) ==
    /\ Booted(e) /\ pages[e].mode = "hydrate" /\ ~pages[e].recovered
    /\ pages' = [pages EXCEPT ![e] = [FellBack(@) EXCEPT !.recovered = TRUE]]
    /\ OnlyPages

OutcomeOfMode(page) == IF page.mode = "hydrate" THEN "hydrated" ELSE "csr"
OutcomeOf(page) == IF page.fallback > 0 THEN "csr-fallback" ELSE OutcomeOfMode(page)
MarkInteractive(e) ==
    /\ Booted(e) /\ ~pages[e].live
    /\ pages' = [pages EXCEPT ![e].live = TRUE, ![e].outcome = OutcomeOf(pages[e]),
                              ![e].measured = {m \in @ : m[1] # "HYDRATION"} \cup {<<"HYDRATION", 1>>}]
    /\ OnlyPages

\* The largest contentful paint so far replaces the one before.
Observe(e, metric, value) ==
    /\ pages[e].document # "none" /\ e \notin DOMAIN envelopes
    /\ pages' = [pages EXCEPT ![e].measured = {m \in @ : m[1] # metric} \cup {<<metric, value>>}]
    /\ OnlyPages

\* The first flush stops observing; what is out of bounds is left out.  What the page
\* does later is recorded nowhere.
Flush(e) ==
    /\ pages[e].document # "none" /\ e \notin DOMAIN envelopes
    /\ envelopes' = Put(envelopes, e,
           [metrics |-> {m \in pages[e].measured : m[1] = "LCP" => m[2] <= LcpBound},
            mode |-> pages[e].mode, outcome |-> pages[e].outcome, faults |-> pages[e].faults,
            fallback |-> pages[e].fallback, at |-> "edge", order |-> Cardinality(DOMAIN envelopes)])
    /\ pages' = [pages EXCEPT ![e] = [BlankPage EXCEPT !.document = "reported", !.live = TRUE, !.recovered = TRUE]]
    /\ UNCHANGED <<queue, accepted, receives, dead, dispatcher, tasks, samples, summaries>>

-----------------------------------------------------------------------------
(* Edge, ingest and queue.                                                 *)

OnlyIngest == UNCHANGED <<pages, receives, dead, dispatcher, tasks, samples, summaries>>
Moves(e, to) == envelopes' = [envelopes EXCEPT ![e].at = to]

\* Signed at the edge over its time and the exact body; never sent twice.
SignReport(e) ==
    /\ e \in DOMAIN envelopes /\ envelopes[e].at = "edge"
    /\ \E to \in {"signed", "lost"} : Moves(e, to)
    /\ UNCHANGED <<queue, accepted>> /\ OnlyIngest

ValidReport(e) == envelopes[e].metrics # {}

\* Late for the signature's window, invalid, or the topic refuses it: not accepted.
Ingest(e, late, published) ==
    /\ e \in DOMAIN envelopes /\ envelopes[e].at = "signed"
    /\ IF ~late /\ ValidReport(e) /\ published
       THEN /\ Moves(e, "published") /\ accepted' = accepted \cup {e} /\ queue' = Append(queue, e)
       ELSE Moves(e, "refused") /\ UNCHANGED <<accepted, queue>>
    /\ OnlyIngest

-----------------------------------------------------------------------------
(* The dispatcher.                                                         *)

Alive(t) == tasks[t].status = "running"
Wanted == {t \in DOMAIN tasks : Alive(t) /\ ~tasks[t].stopping}

DispatchOnly == UNCHANGED <<pages, envelopes, accepted, samples, summaries>>

ReceiveMessage ==
    /\ queue # <<>> /\ dispatcher = NoInvocation
    /\ receives' = [receives EXCEPT ![Head(queue)] = @ + 1]
    /\ dispatcher' = [at |-> "reconcile", of |-> {Head(queue)}, task |-> {}]
    /\ UNCHANGED <<queue, dead, tasks>> /\ DispatchOnly

Deletes == dispatcher' = NoInvocation /\ queue' = Tail(queue) /\ UNCHANGED <<receives, dead>>

\* Reported as failed: seen again after the visibility timeout, by when every task
\* still running is past its deadline, or dead-lettered.
Fails(records) ==
    /\ dispatcher' = NoInvocation /\ UNCHANGED receives
    /\ IF receives[Head(queue)] < MaxReceives
       THEN /\ tasks' = [t \in DOMAIN records |-> [records[t] EXCEPT !.overdue = TRUE]]
            /\ UNCHANGED <<queue, dead>>
       ELSE /\ tasks' = records /\ queue' = Tail(queue) /\ dead' = dead \cup {Head(queue)}

\* Any task of the project still wanted makes the attempt fail; an overdue one is stopped.
ReconcileExistingTasks ==
    /\ dispatcher.at = "reconcile"
    /\ IF Wanted = {}
       THEN dispatcher' = [dispatcher EXCEPT !.at = "launch"] /\ UNCHANGED <<queue, receives, dead, tasks>>
       ELSE \E stopped \in SUBSET {t \in Wanted : tasks[t].overdue} :    \* stop_task itself may fail
              Fails([t \in DOMAIN tasks |-> IF t \in stopped THEN [tasks[t] EXCEPT !.stopping = TRUE] ELSE tasks[t]])
    /\ DispatchOnly

Fresh(e) == [of |-> e, status |-> "running", exit |-> 0, overdue |-> FALSE, stopping |-> FALSE, stored |-> FALSE]
\* The client token is the request id: a token still remembered gives the task it
\* started before, stopped or not.  The answer of a launch may be lost.
RunTask(t, answered) ==
    /\ dispatcher.at = "launch"
    /\ LET e == Head(queue) IN
       IF t \in DOMAIN tasks
       THEN /\ tasks[t].of = e /\ answered
            /\ dispatcher' = [dispatcher EXCEPT !.at = "wait", !.task = {t}] /\ UNCHANGED <<queue, receives, dead, tasks>>
       ELSE /\ t = 1 + Cardinality(DOMAIN tasks)
            /\ IF answered
               THEN /\ tasks' = Put(tasks, t, Fresh(e)) /\ UNCHANGED <<queue, receives, dead>>
                    /\ dispatcher' = [dispatcher EXCEPT !.at = "wait", !.task = {t}]
               ELSE Fails(Put(tasks, t, Fresh(e)))
    /\ DispatchOnly
RunTaskFails == dispatcher.at = "launch" /\ Fails(tasks) /\ DispatchOnly

StopsAnyway(t) == tasks[t].status = "stopped"
StoppedWell(t) == tasks[t].status = "stopped" /\ tasks[t].exit = 0
\* Only a task that stopped with exit code 0 lets the message go.  One that failed, is
\* past its deadline or cannot be described is stopped, if that succeeds.
AwaitTask ==
    /\ dispatcher.at = "wait"
    /\ \E t \in dispatcher.task :
         \/ StoppedWell(t) /\ Deletes /\ UNCHANGED tasks
         \/ \E stop \in BOOLEAN : Fails([tasks EXCEPT ![t].stopping = @ \/ (stop /\ Alive(t))])
    /\ DispatchOnly

DispatcherDies == dispatcher # NoInvocation /\ Fails(tasks) /\ DispatchOnly

-----------------------------------------------------------------------------
(* The aggregator's task.                                                  *)

Becomes(t, change) == tasks' = [tasks EXCEPT ![t] = change]
TaskOnly == UNCHANGED <<pages, envelopes, queue, accepted, receives, dead, dispatcher>>

Overdue(t) ==
    /\ t \in DOMAIN tasks /\ Alive(t) /\ ~tasks[t].overdue
    /\ Becomes(t, [tasks[t] EXCEPT !.overdue = TRUE]) /\ UNCHANGED <<samples, summaries>> /\ TaskOnly

\* The table wants one of the five web vitals, the validators any metric.
HasVital(e) == \E m \in envelopes[e].metrics : m[1] \in {"TTFB", "LCP"}
Later(a, b) == envelopes[a].order > envelopes[b].order
WithSample(e) == samples \cup {e}

LcpOf(e) == CHOOSE v \in LcpValues : <<"LCP", v>> \in envelopes[e].metrics
Painted(e) == \E v \in LcpValues : <<"LCP", v>> \in envelopes[e].metrics

\* The newest of the samples that have a largest contentful paint.
Newest(stored) ==
    LET painted == {e \in stored : Painted(e)} IN
    Leading(InOrder(painted, {p \in painted \X painted : Later(p[1], p[2])}), RunWindow)
Summarized(stored) ==
    LET newest == Newest(stored) IN [i \in 1..Len(newest) |-> LcpOf(newest[i])]

\* The k-th value in order, and linear interpolation between neighbours, in hundredths.
AtMost(values, v) == {i \in 1..Len(values) : values[i] <= v}
Kth(values, k) == Min({v \in Range(values) : Cardinality(AtMost(values, v)) >= k})
Interpolated(a, b, weight) == a * (100 - weight) + b * weight
percentile(values, percent) ==
    LET position == (Len(values) - 1) * percent
        lower == position \div 100
        weight == position - 100 * lower IN
    IF values = <<>> THEN 0
    ELSE IF weight = 0 THEN 100 * Kth(values, lower + 1)
    ELSE Interpolated(Kth(values, lower + 1), Kth(values, lower + 2), weight)

\* Sample and run are written in one transaction; a sample stored before stays.
Persist(t) ==
    /\ t \in DOMAIN tasks /\ Alive(t) /\ ~tasks[t].stored
    /\ LET e == tasks[t].of
           stored == WithSample(e)
           values == Summarized(stored) IN
       /\ HasVital(e)
       /\ samples' = stored
       /\ summaries' = summaries \cup {[of |-> e, task |-> t, count |-> Len(values),
              p50 |-> percentile(values, 50), p75 |-> percentile(values, 75), p95 |-> percentile(values, 95)]}
    /\ Becomes(t, [tasks[t] EXCEPT !.stored = TRUE]) /\ TaskOnly

\* Exit code 0 only after the commit; a crash, a refused row or a stop exits otherwise.
TaskStops(t, exit) ==
    /\ t \in DOMAIN tasks /\ Alive(t)
    /\ exit = 0 => tasks[t].stored /\ ~tasks[t].stopping
    /\ Becomes(t, [tasks[t] EXCEPT !.status = "stopped", !.exit = exit])
    /\ UNCHANGED <<samples, summaries>> /\ TaskOnly

-----------------------------------------------------------------------------
PipelineNext ==
    \/ \E e \in PageLoads :
         \/ \E rendered, known, cookie \in BOOLEAN : RenderDocument(e, rendered, known, cookie)
         \/ \E sameBuild, throws \in BOOLEAN : Boot(e, sameBuild, throws)
         \/ RecoverableError(e) \/ RecoverToCsr(e) \/ MarkInteractive(e)
         \/ \E v \in LcpValues : Observe(e, "LCP", v)
         \/ Observe(e, "FPS", 1)
         \/ Flush(e) \/ SignReport(e)
         \/ \E late, published \in BOOLEAN : Ingest(e, late, published)
    \/ ReceiveMessage \/ ReconcileExistingTasks \/ RunTaskFails \/ AwaitTask \/ DispatcherDies
    \/ \E t \in Tasks :
         \/ \E answered \in BOOLEAN : RunTask(t, answered)
         \/ Overdue(t) \/ Persist(t) \/ \E exit \in {0, 1} : TaskStops(t, exit)

PipelineSpec == PipelineInit /\ [][PipelineNext]_pipelineVars

-----------------------------------------------------------------------------
\* An accepted report is waiting, dead-lettered or stored, whatever dies on the way;
\* at most one task is wanted at a time, although dispatchers die, answers are lost
\* and messages come twice; a report says it fell back exactly when it counts one;
\* and each run's percentiles are ordered and lie within what was measured.
ReportsAccountedFor ==
    /\ accepted \subseteq Range(queue) \cup dead \cup samples
    /\ Cardinality(Wanted) <= 1
    /\ \A e \in DOMAIN envelopes : (envelopes[e].outcome = "csr-fallback") <=> (envelopes[e].fallback = 1)
    /\ \A run \in summaries :
         /\ run.of \in samples /\ run.count <= Cardinality({e \in samples : Painted(e)})
         /\ run.p50 <= run.p75 /\ run.p75 <= run.p95 /\ run.p95 <= 100 * LcpBound
=============================================================================
