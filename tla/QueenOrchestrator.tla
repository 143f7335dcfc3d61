-------------------------- MODULE QueenOrchestrator --------------------------
(***************************************************************************)
(* The Queen orchestrator's record of one task: the thirteen operations of *)
(* queen-orchestrator.ts, run on a clone of the record and saved under its *)
(* version (queen-workflow-store.ts).  Several runtimes, each with its own *)
(* memory of the task, serve callers over one store.                       *)
(*                                                                         *)
(* A call reads the record (from the runtime's memory, or from the store   *)
(* when memory has none), works on a clone across every await, saves it,   *)
(* and only then replaces the memory.  Texts, scores and the dependencies  *)
(* of a graph are left out; what an agent answers is any verdict; a graph  *)
(* has at most one judge of a node, one red team and one synthesis.        *)
(***************************************************************************)
EXTENDS Naturals, FiniteSets, TLC

CONSTANTS Callers, Runtimes,
          Agents,       \* the candidates, the Queen among them
          Queen,
          ModelOf,      \* the model that serves each agent, its case folded
          Selectable,   \* agents online and open to this orchestrator's callers
          Offers,       \* <<node, agent>> pairs that callers name
          Amendments,   \* node tables an amendment may submit
          Attempts,     \* attempt numbers of reviews and repairs
          MaxCalls,     \* bound on the calls received
          Nobody

ASSUME QueenConstants ==
    /\ Queen \in Agents /\ Selectable \subseteq Agents /\ MaxCalls \in Nat

VARIABLES stored,    \* the snapshot in the workflow store
          memory,    \* each runtime's map entry for the task
          calls,     \* what each caller's request has come to
          home,      \* the runtime each caller talks to
          served     \* calls received so far

queenTaskVars == <<stored, memory, calls, home, served>>

Node(type, required, judges) == [type |-> type, required |-> required, judges |-> judges]

\* The graph proposed for a requirement: high risk adds a red team.
Proposed(high) ==
    ("plan-1" :> Node("plan", TRUE, Nobody)) @@ ("execute-1" :> Node("execute", TRUE, Nobody))
    @@ ("judge-1" :> Node("judge", TRUE, "execute-1")) @@ ("repair-1" :> Node("repair", FALSE, Nobody))
    @@ ("final-1" :> Node("synthesize", TRUE, Nobody)) @@ ("deliver-1" :> Node("deliver", TRUE, Nobody))
    @@ (IF high THEN "redteam-1" :> Node("red_team", TRUE, Nobody) ELSE <<>>)

\* What TaskGraphSchema refuses of a node table.
GraphValid(nodes) ==
    /\ {"plan", "deliver"} \subseteq {nodes[n].type : n \in DOMAIN nodes}
    /\ \A n \in DOMAIN nodes : nodes[n].judges \in DOMAIN nodes \cup {Nobody}

NoTask == [version |-> 0]     \* no record counts as version 0
NewTask(high) ==
    [version |-> 0, rev |-> 1, manual |-> high, nodes |-> Proposed(high), assigned |-> <<>>,
     outputs |-> <<>>, judged |-> <<>>, done |-> <<>>, final |-> Nobody,
     confirmed |-> 0, run |-> FALSE, learned |-> 0]

NoCall == [at |-> "idle", task |-> NoTask]
Sharing(S) == {x \in Agents : \E s \in S : ModelOf[x] = ModelOf[s]}
Independent(a, S) == a \notin Sharing(S)

\* Nodes appended by reviews and repairs are the keys of done: <<type, parent, attempt>>.
RequiredNodes(t) == {n \in DOMAIN t.nodes : t.nodes[n].required}
AcceptedBy(t, n) ==
    IF n \in DOMAIN t.assigned /\ t.assigned[n].accepted THEN t.assigned[n].agent ELSE Nobody
MissingRequired(t) == {n \in RequiredNodes(t) : AcceptedBy(t, n) = Nobody}
Executors(t) == {t.outputs[n].by : n \in DOMAIN t.outputs}
Judges(t) == {t.judged[n].by : n \in DOMAIN t.judged}
RedTeam(t) ==
    {t.assigned[n].agent : n \in {m \in DOMAIN t.assigned : t.nodes[m].type = "red_team"}}
    \cup {t.done[k] : k \in {m \in DOMAIN t.done : m[1] = "red_team"}}

\* f, with v as its value at x.
With(f, x, v) == [y \in DOMAIN f \cup {x} |-> IF y = x THEN v ELSE f[y]]

Mutable(t) == t.confirmed = 0 /\ ~t.run
Assign(t, n, a, accepted) ==
    [t EXCEPT !.assigned = With(t.assigned, n, [agent |-> a, accepted |-> accepted]), !.confirmed = 0]

QueenTaskInit ==
    /\ stored = NoTask
    /\ memory = [r \in Runtimes |-> NoTask]
    /\ calls = [c \in Callers |-> NoCall]
    /\ home \in [Callers -> Runtimes]
    /\ served = 0

-----------------------------------------------------------------------------
(* What every operation shares: hydrate, clone, save, publish.             *)

Become(c, at, task) == calls' = [calls EXCEPT ![c] = [at |-> at, task |-> task]]

\* Memory answers at once; without it the snapshot is read, and arrives later.
Receive(c) ==
    /\ calls[c] = NoCall /\ served < MaxCalls
    /\ served' = served + 1
    /\ IF memory[home[c]] = NoTask THEN Become(c, "loading", stored)
                                   ELSE Become(c, "ready", memory[home[c]])
    /\ UNCHANGED <<stored, memory, home>>

\* The snapshot replaces the memory, whatever another call put there meanwhile.
Hydrate(c) ==
    /\ calls[c].at = "loading"
    /\ LET known == IF calls[c].task = NoTask THEN memory[home[c]] ELSE calls[c].task IN
       /\ memory' = [memory EXCEPT ![home[c]] = known]
       /\ Become(c, "ready", known)
    /\ UNCHANGED <<stored, home, served>>

\* The clone is saved only as the successor of the version it was made from.
SavesRegardless(t) == TRUE
IsSuccessor(t) == stored.version = t.version
Save(c) ==
    /\ calls[c].at = "saving"
    /\ LET saved == [calls[c].task EXCEPT !.version = @ + 1] IN
       IF IsSuccessor(calls[c].task)
       THEN stored' = saved /\ Become(c, "saved", saved)
       ELSE UNCHANGED stored /\ Become(c, "idle", NoTask)
    /\ UNCHANGED <<memory, home, served>>

Publish(c) ==
    /\ calls[c].at = "saved"
    /\ memory' = [memory EXCEPT ![home[c]] = calls[c].task]
    /\ Become(c, "idle", NoTask)
    /\ UNCHANGED <<stored, home, served>>

\* The request was refused, its agent failed, or the store's answer was lost.
Fail(c) ==
    /\ calls[c].at # "idle"
    /\ Become(c, "idle", NoTask)
    /\ UNCHANGED <<stored, memory, home, served>>

Redeploy(r) ==
    /\ memory[r] # NoTask
    /\ memory' = [memory EXCEPT ![r] = NoTask]
    /\ calls' = [c \in Callers |-> IF home[c] = r THEN NoCall ELSE calls[c]]
    /\ UNCHANGED <<stored, home, served>>

\* The operation's effect on the clone; an agent may be awaited before the save.
Perform(c, task) ==
    /\ Become(c, "saving", task)
    /\ UNCHANGED <<stored, memory, home, served>>
On(c) == calls[c].task
Has(c) == calls[c].at = "ready" /\ On(c) # NoTask
Editable(c) == Has(c) /\ Mutable(On(c))
Running(c) == Has(c) /\ On(c).run

-----------------------------------------------------------------------------
(* Planning.                                                               *)

\* A repeated proposal answers with the existing graph.
ProposeTaskGraph(c, high) ==
    /\ calls[c].at = "ready"
    /\ Perform(c, IF On(c) = NoTask THEN NewTask(high) ELSE On(c))

\* Assignments survive where the node keeps its type.
Amended(t, nodes) ==
    LET kept == {n \in DOMAIN t.assigned : n \in DOMAIN nodes /\ nodes[n].type = t.nodes[n].type} IN
    [t EXCEPT !.rev = t.rev + 1, !.nodes = nodes, !.confirmed = 0,
              !.assigned = [n \in kept |-> t.assigned[n]]]
AmendTaskGraph(c, nodes) ==
    /\ Editable(c) /\ GraphValid(nodes)
    /\ Perform(c, Amended(On(c), nodes))

\* The best candidate is selected, if there is one; off the plan the Queen's
\* model is out.
Rankable(t, n) ==
    {a \in {o[2] : o \in {p \in Offers : p[1] = n}} \cap Selectable :
        t.nodes[n].type # "plan" => Independent(a, {Queen})}
RankNodeAgents(c, n) ==
    /\ Editable(c) /\ n \in DOMAIN On(c).nodes
    /\ \/ \E a \in Rankable(On(c), n) : Perform(c, Assign(On(c), n, a, FALSE))
       \/ Rankable(On(c), n) = {} /\ Perform(c, On(c))

SelectNodeAgent(c, n, a) ==
    /\ Editable(c) /\ n \in DOMAIN On(c).nodes /\ a \in Selectable
    /\ Perform(c, Assign(On(c), n, a, FALSE))

AcceptNodeAssignment(c, n, a) ==
    /\ Editable(c) /\ n \in DOMAIN On(c).nodes /\ a \in Selectable
    /\ Perform(c, Assign(On(c), n, a, TRUE))

ConfirmTaskGraph(c) ==
    /\ Editable(c) /\ MissingRequired(On(c)) = {}
    /\ Perform(c, [On(c) EXCEPT !.confirmed = On(c).rev])

\* A start that is blocked, or repeated, is saved as well and changes nothing.
Startable(t, approved) ==
    MissingRequired(t) = {} /\ t.confirmed = t.rev /\ (t.manual => approved)
StartTaskRun(c, approved) ==
    /\ Has(c)
    /\ Perform(c, [On(c) EXCEPT !.run = @ \/ Startable(On(c), approved)])

-----------------------------------------------------------------------------
(* Execution and review.                                                   *)

Output(t, a) == [by |-> a, id |-> t.version + 1]

\* The first output of a node stands; its executor may only ask for it again.
SubmitNodeOutput(c, n, a) ==
    /\ Running(c) /\ n \in DOMAIN On(c).nodes /\ a \in Selectable
    /\ On(c).nodes[n].type = "execute" /\ AcceptedBy(On(c), n) = a
    /\ n \in DOMAIN On(c).outputs => On(c).outputs[n].by = a
    /\ Perform(c, IF n \in DOMAIN On(c).outputs THEN On(c)
                  ELSE [On(c) EXCEPT !.outputs = With(On(c).outputs, n, Output(On(c), a))])

MayJudge(t, n, a) ==
    /\ a \in Selectable /\ n \in DOMAIN t.outputs
    /\ Independent(a, {Queen, t.outputs[n].by})
    /\ \A m \in DOMAIN t.nodes : t.nodes[m].judges = n => AcceptedBy(t, m) = a
    /\ n \in DOMAIN t.judged => t.judged[n].by = a

\* "of" remembers which output the judge was shown.
JudgeNodeOutput(c, n, a) ==
    /\ Running(c) /\ MayJudge(On(c), n, a)
    /\ \E approved \in BOOLEAN :
          Perform(c, IF n \in DOMAIN On(c).judged THEN On(c)
                     ELSE [On(c) EXCEPT !.judged = With(On(c).judged, n,
                             [by |-> a, of |-> On(c).outputs[n].id, approved |-> approved])])

\* An attempt already made answers from its record; a new one appends a node.
Appended(t, key, a) ==
    IF key \in DOMAIN t.done THEN t
    ELSE [t EXCEPT !.done = With(t.done, key, a), !.rev = t.rev + 1]
Repeatable(t, key, a) == key \in DOMAIN t.done => t.done[key] = a

RequestAdversarialReview(c, n, a, attempt) ==
    LET t == On(c)  key == <<"red_team", n, attempt>> IN
    /\ Running(c) /\ n \in DOMAIN t.nodes /\ a \in Selectable
    /\ Independent(a, {Queen} \cup Executors(t) \cup Judges(t))
    /\ \A m \in DOMAIN t.nodes : t.nodes[m].type = "red_team" => AcceptedBy(t, m) = a
    /\ Repeatable(t, key, a)
    /\ Perform(c, Appended(t, key, a))

\* A repair replaces the output, and with it goes the judgement of the old one.
Repaired(t, n, a) ==
    [t EXCEPT !.outputs = With(t.outputs, n, Output(t, a)),
              !.judged = [m \in DOMAIN t.judged \ {n} |-> t.judged[m]]]
RepairNode(c, n, a, attempt) ==
    LET t == On(c)  key == <<"repair", n, attempt>> IN
    /\ Running(c) /\ n \in DOMAIN t.nodes /\ a \in Selectable
    /\ Repeatable(t, key, a)
    /\ Perform(c, IF key \in DOMAIN t.done THEN t ELSE Repaired(Appended(t, key, a), n, a))

\* A final arbiter, once recorded, may only be asked for its decision again.
FinalArbitrate(c, a) ==
    LET t == On(c) IN
    /\ Running(c) /\ a \in Selectable
    /\ Independent(a, {Queen} \cup Executors(t) \cup Judges(t) \cup RedTeam(t))
    /\ \A m \in DOMAIN t.nodes : t.nodes[m].type = "synthesize" => AcceptedBy(t, m) = a
    /\ t.final \in {Nobody, a}
    /\ Perform(c, [t EXCEPT !.final = a])

WriteLearningLoop(c) ==
    /\ Running(c)
    /\ Perform(c, [On(c) EXCEPT !.learned = @ + 1])

QueenTaskNext ==
    \/ \E c \in Callers : \/ Receive(c) \/ Hydrate(c) \/ Save(c) \/ Publish(c) \/ Fail(c)
                          \/ \E high \in BOOLEAN : ProposeTaskGraph(c, high) \/ StartTaskRun(c, high)
                          \/ \E nodes \in Amendments : AmendTaskGraph(c, nodes)
                          \/ ConfirmTaskGraph(c) \/ WriteLearningLoop(c)
    \/ \E c \in Callers, o \in Offers :
          \/ RankNodeAgents(c, o[1]) \/ SelectNodeAgent(c, o[1], o[2])
          \/ AcceptNodeAssignment(c, o[1], o[2])
          \/ SubmitNodeOutput(c, o[1], o[2]) \/ JudgeNodeOutput(c, o[1], o[2])
          \/ FinalArbitrate(c, o[2])
          \/ \E k \in Attempts : RequestAdversarialReview(c, o[1], o[2], k)
                                 \/ RepairNode(c, o[1], o[2], k)
    \/ \E r \in Runtimes : Redeploy(r)

QueenTaskSpec == QueenTaskInit /\ [][QueenTaskNext]_queenTaskVars

-----------------------------------------------------------------------------
(* What a saved task may be relied upon for.                               *)

\* The judgement on record is of the output on record, and its judge shares no
\* model with the Queen or with whoever produced that output.
JudgementBinds(t, n) ==
    /\ n \in DOMAIN t.outputs /\ t.judged[n].of = t.outputs[n].id
    /\ Independent(t.judged[n].by, {Queen, t.outputs[n].by})

RecordBinds(t) ==
    /\ \A n \in DOMAIN t.judged : JudgementBinds(t, n)
    /\ t.run => MissingRequired(t) = {} /\ t.confirmed > 0
    /\ t.confirmed > 0 => t.rev = t.confirmed + Cardinality(DOMAIN t.done)

\* What a later save may not take back: a run, a decision, an attempt, an output.
Keeps(t, later) ==
    /\ t.run => later.run /\ later.assigned = t.assigned
    /\ t.final \in {Nobody, later.final} /\ t.learned <= later.learned
    /\ DOMAIN t.done \subseteq DOMAIN later.done
    /\ \A n \in DOMAIN t.outputs : n \in DOMAIN later.outputs /\ t.outputs[n].id <= later.outputs[n].id

\* Whatever the interleaving of callers, runtimes and restarts, in the store:
\* judgements bind; a run has an accepted agent on every required node of its
\* graph; since its confirmation the graph has gained only the nodes that
\* reviews and repairs appended; and no save takes back what another has
\* recorded meanwhile (queen-orchestrator.ts:408-548, 593-706).
ReviewedWorkBinds ==
    /\ [](stored # NoTask => RecordBinds(stored))
    /\ [][stored # NoTask => stored' # NoTask /\ Keeps(stored, stored')]_stored
=============================================================================
