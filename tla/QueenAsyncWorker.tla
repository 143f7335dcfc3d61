--------------------------- MODULE QueenAsyncWorker ---------------------------
(***************************************************************************)
(* One task planned, approved and executed asynchronously: the planning    *)
(* request and its approval, the outbox, the queue, the operation ledger,  *)
(* and the workers that consume an event (createQueenWorkflowWorker).      *)
(*                                                                         *)
(* Everything a worker asks again at the database before it acts (request  *)
(* valid and not revoked, task open at the requested version) can only     *)
(* turn from yes to no, so it is one flag, `live`.  Hashes of the approved *)
(* graph and assignments are left out: only workers write the snapshot     *)
(* (the GraphQL mutations are refused), and what they append is exempt.    *)
(***************************************************************************)
EXTENDS Naturals, Sequences, FiniteSets

CONSTANTS
    Workers,    \* processes that run consumeOne
    Copies,     \* how often each event may be put on the queue
    MaxRepairs  \* repairs of one output; 2 in queen-task-graph.ts


VARIABLES
    risk,       \* inferRiskLevel of the requirement
    live,       \* the grant holds: valid, not revoked, the task still open
    decision,   \* queen_planning_requests: none, requested, approved, rejected
    outbox,     \* queen_outbox: status of each event's row
    queue,      \* messages not deleted; one on the dead-letter queue is one of
                \* these that nobody receives any more
    sent,       \* how often each event was put on the queue
    ledger,     \* queen_operations: status and owner of each operation
    overdue,    \* operations claimed more than five minutes ago
    plan,       \* queen_workflows: the graph and its assignments
    run,        \* queen_workflows: graphConfirmedRevision and runId
    thread,     \* the checkpoint of the task's LangGraph thread
    workers,    \* where each worker stands
    calls       \* history: every call of an agent port, in order

vars == <<risk, live, decision, outbox, queue, sent, ledger, overdue,
          plan, run, thread, workers, calls>>
requestVars == <<risk, decision, outbox>>
queueVars == <<queue, sent>>
ledgerVars == <<ledger, overdue>>
workflowVars == <<plan, run>>

Events == {"plan", "approve"}

ASSUME QueenConstants == Copies \in [Events -> Nat \ {0}] /\ MaxRepairs \in Nat

Messages == UNION {{e} \X (1..Copies[e]): e \in Events}
Verdicts == {"approved", "needs_revision", "rejected"}
Ends == {"completed", "rejected"}

\* What a worker does next: the stages from "queen" to "verify" carry out "plan",
\* those from "resume" to "conclude" "approve"; "ack" deletes the message.
Stages == {"idle", "claim", "queen", "propose", "assign", "checkpoint", "verify",
           "resume", "approve", "step", "call", "save", "conclude", "commit", "ack"}
Working == Stages \ {"idle", "claim", "ack"}

Idle == [at |-> "idle", msg |-> <<>>, got |-> "pending"]
Event(w) == workers[w].msg[1]
Goto(w, stage) == workers' = [workers EXCEPT ![w].at = stage]

\* Mutant: the other default.
LowDefaultRisk == "low"

\* riskLevel of the thread: the state that planning parses names none, and the
\* one that the approval parses only names the thread.
DefaultRisk == "high"

Init ==
    /\ risk \in {"low", "high"} /\ live = TRUE /\ decision = "none"
    /\ outbox = [e \in Events |-> "none"]
    /\ queue = {} /\ sent = [e \in Events |-> 0]
    /\ ledger = [e \in Events |-> [status |-> "none", owner |-> {}]] /\ overdue = {}
    /\ plan = "none" /\ run = "unconfirmed"
    /\ thread = [next |-> "queen", risk |-> DefaultRisk, repairs |-> 0,
                 decision |-> "pending", red |-> "pending"]
    /\ workers = [w \in Workers |-> Idle]
    /\ calls = <<>>

-----------------------------------------------------------------------------
\* The publisher's wallet, through the HTTP routes.
RequestPlanning ==
    /\ live /\ decision = "none"
    /\ decision' = "requested"
    /\ outbox' = [outbox EXCEPT !["plan"] = "pending"]
    /\ UNCHANGED <<risk, live, queueVars, ledgerVars, workflowVars, thread, workers, calls>>

RecordApproval(d) ==
    /\ live /\ decision = "requested"
    /\ plan = "assigned" /\ run = "unconfirmed"
    /\ decision' = d
    /\ outbox' = [outbox EXCEPT !["approve"] = "pending"]
    /\ UNCHANGED <<risk, live, queueVars, ledgerVars, workflowVars, thread, workers, calls>>

\* The request expires or is revoked, or an order command moves the task on.
GrantEnds ==
    /\ live /\ decision # "none"
    /\ live' = FALSE
    /\ UNCHANGED <<requestVars, queueVars, ledgerVars, workflowVars, thread, workers, calls>>

-----------------------------------------------------------------------------
\* publishQueenOutbox sends inside the transaction that marks the row: when it
\* does not commit, or the receipt is lost, the row stays pending.
Publish(e) ==
    /\ outbox[e] = "pending" /\ sent[e] < Copies[e]
    /\ queue' = queue \cup {<<e, sent[e] + 1>>}
    /\ sent' = [sent EXCEPT ![e] = @ + 1]
    /\ \E status \in {"pending", "published"}: outbox' = [outbox EXCEPT ![e] = status]
    /\ UNCHANGED <<risk, live, decision, ledgerVars, workflowVars, thread, workers, calls>>

-----------------------------------------------------------------------------
\* authorizeAndResolve: what the database says of the event now.
Granted(e) ==
    /\ live
    /\ e = "plan" => decision # "none"
    /\ e = "approve" => decision \in {"approved", "rejected"} /\ plan = "assigned" /\ run # "confirmed"

\* A message stays receivable while a worker holds it: its visibility may lapse.
\* A message that is not authorized is left on the queue.
Receive(w, m) ==
    /\ workers[w] = Idle
    /\ m \in queue /\ Granted(m[1])
    /\ workers' = [workers EXCEPT ![w] = [Idle EXCEPT !.at = "claim", !.msg = m]]
    /\ UNCHANGED <<requestVars, live, queueVars, ledgerVars, workflowVars, thread, calls>>

\* Mutant: an approval claimed long ago is taken over.
MayRunExpired(e) == ledger[e].status = "none" \/ (e = "approve" /\ e \in overdue)

\* The row is inserted by the first claim only.
MayRun(e) == ledger[e].status = "none"

Done(e) == ledger[e].status = "committed"

\* QueenOperationLedger.execute until the operation runs or its status is known.
Claim(w) ==
    LET e == Event(w) IN
    /\ workers[w].at = "claim"
    /\ \/ /\ MayRun(e)
          /\ UNCHANGED overdue
          /\ ledger' = [ledger EXCEPT ![e] = [status |-> "executing", owner |-> {w}]]
          /\ Goto(w, IF e = "plan" THEN "queen" ELSE "resume")
       \/ /\ ledger[e].status = "executing" /\ e \in overdue
          /\ ledger' = [ledger EXCEPT ![e].status = "uncertain"] /\ overdue' = overdue \ {e}
          /\ workers' = [workers EXCEPT ![w] = Idle]
       \/ /\ Done(e)
          /\ Goto(w, "ack")
          /\ UNCHANGED ledgerVars
       \/ /\ ledger[e].status = "uncertain" \/ (ledger[e].status = "executing" /\ e \notin overdue)
          /\ workers' = [workers EXCEPT ![w] = Idle]
          /\ UNCHANGED ledgerVars
    /\ UNCHANGED <<requestVars, live, queueVars, workflowVars, thread, calls>>

\* Five minutes pass for a claimed operation.
Overdue(e) ==
    /\ ledger[e].status = "executing" /\ e \notin overdue
    /\ overdue' = overdue \cup {e}
    /\ UNCHANGED <<requestVars, live, queueVars, ledger, workflowVars, thread, workers, calls>>

\* Mutant: the token is compared, the status is not.
HoldsByToken(w) == ledger[Event(w)].owner = {w}

Holds(w) == ledger[Event(w)] = [status |-> "executing", owner |-> {w}]

\* The operation resolved: committed only for the owner, and only in time.
Commit(w) ==
    /\ workers[w].at = "commit"
    /\ \/ /\ Holds(w)
          /\ ledger' = [ledger EXCEPT ![Event(w)].status = "committed"]
          /\ overdue' = overdue \ {Event(w)}
          /\ Goto(w, "ack")
       \/ /\ ~Holds(w)
          /\ workers' = [workers EXCEPT ![w] = Idle]
          /\ UNCHANGED ledgerVars
    /\ UNCHANGED <<requestVars, live, queueVars, workflowVars, thread, calls>>

\* The operation threw: a check refused, a port or the database failed.
Fail(w) ==
    /\ workers[w].at \in Working
    /\ \/ /\ Holds(w)
          /\ ledger' = [ledger EXCEPT ![Event(w)].status = "uncertain"]
          /\ overdue' = overdue \ {Event(w)}
       \/ ~Holds(w) /\ UNCHANGED ledgerVars
    /\ workers' = [workers EXCEPT ![w] = Idle]
    /\ UNCHANGED <<requestVars, live, queueVars, workflowVars, thread, calls>>

\* deleteMessage, refused when the heartbeat lost the lease.
Acknowledge(w) ==
    /\ workers[w].at = "ack"
    /\ queue' \in {queue, queue \ {workers[w].msg}}
    /\ workers' = [workers EXCEPT ![w] = Idle]
    /\ UNCHANGED <<requestVars, live, sent, ledgerVars, workflowVars, thread, calls>>

Crash(w) ==
    /\ workers[w].at # "idle"
    /\ workers' = [workers EXCEPT ![w] = Idle]
    /\ UNCHANGED <<requestVars, live, queueVars, ledgerVars, workflowVars, thread, calls>>

-----------------------------------------------------------------------------
\* createQueenDurablePlanning.  The grant is read on entry and again in the
\* queen node; as it only ends, reading it there once is the same.
PlanNode(w) ==
    /\ workers[w].at = "queen"
    /\ Granted("plan") /\ thread.next = "queen"
    /\ Goto(w, IF plan = "none" THEN "propose" ELSE "assign")
    /\ UNCHANGED <<requestVars, live, queueVars, ledgerVars, workflowVars, thread, calls>>

ProposeTaskGraph(w) ==
    /\ workers[w].at = "propose"
    /\ plan = "none"
    /\ plan' = "proposed"
    /\ Goto(w, "assign")
    /\ UNCHANGED <<requestVars, live, queueVars, ledgerVars, run, thread, calls>>

\* The last of the required nodes is accepted.
AcceptAssignments(w) ==
    /\ workers[w].at = "assign"
    /\ run = "unconfirmed"
    /\ plan' = "assigned"
    /\ Goto(w, "checkpoint")
    /\ UNCHANGED <<requestVars, live, queueVars, ledgerVars, run, thread, calls>>

\* The thread's state is written, waiting for the approval.
PauseForApproval(w) ==
    /\ workers[w].at = "checkpoint"
    /\ thread' = [thread EXCEPT !.next = "approval"]
    /\ Goto(w, "verify")
    /\ UNCHANGED <<requestVars, live, queueVars, ledgerVars, workflowVars, calls>>

VerifyPlan(w) ==
    /\ workers[w].at = "verify"
    /\ thread.next = "approval" /\ plan = "assigned" /\ run = "unconfirmed"
    /\ Granted("plan")
    /\ Goto(w, "commit")
    /\ UNCHANGED <<requestVars, live, queueVars, ledgerVars, workflowVars, thread, calls>>

-----------------------------------------------------------------------------
\* createQueenDurableApproval: resume the thread at its approval node, then
\* go through the nodes of queen-task-graph until it ends.
ResumeApproval(w) ==
    /\ workers[w].at = "resume"
    /\ Granted("approve") /\ thread.next = "approval"
    /\ Goto(w, "approve")
    /\ UNCHANGED <<requestVars, live, queueVars, ledgerVars, workflowVars, thread, calls>>

ApprovalNode(w) ==
    /\ workers[w].at = "approve"
    /\ Granted("approve")
    /\ thread' = [thread EXCEPT !.next = IF decision = "approved" THEN "agent" ELSE "rejected"]
    /\ Goto(w, IF decision = "approved" THEN "step" ELSE "conclude")
    /\ UNCHANGED <<requestVars, live, queueVars, ledgerVars, workflowVars, calls>>

\* Both authorize ports: the database's answer now, and the approval's.
MayExecute == Granted("approve") /\ decision = "approved"

\* A node begins: its guards, then both authorize ports.
EnterNode(w) ==
    /\ workers[w].at = "step"
    /\ thread.next = "repair" => thread.decision = "needs_revision" /\ thread.repairs < MaxRepairs
    /\ thread.next \in {"red_team", "final_arbiter"} => thread.decision = "approved"
    /\ thread.next = "final_arbiter" /\ thread.risk = "high" => thread.red = "approved"
    /\ MayExecute
    /\ thread.next # "agent" => run = "started"
    /\ Goto(w, "call")
    /\ UNCHANGED <<requestVars, live, queueVars, ledgerVars, workflowVars, thread, calls>>

\* The execute port confirms the graph, then starts the run, each saved.
OpenRun(w) ==
    /\ workers[w].at = "call" /\ thread.next = "agent" /\ run # "started"
    /\ run' = IF run = "unconfirmed" THEN "confirmed" ELSE "started"
    /\ UNCHANGED <<requestVars, live, queueVars, ledgerVars, plan, thread, workers, calls>>

\* The port calls its agent.  Only a high-risk graph has a red-team assignment.
CallPort(w, verdict) ==
    /\ workers[w].at = "call"
    /\ thread.next = "agent" => run = "started"
    /\ thread.next = "red_team" => risk = "high"
    /\ thread.next \in {"agent", "repair"} => verdict = "approved"
    /\ calls' = Append(calls, [port |-> thread.next, attempt |-> thread.repairs,
                               live |-> live, verdict |-> verdict])
    /\ workers' = [workers EXCEPT ![w].at = "save", ![w].got = verdict]
    /\ UNCHANGED <<requestVars, live, queueVars, ledgerVars, workflowVars, thread>>

RepairOrReject(t) == IF t.repairs < MaxRepairs THEN "repair" ELSE "rejected"

\* The node's result and the edge the graph takes from it.
AfterJudge(t, v) ==
    [t EXCEPT !.decision = v,
              !.next = CASE v = "approved" -> (IF t.risk = "high" THEN "red_team" ELSE "final_arbiter")
                         [] v = "needs_revision" -> RepairOrReject(t)
                         [] v = "rejected" -> "rejected"]

AfterRedTeam(t, v) ==
    [t EXCEPT !.decision = v, !.red = v,
              !.next = CASE v = "approved" -> "final_arbiter"
                         [] v = "needs_revision" -> RepairOrReject(t)
                         [] v = "rejected" -> "rejected"]
AfterRepair(t) ==
    [t EXCEPT !.repairs = t.repairs + 1, !.decision = "pending", !.red = "pending", !.next = "judge"]
AfterNode(t, v) ==
    CASE t.next = "agent" -> [t EXCEPT !.next = "judge"]
      [] t.next = "judge" -> AfterJudge(t, v)
      [] t.next = "red_team" -> AfterRedTeam(t, v)
      [] t.next = "repair" -> AfterRepair(t)
      [] t.next = "final_arbiter" -> [t EXCEPT !.next = "completed"]

\* The node returned: its checkpoint is written.  A final arbiter that does not
\* approve has thrown.
LeaveNode(w) ==
    LET v == workers[w].got IN
    /\ workers[w].at = "save"
    /\ thread.next = "final_arbiter" => v = "approved"
    /\ thread' = AfterNode(thread, v)
    /\ workers' = [workers EXCEPT ![w].at = IF thread'.next \in Ends THEN "conclude" ELSE "step",
                                  ![w].got = "pending"]
    /\ UNCHANGED <<requestVars, live, queueVars, ledgerVars, workflowVars, calls>>

ExpectedEnd == IF decision = "approved" THEN "completed" ELSE "rejected"

\* Mutant: any end will do.
ConcludeAnyEnd(w) ==
    /\ workers[w].at = "conclude"
    /\ thread.next \in Ends
    /\ Granted("approve")
    /\ Goto(w, "commit")
    /\ UNCHANGED <<requestVars, live, queueVars, ledgerVars, workflowVars, thread, calls>>

\* An approved task whose output was rejected does not pass this check.
ConcludeApproval(w) ==
    /\ workers[w].at = "conclude"
    /\ thread.next = ExpectedEnd
    /\ Granted("approve")
    /\ Goto(w, "commit")
    /\ UNCHANGED <<requestVars, live, queueVars, ledgerVars, workflowVars, thread, calls>>

-----------------------------------------------------------------------------
Wallet == RequestPlanning \/ GrantEnds \/ \E d \in {"approved", "rejected"}: RecordApproval(d)
Consume(w) ==
    \/ \E m \in Messages: Receive(w, m)
    \/ Claim(w) \/ Commit(w) \/ Fail(w) \/ Acknowledge(w) \/ Crash(w)
Planning(w) ==
    \/ PlanNode(w) \/ ProposeTaskGraph(w) \/ AcceptAssignments(w)
    \/ PauseForApproval(w) \/ VerifyPlan(w)
Execution(w) ==
    \/ ResumeApproval(w) \/ ApprovalNode(w) \/ EnterNode(w) \/ OpenRun(w)
    \/ (\E v \in Verdicts: CallPort(w, v)) \/ LeaveNode(w) \/ ConcludeApproval(w)

Next ==
    \/ Wallet
    \/ \E e \in Events: Publish(e) \/ Overdue(e)
    \/ \E w \in Workers: Consume(w) \/ Planning(w) \/ Execution(w)

Spec == Init /\ [][Next]_vars

-----------------------------------------------------------------------------
Calls == [port: {"agent", "judge", "red_team", "repair", "final_arbiter"},
          attempt: 0..MaxRepairs, live: BOOLEAN, verdict: Verdicts]

\* Every row, message and worker has a shape the code can produce.
QueenTypeOK ==
    /\ risk \in {"low", "high"} /\ live \in BOOLEAN
    /\ decision \in {"none", "requested", "approved", "rejected"}
    /\ outbox \in [Events -> {"none", "pending", "published"}]
    /\ queue \subseteq Messages
    /\ sent \in [Events -> Nat] /\ \A e \in Events: sent[e] <= Copies[e]
    /\ ledger \in [Events -> [status: {"none", "executing", "committed", "uncertain"},
                              owner: SUBSET Workers]]
    /\ overdue \subseteq Events
    /\ plan \in {"none", "proposed", "assigned"}
    /\ run \in {"unconfirmed", "confirmed", "started"}
    /\ thread \in [next: {"queen", "approval"} \cup Ends \cup {c.port: c \in Calls},
                   risk: {"low", "high"}, repairs: 0..MaxRepairs,
                   decision: Verdicts \cup {"pending"}, red: Verdicts \cup {"pending"}]
    /\ workers \in [Workers -> [at: Stages, msg: Messages \cup {<<>>}, got: Verdicts \cup {"pending"}]]
    /\ calls \in Seq(Calls)

\* However often an event is delivered, and whoever crashes or runs late, no
\* agent is called twice for the same node and the same attempt
\* (queen-operation-ledger.ts: expiry never grants permission to rerun); and once
\* the request has expired or was revoked, or the task has moved on, at most the
\* one call that was authorized just before is still made.
AgentsCalledOnce ==
    /\ \A i, j \in DOMAIN calls:
          calls[i].port = calls[j].port /\ calls[i].attempt = calls[j].attempt => i = j
    /\ Cardinality({i \in DOMAIN calls: ~calls[i].live}) <= 1

\* A published event is deleted from the queue only when it was committed: none
\* is lost (consumeQueenWorkflowEvent deletes last).  And it is committed only when
\* its result is durable: the plan is assigned and its thread waits or went on, the
\* approval's thread has reached the end that was decided on.  The rows, the
\* messages and the thread's stages stay among those that the code can read back.
CommittedIsDurable ==
    /\ QueenTypeOK
    /\ \A e \in Events:
          outbox[e] = "published" /\ ~(\E m \in queue: m[1] = e)
              => ledger[e].status = "committed"
    /\ ledger["plan"].status = "committed" => plan = "assigned" /\ thread.next # "queen"
    /\ ledger["approve"].status = "committed" => thread.next = ExpectedEnd

\* The final arbiter is called only on an output that the judge approved after
\* its last repair and that, at high risk, the red team approved as well.
FinalOnReviewedOutput ==
    \A i \in DOMAIN calls:
        calls[i].port = "final_arbiter" =>
            \E p \in 1..(i - 1):
                /\ calls[p].port \in {"agent", "repair"}
                /\ \A j \in (p + 1)..(i - 1): calls[j].port \notin {"agent", "repair"}
                /\ \A reviewer \in {"judge"} \cup (IF risk = "high" THEN {"red_team"} ELSE {}):
                       \E j \in (p + 1)..(i - 1):
                           calls[j].port = reviewer /\ calls[j].verdict = "approved"

\* An operation whose outcome is unknown stays so: an owner that finishes late
\* neither commits it nor is it run again.
UncertainIsFinal ==
    [][\A e \in Events: ledger[e].status = "uncertain" => ledger'[e].status = "uncertain"]_vars

\* A low-risk task goes from the judge's approval to the final arbiter without
\* a red team (queen-task-graph.ts, and its test of a low-risk thread).
LowRiskSkipsRedTeam == risk = "low" => thread.next # "red_team"
=============================================================================
