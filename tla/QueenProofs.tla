---------------------------- MODULE QueenProofs ----------------------------
(***************************************************************************)
(* Theorems about the queen's side of the market: her workers, for any     *)
(* number of workers, copies of each event and repairs; the seats agents   *)
(* are routed to; and the page on which a plan is decided.                 *)
(*                                                                         *)
(* A ledger row is inserted once, so one worker at most ever carries out   *)
(* an operation; the workers' inductive invariant says that, what the      *)
(* thread holds while it does, and that the calls made so far all come     *)
(* before the node the thread stands at.                                   *)
(***************************************************************************)
EXTENDS QueenAsyncWorker, AgentRouting, PlanningConsole, CollectionsProofs, SequenceTheorems,
        FiniteSetTheorems, TLAPS

Ports == {"agent", "judge", "red_team", "repair", "final_arbiter"}
Call == [port : Ports, attempt : 0..MaxRepairs, live : BOOLEAN, verdict : Verdicts]
Thread == [next : {"queen", "approval"} \cup Ends \cup Ports,
           risk : {"low", "high"}, repairs : 0..MaxRepairs,
           decision : Verdicts \cup {"pending"}, red : Verdicts \cup {"pending"}]
Worker == [at : Stages, msg : Messages \cup {<<>>}, got : Verdicts \cup {"pending"}]
LedgerRow == [status : {"none", "executing", "committed", "uncertain"}, owner : SUBSET Workers]

PlanStages == {"queen", "propose", "assign", "checkpoint", "verify"}
ApproveStages == {"resume", "approve", "step", "call", "save", "conclude"}

\* The order in which the nodes of one thread are called.
Rank(port, attempt) ==
    4 * attempt + (CASE port = "agent" -> 0 [] port = "judge" -> 1 [] port = "red_team" -> 2
                     [] OTHER -> 3)
RankOf(c) == Rank(c.port, c.attempt)
Here == Rank(thread.next, thread.repairs)
Behind(n) == \A i \in DOMAIN calls : RankOf(calls[i]) < n

\* The output that was made last, and who approved it since.
LastOutput(p) ==
    /\ p \in DOMAIN calls /\ calls[p].port \in {"agent", "repair"}
    /\ \A j \in (p + 1)..Len(calls) : calls[j].port \notin {"agent", "repair"}
ApprovedSince(p, reviewer) ==
    \E j \in (p + 1)..Len(calls) : calls[j].port = reviewer /\ calls[j].verdict = "approved"
ReviewedFor(node) ==
    node \in {"judge", "red_team", "final_arbiter"} =>
        \E p \in DOMAIN calls :
            /\ LastOutput(p)
            /\ node # "judge" => ApprovedSince(p, "judge")
            /\ node = "final_arbiter" => ApprovedSince(p, "red_team")

\* What a worker holds: a message, and while it works the row it inserted itself.
Entitled(w, k) ==
    /\ k.at # "idle" => k.msg \in Messages
    /\ k.at # "idle" /\ k.msg[1] = "approve" => decision \in {"approved", "rejected"}
    /\ k.at \in Working => /\ ledger[k.msg[1]].owner = {w}
                           /\ ledger[k.msg[1]].status \in {"executing", "uncertain"}
    /\ k.at = "ack" => ledger[k.msg[1]].status = "committed"
    /\ k.at \in PlanStages => k.msg[1] = "plan"
    /\ k.at \in ApproveStages => k.msg[1] = "approve"

\* What the worker finds at each stage.
PlanningFinds(k) ==
    /\ k.at \in {"queen", "propose", "assign", "checkpoint"} => thread.next = "queen"
    /\ k.at = "checkpoint" => plan = "assigned"
    /\ k.at = "verify" => thread.next # "queen"
    /\ k.at = "commit" /\ k.msg[1] = "plan" => plan = "assigned" /\ thread.next # "queen"
ApprovalFinds(k) ==
    /\ k.at = "resume" => thread.next \in {"queen", "approval"} /\ calls = <<>>
    /\ k.at = "approve" => thread.next = "approval" /\ calls = <<>>
    /\ k.at \in {"step", "call", "save"} => thread.next \in Ports /\ ReviewedFor(thread.next)
    /\ k.at \in {"step", "call"} => Behind(Here)
    /\ k.at = "call" => \A i \in DOMAIN calls : calls[i].live
    /\ k.at = "save" =>
         /\ k.got \in Verdicts /\ Behind(Here + 1) /\ Len(calls) > 0
         /\ calls[Len(calls)].port = thread.next /\ calls[Len(calls)].verdict = k.got
    /\ k.at = "conclude" => thread.next \in Ends
    /\ k.at = "commit" /\ k.msg[1] = "approve" => thread.next = ExpectedEnd

WorkersSound ==
    \A w \in Workers : /\ Entitled(w, workers[w]) /\ PlanningFinds(workers[w])
                       /\ ApprovalFinds(workers[w])

ThreadSound ==
    /\ thread.risk = "high"
    /\ thread.next = "repair" => thread.repairs < MaxRepairs
    /\ ledger["plan"].status = "none" => thread.next = "queen"
    /\ ledger["approve"].status = "none" => thread.next \in {"queen", "approval"} /\ calls = <<>>
    /\ ledger["approve"].status # "none" => decision \in {"approved", "rejected"}

CallsSound ==
    /\ \A i, j \in DOMAIN calls : i < j => RankOf(calls[i]) < RankOf(calls[j])
    /\ \A i \in DOMAIN calls : ~calls[i].live => i = Len(calls) /\ ~live
    /\ FinalOnReviewedOutput

Delivered ==
    \A e \in Events :
        /\ outbox[e] = "published" => sent[e] > 0
        /\ sent[e] > 0 /\ ~(\E m \in queue : m[1] = e) => ledger[e].status = "committed"

CommitsDurable ==
    /\ ledger["plan"].status = "committed" => plan = "assigned" /\ thread.next # "queen"
    /\ ledger["approve"].status = "committed" => thread.next = ExpectedEnd

QueenIInv ==
    QueenTypeOK /\ WorkersSound /\ ThreadSound /\ CallsSound /\ Delivered /\ CommitsDurable

LEMMA PortsOfCalls == Calls = Call /\ {c.port : c \in Calls} = Ports
<1>1. Calls = Call
  BY DEF Calls, Call, Ports
<1>2. ASSUME NEW x \in Ports PROVE x \in {c.port : c \in Call}
  <2>. DEFINE c == [port |-> x, attempt |-> 0, live |-> TRUE, verdict |-> "approved"]
  <2>1. c \in Call /\ c.port = x
    BY QueenConstants DEF Call, Verdicts
  <2>. HIDE DEF c
  <2>. QED
    BY <2>1
<1>3. \A c \in Call : c.port \in Ports
  BY DEF Call
<1>. QED
  BY <1>1, <1>2, <1>3

LEMMA Typed ==
  QueenTypeOK <=>
    /\ risk \in {"low", "high"} /\ live \in BOOLEAN
    /\ decision \in {"none", "requested", "approved", "rejected"}
    /\ outbox \in [Events -> {"none", "pending", "published"}]
    /\ queue \subseteq Messages
    /\ sent \in [Events -> Nat] /\ \A e \in Events : sent[e] <= Copies[e]
    /\ ledger \in [Events -> LedgerRow] /\ overdue \subseteq Events
    /\ plan \in {"none", "proposed", "assigned"}
    /\ run \in {"unconfirmed", "confirmed", "started"}
    /\ thread \in Thread /\ workers \in [Workers -> Worker] /\ calls \in Seq(Call)
BY PortsOfCalls DEF QueenTypeOK, Thread, Worker, LedgerRow, Call

LEMMA MessageEvents == \A m \in Messages : m[1] \in Events
BY DEF Messages

LEMMA StagesApart ==
  /\ PlanStages \cup ApproveStages \cup {"commit"} = Working
  /\ PlanStages \cap ApproveStages = {} /\ "plan" \in Events /\ "approve" \in Events
  /\ Ends \cap Ports = {} /\ \A e \in Events : e = "plan" \/ e = "approve"
BY DEF PlanStages, ApproveStages, Working, Stages, Ends, Ports, Events

LEMMA IdleWorker ==
  /\ Idle \in Worker /\ Idle.at = "idle" /\ Idle.got = "pending"
  /\ \A w \in Workers : Entitled(w, Idle) /\ PlanningFinds(Idle) /\ ApprovalFinds(Idle)
<1>1. Idle \in Worker /\ Idle.at = "idle" /\ Idle.got = "pending"
  BY DEF Idle, Worker, Stages
<1>. QED
  BY <1>1 DEF Entitled, PlanningFinds, ApprovalFinds, Working, PlanStages, ApproveStages

LEMMA InitQueenIInv == Init => QueenIInv
<1>. SUFFICES ASSUME Init PROVE QueenIInv
  OBVIOUS
<1>1. thread \in Thread /\ thread.next = "queen" /\ thread.risk = "high" /\ calls = <<>>
  BY QueenConstants DEF Init, Thread, DefaultRisk
<1>2. workers \in [Workers -> Worker] /\ \A w \in Workers : workers[w] = Idle
  BY IdleWorker DEF Init
<1>3. calls \in Seq(Call) /\ DOMAIN calls = {} /\ Len(calls) = 0
  BY <1>1
<1>4. QueenTypeOK
  BY <1>1, <1>2, <1>3, Typed, QueenConstants DEF Init, LedgerRow, Events
<1>5. WorkersSound
  BY <1>2, IdleWorker DEF WorkersSound
<1>6. \A e \in Events : ledger[e].status = "none" /\ outbox[e] = "none" /\ sent[e] = 0
  BY DEF Init
<1>7. ThreadSound /\ CommitsDurable /\ Delivered
  BY <1>1, <1>6, StagesApart DEF ThreadSound, CommitsDurable, Delivered
<1>8. CallsSound
  BY <1>3 DEF CallsSound, FinalOnReviewedOutput
<1>. QED
  BY <1>4, <1>5, <1>7, <1>8 DEF QueenIInv

----------------------------------------------------------------------------
LEMMA Frame ==
  ASSUME NEW w, NEW k, UNCHANGED <<ledger, decision, plan, thread, calls>>,
         Entitled(w, k), PlanningFinds(k), ApprovalFinds(k)
  PROVE  Entitled(w, k)' /\ PlanningFinds(k)' /\ ApprovalFinds(k)'
<1>1. Entitled(w, k)' /\ PlanningFinds(k)'
  BY DEF Entitled, PlanningFinds
<1>2. Behind(Here)' <=> Behind(Here)
  BY DEF Behind, Here
<1>3. Behind(Here + 1)' <=> Behind(Here + 1)
  BY DEF Behind, Here
<1>4. ReviewedFor(thread.next)' <=> ReviewedFor(thread.next)
  BY DEF ReviewedFor, LastOutput, ApprovedSince
<1>5. ExpectedEnd' = ExpectedEnd
  BY DEF ExpectedEnd
<1>6. ApprovalFinds(k)'
  BY <1>2, <1>3, <1>4, <1>5 DEF ApprovalFinds
<1>. QED
  BY <1>1, <1>6

\* An operation has one worker.
LEMMA OneWorker ==
  ASSUME QueenIInv, NEW v \in Workers, NEW w \in Workers, v # w,
         workers[v].at \in Working, workers[w].at \in Working
  PROVE  workers[v].msg[1] # workers[w].msg[1]
<1>1. ledger[workers[v].msg[1]].owner = {v} /\ ledger[workers[w].msg[1]].owner = {w}
  BY DEF QueenIInv, WorkersSound, Entitled
<1>. QED
  BY <1>1

LEMMA WorkerMoves ==
  ASSUME QueenIInv, NEW w \in Workers, NEW k \in Worker,
         Entitled(w, k), PlanningFinds(k), ApprovalFinds(k),
         workers' = [workers EXCEPT ![w] = k],
         UNCHANGED <<risk, live, decision, outbox, queue, sent, ledger, overdue, plan, run,
                     thread, calls>>
  PROVE  QueenIInv'
<1>1. QueenTypeOK /\ workers \in [Workers -> Worker]
  BY Typed DEF QueenIInv
<1>2. workers' \in [Workers -> Worker]
  BY <1>1
<1>3. QueenTypeOK'
  BY <1>1, <1>2 DEF QueenTypeOK, Worker
<1>4. WorkersSound'
  <2>1. SUFFICES ASSUME NEW v \in Workers
                 PROVE  /\ Entitled(v, workers[v])' /\ PlanningFinds(workers[v])'
                        /\ ApprovalFinds(workers[v])'
    BY DEF WorkersSound
  <2>2. PICK x : x = workers'[v]
    OBVIOUS
  <2>3. Entitled(v, x) /\ PlanningFinds(x) /\ ApprovalFinds(x)
    BY <1>1, <2>2 DEF QueenIInv, WorkersSound
  <2>4. Entitled(v, x)' /\ PlanningFinds(x)' /\ ApprovalFinds(x)'
    BY <2>3, Frame
  <2>. QED
    BY <2>2, <2>4
<1>5. ThreadSound' /\ CallsSound' /\ Delivered' /\ CommitsDurable'
  BY DEF QueenIInv, ThreadSound, CallsSound, FinalOnReviewedOutput, Delivered, CommitsDurable,
         ExpectedEnd
<1>. QED
  BY <1>3, <1>4, <1>5 DEF QueenIInv

\* A row of the ledger changes: it is claimed, becomes uncertain or is committed.
LEMMA LedgerMoves ==
  ASSUME QueenIInv, NEW w \in Workers, NEW k \in Worker, NEW e \in Events, NEW r \in LedgerRow,
         ledger' = [ledger EXCEPT ![e] = r], workers' = [workers EXCEPT ![w] = k],
         overdue' \subseteq overdue,
         UNCHANGED <<risk, live, decision, outbox, queue, sent, plan, run, thread, calls>>,
         ledger[e].status \in {"none", "executing"}, r.status # "none",
         Entitled(w, k)', PlanningFinds(k), ApprovalFinds(k),
         \/ r.status = "uncertain" /\ r.owner = ledger[e].owner
         \/ \A v \in Workers \ {w} : workers[v].at \in Working => workers[v].msg[1] # e,
         e = "approve" => decision \in {"approved", "rejected"},
         r.status = "committed" => /\ e = "plan" => plan = "assigned" /\ thread.next # "queen"
                                   /\ e = "approve" => thread.next = ExpectedEnd
  PROVE  QueenIInv'
<1>1. QueenTypeOK /\ workers \in [Workers -> Worker] /\ ledger \in [Events -> LedgerRow]
  BY Typed DEF QueenIInv
<1>2. workers' \in [Workers -> Worker] /\ ledger' \in [Events -> LedgerRow]
  BY <1>1
<1>3. \A x \in Events : ledger'[x] = IF x = e THEN r ELSE ledger[x]
  BY <1>1
<1>4. QueenTypeOK'
  BY <1>1, <1>2 DEF QueenTypeOK, Worker, LedgerRow
<1>5. ASSUME NEW v \in Workers
      PROVE  Entitled(v, workers[v])' /\ PlanningFinds(workers[v])' /\ ApprovalFinds(workers[v])'
  <2>1. PICK x \in Worker : x = workers'[v]
    BY <1>2
  <2>2. PlanningFinds(x) /\ ApprovalFinds(x)
    BY <1>1, <2>1 DEF QueenIInv, WorkersSound
  <2>3. Behind(Here)' <=> Behind(Here)
    BY DEF Behind, Here
  <2>4. Behind(Here + 1)' <=> Behind(Here + 1)
    BY DEF Behind, Here
  <2>5. (ReviewedFor(thread.next)' <=> ReviewedFor(thread.next)) /\ ExpectedEnd' = ExpectedEnd
    BY DEF ReviewedFor, LastOutput, ApprovedSince, ExpectedEnd
  <2>6. PlanningFinds(x)' /\ ApprovalFinds(x)'
    BY <2>2, <2>3, <2>4, <2>5 DEF PlanningFinds, ApprovalFinds
  <2>7. Entitled(v, x)'
    <3>1. CASE v = w
      <4>1. x = k
        BY <1>1, <2>1, <3>1
      <4>. QED
        BY <3>1, <4>1
    <3>2. CASE v # w
      <4>1. x = workers[v] /\ Entitled(v, x)
        BY <1>1, <2>1, <3>2 DEF QueenIInv, WorkersSound
      <4>2. x.at # "idle" => x.msg[1] \in Events
        BY <4>1, MessageEvents DEF Entitled
      <4>3. "idle" \notin Working /\ "ack" # "idle"
        BY DEF Working
      <4>4. x.at \in Working => x.at # "idle"
        BY <4>3
      <4>5. x.at \in Working => /\ ledger'[x.msg[1]].owner = {v}
                                /\ ledger'[x.msg[1]].status \in {"executing", "uncertain"}
        BY <1>3, <3>2, <4>1, <4>2, <4>4 DEF Entitled
      <4>6. x.at = "ack" => ledger'[x.msg[1]].status = "committed"
        BY <1>3, <4>1, <4>2 DEF Entitled
      <4>. QED
        BY <4>1, <4>5, <4>6 DEF Entitled
    <3>. QED
      BY <3>1, <3>2
  <2>. QED
    BY <2>1, <2>6, <2>7
<1>6. ThreadSound'
  BY <1>3, StagesApart DEF QueenIInv, ThreadSound
<1>7. Delivered'
  BY <1>3 DEF QueenIInv, Delivered
<1>8. CommitsDurable'
  BY <1>3, StagesApart DEF QueenIInv, CommitsDurable, ExpectedEnd
<1>9. CallsSound'
  BY DEF QueenIInv, CallsSound, FinalOnReviewedOutput
<1>. QED
  BY <1>4, <1>5, <1>6, <1>7, <1>8, <1>9 DEF QueenIInv, WorkersSound

\* Rows of the request, messages and clocks change; a decision that was taken stays.
LEMMA RequestMoves ==
  ASSUME QueenIInv,
         UNCHANGED <<risk, ledger, plan, run, thread, calls>>,
         \/ workers' = workers
         \/ \E w \in Workers : workers' = [workers EXCEPT ![w] = Idle],
         live' \in BOOLEAN, live' => live, overdue' \subseteq Events,
         decision' \in {"none", "requested", "approved", "rejected"},
         decision \in {"approved", "rejected"} => decision' = decision,
         outbox' \in [Events -> {"none", "pending", "published"}],
         queue' \subseteq Messages, sent' \in [Events -> Nat],
         \A e \in Events : sent'[e] <= Copies[e], Delivered'
  PROVE  QueenIInv'
<1>1. QueenTypeOK /\ workers \in [Workers -> Worker]
  BY Typed DEF QueenIInv
<1>2. workers' \in [Workers -> Worker] /\ \A v \in Workers : workers'[v] \in {workers[v], Idle}
  BY <1>1, IdleWorker
<1>3. QueenTypeOK'
  BY <1>1, <1>2 DEF QueenTypeOK, Worker
<1>4. ASSUME NEW v \in Workers
      PROVE  Entitled(v, workers[v])' /\ PlanningFinds(workers[v])' /\ ApprovalFinds(workers[v])'
  <2>1. PICK x \in Worker : x = workers'[v]
    BY <1>2
  <2>2. Entitled(v, x) /\ PlanningFinds(x) /\ ApprovalFinds(x)
    BY <1>2, <2>1, IdleWorker DEF QueenIInv, WorkersSound
  <2>3. Behind(Here)' <=> Behind(Here)
    BY DEF Behind, Here
  <2>4. Behind(Here + 1)' <=> Behind(Here + 1)
    BY DEF Behind, Here
  <2>5. ReviewedFor(thread.next)' <=> ReviewedFor(thread.next)
    BY DEF ReviewedFor, LastOutput, ApprovedSince
  <2>6. Entitled(v, x)' /\ PlanningFinds(x)'
    BY <2>2 DEF Entitled, PlanningFinds
  <2>7. x.at = "commit" /\ x.msg[1] = "approve" => ExpectedEnd' = ExpectedEnd
    BY <2>2 DEF Entitled, ExpectedEnd
  <2>8. ApprovalFinds(x)'
    BY <2>2, <2>3, <2>4, <2>5, <2>7 DEF ApprovalFinds
  <2>. QED
    BY <2>1, <2>6, <2>8
<1>5. ThreadSound'
  BY DEF QueenIInv, ThreadSound
<1>6. CallsSound'
  <2>1. CallsSound /\ calls' = calls
    BY DEF QueenIInv
  <2>2. FinalOnReviewedOutput'
    <3>1. risk' = risk /\ FinalOnReviewedOutput
      BY <2>1 DEF CallsSound
    <3>. QED
      BY ONLY <2>1, <3>1 DEF FinalOnReviewedOutput
  <2>3. ~live => ~live'
    OBVIOUS
  <2>4. \A i \in DOMAIN calls : ~calls[i].live => i = Len(calls) /\ ~live'
    BY <2>1, <2>3 DEF CallsSound
  <2>. QED
    BY <2>1, <2>2, <2>4 DEF CallsSound
<1>7. CommitsDurable'
  <2>1. ledger["approve"].status = "committed" => ExpectedEnd' = ExpectedEnd
    BY DEF QueenIInv, ThreadSound, ExpectedEnd
  <2>. QED
    BY <2>1 DEF QueenIInv, CommitsDurable
<1>. QED
  BY <1>3, <1>4, <1>5, <1>6, <1>7 DEF QueenIInv, WorkersSound

----------------------------------------------------------------------------
LEMMA WalletKeeps ==
  ASSUME QueenIInv, Wallet
  PROVE  QueenIInv'
<1>1. /\ outbox \in [Events -> {"none", "pending", "published"}] /\ queue \subseteq Messages
      /\ sent \in [Events -> Nat] /\ \A e \in Events : sent[e] <= Copies[e]
      /\ overdue \subseteq Events /\ live \in BOOLEAN /\ Delivered
      /\ decision \in {"none", "requested", "approved", "rejected"}
  BY Typed DEF QueenIInv
<1>2. CASE GrantEnds
  <2>1. Delivered'
    BY <1>1, <1>2 DEF GrantEnds, requestVars, queueVars, ledgerVars, Delivered
  <2>. QED
    BY <1>1, <1>2, <2>1, RequestMoves
       DEF GrantEnds, requestVars, queueVars, ledgerVars, workflowVars
<1>3. ASSUME NEW e \in Events, NEW d \in {"requested", "approved", "rejected"},
             decision \notin {"approved", "rejected"}, decision' = d,
             outbox' = [outbox EXCEPT ![e] = "pending"],
             UNCHANGED <<risk, live, queueVars, ledgerVars, workflowVars, thread, workers, calls>>
      PROVE  QueenIInv'
  <2>1. outbox' \in [Events -> {"none", "pending", "published"}]
    BY <1>1, <1>3
  <2>2. \A x \in Events : outbox'[x] = "published" => outbox[x] = "published"
    BY <1>1, <1>3
  <2>3. Delivered'
    BY <1>1, <1>3, <2>2 DEF queueVars, ledgerVars, Delivered
  <2>. QED
    BY <1>1, <1>3, <2>1, <2>3, RequestMoves DEF queueVars, ledgerVars, workflowVars
<1>. QED
  BY <1>2, <1>3, StagesApart DEF Wallet, RequestPlanning, RecordApproval

LEMMA PublishKeeps ==
  ASSUME QueenIInv, NEW e \in Events, Publish(e)
  PROVE  QueenIInv'
<1>1. /\ outbox \in [Events -> {"none", "pending", "published"}] /\ queue \subseteq Messages
      /\ sent \in [Events -> Nat] /\ \A x \in Events : sent[x] <= Copies[x] /\ Copies[x] \in Nat
      /\ overdue \subseteq Events /\ live \in BOOLEAN /\ Delivered
      /\ decision \in {"none", "requested", "approved", "rejected"}
  BY Typed, QueenConstants DEF QueenIInv
<1>2. PICK n : n = sent[e] + 1
  OBVIOUS
<1>3. n \in 1..Copies[e] /\ <<e, n>> \in Messages
  BY <1>1, <1>2 DEF Publish, Messages
<1>4. PICK status \in {"pending", "published"} : outbox' = [outbox EXCEPT ![e] = status]
  BY DEF Publish
<1>5. /\ queue' = queue \cup {<<e, n>>} /\ sent' = [sent EXCEPT ![e] = @ + 1]
      /\ UNCHANGED <<risk, live, decision, ledgerVars, workflowVars, thread, workers, calls>>
  BY <1>2 DEF Publish
<1>6. outbox' \in [Events -> {"none", "pending", "published"}]
  BY <1>1, <1>4
<1>7. \A x \in Events : x # e => outbox'[x] = outbox[x] /\ sent'[x] = sent[x]
  BY <1>1, <1>4, <1>5
<1>8. sent' \in [Events -> Nat] /\ sent'[e] > 0 /\ sent'[e] <= Copies[e]
  BY <1>1, <1>2, <1>3, <1>5
<1>9. \A x \in Events : sent'[x] <= Copies[x]
  BY <1>1, <1>7, <1>8
<1>10. Delivered'
  <2>1. SUFFICES ASSUME NEW x \in Events
                 PROVE  /\ outbox'[x] = "published" => sent'[x] > 0
                        /\ sent'[x] > 0 /\ ~(\E m \in queue' : m[1] = x)
                             => ledger'[x].status = "committed"
    BY DEF Delivered
  <2>2. CASE x = e
    <3>1. <<e, n>> \in queue' /\ <<e, n>>[1] = e
      BY <1>5
    <3>. QED
      BY <1>1, <1>8, <2>2, <3>1
  <2>3. CASE x # e
    BY <1>1, <1>5, <1>7, <2>3 DEF Delivered, ledgerVars
  <2>. QED
    BY <2>2, <2>3
<1>11. queue' \subseteq Messages
  BY <1>1, <1>3, <1>5
<1>. QED
  BY <1>1, <1>5, <1>6, <1>8, <1>9, <1>10, <1>11, RequestMoves DEF ledgerVars, workflowVars

LEMMA OverdueKeeps ==
  ASSUME QueenIInv, NEW e \in Events, Overdue(e)
  PROVE  QueenIInv'
<1>1. /\ outbox \in [Events -> {"none", "pending", "published"}] /\ queue \subseteq Messages
      /\ sent \in [Events -> Nat] /\ \A x \in Events : sent[x] <= Copies[x]
      /\ overdue \subseteq Events /\ live \in BOOLEAN /\ Delivered
      /\ decision \in {"none", "requested", "approved", "rejected"}
  BY Typed DEF QueenIInv
<1>2. Delivered' /\ overdue' \subseteq Events
  BY <1>1 DEF Overdue, requestVars, queueVars, Delivered
<1>. QED
  BY <1>1, <1>2, RequestMoves DEF Overdue, requestVars, queueVars, workflowVars

\* The message is deleted last, when its operation is known to be committed.
LEMMA AcknowledgeKeeps ==
  ASSUME QueenIInv, NEW w \in Workers, Acknowledge(w)
  PROVE  QueenIInv'
<1>1. /\ outbox \in [Events -> {"none", "pending", "published"}] /\ queue \subseteq Messages
      /\ sent \in [Events -> Nat] /\ \A x \in Events : sent[x] <= Copies[x]
      /\ overdue \subseteq Events /\ live \in BOOLEAN /\ Delivered
      /\ decision \in {"none", "requested", "approved", "rejected"}
  BY Typed DEF QueenIInv
<1>2. PICK m : m = workers[w].msg
  OBVIOUS
<1>3. ledger[m[1]].status = "committed" /\ queue' \in {queue, queue \ {m}}
  BY <1>2 DEF Acknowledge, QueenIInv, WorkersSound, Entitled
<1>4. Delivered'
  <2>1. SUFFICES ASSUME NEW x \in Events, ledger[x].status # "committed"
                 PROVE  (\E y \in queue : y[1] = x) => (\E y \in queue' : y[1] = x)
    BY <1>1 DEF Delivered, Acknowledge, requestVars, ledgerVars
  <2>. QED
    BY <1>3, <2>1
<1>5. queue' \subseteq Messages
  BY <1>1, <1>3
<1>. QED
  BY <1>1, <1>4, <1>5, RequestMoves DEF Acknowledge, requestVars, ledgerVars, workflowVars

LEMMA ReceiveKeeps ==
  ASSUME QueenIInv, NEW w \in Workers, NEW m \in Messages, Receive(w, m)
  PROVE  QueenIInv'
<1>. DEFINE k == [Idle EXCEPT !.at = "claim", !.msg = m]
<1>1. k \in Worker /\ k.at = "claim" /\ k.msg = m
  BY DEF Idle, Worker, Stages
<1>2. /\ workers' = [workers EXCEPT ![w] = k]
      /\ UNCHANGED <<risk, live, decision, outbox, queue, sent, ledger, overdue, plan, run,
                     thread, calls>>
  BY DEF Receive, requestVars, queueVars, ledgerVars, workflowVars
<1>. HIDE DEF k
<1>3. Entitled(w, k) /\ PlanningFinds(k) /\ ApprovalFinds(k)
  BY <1>1 DEF Receive, Granted, Entitled, PlanningFinds, ApprovalFinds, Working, PlanStages,
              ApproveStages
<1>. QED
  BY <1>1, <1>2, <1>3, WorkerMoves

LEMMA WorkerStops ==
  ASSUME QueenIInv, NEW w \in Workers, workers' = [workers EXCEPT ![w] = Idle],
         UNCHANGED <<risk, live, decision, outbox, queue, sent, ledger, overdue, plan, run,
                     thread, calls>>
  PROVE  QueenIInv'
BY IdleWorker, WorkerMoves

\* A worker that goes on to a stage where the same is found.
LEMMA StageMoves ==
  ASSUME QueenIInv, NEW w \in Workers, NEW stage \in Stages,
         workers' = [workers EXCEPT ![w].at = stage],
         UNCHANGED <<risk, live, decision, outbox, queue, sent, ledger, overdue, plan, run,
                     thread, calls>>,
         NEW k, k = [workers[w] EXCEPT !.at = stage],
         Entitled(w, k), PlanningFinds(k), ApprovalFinds(k)
  PROVE  QueenIInv'
<1>1. workers[w] \in Worker
  BY Typed DEF QueenIInv
<1>2. k \in Worker
  BY <1>1 DEF Worker
<1>. QED
  BY <1>2, WorkerMoves

LEMMA ClaimKeeps ==
  ASSUME QueenIInv, NEW w \in Workers, Claim(w)
  PROVE  QueenIInv'
<1>1. PICK k \in Worker : k = workers[w]
  BY Typed DEF QueenIInv
<1>2. PICK e : e = k.msg[1]
  OBVIOUS
<1>3. /\ k.at = "claim" /\ Event(w) = e /\ e \in Events /\ Entitled(w, k)
      /\ e = "approve" => decision \in {"approved", "rejected"}
  BY <1>1, <1>2, MessageEvents DEF Claim, Event, QueenIInv, WorkersSound, Entitled
<1>4. /\ UNCHANGED <<risk, live, decision, outbox, queue, sent, plan, run, thread, calls>>
      /\ ledger \in [Events -> LedgerRow] /\ overdue \subseteq Events
  BY Typed DEF Claim, requestVars, queueVars, workflowVars, QueenIInv
<1>5. CASE MayRun(e) /\ UNCHANGED overdue
           /\ ledger' = [ledger EXCEPT ![e] = [status |-> "executing", owner |-> {w}]]
           /\ Goto(w, IF e = "plan" THEN "queen" ELSE "resume")
  <2>1. PICK r : r = [status |-> "executing", owner |-> {w}]
    OBVIOUS
  <2>2. r \in LedgerRow /\ r.status = "executing" /\ r.owner = {w}
    BY <2>1 DEF LedgerRow
  <2>3. PICK stage : stage = IF e = "plan" THEN "queen" ELSE "resume"
    OBVIOUS
  <2>. DEFINE x == [k EXCEPT !.at = stage]
  <2>4. x \in Worker /\ x.at = stage /\ x.msg = k.msg
    BY <2>3 DEF Worker, Stages
  <2>5. workers' = [workers EXCEPT ![w] = x] /\ ledger' = [ledger EXCEPT ![e] = r]
    BY <1>1, <1>5, <2>1, <2>3 DEF Goto
  <2>. HIDE DEF x
  <2>6. ledger'[e] = r /\ ledger[e].status = "none"
    BY <1>3, <1>4, <1>5, <2>5 DEF MayRun
  <2>7. Entitled(w, x)'
    <3>1. /\ x.msg \in Messages /\ x.msg[1] = e
          /\ x.msg[1] = "approve" => decision \in {"approved", "rejected"}
      BY <1>2, <1>3, <2>4 DEF Entitled
    <3>2. /\ x.at # "ack"
          /\ x.at \in PlanStages => e = "plan"
          /\ x.at \in ApproveStages => e = "approve"
      BY <1>3, <2>3, <2>4 DEF PlanStages, ApproveStages, Events
    <3>3. /\ ledger'[x.msg[1]].owner = {w} /\ ledger'[x.msg[1]].status = "executing"
          /\ decision' = decision
      BY <1>4, <2>2, <2>6, <3>1
    <3>. QED
      BY ONLY <3>1, <3>2, <3>3 DEF Entitled
  <2>8. PlanningFinds(x) /\ ApprovalFinds(x)
    <3>1. CASE e = "plan"
      BY <2>3, <2>4, <2>6, <3>1 DEF QueenIInv, ThreadSound, PlanningFinds, ApprovalFinds
    <3>2. CASE e # "plan"
      <4>1. e = "approve"
        BY <1>3, <3>2, StagesApart
      <4>. QED
        BY <2>3, <2>4, <2>6, <3>2, <4>1 DEF QueenIInv, ThreadSound, PlanningFinds, ApprovalFinds
    <3>. QED
      BY <3>1, <3>2
  <2>9. \A v \in Workers \ {w} : workers[v].at \in Working => workers[v].msg[1] # e
    BY <2>6 DEF QueenIInv, WorkersSound, Entitled
  <2>. QED
    BY <1>3, <1>4, <1>5, <2>2, <2>4, <2>5, <2>6, <2>7, <2>8, <2>9, LedgerMoves
<1>6. CASE /\ ledger[e].status = "executing" /\ e \in overdue
           /\ ledger' = [ledger EXCEPT ![e].status = "uncertain"] /\ overdue' = overdue \ {e}
           /\ workers' = [workers EXCEPT ![w] = Idle]
  <2>. DEFINE r == [ledger[e] EXCEPT !.status = "uncertain"]
  <2>1. r \in LedgerRow /\ r.status = "uncertain" /\ r.owner = ledger[e].owner
    BY <1>3, <1>4 DEF LedgerRow
  <2>2. ledger' = [ledger EXCEPT ![e] = r]
    BY <1>6
  <2>. HIDE DEF r
  <2>3. Entitled(w, Idle)'
    BY IdleWorker DEF Entitled, Working, PlanStages, ApproveStages
  <2>. QED
    BY <1>3, <1>4, <1>6, <2>1, <2>2, <2>3, IdleWorker, LedgerMoves
<1>7. CASE Done(e) /\ Goto(w, "ack") /\ UNCHANGED ledgerVars
  <2>. DEFINE x == [k EXCEPT !.at = "ack"]
  <2>1. x.at = "ack" /\ x.msg = k.msg
    BY DEF Worker
  <2>2. Entitled(w, x) /\ PlanningFinds(x) /\ ApprovalFinds(x)
    BY <1>2, <1>3, <1>7, <2>1 DEF Done, Entitled, PlanningFinds, ApprovalFinds, Working, PlanStages,
                            ApproveStages
  <2>. QED
    BY <1>1, <1>4, <1>7, <2>2, StageMoves DEF Goto, ledgerVars, Stages
<1>8. CASE workers' = [workers EXCEPT ![w] = Idle] /\ UNCHANGED ledgerVars
  BY <1>4, <1>8, WorkerStops DEF ledgerVars
<1>. QED
  BY <1>3, <1>5, <1>6, <1>7, <1>8 DEF Claim

\* The owner's row changes when its operation ended, one way or the other.
LEMMA OwnerEnds ==
  ASSUME QueenIInv, NEW w \in Workers, workers[w].at \in Working, Holds(w),
         NEW status \in {"committed", "uncertain"}, NEW k \in Worker,
         ledger' = [ledger EXCEPT ![Event(w)].status = status],
         overdue' = overdue \ {Event(w)}, workers' = [workers EXCEPT ![w] = k],
         UNCHANGED <<risk, live, decision, outbox, queue, sent, plan, run, thread, calls>>,
         \/ k = Idle
         \/ /\ status = "committed" /\ k = [workers[w] EXCEPT !.at = "ack"],
         status = "committed" => workers[w].at = "commit"
  PROVE  QueenIInv'
<1>1. PICK o \in Worker : o = workers[w]
  BY Typed DEF QueenIInv
<1>2. PICK e : e = o.msg[1]
  OBVIOUS
<1>3. o.at # "idle" /\ "idle" \notin Working
  BY <1>1 DEF Working
<1>4. /\ Event(w) = e /\ e \in Events /\ Entitled(w, o) /\ PlanningFinds(o) /\ ApprovalFinds(o)
      /\ e = "approve" => decision \in {"approved", "rejected"}
      /\ o.msg \in Messages
  BY <1>1, <1>2, <1>3, MessageEvents DEF Event, QueenIInv, WorkersSound, Entitled
<1>5. ledger \in [Events -> LedgerRow] /\ ledger[e] = [status |-> "executing", owner |-> {w}]
  BY <1>4, Typed DEF QueenIInv, Holds
<1>. DEFINE r == [ledger[e] EXCEPT !.status = status]
<1>6. r \in LedgerRow /\ r.status = status /\ r.owner = {w}
  BY <1>4, <1>5 DEF LedgerRow
<1>7. ledger' = [ledger EXCEPT ![e] = r]
  BY <1>4
<1>. HIDE DEF r
<1>8. ledger'[e].status = status
  BY <1>4, <1>5, <1>6, <1>7
<1>9. Entitled(w, k)' /\ PlanningFinds(k) /\ ApprovalFinds(k)
  <2>1. CASE k = Idle
    BY <2>1, IdleWorker DEF Entitled, Working, PlanStages, ApproveStages
  <2>2. CASE status = "committed" /\ k = [o EXCEPT !.at = "ack"]
    <3>1. k.at = "ack" /\ k.msg = o.msg
      BY <2>2 DEF Worker
    <3>. QED
      BY <1>2, <1>4, <1>8, <2>2, <3>1 DEF Entitled, PlanningFinds, ApprovalFinds, Working,
                                       PlanStages, ApproveStages
  <2>. QED
    BY <1>1, <2>1, <2>2
<1>10. \A v \in Workers \ {w} : workers[v].at \in Working => workers[v].msg[1] # e
  BY <1>1, <1>2, OneWorker
<1>11. r.status = "committed" => /\ e = "plan" => plan = "assigned" /\ thread.next # "queen"
                                 /\ e = "approve" => thread.next = ExpectedEnd
  BY <1>1, <1>2, <1>4, <1>6 DEF PlanningFinds, ApprovalFinds
<1>12. overdue' \subseteq overdue /\ ledger[e].status \in {"none", "executing"}
       /\ r.status # "none"
  BY <1>5, <1>6
<1>. QED
  BY <1>4, <1>5, <1>6, <1>7, <1>9, <1>10, <1>11, <1>12, LedgerMoves

LEMMA CommitOrFailKeeps ==
  ASSUME QueenIInv, NEW w \in Workers, Commit(w) \/ Fail(w)
  PROVE  QueenIInv'
<1>1. workers[w].at \in Working /\ workers[w] \in Worker
      /\ UNCHANGED <<risk, live, decision, outbox, queue, sent, plan, run, thread, calls>>
  BY Typed DEF Commit, Fail, Working, Stages, requestVars, queueVars, workflowVars, QueenIInv
<1>2. CASE Commit(w) /\ Holds(w)
  <2>. DEFINE k == [workers[w] EXCEPT !.at = "ack"]
  <2>1. k \in Worker
    BY <1>1 DEF Worker, Stages
  <2>2. /\ workers' = [workers EXCEPT ![w] = k] /\ workers[w].at = "commit"
        /\ ledger' = [ledger EXCEPT ![Event(w)].status = "committed"]
        /\ overdue' = overdue \ {Event(w)}
    BY <1>2 DEF Commit, Goto
  <2>. QED
    BY <1>1, <1>2, <2>1, <2>2, OwnerEnds
<1>3. CASE Fail(w) /\ Holds(w)
  <2>1. /\ ledger' = [ledger EXCEPT ![Event(w)].status = "uncertain"]
        /\ overdue' = overdue \ {Event(w)} /\ workers' = [workers EXCEPT ![w] = Idle]
    BY <1>3 DEF Fail
  <2>. QED
    BY <1>1, <1>3, <2>1, IdleWorker, OwnerEnds
<1>4. CASE ~Holds(w)
  BY <1>1, <1>4, WorkerStops DEF Commit, Fail, ledgerVars
<1>. QED
  BY <1>2, <1>3, <1>4

----------------------------------------------------------------------------
\* Planning.
LEMMA PlanningStage ==
  ASSUME QueenIInv, NEW w \in Workers, workers[w].at \in PlanStages
  PROVE  /\ workers[w] \in Worker /\ workers[w].at \in Working /\ workers[w].msg \in Messages
         /\ workers[w].msg[1] = "plan" /\ Entitled(w, workers[w]) /\ PlanningFinds(workers[w])
         /\ ledger["plan"].status \in {"executing", "uncertain"}
         /\ \A v \in Workers \ {w} : workers[v].at \in Working => workers[v].msg[1] # "plan"
<1>1. workers[w] \in Worker /\ Entitled(w, workers[w]) /\ PlanningFinds(workers[w])
  BY Typed DEF QueenIInv, WorkersSound
<1>2. workers[w].at \in Working /\ workers[w].at # "idle"
  BY DEF PlanStages, Working, Stages
<1>3. workers[w].msg[1] = "plan" /\ workers[w].msg \in Messages
      /\ ledger["plan"].status \in {"executing", "uncertain"}
  BY <1>1, <1>2 DEF Entitled
<1>. QED
  BY <1>1, <1>2, <1>3, OneWorker

LEMMA PlanReadsKeep ==
  ASSUME QueenIInv, NEW w \in Workers, PlanNode(w) \/ VerifyPlan(w)
  PROVE  QueenIInv'
<1>1. workers[w].at \in PlanStages
  BY DEF PlanNode, VerifyPlan, PlanStages
<1>2. /\ workers[w] \in Worker /\ workers[w].msg[1] = "plan" /\ Entitled(w, workers[w])
      /\ workers[w].at \in Working /\ PlanningFinds(workers[w])
  BY <1>1, PlanningStage
<1>3. PICK stage \in {"propose", "assign", "commit"} :
        /\ workers' = [workers EXCEPT ![w].at = stage]
        /\ stage = "commit" => plan = "assigned"
        /\ stage = "commit" <=> workers[w].at = "verify"
  BY DEF PlanNode, VerifyPlan, Goto
<1>4. PICK k : k = [workers[w] EXCEPT !.at = stage]
  OBVIOUS
<1>5. k.at = stage /\ k.msg = workers[w].msg /\ stage \in Stages /\ stage \in Working
  BY <1>2, <1>4 DEF Worker, Stages, Working
<1>6. Entitled(w, k)
  BY <1>2, <1>3, <1>5 DEF Entitled, Working, PlanStages, ApproveStages
<1>7. PlanningFinds(k) /\ ApprovalFinds(k)
  <2>1. stage # "commit" => thread.next = "queen"
    BY <1>2, <1>3 DEF PlanNode, VerifyPlan
  <2>2. stage = "commit" => thread.next # "queen"
    BY <1>2, <1>3 DEF PlanningFinds
  <2>. QED
    BY <1>2, <1>3, <1>5, <2>1, <2>2 DEF PlanningFinds, ApprovalFinds
<1>8. UNCHANGED <<risk, live, decision, outbox, queue, sent, ledger, overdue, plan, run, thread,
                  calls>>
  BY DEF PlanNode, VerifyPlan, requestVars, queueVars, ledgerVars, workflowVars
<1>. QED
  BY <1>3, <1>4, <1>5, <1>6, <1>7, <1>8, StageMoves

\* The plan and the thread's first checkpoint are written by the one worker that plans.
LEMMA PlanWritesKeep ==
  ASSUME QueenIInv, NEW w \in Workers,
         ProposeTaskGraph(w) \/ AcceptAssignments(w) \/ PauseForApproval(w)
  PROVE  QueenIInv'
<1>1. workers[w].at \in {"propose", "assign", "checkpoint"}
  BY DEF ProposeTaskGraph, AcceptAssignments, PauseForApproval
<1>2. workers[w].at \in PlanStages
  BY <1>1 DEF PlanStages
<1>3. /\ workers[w] \in Worker /\ workers[w].msg[1] = "plan" /\ Entitled(w, workers[w])
      /\ workers[w].at \in Working /\ PlanningFinds(workers[w]) /\ workers[w].msg \in Messages
      /\ ledger["plan"].status \in {"executing", "uncertain"}
      /\ \A v \in Workers \ {w} : workers[v].at \in Working => workers[v].msg[1] # "plan"
  BY <1>2, PlanningStage
<1>4. PICK stage \in {"assign", "checkpoint", "verify"} :
        /\ workers' = [workers EXCEPT ![w].at = stage]
        /\ stage = "checkpoint" => plan' = "assigned"
        /\ stage = "verify" <=> workers[w].at = "checkpoint"
        /\ stage = "verify" => plan' = plan /\ thread' = [thread EXCEPT !.next = "approval"]
        /\ stage # "verify" => thread' = thread /\ plan' \in {"proposed", "assigned"}
  BY <1>1 DEF ProposeTaskGraph, AcceptAssignments, PauseForApproval, Goto, workflowVars
<1>5. /\ UNCHANGED <<risk, live, decision, outbox, queue, sent, ledger, overdue, run, calls>>
      /\ plan = "assigned" => plan' = "assigned"
  BY DEF ProposeTaskGraph, AcceptAssignments, PauseForApproval, requestVars, queueVars, ledgerVars,
         workflowVars
<1>6. QueenTypeOK /\ workers \in [Workers -> Worker] /\ thread \in Thread
  BY Typed DEF QueenIInv
<1>7. thread.next = "queen"
  BY <1>1, <1>3 DEF PlanningFinds
<1>8. /\ thread' \in Thread /\ thread'.risk = thread.risk /\ thread'.repairs = thread.repairs
      /\ thread'.next = IF stage = "verify" THEN "approval" ELSE "queen"
  BY <1>4, <1>6, <1>7 DEF Thread
<1>. DEFINE k == [workers[w] EXCEPT !.at = stage]
<1>9. k \in Worker /\ k.at = stage /\ k.msg = workers[w].msg
  BY <1>3 DEF Worker, Stages
<1>10. workers' = [workers EXCEPT ![w] = k]
  BY <1>4
<1>. HIDE DEF k
<1>11. workers' \in [Workers -> Worker]
  BY <1>6, <1>9, <1>10
<1>12. QueenTypeOK'
  BY <1>4, <1>5, <1>6, <1>8, <1>11, Typed, PortsOfCalls
     DEF QueenTypeOK, Thread, Worker
<1>13. ASSUME NEW v \in Workers
       PROVE  Entitled(v, workers[v])' /\ PlanningFinds(workers[v])' /\ ApprovalFinds(workers[v])'
  <2>1. PICK x \in Worker : x = workers'[v]
    BY <1>11
  <2>2. CASE v = w
    <3>1. x = k
      BY <1>6, <1>10, <2>1, <2>2
    <3>2. Entitled(v, x)'
      BY <1>3, <1>5, <1>9, <2>2, <3>1 DEF Entitled, Working, PlanStages, ApproveStages
    <3>3. PlanningFinds(x)' /\ ApprovalFinds(x)'
      BY <1>4, <1>8, <1>9, <3>1 DEF PlanningFinds, ApprovalFinds
    <3>. QED
      BY <2>1, <3>2, <3>3
  <2>3. CASE v # w
    <3>1. x = workers[v] /\ Entitled(v, x) /\ PlanningFinds(x) /\ ApprovalFinds(x)
      BY <1>6, <1>10, <2>1, <2>3 DEF QueenIInv, WorkersSound
    <3>2. Entitled(v, x)'
      BY <1>5, <3>1 DEF Entitled
    <3>3. x.at \in Working => x.msg[1] # "plan"
      BY <1>3, <2>3, <3>1
    <3>4. x.at \notin PlanStages /\ ~(x.at = "commit" /\ x.msg[1] = "plan")
      BY <3>1, <3>3, StagesApart DEF Entitled
    <3>5. PlanningFinds(x)'
      BY <3>4 DEF PlanningFinds, PlanStages
    <3>6. /\ x.at \notin {"approve", "step", "call", "save", "conclude"}
          /\ ~(x.at = "commit" /\ x.msg[1] = "approve")
      BY <1>7, <3>1 DEF ApprovalFinds, Ports, Ends, ExpectedEnd
    <3>7. ApprovalFinds(x)'
      BY <1>5, <1>8, <3>1, <3>6 DEF ApprovalFinds
    <3>. QED
      BY <2>1, <3>1, <3>2, <3>5, <3>7
  <2>. QED
    BY <2>2, <2>3
<1>14. ThreadSound'
  BY <1>3, <1>5, <1>8 DEF QueenIInv, ThreadSound
<1>15. CallsSound' /\ Delivered'
  <2>1. CallsSound /\ Delivered
    BY DEF QueenIInv
  <2>2. FinalOnReviewedOutput' <=> FinalOnReviewedOutput
    BY ONLY <1>5 DEF FinalOnReviewedOutput
  <2>3. CallsSound'
    BY ONLY <1>5, <2>1, <2>2 DEF CallsSound
  <2>. QED
    BY ONLY <1>5, <2>1, <2>3 DEF Delivered
<1>16. CommitsDurable'
  BY <1>3, <1>5, <1>7 DEF QueenIInv, CommitsDurable, ExpectedEnd
<1>. QED
  BY <1>12, <1>13, <1>14, <1>15, <1>16 DEF QueenIInv, WorkersSound

----------------------------------------------------------------------------
\* Execution of an approved plan, or the rejection.
LEMMA ApprovalStage ==
  ASSUME QueenIInv, NEW w \in Workers, workers[w].at \in ApproveStages
  PROVE  /\ workers[w] \in Worker /\ workers[w].at \in Working /\ workers[w].msg \in Messages
         /\ workers[w].msg[1] = "approve" /\ Entitled(w, workers[w]) /\ ApprovalFinds(workers[w])
         /\ ledger["approve"].status \in {"executing", "uncertain"}
         /\ \A v \in Workers \ {w} : workers[v].at \in Working => workers[v].msg[1] # "approve"
<1>1. workers[w] \in Worker /\ Entitled(w, workers[w]) /\ ApprovalFinds(workers[w])
  BY Typed DEF QueenIInv, WorkersSound
<1>2. workers[w].at \in Working /\ workers[w].at # "idle"
  BY DEF ApproveStages, Working, Stages
<1>3. workers[w].msg[1] = "approve" /\ workers[w].msg \in Messages
      /\ ledger["approve"].status \in {"executing", "uncertain"}
  BY <1>1, <1>2 DEF Entitled
<1>. QED
  BY <1>1, <1>2, <1>3, OneWorker

LEMMA ApprovalReadsKeep ==
  ASSUME QueenIInv, NEW w \in Workers, ResumeApproval(w) \/ EnterNode(w) \/ ConcludeApproval(w)
  PROVE  QueenIInv'
<1>1. workers[w].at \in ApproveStages
  BY DEF ResumeApproval, EnterNode, ConcludeApproval, ApproveStages
<1>2. /\ workers[w] \in Worker /\ workers[w].msg[1] = "approve" /\ Entitled(w, workers[w])
      /\ workers[w].at \in Working /\ ApprovalFinds(workers[w])
  BY <1>1, ApprovalStage
<1>3. PICK stage \in {"approve", "call", "commit"} :
        /\ workers' = [workers EXCEPT ![w].at = stage]
        /\ stage = "approve" <=> workers[w].at = "resume"
        /\ stage = "call" <=> workers[w].at = "step"
        /\ stage = "commit" <=> workers[w].at = "conclude"
  BY DEF ResumeApproval, EnterNode, ConcludeApproval, Goto
<1>4. PICK k : k = [workers[w] EXCEPT !.at = stage]
  OBVIOUS
<1>5. k.at = stage /\ k.msg = workers[w].msg /\ stage \in Stages /\ stage \in Working
  BY <1>2, <1>4 DEF Worker, Stages, Working
<1>6. Entitled(w, k)
  BY <1>2, <1>3, <1>5 DEF Entitled, Working, PlanStages, ApproveStages
<1>7. PlanningFinds(k)
  BY <1>2, <1>5 DEF PlanningFinds
<1>8. ApprovalFinds(k)
  <2>1. CASE stage = "approve"
    BY <1>2, <1>3, <1>5, <2>1 DEF ApprovalFinds, ResumeApproval, EnterNode, ConcludeApproval
  <2>2. CASE stage = "call"
    <3>1. live
      BY <1>3, <2>2 DEF ResumeApproval, EnterNode, ConcludeApproval, MayExecute, Granted
    <3>2. \A i \in DOMAIN calls : calls[i].live
      BY <3>1 DEF QueenIInv, CallsSound
    <3>. QED
      BY <1>2, <1>3, <1>5, <2>2, <3>2 DEF ApprovalFinds
  <2>3. CASE stage = "commit"
    BY <1>2, <1>3, <1>5, <2>3 DEF ApprovalFinds, ResumeApproval, EnterNode, ConcludeApproval
  <2>. QED
    BY <1>3, <2>1, <2>2, <2>3
<1>9. UNCHANGED <<risk, live, decision, outbox, queue, sent, ledger, overdue, plan, run, thread,
                  calls>>
  BY DEF ResumeApproval, EnterNode, ConcludeApproval, requestVars, queueVars, ledgerVars,
         workflowVars
<1>. QED
  BY <1>3, <1>4, <1>5, <1>6, <1>7, <1>8, <1>9, StageMoves

\* The one worker that executes moves the thread on.
LEMMA ThreadMoves ==
  ASSUME QueenIInv, NEW w \in Workers, workers[w].at \in ApproveStages, thread.next # "queen",
         NEW t \in Thread, thread' = t, t.next \in Ports \cup Ends, t.risk = "high",
         t.next = "repair" => t.repairs < MaxRepairs,
         NEW k \in Worker, workers' = [workers EXCEPT ![w] = k],
         Entitled(w, k), PlanningFinds(k)', ApprovalFinds(k)',
         UNCHANGED <<risk, live, decision, outbox, queue, sent, ledger, overdue, plan, run, calls>>
  PROVE  QueenIInv'
<1>1. /\ ledger["approve"].status \in {"executing", "uncertain"}
      /\ \A v \in Workers \ {w} : workers[v].at \in Working => workers[v].msg[1] # "approve"
  BY ApprovalStage
<1>2. QueenTypeOK /\ workers \in [Workers -> Worker]
  BY Typed DEF QueenIInv
<1>3. workers' \in [Workers -> Worker]
  BY <1>2
<1>4. QueenTypeOK'
  BY <1>2, <1>3, Typed, PortsOfCalls, ZenonT(40) DEF QueenTypeOK, Thread, Worker
<1>5. t.next # "queen"
  BY DEF Ports, Ends
<1>6. ASSUME NEW v \in Workers
      PROVE  Entitled(v, workers[v])' /\ PlanningFinds(workers[v])' /\ ApprovalFinds(workers[v])'
  <2>1. PICK x \in Worker : x = workers'[v]
    BY <1>3
  <2>2. CASE v = w
    <3>1. x = k
      BY <1>2, <2>1, <2>2
    <3>2. Entitled(w, k)'
      BY DEF Entitled
    <3>. QED
      BY <2>1, <2>2, <3>1, <3>2
  <2>3. CASE v # w
    <3>1. x = workers[v] /\ Entitled(v, x) /\ PlanningFinds(x)
      BY <1>2, <2>1, <2>3 DEF QueenIInv, WorkersSound
    <3>2. Entitled(v, x)'
      BY <3>1 DEF Entitled
    <3>3. PlanningFinds(x)'
      BY <1>5, <3>1 DEF PlanningFinds
    <3>4. x.at \in Working => x.msg[1] # "approve"
      BY <1>1, <2>3, <3>1
    <3>5. x.at \notin ApproveStages /\ ~(x.at = "commit" /\ x.msg[1] = "approve")
      BY <3>1, <3>4, StagesApart DEF Entitled
    <3>6. ApprovalFinds(x)'
      BY <3>5 DEF ApprovalFinds, ApproveStages
    <3>. QED
      BY <2>1, <3>2, <3>3, <3>6
  <2>. QED
    BY <2>2, <2>3
<1>7. ThreadSound'
  BY <1>1, <1>5 DEF QueenIInv, ThreadSound
<1>8. CallsSound' /\ Delivered'
  <2>1. CallsSound /\ Delivered
    BY DEF QueenIInv
  <2>2. FinalOnReviewedOutput' <=> FinalOnReviewedOutput
    BY DEF FinalOnReviewedOutput
  <2>3. CallsSound'
    BY <2>1, <2>2 DEF CallsSound
  <2>4. Delivered'
    BY <2>1 DEF Delivered
  <2>. QED
    BY <2>3, <2>4
<1>9. CommitsDurable'
  BY <1>1, <1>5 DEF QueenIInv, CommitsDurable
<1>. QED
  BY <1>4, <1>6, <1>7, <1>8, <1>9 DEF QueenIInv, WorkersSound

LEMMA ApprovalNodeKeeps ==
  ASSUME QueenIInv, NEW w \in Workers, ApprovalNode(w)
  PROVE  QueenIInv'
<1>1. workers[w].at \in ApproveStages
  BY DEF ApprovalNode, ApproveStages
<1>2. /\ workers[w] \in Worker /\ workers[w].msg[1] = "approve" /\ Entitled(w, workers[w])
      /\ workers[w].at \in Working /\ thread.next = "approval" /\ calls = <<>>
  BY <1>1, ApprovalStage DEF ApprovalNode, ApprovalFinds
<1>3. PICK next \in {"agent", "rejected"}, stage \in {"step", "conclude"} :
        /\ thread' = [thread EXCEPT !.next = next]
        /\ workers' = [workers EXCEPT ![w].at = stage]
        /\ stage = "step" <=> next = "agent"
  BY DEF ApprovalNode, Goto
<1>4. thread \in Thread /\ thread.risk = "high"
  BY Typed DEF QueenIInv, ThreadSound
<1>5. PICK t \in Thread : t = [thread EXCEPT !.next = next] /\ t.next = next /\ t.risk = "high"
  <2>. DEFINE y == [thread EXCEPT !.next = next]
  <2>1. y \in Thread /\ y.next = next /\ y.risk = "high"
    BY <1>4 DEF Thread, Ports, Ends
  <2>. QED
    BY <2>1
<1>6. thread' = t
  BY <1>3, <1>5
<1>7. PICK k \in Worker : /\ k = [workers[w] EXCEPT !.at = stage]
                          /\ k.at = stage /\ k.msg = workers[w].msg
  <2>. DEFINE y == [workers[w] EXCEPT !.at = stage]
  <2>1. y \in Worker /\ y.at = stage /\ y.msg = workers[w].msg
    BY <1>2 DEF Worker, Stages
  <2>. QED
    BY <2>1
<1>8. workers' = [workers EXCEPT ![w] = k]
  BY <1>3, <1>7
<1>9. Entitled(w, k)
  BY <1>2, <1>7 DEF Entitled, Working, PlanStages, ApproveStages
<1>10. /\ UNCHANGED <<risk, live, decision, outbox, queue, sent, ledger, overdue, plan, run>>
       /\ calls' = <<>> /\ calls' = calls
  BY <1>2 DEF ApprovalNode, requestVars, queueVars, ledgerVars, workflowVars
<1>11. PlanningFinds(k)'
  BY <1>2, <1>7 DEF PlanningFinds
<1>12. ApprovalFinds(k)'
  <2>1. Behind(Here)'
    BY <1>10 DEF Behind
  <2>2. stage = "step" => thread'.next = "agent" /\ ReviewedFor(thread.next)'
    BY <1>3, <1>5, <1>6 DEF ReviewedFor
  <2>3. stage = "conclude" => thread'.next \in Ends
    BY <1>3, <1>5, <1>6 DEF Ends
  <2>. QED
    BY <1>7, <2>1, <2>2, <2>3 DEF ApprovalFinds, Ports
<1>13. t.next \in Ports \cup Ends /\ t.next # "repair" /\ thread.next # "queen"
  BY <1>2, <1>5 DEF Ports, Ends
<1>. QED
  BY <1>1, <1>2, <1>5, <1>6, <1>7, <1>8, <1>9, <1>10, <1>11, <1>12, <1>13, ThreadMoves

\* Nothing but the run changes, if anything does.
LEMMA RunMoves ==
  ASSUME QueenIInv, run' \in {"unconfirmed", "confirmed", "started"},
         UNCHANGED <<risk, live, decision, outbox, queue, sent, ledger, overdue, plan, thread,
                     workers, calls>>
  PROVE  QueenIInv'
<1>1. UNCHANGED <<risk, live, decision, outbox, queue, sent, ledger, overdue, plan, thread,
                  workers, calls>>
  OBVIOUS
<1>2. QueenTypeOK'
  BY <1>1 DEF QueenIInv, QueenTypeOK
<1>3. ASSUME NEW v \in Workers
      PROVE  Entitled(v, workers[v])' /\ PlanningFinds(workers[v])' /\ ApprovalFinds(workers[v])'
  <2>1. PICK x : x = workers[v] /\ x = workers'[v]
    BY <1>1
  <2>2. Entitled(v, x) /\ PlanningFinds(x) /\ ApprovalFinds(x)
    BY <2>1 DEF QueenIInv, WorkersSound
  <2>3. Entitled(v, x)' /\ PlanningFinds(x)' /\ ApprovalFinds(x)'
    BY <1>1, <2>2, Frame
  <2>. QED
    BY <2>1, <2>3
<1>4. ThreadSound' /\ CallsSound' /\ Delivered' /\ CommitsDurable'
  <2>1. ThreadSound' /\ Delivered'
    BY <1>1 DEF QueenIInv, ThreadSound, Delivered
  <2>2. CallsSound'
    BY <1>1 DEF QueenIInv, CallsSound, FinalOnReviewedOutput
  <2>3. CommitsDurable'
    BY <1>1 DEF QueenIInv, CommitsDurable, ExpectedEnd
  <2>. QED
    BY <2>1, <2>2, <2>3
<1>. QED
  BY <1>2, <1>3, <1>4 DEF QueenIInv, WorkersSound

LEMMA OpenRunKeeps ==
  ASSUME QueenIInv, NEW w \in Workers, OpenRun(w)
  PROVE  QueenIInv'
BY RunMoves DEF OpenRun, requestVars, queueVars, ledgerVars

LEMMA StutterKeeps ==
  ASSUME QueenIInv, UNCHANGED vars
  PROVE  QueenIInv'
BY RunMoves DEF vars, QueenIInv, QueenTypeOK

LEMMA RanksAre ==
  /\ \A c \in Call : RankOf(c) \in Nat
  /\ thread \in Thread => Here \in Nat
BY QueenConstants DEF Call, Thread, RankOf, Rank, Here

\* The port is called: after every earlier call, and the final arbiter's on an
\* output that was reviewed.
LEMMA CallPortKeeps ==
  ASSUME QueenIInv, NEW w \in Workers, NEW verdict \in Verdicts, CallPort(w, verdict)
  PROVE  QueenIInv'
<1>1. workers[w].at = "call" /\ workers[w].at \in ApproveStages
  BY DEF CallPort, ApproveStages
<1>2. /\ workers[w] \in Worker /\ workers[w].msg[1] = "approve" /\ Entitled(w, workers[w])
      /\ workers[w].at \in Working /\ ApprovalFinds(workers[w])
      /\ ledger["approve"].status \in {"executing", "uncertain"}
      /\ \A v \in Workers \ {w} : workers[v].at \in Working => workers[v].msg[1] # "approve"
  BY <1>1, ApprovalStage
<1>3. /\ thread.next \in Ports /\ ReviewedFor(thread.next) /\ Behind(Here)
      /\ \A i \in DOMAIN calls : calls[i].live
  BY <1>1, <1>2 DEF ApprovalFinds
<1>4. /\ QueenTypeOK /\ workers \in [Workers -> Worker] /\ thread \in Thread /\ calls \in Seq(Call)
      /\ live \in BOOLEAN
  BY Typed DEF QueenIInv
<1>5. PICK c \in Call : /\ c.port = thread.next /\ c.attempt = thread.repairs
                        /\ c.live = live /\ c.verdict = verdict
                        /\ calls' = Append(calls, c)
  <2>. DEFINE y == [port |-> thread.next, attempt |-> thread.repairs, live |-> live,
                    verdict |-> verdict]
  <2>1. y \in Call /\ calls' = Append(calls, y)
    BY <1>3, <1>4 DEF CallPort, Call, Thread
  <2>. QED
    BY <2>1
<1>6. PICK k \in Worker : /\ workers' = [workers EXCEPT ![w] = k]
                          /\ k.at = "save" /\ k.got = verdict /\ k.msg = workers[w].msg
  <2>. DEFINE y == [workers[w] EXCEPT !.at = "save", !.got = verdict]
  <2>1. y \in Worker /\ y.at = "save" /\ y.got = verdict /\ y.msg = workers[w].msg
    BY <1>2 DEF Worker, Stages
  <2>2. workers' = [workers EXCEPT ![w] = y]
    BY DEF CallPort
  <2>. QED
    BY <2>1, <2>2
<1>7. UNCHANGED <<risk, live, decision, outbox, queue, sent, ledger, overdue, plan, run, thread>>
  BY DEF CallPort, requestVars, queueVars, ledgerVars, workflowVars
<1>8. PICK n \in Nat : n = Len(calls)
  BY <1>4
<1>9. /\ calls' \in Seq(Call) /\ Len(calls') = n + 1 /\ DOMAIN calls' = 1..(n + 1)
      /\ DOMAIN calls = 1..n /\ calls'[n + 1] = c
      /\ \A i \in 1..n : calls'[i] = calls[i]
  BY <1>4, <1>5, <1>8
<1>10. workers' \in [Workers -> Worker]
  BY <1>4, <1>6
<1>11. QueenTypeOK'
  BY <1>4, <1>7, <1>9, <1>10, Typed, PortsOfCalls DEF QueenTypeOK, Worker, Call
<1>12. RankOf(c) = Here /\ Here \in Nat /\ Here' = Here
  BY <1>4, <1>5, <1>7, RanksAre DEF RankOf, Here
<1>13. \A i \in 1..n : RankOf(calls[i]) < Here
  BY <1>3, <1>9 DEF Behind
<1>14. \A i \in 1..(n + 1) : RankOf(calls'[i]) < Here + 1
  <2>1. \A i \in 1..n : RankOf(calls[i]) \in Nat
    BY <1>4, <1>9, RanksAre
  <2>2. SUFFICES ASSUME NEW i \in 1..(n + 1) PROVE RankOf(calls'[i]) < Here + 1
    OBVIOUS
  <2>3. CASE i = n + 1
    BY <1>9, <1>12, <2>3
  <2>4. CASE i # n + 1
    BY <1>8, <1>9, <1>12, <1>13, <2>1, <2>4
  <2>. QED
    BY <2>3, <2>4
<1>15. ReviewedFor(thread.next)'
  <2>1. SUFFICES ASSUME thread.next \in {"judge", "red_team", "final_arbiter"}
                 PROVE  \E p \in DOMAIN calls' :
                          /\ LastOutput(p)'
                          /\ thread.next # "judge" => ApprovedSince(p, "judge")'
                          /\ thread.next = "final_arbiter" => ApprovedSince(p, "red_team")'
    BY <1>7 DEF ReviewedFor
  <2>2. PICK p \in DOMAIN calls :
          /\ LastOutput(p)
          /\ thread.next # "judge" => ApprovedSince(p, "judge")
          /\ thread.next = "final_arbiter" => ApprovedSince(p, "red_team")
    BY <1>3, <2>1 DEF ReviewedFor
  <2>3. LastOutput(p)'
    BY <1>5, <1>8, <1>9, <2>1, <2>2 DEF LastOutput
  <2>4. ASSUME NEW r, ApprovedSince(p, r) PROVE ApprovedSince(p, r)'
    BY <1>8, <1>9, <2>4 DEF ApprovedSince
  <2>. QED
    BY <1>8, <1>9, <2>2, <2>3, <2>4
<1>16. ApprovalFinds(k)'
  <2>1. Behind(Here + 1)'
    BY <1>9, <1>12, <1>14 DEF Behind
  <2>2. Len(calls') > 0 /\ calls'[Len(calls')].port = thread.next
        /\ calls'[Len(calls')].verdict = verdict
    BY <1>5, <1>8, <1>9
  <2>. QED
    BY <1>3, <1>6, <1>7, <1>15, <2>1, <2>2 DEF ApprovalFinds
<1>17. ASSUME NEW v \in Workers
       PROVE  Entitled(v, workers[v])' /\ PlanningFinds(workers[v])' /\ ApprovalFinds(workers[v])'
  <2>1. PICK x \in Worker : x = workers'[v]
    BY <1>10
  <2>2. CASE v = w
    <3>1. x = k
      BY <1>4, <1>6, <2>1, <2>2
    <3>2. Entitled(v, x)'
      BY <1>1, <1>2, <1>6, <1>7, <2>2, <3>1 DEF Entitled, Working, Stages, PlanStages, ApproveStages
    <3>3. PlanningFinds(x)'
      BY <1>6, <3>1 DEF PlanningFinds
    <3>. QED
      BY <1>16, <2>1, <3>1, <3>2, <3>3
  <2>3. CASE v # w
    <3>1. x = workers[v] /\ Entitled(v, x) /\ PlanningFinds(x)
      BY <1>4, <1>6, <2>1, <2>3 DEF QueenIInv, WorkersSound
    <3>2. Entitled(v, x)' /\ PlanningFinds(x)'
      BY <1>7, <3>1 DEF Entitled, PlanningFinds
    <3>3. x.at \in Working => x.msg[1] # "approve"
      BY <1>2, <2>3, <3>1
    <3>4. x.at \notin ApproveStages /\ ~(x.at = "commit" /\ x.msg[1] = "approve")
      BY <3>1, <3>3, StagesApart DEF Entitled
    <3>5. ApprovalFinds(x)'
      BY <3>4 DEF ApprovalFinds, ApproveStages
    <3>. QED
      BY <2>1, <3>2, <3>5
  <2>. QED
    BY <2>2, <2>3
<1>18. ThreadSound'
  BY <1>2, <1>7 DEF QueenIInv, ThreadSound
<1>19. \A i, j \in DOMAIN calls' : i < j => RankOf(calls'[i]) < RankOf(calls'[j])
  <2>1. SUFFICES ASSUME NEW i \in 1..(n + 1), NEW j \in 1..(n + 1), i < j
                 PROVE  RankOf(calls'[i]) < RankOf(calls'[j])
    BY <1>9
  <2>2. i \in 1..n /\ calls'[i] = calls[i]
    BY <1>8, <1>9, <2>1
  <2>3. CASE j = n + 1
    BY <1>9, <1>12, <1>13, <2>2, <2>3
  <2>4. CASE j # n + 1
    <3>1. j \in 1..n /\ calls'[j] = calls[j]
      BY <1>8, <1>9, <2>1, <2>4
    <3>. QED
      BY <1>9, <2>1, <2>2, <3>1 DEF QueenIInv, CallsSound
  <2>. QED
    BY <2>3, <2>4
<1>20. \A i \in DOMAIN calls' : ~calls'[i].live => i = Len(calls') /\ ~live'
  <2>1. SUFFICES ASSUME NEW i \in 1..(n + 1), ~calls'[i].live
                 PROVE  i = n + 1 /\ ~live
    BY <1>7, <1>9
  <2>2. i \notin 1..n
    BY <1>3, <1>9, <2>1
  <2>3. i = n + 1
    BY <1>8, <2>2
  <2>. QED
    BY <1>5, <1>9, <2>1, <2>3
<1>21. FinalOnReviewedOutput'
  <2>1. SUFFICES ASSUME NEW i \in 1..(n + 1), calls'[i].port = "final_arbiter"
                 PROVE  \E p \in 1..(i - 1) :
                /\ calls'[p].port \in {"agent", "repair"}
                /\ \A j \in (p + 1)..(i - 1) : calls'[j].port \notin {"agent", "repair"}
                /\ \A reviewer \in {"judge"} \cup (IF risk = "high" THEN {"red_team"} ELSE {}) :
                       \E j \in (p + 1)..(i - 1) :
                           calls'[j].port = reviewer /\ calls'[j].verdict = "approved"
    BY <1>7, <1>9 DEF FinalOnReviewedOutput
  <2>2. CASE i = n + 1
    <3>1. thread.next = "final_arbiter" /\ i - 1 = n
      BY <1>5, <1>8, <1>9, <2>1, <2>2
    <3>2. PICK p \in 1..n : LastOutput(p) /\ ApprovedSince(p, "judge") /\ ApprovedSince(p, "red_team")
      BY <1>3, <1>9, <3>1 DEF ReviewedFor
    <3>3. /\ calls'[p].port \in {"agent", "repair"}
          /\ \A j \in (p + 1)..n : calls'[j].port \notin {"agent", "repair"}
      BY <1>8, <1>9, <3>2 DEF LastOutput
    <3>4. ASSUME NEW reviewer \in {"judge", "red_team"}
          PROVE  \E j \in (p + 1)..n : calls'[j].port = reviewer /\ calls'[j].verdict = "approved"
      BY <1>8, <1>9, <3>2 DEF ApprovedSince
    <3>5. {"judge"} \cup (IF risk = "high" THEN {"red_team"} ELSE {}) \subseteq {"judge", "red_team"}
      OBVIOUS
    <3>. QED
      BY <3>1, <3>2, <3>3, <3>4, <3>5
  <2>3. CASE i # n + 1
    <3>1. i \in 1..n /\ \A j \in 1..i : calls'[j] = calls[j]
      BY <1>8, <1>9, <2>1, <2>3
    <3>2. FinalOnReviewedOutput /\ calls[i].port = "final_arbiter"
      BY <2>1, <3>1 DEF QueenIInv, CallsSound
    <3>3. PICK p \in 1..(i - 1) :
                /\ calls[p].port \in {"agent", "repair"}
                /\ \A j \in (p + 1)..(i - 1) : calls[j].port \notin {"agent", "repair"}
                /\ \A reviewer \in {"judge"} \cup (IF risk = "high" THEN {"red_team"} ELSE {}) :
                       \E j \in (p + 1)..(i - 1) :
                           calls[j].port = reviewer /\ calls[j].verdict = "approved"
      BY <1>9, <3>1, <3>2 DEF FinalOnReviewedOutput
    <3>4. p \in 1..i /\ \A j \in (p + 1)..(i - 1) : j \in 1..i
      BY <1>8, <3>1, <3>3
    <3>. QED
      BY ONLY <3>1, <3>3, <3>4
  <2>. QED
    BY <2>2, <2>3
<1>22. Delivered' /\ CommitsDurable'
  BY <1>7 DEF QueenIInv, Delivered, CommitsDurable, ExpectedEnd
<1>. QED
  BY <1>11, <1>17, <1>18, <1>19, <1>20, <1>21, <1>22 DEF QueenIInv, WorkersSound, CallsSound

\* A node's result: the thread goes on to a node that comes later, and the final
\* arbiter is reached only when the reviews of the last output are in.
LEMMA LeaveNodeKeeps ==
  ASSUME QueenIInv, NEW w \in Workers, LeaveNode(w)
  PROVE  QueenIInv'
<1>1. workers[w].at = "save" /\ workers[w].at \in ApproveStages
  BY DEF LeaveNode, ApproveStages
<1>2. /\ workers[w] \in Worker /\ workers[w].msg[1] = "approve" /\ Entitled(w, workers[w])
      /\ workers[w].at \in Working /\ ApprovalFinds(workers[w])
  BY <1>1, ApprovalStage
<1>3. PICK v \in Verdicts : v = workers[w].got
  BY <1>1, <1>2 DEF ApprovalFinds
<1>4. /\ thread.next \in Ports /\ ReviewedFor(thread.next) /\ Behind(Here + 1) /\ Len(calls) > 0
      /\ calls[Len(calls)].port = thread.next /\ calls[Len(calls)].verdict = v
  BY <1>1, <1>2, <1>3 DEF ApprovalFinds
<1>5. /\ thread \in Thread /\ thread.risk = "high" /\ calls \in Seq(Call)
      /\ thread.next = "repair" => thread.repairs < MaxRepairs
  BY Typed DEF QueenIInv, ThreadSound
<1>6. /\ UNCHANGED <<risk, live, decision, outbox, queue, sent, ledger, overdue, plan, run, calls>>
      /\ thread' = AfterNode(thread, v)
      /\ thread.next = "final_arbiter" => v = "approved"
  BY <1>3 DEF LeaveNode, requestVars, queueVars, ledgerVars, workflowVars
<1>7. PICK r \in 0..MaxRepairs : r = thread.repairs
  BY <1>5 DEF Thread
\* Where the thread goes.
<1>8. PICK t \in Thread :
        /\ thread' = t /\ t.risk = "high"
        /\ \/ thread.next = "agent" /\ t.next = "judge" /\ t.repairs = r
           \/ /\ thread.next = "judge" /\ v = "approved" /\ t.next = "red_team" /\ t.repairs = r
           \/ /\ thread.next = "red_team" /\ v = "approved" /\ t.next = "final_arbiter"
              /\ t.repairs = r
           \/ /\ thread.next \in {"judge", "red_team"} /\ t.next = "repair" /\ t.repairs = r
              /\ r < MaxRepairs
           \/ thread.next = "repair" /\ t.next = "judge" /\ t.repairs = r + 1
           \/ t.next \in Ends
  <2>. DEFINE y == AfterNode(thread, v)
  <2>1. CASE thread.next = "agent"
    <3>. DEFINE z == [thread EXCEPT !.next = "judge"]
    <3>1. z \in Thread /\ z.risk = "high" /\ z.next = "judge" /\ z.repairs = r
      BY <1>5, <1>7 DEF Thread, Ports
    <3>2. y = z
      BY <2>1 DEF AfterNode
    <3>. QED
      BY <1>6, <2>1, <3>1, <3>2
  <2>2. ASSUME NEW next \in {"red_team", "final_arbiter", "repair", "rejected"},
               next = "repair" => r < MaxRepairs, NEW red \in Verdicts \cup {"pending"},
               y = [thread EXCEPT !.decision = v, !.red = red, !.next = next]
        PROVE  y \in Thread /\ y.risk = "high" /\ y.next = next /\ y.repairs = r
    <3>. HIDE DEF y
    <3>. QED
      BY <1>5, <1>7, <2>2 DEF Thread, Ports, Ends
  <2>3. CASE thread.next = "judge"
    <3>1. PICK next \in {"red_team", "repair", "rejected"} :
            /\ y = [thread EXCEPT !.decision = v, !.next = next]
            /\ next = "red_team" => v = "approved"
            /\ next = "repair" => r < MaxRepairs
      BY <1>5, <1>7, <2>3 DEF AfterNode, AfterJudge, RepairOrReject, Verdicts
    <3>2. y \in Thread /\ y.risk = "high" /\ y.next = next /\ y.repairs = r
      <4>. HIDE DEF y
      <4>. QED
        BY <1>5, <1>7, <3>1 DEF Thread, Ports, Ends
    <3>. HIDE DEF y
    <3>3. thread' = y
      BY <1>6 DEF y
    <3>. QED
      BY <2>3, <3>1, <3>2, <3>3 DEF Ends
  <2>4. CASE thread.next = "red_team"
    <3>1. PICK next \in {"final_arbiter", "repair", "rejected"} :
            /\ y = [thread EXCEPT !.decision = v, !.red = v, !.next = next]
            /\ next = "final_arbiter" => v = "approved"
            /\ next = "repair" => r < MaxRepairs
      BY <1>5, <1>7, <2>4 DEF AfterNode, AfterRedTeam, RepairOrReject, Verdicts
    <3>2. y \in Thread /\ y.risk = "high" /\ y.next = next /\ y.repairs = r
      BY <2>2, <3>1
    <3>. HIDE DEF y
    <3>3. thread' = y
      BY <1>6 DEF y
    <3>. QED
      BY <2>4, <3>1, <3>2, <3>3 DEF Ends
  <2>5. CASE thread.next = "repair"
    <3>1. y = [thread EXCEPT !.repairs = r + 1, !.decision = "pending", !.red = "pending",
                             !.next = "judge"]
      BY <1>7, <2>5 DEF AfterNode, AfterRepair
    <3>2. r + 1 \in 0..MaxRepairs
      BY <1>5, <1>7, <2>5, QueenConstants
    <3>. HIDE DEF y
    <3>3. y \in Thread /\ y.risk = "high" /\ y.next = "judge" /\ y.repairs = r + 1
      BY <1>5, <3>1, <3>2 DEF Thread, Ports
    <3>4. thread' = y
      BY <1>6 DEF y
    <3>. QED
      BY <2>5, <3>3, <3>4
  <2>6. CASE thread.next = "final_arbiter"
    <3>1. y = [thread EXCEPT !.next = "completed"]
      BY <2>6 DEF AfterNode
    <3>. HIDE DEF y
    <3>2. y \in Thread /\ y.risk = "high" /\ y.next = "completed"
      BY <1>5, <3>1 DEF Thread, Ends
    <3>3. thread' = y
      BY <1>6 DEF y
    <3>. QED
      BY <2>6, <3>2, <3>3 DEF Ends
  <2>. QED
    BY <1>4, <2>1, <2>3, <2>4, <2>5, <2>6 DEF Ports
<1>9. t.next \in Ports \cup Ends /\ (t.next = "repair" => t.repairs < MaxRepairs)
      /\ thread.next # "queen"
  BY <1>4, <1>8 DEF Ports, Ends
<1>10. PICK k \in Worker : /\ workers' = [workers EXCEPT ![w] = k]
                           /\ k.at = IF t.next \in Ends THEN "conclude" ELSE "step"
                           /\ k.msg = workers[w].msg
  <2>. DEFINE y == [workers[w] EXCEPT !.at = IF t.next \in Ends THEN "conclude" ELSE "step",
                                      !.got = "pending"]
  <2>1. y \in Worker /\ y.msg = workers[w].msg
        /\ y.at = IF t.next \in Ends THEN "conclude" ELSE "step"
    BY <1>2 DEF Worker, Stages
  <2>2. workers' = [workers EXCEPT ![w] = y]
    BY <1>8 DEF LeaveNode
  <2>. QED
    BY <2>1, <2>2
<1>11. Entitled(w, k)
  BY <1>1, <1>2, <1>10 DEF Entitled, Working, Stages, PlanStages, ApproveStages
<1>12. PlanningFinds(k)'
  BY <1>10 DEF PlanningFinds
<1>13. PICK n \in Nat : n = Len(calls) /\ n > 0 /\ DOMAIN calls = 1..n
  BY <1>4, <1>5
<1>14. t.next \in Ports => Behind(Here)'
  <2>1. SUFFICES ASSUME t.next \in Ports, NEW i \in 1..n
                 PROVE  RankOf(calls[i]) < Rank(t.next, t.repairs)
    BY <1>6, <1>8, <1>13 DEF Behind, Here, RankOf
  <2>2. RankOf(calls[i]) < Here + 1 /\ RankOf(calls[i]) \in Nat
    BY <1>4, <1>5, <1>13, RanksAre DEF Behind
  <2>3. t.next \notin Ends
    BY <2>1, StagesApart
  <2>4. Here + 1 <= Rank(t.next, t.repairs) /\ Rank(t.next, t.repairs) \in Nat /\ Here \in Nat
    BY <1>7, <1>8, <2>3, QueenConstants DEF Here, Rank
  <2>. QED
    BY <2>2, <2>4
<1>15. t.next \in Ports => ReviewedFor(thread.next)'
  <2>1. SUFFICES ASSUME t.next \in {"judge", "red_team", "final_arbiter"}
                 PROVE  \E p \in 1..n :
                          /\ LastOutput(p)
                          /\ t.next # "judge" => ApprovedSince(p, "judge")
                          /\ t.next = "final_arbiter" => ApprovedSince(p, "red_team")
    BY <1>6, <1>8, <1>13 DEF ReviewedFor, LastOutput, ApprovedSince
  <2>2. CASE thread.next \in {"agent", "repair"} /\ t.next = "judge"
    <3>1. LastOutput(n)
      BY <1>4, <1>13, <2>2 DEF LastOutput
    <3>. QED
      BY <1>13, <2>2, <3>1
  <2>3. CASE thread.next \in {"judge", "red_team"} /\ v = "approved"
             /\ t.next = (IF thread.next = "judge" THEN "red_team" ELSE "final_arbiter")
    <3>1. PICK p \in 1..n : LastOutput(p) /\ (thread.next # "judge" => ApprovedSince(p, "judge"))
      BY <1>4, <1>13, <2>3 DEF ReviewedFor
    <3>2. p # n
      BY <1>4, <1>13, <2>3, <3>1 DEF LastOutput
    <3>3. n \in (p + 1)..n
      BY <1>13, <3>1, <3>2
    <3>4. ApprovedSince(p, thread.next)
      BY <1>4, <1>13, <2>3, <3>3 DEF ApprovedSince
    <3>. QED
      BY <2>3, <3>1, <3>4
  <2>4. t.next \notin Ends
    BY <2>1 DEF Ends
  <2>. QED
    BY <1>8, <2>1, <2>2, <2>3, <2>4
<1>16. ApprovalFinds(k)'
  <2>1. CASE t.next \in Ends
    BY <1>8, <1>10, <2>1 DEF ApprovalFinds
  <2>2. CASE t.next \in Ports /\ t.next \notin Ends
    BY <1>8, <1>10, <1>14, <1>15, <2>2 DEF ApprovalFinds
  <2>. QED
    BY <1>9, <2>1, <2>2
<1>. QED
  BY <1>1, <1>6, <1>8, <1>9, <1>10, <1>11, <1>12, <1>16, ThreadMoves

LEMMA CrashKeeps ==
  ASSUME QueenIInv, NEW w \in Workers, Crash(w)
  PROVE  QueenIInv'
BY WorkerStops DEF Crash, requestVars, queueVars, ledgerVars, workflowVars

LEMMA NextQueenIInv == QueenIInv /\ [Next]_vars => QueenIInv'
<1>. SUFFICES ASSUME QueenIInv, [Next]_vars PROVE QueenIInv'
  OBVIOUS
<1>1. CASE Wallet
  BY <1>1, WalletKeeps
<1>2. ASSUME NEW e \in Events, Publish(e) \/ Overdue(e) PROVE QueenIInv'
  BY <1>2, PublishKeeps, OverdueKeeps
<1>3. ASSUME NEW w \in Workers, Consume(w) PROVE QueenIInv'
  BY <1>3, ReceiveKeeps, ClaimKeeps, CommitOrFailKeeps, AcknowledgeKeeps, CrashKeeps DEF Consume
<1>4. ASSUME NEW w \in Workers, Planning(w) PROVE QueenIInv'
  BY <1>4, PlanReadsKeep, PlanWritesKeep DEF Planning
<1>5. ASSUME NEW w \in Workers, Execution(w) PROVE QueenIInv'
  BY <1>5, ApprovalReadsKeep, ApprovalNodeKeeps, OpenRunKeeps, CallPortKeeps, LeaveNodeKeeps
     DEF Execution
<1>6. CASE UNCHANGED vars
  BY <1>6, StutterKeeps
<1>. QED
  BY <1>1, <1>2, <1>3, <1>4, <1>5, <1>6 DEF Next

LEMMA QueenInvariance == Spec => []QueenIInv
BY InitQueenIInv, NextQueenIInv, PTL DEF Spec

\* However an event is delivered and whoever crashes: no agent is called twice
\* for a node and an attempt, and once the grant has ended one call at most is
\* still made, the one that was authorized before (queen-operation-ledger.ts,
\* queen-task-graph.ts).
THEOREM AgentsAnswerOnce == Spec => []AgentsCalledOnce
<1>1. QueenIInv => AgentsCalledOnce
  <2>. SUFFICES ASSUME QueenIInv PROVE AgentsCalledOnce
    OBVIOUS
  <2>1. PICK n \in Nat : n = Len(calls) /\ DOMAIN calls = 1..n /\ \A i \in 1..n : calls[i] \in Call
    BY Typed DEF QueenIInv
  <2>2. ASSUME NEW i \in 1..n, NEW j \in 1..n,
               calls[i].port = calls[j].port, calls[i].attempt = calls[j].attempt
        PROVE  i = j
    <3>1. RankOf(calls[i]) = RankOf(calls[j]) /\ RankOf(calls[i]) \in Nat
      BY <2>1, <2>2, RanksAre DEF RankOf
    <3>2. ~(i < j) /\ ~(j < i)
      BY <2>1, <3>1 DEF QueenIInv, CallsSound
    <3>. QED
      BY <2>1, <3>2
  <2>. DEFINE Dead == {i \in DOMAIN calls : ~calls[i].live}
  <2>3. Dead \subseteq {n}
    BY <2>1 DEF QueenIInv, CallsSound
  <2>4. IsFiniteSet({n}) /\ Cardinality({n}) = 1
    BY FS_Singleton
  <2>5. Cardinality(Dead) <= 1
    BY <2>3, <2>4, FS_Subset
  <2>. QED
    BY <2>1, <2>2, <2>5 DEF AgentsCalledOnce
<1>. QED
  BY <1>1, QueenInvariance, PTL

\* A message is deleted only once its operation is committed, and a committed
\* operation has left its result behind (queen-workflow-worker.ts).
THEOREM CommitsLeaveResults == Spec => []CommittedIsDurable
<1>1. QueenIInv => CommittedIsDurable
  BY DEF QueenIInv, CommittedIsDurable, Delivered, CommitsDurable
<1>. QED
  BY <1>1, QueenInvariance, PTL

\* The final arbiter sees only output that was reviewed since its last repair
\* (queen-task-graph.ts).
THEOREM ArbiterSeesReviewed == Spec => []FinalOnReviewedOutput
<1>1. QueenIInv => FinalOnReviewedOutput
  BY DEF QueenIInv, CallsSound
<1>. QED
  BY <1>1, QueenInvariance, PTL

\* An operation of unknown outcome is neither committed late nor run again
\* (queen-operation-ledger.ts).
THEOREM UncertainStays == Spec => UncertainIsFinal
<1>1. ASSUME QueenIInv, [Next]_vars, NEW e \in Events, ledger[e].status = "uncertain"
      PROVE  ledger'[e].status = "uncertain"
  <2>1. ledger \in [Events -> LedgerRow]
    BY <1>1, Typed DEF QueenIInv
  <2>2. CASE UNCHANGED ledger
    BY <1>1, <2>2
  <2>3. ASSUME NEW w \in Workers, Claim(w) PROVE ledger'[e].status = "uncertain"
    BY <1>1, <2>1, <2>3 DEF Claim, MayRun, ledgerVars
  <2>4. ASSUME NEW w \in Workers, Commit(w) \/ Fail(w) PROVE ledger'[e].status = "uncertain"
    BY <1>1, <2>1, <2>4 DEF Commit, Fail, Holds, ledgerVars
  <2>5. CASE Wallet \/ UNCHANGED vars \/ \E x \in Events : Publish(x) \/ Overdue(x)
    BY <2>2, <2>5 DEF Wallet, RequestPlanning, GrantEnds, RecordApproval, Publish, Overdue, vars,
                      ledgerVars
  <2>6. ASSUME NEW w \in Workers, Consume(w) PROVE ledger'[e].status = "uncertain"
    BY <2>2, <2>3, <2>4, <2>6 DEF Consume, Receive, Acknowledge, Crash, ledgerVars
  <2>7. ASSUME NEW w \in Workers, Planning(w) PROVE ledger'[e].status = "uncertain"
    BY <2>2, <2>7 DEF Planning, PlanNode, ProposeTaskGraph, AcceptAssignments, PauseForApproval,
                      VerifyPlan, ledgerVars
  <2>8. ASSUME NEW w \in Workers, Execution(w) PROVE ledger'[e].status = "uncertain"
    BY <2>2, <2>8 DEF Execution, ResumeApproval, ApprovalNode, EnterNode, OpenRun, CallPort,
                      LeaveNode, ConcludeApproval, ledgerVars
  <2>. QED
    BY <1>1, <2>5, <2>6, <2>7, <2>8 DEF Next
<1>2. QueenIInv /\ [Next]_vars
        => \A e \in Events : ledger[e].status = "uncertain" => ledger'[e].status = "uncertain"
  BY <1>1
<1>3. QueenIInv /\ [Next]_vars
        => [\A e \in Events : ledger[e].status = "uncertain" => ledger'[e].status = "uncertain"]_vars
  BY <1>2
<1>. QED
  BY <1>3, QueenInvariance, PTL DEF Spec, UncertainIsFinal

-----------------------------------------------------------------------------
(* Routing.  A draw is a computation on the pool as it stands, so what is  *)
(* to prove is about sequences: ranking puts each candidate somewhere once *)
(* and a model once, and the seats are taken from its start, from a        *)
(* shuffle of the newcomers and from what is left, which never overlap.    *)

Judgements == [at : Nat, mark : 0..100]
Listed == [status : {"online", "degraded", "offline"}, scores : Seq(Judgements)]
RoutingTypeOK ==
    /\ day \in Nat /\ round \in Nat /\ pool \in [Candidates -> Listed]
    /\ \A a \in Candidates : \A i \in 1..Len(pool[a].scores) : pool[a].scores[i].at <= day

OfferedFairly(drawn) ==
    LET picks == ToSet(drawn.picks)  history == drawn.eligible \ drawn.newcomers IN
    /\ Cardinality({ModelTag[a] : a \in picks}) = Len(drawn.picks)
    /\ picks \subseteq drawn.eligible
    /\ IF drawn.risky THEN picks \cap drawn.newcomers = {} /\ Len(drawn.picks) = Min({3, Cardinality(history)})
       ELSE /\ Len(drawn.picks) = Min({3, Cardinality(drawn.eligible)})
            /\ drawn.newcomers # {} => picks \cap drawn.newcomers # {}
            /\ Cardinality(picks \cap history) >= Min({2, Cardinality(history)})

AdvisedFairly(given, drawn) ==
    given.status = "observed" =>
        /\ given.value \in (IF given.kind = "match" THEN ToSet(drawn.picks) ELSE Kinds[given.kind])
        /\ \A o \in DOMAIN given.answer.odds : o # given.value =>
              given.answer.odds[o] + (IF Policy.mode = "shadow" THEN Policy.margin ELSE 0)
                 <= given.answer.odds[given.value]

RoutingIInv == RoutingTypeOK /\ OfferedFairly(offered) /\ AdvisedFairly(advice, offered)

LEMMA MinIs ==
  ASSUME NEW m \in Nat, NEW n \in Nat
  PROVE  Min({m, n}) = IF m <= n THEN m ELSE n
<1>1. PICK low \in {m, n} : \A x \in {m, n} : low <= x
  BY SMT
<1>2. Min({m, n}) \in {m, n} /\ \A x \in {m, n} : Min({m, n}) <= x
  <2>1. \E k \in {m, n} : \A x \in {m, n} : k <= x
    BY <1>1
  <2>2. Min({m, n}) = CHOOSE k \in {m, n} : \A x \in {m, n} : k <= x
    BY DEF Min
  <2>. QED
    BY <2>1, <2>2
<1>. QED
  BY <1>2

\* The decayed score of a candidate is a natural number, whatever it was given and when.
LEMMA QualityIs ==
  ASSUME RoutingTypeOK, NEW a \in Candidates
  PROVE  Quality(a) \in Nat
<1>. DEFINE scores == pool[a].scores
            T == {i \in 1..Len(scores) : day - scores[i].at <= Horizon}
            recent == Recent(a)
            counted == Counted(a)
<1>1. /\ day \in Nat /\ scores \in Seq(Judgements) /\ Len(scores) \in Nat
      /\ \A i \in 1..Len(scores) : scores[i].at <= day
  BY DEF RoutingTypeOK, Listed
<1>2. T \in SUBSET (1..Len(scores)) /\ recent = Subsequence(scores, T)
      /\ \A i \in T : day - scores[i].at <= Horizon
  BY DEF Recent
<1>3. counted = Leading(recent, ScoreWindow) /\ ScoreWindow \in Nat
  BY DEF Counted, ScoreWindow
<1>. HIDE DEF T, recent, counted, scores
<1>4. /\ recent \in Seq(Judgements) /\ Len(recent) = Cardinality(T)
      /\ \A k \in 1..Cardinality(T) : Nth(T, k) \in T /\ recent[k] = scores[Nth(T, k)]
  BY <1>1, <1>2, SubsequenceIs
<1>5. /\ counted \in Seq(Judgements)
      /\ \A k \in 1..Len(counted) : k \in 1..Len(recent) /\ counted[k] = recent[k]
  BY <1>3, <1>4, LeadingIs
<1>6. \A k \in 1..Len(counted) : counted[k].mark \in Nat /\ day - counted[k].at \in 0..3
  <2>. SUFFICES ASSUME NEW k \in 1..Len(counted)
                PROVE  counted[k].mark \in Nat /\ day - counted[k].at \in 0..3
    OBVIOUS
  <2>1. PICK i : i = Nth(T, k)
    OBVIOUS
  <2>2. i \in T /\ i \in 1..Len(scores) /\ counted[k] = scores[i] /\ day - scores[i].at <= 3
    <3>1. k \in 1..Cardinality(T) /\ counted[k] = recent[k]
      BY <1>4, <1>5
    <3>2. i \in T /\ recent[k] = scores[i]
      BY <1>4, <2>1, <3>1
    <3>. QED
      BY <1>2, <3>1, <3>2 DEF Horizon
  <2>3. scores[i] \in Judgements /\ scores[i].at <= day
    BY <1>1, <2>2
  <2>4. \A x \in Judgements : x.at \in Nat /\ x.mark \in 0..100
    BY DEF Judgements
  <2>5. \A x \in 0..100 : x \in Nat
    OBVIOUS
  <2>6. scores[i].at \in Nat /\ scores[i].mark \in Nat
    BY <2>3, <2>4, <2>5
  <2>. QED
    BY <1>1, <2>2, <2>3, <2>6
<1>7. PICK n : n = Len(counted) /\ n \in Nat
  BY <1>5
<1>8. IsFiniteSet(1..n)
  <2>1. n \in Int /\ 1 \in Int
    BY <1>7
  <2>. QED
    BY <2>1, FS_Interval
<1>9. \A age \in {0, 1, 2, 3} : OfAge(counted, age) \subseteq 1..n /\ IsFiniteSet(OfAge(counted, age))
  <2>. SUFFICES ASSUME NEW age \in {0, 1, 2, 3}
                PROVE  OfAge(counted, age) \subseteq 1..n /\ IsFiniteSet(OfAge(counted, age))
    OBVIOUS
  <2>1. OfAge(counted, age) \subseteq 1..n
    BY <1>7 DEF OfAge
  <2>. QED
    BY <1>8, <2>1, FS_Subset
<1>9a. \A age \in {0, 1, 2, 3} : /\ Cardinality(OfAge(counted, age)) \in Nat
                                 /\ OfAge(counted, age) # {} => Cardinality(OfAge(counted, age)) > 0
  <2>. SUFFICES ASSUME NEW age \in {0, 1, 2, 3}
                PROVE  /\ Cardinality(OfAge(counted, age)) \in Nat
                       /\ OfAge(counted, age) # {} => Cardinality(OfAge(counted, age)) > 0
    OBVIOUS
  <2>1. PICK O : O = OfAge(counted, age) /\ IsFiniteSet(O)
    BY <1>9
  <2>2. Cardinality(O) \in Nat /\ (Cardinality(O) = 0 <=> O = {})
    BY <2>1, FS_CardinalityType, FS_EmptySet
  <2>. QED
    BY <2>1, <2>2
<1>9b. \A age \in {0, 1, 2, 3} : Points(counted, age) \in Nat
  <2>. SUFFICES ASSUME NEW age \in {0, 1, 2, 3} PROVE Points(counted, age) \in Nat
    OBVIOUS
  <2>1. PICK O : O = OfAge(counted, age) /\ O \subseteq 1..n /\ IsFiniteSet(O)
    BY <1>9
  <2>. DEFINE marks == [i \in O |-> counted[i].mark]
  <2>2. Points(counted, age) = Total(marks)
    BY <2>1 DEF Points
  <2>3. marks \in [O -> Nat]
    BY <1>6, <1>7, <2>1
  <2>. HIDE DEF marks
  <2>4. Total(marks) \in Nat
    BY <2>1, <2>3, TotalType
  <2>. QED
    BY <2>2, <2>4
<1>10. /\ Points(counted, 0) \in Nat /\ Points(counted, 1) \in Nat
       /\ Points(counted, 2) \in Nat /\ Points(counted, 3) \in Nat
       /\ Cardinality(OfAge(counted, 0)) \in Nat /\ Cardinality(OfAge(counted, 1)) \in Nat
       /\ Cardinality(OfAge(counted, 2)) \in Nat /\ Cardinality(OfAge(counted, 3)) \in Nat
  BY <1>9a, <1>9b
<1>10a. PICK p0, p1, p2, p3 \in Nat :
           /\ p0 = Points(counted, 0) /\ p1 = Points(counted, 1)
           /\ p2 = Points(counted, 2) /\ p3 = Points(counted, 3)
  BY <1>10
<1>10b. PICK w0, w1, w2, w3 \in Nat :
           /\ w0 = Cardinality(OfAge(counted, 0)) /\ w1 = Cardinality(OfAge(counted, 1))
           /\ w2 = Cardinality(OfAge(counted, 2)) /\ w3 = Cardinality(OfAge(counted, 3))
  BY <1>10
<1>11. PICK points, weights \in Nat :
          /\ points = 8 * p0 + 4 * p1 + 2 * p2 + p3 /\ weights = 8 * w0 + 4 * w1 + 2 * w2 + w3
  OBVIOUS
<1>12. Quality(a) = IF counted = <<>> THEN 3000 ELSE (100 * points) \div weights
  BY <1>10a, <1>10b, <1>11 DEF Quality, Decayed, counted
<1>13. CASE counted = <<>>
  BY <1>12, <1>13
<1>14. CASE counted # <<>>
  <2>1. 1 \in 1..n
    BY <1>5, <1>7, <1>14, EmptySeq
  <2>2. PICK age \in {0, 1, 2, 3} : age = day - counted[1].at
    <3>1. day - counted[1].at \in 0..3
      BY <1>6, <1>7, <2>1
    <3>. QED
      BY <3>1
  <2>3. Cardinality(OfAge(counted, age)) > 0
    <3>1. 1 \in OfAge(counted, age)
      BY <1>7, <2>1, <2>2 DEF OfAge
    <3>. QED
      BY <1>9a, <3>1
  <2>5. w0 > 0 \/ w1 > 0 \/ w2 > 0 \/ w3 > 0
    BY <1>10b, <2>3
  <2>6. weights > 0
    BY <1>11, <2>5
  <2>7. PICK hundred \in Nat : hundred = 100 * points
    OBVIOUS
  <2>8. hundred \div weights \in Nat
    BY <2>6
  <2>. QED
    BY <1>12, <1>14, <2>7, <2>8
<1>. QED
  BY <1>13, <1>14

\* Candidates are scored once each, by an integer.
LEMMA ScoredAre ==
  ASSUME RoutingTypeOK
  PROVE  /\ IsFiniteSet(Scored)
         /\ \A x \in Scored : x.agent \in Candidates /\ x.score \in Int
         /\ \A x, y \in Scored : x.agent = y.agent => x = y
<1>1. \A a \in Candidates : RankingScore(a) \in Int
  <2>. SUFFICES ASSUME NEW a \in Candidates PROVE RankingScore(a) \in Int
    OBVIOUS
  <2>1. PICK q \in Nat : q = Quality(a)
    BY QualityIs
  <2>2. PICK cost \in Nat : cost = Outlay[a]
    BY RoutingConstants
  <2>3. RankingScore(a) = 1000000 - 100 * cost + (IF pool[a].status = "online" THEN 50000 ELSE 20000) + q
                          + (IF NewModel(a) /\ (Newcomer(a) \/ q >= 7000) THEN 4000 ELSE 0)
                          + (IF NewModel(a) /\ Newcomer(a) THEN 4000 ELSE 0)
    BY <2>1, <2>2 DEF RankingScore
  <2>. QED
    BY <2>1, <2>2, <2>3
<1>. DEFINE able == {b \in Candidates : Eligible(b)}
            f == [a \in able |-> [agent |-> a, score |-> RankingScore(a)]]
<1>2. IsFiniteSet(able)
  BY RoutingConstants, FS_Subset
<1>3. f \in Surjection(able, Scored)
  BY DEF Surjection, Scored
<1>4. IsFiniteSet(Scored)
  BY <1>2, <1>3, FS_Surjection
<1>5. \A x \in Scored : \E a \in Candidates : x = [agent |-> a, score |-> RankingScore(a)]
  BY DEF Scored
<1>. QED
  BY <1>1, <1>4, <1>5

\* By score, and by name among equals: a strict order.
LEMMA BetterOrders ==
  ASSUME RoutingTypeOK, NEW S \in SUBSET Scored
  PROVE  /\ StrictlyOrders(Better(S), S) /\ IsFiniteSet(S)
         /\ \A x, y \in S : <<x, y>> \in Better(S) <=> Before(x, y)
<1>1. /\ \A x \in S : x.score \in Int /\ ByName[x.agent] \in Nat
      /\ \A x, y \in S : ByName[x.agent] = ByName[y.agent] => x = y
  BY ScoredAre, RoutingConstants
<1>2. PICK R : R = Better(S)
  OBVIOUS
<1>3. \A x, y \in S : <<x, y>> \in R <=> x.score > y.score \/ (x.score = y.score /\ ByName[x.agent] < ByName[y.agent])
  BY <1>2 DEF Better, Before
<1>4. \A x \in S : <<x, x>> \notin R
  BY <1>1, <1>3
<1>5. \A x, y \in S : x # y => <<x, y>> \in R \/ <<y, x>> \in R
  BY <1>1, <1>3
<1>6. \A x, y, z \in S : <<x, y>> \in R /\ <<y, z>> \in R => <<x, z>> \in R
  BY <1>1, <1>3
<1>7. IsFiniteSet(S)
  BY ScoredAre, FS_Subset
<1>8. \A x, y \in S : <<x, y>> \in Better(S) <=> Before(x, y)
  BY DEF Better
<1>. QED
  BY <1>2, <1>4, <1>5, <1>6, <1>7, <1>8 DEF StrictlyOrders

\* The ranking has no candidate and no model twice.
LEMMA RankedAre ==
  ASSUME RoutingTypeOK
  PROVE  /\ Ranked \subseteq Scored /\ Names(Ranked) \subseteq Candidates /\ IsFiniteSet(Names(Ranked))
         /\ \A a, b \in Names(Ranked) : ModelTag[a] = ModelTag[b] => a = b
<1>1. Ranked \subseteq Scored
  BY DEF Ranked
<1>2. \A x, y \in Ranked : ModelTag[x.agent] = ModelTag[y.agent] => x = y
  <2>. SUFFICES ASSUME NEW x \in Ranked, NEW y \in Ranked, ModelTag[x.agent] = ModelTag[y.agent], x # y
                PROVE  FALSE
    OBVIOUS
  <2>1. Before(x, y) /\ Before(y, x)
    BY DEF Ranked
  <2>2. <<x, y>> \in Better(Scored) /\ <<y, x>> \in Better(Scored)
    BY <1>1, <2>1, BetterOrders
  <2>. QED
    BY <1>1, <2>2, BetterOrders DEF StrictlyOrders
<1>3. Names(Ranked) \subseteq Candidates
  BY <1>1, ScoredAre DEF Names
<1>4. IsFiniteSet(Names(Ranked))
  BY <1>3, RoutingConstants, FS_Subset
<1>5. \A a, b \in Names(Ranked) : ModelTag[a] = ModelTag[b] => a = b
  BY <1>2 DEF Names
<1>. QED
  BY <1>1, <1>3, <1>4, <1>5

\* The seats: nobody twice, as many as can be filled, history's from the best of it.
LEMMA SeatsAre ==
  ASSUME NEW h \in Seq(Candidates), NEW c \in Seq(Candidates), NEW risky \in BOOLEAN,
         NoRepeats(h), NoRepeats(c), In(h) \cap In(c) = {}
  PROVE  LET p == Seats(h, c, risky) IN
         /\ p \in Seq(Candidates) /\ NoRepeats(p) /\ In(p) \subseteq In(h) \cup In(c)
         /\ Len(p) = IF risky THEN (IF Len(h) < 3 THEN Len(h) ELSE 3)
                     ELSE (IF Len(h) + Len(c) < 3 THEN Len(h) + Len(c) ELSE 3)
         /\ risky => In(p) \subseteq In(h)
         /\ ~risky /\ Len(c) > 0 => \E x \in In(p) : x \in In(c)
         /\ \A k \in 1..Len(h) : k <= 2 => h[k] \in In(p)
<1>. DEFINE n == IF risky THEN 3 ELSE 2
            ranked == Leading(h, n)
            fresh == IF risky THEN <<>> ELSE Leading(c, 3 - Len(ranked))
            left == SubSeq(h, Len(ranked) + 1, Len(h))
            rest == Leading(left, 3 - Len(ranked) - Len(fresh))
            p == Seats(h, c, risky)
<1>1. p = ranked \o fresh \o rest
  BY DEF Seats
<1>2. PICK x, y \in Nat : x = Len(h) /\ y = Len(c)
  OBVIOUS
<1>3. /\ ranked \in Seq(Candidates) /\ Len(ranked) = IF x < n THEN x ELSE n
      /\ \A k \in 1..Len(ranked) : k \in 1..x /\ ranked[k] = h[k]
  BY <1>2, LeadingIs
<1>. HIDE DEF ranked
<1>4. PICK m \in 0..3 : m = Len(ranked) /\ m <= x /\ m = IF x < n THEN x ELSE n
  BY <1>2, <1>3
<1>5. /\ fresh \in Seq(Candidates)
      /\ Len(fresh) = IF risky THEN 0 ELSE IF y < 3 - m THEN y ELSE 3 - m
      /\ \A k \in 1..Len(fresh) : k \in 1..y /\ fresh[k] = c[k]
  <2>1. CASE risky
    BY <2>1
  <2>2. CASE ~risky
    <3>1. fresh = Leading(c, 3 - m) /\ 3 - m \in Nat
      BY <1>4, <2>2
    <3>. HIDE DEF fresh
    <3>. QED
      BY <1>2, <2>2, <3>1, LeadingIs
  <2>. QED
    BY <2>1, <2>2
<1>. HIDE DEF fresh
<1>6. PICK f \in 0..3 : f = Len(fresh) /\ f <= 3 - m /\ f = IF risky THEN 0 ELSE IF y < 3 - m THEN y ELSE 3 - m
  BY <1>2, <1>4, <1>5
<1>7. /\ left \in Seq(Candidates) /\ Len(left) = x - m
      /\ \A k \in 1..(x - m) : left[k] = h[m + k]
  <2>1. left = SubSeq(h, m + 1, x)
    BY <1>2, <1>4
  <2>. HIDE DEF left
  <2>2. m + 1 \in Nat /\ x \in Nat /\ m <= x
    BY <1>2, <1>4
  <2>. QED
    BY <1>2, <2>1, <2>2
<1>. HIDE DEF left
<1>8. /\ rest \in Seq(Candidates)
      /\ Len(rest) = IF x - m < 3 - m - f THEN x - m ELSE 3 - m - f
      /\ \A k \in 1..Len(rest) : k \in 1..(x - m) /\ rest[k] = h[m + k]
  <2>1. rest = Leading(left, 3 - m - f) /\ 3 - m - f \in Nat
    BY <1>4, <1>6
  <2>. HIDE DEF rest
  <2>2. /\ rest \in Seq(Candidates) /\ Len(rest) = IF Len(left) < 3 - m - f THEN Len(left) ELSE 3 - m - f
        /\ \A k \in 1..Len(rest) : k \in 1..Len(left) /\ rest[k] = left[k]
    BY <1>7, <2>1, LeadingIs
  <2>. QED
    BY <1>7, <2>2
<1>. HIDE DEF rest
<1>9. PICK l \in 0..3 : l = Len(rest) /\ l = IF x - m < 3 - m - f THEN x - m ELSE 3 - m - f
  <2>1. x - m \in Nat /\ 3 - m - f \in 0..3
    BY <1>2, <1>4, <1>6
  <2>2. Len(rest) = IF x - m < 3 - m - f THEN x - m ELSE 3 - m - f
    BY <1>8
  <2>3. Len(rest) \in 0..3
    BY <2>1, <2>2
  <2>. QED
    BY <2>2, <2>3
<1>9a. /\ x \in Nat /\ y \in Nat /\ m \in Nat /\ f \in Nat /\ l \in Nat
       /\ risky => m = (IF x < 3 THEN x ELSE 3) /\ f = 0
       /\ ~risky => m = (IF x < 2 THEN x ELSE 2) /\ f = (IF y < 3 - m THEN y ELSE 3 - m)
       /\ l = IF x - m < 3 - m - f THEN x - m ELSE 3 - m - f
  <2>1. risky => n = 3
    OBVIOUS
  <2>2. ~risky => n = 2
    OBVIOUS
  <2>. HIDE DEF n
  <2>3. x \in Nat /\ y \in Nat /\ m \in Nat /\ f \in Nat /\ l \in Nat
    OBVIOUS
  <2>4. m = (IF x < n THEN x ELSE n) /\ f = (IF risky THEN 0 ELSE IF y < 3 - m THEN y ELSE 3 - m)
    BY <1>4, <1>6
  <2>5. l = IF x - m < 3 - m - f THEN x - m ELSE 3 - m - f
    BY <1>9
  <2>. QED
    BY <2>1, <2>2, <2>3, <2>4, <2>5
<1>9b. m <= x /\ f <= y /\ l <= x - m /\ m + f + l <= 3
  BY <1>9a
<1>. HIDE DEF n
<1>10. p \in Seq(Candidates) /\ Len(p) = m + f + l
  <2>1. Len(ranked) = m /\ Len(fresh) = f /\ Len(rest) = l
    BY <1>4, <1>6, <1>9
  <2>2. /\ ranked \o fresh \in Seq(Candidates) /\ Len(ranked \o fresh) = m + f
    BY <1>3, <1>5, <2>1
  <2>. HIDE DEF p
  <2>. QED
    BY <1>1, <1>8, <1>9a, <2>1, <2>2
<1>11. /\ \A i \in 1..m : p[i] = h[i] /\ i \in 1..x
       /\ \A i \in (m + 1)..(m + f) : p[i] = c[i - m] /\ i - m \in 1..y
       /\ \A i \in (m + f + 1)..(m + f + l) : p[i] = h[i - f] /\ i - f \in (m + 1)..x
  <2>1. \A i \in 1..(m + f + l) :
           p[i] = IF i <= m THEN ranked[i] ELSE IF i <= m + f THEN fresh[i - m] ELSE rest[i - m - f]
    <3>1. Len(ranked) = m /\ Len(fresh) = f /\ Len(rest) = l
      BY <1>4, <1>6, <1>9
    <3>2. /\ ranked \o fresh \in Seq(Candidates) /\ Len(ranked \o fresh) = m + f
          /\ \A i \in 1..(m + f) : (ranked \o fresh)[i] = IF i <= m THEN ranked[i] ELSE fresh[i - m]
      <4>1. Len(ranked) \in Nat /\ Len(fresh) \in Nat /\ ranked \in Seq(Candidates) /\ fresh \in Seq(Candidates)
        BY <1>3, <1>5
      <4>2. /\ ranked \o fresh \in Seq(Candidates) /\ Len(ranked \o fresh) = Len(ranked) + Len(fresh)
            /\ \A i \in 1..(Len(ranked) + Len(fresh)) :
                  (ranked \o fresh)[i] = IF i <= Len(ranked) THEN ranked[i] ELSE fresh[i - Len(ranked)]
        BY <4>1, ConcatProperties
      <4>. QED
        BY <3>1, <4>2
    <3>. DEFINE q == ranked \o fresh
    <3>3. p = q \o rest
      BY <1>1
    <3>. HIDE DEF q, p
    <3>4. \A i \in 1..(m + f + l) : p[i] = IF i <= m + f THEN q[i] ELSE rest[i - (m + f)]
      <4>1. q \in Seq(Candidates) /\ Len(q) = m + f
        BY <3>2 DEF q
      <4>2. rest \in Seq(Candidates) /\ Len(rest) = l
        BY <1>8, <3>1
      <4>3. \A i \in 1..(Len(q) + Len(rest)) : p[i] = IF i <= Len(q) THEN q[i] ELSE rest[i - Len(q)]
        BY <3>3, <4>1, <4>2, ConcatProperties
      <4>. QED
        BY <4>1, <4>2, <4>3
    <3>5. \A i \in 1..(m + f + l) : i - (m + f) = i - m - f
      BY <1>9a
    <3>. QED
      BY <1>9a, <3>2, <3>4, <3>5 DEF q
  <2>. HIDE DEF p
  <2>2. ASSUME NEW i \in 1..m PROVE p[i] = h[i] /\ i \in 1..x
    <3>1. i \in 1..(m + f + l) /\ i <= m
      BY <1>9a
    <3>2. p[i] = ranked[i]
      BY <2>1, <3>1
    <3>. QED
      BY <1>3, <1>4, <1>9a, <3>2
  <2>3. ASSUME NEW i \in (m + 1)..(m + f) PROVE p[i] = c[i - m] /\ i - m \in 1..y
    <3>1. i \in 1..(m + f + l) /\ ~(i <= m) /\ i <= m + f /\ i - m \in 1..f
      BY <1>9a
    <3>. QED
      BY <1>5, <1>6, <2>1, <3>1
  <2>4. ASSUME NEW i \in (m + f + 1)..(m + f + l) PROVE p[i] = h[i - f] /\ i - f \in (m + 1)..x
    <3>1. i \in 1..(m + f + l) /\ ~(i <= m) /\ ~(i <= m + f) /\ i - m - f \in 1..l /\ m + (i - m - f) = i - f
      BY <1>9a
    <3>2. p[i] = rest[i - m - f]
      BY <2>1, <3>1
    <3>3. rest[i - m - f] = h[m + (i - m - f)] /\ i - m - f \in 1..(x - m)
      BY <1>8, <1>9, <3>1
    <3>4. i - f \in (m + 1)..x
      BY <1>9a, <1>9b, <3>1
    <3>. QED
      BY <3>1, <3>2, <3>3, <3>4
  <2>. QED
    BY <2>2, <2>3, <2>4
<1>. HIDE DEF p
<1>12. /\ \A i, j \in 1..x : h[i] = h[j] => i = j
       /\ \A i, j \in 1..y : c[i] = c[j] => i = j
       /\ \A i \in 1..x, j \in 1..y : h[i] # c[j]
  <2>1. Len(h) = x /\ Len(c) = y
    BY <1>2
  <2>2. \A i, j \in 1..x : h[i] = h[j] => i = j
    BY <2>1 DEF NoRepeats
  <2>3. \A i, j \in 1..y : c[i] = c[j] => i = j
    BY <2>1 DEF NoRepeats
  <2>4. ASSUME NEW i \in 1..x, NEW j \in 1..y, h[i] = c[j] PROVE FALSE
    <3>1. h[i] \in In(h) /\ c[j] \in In(c)
      BY <2>1 DEF In
    <3>. QED
      BY <2>4, <3>1
  <2>. QED
    BY <2>2, <2>3, <2>4
<1>13. NoRepeats(p)
  <2>. SUFFICES ASSUME NEW i \in 1..(m + f + l), NEW j \in 1..(m + f + l), i < j, p[i] = p[j]
                PROVE  FALSE
    BY <1>10 DEF NoRepeats
  <2>1. CASE i <= m /\ j <= m
    BY <1>11, <1>12, <2>1
  <2>2. CASE i <= m /\ m < j /\ j <= m + f
    BY <1>11, <1>12, <2>2
  <2>3. CASE i <= m /\ m + f < j
    <3>1. /\ i \in 1..m /\ j \in (m + f + 1)..(m + f + l)
      BY <1>9a, <2>3
    <3>2. p[i] = h[i] /\ i \in 1..x /\ p[j] = h[j - f] /\ j - f \in (m + 1)..x
      BY <1>11, <3>1
    <3>3. i = j - f
      <4>1. j - f \in 1..x
        BY <1>9a, <3>2
      <4>. QED
        BY <1>12, <3>2, <4>1
    <3>4. i <= m /\ m + f < j /\ i \in Int /\ j \in Int
      BY <1>9a, <2>3
    <3>. QED
      BY <1>9a, <3>3, <3>4
  <2>4. CASE m < i /\ j <= m + f
    <3>1. i \in (m + 1)..(m + f) /\ j \in (m + 1)..(m + f)
      BY <1>9a, <2>4
    <3>2. p[i] = c[i - m] /\ i - m \in 1..y /\ p[j] = c[j - m] /\ j - m \in 1..y
      BY <1>11, <3>1
    <3>3. i - m = j - m
      BY <1>12, <3>2
    <3>. QED
      BY <1>4, <3>1, <3>3
  <2>5. CASE m < i /\ i <= m + f /\ m + f < j
    <3>1. i \in (m + 1)..(m + f) /\ j \in (m + f + 1)..(m + f + l)
      BY <1>9a, <2>5
    <3>2. p[i] = c[i - m] /\ i - m \in 1..y /\ p[j] = h[j - f] /\ j - f \in 1..x
      <4>1. p[j] = h[j - f] /\ j - f \in (m + 1)..x
        BY <1>11, <3>1
      <4>2. j - f \in 1..x
        BY <1>9a, <4>1
      <4>. QED
        BY <1>11, <3>1, <4>1, <4>2
    <3>. QED
      BY <1>12, <3>2
  <2>6. CASE m + f < i
    <3>1. i \in (m + f + 1)..(m + f + l) /\ j \in (m + f + 1)..(m + f + l)
      BY <1>9a, <2>6
    <3>2. p[i] = h[i - f] /\ i - f \in 1..x /\ p[j] = h[j - f] /\ j - f \in 1..x
      <4>1. p[i] = h[i - f] /\ i - f \in (m + 1)..x
        BY <1>11, <3>1
      <4>2. p[j] = h[j - f] /\ j - f \in (m + 1)..x
        BY <1>11, <3>1
      <4>3. i - f \in 1..x /\ j - f \in 1..x
        BY <1>9a, <4>1, <4>2
      <4>. QED
        BY <4>1, <4>2, <4>3
    <3>3. i - f = j - f
      BY <1>12, <3>2
    <3>4. i \in Int /\ j \in Int /\ f \in Int
      BY <1>9a
    <3>. QED
      BY <3>3, <3>4
  <2>. QED
    BY <1>9a, <2>1, <2>2, <2>3, <2>4, <2>5, <2>6
<1>14. \A i \in 1..(m + f + l) : p[i] \in In(h) \/ (p[i] \in In(c) /\ i \in (m + 1)..(m + f))
  <2>. SUFFICES ASSUME NEW i \in 1..(m + f + l)
                PROVE  p[i] \in In(h) \/ (p[i] \in In(c) /\ i \in (m + 1)..(m + f))
    OBVIOUS
  <2>1. CASE i \in 1..m
    BY <1>2, <1>11, <2>1 DEF In
  <2>2. CASE i \in (m + 1)..(m + f)
    BY <1>2, <1>11, <2>2 DEF In
  <2>3. CASE i \in (m + f + 1)..(m + f + l)
    <3>1. p[i] = h[i - f] /\ i - f \in (m + 1)..x
      BY <1>11, <2>3
    <3>2. i - f \in 1..x
      BY <1>9a, <3>1
    <3>. QED
      BY <1>2, <3>1, <3>2 DEF In
  <2>. QED
    BY <1>9a, <2>1, <2>2, <2>3
<1>15. In(p) \subseteq In(h) \cup In(c)
  BY <1>10, <1>14 DEF In
<1>16. Len(p) = IF risky THEN (IF x < 3 THEN x ELSE 3) ELSE (IF x + y < 3 THEN x + y ELSE 3)
  <2>1. CASE risky
    BY <1>9a, <1>10, <2>1
  <2>2. CASE ~risky
    BY <1>9a, <1>10, <2>2
  <2>. QED
    BY <2>1, <2>2
<1>17. risky => In(p) \subseteq In(h)
  <2>1. risky => f = 0
    BY <1>6
  <2>2. risky => ~\E i : i \in (m + 1)..(m + f)
    BY <1>4, <2>1
  <2>3. ASSUME risky PROVE In(p) \subseteq In(h)
    <3>1. \A i \in 1..(m + f + l) : p[i] \in In(h)
      BY <1>14, <2>2, <2>3
    <3>. QED
      BY <1>10, <3>1 DEF In
  <2>. QED
    BY <2>3
<1>18. ~risky /\ y > 0 => \E z \in In(p) : z \in In(c)
  <2>. SUFFICES ASSUME ~risky, y > 0 PROVE \E z \in In(p) : z \in In(c)
    OBVIOUS
  <2>1. f > 0 /\ m + 1 \in (m + 1)..(m + f) /\ m + 1 \in 1..(m + f + l)
    BY <1>9a
  <2>2. p[m + 1] = c[m + 1 - m] /\ m + 1 - m \in 1..y
    BY <1>11, <2>1
  <2>3. p[m + 1] \in In(c)
    BY <1>2, <2>2 DEF In
  <2>4. p[m + 1] \in In(p)
    BY <1>10, <2>1 DEF In
  <2>. QED
    BY <2>3, <2>4
<1>19. \A k \in 1..x : k <= 2 => h[k] \in In(p)
  <2>. SUFFICES ASSUME NEW k \in 1..x, k <= 2 PROVE h[k] \in In(p)
    OBVIOUS
  <2>1. k \in 1..m /\ k \in 1..(m + f + l)
    BY <1>9a
  <2>2. p[k] = h[k]
    BY <1>11, <2>1
  <2>. QED
    BY <1>10, <2>1, <2>2 DEF In
<1>. QED
  BY <1>2, <1>10, <1>13, <1>15, <1>16, <1>17, <1>18, <1>19 DEF p

\* A draw is fair, whatever the pool.
LEMMA DrawIsFair ==
  ASSUME RoutingTypeOK, NEW r \in DOMAIN Shuffle, NEW risky \in BOOLEAN
  PROVE  OfferedFairly(SelectThree(r, risky))
<1>. DEFINE N == {a \in Names(Ranked) : Newcomer(a)}
            history == {x \in Ranked : x.agent \notin N}
            ordered == InOrder(history, Better(history))
            h == [k \in 1..Len(ordered) |-> ordered[k].agent]
            c == Those(Shuffle[r], N)
            p == Seats(h, c, risky)
            E == Names(Ranked)
            H == E \ N
<1>1. SelectThree(r, risky) = [picks |-> p, eligible |-> E, newcomers |-> N, risky |-> risky]
  BY DEF SelectThree
<1>2. /\ Ranked \subseteq Scored /\ E \subseteq Candidates /\ IsFiniteSet(E)
      /\ \A a, b \in E : ModelTag[a] = ModelTag[b] => a = b
  BY RankedAre
<1>3. history \in SUBSET Scored /\ \A x \in history : x.agent \in H
  BY <1>2 DEF Names
<1>4. \A a \in H : \E x \in history : x.agent = a
  BY DEF Names
<1>5. N \subseteq E
  OBVIOUS
<1>. HIDE DEF N, history, E
<1>6. /\ ordered \in Seq(history) /\ NoRepeats(ordered) /\ In(ordered) = history
  BY <1>3, BetterOrders, InOrderIs
<1>. HIDE DEF ordered
<1>7. h \in Seq(Candidates) /\ NoRepeats(h) /\ In(h) = H
  <2>1. PICK n \in Nat : n = Len(ordered)
    BY <1>6
  <2>2. \A k \in 1..n : ordered[k] \in history
    BY <1>6, <2>1
  <2>3. h = [k \in 1..n |-> ordered[k].agent]
    BY <2>1
  <2>. HIDE DEF h
  <2>4. \A k \in 1..n : h[k] = ordered[k].agent /\ h[k] \in H
    BY <1>3, <2>2, <2>3
  <2>5. h \in Seq(Candidates) /\ Len(h) = n
    <3>1. h \in [1..n -> Candidates]
      BY <1>2, <2>3, <2>4
    <3>. QED
      BY <2>1, <3>1
  <2>6. NoRepeats(h)
    <3>. SUFFICES ASSUME NEW i \in 1..n, NEW j \in 1..n, h[i] = h[j] PROVE i = j
      BY <2>5 DEF NoRepeats
    <3>1. ordered[i] \in Scored /\ ordered[j] \in Scored /\ ordered[i].agent = ordered[j].agent
      BY <1>3, <2>2, <2>4
    <3>2. ordered[i] = ordered[j]
      BY <3>1, ScoredAre
    <3>. QED
      BY <1>6, <2>1, <3>2 DEF NoRepeats
  <2>7. ASSUME NEW a \in H PROVE a \in In(h)
    <3>1. PICK x \in history : x.agent = a
      BY <1>4
    <3>2. PICK k \in 1..n : ordered[k] = x
      BY <1>6, <2>1 DEF In
    <3>. QED
      BY <2>4, <2>5, <3>1, <3>2 DEF In
  <2>8. In(h) \subseteq H
    BY <2>4, <2>5 DEF In
  <2>. QED
    BY <2>5, <2>6, <2>7, <2>8
<1>. HIDE DEF h
<1>8. c \in Seq(Candidates) /\ NoRepeats(c) /\ In(c) = N
  <2>1. /\ Shuffle[r] \in Seq(Candidates) /\ NoRepeats(Shuffle[r]) /\ Candidates \subseteq In(Shuffle[r])
    <3>1. Shuffle[r] \in Seq(Candidates) /\ DOMAIN Shuffle[r] = 1..Len(Shuffle[r])
      BY ShuffleConstants
    <3>2. NoRepeats(Shuffle[r])
      BY <3>1, ShuffleConstants DEF NoRepeats
    <3>3. Candidates \subseteq In(Shuffle[r])
      BY <3>1, ShuffleConstants DEF In
    <3>. QED
      BY <3>1, <3>2, <3>3
  <2>2. /\ c \in Seq(Candidates \cap N) /\ NoRepeats(c) /\ In(c) = In(Shuffle[r]) \cap N
    BY <2>1, ThoseApart
  <2>3. Candidates \cap N = N
    BY <1>2, <1>5
  <2>. HIDE DEF c
  <2>4. c \in Seq(N)
    BY <2>2, <2>3
  <2>5. c \in Seq(Candidates)
    BY <1>2, <1>5, <2>4
  <2>6. In(c) = N
    BY <1>2, <1>5, <2>1, <2>2
  <2>. QED
    BY <2>2, <2>5, <2>6
<1>. HIDE DEF c
<1>9. /\ Cardinality(H) = Len(h) /\ Cardinality(N) = Len(c) /\ Len(h) \in Nat /\ Len(c) \in Nat
      /\ IsFiniteSet(H) /\ IsFiniteSet(N)
  <2>1. Cardinality(In(h)) = Len(h) /\ Len(h) \in Nat /\ IsFiniteSet(In(h))
    BY <1>7, ApartCount
  <2>2. Cardinality(In(c)) = Len(c) /\ Len(c) \in Nat /\ IsFiniteSet(In(c))
    BY <1>8, ApartCount
  <2>. QED
    BY <1>7, <1>8, <2>1, <2>2
<1>10. Cardinality(E) = Len(h) + Len(c)
  <2>1. E = H \cup N /\ H \cap N = {}
    BY <1>5
  <2>. HIDE DEF H
  <2>2. Cardinality(H \cup N) = Cardinality(H) + Cardinality(N)
    <3>1. Cardinality(H \cup N) = Cardinality(H) + Cardinality(N) - Cardinality(H \cap N)
      BY <1>9, FS_Union
    <3>2. Cardinality(H \cap N) = 0
      BY <2>1, FS_EmptySet
    <3>3. PICK x, y \in Nat : x = Cardinality(H) /\ y = Cardinality(N)
      BY <1>9
    <3>. QED
      BY <3>1, <3>2, <3>3
  <2>. QED
    BY <1>9, <2>1, <2>2
<1>11. /\ p \in Seq(Candidates) /\ NoRepeats(p) /\ In(p) \subseteq In(h) \cup In(c)
       /\ Len(p) = IF risky THEN (IF Len(h) < 3 THEN Len(h) ELSE 3)
                   ELSE (IF Len(h) + Len(c) < 3 THEN Len(h) + Len(c) ELSE 3)
       /\ risky => In(p) \subseteq In(h)
       /\ ~risky /\ Len(c) > 0 => \E x \in In(p) : x \in In(c)
       /\ \A k \in 1..Len(h) : k <= 2 => h[k] \in In(p)
  BY <1>7, <1>8, SeatsAre
<1>. HIDE DEF p
<1>12. ToSet(p) = In(p)
  <2>1. p \in Seq(Candidates)
    BY <1>11
  <2>2. DOMAIN p = 1..Len(p)
    BY <2>1
  <2>. QED
    BY <2>2 DEF ToSet, In
<1>13. IsFiniteSet(In(p)) /\ Cardinality(In(p)) = Len(p) /\ In(p) \subseteq E
  BY <1>5, <1>7, <1>8, <1>11, ApartCount
<1>14. Cardinality({ModelTag[a] : a \in In(p)}) = Len(p)
  <2>. DEFINE M == {ModelTag[a] : a \in In(p)}
              f == [a \in In(p) |-> ModelTag[a]]
  <2>1. f \in Bijection(In(p), M)
    BY <1>2, <1>13 DEF Bijection, Injection, Surjection, IsInjective
  <2>. HIDE DEF f, M
  <2>2. Cardinality(M) = Cardinality(In(p))
    BY <1>13, <2>1, FS_Bijection DEF ExistsBijection
  <2>. QED
    BY <1>13, <2>2 DEF M
<1>15. risky => In(p) \cap N = {} /\ Len(p) = Min({3, Cardinality(H)})
  <2>. SUFFICES ASSUME risky PROVE In(p) \cap N = {} /\ Len(p) = Min({3, Cardinality(H)})
    OBVIOUS
  <2>1. In(p) \cap N = {}
    BY <1>7, <1>11
  <2>2. PICK n \in Nat : n = Len(h) /\ n = Cardinality(H)
    BY <1>9
  <2>3. Min({3, n}) = IF 3 <= n THEN 3 ELSE n
    BY MinIs
  <2>4. Len(p) = IF n < 3 THEN n ELSE 3
    BY <1>11, <2>2
  <2>5. Len(p) = Min({3, n})
    BY <2>3, <2>4
  <2>. QED
    BY <2>1, <2>2, <2>5
<1>16. ~risky => Len(p) = Min({3, Cardinality(E)})
  <2>. SUFFICES ASSUME ~risky PROVE Len(p) = Min({3, Cardinality(E)})
    OBVIOUS
  <2>1. PICK n \in Nat : n = Len(h) + Len(c)
    BY <1>9
  <2>2. Min({3, n}) = IF 3 <= n THEN 3 ELSE n
    BY MinIs
  <2>. QED
    BY <1>10, <1>11, <2>1, <2>2
<1>17. ~risky /\ N # {} => In(p) \cap N # {}
  <2>. SUFFICES ASSUME ~risky, N # {} PROVE In(p) \cap N # {}
    OBVIOUS
  <2>1. Len(c) # 0
    BY <1>9, FS_EmptySet
  <2>. QED
    BY <1>8, <1>9, <1>11, <2>1
<1>18. Cardinality(In(p) \cap H) >= Min({2, Cardinality(H)})
  <2>1. PICK m \in Nat : m = IF 2 <= Len(h) THEN 2 ELSE Len(h)
    BY <1>9
  <2>2. m <= Len(h) /\ m <= 2
    BY <1>9, <2>1
  <2>. DEFINE s == SubSeq(h, 1, m)
  <2>3. /\ s \in Seq(Candidates) /\ Len(s) = m /\ \A k \in 1..m : s[k] = h[k]
    BY <1>7, <1>9, <2>2
  <2>. HIDE DEF s
  <2>4. NoRepeats(s)
    <3>1. \A k \in 1..m : k \in 1..Len(h)
      BY <1>9, <2>2
    <3>. QED
      BY <1>7, <2>3, <3>1 DEF NoRepeats
  <2>5. In(s) \subseteq In(p) \cap H
    <3>1. \A k \in 1..m : k \in 1..Len(h) /\ k <= 2
      BY <1>9, <2>2
    <3>2. \A k \in 1..m : h[k] \in In(p) /\ h[k] \in H
      BY <1>7, <1>11, <3>1 DEF In
    <3>. QED
      BY <2>3, <3>2 DEF In
  <2>6. Cardinality(In(s)) = m
    BY <2>3, <2>4, ApartCount
  <2>7. IsFiniteSet(In(p) \cap H)
    BY <1>13, FS_Subset
  <2>8. Cardinality(In(s)) <= Cardinality(In(p) \cap H)
    BY <2>5, <2>7, FS_Subset
  <2>9. Min({2, Len(h)}) = m
    BY <1>9, <2>1, MinIs
  <2>. QED
    BY <1>9, <2>6, <2>8, <2>9, <2>7, FS_CardinalityType
<1>19. OfferedFairly([picks |-> p, eligible |-> E, newcomers |-> N, risky |-> risky])
  BY <1>12, <1>13, <1>14, <1>15, <1>16, <1>17, <1>18 DEF OfferedFairly
<1>. QED
  BY <1>1, <1>19

LEMMA GreatestOdds ==
  ASSUME NEW T \in SUBSET (0..100), NEW v \in T
  PROVE  Max(T) \in T /\ v <= Max(T)
<1>. DEFINE U == {n \in 0..100 : 100 - n \in T}
<1>1. U \in SUBSET Nat /\ 100 - v \in U
  OBVIOUS
<1>. HIDE DEF U
<1>2. PICK m \in U : \A k \in U : m <= k
  BY <1>1, Least
<1>3. 100 - m \in T /\ m \in 0..100
  BY <1>2 DEF U
<1>4. \A x \in T : x <= 100 - m
  <2>. SUFFICES ASSUME NEW x \in T PROVE x <= 100 - m
    OBVIOUS
  <2>1. x \in 0..100 /\ 100 - x \in 0..100 /\ 100 - (100 - x) = x
    OBVIOUS
  <2>2. 100 - x \in U
    BY <2>1 DEF U
  <2>3. m <= 100 - x
    BY <1>2, <2>2
  <2>. QED
    BY <1>3, <2>1, <2>3
<1>5. \E x \in T : \A y \in T : x >= y
  <2>1. \A y \in T : 100 - m >= y
    BY <1>3, <1>4
  <2>. QED
    BY <1>3, <2>1
<1>6. Max(T) \in T /\ \A y \in T : Max(T) >= y
  <2>1. Max(T) = CHOOSE x \in T : \A y \in T : x >= y
    BY DEF Max
  <2>. QED
    BY <1>5, <2>1
<1>7. Max(T) \in 0..100 /\ v \in 0..100 /\ Max(T) >= v
  BY <1>6
<1>. QED
  BY <1>6, <1>7

\* The margin of a distribution is at most what its likeliest answer, whichever is
\* asked about, has over any other; with two answers as likely it is nothing.
LEMMA MarginIs ==
  ASSUME NEW odds, \A o \in DOMAIN odds : odds[o] \in 0..100,
         NEW choice \in DOMAIN odds, \A o \in DOMAIN odds : odds[o] <= odds[choice],
         NEW o \in DOMAIN odds, o # choice
  PROVE  Margin(odds) \in Int /\ odds[o] + Margin(odds) <= odds[choice]
<1>1. PICK best : /\ best \in DOMAIN odds /\ \A x \in DOMAIN odds : odds[x] <= odds[best]
                  /\ best = CHOOSE y \in DOMAIN odds : \A x \in DOMAIN odds : odds[x] <= odds[y]
  <2>1. \E y \in DOMAIN odds : \A x \in DOMAIN odds : odds[x] <= odds[y]
    OBVIOUS
  <2>. QED
    BY <2>1
<1>. DEFINE others == {odds[y] : y \in (DOMAIN odds) \ {best}}
<1>2. Margin(odds) = odds[best] - (IF others = {} THEN 0 ELSE Max(others))
  BY <1>1 DEF Margin
<1>3. others \in SUBSET (0..100)
  OBVIOUS
<1>4. PICK other \in (DOMAIN odds) \ {best} : odds[other] >= odds[o]
  <2>1. CASE o = best
    BY <1>1, <2>1
  <2>2. CASE o # best
    BY <2>2
  <2>. QED
    BY <2>1, <2>2
<1>5. odds[other] \in others
  OBVIOUS
<1>. HIDE DEF others
<1>6. Max(others) \in others /\ odds[other] <= Max(others)
  BY <1>3, <1>5, GreatestOdds
<1>7. Max(others) \in 0..100 /\ Margin(odds) = odds[best] - Max(others)
  BY <1>2, <1>3, <1>5, <1>6
<1>8. /\ odds[best] \in 0..100 /\ odds[choice] \in 0..100 /\ odds[o] \in 0..100 /\ odds[other] \in 0..100
      /\ odds[best] = odds[choice]
  BY <1>1
<1>9. PICK b, q, t, u \in 0..100 : b = odds[choice] /\ q = odds[o] /\ t = odds[other] /\ u = Max(others)
  BY <1>7, <1>8
<1>10. Margin(odds) = b - u /\ t <= u /\ q <= t
  BY <1>4, <1>6, <1>7, <1>8, <1>9
<1>. QED
  BY <1>9, <1>10

LEMMA RoutingBegins == RoutingInit => RoutingIInv
<1>. SUFFICES ASSUME RoutingInit PROVE RoutingIInv
  OBVIOUS
<1>1. RoutingTypeOK
  <2>1. pool = [a \in Candidates |-> [status |-> "online", scores |-> <<>>]]
    BY DEF RoutingInit
  <2>2. [status |-> "online", scores |-> <<>>] \in Listed
    BY DEF Listed
  <2>3. pool \in [Candidates -> Listed]
    BY <2>1, <2>2
  <2>4. \A a \in Candidates : \A i \in 1..Len(pool[a].scores) : pool[a].scores[i].at <= day
    BY <2>1
  <2>. QED
    BY <2>3, <2>4 DEF RoutingInit, RoutingTypeOK
<1>2. OfferedFairly(offered)
  <2>1. offered = [picks |-> <<>>, eligible |-> {}, newcomers |-> {}, risky |-> FALSE]
    BY DEF RoutingInit
  <2>2. ToSet(<<>>) = {} /\ Len(<<>>) = 0
    BY DEF ToSet
  <2>3. Cardinality({}) = 0
    BY FS_EmptySet
  <2>4. Min({3, 0}) = 0 /\ Min({2, 0}) = 0
    BY MinIs
  <2>5. {ModelTag[a] : a \in {}} = {}
    OBVIOUS
  <2>6. {} \cap ({} \ {}) = {} /\ {} \ {} = {}
    OBVIOUS
  <2>7. 0 >= 0
    OBVIOUS
  <2>. QED
    BY <2>1, <2>2, <2>3, <2>4, <2>5, <2>6, <2>7 DEF OfferedFairly
<1>3. AdvisedFairly(advice, offered)
  BY DEF RoutingInit, AdvisedFairly
<1>. QED
  BY <1>1, <1>2, <1>3 DEF RoutingIInv

\* An answer is believed only when it is allowed and likelier than the others by enough.
LEMMA AdviceKeeps ==
  ASSUME RoutingIInv, NEW kind \in DOMAIN Kinds, NEW answer \in Advices, Advise(kind, answer)
  PROVE  RoutingIInv'
<1>1. /\ advice' = [status |-> Verdict(kind, answer), kind |-> kind,
                    value |-> IF Verdict(kind, answer) = "observed" THEN answer.choice ELSE "none", answer |-> answer]
      /\ day' = day /\ pool' = pool /\ round' = round /\ offered' = offered
  BY DEF Advise
<1>2. RoutingTypeOK' /\ OfferedFairly(offered')
  BY <1>1 DEF RoutingIInv, RoutingTypeOK, OfferedFairly
<1>3. AdvisedFairly(advice', offered')
  <2>. SUFFICES ASSUME advice'.status = "observed"
                PROVE  AdvisedFairly(advice', offered')
    BY DEF AdvisedFairly
  <2>1. PICK odds, choice : odds = answer.odds /\ choice = answer.choice
    OBVIOUS
  <2>2. Verdict(kind, answer) = "observed"
    BY <1>1
  <2>3. advice'.value = choice /\ advice'.kind = kind /\ advice'.answer = answer
    BY <1>1, <2>1, <2>2
  <2>4. /\ choice \in Allowed(kind) \cup {"abstain"} /\ choice # "abstain"
        /\ ValidDistribution(odds, Allowed(kind) \cup {"abstain"}, choice)
        /\ PassesThreshold(answer)
    BY <2>1, <2>2 DEF Verdict, StatusReason
  <2>5. choice \in (IF kind = "match" THEN ToSet(offered'.picks) ELSE Kinds[kind])
    BY <1>1, <2>4 DEF Allowed
  <2>6. choice \in DOMAIN odds /\ \A o \in DOMAIN odds : odds[o] <= odds[choice]
    BY <2>4 DEF ValidDistribution
  <2>7. \A o \in DOMAIN odds : odds[o] \in 0..100
    BY <2>1, AdviceConstants
  <2>8. ASSUME NEW o \in DOMAIN odds, o # choice
        PROVE  odds[o] + (IF Policy.mode = "shadow" THEN Policy.margin ELSE 0) <= odds[choice]
    <3>1. Margin(odds) \in Int /\ odds[o] + Margin(odds) <= odds[choice]
      BY <2>6, <2>7, <2>8, MarginIs
    <3>2. Policy.margin \in Nat
      BY AdviceConstants
    <3>3. CASE Policy.mode = "shadow"
      <4>1. Margin(odds) >= Policy.margin
        BY <2>1, <2>4, <3>3 DEF PassesThreshold
      <4>2. odds[o] \in Int /\ odds[choice] \in Int
        BY <2>6, <2>7
      <4>. QED
        BY <3>1, <3>2, <3>3, <4>1, <4>2
    <3>4. CASE Policy.mode # "shadow"
      <4>1. odds[o] \in Int /\ odds[o] <= odds[choice]
        BY <2>6, <2>7
      <4>. QED
        BY <3>4, <4>1
    <3>. QED
      BY <3>3, <3>4
  <2>. QED
    BY <2>1, <2>3, <2>5, <2>8 DEF AdvisedFairly
<1>. QED
  BY <1>2, <1>3 DEF RoutingIInv

LEMMA ScoreKeeps ==
  ASSUME RoutingIInv, NEW a \in Candidates, NEW mark \in Marks, Score(a, mark)
  PROVE  RoutingTypeOK'
<1>1. PICK scores : scores = pool[a].scores
  OBVIOUS
<1>2. PICK new : new = <<[at |-> day, mark |-> mark]>> \o scores
  OBVIOUS
<1>3. /\ pool' = [pool EXCEPT ![a].scores = new] /\ day' = day /\ round' = round
  BY <1>1, <1>2 DEF Score
<1>4. /\ pool \in [Candidates -> Listed] /\ day \in Nat /\ round \in Nat /\ scores \in Seq(Judgements)
      /\ \A b \in Candidates : \A i \in 1..Len(pool[b].scores) : pool[b].scores[i].at <= day
  BY <1>1 DEF RoutingIInv, RoutingTypeOK, Listed
<1>5. PICK e : e = [at |-> day, mark |-> mark] /\ e \in Judgements /\ e.at = day
  <2>1. mark \in 0..100
    BY RoutingConstants
  <2>2. [at |-> day, mark |-> mark] \in Judgements
    BY <1>4, <2>1 DEF Judgements
  <2>. QED
    BY <2>2
<1>6. /\ new \in Seq(Judgements) /\ Len(new) = Len(scores) + 1 /\ Len(scores) \in Nat
      /\ \A i \in 1..Len(new) : new[i] = IF i = 1 THEN e ELSE scores[i - 1]
  <2>1. new = <<e>> \o scores /\ <<e>> \in Seq(Judgements) /\ Len(<<e>>) = 1 /\ Len(scores) \in Nat /\ <<e>>[1] = e
    BY <1>2, <1>4, <1>5
  <2>2. /\ new \in Seq(Judgements) /\ Len(new) = 1 + Len(scores)
        /\ \A i \in 1..(1 + Len(scores)) : new[i] = IF i <= 1 THEN <<e>>[i] ELSE scores[i - 1]
    BY <1>4, <2>1, ConcatProperties
  <2>. QED
    BY <2>1, <2>2
<1>7. \A i \in 1..Len(new) : new[i].at <= day
  <2>. SUFFICES ASSUME NEW i \in 1..Len(new) PROVE new[i].at <= day
    OBVIOUS
  <2>1. CASE i = 1
    BY <1>4, <1>5, <1>6, <2>1
  <2>2. CASE i # 1
    <3>1. i - 1 \in 1..Len(scores) /\ new[i] = scores[i - 1]
      BY <1>6, <2>2
    <3>. QED
      BY <1>1, <1>4, <3>1
  <2>. QED
    BY <2>1, <2>2
<1>8. pool' \in [Candidates -> Listed] /\ pool'[a].scores = new /\ \A b \in Candidates : b # a => pool'[b] = pool[b]
  BY <1>3, <1>4, <1>6 DEF Listed
<1>9. \A b \in Candidates : \A i \in 1..Len(pool'[b].scores) : pool'[b].scores[i].at <= day'
  BY <1>3, <1>4, <1>7, <1>8
<1>. QED
  BY <1>3, <1>4, <1>8, <1>9 DEF RoutingTypeOK

LEMMA RoutingStep == RoutingIInv /\ [RoutingNext]_routingVars => RoutingIInv'
<1>. SUFFICES ASSUME RoutingIInv, [RoutingNext]_routingVars PROVE RoutingIInv'
  OBVIOUS
<1>. USE DEF RoutingIInv
<1>1. CASE NextDay
  <2>1. day' = day + 1 /\ pool' = pool /\ round' = round /\ offered' = offered /\ advice' = advice
    BY <1>1 DEF NextDay
  <2>2. \A a \in Candidates : \A i \in 1..Len(pool[a].scores) : pool[a].scores[i].at <= day + 1
    <3>. SUFFICES ASSUME NEW a \in Candidates, NEW i \in 1..Len(pool[a].scores)
                  PROVE  pool[a].scores[i].at <= day + 1
      OBVIOUS
    <3>1. pool[a].scores \in Seq(Judgements) /\ day \in Nat /\ pool[a].scores[i].at <= day
      BY DEF RoutingTypeOK, Listed
    <3>2. pool[a].scores[i] \in Judgements
      BY <3>1
    <3>3. pool[a].scores[i].at \in Nat
      BY <3>2 DEF Judgements
    <3>. QED
      BY <3>1, <3>3
  <2>3. RoutingTypeOK'
    BY <2>1, <2>2 DEF RoutingTypeOK
  <2>. QED
    BY <2>1, <2>3 DEF OfferedFairly, AdvisedFairly
<1>2. ASSUME NEW r \in DOMAIN Shuffle, NEW risky \in BOOLEAN, Offer(r, risky)
      PROVE  RoutingIInv'
  <2>1. /\ day' = day /\ pool' = pool /\ round' = r /\ offered' = SelectThree(r, risky)
        /\ advice' = [status |-> "none", value |-> "none"]
    BY <1>2 DEF Offer
  <2>2. RoutingTypeOK'
    BY <2>1, ShuffleConstants DEF RoutingTypeOK
  <2>3. OfferedFairly(offered')
    BY <2>1, DrawIsFair
  <2>4. AdvisedFairly(advice', offered')
    BY <2>1 DEF AdvisedFairly
  <2>. QED
    BY <2>2, <2>3, <2>4
<1>3. ASSUME NEW a \in Restless, NEW status \in {"online", "degraded", "offline"}, ChangeStatus(a, status)
      PROVE  RoutingIInv'
  <2>1. /\ pool' = [pool EXCEPT ![a].status = status]
        /\ day' = day /\ round' = round /\ offered' = offered /\ advice' = advice
    BY <1>3 DEF ChangeStatus
  <2>2. pool' \in [Candidates -> Listed] /\ \A b \in Candidates : pool'[b].scores = pool[b].scores
    BY <2>1 DEF RoutingTypeOK, Listed
  <2>3. RoutingTypeOK'
    BY <2>1, <2>2 DEF RoutingTypeOK
  <2>. QED
    BY <2>1, <2>3 DEF OfferedFairly, AdvisedFairly
<1>4. ASSUME NEW a \in Candidates, NEW mark \in Marks, Score(a, mark)
      PROVE  RoutingIInv'
  <2>1. offered' = offered /\ advice' = advice
    BY <1>4 DEF Score
  <2>2. RoutingTypeOK'
    BY <1>4, ScoreKeeps
  <2>. QED
    BY <2>1, <2>2 DEF OfferedFairly, AdvisedFairly
<1>5. ASSUME NEW kind \in DOMAIN Kinds, NEW answer \in Advices, Advise(kind, answer)
      PROVE  RoutingIInv'
  BY <1>5, AdviceKeeps
<1>6. CASE UNCHANGED routingVars
  BY <1>6 DEF routingVars, RoutingTypeOK, OfferedFairly, AdvisedFairly
<1>. QED
  BY <1>1, <1>2, <1>3, <1>4, <1>5, <1>6 DEF RoutingNext

LEMMA FairDraws == RoutingIInv => SelectionIsFair
BY DEF RoutingIInv, OfferedFairly, AdvisedFairly, SelectionIsFair, Allowed

\* A draw offers as many different models as there are seats and candidates for them,
\* gives a newcomer a seat whenever the risk allows it, and advice is followed only
\* within what was asked and with the certainty required (queen-ranking.ts:67-114,
\* jev-decision-adapter.ts:103-228).
THEOREM DrawsAreFair == RoutingSpec => []SelectionIsFair
<1>1. RoutingSpec => []RoutingIInv
  BY RoutingBegins, RoutingStep, PTL DEF RoutingSpec
<1>. QED
  BY <1>1, FairDraws, PTL

-----------------------------------------------------------------------------
(* The planning console.  A request the page still waits for is the only   *)
(* one, was sent under the account connected, and keeps every button away; *)
(* a reading on show is the publisher's, and carries no decision unless    *)
(* the page waits for the answer to it.                                    *)

Plan == [asked : {TRUE}, live : BOOLEAN, planning : {"unobserved", "executing", "committed", "uncertain"},
         ready : BOOLEAN, approved : BOOLEAN]
Sent == [live : BOOLEAN, action : {"read"} \cup Mutations, jar : Wallets \cup {"none"}, body : Nat]
Steps == {None} \cup [at : {"login"}] \cup [at : {"send", "wait"}, what : {"read"} \cup Mutations]

ServicesTypeOK ==
    /\ task \in [version : 1..MaxVersion, open : BOOLEAN]
    /\ DOMAIN asked = 1..MaxVersion
    /\ \A v \in DOMAIN asked : asked[v] # NotAsked => asked[v] \in Plan

TabTypeOK ==
    /\ wallet \in Wallets
    /\ session \in [revision : Nat, vetoed : BOOLEAN, jar : Wallets \cup {"none"}, leaving : BOOLEAN]
    /\ page.step \in Steps /\ reads \in Nat /\ flying \subseteq Sent
    /\ DOMAIN page = {"busy", "step", "shown", "client"}

CookieFits == ~session.vetoed => session.jar \in {"none", wallet}

AwaitedAlone ==
    /\ \A r \in flying : r.live => r.jar \in {"none", wallet} /\ page.step = [at |-> "wait", what |-> r.action]
    /\ \A r1, r2 \in flying : r1.live /\ r2.live => r1 = r2
    /\ page.step # None => page.busy # "no"

ReadingsFresh ==
    /\ page.shown # None => page.shown.wallet = Owner
    /\ page.shown # None /\ (page.step = None \/ page.step.at # "wait") => page.shown.reading \notin rested
    /\ rested \subseteq 1..reads
    /\ page.shown # None => page.shown.reading \in 1..reads /\ page.shown.value.version \in 1..MaxVersion
    /\ page.step # None /\ page.step.at = "send" /\ page.step.what \in Mutations => LivePlanning # None

ConsoleIInv == ServicesTypeOK /\ TabTypeOK /\ CookieFits /\ AwaitedAlone /\ ReadingsFresh

-----------------------------------------------------------------------------
LEMMA StepKinds ==
  /\ [at |-> "login"] # None
  /\ \A w : [at |-> "send", what |-> w] # None /\ [at |-> "wait", what |-> w] # None
  /\ \A w : [at |-> "login"] # [at |-> "wait", what |-> w]
  BY DEF None

LEMMA LiveIsShown == LivePlanning # None => page.shown # None /\ LivePlanning = page.shown.value
                                            /\ page.shown.wallet = wallet
  BY DEF LivePlanning

LEMMA InitConsoleIInv == ConsoleInit => ConsoleIInv
<1>. SUFFICES ASSUME ConsoleInit PROVE ConsoleIInv
  OBVIOUS
<1>1. /\ page.step = None /\ page.shown = None /\ page.busy = "no" /\ reads = 0 /\ flying = {} /\ rested = {}
      /\ DOMAIN page = {"busy", "step", "shown", "client"}
  BY DEF ConsoleInit, AtRest
<1>2. TabTypeOK
  BY <1>1 DEF ConsoleInit, TabTypeOK, Steps
<1>3. ServicesTypeOK
  BY ConsoleConstants DEF ConsoleInit, ServicesTypeOK
<1>. QED
  BY <1>1, <1>2, <1>3 DEF ConsoleInit, ConsoleIInv, CookieFits, AwaitedAlone, ReadingsFresh

\* What changes without the console changes nothing the page stands on.
LEMMA BackgroundKeeps ==
  ASSUME ConsoleIInv, Background
  PROVE  ConsoleIInv'
<1>. USE DEF ConsoleIInv
<1>1. UNCHANGED <<wallet, session, page, flying, reads, rested>>
  BY DEF Background
<1>2. ServicesTypeOK'
  <2>1. CASE task.open /\ task.version < MaxVersion /\ task' = [task EXCEPT !.version = @ + 1] /\ UNCHANGED asked
    BY <2>1, ConsoleConstants DEF ServicesTypeOK
  <2>2. CASE task' = [task EXCEPT !.open = FALSE] /\ UNCHANGED asked
    BY <2>2 DEF ServicesTypeOK
  <2>3. CASE UNCHANGED task /\ \E v \in AskedVersions : \E p \in Plan : asked' = [asked EXCEPT ![v] = p]
    BY <2>3 DEF ServicesTypeOK, AskedVersions
  <2>4. ASSUME NEW v \in AskedVersions,
               \/ asked' = [asked EXCEPT ![v].live = FALSE]
               \/ asked' = [asked EXCEPT ![v].ready = TRUE]
               \/ \E end \in {"executing", "uncertain", "committed"} : asked' = [asked EXCEPT ![v].planning = end]
        PROVE  \E p \in Plan : asked' = [asked EXCEPT ![v] = p]
    <3>1. PICK q \in Plan : q = asked[v]
      BY DEF ServicesTypeOK, AskedVersions
    <3>2. [q EXCEPT !.live = FALSE] \in Plan /\ [q EXCEPT !.ready = TRUE] \in Plan
          /\ \A end \in {"executing", "uncertain", "committed"} : [q EXCEPT !.planning = end] \in Plan
      BY DEF Plan
    <3>. QED
      BY <2>4, <3>1, <3>2
  <2>. QED
    BY <2>1, <2>2, <2>3, <2>4 DEF Background
<1>3. LivePlanning' = LivePlanning
  BY <1>1 DEF LivePlanning
<1>. QED
  BY <1>1, <1>2, <1>3 DEF TabTypeOK, CookieFits, AwaitedAlone, ReadingsFresh

\* A page that is cleared waits for nothing and shows nothing.
LEMMA ClearedKeeps ==
  ASSUME ConsoleIInv, ClearPlanning, UNCHANGED <<task, asked, reads, rested>>,
         wallet' \in Wallets, CookieFits',
         session' \in [revision : Nat, vetoed : BOOLEAN, jar : Wallets \cup {"none"}, leaving : BOOLEAN]
  PROVE  ConsoleIInv'
<1>. USE DEF ConsoleIInv
<1>1. page'.step = None /\ page'.shown = None /\ page'.busy = "no" /\ DOMAIN page' = {"busy", "step", "shown", "client"}
  BY DEF ClearPlanning, AtRest
<1>2. flying' \subseteq Sent /\ \A r \in flying' : ~r.live
  <2>1. \A r \in flying : \A q : q = [r EXCEPT !.live = FALSE] => q \in Sent /\ ~q.live
    BY DEF TabTypeOK, Sent
  <2>2. flying' = {[r EXCEPT !.live = FALSE] : r \in flying}
    BY DEF ClearPlanning, Abandoned
  <2>. QED
    BY <2>1, <2>2
<1>3. ServicesTypeOK'
  BY DEF ServicesTypeOK
<1>4. TabTypeOK'
  BY <1>1, <1>2 DEF TabTypeOK, Steps
<1>5. AwaitedAlone'
  BY <1>1, <1>2 DEF AwaitedAlone
<1>6. ReadingsFresh'
  BY <1>1 DEF ReadingsFresh
<1>. QED
  BY <1>3, <1>4, <1>5, <1>6

LEMMA SwitchKeeps ==
  ASSUME ConsoleIInv, NEW w \in Wallets, SwitchAccount(w)
  PROVE  ConsoleIInv'
<1>1. PICK jar : jar \in {session.jar, wallet} /\
         session' = [revision |-> session.revision + 1, vetoed |-> TRUE, jar |-> jar, leaving |-> TRUE]
  BY DEF SwitchAccount
<1>2. session' \in [revision : Nat, vetoed : BOOLEAN, jar : Wallets \cup {"none"}, leaving : BOOLEAN]
  BY <1>1 DEF ConsoleIInv, TabTypeOK
<1>3. CookieFits'
  BY <1>1 DEF CookieFits
<1>. QED
  BY <1>2, <1>3, ClearedKeeps DEF SwitchAccount

\* The cookie is taken away; nothing the page shows depends on it.
LEMMA CookieGoneKeeps ==
  ASSUME ConsoleIInv, Logout \/ SessionEnds
  PROVE  ConsoleIInv'
<1>. USE DEF ConsoleIInv
<1>1. UNCHANGED <<task, asked, wallet, page, flying, reads, rested>>
  BY DEF Logout, SessionEnds
<1>2. /\ session' \in [revision : Nat, vetoed : BOOLEAN, jar : Wallets \cup {"none"}, leaving : BOOLEAN]
      /\ session'.jar = "none" /\ session'.revision = session.revision
  BY DEF Logout, SessionEnds, TabTypeOK
<1>3. LivePlanning' = LivePlanning
  BY <1>1, <1>2 DEF LivePlanning
<1>. QED
  BY <1>1, <1>2, <1>3 DEF ServicesTypeOK, TabTypeOK, CookieFits, AwaitedAlone, ReadingsFresh

LEMMA PressKeeps ==
  ASSUME ConsoleIInv, NEW action \in {"read", "login"} \cup Mutations, Press(action)
  PROVE  ConsoleIInv'
<1>. USE DEF ConsoleIInv
<1>1. PICK step : step = IF action = "login" THEN [at |-> "login"] ELSE [at |-> "send", what |-> action]
  OBVIOUS
<1>2. page' = [page EXCEPT !.busy = action, !.step = step]
  BY <1>1 DEF Press
<1>3. /\ page'.step = step /\ page'.busy = action /\ page'.shown = page.shown
      /\ DOMAIN page' = {"busy", "step", "shown", "client"}
  BY <1>2 DEF TabTypeOK
<1>4. UNCHANGED <<task, asked, wallet, session, flying, reads, rested>> /\ page.busy = "no"
  BY DEF Press
<1>5. page.step = None /\ \A r \in flying : ~r.live
  BY <1>4, StepKinds DEF AwaitedAlone
<1>6. step \in Steps /\ action # "no" /\ step.at # "wait"
  BY <1>1 DEF Steps, Mutations
<1>7. TabTypeOK'
  BY <1>3, <1>4, <1>6 DEF TabTypeOK
<1>8. AwaitedAlone'
  BY <1>3, <1>4, <1>5, <1>6 DEF AwaitedAlone
<1>9. LivePlanning' = LivePlanning
  BY <1>3, <1>4 DEF LivePlanning
<1>10. ReadingsFresh'
  <2>1. step.at = "send" /\ step.what \in Mutations => LivePlanning # None
    BY <1>1 DEF Press
  <2>. QED
    BY <1>3, <1>4, <1>5, <1>6, <1>9, <2>1 DEF ReadingsFresh
<1>. QED
  BY <1>4, <1>7, <1>8, <1>10 DEF ServicesTypeOK, CookieFits

LEMMA LogInKeeps ==
  ASSUME ConsoleIInv, LogIn
  PROVE  ConsoleIInv'
<1>1. UNCHANGED <<task, asked, wallet, reads, rested>> /\ page.step = [at |-> "login"]
  BY DEF LogIn
<1>2. CASE /\ session' = [session EXCEPT !.vetoed = FALSE, !.jar = wallet]
           /\ page' = [page EXCEPT !.client = [expected |-> session.revision],
                                   !.step = [at |-> "send", what |-> "read"]]
           /\ UNCHANGED flying
  <2>. USE DEF ConsoleIInv
  <2>1. /\ page'.step = [at |-> "send", what |-> "read"] /\ page'.busy = page.busy /\ page'.shown = page.shown
        /\ DOMAIN page' = {"busy", "step", "shown", "client"}
    BY <1>2 DEF TabTypeOK
  <2>2. /\ session' \in [revision : Nat, vetoed : BOOLEAN, jar : Wallets \cup {"none"}, leaving : BOOLEAN]
        /\ session'.jar = wallet
    BY <1>2 DEF TabTypeOK
  <2>3. \A r \in flying : ~r.live
    BY <1>1, StepKinds DEF AwaitedAlone
  <2>4. TabTypeOK'
    BY <1>1, <1>2, <2>1, <2>2 DEF TabTypeOK, Steps
  <2>5. page.busy # "no"
    BY <1>1, StepKinds DEF AwaitedAlone
  <2>6. AwaitedAlone'
    BY <1>1, <1>2, <2>1, <2>3, <2>5 DEF AwaitedAlone
  <2>7. page'.step.at = "send" /\ page'.step.what \notin Mutations
    BY <2>1 DEF Mutations
  <2>8. page.step # None /\ page.step.at # "wait"
    BY <1>1, StepKinds
  <2>9. ReadingsFresh'
    BY <1>1, <2>1, <2>7, <2>8 DEF ReadingsFresh
  <2>. QED
    BY <1>1, <2>2, <2>4, <2>6, <2>9 DEF ServicesTypeOK, CookieFits
<1>3. CASE /\ session.revision < MaxRevision
           /\ session' = [session EXCEPT !.revision = @ + 1, !.vetoed = TRUE, !.leaving = TRUE]
           /\ ClearPlanning
  <2>1. session' \in [revision : Nat, vetoed : BOOLEAN, jar : Wallets \cup {"none"}, leaving : BOOLEAN]
        /\ session'.vetoed /\ wallet' \in Wallets
    <3>1. PICK n : n = session.revision + 1
      OBVIOUS
    <3>2. session' = [session EXCEPT !.revision = n, !.vetoed = TRUE, !.leaving = TRUE]
      BY <1>3, <3>1
    <3>3. n \in Nat
      BY <3>1 DEF ConsoleIInv, TabTypeOK
    <3>. QED
      BY <1>1, <3>2, <3>3 DEF ConsoleIInv, TabTypeOK
  <2>. QED
    BY <1>1, <1>3, <2>1, ClearedKeeps DEF CookieFits
<1>. QED
  BY <1>2, <1>3 DEF LogIn

\* A failure takes the reading away with what the page waited for.
LEMMA FailedIs ==
  ASSUME ConsoleIInv, NEW auth \in BOOLEAN, Failed(auth)
  PROVE  page'.step = None /\ page'.shown = None /\ DOMAIN page' = {"busy", "step", "shown", "client"}
         /\ page'.busy = "no"
  BY DEF Failed, NoReading

\* ... and leaves the page right, when no request under way is waited for.
LEMMA FailedKeeps ==
  ASSUME ConsoleIInv, NEW auth \in BOOLEAN, Failed(auth), ServicesTypeOK',
         UNCHANGED <<wallet, session, reads, rested>>,
         flying' \subseteq Sent, \A r \in flying' : ~r.live
  PROVE  ConsoleIInv'
<1>. USE DEF ConsoleIInv
<1>1. page'.step = None /\ page'.shown = None /\ DOMAIN page' = {"busy", "step", "shown", "client"}
      /\ page'.busy = "no"
  BY FailedIs
<1>2. TabTypeOK'
  BY <1>1 DEF TabTypeOK, Steps
<1>3. AwaitedAlone'
  BY <1>1 DEF AwaitedAlone
<1>4. ReadingsFresh'
  BY <1>1 DEF ReadingsFresh
<1>. QED
  BY <1>2, <1>3, <1>4 DEF CookieFits

LEMMA SendKeeps ==
  ASSUME ConsoleIInv, Send
  PROVE  ConsoleIInv'
<1>. USE DEF ConsoleIInv
<1>1. UNCHANGED <<task, asked, wallet, session, reads>> /\ page.step # None /\ page.step.at = "send"
  BY DEF Send
<1>2. \A r \in flying : ~r.live
  <2>1. \A w : [at |-> "wait", what |-> w].at = "wait"
    OBVIOUS
  <2>. QED
    BY <1>1, <2>1 DEF AwaitedAlone
<1>3. ServicesTypeOK'
  BY <1>1 DEF ServicesTypeOK
<1>4. CASE \E auth \in BOOLEAN : Failed(auth) /\ UNCHANGED <<flying, rested>>
  BY <1>1, <1>2, <1>3, <1>4, FailedKeeps DEF TabTypeOK
<1>5. PICK what : what = page.step.what
  OBVIOUS
<1>6. what \in {"read"} \cup Mutations /\ page.busy # "no"
  BY <1>1, <1>5 DEF TabTypeOK, AwaitedAlone, Steps
<1>7. CASE ~(\E auth \in BOOLEAN : Failed(auth) /\ UNCHANGED <<flying, rested>>)
  <2>1. PICK expected : expected = IF page.client = None THEN session.revision ELSE page.client.expected
    OBVIOUS
  <2>2. PICK body : body = IF what \in Mutations THEN LivePlanning.version ELSE 0
    OBVIOUS
  <2>3. PICK r : r = [live |-> TRUE, action |-> what, jar |-> session.jar, body |-> body]
    OBVIOUS
  <2>4. /\ Signed
        /\ page' = [page EXCEPT !.client = [expected |-> expected], !.step = [at |-> "wait", what |-> what]]
        /\ flying' = flying \cup {r}
        /\ rested' = rested \cup (IF what \in Mutations THEN {page.shown.reading} ELSE {})
    BY <1>5, <1>7, <2>1, <2>2, <2>3 DEF Send
  <2>5. what \in Mutations => LivePlanning # None
    BY <1>1, <1>5 DEF ReadingsFresh
  <2>6. body \in Nat
    BY <2>2, <2>5, LiveIsShown DEF ReadingsFresh
  <2>7. r \in Sent /\ r.live /\ r.jar = session.jar /\ r.action = what
    BY <1>6, <2>3, <2>6 DEF Sent, TabTypeOK
  <2>8. /\ page'.step = [at |-> "wait", what |-> what] /\ page'.busy = page.busy /\ page'.shown = page.shown
        /\ DOMAIN page' = {"busy", "step", "shown", "client"}
    BY <2>4 DEF TabTypeOK
  <2>9. TabTypeOK'
    BY <1>1, <1>6, <2>4, <2>7, <2>8 DEF TabTypeOK, Steps
  <2>10. AwaitedAlone'
    <3>1. r.jar \in {"none", wallet}
      BY <2>4, <2>7 DEF CookieFits, Signed
    <3>. QED
      BY <1>1, <1>2, <1>6, <2>4, <2>7, <2>8, <3>1 DEF AwaitedAlone
  <2>11. ReadingsFresh'
    <3>1. what \in Mutations => page.shown # None /\ page.shown.reading \in 1..reads
      BY <2>5, LiveIsShown DEF ReadingsFresh
    <3>2. rested' \subseteq 1..reads
      BY <2>4, <3>1 DEF ReadingsFresh
    <3>3. page'.step # None /\ page'.step.at = "wait"
      BY <2>8, StepKinds
    <3>. QED
      BY <1>1, <2>8, <3>2, <3>3 DEF ReadingsFresh
  <2>. QED
    BY <1>1, <1>3, <2>9, <2>10, <2>11 DEF CookieFits
<1>. QED
  BY <1>4, <1>7

\* The services move on; the page and the tab are not told.
LEMMA ServicesMove ==
  ASSUME ConsoleIInv, ServicesTypeOK', UNCHANGED <<wallet, session, page, reads, rested>>,
         flying' \subseteq flying
  PROVE  ConsoleIInv'
<1>. USE DEF ConsoleIInv
<1>1. TabTypeOK' /\ CookieFits' /\ AwaitedAlone'
  BY DEF TabTypeOK, CookieFits, AwaitedAlone
<1>2. LivePlanning' = LivePlanning
  BY DEF LivePlanning
<1>3. ReadingsFresh'
  BY <1>2 DEF ReadingsFresh
<1>. QED
  BY <1>1, <1>3

\* What the services do with a request of the console: planning is asked for once
\* per version, and an approval needs a plan that is ready.
ApprovedRightly ==
    \A v \in DOMAIN asked :
        asked'[v] # NotAsked /\ asked'[v].approved =>
            \/ asked[v].approved
            \/ task.version = v /\ task.open /\ asked[v].live /\ asked[v].ready

LEMMA ServicesAnswer ==
  ASSUME ConsoleIInv, NEW version \in 1..MaxVersion, task.version = version, task.open, UNCHANGED task,
         RequestQueenPlanning(version) \/ RecordQueenPlanningApproval(version)
  PROVE  ServicesTypeOK' /\ ApprovedRightly
<1>1. ServicesTypeOK
  BY DEF ConsoleIInv
<1>2. PICK p : p = [asked |-> TRUE, live |-> TRUE, planning |-> "unobserved", ready |-> FALSE, approved |-> FALSE]
  OBVIOUS
<1>3. p \in Plan /\ ~p.approved
  BY <1>2 DEF Plan
<1>4. CASE UNCHANGED asked
  BY <1>1, <1>4 DEF ServicesTypeOK, ApprovedRightly
<1>5. CASE asked[version] = NotAsked /\ asked' = [asked EXCEPT ![version] = p]
  BY <1>1, <1>3, <1>5 DEF ServicesTypeOK, ApprovedRightly
<1>6. CASE RecordQueenPlanningApproval(version)
  <2>1. asked[version] \in Plan /\ asked[version].live /\ (asked[version].approved \/ asked[version].ready)
    BY <1>1, <1>6 DEF ServicesTypeOK, RecordQueenPlanningApproval, MayApprove, StillCurrent
  <2>2. PICK q : q = [asked[version] EXCEPT !.approved = TRUE]
    OBVIOUS
  <2>3. q \in Plan
    BY <2>1, <2>2 DEF Plan
  <2>4. asked' = [asked EXCEPT ![version] = q]
    BY <1>6, <2>2 DEF RecordQueenPlanningApproval
  <2>. QED
    BY <1>1, <2>1, <2>3, <2>4 DEF ServicesTypeOK, ApprovedRightly
<1>. QED
  BY <1>2, <1>4, <1>5, <1>6 DEF RequestQueenPlanning

\* A request that is served, and what its page is told.
LEMMA AnsweredKeeps ==
  ASSUME ConsoleIInv, NEW r \in flying, r.jar = Owner, r.jar # "none", flying' = flying \ {r},
         UNCHANGED <<task, wallet, session, rested>>, Status.version = task.version,
         ServicesTypeOK', Answered(r, Status)
  PROVE  ConsoleIInv'
<1>. USE DEF ConsoleIInv
<1>1. PICK status : status = Status
  OBVIOUS
<1>2. flying' \subseteq Sent /\ (r.live => \A q \in flying' : ~q.live)
  BY DEF TabTypeOK, AwaitedAlone
<1>3. r.live => r.jar \in {"none", wallet} /\ page.step = [at |-> "wait", what |-> r.action] /\ page.busy # "no"
  BY StepKinds DEF AwaitedAlone
<1>4. CASE ~r.live
  BY <1>4, ServicesMove DEF Answered
<1>5. CASE r.live /\ r.action \in Mutations
  <2>1. page' = [page EXCEPT !.shown = None, !.step = [at |-> "send", what |-> "read"]] /\ reads' = reads
    BY <1>5 DEF Answered, NoReading
  <2>2. /\ page'.step = [at |-> "send", what |-> "read"] /\ page'.busy = page.busy /\ page'.shown = None
        /\ DOMAIN page' = {"busy", "step", "shown", "client"}
    BY <2>1 DEF TabTypeOK
  <2>3. TabTypeOK'
    BY <1>2, <2>1, <2>2 DEF TabTypeOK, Steps
  <2>4. AwaitedAlone'
    BY <1>2, <1>3, <1>5, <2>2 DEF AwaitedAlone
  <2>5. page'.step.what \notin Mutations
    BY <2>2 DEF Mutations
  <2>6. ReadingsFresh'
    BY <2>1, <2>2, <2>5 DEF ReadingsFresh
  <2>. QED
    BY <2>3, <2>4, <2>6 DEF CookieFits
<1>6. CASE r.live /\ r.action \notin Mutations
  <2>1. PICK shown : shown = [wallet |-> wallet, revision |-> session.revision, reading |-> reads + 1, value |-> status]
    OBVIOUS
  <2>2. page' = [page EXCEPT !.busy = "no", !.step = None, !.shown = shown] /\ reads' = reads + 1
    BY <1>1, <1>6, <2>1 DEF Answered
  <2>3. /\ page'.step = None /\ page'.busy = "no" /\ page'.shown = shown
        /\ DOMAIN page' = {"busy", "step", "shown", "client"}
    BY <2>2 DEF TabTypeOK
  <2>4. shown.wallet = wallet /\ shown.reading = reads + 1 /\ shown.value.version \in 1..MaxVersion
    BY <1>1, <2>1 DEF ServicesTypeOK
  <2>5. wallet = Owner
    BY <1>3, <1>6
  <2>6. TabTypeOK'
    BY <1>2, <2>2, <2>3 DEF TabTypeOK, Steps
  <2>7. AwaitedAlone'
    BY <1>2, <1>6, <2>3 DEF AwaitedAlone
  <2>8. ReadingsFresh'
    <3>1. reads \in Nat /\ reads + 1 \notin 1..reads /\ reads + 1 \in 1..reads' /\ 1..reads \subseteq 1..reads'
      BY <2>2 DEF TabTypeOK
    <3>. QED
      BY <2>3, <2>4, <2>5, <3>1 DEF ReadingsFresh
  <2>. QED
    BY <2>6, <2>7, <2>8 DEF CookieFits
<1>. QED
  BY <1>4, <1>5, <1>6

LEMMA StatusParses == Parses(Status) /\ Status.version = task.version
<1>1. CASE AskedVersions = {}
  <2>1. Status = [version |-> task.version, open |-> task.open, request |-> None, canApprove |-> FALSE]
    BY <1>1 DEF Status
  <2>. QED
    BY <2>1 DEF Parses
<1>2. CASE AskedVersions # {}
  <2>1. PICK v : v = CHOOSE w \in AskedVersions : \A x \in AskedVersions : x <= w
    OBVIOUS
  <2>2. PICK request : request = [version |-> v, current |-> StillCurrent(v), planning |-> asked[v].planning,
                                  approved |-> asked[v].approved]
    OBVIOUS
  <2>3. PICK can : can = (StillCurrent(v) /\ asked[v].planning = "committed" /\ ~asked[v].approved)
    OBVIOUS
  <2>4. Status = [version |-> task.version, open |-> task.open, request |-> request,
                  canApprove |-> StillCurrent(v) /\ asked[v].planning = "committed" /\ ~asked[v].approved]
    BY <1>2, <2>1, <2>2 DEF Status
  <2>5. request # None /\ request.version = v /\ (request.current <=> StillCurrent(v))
        /\ request.planning = asked[v].planning /\ (request.approved <=> asked[v].approved)
    BY <2>2 DEF None
  <2>. QED
    BY <2>4, <2>5 DEF Parses, CanConfirm, StillCurrent
<1>. QED
  BY <1>1, <1>2

LEMMA ServeKeeps ==
  ASSUME ConsoleIInv, NEW r \in flying, Serve(r)
  PROVE  ConsoleIInv' /\ ApprovedRightly
<1>1. flying' = flying \ {r} /\ UNCHANGED <<task, wallet, session, rested>>
  BY DEF Serve
<1>2. flying' \subseteq Sent /\ (r.live => \A q \in flying' : ~q.live)
  BY <1>1 DEF ConsoleIInv, TabTypeOK, AwaitedAlone
<1>3. ASSUME UNCHANGED asked
      PROVE  ServicesTypeOK' /\ ApprovedRightly
  BY <1>1, <1>3 DEF ConsoleIInv, ServicesTypeOK, ApprovedRightly
<1>4. ASSUME NEW auth \in BOOLEAN, Refused(r, auth), UNCHANGED <<asked, reads>>
      PROVE  ConsoleIInv' /\ ApprovedRightly
  <2>1. CASE r.live
    BY <1>1, <1>2, <1>3, <1>4, <2>1, FailedKeeps DEF Refused
  <2>2. CASE ~r.live
    BY <1>1, <1>3, <1>4, <2>2, ServicesMove DEF Refused
  <2>. QED
    BY <2>1, <2>2
<1>5. ASSUME r.jar = Owner, r.jar # "none", Answered(r, Status), ServicesTypeOK', ApprovedRightly
      PROVE  ConsoleIInv' /\ ApprovedRightly
  BY <1>1, <1>5, StatusParses, AnsweredKeeps
<1>6. CASE r.jar = "none" \/ r.jar # session.jar
  BY <1>4, <1>6 DEF Serve
<1>7. CASE ~(r.jar = "none" \/ r.jar # session.jar)
  <2>1. CASE \E auth \in BOOLEAN : Refused(r, auth) /\ UNCHANGED <<asked, reads>>
    BY <1>4, <2>1
  <2>2. CASE ~(\E auth \in BOOLEAN : Refused(r, auth) /\ UNCHANGED <<asked, reads>>)
    <3>1. /\ r.jar = Owner /\ Answered(r, Status)
          /\ r.action \in Mutations => task.open /\ r.body = task.version
          /\ \/ UNCHANGED asked
             \/ r.action \in Mutations /\ (RequestQueenPlanning(r.body) \/ RecordQueenPlanningApproval(r.body))
      BY <1>7, <2>2 DEF Serve, Mutations
    <3>2. ServicesTypeOK' /\ ApprovedRightly
      <4>1. CASE r.action \in Mutations /\ (RequestQueenPlanning(r.body) \/ RecordQueenPlanningApproval(r.body))
        <5>1. r.body \in 1..MaxVersion
          BY <3>1, <4>1 DEF ConsoleIInv, ServicesTypeOK
        <5>. QED
          BY <1>1, <3>1, <4>1, <5>1, ServicesAnswer
      <4>. QED
        BY <1>3, <3>1, <4>1
    <3>. QED
      BY <1>5, <1>7, <3>1, <3>2
  <2>. QED
    BY <2>1, <2>2
<1>. QED
  BY <1>6, <1>7

LEMMA GivenUpKeeps ==
  ASSUME ConsoleIInv, NEW r \in flying, GiveUp(r) \/ Lose(r)
  PROVE  ConsoleIInv'
<1>1. UNCHANGED <<task, asked, wallet, session, reads, rested>>
  BY DEF GiveUp, Lose
<1>2. ServicesTypeOK'
  BY <1>1 DEF ConsoleIInv, ServicesTypeOK
<1>3. CASE GiveUp(r)
  <2>1. PICK q : q = [r EXCEPT !.live = FALSE]
    OBVIOUS
  <2>2. q \in Sent /\ ~q.live
    BY <2>1 DEF ConsoleIInv, TabTypeOK, Sent
  <2>3. flying' = (flying \ {r}) \cup {q} /\ r.live
    BY <1>3, <2>1 DEF GiveUp
  <2>4. flying' \subseteq Sent /\ \A x \in flying' : ~x.live
    BY <2>2, <2>3 DEF ConsoleIInv, TabTypeOK, AwaitedAlone
  <2>. QED
    BY <1>1, <1>2, <1>3, <2>4, FailedKeeps DEF GiveUp
<1>4. CASE Lose(r)
  BY <1>1, <1>2, <1>4, ServicesMove DEF Lose
<1>. QED
  BY <1>3, <1>4

LEMMA BackgroundApproves ==
  ASSUME ConsoleIInv, Background
  PROVE  ApprovedRightly
<1>1. CASE UNCHANGED asked
  BY <1>1 DEF ApprovedRightly
<1>2. CASE \E v \in AskedVersions : \/ asked' = [asked EXCEPT ![v].live = FALSE]
                                    \/ asked' = [asked EXCEPT ![v].ready = TRUE]
                                    \/ \E end \in {"executing", "uncertain", "committed"} :
                                         asked' = [asked EXCEPT ![v].planning = end]
  <2>1. PICK v \in AskedVersions : \/ asked' = [asked EXCEPT ![v].live = FALSE]
                                   \/ asked' = [asked EXCEPT ![v].ready = TRUE]
                                   \/ \E end \in {"executing", "uncertain", "committed"} :
                                         asked' = [asked EXCEPT ![v].planning = end]
    BY <1>2
  <2>2. asked[v] \in Plan /\ v \in DOMAIN asked
    BY DEF ConsoleIInv, ServicesTypeOK, AskedVersions
  <2>3. asked'[v].approved = asked[v].approved /\ \A w \in DOMAIN asked : w # v => asked'[w] = asked[w]
    BY <2>1, <2>2 DEF Plan
  <2>. QED
    BY <2>3 DEF ApprovedRightly
<1>. QED
  BY <1>1, <1>2 DEF Background

LEMMA NextConsoleIInv == ConsoleIInv /\ [ConsoleNext]_consoleVars => ConsoleIInv' /\ ApprovedRightly
<1>. SUFFICES ASSUME ConsoleIInv, [ConsoleNext]_consoleVars PROVE ConsoleIInv' /\ ApprovedRightly
  OBVIOUS
<1>1. CASE UNCHANGED consoleVars
  <2>1. ConsoleIInv'
    BY <1>1 DEF consoleVars, ConsoleIInv, ServicesTypeOK, TabTypeOK, CookieFits, AwaitedAlone,
                ReadingsFresh, LivePlanning
  <2>. QED
    BY <1>1, <2>1 DEF consoleVars, ApprovedRightly
<1>2. CASE Background
  BY <1>2, BackgroundKeeps, BackgroundApproves
<1>3. CASE \E r \in flying : Serve(r)
  BY <1>3, ServeKeeps
<1>4. ASSUME UNCHANGED asked
      PROVE  ApprovedRightly
  BY <1>4 DEF ApprovedRightly
<1>5. CASE Logout \/ SessionEnds
  BY <1>4, <1>5, CookieGoneKeeps DEF Logout, SessionEnds
<1>6. CASE LogIn
  BY <1>4, <1>6, LogInKeeps DEF LogIn
<1>7. CASE Send
  BY <1>4, <1>7, SendKeeps DEF Send
<1>8. CASE \E w \in Wallets : SwitchAccount(w)
  BY <1>4, <1>8, SwitchKeeps DEF SwitchAccount
<1>9. CASE \E action \in {"read", "login"} \cup Mutations : Press(action)
  BY <1>4, <1>9, PressKeeps DEF Press
<1>10. CASE \E r \in flying : GiveUp(r) \/ Lose(r)
  BY <1>4, <1>10, GivenUpKeeps DEF GiveUp, Lose
<1>. QED
  BY <1>1, <1>2, <1>3, <1>5, <1>6, <1>7, <1>8, <1>9, <1>10 DEF ConsoleNext

\* A plan is shown to its publisher only; a reading carries one decision at most; and
\* an approval is of the version that is current, open and planned
\* (LocalAgentsPage.tsx, queenPlanningClient.ts).
THEOREM DecidedOncePerReading == ConsoleSpec => OneDecisionPerReading
<1>1. ConsoleIInv /\ [ConsoleNext]_consoleVars =>
        ConsoleIInv' /\
        [/\ LivePlanning' # None => wallet' = Owner
         /\ Parses(Status)
         /\ page.step # None /\ page.step.at = "send" /\ page.step.what \in Mutations
              => page.shown.reading \notin rested
         /\ \A v \in DOMAIN asked :
              asked'[v] # NotAsked /\ asked'[v].approved =>
                  \/ asked[v].approved
                  \/ task.version = v /\ task.open /\ asked[v].live /\ asked[v].ready]_consoleVars
  <2>. SUFFICES ASSUME ConsoleIInv, [ConsoleNext]_consoleVars
                PROVE  /\ ConsoleIInv'
                       /\ LivePlanning' # None => wallet' = Owner
                       /\ Parses(Status)
                       /\ page.step # None /\ page.step.at = "send" /\ page.step.what \in Mutations
                            => page.shown.reading \notin rested
                       /\ \A v \in DOMAIN asked :
                            asked'[v] # NotAsked /\ asked'[v].approved =>
                                \/ asked[v].approved
                                \/ task.version = v /\ task.open /\ asked[v].live /\ asked[v].ready
    OBVIOUS
  <2>1. ConsoleIInv' /\ ApprovedRightly
    BY NextConsoleIInv
  <2>2. LivePlanning' # None => wallet' = Owner
    BY <2>1 DEF ConsoleIInv, ReadingsFresh, LivePlanning
  <2>3. page.step # None /\ page.step.at = "send" /\ page.step.what \in Mutations
          => page.shown.reading \notin rested
    BY LiveIsShown DEF ConsoleIInv, ReadingsFresh
  <2>. QED
    BY <2>1, <2>2, <2>3, StatusParses DEF ApprovedRightly
<1>. QED
  BY InitConsoleIInv, <1>1, PTL DEF ConsoleSpec, OneDecisionPerReading
=============================================================================
