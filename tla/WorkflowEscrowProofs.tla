------------------------ MODULE WorkflowEscrowProofs ------------------------
(***************************************************************************)
(* The V3 escrow stays solvent, strands no full workflow and implements    *)
(* EscrowPromise, for any tasks, nodes, accounts, budgets, stakes, shares  *)
(* and fee.  The inductive invariant adds to solvency that the two share   *)
(* counters of a task are the sums of its nodes' shares, which is what     *)
(* bounds the pay by the budget and lets no node be left out.              *)
(***************************************************************************)
EXTENDS WorkflowEscrow, CollectionsProofs

AssignedShares(t) == [n \in Nodes |-> assignments[t][n].shareBps]

AcceptedShares(t) ==
    [n \in Nodes |-> IF assignments[t][n].accepted THEN assignments[t][n].shareBps ELSE 0]

\* A node has an agent or nothing; an agent has a share, and claims only what he accepted.
PlanKnown ==
    \A t \in Tasks, n \in Nodes :
        /\ assignments[t][n].agent = NoOne => assignments[t][n] = Unassigned
        /\ assignments[t][n].agent # NoOne => assignments[t][n].shareBps > 0
        /\ assignments[t][n].stakeClaimed => assignments[t][n].accepted

\* The counters of a task are the sums of its nodes' shares.
SharesAccounted ==
    \A t \in Tasks :
        /\ tasks[t].assignedShareBps = Total(AssignedShares(t))
        /\ tasks[t].acceptedShareBps = Total(AcceptedShares(t))

\* Nothing is planned for a task that does not exist.
NothingPlanned ==
    \A t \in Tasks : tasks[t].state = "NONE" =>
        tasks[t] = EmptyTask /\ \A n \in Nodes : assignments[t][n] = Unassigned

Records ==
    /\ tasks \in [Tasks -> Task]
    /\ assignments \in [Tasks -> [Nodes -> NodeAssignment]]

Purses ==
    /\ usedRequestRefs \subseteq Refs
    /\ receiptOwner \in [Tasks -> [Nodes -> Accounts \cup {NoOne}]]
    /\ balance \in [Accounts -> Nat]

Plan == Records /\ PlanKnown /\ SharesAccounted /\ NothingPlanned

Backed == held = Total(BudgetOwed) + Total(StakeOwed) + Total(Dust)

ReceiptBacksStake ==
    \A t \in Tasks, n \in Nodes :
        /\ receiptOwner[t][n] # NoOne
             <=> assignments[t][n].accepted /\ ~assignments[t][n].stakeClaimed
        /\ receiptOwner[t][n] # NoOne
             => tasks[t].state \in Started \cup {"SETTLED_AGENTS"}

WorkflowIInv == Plan /\ Purses /\ Backed /\ ReceiptBacksStake

-----------------------------------------------------------------------------
\* The pots, one task or node at a time.
BudgetOn(task) == IF task.state \in Live THEN task.budget ELSE 0
StakeOn(a) == IF a.accepted /\ ~a.stakeClaimed THEN a.stakeAmount ELSE 0
PaidOut(t) == [n \in Nodes |-> NodePay(t, n)]

LEMMA ShareTypes ==
  ASSUME Records, NEW t \in Tasks
  PROVE  AssignedShares(t) \in [Nodes -> Nat] /\ AcceptedShares(t) \in [Nodes -> Nat]
  BY DEF Records, AssignedShares, AcceptedShares, NodeAssignment

\* What the agents of a task are paid never exceeds its budget.
LEMMA PayFitsBudget ==
  ASSUME Records, SharesAccounted, NEW t \in Tasks
  PROVE  PaidOut(t) \in [Nodes -> Nat] /\ Total(PaidOut(t)) \in 0..tasks[t].budget
<1>. DEFINE amount == tasks[t].budget
            share == AssignedShares(t)
            pay == PaidOut(t)
<1>1. amount \in Nat /\ TotalShare \in Nat \ {0} /\ tasks[t].assignedShareBps \in 0..TotalShare
  BY WorkflowEscrowConstants DEF Records, Task
<1>2. share \in [Nodes -> Nat] /\ Total(share) <= TotalShare
  BY <1>1, ShareTypes DEF SharesAccounted
<1>3. \A n \in Nodes : share[n] = assignments[t][n].shareBps
  BY DEF AssignedShares
<1>4. \A n \in Nodes : pay[n] = (amount * share[n]) \div TotalShare
  BY <1>3 DEF PaidOut, NodePay
<1>5. DOMAIN pay = Nodes /\ pay = [n \in Nodes |-> pay[n]]
  BY DEF PaidOut
<1>. HIDE DEF amount, share, pay
<1>6. ASSUME NEW n \in Nodes PROVE pay[n] \in Nat
  <2>. DEFINE d == amount * share[n]
  <2>1. d \in Nat
    BY <1>1, <1>2
  <2>. HIDE DEF d
  <2>2. d \div TotalShare \in Nat
    BY <1>1, <2>1, Z3
  <2>. QED
    BY <1>4, <2>2 DEF d
<1>7. pay \in [Nodes -> Nat]
  BY <1>5, <1>6
<1>8. Total(pay) <= amount
  BY <1>1, <1>2, <1>4, <1>7, SharesFit, WorkflowEscrowConstants
<1>9. Total(pay) \in Nat
  BY <1>7, TotalType, WorkflowEscrowConstants
<1>. QED
  BY <1>1, <1>7, <1>8, <1>9 DEF amount, pay

PotsTyped ==
    /\ BudgetOwed \in [Tasks -> Nat] /\ Total(BudgetOwed) \in Nat
    /\ StakeOwed \in [Tasks \X Nodes -> Nat] /\ Total(StakeOwed) \in Nat
    /\ Dust \in [Tasks -> Nat] /\ Total(Dust) \in Nat

\* Every pot holds natural amounts, in this state and in the next.
LEMMA PotTypes == Plan => PotsTyped
<1>. SUFFICES ASSUME Plan PROVE PotsTyped
  OBVIOUS
<1>. USE DEF Plan
<1>1. IsFiniteSet(Tasks) /\ IsFiniteSet(Nodes) /\ IsFiniteSet(Tasks \X Nodes)
  BY FS_Product, WorkflowEscrowConstants
<1>2. BudgetOwed \in [Tasks -> Nat]
  BY DEF Records, Task, BudgetOwed
<1>3. StakeOwed \in [Tasks \X Nodes -> Nat]
  BY DEF Records, NodeAssignment, StakeOwed
<1>4. ASSUME NEW t \in Tasks PROVE tasks[t].budget - Total(PaidOut(t)) \in Nat
  BY PayFitsBudget DEF Records, Task
<1>5. Dust \in [Tasks -> Nat]
  BY <1>4 DEF Dust, PaidOut
<1>. QED
  BY <1>1, <1>2, <1>3, <1>5, TotalType DEF PotsTyped

LEMMA PotTypesNext == Plan' => PotsTyped'
  BY PotTypes, PTL

-----------------------------------------------------------------------------
\* How the pots move when one task, or one node's assignment, changes.
LEMMA BudgetMoves ==
  ASSUME PotsTyped, PotsTyped', tasks \in [Tasks -> Task], NEW t \in Tasks, NEW r,
         tasks' = [tasks EXCEPT ![t] = r]
  PROVE  Total(BudgetOwed)' = Total(BudgetOwed) - BudgetOn(tasks[t]) + BudgetOn(r)
<1>. DEFINE f == BudgetOwed
            g == BudgetOwed'
            R == Tasks
            x == t
<1>1. /\ \A u \in R \ {x} : g[u] = f[u]
      /\ f[x] = BudgetOn(tasks[t]) /\ g[x] = BudgetOn(r)
  BY DEF BudgetOwed, BudgetOn
<1>2. f \in [R -> Nat] /\ g \in [R -> Nat] /\ x \in R /\ IsFiniteSet(R)
  BY WorkflowEscrowConstants DEF PotsTyped
<1>3. Total(BudgetOwed)' = Total(g)
  BY DEF Total, Coins
<1>. HIDE DEF f, g, R, x
<1>4. Total(g) = Total(f) - f[x] + g[x]
  BY <1>1, <1>2, TotalDiffersAtOnePlace
<1>. QED
  BY <1>1, <1>3, <1>4 DEF f

LEMMA StakeMoves ==
  ASSUME PotsTyped, PotsTyped', Records, NEW t \in Tasks, NEW n \in Nodes, NEW a,
         assignments' = [assignments EXCEPT ![t][n] = a]
  PROVE  Total(StakeOwed)' = Total(StakeOwed) - StakeOn(assignments[t][n]) + StakeOn(a)
<1>. DEFINE f == StakeOwed
            g == StakeOwed'
            R == Tasks \X Nodes
            x == <<t, n>>
<1>1. assignments'[t][n] = a /\ \A tn \in R \ {x} : assignments'[tn[1]][tn[2]] = assignments[tn[1]][tn[2]]
  <2>1. \A tn \in R : tn = <<tn[1], tn[2]>> /\ tn[1] \in Tasks /\ tn[2] \in Nodes
    OBVIOUS
  <2>. QED
    BY <2>1 DEF Records
<1>2. /\ \A u \in R \ {x} : g[u] = f[u]
      /\ f[x] = StakeOn(assignments[t][n]) /\ g[x] = StakeOn(a)
  <2>1. ASSUME NEW u \in R
        PROVE  f[u] = StakeOn(assignments[u[1]][u[2]]) /\ g[u] = StakeOn(assignments'[u[1]][u[2]])
    BY DEF StakeOwed, StakeOn
  <2>2. x \in R /\ x[1] = t /\ x[2] = n
    OBVIOUS
  <2>. HIDE DEF f, g, R, x
  <2>. QED
    BY <1>1, <2>1, <2>2
<1>3. f \in [R -> Nat] /\ g \in [R -> Nat] /\ x \in R /\ IsFiniteSet(R)
  BY FS_Product, WorkflowEscrowConstants DEF PotsTyped
<1>4. Total(StakeOwed)' = Total(g)
  BY DEF Total, Coins
<1>. HIDE DEF f, g, R, x
<1>5. Total(g) = Total(f) - f[x] + g[x]
  BY <1>2, <1>3, TotalDiffersAtOnePlace
<1>. QED
  BY <1>2, <1>4, <1>5 DEF f

LEMMA StakeStays ==
  ASSUME \A t \in Tasks, n \in Nodes : StakeOn(assignments'[t][n]) = StakeOn(assignments[t][n])
  PROVE  Total(StakeOwed)' = Total(StakeOwed)
<1>1. StakeOwed' = StakeOwed
  BY DEF StakeOwed, StakeOn
<1>. QED
  BY <1>1 DEF Total, Coins

\* The dust of a task does not move unless the task is settled for its agents now.
LEMMA DustStays ==
  ASSUME \A t \in Tasks :
            /\ tasks'[t].state = "SETTLED_AGENTS" <=> tasks[t].state = "SETTLED_AGENTS"
            /\ tasks[t].state = "SETTLED_AGENTS" =>
                 /\ tasks'[t].budget = tasks[t].budget
                 /\ \A n \in Nodes : assignments'[t][n].shareBps = assignments[t][n].shareBps
  PROVE  Total(Dust)' = Total(Dust)
<1>1. ASSUME NEW t \in Tasks, tasks[t].state = "SETTLED_AGENTS"
      PROVE  PaidOut(t)' = PaidOut(t)
  BY <1>1 DEF PaidOut, NodePay
<1>2. ASSUME NEW t \in Tasks, tasks[t].state = "SETTLED_AGENTS"
      PROVE  tasks'[t].budget - Total(PaidOut(t)') = tasks[t].budget - Total(PaidOut(t))
  BY <1>1, <1>2
<1>3. Dust = [t \in Tasks |-> IF tasks[t].state = "SETTLED_AGENTS"
                              THEN tasks[t].budget - Total(PaidOut(t)) ELSE 0]
  BY DEF Dust, PaidOut
<1>4. Dust' = [t \in Tasks |-> IF tasks'[t].state = "SETTLED_AGENTS"
                               THEN tasks'[t].budget - Total(PaidOut(t)') ELSE 0]
  BY DEF Dust, PaidOut, Total, Coins
<1>5. Dust' = Dust
  BY <1>2, <1>3, <1>4
<1>. QED
  BY <1>5 DEF Total, Coins

\* Shares and stakes of one node may move; those of the others stay.
LEMMA SharesMove ==
  ASSUME Plan, NEW t \in Tasks, NEW n \in Nodes, NEW a \in NodeAssignment,
         assignments' = [assignments EXCEPT ![t][n] = a]
  PROVE  /\ assignments' \in [Tasks -> [Nodes -> NodeAssignment]]
         /\ Total(AssignedShares(t))' = tasks[t].assignedShareBps - assignments[t][n].shareBps + a.shareBps
         /\ Total(AcceptedShares(t))' = tasks[t].acceptedShareBps
                - (IF assignments[t][n].accepted THEN assignments[t][n].shareBps ELSE 0)
                + (IF a.accepted THEN a.shareBps ELSE 0)
         /\ \A u \in Tasks \ {t} : /\ Total(AssignedShares(u))' = Total(AssignedShares(u))
                                   /\ Total(AcceptedShares(u))' = Total(AcceptedShares(u))
<1>1. assignments' \in [Tasks -> [Nodes -> NodeAssignment]]
  BY DEF Plan, Records
<1>2. /\ assignments'[t][n] = a
      /\ \A m \in Nodes \ {n} : assignments'[t][m] = assignments[t][m]
      /\ \A u \in Tasks \ {t} : assignments'[u] = assignments[u]
  BY DEF Plan, Records
<1>3. ASSUME NEW u \in Tasks \ {t}
      PROVE  /\ Total(AssignedShares(u))' = Total(AssignedShares(u))
             /\ Total(AcceptedShares(u))' = Total(AcceptedShares(u))
  BY <1>2 DEF Total, Coins, AssignedShares, AcceptedShares
<1>. DEFINE f == AssignedShares(t)
            g == AssignedShares(t)'
            h == AcceptedShares(t)
            k == AcceptedShares(t)'
<1>4. f \in [Nodes -> Nat] /\ h \in [Nodes -> Nat]
  BY ShareTypes DEF Plan
<1>5. g \in [Nodes -> Nat] /\ k \in [Nodes -> Nat]
  BY <1>1 DEF AssignedShares, AcceptedShares, NodeAssignment
<1>6. /\ f[n] = assignments[t][n].shareBps /\ g[n] = a.shareBps
      /\ h[n] = IF assignments[t][n].accepted THEN assignments[t][n].shareBps ELSE 0
      /\ k[n] = IF a.accepted THEN a.shareBps ELSE 0
      /\ \A m \in Nodes \ {n} : g[m] = f[m] /\ k[m] = h[m]
  BY <1>2 DEF AssignedShares, AcceptedShares
<1>7. Total(AssignedShares(t))' = Total(g) /\ Total(AcceptedShares(t))' = Total(k)
  BY DEF Total, Coins
<1>8. Total(f) = tasks[t].assignedShareBps /\ Total(h) = tasks[t].acceptedShareBps
  BY DEF Plan, SharesAccounted
<1>. HIDE DEF f, g, h, k
<1>9. Total(g) = Total(f) - f[n] + g[n] /\ Total(k) = Total(h) - h[n] + k[n]
  BY <1>4, <1>5, <1>6, TotalDiffersAtOnePlace, WorkflowEscrowConstants
<1>. QED
  BY <1>1, <1>3, <1>6, <1>7, <1>8, <1>9

-----------------------------------------------------------------------------
\* A step that changes one task's record, but neither its counters nor any assignment.
LEMMA OneTaskMoves ==
  ASSUME Plan, NEW t \in Tasks, NEW r \in Task,
         tasks' = [tasks EXCEPT ![t] = r], assignments' = assignments,
         r.assignedShareBps = tasks[t].assignedShareBps,
         r.acceptedShareBps = tasks[t].acceptedShareBps, r.state # "NONE"
  PROVE  /\ Plan' /\ PotsTyped /\ PotsTyped'
         /\ Total(BudgetOwed)' = Total(BudgetOwed) - BudgetOn(tasks[t]) + BudgetOn(r)
         /\ Total(StakeOwed)' = Total(StakeOwed)
<1>1. Records' /\ tasks \in [Tasks -> Task]
  BY DEF Plan, Records
<1>2. PlanKnown'
  BY DEF Plan, PlanKnown
<1>3. tasks'[t] = r /\ \A u \in Tasks \ {t} : tasks'[u] = tasks[u]
  BY DEF Plan, Records
<1>4. SharesAccounted'
  <2>1. \A u \in Tasks : /\ Total(AssignedShares(u))' = Total(AssignedShares(u))
                         /\ Total(AcceptedShares(u))' = Total(AcceptedShares(u))
    BY DEF Total, Coins, AssignedShares, AcceptedShares
  <2>. QED
    BY <1>3, <2>1 DEF Plan, SharesAccounted
<1>5. NothingPlanned'
  BY <1>3 DEF Plan, NothingPlanned
<1>6. Plan'
  BY <1>1, <1>2, <1>4, <1>5 DEF Plan
<1>7. PotsTyped /\ PotsTyped'
  BY <1>6, PotTypes, PotTypesNext
<1>8. Total(BudgetOwed)' = Total(BudgetOwed) - BudgetOn(tasks[t]) + BudgetOn(r)
  BY <1>1, <1>7, BudgetMoves
<1>. QED
  BY <1>6, <1>7, <1>8, StakeStays

\* A step that changes one node's assignment, and its task's counters with it.
LEMMA OneNodeMoves ==
  ASSUME Plan, NEW t \in Tasks, NEW n \in Nodes, NEW a \in NodeAssignment, NEW r \in Task,
         tasks' = [tasks EXCEPT ![t] = r], assignments' = [assignments EXCEPT ![t][n] = a],
         r.assignedShareBps = tasks[t].assignedShareBps - assignments[t][n].shareBps + a.shareBps,
         r.acceptedShareBps = tasks[t].acceptedShareBps
             - (IF assignments[t][n].accepted THEN assignments[t][n].shareBps ELSE 0)
             + (IF a.accepted THEN a.shareBps ELSE 0),
         r.state # "NONE", a.agent # NoOne, a.shareBps > 0, a.stakeClaimed => a.accepted
  PROVE  /\ Plan' /\ PotsTyped /\ PotsTyped'
         /\ Total(BudgetOwed)' = Total(BudgetOwed) - BudgetOn(tasks[t]) + BudgetOn(r)
         /\ Total(StakeOwed)' = Total(StakeOwed) - StakeOn(assignments[t][n]) + StakeOn(a)
<1>1. /\ assignments' \in [Tasks -> [Nodes -> NodeAssignment]]
      /\ Total(AssignedShares(t))' = r.assignedShareBps /\ Total(AcceptedShares(t))' = r.acceptedShareBps
      /\ \A u \in Tasks \ {t} : /\ Total(AssignedShares(u))' = Total(AssignedShares(u))
                                /\ Total(AcceptedShares(u))' = Total(AcceptedShares(u))
  <2>1. /\ assignments' \in [Tasks -> [Nodes -> NodeAssignment]]
        /\ Total(AssignedShares(t))' = tasks[t].assignedShareBps - assignments[t][n].shareBps + a.shareBps
        /\ Total(AcceptedShares(t))' = tasks[t].acceptedShareBps
                - (IF assignments[t][n].accepted THEN assignments[t][n].shareBps ELSE 0)
                + (IF a.accepted THEN a.shareBps ELSE 0)
        /\ \A u \in Tasks \ {t} : /\ Total(AssignedShares(u))' = Total(AssignedShares(u))
                                  /\ Total(AcceptedShares(u))' = Total(AcceptedShares(u))
    BY ONLY SharesMove, Plan, t \in Tasks, n \in Nodes, a \in NodeAssignment,
       assignments' = [assignments EXCEPT ![t][n] = a]
  <2>. QED
    BY <2>1
<1>2. Records' /\ Records
  BY <1>1 DEF Plan, Records
<1>3. /\ tasks'[t] = r /\ \A u \in Tasks \ {t} : tasks'[u] = tasks[u] /\ assignments'[u] = assignments[u]
      /\ assignments'[t][n] = a /\ \A m \in Nodes \ {n} : assignments'[t][m] = assignments[t][m]
  BY <1>2 DEF Records
<1>4. PlanKnown'
  BY <1>3 DEF Plan, PlanKnown
<1>5. SharesAccounted'
  BY <1>1, <1>3 DEF Plan, SharesAccounted
<1>6. NothingPlanned'
  BY <1>3 DEF Plan, NothingPlanned
<1>7. Plan'
  BY <1>2, <1>4, <1>5, <1>6 DEF Plan
<1>8. PotsTyped /\ PotsTyped'
  BY <1>7, PotTypes, PotTypesNext
<1>9. Total(BudgetOwed)' = Total(BudgetOwed) - BudgetOn(tasks[t]) + BudgetOn(r)
  BY <1>2, <1>8, BudgetMoves DEF Records
<1>10. Total(StakeOwed)' = Total(StakeOwed) - StakeOn(assignments[t][n]) + StakeOn(a)
  BY <1>2, <1>8, StakeMoves
<1>. QED
  BY <1>7, <1>8, <1>9, <1>10

LEMMA FeeType ==
  ASSUME NEW budget \in Nat
  PROVE  PublicationFee(budget) \in Nat
<1>. DEFINE d == budget * FeePercent
<1>1. d \in Nat
  BY WorkflowEscrowConstants
<1>. HIDE DEF d
<1>2. d \div 100 \in Nat
  BY <1>1, Z3
<1>. QED
  BY <1>2 DEF d, PublicationFee

LEMMA CreateTaskKeeps ==
  ASSUME WorkflowIInv, NEW t \in Tasks, NEW ref \in Refs, NEW caller \in Accounts, NEW budget \in Budgets,
         CreateTask(t, ref, caller, budget)
  PROVE  WorkflowIInv'
<1>. USE DEF WorkflowIInv
<1>. DEFINE r == OpenTask(caller, ref, budget)
            fee == PublicationFee(budget)
<1>1. budget \in Nat /\ fee \in Nat /\ Treasury \in Accounts
  BY FeeType, WorkflowEscrowConstants
<1>2. /\ r \in Task /\ r.state = "OPEN" /\ r.budget = budget
      /\ r.assignedShareBps = 0 /\ r.acceptedShareBps = 0
  BY <1>1, WorkflowEscrowConstants DEF OpenTask, Task, TaskState
<1>3. /\ tasks[t].state = "NONE" /\ tasks' = [tasks EXCEPT ![t] = r] /\ assignments' = assignments
      /\ usedRequestRefs' = usedRequestRefs \cup {ref} /\ receiptOwner' = receiptOwner
      /\ held' = held + budget /\ balance[caller] >= budget + fee
      /\ balance' = Credit(Debit(balance, caller, budget + fee), Treasury, fee)
  BY DEF CreateTask
<1>4. tasks[t].assignedShareBps = 0 /\ tasks[t].acceptedShareBps = 0
  BY <1>3 DEF Plan, NothingPlanned, EmptyTask
<1>. HIDE DEF r, fee
<1>5. /\ Plan' /\ PotsTyped /\ PotsTyped'
      /\ Total(BudgetOwed)' = Total(BudgetOwed) - BudgetOn(tasks[t]) + BudgetOn(r)
      /\ Total(StakeOwed)' = Total(StakeOwed)
  BY <1>2, <1>3, <1>4, OneTaskMoves
<1>6. tasks'[t] = r /\ \A u \in Tasks \ {t} : tasks'[u] = tasks[u]
  BY <1>3 DEF Plan, Records
<1>7. Total(Dust)' = Total(Dust)
  BY <1>2, <1>3, <1>6, DustStays
<1>8. BudgetOn(tasks[t]) = 0 /\ BudgetOn(r) = budget
  BY <1>2, <1>3 DEF BudgetOn, Live, Started
<1>9. Backed'
  BY <1>1, <1>3, <1>5, <1>7, <1>8 DEF Backed, PotsTyped
<1>10. balance' \in [Accounts -> Nat]
  <2>. DEFINE paid == Debit(balance, caller, budget + fee)
  <2>1. paid \in [Accounts -> Nat]
    BY <1>1, <1>3, DebitType DEF Purses
  <2>. HIDE DEF paid
  <2>2. Credit(paid, Treasury, fee) \in [Accounts -> Nat]
    BY <1>1, <2>1, CreditType
  <2>. QED
    BY <1>3, <2>2 DEF paid
<1>11. Purses'
  BY <1>3, <1>10 DEF Purses
<1>12. ReceiptBacksStake'
  BY <1>3, <1>6 DEF ReceiptBacksStake, Started
<1>. QED
  BY <1>5, <1>9, <1>11, <1>12

\* A call that moves no tokens keeps what backs them, if no node is accepted or settled by it.
LEMMA AnchorKeeps ==
  ASSUME WorkflowIInv, NEW t \in Tasks, NEW caller \in Accounts, NEW workflow \in Workflows,
         AnchorWorkflow(t, caller, workflow)
  PROVE  WorkflowIInv'
<1>. USE DEF WorkflowIInv
<1>. DEFINE version == tasks[t].workflowVersion + 1
            r == [tasks[t] EXCEPT !.workflow = workflow, !.workflowVersion = version]
<1>1. tasks[t] \in Task /\ tasks[t].state = "OPEN" /\ version \in Nat
  BY DEF AnchorWorkflow, Plan, Records, Task
<1>2. /\ r \in Task /\ r.state = "OPEN" /\ r.budget = tasks[t].budget
      /\ r.assignedShareBps = tasks[t].assignedShareBps /\ r.acceptedShareBps = tasks[t].acceptedShareBps
  BY <1>1 DEF Task
<1>3. /\ tasks' = [tasks EXCEPT ![t] = r] /\ assignments' = assignments
      /\ usedRequestRefs' = usedRequestRefs /\ receiptOwner' = receiptOwner
      /\ held' = held /\ balance' = balance
  BY DEF AnchorWorkflow, Plan, Records
<1>. HIDE DEF r
<1>4. /\ Plan' /\ PotsTyped /\ PotsTyped'
      /\ Total(BudgetOwed)' = Total(BudgetOwed) - BudgetOn(tasks[t]) + BudgetOn(r)
      /\ Total(StakeOwed)' = Total(StakeOwed)
  BY <1>2, <1>3, OneTaskMoves
<1>5. tasks'[t] = r /\ \A u \in Tasks \ {t} : tasks'[u] = tasks[u]
  BY <1>3 DEF Plan, Records
<1>6. Total(Dust)' = Total(Dust)
  BY <1>1, <1>2, <1>3, <1>5, DustStays
<1>7. BudgetOn(tasks[t]) = BudgetOn(r) /\ BudgetOn(r) \in Nat
  BY <1>1, <1>2 DEF BudgetOn, Task
<1>8. Backed'
  BY <1>3, <1>4, <1>6, <1>7 DEF Backed, PotsTyped
<1>9. Purses' /\ ReceiptBacksStake'
  BY <1>1, <1>2, <1>3, <1>5 DEF Purses, ReceiptBacksStake
<1>. QED
  BY <1>4, <1>8, <1>9

LEMMA OpenDisputeKeeps ==
  ASSUME WorkflowIInv, NEW t \in Tasks, NEW caller \in Accounts, OpenDispute(t, caller)
  PROVE  WorkflowIInv'
<1>. USE DEF WorkflowIInv
<1>. DEFINE r == [tasks[t] EXCEPT !.state = "DISPUTED"]
<1>1. tasks[t] \in Task /\ tasks[t].state = "IN_PROGRESS"
  BY DEF OpenDispute, Plan, Records
<1>2. /\ r \in Task /\ r.state = "DISPUTED" /\ r.budget = tasks[t].budget
      /\ r.assignedShareBps = tasks[t].assignedShareBps /\ r.acceptedShareBps = tasks[t].acceptedShareBps
  BY <1>1 DEF Task, TaskState
<1>3. /\ tasks' = [tasks EXCEPT ![t] = r] /\ assignments' = assignments
      /\ usedRequestRefs' = usedRequestRefs /\ receiptOwner' = receiptOwner
      /\ held' = held /\ balance' = balance
  BY DEF OpenDispute, Plan, Records
<1>. HIDE DEF r
<1>4. /\ Plan' /\ PotsTyped /\ PotsTyped'
      /\ Total(BudgetOwed)' = Total(BudgetOwed) - BudgetOn(tasks[t]) + BudgetOn(r)
      /\ Total(StakeOwed)' = Total(StakeOwed)
  BY <1>2, <1>3, OneTaskMoves
<1>5. tasks'[t] = r /\ \A u \in Tasks \ {t} : tasks'[u] = tasks[u]
  BY <1>3 DEF Plan, Records
<1>6. Total(Dust)' = Total(Dust)
  BY <1>1, <1>2, <1>3, <1>5, DustStays
<1>7. BudgetOn(tasks[t]) = BudgetOn(r) /\ BudgetOn(r) \in Nat
  BY <1>1, <1>2 DEF BudgetOn, Live, Started, Task
<1>8. Backed'
  BY <1>3, <1>4, <1>6, <1>7 DEF Backed, PotsTyped
<1>9. Purses' /\ ReceiptBacksStake'
  BY <1>1, <1>2, <1>3, <1>5 DEF Purses, ReceiptBacksStake, Started
<1>. QED
  BY <1>4, <1>8, <1>9

LEMMA AssignNodeKeeps ==
  ASSUME WorkflowIInv, NEW t \in Tasks, NEW n \in Nodes, NEW caller \in Accounts, NEW agent \in Accounts,
         NEW stakeAmount \in Stakes, NEW shareBps \in Shares,
         AssignNode(t, n, caller, agent, stakeAmount, shareBps)
  PROVE  WorkflowIInv'
<1>. USE DEF WorkflowIInv
<1>. DEFINE r == [tasks[t] EXCEPT !.assignedShareBps = @ + shareBps]
            a == AssignedTo(agent, stakeAmount, shareBps)
<1>1. /\ tasks[t] \in Task /\ tasks[t].state = "OPEN" /\ assignments[t][n] = Unassigned
      /\ tasks[t].assignedShareBps + shareBps <= TotalShare
      /\ stakeAmount \in Nat /\ shareBps \in Nat /\ shareBps > 0 /\ TotalShare \in Nat
  BY WorkflowEscrowConstants DEF AssignNode, Plan, Records, PlanKnown
<1>2. /\ r \in Task /\ r.state = "OPEN" /\ r.budget = tasks[t].budget
      /\ r.assignedShareBps = tasks[t].assignedShareBps + shareBps
      /\ r.acceptedShareBps = tasks[t].acceptedShareBps
  BY <1>1 DEF Task
<1>3. /\ a \in NodeAssignment /\ a.agent = agent /\ a.shareBps = shareBps /\ ~a.accepted /\ ~a.stakeClaimed
  BY <1>1 DEF AssignedTo, NodeAssignment
<1>4. /\ tasks' = [tasks EXCEPT ![t] = r] /\ assignments' = [assignments EXCEPT ![t][n] = a]
      /\ usedRequestRefs' = usedRequestRefs /\ receiptOwner' = receiptOwner
      /\ held' = held /\ balance' = balance
  BY DEF AssignNode, Assign, Plan, Records
<1>. HIDE DEF r, a
<1>5. /\ assignments[t][n].shareBps = 0 /\ ~assignments[t][n].accepted /\ agent # NoOne
      /\ tasks[t].acceptedShareBps \in Nat /\ tasks[t].assignedShareBps \in Nat
  BY <1>1, WorkflowEscrowConstants DEF Unassigned, Task
<1>6. /\ Plan' /\ PotsTyped /\ PotsTyped'
      /\ Total(BudgetOwed)' = Total(BudgetOwed) - BudgetOn(tasks[t]) + BudgetOn(r)
      /\ Total(StakeOwed)' = Total(StakeOwed) - StakeOn(assignments[t][n]) + StakeOn(a)
  <2>1. /\ r.assignedShareBps = tasks[t].assignedShareBps - assignments[t][n].shareBps + a.shareBps
        /\ r.acceptedShareBps = tasks[t].acceptedShareBps
             - (IF assignments[t][n].accepted THEN assignments[t][n].shareBps ELSE 0)
             + (IF a.accepted THEN a.shareBps ELSE 0)
        /\ r.state # "NONE" /\ a.agent # NoOne /\ a.shareBps > 0
        /\ a.stakeClaimed => a.accepted
    BY <1>1, <1>2, <1>3, <1>5
  <2>. QED
    BY <1>2, <1>3, <1>4, <2>1, OneNodeMoves
<1>7. /\ tasks'[t] = r /\ \A u \in Tasks \ {t} : tasks'[u] = tasks[u] /\ assignments'[u] = assignments[u]
      /\ assignments'[t][n] = a /\ \A m \in Nodes \ {n} : assignments'[t][m] = assignments[t][m]
  BY <1>4 DEF Plan, Records
<1>8. Total(Dust)' = Total(Dust)
  BY <1>1, <1>2, <1>7, DustStays
<1>9. BudgetOn(tasks[t]) = BudgetOn(r) /\ StakeOn(assignments[t][n]) = 0 /\ StakeOn(a) = 0 /\ BudgetOn(r) \in Nat
  BY <1>1, <1>2, <1>3, <1>5 DEF BudgetOn, StakeOn, Task
<1>10. Backed'
  BY <1>4, <1>6, <1>8, <1>9 DEF Backed, PotsTyped
<1>11. Purses'
  BY <1>4 DEF Purses
<1>12. ReceiptBacksStake'
  BY <1>1, <1>2, <1>3, <1>4, <1>5, <1>7 DEF ReceiptBacksStake, Started
<1>. QED
  BY <1>6, <1>10, <1>11, <1>12

LEMMA AcceptNodeKeeps ==
  ASSUME WorkflowIInv, NEW t \in Tasks, NEW n \in Nodes, NEW caller \in Accounts, AcceptNode(t, n, caller)
  PROVE  WorkflowIInv'
<1>. USE DEF WorkflowIInv
<1>. DEFINE old == assignments[t][n]
            share == tasks[t].acceptedShareBps + old.shareBps
            r == [tasks[t] EXCEPT !.acceptedShareBps = share, !.state = "IN_PROGRESS"]
            a == [old EXCEPT !.accepted = TRUE]
<1>1. /\ tasks[t] \in Task /\ tasks[t].state \in {"OPEN", "IN_PROGRESS"}
      /\ old \in NodeAssignment /\ old.agent = caller /\ ~old.accepted /\ caller # NoOne
      /\ balance[caller] >= old.stakeAmount
  BY WorkflowEscrowConstants DEF AcceptNode, TakeStake, Plan, Records
<1>2. /\ tasks[t].acceptedShareBps \in Nat /\ tasks[t].assignedShareBps \in 0..TotalShare
      /\ old.shareBps \in Nat /\ old.shareBps > 0 /\ old.stakeAmount \in Nat /\ ~old.stakeClaimed
      /\ TotalShare \in Nat
  <2>1. old.shareBps > 0
    BY <1>1 DEF Plan, PlanKnown
  <2>2. ~old.stakeClaimed
    BY <1>1 DEF Plan, PlanKnown
  <2>. QED
    BY <1>1, <2>1, <2>2, WorkflowEscrowConstants DEF Task, NodeAssignment
<1>3. /\ a \in NodeAssignment /\ a.agent = caller /\ a.shareBps = old.shareBps /\ a.accepted
      /\ ~a.stakeClaimed /\ a.stakeAmount = old.stakeAmount
  BY <1>1, <1>2 DEF NodeAssignment
<1>4. /\ tasks' = [tasks EXCEPT ![t] = r] /\ assignments' = [assignments EXCEPT ![t][n] = a]
      /\ usedRequestRefs' = usedRequestRefs /\ receiptOwner' = [receiptOwner EXCEPT ![t][n] = caller]
      /\ held' = held + old.stakeAmount /\ balance' = Debit(balance, caller, old.stakeAmount)
  BY DEF AcceptNode, TakeStake, Plan, Records
<1>. HIDE DEF a, old
\* The accepted shares are still among the assigned ones.
<1>5. share \in 0..TotalShare
  <2>1. /\ assignments' \in [Tasks -> [Nodes -> NodeAssignment]]
        /\ Total(AssignedShares(t))' = tasks[t].assignedShareBps - assignments[t][n].shareBps + a.shareBps
        /\ Total(AcceptedShares(t))' = tasks[t].acceptedShareBps
                - (IF assignments[t][n].accepted THEN assignments[t][n].shareBps ELSE 0)
                + (IF a.accepted THEN a.shareBps ELSE 0)
    BY <1>3, <1>4, SharesMove
  <2>. DEFINE f == AcceptedShares(t)'
              g == AssignedShares(t)'
  <2>2. /\ f \in [Nodes -> Nat] /\ g \in [Nodes -> Nat] /\ \A m \in Nodes : f[m] <= g[m]
    BY <2>1 DEF AcceptedShares, AssignedShares, NodeAssignment
  <2>3. Total(AcceptedShares(t))' = Total(f) /\ Total(AssignedShares(t))' = Total(g)
    BY DEF Total, Coins
  <2>. HIDE DEF f, g
  <2>4. Total(f) <= Total(g)
    BY <2>2, TotalMonotone, WorkflowEscrowConstants
  <2>5. Total(f) = share /\ Total(g) = tasks[t].assignedShareBps
    BY <1>1, <1>2, <1>3, <2>1, <2>3 DEF old
  <2>. QED
    BY <1>2, <2>4, <2>5
<1>. HIDE DEF share
<1>6. /\ r \in Task /\ r.state = "IN_PROGRESS" /\ r.budget = tasks[t].budget
      /\ r.assignedShareBps = tasks[t].assignedShareBps /\ r.acceptedShareBps = share
  BY <1>1, <1>5 DEF Task, TaskState
<1>. HIDE DEF r
<1>7. /\ Plan' /\ PotsTyped /\ PotsTyped'
      /\ Total(BudgetOwed)' = Total(BudgetOwed) - BudgetOn(tasks[t]) + BudgetOn(r)
      /\ Total(StakeOwed)' = Total(StakeOwed) - StakeOn(assignments[t][n]) + StakeOn(a)
  <2>1. /\ r.assignedShareBps = tasks[t].assignedShareBps - assignments[t][n].shareBps + a.shareBps
        /\ r.acceptedShareBps = tasks[t].acceptedShareBps
             - (IF assignments[t][n].accepted THEN assignments[t][n].shareBps ELSE 0)
             + (IF a.accepted THEN a.shareBps ELSE 0)
        /\ r.state # "NONE" /\ a.agent # NoOne /\ a.shareBps > 0
        /\ a.stakeClaimed => a.accepted
    BY <1>1, <1>2, <1>3, <1>6 DEF old, share
  <2>. QED
    BY <1>3, <1>4, <1>6, <2>1, OneNodeMoves
<1>8. /\ tasks'[t] = r /\ \A u \in Tasks \ {t} : tasks'[u] = tasks[u] /\ assignments'[u] = assignments[u]
      /\ assignments'[t][n] = a /\ \A m \in Nodes \ {n} : assignments'[t][m] = assignments[t][m]
  BY <1>4 DEF Plan, Records
<1>9. Total(Dust)' = Total(Dust)
  BY <1>1, <1>6, <1>8, DustStays
<1>10. BudgetOn(tasks[t]) = BudgetOn(r) /\ StakeOn(assignments[t][n]) = 0 /\ StakeOn(a) = old.stakeAmount
       /\ BudgetOn(r) \in Nat
  BY <1>1, <1>3, <1>6 DEF BudgetOn, StakeOn, Live, Started, Task, old
<1>11. Backed'
  BY <1>2, <1>4, <1>7, <1>9, <1>10 DEF Backed, PotsTyped
<1>12. Purses'
  <2>1. balance' \in [Accounts -> Nat]
    BY <1>1, <1>2, <1>4, DebitType DEF Purses
  <2>. QED
    BY <1>4, <2>1 DEF Purses
<1>13. ReceiptBacksStake'
  BY <1>1, <1>3, <1>4, <1>6, <1>8 DEF ReceiptBacksStake, Purses, Started
<1>. QED
  BY <1>7, <1>11, <1>12, <1>13

LEMMA ResolveForAgentsKeeps ==
  ASSUME WorkflowIInv, NEW t \in Tasks, ResolveForAgents(t)
  PROVE  WorkflowIInv'
<1>. USE DEF WorkflowIInv
<1>. DEFINE r == [tasks[t] EXCEPT !.state = "SETTLED_AGENTS"]
            pay == [n \in Nodes |-> IF n \in TaskNodes(t) THEN NodePay(t, n) ELSE 0]
            paid == PaidOut(t)
            payTo(a) == [n \in Nodes |-> IF assignments[t][n].agent = a THEN pay[n] ELSE 0]
<1>1. tasks[t] \in Task /\ tasks[t].state \in Started /\ tasks[t].budget \in Nat /\ TotalShare \in Nat \ {0}
  BY WorkflowEscrowConstants DEF ResolveForAgents, Plan, Records, Task
<1>2. /\ r \in Task /\ r.state = "SETTLED_AGENTS" /\ r.budget = tasks[t].budget
      /\ r.assignedShareBps = tasks[t].assignedShareBps /\ r.acceptedShareBps = tasks[t].acceptedShareBps
  BY <1>1 DEF Task, TaskState
<1>3. paid \in [Nodes -> Nat] /\ Total(paid) \in 0..tasks[t].budget
  BY PayFitsBudget DEF Plan
\* A node without an agent has no share, so paying the assigned nodes pays out all shares.
<1>4. pay = paid
  <2>1. ASSUME NEW n \in Nodes, assignments[t][n].agent = NoOne PROVE NodePay(t, n) = 0
    <3>1. assignments[t][n].shareBps = 0
      BY <2>1 DEF Plan, PlanKnown, Unassigned
    <3>2. tasks[t].budget * 0 = 0 /\ 0 \div TotalShare = 0
      BY <1>1, Z3
    <3>. QED
      BY <3>1, <3>2 DEF NodePay
  <2>. QED
    BY <2>1 DEF TaskNodes, PaidOut
<1>5. /\ held >= Total(pay) /\ tasks' = [tasks EXCEPT ![t] = r] /\ assignments' = assignments
      /\ usedRequestRefs' = usedRequestRefs /\ receiptOwner' = receiptOwner
      /\ held' = held - Total(pay)
      /\ balance' = [a \in Accounts |-> balance[a] + Total(payTo(a))]
  BY DEF ResolveForAgents, PayAgents, Plan, Records
<1>6. balance' \in [Accounts -> Nat]
  <2>1. ASSUME NEW a \in Accounts PROVE balance[a] + Total(payTo(a)) \in Nat
    <3>1. payTo(a) \in [Nodes -> Nat]
      BY <1>3, <1>4
    <3>. HIDE DEF payTo
    <3>2. Total(payTo(a)) \in Nat
      BY <3>1, TotalType, WorkflowEscrowConstants
    <3>. QED
      BY <3>2 DEF Purses
  <2>. QED
    BY <1>5, <2>1
<1>. HIDE DEF r, pay
<1>7. /\ Plan' /\ PotsTyped /\ PotsTyped'
      /\ Total(BudgetOwed)' = Total(BudgetOwed) - BudgetOn(tasks[t]) + BudgetOn(r)
      /\ Total(StakeOwed)' = Total(StakeOwed)
  BY <1>2, <1>5, OneTaskMoves
<1>8. tasks'[t] = r /\ \A u \in Tasks \ {t} : tasks'[u] = tasks[u]
  BY <1>5 DEF Plan, Records
\* What rounding leaves of the budget becomes dust.
<1>9. Total(Dust)' = Total(Dust) + tasks[t].budget - Total(paid)
  <2>. DEFINE f == Dust
              g == Dust'
              R == Tasks
              x == t
  <2>1. Dust' = [u \in Tasks |-> IF tasks'[u].state = "SETTLED_AGENTS"
                                 THEN tasks'[u].budget - Total(PaidOut(u)') ELSE 0]
    BY DEF Dust, PaidOut, Total, Coins
  <2>2. PaidOut(t)' = paid
    BY <1>2, <1>5, <1>8 DEF PaidOut, NodePay
  <2>3. g[x] = r.budget - Total(paid)
    BY <1>2, <1>8, <2>1, <2>2
  <2>4. f[x] = 0
    BY <1>1 DEF Dust, Started
  <2>5. ASSUME NEW u \in R \ {x} PROVE g[u] = f[u]
    BY <1>5, <1>8 DEF Dust, NodePay, Total, Coins
  <2>6. f \in [R -> Nat] /\ g \in [R -> Nat] /\ x \in R /\ IsFiniteSet(R)
    BY <1>7, WorkflowEscrowConstants DEF PotsTyped
  <2>7. Total(Dust)' = Total(g) /\ Total(f) \in Nat
    BY <1>7 DEF Total, Coins, PotsTyped
  <2>. HIDE DEF f, g, R, x, paid
  <2>8. Total(g) = Total(f) - f[x] + g[x]
    BY <2>5, <2>6, TotalDiffersAtOnePlace
  <2>. QED
    BY <1>2, <1>3, <1>1, <2>3, <2>4, <2>7, <2>8 DEF f
<1>10. BudgetOn(tasks[t]) = tasks[t].budget /\ BudgetOn(r) = 0
  BY <1>1, <1>2 DEF BudgetOn, Live, Started
<1>. HIDE DEF paid
<1>11. Backed'
  BY <1>1, <1>3, <1>4, <1>5, <1>7, <1>9, <1>10 DEF Backed, PotsTyped
<1>12. Purses'
  BY <1>5, <1>6 DEF Purses
<1>13. ReceiptBacksStake'
  BY <1>2, <1>5, <1>8 DEF ReceiptBacksStake
<1>. QED
  BY <1>7, <1>11, <1>12, <1>13

LEMMA CancelKeeps ==
  ASSUME WorkflowIInv, NEW t \in Tasks, NEW caller \in Accounts, CancelBeforeStart(t, caller)
  PROVE  WorkflowIInv'
<1>. USE DEF WorkflowIInv
<1>. DEFINE r == [tasks[t] EXCEPT !.state = "CANCELLED"]
<1>1. tasks[t] \in Task /\ tasks[t].state = "OPEN" /\ tasks[t].budget \in Nat
  BY DEF CancelBeforeStart, Plan, Records, Task
<1>2. /\ r \in Task /\ r.state = "CANCELLED"
      /\ r.assignedShareBps = tasks[t].assignedShareBps /\ r.acceptedShareBps = tasks[t].acceptedShareBps
  BY <1>1 DEF Task, TaskState
<1>3. /\ tasks' = [tasks EXCEPT ![t] = r] /\ assignments' = assignments
      /\ usedRequestRefs' = usedRequestRefs /\ receiptOwner' = receiptOwner
      /\ held >= tasks[t].budget /\ held' = held - tasks[t].budget
      /\ balance' = Credit(balance, caller, tasks[t].budget)
  BY DEF CancelBeforeStart, Plan, Records
<1>. HIDE DEF r
<1>4. /\ Plan' /\ PotsTyped /\ PotsTyped'
      /\ Total(BudgetOwed)' = Total(BudgetOwed) - BudgetOn(tasks[t]) + BudgetOn(r)
      /\ Total(StakeOwed)' = Total(StakeOwed)
  BY <1>2, <1>3, OneTaskMoves
<1>5. tasks'[t] = r /\ \A u \in Tasks \ {t} : tasks'[u] = tasks[u]
  BY <1>3 DEF Plan, Records
<1>6. Total(Dust)' = Total(Dust)
  BY <1>1, <1>2, <1>3, <1>5, DustStays
<1>7. BudgetOn(tasks[t]) = tasks[t].budget /\ BudgetOn(r) = 0
  BY <1>1, <1>2 DEF BudgetOn, Live, Started
<1>8. Backed'
  BY <1>1, <1>3, <1>4, <1>6, <1>7 DEF Backed, PotsTyped
<1>9. Purses'
  <2>1. balance' \in [Accounts -> Nat]
    BY <1>1, <1>3, CreditType DEF Purses
  <2>. QED
    BY <1>3, <2>1 DEF Purses
\* An open task has no receipt yet.
<1>10. ReceiptBacksStake'
  BY <1>1, <1>2, <1>3, <1>5 DEF ReceiptBacksStake, Started
<1>. QED
  BY <1>4, <1>8, <1>9, <1>10

LEMMA ClaimStakeKeeps ==
  ASSUME WorkflowIInv, NEW t \in Tasks, NEW n \in Nodes, NEW caller \in Accounts, ClaimStake(t, n, caller)
  PROVE  WorkflowIInv'
<1>. USE DEF WorkflowIInv
<1>. DEFINE old == assignments[t][n]
            r == tasks[t]
            a == [old EXCEPT !.stakeClaimed = TRUE]
<1>1. /\ r \in Task /\ r.state = "SETTLED_AGENTS" /\ old \in NodeAssignment
      /\ old.accepted /\ ~old.stakeClaimed /\ held >= old.stakeAmount
      /\ r.assignedShareBps \in Nat /\ r.acceptedShareBps \in Nat
      /\ old.shareBps \in Nat /\ old.stakeAmount \in Nat /\ held \in Int
  <2>1. held \in Int
    BY PotTypes DEF Backed, PotsTyped
  <2>. QED
    BY <2>1, WorkflowEscrowConstants DEF ClaimStake, Plan, Records, Task, NodeAssignment
<1>2. old.agent # NoOne /\ old.shareBps > 0
  BY <1>1 DEF Plan, PlanKnown, Unassigned
<1>3. /\ a \in NodeAssignment /\ a.agent = old.agent /\ a.shareBps = old.shareBps /\ a.accepted
      /\ a.stakeClaimed /\ a.stakeAmount = old.stakeAmount
  BY <1>1 DEF NodeAssignment
<1>4. /\ tasks' = [tasks EXCEPT ![t] = r] /\ assignments' = [assignments EXCEPT ![t][n] = a]
      /\ usedRequestRefs' = usedRequestRefs /\ receiptOwner' = [receiptOwner EXCEPT ![t][n] = NoOne]
      /\ held' = held - old.stakeAmount /\ balance' = Credit(balance, caller, old.stakeAmount)
  BY DEF ClaimStake, Plan, Records
<1>. HIDE DEF a, r
<1>5. /\ Plan' /\ PotsTyped /\ PotsTyped'
      /\ Total(BudgetOwed)' = Total(BudgetOwed) - BudgetOn(tasks[t]) + BudgetOn(r)
      /\ Total(StakeOwed)' = Total(StakeOwed) - StakeOn(assignments[t][n]) + StakeOn(a)
  <2>1. /\ r.assignedShareBps = tasks[t].assignedShareBps - assignments[t][n].shareBps + a.shareBps
        /\ r.acceptedShareBps = tasks[t].acceptedShareBps
             - (IF assignments[t][n].accepted THEN assignments[t][n].shareBps ELSE 0)
             + (IF a.accepted THEN a.shareBps ELSE 0)
        /\ r.state # "NONE" /\ a.agent # NoOne /\ a.shareBps > 0
        /\ a.stakeClaimed => a.accepted
    BY <1>1, <1>2, <1>3 DEF r
  <2>. QED
    BY <1>1, <1>3, <1>4, <2>1, OneNodeMoves
<1>6. /\ \A u \in Tasks : tasks'[u] = tasks[u]
      /\ \A u \in Tasks \ {t} : assignments'[u] = assignments[u]
      /\ assignments'[t][n] = a /\ \A m \in Nodes \ {n} : assignments'[t][m] = assignments[t][m]
  BY <1>4 DEF Plan, Records, r
<1>7. Total(Dust)' = Total(Dust)
  BY <1>3, <1>6, DustStays
<1>8. /\ BudgetOn(tasks[t]) = BudgetOn(r) /\ BudgetOn(r) \in Nat
      /\ StakeOn(assignments[t][n]) = old.stakeAmount /\ StakeOn(a) = 0
  BY <1>1, <1>3 DEF BudgetOn, StakeOn, Task, r
<1>9. Backed'
  BY <1>1, <1>4, <1>5, <1>7, <1>8 DEF Backed, PotsTyped
<1>10. Purses'
  <2>1. balance' \in [Accounts -> Nat]
    BY <1>1, <1>4, CreditType DEF Purses
  <2>. QED
    BY <1>4, <2>1 DEF Purses
<1>11. ReceiptBacksStake'
  BY <1>3, <1>4, <1>6 DEF ReceiptBacksStake, Purses
<1>. QED
  BY <1>5, <1>9, <1>10, <1>11

\* What depends on the records alone stays with them.
LEMMA SameRecords ==
  ASSUME Plan, Backed, tasks' = tasks, assignments' = assignments, held' = held
  PROVE  Plan' /\ Backed'
<1>1. Records' /\ PlanKnown' /\ NothingPlanned'
  BY DEF Plan, Records, PlanKnown, NothingPlanned
<1>2. SharesAccounted'
  <2>1. \A t \in Tasks : /\ Total(AssignedShares(t))' = Total(AssignedShares(t))
                         /\ Total(AcceptedShares(t))' = Total(AcceptedShares(t))
    BY DEF AssignedShares, AcceptedShares, Total, Coins
  <2>. QED
    BY <2>1 DEF Plan, SharesAccounted
<1>3. Total(BudgetOwed)' = Total(BudgetOwed)
  BY DEF BudgetOwed, Total, Coins
<1>4. Total(StakeOwed)' = Total(StakeOwed)
  BY StakeStays
<1>5. Total(Dust)' = Total(Dust)
  BY DustStays
<1>6. Backed'
  BY <1>3, <1>4, <1>5 DEF Backed
<1>. QED
  BY <1>1, <1>2, <1>6 DEF Plan

\* A receipt changes hands, and nothing else.
LEMMA TransferReceiptKeeps ==
  ASSUME WorkflowIInv, NEW t \in Tasks, NEW n \in Nodes, NEW to \in Accounts, TransferReceipt(t, n, to)
  PROVE  WorkflowIInv'
<1>. USE DEF WorkflowIInv
<1>1. /\ tasks' = tasks /\ assignments' = assignments /\ usedRequestRefs' = usedRequestRefs
      /\ held' = held /\ balance' = balance
      /\ receiptOwner[t][n] # NoOne /\ receiptOwner' = [receiptOwner EXCEPT ![t][n] = to]
  BY DEF TransferReceipt
<1>2. Plan' /\ Backed'
  BY <1>1, SameRecords
<1>3. Purses'
  BY <1>1 DEF Purses
<1>4. ReceiptBacksStake'
  BY <1>1, WorkflowEscrowConstants DEF ReceiptBacksStake, Purses
<1>. QED
  BY <1>2, <1>3, <1>4

\* The stakes the treasury takes are exactly what is no longer owed.
LEMMA ForfeitedStakes ==
  ASSUME Plan, PotsTyped', NEW t \in Tasks,
         assignments' = [assignments EXCEPT ![t] =
             [n \in Nodes |-> IF n \in Forfeited(t)
                              THEN [assignments[t][n] EXCEPT !.stakeClaimed = TRUE]
                              ELSE assignments[t][n]]]
  PROVE  LET stakes == Total([n \in Forfeited(t) |-> assignments[t][n].stakeAmount])
         IN  stakes \in Nat /\ Total(StakeOwed) = Total(StakeOwed)' + stakes
<1>. DEFINE S == Tasks \X Nodes
            F == Forfeited(t)
            D == {t} \X F
            f == StakeOwed
            g == StakeOwed'
            taken == [n \in F |-> assignments[t][n].stakeAmount]
            part == [tn \in D |-> assignments[t][tn[2]].stakeAmount]
            h == [tn \in S |-> IF tn \in D THEN assignments[t][tn[2]].stakeAmount ELSE 0]
            name == [n \in F |-> <<t, n>>]
<1>1. IsFiniteSet(S) /\ IsFiniteSet(F) /\ F \subseteq Nodes /\ D \subseteq S
  BY FS_Product, FS_Subset, WorkflowEscrowConstants DEF Forfeited, TaskNodes
<1>2. /\ PotsTyped /\ f \in [S -> Nat] /\ g \in [S -> Nat]
      /\ assignments \in [Tasks -> [Nodes -> NodeAssignment]]
  BY PotTypes DEF PotsTyped, Plan, Records
<1>3. taken \in [F -> Nat] /\ part \in [D -> Nat] /\ h \in [S -> Nat]
  BY <1>1, <1>2 DEF NodeAssignment
<1>4. name \in Bijection(F, D)
  BY Fun_IsBij
<1>5. \A n \in F : part[name[n]] = taken[n]
  OBVIOUS
<1>6. \A u \in D : h[u] = part[u]
  BY <1>1
<1>7. \A u \in S \ D : h[u] = 0
  OBVIOUS
<1>8. ASSUME NEW tn \in S PROVE f[tn] = g[tn] + h[tn] /\ (g[tn] = 0 \/ h[tn] = 0)
  <2>. DEFINE a == assignments[tn[1]][tn[2]]
              b == assignments'[tn[1]][tn[2]]
  <2>1. tn[1] \in Tasks /\ tn[2] \in Nodes /\ tn = <<tn[1], tn[2]>>
    OBVIOUS
  <2>2. a \in NodeAssignment /\ a.stakeAmount \in Nat
    BY <1>2, <2>1 DEF NodeAssignment
  <2>3. f[tn] = StakeOn(a) /\ g[tn] = StakeOn(b)
    BY DEF StakeOwed, StakeOn
  <2>4. CASE tn \in D
    <3>1. tn[1] = t /\ tn[2] \in F /\ a.accepted /\ ~a.stakeClaimed
      BY <2>1, <2>4 DEF Forfeited
    <3>2. b = [a EXCEPT !.stakeClaimed = TRUE]
      BY <1>2, <2>1, <3>1
    <3>3. b.stakeClaimed /\ h[tn] = a.stakeAmount
      BY <2>2, <2>4, <3>1, <3>2 DEF NodeAssignment
    <3>. HIDE DEF a, b, f, g, h
    <3>. QED
      BY <2>2, <2>3, <3>1, <3>3 DEF StakeOn
  <2>5. CASE tn \notin D
    <3>1. b = a /\ h[tn] = 0
      BY <1>2, <2>1, <2>5
    <3>2. StakeOn(a) \in Nat
      BY <2>2 DEF StakeOn
    <3>. HIDE DEF a, b, f, g, h
    <3>. QED
      BY <2>3, <3>1, <3>2
  <2>. QED
    BY <2>4, <2>5
<1>9. Total(StakeOwed)' = Total(g)
  BY DEF Total, Coins
<1>. HIDE DEF S, F, D, f, g, h, taken, part, name
<1>10. Total(f) = Total(g) + Total(h)
  <2>1. \A tn \in S : f[tn] = g[tn] + h[tn] /\ (g[tn] = 0 \/ h[tn] = 0)
    BY <1>8
  <2>. QED
    BY ONLY <1>1, <1>2, <1>3, <2>1, TotalAdds, SMTT(30)
<1>11. Total(h) = Total(part)
  BY <1>1, <1>3, <1>6, <1>7, TotalOfPart
<1>12. Total(part) = Total(taken)
  BY <1>1, <1>3, <1>4, <1>5, TotalRenamed
<1>13. Total(taken) \in Nat
  BY <1>1, <1>3, TotalType
<1>. QED
  BY <1>9, <1>10, <1>11, <1>12, <1>13 DEF f, taken, F

LEMMA ResolveForPublisherKeeps ==
  ASSUME WorkflowIInv, NEW t \in Tasks, ResolveForPublisher(t)
  PROVE  WorkflowIInv'
<1>. USE DEF WorkflowIInv
<1>. DEFINE r == [tasks[t] EXCEPT !.state = "SETTLED_PUBLISHER"]
            stakes == Total([n \in Forfeited(t) |-> assignments[t][n].stakeAmount])
            budget == tasks[t].budget
            owner == tasks[t].publisher
            nodes == [n \in Nodes |-> IF n \in Forfeited(t)
                              THEN [assignments[t][n] EXCEPT !.stakeClaimed = TRUE]
                              ELSE assignments[t][n]]
            burnt == [n \in Nodes |-> IF n \in Forfeited(t) THEN NoOne ELSE receiptOwner[t][n]]
<1>1. tasks[t] \in Task /\ tasks[t].state \in Started /\ budget \in Nat
  BY DEF ResolveForPublisher, Plan, Records, Task
<1>2. /\ r \in Task /\ r.state = "SETTLED_PUBLISHER"
      /\ r.assignedShareBps = tasks[t].assignedShareBps /\ r.acceptedShareBps = tasks[t].acceptedShareBps
  BY <1>1 DEF Task, TaskState
<1>3. /\ tasks' = [tasks EXCEPT ![t] = r] /\ assignments' = [assignments EXCEPT ![t] = nodes]
      /\ usedRequestRefs' = usedRequestRefs /\ receiptOwner' = [receiptOwner EXCEPT ![t] = burnt]
      /\ held >= budget + stakes /\ held' = held - budget - stakes
      /\ balance' = Credit(Credit(balance, owner, budget), Treasury, stakes)
  BY DEF ResolveForPublisher, Forfeit, Plan, Records
<1>4. \A n \in Nodes : /\ nodes[n] \in NodeAssignment
                       /\ nodes[n].agent = assignments[t][n].agent
                       /\ nodes[n].shareBps = assignments[t][n].shareBps
                       /\ nodes[n].accepted = assignments[t][n].accepted
                       /\ nodes[n].accepted => nodes[n].stakeClaimed
                       /\ assignments[t][n].stakeClaimed => nodes[n].stakeClaimed
                       /\ nodes[n].stakeClaimed => assignments[t][n].accepted
                       /\ assignments[t][n].agent = NoOne => nodes[n] = Unassigned
  <2>. SUFFICES ASSUME NEW n \in Nodes
                PROVE  /\ nodes[n] \in NodeAssignment
                       /\ nodes[n].agent = assignments[t][n].agent
                       /\ nodes[n].shareBps = assignments[t][n].shareBps
                       /\ nodes[n].accepted = assignments[t][n].accepted
                       /\ nodes[n].accepted => nodes[n].stakeClaimed
                       /\ assignments[t][n].stakeClaimed => nodes[n].stakeClaimed
                       /\ nodes[n].stakeClaimed => assignments[t][n].accepted
                       /\ assignments[t][n].agent = NoOne => nodes[n] = Unassigned
    OBVIOUS
  <2>. DEFINE a == assignments[t][n]
              b == nodes[n]
  <2>1. /\ a \in NodeAssignment
        /\ a.stakeClaimed => a.accepted
        /\ a.agent = NoOne => a = Unassigned
    BY DEF Plan, Records, PlanKnown
  <2>2. CASE n \in Forfeited(t)
    <3>1. b = [a EXCEPT !.stakeClaimed = TRUE] /\ a.accepted /\ ~a.stakeClaimed /\ a.agent # NoOne
      BY <2>2 DEF Forfeited, TaskNodes
    <3>. HIDE DEF a, b
    <3>. QED
      BY <2>1, <3>1 DEF NodeAssignment, a, b
  <2>3. CASE n \notin Forfeited(t)
    <3>1. b = a
      BY <2>3
    <3>2. a.accepted => a.stakeClaimed
      BY <2>1, <2>3 DEF Forfeited, TaskNodes, Unassigned
    <3>. HIDE DEF a, b
    <3>. QED
      BY <2>1, <3>1, <3>2 DEF a, b
  <2>. QED
    BY <2>2, <2>3
<1>. HIDE DEF r
<1>5. /\ tasks'[t] = r /\ \A u \in Tasks \ {t} : tasks'[u] = tasks[u] /\ assignments'[u] = assignments[u]
      /\ assignments'[t] = nodes
  BY <1>3 DEF Plan, Records
<1>6. Records'
  <2>1. nodes \in [Nodes -> NodeAssignment]
    BY <1>4
  <2>. HIDE DEF nodes
  <2>. QED
    BY <1>2, <1>3, <2>1 DEF Plan, Records
<1>7. Plan'
  <2>1. \A u \in Tasks : /\ Total(AssignedShares(u))' = Total(AssignedShares(u))
                         /\ Total(AcceptedShares(u))' = Total(AcceptedShares(u))
    <3>1. \A u \in Tasks, n \in Nodes :
             /\ assignments'[u][n].shareBps = assignments[u][n].shareBps
             /\ assignments'[u][n].accepted = assignments[u][n].accepted
      <4>. HIDE DEF nodes
      <4>1. ASSUME NEW u \in Tasks, NEW n \in Nodes, u = t
            PROVE  /\ assignments'[u][n].shareBps = assignments[u][n].shareBps
                   /\ assignments'[u][n].accepted = assignments[u][n].accepted
        BY <1>4, <1>5, <4>1
      <4>. QED
        BY <1>5, <4>1
    <3>2. \A u \in Tasks : AssignedShares(u)' = AssignedShares(u) /\ AcceptedShares(u)' = AcceptedShares(u)
      BY ONLY <3>1 DEF AssignedShares, AcceptedShares
    <3>. QED
      BY ONLY <3>2 DEF Total, Coins
  <2>2. SharesAccounted'
    BY <1>2, <1>5, <2>1 DEF Plan, SharesAccounted
  <2>3. PlanKnown'
    <3>. SUFFICES ASSUME NEW u \in Tasks, NEW n \in Nodes
                  PROVE  /\ assignments'[u][n].agent = NoOne => assignments'[u][n] = Unassigned
                         /\ assignments'[u][n].agent # NoOne => assignments'[u][n].shareBps > 0
                         /\ assignments'[u][n].stakeClaimed => assignments'[u][n].accepted
      BY DEF PlanKnown
    <3>1. CASE u # t
      BY <1>5, <3>1 DEF Plan, PlanKnown
    <3>2. CASE u = t
      <4>. HIDE DEF nodes
      <4>. QED
        BY <1>4, <1>5, <3>2 DEF Plan, PlanKnown
    <3>. QED
      BY <3>1, <3>2
  <2>4. NothingPlanned'
    BY <1>2, <1>5 DEF Plan, NothingPlanned
  <2>. QED
    BY <1>6, <2>2, <2>3, <2>4 DEF Plan
<1>8. PotsTyped /\ PotsTyped'
  BY <1>7, PotTypes, PotTypesNext
<1>9. Total(BudgetOwed)' = Total(BudgetOwed) - BudgetOn(tasks[t]) + BudgetOn(r)
  BY <1>3, <1>8, BudgetMoves DEF Plan, Records
<1>10. stakes \in Nat /\ Total(StakeOwed) = Total(StakeOwed)' + stakes
  BY <1>3, <1>8, ForfeitedStakes
<1>. HIDE DEF stakes
<1>11. Total(Dust)' = Total(Dust)
  BY <1>1, <1>2, <1>5, DustStays DEF Started
<1>12. BudgetOn(tasks[t]) = budget /\ BudgetOn(r) = 0
  BY <1>1, <1>2 DEF BudgetOn, Live, Started
<1>13. Backed'
  BY <1>1, <1>3, <1>8, <1>9, <1>10, <1>11, <1>12 DEF Backed, PotsTyped
<1>14. receiptOwner' \in [Tasks -> [Nodes -> Accounts \cup {NoOne}]]
  BY <1>3 DEF Purses
<1>15. balance' \in [Accounts -> Nat]
  <2>. DEFINE paid == Credit(balance, owner, budget)
  <2>1. owner \in Accounts => paid \in [Accounts -> Nat]
    BY <1>1, CreditType DEF Purses
  <2>2. owner \notin Accounts => paid = balance
    BY DEF Credit, Purses
  <2>3. paid \in [Accounts -> Nat] /\ Treasury \in Accounts
    BY <2>1, <2>2, WorkflowEscrowConstants DEF Purses
  <2>. HIDE DEF paid
  <2>4. Credit(paid, Treasury, stakes) \in [Accounts -> Nat]
    BY <1>10, <2>3, CreditType
  <2>. QED
    BY <1>3, <2>4 DEF paid
<1>16. Purses'
  BY <1>3, <1>14, <1>15 DEF Purses
<1>17. ReceiptBacksStake'
  <2>. SUFFICES ASSUME NEW u \in Tasks, NEW n \in Nodes
                PROVE  /\ receiptOwner'[u][n] # NoOne
                             <=> assignments'[u][n].accepted /\ ~assignments'[u][n].stakeClaimed
                       /\ receiptOwner'[u][n] # NoOne
                             => tasks'[u].state \in Started \cup {"SETTLED_AGENTS"}
    BY DEF ReceiptBacksStake
  <2>1. CASE u # t
    <3>1. receiptOwner'[u] = receiptOwner[u]
      BY <1>3, <2>1 DEF Purses
    <3>. QED
      BY <1>5, <2>1, <3>1 DEF ReceiptBacksStake
  <2>2. CASE u = t
    <3>1. receiptOwner'[t][n] = NoOne
      <4>1. receiptOwner'[t] = burnt
        BY <1>3 DEF Purses
      <4>2. CASE n \in Forfeited(t)
        BY <4>1, <4>2
      <4>3. CASE n \notin Forfeited(t)
        <5>1. ~(assignments[t][n].accepted /\ ~assignments[t][n].stakeClaimed)
          BY <4>3 DEF Forfeited, TaskNodes, Plan, PlanKnown, Unassigned
        <5>. QED
          BY <4>1, <4>3, <5>1 DEF ReceiptBacksStake
      <4>. QED
        BY <4>2, <4>3
    <3>2. ~(assignments'[t][n].accepted /\ ~assignments'[t][n].stakeClaimed)
      <4>. HIDE DEF nodes
      <4>. QED
        BY <1>4, <1>5
    <3>. QED
      BY <2>2, <3>1, <3>2
  <2>. QED
    BY <2>1, <2>2
<1>. QED
  BY <1>7, <1>13, <1>16, <1>17

-----------------------------------------------------------------------------
\* At deployment nothing is held and nothing owed.
LEMMA InitWorkflowIInv == Init => WorkflowIInv
<1>. SUFFICES ASSUME Init PROVE WorkflowIInv
  OBVIOUS
<1>1. /\ TotalShare \in Nat /\ InitialFunds \in Nat
      /\ IsFiniteSet(Tasks) /\ IsFiniteSet(Nodes) /\ IsFiniteSet(Tasks \X Nodes)
  BY FS_Product, WorkflowEscrowConstants
<1>2. /\ \A t \in Tasks : tasks[t] = EmptyTask /\ \A n \in Nodes : assignments[t][n] = Unassigned
      /\ held = 0
  BY DEF Init
<1>3. EmptyTask \in Task /\ Unassigned \in NodeAssignment
  BY <1>1 DEF EmptyTask, Task, TaskState, Unassigned, NodeAssignment
<1>4. Records
  BY <1>3 DEF Init, Records
<1>5. PlanKnown /\ NothingPlanned
  <2>1. ~Unassigned.stakeClaimed /\ Unassigned.agent = NoOne
    BY DEF Unassigned
  <2>. QED
    BY <1>2, <2>1 DEF PlanKnown, NothingPlanned
<1>6. SharesAccounted
  <2>. SUFFICES ASSUME NEW t \in Tasks
                PROVE  Total(AssignedShares(t)) = 0 /\ Total(AcceptedShares(t)) = 0
    BY <1>2 DEF SharesAccounted, EmptyTask
  <2>1. \A n \in Nodes : AssignedShares(t)[n] = 0 /\ AcceptedShares(t)[n] = 0
    BY <1>2 DEF AssignedShares, AcceptedShares, Unassigned
  <2>. QED
    BY <1>4, <2>1, ShareTypes, TotalOfNothing
<1>7. Plan
  BY <1>4, <1>5, <1>6 DEF Plan
<1>8. PotsTyped
  BY <1>7, PotTypes
<1>9. /\ \A t \in Tasks : BudgetOwed[t] = 0 /\ Dust[t] = 0
      /\ \A tn \in Tasks \X Nodes : StakeOwed[tn] = 0
  BY <1>2 DEF BudgetOwed, Dust, StakeOwed, EmptyTask, Unassigned, Live, Started
<1>10. Total(BudgetOwed) = 0 /\ Total(Dust) = 0 /\ Total(StakeOwed) = 0
  BY <1>8, <1>9, TotalOfNothing DEF PotsTyped
<1>11. Backed
  BY <1>2, <1>10 DEF Backed
<1>12. Purses /\ ReceiptBacksStake
  BY <1>1 DEF Init, Purses, ReceiptBacksStake, Unassigned
<1>. QED
  BY <1>7, <1>11, <1>12 DEF WorkflowIInv

\* Every call keeps the invariant.
LEMMA NextWorkflowIInv == WorkflowIInv /\ [Next]_vars => WorkflowIInv'
<1>. SUFFICES ASSUME WorkflowIInv, [Next]_vars PROVE WorkflowIInv'
  OBVIOUS
<1>1. CASE UNCHANGED vars
  <2>1. Plan' /\ Backed'
    BY <1>1, SameRecords DEF vars, WorkflowIInv
  <2>. QED
    BY <1>1, <2>1 DEF vars, WorkflowIInv, Purses, ReceiptBacksStake
<1>. QED
  BY <1>1, CreateTaskKeeps, AnchorKeeps, AssignNodeKeeps, AcceptNodeKeeps, OpenDisputeKeeps,
     ResolveForAgentsKeeps, ResolveForPublisherKeeps, ClaimStakeKeeps, CancelKeeps,
     TransferReceiptKeeps DEF Next

\* The inductive invariant holds in every reachable state.
THEOREM WorkflowInvariance == Spec => []WorkflowIInv
<1>. QED
  BY InitWorkflowIInv, NextWorkflowIInv, PTL DEF Spec

LEMMA WorkflowTyped == WorkflowIInv => TypeOK
<1>1. WorkflowIInv => held \in Nat
  BY PotTypes DEF WorkflowIInv, PotsTyped, Backed
<1>. QED
  BY <1>1 DEF WorkflowIInv, Plan, Records, Purses, TypeOK

\* The contract holds what it owes to the token, and a receipt exists exactly as
\* long as a stake is held for it (AgentMarketWorkflowEscrow.sol:85-230).
THEOREM WorkflowSolvent == Spec => []EscrowSolvent
<1>1. WorkflowIInv => EscrowSolvent
  BY WorkflowTyped DEF WorkflowIInv, Backed, ReceiptBacksStake, EscrowSolvent
<1>. QED
  BY WorkflowInvariance, <1>1, PTL

\* When the accepted shares reach the total, no assigned node is unaccepted: its
\* share would bring the assigned shares above the total.
LEMMA NobodyLeftOut == WorkflowIInv => FullAcceptanceCoversEveryNode
<1>. SUFFICES ASSUME WorkflowIInv, NEW t \in Tasks, tasks[t].acceptedShareBps = TotalShare,
                     NEW n \in TaskNodes(t), ~assignments[t][n].accepted
              PROVE  FALSE
  BY DEF FullAcceptanceCoversEveryNode
<1>. DEFINE f == AcceptedShares(t)
            g == AssignedShares(t)
            h == [f EXCEPT ![n] = assignments[t][n].shareBps]
<1>1. /\ n \in Nodes /\ TotalShare \in Nat /\ Records /\ SharesAccounted
      /\ assignments[t][n].shareBps \in Nat /\ assignments[t][n].shareBps > 0
      /\ tasks[t].assignedShareBps \in 0..TotalShare
  BY WorkflowEscrowConstants DEF TaskNodes, WorkflowIInv, Plan, Records, PlanKnown, NodeAssignment, Task
<1>2. f \in [Nodes -> Nat] /\ g \in [Nodes -> Nat]
  BY <1>1, ShareTypes
<1>3. Total(f) = TotalShare /\ Total(g) <= TotalShare
  BY <1>1 DEF SharesAccounted
<1>4. f[n] = 0 /\ h \in [Nodes -> Nat] /\ h[n] = assignments[t][n].shareBps
      /\ (\A m \in Nodes \ {n} : h[m] = f[m])
  BY <1>1, <1>2 DEF AcceptedShares
<1>5. \A m \in Nodes : h[m] <= g[m]
  BY <1>1, <1>2 DEF AcceptedShares, AssignedShares
<1>. HIDE DEF f, g, h
<1>6. Total(h) = Total(f) - f[n] + h[n]
  BY <1>1, <1>2, <1>4, TotalDiffersAtOnePlace, WorkflowEscrowConstants
<1>7. Total(h) <= Total(g) /\ Total(g) \in Nat
  BY <1>2, <1>4, <1>5, TotalMonotone, TotalType, WorkflowEscrowConstants
<1>. QED
  BY <1>1, <1>3, <1>4, <1>6, <1>7

THEOREM FullWorkflowsResolve == Spec => []FullAcceptanceCoversEveryNode
<1>. QED
  BY WorkflowInvariance, NobodyLeftOut, PTL

-----------------------------------------------------------------------------
\* The refinement of EscrowPromise.
StageOf(state) ==
    CASE state = "NONE" -> "none"
      [] state = "SETTLED_AGENTS" -> "agents"
      [] state \in {"SETTLED_PUBLISHER", "CANCELLED"} -> "publisher"
      [] OTHER -> "pledged"

Stages == [t \in Tasks |-> StageOf(tasks[t].state)]
Pledges == [t \in Tasks |-> tasks[t].budget]

BudgetsBacked == held \in Nat /\ held >= Promise!Backing(Stages, Pledges)

\* The pool always backs what is pledged.
LEMMA PledgesBacked == WorkflowIInv => BudgetsBacked
<1>. SUFFICES ASSUME WorkflowIInv PROVE BudgetsBacked
  OBVIOUS
<1>1. [t \in Tasks |-> IF Stages[t] = "pledged" THEN Pledges[t] ELSE 0] = BudgetOwed
  <2>1. \A t \in Tasks : tasks[t].state \in TaskState
    BY DEF WorkflowIInv, Plan, Records, Task
  <2>. QED
    BY <2>1 DEF Stages, Pledges, StageOf, BudgetOwed, Live, Started, TaskState
<1>2. Promise!Backing(Stages, Pledges) = Total(BudgetOwed)
  BY <1>1 DEF Promise!Backing
<1>. QED
  BY <1>2, PotTypes DEF WorkflowIInv, PotsTyped, Backed, BudgetsBacked

LEMMA PledgesBackedNext == WorkflowIInv' => BudgetsBacked'
  BY PledgesBacked, PTL

\* A call that moves no budget is a move of other tokens.
LEMMA OtherTokensMove ==
  ASSUME WorkflowIInv', \A t \in Tasks : /\ StageOf(tasks'[t].state) = StageOf(tasks[t].state)
                                         /\ tasks'[t].budget = tasks[t].budget
  PROVE  Promise!MoveOtherTokens
<1>1. Stages' = Stages /\ Pledges' = Pledges
  BY DEF Stages, Pledges, StageOf
<1>2. held' \in Nat /\ held' >= Promise!Backing(Stages, Pledges)
  BY <1>1, PledgesBackedNext DEF BudgetsBacked, Promise!Backing, Total, Coins
<1>. QED
  BY <1>1, <1>2 DEF Promise!MoveOtherTokens, Stages, Pledges, StageOf

\* A call that ends a task releases its budget to one side.
LEMMA BudgetReleased ==
  ASSUME WorkflowIInv, WorkflowIInv', NEW t \in Tasks, NEW r, NEW side \in {"agents", "publisher"},
         tasks' = [tasks EXCEPT ![t] = r], StageOf(tasks[t].state) = "pledged",
         StageOf(r.state) = side, r.budget = tasks[t].budget
  PROVE  Promise!Release(t, side)
<1>1. tasks \in [Tasks -> Task]
  BY DEF WorkflowIInv, Plan, Records
<1>2. Stages[t] = "pledged" /\ Stages' = [Stages EXCEPT ![t] = side] /\ Pledges' = Pledges
  BY <1>1 DEF Stages, Pledges, StageOf
<1>3. held' \in Nat /\ held' >= Promise!Backing(Stages', Pledges)
  BY <1>2, PledgesBackedNext DEF BudgetsBacked, Promise!Backing, Total, Coins
<1>. QED
  BY <1>2, <1>3 DEF Promise!Release, Stages, Pledges, StageOf

LEMMA BudgetPledged ==
  ASSUME WorkflowIInv, NEW t \in Tasks, NEW ref \in Refs, NEW caller \in Accounts, NEW budget \in Budgets,
         CreateTask(t, ref, caller, budget)
  PROVE  Promise!Pledge(t)
<1>. DEFINE r == OpenTask(caller, ref, budget)
<1>1. /\ tasks \in [Tasks -> Task] /\ tasks[t].state = "NONE" /\ budget \in Nat \ {0}
      /\ tasks' = [tasks EXCEPT ![t] = r] /\ held' = held + budget
  BY WorkflowEscrowConstants DEF WorkflowIInv, Plan, Records, CreateTask
<1>2. StageOf("NONE") = "none" /\ StageOf(r.state) = "pledged" /\ r.budget = budget
  BY DEF StageOf, OpenTask
<1>. HIDE DEF r
<1>3. /\ Stages[t] = "none" /\ Stages' = [Stages EXCEPT ![t] = "pledged"]
      /\ Pledges'[t] = budget /\ Pledges' = [Pledges EXCEPT ![t] = budget]
  BY <1>1, <1>2 DEF Stages, Pledges, StageOf
<1>. QED
  BY <1>1, <1>3 DEF Promise!Pledge, Stages, Pledges, StageOf

\* Every call is a step of the promise.
LEMMA CallsKeepPromise ==
  WorkflowIInv /\ WorkflowIInv' /\ [Next]_vars => [Promise!Next]_(Promise!promiseVars)
<1>. SUFFICES ASSUME WorkflowIInv, WorkflowIInv', [Next]_vars PROVE Promise!Next
  BY DEF Promise!Next
<1>. USE DEF Promise!Next
<1>0. tasks \in [Tasks -> Task]
  BY DEF WorkflowIInv, Plan, Records
<1>1. ASSUME NEW t \in Tasks, NEW ref \in Refs, NEW caller \in Accounts, NEW budget \in Budgets,
             CreateTask(t, ref, caller, budget)
      PROVE  Promise!Next
  BY <1>1, BudgetPledged
<1>2. ASSUME NEW t \in Tasks, NEW caller \in Accounts, NEW workflow \in Workflows,
             AnchorWorkflow(t, caller, workflow)
      PROVE  Promise!Next
  <2>1. \A u \in Tasks : tasks'[u].state = tasks[u].state /\ tasks'[u].budget = tasks[u].budget
    BY <1>0, <1>2 DEF AnchorWorkflow, Task
  <2>. QED
    BY <2>1, OtherTokensMove
<1>3. ASSUME NEW t \in Tasks, NEW n \in Nodes, NEW caller \in Accounts, NEW agent \in Accounts,
             NEW stakeAmount \in Stakes, NEW shareBps \in Shares,
             AssignNode(t, n, caller, agent, stakeAmount, shareBps)
      PROVE  Promise!Next
  <2>1. \A u \in Tasks : tasks'[u].state = tasks[u].state /\ tasks'[u].budget = tasks[u].budget
    BY <1>0, <1>3 DEF AssignNode, Assign, Task
  <2>. QED
    BY <2>1, OtherTokensMove
<1>4. ASSUME NEW t \in Tasks, NEW n \in Nodes, NEW caller \in Accounts, AcceptNode(t, n, caller)
      PROVE  Promise!Next
  <2>1. \A u \in Tasks : /\ StageOf(tasks'[u].state) = StageOf(tasks[u].state)
                         /\ tasks'[u].budget = tasks[u].budget
    <3>. DEFINE share == tasks[t].acceptedShareBps + assignments[t][n].shareBps
                r == [tasks[t] EXCEPT !.acceptedShareBps = share, !.state = "IN_PROGRESS"]
    <3>1. tasks' = [tasks EXCEPT ![t] = r] /\ tasks[t].state \in {"OPEN", "IN_PROGRESS"}
      BY <1>0, <1>4 DEF AcceptNode, TakeStake
    <3>2. r.state = "IN_PROGRESS" /\ r.budget = tasks[t].budget
      BY <1>0 DEF Task
    <3>3. StageOf("IN_PROGRESS") = "pledged" /\ StageOf("OPEN") = "pledged"
      BY DEF StageOf
    <3>. HIDE DEF r
    <3>. QED
      BY <1>0, <3>1, <3>2, <3>3
  <2>. QED
    BY <2>1, OtherTokensMove
<1>5. ASSUME NEW t \in Tasks, NEW caller \in Accounts, OpenDispute(t, caller)
      PROVE  Promise!Next
  <2>1. \A u \in Tasks : /\ StageOf(tasks'[u].state) = StageOf(tasks[u].state)
                         /\ tasks'[u].budget = tasks[u].budget
    BY <1>0, <1>5 DEF OpenDispute, Task, StageOf
  <2>. QED
    BY <2>1, OtherTokensMove
<1>6. ASSUME NEW t \in Tasks, ResolveForAgents(t)
      PROVE  Promise!Next
  <2>. DEFINE r == [tasks[t] EXCEPT !.state = "SETTLED_AGENTS"]
  <2>1. /\ tasks' = [tasks EXCEPT ![t] = r] /\ StageOf(tasks[t].state) = "pledged"
        /\ StageOf(r.state) = "agents" /\ r.budget = tasks[t].budget
    BY <1>0, <1>6 DEF ResolveForAgents, PayAgents, Started, Task, StageOf
  <2>. HIDE DEF r
  <2>2. Promise!Release(t, "agents")
    BY <2>1, BudgetReleased
  <2>. QED
    BY <2>2 DEF Promise!Released
<1>7. ASSUME NEW t \in Tasks, ResolveForPublisher(t)
      PROVE  Promise!Next
  <2>. DEFINE r == [tasks[t] EXCEPT !.state = "SETTLED_PUBLISHER"]
  <2>1. /\ tasks' = [tasks EXCEPT ![t] = r] /\ StageOf(tasks[t].state) = "pledged"
        /\ StageOf(r.state) = "publisher" /\ r.budget = tasks[t].budget
    BY <1>0, <1>7 DEF ResolveForPublisher, Forfeit, Started, Task, StageOf
  <2>. HIDE DEF r
  <2>2. Promise!Release(t, "publisher")
    BY <2>1, BudgetReleased
  <2>. QED
    BY <2>2 DEF Promise!Released
<1>8. ASSUME NEW t \in Tasks, NEW n \in Nodes, NEW caller \in Accounts, ClaimStake(t, n, caller)
      PROVE  Promise!Next
  BY <1>8, OtherTokensMove DEF ClaimStake
<1>9. ASSUME NEW t \in Tasks, NEW caller \in Accounts, CancelBeforeStart(t, caller)
      PROVE  Promise!Next
  <2>. DEFINE r == [tasks[t] EXCEPT !.state = "CANCELLED"]
  <2>1. /\ tasks' = [tasks EXCEPT ![t] = r] /\ StageOf(tasks[t].state) = "pledged"
        /\ StageOf(r.state) = "publisher" /\ r.budget = tasks[t].budget
    BY <1>0, <1>9 DEF CancelBeforeStart, Task, StageOf
  <2>. HIDE DEF r
  <2>2. Promise!Release(t, "publisher")
    BY <2>1, BudgetReleased
  <2>. QED
    BY <2>2 DEF Promise!Released
<1>10. ASSUME NEW t \in Tasks, NEW n \in Nodes, NEW to \in Accounts, TransferReceipt(t, n, to)
       PROVE  Promise!Next
  BY <1>10, OtherTokensMove DEF TransferReceipt
<1>11. CASE UNCHANGED vars
  BY <1>11, OtherTokensMove DEF vars
<1>. QED
  BY <1>1, <1>2, <1>3, <1>4, <1>5, <1>6, <1>7, <1>8, <1>9, <1>10, <1>11 DEF Next

\* The V3 escrow implements EscrowPromise: each budget is pledged once, backed
\* while pledged, and released once.
THEOREM WorkflowKeepsPromise == Spec => KeepsPromise
<1>1. Init => Promise!Init
  BY DEF Init, Promise!Init, EmptyTask
<1>. QED
  BY <1>1, WorkflowInvariance, CallsKeepPromise, PTL DEF Spec, KeepsPromise, Promise!Spec
=============================================================================
