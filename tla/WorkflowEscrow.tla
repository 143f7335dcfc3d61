--------------------------- MODULE WorkflowEscrow ---------------------------
(***************************************************************************)
(* packages/contracts/contracts/AgentMarketWorkflowEscrow.sol (V3) with    *)
(* TaskStakeReceipt.sol: a budget shared by the agents of a workflow's     *)
(* nodes, who stake on acceptance and hold a transferable ERC-721 receipt  *)
(* for the stake.  The platform arbiter alone rules.                       *)
(*                                                                         *)
(* The deadline is left out: createTask requires it to lie in the future   *)
(* and no later call reads it.  A receipt identifier hashes task, node and *)
(* agent; the agent of a node never changes, so <<task, node>> names it.   *)
(***************************************************************************)
EXTENDS Integers, Collections

CONSTANTS
    Tasks, Refs, Nodes, Workflows, Accounts,
    Arbiter,        \* platformArbiter
    Treasury,       \* platformTreasury
    NoOne, NoRef, NoWorkflow,
    Budgets, Stakes, Shares,    \* amounts callers may choose
    InitialFunds,   \* tokens every account starts with
    FeePercent,     \* PUBLICATION_FEE_PERCENT
    TotalShare,     \* TOTAL_SHARE_BPS
    MaxVersion      \* bound on workflowVersion

ASSUME WorkflowEscrowConstants ==
    /\ Arbiter \in Accounts /\ Treasury \in Accounts
    /\ NoOne \notin Accounts /\ NoRef \notin Refs /\ NoWorkflow \notin Workflows
    /\ IsFiniteSet(Tasks) /\ IsFiniteSet(Nodes)
    /\ Budgets \subseteq Nat \ {0} /\ Stakes \subseteq Nat \ {0}
    /\ Shares \subseteq Nat \ {0}
    /\ InitialFunds \in Nat /\ FeePercent \in Nat
    /\ TotalShare \in Nat \ {0} /\ MaxVersion \in Nat

VARIABLES
    tasks,              \* mapping tasks
    assignments,        \* mapping assignments; taskNodes lists the assigned nodes
    usedRequestRefs,    \* mapping usedRequestRefs, as the set of used ones
    receiptOwner,       \* the ERC-721 owner of each node's receipt
    held,               \* yd.balanceOf(address(this))
    balance             \* yd.balanceOf of every account

vars == <<tasks, assignments, usedRequestRefs, receiptOwner, held, balance>>

TaskState == {"NONE", "OPEN", "IN_PROGRESS", "DISPUTED", "SETTLED_AGENTS",
              "SETTLED_PUBLISHER", "CANCELLED"}

Started == {"IN_PROGRESS", "DISPUTED"}
Live == {"OPEN"} \cup Started
Terminal == {"SETTLED_AGENTS", "SETTLED_PUBLISHER", "CANCELLED"}

Task ==
    [publisher : Accounts \cup {NoOne}, requestRef : Refs \cup {NoRef},
     workflow : Workflows \cup {NoWorkflow}, budget : Nat, workflowVersion : Nat,
     assignedShareBps : 0..TotalShare, acceptedShareBps : 0..TotalShare,
     state : TaskState]

NodeAssignment ==
    [agent : Accounts \cup {NoOne}, stakeAmount : Nat, shareBps : Nat,
     accepted : BOOLEAN, stakeClaimed : BOOLEAN]

EmptyTask ==
    [publisher |-> NoOne, requestRef |-> NoRef, workflow |-> NoWorkflow,
     budget |-> 0, workflowVersion |-> 0, assignedShareBps |-> 0,
     acceptedShareBps |-> 0, state |-> "NONE"]

Unassigned ==
    [agent |-> NoOne, stakeAmount |-> 0, shareBps |-> 0, accepted |-> FALSE,
     stakeClaimed |-> FALSE]

OpenTask(publisher, ref, budget) ==
    [publisher |-> publisher, requestRef |-> ref, workflow |-> NoWorkflow,
     budget |-> budget, workflowVersion |-> 0, assignedShareBps |-> 0,
     acceptedShareBps |-> 0, state |-> "OPEN"]

AssignedTo(agent, stakeAmount, shareBps) ==
    [agent |-> agent, stakeAmount |-> stakeAmount, shareBps |-> shareBps,
     accepted |-> FALSE, stakeClaimed |-> FALSE]

Init ==
    /\ tasks = [t \in Tasks |-> EmptyTask]
    /\ assignments = [t \in Tasks |-> [n \in Nodes |-> Unassigned]]
    /\ usedRequestRefs = {}
    /\ receiptOwner = [t \in Tasks |-> [n \in Nodes |-> NoOne]]
    /\ held = 0
    /\ balance = [a \in Accounts |-> InitialFunds]

----------------------------------------------------------------------------
TaskNodes(t) == {n \in Nodes : assignments[t][n].agent # NoOne}

PublicationFee(budget) == (budget * FeePercent) \div 100

\* What one node's agent gets of the budget, rounded down.
NodePay(t, n) == (tasks[t].budget * assignments[t][n].shareBps) \div TotalShare

MayPlan(t, caller) == caller \in {tasks[t].publisher, Arbiter}

IsAcceptedAgent(t, who) ==
    \E n \in TaskNodes(t) : assignments[t][n].agent = who /\ assignments[t][n].accepted

CreateTask(t, ref, caller, budget) ==
    LET fee == PublicationFee(budget)
    IN  /\ tasks[t].state = "NONE"
        /\ ref \notin usedRequestRefs
        /\ balance[caller] >= budget + fee
        /\ usedRequestRefs' = usedRequestRefs \cup {ref}
        /\ tasks' = [tasks EXCEPT ![t] = OpenTask(caller, ref, budget)]
        /\ held' = held + budget
        /\ balance' = Credit(Debit(balance, caller, budget + fee), Treasury, fee)
        /\ UNCHANGED <<assignments, receiptOwner>>

\* The caller names the next version himself; any other number reverts.
AnchorWorkflow(t, caller, workflow) ==
    /\ tasks[t].state = "OPEN"
    /\ MayPlan(t, caller)
    /\ tasks[t].workflowVersion < MaxVersion
    /\ tasks' = [tasks EXCEPT ![t].workflow = workflow,
                              ![t].workflowVersion = @ + 1]
    /\ UNCHANGED <<assignments, usedRequestRefs, receiptOwner, held, balance>>

Assign(t, n, agent, stakeAmount, shareBps) ==
    /\ tasks' = [tasks EXCEPT ![t].assignedShareBps = @ + shareBps]
    /\ assignments' = [assignments EXCEPT ![t][n] = AssignedTo(agent, stakeAmount, shareBps)]
    /\ UNCHANGED <<usedRequestRefs, receiptOwner, held, balance>>

AssignNode(t, n, caller, agent, stakeAmount, shareBps) ==
    /\ tasks[t].state = "OPEN"
    /\ MayPlan(t, caller)
    /\ assignments[t][n].agent = NoOne
    /\ tasks[t].assignedShareBps + shareBps <= TotalShare
    /\ Assign(t, n, agent, stakeAmount, shareBps)

TakeStake(t, n, caller) ==
    LET stakeAmount == assignments[t][n].stakeAmount
    IN  /\ balance[caller] >= stakeAmount
        /\ assignments' = [assignments EXCEPT ![t][n].accepted = TRUE]
        /\ tasks' = [tasks EXCEPT ![t].acceptedShareBps =
                                        @ + assignments[t][n].shareBps,
                                  ![t].state = "IN_PROGRESS"]
        /\ receiptOwner' = [receiptOwner EXCEPT ![t][n] = caller]
        /\ held' = held + stakeAmount
        /\ balance' = Debit(balance, caller, stakeAmount)
        /\ UNCHANGED usedRequestRefs

\* Mutant: a node may be accepted again and its share counted twice.
AcceptNodeAgain(t, n, caller) ==
    /\ tasks[t].state \in {"OPEN", "IN_PROGRESS"}
    /\ assignments[t][n].agent = caller
    /\ TakeStake(t, n, caller)

AcceptNode(t, n, caller) ==
    /\ tasks[t].state \in {"OPEN", "IN_PROGRESS"}
    /\ assignments[t][n].agent = caller
    /\ ~assignments[t][n].accepted
    /\ TakeStake(t, n, caller)

OpenDispute(t, caller) ==
    /\ tasks[t].state = "IN_PROGRESS"
    /\ caller = tasks[t].publisher \/ IsAcceptedAgent(t, caller)
    /\ tasks' = [tasks EXCEPT ![t].state = "DISPUTED"]
    /\ UNCHANGED <<assignments, usedRequestRefs, receiptOwner, held, balance>>

PayAgents(t) ==
    LET pay == [n \in Nodes |-> IF n \in TaskNodes(t) THEN NodePay(t, n) ELSE 0]
        payTo(a) == Total([n \in Nodes |->
                            IF assignments[t][n].agent = a THEN pay[n] ELSE 0])
    IN  /\ held >= Total(pay)
        /\ tasks' = [tasks EXCEPT ![t].state = "SETTLED_AGENTS"]
        /\ held' = held - Total(pay)
        /\ balance' = [a \in Accounts |-> balance[a] + payTo(a)]
        /\ UNCHANGED <<assignments, usedRequestRefs, receiptOwner>>

\* resolveTask for the agents: every assigned node is paid, stakes stay.
ResolveForAgents(t) ==
    /\ tasks[t].state \in Started
    /\ tasks[t].acceptedShareBps = TotalShare
    /\ \A n \in TaskNodes(t) : assignments[t][n].accepted
    /\ PayAgents(t)

Forfeited(t) == {n \in TaskNodes(t) : assignments[t][n].accepted
                                      /\ ~assignments[t][n].stakeClaimed}

Forfeit(t) ==
    LET stakes == Total([n \in Forfeited(t) |-> assignments[t][n].stakeAmount])
    IN  /\ held >= tasks[t].budget + stakes
        /\ tasks' = [tasks EXCEPT ![t].state = "SETTLED_PUBLISHER"]
        /\ assignments' = [assignments EXCEPT ![t] =
             [n \in Nodes |-> IF n \in Forfeited(t)
                              THEN [assignments[t][n] EXCEPT !.stakeClaimed = TRUE]
                              ELSE assignments[t][n]]]
        /\ held' = held - tasks[t].budget - stakes
        /\ balance' = Credit(Credit(balance, tasks[t].publisher, tasks[t].budget),
                             Treasury, stakes)
        /\ UNCHANGED usedRequestRefs

\* resolveTask for the publisher: budget back, accepted stakes to the treasury,
\* their receipts burnt (burning one that does not exist reverts).
ResolveForPublisher(t) ==
    /\ tasks[t].state \in Started
    /\ \A n \in Forfeited(t) : receiptOwner[t][n] # NoOne
    /\ Forfeit(t)
    /\ receiptOwner' = [receiptOwner EXCEPT ![t] =
         [n \in Nodes |-> IF n \in Forfeited(t) THEN NoOne ELSE receiptOwner[t][n]]]

\* Mutant: the stake is paid but not marked as claimed.
ClaimStakeUnmarked(t, n, caller) ==
    /\ tasks[t].state = "SETTLED_AGENTS"
    /\ receiptOwner[t][n] = caller
    /\ receiptOwner' = [receiptOwner EXCEPT ![t][n] = NoOne]
    /\ held' = held - assignments[t][n].stakeAmount
    /\ balance' = Credit(balance, caller, assignments[t][n].stakeAmount)
    /\ UNCHANGED <<tasks, assignments, usedRequestRefs>>

\* receiptTasks and receiptNodes know a receipt from its node's acceptance on.
ClaimStake(t, n, caller) ==
    /\ assignments[t][n].accepted
    /\ tasks[t].state = "SETTLED_AGENTS"
    /\ ~assignments[t][n].stakeClaimed
    /\ receiptOwner[t][n] = caller
    /\ held >= assignments[t][n].stakeAmount
    /\ assignments' = [assignments EXCEPT ![t][n].stakeClaimed = TRUE]
    /\ receiptOwner' = [receiptOwner EXCEPT ![t][n] = NoOne]
    /\ held' = held - assignments[t][n].stakeAmount
    /\ balance' = Credit(balance, caller, assignments[t][n].stakeAmount)
    /\ UNCHANGED <<tasks, usedRequestRefs>>

\* Mutant: the budget is paid back but the task stays open.
CancelKeepingOpen(t, caller) ==
    /\ tasks[t].state = "OPEN"
    /\ caller = tasks[t].publisher
    /\ held >= tasks[t].budget
    /\ held' = held - tasks[t].budget
    /\ balance' = Credit(balance, caller, tasks[t].budget)
    /\ UNCHANGED <<tasks, assignments, usedRequestRefs, receiptOwner>>

CancelBeforeStart(t, caller) ==
    /\ tasks[t].state = "OPEN"
    /\ caller = tasks[t].publisher
    /\ held >= tasks[t].budget
    /\ tasks' = [tasks EXCEPT ![t].state = "CANCELLED"]
    /\ held' = held - tasks[t].budget
    /\ balance' = Credit(balance, caller, tasks[t].budget)
    /\ UNCHANGED <<assignments, usedRequestRefs, receiptOwner>>

\* ERC-721 transferFrom, inherited by TaskStakeReceipt.
TransferReceipt(t, n, to) ==
    /\ receiptOwner[t][n] # NoOne
    /\ receiptOwner' = [receiptOwner EXCEPT ![t][n] = to]
    /\ UNCHANGED <<tasks, assignments, usedRequestRefs, held, balance>>

Next ==
    \/ \E t \in Tasks, ref \in Refs, caller \in Accounts, budget \in Budgets :
            CreateTask(t, ref, caller, budget)
    \/ \E t \in Tasks, caller \in Accounts, workflow \in Workflows :
            AnchorWorkflow(t, caller, workflow)
    \/ \E t \in Tasks, n \in Nodes, caller \in Accounts, agent \in Accounts,
          stakeAmount \in Stakes, shareBps \in Shares :
            AssignNode(t, n, caller, agent, stakeAmount, shareBps)
    \/ \E t \in Tasks, n \in Nodes, caller \in Accounts : AcceptNode(t, n, caller)
    \/ \E t \in Tasks, caller \in Accounts : OpenDispute(t, caller)
    \/ \E t \in Tasks : ResolveForAgents(t)
    \/ \E t \in Tasks : ResolveForPublisher(t)
    \/ \E t \in Tasks, n \in Nodes, caller \in Accounts : ClaimStake(t, n, caller)
    \/ \E t \in Tasks, caller \in Accounts : CancelBeforeStart(t, caller)
    \/ \E t \in Tasks, n \in Nodes, to \in Accounts : TransferReceipt(t, n, to)

Spec == Init /\ [][Next]_vars
----------------------------------------------------------------------------
\* The escrow's state stays in its declared domains
\* (AgentMarketWorkflowEscrow.sol:20-55).
TypeOK ==
    /\ tasks \in [Tasks -> Task]
    /\ assignments \in [Tasks -> [Nodes -> NodeAssignment]]
    /\ usedRequestRefs \subseteq Refs
    /\ receiptOwner \in [Tasks -> [Nodes -> Accounts \cup {NoOne}]]
    /\ held \in Nat
    /\ balance \in [Accounts -> Nat]

BudgetOwed == [t \in Tasks |-> IF tasks[t].state \in Live THEN tasks[t].budget ELSE 0]

StakeOwed ==
    [tn \in Tasks \X Nodes |->
        LET a == assignments[tn[1]][tn[2]]
        IN  IF a.accepted /\ ~a.stakeClaimed THEN a.stakeAmount ELSE 0]

\* What rounding the shares down leaves behind when the agents are paid.
Dust ==
    [t \in Tasks |->
        IF tasks[t].state = "SETTLED_AGENTS"
        THEN tasks[t].budget - Total([n \in Nodes |-> NodePay(t, n)])
        ELSE 0]

\* The contract holds the budget of every live task, every stake taken and not yet
\* returned or forfeited, and the rounding dust, to the token; and a receipt exists
\* exactly as long as a stake is held for it, whoever owns it, and a stake is held
\* only between acceptance and the end of the task, or until it is claimed from a
\* task the agents won; all in the declared domains.
EscrowSolvent ==
    /\ TypeOK
    /\ held = Total(BudgetOwed) + Total(StakeOwed) + Total(Dust)
    /\ \A t \in Tasks, n \in Nodes :
          /\ receiptOwner[t][n] # NoOne
               <=> assignments[t][n].accepted /\ ~assignments[t][n].stakeClaimed
          /\ receiptOwner[t][n] # NoOne
               => tasks[t].state \in Started \cup {"SETTLED_AGENTS"}

\* When the accepted shares reach the total, no assigned node is unaccepted:
\* resolveTask's AssignmentNotAccepted (164) can never strand a full workflow.
FullAcceptanceCoversEveryNode ==
    \A t \in Tasks : tasks[t].acceptedShareBps = TotalShare =>
        \A n \in TaskNodes(t) : assignments[t][n].accepted

\* What the escrow promises about budgets, seen through its own state.
Promise == INSTANCE EscrowPromise WITH
    stage <- [t \in Tasks |->
                CASE tasks[t].state = "NONE" -> "none"
                  [] tasks[t].state = "SETTLED_AGENTS" -> "agents"
                  [] tasks[t].state \in {"SETTLED_PUBLISHER", "CANCELLED"} -> "publisher"
                  [] OTHER -> "pledged"],
    pledged <- [t \in Tasks |-> tasks[t].budget],
    pool <- held

\* The V3 escrow implements EscrowPromise: each budget is backed while pledged
\* and released exactly once.
KeepsPromise == Promise!Spec
=============================================================================
