------------------------- MODULE AgentMarketEscrow -------------------------
(***************************************************************************)
(* packages/contracts/contracts/AgentMarketEscrow.sol: one publisher, one  *)
(* agent and one budget per task.  A call that reverts changes nothing, so *)
(* every revert condition is a guard.  msg.sender is the parameter         *)
(* "caller"; allowances are taken as given, balances are not: a transfer   *)
(* the payer cannot cover reverts the whole call.                          *)
(*                                                                         *)
(* DisputeResolution adds the committee, which the contract calls to open  *)
(* a case and which calls it back to resolve one.                          *)
(***************************************************************************)
EXTENDS Integers, Collections, SettlementParties

CONSTANTS
    Refs,           \* request references (bytes32)
    Owner,          \* the contract owner, who funds the reward pool
    Treasury,       \* platformTreasury
    NoRef,          \* bytes32(0)
    Budgets,        \* budgets a publisher may choose
    Fundings,       \* amounts the owner may add to the reward pool
    InitialFunds,   \* tokens every account starts with
    BondPercent,    \* BOND_PERCENT
    RatePercent,    \* RATE_PERCENT
    Year,           \* YEAR, in clock units
    MaxTime,        \* bound on block.timestamp
    MaxReserve      \* bound on rewardReserve

ASSUME EscrowConstants ==
    /\ Owner \in Accounts /\ Treasury \in Accounts
    /\ NoRef \notin Refs
    /\ IsFiniteSet(Tasks)
    /\ Budgets \subseteq Nat \ {0} /\ Fundings \subseteq Nat \ {0}
    /\ InitialFunds \in Nat
    /\ BondPercent \in Nat /\ RatePercent \in Nat
    /\ Year \in Nat \ {0} /\ MaxTime \in Nat /\ MaxReserve \in Nat

VARIABLES
    tasks,              \* mapping tasks
    usedRequestRefs,    \* mapping usedRequestRefs, as the set of used ones
    rewardReserve,      \* rewardReserve
    held,               \* yd.balanceOf(address(this))
    balance,            \* yd.balanceOf of every account
    clock               \* block.timestamp

escrowVars == <<tasks, usedRequestRefs, rewardReserve, held, balance, clock>>

TaskState == {"NONE", "OPEN", "ASSIGNED", "IN_PROGRESS", "SUBMITTED",
              "DISPUTED", "SETTLED", "REFUNDED"}

Active == {"OPEN", "ASSIGNED", "IN_PROGRESS", "SUBMITTED", "DISPUTED"}

\* startedAt is -1 while the code's field is still 0 (block.timestamp is never 0).
NotStarted == -1

TaskEscrow ==
    [publisher : Accounts \cup {NoOne}, agent : Accounts \cup {NoOne},
     requestRef : Refs \cup {NoRef}, budget : Nat, bond : Nat,
     deadline : Nat, startedAt : Nat \cup {NotStarted}, state : TaskState]

EmptyTask ==
    [publisher |-> NoOne, agent |-> NoOne, requestRef |-> NoRef, budget |-> 0,
     bond |-> 0, deadline |-> 0, startedAt |-> NotStarted, state |-> "NONE"]

OpenTask(publisher, ref, budget, deadline) ==
    [publisher |-> publisher, agent |-> NoOne, requestRef |-> ref,
     budget |-> budget, bond |-> 0, deadline |-> deadline,
     startedAt |-> NotStarted, state |-> "OPEN"]

EscrowInit ==
    /\ tasks = [t \in Tasks |-> EmptyTask]
    /\ usedRequestRefs = {}
    /\ rewardReserve = 0
    /\ held = 0
    /\ balance = [a \in Accounts |-> InitialFunds]
    /\ clock = 0

----------------------------------------------------------------------------
PendingYield(t) ==
    IF tasks[t].startedAt = NotStarted THEN 0
    ELSE (tasks[t].budget * RatePercent * (clock - tasks[t].startedAt))
            \div (100 * Year)

FundRewardPool(amount) ==
    /\ rewardReserve + amount <= MaxReserve
    /\ balance[Owner] >= amount
    /\ rewardReserve' = rewardReserve + amount
    /\ held' = held + amount
    /\ balance' = Debit(balance, Owner, amount)
    /\ UNCHANGED <<tasks, usedRequestRefs, clock>>

CreateTask(t, ref, caller, budget, deadline) ==
    /\ tasks[t].state = "NONE"
    /\ ref \notin usedRequestRefs
    /\ deadline > clock
    /\ balance[caller] >= budget
    /\ usedRequestRefs' = usedRequestRefs \cup {ref}
    /\ tasks' = [tasks EXCEPT ![t] = OpenTask(caller, ref, budget, deadline)]
    /\ held' = held + budget
    /\ balance' = Debit(balance, caller, budget)
    /\ UNCHANGED <<rewardReserve, clock>>

AssignAgent(t, caller, agent) ==
    /\ tasks[t].state = "OPEN"
    /\ caller = tasks[t].publisher
    /\ tasks' = [tasks EXCEPT ![t] = [@ EXCEPT !.agent = agent, !.state = "ASSIGNED"]]
    /\ UNCHANGED <<usedRequestRefs, rewardReserve, held, balance, clock>>

AcceptTask(t, caller) ==
    LET bond == (tasks[t].budget * BondPercent) \div 100
    IN  /\ tasks[t].state = "ASSIGNED"
        /\ caller = tasks[t].agent
        /\ balance[caller] >= bond
        /\ tasks' = [tasks EXCEPT ![t] =
                        [@ EXCEPT !.bond = bond, !.startedAt = clock,
                                  !.state = "IN_PROGRESS"]]
        /\ held' = held + bond
        /\ balance' = Debit(balance, caller, bond)
        /\ UNCHANGED <<usedRequestRefs, rewardReserve, clock>>

SubmitWork(t, caller) ==
    /\ tasks[t].state = "IN_PROGRESS"
    /\ caller = tasks[t].agent
    /\ tasks' = [tasks EXCEPT ![t] = [@ EXCEPT !.state = "SUBMITTED"]]
    /\ UNCHANGED <<usedRequestRefs, rewardReserve, held, balance, clock>>

\* Mutant: the yield is paid without being taken from the reserve.
ReserveUntouched(paid) == rewardReserve

ReserveAfter(paid) == rewardReserve - paid

\* Mutant: the settlement forgets to record that the task is settled.
StateUnchanged(t, agentWins) == tasks[t].state

StateAfter(t, agentWins) == IF agentWins THEN "SETTLED" ELSE "REFUNDED"

\* _settle: the winner takes the budget and as much of the yield as the
\* reserve covers, the bond goes to the treasury whoever wins.
Settle(t, agentWins) ==
    LET due == PendingYield(t)
        paid == IF due > rewardReserve THEN rewardReserve ELSE due
        recipient == IF agentWins THEN tasks[t].agent ELSE tasks[t].publisher
        bond == tasks[t].bond
        amount == tasks[t].budget + paid
    IN  /\ held >= amount + bond
        /\ rewardReserve' = ReserveAfter(paid)
        /\ tasks' = [tasks EXCEPT ![t] = [@ EXCEPT !.state = StateAfter(t, agentWins)]]
        /\ held' = held - amount - bond
        /\ balance' = Credit(Credit(balance, recipient, amount), Treasury, bond)
        /\ UNCHANGED <<usedRequestRefs, clock>>

AcceptWork(t, caller) ==
    /\ tasks[t].state = "SUBMITTED"
    /\ caller = tasks[t].publisher
    /\ Settle(t, TRUE)

\* Mutant: a timeout may also refund a task that is in dispute.
TimeoutTaskInDispute(t, caller) ==
    /\ tasks[t].state \in {"IN_PROGRESS", "DISPUTED"}
    /\ caller = tasks[t].publisher
    /\ clock > tasks[t].deadline
    /\ Settle(t, FALSE)

TimeoutTask(t, caller) ==
    /\ tasks[t].state = "IN_PROGRESS"
    /\ caller = tasks[t].publisher
    /\ clock > tasks[t].deadline
    /\ Settle(t, FALSE)

\* The call to committee.openCase is conjoined in DisputeResolution.
LockForDispute(t, caller) ==
    /\ tasks[t].state \in {"IN_PROGRESS", "SUBMITTED"}
    /\ caller \in {tasks[t].publisher, tasks[t].agent}
    /\ tasks' = [tasks EXCEPT ![t] = [@ EXCEPT !.state = "DISPUTED"]]
    /\ UNCHANGED <<usedRequestRefs, rewardReserve, held, balance, clock>>

\* Called by the committee only; DisputeResolution conjoins it to the vote.
ResolveDispute(t, agentWins) ==
    /\ tasks[t].state = "DISPUTED"
    /\ Settle(t, agentWins)

Tick ==
    /\ clock < MaxTime
    /\ clock' = clock + 1
    /\ UNCHANGED <<tasks, usedRequestRefs, rewardReserve, held, balance>>

\* The steps that involve no committee.
EscrowOnly ==
    \/ \E amount \in Fundings : FundRewardPool(amount)
    \/ \E t \in Tasks, ref \in Refs, caller \in Accounts, budget \in Budgets,
          deadline \in 1..MaxTime : CreateTask(t, ref, caller, budget, deadline)
    \/ \E t \in Tasks, caller \in Accounts, agent \in Accounts :
            AssignAgent(t, caller, agent)
    \/ \E t \in Tasks, caller \in Accounts : AcceptTask(t, caller)
    \/ \E t \in Tasks, caller \in Accounts : SubmitWork(t, caller)
    \/ \E t \in Tasks, caller \in Accounts : AcceptWork(t, caller)
    \/ \E t \in Tasks, caller \in Accounts : TimeoutTask(t, caller)
    \/ Tick

----------------------------------------------------------------------------
\* The escrow's state stays in its declared domains (AgentMarketEscrow.sol:20-38).
EscrowTypeOK ==
    /\ tasks \in [Tasks -> TaskEscrow]
    /\ usedRequestRefs \subseteq Refs
    /\ rewardReserve \in Nat
    /\ held \in Nat
    /\ balance \in [Accounts -> Nat]
    /\ clock \in Nat

\* What the contract owes on one task: budget and bond until it is settled.
OwedOn(task) == IF task.state \in Active THEN task.budget + task.bond ELSE 0

Owed == [t \in Tasks |-> OwedOn(tasks[t])]

\* Solvency: the contract holds exactly the reward reserve plus the budget and
\* bond of every task not settled yet, so a yield shortfall (_settle, 149-159)
\* is never taken out of somebody's principal.
EscrowSolvent == held = rewardReserve + Total(Owed)

=============================================================================
