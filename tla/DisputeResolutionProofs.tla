---------------------- MODULE DisputeResolutionProofs ----------------------
(***************************************************************************)
(* The safety of the V2 settlement boundary, for any tasks, accounts,      *)
(* committee of at least five and rates.  The escrow and the committee     *)
(* come first, each with an invariant that its own calls keep; the         *)
(* inductive invariant of the two joins these with what ties the contracts *)
(* together: a case names the parties of its task and outlives neither its *)
(* dispute nor its settlement.  Last, what the escrow promises.            *)
(***************************************************************************)
EXTENDS DisputeResolution, CollectionsProofs

----------------------------------------------------------------------------
(* The escrow's own calls.                                                *)

\* A task that exists has a publisher, and one that was assigned an agent.
PartiesKnown ==
    \A t \in Tasks :
        /\ tasks[t].state # "NONE" => tasks[t].publisher \in Accounts
        /\ tasks[t].state \notin {"NONE", "OPEN"} => tasks[t].agent \in Accounts

\* Nobody's work starts in the future.
StartedInThePast ==
    \A t \in Tasks : tasks[t].startedAt # NotStarted => tasks[t].startedAt <= clock

\* No bond is recorded before the work is accepted.
NoBondYet ==
    \A t \in Tasks : tasks[t].state \in {"NONE", "OPEN", "ASSIGNED"} => tasks[t].bond = 0

EscrowIInv ==
    EscrowTypeOK /\ PartiesKnown /\ StartedInThePast /\ NoBondYet /\ EscrowSolvent

----------------------------------------------------------------------------
\* What is owed on each task is a natural amount.
LEMMA OwedType ==
  ASSUME tasks \in [Tasks -> TaskEscrow]
  PROVE  Owed \in [Tasks -> Nat] /\ Total(Owed) \in Nat
<1>1. ASSUME NEW t \in Tasks PROVE OwedOn(tasks[t]) \in Nat
  BY DEF OwedOn, TaskEscrow
<1>2. Owed \in [Tasks -> Nat]
  BY <1>1 DEF Owed
<1>. QED
  BY <1>2, TotalType, EscrowConstants

\* The accrued yield is a natural amount.
LEMMA YieldType ==
  ASSUME EscrowIInv, NEW t \in Tasks
  PROVE  PendingYield(t) \in Nat
<1>1. /\ tasks[t].budget \in Nat /\ RatePercent \in Nat /\ Year \in Nat \ {0}
      /\ clock \in Nat /\ tasks[t].startedAt \in Nat \cup {NotStarted}
  BY EscrowConstants DEF EscrowIInv, EscrowTypeOK, TaskEscrow
<1>2. CASE tasks[t].startedAt = NotStarted
  BY <1>2 DEF PendingYield
<1>3. CASE tasks[t].startedAt # NotStarted
  <2>1. tasks[t].startedAt \in Nat /\ tasks[t].startedAt <= clock
    BY <1>1, <1>3 DEF EscrowIInv, StartedInThePast
  <2>. DEFINE elapsed == clock - tasks[t].startedAt
              rate == tasks[t].budget * RatePercent
              year == 100 * Year
  <2>2. elapsed \in Nat /\ rate \in Nat /\ year \in Nat \ {0}
    BY <1>1, <2>1
  <2>3. PendingYield(t) = (rate * elapsed) \div year
    BY <1>3 DEF PendingYield
  <2>. HIDE DEF elapsed, rate, year
  <2>4. rate * elapsed \in Nat
    BY <2>2
  <2>. DEFINE x == rate * elapsed
  <2>5. x \in Nat /\ year \in Nat /\ year > 0
    BY <2>2, <2>4
  <2>. HIDE DEF x
  <2>6. x \div year \in Nat
    BY <2>5, Z3
  <2>. QED
    BY <2>3, <2>6 DEF x
<1>. QED
  BY <1>2, <1>3

\* When one task becomes r, solvency asks that the contract's tokens beyond the
\* reserve change by what is owed on that task.
LEMMA OneTaskMoves ==
  ASSUME EscrowIInv, NEW t \in Tasks, NEW r \in TaskEscrow,
         tasks' = [tasks EXCEPT ![t] = r], rewardReserve' \in Nat,
         held' - rewardReserve' = held - rewardReserve - OwedOn(tasks[t]) + OwedOn(r),
         held' \in Nat
  PROVE  tasks' \in [Tasks -> TaskEscrow] /\ EscrowSolvent'
<1>1. tasks \in [Tasks -> TaskEscrow] /\ held \in Nat /\ rewardReserve \in Nat
  BY DEF EscrowIInv, EscrowTypeOK
<1>2. tasks' \in [Tasks -> TaskEscrow]
  BY <1>1
<1>3. Owed \in [Tasks -> Nat] /\ Total(Owed) \in Nat
  BY <1>1, OwedType
<1>4. ASSUME NEW u \in Tasks PROVE OwedOn(tasks'[u]) \in Nat
  BY <1>2 DEF OwedOn, TaskEscrow
<1>5. Owed' = [u \in Tasks |-> OwedOn(tasks'[u])]
  BY DEF Owed, OwedOn
<1>6. Owed' \in [Tasks -> Nat]
  BY <1>4, <1>5
<1>7. /\ \A u \in Tasks \ {t} : Owed'[u] = Owed[u]
      /\ Owed[t] = OwedOn(tasks[t]) /\ Owed'[t] = OwedOn(r)
  BY <1>1, <1>5 DEF Owed
<1>. DEFINE f == Owed
            g == Owed'
<1>8. f \in [Tasks -> Nat] /\ g \in [Tasks -> Nat] /\ \A u \in Tasks \ {t} : g[u] = f[u]
  BY <1>3, <1>6, <1>7
<1>. HIDE DEF f, g
<1>9. Total(g) = Total(f) - f[t] + g[t]
  BY <1>8, TotalDiffersAtOnePlace, EscrowConstants
<1>10. Total(Owed') = Total(Owed) - OwedOn(tasks[t]) + OwedOn(r)
  BY <1>7, <1>9 DEF f, g
<1>11. OwedOn(tasks[t]) \in Nat /\ OwedOn(r) \in Nat
  BY <1>3, <1>6, <1>7
<1>12. held = rewardReserve + Total(Owed)
  BY DEF EscrowIInv, EscrowSolvent
<1>13. held' = rewardReserve' + Total(Owed')
  BY <1>1, <1>3, <1>10, <1>11, <1>12
<1>14. Total(Owed)' = Total(Owed')
  BY DEF Total, Coins
<1>. QED
  BY <1>2, <1>13, <1>14 DEF EscrowSolvent

\* The whole invariant survives when one task becomes r and time stands still.
LEMMA OneTaskKeeps ==
  ASSUME EscrowIInv, NEW t \in Tasks, NEW r \in TaskEscrow,
         tasks' = [tasks EXCEPT ![t] = r], rewardReserve' \in Nat, held' \in Nat,
         held' - rewardReserve' = held - rewardReserve - OwedOn(tasks[t]) + OwedOn(r),
         balance' \in [Accounts -> Nat], usedRequestRefs' \subseteq Refs, clock' = clock,
         r.publisher \in Accounts, r.state # "OPEN" => r.agent \in Accounts,
         r.startedAt # NotStarted => r.startedAt <= clock,
         r.state \in {"NONE", "OPEN", "ASSIGNED"} => r.bond = 0
  PROVE  EscrowIInv'
<1>1. tasks' \in [Tasks -> TaskEscrow] /\ EscrowSolvent'
  BY OneTaskMoves
<1>2. EscrowTypeOK'
  BY <1>1 DEF EscrowIInv, EscrowTypeOK
<1>3. \A u \in Tasks : tasks'[u] = IF u = t THEN r ELSE tasks[u]
  BY DEF EscrowIInv, EscrowTypeOK
<1>4. PartiesKnown'
  BY <1>3 DEF EscrowIInv, PartiesKnown
<1>5. StartedInThePast'
  BY <1>3 DEF EscrowIInv, StartedInThePast
<1>6. NoBondYet'
  BY <1>3 DEF EscrowIInv, NoBondYet
<1>. QED
  BY <1>1, <1>2, <1>4, <1>5, <1>6 DEF EscrowIInv

----------------------------------------------------------------------------
\* The initial state satisfies the invariant.
LEMMA EscrowInitKeeps == EscrowInit => EscrowIInv
<1>. SUFFICES ASSUME EscrowInit PROVE EscrowIInv
  OBVIOUS
<1>. USE DEF EscrowInit
<1>1. EmptyTask \in TaskEscrow
  BY DEF EmptyTask, TaskEscrow, TaskState
<1>2. EscrowTypeOK
  BY <1>1, EscrowConstants DEF EscrowTypeOK
<1>3. PartiesKnown
  BY DEF PartiesKnown, EmptyTask
<1>4. StartedInThePast
  BY DEF StartedInThePast, EmptyTask
<1>5. EscrowSolvent
  <2>1. \A t \in Tasks : OwedOn(tasks[t]) = 0
    BY DEF OwedOn, EmptyTask, Active
  <2>2. Owed \in [Tasks -> Nat] /\ \A t \in Tasks : Owed[t] = 0
    BY <2>1 DEF Owed
  <2>3. Total(Owed) = 0
    BY <2>2, TotalOfNothing
  <2>. QED
    BY <2>3 DEF EscrowSolvent
<1>6. NoBondYet
  BY DEF NoBondYet, EmptyTask
<1>. QED
  BY <1>2, <1>3, <1>4, <1>5, <1>6 DEF EscrowIInv

\* Money put into the reward pool stays apart from what is owed.
LEMMA FundRewardPoolKeeps ==
  ASSUME EscrowIInv, NEW amount \in Fundings, FundRewardPool(amount)
  PROVE  EscrowIInv'
<1>1. /\ amount \in Nat /\ Owner \in Accounts /\ balance \in [Accounts -> Nat]
      /\ held \in Nat /\ rewardReserve \in Nat
  BY EscrowConstants DEF EscrowIInv, EscrowTypeOK
<1>2. balance' \in [Accounts -> Nat]
  BY <1>1, DebitType DEF FundRewardPool
<1>3. tasks' = tasks /\ clock' = clock /\ usedRequestRefs' = usedRequestRefs
      /\ held' = held + amount /\ rewardReserve' = rewardReserve + amount
  BY DEF FundRewardPool
<1>4. EscrowTypeOK'
  BY <1>1, <1>2, <1>3 DEF EscrowIInv, EscrowTypeOK
<1>5. PartiesKnown' /\ StartedInThePast' /\ NoBondYet'
  BY <1>3 DEF EscrowIInv, PartiesKnown, StartedInThePast, NoBondYet
<1>6. Total(Owed) \in Nat /\ Total(Owed)' = Total(Owed)
  BY <1>3, OwedType DEF EscrowIInv, EscrowTypeOK, Owed
<1>7. EscrowSolvent'
  BY <1>1, <1>3, <1>6 DEF EscrowIInv, EscrowSolvent
<1>. QED
  BY <1>4, <1>5, <1>7 DEF EscrowIInv

\* Creating a task adds its budget to what is held and to what is owed.
LEMMA CreateTaskKeeps ==
  ASSUME EscrowIInv, NEW t \in Tasks, NEW ref \in Refs, NEW caller \in Accounts,
         NEW budget \in Budgets, NEW deadline \in 1..MaxTime,
         CreateTask(t, ref, caller, budget, deadline)
  PROVE  EscrowIInv'
<1>. DEFINE r == OpenTask(caller, ref, budget, deadline)
<1>1. /\ budget \in Nat /\ deadline \in Nat /\ held \in Nat /\ rewardReserve \in Nat
      /\ balance \in [Accounts -> Nat] /\ usedRequestRefs \subseteq Refs
  BY EscrowConstants DEF EscrowIInv, EscrowTypeOK
<1>2. r \in TaskEscrow /\ r.publisher \in Accounts /\ r.state = "OPEN"
      /\ r.startedAt = NotStarted /\ r.bond = 0
  BY <1>1 DEF OpenTask, TaskEscrow, TaskState
<1>3. OwedOn(r) = budget
  BY <1>1 DEF OpenTask, OwedOn, Active
<1>4. OwedOn(tasks[t]) = 0
  BY DEF CreateTask, OwedOn, Active
<1>5. balance' \in [Accounts -> Nat]
  BY <1>1, DebitType DEF CreateTask
<1>6. /\ tasks' = [tasks EXCEPT ![t] = r] /\ held' = held + budget
      /\ rewardReserve' = rewardReserve /\ clock' = clock
      /\ usedRequestRefs' = usedRequestRefs \cup {ref}
  BY DEF CreateTask
<1>. HIDE DEF r
<1>7. /\ held' \in Nat /\ rewardReserve' \in Nat
      /\ held' - rewardReserve' = held - rewardReserve - OwedOn(tasks[t]) + OwedOn(r)
  BY <1>1, <1>3, <1>4, <1>6
<1>. QED
  BY <1>1, <1>2, <1>5, <1>6, <1>7, OneTaskKeeps

\* Naming the agent moves no money.
LEMMA AssignAgentKeeps ==
  ASSUME EscrowIInv, NEW t \in Tasks, NEW caller \in Accounts, NEW agent \in Accounts,
         AssignAgent(t, caller, agent)
  PROVE  EscrowIInv'
<1>. DEFINE r == [tasks[t] EXCEPT !.agent = agent, !.state = "ASSIGNED"]
<1>1. /\ tasks[t] \in TaskEscrow /\ tasks[t].state = "OPEN" /\ tasks[t].publisher \in Accounts
      /\ held \in Nat /\ rewardReserve \in Nat
      /\ balance \in [Accounts -> Nat] /\ usedRequestRefs \subseteq Refs
      /\ tasks[t].startedAt # NotStarted => tasks[t].startedAt <= clock
      /\ tasks[t].bond = 0
  BY DEF EscrowIInv, EscrowTypeOK, PartiesKnown, StartedInThePast, NoBondYet, AssignAgent
<1>2. /\ r \in TaskEscrow /\ r.publisher = tasks[t].publisher /\ r.agent = agent
      /\ r.startedAt = tasks[t].startedAt /\ r.bond = 0 /\ OwedOn(r) = OwedOn(tasks[t])
  BY <1>1 DEF TaskEscrow, TaskState, OwedOn, Active
<1>3. /\ tasks' = [tasks EXCEPT ![t] = r] /\ held' = held
      /\ rewardReserve' = rewardReserve /\ clock' = clock
      /\ usedRequestRefs' = usedRequestRefs /\ balance' = balance
  BY DEF AssignAgent
<1>4. OwedOn(tasks[t]) \in Nat
  BY <1>1 DEF OwedOn, TaskEscrow
<1>. HIDE DEF r
<1>5. /\ held' \in Nat /\ rewardReserve' \in Nat
      /\ held' - rewardReserve' = held - rewardReserve - OwedOn(tasks[t]) + OwedOn(r)
  BY <1>1, <1>2, <1>3, <1>4
<1>. QED
  BY <1>1, <1>2, <1>3, <1>5, OneTaskKeeps

\* The bond is held as long as it is owed.
LEMMA AcceptTaskKeeps ==
  ASSUME EscrowIInv, NEW t \in Tasks, NEW caller \in Accounts, AcceptTask(t, caller)
  PROVE  EscrowIInv'
<1>. DEFINE bond == (tasks[t].budget * BondPercent) \div 100
            r == [tasks[t] EXCEPT !.bond = bond, !.startedAt = clock,
                                  !.state = "IN_PROGRESS"]
<1>1. /\ tasks[t] \in TaskEscrow /\ tasks[t].state = "ASSIGNED"
      /\ tasks[t].publisher \in Accounts /\ tasks[t].agent \in Accounts
      /\ held \in Nat /\ rewardReserve \in Nat /\ clock \in Nat
      /\ balance \in [Accounts -> Nat] /\ usedRequestRefs \subseteq Refs
      /\ tasks[t].bond = 0
  BY DEF EscrowIInv, EscrowTypeOK, PartiesKnown, NoBondYet, AcceptTask
<1>2. bond \in Nat
  <2>. DEFINE x == tasks[t].budget * BondPercent
  <2>1. x \in Nat
    BY <1>1, EscrowConstants DEF TaskEscrow
  <2>. HIDE DEF x
  <2>2. x \div 100 \in Nat
    BY <2>1, Z3
  <2>. QED
    BY <2>2 DEF x
<1>3. /\ tasks' = [tasks EXCEPT ![t] = r] /\ held' = held + bond
      /\ rewardReserve' = rewardReserve /\ clock' = clock
      /\ usedRequestRefs' = usedRequestRefs /\ balance' = Debit(balance, caller, bond)
      /\ balance[caller] >= bond
  BY DEF AcceptTask
<1>. HIDE DEF bond
<1>4. /\ r \in TaskEscrow /\ r.publisher = tasks[t].publisher /\ r.agent = tasks[t].agent
      /\ r.startedAt = clock /\ r.budget = tasks[t].budget /\ r.bond = bond
      /\ r.state = "IN_PROGRESS"
  BY <1>1, <1>2 DEF TaskEscrow, TaskState
<1>. HIDE DEF r
<1>5. OwedOn(r) = tasks[t].budget + bond /\ OwedOn(tasks[t]) = tasks[t].budget + tasks[t].bond
  BY <1>1, <1>4 DEF OwedOn, Active
<1>6. balance' \in [Accounts -> Nat]
  BY <1>1, <1>2, <1>3, DebitType
<1>7. tasks[t].budget \in Nat
  BY <1>1 DEF TaskEscrow
<1>8. /\ held' \in Nat /\ rewardReserve' \in Nat
      /\ held' - rewardReserve' = held - rewardReserve - OwedOn(tasks[t]) + OwedOn(r)
  BY <1>1, <1>2, <1>3, <1>5, <1>7
<1>9. r.startedAt <= clock /\ r.publisher \in Accounts /\ r.agent \in Accounts
  BY <1>1, <1>4
<1>10. usedRequestRefs' \subseteq Refs /\ clock' = clock
      /\ tasks' = [tasks EXCEPT ![t] = r] /\ r \in TaskEscrow
      /\ r.state \notin {"NONE", "OPEN", "ASSIGNED"}
  BY <1>1, <1>3, <1>4
<1>. QED
  BY <1>6, <1>8, <1>9, <1>10, OneTaskKeeps

\* Work under way changes hands: no money moves.
LEMMA WorkChangesHands ==
  ASSUME EscrowIInv, NEW t \in Tasks, NEW s \in {"SUBMITTED", "DISPUTED"},
         tasks[t].state \in {"IN_PROGRESS", "SUBMITTED"},
         tasks' = [tasks EXCEPT ![t] = [@ EXCEPT !.state = s]],
         UNCHANGED <<usedRequestRefs, rewardReserve, held, balance, clock>>
  PROVE  EscrowIInv'
<1>. DEFINE r == [tasks[t] EXCEPT !.state = s]
<1>1. /\ tasks[t] \in TaskEscrow /\ tasks[t].publisher \in Accounts
      /\ tasks[t].agent \in Accounts /\ held \in Nat /\ rewardReserve \in Nat
      /\ balance \in [Accounts -> Nat] /\ usedRequestRefs \subseteq Refs
      /\ tasks[t].startedAt # NotStarted => tasks[t].startedAt <= clock
  BY DEF EscrowIInv, EscrowTypeOK, PartiesKnown, StartedInThePast
<1>2. /\ r \in TaskEscrow /\ r.publisher \in Accounts /\ r.agent \in Accounts
      /\ r.startedAt # NotStarted => r.startedAt <= clock
      /\ r.state = s /\ OwedOn(r) = OwedOn(tasks[t])
  BY <1>1 DEF TaskEscrow, TaskState, OwedOn, Active
<1>3. OwedOn(tasks[t]) \in Nat
  BY <1>1 DEF OwedOn, TaskEscrow
<1>4. tasks' = [tasks EXCEPT ![t] = r]
  OBVIOUS
<1>. HIDE DEF r
<1>5. held' - rewardReserve' = held - rewardReserve - OwedOn(tasks[t]) + OwedOn(r)
  BY <1>1, <1>2, <1>3
<1>6. /\ held' \in Nat /\ rewardReserve' \in Nat /\ balance' \in [Accounts -> Nat]
      /\ usedRequestRefs' \subseteq Refs /\ clock' = clock
      /\ r.state \notin {"NONE", "OPEN", "ASSIGNED"}
  BY <1>1, <1>2
<1>. QED
  BY <1>2, <1>4, <1>5, <1>6, OneTaskKeeps

\* Delivering work moves no money.
LEMMA SubmitWorkKeeps ==
  ASSUME EscrowIInv, NEW t \in Tasks, NEW caller \in Accounts, SubmitWork(t, caller)
  PROVE  EscrowIInv'
<1>1. tasks[t].state = "IN_PROGRESS" /\ tasks' = [tasks EXCEPT ![t] = [@ EXCEPT !.state = "SUBMITTED"]]
      /\ UNCHANGED <<usedRequestRefs, rewardReserve, held, balance, clock>>
  BY DEF SubmitWork
<1>. QED
  BY <1>1, WorkChangesHands, "SUBMITTED" \in {"SUBMITTED", "DISPUTED"}

\* Entering a dispute moves no money.
LEMMA LockForDisputeKeeps ==
  ASSUME EscrowIInv, NEW t \in Tasks, NEW caller \in Accounts, LockForDispute(t, caller)
  PROVE  EscrowIInv'
<1>1. tasks[t].state \in {"IN_PROGRESS", "SUBMITTED"}
      /\ tasks' = [tasks EXCEPT ![t] = [@ EXCEPT !.state = "DISPUTED"]]
      /\ UNCHANGED <<usedRequestRefs, rewardReserve, held, balance, clock>>
  BY DEF LockForDispute
<1>. QED
  BY <1>1, WorkChangesHands

\* A settlement pays the task's budget and bond, which are no longer owed, and
\* takes the yield from the reserve.
LEMMA SettleKeeps ==
  ASSUME EscrowIInv, NEW t \in Tasks, NEW agentWins \in BOOLEAN,
         tasks[t].state \in Active, tasks[t].state # "OPEN", Settle(t, agentWins)
  PROVE  EscrowIInv'
<1>. DEFINE due == PendingYield(t)
            paid == IF due > rewardReserve THEN rewardReserve ELSE due
            recipient == IF agentWins THEN tasks[t].agent ELSE tasks[t].publisher
            bond == tasks[t].bond
            amount == tasks[t].budget + paid
            r == [tasks[t] EXCEPT !.state = StateAfter(t, agentWins)]
<1>1. /\ held >= amount + bond
      /\ rewardReserve' = rewardReserve - paid
      /\ tasks' = [tasks EXCEPT ![t] = r]
      /\ held' = held - amount - bond
      /\ balance' = Credit(Credit(balance, recipient, amount), Treasury, bond)
      /\ usedRequestRefs' = usedRequestRefs /\ clock' = clock
  BY DEF Settle, ReserveAfter
<1>2. /\ tasks[t] \in TaskEscrow /\ tasks[t].publisher \in Accounts
      /\ tasks[t].agent \in Accounts /\ held \in Nat /\ rewardReserve \in Nat
      /\ balance \in [Accounts -> Nat] /\ usedRequestRefs \subseteq Refs
      /\ tasks[t].startedAt # NotStarted => tasks[t].startedAt <= clock
  BY DEF EscrowIInv, EscrowTypeOK, PartiesKnown, StartedInThePast, Active
<1>3. /\ due \in Nat /\ tasks[t].budget \in Nat /\ bond \in Nat
      /\ recipient \in Accounts /\ Treasury \in Accounts
  BY <1>2, YieldType, EscrowConstants DEF TaskEscrow
<1>. HIDE DEF due, recipient
<1>4. paid \in Nat /\ paid <= rewardReserve /\ amount \in Nat
  BY <1>2, <1>3
<1>5. /\ r \in TaskEscrow /\ r.publisher = tasks[t].publisher /\ r.agent = tasks[t].agent
      /\ r.startedAt = tasks[t].startedAt /\ r.state \in {"SETTLED", "REFUNDED"}
  BY <1>2 DEF TaskEscrow, TaskState, StateAfter
<1>. HIDE DEF r
<1>6. OwedOn(tasks[t]) = tasks[t].budget + bond /\ OwedOn(r) = 0
  BY <1>5 DEF OwedOn, Active
<1>7. balance' \in [Accounts -> Nat]
  BY <1>1, <1>2, <1>3, <1>4, CreditType
<1>8. /\ held' \in Nat /\ rewardReserve' \in Nat
      /\ held' - rewardReserve' = held - rewardReserve - OwedOn(tasks[t]) + OwedOn(r)
  BY <1>1, <1>2, <1>3, <1>4, <1>6
<1>. HIDE DEF paid, amount
<1>9. /\ r.publisher \in Accounts /\ r.agent \in Accounts
      /\ r.startedAt # NotStarted => r.startedAt <= clock
      /\ usedRequestRefs' \subseteq Refs /\ r.state \notin {"NONE", "OPEN", "ASSIGNED"}
  BY <1>1, <1>2, <1>5
<1>. QED
  BY <1>1, <1>5, <1>7, <1>8, <1>9, OneTaskKeeps

\* Time passes and nothing else happens.
LEMMA TickKeeps ==
  ASSUME EscrowIInv, Tick
  PROVE  EscrowIInv'
<1>1. EscrowTypeOK' /\ PartiesKnown' /\ NoBondYet'
  BY DEF EscrowIInv, EscrowTypeOK, PartiesKnown, NoBondYet, Tick
<1>2. StartedInThePast'
  BY DEF EscrowIInv, EscrowTypeOK, TaskEscrow, StartedInThePast, Tick
<1>3. EscrowSolvent'
  BY DEF EscrowIInv, EscrowSolvent, Owed, Tick
<1>. QED
  BY <1>1, <1>2, <1>3 DEF EscrowIInv

----------------------------------------------------------------------------
\* Every call that involves no committee keeps the escrow's invariant.
LEMMA EscrowOnlyKeeps == EscrowIInv /\ EscrowOnly => EscrowIInv'
<1>. SUFFICES ASSUME EscrowIInv, EscrowOnly PROVE EscrowIInv'
  OBVIOUS
<1>1. ASSUME NEW t \in Tasks, NEW caller \in Accounts, AcceptWork(t, caller)
      PROVE  EscrowIInv'
  <2>1. tasks[t].state \in Active /\ tasks[t].state # "OPEN" /\ Settle(t, TRUE)
    BY <1>1 DEF AcceptWork, Active
  <2>. QED
    BY <2>1, SettleKeeps
<1>2. ASSUME NEW t \in Tasks, NEW caller \in Accounts, TimeoutTask(t, caller)
      PROVE  EscrowIInv'
  <2>1. tasks[t].state \in Active /\ tasks[t].state # "OPEN" /\ Settle(t, FALSE)
    BY <1>2 DEF TimeoutTask, Active
  <2>. QED
    BY <2>1, SettleKeeps
<1>. QED
  BY <1>1, <1>2, FundRewardPoolKeeps, CreateTaskKeeps, AssignAgentKeeps,
     AcceptTaskKeeps, SubmitWorkKeeps, TickKeeps DEF EscrowOnly

\* A ruling keeps the escrow's invariant.
LEMMA ResolveDisputeKeeps ==
  ASSUME EscrowIInv, NEW t \in Tasks, NEW agentWins \in BOOLEAN,
         ResolveDispute(t, agentWins)
  PROVE  EscrowIInv'
<1>1. tasks[t].state \in Active /\ tasks[t].state # "OPEN" /\ Settle(t, agentWins)
  BY DEF ResolveDispute, Active
<1>. QED
  BY <1>1, SettleKeeps

Finished == {"SETTLED", "REFUNDED"}

\* The escrow alone neither starts a dispute nor touches a task that is disputed
\* or finished.
LEMMA DisputesLeftAlone ==
  ASSUME EscrowIInv, EscrowOnly, NEW t \in Tasks
  PROVE  IF tasks[t].state \in {"DISPUTED"} \cup Finished
         THEN tasks'[t] = tasks[t] ELSE tasks'[t].state # "DISPUTED"
<1>1. tasks[t] \in TaskEscrow /\ tasks \in [Tasks -> TaskEscrow]
  BY DEF EscrowIInv, EscrowTypeOK
<1>. DEFINE Held == IF tasks[t].state \in {"DISPUTED"} \cup Finished
                    THEN tasks'[t] = tasks[t] ELSE tasks'[t].state # "DISPUTED"
<1>2. ASSUME NEW u \in Tasks, NEW r, tasks' = [tasks EXCEPT ![u] = r],
             tasks[u].state \notin {"DISPUTED"} \cup Finished, r.state # "DISPUTED"
      PROVE  Held
  BY <1>1, <1>2
<1>3. ASSUME tasks' = tasks PROVE Held
  BY <1>1, <1>3
<1>. HIDE DEF Held
<1>4. ASSUME \E amount \in Fundings : FundRewardPool(amount) PROVE Held
  BY <1>3, <1>4 DEF FundRewardPool
<1>5. ASSUME Tick PROVE Held
  BY <1>3, <1>5 DEF Tick
<1>6. ASSUME NEW u \in Tasks, NEW ref \in Refs, NEW caller \in Accounts,
             NEW budget \in Budgets, NEW deadline \in 1..MaxTime,
             CreateTask(u, ref, caller, budget, deadline)
      PROVE  Held
  <2>1. tasks[u].state \notin {"DISPUTED"} \cup Finished
        /\ tasks' = [tasks EXCEPT ![u] = OpenTask(caller, ref, budget, deadline)]
    BY <1>6 DEF CreateTask, Finished
  <2>2. OpenTask(caller, ref, budget, deadline).state # "DISPUTED"
    BY DEF OpenTask
  <2>. QED
    BY <1>2, <2>1, <2>2
<1>7. ASSUME NEW u \in Tasks, tasks[u] \in TaskEscrow, NEW caller \in Accounts,
             \/ \E agent \in Accounts : AssignAgent(u, caller, agent)
             \/ AcceptTask(u, caller)
             \/ SubmitWork(u, caller)
      PROVE  Held
  <2>1. ASSUME NEW agent \in Accounts, AssignAgent(u, caller, agent) PROVE Held
    <3>1. [tasks[u] EXCEPT !.agent = agent, !.state = "ASSIGNED"].state = "ASSIGNED"
      BY <1>7 DEF TaskEscrow
    <3>. QED
      BY <1>2, <2>1, <3>1 DEF AssignAgent, Finished
  <2>2. CASE AcceptTask(u, caller)
    <3>1. [tasks[u] EXCEPT !.bond = (tasks[u].budget * BondPercent) \div 100,
                           !.startedAt = clock, !.state = "IN_PROGRESS"].state = "IN_PROGRESS"
      BY <1>7 DEF TaskEscrow
    <3>. QED
      BY <1>2, <2>2, <3>1 DEF AcceptTask, Finished
  <2>3. CASE SubmitWork(u, caller)
    <3>1. [tasks[u] EXCEPT !.state = "SUBMITTED"].state = "SUBMITTED"
      BY <1>7 DEF TaskEscrow
    <3>. QED
      BY <1>2, <2>3, <3>1 DEF SubmitWork, Finished
  <2>. QED
    BY <1>7, <2>1, <2>2, <2>3
<1>8. ASSUME NEW u \in Tasks, tasks[u] \in TaskEscrow, NEW caller \in Accounts,
             AcceptWork(u, caller) \/ TimeoutTask(u, caller)
      PROVE  Held
  <2>1. PICK agentWins \in BOOLEAN :
             Settle(u, agentWins) /\ tasks[u].state \in {"IN_PROGRESS", "SUBMITTED"}
    BY <1>8 DEF AcceptWork, TimeoutTask
  <2>. DEFINE r == [tasks[u] EXCEPT !.state = StateAfter(u, agentWins)]
  <2>2. r.state # "DISPUTED"
    BY <1>8 DEF TaskEscrow, StateAfter
  <2>3. tasks' = [tasks EXCEPT ![u] = r]
    BY <2>1 DEF Settle
  <2>. QED
    BY <1>2, <2>1, <2>2, <2>3 DEF Finished
<1>9. Held
  <2>1. \A u \in Tasks : tasks[u] \in TaskEscrow
    BY <1>1
  <2>2. ASSUME NEW u \in Tasks, NEW caller \in Accounts, NEW agent \in Accounts,
               AssignAgent(u, caller, agent)
        PROVE  Held
    BY <1>7, <2>1, <2>2
  <2>3. ASSUME NEW u \in Tasks, NEW caller \in Accounts,
               AcceptTask(u, caller) \/ SubmitWork(u, caller)
        PROVE  Held
    BY <1>7, <2>1, <2>3
  <2>4. ASSUME NEW u \in Tasks, NEW caller \in Accounts,
               AcceptWork(u, caller) \/ TimeoutTask(u, caller)
        PROVE  Held
    BY <1>8, <2>1, <2>4
  <2>. QED
    BY <1>4, <1>5, <1>6, <2>2, <2>3, <2>4 DEF EscrowOnly
<1>. QED
  BY <1>9 DEF Held

----------------------------------------------------------------------------
(* The committee on its own.                                              *)

NoVotesWithoutCase ==
    \A t \in Tasks : ~Exists(t) =>
        cases[t].publisherVotes = 0 /\ cases[t].agentVotes = 0 /\ ~cases[t].resolved

CommitteeIInv == /\ CommitteeTypeOK
        /\ NoVotesWithoutCase
        /\ SeatsDistinctAndImpartial
        /\ TallyMatchesVoters
        /\ ResolvedByMajority

----------------------------------------------------------------------------
\* A committee is a finite set.
LEMMA MembersFinite == IsFiniteSet(MemberSet)
<1>1. IsFiniteSet(Ring)
  BY FS_Interval, CommitteeConstants DEF Ring
<1>. DEFINE f == [i \in Ring |-> Members[i]]
<1>2. f \in Surjection(Ring, MemberSet)
  BY DEF Surjection, MemberSet
<1>. QED
  BY <1>1, <1>2, FS_Surjection

\* Whatever the cursor, a step of it lands on a member of the ring.
LEMMA AtIsMember ==
  ASSUME NEW cursor \in Nat, NEW k \in Ring
  PROVE  At(cursor, k) \in MemberSet
<1>1. Len(Members) \in Nat \ {0}
  BY CommitteeConstants
<1>2. k \in Nat \ {0}
  BY <1>1 DEF Ring
<1>. DEFINE r == (cursor + k - 1) % Len(Members)
<1>3. cursor + k - 1 \in Int
  BY <1>2
<1>4. r \in 0..(Len(Members) - 1)
  BY <1>1, <1>3, Z3
<1>5. r + 1 \in Ring
  BY <1>1, <1>4 DEF Ring
<1>. QED
  BY <1>5 DEF At, MemberSet

\* Moving the cursor keeps it on the ring.
LEMMA AdvanceStays ==
  ASSUME NEW cursor \in Nat, NEW k \in Nat
  PROVE  Advance(cursor, k) \in 0..(Len(Members) - 1)
<1>1. Len(Members) \in Nat \ {0}
  BY CommitteeConstants
<1>2. cursor + k \in Int
  OBVIOUS
<1>. QED
  BY <1>1, <1>2, Z3 DEF Advance

\* Three different voters are three votes.
LEMMA ThreeVoters ==
  ASSUME NEW S, IsFiniteSet(S), NEW a \in S, NEW b \in S, NEW c \in S,
         a # b, a # c, b # c
  PROVE  Cardinality(S) >= 3
<1>. DEFINE S1 == {a}
           S2 == S1 \cup {b}
           S3 == S2 \cup {c}
<1>1. IsFiniteSet(S1) /\ Cardinality(S1) = 1 /\ b \notin S1
  BY FS_Singleton
<1>2. c \notin S2 /\ S3 \in SUBSET S
  OBVIOUS
<1>. HIDE DEF S1
<1>3. IsFiniteSet(S2) /\ Cardinality(S2) = 2
  BY <1>1, FS_AddElement
<1>. HIDE DEF S2
<1>4. IsFiniteSet(S3) /\ Cardinality(S3) = 3
  BY <1>2, <1>3, FS_AddElement
<1>. HIDE DEF S3
<1>5. Cardinality(S3) <= Cardinality(S) /\ Cardinality(S) \in Nat
  BY <1>2, FS_Subset, FS_CardinalityType
<1>. QED
  BY <1>4, <1>5

----------------------------------------------------------------------------
\* The initial state satisfies the invariant.
LEMMA InitCommitteeIInv == CommitteeInit => CommitteeIInv
<1>. SUFFICES ASSUME CommitteeInit PROVE CommitteeIInv
  OBVIOUS
<1>. USE DEF CommitteeInit
<1>1. NoCase \in CaseData
  BY DEF NoCase, FreshCase, EmptySeats, CaseData
<1>2. CommitteeTypeOK
  BY <1>1, CommitteeConstants DEF CommitteeTypeOK
<1>3. NoVotesWithoutCase
  BY DEF NoVotesWithoutCase, NoCase, FreshCase
<1>4. SeatsDistinctAndImpartial
  BY DEF SeatsDistinctAndImpartial, Exists, NoCase, FreshCase
<1>5. TallyMatchesVoters
  BY FS_EmptySet DEF TallyMatchesVoters, NoCase, FreshCase
<1>6. ResolvedByMajority
  BY DEF ResolvedByMajority, Ruled, NoCase, FreshCase
<1>. QED
  BY <1>2, <1>3, <1>4, <1>5, <1>6 DEF CommitteeIInv

\* Seating m in seat s changes that seat and nothing else of the case.
LEMMA SeatTakenType ==
  ASSUME NEW c \in CaseData, NEW s \in Seats, NEW m \in MemberSet
  PROVE  /\ SeatTaken(c, s, m) \in CaseData
         /\ SeatTaken(c, s, m).seats = [c.seats EXCEPT ![s] = m]
         /\ SeatTaken(c, s, m).escrow = c.escrow
         /\ SeatTaken(c, s, m).publisher = c.publisher
         /\ SeatTaken(c, s, m).agent = c.agent
         /\ SeatTaken(c, s, m).publisherVotes = c.publisherVotes
         /\ SeatTaken(c, s, m).agentVotes = c.agentVotes
         /\ SeatTaken(c, s, m).resolved = c.resolved
  BY DEF SeatTaken, CaseData, Seats

\* A recusal fills the seat with somebody who is no party and holds no seat.
LEMMA DeclareConflictKeeps ==
  ASSUME CommitteeIInv, NEW t \in Tasks, NEW m \in MemberSet, DeclareConflict(t, m)
  PROVE  CommitteeIInv'
<1>1. PICK s \in Seats, k \in Ring :
        /\ cases[t].seats[s] = m
        /\ Finds(cases[t], m, nextCursor, k)
        /\ cases' = [cases EXCEPT ![t] = SeatTaken(@, s, At(nextCursor, k))]
        /\ nextCursor' = Advance(nextCursor, k)
  BY DEF DeclareConflict
<1>2. /\ CommitteeTypeOK /\ nextCursor \in Nat /\ k \in Nat /\ cases[t] \in CaseData
      /\ Open(t) /\ authorized' = authorized /\ hasVoted' = hasVoted
  BY DEF CommitteeIInv, CommitteeTypeOK, DeclareConflict, Ring
<1>. DEFINE r == At(nextCursor, k)
            c == SeatTaken(cases[t], s, r)
<1>3. r \in MemberSet /\ Eligible(cases[t], m, r)
  BY <1>1, <1>2, AtIsMember DEF Finds
<1>4. /\ c \in CaseData /\ c.seats = [cases[t].seats EXCEPT ![s] = r]
      /\ c.escrow = cases[t].escrow /\ c.publisher = cases[t].publisher
      /\ c.agent = cases[t].agent /\ c.publisherVotes = cases[t].publisherVotes
      /\ c.agentVotes = cases[t].agentVotes /\ c.resolved = cases[t].resolved
  BY <1>2, <1>3, SeatTakenType
<1>. HIDE DEF c, r
<1>5. cases' = [cases EXCEPT ![t] = c]
  BY <1>1 DEF c, r
<1>6. \A u \in Tasks : cases'[u] = IF u = t THEN c ELSE cases[u]
  BY <1>2, <1>5 DEF CommitteeTypeOK
<1>7. CommitteeTypeOK'
  BY <1>1, <1>2, <1>4, <1>5, AdvanceStays DEF CommitteeTypeOK
<1>8. NoVotesWithoutCase'
  BY <1>4, <1>6 DEF CommitteeIInv, NoVotesWithoutCase, Exists
<1>9. SeatsDistinctAndImpartial'
  <2>. SUFFICES ASSUME NEW u \in Tasks, Exists(u)'
                PROVE  /\ \A q \in Seats : cases'[u].seats[q]
                             \in MemberSet \ {cases'[u].publisher, cases'[u].agent}
                       /\ \A p, q \in Seats :
                             cases'[u].seats[p] = cases'[u].seats[q] => p = q
    BY DEF SeatsDistinctAndImpartial
  <2>1. Exists(u)
    BY <1>4, <1>6 DEF Exists
  <2>2. /\ \A q \in Seats : cases[u].seats[q]
                \in MemberSet \ {cases[u].publisher, cases[u].agent}
        /\ \A p, q \in Seats : cases[u].seats[p] = cases[u].seats[q] => p = q
    BY <2>1 DEF CommitteeIInv, SeatsDistinctAndImpartial
  <2>3. CASE u # t
    BY <2>2, <2>3, <1>6
  <2>4. CASE u = t
    <3>1. cases[t].seats \in [Seats -> MemberSet \cup {NoOne}]
      BY <1>2 DEF CaseData
    <3>2. \A q \in Seats : c.seats[q] = IF q = s THEN r ELSE cases[t].seats[q]
      BY <1>4, <3>1
    <3>3. /\ r \notin {cases[t].publisher, cases[t].agent}
          /\ \A q \in Seats : cases[t].seats[q] # r
      BY <1>3 DEF Eligible
    <3>4. cases'[u] = c
      BY <2>4, <1>6
    <3>5. \A q \in Seats : c.seats[q] \in MemberSet \ {c.publisher, c.agent}
      BY <2>2, <2>4, <3>2, <3>3, <1>3, <1>4
    <3>6. \A p, q \in Seats : c.seats[p] = c.seats[q] => p = q
      BY <2>2, <2>4, <3>2, <3>3
    <3>. QED
      BY <3>4, <3>5, <3>6
  <2>. QED
    BY <2>3, <2>4
<1>10. TallyMatchesVoters'
  BY <1>2, <1>4, <1>6 DEF CommitteeIInv, TallyMatchesVoters
<1>11. ResolvedByMajority'
  BY <1>4, <1>6 DEF CommitteeIInv, ResolvedByMajority, Ruled
<1>. QED
  BY <1>7, <1>8, <1>9, <1>10, <1>11 DEF CommitteeIInv

\* A vote adds one voter and one vote, and closes the case on the second vote
\* of a side; before it neither side had two.
LEMMA CastVoteKeeps ==
  ASSUME CommitteeIInv, NEW t \in Tasks, NEW m \in MemberSet, NEW agentWins \in BOOLEAN,
         CastVote(t, m, agentWins)
  PROVE  CommitteeIInv'
<1>. DEFINE b == Tallied(cases[t], agentWins)
            c == [b EXCEPT !.resolved = Ruled(b)]
<1>1. /\ CommitteeTypeOK /\ cases[t] \in CaseData /\ Open(t)
      /\ m \notin hasVoted[t] /\ hasVoted[t] \in SUBSET MemberSet
      /\ hasVoted' = [hasVoted EXCEPT ![t] = @ \cup {m}]
      /\ cases' = [cases EXCEPT ![t] = c]
      /\ nextCursor' = nextCursor /\ authorized' = authorized
  BY DEF CommitteeIInv, CommitteeTypeOK, CastVote
<1>2. /\ cases[t].publisherVotes \in 0..1 /\ cases[t].agentVotes \in 0..1
      /\ ~cases[t].resolved
  BY <1>1 DEF CommitteeIInv, ResolvedByMajority, Ruled, Open, CaseData
<1>3. /\ b \in CaseData /\ b.seats = cases[t].seats /\ b.escrow = cases[t].escrow
      /\ b.publisher = cases[t].publisher /\ b.agent = cases[t].agent
      /\ b.publisherVotes + b.agentVotes
            = cases[t].publisherVotes + cases[t].agentVotes + 1
      /\ b.publisherVotes + b.agentVotes <= 3
  BY <1>1, <1>2 DEF Tallied, CaseData
<1>. HIDE DEF b
<1>4. /\ c \in CaseData /\ c.seats = b.seats /\ c.escrow = b.escrow
      /\ c.publisher = b.publisher /\ c.agent = b.agent
      /\ c.publisherVotes = b.publisherVotes /\ c.agentVotes = b.agentVotes
      /\ (c.resolved <=> Ruled(c))
  BY <1>3 DEF CaseData, Ruled
<1>. HIDE DEF c
<1>5. \A u \in Tasks : /\ cases'[u] = IF u = t THEN c ELSE cases[u]
                       /\ hasVoted'[u] = IF u = t THEN hasVoted[t] \cup {m}
                                                  ELSE hasVoted[u]
  BY <1>1 DEF CommitteeTypeOK
<1>6. CommitteeTypeOK'
  BY <1>1, <1>4 DEF CommitteeTypeOK
<1>7. NoVotesWithoutCase'
  BY <1>1, <1>3, <1>4, <1>5 DEF CommitteeIInv, NoVotesWithoutCase, Exists, Open
<1>8. SeatsDistinctAndImpartial'
  BY <1>3, <1>4, <1>5 DEF CommitteeIInv, SeatsDistinctAndImpartial, Exists
<1>9. TallyMatchesVoters'
  <2>1. IsFiniteSet(hasVoted[t])
    BY <1>1, MembersFinite, FS_Subset
  <2>2. Cardinality(hasVoted[t] \cup {m}) = Cardinality(hasVoted[t]) + 1
    BY <1>1, <2>1, FS_AddElement
  <2>3. cases[t].publisherVotes + cases[t].agentVotes = Cardinality(hasVoted[t])
    BY DEF CommitteeIInv, TallyMatchesVoters
  <2>. QED
    BY <1>3, <1>4, <1>5, <2>2, <2>3 DEF CommitteeIInv, TallyMatchesVoters
<1>10. ResolvedByMajority'
  BY <1>3, <1>4, <1>5 DEF CommitteeIInv, ResolvedByMajority, Ruled
<1>. QED
  BY <1>6, <1>7, <1>8, <1>9, <1>10 DEF CommitteeIInv

\* Opening a case seats three different members, none of them a party.
LEMMA OpenCaseKeeps ==
  ASSUME CommitteeIInv, NEW t \in Tasks, NEW e \in Escrows, NEW publisher \in Accounts,
         NEW agent \in Accounts, OpenCase(t, e, publisher, agent)
  PROVE  CommitteeIInv'
<1>. DEFINE c0 == FreshCase(e, publisher, agent)
<1>1. PICK k1 \in Ring, k2 \in Ring, k3 \in Ring :
        LET c1 == SeatTaken(c0, 1, At(nextCursor, k1))
            c2 == SeatTaken(c1, 2, At(nextCursor + k1, k2))
            c3 == SeatTaken(c2, 3, At(nextCursor + k1 + k2, k3))
        IN  /\ Finds(c0, NoOne, nextCursor, k1)
            /\ Finds(c1, NoOne, nextCursor + k1, k2)
            /\ Finds(c2, NoOne, nextCursor + k1 + k2, k3)
            /\ cases' = [cases EXCEPT ![t] = c3]
            /\ nextCursor' = Advance(nextCursor, k1 + k2 + k3)
  BY DEF OpenCase
<1>. DEFINE r1 == At(nextCursor, k1)
            r2 == At(nextCursor + k1, k2)
            r3 == At(nextCursor + k1 + k2, k3)
            c1 == SeatTaken(c0, 1, r1)
            c2 == SeatTaken(c1, 2, r2)
            c3 == SeatTaken(c2, 3, r3)
<1>2. /\ CommitteeTypeOK /\ nextCursor \in Nat /\ k1 \in Nat /\ k2 \in Nat /\ k3 \in Nat
      /\ ~Exists(t) /\ authorized' = authorized /\ hasVoted' = hasVoted
  BY DEF CommitteeIInv, CommitteeTypeOK, OpenCase, Ring
<1>3. r1 \in MemberSet /\ r2 \in MemberSet /\ r3 \in MemberSet
  <2>1. nextCursor + k1 \in Nat /\ nextCursor + k1 + k2 \in Nat
    BY <1>2
  <2>. QED
    BY <1>2, <2>1, AtIsMember
<1>4. /\ Eligible(c0, NoOne, r1) /\ Eligible(c1, NoOne, r2) /\ Eligible(c2, NoOne, r3)
      /\ cases' = [cases EXCEPT ![t] = c3]
      /\ nextCursor' = Advance(nextCursor, k1 + k2 + k3)
  BY <1>1 DEF Finds
<1>5. /\ c0 \in CaseData /\ c0.escrow = e /\ c0.publisher = publisher
      /\ c0.agent = agent /\ c0.seats = EmptySeats
      /\ c0.publisherVotes = 0 /\ c0.agentVotes = 0 /\ c0.resolved = FALSE
  BY DEF FreshCase, EmptySeats, CaseData
<1>6. 1 \in Seats /\ 2 \in Seats /\ 3 \in Seats /\ \A s \in Seats : s = 1 \/ s = 2 \/ s = 3
  BY DEF Seats
<1>. HIDE DEF c0, r1, r2, r3
<1>7. /\ c1 \in CaseData /\ c1.seats = [c0.seats EXCEPT ![1] = r1]
      /\ c1.escrow = e /\ c1.publisher = publisher /\ c1.agent = agent
      /\ c1.publisherVotes = 0 /\ c1.agentVotes = 0 /\ c1.resolved = FALSE
  BY <1>3, <1>5, <1>6, SeatTakenType
<1>. HIDE DEF c1
<1>8. /\ c2 \in CaseData /\ c2.seats = [c1.seats EXCEPT ![2] = r2]
      /\ c2.escrow = e /\ c2.publisher = publisher /\ c2.agent = agent
      /\ c2.publisherVotes = 0 /\ c2.agentVotes = 0 /\ c2.resolved = FALSE
  BY <1>3, <1>6, <1>7, SeatTakenType
<1>. HIDE DEF c2
<1>9. /\ c3 \in CaseData /\ c3.seats = [c2.seats EXCEPT ![3] = r3]
      /\ c3.escrow = e /\ c3.publisher = publisher /\ c3.agent = agent
      /\ c3.publisherVotes = 0 /\ c3.agentVotes = 0 /\ c3.resolved = FALSE
  BY <1>3, <1>6, <1>8, SeatTakenType
<1>. HIDE DEF c3
<1>10. /\ c1.seats[1] = r1
       /\ c2.seats[1] = r1 /\ c2.seats[2] = r2
       /\ c3.seats[1] = r1 /\ c3.seats[2] = r2 /\ c3.seats[3] = r3
  BY <1>5, <1>6, <1>7, <1>8, <1>9 DEF EmptySeats
<1>11. r1 # r2 /\ r1 # r3 /\ r2 # r3
  BY <1>4, <1>6, <1>10 DEF Eligible
<1>12. {r1, r2, r3} \cap {publisher, agent} = {}
  BY <1>4, <1>5, <1>7, <1>8 DEF Eligible
<1>13. \A u \in Tasks : cases'[u] = IF u = t THEN c3 ELSE cases[u]
  BY <1>2, <1>4 DEF CommitteeTypeOK
<1>14. CommitteeTypeOK'
  <2>1. k1 + k2 + k3 \in Nat
    BY <1>2
  <2>. QED
    BY <1>2, <1>4, <1>9, <2>1, AdvanceStays DEF CommitteeTypeOK
<1>15. NoVotesWithoutCase'
  BY <1>9, <1>13 DEF CommitteeIInv, NoVotesWithoutCase, Exists
<1>16. SeatsDistinctAndImpartial'
  <2>1. \A s \in Seats : c3.seats[s] \in MemberSet \ {c3.publisher, c3.agent}
    BY <1>3, <1>6, <1>9, <1>10, <1>12
  <2>2. \A q, s \in Seats : c3.seats[q] = c3.seats[s] => q = s
    BY <1>6, <1>10, <1>11
  <2>3. ASSUME NEW u \in Tasks, u # t, Exists(u)'
        PROVE  /\ \A s \in Seats : cases'[u].seats[s]
                    \in MemberSet \ {cases'[u].publisher, cases'[u].agent}
               /\ \A q, s \in Seats :
                    cases'[u].seats[q] = cases'[u].seats[s] => q = s
    BY <1>13, <2>3 DEF CommitteeIInv, SeatsDistinctAndImpartial, Exists
  <2>. QED
    BY <1>13, <2>1, <2>2, <2>3 DEF SeatsDistinctAndImpartial
<1>17. TallyMatchesVoters'
  BY <1>2, <1>9, <1>13 DEF CommitteeIInv, TallyMatchesVoters, NoVotesWithoutCase
<1>18. ResolvedByMajority'
  BY <1>9, <1>13 DEF CommitteeIInv, ResolvedByMajority, Ruled
<1>. QED
  BY <1>14, <1>15, <1>16, <1>17, <1>18 DEF CommitteeIInv

\* What openCase puts on record beside the seats.
LEMMA OpenedCase ==
  ASSUME CommitteeIInv, NEW t \in Tasks, NEW e \in Escrows, NEW publisher \in Accounts,
         NEW agent \in Accounts, OpenCase(t, e, publisher, agent)
  PROVE  /\ cases'[t].escrow = e /\ cases'[t].publisher = publisher
         /\ cases'[t].agent = agent /\ cases'[t].resolved = FALSE
         /\ \A u \in Tasks \ {t} : cases'[u] = cases[u]
<1>. DEFINE c0 == FreshCase(e, publisher, agent)
<1>1. PICK k1 \in Ring, k2 \in Ring, k3 \in Ring :
        cases' = [cases EXCEPT ![t] =
                    SeatTaken(SeatTaken(SeatTaken(c0, 1, At(nextCursor, k1)),
                                        2, At(nextCursor + k1, k2)),
                              3, At(nextCursor + k1 + k2, k3))]
  BY DEF OpenCase
<1>. DEFINE r1 == At(nextCursor, k1)
            r2 == At(nextCursor + k1, k2)
            r3 == At(nextCursor + k1 + k2, k3)
            c1 == SeatTaken(c0, 1, r1)
            c2 == SeatTaken(c1, 2, r2)
            c3 == SeatTaken(c2, 3, r3)
<1>2. /\ nextCursor \in Nat /\ nextCursor + k1 \in Nat /\ nextCursor + k1 + k2 \in Nat
  BY DEF CommitteeIInv, CommitteeTypeOK, Ring
<1>3. r1 \in MemberSet /\ r2 \in MemberSet /\ r3 \in MemberSet
  BY <1>2, AtIsMember
<1>4. 1 \in Seats /\ 2 \in Seats /\ 3 \in Seats
  BY DEF Seats
<1>5. /\ c0 \in CaseData /\ c0.escrow = e /\ c0.publisher = publisher
      /\ c0.agent = agent /\ c0.resolved = FALSE
  BY DEF FreshCase, EmptySeats, CaseData
<1>6. cases' = [cases EXCEPT ![t] = c3]
  BY <1>1
<1>. HIDE DEF c0, r1, r2, r3
<1>7. /\ c1 \in CaseData /\ c1.seats = [c0.seats EXCEPT ![1] = r1]
      /\ c1.escrow = e /\ c1.publisher = publisher
      /\ c1.agent = agent /\ c1.resolved = FALSE
  BY <1>3, <1>4, <1>5, SeatTakenType
<1>. HIDE DEF c1
<1>8. /\ c2 \in CaseData /\ c2.seats = [c1.seats EXCEPT ![2] = r2]
      /\ c2.escrow = e /\ c2.publisher = publisher
      /\ c2.agent = agent /\ c2.resolved = FALSE
  BY <1>3, <1>4, <1>7, SeatTakenType
<1>. HIDE DEF c2
<1>9. /\ c3 \in CaseData /\ c3.seats = [c2.seats EXCEPT ![3] = r3]
      /\ c3.escrow = e /\ c3.publisher = publisher
      /\ c3.agent = agent /\ c3.resolved = FALSE
  BY <1>3, <1>4, <1>8, SeatTakenType
<1>. HIDE DEF c3
<1>10. \A u \in Tasks : cases'[u] = IF u = t THEN c3 ELSE cases[u]
  BY <1>6 DEF CommitteeIInv, CommitteeTypeOK
<1>11. cases'[t] = c3
  BY <1>10
<1>. QED
  BY <1>9, <1>10, <1>11

\* Every step keeps the invariant.
LEMMA NextKeeps == CommitteeIInv /\ [CommitteeNext]_committeeVars => CommitteeIInv'
<1>. SUFFICES ASSUME CommitteeIInv, [CommitteeNext]_committeeVars PROVE CommitteeIInv'
  OBVIOUS
<1>1. ASSUME NEW e \in Escrows, NEW on \in BOOLEAN, SetAuthorizedEscrow(e, on)
      PROVE  CommitteeIInv'
  BY <1>1 DEF SetAuthorizedEscrow, CommitteeIInv, CommitteeTypeOK, NoVotesWithoutCase, Exists,
              SeatsDistinctAndImpartial, TallyMatchesVoters, ResolvedByMajority, Ruled
<1>2. CASE UNCHANGED committeeVars
  BY <1>2 DEF committeeVars, CommitteeIInv, CommitteeTypeOK, NoVotesWithoutCase, Exists,
              SeatsDistinctAndImpartial, TallyMatchesVoters, ResolvedByMajority, Ruled
<1>. QED
  BY <1>1, <1>2, OpenCaseKeeps, DeclareConflictKeeps, CastVoteKeeps DEF CommitteeNext

\* While a case is open each side has at most one vote, so at most two members
\* have voted and the three seats cannot all be theirs.
LEMMA OpenSeatNotVoted == CommitteeIInv => RulingStaysReachable
<1>. SUFFICES ASSUME CommitteeIInv, NEW t \in Tasks, Open(t),
                     \A s \in Seats : cases[t].seats[s] \in hasVoted[t]
              PROVE  FALSE
  BY DEF RulingStaysReachable
<1>1. cases[t] \in CaseData /\ hasVoted[t] \in SUBSET MemberSet
  BY DEF CommitteeIInv, CommitteeTypeOK
<1>2. cases[t].publisherVotes <= 1 /\ cases[t].agentVotes <= 1
  BY <1>1 DEF CommitteeIInv, ResolvedByMajority, Ruled, Open, CaseData
<1>3. Cardinality(hasVoted[t]) <= 2
  BY <1>1, <1>2 DEF CommitteeIInv, TallyMatchesVoters, CaseData
<1>4. IsFiniteSet(hasVoted[t])
  BY <1>1, MembersFinite, FS_Subset
<1>5. 1 \in Seats /\ 2 \in Seats /\ 3 \in Seats
  BY DEF Seats
<1>6. /\ cases[t].seats[1] # cases[t].seats[2]
      /\ cases[t].seats[1] # cases[t].seats[3]
      /\ cases[t].seats[2] # cases[t].seats[3]
  BY <1>5 DEF CommitteeIInv, SeatsDistinctAndImpartial, Open
<1>7. Cardinality(hasVoted[t]) >= 3
  BY <1>4, <1>5, <1>6, ThreeVoters
<1>. QED
  BY <1>3, <1>4, <1>7, FS_CardinalityType

----------------------------------------------------------------------------
\* The inductive invariant holds in every reachable state.
THEOREM Invariance == CommitteeSpec => []CommitteeIInv
<1>. QED
  BY InitCommitteeIInv, NextKeeps, PTL DEF CommitteeSpec

\* The committee's state stays in its declared domains.
THEOREM TypeCorrect == CommitteeSpec => []CommitteeTypeOK
<1>1. CommitteeIInv => CommitteeTypeOK
  BY DEF CommitteeIInv
<1>. QED
  BY Invariance, <1>1, PTL

\* Whatever the votes and recusals, an open or closed case is judged by three
\* different members, none of them a party.
THEOREM SeatsImpartial == CommitteeSpec => []SeatsDistinctAndImpartial
<1>1. CommitteeIInv => SeatsDistinctAndImpartial
  BY DEF CommitteeIInv
<1>. QED
  BY Invariance, <1>1, PTL

\* Every vote is counted once and a case closes on two votes of one side.
THEOREM VotesDecide == CommitteeSpec => [](TallyMatchesVoters /\ ResolvedByMajority)
<1>1. CommitteeIInv => TallyMatchesVoters /\ ResolvedByMajority
  BY DEF CommitteeIInv
<1>. QED
  BY Invariance, <1>1, PTL

\* An open case always has a seated member who can still vote.
THEOREM RulingReachable == CommitteeSpec => []RulingStaysReachable
<1>. QED
  BY Invariance, OpenSeatNotVoted, PTL

----------------------------------------------------------------------------
(* The two of them.                                                       *)

\* A case exists only for a task that is or was in dispute, and names its parties.
CaseNamesParties ==
    \A t \in Tasks : Exists(t) =>
        /\ cases[t].publisher = tasks[t].publisher
        /\ cases[t].agent = tasks[t].agent
        /\ tasks[t].state \in {"DISPUTED"} \cup Finished

Tied == DisputedIffCaseOpen /\ RulingIsApplied /\ CaseNamesParties

DisputeIInv == EscrowIInv /\ CommitteeIInv /\ Tied

----------------------------------------------------------------------------
\* No case and no task exists at deployment.
LEMMA InitDisputeIInv == Init => DisputeIInv
<1>. SUFFICES ASSUME Init PROVE DisputeIInv
  OBVIOUS
<1>1. EscrowIInv /\ CommitteeIInv
  BY EscrowInitKeeps, InitCommitteeIInv DEF Init
<1>2. Tied
  BY DEF Init, EscrowInit, CommitteeInit, EmptyTask, NoCase, FreshCase, Exists, Open, Tied,
         DisputedIffCaseOpen, RulingIsApplied, CaseNamesParties
<1>. QED
  BY <1>1, <1>2 DEF DisputeIInv

\* A call that does not concern the committee leaves every disputed or closed
\* task alone and starts no dispute.
LEMMA EscrowStepKeeps ==
  ASSUME DisputeIInv, EscrowOnly, UNCHANGED committeeVars
  PROVE  DisputeIInv'
<1>1. EscrowIInv'
  BY EscrowOnlyKeeps DEF DisputeIInv
<1>2. CommitteeIInv'
  BY NextKeeps DEF DisputeIInv
<1>3. cases' = cases
  BY DEF committeeVars
<1>4. Tied'
  <2>. SUFFICES ASSUME NEW t \in Tasks
                PROVE  /\ tasks'[t].state = "DISPUTED" <=> Open(t)'
                       /\ cases'[t].resolved =>
                            /\ tasks'[t].state = IF cases'[t].agentVotes = 2
                                                 THEN "SETTLED" ELSE "REFUNDED"
                            /\ cases'[t].agentVotes + cases'[t].publisherVotes <= 3
                       /\ Exists(t)' =>
                            /\ cases'[t].publisher = tasks'[t].publisher
                            /\ cases'[t].agent = tasks'[t].agent
                            /\ tasks'[t].state \in {"DISPUTED"} \cup Finished
    BY DEF Tied, DisputedIffCaseOpen, RulingIsApplied, CaseNamesParties
  <2>1. CASE tasks[t].state \in {"DISPUTED"} \cup Finished
    <3>1. tasks'[t] = tasks[t]
      BY <2>1, DisputesLeftAlone DEF DisputeIInv
    <3>. QED
      BY <1>3, <3>1 DEF DisputeIInv, Tied, DisputedIffCaseOpen, RulingIsApplied,
                        CaseNamesParties, Open, Exists
  <2>2. CASE tasks[t].state \notin {"DISPUTED"} \cup Finished
    <3>1. tasks'[t].state # "DISPUTED"
      BY <2>2, DisputesLeftAlone DEF DisputeIInv
    <3>2. ~Exists(t) /\ ~Open(t)
      BY <2>2 DEF DisputeIInv, Tied, CaseNamesParties, Open
    <3>3. ~cases[t].resolved
      BY <3>2 DEF DisputeIInv, CommitteeIInv, NoVotesWithoutCase
    <3>. QED
      BY <1>3, <3>1, <3>2, <3>3 DEF Open, Exists
  <2>. QED
    BY <2>1, <2>2
<1>. QED
  BY <1>1, <1>2, <1>4 DEF DisputeIInv

\* Authorizations and recusals change neither a task nor what a case has ruled.
LEMMA CommitteeStepKeeps ==
  ASSUME DisputeIInv, CommitteeOnly, UNCHANGED escrowVars
  PROVE  DisputeIInv'
<1>1. EscrowIInv'
  BY DEF DisputeIInv, EscrowIInv, EscrowTypeOK, PartiesKnown, StartedInThePast, NoBondYet,
         EscrowSolvent, Owed, escrowVars
<1>2. CommitteeNext
  BY EscrowIsDeployed DEF CommitteeOnly, CommitteeNext
<1>3. CommitteeIInv'
  BY <1>2, NextKeeps DEF DisputeIInv
<1>4. tasks' = tasks
  BY DEF escrowVars
<1>5. ASSUME NEW t \in Tasks
      PROVE  /\ cases'[t].escrow = cases[t].escrow
             /\ cases'[t].publisher = cases[t].publisher
             /\ cases'[t].agent = cases[t].agent
             /\ cases'[t].agentVotes = cases[t].agentVotes
             /\ cases'[t].publisherVotes = cases[t].publisherVotes
             /\ cases'[t].resolved = cases[t].resolved
  <2>1. CASE \E isAuthorized \in BOOLEAN : SetAuthorizedEscrow(Escrow, isAuthorized)
    BY <2>1 DEF SetAuthorizedEscrow
  <2>2. ASSUME NEW u \in Tasks, NEW m \in MemberSet, DeclareConflict(u, m)
        PROVE  /\ cases'[t].escrow = cases[t].escrow
               /\ cases'[t].publisher = cases[t].publisher
               /\ cases'[t].agent = cases[t].agent
               /\ cases'[t].agentVotes = cases[t].agentVotes
               /\ cases'[t].publisherVotes = cases[t].publisherVotes
               /\ cases'[t].resolved = cases[t].resolved
    <3>1. PICK s \in Seats, k \in Ring :
            cases' = [cases EXCEPT ![u] = SeatTaken(@, s, At(nextCursor, k))]
      BY <2>2 DEF DeclareConflict
    <3>2. cases \in [Tasks -> CaseData] /\ nextCursor \in Nat /\ cases[u] \in CaseData
      BY DEF DisputeIInv, CommitteeIInv, CommitteeTypeOK
    <3>. DEFINE r == At(nextCursor, k)
                c == SeatTaken(cases[u], s, r)
    <3>3. r \in MemberSet
      BY <3>2, AtIsMember
    <3>. HIDE DEF r
    <3>4. /\ c \in CaseData /\ c.seats = [cases[u].seats EXCEPT ![s] = r]
          /\ c.escrow = cases[u].escrow
          /\ c.publisher = cases[u].publisher /\ c.agent = cases[u].agent
          /\ c.agentVotes = cases[u].agentVotes
          /\ c.publisherVotes = cases[u].publisherVotes
          /\ c.resolved = cases[u].resolved
      BY <3>2, <3>3, SeatTakenType
    <3>. HIDE DEF c
    <3>5. cases' = [cases EXCEPT ![u] = c]
      BY <3>1 DEF c, r
    <3>. QED
      BY <3>2, <3>4, <3>5
  <2>. QED
    BY <2>1, <2>2 DEF CommitteeOnly
<1>6. Tied'
  BY <1>4, <1>5 DEF DisputeIInv, Tied, DisputedIffCaseOpen, RulingIsApplied,
                    CaseNamesParties, Open, Exists
<1>. QED
  BY <1>1, <1>3, <1>6 DEF DisputeIInv

\* Opening a dispute creates the case of a task that had none.
LEMMA OpenDisputeKeeps ==
  ASSUME DisputeIInv, NEW t \in Tasks, NEW caller \in Accounts, OpenDispute(t, caller)
  PROVE  DisputeIInv'
<1>. DEFINE r == [tasks[t] EXCEPT !.state = "DISPUTED"]
<1>1. EscrowIInv'
  BY LockForDisputeKeeps DEF DisputeIInv, OpenDispute
<1>2. /\ tasks[t] \in TaskEscrow /\ tasks \in [Tasks -> TaskEscrow]
      /\ tasks[t].publisher \in Accounts /\ tasks[t].agent \in Accounts
      /\ cases \in [Tasks -> CaseData] /\ tasks' = [tasks EXCEPT ![t] = r]
  BY DEF DisputeIInv, EscrowIInv, EscrowTypeOK, PartiesKnown, OpenDispute, LockForDispute,
         CommitteeIInv, CommitteeTypeOK
<1>3. OpenCase(t, Escrow, tasks[t].publisher, tasks[t].agent)
  BY DEF OpenDispute
<1>4. CommitteeIInv'
  <2>1. CommitteeNext
    BY <1>2, <1>3, EscrowIsDeployed DEF CommitteeNext
  <2>. QED
    BY <2>1, NextKeeps DEF DisputeIInv
<1>5. r.state = "DISPUTED" /\ r.publisher = tasks[t].publisher /\ r.agent = tasks[t].agent
  BY <1>2 DEF TaskEscrow
<1>. HIDE DEF r
<1>6. /\ cases'[t].escrow = Escrow /\ cases'[t].publisher = tasks[t].publisher
      /\ cases'[t].agent = tasks[t].agent /\ cases'[t].resolved = FALSE
      /\ \A u \in Tasks \ {t} : cases'[u] = cases[u]
  <2>1. CommitteeIInv /\ Escrow \in Escrows
    BY EscrowIsDeployed DEF DisputeIInv
  <2>. QED
    BY <1>2, <1>3, <2>1, OpenedCase
<1>7. \A u \in Tasks : tasks'[u] = IF u = t THEN r ELSE tasks[u]
  BY <1>2
<1>8. Escrow # NoOne
  BY CommitteeConstants, EscrowIsDeployed
<1>9. Tied'
  BY <1>5, <1>6, <1>7, <1>8 DEF DisputeIInv, Tied, DisputedIffCaseOpen, RulingIsApplied,
                              CaseNamesParties, Open, Exists
<1>. QED
  BY <1>1, <1>4, <1>9 DEF DisputeIInv

\* A vote that rules settles the task for the side it names; any other vote
\* leaves the task in dispute.
LEMMA VoteKeeps ==
  ASSUME DisputeIInv, NEW t \in Tasks, NEW m \in MemberSet, NEW agentWins \in BOOLEAN,
         Vote(t, m, agentWins)
  PROVE  DisputeIInv'
<1>. DEFINE b == Tallied(cases[t], agentWins)
            c == [b EXCEPT !.resolved = Ruled(b)]
<1>1. /\ CastVote(t, m, agentWins) /\ cases \in [Tasks -> CaseData]
      /\ cases[t] \in CaseData /\ Open(t) /\ cases' = [cases EXCEPT ![t] = c]
      /\ tasks \in [Tasks -> TaskEscrow] /\ tasks[t] \in TaskEscrow
  BY DEF Vote, CastVote, DisputeIInv, CommitteeIInv, CommitteeTypeOK, EscrowIInv, EscrowTypeOK
<1>2. CommitteeIInv'
  <2>1. CommitteeNext
    BY <1>1 DEF CommitteeNext
  <2>. QED
    BY <2>1, NextKeeps DEF DisputeIInv
<1>3. /\ cases[t].publisherVotes \in 0..1 /\ cases[t].agentVotes \in 0..1
      /\ ~cases[t].resolved
  BY <1>1 DEF DisputeIInv, CommitteeIInv, ResolvedByMajority, Ruled, Open, CaseData
<1>4. /\ b \in CaseData /\ b.seats = cases[t].seats /\ b.escrow = cases[t].escrow
      /\ b.publisher = cases[t].publisher /\ b.agent = cases[t].agent
      /\ b.publisherVotes + b.agentVotes
            = cases[t].publisherVotes + cases[t].agentVotes + 1
      /\ b.publisherVotes + b.agentVotes <= 3
  <2>1. cases[t] \in CaseData
    BY <1>1
  <2>. QED
    BY <1>3, <2>1 DEF Tallied, CaseData
<1>. HIDE DEF b
<1>5. /\ c.escrow = cases[t].escrow /\ c.publisher = cases[t].publisher
      /\ c.agent = cases[t].agent /\ c.agentVotes + c.publisherVotes <= 3
      /\ c.resolved \in BOOLEAN
  BY <1>4 DEF CaseData, Ruled
<1>. HIDE DEF c
<1>6. \A u \in Tasks : cases'[u] = IF u = t THEN c ELSE cases[u]
  BY <1>1
<1>7. tasks[t].state = "DISPUTED" /\ Exists(t)
  BY <1>1 DEF DisputeIInv, Tied, DisputedIffCaseOpen, Open
<1>8. CASE c.resolved
  <2>. DEFINE wins == c.agentVotes = 2
              r == [tasks[t] EXCEPT !.state = IF wins THEN "SETTLED" ELSE "REFUNDED"]
  <2>1. ResolveDispute(t, wins) /\ wins \in BOOLEAN
    BY <1>6, <1>8 DEF Vote
  <2>2. EscrowIInv'
    BY <2>1, ResolveDisputeKeeps DEF DisputeIInv
  <2>3. tasks' = [tasks EXCEPT ![t] = r]
    BY <2>1 DEF ResolveDispute, Settle, StateAfter
  <2>4. /\ r.publisher = tasks[t].publisher /\ r.agent = tasks[t].agent
        /\ r.state = IF c.agentVotes = 2 THEN "SETTLED" ELSE "REFUNDED"
    BY <1>1 DEF TaskEscrow
  <2>. HIDE DEF r
  <2>5. \A u \in Tasks : tasks'[u] = IF u = t THEN r ELSE tasks[u]
    BY <1>1, <2>3
  <2>6. Tied'
    <3>. SUFFICES ASSUME NEW u \in Tasks
                  PROVE  /\ tasks'[u].state = "DISPUTED" <=> Open(u)'
                         /\ cases'[u].resolved =>
                              /\ tasks'[u].state = IF cases'[u].agentVotes = 2
                                                   THEN "SETTLED" ELSE "REFUNDED"
                              /\ cases'[u].agentVotes + cases'[u].publisherVotes <= 3
                         /\ Exists(u)' =>
                              /\ cases'[u].publisher = tasks'[u].publisher
                              /\ cases'[u].agent = tasks'[u].agent
                              /\ tasks'[u].state \in {"DISPUTED"} \cup Finished
      BY DEF Tied, DisputedIffCaseOpen, RulingIsApplied, CaseNamesParties
    <3>1. CASE u = t
      <4>1. cases'[u] = c /\ tasks'[u] = r /\ r.state \in Finished
        BY <1>6, <2>4, <2>5, <3>1 DEF Finished
      <4>2. cases[t].publisher = tasks[t].publisher /\ cases[t].agent = tasks[t].agent
        BY <1>7 DEF DisputeIInv, Tied, CaseNamesParties
      <4>3. r.state # "DISPUTED" /\ ~Open(u)'
        BY <1>8, <2>4, <4>1 DEF Open
      <4>. QED
        BY <1>5, <2>4, <4>1, <4>2, <4>3
    <3>2. CASE u # t
      BY <1>6, <2>5, <3>2 DEF DisputeIInv, Tied, DisputedIffCaseOpen, RulingIsApplied,
                              CaseNamesParties, Open, Exists
    <3>. QED
      BY <3>1, <3>2
  <2>. QED
    BY <1>2, <2>2, <2>6 DEF DisputeIInv
<1>9. CASE ~c.resolved
  <2>1. UNCHANGED escrowVars
    BY <1>6, <1>9 DEF Vote
  <2>2. EscrowIInv'
    BY <2>1 DEF DisputeIInv, EscrowIInv, EscrowTypeOK, PartiesKnown, StartedInThePast,
                NoBondYet, EscrowSolvent, Owed, escrowVars
  <2>3. tasks' = tasks
    BY <2>1 DEF escrowVars
  <2>4. Tied'
    BY <1>1, <1>5, <1>6, <1>7, <1>9, <2>3 DEF DisputeIInv, Tied, DisputedIffCaseOpen,
       RulingIsApplied, CaseNamesParties, Open, Exists
  <2>. QED
    BY <1>2, <2>2, <2>4 DEF DisputeIInv
<1>. QED
  BY <1>8, <1>9

\* Every step of the two contracts keeps the invariant.
LEMMA DisputeStepKeeps == DisputeIInv /\ [Next]_vars => DisputeIInv'
<1>. SUFFICES ASSUME DisputeIInv, [Next]_vars PROVE DisputeIInv'
  OBVIOUS
<1>1. CASE UNCHANGED vars
  BY <1>1 DEF vars, DisputeIInv, EscrowIInv, EscrowTypeOK, PartiesKnown, StartedInThePast,
     NoBondYet, EscrowSolvent, Owed, CommitteeIInv, CommitteeTypeOK, NoVotesWithoutCase,
     SeatsDistinctAndImpartial, TallyMatchesVoters, ResolvedByMajority, Ruled, Tied,
     DisputedIffCaseOpen, RulingIsApplied, CaseNamesParties, Open, Exists
<1>. QED
  BY <1>1, EscrowStepKeeps, CommitteeStepKeeps, OpenDisputeKeeps, VoteKeeps DEF Next

----------------------------------------------------------------------------
\* The inductive invariant holds in every reachable state.
THEOREM DisputeInvariance == Spec => []DisputeIInv
<1>. QED
  BY InitDisputeIInv, DisputeStepKeeps, PTL DEF Spec

\* Both contracts keep their state in its declared domains.
THEOREM DisputeTypeCorrect == Spec => []TypeOK
<1>1. DisputeIInv => TypeOK
  BY DEF DisputeIInv, EscrowIInv, CommitteeIInv, TypeOK
<1>. QED
  BY DisputeInvariance, <1>1, PTL

\* The V2 escrow holds exactly what it owes plus the reward reserve
\* (AgentMarketEscrow.sol:64-159), for any tasks, accounts and rates.
THEOREM Solvent == Spec => []EscrowSolvent
<1>1. DisputeIInv => EscrowSolvent
  BY DEF DisputeIInv, EscrowIInv
<1>. QED
  BY DisputeInvariance, <1>1, PTL

\* The escrow and the committee agree on which tasks are in dispute.
THEOREM ContractsAgree == Spec => []DisputedIffCaseOpen
<1>1. DisputeIInv => DisputedIffCaseOpen
  BY DEF DisputeIInv, Tied
<1>. QED
  BY DisputeInvariance, <1>1, PTL

\* The escrow pays the side the votes name.
THEOREM RulingsAreApplied == Spec => []RulingIsApplied
<1>1. DisputeIInv => RulingIsApplied
  BY DEF DisputeIInv, Tied
<1>. QED
  BY DisputeInvariance, <1>1, PTL

\* Nobody judges his own task.
THEOREM Impartial == Spec => []NobodyJudgesOwnTask
<1>1. DisputeIInv => NobodyJudgesOwnTask
  <2>. SUFFICES ASSUME DisputeIInv, NEW t \in Tasks, tasks[t].state = "DISPUTED"
                PROVE  /\ \A s \in Seats : cases[t].seats[s]
                            \notin {tasks[t].publisher, tasks[t].agent}
                       /\ \A r, s \in Seats :
                            cases[t].seats[r] = cases[t].seats[s] => r = s
    BY DEF NobodyJudgesOwnTask
  <2>1. Exists(t)
    BY DEF DisputeIInv, Tied, DisputedIffCaseOpen, Open
  <2>2. cases[t].publisher = tasks[t].publisher /\ cases[t].agent = tasks[t].agent
    BY <2>1 DEF DisputeIInv, Tied, CaseNamesParties
  <2>. QED
    BY <2>1, <2>2 DEF DisputeIInv, CommitteeIInv, SeatsDistinctAndImpartial
<1>. QED
  BY DisputeInvariance, <1>1, PTL

\* A disputed task has a seated member who can still vote, and the settlement
\* his vote may trigger is covered.
THEOREM NoDisputeIsStuck == Spec => []DisputeCanBeEnded
<1>1. DisputeIInv => DisputeCanBeEnded
  <2>. SUFFICES ASSUME DisputeIInv, NEW t \in Tasks, tasks[t].state = "DISPUTED"
                PROVE  /\ \E s \in Seats : cases[t].seats[s] \notin hasVoted[t]
                       /\ held >= tasks[t].budget + tasks[t].bond + rewardReserve
    BY DEF DisputeCanBeEnded
  <2>1. \E s \in Seats : cases[t].seats[s] \notin hasVoted[t]
    BY OpenSeatNotVoted DEF DisputeIInv, Tied, DisputedIffCaseOpen, RulingStaysReachable
  <2>2. tasks \in [Tasks -> TaskEscrow] /\ rewardReserve \in Nat /\ tasks[t] \in TaskEscrow
    BY DEF DisputeIInv, EscrowIInv, EscrowTypeOK
  <2>3. Owed \in [Tasks -> Nat] /\ Total(Owed) \in Nat
    BY <2>2, OwedType
  <2>4. Owed[t] <= Total(Owed)
    BY <2>3, TotalBounds, EscrowConstants
  <2>5. Owed[t] = tasks[t].budget + tasks[t].bond
    BY DEF Owed, OwedOn, Active
  <2>6. held = rewardReserve + Total(Owed)
    BY DEF DisputeIInv, EscrowIInv, EscrowSolvent
  <2>7. tasks[t].budget \in Nat /\ tasks[t].bond \in Nat
    BY <2>2 DEF TaskEscrow
  <2>. QED
    BY <2>1, <2>2, <2>3, <2>4, <2>5, <2>6, <2>7
<1>. QED
  BY DisputeInvariance, <1>1, PTL

----------------------------------------------------------------------------
\* The refinement of EscrowPromise.
StageOf(state) ==
    CASE state = "NONE" -> "none"
      [] state = "SETTLED" -> "agents"
      [] state = "REFUNDED" -> "publisher"
      [] OTHER -> "pledged"

Stages == [t \in Tasks |-> StageOf(tasks[t].state)]
Pledges == [t \in Tasks |-> tasks[t].budget]

BudgetsBacked == held \in Nat /\ held >= Promise!Backing(Stages, Pledges)

\* Bonds and the reward reserve only add to what backs the budgets.
LEMMA PledgesBacked == EscrowIInv => BudgetsBacked
<1>. SUFFICES ASSUME EscrowIInv PROVE BudgetsBacked
  OBVIOUS
<1>. DEFINE f == [t \in Tasks |-> IF Stages[t] = "pledged" THEN Pledges[t] ELSE 0]
<1>1. /\ tasks \in [Tasks -> TaskEscrow] /\ held \in Nat /\ rewardReserve \in Nat
      /\ held = rewardReserve + Total(Owed)
  BY DEF EscrowIInv, EscrowTypeOK, EscrowSolvent
<1>2. Owed \in [Tasks -> Nat] /\ Total(Owed) \in Nat
  BY <1>1, OwedType
<1>3. ASSUME NEW t \in Tasks PROVE f[t] \in Nat /\ f[t] <= Owed[t]
  <2>. DEFINE task == tasks[t]
  <2>1. task.state \in TaskState /\ task.budget \in Nat /\ task.bond \in Nat
    BY <1>1 DEF TaskEscrow
  <2>2. /\ f[t] = IF StageOf(task.state) = "pledged" THEN task.budget ELSE 0
        /\ Owed[t] = IF task.state \in Active THEN task.budget + task.bond ELSE 0
    BY DEF Stages, Pledges, Owed, OwedOn
  <2>. HIDE DEF f, task
  <2>. QED
    BY <2>1, <2>2 DEF StageOf, TaskState, Active
<1>4. f \in [Tasks -> Nat]
  BY <1>3
<1>5. Promise!Backing(Stages, Pledges) = Total(f)
  BY DEF Promise!Backing
<1>. HIDE DEF f
<1>6. Total(f) <= Total(Owed) /\ Total(f) \in Nat
  BY <1>2, <1>3, <1>4, TotalMonotone, TotalType, EscrowConstants
<1>. QED
  BY <1>1, <1>2, <1>5, <1>6 DEF BudgetsBacked

LEMMA PledgesBackedNext == EscrowIInv' => BudgetsBacked'
  BY PledgesBacked, PTL

\* A call that moves no budget is a move of other tokens.
LEMMA OtherTokensMove ==
  ASSUME EscrowIInv', \A t \in Tasks : /\ StageOf(tasks'[t].state) = StageOf(tasks[t].state)
                                       /\ tasks'[t].budget = tasks[t].budget
  PROVE  Promise!MoveOtherTokens
<1>1. Stages' = Stages /\ Pledges' = Pledges
  BY DEF Stages, Pledges, StageOf
<1>2. held' \in Nat /\ held' >= Promise!Backing(Stages, Pledges)
  BY <1>1, PledgesBackedNext DEF BudgetsBacked, Promise!Backing, Total, Coins
<1>. QED
  BY <1>1, <1>2 DEF Promise!MoveOtherTokens, Stages, Pledges, StageOf

\* A task that moves within its stage moves no budget.
LEMMA StageKept ==
  ASSUME EscrowIInv, EscrowIInv', NEW t \in Tasks, NEW r, tasks' = [tasks EXCEPT ![t] = r],
         StageOf(r.state) = StageOf(tasks[t].state), r.budget = tasks[t].budget
  PROVE  Promise!Next
<1>1. \A u \in Tasks : /\ StageOf(tasks'[u].state) = StageOf(tasks[u].state)
                       /\ tasks'[u].budget = tasks[u].budget
  BY DEF EscrowIInv, EscrowTypeOK
<1>. QED
  BY <1>1, OtherTokensMove DEF Promise!Next

\* A settlement releases the budget to the side it names.
LEMMA BudgetReleased ==
  ASSUME EscrowIInv, EscrowIInv', NEW t \in Tasks, NEW agentWins \in BOOLEAN,
         tasks[t].state \in Active, Settle(t, agentWins)
  PROVE  Promise!Next
<1>. DEFINE side == IF agentWins THEN "agents" ELSE "publisher"
            r == [tasks[t] EXCEPT !.state = StateAfter(t, agentWins)]
<1>1. tasks \in [Tasks -> TaskEscrow] /\ tasks' = [tasks EXCEPT ![t] = r]
  BY DEF EscrowIInv, EscrowTypeOK, Settle
<1>2. StageOf(tasks[t].state) = "pledged" /\ StageOf(r.state) = side /\ r.budget = tasks[t].budget
  BY <1>1 DEF StageOf, Active, StateAfter, TaskEscrow
<1>3. side \in Promise!Released
  BY DEF Promise!Released
<1>. HIDE DEF r, side
<1>4. Stages[t] = "pledged" /\ Stages' = [Stages EXCEPT ![t] = side] /\ Pledges' = Pledges
  BY <1>1, <1>2 DEF Stages, Pledges, StageOf
<1>5. held' \in Nat /\ held' >= Promise!Backing(Stages', Pledges)
  BY <1>4, PledgesBackedNext DEF BudgetsBacked, Promise!Backing, Total, Coins
<1>6. Promise!Release(t, side)
  BY <1>4, <1>5 DEF Promise!Release, Stages, Pledges, StageOf
<1>. QED
  BY <1>3, <1>6 DEF Promise!Next

LEMMA BudgetPledged ==
  ASSUME EscrowIInv, NEW t \in Tasks, NEW ref \in Refs, NEW caller \in Accounts, NEW budget \in Budgets,
         NEW deadline, CreateTask(t, ref, caller, budget, deadline)
  PROVE  Promise!Next
<1>. DEFINE r == OpenTask(caller, ref, budget, deadline)
<1>1. /\ tasks \in [Tasks -> TaskEscrow] /\ tasks[t].state = "NONE" /\ budget \in Nat \ {0}
      /\ tasks' = [tasks EXCEPT ![t] = r] /\ held' = held + budget
  BY EscrowConstants DEF EscrowIInv, EscrowTypeOK, CreateTask
<1>2. StageOf("NONE") = "none" /\ StageOf(r.state) = "pledged" /\ r.budget = budget
  BY DEF StageOf, OpenTask
<1>. HIDE DEF r
<1>3. /\ Stages[t] = "none" /\ Stages' = [Stages EXCEPT ![t] = "pledged"]
      /\ Pledges'[t] = budget /\ Pledges' = [Pledges EXCEPT ![t] = budget]
  BY <1>1, <1>2 DEF Stages, Pledges, StageOf
<1>4. Promise!Pledge(t)
  BY <1>1, <1>3 DEF Promise!Pledge, Stages, Pledges, StageOf
<1>. QED
  BY <1>4 DEF Promise!Next

\* Every call of the escrow alone is a step of the promise.
LEMMA EscrowKeepsPromise ==
  ASSUME EscrowIInv, EscrowIInv', EscrowOnly
  PROVE  Promise!Next
<1>0. tasks \in [Tasks -> TaskEscrow]
  BY DEF EscrowIInv, EscrowTypeOK
<1>1. ASSUME tasks' = tasks PROVE Promise!Next
  BY <1>1, OtherTokensMove DEF Promise!Next
<1>2. ASSUME NEW t \in Tasks, NEW caller \in Accounts, NEW agent \in Accounts, AssignAgent(t, caller, agent)
      PROVE  Promise!Next
  <2>. DEFINE r == [tasks[t] EXCEPT !.agent = agent, !.state = "ASSIGNED"]
  <2>1. /\ tasks' = [tasks EXCEPT ![t] = r] /\ r.budget = tasks[t].budget
        /\ r.state = "ASSIGNED" /\ tasks[t].state = "OPEN"
    BY <1>0, <1>2 DEF AssignAgent, TaskEscrow
  <2>2. StageOf(r.state) = StageOf(tasks[t].state)
    BY <2>1 DEF StageOf
  <2>. HIDE DEF r
  <2>. QED
    BY <2>1, <2>2, StageKept
<1>3. ASSUME NEW t \in Tasks, NEW caller \in Accounts, AcceptTask(t, caller)
      PROVE  Promise!Next
  <2>. DEFINE bond == (tasks[t].budget * BondPercent) \div 100
              r == [tasks[t] EXCEPT !.bond = bond, !.startedAt = clock, !.state = "IN_PROGRESS"]
  <2>1. tasks' = [tasks EXCEPT ![t] = r] /\ tasks[t].state = "ASSIGNED"
    BY <1>3 DEF AcceptTask
  <2>. HIDE DEF bond
  <2>2. r.budget = tasks[t].budget /\ r.state = "IN_PROGRESS"
    BY <1>0 DEF TaskEscrow
  <2>3. StageOf(r.state) = StageOf(tasks[t].state)
    BY <2>1, <2>2 DEF StageOf
  <2>. HIDE DEF r
  <2>. QED
    BY <2>1, <2>2, <2>3, StageKept
<1>4. ASSUME NEW t \in Tasks, NEW caller \in Accounts, SubmitWork(t, caller)
      PROVE  Promise!Next
  <2>. DEFINE r == [tasks[t] EXCEPT !.state = "SUBMITTED"]
  <2>1. /\ tasks' = [tasks EXCEPT ![t] = r] /\ r.budget = tasks[t].budget
        /\ r.state = "SUBMITTED" /\ tasks[t].state = "IN_PROGRESS"
    BY <1>0, <1>4 DEF SubmitWork, TaskEscrow
  <2>2. StageOf(r.state) = StageOf(tasks[t].state)
    BY <2>1 DEF StageOf
  <2>. HIDE DEF r
  <2>. QED
    BY <2>1, <2>2, StageKept
<1>5. ASSUME NEW t \in Tasks, NEW caller \in Accounts, AcceptWork(t, caller) \/ TimeoutTask(t, caller)
      PROVE  Promise!Next
  <2>1. PICK agentWins \in BOOLEAN : Settle(t, agentWins)
    BY <1>5 DEF AcceptWork, TimeoutTask
  <2>2. tasks[t].state \in Active
    BY <1>5 DEF AcceptWork, TimeoutTask, Active
  <2>. QED
    BY <2>1, <2>2, BudgetReleased
<1>6. ASSUME NEW amount \in Fundings, FundRewardPool(amount) PROVE Promise!Next
  BY <1>1, <1>6 DEF FundRewardPool
<1>7. ASSUME Tick PROVE Promise!Next
  BY <1>1, <1>7 DEF Tick
<1>. QED
  BY <1>2, <1>3, <1>4, <1>5, <1>6, <1>7, BudgetPledged DEF EscrowOnly

\* Every step of the two contracts is a step of the promise.
LEMMA CallsKeepPromise ==
  DisputeIInv /\ DisputeIInv' /\ [Next]_vars => [Promise!Next]_(Promise!promiseVars)
<1>. SUFFICES ASSUME DisputeIInv, DisputeIInv', [Next]_vars PROVE Promise!Next
  OBVIOUS
<1>0. EscrowIInv /\ EscrowIInv' /\ tasks \in [Tasks -> TaskEscrow]
  BY DEF DisputeIInv, EscrowIInv, EscrowTypeOK
<1>1. ASSUME tasks' = tasks PROVE Promise!Next
  BY <1>0, <1>1, OtherTokensMove DEF Promise!Next
<1>2. ASSUME NEW t \in Tasks, NEW caller \in Accounts, OpenDispute(t, caller)
      PROVE  Promise!Next
  <2>. DEFINE r == [tasks[t] EXCEPT !.state = "DISPUTED"]
  <2>1. /\ tasks' = [tasks EXCEPT ![t] = r] /\ r.budget = tasks[t].budget
        /\ r.state = "DISPUTED" /\ tasks[t].state \in {"IN_PROGRESS", "SUBMITTED"}
    BY <1>0, <1>2 DEF OpenDispute, LockForDispute, TaskEscrow
  <2>2. StageOf(r.state) = StageOf(tasks[t].state)
    BY <2>1 DEF StageOf
  <2>. HIDE DEF r
  <2>. QED
    BY <1>0, <2>1, <2>2, StageKept
<1>3. ASSUME NEW t \in Tasks, NEW m \in MemberSet, NEW agentWins \in BOOLEAN, Vote(t, m, agentWins)
      PROVE  Promise!Next
  <2>1. CASE cases'[t].resolved
    <3>. DEFINE wins == cases'[t].agentVotes = 2
    <3>1. Settle(t, wins) /\ tasks[t].state \in Active /\ wins \in BOOLEAN
      BY <1>3, <2>1 DEF Vote, ResolveDispute, Active
    <3>. HIDE DEF wins
    <3>. QED
      BY <1>0, <3>1, BudgetReleased
  <2>2. CASE ~cases'[t].resolved
    BY <1>1, <1>3, <2>2 DEF Vote, escrowVars
  <2>. QED
    BY <2>1, <2>2
<1>4. CASE EscrowOnly
  BY <1>0, <1>4, EscrowKeepsPromise
<1>5. CASE CommitteeOnly /\ UNCHANGED escrowVars
  BY <1>1, <1>5 DEF escrowVars
<1>6. CASE UNCHANGED vars
  BY <1>1, <1>6 DEF vars
<1>. QED
  BY <1>2, <1>3, <1>4, <1>5, <1>6 DEF Next

\* The V2 escrow with its committee implements EscrowPromise: each budget is
\* pledged once, backed while pledged, and released once.
THEOREM EscrowRefinesPromise == Spec => KeepsPromise
<1>1. Init => Promise!Init
  BY DEF Init, EscrowInit, Promise!Init, EmptyTask
<1>. QED
  BY <1>1, DisputeInvariance, CallsKeepPromise, PTL DEF Spec, KeepsPromise, Promise!Spec
=============================================================================
