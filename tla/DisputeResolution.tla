------------------------- MODULE DisputeResolution -------------------------
(***************************************************************************)
(* The V2 settlement boundary as deployed: AgentMarketEscrow with          *)
(* ArbitrationCommittee as its committee.  The two contracts call each     *)
(* other inside one transaction, so a dispute is opened in both or in      *)
(* neither, and the vote that forms a ruling settles the task in the same  *)
(* step or does not happen.                                                *)
(***************************************************************************)
EXTENDS AgentMarketEscrow, ArbitrationCommittee

CONSTANTS Escrow    \* the escrow contract's address, the only one deployed

ASSUME EscrowIsDeployed == Escrows = {Escrow}

vars == <<tasks, usedRequestRefs, rewardReserve, held, balance, clock,
          nextCursor, authorized, cases, hasVoted>>

Init == EscrowInit /\ CommitteeInit

----------------------------------------------------------------------------
\* openDispute calls committee.openCase; either both happen or the call reverts.
OpenDispute(t, caller) ==
    /\ LockForDispute(t, caller)
    /\ OpenCase(t, Escrow, tasks[t].publisher, tasks[t].agent)

\* Mutant: the callback is given the loser.
VoteForLoser(t, m, agentWins) ==
    /\ CastVote(t, m, agentWins)
    /\ IF cases'[t].resolved
       THEN ResolveDispute(t, cases'[t].publisherVotes = 2)
       ELSE UNCHANGED escrowVars

\* castVote calls resolveDispute back when the vote forms a ruling.
Vote(t, m, agentWins) ==
    /\ CastVote(t, m, agentWins)
    /\ IF cases'[t].resolved
       THEN ResolveDispute(t, cases'[t].agentVotes = 2)
       ELSE UNCHANGED escrowVars

\* Calls that concern the committee alone.
CommitteeOnly ==
    \/ \E isAuthorized \in BOOLEAN : SetAuthorizedEscrow(Escrow, isAuthorized)
    \/ \E t \in Tasks, m \in MemberSet : DeclareConflict(t, m)

Next ==
    \/ EscrowOnly /\ UNCHANGED committeeVars
    \/ CommitteeOnly /\ UNCHANGED escrowVars
    \/ \E t \in Tasks, caller \in Accounts : OpenDispute(t, caller)
    \/ \E t \in Tasks, m \in MemberSet, agentWins \in BOOLEAN : Vote(t, m, agentWins)

Spec == Init /\ [][Next]_vars

----------------------------------------------------------------------------
\* Both contracts keep their state in its declared domains.
TypeOK == EscrowTypeOK /\ CommitteeTypeOK

\* The two contracts never disagree on whether a task is in dispute, however
\* votes, recusals, timeouts, acceptances and authorization changes interleave
\* (AgentMarketEscrow.sol:127-141, ArbitrationCommittee.sol:56-88).
DisputedIffCaseOpen ==
    \A t \in Tasks : tasks[t].state = "DISPUTED" <=> Open(t)

\* The escrow paid the side the committee's votes name (139-145): a closed case
\* has exactly one side with two votes, and its task is settled for that side.
RulingIsApplied ==
    \A t \in Tasks : cases[t].resolved =>
        /\ tasks[t].state = IF cases[t].agentVotes = 2 THEN "SETTLED" ELSE "REFUNDED"
        /\ cases[t].agentVotes + cases[t].publisherVotes <= 3

\* Nobody judges his own task, after any number of recusals: the three seats of
\* a case are held by different members and none by the publisher or the agent
\* whom the escrow will pay.
NobodyJudgesOwnTask ==
    \A t \in Tasks : tasks[t].state = "DISPUTED" =>
        /\ \A s \in Seats : cases[t].seats[s] \notin {tasks[t].publisher, tasks[t].agent}
        /\ \A r, s \in Seats : cases[t].seats[r] = cases[t].seats[s] => r = s

\* A dispute never locks the money for good: some seated member can still vote,
\* and the settlement a ruling triggers is covered, so that vote cannot revert.
DisputeCanBeEnded ==
    \A t \in Tasks : tasks[t].state = "DISPUTED" =>
        /\ \E s \in Seats : cases[t].seats[s] \notin hasVoted[t]
        /\ held >= tasks[t].budget + tasks[t].bond + rewardReserve

\* What the escrow promises about budgets, seen through its own state.
Promise == INSTANCE EscrowPromise WITH
    stage <- [t \in Tasks |->
                CASE tasks[t].state = "NONE" -> "none"
                  [] tasks[t].state = "SETTLED" -> "agents"
                  [] tasks[t].state = "REFUNDED" -> "publisher"
                  [] OTHER -> "pledged"],
    pledged <- [t \in Tasks |-> tasks[t].budget],
    pool <- held

\* The escrow with its committee implements EscrowPromise: each budget is backed
\* while pledged and released exactly once.
KeepsPromise == Promise!Spec
=============================================================================
