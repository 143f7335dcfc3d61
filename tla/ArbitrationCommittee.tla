----------------------- MODULE ArbitrationCommittee ------------------------
(***************************************************************************)
(* packages/contracts/contracts/ArbitrationCommittee.sol: three seats per  *)
(* case drawn from a ring of at least five members, a member may recuse    *)
(* himself and is replaced from the ring, two votes for one side rule.     *)
(* cases is keyed by the task identifier only.                             *)
(***************************************************************************)
EXTENDS Integers, FiniteSets, Sequences, SettlementParties

CONSTANTS
    Members,        \* the members array, fixed by the constructor
    Escrows         \* contracts the owner may authorize to call openCase

Seats == 1..3
Ring == 1..Len(Members)
MemberSet == {Members[i] : i \in Ring}

\* The constructor's check (206-213), and the bytes of an address: nobody has
\* the zero address.
ASSUME CommitteeConstants ==
    /\ Members \in Seq(MemberSet) /\ Len(Members) >= 5
    /\ \A i, j \in Ring : Members[i] = Members[j] => i = j
    /\ NoOne \notin MemberSet \cup Escrows

VARIABLES
    nextCursor,     \* nextCursor, kept modulo the number of members
    authorized,     \* authorizedEscrows, as the set of authorized ones
    cases,          \* mapping cases
    hasVoted        \* mapping hasVoted, as the set of voters of each task

committeeVars == <<nextCursor, authorized, cases, hasVoted>>

CaseData ==
    [escrow : Escrows \cup {NoOne}, publisher : Accounts \cup {NoOne},
     agent : Accounts \cup {NoOne}, seats : [Seats -> MemberSet \cup {NoOne}],
     publisherVotes : 0..2, agentVotes : 0..2, resolved : BOOLEAN]

EmptySeats == [s \in Seats |-> NoOne]

FreshCase(escrow, publisher, agent) ==
    [escrow |-> escrow, publisher |-> publisher, agent |-> agent,
     seats |-> EmptySeats, publisherVotes |-> 0, agentVotes |-> 0,
     resolved |-> FALSE]

NoCase == FreshCase(NoOne, NoOne, NoOne)

CommitteeInit ==
    /\ nextCursor = 0
    /\ authorized = {}
    /\ cases = [t \in Tasks |-> NoCase]
    /\ hasVoted = [t \in Tasks |-> {}]

----------------------------------------------------------------------------
Exists(t) == cases[t].escrow # NoOne
Open(t) == Exists(t) /\ ~cases[t].resolved

\* _nextEligible: walk the ring once from the cursor to the first member who is
\* no party, is not excluded and holds no seat yet.  "steps" is how often the
\* cursor moved; the call reverts when a whole round finds nobody.
At(cursor, steps) == Members[((cursor + steps - 1) % Len(Members)) + 1]

\* Mutant: a member may be seated twice.
EligibleThoughSeated(c, excluded, m) == m \notin {c.publisher, c.agent, excluded}

\* Mutant: the agent may judge his own task.
EligibleThoughAgent(c, excluded, m) ==
    m \notin {c.publisher, excluded} /\ \A s \in Seats : c.seats[s] # m

Eligible(c, excluded, m) ==
    m \notin {c.publisher, c.agent, excluded} /\ \A s \in Seats : c.seats[s] # m

Finds(c, excluded, cursor, steps) ==
    /\ Eligible(c, excluded, At(cursor, steps))
    /\ \A k \in 1..(steps - 1) : ~Eligible(c, excluded, At(cursor, k))

Advance(cursor, steps) == (cursor + steps) % Len(Members)

SeatTaken(c, s, m) == [c EXCEPT !.seats[s] = m]

SetAuthorizedEscrow(e, isAuthorized) ==
    /\ authorized' = IF isAuthorized THEN authorized \cup {e} ELSE authorized \ {e}
    /\ UNCHANGED <<nextCursor, cases, hasVoted>>

\* Fills the three seats one after the other, each search starting where the
\* one before it stopped.
OpenCase(t, e, publisher, agent) ==
    /\ e \in authorized
    /\ ~Exists(t)
    /\ \E k1, k2, k3 \in Ring :
         LET c0 == FreshCase(e, publisher, agent)
             c1 == SeatTaken(c0, 1, At(nextCursor, k1))
             c2 == SeatTaken(c1, 2, At(nextCursor + k1, k2))
             c3 == SeatTaken(c2, 3, At(nextCursor + k1 + k2, k3))
         IN  /\ Finds(c0, NoOne, nextCursor, k1)
             /\ Finds(c1, NoOne, nextCursor + k1, k2)
             /\ Finds(c2, NoOne, nextCursor + k1 + k2, k3)
             /\ cases' = [cases EXCEPT ![t] = c3]
             /\ nextCursor' = Advance(nextCursor, k1 + k2 + k3)
    /\ UNCHANGED <<authorized, hasVoted>>

\* Recusal: nothing is asked of, or done to, a vote the member already cast.
DeclareConflict(t, m) ==
    /\ Open(t)
    /\ \E s \in Seats, k \in Ring :
         /\ cases[t].seats[s] = m
         /\ Finds(cases[t], m, nextCursor, k)
         /\ cases' = [cases EXCEPT ![t] = SeatTaken(@, s, At(nextCursor, k))]
         /\ nextCursor' = Advance(nextCursor, k)
    /\ UNCHANGED <<authorized, hasVoted>>

Tallied(c, agentWins) ==
    IF agentWins THEN [c EXCEPT !.agentVotes = @ + 1]
                 ELSE [c EXCEPT !.publisherVotes = @ + 1]

Ruled(c) == c.agentVotes = 2 \/ c.publisherVotes = 2

\* A vote that forms a ruling also calls resolveDispute on the escrow, with the
\* winner AgentWins(Tallied(...)); DisputeResolution conjoins that call.
CastVote(t, m, agentWins) ==
    /\ Open(t)
    /\ \E s \in Seats : cases[t].seats[s] = m
    /\ m \notin hasVoted[t]
    /\ hasVoted' = [hasVoted EXCEPT ![t] = @ \cup {m}]
    /\ LET c == Tallied(cases[t], agentWins)
       IN  cases' = [cases EXCEPT ![t] = [c EXCEPT !.resolved = Ruled(c)]]
    /\ UNCHANGED <<nextCursor, authorized>>

CommitteeNext ==
    \/ \E e \in Escrows, isAuthorized \in BOOLEAN : SetAuthorizedEscrow(e, isAuthorized)
    \/ \E t \in Tasks, e \in Escrows, publisher \in Accounts, agent \in Accounts :
            OpenCase(t, e, publisher, agent)
    \/ \E t \in Tasks, m \in MemberSet : DeclareConflict(t, m)
    \/ \E t \in Tasks, m \in MemberSet, agentWins \in BOOLEAN :
            CastVote(t, m, agentWins)

CommitteeSpec == CommitteeInit /\ [][CommitteeNext]_committeeVars

----------------------------------------------------------------------------
\* The committee's state stays in its declared domains (10-25 of the contract).
CommitteeTypeOK ==
    /\ nextCursor \in 0..(Len(Members) - 1)
    /\ authorized \subseteq Escrows
    /\ cases \in [Tasks -> CaseData]
    /\ hasVoted \in [Tasks -> SUBSET MemberSet]

\* One seat each: however many recusals and replacements a case has seen, its
\* three seats are held by three different members, none of them a party.
SeatsDistinctAndImpartial ==
    \A t \in Tasks : Exists(t) =>
        /\ \A s \in Seats : cases[t].seats[s]
                \in MemberSet \ {cases[t].publisher, cases[t].agent}
        /\ \A r, s \in Seats : cases[t].seats[r] = cases[t].seats[s] => r = s

\* Every vote is counted once, for the member who cast it.
TallyMatchesVoters ==
    \A t \in Tasks :
        cases[t].publisherVotes + cases[t].agentVotes = Cardinality(hasVoted[t])

\* A case is closed exactly when one side has its two votes; the other side
\* then has at most one.
ResolvedByMajority ==
    \A t \in Tasks :
        /\ cases[t].resolved <=> Ruled(cases[t])
        /\ cases[t].publisherVotes + cases[t].agentVotes <= 3

\* No case can run out of voters: while it is open some seated member has not
\* voted yet, although a replacement may be somebody who voted and then left.
RulingStaysReachable ==
    \A t \in Tasks : Open(t) =>
        \E s \in Seats : cases[t].seats[s] \notin hasVoted[t]

\* docs/superpowers/specs/2026-08-21-agent-market-phase2-design.zh-CN.md:155 and
\* docs/architecture/agent-market-architecture.md:250 say that a ruling takes two
\* votes of the three valid seats, one vote per seat, with recusal on conflict.
\* The code keeps the vote of a member who recuses himself afterwards.
RulingCarriedByTwoSeats ==
    \A t \in Tasks : cases[t].resolved =>
        \E r, s \in Seats : r # s /\ {cases[t].seats[r], cases[t].seats[s]} \subseteq hasVoted[t]
=============================================================================
