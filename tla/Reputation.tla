----------------------------- MODULE Reputation -----------------------------
(***************************************************************************)
(* Reviews of accepted orders and the score they make.  An order that is   *)
(* accepted grants its publisher one review of the agent; submitting it    *)
(* checks the grant, the wallets and earlier reviews one query at a time,  *)
(* and saves it in a transaction that checks the grant again.  The score   *)
(* weighs the newest reviews by age and shrinks them towards a prior.      *)
(***************************************************************************)
EXTENDS Integers, FiniteSets, FiniteSetsExt

CONSTANTS
    Orders, AgentOfOrder,   \* reviewable orders, and the agent that served each
    OwnerOf, Reviewer,      \* an agent's owner when it served; the publisher's wallet
    Submissions,            \* concurrent submissions
    Verdicts,               \* what a review may say: its mark, the outcome, whether
                            \* the agent is to blame for a dispute
    OrderValue,             \* what an order was worth (orderValueAtomic)
    MaxEvents,              \* the newest reviews that count, 20 in the code
    OrderSignal, EarningsSignal,  \* log-scaled signals of the accepted orders' number and worth
    MaxAge                  \* bound of time, in half-lives of 30 days: 3 are 90 days

Outcomes == {"accepted", "refunded", "disputed"}
ASSUME ReputationConstants ==
    /\ \A v \in Verdicts : v.mark \in 0..100 /\ v.outcome \in Outcomes
    /\ MaxEvents \in Nat \ {0} /\ OrderValue \in [Orders -> Nat]
    /\ \A signal \in {OrderSignal, EarningsSignal} :
         \A m, n \in DOMAIN signal : m <= n => signal[m] <= signal[n] /\ signal[n] \in 0..100

VARIABLES
    grant,      \* reputation_v2_review_eligibilities
    posted,     \* reputation_v2_reviews, under their order
    linked,     \* the reviewer's wallet is recorded as one of the owner's
    published,  \* the agents that are published and still their owner's
    submission, \* submission[p]: where p stands with its review
    today       \* half-lives that have passed

reputationVars == <<grant, posted, linked, published, submission, today>>
RatedAgents == {AgentOfOrder[o] : o \in Orders}
NoReview == [none |-> TRUE]
Posted == {o \in Orders : posted[o] # NoReview}

ReputationInit ==
    /\ grant = [o \in Orders |-> "absent"] /\ posted = [o \in Orders |-> NoReview]
    /\ linked = FALSE /\ published = RatedAgents
    /\ submission = [p \in Submissions |-> [at |-> "idle"]] /\ today = 0

----------------------------------------------------------------------------
\* accept_delivery grants the review, to a publisher that is not the owner.
Grant(o) ==
    /\ grant[o] = "absent" /\ OwnerOf[AgentOfOrder[o]] # Reviewer
    /\ grant' = [grant EXCEPT ![o] = "available"]
    /\ UNCHANGED <<posted, linked, published, submission, today>>
Revoke(o) ==
    /\ grant[o] = "available" /\ grant' = [grant EXCEPT ![o] = "revoked"]
    /\ UNCHANGED <<posted, linked, published, submission, today>>
LinkWallets ==
    /\ ~linked /\ linked' = TRUE
    /\ UNCHANGED <<grant, posted, published, submission, today>>
Unpublish(a) ==
    /\ a \in published /\ published' = published \ {a}
    /\ UNCHANGED <<grant, posted, linked, submission, today>>
\* A submission takes moments, so none is under way when 30 days have passed.
HalfLifePasses ==
    /\ \A p \in Submissions : submission[p].at = "idle"
    /\ today < MaxAge /\ today' = today + 1
    /\ UNCHANGED <<grant, posted, linked, published, submission>>

\* eligibilityFromDatabase: an agent that changed hands or is withdrawn is a conflict.
Eligible(o) == grant[o] = "available" /\ AgentOfOrder[o] \in published

Dated(v, day) == [mark |-> v.mark, outcome |-> v.outcome, blamed |-> v.blamed, on |-> day]
MovesTo(p, step) == submission' = [submission EXCEPT ![p].at = step]
UnchangedButSubmission == UNCHANGED <<grant, posted, linked, published, today>>

SubmitReview(p, o) ==
    /\ submission[p].at = "idle" /\ Eligible(o)
    /\ \E v \in Verdicts :
         submission' = [submission EXCEPT ![p] =
            [at |-> "eligible", order |-> o, verdict |-> v]]
    /\ UnchangedButSubmission

CheckLinks(p) ==
    /\ submission[p].at = "eligible"
    /\ MovesTo(p, IF linked THEN "refused" ELSE "unlinked") /\ UnchangedButSubmission
CheckExisting(p) ==
    /\ submission[p].at = "unlinked"
    /\ MovesTo(p, IF submission[p].order \in Posted THEN "refused" ELSE "checked")
    /\ UnchangedButSubmission

StillEligible(o) == Eligible(o)

\* Mutant: the grant is checked and not consumed.
SaveReviewUnspent(p) ==
    LET o == submission[p].order IN
    /\ submission[p].at = "checked"
    /\ posted' = IF StillEligible(o) THEN [posted EXCEPT ![o] = Dated(submission[p].verdict, today)]
                 ELSE posted
    /\ submission' = [submission EXCEPT ![p] = [at |-> "idle"]]
    /\ UNCHANGED <<grant, linked, published, today>>
\* saveReview: the grant locked and checked, the review inserted, the grant consumed.
SaveReview(p) ==
    LET o == submission[p].order IN
    /\ submission[p].at = "checked"
    /\ IF StillEligible(o)
       THEN /\ posted' = [posted EXCEPT ![o] = Dated(submission[p].verdict, today)]
            /\ grant' = [grant EXCEPT ![o] = "consumed"]
       ELSE UNCHANGED <<posted, grant>>
    /\ submission' = [submission EXCEPT ![p] = [at |-> "idle"]]
    /\ UNCHANGED <<linked, published, today>>
EndSubmission(p) ==
    /\ submission[p].at = "refused" /\ submission' = [submission EXCEPT ![p] = [at |-> "idle"]]
    /\ UnchangedButSubmission

ReputationNext ==
    \/ \E o \in Orders : Grant(o) \/ Revoke(o) \/ \E p \in Submissions : SubmitReview(p, o)
    \/ LinkWallets \/ HalfLifePasses \/ \E a \in RatedAgents : Unpublish(a)
    \/ \E p \in Submissions :
         CheckLinks(p) \/ CheckExisting(p) \/ SaveReview(p) \/ EndSubmission(p)

----------------------------------------------------------------------------
\* computeReputationSnapshot, in hundredths of a point.  Reviews of one half-life
\* come in an order of their own: place[o] is when o's review was given.
After(reviews, place, x, o) ==
    reviews[x].on > reviews[o].on \/ (reviews[x].on = reviews[o].on /\ place[x] > place[o])
Latest(reviews, place) ==
    {o \in DOMAIN reviews : Cardinality({x \in DOMAIN reviews : After(reviews, place, x, o)}) < MaxEvents}
\* The weight of a review is 8 when it is new and halves with each half-life; one of
\* more than 90 days is out.
Counted(reviews, now, place) == {o \in Latest(reviews, place) : reviews[o].on >= now - 3}
Weight(review, now) == 8 \div (2 ^ (now - review.on))
WeightedAverage(reviews, now, S, signal(_)) ==
    LET weights == MapThenSumSet(LAMBDA o : Weight(reviews[o], now), S)
    IN IF S = {} THEN 0
       ELSE (100 * MapThenSumSet(LAMBDA o : signal(reviews[o]) * Weight(reviews[o], now), S))
              \div weights

Delivered(r) == IF r.outcome = "accepted" THEN 70 + (3 * r.mark) \div 10 ELSE 0
Mark(r) == r.mark
Undisputed(r) == IF r.blamed THEN 0 ELSE 100

\* In two-hundredths of the full signal: how many orders, and what they earned.
Experience(reviews, S) ==
    LET accepted == {o \in S : reviews[o].outcome = "accepted"}
    IN IF accepted = {} THEN 0
       ELSE OrderSignal[Cardinality(accepted)] + EarningsSignal[MapThenSumSet(LAMBDA o : OrderValue[o], accepted)]

RawScore(reviews, now, S) ==
    (35 * WeightedAverage(reviews, now, S, Delivered) + 35 * WeightedAverage(reviews, now, S, Mark)
     + 15 * WeightedAverage(reviews, now, S, Undisputed) + 15 * 50 * Experience(reviews, S)) \div 100

\* The prior of 30 points, moved by count / (count + 10).
Score(reviews, now, place) ==
    LET S == Counted(reviews, now, place)
    IN 3000 + (Cardinality(S) * (RawScore(reviews, now, S) - 3000)) \div (Cardinality(S) + 10)

ReviewsOf(a) == [o \in {x \in Posted : AgentOfOrder[x] = a} |-> posted[o]]

----------------------------------------------------------------------------
Places == {place \in [Orders -> 1..Cardinality(Orders)] : \A o, x \in Orders : place[o] = place[x] => o = x}

ReputationTypeOK ==
    /\ grant \in [Orders -> {"absent", "available", "consumed", "revoked"}]
    /\ \A o \in Posted : posted[o].on \in 0..today
    /\ \A p \in Submissions :
         submission[p].at \in {"idle", "eligible", "unlinked", "checked", "refused"}
    /\ \A a \in RatedAgents, place \in Places : Score(ReviewsOf(a), today, place) \in 0..10000

\* However submissions cross each other and a revocation, a grant is spent on one
\* review and a revoked one on none.
OneReviewPerGrant == \A o \in Orders : grant[o] = "consumed" <=> o \in Posted

\* A flawless review given now lowers the agent's score only by pushing the accepted
\* review of a more valuable order out of those that count, whatever the others say
\* and however old they are.
PraiseOnlyDisplaces ==
    \A o \in {x \in Orders : Eligible(x)}, place \in Places :
        LET praise == [mark |-> 100, outcome |-> "accepted", blamed |-> FALSE, on |-> today]
            before == ReviewsOf(AgentOfOrder[o])
            after == [x \in DOMAIN before \cup {o} |-> IF x = o THEN praise ELSE before[x]]
            displaced == Counted(before, today, place) \ Counted(after, today, place)
        IN (/\ \A x \in DOMAIN before : place[x] < place[o]
            /\ \A x \in displaced : before[x].outcome = "accepted" => OrderValue[x] <= OrderValue[o])
           => Score(after, today, place) >= Score(before, today, place)

\* However submissions of one grant cross, and whenever the agent's publication ends
\* between their checks: each review rests on a grant of its own, and the score it
\* makes stays between 0 and 100 points and is lowered by praise only when the praise
\* pushes a more valuable order's review out of the newest that count.
ReviewsCount == ReputationTypeOK /\ OneReviewPerGrant /\ PraiseOnlyDisplaces
=============================================================================
