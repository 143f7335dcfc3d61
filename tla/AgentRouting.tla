----------------------------- MODULE AgentRouting -----------------------------
(***************************************************************************)
(* Which agents the Queen is offered for a node (queen-ranking.ts), and    *)
(* what the decision service may advise about them (jev-decision-          *)
(* adapter.ts, which nothing in the repository calls yet).  Candidates     *)
(* change their status and gather scores between one draw and the next.    *)
(*                                                                         *)
(* The clock moves by the half-life of a score, thirty days, so that the   *)
(* window is three ticks and a model is new for less than one; scores are  *)
(* percentages; what a candidate costs and how slow it is are one number.  *)
(***************************************************************************)
EXTENDS Integers, Sequences, FiniteSets, FiniteSetsExt, SequencesExt, Collections, TLC

CONSTANTS Candidates, ModelTag, FirstSeen,
          Outlay,          \* points lost to cost and latency
          Fits,            \* candidates with the capabilities, category and tags required
          OwnerOnly, CallerScope,
          Shuffle,         \* round -> the order its seed gives newcomers
          ByName,          \* the candidates in the order of their names
          Kinds,           \* decisions asked for: kind -> answers allowed besides "abstain"
          Advices,         \* answers of the service: [http, choice, confidence, odds]
          Policy,          \* [mode, calibrated, confidence, margin]
          Marks, MaxDay, MaxScores,    \* bounds on scores, the clock, and scores per agent
          Restless                      \* bound: the candidates that change their status

ASSUME RoutingConstants ==
    /\ IsFiniteSet(Candidates) /\ DOMAIN ModelTag = Candidates /\ Fits \cup OwnerOnly \subseteq Candidates
    /\ \A a, b \in Candidates : /\ FirstSeen[a] \in Int /\ Outlay[a] \in Nat /\ ByName[a] \in Nat
                                /\ ByName[a] = ByName[b] => a = b
    /\ Marks \subseteq 0..100 /\ {MaxDay, MaxScores} \subseteq Nat

ASSUME ShuffleConstants ==
    \A r \in DOMAIN Shuffle : /\ r \in Nat /\ Shuffle[r] \in Seq(Candidates)
                              /\ \A i, j \in DOMAIN Shuffle[r] : Shuffle[r][i] = Shuffle[r][j] => i = j
                              /\ \A a \in Candidates : \E i \in DOMAIN Shuffle[r] : Shuffle[r][i] = a
ASSUME AdviceConstants ==
    /\ Policy.margin \in 0..100
    /\ \A answer \in Advices : \A o \in DOMAIN answer.odds : answer.odds[o] \in 0..100

VARIABLES day, pool,     \* candidate -> [status, scores], scores from the newest
          round, offered, \* the last draw, with what its audit records
          advice

routingVars == <<day, pool, round, offered, advice>>

Horizon == 3
ScoreWindow == 20
Recent(a) == Subsequence(pool[a].scores, {i \in 1..Len(pool[a].scores) : day - pool[a].scores[i].at <= Horizon})
Counted(a) == Leading(Recent(a), ScoreWindow)
OfAge(events, age) == {i \in 1..Len(events) : day - events[i].at = age}
Points(events, age) == Total([i \in OfAge(events, age) |-> events[i].mark])
Decayed(age0, age1, age2, age3) == 8 * age0 + 4 * age1 + 2 * age2 + age3

\* The decayed score, in hundredths of a point, and that of a candidate without any.
Quality(a) ==
    LET events == Counted(a)
        points == Decayed(Points(events, 0), Points(events, 1), Points(events, 2), Points(events, 3))
        weights == Decayed(Cardinality(OfAge(events, 0)), Cardinality(OfAge(events, 1)),
                           Cardinality(OfAge(events, 2)), Cardinality(OfAge(events, 3))) IN
    IF events = <<>> THEN 3000 ELSE (100 * points) \div weights

Newcomer(a) == pool[a].scores = <<>>
NewModel(a) == day <= FirstSeen[a]

Eligible(a) ==
    /\ pool[a].status # "offline" /\ a \in Fits
    /\ a \in OwnerOnly => CallerScope = "owner"
    /\ \/ Newcomer(a) /\ NewModel(a)
       \/ Quality(a) >= 3500 /\ (NewModel(a) \/ Quality(a) >= 4500)

\* In hundredths of a point, like the quality that is one term of it.
RankingScore(a) ==
    1000000 - 100 * Outlay[a] + (IF pool[a].status = "online" THEN 50000 ELSE 20000) + Quality(a)
    + (IF NewModel(a) /\ (Newcomer(a) \/ Quality(a) >= 7000) THEN 4000 ELSE 0)
    + (IF NewModel(a) /\ Newcomer(a) THEN 4000 ELSE 0)
Scored == {[agent |-> a, score |-> RankingScore(a)] : a \in {b \in Candidates : Eligible(b)}}
Before(x, y) == x.score > y.score \/ (x.score = y.score /\ ByName[x.agent] < ByName[y.agent])

Better(S) == {p \in S \X S : Before(p[1], p[2])}

\* Of several candidates with one model only the best ranked stays.
Ranked ==
    LET scored == Scored IN
    {x \in scored : \A y \in scored : ModelTag[x.agent] = ModelTag[y.agent] => x = y \/ Before(x, y)}
Names(ranked) == {x.agent : x \in ranked}

\* Two seats for history and one for a newcomer; seats nobody takes go to history.
ThreeOfHistory(history, cold, risky) == Leading(history, 3)
Seats(history, cold, risky) ==
    LET ranked == Leading(history, IF risky THEN 3 ELSE 2)
        fresh == IF risky THEN <<>> ELSE Leading(cold, 3 - Len(ranked))
        left == SubSeq(history, Len(ranked) + 1, Len(history)) IN
    ranked \o fresh \o Leading(left, 3 - Len(ranked) - Len(fresh))

SelectThree(r, risky) ==
    LET ranked == Ranked
        newcomers == {a \in Names(ranked) : Newcomer(a)}
        history == {x \in ranked : x.agent \notin newcomers}
        ordered == InOrder(history, Better(history)) IN
    [picks |-> Seats([k \in 1..Len(ordered) |-> ordered[k].agent], Those(Shuffle[r], newcomers), risky),
     eligible |-> Names(ranked), newcomers |-> newcomers, risky |-> risky]

-----------------------------------------------------------------------------
RoutingInit ==
    /\ day = 0 /\ round = 1
    /\ pool = [a \in Candidates |-> [status |-> "online", scores |-> <<>>]]
    /\ offered = [picks |-> <<>>, eligible |-> {}, newcomers |-> {}, risky |-> FALSE]
    /\ advice = [status |-> "none", value |-> "none"]

NextDay == day < MaxDay /\ day' = day + 1 /\ UNCHANGED <<pool, round, offered, advice>>

ChangeStatus(a, status) ==
    /\ pool[a].status # status
    /\ pool' = [pool EXCEPT ![a].status = status]
    /\ UNCHANGED <<day, round, offered, advice>>

\* Only work that was offered is scored.
Score(a, mark) ==
    /\ a \in ToSet(offered.picks) /\ Len(pool[a].scores) < MaxScores
    /\ pool' = [pool EXCEPT ![a].scores = <<[at |-> day, mark |-> mark]>> \o @]
    /\ UNCHANGED <<day, round, offered, advice>>

\* A revision of the graph is another round of matching.
Offer(r, risky) ==
    /\ r \in {round, round + 1} \cap DOMAIN Shuffle
    /\ round' = r
    /\ offered' = SelectThree(r, risky)
    /\ advice' = [status |-> "none", value |-> "none"]
    /\ UNCHANGED <<day, pool>>

-----------------------------------------------------------------------------
Allowed(kind) == IF kind = "match" THEN ToSet(offered.picks) ELSE Kinds[kind]

Spread(odds) == Total(odds)
ValidDistribution(odds, allowed, choice) ==
    /\ choice \in DOMAIN odds /\ DOMAIN odds \subseteq allowed
    /\ Spread(odds) \in 99..101
    /\ \A o \in DOMAIN odds : odds[o] <= odds[choice]

\* What the best answer has over the next, which may be as likely.
Margin(odds) ==
    LET best == CHOOSE o \in DOMAIN odds : \A x \in DOMAIN odds : odds[x] <= odds[o]
        others == {odds[o] : o \in DOMAIN odds \ {best}} IN
    odds[best] - (IF others = {} THEN 0 ELSE Max(others))
PassesThreshold(answer) ==
    \/ Policy.mode = "synthetic-only"
    \/ answer.confidence >= Policy.confidence /\ Margin(answer.odds) >= Policy.margin

StatusReason(http) ==
    IF http \in {401, 403} THEN "unauthorized" ELSE IF http = 429 THEN "rate_limited"
    ELSE IF http = 0 THEN "timeout" ELSE "server_error"

\* Whatever goes wrong is a fallback; nothing is chosen in the service's stead.
Verdict(kind, answer) ==
    IF Policy.mode = "shadow" /\ ~Policy.calibrated THEN "uncalibrated"
    ELSE IF kind = "match" /\ offered.picks = <<>> THEN "out_of_pool"
    ELSE IF answer.http # 200 THEN StatusReason(answer.http)
    ELSE IF answer.choice \notin Allowed(kind) \cup {"abstain"}
         THEN IF kind = "quality" THEN "invalid_response" ELSE "out_of_pool"
    ELSE IF ~ValidDistribution(answer.odds, Allowed(kind) \cup {"abstain"}, answer.choice) THEN "invalid_response"
    ELSE IF answer.choice = "abstain" THEN IF kind = "quality" THEN "invalid_response" ELSE "uncalibrated"
    ELSE IF ~PassesThreshold(answer) THEN "below_threshold" ELSE "observed"

\* Once for a draw, to bound the model.
Advise(kind, answer) ==
    /\ advice.status = "none"
    /\ advice' = [status |-> Verdict(kind, answer), kind |-> kind,
                  value |-> IF Verdict(kind, answer) = "observed" THEN answer.choice ELSE "none", answer |-> answer]
    /\ UNCHANGED <<day, pool, round, offered>>

RoutingNext ==
    \/ NextDay
    \/ \E r \in DOMAIN Shuffle, risky \in BOOLEAN : Offer(r, risky)
    \/ \E a \in Restless, status \in {"online", "degraded", "offline"} : ChangeStatus(a, status)
    \/ \E a \in Candidates, mark \in Marks : Score(a, mark)
    \/ \E kind \in DOMAIN Kinds, answer \in Advices : Advise(kind, answer)

RoutingSpec == RoutingInit /\ [][RoutingNext]_routingVars

-----------------------------------------------------------------------------
\* However the pool has come to be, a draw offers as many different models as there
\* are seats and candidates for them; a newcomer has a seat whenever there is one and
\* the risk allows it, and never takes a seat of history otherwise; and advice is one
\* of the answers allowed, given with the certainty the policy asks for
\* (queen-ranking.ts:67-114, jev-decision-adapter.ts:103-228).
SelectionIsFair ==
    LET picks == ToSet(offered.picks)  history == offered.eligible \ offered.newcomers IN
    /\ Cardinality({ModelTag[a] : a \in picks}) = Len(offered.picks)
    /\ picks \subseteq offered.eligible
    /\ IF offered.risky THEN picks \cap offered.newcomers = {} /\ Len(offered.picks) = Min({3, Cardinality(history)})
       ELSE /\ Len(offered.picks) = Min({3, Cardinality(offered.eligible)})
            /\ offered.newcomers # {} => picks \cap offered.newcomers # {}
            /\ Cardinality(picks \cap history) >= Min({2, Cardinality(history)})
    /\ advice.status = "observed" =>
          /\ advice.value \in Allowed(advice.kind)
          /\ \A o \in DOMAIN advice.answer.odds : o # advice.value =>
                advice.answer.odds[o] + (IF Policy.mode = "shadow" THEN Policy.margin ELSE 0) <= advice.answer.odds[advice.value]
=============================================================================
