----------------------------- MODULE RiskPricing -----------------------------
(***************************************************************************)
(* Pricing one task's risk, from the assessor to the panel that shows the  *)
(* quote: the signed runtime's answer read frame by frame                  *)
(* (runtime-risk-assessor.ts), the amounts (risk-engine.ts), the service   *)
(* (risk-pricing-service.ts), its routes behind the edge (pages-worker.ts) *)
(* and the browser's panel (LiveRiskQuotePanel.tsx, riskQuoteFlow.ts).     *)
(* RiskQuotes has the store's transactions and manual approval.            *)
(***************************************************************************)
EXTENDS Naturals, Sequences, FiniteSets, Collections, TLC

CONSTANTS Publisher, Place,   \* Place orders the agents' names
          Visitors,           \* wallets this browser connects
          Terms,              \* terms of the task: [budget, nodes], nodes empty until final
          Assessed,           \* assessments a complete answer may hold: factor -> 0..100
          Pieces,             \* pieces of a complete answer
          FeeBps, Lifetime,
          Slots, Assessments, \* panel runs and issueQuote calls under way at once
          MaxHour, MaxQuotes,
          MaxPressed          \* bound on the runs of one mounted panel

ASSUME PricingConstants ==
    /\ Pieces \in Nat \ {0} /\ Lifetime \in Nat \ {0}
    /\ FeeBps \in 0..10000 /\ {MaxHour, MaxQuotes, MaxPressed} \subseteq Nat
    /\ \A a, b \in DOMAIN Place : Place[a] \in Nat /\ (Place[a] = Place[b] => a = b)

PricedNodes == [agent : DOMAIN Place, share : Nat \ {0}, risk : Nat \ {0}, reputation : Nat \ {0}]
ASSUME TermsConstants ==
    /\ 0 \in DOMAIN Terms
    /\ \A t \in DOMAIN Terms : /\ Terms[t].budget \in Nat /\ IsFiniteSet(DOMAIN Terms[t].nodes)
                              /\ \A n \in DOMAIN Terms[t].nodes : Terms[t].nodes[n] \in PricedNodes

VARIABLES hour,
          current,   \* index of the task's present terms
          issued,    \* the task's quotes, the last one active
          asking,    \* issueQuote calls and how much of the answer each has heard
          panel,     \* the browser's panel for the wallet now connected
          visits     \* runs of the panel under way, each from one press of a button

pricingVars == <<hour, current, issued, asking, panel, visits>>

-----------------------------------------------------------------------------
(* Amounts.                                                                *)

RISK_WEIGHTS ==
    [complexity |-> 20, acceptanceAmbiguity |-> 15, externalDependency |-> 10,
     dataSensitivity |-> 15, financialRisk |-> 15, irreversibility |-> 10,
     deadlineRisk |-> 5, agentUncertainty |-> 10]

Weighed(factors, f) == factors[f] * RISK_WEIGHTS[f]
ASSUME AssessedConstants == \A factors \in Assessed : factors \in [DOMAIN RISK_WEIGHTS -> 0..100]

RiskScore(factors) ==
    (Weighed(factors, "complexity") + Weighed(factors, "acceptanceAmbiguity")
     + Weighed(factors, "externalDependency") + Weighed(factors, "dataSensitivity")
     + Weighed(factors, "financialRisk") + Weighed(factors, "irreversibility")
     + Weighed(factors, "deadlineRisk") + Weighed(factors, "agentUncertainty") + 50) \div 100

DepositRate(score) ==
    IF score <= 20 THEN 500 ELSE IF score <= 40 THEN 1000 ELSE IF score <= 60 THEN 1500
    ELSE IF score <= 80 THEN 2500 ELSE 4000

CeilBps(amount, rate) == (amount * rate + 9999) \div 10000

TaskTeam(t) == {Terms[t].nodes[n].agent : n \in DOMAIN Terms[t].nodes}
AgentWeights ==
    [t \in DOMAIN Terms |-> [a \in TaskTeam(t) |->
        Total([n \in {m \in DOMAIN Terms[t].nodes : Terms[t].nodes[m].agent = a} |->
                  Terms[t].nodes[n].share * Terms[t].nodes[n].risk * Terms[t].nodes[n].reputation])]]
TotalWeight == [t \in DOMAIN Terms |-> Total(AgentWeights[t])]
Heavier(t, a, b) ==
    \/ AgentWeights[t][a] > AgentWeights[t][b]
    \/ AgentWeights[t][a] = AgentWeights[t][b] /\ Place[a] < Place[b]

\* Shares are rounded down; what is left goes by one to the heaviest agents.
AllocateRoundedDown(t, deposit) ==
    [a \in TaskTeam(t) |-> (deposit * AgentWeights[t][a]) \div TotalWeight[t]]
AllocateAgentTeamDeposit(t, deposit) ==
    LET base == AllocateRoundedDown(t, deposit)
        left == deposit - Total(base) IN
    [a \in TaskTeam(t) |->
        base[a] + (IF Cardinality({b \in TaskTeam(t) : Heavier(t, b, a)}) < left THEN 1 ELSE 0)]

CreateRiskQuote(t, factors) ==
    LET budget == Terms[t].budget
        deposit == CeilBps(budget, DepositRate(RiskScore(factors))) IN
    [terms |-> t, P |-> budget, A |-> deposit, B |-> CeilBps(budget, FeeBps),
     review |-> RiskScore(factors) > 80, approved |-> FALSE, shares |-> AllocateAgentTeamDeposit(t, deposit),
     expires |-> hour + Lifetime, confirmed |-> {}]

-----------------------------------------------------------------------------
(* The service.  Fingerprints are the indices of terms.                    *)

Silent == [at |-> "idle"]
Reading(active, status) == [active |-> active, terms |-> current, status |-> status]
Unanswered == [active |-> 0, terms |-> 0, status |-> "none"]
Blank(wallet) == [wallet |-> wallet, record |-> 0, ready |-> 0, busy |-> FALSE, error |-> "none",
                  pressed |-> 0, expired |-> FALSE]

PricingInit ==
    /\ hour = 0 /\ current = 0 /\ issued = <<>>
    /\ asking = [c \in Assessments |-> Silent] /\ visits = [r \in Slots |-> Silent]
    /\ panel = Blank(Publisher)

Parties(t) == {Publisher} \cup TaskTeam(t)
LatestQuote == Len(issued)
Expired(q) == hour >= issued[q].expires

ChangeTerms ==
    /\ current + 1 \in DOMAIN Terms
    /\ current' = current + 1
    /\ UNCHANGED <<hour, issued, asking, panel, visits>>

\* readCurrentQuote: what the publisher and a final team may see.
NeverAwaits(q) == FALSE    \* what the status would rest on without the approval
AwaitsApproval(q) == issued[q].review /\ ~issued[q].approved
QuoteStatus ==
    IF LatestQuote = 0 THEN "not_issued"
    ELSE IF issued[LatestQuote].terms # current THEN "superseded"
    ELSE IF Expired(LatestQuote) THEN "expired"
    ELSE IF AwaitsApproval(LatestQuote) THEN "manual_review"
    ELSE IF Parties(current) \subseteq issued[LatestQuote].confirmed THEN "confirmed" ELSE "active"
RiskContext == Reading(LatestQuote, QuoteStatus)

\* One frame of the runtime's event stream.  The stream names its agent first and
\* counts what it sent last; anything else ends the assessment.
Hear(c, heard) ==
    /\ asking' = [asking EXCEPT ![c] = heard]
    /\ UNCHANGED <<hour, current, issued, panel, visits>>
Consume(c) ==
    /\ asking[c].at = "listening"
    /\ LET h == asking[c] IN
       \/ ~h.meta /\ Hear(c, [h EXCEPT !.meta = TRUE])
       \/ h.meta /\ ~h.done /\ h.pieces < Pieces /\ Hear(c, [h EXCEPT !.pieces = @ + 1])
       \/ h.meta /\ ~h.done /\ Hear(c, [h EXCEPT !.done = TRUE])

\* A run waiting for the call gets its answer; a run the edge gave up on does not.
Reply(c, reply) ==
    [r \in Slots |-> IF visits[r].at = "issuing" /\ visits[r].call = c
                     THEN [visits[r] EXCEPT !.reply = reply] ELSE visits[r]]

\* The stream broke off, named another agent, miscounted, or held no assessment.
AssessmentFails(c) ==
    /\ asking[c].at = "listening"
    /\ asking' = [asking EXCEPT ![c] = Silent]
    /\ visits' = Reply(c, Reading(0, "error"))
    /\ UNCHANGED <<hour, current, issued, panel>>

\* The task is loaded again in the store's transaction, which supersedes the
\* active quote; only a whole answer can be read.
IssueQuote(c, factors) ==
    /\ asking[c].at = "listening" /\ asking[c].done /\ asking[c].pieces = Pieces
    /\ LatestQuote < MaxQuotes /\ asking[c].terms = current
    /\ issued' = Append(issued, CreateRiskQuote(current, factors))
    /\ asking' = [asking EXCEPT ![c] = Silent]
    /\ visits' = Reply(c, Reading(LatestQuote + 1, "issued"))
    /\ UNCHANGED <<hour, current, panel>>

Confirmed(q, who) == [issued EXCEPT ![q].confirmed = @ \cup {who}]
Confirmable(q, who) ==
    /\ q = LatestQuote /\ issued[q].terms = current /\ ~Expired(q)
    /\ who \in Parties(current) \ issued[q].confirmed

\* A platform operator approves the active quote, be it expired or of other terms.
Approved(q) == [issued EXCEPT ![q].approved = TRUE]
ApproveManual ==
    /\ LatestQuote > 0 /\ issued[LatestQuote].review
    /\ issued' = Approved(LatestQuote)
    /\ UNCHANGED <<hour, current, asking, panel, visits>>

\* The fields a confirmation must have, and those the panel sends.
ConfirmationFields == {"actorType", "quoteHash", "quoteId", "taskFingerprint"}
PanelFields == {"quoteHash", "quoteId", "taskFingerprint"}
Understood(fields) == fields \in {ConfirmationFields, ConfirmationFields \cup {"agentId"}}

\* A party confirms with a client of its own.
ConfirmQuote(who) ==
    /\ LatestQuote > 0 /\ Confirmable(LatestQuote, who)
    /\ issued' = Confirmed(LatestQuote, who)
    /\ UNCHANGED <<hour, current, asking, panel, visits>>

-----------------------------------------------------------------------------
(* The panel.  "pressed" is the session's generation: it moves on with every *)
(* run, when the record expires, and when the panel is mounted anew.         *)

Goto(r, visit) == visits' = [visits EXCEPT ![r] = visit]
IsCurrent(r) == visits[r].press = panel.pressed

Begin(r, action) ==
    /\ visits[r] = Silent /\ ~panel.busy /\ panel.pressed < MaxPressed
    /\ action = "create" => panel.wallet = Publisher
    /\ action \in {"confirm", "refresh"} => panel.record # 0 /\ ~Expired(panel.record)
    /\ LET kept == IF action \in {"load", "create"} THEN 0 ELSE panel.record IN
       /\ panel' = [Blank(panel.wallet) EXCEPT !.record = kept, !.busy = TRUE, !.pressed = panel.pressed + 1]
       /\ Goto(r, [at |-> IF action = "load" THEN "loading" ELSE "context", action |-> action,
                   press |-> panel.pressed + 1, record |-> panel.record, reply |-> Unanswered, call |-> 0])
    /\ UNCHANGED <<hour, current, issued, asking>>

MayRead(wallet) == wallet \in Parties(current)

\* The server's answer is of this moment; the run goes on later.
Answer(r) ==
    /\ visits[r].at \in {"loading", "context", "verify"} /\ visits[r].reply = Unanswered
    /\ MayRead(panel.wallet)
    /\ Goto(r, [visits[r] EXCEPT !.reply = RiskContext])
    /\ UNCHANGED <<hour, current, issued, asking, panel>>

\* A refused or failed request, or one the edge gives up on after ten seconds.
End(r, record, ready, error) ==
    /\ Goto(r, Silent)
    /\ panel' = IF IsCurrent(r)
                THEN [panel EXCEPT !.record = record, !.ready = ready, !.error = error, !.busy = FALSE]
                ELSE panel
FailRun(r) ==
    /\ visits[r] # Silent
    /\ End(r, panel.record, 0, "failed")
    /\ UNCHANGED <<hour, current, issued, asking>>

HasReply(r, at) == visits[r].at = at /\ visits[r].reply # Unanswered

ShowCurrent(r) ==
    /\ HasReply(r, "loading")
    /\ End(r, visits[r].reply.active, 0, "none")
    /\ UNCHANGED <<hour, current, issued, asking>>

\* What is shown must still be the active quote, on the task's present terms.
SameQuote(context, q) == context.active = q /\ q # 0 /\ issued[q].terms = context.terms /\ ~Expired(q)

PostQuote(r, c) ==
    /\ HasReply(r, "context") /\ visits[r].action = "create" /\ asking[c] = Silent
    /\ visits[r].reply.terms = current
    /\ asking' = [asking EXCEPT ![c] = [at |-> "listening", terms |-> current,
                                        meta |-> FALSE, pieces |-> 0, done |-> FALSE]]
    /\ Goto(r, [visits[r] EXCEPT !.at = "issuing", !.reply = Unanswered, !.call = c])
    /\ UNCHANGED <<hour, current, issued, panel>>
VerifyNewQuote(r) ==
    /\ HasReply(r, "issuing") /\ visits[r].reply.status = "issued"
    /\ Goto(r, [visits[r] EXCEPT !.at = "verify", !.record = visits[r].reply.active, !.reply = Unanswered])
    /\ UNCHANGED <<hour, current, issued, asking, panel>>
ShowNewQuote(r) ==
    /\ HasReply(r, "verify") /\ visits[r].action = "create"
    /\ SameQuote(visits[r].reply, visits[r].record)
    /\ End(r, visits[r].record, 0, "none")
    /\ UNCHANGED <<hour, current, issued, asking>>

\* The route reads the fields first.
PostConfirmation(r) ==
    /\ HasReply(r, "context") /\ visits[r].action = "confirm"
    /\ SameQuote(visits[r].reply, visits[r].record)
    /\ IF Understood(PanelFields) /\ Confirmable(visits[r].record, panel.wallet)
       THEN /\ issued' = Confirmed(visits[r].record, panel.wallet)
            /\ Goto(r, [visits[r] EXCEPT !.at = "verify", !.reply = Unanswered])
            /\ UNCHANGED panel
       ELSE /\ End(r, panel.record, 0, IF Understood(PanelFields) THEN "RISK_QUOTE_CONFIRM_FORBIDDEN"
                                       ELSE "RISK_QUOTE_CONFIRMATION_INVALID")
            /\ UNCHANGED issued
    /\ UNCHANGED <<hour, current, asking>>

\* A final quote that everyone has confirmed makes the order ready for funding.
Refreshed(r) ==
    /\ \/ HasReply(r, "context") /\ visits[r].action = "refresh"
       \/ HasReply(r, "verify") /\ visits[r].action = "confirm"
    /\ LET context == visits[r].reply  q == visits[r].record IN
       /\ SameQuote(context, q)
       /\ End(r, q, IF context.status = "confirmed" /\ TaskTeam(context.terms) # {} THEN q ELSE 0, "none")
    /\ UNCHANGED <<hour, current, issued, asking>>

\* The panel's timer runs out with the record it shows.
WatchExpiry ==
    /\ panel.record # 0 /\ Expired(panel.record) /\ ~panel.expired
    /\ panel' = [panel EXCEPT !.ready = 0, !.busy = FALSE, !.pressed = @ + 1, !.expired = TRUE]
    /\ UNCHANGED <<hour, current, issued, asking, visits>>

\* Another wallet: the panel is mounted anew, and the old requests' answers refused.
SwitchWallet(who) ==
    /\ who # panel.wallet
    /\ panel' = Blank(who)
    /\ visits' = [r \in Slots |-> Silent]
    /\ UNCHANGED <<hour, current, issued, asking>>

TickPricing == hour < MaxHour /\ hour' = hour + 1 /\ UNCHANGED <<current, issued, asking, panel, visits>>

PricingNext ==
    \/ TickPricing \/ ChangeTerms \/ WatchExpiry \/ ApproveManual
    \/ \E c \in Assessments : Consume(c) \/ AssessmentFails(c) \/ \E f \in Assessed : IssueQuote(c, f)
    \/ \E who \in {Publisher} \cup DOMAIN Place : ConfirmQuote(who)
    \/ \E who \in Visitors : SwitchWallet(who)
    \/ \E r \in Slots : \/ \E action \in {"load", "create", "confirm", "refresh"} : Begin(r, action)
                        \/ Answer(r) \/ FailRun(r) \/ ShowCurrent(r) \/ VerifyNewQuote(r) \/ ShowNewQuote(r)
                        \/ PostConfirmation(r) \/ Refreshed(r)
                        \/ \E c \in Assessments : PostQuote(r, c)

PricingSpec == PricingInit /\ [][PricingNext]_pricingVars

-----------------------------------------------------------------------------
AmountsAddUp(q) ==
    /\ TaskTeam(q.terms) # {} => Total(q.shares) = q.A
    /\ \A a, b \in DOMAIN q.shares : Heavier(q.terms, a, b) => q.shares[a] >= q.shares[b]
    /\ q.A <= q.P /\ q.B <= q.P

\* The panel announces an order as ready only for the quote it shows, which then
\* has the confirmation of its publisher and of every agent that puts up a part of
\* the deposit, and an operator's approval when its risk calls for one; and whatever
\* the terms and the assessment, the parts add up to the deposit and follow the
\* agents' weights, so that the quote's own schema never refuses it
\* (LiveRiskQuotePanel.tsx:22-126, riskQuoteFlow.ts:39-53, risk-engine.ts:73-119).
FundingRestsOnTheQuote ==
    /\ \A q \in 1..LatestQuote : AmountsAddUp(issued[q])
    /\ panel.ready # 0 =>
          LET q == issued[panel.ready] IN
          /\ panel.ready = panel.record /\ (q.review => q.approved)
          /\ {Publisher} \cup DOMAIN q.shares \subseteq q.confirmed
=============================================================================
