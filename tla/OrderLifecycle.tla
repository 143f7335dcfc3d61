---------------------------- MODULE OrderLifecycle ----------------------------
(***************************************************************************)
(* One order from publication to settlement: OrderService.execute over     *)
(* PostgresOrderStore, the transition table of shared-contracts/orders.ts, *)
(* the risk quote gate it asks, and the governance service that halts and  *)
(* resumes orders in the same row; and what they guarantee together.       *)
(*                                                                         *)
(* The row's version is compared and never read otherwise, so the model    *)
(* keeps who holds its current value: every write of the row empties that  *)
(* set.  Wallets of publisher and agent are left out: who may send which   *)
(* command is checked against the row that is written, like its status.    *)
(***************************************************************************)
EXTENDS RiskQuotes

CONSTANTS
    Executions,     \* calls of OrderService.execute that may be in flight
    Keys,           \* idempotency keys that clients send again
    FreshKey,       \* a key that is sent once only
    Operators,      \* wallets holding both the operator and the reviewer role
    Proposals,      \* resume proposals that may be pending at once
    Context,        \* the task's risk context, written outside this repository
    Nobody

ASSUME OrderConstants ==
    /\ FreshKey \notin Keys /\ Nobody \notin Operators
    /\ Executions \cap Proposals = {} /\ Context \notin Executions \cup Proposals

VARIABLES
    order,          \* agent_market.tasks: status, and the status before a halt
    applied,        \* how often a command with the key was applied to the row
    upToDate,       \* who holds the row's current version
    calls,          \* where each execution stands
    proposals,      \* agent_market.governance_proposals of kind resume, pending
    earlier         \* history: proposals made before the halt that now stands

orderVars == <<order, applied, upToDate, calls, proposals, earlier>>
vars == <<orderVars, quoteVars>>

Statuses == {"open", "funding_pending", "funded", "matching", "assigned", "in_progress",
             "submitted", "accepted", "disputed", "settled", "refunded", "manual_review"}
Terminal == {"settled", "refunded"}

\* applyOrderCommand: where a command may be given and where it leads.  Nobody
\* sends resolve_manual_review: orders are resumed by the governance service.
Rules == [
    mark_funding_pending |-> [from |-> {"open", "assigned"}, to |-> "funding_pending"],
    confirm_funding      |-> [from |-> {"funding_pending"}, to |-> "funded"],
    start_matching       |-> [from |-> {"open", "funded"}, to |-> "matching"],
    assign_agent         |-> [from |-> {"matching"}, to |-> "assigned"],
    accept_assignment    |-> [from |-> {"assigned"}, to |-> "in_progress"],
    submit_artifact      |-> [from |-> {"in_progress"}, to |-> "submitted"],
    accept_delivery      |-> [from |-> {"submitted"}, to |-> "accepted"],
    open_dispute         |-> [from |-> {"submitted", "accepted"}, to |-> "disputed"],
    settle               |-> [from |-> {"accepted", "disputed"}, to |-> "settled"],
    refund               |-> [from |-> {"funded", "assigned", "in_progress", "submitted", "disputed"},
                              to |-> "refunded"],
    mark_manual_review   |-> [from |-> Statuses \ (Terminal \cup {"manual_review"}),
                              to |-> "manual_review"]]

Commands == DOMAIN Rules
Gated == {"mark_funding_pending", "start_matching"}

\* What a call carries: a gated command, a halt, or any other command of the
\* table, of which it makes no difference before the commit which one it is.
Carried(command) == IF command = "ungated" THEN Commands \ Gated ELSE {command}

IdleCall == [at |-> "idle", command |-> "ungated", key |-> FreshKey, quote |-> 0, sound |-> TRUE,
             found |-> "open"]
NoProposal == [proposer |-> Nobody, previous |-> "open"]

Init ==
    /\ order = [status |-> "open", previous |-> "open"]
    /\ applied = [k \in Keys |-> 0]
    /\ upToDate = {Context}
    /\ calls = [e \in Executions |-> IdleCall]
    /\ proposals = [p \in Proposals |-> NoProposal]
    /\ earlier = {}
    /\ QuotesInit

----------------------------------------------------------------------------
\* The row after its status is changed; a halt remembers where it happened.
Moved(from, to) ==
    [status |-> to, previous |-> IF to = "manual_review" THEN from ELSE "open"]

\* findResult: a key already applied is answered from the stored result.
Start(e, k) ==
    /\ calls[e].at = "idle"
    /\ k \in Keys => applied[k] = 0
    /\ calls' = [calls EXCEPT ![e] = [IdleCall EXCEPT !.at = "find", !.key = k]]
    /\ UNCHANGED <<order, applied, upToDate, proposals, earlier, quoteVars>>

\* A gated command names a quote and a fingerprint; expiry is judged by the time
\* of the request, and like a wrong fingerprint it leads to manual review.
StartGated(e, c, k, q, rightFingerprint) ==
    /\ calls[e].at = "idle"
    /\ k \in Keys => applied[k] = 0
    /\ calls' = [calls EXCEPT ![e] =
                    [IdleCall EXCEPT !.at = "find", !.command = c, !.key = k, !.quote = q,
                                     !.sound = rightFingerprint /\ ~quotes[q].expired]]
    /\ UNCHANGED <<order, applied, upToDate, proposals, earlier, quoteVars>>

\* store.find: the command is applied to the row as it is here; its version is
\* compared when the result is committed.
Find(e) ==
    /\ calls[e].at = "find"
    /\ upToDate' = upToDate \cup {e}
    /\ calls' = [calls EXCEPT ![e].at = IF calls[e].command \in Gated THEN "quote" ELSE "commit",
                              ![e].found = order.status]
    /\ UNCHANGED <<order, applied, proposals, earlier, quoteVars>>

\* A call that ends forgets the version it read.
StillWorking(e) == IF calls'[e].at = "idle" THEN upToDate \ {e} ELSE upToDate

\* The call goes to its commit with a command, and is done with its quote.
Committing(e, command) ==
    [calls[e] EXCEPT !.at = "commit", !.command = command, !.quote = 0, !.sound = TRUE]

Halting(e) == Committing(e, "mark_manual_review")

\* evaluateBase and the approval, on the record as it is read here.
ReadQuote(e) ==
    LET q == calls[e].quote
    IN  /\ calls[e].at = "quote"
        /\ calls' = [calls EXCEPT ![e] =
              CASE ~Active(q) -> Halting(e)
                [] Active(q) /\ Final(q) # (calls[e].command = "mark_funding_pending") -> IdleCall
                [] OTHER -> IF ~calls[e].sound THEN Halting(e)
                            ELSE IF quotes[q].approval = "required" THEN IdleCall
                            ELSE [calls[e] EXCEPT !.at = "confirmations"]]
        /\ upToDate' = StillWorking(e)
        /\ UNCHANGED <<order, applied, proposals, earlier, quoteVars>>

\* The quote cannot be read: RISK_QUOTE_STATE_UNKNOWN becomes manual review.
QuoteUnknown(e) ==
    /\ calls[e].at = "quote"
    /\ calls' = [calls EXCEPT ![e] = Halting(e)]
    /\ UNCHANGED <<order, applied, upToDate, proposals, earlier, quoteVars>>

\* Mutant: the publisher's confirmation alone is enough.
AgreedByPublisher(q) == "publisher" \in quotes[q].confirmed

Agreed(q) == Required(q) \subseteq quotes[q].confirmed

ReadConfirmations(e) ==
    /\ calls[e].at = "confirmations"
    /\ calls' = [calls EXCEPT ![e] = IF Agreed(calls[e].quote)
                                     THEN Committing(e, calls[e].command) ELSE IdleCall]
    /\ upToDate' = StillWorking(e)
    /\ UNCHANGED <<order, applied, proposals, earlier, quoteVars>>

\* The process dies, or a query throws, before the commit.
Abandon(e) ==
    /\ calls[e].at # "idle"
    /\ calls' = [calls EXCEPT ![e] = IdleCall]
    /\ upToDate' = upToDate \ {e}
    /\ UNCHANGED <<order, applied, proposals, earlier, quoteVars>>

----------------------------------------------------------------------------
\* Mutant: the idempotency rows are not looked at again under the lock.
AlreadyAppliedUnchecked(k) == FALSE

AlreadyApplied(k) == k \in Keys /\ applied[k] > 0

UnchangedSinceFind(e) == e \in upToDate

\* applyOrderCommand and store.commit, one transaction under the row's lock.
Apply(e, command) ==
    LET rule == Rules[command]
        k == calls[e].key
    IN  /\ calls[e].at = "commit"
        /\ command \in Carried(calls[e].command)
        /\ ~AlreadyApplied(k)
        /\ UnchangedSinceFind(e)
        /\ calls[e].found \in rule.from
        /\ order' = Moved(calls[e].found, rule.to)
        /\ applied' = IF k \in Keys THEN [applied EXCEPT ![k] = @ + 1] ELSE applied
        /\ upToDate' = {}
        /\ earlier' = IF rule.to = "manual_review"
                      THEN {p \in Proposals : proposals[p] # NoProposal} ELSE earlier
        /\ calls' = [calls EXCEPT ![e] = IdleCall]
        /\ UNCHANGED <<proposals, quoteVars>>

\* Another execution applied the key first, or wrote the row, or the command
\* does not fit the status: the call ends with an answer or an error.
Refuse(e) ==
    /\ calls[e].at = "commit"
    /\ \/ AlreadyApplied(calls[e].key)
       \/ ~UnchangedSinceFind(e)
       \/ \E command \in Carried(calls[e].command) : calls[e].found \notin Rules[command].from
    /\ calls' = [calls EXCEPT ![e] = IdleCall]
    /\ upToDate' = upToDate \ {e}
    /\ UNCHANGED <<order, applied, proposals, earlier, quoteVars>>

----------------------------------------------------------------------------
\* Governance, each command one transaction that locks the row.
Halt ==
    /\ order.status \notin Terminal \cup {"manual_review"}
    /\ order' = Moved(order.status, "manual_review")
    /\ upToDate' = {}
    /\ earlier' = {p \in Proposals : proposals[p] # NoProposal}
    /\ UNCHANGED <<applied, calls, proposals, quoteVars>>

ProposeResume(o, p) ==
    /\ order.status = "manual_review"
    /\ proposals[p] = NoProposal
    /\ proposals' = [proposals EXCEPT ![p] = [proposer |-> o, previous |-> order.previous]]
    /\ upToDate' = upToDate \cup {p}
    /\ UNCHANGED <<order, applied, calls, earlier, quoteVars>>

MayReview(o, p) == proposals[p] # NoProposal /\ proposals[p].proposer # o

Reject(o, p) ==
    /\ MayReview(o, p)
    /\ proposals' = [proposals EXCEPT ![p] = NoProposal]
    /\ upToDate' = upToDate \ {p}
    /\ earlier' = earlier \ {p}
    /\ UNCHANGED <<order, applied, calls, quoteVars>>

\* Mutant: the status is compared, the version is not.
SameHaltByStatus(p) == order.previous = proposals[p].previous

\* version(row, expected_version) and the status that was proposed.
SameHalt(p) == p \in upToDate /\ order.previous = proposals[p].previous

Approve(o, p) ==
    /\ MayReview(o, p)
    /\ order.status = "manual_review"
    /\ SameHalt(p)
    /\ order' = Moved("manual_review", order.previous)
    /\ upToDate' = {}
    /\ proposals' = [proposals EXCEPT ![p] = NoProposal]
    /\ earlier' = earlier \ {p}
    /\ UNCHANGED <<applied, calls, quoteVars>>

----------------------------------------------------------------------------
\* The risk context is renewed for the row's version.
RenewContext ==
    /\ upToDate' = upToDate \cup {Context}
    /\ UNCHANGED <<order, applied, calls, proposals, earlier, quoteVars>>

\* loadAuthoritativeTask: a halted or disputed order has no authoritative task,
\* nor has one whose risk context is of another version.
Quotable == order.status \notin {"manual_review", "disputed"} /\ Context \in upToDate

Pricing ==
    /\ \/ SaveGraph \/ SaveProgress \/ PriceNodes
       \/ Quotable /\ AskAssessor
       \/ Quotable /\ \E reviewed \in Reviews : Issue(reviewed)
       \/ GiveUpPricing
       \/ \E q \in DOMAIN quotes :
             \/ Quotable /\ \E who \in Parties : Confirm(q, who)
             \/ ApproveManual(q)
             \/ Expire(q)
    /\ UNCHANGED orderVars

Execute(e) ==
    \/ \E k \in Keys \cup {FreshKey} :
          \/ Start(e, k)
          \/ \E c \in Gated, q \in DOMAIN quotes, right \in BOOLEAN : StartGated(e, c, k, q, right)
    \/ Find(e) \/ ReadQuote(e) \/ QuoteUnknown(e) \/ ReadConfirmations(e)
    \/ Abandon(e) \/ Refuse(e)
    \/ \E command \in Commands : Apply(e, command)

Governance ==
    \/ Halt
    \/ \E o \in Operators, p \in Proposals :
          ProposeResume(o, p) \/ Reject(o, p) \/ Approve(o, p)

Next ==
    \/ Pricing
    \/ RenewContext
    \/ \E e \in Executions : Execute(e)
    \/ Governance

Spec == Init /\ [][Next]_vars

-----------------------------------------------------------------------------
\* What the order service, the quote gate and governance guarantee together.

\* The row, its readers, the calls and the quotes keep their types.
OrderTypeOK ==
    /\ order \in [status : Statuses, previous : Statuses \ {"manual_review"}]
    /\ order.status # "manual_review" => order.previous = "open"
    /\ applied \in [Keys -> Nat]
    /\ upToDate \subseteq Executions \cup Proposals \cup {Context}
    /\ calls \in [Executions -> [at : {"idle", "find", "quote", "confirmations", "commit"},
                                 command : Gated \cup {"ungated", "mark_manual_review"}, key : Keys \cup {FreshKey},
                                 quote : 0..MaxQuotes, sound : BOOLEAN, found : Statuses]]
    /\ proposals \in [Proposals -> [proposer : Operators \cup {Nobody},
                                    previous : Statuses \ {"manual_review"}]]
    /\ earlier \subseteq Proposals
    /\ QuotesTypeOK

\* A command sent again with its key, by however many calls at once and with
\* halts and other commands in between, is applied once at most; and a row
\* remembers a status to return to only while it is halted.
AppliedAtMostOnce == OrderTypeOK /\ \A k \in Keys : applied[k] <= 1

\* An order goes to funding or to matching only on a quote to which everybody
\* it concerns agreed, approved where that was required, although the gate
\* reads the quote and its confirmations outside the order's transaction.
MovedOnAgreement ==
    [][order'.status \in {"funding_pending", "matching"} /\ order.status # "manual_review"
            /\ order'.status # order.status =>
          \E q \in DOMAIN quotes :
              /\ Final(q) <=> order'.status = "funding_pending"
              /\ Required(q) \subseteq quotes[q].confirmed
              /\ quotes[q].approval # "required"]_vars

\* Calls that read an order before it was halted, settled or refunded change it no
\* more.  A halted order moves only back to where it was, by two different people,
\* one of whom proposed it during this very halt, whatever was proposed before; and
\* a settled or refunded one, which governance leaves alone too, never.
ResumedByTwo ==
    [][/\ order.status \in Terminal => order' = order
       /\ order.status = "manual_review" /\ order' # order =>
             /\ order'.status = order.previous
             /\ \E o \in Operators, p \in Proposals \ earlier :
                   Approve(o, p) /\ o # proposals[p].proposer]_vars

\* However long the assessor takes and whatever is halted or revised meanwhile,
\* quotes are issued and confirmed only for the task as it is at that moment,
\* and never while the order is halted or in dispute.
PricingFollowsTheTask ==
    [][\A q \in DOMAIN quotes' :
          (q \notin DOMAIN quotes \/ quotes'[q].confirmed # quotes[q].confirmed) =>
              /\ q = Len(quotes')
              /\ Loadable /\ quotes'[q].fingerprint = terms
              /\ order.status \notin {"manual_review", "disputed"}]_vars

\* The design's "a substantial change of the task, its budget, its graph or its
\* team requires a new quote, confirmed by both sides": an order is funded on
\* the task's current terms.
FundedOnCurrentTerms ==
    [][order'.status = "funding_pending" /\ order.status \in {"open", "assigned"} =>
          \E q \in DOMAIN quotes :
              Active(q) /\ quotes[q].fingerprint = terms]_vars
=============================================================================
