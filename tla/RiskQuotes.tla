------------------------------ MODULE RiskQuotes ------------------------------
(***************************************************************************)
(* The risk quotes of one task: application/risk-pricing-service.ts over   *)
(* PostgresRiskQuoteStore (risk-quote-store.ts) and the authoritative task *)
(* of postgres-risk-task-source.ts.                                        *)
(*                                                                         *)
(* The task's fingerprint is the number of its terms: 0 until the Queen    *)
(* runtime saves a task graph (quotes are preliminary), then one number    *)
(* per change of the graph, its team or their prices (quotes are final).   *)
(* The terms can be loaded while there is no graph, and when the prices    *)
(* of the graph's nodes are of the very record the runtime saved last.     *)
(***************************************************************************)
EXTENDS Naturals, Sequences, FiniteSets

CONSTANTS
    Agents,
    Team(_),        \* the agents of the task graph under some terms
    MaxTerms,       \* bound on changes of the terms
    MaxQuotes,      \* bound on quotes issued for the task
    Reviews,        \* whether assessments ask for a manual approval
    Idle            \* no assessment is under way

ASSUME QuoteConstants ==
    /\ "publisher" \notin Agents
    /\ Reviews \subseteq {"not_required", "required"}
    /\ MaxTerms \in Nat /\ MaxQuotes \in Nat /\ Idle \notin Nat
    /\ \A r \in 1..MaxTerms : Team(r) \subseteq Agents /\ Team(r) # {}

VARIABLES
    quotes,     \* agent_market.risk_quotes in the order of their versions
    terms,      \* the present terms of the task
    graph,      \* the task graph: none yet, or its nodes priced or not
    pricing     \* the terms being assessed by an issueQuote call, or Idle

taskVars == <<terms, graph>>
quoteVars == <<quotes, taskVars, pricing>>

Parties == {"publisher"} \cup Agents
Approvals == {"not_required", "required", "given"}

Quote == [fingerprint : 0..MaxTerms, confirmed : SUBSET Parties,
          approval : Approvals, expired : BOOLEAN]

QuotesTypeOK ==
    /\ quotes \in Seq(Quote) /\ Len(quotes) <= MaxQuotes
    /\ terms \in 0..MaxTerms /\ graph \in {"none", "unpriced", "priced"}
    /\ terms = 0 <=> graph = "none"
    /\ pricing \in {Idle} \cup 0..MaxTerms

QuotesInit ==
    /\ quotes = <<>>
    /\ terms = 0
    /\ graph = "none"
    /\ pricing = Idle

\* Issuing a quote supersedes the active one, so the last is the active one.
Active(q) == q = Len(quotes)

Final(q) == quotes[q].fingerprint # 0

\* Who must have confirmed the quote before the order may go on.
Required(q) ==
    IF Final(q) THEN {"publisher"} \cup Team(quotes[q].fingerprint) ELSE {"publisher"}

----------------------------------------------------------------------------
\* The runtime saves a graph: the first one, or one with a node appended or
\* amended.  The prices of its nodes are of an earlier record from then on.
SaveGraph ==
    /\ terms < MaxTerms
    /\ terms' = terms + 1
    /\ graph' = "unpriced"
    /\ UNCHANGED <<quotes, pricing>>

\* The runtime saves its progress on the same graph.
SaveProgress ==
    /\ graph = "priced"
    /\ graph' = "unpriced"
    /\ UNCHANGED <<quotes, terms, pricing>>

\* Prices of the nodes are recorded for the runtime's last record, by a writer
\* outside this repository; they may be new terms.
PriceNodes ==
    /\ graph = "unpriced"
    /\ terms' \in terms..MaxTerms /\ terms' <= terms + 1
    /\ graph' = "priced"
    /\ UNCHANGED <<quotes, pricing>>

\* authoritativeRiskTaskFromDatabase finds the graph's prices up to date.
Loadable == graph # "unpriced"

\* issueQuote up to its await on the assessor.
AskAssessor ==
    /\ pricing = Idle
    /\ Loadable
    /\ pricing' = terms
    /\ UNCHANGED <<quotes, taskVars>>

\* Mutant: the task is not loaded again under the lock.
StillPriced == TRUE

\* validateAuthority: the fingerprint must be the one that was assessed.
SamePrice == Loadable /\ pricing = terms

\* The rest of issueQuote, one transaction under the task's row lock.
Issue(reviewed) ==
    /\ pricing # Idle
    /\ Len(quotes) < MaxQuotes
    /\ SamePrice
    /\ quotes' = Append(quotes, [fingerprint |-> pricing, confirmed |-> {},
                                 approval |-> reviewed, expired |-> FALSE])
    /\ pricing' = Idle
    /\ UNCHANGED taskVars

\* The assessor fails, or the transaction finds another task than was assessed.
GiveUpPricing ==
    /\ pricing # Idle
    /\ pricing' = Idle
    /\ UNCHANGED <<quotes, taskVars>>

\* validateConfirmation: the quote is active, of the terms that are confirmed, not
\* expired, and the actor is its publisher or one of its team.
Confirmable(q, who) ==
    /\ Active(q) /\ ~quotes[q].expired
    /\ quotes[q].fingerprint = terms
    /\ who \in Required(q)

\* confirmQuote: checks and insertion are one transaction under the same lock.
Confirm(q, who) ==
    /\ Loadable /\ Confirmable(q, who)
    /\ who \notin quotes[q].confirmed
    /\ quotes' = [quotes EXCEPT ![q].confirmed = @ \cup {who}]
    /\ UNCHANGED <<taskVars, pricing>>

ApproveManual(q) ==
    /\ Active(q)
    /\ quotes[q].approval = "required"
    /\ quotes' = [quotes EXCEPT ![q].approval = "given"]
    /\ UNCHANGED <<taskVars, pricing>>

\* expiresAt passes; that of a superseded quote makes no difference to anybody.
Expire(q) ==
    /\ Active(q)
    /\ ~quotes[q].expired
    /\ quotes' = [quotes EXCEPT ![q].expired = TRUE]
    /\ UNCHANGED <<taskVars, pricing>>
=============================================================================
