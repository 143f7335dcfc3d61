-------------------------- MODULE CommercialLedger --------------------------
(***************************************************************************)
(* The commercial order of one task: children are delivered and accepted,  *)
(* income and penalties are observed outside, a manifest divides all that  *)
(* is owed, and its entries are claimed and reconciled with payouts.       *)
(*                                                                         *)
(* A command runs in one transaction that holds the locks of the task and  *)
(* of the order, so a command is a step and one that fails changes         *)
(* nothing.  A key that was used before is answered from the stored        *)
(* response, which changes nothing either, and there is always a new one.  *)
(***************************************************************************)
EXTENDS Integers, Collections

CONSTANTS
    Children,           \* child identifiers
    AgentOf,            \* AgentOf[c]: the wallet child c is assigned to
    ChildBudget,        \* ChildBudget[c]: what c earns when accepted
    Publisher, Platform,\* wallets
    Budget,             \* the task's budget
    Fee,                \* B of the accepted quote
    Deposit,            \* Deposit[w]: what w deposits under the accepted quote
    Offered,            \* income receipts a provider may show
    PayoutIds,          \* identifiers of payout receipts
    TakenElsewhere      \* receipt identifiers another order has recorded

Participants == DOMAIN Deposit

Worth(S) == Total([x \in S |-> x.amount])
NodesEarn(S) == Total([c \in S |-> ChildBudget[c]])

\* amount() on create: children are positive, and their sum is covered; the
\* publisher's deposit equals the team's, which is allocated to the token.  An income
\* of nothing is refused by amount() as well, and a state of a claim is no identifier.
ASSUME LedgerConstants ==
    /\ IsFiniteSet(Children) /\ IsFiniteSet(Participants) /\ IsFiniteSet(Offered)
    /\ \A c \in Children : ChildBudget[c] \in Nat \ {0} /\ AgentOf[c] \in Participants
    /\ Budget \in Nat /\ Fee \in Nat /\ NodesEarn(Children) <= Budget
    /\ Publisher \in Participants /\ Platform \notin Participants
    /\ Deposit \in [Participants -> Nat] /\ Total(Deposit) = 2 * Deposit[Publisher]
    /\ \A r \in Offered : r.amount \in Nat \ {0}
    /\ "unclaimed" \notin PayoutIds /\ "pending_external" \notin PayoutIds

VARIABLES
    source,     \* status of the task, at the version the order will see
    faithful,   \* every hop of it was a listed transition, its material and quote stand
    children,   \* status of each child, "none" before the order is created
    income,     \* receipts pushed to order.income
    manifest,   \* the manifest's entries, {} for null
    resolution, \* the adjudication the manifest rests on
    paid,       \* paid[e]: "unclaimed", "pending_external", or the receipt of its payout
    receipts,   \* commercial_receipts: what is recorded under an identifier
    journal     \* commercial_journal

ledgerVars == <<source, faithful, children, income, manifest, resolution,
                paid, receipts, journal>>

Lifecycle == <<"open", "funding_pending", "funded", "matching", "assigned",
               "in_progress", "submitted", "accepted", "settled">>
Creatable == {"open", "funded", "matching", "assigned", "in_progress"}

NoResolution == [outcome |-> "none", decision |-> "none"]
Unused == <<"unused">>
Identifiers == {r.id : r \in Offered} \cup PayoutIds

\* A posting of amount from one account to another; event is unique per task.
Posting(event, kind, debit, credit, amount) ==
    [event |-> event, kind |-> kind, debit |-> debit, credit |-> credit,
     amount |-> amount]

\* journal(): nothing is posted for an amount of zero, and nothing twice.
Posts(postings) ==
    /\ \A p \in postings, q \in journal : p.event # q.event
    /\ journal' = journal \cup {p \in postings : p.amount > 0}

Created == \A c \in Children : children[c] # "none"
Accepted == {c \in Children : children[c] = "accepted"}
Penalties(S) == {r \in S : r.kind = "penalty"}
Yields(S) == {r \in S : r.kind = "yield"}
ForfeitedBy(S, w) == Worth({r \in Penalties(S) : r.from = w})

LedgerInit ==
    /\ source \in Creatable /\ faithful = TRUE
    /\ children = [c \in Children |-> "none"]
    /\ income = {} /\ manifest = {} /\ resolution = NoResolution
    /\ paid = << >>
    /\ receipts = [i \in Identifiers |->
                     IF i \in TakenElsewhere THEN <<"another order's">> ELSE Unused]
    /\ journal = {}

----------------------------------------------------------------------------
\* The task's own order moves on by a transition that verifyProgress lists.
SourceAdvances ==
    /\ \E i \in 1..8 : Lifecycle[i] = source /\ source' = Lifecycle[i + 1]
    /\ UNCHANGED <<faithful, children, income, manifest, resolution, paid, receipts, journal>>

\* It is halted, revised or quoted again: an event that is not listed, other
\* material, or a quote that is no longer active.  No later state undoes it.
SourceDiverges ==
    /\ faithful /\ faithful' = FALSE
    /\ UNCHANGED <<source, children, income, manifest, resolution, paid, receipts, journal>>

\* checkSource, on every command of an existing order.
Bound == Created /\ faithful
Working == Bound /\ source # "settled"

Create ==
    /\ ~Created /\ faithful /\ source \in Creatable
    /\ children' = [c \in Children |-> "assigned"]
    /\ UNCHANGED <<source, faithful, income, manifest, resolution, paid, receipts, journal>>

MoveChild(c, from, to) ==
    /\ Working /\ manifest = {}
    /\ children[c] \in from
    /\ children' = [children EXCEPT ![c] = to]
    /\ UNCHANGED <<source, faithful, income, manifest, resolution, paid, receipts, journal>>

Submit(c) == MoveChild(c, {"assigned", "submitted"}, "submitted")
Accept(c) == MoveChild(c, {"submitted"}, "accepted")
Cancel(c) == MoveChild(c, {"assigned"}, "cancelled")

\* Who may be given income: the platform the yield that all consented to, a
\* participant the deposit of another.
Authorised(r) ==
    \/ r.kind = "yield" /\ r.to = Platform /\ r.consented
    \/ /\ r.kind = "penalty" /\ r.from \in Participants
       /\ r.to \in Participants \ {r.from}

IncomePosting(r) ==
    Posting(<<"income", r.id>>, "observed",
            IF r.kind = "penalty" THEN <<"deposit", r.from>> ELSE <<"assets">>,
            <<"pool", r.kind>>, r.amount)

\* Mutant: a deposit may be forfeited beyond its amount.
CoveredAnyway(S) == TRUE
Covered(S) == \A w \in Participants : ForfeitedBy(S, w) <= Deposit[w]

\* receipt(): true once, false when the same contents come again; the provider
\* answers with a batch, and one refused receipt fails the whole command.
ObserveIncome(batch) ==
    LET new == {r \in batch : receipts[r.id] = Unused} IN
    /\ Working /\ manifest = {}
    /\ \A r \in batch : Authorised(r) /\ receipts[r.id] \in {Unused, <<"income", r>>}
    /\ \A r, s \in batch : r.id = s.id => r = s
    /\ Covered(income \cup new)
    /\ income' = income \cup new
    /\ receipts' = [i \in Identifiers |->
                      IF \E r \in new : r.id = i
                      THEN <<"income", CHOOSE r \in new : r.id = i>> ELSE receipts[i]]
    /\ Posts({IncomePosting(r) : r \in new})
    /\ UNCHANGED <<source, faithful, children, manifest, resolution, paid>>

----------------------------------------------------------------------------
Entry(kind, of, to, amount) == [kind |-> kind, of |-> of, to |-> to, amount |-> amount]

Refund == Budget - NodesEarn(Accepted)

Entries ==
    {e \in {Entry("node", c, AgentOf[c], ChildBudget[c]) : c \in Accepted}
           \cup {Entry("platform", "fee", Platform, Fee),
                 Entry("refund", "budget", Publisher, Refund)}
           \cup {Entry(r.kind, r.id, r.to, r.amount) : r \in income}
           \cup {Entry("deposit_return", w, w, Deposit[w] - ForfeitedBy(income, w))
                   : w \in Participants} : e.amount > 0}

Adds(S) == Worth(S) = Budget + Fee + 2 * Deposit[Publisher] + Worth(Yields(income))

DebitOf(e) == IF e.kind \in {"yield", "penalty"} THEN <<"pool", e.kind>>
              ELSE IF e.kind = "platform" THEN <<"fee">>
              ELSE IF e.kind = "deposit_return" THEN <<"deposit", e.of>>
              ELSE <<"budget">>
ManifestPosting(e) ==
    Posting(<<"manifest", e.kind, e.of>>, e.kind, DebitOf(e), <<"payable", e>>, e.amount)

\* The adjudication fits: penalties only for responsibility, and only those it decided.
Settles(d) ==
    /\ d.outcome = "force_majeure" => Penalties(income) = {}
    /\ \A r \in Penalties(income) : r.decision = d.decision

NeedsResolution == Accepted # Children \/ Penalties(income) # {}

DrawManifest(d) ==
    /\ Working /\ manifest = {}
    /\ \A c \in Children : children[c] \in {"accepted", "cancelled"}
    /\ IF NeedsResolution THEN d # NoResolution /\ Settles(d) ELSE d = NoResolution
    /\ Adds(Entries)
    /\ resolution' = d
    /\ manifest' = Entries
    /\ paid' = [e \in Entries |-> "unclaimed"]
    /\ Posts({ManifestPosting(e) : e \in Entries})
    /\ UNCHANGED <<source, faithful, children, income, receipts>>

Claim(e) ==
    /\ Bound /\ paid[e] = "unclaimed"
    /\ paid' = [paid EXCEPT ![e] = "pending_external"]
    /\ UNCHANGED <<source, faithful, children, income, manifest, resolution, receipts, journal>>

Fresh(i) == receipts[i] = Unused

PaymentPosting(e) ==
    Posting(<<"payment", e.kind, e.of>>, "payment", <<"payable", e>>, <<"payments">>, e.amount)

\* The reader found a final payout i of exactly this claim.
Reconcile(e, i) ==
    /\ Bound /\ paid[e] = "pending_external"
    /\ Fresh(i)
    /\ receipts' = [receipts EXCEPT ![i] = <<"payout", e>>]
    /\ paid' = [paid EXCEPT ![e] = i]
    /\ Posts({PaymentPosting(e)})
    /\ UNCHANGED <<source, faithful, children, income, manifest, resolution>>

Resolutions == {NoResolution} \cup
    [outcome : {"force_majeure", "responsibility"}, decision : {r.decision : r \in Offered}]

LedgerNext ==
    \/ SourceAdvances \/ SourceDiverges \/ Create
    \/ \E c \in Children : Submit(c) \/ Accept(c) \/ Cancel(c)
    \/ \E batch \in SUBSET Offered : ObserveIncome(batch)
    \/ \E d \in Resolutions : DrawManifest(d)
    \/ \E e \in manifest : Claim(e) \/ \E i \in PayoutIds : Reconcile(e, i)

LedgerSpec == LedgerInit /\ [][LedgerNext]_ledgerVars

----------------------------------------------------------------------------
LedgerTypeOK ==
    /\ source \in {Lifecycle[i] : i \in 1..9} /\ faithful \in BOOLEAN
    /\ children \in [Children -> {"none", "assigned", "submitted", "accepted", "cancelled"}]
    /\ income \subseteq Offered /\ resolution \in Resolutions
    /\ \A e \in manifest : e.amount \in Nat \ {0}
    /\ DOMAIN paid = manifest /\ DOMAIN receipts = Identifiers
    /\ \A p \in journal : p.amount \in Nat \ {0}

Debits(a) == Worth({p \in journal : p.debit = a})
Credits(a) == Worth({p \in journal : p.credit = a})

\* Whatever was cancelled, forfeited or observed, and in whatever order, a drawn
\* manifest closes every account: the budget, the fee and each deposit are given out
\* to the token, the income pools are empty, and what was paid was owed
\* (the check of line 286 and the reconciliation that read() reports).
AccountsClose ==
    manifest # {} =>
        /\ Debits(<<"budget">>) = Budget /\ Debits(<<"fee">>) = Fee
        /\ \A w \in Participants : Debits(<<"deposit", w>>) = Deposit[w]
        /\ \A kind \in {"yield", "penalty"} :
             Debits(<<"pool", kind>>) = Credits(<<"pool", kind>>)
        /\ \A e \in manifest : Credits(<<"payable", e>>) = e.amount
                               /\ Debits(<<"payable", e>>) \in {0, e.amount}

\* Once every child is accepted or cancelled, no history of observations keeps the
\* manifest from adding up: the check of line 286 never strands an order.
ManifestAlwaysAdds == Created /\ manifest = {} => Adds(Entries)

\* One external transfer settles one claim: no payout receipt stands behind two
\* entries, nor behind one that another order or an income has recorded.
OneTransferPerClaim ==
    \A e, f \in manifest :
        paid[e] \in PayoutIds =>
            /\ receipts[paid[e]] = <<"payout", e>> /\ paid[e] \notin TakenElsewhere
            /\ (paid[e] = paid[f] => e = f)

\* A penalty leaves its owner's deposit only by the decision that the manifest names.
PenaltiesAreDecided ==
    manifest # {} =>
        \A e \in manifest : e.kind = "penalty" =>
            /\ resolution.outcome = "responsibility"
            /\ \E r \in income : r.id = e.of /\ r.decision = resolution.decision

\* The ledger as a whole: it closes, it can always be drawn, each claim is settled by
\* a transfer of its own, and nobody's deposit goes without the decision for it.
LedgerSettles ==
    LedgerTypeOK /\ AccountsClose /\ ManifestAlwaysAdds /\ OneTransferPerClaim /\ PenaltiesAreDecided
=============================================================================
