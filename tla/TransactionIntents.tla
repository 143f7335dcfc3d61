------------------------- MODULE TransactionIntents -------------------------
(***************************************************************************)
(* What a wallet may be asked to sign.  A request names a resource and a    *)
(* method; the route authorises it against the task as it stands, binds    *)
(* contract and arguments to the record, and stores an intent under an     *)
(* identifier that the actor, the resource, the method and the arbiter's   *)
(* review determine.  The browser hands the stored intent to the wallet.   *)
(*                                                                         *)
(* The read of the record and the insert of the intent are two steps of a  *)
(* request; the task, its agent and its review may change between them.    *)
(***************************************************************************)
EXTENDS Integers, FiniteSets, Sequences

CONSTANTS
    TaskPublisher, TaskAgents, Committee, Arbiter,  \* wallets
    TaskBudget,     \* budgetAtomic of the task
    Methods,        \* methods that are asked for
    Amounts,        \* amounts and deadlines that a client brings along
    Spenders,       \* contracts it may name as the spender of an approval
    Requesters,     \* concurrent requests
    Visited, Holders,   \* bounds: statuses the task visits, wallets that open accounts
    MaxRevision, MaxReviews, MaxIntents, MaxSent

IntentWallets == {TaskPublisher, Arbiter} \cup TaskAgents \cup Committee
NoAgent == "no agent"

VARIABLES
    taskRow,    \* status, version and agent's wallet of the task
    accounts,   \* the wallets with a chain account resource
    rulings,    \* chain_arbitration_reviews, in the order of their creation
    building,   \* building[q]: where q stands, and what it has built
    intents,    \* chain_transactions as they are created
    handed      \* transactions handed to a wallet, with what came back

intentVars == <<taskRow, accounts, rulings, building, intents, handed>>

Resources == {"task", "account"}
TaskStatuses == {"open", "funding_pending", "funded", "matching", "assigned", "in_progress",
                 "submitted", "accepted", "disputed", "settled", "refunded", "cancelled"}
ActiveStatuses == TaskStatuses \ {"refunded", "cancelled"}

MethodStatuses(m) ==
    CASE m \in {"createTask", "createWorkflowTask"} -> {"open", "funding_pending"}
      [] m = "assignAgent" -> {"matching", "assigned"}
      [] m = "acceptTask" -> {"assigned"}
      [] m \in {"submitWork", "timeoutTask"} -> {"in_progress"}
      [] m = "acceptWork" -> {"submitted", "accepted"}
      [] m = "openDispute" -> {"in_progress", "submitted", "disputed"}
      [] m = "castVote" -> {"disputed"}
      [] m = "resolveWorkflowTask" -> {"in_progress", "disputed"}
      [] OTHER -> ActiveStatuses

VaultMethods == {"stake", "unstake", "claimYield"}
MethodsOf(resource) ==
    IF resource = "account" THEN VaultMethods \cup {"approve"} ELSE Methods \ VaultMethods

\* Who may ask for method m on the task, or on the account of w.
Actors(m, resource, w) ==
    CASE resource = "account" -> {w}
      [] m = "castVote" -> Committee
      [] m = "resolveWorkflowTask" -> {Arbiter}
      [] m = "openDispute" -> {TaskPublisher, taskRow.agent}
      [] m \in {"acceptTask", "submitWork"} -> {taskRow.agent}
      [] OTHER -> {TaskPublisher}

\* requireAuthorized: an account is always open.
Authorized(w, m, resource) ==
    /\ m \in MethodsOf(resource) /\ w \in Actors(m, resource, w)
    /\ resource = "account" => w \in accounts
    /\ resource = "task" => taskRow.status \in MethodStatuses(m)
    /\ m = "assignAgent" => taskRow.agent # NoAgent

----------------------------------------------------------------------------
IntentInit ==
    /\ taskRow \in [status : Visited, revision : {1}, agent : TaskAgents \cup {NoAgent}]
    /\ accounts = {} /\ rulings = << >> /\ intents = {} /\ handed = << >>
    /\ building = [q \in Requesters |-> [at |-> "idle"]]

\* Other parts of the market move the task and choose its agent.
TaskRowMoves ==
    /\ taskRow.revision < MaxRevision
    /\ \E s \in Visited, a \in TaskAgents \cup {taskRow.agent} :
         taskRow' = [status |-> s, revision |-> taskRow.revision + 1, agent |-> a]
    /\ UNCHANGED <<accounts, rulings, building, intents, handed>>

\* createChainAccount: the account of a wallet is found if it is there.
CreateAccount(w) ==
    /\ w \in Holders \ accounts /\ accounts' = accounts \cup {w}
    /\ UNCHANGED <<taskRow, rulings, building, intents, handed>>

\* recordArbitrationReview supersedes the review before it, all in one transaction.
RecordReview(agentsWin) ==
    /\ Authorized(Arbiter, "resolveWorkflowTask", "task") /\ Len(rulings) < MaxReviews
    /\ rulings' = Append([i \in DOMAIN rulings |-> [rulings[i] EXCEPT !.superseded = TRUE]],
         [by |-> Arbiter, revision |-> taskRow.revision, agentsWin |-> agentsWin,
          superseded |-> FALSE, expired |-> FALSE])
    /\ UNCHANGED <<taskRow, accounts, building, intents, handed>>

\* Ten minutes pass, for a review and for the intent that ends with it.
ReviewExpires(i) ==
    /\ ~rulings[i].expired
    /\ rulings' = [rulings EXCEPT ![i].expired = TRUE]
    /\ UNCHANGED <<taskRow, accounts, building, intents, handed>>

\* requireResolutionReview: the review in force is of this revision and this outcome.
Reviewed(i, agentsWin) ==
    /\ rulings[i].revision = taskRow.revision /\ rulings[i].agentsWin = agentsWin
    /\ ~rulings[i].superseded /\ ~rulings[i].expired

----------------------------------------------------------------------------
\* contractForMethod and bindMethodArguments: what the client says counts only for
\* an amount, a deadline or an outcome, and for which known spender is approved; the
\* task sets the amount if the spender is named as a target.
ContractFor(m) ==
    CASE m \in {"faucet", "approve"} -> "token"
      [] m \in {"createWorkflowTask", "resolveWorkflowTask"} -> "workflowEscrow"
      [] m = "castVote" -> "committee"
      [] m \in VaultMethods -> "vault"
      [] OTHER -> "escrow"

BoundArguments(m, args) ==
    CASE m \in {"createTask", "createWorkflowTask"} ->
           [task |-> TRUE, budget |-> TaskBudget, deadline |-> args.amount]
      [] m = "assignAgent" -> [task |-> TRUE, agent |-> taskRow.agent]
      [] m \in {"castVote", "resolveWorkflowTask"} ->
           [task |-> TRUE, agentsWin |-> args.agentsWin]
      [] m = "approve" ->
           [spender |-> args.spender,
            amount |-> CASE args.asTarget /\ args.spender = "escrow" -> TaskBudget
                         [] args.asTarget /\ args.spender = "workflowEscrow" ->
                                TaskBudget + (TaskBudget * 6) \div 100
                         [] OTHER -> args.amount]
      [] m \in {"stake", "unstake"} -> [amount |-> args.amount]
      [] m \in {"faucet", "claimYield"} -> [none |-> TRUE]
      [] OTHER -> [task |-> TRUE]

ClientArguments ==
    [amount : Amounts, agentsWin : BOOLEAN, spender : Spenders, asTarget : BOOLEAN]

\* buildTransactionExpectation: what the verification will hold the chain to.
Expectation(m, i) ==
    [budget |-> TaskBudget, bond |-> (TaskBudget * 6) \div 100,
     agentWins |-> CASE i # 0 -> <<rulings[i].agentsWin>>
                     [] m = "acceptWork" -> <<TRUE>> [] m = "timeoutTask" -> <<FALSE>>
                     [] OTHER -> << >>,
     review |-> i, revision |-> IF i = 0 THEN 0 ELSE rulings[i].revision]

\* An intent on resource of w, under review i if i is not 0.
IntentOf(w, m, resource, args, i) ==
    [id |-> <<w, resource, m, i>>, from |-> w, to |-> ContractFor(m), method |-> m,
     arguments |-> BoundArguments(m, args), expectation |-> Expectation(m, i)]

\* The route up to the insert; anything that is refused ends there.
BuildIntent(q, w, m, resource) ==
    /\ building[q].at = "idle" /\ Cardinality(intents) < MaxIntents
    /\ Authorized(w, m, resource)
    /\ \E args \in ClientArguments, i \in 0..Len(rulings) :
         /\ m = "resolveWorkflowTask" => i # 0 /\ rulings[i].by = w /\ Reviewed(i, args.agentsWin)
         /\ m # "resolveWorkflowTask" => i = 0
         /\ building' = [building EXCEPT ![q] =
              [at |-> "built", intent |-> IntentOf(w, m, resource, args, i)]]
    /\ UNCHANGED <<taskRow, accounts, rulings, intents, handed>>

\* Mutant: an intent sent again replaces the one that was stored.
StoreLatest(q) ==
    /\ building[q].at = "built"
    /\ intents' = {x \in intents : x.id # building[q].intent.id} \cup {building[q].intent}
    /\ building' = [building EXCEPT ![q] = [at |-> "issued", id |-> building[q].intent.id]]
    /\ UNCHANGED <<taskRow, accounts, rulings, handed>>
\* createIntent: the first one stays; the same again is answered with it, another
\* payload or expectation under its identifier is a conflict.
StoreIntent(q) ==
    /\ building[q].at = "built"
    /\ LET built == building[q].intent
           same == {x \in intents : x.id = built.id}
       IN /\ intents' = IF same = {} THEN intents \cup {built} ELSE intents
          /\ building' = [building EXCEPT ![q] =
               IF same \subseteq {built} THEN [at |-> "issued", id |-> built.id] ELSE [at |-> "idle"]]
    /\ UNCHANGED <<taskRow, accounts, rulings, handed>>

\* sendTransactionIntent: nothing is handed over after the expiry; once it is, an
\* answer is a hash, or a failure that proves nothing, and the user may ask again.
Issued(q) == CHOOSE x \in intents : x.id = building[q].id
Expired(intent) == intent.expectation.review # 0 /\ rulings[intent.expectation.review].expired
HandToWallet(q) ==
    /\ building[q].at = "issued" /\ Len(handed) < MaxSent
    /\ handed' = IF Expired(Issued(q)) THEN handed ELSE Append(handed, Issued(q))
    /\ building' = [building EXCEPT ![q] = [at |-> "idle"]]
    /\ UNCHANGED <<taskRow, accounts, rulings, intents>>
GiveUpRequest(q) ==
    /\ building[q].at # "idle" /\ building' = [building EXCEPT ![q] = [at |-> "idle"]]
    /\ UNCHANGED <<taskRow, accounts, rulings, intents, handed>>

IntentNext ==
    \/ TaskRowMoves
    \/ \E w \in IntentWallets : CreateAccount(w)
    \/ \E o \in BOOLEAN : RecordReview(o)
    \/ \E i \in DOMAIN rulings : ReviewExpires(i)
    \/ \E q \in Requesters :
         \/ \E w \in IntentWallets, m \in Methods, r \in Resources : BuildIntent(q, w, m, r)
         \/ StoreIntent(q) \/ HandToWallet(q) \/ GiveUpRequest(q)

IntentSpec == IntentInit /\ [][IntentNext]_intentVars

----------------------------------------------------------------------------
IntentTypeOK ==
    /\ taskRow.status \in TaskStatuses /\ taskRow.revision \in 1..MaxRevision
    /\ accounts \subseteq IntentWallets /\ Len(rulings) <= MaxReviews
    /\ \A q \in Requesters : building[q].at \in {"idle", "built", "issued"}
    /\ \A x \in intents : x.method \in Methods /\ x.from \in IntentWallets

\* Repeated and crossing requests, with the task and its review changing under them,
\* never put two payloads under one identifier, and whatever a wallet was handed for
\* an identifier is what the verification will be held to: the outcome of a resolution
\* is that of the arbiter's review, bound to the version that was reviewed.
HandedAsIssued ==
    /\ \A x, y \in intents : x.id = y.id => x = y
    /\ \A n \in DOMAIN handed : handed[n] \in intents
    /\ \A x \in intents : x.method = "resolveWorkflowTask" =>
         LET i == x.expectation.review IN
         /\ rulings[i].by = x.from /\ rulings[i].revision = x.expectation.revision
         /\ <<x.arguments.agentsWin>> = x.expectation.agentWins
         /\ x.arguments.agentsWin = rulings[i].agentsWin
=============================================================================
