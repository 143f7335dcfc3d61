-------------------------- MODULE TaskPublication --------------------------
(***************************************************************************)
(* Publishing a task from the browser: a draft becomes a task at the       *)
(* server, its budget and fee are approved in one transaction, and the     *)
(* escrow is funded in another, which the page asks for only when it has   *)
(* seen the first confirmed.  The user may change the draft, give up,      *)
(* begin again and recheck in any order; any request and any prompt of the *)
(* wallet may fail, some of them after they took effect.                   *)
(***************************************************************************)
EXTENDS Integers, Sequences

CONSTANTS
    Drafts,         \* what the form may hold: its budget, and its hours until the deadline
    MaxTasks,       \* bound of the tasks created
    MaxClock        \* bound of the clock the deadline is counted from

VARIABLES
    form,           \* draft: the form as it was validated last
    stage,          \* step
    pendingTx,      \* pending: the transaction that may be rechecked
    handler,        \* the handler that runs, its next step; busy unless it is idle
    published,      \* the tasks created, each with the budget of its record
    escrowIntents,  \* task -> the deadline in its stored escrow intent, if there is one
    prompted,       \* transactions that reached the chain or may have
    confirmed,      \* those of them that are confirmed
    wallClock

publicationVars == <<form, stage, pendingTx, handler, published, escrowIntents, prompted,
                     confirmed, wallClock>>
pageVars == <<form, stage, pendingTx>>
recordVars == <<published, escrowIntents>>
chainVars == <<prompted, confirmed, wallClock>>

NoDraft == [budget |-> 0]
NoTransaction == [kind |-> "none"]
Resting == [at |-> "idle"]
NoDeadline == 0
TaskNumbers == 1..MaxTasks

Approval(t) == [kind |-> "approval", task |-> t, amount |-> published[t] + (published[t] * 6) \div 100]
Escrow(t) == [kind |-> "escrow", task |-> t, amount |-> published[t], deadline |-> escrowIntents[t]]

PublicationInit ==
    /\ form = NoDraft /\ stage = "draft" /\ pendingTx = NoTransaction /\ handler = Resting
    /\ published = << >> /\ escrowIntents = [t \in TaskNumbers |-> NoDeadline]
    /\ prompted = {} /\ confirmed = {} /\ wallClock = 1

----------------------------------------------------------------------------
\* validateDraft: a transaction that is pending stays pending.
ValidateDraft(d) ==
    /\ handler = Resting /\ form # d
    /\ form' = d /\ stage' = "wallet"
    /\ UNCHANGED <<pendingTx, handler, recordVars, chainVars>>

\* publishTask, up to the request that creates the task.
PublishTask ==
    /\ handler = Resting /\ form # NoDraft
    /\ handler' = [at |-> "create", budget |-> form.budget]
    /\ UNCHANGED <<pageVars, recordVars, chainVars>>

\* POST /api/tasks with createTaskDraft: each request is a task of its own, whether
\* its answer arrives or not.
CreateTaskDraft ==
    /\ handler.at = "create" /\ Len(published) < MaxTasks
    /\ published' = Append(published, handler.budget)
    /\ \/ handler' = [at |-> "prompt", kind |-> "approval", task |-> Len(published) + 1]
       \/ handler' = Resting
    /\ UNCHANGED <<pageVars, escrowIntents, chainVars>>

\* A request is refused, times out, or finds another wallet's session when it is
\* answered (postJson), and the handler catches it: the page is as it was.
HandlerFails ==
    /\ handler # Resting /\ handler' = Resting
    /\ UNCHANGED <<pageVars, recordVars, chainVars>>

\* sendTransactionIntent: the wallet is asked, and its hash becomes the transaction
\* to be rechecked; without one nothing proves that it was not sent.
Prompted(tx) == prompted' = prompted \cup {tx}
SendTransaction ==
    /\ handler.at = "prompt"
    /\ LET tx == IF handler.kind = "approval" THEN Approval(handler.task) ELSE Escrow(handler.task)
       IN /\ Prompted(tx)
          /\ \/ pendingTx' = tx /\ stage' = tx.kind
             \/ UNCHANGED <<pendingTx, stage>>
    /\ handler' = Resting
    /\ UNCHANGED <<form, recordVars, confirmed, wallClock>>

----------------------------------------------------------------------------
\* recheckPendingTransaction
Recheck ==
    /\ handler = Resting /\ pendingTx # NoTransaction
    /\ handler' = [at |-> "verify"]
    /\ UNCHANGED <<pageVars, recordVars, chainVars>>

\* Mutant: a transaction that is known but not yet confirmed counts.
Submitted(tx) == tx \in prompted
\* POST /api/transactions/verify answers confirmed.
Verified(tx) == tx \in confirmed

VerifyTransaction ==
    /\ handler.at = "verify" /\ Verified(pendingTx)
    /\ IF pendingTx.kind = "approval"
       THEN handler' = [at |-> "intend", task |-> pendingTx.task,
                        deadline |-> wallClock + form.hours] /\ UNCHANGED <<stage, pendingTx>>
       ELSE handler' = Resting /\ stage' = "ready" /\ pendingTx' = NoTransaction
    /\ UNCHANGED <<form, recordVars, chainVars>>

\* Mutant: the payload of a later request takes the place of the stored one.
NeverConflicts(t, deadline) == FALSE
\* createIntent: one payload for the task and the method, the same one again or none.
Conflicts(t, deadline) == escrowIntents[t] \notin {NoDeadline, deadline}

\* submitCreateTask: the deadline counts from now, with the hours of the form.
CreateEscrowIntent ==
    /\ handler.at = "intend"
    /\ IF Conflicts(handler.task, handler.deadline)
       THEN handler' = Resting /\ UNCHANGED escrowIntents
       ELSE /\ escrowIntents' = [escrowIntents EXCEPT ![handler.task] = handler.deadline]
            /\ \/ handler' = [at |-> "prompt", kind |-> "escrow", task |-> handler.task]
               \/ handler' = Resting
    /\ UNCHANGED <<pageVars, published, chainVars>>

----------------------------------------------------------------------------
ConfirmOnChain(tx) ==
    /\ tx \in prompted \ confirmed /\ confirmed' = confirmed \cup {tx}
    /\ UNCHANGED <<pageVars, handler, recordVars, prompted, wallClock>>

TimeGoesOn ==
    /\ wallClock < MaxClock /\ wallClock' = wallClock + 1
    /\ UNCHANGED <<pageVars, handler, recordVars, prompted, confirmed>>

PublicationNext ==
    \/ \E d \in Drafts : ValidateDraft(d)
    \/ PublishTask \/ CreateTaskDraft \/ HandlerFails \/ SendTransaction
    \/ Recheck \/ VerifyTransaction \/ CreateEscrowIntent
    \/ \E tx \in prompted : ConfirmOnChain(tx)
    \/ TimeGoesOn

PublicationSpec == PublicationInit /\ [][PublicationNext]_publicationVars

----------------------------------------------------------------------------
\* However often the user begins again, rechecks, or loses an answer, the wallet is
\* asked for one escrow payload per task at most, and only after the approval of that
\* very task's budget and fee was confirmed, whatever the form says by then; and the
\* page says that funding is verified only when such a transaction was confirmed.
FundsWhatWasApproved ==
    /\ \A x, y \in prompted : x.kind = "escrow" =>
         /\ Approval(x.task) \in confirmed
         /\ y.kind = "escrow" /\ x.task = y.task => x = y
    /\ stage = "ready" => \E x \in confirmed : x.kind = "escrow"
=============================================================================
