---------------------------- MODULE OrderDetail ----------------------------
(***************************************************************************)
(* The order page: the session it asks for, the order it caches, and the   *)
(* commands its buttons send.  What the page offers depends on the wallet  *)
(* it shows; what a request may do depends on the session it carries.  As  *)
(* all tabs of the browser share one cookie jar and log in and out as they *)
(* like, that may be a session of any of the user's wallets, or none.      *)
(* Meanwhile the order moves.                                              *)
(***************************************************************************)
EXTENDS Integers, FiniteSets

CONSTANTS
    OrderRules,         \* the table of applyOrderCommand, by command: from, to
    StartStatuses,      \* statuses the order may be in when the page is opened
    BrowserWallets,     \* the accounts this browser's user has
    MaxVersion,         \* bound of the row's version
    MaxOrphans          \* bound of commands still on their way when the page was reset

VARIABLES
    row,            \* the order at the server: version, status, agent's wallet
    pageWallet,     \* walletAddress the page is shown to
    signedInto,     \* session = "ready": the page and its query client are there
    view,           \* orderQuery.data
    newest,         \* the newest version the page was answered
    readFailed,     \* orderQuery.isError
    reading,        \* the query in flight
    mutation,       \* commandMutation
    orphans,        \* commands of a page that was reset
    effect          \* the last command executed, with the row it was applied to

detailVars == <<row, pageWallet, signedInto, view, newest, readFailed, reading, mutation, orphans, effect>>
cacheVars == <<view, newest, readFailed>>
serverVars == <<row, orphans, effect>>

Publisher == "publisher"
NobodyYet == "none"
AgentWallets == {"agent", "rival"}
Sessions == BrowserWallets \cup {NobodyYet}
NoView == [version |-> 0]
NotReading == [at |-> "idle"]
ReadsSent == [at : {"sent"}, as : Sessions]
NotMutating == [at |-> "idle"]
NoEffect == [command |-> "none"]

DetailInit ==
    /\ row \in [version : {1}, status : StartStatuses, agent : {"agent"}]
    /\ pageWallet = NobodyYet /\ signedInto = FALSE
    /\ view = NoView /\ newest = 0 /\ readFailed = FALSE /\ reading = NotReading
    /\ mutation = NotMutating /\ orphans = {} /\ effect = NoEffect

----------------------------------------------------------------------------
\* The row after a command of the table, whoever sends it; assign_agent chooses.
Executed(type, agent) ==
    [version |-> row.version + 1, status |-> OrderRules[type].to, agent |-> agent]

\* Server-side parties, the other participant and governance move the order; the
\* status a halted one returns to is not kept here.
OrderMovesOn ==
    /\ row.version < MaxVersion
    /\ \/ \E type \in DOMAIN OrderRules :
            /\ row.status \in OrderRules[type].from
            /\ \E agent \in IF type = "assign_agent" THEN AgentWallets ELSE {row.agent} :
                 row' = Executed(type, agent)
       \/ /\ row.status = "manual_review"
          /\ \E s \in StartStatuses : row' = [row EXCEPT !.version = @ + 1, !.status = s]
    /\ UNCHANGED <<pageWallet, signedInto, cacheVars, reading, mutation, orphans, effect>>

----------------------------------------------------------------------------
\* A command in flight is executed or not, but its answer finds no page.
Orphaned == IF mutation.at = "sent" THEN orphans \cup {mutation.command} ELSE orphans

\* The listeners of the wallet hook and of OrderSession: the address is gone, and
\* with it the session, the query client and the page.
ForgetWallet ==
    /\ pageWallet # NobodyYet /\ Cardinality(Orphaned) <= MaxOrphans
    /\ pageWallet' = NobodyYet /\ signedInto' = FALSE
    /\ view' = NoView /\ newest' = 0 /\ readFailed' = FALSE /\ reading' = NotReading
    /\ mutation' = NotMutating /\ orphans' = Orphaned
    /\ UNCHANGED <<row, effect>>

ShowWalletOnPage(w) ==
    /\ pageWallet = NobodyYet /\ pageWallet' = w
    /\ UNCHANGED <<row, signedInto, cacheVars, reading, mutation, orphans, effect>>

\* login(): the page is mounted, and its first query goes out.
SignInToOrder ==
    /\ pageWallet # NobodyYet /\ ~signedInto
    /\ signedInto' = TRUE /\ reading' \in ReadsSent
    /\ UNCHANGED <<pageWallet, cacheVars, mutation, serverVars>>

----------------------------------------------------------------------------
\* Retry, refocus and reconnect: the query joins one that is in flight.
ReadAgain ==
    /\ signedInto /\ reading = NotReading /\ reading' \in ReadsSent
    /\ UNCHANGED <<pageWallet, signedInto, cacheVars, mutation, serverVars>>

\* GET /api/orders/[orderId]: a participant of the order reads it.
ServeRead ==
    /\ reading.at = "sent" /\ reading.as \in {Publisher, row.agent}
    /\ reading' = [at |-> "answered", row |-> row]
    /\ UNCHANGED <<pageWallet, signedInto, cacheVars, mutation, serverVars>>

NewestOf(version) == IF version > newest THEN version ELSE newest

ReceiveRead ==
    /\ reading.at = "answered"
    /\ view' = reading.row /\ newest' = NewestOf(reading.row.version)
    /\ readFailed' = FALSE /\ reading' = NotReading
    /\ mutation' = IF mutation.at = "refreshing" THEN NotMutating ELSE mutation
    /\ UNCHANGED <<pageWallet, signedInto, serverVars>>

\* Refused, lost, or unreadable; the data there was is kept.
FailRead ==
    /\ reading # NotReading /\ reading' = NotReading /\ readFailed' = TRUE
    /\ mutation' = IF mutation.at = "refreshing" THEN NotMutating ELSE mutation
    /\ UNCHANGED <<pageWallet, signedInto, view, newest, serverVars>>

----------------------------------------------------------------------------
Role == CASE pageWallet = Publisher -> "publisher"
          [] pageWallet = view.agent -> "agent"
          [] OTHER -> "visitor"

\* availableOrderActions
Offered(status, role) ==
    CASE role = "publisher" /\ status = "open" -> {"mark_funding_pending"}
      [] role = "publisher" /\ status = "submitted" -> {"accept_delivery", "open_dispute"}
      [] role = "agent" /\ status = "assigned" -> {"accept_assignment"}
      [] role = "agent" /\ status = "in_progress" -> {"submit_artifact"}
      [] OTHER -> {}

\* runAction: a button that is not disabled.  Funding asks for a confirmed quote,
\* which the quote panel may or may not have handed over.
RunAction(type) ==
    /\ view # NoView /\ mutation = NotMutating /\ type \in Offered(view.status, Role)
    /\ \E w \in Sessions : mutation' = [at |-> "sent",
         command |-> [type |-> type, as |-> w, role |-> Role, saw |-> view.status]]
    /\ UNCHANGED <<pageWallet, signedInto, cacheVars, reading, serverVars>>

InFlight == orphans \cup IF mutation.at = "sent" THEN {mutation.command} ELSE {}

\* Mutant: whoever takes part in the order may send any of the commands.
AllowsAnyParticipant(c) ==
    c.as \in {Publisher, row.agent} /\ row.status \in OrderRules[c.type].from
\* POST /api/orders/[orderId]/commands: requireActor and requireStatus on the row.
Allows(c) ==
    /\ row.status \in OrderRules[c.type].from
    /\ c.as \in CASE c.type \in {"mark_funding_pending", "accept_delivery"} -> {Publisher}
                  [] c.type = "open_dispute" -> {Publisher, row.agent}
                  [] OTHER -> {row.agent}

\* The answer goes to the page that still waits for it, or to none.
AnswerTo(c, answer) ==
    \/ mutation.at = "sent" /\ mutation.command = c /\ mutation' = answer /\ UNCHANGED orphans
    \/ c \in orphans /\ orphans' = orphans \ {c} /\ UNCHANGED mutation

\* The gate of a funding may halt the order instead.
ExecuteCommand(c) ==
    /\ Allows(c) /\ row.version < MaxVersion
    /\ \E to \in {OrderRules[c.type].to}
                 \cup IF c.type = "mark_funding_pending" THEN {"manual_review"} ELSE {} :
         row' = [row EXCEPT !.version = @ + 1, !.status = to]
    /\ effect' = [command |-> c, before |-> row]
    /\ AnswerTo(c, [at |-> "answered", row |-> row'])
    /\ UNCHANGED <<pageWallet, signedInto, cacheVars, reading>>

\* Not allowed, not authenticated, or never arrived.
RefuseCommand(c) ==
    /\ AnswerTo(c, NotMutating)
    /\ UNCHANGED <<row, effect, pageWallet, signedInto, cacheVars, reading>>

\* Mutant: a query in flight is left to answer after the command.
KeepsOlderRead == IF reading = NotReading THEN ReadsSent ELSE {reading}
\* invalidateQueries cancels the query in flight and starts another.
Refetched == ReadsSent

\* onSuccess: the answer is the data until the order is read again.
ReceiveCommand ==
    /\ mutation.at = "answered"
    /\ view' = mutation.row /\ newest' = NewestOf(mutation.row.version) /\ readFailed' = FALSE
    /\ reading' \in Refetched /\ mutation' = [at |-> "refreshing"]
    /\ UNCHANGED <<pageWallet, signedInto, serverVars>>

LoseAnswer ==
    /\ mutation.at = "answered" /\ mutation' = NotMutating
    /\ UNCHANGED <<pageWallet, signedInto, cacheVars, reading, serverVars>>

DetailNext ==
    \/ OrderMovesOn \/ ForgetWallet \/ SignInToOrder
    \/ \E w \in BrowserWallets : ShowWalletOnPage(w)
    \/ ReadAgain \/ ServeRead \/ ReceiveRead \/ FailRead
    \/ \E type \in DOMAIN OrderRules : RunAction(type)
    \/ \E c \in InFlight : ExecuteCommand(c) \/ RefuseCommand(c)
    \/ ReceiveCommand \/ LoseAnswer

DetailSpec == DetailInit /\ [][DetailNext]_detailVars

----------------------------------------------------------------------------
\* The wallet that plays a role in the order.
Playing(role, order) == IF role = "publisher" THEN Publisher ELSE order.agent

\* Whatever session the shared cookie stands for, however long a command takes, and
\* however the page is reset and clicked again meanwhile: a command takes effect
\* from the status the page showed and as the party to which it showed the button,
\* although neither is sent along.  Two effects the service allows are excepted: an
\* order assigned since is funded anew, and a dispute of a delivery accepted since,
\* or in the other participant's session, is opened.
ActsAsShown ==
    effect # NoEffect =>
        LET c == effect.command IN
        /\ \/ effect.before.status = c.saw
           \/ c.type = "mark_funding_pending" /\ effect.before.status = "assigned"
           \/ c.type = "open_dispute" /\ effect.before.status = "accepted"
        /\ c.as = Playing(c.role, effect.before) \/ c.type = "open_dispute"

\* Queries and the answers of commands overtake each other, and a command's answer
\* may take the page back to an older order; but then it is being read again, or the
\* page knows that this failed.
CatchesUp == view.version < newest => reading # NotReading \/ readFailed
=============================================================================
