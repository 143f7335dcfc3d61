--------------------------- MODULE PlanningConsole ---------------------------
(***************************************************************************)
(* The publisher's planning console: the page (LocalAgentsPage.tsx), its   *)
(* client (queenPlanningClient.ts), the edge's proxy (pages-worker.ts),    *)
(* the gateway, and the services that queue a plan, record an approval and *)
(* read both back.  Presses, answers, time-outs, account switches and the  *)
(* planner's progress come in any order; a request given up may still be   *)
(* served.  QueenAsyncWorker has what the planner does with the queue, and *)
(* WalletSessions the tab's logins and logouts in detail.                  *)
(***************************************************************************)
EXTENDS Naturals, FiniteSets

CONSTANTS
    Owner, Wallets,         \* the task's publisher; wallets the browser connects
    PlanningEnabled,        \* planningEnabled /\ workerReady
    MaxVersion, MaxRevision, MaxReads, MaxFlying
        \* bounds: task versions, switches, readings, requests under way

ASSUME ConsoleConstants ==
    /\ Owner \in Wallets /\ PlanningEnabled \in BOOLEAN
    /\ {MaxVersion, MaxRevision, MaxReads, MaxFlying} \subseteq Nat /\ MaxVersion >= 1

VARIABLES
    task,       \* [version, open]
    asked,      \* task version -> its planning request
    wallet,     \* the account connected
    session,    \* [revision, vetoed, jar, leaving]: walletSession.ts and the cookie
    page,       \* [busy, step, shown, client]
    flying,     \* requests sent and not served, [live, action, jar, body]
    reads,      \* readings so far
    rested      \* readings a proposal or confirmation was sent on

consoleVars == <<task, asked, wallet, session, page, flying, reads, rested>>

None == [none |-> TRUE]
NotAsked == [asked |-> FALSE]
Mutations == {"propose", "confirm"}
AtRest == [busy |-> "no", step |-> None, shown |-> None, client |-> None]

ConsoleInit ==
    /\ task = [version |-> 1, open |-> TRUE] /\ asked = [v \in 1..MaxVersion |-> NotAsked]
    /\ wallet \in Wallets
    /\ session = [revision |-> 0, vetoed |-> TRUE, jar |-> "none", leaving |-> FALSE]
    /\ page = AtRest /\ flying = {} /\ reads = 0 /\ rested = {}

-----------------------------------------------------------------------------
(* The services behind the gateway.                                        *)
AskedVersions == {v \in DOMAIN asked : asked[v] # NotAsked}
StillCurrent(v) == asked[v].live /\ v = task.version /\ task.open

\* readQueenPlanningStatus: the request of the latest version, in one snapshot.
Status ==
    IF AskedVersions = {} THEN [version |-> task.version, open |-> task.open, request |-> None,
                                canApprove |-> FALSE]
    ELSE LET v == CHOOSE w \in AskedVersions : \A x \in AskedVersions : x <= w
             r == asked[v] IN
         [version |-> task.version, open |-> task.open,
          request |-> [version |-> v, current |-> StillCurrent(v), planning |-> r.planning,
                       approved |-> r.approved],
          canApprove |-> StillCurrent(v) /\ r.planning = "committed" /\ ~r.approved]

\* canConfirmQueenPlanning checks again what the server said.
CanConfirm(status) ==
    /\ status.canApprove /\ status.open /\ status.request # None
    /\ status.request.current /\ status.request.version = status.version
    /\ status.request.planning = "committed" /\ ~status.request.approved

\* parseQueenPlanningStatus: what the page accepts as a reading.
Parses(status) ==
    /\ status.request = None => ~status.canApprove
    /\ status.canApprove => CanConfirm(status)

RequestQueenPlanning(version) ==
    IF asked[version] = NotAsked
    THEN asked' = [asked EXCEPT ![version] =
                    [asked |-> TRUE, live |-> TRUE, planning |-> "unobserved", ready |-> FALSE,
                     approved |-> FALSE]]
    ELSE asked[version].live /\ UNCHANGED asked
MayApprove(version) ==
    /\ asked[version] # NotAsked /\ StillCurrent(version)
    /\ asked[version].approved \/ asked[version].ready
RecordQueenPlanningApproval(version) ==
    /\ MayApprove(version)
    /\ asked' = [asked EXCEPT ![version].approved = TRUE]

(* What changes without the console.                                       *)
Background ==
    /\ \/ /\ task.open /\ task.version < MaxVersion
          /\ task' = [task EXCEPT !.version = @ + 1] /\ UNCHANGED asked
       \/ task.open /\ task' = [task EXCEPT !.open = FALSE] /\ UNCHANGED asked
       \/ /\ UNCHANGED task
          /\ \E v \in AskedVersions :
               \/ asked[v].live /\ asked' = [asked EXCEPT ![v].live = FALSE]
               \/ /\ asked[v].planning = "unobserved"
                  /\ asked' = [asked EXCEPT ![v].planning = "executing"]
               \/ /\ asked[v].planning = "executing" /\ ~asked[v].ready
                  /\ asked' = [asked EXCEPT ![v].ready = TRUE]
               \/ /\ asked[v].planning = "executing"
                  /\ \E end \in {"uncertain"} \cup {e \in {"committed"} : asked[v].ready} :
                       asked' = [asked EXCEPT ![v].planning = end]
    /\ UNCHANGED <<wallet, session, page, flying, reads, rested>>

-----------------------------------------------------------------------------
(* The wallet session of this tab.                                         *)
Signed == ~session.vetoed
\* clearPlanning, from the session's listener or the page's effect.
Abandoned(requests) == {[r EXCEPT !.live = FALSE] : r \in requests}
ClearPlanning == page' = AtRest /\ flying' = Abandoned(flying)

SwitchAccount(w) ==
    /\ w # wallet /\ session.revision < MaxRevision
    /\ wallet' = w /\ ClearPlanning
    /\ \E jar \in {session.jar} \cup {x \in {wallet} : page.step = [at |-> "login"]} :
         session' = [revision |-> session.revision + 1, vetoed |-> TRUE, jar |-> jar, leaving |-> TRUE]
    /\ UNCHANGED <<task, asked, reads, rested>>
\* The queued logout; a login waits for it.
Logout ==
    /\ session.leaving /\ session' = [session EXCEPT !.leaving = FALSE, !.jar = "none"]
    /\ UNCHANGED <<task, asked, wallet, page, flying, reads, rested>>
\* The server ends sessions on its own; the tab learns at the next answer.
SessionEnds ==
    /\ session.jar # "none" /\ session' = [session EXCEPT !.jar = "none"]
    /\ UNCHANGED <<task, asked, wallet, page, flying, reads, rested>>

-----------------------------------------------------------------------------
(* One action of the page, runPlanningAction.                              *)
LivePlanning ==
    IF page.shown # None /\ page.shown.wallet = wallet /\ page.shown.revision = session.revision
    THEN page.shown.value ELSE None

Press(action) ==
    /\ page.busy = "no"
    /\ action \in Mutations => LivePlanning # None
    /\ action = "confirm" => CanConfirm(LivePlanning)
    /\ page' = [page EXCEPT !.busy = action,
                  !.step = IF action = "login" THEN [at |-> "login"] ELSE [at |-> "send", what |-> action]]
    /\ UNCHANGED <<task, asked, wallet, session, flying, reads, rested>>

\* Any failure takes the reading away, so that only a new one re-opens the buttons.
KeepsReading == page.shown
NoReading == None
Failed(auth) ==
    page' = [busy |-> "no", step |-> None, shown |-> NoReading,
             client |-> IF auth THEN None ELSE page.client]

\* authenticateWalletSession.  One that fails voids the session, which clears the page.
LogIn ==
    /\ page.step = [at |-> "login"] /\ ~session.leaving
    /\ \/ /\ session' = [session EXCEPT !.vetoed = FALSE, !.jar = wallet]
          /\ page' = [page EXCEPT !.client = [expected |-> session.revision],
                                  !.step = [at |-> "send", what |-> "read"]]
          /\ UNCHANGED flying
       \/ /\ session.revision < MaxRevision
          /\ session' = [session EXCEPT !.revision = @ + 1, !.vetoed = TRUE, !.leaving = TRUE]
          /\ ClearPlanning
    /\ UNCHANGED <<task, asked, wallet, reads, rested>>

\* assertCurrent, then the request leaves with the cookie of the moment.
Send ==
    /\ page.step # None /\ page.step.at = "send"
    /\ LET what == page.step.what
           expected == IF page.client = None THEN session.revision ELSE page.client.expected IN
       IF session.revision # expected \/ ~Signed
       THEN Failed(TRUE) /\ UNCHANGED <<flying, rested>>
       ELSE IF what = "propose" /\ ~LivePlanning.open
       THEN Failed(FALSE) /\ UNCHANGED <<flying, rested>>
       ELSE /\ Cardinality(flying) < MaxFlying
            /\ page' = [page EXCEPT !.client = [expected |-> expected],
                                    !.step = [at |-> "wait", what |-> what]]
            /\ flying' = flying \cup
                 {[live |-> TRUE, action |-> what, jar |-> session.jar,
                   body |-> IF what \in Mutations THEN LivePlanning.version ELSE 0]}
            /\ rested' = rested \cup (IF what \in Mutations THEN {page.shown.reading} ELSE {})
    /\ UNCHANGED <<task, asked, wallet, session, reads>>

\* The answer of the service, through the proxies, to a page still waiting.
Answered(r, status) ==
    IF r.live /\ r.action \in Mutations
    THEN /\ page' = [page EXCEPT !.shown = NoReading, !.step = [at |-> "send", what |-> "read"]]
         /\ UNCHANGED reads
    ELSE IF r.live
    THEN /\ reads < MaxReads /\ reads' = reads + 1
         /\ page' = [page EXCEPT !.busy = "no", !.step = None,
              !.shown = [wallet |-> wallet, revision |-> session.revision, reading |-> reads + 1,
                         value |-> status]]
    ELSE UNCHANGED <<page, reads>>
Refused(r, auth) == IF r.live THEN Failed(auth) ELSE UNCHANGED page

Serve(r) ==
    /\ r \in flying /\ flying' = flying \ {r}
    /\ IF r.jar = "none" \/ r.jar # session.jar      \* the cookie is no session any more
       THEN Refused(r, TRUE) /\ UNCHANGED <<asked, reads>>
       ELSE LET fits == /\ r.jar = Owner
                        /\ r.action \in Mutations => PlanningEnabled
                        /\ r.action \in Mutations => task.open /\ r.body = task.version IN
            \/ /\ fits
               /\ \/ r.action = "read" /\ Parses(Status) /\ UNCHANGED asked
                  \/ r.action = "propose" /\ RequestQueenPlanning(r.body)
                  \/ r.action = "confirm" /\ RecordQueenPlanningApproval(r.body)
               /\ Answered(r, Status)
            \/ /\ \/ ~fits
                  \/ r.action = "propose" /\ asked[r.body] # NotAsked /\ ~asked[r.body].live
                  \/ r.action = "read" /\ ~Parses(Status)
                  \/ r.action = "confirm" /\ ~MayApprove(r.body)
               /\ Refused(r, FALSE) /\ UNCHANGED <<asked, reads>>
    /\ UNCHANGED <<task, wallet, session, rested>>

\* The edge's ten seconds, the client's twelve or the network: the page is
\* told nothing of the request, which may be served yet or be lost.
GiveUp(r) ==
    /\ r \in flying /\ r.live
    /\ flying' = (flying \ {r}) \cup {[r EXCEPT !.live = FALSE]}
    /\ Failed(FALSE) /\ UNCHANGED <<task, asked, wallet, session, reads, rested>>
Lose(r) ==
    /\ r \in flying /\ ~r.live /\ flying' = flying \ {r}
    /\ UNCHANGED <<task, asked, wallet, session, page, reads, rested>>

ConsoleNext ==
    \/ Background \/ Logout \/ SessionEnds \/ LogIn \/ Send
    \/ \E w \in Wallets : SwitchAccount(w)
    \/ \E action \in {"read", "login"} \cup Mutations : Press(action)
    \/ \E r \in flying : Serve(r) \/ GiveUp(r) \/ Lose(r)

ConsoleSpec == ConsoleInit /\ [][ConsoleNext]_consoleVars

-----------------------------------------------------------------------------
(* A plan is shown to its publisher only, whichever account was connected  *)
(* while an answer was under way.  Each reading carries at most one        *)
(* proposal or confirmation: when one's answer was lost the publisher must *)
(* read back before the buttons work again ("do not assume a mutation      *)
(* failed", LocalAgentsPage.tsx).  An approval is recorded only of the     *)
(* version that is current, open and planned, and the page never rejects   *)
(* what the service projects.                                              *)
OneDecisionPerReading ==
    [][/\ LivePlanning' # None => wallet' = Owner
       /\ Parses(Status)
       /\ page.step # None /\ page.step.at = "send" /\ page.step.what \in Mutations
            => page.shown.reading \notin rested
       /\ \A v \in DOMAIN asked :
            asked'[v] # NotAsked /\ asked'[v].approved =>
                \/ asked[v].approved
                \/ task.version = v /\ task.open /\ asked[v].live /\ asked[v].ready]_consoleVars
=============================================================================
