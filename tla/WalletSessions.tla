--------------------------- MODULE WalletSessions ---------------------------
(***************************************************************************)
(* A user's wallet, the tabs of one browser and the server's sessions.     *)
(* The tabs share one cookie; each orders its own logins and logouts in a  *)
(* queue, and tells the others only that whatever they hold is void.  The  *)
(* wallet's events, the broadcasts and the answers of the server arrive    *)
(* when they arrive.  The second half is the server's side of a login.     *)
(***************************************************************************)
EXTENDS Integers, Sequences, FiniteSets

CONSTANTS
    Tabs,           \* open tabs
    Accounts,       \* accounts of the wallet
    MaxLogins,      \* bound of logins begun
    MaxSwitches     \* bound of changes of the wallet's account

VARIABLES
    account,    \* the account the wallet answers with
    switches,   \* how often it was changed
    notices,    \* notices[t]: the wallet's events and broadcasts on their way to t
    needsAuth,  \* needsAuthentication
    cleanup,    \* cleanupRequired
    shown,      \* shown[t]: the address in the wallet hook's state
    jobs,       \* jobs[t]: the queue of the tab, its head under way
    signedIn,   \* authenticatedWalletAddress of the chain client
    logins,     \* how many logins were begun
    cookie      \* the session in the cookie jar

walletVars == <<account, switches, notices, needsAuth, cleanup, shown, jobs, signedIn,
                logins, cookie>>
flagVars == <<needsAuth, cleanup, shown, signedIn>>

None == "none"
NoCookie == [wallet |-> None, live |-> FALSE]
LogoutJob == [kind |-> "logout", at |-> "logout", wallet |-> None, late |-> FALSE]
LoginJob(w) == [kind |-> "login", at |-> "queued", wallet |-> w, late |-> FALSE]

WalletInit ==
    /\ account \in Accounts /\ switches = 0
    /\ notices = [t \in Tabs |-> {}]
    /\ needsAuth = [t \in Tabs |-> TRUE] /\ cleanup = [t \in Tabs |-> FALSE]
    /\ shown = [t \in Tabs |-> None]
    /\ signedIn = [t \in Tabs |-> None]
    /\ jobs = [t \in Tabs |-> << >>] /\ logins = 0 /\ cookie = NoCookie

----------------------------------------------------------------------------
Busy(t) == jobs[t] # << >>
Job(t) == Head(jobs[t])
At(t, step) == Busy(t) /\ Job(t).at = step

\* Jobs that began under an earlier revision of the session will find out.
Outdated(queue) == [i \in DOMAIN queue |->
    IF queue[i].kind = "login" THEN [queue[i] EXCEPT !.late = TRUE] ELSE queue[i]]

\* invalidateLocal, with the listener of the wallet hook; queue is what t's
\* queue becomes.
Invalidate(t, queue) ==
    /\ needsAuth' = [needsAuth EXCEPT ![t] = TRUE]
    /\ cleanup' = [cleanup EXCEPT ![t] = TRUE]
    /\ shown' = [shown EXCEPT ![t] = None]
    /\ jobs' = [jobs EXCEPT ![t] = Outdated(queue)]
    /\ UNCHANGED signedIn

Broadcast(t, before) ==
    [u \in Tabs |-> IF u = t THEN before[u] ELSE before[u] \cup {"broadcast"}]

\* The user picks another account; every tab will hear of it.
SwitchAccount ==
    /\ switches < MaxSwitches /\ switches' = switches + 1
    /\ account' \in Accounts \ {account}
    /\ notices' = [t \in Tabs |-> notices[t] \cup {"changed"}]
    /\ UNCHANGED <<flagVars, jobs, logins, cookie>>

\* invalidateWalletSession, on an event of the wallet.
HearOfChange(t) ==
    /\ "changed" \in notices[t]
    /\ notices' = Broadcast(t, [notices EXCEPT ![t] = @ \ {"changed"}])
    /\ Invalidate(t, Append(jobs[t], LogoutJob))
    /\ UNCHANGED <<account, switches, logins, cookie>>

\* receiveInvalidation: as above, but it is not sent on.
HearBroadcast(t) ==
    /\ "broadcast" \in notices[t]
    /\ notices' = [notices EXCEPT ![t] = @ \ {"broadcast"}]
    /\ Invalidate(t, Append(jobs[t], LogoutJob))
    /\ UNCHANGED <<account, switches, logins, cookie>>

\* connect() of the hook: the account it read is shown unless the revision moved
\* before the wallet answered, which is as if it was read and shown at once.
Connect(t) ==
    /\ shown' = [shown EXCEPT ![t] = account] /\ shown # shown'
    /\ UNCHANGED <<account, switches, notices, needsAuth, cleanup, signedIn, jobs, logins, cookie>>

----------------------------------------------------------------------------
\* authenticateWalletSession(walletAddress), queued by withWalletSession.
RequestLogin(t) ==
    /\ shown[t] # None /\ logins < MaxLogins /\ logins' = logins + 1
    /\ \A i \in DOMAIN jobs[t] : jobs[t][i].kind # "login"
    /\ jobs' = [jobs EXCEPT ![t] = Append(@, LoginJob(shown[t]))]
    /\ signedIn' = [signedIn EXCEPT ![t] = None]
    /\ UNCHANGED <<account, switches, notices, needsAuth, cleanup, shown, cookie>>

Moved(t, step) == [jobs EXCEPT ![t][1].at = step]
Done(t) == [jobs EXCEPT ![t] = Tail(@)]

\* The job's turn: one whose session was invalidated meanwhile is dropped.
StartLogin(t) ==
    /\ At(t, "queued")
    /\ jobs' = IF Job(t).late THEN Done(t)
               ELSE Moved(t, IF cleanup[t] THEN "clean" ELSE "challenge")
    /\ UNCHANGED <<account, switches, notices, flagVars, logins, cookie>>

\* assertIdentity, and the revision that withWalletSession compares.
SameWallet(t) == account = Job(t).wallet
Fails(t) == jobs' = Moved(t, "failing")

\* The challenge, the wallet's signature and its verification, with the identity
\* asserted before each: nothing outside can tell which of them is under way.  The
\* server consumes the challenge when it creates the session: once, and in time.
Verify(t) ==
    /\ At(t, "challenge")
    /\ (SameWallet(t) /\ jobs' = Moved(t, "verified")) \/ Fails(t)
    /\ UNCHANGED <<account, switches, notices, flagVars, logins, cookie>>

\* The answer of /api/auth/verify sets the cookie.
ReceiveCookie(t) ==
    /\ At(t, "verified")
    /\ cookie' = [wallet |-> Job(t).wallet, live |-> TRUE]
    /\ jobs' = Moved(t, "check")
    /\ UNCHANGED <<account, switches, notices, flagVars, logins>>

InTime(t) == ~Job(t).late

EndLogin(t) ==
    /\ At(t, "check")
    /\ \/ /\ SameWallet(t) /\ InTime(t)
          /\ needsAuth' = [needsAuth EXCEPT ![t] = FALSE]
          /\ signedIn' = [signedIn EXCEPT ![t] = Job(t).wallet]
          /\ jobs' = Done(t) /\ UNCHANGED <<cleanup, shown>>
       \/ /\ ~(SameWallet(t) /\ InTime(t)) /\ Fails(t) /\ UNCHANGED flagVars
    /\ UNCHANGED <<account, switches, notices, logins, cookie>>

\* Mutant: a login that failed leaves the cookie it was given.
FailsAndKeepsCookie(t) ==
    /\ At(t, "failing")
    /\ jobs' = Done(t) /\ UNCHANGED <<flagVars, notices, account, switches, logins, cookie>>
\* The catch of withWalletSession: void everywhere, then a logout.
FailLogin(t) ==
    /\ At(t, "failing")
    /\ IF Job(t).late
       THEN jobs' = Moved(t, "logout") /\ UNCHANGED <<flagVars, notices>>
       ELSE Invalidate(t, Moved(t, "logout")[t]) /\ notices' = Broadcast(t, notices)
    /\ UNCHANGED <<account, switches, logins, cookie>>

\* POST /api/auth/logout revokes the session of the cookie it carries; its answer
\* clears the jar.  A request or an answer that fails leaves the cookie.
SendLogout(t) ==
    /\ At(t, "logout") \/ At(t, "clean")
    /\ cookie' = [cookie EXCEPT !.live = FALSE]
    /\ jobs' = Moved(t, IF At(t, "clean") THEN "cleaning" ELSE "leaving")
    /\ UNCHANGED <<account, switches, notices, flagVars, logins>>
AfterLogout(t) == IF At(t, "cleaning") THEN Moved(t, "challenge") ELSE Done(t)
ReceiveLogout(t) ==
    /\ At(t, "leaving") \/ At(t, "cleaning")
    /\ cookie' = NoCookie
    /\ cleanup' = [cleanup EXCEPT ![t] = FALSE]
    /\ jobs' = IF Job(t).kind = "login" /\ Job(t).late /\ At(t, "cleaning")
               THEN Moved(t, "failing") ELSE AfterLogout(t)
    /\ UNCHANGED <<account, switches, notices, needsAuth, shown, signedIn, logins>>
LoseLogout(t) ==
    /\ Busy(t) /\ Job(t).at \in {"logout", "clean", "leaving", "cleaning"}
    /\ cleanup' = [cleanup EXCEPT ![t] = TRUE] /\ needsAuth' = [needsAuth EXCEPT ![t] = TRUE]
    /\ shown' = [shown EXCEPT ![t] = None]
    /\ jobs' = IF Job(t).at \in {"clean", "cleaning"} THEN Moved(t, "failing") ELSE Done(t)
    /\ UNCHANGED <<account, switches, notices, signedIn, logins, cookie>>

\* The session runs out: expires_at has passed.
Expire ==
    /\ cookie.live /\ cookie' = [cookie EXCEPT !.live = FALSE]
    /\ UNCHANGED <<account, switches, notices, flagVars, jobs, logins>>

WalletNext ==
    \/ SwitchAccount \/ Expire
    \/ \E t \in Tabs :
         \/ HearOfChange(t) \/ HearBroadcast(t) \/ Connect(t)
         \/ RequestLogin(t) \/ StartLogin(t) \/ Verify(t)
         \/ ReceiveCookie(t) \/ EndLogin(t) \/ FailLogin(t)
         \/ SendLogout(t) \/ ReceiveLogout(t) \/ LoseLogout(t)

WalletSpec == WalletInit /\ [][WalletNext]_walletVars

----------------------------------------------------------------------------
WalletTypeOK ==
    /\ account \in Accounts /\ cookie.wallet \in Accounts \cup {None}
    /\ needsAuth \in [Tabs -> BOOLEAN] /\ cleanup \in [Tabs -> BOOLEAN]
    /\ \A t \in Tabs : {shown[t], signedIn[t]} \subseteq Accounts \cup {None}

\* Between a tab and what it asked for: nothing on its way to any tab.
Settled == \A t \in Tabs : ~Busy(t) /\ notices[t] = {}

\* protectedRequest: assertWalletSessionAuthenticated lets the tab ask.
MayAsk(t) == ~needsAuth[t] /\ ~cleanup[t]

\* However logins, logouts and broadcasts of several tabs overtake each other, once
\* they have settled a live session in the jar is of the account the wallet shows and
\* some tab signed in for it, and a tab that may ask does so for no other account.
\* A logout that could not be confirmed is excepted: the tab that sent it asks for
\* nothing, but the cookie it meant to clear may have replaced another tab's.
OneIdentity ==
    Settled /\ (\A t \in Tabs : ~cleanup[t]) =>
        /\ cookie.live => cookie.wallet = account /\ \E t \in Tabs : MayAsk(t)
        /\ \A t \in Tabs : MayAsk(t) => signedIn[t] = account

-----------------------------------------------------------------------------
(***************************************************************************)
(* The server's side of a wallet login: challenges, the signed messages    *)
(* that answer them, the sessions they open and the requests that carry a  *)
(* session.  Verifying reads the challenge, then checks the message at an  *)
(* instant it remembers, then consumes the challenge and opens the session *)
(* in one transaction; others do the same meanwhile, the clock runs, and   *)
(* any request may end without an answer.                                  *)
(***************************************************************************)

CONSTANTS
    Wallets,        \* addresses that can sign
    ChallengeIds,   \* identifiers of challenges
    Browsers,       \* each with its cookie jar
    ChallengeLife, SessionLife, RecentWindow,   \* five minutes, a day, five minutes
    MaxInstant      \* bound of the clock

ASSUME ChallengeTimes ==
    /\ ChallengeLife \in Nat \ {0} /\ SessionLife \in Nat \ {0} /\ RecentWindow \in Nat

VARIABLES
    instant,    \* the clock
    challenges, \* agent_market.wallet_challenges by id
    sessions,   \* agent_market.wallet_sessions
    verifying,  \* verifying[b]: the POST to verify of b, step by step
    jar,        \* jar[b]: the session token in b's cookie
    leaving,    \* leaving[b]: the token b's logout carries, once it is revoked
    command,    \* command[b]: a governance request of b and how far it is
    executed    \* the commands handed to the service: session and instant

challengeVars == <<instant, challenges, sessions, verifying, jar, leaving, command, executed>>

Unset == -1
NoToken == << >>
NoCall == [at |-> "idle"]
NoCommand == [at |-> "idle"]

ChallengeInit ==
    /\ instant = 0 /\ challenges = << >> /\ sessions = {} /\ executed = {}
    /\ verifying = [b \in Browsers |-> NoCall] /\ command = [b \in Browsers |-> NoCommand]
    /\ jar = [b \in Browsers |-> NoToken] /\ leaving = [b \in Browsers |-> NoToken]

TimePasses ==
    /\ instant < MaxInstant /\ instant' = instant + 1
    /\ UNCHANGED <<challenges, sessions, verifying, jar, leaving, command, executed>>

\* POST /api/auth/challenge: whoever asks, for whichever wallet.
IssueChallenge(id, w) ==
    /\ id \notin DOMAIN challenges
    /\ challenges' = [c \in DOMAIN challenges \cup {id} |->
         IF c = id THEN [wallet |-> w, expires |-> instant + ChallengeLife, consumed |-> Unset]
         ELSE challenges[c]]
    /\ UNCHANGED <<instant, sessions, verifying, jar, leaving, command, executed>>

----------------------------------------------------------------------------
\* verifyChallenge.  A message names a challenge and a wallet; signer is the
\* address recovered from its signature.
FindChallenge(b, id, w, signer) ==
    /\ verifying[b].at = "idle" /\ id \in DOMAIN challenges
    /\ verifying' = [verifying EXCEPT ![b] =
         [at |-> "found", id |-> id, wallet |-> w, signer |-> signer, stored |-> challenges[id]]]
    /\ UNCHANGED <<instant, challenges, sessions, jar, leaving, command, executed>>

\* sameChallenge, of the fields that can differ.
SameChallenge(call) == call.stored.wallet = call.wallet

CheckMessage(b) ==
    LET call == verifying[b] IN
    /\ call.at = "found" /\ SameChallenge(call)
    /\ call.stored.consumed = Unset /\ call.stored.expires > instant
    /\ call.signer = call.wallet
    /\ verifying' = [verifying EXCEPT ![b] =
         [at |-> "checked", id |-> call.id, wallet |-> call.wallet, now |-> instant]]
    /\ UNCHANGED <<instant, challenges, sessions, jar, leaving, command, executed>>

\* The UPDATE of the challenge, by the row as it is now.
\* Mutant: a challenge is trusted to be as it was read.
ConsumableAsRead(id, now) == challenges[id].expires > now
Consumable(id, now) == challenges[id].consumed = Unset /\ challenges[id].expires > now

SessionOf(b, call) ==
    [token |-> <<b, call.id>>, wallet |-> call.wallet, issued |-> call.now,
     expires |-> call.now + SessionLife, revoked |-> Unset]

ConsumeChallenge(b) ==
    LET call == verifying[b] IN
    /\ call.at = "checked" /\ Consumable(call.id, call.now)
    /\ challenges' = [challenges EXCEPT ![call.id].consumed = call.now]
    /\ sessions' = sessions \cup {SessionOf(b, call)}
    /\ verifying' = [verifying EXCEPT ![b] = [at |-> "opened", token |-> <<b, call.id>>]]
    /\ UNCHANGED <<instant, jar, leaving, command, executed>>

SetCookie(b) ==
    /\ verifying[b].at = "opened"
    /\ jar' = [jar EXCEPT ![b] = verifying[b].token]
    /\ verifying' = [verifying EXCEPT ![b] = NoCall]
    /\ UNCHANGED <<instant, challenges, sessions, leaving, command, executed>>

\* A check that fails, a store that does not answer, an answer that is lost.
VerifyEnds(b) ==
    /\ verifying[b].at # "idle"
    /\ verifying' = [verifying EXCEPT ![b] = NoCall]
    /\ UNCHANGED <<instant, challenges, sessions, jar, leaving, command, executed>>

----------------------------------------------------------------------------
\* findActiveSession, and requireRecentAuth.
Active(token) == {s \in sessions : s.token = token /\ s.revoked = Unset /\ s.expires > instant}
Recent(s) == instant - s.issued <= RecentWindow

\* POST /api/auth/logout: the session is revoked, then the answer clears the
\* cookie.  Without an answer of the store the cookie stays.
RevokeSession(b) ==
    /\ jar[b] # NoToken /\ leaving[b] = NoToken
    /\ sessions' = {IF s.token = jar[b] /\ s.revoked = Unset
                    THEN [s EXCEPT !.revoked = instant] ELSE s : s \in sessions}
    /\ leaving' = [leaving EXCEPT ![b] = jar[b]]
    /\ UNCHANGED <<instant, challenges, verifying, jar, command, executed>>
ClearCookie(b) ==
    /\ leaving[b] # NoToken
    /\ leaving' = [leaving EXCEPT ![b] = NoToken]
    /\ \/ jar' = [jar EXCEPT ![b] = NoToken]
       \/ UNCHANGED jar
    /\ UNCHANGED <<instant, challenges, sessions, verifying, command, executed>>

----------------------------------------------------------------------------
\* handleGovernance: the session is looked up when the request begins and again
\* when its body has arrived, up to five seconds later.
BeginCommand(b) ==
    /\ command[b].at = "idle"
    /\ \E s \in Active(jar[b]) : Recent(s) /\ command' = [command EXCEPT ![b] =
                                                 [at |-> "reading", session |-> s]]
    /\ UNCHANGED <<instant, challenges, sessions, verifying, jar, leaving, executed>>

BodyArrives(b) ==
    /\ command[b].at = "reading"
    /\ \E s \in Active(command[b].session.token) :
         /\ Recent(s) /\ s.wallet = command[b].session.wallet
         /\ executed' = executed \cup {[token |-> s.token, wallet |-> s.wallet, when |-> instant]}
    /\ command' = [command EXCEPT ![b] = NoCommand]
    /\ UNCHANGED <<instant, challenges, sessions, verifying, jar, leaving>>

BodyTooLate(b) ==
    /\ command[b].at = "reading" /\ command' = [command EXCEPT ![b] = NoCommand]
    /\ UNCHANGED <<instant, challenges, sessions, verifying, jar, leaving, executed>>

ChallengeNext ==
    \/ TimePasses
    \/ \E id \in ChallengeIds, w \in Wallets : IssueChallenge(id, w)
    \/ \E b \in Browsers :
         \/ \E id \in ChallengeIds, w, signer \in Wallets : FindChallenge(b, id, w, signer)
         \/ CheckMessage(b) \/ ConsumeChallenge(b) \/ SetCookie(b) \/ VerifyEnds(b)
         \/ RevokeSession(b) \/ ClearCookie(b)
         \/ BeginCommand(b) \/ BodyArrives(b) \/ BodyTooLate(b)

ChallengeSpec == ChallengeInit /\ [][ChallengeNext]_challengeVars

----------------------------------------------------------------------------
\* A signed message opens one session however often and from wherever it is
\* presented: the session is of the wallet the challenge was issued for, begins
\* before the challenge expires, and no other session rests on the challenge.  A
\* cookie names a session that was opened, and a command runs under one that was
\* neither revoked, expired nor old when the command's body had arrived.
OneSessionPerSignature ==
    /\ \A s \in sessions :
         LET c == challenges[s.token[2]] IN
         /\ s.wallet = c.wallet /\ s.issued = c.consumed /\ s.issued < c.expires
         /\ \A r \in sessions : r.token[2] = s.token[2] => r = s
    /\ \A b \in Browsers : jar[b] # NoToken => \E s \in sessions : s.token = jar[b]
    /\ \A e \in executed : \E s \in sessions :
         /\ s.token = e.token /\ s.wallet = e.wallet
         /\ e.when < s.expires /\ e.when - s.issued \in 0..RecentWindow
         /\ s.revoked # Unset => e.when <= s.revoked
=============================================================================
