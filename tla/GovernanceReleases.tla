------------------------- MODULE GovernanceReleases -------------------------
(***************************************************************************)
(* What governance does besides halting orders: an agent's listing is      *)
(* published or rolled back, and a support ticket resolved, by a proposal  *)
(* that another wallet approves.  A command is one transaction that locks  *)
(* its rows; commands of several desks cross, are answered late or not at  *)
(* all, and are sent again under the same key; the listing is edited by    *)
(* the registry meanwhile and roles are taken away.                        *)
(***************************************************************************)
EXTENDS Integers, Sequences, FiniteSets

CONSTANTS
    People,     \* wallets
    Grants,     \* Grants[w]: the roles w begins with
    Desks,      \* open governance panels
    Sends,      \* Sends[w]: the actions that w sends
    Parties,    \* publisher and agent's owner of the ticket's task
    Owner, FirstReviewer,   \* of the listing and of its first release
    Contents,   \* contents of a listing, all of them complete
    Owners,     \* wallets that may come to own the listing
    MaxKeys,    \* bound of the idempotency keys used
    MaxMoves    \* bound of changes from outside: to the listing, to the roles

\* A wallet has an address, and the first release was reviewed like any other.
ASSUME GovernanceConstants == "" \notin People /\ FirstReviewer # Owner

VARIABLES
    listing,    \* the agent's row
    moves,      \* how often listing or roles were changed from outside
    grants,     \* governance_roles that are not revoked
    petitions,  \* governance_proposals in order of creation
    tickets,    \* governance_tickets in order of creation: status and version
    incidents,  \* governance_events: how many
    releases,   \* governance_releases, and over: what the listing said before
    answered,   \* governance_idempotency: who, key, command
    keys,       \* keys used by all desks
    desk        \* desk[d]: the command that d's controller sends until it is answered

governanceVars == <<listing, moves, grants, petitions, tickets, incidents, releases, answered, keys,
                    desk>>
effectVars == <<listing, petitions, tickets, incidents, releases>>

NoRetry == [key |-> 0]
Nothing == [content |-> "", owner |-> ""]

\* One release of the listing's owner was published; the registry may have edited
\* the listing since.
FirstRelease(content) ==
    [id |-> 1, snapshot |-> [content |-> content, owner |-> Owner], version |-> 2,
     over |-> [content |-> content, owner |-> Owner]]
GovernanceInit ==
    /\ listing \in [version : {2}, status : {"published"}, content : Contents, owner : {Owner}]
    /\ \E content \in Contents :
         /\ releases = {FirstRelease(content)}
         /\ petitions = <<[kind |-> "propose_release", expected |-> 1, by |-> Owner, key |-> 0,
                           payload |-> FirstRelease(content).snapshot, target |-> 0,
                           status |-> "approved", reviewer |-> FirstReviewer]>>
    /\ moves = 0 /\ grants = Grants /\ tickets = << >> /\ incidents = 0
    /\ answered = {} /\ keys = 0
    /\ desk = [d \in Desks |-> NoRetry]

----------------------------------------------------------------------------
\* GovernanceController.write: a new command takes a key of its own and keeps it
\* while it is sent again, until it is answered, replaced or cleared with the
\* session.  A request that outlives its desk is one of a desk that stays.
SendCommand(d, w, c) ==
    /\ desk[d] = NoRetry /\ keys < MaxKeys /\ keys' = keys + 1
    /\ desk' = [desk EXCEPT ![d] = [by |-> w, key |-> keys + 1, command |-> c]]
    /\ UNCHANGED <<effectVars, moves, grants, answered>>

LeaveDesk(d) ==
    /\ desk[d] # NoRetry /\ desk' = [desk EXCEPT ![d] = NoRetry]
    /\ UNCHANGED <<effectVars, moves, grants, answered, keys>>

----------------------------------------------------------------------------
\* authorize, by the roles and rows as they are now, retries included.
Operator(w) == "operator" \in grants[w]
IsRelease(p) == p.kind \in {"propose_release", "propose_rollback"}
Allowed(w, c) ==
    CASE c.action = "open_ticket" -> w \in Parties
      [] c.action = "propose_release" -> w = listing.owner \/ Operator(w)
      [] c.action = "review" ->
           /\ "reviewer" \in grants[w] /\ c.target \in DOMAIN petitions
           /\ petitions[c.target].by # w
           /\ IsRelease(petitions[c.target]) => w \notin {listing.owner, petitions[c.target].payload.owner}
      [] OTHER -> Operator(w)

\* snapshot, and releaseGate of complete contents.
Snapshot == [content |-> listing.content, owner |-> listing.owner]
Releasable == listing.status \in {"draft", "reviewing", "paused", "published"}

Propose(m, payload, target) ==
    /\ petitions' = Append(petitions,
         [kind |-> m.command.action, expected |-> m.command.expected, by |-> m.by, key |-> m.key,
          payload |-> payload, target |-> target, status |-> "pending", reviewer |-> ""])
    /\ UNCHANGED <<listing, tickets, incidents, releases>>

ProposeRelease(m) ==
    /\ m.command.action \in {"propose_release", "propose_rollback"}
    /\ m.command.expected = listing.version /\ Releasable
    /\ IF m.command.action = "propose_release" THEN Propose(m, Snapshot, 0)
       ELSE \E r \in releases : r.id = m.command.release /\ Propose(m, Snapshot, r.id)

ProposeResolution(m) ==
    /\ m.command.action = "resolve_ticket" /\ m.command.ticket \in DOMAIN tickets
    /\ tickets[m.command.ticket] = [status |-> "open", version |-> m.command.expected]
    /\ Propose(m, Nothing, m.command.ticket)

OpenTicket(m) ==
    /\ m.command.action = "open_ticket"
    /\ tickets' = Append(tickets, [status |-> "open", version |-> 1])
    /\ UNCHANGED <<listing, petitions, incidents, releases>>
RecordEvent(m) ==
    /\ m.command.action = "event" /\ incidents' = incidents + 1
    /\ UNCHANGED <<listing, petitions, tickets, releases>>

----------------------------------------------------------------------------
\* apply.  A release publishes what was proposed if the listing still says so,
\* a rollback what the release it names had published.
\* Mutant: the version is trusted to move with the content.
SameByVersion(p) == p.expected = listing.version
SameContent(p) == p.payload = Snapshot

ReleaseOf(p) == IF p.kind = "propose_rollback"
                THEN (CHOOSE r \in releases : r.id = p.target).snapshot ELSE p.payload

ApplyRelease(id, p) ==
    /\ p.expected = listing.version /\ Releasable /\ SameContent(p)
    /\ ReleaseOf(p).owner = listing.owner
    /\ listing' = [listing EXCEPT !.version = @ + 1, !.status = "published",
                                  !.content = ReleaseOf(p).content]
    /\ releases' = releases \cup {[id |-> id, snapshot |-> ReleaseOf(p),
                                   version |-> listing.version + 1, over |-> Snapshot]}
    /\ UNCHANGED <<tickets, incidents>>

ApplyResolution(p) ==
    /\ tickets[p.target] = [status |-> "open", version |-> p.expected]
    /\ tickets' = [tickets EXCEPT ![p.target] = [status |-> "resolved", version |-> @.version + 1]]
    /\ UNCHANGED <<listing, incidents, releases>>

Review(m) ==
    /\ m.command.action = "review"
    /\ LET id == m.command.target
           p == petitions[id]
           approve == m.command.decision = "approve"
       IN /\ p.status = "pending"
          /\ petitions' = [petitions EXCEPT ![id].status = IF approve THEN "approved" ELSE "rejected",
                                            ![id].reviewer = m.by]
          /\ IF ~approve THEN UNCHANGED <<listing, tickets, incidents, releases>>
             ELSE IF IsRelease(p) THEN ApplyRelease(id, p) ELSE ApplyResolution(p)

\* execute, as often as the request is sent: a key that was answered before is
\* answered the same.
Answered(m) == [by |-> m.by, key |-> m.key] \in answered
Execute(m) ==
    /\ Allowed(m.by, m.command)
    /\ ~Answered(m) /\ answered' = answered \cup {[by |-> m.by, key |-> m.key]}
    /\ ProposeRelease(m) \/ ProposeResolution(m) \/ OpenTicket(m) \/ RecordEvent(m) \/ Review(m)
    /\ UNCHANGED <<moves, grants, keys, desk>>

----------------------------------------------------------------------------
\* The registry edits, transfers or withdraws the listing, and opens or closes
\* its access: the version moves with some of that.
ListingMoves ==
    /\ moves < MaxMoves /\ moves' = moves + 1
    /\ \E v \in {listing.version, listing.version + 1} :
         \/ \E c \in Contents : listing' = [listing EXCEPT !.version = v, !.content = c]
         \/ \E o \in Owners : listing' = [listing EXCEPT !.version = v, !.owner = o]
         \/ listing' = [listing EXCEPT !.version = v, !.status = "retired"]
    /\ UNCHANGED <<petitions, tickets, incidents, releases, grants, answered, keys, desk>>

\* A database administrator.
RevokeRole(w, r) ==
    /\ moves < MaxMoves /\ moves' = moves + 1
    /\ r \in grants[w] /\ grants' = [grants EXCEPT ![w] = @ \ {r}]
    /\ UNCHANGED <<effectVars, answered, keys, desk>>
\* canReview: proposals that are pending, at the version they name.
Current(p) == IF IsRelease(p) THEN listing.version ELSE tickets[p.target].version
Reviewable == {i \in DOMAIN petitions : petitions[i].status = "pending"
                                        /\ petitions[i].expected = Current(petitions[i])}

\* What a desk sends: versions and targets as its view shows them.
Commands ==
    [action : {"propose_release"}, expected : {listing.version}]
    \cup [action : {"propose_rollback"}, expected : {listing.version}, release : {r.id : r \in releases}]
    \cup [action : {"review"}, target : Reviewable, decision : {"approve", "reject"}]
    \cup [action : {"open_ticket", "event"}]
    \cup UNION {[action : {"resolve_ticket"}, ticket : {t}, expected : {tickets[t].version}] :
                 t \in DOMAIN tickets}

GovernanceNext ==
    \/ \E d \in Desks :
         \/ \E w \in People, c \in Commands :
              c.action \in Sends[w] /\ Allowed(w, c) /\ SendCommand(d, w, c)
         \/ desk[d] # NoRetry /\ Execute(desk[d])
         \/ LeaveDesk(d)
    \/ \E w \in People : \E r \in grants[w] : RevokeRole(w, r)
    \/ ListingMoves

GovernanceSpec == GovernanceInit /\ [][GovernanceNext]_governanceVars

----------------------------------------------------------------------------
\* Whatever is published or resolved took two wallets: what a reviewer approved is
\* what its proposer put forward over exactly the listing that stood at that moment,
\* and neither the proposer nor an owner of the listing reviewed it.  A version is
\* published once, a rollback brings back what an earlier release of the same owner
\* had published, a ticket is resolved once, and a command that is sent again makes
\* no second proposal, however commands, retries, edits and revocations cross.
GovernedByTwo ==
    /\ \A i, j \in DOMAIN petitions :
         LET p == petitions[i]  q == petitions[j] IN
         /\ p.by = q.by /\ p.key = q.key => i = j
         /\ p.status = "approved" =>
              /\ p.reviewer \notin {p.by, p.payload.owner}
              /\ IsRelease(p) => \E r \in releases : r.id = i /\ r.over = p.payload
              /\ q.status = "approved" /\ p.kind = "resolve_ticket" /\ q.kind = p.kind
                   /\ p.target = q.target => i = j
    /\ \A r \in releases :
         LET p == petitions[r.id] IN
         /\ p.status = "approved"
         /\ \A s \in releases : s.version = r.version => s = r
         /\ IF p.kind = "propose_release" THEN r.snapshot = p.payload
            ELSE \E s \in releases : s.id = p.target /\ s.snapshot = r.snapshot
                                     /\ s.version < r.version
         /\ r.snapshot.owner = r.over.owner
=============================================================================
