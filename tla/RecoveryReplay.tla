--------------------------- MODULE RecoveryReplay ---------------------------
(***************************************************************************)
(* Events that ended in a dead-letter queue are published again: a request *)
(* records the original once, workers lease the record, publish, and mark  *)
(* it.  The record in recovery_replays and the one in the outbox change in *)
(* the same transactions and are one record here.  A worker may stop       *)
(* anywhere, and its lease may run out while it still works.               *)
(***************************************************************************)
EXTENDS Integers, FiniteSets

CONSTANTS
    Originals,      \* identifiers of original events
    Bodies,         \* bodies that requests bring along
    RequestIds,     \* request identifiers they name
    Relays,         \* concurrent workers
    MaxLeases       \* bound of the leases of one record, its attempt column

ASSUME ReplayConstants == MaxLeases \in Nat

VARIABLES
    record,     \* record[e]: its state and what it claims to replay
    lease,      \* lease[w]: the lease that worker w holds, and how far w is
    delivered   \* what the publisher has delivered, repeated or not

replayVars == <<record, lease, delivered>>

Unclaimed == [status |-> "absent"]
Claimed(request, body) ==
    [status |-> "pending", request |-> request, body |-> body,
     attempt |-> 0, held |-> FALSE, due |-> TRUE]
NoLease == [at |-> "idle"]
Recorded(e) == record[e].status # "absent"

\* The stable key, which names the event alone.
KeyOf(e) == <<"dlq-replay-v1", e>>

ReplayInit ==
    /\ record = [e \in Originals |-> Unclaimed]
    /\ lease = [w \in Relays |-> NoLease]
    /\ delivered = {}

----------------------------------------------------------------------------
\* claim: the first request of an event is recorded; the same again finds it, and
\* one with another request or body is a conflict.
ClaimOriginal(e, request, body) ==
    /\ ~Recorded(e)
    /\ record' = [record EXCEPT ![e] = Claimed(request, body)]
    /\ UNCHANGED <<lease, delivered>>

\* claimOutbox, for the event of a replay or for whatever is next.
TakeLease(w, e) ==
    /\ lease[w] = NoLease
    /\ Recorded(e) /\ record[e].status # "published"
    /\ record[e].due /\ ~record[e].held /\ record[e].attempt < MaxLeases
    /\ record' = [record EXCEPT ![e].status = "publishing", ![e].attempt = @ + 1,
                                ![e].held = TRUE]
    /\ lease' = [lease EXCEPT ![w] =
         [at |-> "leased", event |-> e, body |-> record[e].body, token |-> record[e].attempt + 1]]
    /\ UNCHANGED delivered

\* lease_until or next_attempt_at passes.
LeaseLapses(e) ==
    /\ Recorded(e) /\ record[e].held
    /\ record' = [record EXCEPT ![e].held = FALSE] /\ UNCHANGED <<lease, delivered>>
RetryComesDue(e) ==
    /\ Recorded(e) /\ ~record[e].due
    /\ record' = [record EXCEPT ![e].due = TRUE] /\ UNCHANGED <<lease, delivered>>

\* The event is delivered whether the publisher's answer says so or not; one that
\* was never sent fails as well.
PublishOriginal(w) ==
    /\ lease[w].at = "leased"
    /\ \E sent, known \in BOOLEAN :
         /\ known => sent
         /\ delivered' = IF ~sent THEN delivered
              ELSE delivered \cup {[key |-> KeyOf(lease[w].event), body |-> lease[w].body]}
         /\ lease' = [lease EXCEPT ![w].at = IF known THEN "published" ELSE "failed"]
    /\ UNCHANGED record

\* Mutant: any worker that was once given the record may settle it.
HoldsRecord(w) == record[lease[w].event].status = "publishing"
\* requireLease: still publishing, under the token of this lease.  A token is drawn
\* anew with every attempt, whose number stands for it.
HoldsLease(w) ==
    /\ record[lease[w].event].status = "publishing"
    /\ record[lease[w].event].attempt = lease[w].token

\* A worker whose lease was taken over is told so and stops.
MarkPublished(w) ==
    /\ lease[w].at = "published"
    /\ record' = IF HoldsLease(w)
                 THEN [record EXCEPT ![lease[w].event].status = "published",
                                     ![lease[w].event].held = FALSE]
                 ELSE record
    /\ lease' = [lease EXCEPT ![w] = NoLease] /\ UNCHANGED delivered

MarkFailed(w) ==
    /\ lease[w].at = "failed"
    /\ record' = IF HoldsLease(w)
                 THEN [record EXCEPT ![lease[w].event].status = "failed",
                          ![lease[w].event].held = FALSE, ![lease[w].event].due = FALSE]
                 ELSE record
    /\ lease' = [lease EXCEPT ![w] = NoLease] /\ UNCHANGED delivered

\* The worker stops, or a commit of its fails; nothing is marked.
WorkerStops(w) ==
    /\ lease[w] # NoLease
    /\ lease' = [lease EXCEPT ![w] = NoLease] /\ UNCHANGED <<record, delivered>>

ReplayNext ==
    \/ \E e \in Originals :
         \/ \E r \in RequestIds, b \in Bodies : ClaimOriginal(e, r, b)
         \/ LeaseLapses(e) \/ RetryComesDue(e)
         \/ \E w \in Relays : TakeLease(w, e)
    \/ \E w \in Relays :
         PublishOriginal(w) \/ MarkPublished(w) \/ MarkFailed(w) \/ WorkerStops(w)

ReplaySpec == ReplayInit /\ [][ReplayNext]_replayVars

----------------------------------------------------------------------------
ReplayTypeOK ==
    /\ \A e \in Originals : Recorded(e) =>
         /\ record[e].status \in {"pending", "publishing", "published", "failed"}
         /\ record[e].request \in RequestIds /\ record[e].body \in Bodies
         /\ record[e].attempt \in 0..MaxLeases
    /\ \A w \in Relays : lease[w].at \in {"idle", "leased", "published", "failed"}

\* Workers at e whose lease the record still honours.
HoldersOf(e) ==
    {w \in Relays : lease[w] # NoLease /\ lease[w].event = e
                    /\ lease[w].token = record[e].attempt /\ record[e].held}

\* However leases lapse, workers stop and late ones report: a record is worked on under
\* one lease at a time, and a late report never takes it from the worker that holds
\* it; a key stands for one body, so that a consumer that ignores a repeated key
\* applies the event once; and what is marked published was delivered.
ReplayedOnce ==
    /\ \A e \in Originals : Recorded(e) =>
         /\ Cardinality(HoldersOf(e)) <= 1
         /\ \A w \in Relays : lease[w] # NoLease /\ lease[w].event = e
              /\ lease[w].token = record[e].attempt => record[e].status = "publishing"
         /\ record[e].status = "published" =>
              [key |-> KeyOf(e), body |-> record[e].body] \in delivered
    /\ \A d1, d2 \in delivered : d1.key = d2.key => d1 = d2
=============================================================================
