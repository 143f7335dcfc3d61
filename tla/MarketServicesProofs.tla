------------------------ MODULE MarketServicesProofs ------------------------
(***************************************************************************)
(* Theorems about the services around an order: replays of dead letters,   *)
(* transaction intents, wallet logins, governance, the yield vault, the    *)
(* tabs that share a cookie, the commercial ledger and matching, for any   *)
(* number of originals, requests, browsers, desks, stakers, tabs, children *)
(* and agents.  The services share no state, so each part below stands     *)
(* alone: its types, its inductive invariant, one lemma for each action,   *)
(* its theorem.                                                            *)
(***************************************************************************)
EXTENDS RecoveryReplay, TransactionIntents, WalletSessions, GovernanceReleases,
        YieldVault, CommercialLedger, MatchSelection, CollectionsProofs, FiniteSetTheorems, TLAPS

-----------------------------------------------------------------------------
(* Replays of dead letters.  A token is drawn with every attempt, so the   *)
(* attempt stands for it; the inductive invariant says what tokens are     *)
(* good for: two leases of a record never bear the same, nor one later     *)
(* than its attempt.                                                       *)

Record == [status : {"pending", "publishing", "published", "failed"}, request : RequestIds,
           body : Bodies, attempt : 0..MaxLeases, held : BOOLEAN, due : BOOLEAN]
Lease == [at : {"leased", "published", "failed"}, event : Originals, body : Bodies, token : Nat]

Domains ==
    /\ record \in [Originals -> {Unclaimed} \cup Record]
    /\ lease \in [Relays -> {NoLease} \cup Lease]
    /\ delivered \subseteq [key : {KeyOf(e) : e \in Originals}, body : Bodies]

Message(e) == [key |-> KeyOf(e), body |-> record[e].body]

\* A lease is of a recorded event, carries its body, and is numbered up to its attempts;
\* the one that is numbered last is of a record still being published.
LeasesOfRecords ==
    \A w \in Relays : lease[w] # NoLease =>
        /\ Recorded(lease[w].event)
        /\ lease[w].body = record[lease[w].event].body
        /\ lease[w].token <= record[lease[w].event].attempt
        /\ lease[w].token = record[lease[w].event].attempt => record[lease[w].event].status = "publishing"
        /\ lease[w].at = "published" => Message(lease[w].event) \in delivered

LeasesNumbered ==
    \A v, w \in Relays :
        lease[v] # NoLease /\ lease[w] # NoLease /\ lease[v].event = lease[w].event
            /\ lease[v].token = lease[w].token => v = w

DeliveredAsRecorded ==
    /\ \A e \in Originals : Recorded(e) /\ record[e].status = "published" => Message(e) \in delivered
    /\ \A d \in delivered : \E e \in Originals : Recorded(e) /\ d = Message(e)

ReplayIInv == Domains /\ LeasesOfRecords /\ LeasesNumbered /\ DeliveredAsRecorded

----------------------------------------------------------------------------
\* A record says whether it was claimed, and a lease whether it is held.
LEMMA Told ==
  ASSUME Domains
  PROVE  /\ \A e \in Originals : Recorded(e) <=> record[e] \in Record
         /\ \A w \in Relays : lease[w] # NoLease <=> lease[w] \in Lease
         /\ \A w \in Relays : lease[w] = NoLease <=> lease[w].at = "idle"
<1>1. Unclaimed.status = "absent" /\ NoLease.at = "idle"
  BY DEF Unclaimed, NoLease
<1>2. \A r \in Record : r.status # "absent"
  BY DEF Record
<1>3. \A x \in Lease : x.at # "idle"
  BY DEF Lease
<1>. QED
  BY <1>1, <1>2, <1>3 DEF Domains, Recorded

\* Keys name their events.
LEMMA KeysDiffer == \A d, e : KeyOf(d) = KeyOf(e) => d = e
  BY DEF KeyOf

\* Nothing is recorded at first.
LEMMA InitReplayIInv == ReplayInit => ReplayIInv
<1>. SUFFICES ASSUME ReplayInit PROVE ReplayIInv
  OBVIOUS
<1>1. Domains
  BY DEF ReplayInit, Domains
<1>2. \A e \in Originals : ~Recorded(e)
  BY DEF ReplayInit, Recorded, Unclaimed
<1>. QED
  BY <1>1, <1>2 DEF ReplayInit, ReplayIInv, LeasesOfRecords, LeasesNumbered, DeliveredAsRecorded

\* What has been recorded of an event keeps its message.
LEMMA MessagesStay ==
  ASSUME ReplayIInv, delivered \subseteq delivered',
         \A e \in Originals : Recorded(e) => record'[e].body = record[e].body /\ Recorded(e)'
  PROVE  /\ \A d \in delivered : \E e \in Originals : Recorded(e)' /\ d = Message(e)'
         /\ \A w \in Relays : lease[w] # NoLease /\ lease[w].at = "published"
               => [key |-> KeyOf(lease[w].event), body |-> record'[lease[w].event].body] \in delivered'
<1>1. \A e \in Originals : Recorded(e) => Message(e)' = Message(e)
  BY DEF Message, KeyOf
<1>2. \A w \in Relays : lease[w] # NoLease => lease[w].event \in Originals /\ Recorded(lease[w].event)
  BY Told DEF ReplayIInv, LeasesOfRecords, Lease
<1>3. \A d \in delivered : \E e \in Originals : Recorded(e)' /\ d = Message(e)'
  BY <1>1 DEF ReplayIInv, DeliveredAsRecorded
<1>4. ASSUME NEW w \in Relays, lease[w] # NoLease, lease[w].at = "published"
      PROVE  [key |-> KeyOf(lease[w].event), body |-> record'[lease[w].event].body] \in delivered'
  <2>1. Message(lease[w].event) \in delivered
    BY <1>4 DEF ReplayIInv, LeasesOfRecords
  <2>2. [key |-> KeyOf(lease[w].event), body |-> record'[lease[w].event].body] = Message(lease[w].event)
    BY <1>2, <1>4 DEF Message
  <2>. QED
    BY <2>1, <2>2
<1>. QED
  BY <1>3, <1>4

\* A first request records the event; no worker has it yet.
LEMMA ClaimKeeps ==
  ASSUME ReplayIInv, NEW e \in Originals, NEW r \in RequestIds, NEW b \in Bodies, ClaimOriginal(e, r, b)
  PROVE  ReplayIInv'
<1>. USE DEF ReplayIInv
<1>1. Claimed(r, b) \in Record /\ Claimed(r, b).status = "pending"
  BY ReplayConstants DEF Claimed, Record
<1>2. record' = [record EXCEPT ![e] = Claimed(r, b)] /\ lease' = lease /\ delivered' = delivered /\ ~Recorded(e)
  BY DEF ClaimOriginal
<1>3. Domains'
  BY <1>1, <1>2 DEF Domains
<1>4. \A x \in Originals : Recorded(x) => x # e /\ record'[x] = record[x] /\ Recorded(x)'
  BY <1>2 DEF Domains, Recorded
<1>5. LeasesOfRecords'
  <2>1. \A w \in Relays : lease[w] # NoLease => lease[w].event \in Originals /\ Recorded(lease[w].event)
    BY Told DEF LeasesOfRecords, Lease
  <2>. QED
    BY <1>2, <1>4, <2>1, MessagesStay DEF LeasesOfRecords, Message
<1>6. LeasesNumbered'
  BY <1>2 DEF LeasesNumbered
<1>7. DeliveredAsRecorded'
  <2>1. \A x \in Originals : Recorded(x)' /\ record'[x].status = "published" => x # e
    BY <1>1, <1>2 DEF Domains
  <2>2. \A x \in Originals : x # e => record'[x] = record[x] /\ (Recorded(x)' <=> Recorded(x)) /\ Message(x)' = Message(x)
    BY <1>2 DEF Domains, Recorded, Message, KeyOf
  <2>. QED
    BY <1>2, <1>4, <2>1, <2>2, MessagesStay DEF DeliveredAsRecorded
<1>. QED
  BY <1>3, <1>5, <1>6, <1>7

\* A lease or a retry that becomes due changes nothing a worker or a delivery rests on.
LEMMA ClockKeeps ==
  ASSUME ReplayIInv, NEW e \in Originals, LeaseLapses(e) \/ RetryComesDue(e)
  PROVE  ReplayIInv'
<1>. USE DEF ReplayIInv
<1>1. lease' = lease /\ delivered' = delivered /\ record[e] \in Record
  BY Told DEF LeaseLapses, RetryComesDue
<1>2. \E v \in BOOLEAN : record' = [record EXCEPT ![e].held = v] \/ record' = [record EXCEPT ![e].due = v]
  BY DEF LeaseLapses, RetryComesDue
<1>3. record' \in [Originals -> {Unclaimed} \cup Record]
  BY <1>1, <1>2 DEF Domains, Record
<1>4. \A x \in Originals : /\ record'[x].status = record[x].status /\ (Recorded(x)' <=> Recorded(x))
                           /\ Recorded(x) => /\ record'[x].body = record[x].body
                                             /\ record'[x].attempt = record[x].attempt
  BY <1>1, <1>2 DEF Domains, Recorded, Record
<1>5. \A x \in Originals : Recorded(x) => Message(x)' = Message(x)
  BY <1>4 DEF Message, KeyOf
<1>6. LeasesOfRecords'
  <2>1. \A w \in Relays : lease[w] # NoLease => lease[w].event \in Originals /\ Recorded(lease[w].event)
    BY Told DEF LeasesOfRecords, Lease
  <2>. QED
    BY <1>1, <1>4, <1>5, <2>1 DEF LeasesOfRecords
<1>. QED
  BY <1>1, <1>3, <1>4, <1>5, <1>6 DEF Domains, LeasesNumbered, DeliveredAsRecorded

\* A new lease takes the next number.
LEMMA TakeKeeps ==
  ASSUME ReplayIInv, NEW w \in Relays, NEW e \in Originals, TakeLease(w, e)
  PROVE  ReplayIInv'
<1>. USE DEF ReplayIInv
<1>. DEFINE l == [at |-> "leased", event |-> e, body |-> record[e].body, token |-> record[e].attempt + 1]
<1>1. /\ record[e] \in Record /\ record[e].attempt < MaxLeases /\ record[e].status # "published"
      /\ record' = [record EXCEPT ![e].status = "publishing", ![e].attempt = @ + 1, ![e].held = TRUE]
      /\ lease' = [lease EXCEPT ![w] = l] /\ delivered' = delivered
  BY Told DEF TakeLease
<1>2. /\ record'[e] = [record[e] EXCEPT !.status = "publishing", !.attempt = record[e].attempt + 1, !.held = TRUE]
      /\ \A x \in Originals \ {e} : record'[x] = record[x]
  BY <1>1 DEF Domains
<1>3. /\ record'[e] \in Record /\ record'[e].status = "publishing" /\ record'[e].body = record[e].body
      /\ record'[e].attempt = record[e].attempt + 1 /\ record[e].attempt \in Nat
  <2>1. record[e].attempt \in Nat /\ record[e].attempt + 1 \in 0..MaxLeases
    BY <1>1, ReplayConstants DEF Record
  <2>. DEFINE n == record[e].attempt + 1
  <2>2. record'[e] = [record[e] EXCEPT !.status = "publishing", !.attempt = n, !.held = TRUE]
    BY <1>2
  <2>3. record[e] \in Record /\ n \in 0..MaxLeases
    BY <1>1, <2>1
  <2>. HIDE DEF n
  <2>4. [record[e] EXCEPT !.status = "publishing", !.attempt = n, !.held = TRUE] \in Record
    BY <2>3 DEF Record
  <2>5. record'[e].status = "publishing" /\ record'[e].body = record[e].body /\ record'[e].attempt = n
    BY <2>2, <2>3 DEF Record
  <2>. QED
    BY <2>1, <2>2, <2>4, <2>5 DEF n
<1>4. l \in Lease /\ l # NoLease
  <2>1. l \in Lease
    BY <1>1, <1>3 DEF Lease, Record
  <2>2. l.at # NoLease.at
    BY DEF NoLease
  <2>. QED
    BY <2>1, <2>2
<1>. HIDE DEF l
<1>5. lease'[w] = l /\ \A v \in Relays \ {w} : lease'[v] = lease[v]
  BY <1>1 DEF Domains
<1>6. Domains'
  <2>1. record' \in [Originals -> {Unclaimed} \cup Record]
    BY <1>1, <1>2, <1>3 DEF Domains
  <2>. QED
    BY <1>1, <1>4, <2>1 DEF Domains
<1>7. \A x \in Originals : Recorded(x) => Recorded(x)' /\ record'[x].body = record[x].body
  BY <1>2, <1>3 DEF Recorded
<1>8. \A v \in Relays : lease[v] # NoLease =>
         /\ lease[v].event \in Originals /\ Recorded(lease[v].event) /\ lease[v].token \in Nat
         /\ lease[v].event = e => lease[v].token < l.token
  BY <1>1, <1>3, Told DEF LeasesOfRecords, Lease, l
<1>9. LeasesOfRecords'
  <2>1. \A v \in Relays : lease[v] # NoLease /\ lease[v].at = "published"
          => [key |-> KeyOf(lease[v].event), body |-> record'[lease[v].event].body] \in delivered'
    BY <1>1, <1>7, MessagesStay
  <2>. SUFFICES ASSUME NEW v \in Relays, NEW h, h = lease'[v], h # NoLease
                PROVE  /\ record'[h.event].status # "absent"
                       /\ h.body = record'[h.event].body
                       /\ h.token <= record'[h.event].attempt
                       /\ h.token = record'[h.event].attempt => record'[h.event].status = "publishing"
                       /\ h.at = "published" => [key |-> KeyOf(h.event), body |-> record'[h.event].body] \in delivered'
    BY DEF LeasesOfRecords, Recorded, Message
  <2>2. CASE v = w
    <3>1. l.event = e /\ l.body = record[e].body /\ l.token = record[e].attempt + 1 /\ l.at = "leased"
      BY DEF l
    <3>. QED
      BY <1>3, <1>5, <2>2, <3>1
  <2>3. CASE v # w /\ h.event = e
    <3>1. /\ h = lease[v] /\ h.token \in Nat /\ h.token < record'[e].attempt
          /\ h.body = record'[e].body
      BY <1>3, <1>5, <1>7, <1>8, <2>3 DEF LeasesOfRecords, l
    <3>. QED
      BY <1>3, <2>1, <2>3, <3>1
  <2>4. CASE v # w /\ h.event # e
    <3>1. h = lease[v] /\ record'[h.event] = record[h.event]
      BY <1>2, <1>5, <1>8, <2>4
    <3>. QED
      BY <2>1, <2>4, <3>1 DEF LeasesOfRecords, Recorded
  <2>. QED
    BY <2>2, <2>3, <2>4
<1>10. LeasesNumbered'
  <2>1. l.event = e
    BY DEF l
  <2>. QED
    BY <1>3, <1>4, <1>5, <1>8, <2>1 DEF LeasesNumbered, Lease
<1>11. DeliveredAsRecorded'
  <2>1. \A x \in Originals : x # e => (Recorded(x)' <=> Recorded(x)) /\ Message(x)' = Message(x)
    BY <1>2 DEF Recorded, Message, KeyOf
  <2>. QED
    BY <1>1, <1>2, <1>3, <1>7, <2>1, MessagesStay DEF DeliveredAsRecorded
<1>. QED
  BY <1>6, <1>9, <1>10, <1>11

\* What is delivered is what was recorded, under the key of its event.
LEMMA PublishKeeps ==
  ASSUME ReplayIInv, NEW w \in Relays, PublishOriginal(w)
  PROVE  ReplayIInv'
<1>. USE DEF ReplayIInv
<1>1. lease[w] \in Lease /\ lease[w] # NoLease /\ record' = record
  BY Told DEF PublishOriginal, NoLease
<1>. DEFINE e == lease[w].event
<1>2. e \in Originals /\ Recorded(e) /\ lease[w].body = record[e].body /\ record[e] \in Record
  BY <1>1, Told DEF Lease, LeasesOfRecords
<1>3. PICK sent \in BOOLEAN, known \in BOOLEAN :
        /\ known => sent
        /\ delivered' = IF ~sent THEN delivered
             ELSE delivered \cup {[key |-> KeyOf(e), body |-> lease[w].body]}
        /\ lease' = [lease EXCEPT ![w].at = IF known THEN "published" ELSE "failed"]
  BY DEF PublishOriginal
<1>4. /\ delivered \subseteq delivered' /\ delivered' \subseteq delivered \cup {Message(e)}
      /\ known => Message(e) \in delivered'
  BY <1>2, <1>3 DEF Message
<1>5. PICK s \in {"published", "failed"} :
        /\ lease' = [lease EXCEPT ![w].at = s]
        /\ s = "published" => Message(e) \in delivered'
  BY <1>3, <1>4
<1>. HIDE DEF e
<1>6. /\ lease'[w].at = s /\ lease'[w].event = e /\ lease'[w].body = lease[w].body /\ lease'[w].token = lease[w].token
      /\ lease'[w] \in Lease /\ \A v \in Relays \ {w} : lease'[v] = lease[v]
  <2>1. lease'[w] = [lease[w] EXCEPT !.at = s] /\ \A v \in Relays \ {w} : lease'[v] = lease[v]
    BY <1>5 DEF Domains
  <2>2. [lease[w] EXCEPT !.at = s] \in Lease
    BY <1>1 DEF Lease
  <2>. QED
    BY <1>1, <2>1, <2>2 DEF Lease, e
<1>7. Domains'
  <2>1. lease' \in [Relays -> {NoLease} \cup Lease]
    BY <1>5, <1>6 DEF Domains
  <2>2. Message(e) \in [key : {KeyOf(x) : x \in Originals}, body : Bodies]
    BY <1>2 DEF Message, Record
  <2>. QED
    BY <1>1, <1>4, <2>1, <2>2 DEF Domains
<1>8. \A x : Message(x)' = Message(x) /\ (Recorded(x)' <=> Recorded(x))
  BY <1>1 DEF Message, Recorded
<1>9. LeasesOfRecords'
  <2>. SUFFICES ASSUME NEW v \in Relays, NEW h, h = lease'[v], h # NoLease
                PROVE  /\ Recorded(h.event)
                       /\ h.body = record[h.event].body
                       /\ h.token <= record[h.event].attempt
                       /\ h.token = record[h.event].attempt => record[h.event].status = "publishing"
                       /\ h.at = "published" => Message(h.event) \in delivered'
    BY <1>1 DEF LeasesOfRecords, Recorded, Message
  <2>1. CASE v = w
    <3>1. /\ lease[w].token <= record[e].attempt
          /\ lease[w].token = record[e].attempt => record[e].status = "publishing"
      BY <1>1 DEF LeasesOfRecords, e
    <3>. QED
      BY <1>2, <1>5, <1>6, <2>1, <3>1
  <2>2. CASE v # w
    BY <1>4, <1>6, <2>2 DEF LeasesOfRecords
  <2>. QED
    BY <2>1, <2>2
<1>10. LeasesNumbered'
  BY <1>1, <1>6 DEF LeasesNumbered, e
<1>11. DeliveredAsRecorded'
  <2>1. \A d \in delivered' : d \in delivered \/ d = Message(e)
    BY <1>4
  <2>2. \A d \in delivered' : \E x \in Originals : Recorded(x)' /\ d = Message(x)'
    BY <1>2, <1>8, <2>1 DEF DeliveredAsRecorded
  <2>. QED
    BY <1>1, <1>4, <1>8, <2>2 DEF DeliveredAsRecorded
<1>. QED
  BY <1>7, <1>9, <1>10, <1>11

\* Only the latest lease settles the record, and nobody else bears its number.
LEMMA MarkKeeps ==
  ASSUME ReplayIInv, NEW w \in Relays, MarkPublished(w) \/ MarkFailed(w)
  PROVE  ReplayIInv'
<1>. USE DEF ReplayIInv
<1>. DEFINE e == lease[w].event
<1>1. /\ lease[w] \in Lease /\ lease[w] # NoLease /\ delivered' = delivered
      /\ lease' = [lease EXCEPT ![w] = NoLease]
  BY Told DEF MarkPublished, MarkFailed, NoLease
<1>2. e \in Originals /\ Recorded(e) /\ record[e] \in Record
  BY <1>1, Told DEF Lease, LeasesOfRecords
<1>3. PICK s \in {"published", "failed"}, d \in BOOLEAN :
        /\ record' = IF HoldsLease(w)
                     THEN [record EXCEPT ![e] = [record[e] EXCEPT !.status = s, !.held = FALSE, !.due = d]]
                     ELSE record
        /\ s = "published" => lease[w].at = "published"
  <2>1. record[e].due \in BOOLEAN /\ record[e] = [record[e] EXCEPT !.due = record[e].due]
    BY <1>2 DEF Record
  <2>2. CASE MarkPublished(w)
    <3>1. record' = IF HoldsLease(w)
                    THEN [record EXCEPT ![e] = [record[e] EXCEPT !.status = "published", !.held = FALSE,
                                                                 !.due = record[e].due]]
                    ELSE record
      BY <1>2, <2>1, <2>2 DEF MarkPublished, Domains, Record
    <3>. QED
      BY <2>1, <2>2, <3>1 DEF MarkPublished
  <2>3. CASE MarkFailed(w)
    <3>1. record' = IF HoldsLease(w)
                    THEN [record EXCEPT ![e] = [record[e] EXCEPT !.status = "failed", !.held = FALSE, !.due = FALSE]]
                    ELSE record
      BY <1>2, <2>3 DEF MarkFailed, Domains
    <3>. QED
      BY <3>1
  <2>. QED
    BY <2>2, <2>3
<1>. HIDE DEF e
<1>4. lease'[w] = NoLease /\ \A v \in Relays \ {w} : lease'[v] = lease[v]
  BY <1>1 DEF Domains
<1>5. LeasesNumbered'
  BY <1>4 DEF LeasesNumbered
<1>6. CASE ~HoldsLease(w)
  <2>1. record' = record
    BY <1>3, <1>6
  <2>2. Domains'
    BY <1>1, <2>1 DEF Domains
  <2>3. LeasesOfRecords'
    BY <1>1, <1>4, <2>1 DEF LeasesOfRecords, Recorded, Message
  <2>. QED
    BY <1>1, <1>5, <2>1, <2>2, <2>3 DEF DeliveredAsRecorded, Recorded, Message
<1>7. CASE HoldsLease(w)
  <2>1. /\ record' = [record EXCEPT ![e] = [record[e] EXCEPT !.status = s, !.held = FALSE, !.due = d]]
        /\ record[e].attempt = lease[w].token
    BY <1>3, <1>7 DEF HoldsLease, e
  <2>2. /\ record'[e].status = s /\ record'[e].body = record[e].body /\ record'[e].attempt = record[e].attempt
        /\ record'[e] \in Record /\ \A x \in Originals \ {e} : record'[x] = record[x]
    BY <1>2, <2>1 DEF Domains, Record
  <2>3. \A x \in Originals : /\ (Recorded(x)' <=> Recorded(x)) /\ record'[x].body = record[x].body
                             /\ Message(x)' = Message(x)
    BY <1>2, <2>2 DEF Recorded, Message, KeyOf
  <2>4. Domains'
    BY <1>1, <1>2, <2>1, <2>2 DEF Domains
  <2>5. LeasesOfRecords'
    <3>. SUFFICES ASSUME NEW v \in Relays, NEW h, h = lease[v], h # NoLease, v # w
                  PROVE  /\ Recorded(h.event)'
                         /\ h.body = record'[h.event].body
                         /\ h.token <= record'[h.event].attempt
                         /\ h.token = record'[h.event].attempt => record'[h.event].status = "publishing"
                         /\ h.at = "published" => Message(h.event)' \in delivered
      BY <1>1, <1>4 DEF LeasesOfRecords, Recorded, Message
    <3>1. h.event \in Originals
      BY Told DEF Lease
    <3>2. h.event = e => h.token # record[e].attempt
      BY <1>1, <2>1 DEF LeasesNumbered, e
    <3>3. record'[h.event].attempt = record[h.event].attempt
      BY <2>2, <3>1
    <3>. QED
      BY <2>2, <2>3, <3>1, <3>2, <3>3 DEF LeasesOfRecords
  <2>6. DeliveredAsRecorded'
    <3>1. s = "published" => Message(e) \in delivered
      BY <1>1, <1>3 DEF LeasesOfRecords, e
    <3>2. \A x \in Originals : Recorded(x)' /\ record'[x].status = "published" => Message(x)' \in delivered'
      BY <1>1, <1>2, <2>2, <2>3, <3>1 DEF DeliveredAsRecorded
    <3>. QED
      BY <1>1, <2>3, <3>2 DEF DeliveredAsRecorded
  <2>. QED
    BY <1>5, <2>4, <2>5, <2>6
<1>. QED
  BY <1>6, <1>7

\* A worker that stops leaves the record as it is.
LEMMA StopKeeps ==
  ASSUME ReplayIInv, NEW w \in Relays, WorkerStops(w)
  PROVE  ReplayIInv'
<1>. USE DEF ReplayIInv
<1>1. record' = record /\ delivered' = delivered /\ lease' = [lease EXCEPT ![w] = NoLease]
  BY DEF WorkerStops
<1>2. lease'[w] = NoLease /\ \A v \in Relays \ {w} : lease'[v] = lease[v]
  BY <1>1 DEF Domains
<1>3. Domains'
  BY <1>1 DEF Domains
<1>4. LeasesOfRecords'
  BY <1>1, <1>2 DEF LeasesOfRecords, Recorded, Message
<1>5. LeasesNumbered'
  BY <1>2 DEF LeasesNumbered
<1>. QED
  BY <1>1, <1>3, <1>4, <1>5 DEF DeliveredAsRecorded, Recorded, Message

LEMMA NextReplayIInv == ReplayIInv /\ [ReplayNext]_replayVars => ReplayIInv'
<1>. SUFFICES ASSUME ReplayIInv, [ReplayNext]_replayVars PROVE ReplayIInv'
  OBVIOUS
<1>1. CASE UNCHANGED replayVars
  BY <1>1 DEF replayVars, ReplayIInv, Domains, LeasesOfRecords, LeasesNumbered, DeliveredAsRecorded,
              Recorded, Message
<1>2. CASE \E e \in Originals : \E r \in RequestIds, b \in Bodies : ClaimOriginal(e, r, b)
  BY <1>2, ClaimKeeps
<1>3. CASE \E e \in Originals : LeaseLapses(e) \/ RetryComesDue(e)
  BY <1>3, ClockKeeps
<1>4. CASE \E e \in Originals, w \in Relays : TakeLease(w, e)
  BY <1>4, TakeKeeps
<1>5. CASE \E w \in Relays : PublishOriginal(w)
  BY <1>5, PublishKeeps
<1>6. CASE \E w \in Relays : MarkPublished(w) \/ MarkFailed(w)
  BY <1>6, MarkKeeps
<1>7. CASE \E w \in Relays : WorkerStops(w)
  BY <1>7, StopKeeps
<1>. QED
  BY <1>1, <1>2, <1>3, <1>4, <1>5, <1>6, <1>7 DEF ReplayNext

----------------------------------------------------------------------------
\* Leases that bear the last number of a record are one.
LEMMA OneHolder ==
  ASSUME ReplayIInv, NEW e \in Originals
  PROVE  Cardinality(HoldersOf(e)) <= 1
<1>1. CASE HoldersOf(e) = {}
  BY <1>1, FS_EmptySet
<1>2. CASE \E w \in Relays : HoldersOf(e) = {w}
  <2>1. PICK w \in Relays : HoldersOf(e) = {w}
    BY <1>2
  <2>2. Cardinality({w}) = 1
    BY FS_Singleton
  <2>. QED
    BY <2>1, <2>2
<1>. QED
  BY <1>1, <1>2 DEF ReplayIInv, LeasesNumbered, HoldersOf

LEMMA ReplayIInvSuffices == ReplayIInv => ReplayTypeOK /\ ReplayedOnce
<1>. SUFFICES ASSUME ReplayIInv PROVE ReplayTypeOK /\ ReplayedOnce
  OBVIOUS
<1>1. ReplayTypeOK
  <2>1. \A w \in Relays : lease[w].at \in {"idle", "leased", "published", "failed"}
    BY Told DEF ReplayIInv, Lease
  <2>. QED
    BY <2>1, Told DEF ReplayIInv, ReplayTypeOK, Record
<1>2. ASSUME NEW d1 \in delivered, NEW d2 \in delivered, d1.key = d2.key
      PROVE  d1 = d2
  <2>1. PICK e1 \in Originals, e2 \in Originals : d1 = Message(e1) /\ d2 = Message(e2)
    BY DEF ReplayIInv, DeliveredAsRecorded
  <2>2. KeyOf(e1) = KeyOf(e2)
    BY <1>2, <2>1 DEF Message
  <2>. QED
    BY <2>1, <2>2, KeysDiffer
<1>. QED
  BY <1>1, <1>2, OneHolder DEF ReplayIInv, ReplayedOnce, LeasesOfRecords, DeliveredAsRecorded, Message

\* The inductive invariant holds in every reachable state.
THEOREM ReplayInvariance == ReplaySpec => []ReplayIInv
<1>. QED
  BY InitReplayIInv, NextReplayIInv, PTL DEF ReplaySpec

\* Records and leases stay in their domains, and no record has more leases than allowed.
THEOREM ReplayTypeCorrect == ReplaySpec => []ReplayTypeOK
<1>. QED
  BY ReplayInvariance, ReplayIInvSuffices, PTL

\* However leases lapse, workers stop and late ones report, a record is worked on under
\* one lease, a late report leaves it alone, a key stands for one body, and what is
\* marked published was delivered (recovery/replay.ts).
THEOREM ReplaysOnce == ReplaySpec => []ReplayedOnce
<1>. QED
  BY ReplayInvariance, ReplayIInvSuffices, PTL

-----------------------------------------------------------------------------
(* What a wallet may be asked to sign.                                     *)

Ruling == [by : IntentWallets, revision : Int, agentsWin : BOOLEAN,
           superseded : BOOLEAN, expired : BOOLEAN]

\* An intent that resolves a task says what a review on record says.
RestsOnReview(x) ==
    x.method = "resolveWorkflowTask" =>
        LET i == x.expectation.review IN
        /\ i \in DOMAIN rulings
        /\ rulings[i].by = x.from /\ rulings[i].revision = x.expectation.revision
        /\ <<x.arguments.agentsWin>> = x.expectation.agentWins
        /\ x.arguments.agentsWin = rulings[i].agentsWin

RulingsTyped == taskRow.revision \in Int /\ rulings \in Seq(Ruling)

\* What is built rests on a review before it is stored, what was issued is stored.
RequestsSound ==
    /\ DOMAIN building = Requesters
    /\ \A q \in Requesters :
         /\ building[q].at = "built" => RestsOnReview(building[q].intent)
         /\ building[q].at = "issued" => \E x \in intents : x.id = building[q].id

IntentsSound ==
    /\ \A x, y \in intents : x.id = y.id => x = y
    /\ \A x \in intents : RestsOnReview(x)

HandedStored == handed \in Seq(intents)

IntentIInv == RulingsTyped /\ RequestsSound /\ IntentsSound /\ HandedStored

\* Reviews are superseded, expire and are joined by others; what they say stays.
RulingsKept ==
    /\ \A i \in DOMAIN rulings :
         /\ i \in DOMAIN rulings' /\ rulings'[i].by = rulings[i].by
         /\ rulings'[i].revision = rulings[i].revision
         /\ rulings'[i].agentsWin = rulings[i].agentsWin

\* An intent that rests on a review goes on to rest on it.
LEMMA ReviewsStand ==
  ASSUME RulingsKept, NEW x, RestsOnReview(x)
  PROVE  RestsOnReview(x)'
BY DEF RulingsKept, RestsOnReview

LEMMA InitIntentIInv == IntentInit => IntentIInv
<1>. SUFFICES ASSUME IntentInit PROVE IntentIInv
  OBVIOUS
<1>1. RulingsTyped
  BY DEF IntentInit, RulingsTyped
<1>2. RequestsSound
  BY DEF IntentInit, RequestsSound
<1>3. IntentsSound /\ HandedStored
  BY DEF IntentInit, IntentsSound, HandedStored
<1>. QED
  BY <1>1, <1>2, <1>3 DEF IntentIInv

\* While requests, intents and what was handed over stay, so does the invariant,
\* if the reviews keep what they say.
LEMMA OthersMove ==
  ASSUME IntentIInv, UNCHANGED <<building, intents, handed>>, RulingsKept, RulingsTyped'
  PROVE  IntentIInv'
<1>1. RequestsSound'
  BY ReviewsStand DEF IntentIInv, RequestsSound
<1>2. IntentsSound'
  BY ReviewsStand DEF IntentIInv, IntentsSound
<1>. QED
  BY <1>1, <1>2 DEF IntentIInv, HandedStored

LEMMA TaskRowMovesKeeps ==
  ASSUME IntentIInv, TaskRowMoves \/ \E w \in IntentWallets : CreateAccount(w)
  PROVE  IntentIInv'
<1>1. RulingsTyped' /\ RulingsKept
  BY DEF IntentIInv, RulingsTyped, TaskRowMoves, CreateAccount, RulingsKept
<1>. QED
  BY <1>1, OthersMove DEF TaskRowMoves, CreateAccount

LEMMA RecordReviewKeeps ==
  ASSUME IntentIInv, NEW o \in BOOLEAN, RecordReview(o)
  PROVE  IntentIInv'
<1>. DEFINE past == [i \in DOMAIN rulings |-> [rulings[i] EXCEPT !.superseded = TRUE]]
            new == [by |-> Arbiter, revision |-> taskRow.revision, agentsWin |-> o,
                    superseded |-> FALSE, expired |-> FALSE]
<1>1. rulings \in Seq(Ruling) /\ taskRow.revision \in Int
  BY DEF IntentIInv, RulingsTyped
<1>2. new \in Ruling
  BY <1>1 DEF Ruling, IntentWallets
<1>3. ASSUME NEW i \in DOMAIN rulings
      PROVE  /\ past[i] \in Ruling
             /\ past[i].by = rulings[i].by /\ past[i].revision = rulings[i].revision
             /\ past[i].agentsWin = rulings[i].agentsWin
  <2>1. rulings[i] \in Ruling
    BY <1>1
  <2>. QED
    BY <2>1 DEF Ruling
<1>4. past \in Seq(Ruling) /\ Len(past) = Len(rulings)
  BY <1>1, <1>3
<1>5. rulings' = Append(past, new)
  BY DEF RecordReview
<1>. HIDE DEF past, new
<1>6. rulings' \in Seq(Ruling) /\ \A i \in DOMAIN rulings : i \in DOMAIN rulings' /\ rulings'[i] = past[i]
  BY <1>1, <1>2, <1>4, <1>5
<1>7. RulingsKept
  BY <1>3, <1>6 DEF RulingsKept
<1>8. RulingsTyped'
  BY <1>1, <1>6 DEF RulingsTyped, RecordReview
<1>. QED
  BY <1>7, <1>8, OthersMove DEF RecordReview

LEMMA ReviewExpiresKeeps ==
  ASSUME IntentIInv, NEW i \in DOMAIN rulings, ReviewExpires(i)
  PROVE  IntentIInv'
<1>1. rulings \in Seq(Ruling) /\ taskRow.revision \in Int /\ rulings[i] \in Ruling
  BY DEF IntentIInv, RulingsTyped
<1>. DEFINE late == [rulings[i] EXCEPT !.expired = TRUE]
<1>2. /\ late \in Ruling
      /\ late.by = rulings[i].by /\ late.revision = rulings[i].revision
      /\ late.agentsWin = rulings[i].agentsWin
  BY <1>1 DEF Ruling
<1>3. rulings' = [rulings EXCEPT ![i] = late]
  BY DEF ReviewExpires
<1>. HIDE DEF late
<1>4. rulings' \in Seq(Ruling) /\ DOMAIN rulings' = DOMAIN rulings
  BY <1>1, <1>2, <1>3
<1>5. RulingsKept
  BY <1>1, <1>2, <1>3, <1>4 DEF RulingsKept
<1>6. RulingsTyped'
  BY <1>1, <1>4 DEF RulingsTyped, ReviewExpires
<1>. QED
  BY <1>5, <1>6, OthersMove DEF ReviewExpires

\* What the route builds for a resolution is what the review in force says.
LEMMA BuiltOnReview ==
  ASSUME IntentIInv, NEW w, NEW m, NEW resource, NEW args \in ClientArguments,
         NEW i \in 0..Len(rulings),
         m = "resolveWorkflowTask" => i # 0 /\ rulings[i].by = w /\ Reviewed(i, args.agentsWin)
  PROVE  RestsOnReview(IntentOf(w, m, resource, args, i))
<1>. SUFFICES ASSUME m = "resolveWorkflowTask"
              PROVE  RestsOnReview(IntentOf(w, m, resource, args, i))
  BY DEF RestsOnReview, IntentOf
<1>1. rulings \in Seq(Ruling) /\ i \in DOMAIN rulings /\ i # 0
  BY DEF IntentIInv, RulingsTyped
<1>2. /\ Expectation(m, i).review = i /\ Expectation(m, i).revision = rulings[i].revision
      /\ Expectation(m, i).agentWins = <<rulings[i].agentsWin>>
  BY <1>1 DEF Expectation
<1>3. BoundArguments(m, args).agentsWin = args.agentsWin
  BY DEF BoundArguments
<1>4. args.agentsWin = rulings[i].agentsWin
  BY DEF Reviewed
<1>. HIDE DEF Expectation, BoundArguments
<1>. QED
  BY <1>1, <1>2, <1>3, <1>4 DEF RestsOnReview, IntentOf

\* A request moves on: where it stands then is all that has to be looked at.
LEMMA RequestMoves ==
  ASSUME IntentIInv, RulingsKept, intents \subseteq intents', NEW q \in Requesters, NEW call,
         building' = [building EXCEPT ![q] = call],
         call.at = "built" => RestsOnReview(call.intent)',
         call.at = "issued" => \E x \in intents' : x.id = call.id
  PROVE  RequestsSound'
<1>1. DOMAIN building = Requesters
  BY DEF IntentIInv, RequestsSound
<1>2. building'[q] = call /\ \A p \in Requesters : p # q => building'[p] = building[p]
  BY <1>1
<1>3. ASSUME NEW p \in Requesters, building'[p].at = "built"
      PROVE  RestsOnReview(building[p].intent)'
  <2>1. CASE p = q
    <3>. PICK x : x = call.intent
      OBVIOUS
    <3>1. RestsOnReview(x)' /\ building'[p].intent = x
      BY <1>2, <1>3, <2>1
    <3>. QED
      BY <3>1 DEF RestsOnReview
  <2>2. CASE p # q
    <3>. PICK x : x = building[p].intent
      OBVIOUS
    <3>1. RestsOnReview(x) /\ building'[p].intent = x
      BY <1>2, <1>3, <2>2 DEF IntentIInv, RequestsSound
    <3>2. RestsOnReview(x)'
      BY <3>1, ReviewsStand
    <3>. QED
      BY <3>1, <3>2 DEF RestsOnReview
  <2>. QED
    BY <2>1, <2>2
<1>4. ASSUME NEW p \in Requesters, building'[p].at = "issued"
      PROVE  \E x \in intents' : x.id = building'[p].id
  BY <1>2, <1>4 DEF IntentIInv, RequestsSound
<1>. QED
  BY <1>1, <1>3, <1>4 DEF RequestsSound

LEMMA BuildIntentKeeps ==
  ASSUME IntentIInv, NEW q \in Requesters, NEW w, NEW m, NEW resource,
         BuildIntent(q, w, m, resource)
  PROVE  IntentIInv'
<1>1. PICK x : RestsOnReview(x) /\ building' = [building EXCEPT ![q] = [at |-> "built", intent |-> x]]
  BY BuiltOnReview DEF BuildIntent
<1>2. RulingsKept /\ UNCHANGED <<taskRow, rulings, intents, handed>>
  BY DEF BuildIntent, RulingsKept
<1>3. RestsOnReview(x)'
  BY <1>1, <1>2, ReviewsStand
<1>4. RequestsSound'
  <2>. DEFINE call == [at |-> "built", intent |-> x]
  <2>1. call.at = "built" /\ call.intent = x /\ building' = [building EXCEPT ![q] = call]
    BY <1>1
  <2>. HIDE DEF call
  <2>2. RestsOnReview(call.intent)'
    BY <1>3, <2>1
  <2>. QED
    BY <1>2, <2>1, <2>2, RequestMoves
<1>5. IntentsSound'
  BY <1>2, ReviewsStand DEF IntentIInv, IntentsSound
<1>. QED
  BY <1>2, <1>4, <1>5 DEF IntentIInv, RulingsTyped, HandedStored

LEMMA StoreIntentKeeps ==
  ASSUME IntentIInv, NEW q \in Requesters, StoreIntent(q)
  PROVE  IntentIInv'
<1>. PICK built : built = building[q].intent
  OBVIOUS
<1>. DEFINE same == {x \in intents : x.id = built.id}
            call == IF same \subseteq {built} THEN [at |-> "issued", id |-> built.id] ELSE [at |-> "idle"]
<1>1. /\ UNCHANGED <<taskRow, rulings, handed>> /\ RestsOnReview(built)
      /\ intents' = IF same = {} THEN intents \cup {built} ELSE intents
      /\ building' = [building EXCEPT ![q] = call]
  BY DEF StoreIntent, IntentIInv, RequestsSound
<1>2. RulingsKept /\ RestsOnReview(built)'
  BY <1>1, ReviewsStand DEF RulingsKept
<1>3. IntentsSound'
  <2>1. \A x \in intents : RestsOnReview(x)'
    BY <1>2, ReviewsStand DEF IntentIInv, IntentsSound
  <2>. QED
    BY <1>1, <1>2, <2>1 DEF IntentIInv, IntentsSound
<1>4. RequestsSound'
  <2>1. intents \subseteq intents' /\ call.at # "built"
    BY <1>1
  <2>2. call.at = "issued" => built \in intents' /\ built.id = call.id
    BY <1>1
  <2>. HIDE DEF call
  <2>. QED
    BY <1>1, <1>2, <2>1, <2>2, RequestMoves
<1>5. HandedStored'
  <2>1. intents \subseteq intents' /\ handed \in Seq(intents)
    BY <1>1 DEF IntentIInv, HandedStored
  <2>. QED
    BY <1>1, <2>1 DEF HandedStored
<1>. QED
  BY <1>1, <1>3, <1>4, <1>5 DEF IntentIInv, RulingsTyped

LEMMA HandToWalletKeeps ==
  ASSUME IntentIInv, NEW q \in Requesters, HandToWallet(q)
  PROVE  IntentIInv'
<1>1. UNCHANGED <<taskRow, rulings, intents>> /\ RulingsKept
  BY DEF HandToWallet, RulingsKept
<1>2. Issued(q) \in intents
  BY DEF IntentIInv, RequestsSound, HandToWallet, Issued
<1>3. handed \in Seq(intents) /\ handed' \in {handed, Append(handed, Issued(q))}
  BY DEF IntentIInv, HandedStored, HandToWallet
<1>4. HandedStored'
  BY <1>1, <1>2, <1>3 DEF HandedStored
<1>5. RequestsSound'
  <2>. DEFINE call == [at |-> "idle"]
  <2>1. call.at = "idle" /\ building' = [building EXCEPT ![q] = call]
    BY DEF HandToWallet
  <2>. HIDE DEF call
  <2>. QED
    BY <1>1, <2>1, RequestMoves
<1>6. IntentsSound'
  BY <1>1, ReviewsStand DEF IntentIInv, IntentsSound
<1>. QED
  BY <1>1, <1>4, <1>5, <1>6 DEF IntentIInv, RulingsTyped

LEMMA GiveUpRequestKeeps ==
  ASSUME IntentIInv, NEW q \in Requesters, GiveUpRequest(q)
  PROVE  IntentIInv'
<1>1. UNCHANGED <<taskRow, rulings, intents, handed>> /\ RulingsKept
  BY DEF GiveUpRequest, RulingsKept
<1>2. RequestsSound'
  <2>. DEFINE call == [at |-> "idle"]
  <2>1. call.at = "idle" /\ building' = [building EXCEPT ![q] = call]
    BY DEF GiveUpRequest
  <2>. HIDE DEF call
  <2>. QED
    BY <1>1, <2>1, RequestMoves
<1>3. IntentsSound'
  BY <1>1, ReviewsStand DEF IntentIInv, IntentsSound
<1>. QED
  BY <1>1, <1>2, <1>3 DEF IntentIInv, RulingsTyped, HandedStored

LEMMA NextIntentIInv == IntentIInv /\ [IntentNext]_intentVars => IntentIInv'
<1>. SUFFICES ASSUME IntentIInv, [IntentNext]_intentVars PROVE IntentIInv'
  OBVIOUS
<1>1. CASE UNCHANGED intentVars
  <2>1. RulingsKept /\ RulingsTyped'
    BY <1>1 DEF intentVars, RulingsKept, IntentIInv, RulingsTyped
  <2>. QED
    BY <1>1, <2>1, OthersMove DEF intentVars
<1>2. CASE IntentNext
  BY <1>2, TaskRowMovesKeeps, RecordReviewKeeps, ReviewExpiresKeeps, BuildIntentKeeps,
     StoreIntentKeeps, HandToWalletKeeps, GiveUpRequestKeeps DEF IntentNext
<1>. QED
  BY <1>1, <1>2

\* However requests, reviews and the task cross each other, an identifier stands for one
\* payload, wallets are handed what is stored, and a resolution says what the arbiter's
\* review of that version says (transaction-intents, the verify route and sendTransactionIntent).
THEOREM IntentsHandedAsIssued == IntentSpec => []HandedAsIssued
<1>1. IntentIInv => HandedAsIssued
  BY DEF IntentIInv, IntentsSound, HandedStored, RestsOnReview, HandedAsIssued
<1>2. IntentSpec => []IntentIInv
  BY InitIntentIInv, NextIntentIInv, PTL DEF IntentSpec
<1>. QED
  BY <1>1, <1>2, PTL

-----------------------------------------------------------------------------
(* Wallet logins at the server.                                            *)

Challenge == [wallet : Wallets, expires : Int, consumed : Int]
Session == [token : Browsers \X ChallengeIds, wallet : Wallets, issued : Nat,
            expires : Int, revoked : Int]
Executed == [token : Browsers \X ChallengeIds, wallet : Wallets, when : Nat]

LoginTypeOK ==
    /\ instant \in Nat
    /\ DOMAIN challenges \subseteq ChallengeIds
    /\ \A id \in DOMAIN challenges : challenges[id] \in Challenge
    /\ challenges = [id \in DOMAIN challenges |-> challenges[id]]
    /\ sessions \subseteq Session /\ executed \subseteq Executed
    /\ DOMAIN verifying = Browsers /\ DOMAIN jar = Browsers
    /\ DOMAIN leaving = Browsers /\ DOMAIN command = Browsers

\* A session rests on a challenge that was consumed when it was issued.
Opened(s) ==
    LET id == s.token[2] IN
    /\ id \in DOMAIN challenges /\ challenges[id].consumed # Unset
    /\ s.wallet = challenges[id].wallet /\ s.issued = challenges[id].consumed
    /\ s.issued < challenges[id].expires /\ s.issued <= instant

SessionsOpened ==
    /\ \A s \in sessions : Opened(s)
    /\ \A r, s \in sessions : r.token[2] = s.token[2] => r = s

\* What a verification remembers of its challenge is still so, except that another
\* one may have consumed it; the session it opened is there.
Remembers(call) ==
    /\ call.at = "found" =>
         /\ call.id \in DOMAIN challenges
         /\ call.stored.wallet = challenges[call.id].wallet
    /\ call.at = "checked" =>
         /\ call.id \in DOMAIN challenges /\ call.wallet = challenges[call.id].wallet
         /\ call.now \in 0..instant
    /\ call.at = "opened" => \E s \in sessions : s.token = call.token

VerifyingSound == \A b \in Browsers : Remembers(verifying[b])

CookiesSound == \A b \in Browsers : jar[b] # NoToken => \E s \in sessions : s.token = jar[b]

\* A command ran under a session as it should be.
RanUnder(e, s) ==
    /\ s.token = e.token /\ s.wallet = e.wallet
    /\ e.when < s.expires /\ e.when - s.issued \in 0..RecentWindow
    /\ s.revoked # Unset => e.when <= s.revoked

CommandsSound ==
    \A e \in executed : e.when <= instant /\ \E s \in sessions : RanUnder(e, s)

LoginIInv ==
    LoginTypeOK /\ SessionsOpened /\ VerifyingSound /\ CookiesSound /\ CommandsSound

LEMMA InitLoginIInv == ChallengeInit => LoginIInv
<1>. SUFFICES ASSUME ChallengeInit PROVE LoginIInv
  OBVIOUS
<1>1. LoginTypeOK
  BY DEF ChallengeInit, LoginTypeOK
<1>2. SessionsOpened /\ CookiesSound /\ CommandsSound
  BY DEF ChallengeInit, SessionsOpened, CookiesSound, CommandsSound
<1>3. VerifyingSound
  BY DEF ChallengeInit, VerifyingSound, Remembers, NoCall
<1>. QED
  BY <1>1, <1>2, <1>3 DEF LoginIInv

\* The clock runs, challenges are issued and a session that was there stays.
LEMMA TimePassesKeeps ==
  ASSUME LoginIInv, TimePasses
  PROVE  LoginIInv'
<1>1. /\ instant \in Nat /\ instant' = instant + 1
      /\ UNCHANGED <<challenges, sessions, verifying, jar, leaving, command, executed>>
  BY DEF LoginIInv, LoginTypeOK, TimePasses
<1>2. LoginTypeOK'
  BY <1>1 DEF LoginIInv, LoginTypeOK
<1>3. SessionsOpened'
  <2>1. \A s \in sessions : s.issued \in Nat /\ Opened(s)
    BY DEF LoginIInv, LoginTypeOK, SessionsOpened, Session
  <2>. QED
    BY <1>1, <2>1 DEF LoginIInv, SessionsOpened, Opened
<1>4. VerifyingSound'
  BY <1>1 DEF LoginIInv, VerifyingSound, Remembers
<1>5. CookiesSound'
  BY <1>1 DEF LoginIInv, CookiesSound
<1>6. CommandsSound'
  <2>1. \A e \in executed : e.when \in Nat
    BY DEF LoginIInv, LoginTypeOK, Executed
  <2>. QED
    BY <1>1, <2>1 DEF LoginIInv, CommandsSound, RanUnder
<1>. QED
  BY <1>2, <1>3, <1>4, <1>5, <1>6 DEF LoginIInv

LEMMA IssueChallengeKeeps ==
  ASSUME LoginIInv, NEW id \in ChallengeIds, NEW w \in Wallets, IssueChallenge(id, w)
  PROVE  LoginIInv'
<1>1. UNCHANGED <<instant, sessions, verifying, jar, leaving, command, executed>>
  BY DEF IssueChallenge
<1>. DEFINE fresh == [wallet |-> w, expires |-> instant + ChallengeLife, consumed |-> Unset]
<1>2. fresh \in Challenge
  BY ChallengeTimes DEF LoginIInv, LoginTypeOK, Challenge, Unset
<1>3. /\ id \notin DOMAIN challenges
      /\ challenges' = [c \in DOMAIN challenges \cup {id} |-> IF c = id THEN fresh ELSE challenges[c]]
  BY DEF IssueChallenge
<1>. HIDE DEF fresh
<1>4. LoginTypeOK'
  BY <1>1, <1>2, <1>3 DEF LoginIInv, LoginTypeOK
<1>5. SessionsOpened'
  BY <1>1, <1>3 DEF LoginIInv, SessionsOpened, Opened
<1>6. VerifyingSound'
  BY <1>1, <1>3 DEF LoginIInv, VerifyingSound, Remembers
<1>7. CookiesSound' /\ CommandsSound'
  BY <1>1 DEF LoginIInv, CookiesSound, CommandsSound, RanUnder
<1>. QED
  BY <1>4, <1>5, <1>6, <1>7 DEF LoginIInv

\* A verification moves on while challenges, sessions and clock stay.
LEMMA VerificationMoves ==
  ASSUME LoginIInv, NEW b \in Browsers, NEW call,
         UNCHANGED <<instant, challenges, sessions, leaving, command, executed>>,
         verifying' = [verifying EXCEPT ![b] = call], Remembers(call),
         \/ UNCHANGED jar
         \/ jar' = [jar EXCEPT ![b] = verifying[b].token] /\ verifying[b].at = "opened"
  PROVE  LoginIInv'
<1>1. LoginTypeOK'
  BY DEF LoginIInv, LoginTypeOK
<1>2. SessionsOpened'
  BY DEF LoginIInv, SessionsOpened, Opened
<1>3. VerifyingSound'
  BY DEF LoginIInv, LoginTypeOK, VerifyingSound, Remembers
<1>4. CookiesSound'
  BY DEF LoginIInv, LoginTypeOK, CookiesSound, VerifyingSound, Remembers
<1>5. CommandsSound'
  BY DEF LoginIInv, CommandsSound, RanUnder
<1>. QED
  BY <1>1, <1>2, <1>3, <1>4, <1>5 DEF LoginIInv

LEMMA FindChallengeKeeps ==
  ASSUME LoginIInv, NEW b \in Browsers, NEW id, NEW w, NEW signer, FindChallenge(b, id, w, signer)
  PROVE  LoginIInv'
<1>. DEFINE call == [at |-> "found", id |-> id, wallet |-> w, signer |-> signer, stored |-> challenges[id]]
<1>1. Remembers(call)
  BY DEF FindChallenge, Remembers
<1>. PICK found : found = call
  OBVIOUS
<1>2. verifying' = [verifying EXCEPT ![b] = found]
  BY DEF FindChallenge
<1>. HIDE DEF call
<1>. QED
  BY <1>1, <1>2, VerificationMoves DEF FindChallenge

LEMMA CheckMessageKeeps ==
  ASSUME LoginIInv, NEW b \in Browsers, CheckMessage(b)
  PROVE  LoginIInv'
<1>. DEFINE was == verifying[b]
            call == [at |-> "checked", id |-> was.id, wallet |-> was.wallet, now |-> instant]
<1>1. Remembers(was) /\ was.at = "found" /\ SameChallenge(was) /\ instant \in Nat
  BY DEF LoginIInv, LoginTypeOK, VerifyingSound, CheckMessage
<1>2. Remembers(call)
  BY <1>1 DEF Remembers, SameChallenge
<1>. PICK checked : checked = call
  OBVIOUS
<1>3. verifying' = [verifying EXCEPT ![b] = checked]
  BY DEF CheckMessage
<1>. HIDE DEF call, was
<1>. QED
  BY <1>2, <1>3, VerificationMoves DEF CheckMessage

LEMMA VerifyEndsKeeps ==
  ASSUME LoginIInv, NEW b \in Browsers, SetCookie(b) \/ VerifyEnds(b)
  PROVE  LoginIInv'
<1>1. Remembers(NoCall)
  BY DEF Remembers, NoCall
<1>. QED
  BY <1>1, VerificationMoves DEF SetCookie, VerifyEnds

LEMMA ConsumeChallengeKeeps ==
  ASSUME LoginIInv, NEW b \in Browsers, ConsumeChallenge(b)
  PROVE  LoginIInv'
<1>. PICK call : call = verifying[b]
  OBVIOUS
<1>. PICK id : id = call.id
  OBVIOUS
<1>. DEFINE s == SessionOf(b, call)
            spent == [challenges[id] EXCEPT !.consumed = call.now]
<1>1. /\ call.at = "checked" /\ Remembers(call)
      /\ challenges[id].consumed = Unset /\ challenges[id].expires > call.now
      /\ challenges' = [challenges EXCEPT ![id] = spent]
      /\ sessions' = sessions \cup {s}
      /\ verifying' = [verifying EXCEPT ![b] = [at |-> "opened", token |-> <<b, id>>]]
      /\ UNCHANGED <<instant, jar, leaving, command, executed>>
  BY DEF LoginIInv, VerifyingSound, ConsumeChallenge, Consumable
<1>2. /\ id \in DOMAIN challenges /\ id \in ChallengeIds /\ challenges[id] \in Challenge
      /\ call.wallet = challenges[id].wallet /\ call.now \in Nat /\ call.now <= instant /\ instant \in Nat
  BY <1>1 DEF LoginIInv, LoginTypeOK, Remembers
<1>3. /\ spent \in Challenge /\ spent.wallet = challenges[id].wallet
      /\ spent.expires = challenges[id].expires /\ spent.consumed = call.now
  BY <1>2 DEF Challenge
<1>4. /\ s \in Session /\ s.token = <<b, id>> /\ s.wallet = call.wallet
      /\ s.issued = call.now
  BY <1>2, ChallengeTimes DEF SessionOf, Session, Challenge, Unset
<1>. HIDE DEF spent, s
<1>5. /\ DOMAIN challenges' = DOMAIN challenges /\ challenges'[id] = spent
      /\ \A c \in DOMAIN challenges : c # id => challenges'[c] = challenges[c]
  BY <1>1, <1>2
<1>6. LoginTypeOK'
  <2>1. challenges' = [c \in DOMAIN challenges' |-> challenges'[c]]
    BY <1>1
  <2>2. \A c \in DOMAIN challenges' : challenges'[c] \in Challenge
    BY <1>3, <1>5 DEF LoginIInv, LoginTypeOK
  <2>. QED
    BY <1>1, <1>4, <1>5, <2>1, <2>2 DEF LoginIInv, LoginTypeOK
<1>7. \A r \in sessions : r.token[2] # id
  BY <1>1 DEF LoginIInv, SessionsOpened, Opened
<1>8. SessionsOpened'
  <2>1. ASSUME NEW r \in sessions' PROVE Opened(r)'
    <3>1. CASE r \in sessions
      BY <1>1, <1>5, <1>7, <3>1 DEF LoginIInv, SessionsOpened, Opened
    <3>2. CASE r = s
      BY <1>1, <1>2, <1>3, <1>4, <1>5, <3>2 DEF Opened, Unset
    <3>. QED
      BY <1>1, <3>1, <3>2
  <2>2. \A r, t \in sessions' : r.token[2] = t.token[2] => r = t
    BY <1>1, <1>4, <1>7 DEF LoginIInv, SessionsOpened
  <2>. QED
    BY <2>1, <2>2 DEF SessionsOpened
<1>9. VerifyingSound'
  <2>1. ASSUME NEW v \in Browsers PROVE Remembers(verifying[v])'
    <3>1. CASE v = b
      BY <1>1, <1>4, <3>1 DEF LoginIInv, LoginTypeOK, Remembers
    <3>2. CASE v # b
      <4>1. verifying'[v] = verifying[v] /\ Remembers(verifying[v])
        BY <1>1, <3>2 DEF LoginIInv, LoginTypeOK, VerifyingSound
      <4>. QED
        BY <1>1, <1>3, <1>5, <4>1 DEF Remembers
    <3>. QED
      BY <3>1, <3>2
  <2>. QED
    BY <2>1 DEF VerifyingSound
<1>10. CookiesSound' /\ CommandsSound'
  BY <1>1 DEF LoginIInv, CookiesSound, CommandsSound, RanUnder
<1>. QED
  BY <1>6, <1>8, <1>9, <1>10 DEF LoginIInv

\* Sessions are revoked as they stand: what else they say stays.
LEMMA RevokeSessionKeeps ==
  ASSUME LoginIInv, NEW b \in Browsers, RevokeSession(b)
  PROVE  LoginIInv'
<1>. PICK after : after = [s \in sessions |-> IF s.token = jar[b] /\ s.revoked = Unset
                                               THEN [s EXCEPT !.revoked = instant] ELSE s]
  OBVIOUS
<1>1. /\ sessions' = {after[s] : s \in sessions}
      /\ DOMAIN leaving' = DOMAIN leaving
      /\ UNCHANGED <<instant, challenges, verifying, jar, command, executed>>
  BY DEF RevokeSession
<1>2. ASSUME NEW s \in sessions
      PROVE  /\ after[s] \in Session /\ after[s].token = s.token /\ after[s].wallet = s.wallet
             /\ after[s].issued = s.issued /\ after[s].expires = s.expires
             /\ after[s].revoked = s.revoked \/ (s.revoked = Unset /\ after[s].revoked = instant)
  <2>1. s \in Session /\ instant \in Nat
    BY DEF LoginIInv, LoginTypeOK
  <2>. QED
    BY <2>1 DEF Session
<1>8. /\ \A s \in sessions : after[s] \in sessions'
      /\ \A t \in sessions' : \E s \in sessions : t = after[s]
  BY <1>1
<1>9. \A token : (\E s \in sessions : s.token = token) => \E s \in sessions' : s.token = token
  <2>1. \A s \in sessions : after[s].token = s.token
    BY <1>2
  <2>. QED
    BY <1>8, <2>1, ZenonT(40)
<1>3. LoginTypeOK'
  BY <1>1, <1>2 DEF LoginIInv, LoginTypeOK
<1>4. SessionsOpened'
  <2>1. \A s \in sessions : Opened(after[s])'
    BY <1>1, <1>2 DEF LoginIInv, SessionsOpened, Opened
  <2>2. \A r, s \in sessions : after[r].token[2] = after[s].token[2] => r = s
    BY <1>2 DEF LoginIInv, SessionsOpened
  <2>3. ASSUME NEW t \in sessions' PROVE Opened(t)'
    <3>1. PICK s \in sessions : t = after[s]
      BY <1>8
    <3>2. Opened(after[s])'
      BY <2>1
    <3>. QED
      BY <3>1, <3>2 DEF Opened
  <2>4. ASSUME NEW r \in sessions', NEW t \in sessions', r.token[2] = t.token[2] PROVE r = t
    <3>1. PICK p \in sessions : r = after[p]
      BY <1>8
    <3>2. PICK s \in sessions : t = after[s]
      BY <1>8
    <3>. QED
      BY <2>2, <2>4, <3>1, <3>2
  <2>. QED
    BY <2>3, <2>4 DEF SessionsOpened
<1>5. VerifyingSound'
  <2>1. \A v \in Browsers : Remembers(verifying[v])
    BY DEF LoginIInv, VerifyingSound
  <2>2. \A v \in Browsers : Remembers(verifying[v])'
    BY <1>1, <1>9, <2>1 DEF Remembers
  <2>. QED
    BY <2>2 DEF VerifyingSound
<1>6. CookiesSound'
  BY <1>1, <1>9 DEF LoginIInv, CookiesSound
<1>7. CommandsSound'
  <2>1. ASSUME NEW e \in executed, NEW s \in sessions, RanUnder(e, s)
        PROVE  RanUnder(e, after[s])'
    BY <1>1, <1>2, <2>1 DEF LoginIInv, CommandsSound, RanUnder
  <2>. QED
    BY <1>1, <2>1 DEF LoginIInv, CommandsSound
<1>. QED
  BY <1>3, <1>4, <1>5, <1>6, <1>7 DEF LoginIInv

LEMMA ClearCookieKeeps ==
  ASSUME LoginIInv, NEW b \in Browsers, ClearCookie(b)
  PROVE  LoginIInv'
<1>1. UNCHANGED <<instant, challenges, sessions, verifying, command, executed>>
  BY DEF ClearCookie
<1>2. LoginTypeOK'
  BY <1>1 DEF ClearCookie, LoginIInv, LoginTypeOK
<1>3. SessionsOpened' /\ VerifyingSound' /\ CommandsSound'
  BY <1>1 DEF LoginIInv, SessionsOpened, Opened, VerifyingSound, Remembers, CommandsSound, RanUnder
<1>4. CookiesSound'
  BY <1>1 DEF ClearCookie, LoginIInv, LoginTypeOK, CookiesSound
<1>. QED
  BY <1>2, <1>3, <1>4 DEF LoginIInv

\* A command that begins, or whose body is late, leaves everything else alone.
LEMMA CommandWaits ==
  ASSUME LoginIInv, NEW b \in Browsers, BeginCommand(b) \/ BodyTooLate(b)
  PROVE  LoginIInv'
<1>1. UNCHANGED <<instant, challenges, sessions, verifying, jar, leaving, executed>>
  BY DEF BeginCommand, BodyTooLate
<1>2. LoginTypeOK'
  BY <1>1 DEF BeginCommand, BodyTooLate, LoginIInv, LoginTypeOK
<1>3. SessionsOpened' /\ VerifyingSound' /\ CommandsSound' /\ CookiesSound'
  BY <1>1 DEF LoginIInv, SessionsOpened, Opened, VerifyingSound, Remembers, CommandsSound, RanUnder,
              CookiesSound
<1>. QED
  BY <1>2, <1>3 DEF LoginIInv

LEMMA BodyArrivesKeeps ==
  ASSUME LoginIInv, NEW b \in Browsers, BodyArrives(b)
  PROVE  LoginIInv'
<1>1. UNCHANGED <<instant, challenges, sessions, verifying, jar, leaving>>
  BY DEF BodyArrives
<1>2. PICK s \in Active(command[b].session.token) :
        /\ Recent(s)
        /\ executed' = executed \cup {[token |-> s.token, wallet |-> s.wallet, when |-> instant]}
  BY DEF BodyArrives
<1>. DEFINE e == [token |-> s.token, wallet |-> s.wallet, when |-> instant]
<1>3. s \in sessions /\ s \in Session /\ s.revoked = Unset /\ s.expires > instant
      /\ s.issued <= instant /\ instant \in Nat
  BY <1>2 DEF Active, LoginIInv, LoginTypeOK, SessionsOpened, Opened
<1>4. e \in Executed /\ RanUnder(e, s) /\ e.when <= instant
  BY <1>2, <1>3, ChallengeTimes DEF Session, Executed, RanUnder, Recent
<1>8. executed' = executed \cup {e}
  BY <1>2
<1>. PICK run : run = e
  OBVIOUS
<1>9. executed' = executed \cup {run} /\ run \in Executed /\ RanUnder(run, s) /\ run.when <= instant
  BY <1>4, <1>8
<1>. HIDE DEF e
<1>5. LoginTypeOK'
  BY <1>1, <1>9 DEF BodyArrives, LoginIInv, LoginTypeOK
<1>6. SessionsOpened' /\ VerifyingSound' /\ CookiesSound'
  BY <1>1 DEF LoginIInv, SessionsOpened, Opened, VerifyingSound, Remembers, CookiesSound
<1>7. CommandsSound'
  <2>1. \A x \in executed' : x.when <= instant /\ \E r \in sessions : RanUnder(x, r)
    BY <1>3, <1>9 DEF LoginIInv, CommandsSound
  <2>. QED
    BY <1>1, <2>1 DEF CommandsSound, RanUnder
<1>. QED
  BY <1>5, <1>6, <1>7 DEF LoginIInv

LEMMA NextLoginIInv == LoginIInv /\ [ChallengeNext]_challengeVars => LoginIInv'
<1>. SUFFICES ASSUME LoginIInv, [ChallengeNext]_challengeVars PROVE LoginIInv'
  OBVIOUS
<1>1. CASE UNCHANGED challengeVars
  BY <1>1 DEF challengeVars, LoginIInv, LoginTypeOK, SessionsOpened, Opened, VerifyingSound,
              Remembers, CookiesSound, CommandsSound, RanUnder
<1>2. CASE ChallengeNext
  BY <1>2, TimePassesKeeps, IssueChallengeKeeps, FindChallengeKeeps, CheckMessageKeeps,
     ConsumeChallengeKeeps, VerifyEndsKeeps, RevokeSessionKeeps, ClearCookieKeeps,
     CommandWaits, BodyArrivesKeeps DEF ChallengeNext
<1>. QED
  BY <1>1, <1>2

\* For any wallets, browsers and challenges: a signature opens one session, of the wallet
\* that was challenged, and a command of governance runs only under a session that is
\* neither revoked, expired nor old (the challenge store, findActiveSession, requireRecentAuth).
THEOREM SessionsOpenedOnce == ChallengeSpec => []OneSessionPerSignature
<1>1. LoginIInv => OneSessionPerSignature
  BY DEF LoginIInv, SessionsOpened, Opened, CookiesSound, CommandsSound, RanUnder, OneSessionPerSignature
<1>2. ChallengeSpec => []LoginIInv
  BY InitLoginIInv, NextLoginIInv, PTL DEF ChallengeSpec
<1>. QED
  BY <1>1, <1>2, PTL

-----------------------------------------------------------------------------
(* What governance publishes and resolves.                                 *)

Snap == [content : Contents, owner : {Owner} \cup Owners]
Listing == [version : Nat, status : {"published", "retired"}, content : Contents,
            owner : {Owner} \cup Owners]
Petition == [kind : {"propose_release", "propose_rollback", "resolve_ticket"}, expected : Nat,
             by : {Owner} \cup People, key : Nat, payload : Snap \cup {Nothing}, target : Nat,
             status : {"pending", "approved", "rejected"}, reviewer : {"", FirstReviewer} \cup People]
Ticket == [status : {"open", "resolved"}, version : Nat]
Release == [id : Nat, snapshot : Snap, version : Nat, over : Snap]

GovernanceTypeOK ==
    /\ listing \in Listing /\ petitions \in Seq(Petition) /\ tickets \in Seq(Ticket)
    /\ releases \subseteq Release
    /\ keys \in Nat /\ DOMAIN desk = Desks
    /\ \A d \in Desks : desk[d] # NoRetry => desk[d].by \in People /\ desk[d].key \in Nat \ {0}

\* A key is spent with the proposal it makes; the first release's had none.
KeysSpent ==
    \A i \in DOMAIN petitions :
        /\ petitions[i].key = 0 => i = 1
        /\ petitions[i].key # 0 => [by |-> petitions[i].by, key |-> petitions[i].key] \in answered
        /\ \A j \in DOMAIN petitions :
             petitions[i].by = petitions[j].by /\ petitions[i].key = petitions[j].key => i = j

ReviewedByAnother ==
    \A i \in DOMAIN petitions :
        petitions[i].status = "approved" =>
            petitions[i].reviewer \notin {petitions[i].by, petitions[i].payload.owner}

\* A ticket whose resolution was approved is resolved, by that proposal alone.
TicketsSound ==
    \A i \in DOMAIN petitions : petitions[i].kind = "resolve_ticket" =>
        /\ petitions[i].target \in DOMAIN tickets /\ petitions[i].payload = Nothing
        /\ petitions[i].status = "approved" =>
             /\ tickets[petitions[i].target].status = "resolved"
             /\ \A j \in DOMAIN petitions :
                  petitions[j].kind = "resolve_ticket" /\ petitions[j].status = "approved"
                      /\ petitions[j].target = petitions[i].target => i = j

\* A release was proposed over what the listing said; a rollback names an earlier release.
ProposalsSound ==
    \A i \in DOMAIN petitions :
        /\ petitions[i].kind = "propose_rollback" => \E r \in releases : r.id = petitions[i].target
        /\ petitions[i].status = "approved" /\ IsRelease(petitions[i]) =>
             \E r \in releases : r.id = i /\ r.over = petitions[i].payload

Published(r) ==
    /\ r.id \in DOMAIN petitions /\ petitions[r.id].status = "approved"
    /\ r.version <= listing.version
    /\ r.snapshot.owner = r.over.owner
    /\ petitions[r.id].kind = "propose_release" => r.snapshot = petitions[r.id].payload
    /\ petitions[r.id].kind # "propose_release" =>
         \E s \in releases : /\ s.id = petitions[r.id].target /\ s.snapshot = r.snapshot
                             /\ s.version < r.version

ReleasesSound ==
    /\ \A r \in releases : Published(r)
    /\ \A r, s \in releases : s.version = r.version => s = r

GovernanceIInv ==
    /\ GovernanceTypeOK /\ KeysSpent /\ ReviewedByAnother
    /\ TicketsSound /\ ProposalsSound /\ ReleasesSound

LEMMA InitGovernanceIInv == GovernanceInit => GovernanceIInv
<1>. SUFFICES ASSUME GovernanceInit PROVE GovernanceIInv
  OBVIOUS
<1>1. PICK content \in Contents :
         /\ releases = {FirstRelease(content)}
         /\ petitions = <<[kind |-> "propose_release", expected |-> 1, by |-> Owner, key |-> 0,
                           payload |-> FirstRelease(content).snapshot, target |-> 0,
                           status |-> "approved", reviewer |-> FirstReviewer]>>
  BY DEF GovernanceInit
<1>. DEFINE p == petitions[1]
            r == FirstRelease(content)
<1>2. /\ DOMAIN petitions = {1} /\ petitions \in Seq(Petition)
      /\ p.kind = "propose_release" /\ p.by = Owner /\ p.key = 0 /\ p.payload = r.snapshot
      /\ p.status = "approved" /\ p.reviewer = FirstReviewer
  BY <1>1 DEF Petition, Snap, FirstRelease
<1>3. /\ r \in Release /\ r.id = 1 /\ r.version = 2 /\ r.over = r.snapshot
      /\ r.snapshot.owner = Owner
  BY DEF Release, Snap, FirstRelease
<1>. HIDE DEF r, p
<1>4. GovernanceTypeOK
  <2>1. releases \subseteq Release
    BY <1>1, <1>3 DEF r
  <2>2. /\ tickets = << >> /\ keys = 0 /\ desk = [d \in Desks |-> NoRetry]
        /\ listing \in [version : {2}, status : {"published"}, content : Contents, owner : {Owner}]
    BY DEF GovernanceInit
  <2>3. listing \in Listing /\ tickets \in Seq(Ticket)
    BY <2>2 DEF Listing
  <2>. QED
    BY <1>2, <2>1, <2>2, <2>3 DEF GovernanceTypeOK
<1>5. KeysSpent
  BY <1>2 DEF KeysSpent, p
<1>6. ReviewedByAnother
  BY <1>2, <1>3, GovernanceConstants DEF ReviewedByAnother, p
<1>7. TicketsSound
  BY <1>2 DEF TicketsSound, p
<1>8. ProposalsSound
  BY <1>1, <1>2, <1>3 DEF ProposalsSound, p, r
<1>9. ReleasesSound
  <2>1. listing.version = 2
    BY DEF GovernanceInit
  <2>2. Published(r)
    BY <1>2, <1>3, <2>1 DEF Published, p
  <2>. QED
    BY <1>1, <2>2 DEF ReleasesSound, r
<1>. QED
  BY <1>4, <1>5, <1>6, <1>7, <1>8, <1>9 DEF GovernanceIInv

\* While proposals, tickets and releases stay, the listing may change if its version
\* does not go back, and desks may send what has a key.
LEMMA RecordsStay ==
  ASSUME GovernanceIInv, GovernanceTypeOK', UNCHANGED <<petitions, tickets, releases>>,
         answered \subseteq answered', listing'.version >= listing.version
  PROVE  GovernanceIInv'
<1>1. KeysSpent' /\ ReviewedByAnother' /\ TicketsSound' /\ ProposalsSound'
  BY DEF GovernanceIInv, KeysSpent, ReviewedByAnother, TicketsSound, ProposalsSound, IsRelease
<1>2. ReleasesSound'
  <2>1. listing'.version \in Nat /\ listing.version \in Nat /\ \A r \in releases : r.version \in Nat
    BY DEF GovernanceIInv, GovernanceTypeOK, Listing, Release
  <2>2. \A r \in releases : Published(r)'
    BY <2>1 DEF GovernanceIInv, ReleasesSound, Published
  <2>. QED
    BY <2>2 DEF GovernanceIInv, ReleasesSound
<1>. QED
  BY <1>1, <1>2 DEF GovernanceIInv

LEMMA DeskKeeps ==
  ASSUME GovernanceIInv, NEW d \in Desks,
         LeaveDesk(d) \/ \E w \in People : \E c : SendCommand(d, w, c)
  PROVE  GovernanceIInv'
<1>1. /\ UNCHANGED <<listing, petitions, tickets, releases, answered>> /\ listing.version \in Nat
  BY DEF SendCommand, LeaveDesk, effectVars, GovernanceIInv, GovernanceTypeOK, Listing
<1>2. GovernanceTypeOK'
  <2>1. CASE LeaveDesk(d)
    BY <1>1, <2>1 DEF LeaveDesk, GovernanceIInv, GovernanceTypeOK
  <2>2. ASSUME NEW w \in People, NEW c, SendCommand(d, w, c) PROVE GovernanceTypeOK'
    BY <1>1, <2>2 DEF SendCommand, GovernanceIInv, GovernanceTypeOK, NoRetry
  <2>. QED
    BY <2>1, <2>2
<1>. QED
  BY <1>1, <1>2, RecordsStay

LEMMA OutsideKeeps ==
  ASSUME GovernanceIInv, ListingMoves \/ \E w, r : RevokeRole(w, r)
  PROVE  GovernanceIInv'
<1>1. /\ UNCHANGED <<petitions, tickets, releases, answered, keys, desk>>
      /\ listing' \in Listing /\ listing'.version >= listing.version
  <2>1. CASE ListingMoves
    <3>1. listing \in Listing
      BY DEF GovernanceIInv, GovernanceTypeOK
    <3>2. PICK v \in {listing.version, listing.version + 1} :
            \/ \E c \in Contents : listing' = [listing EXCEPT !.version = v, !.content = c]
            \/ \E o \in Owners : listing' = [listing EXCEPT !.version = v, !.owner = o]
            \/ listing' = [listing EXCEPT !.version = v, !.status = "retired"]
      BY <2>1 DEF ListingMoves
    <3>3. v \in Nat /\ v >= listing.version
      BY <3>1 DEF Listing
    <3>4. listing' \in Listing /\ listing'.version = v
      BY <3>1, <3>2, <3>3 DEF Listing
    <3>. QED
      BY <2>1, <3>3, <3>4 DEF ListingMoves
  <2>2. CASE \E w, r : RevokeRole(w, r)
    BY <2>2 DEF RevokeRole, effectVars, GovernanceIInv, GovernanceTypeOK, Listing
  <2>. QED
    BY <2>1, <2>2
<1>2. GovernanceTypeOK'
  BY <1>1 DEF GovernanceIInv, GovernanceTypeOK
<1>. QED
  BY <1>1, <1>2, RecordsStay

\* What a command leaves alone, and what it is known by from now on.
Executes(m) ==
    /\ m.by \in People /\ m.key \in Nat \ {0} /\ ~Answered(m)
    /\ answered' = answered \cup {[by |-> m.by, key |-> m.key]}
    /\ UNCHANGED <<keys, desk>>

\* A proposal is made: under a key of its own, of a ticket or a release that is there.
LEMMA ProposeKeeps ==
  ASSUME GovernanceIInv, NEW m, Executes(m), NEW p \in Petition,
         petitions' = Append(petitions, p), UNCHANGED <<listing, tickets, releases>>,
         p.by = m.by, p.key = m.key, p.status = "pending",
         p.kind = "resolve_ticket" => p.target \in DOMAIN tickets /\ p.payload = Nothing,
         p.kind = "propose_rollback" => \E r \in releases : r.id = p.target
  PROVE  GovernanceIInv'
<1>1. petitions \in Seq(Petition)
  BY DEF GovernanceIInv, GovernanceTypeOK
<1>. DEFINE n == Len(petitions) + 1
<1>2. /\ petitions' \in Seq(Petition) /\ n \in Nat /\ n \notin DOMAIN petitions
      /\ DOMAIN petitions' = DOMAIN petitions \cup {n}
      /\ petitions'[n] = p /\ \A i \in DOMAIN petitions : petitions'[i] = petitions[i]
      /\ n = 1 => DOMAIN petitions = {}
  BY <1>1
<1>. PICK last : last = n
  OBVIOUS
<1>3. /\ last \notin DOMAIN petitions /\ DOMAIN petitions' = DOMAIN petitions \cup {last}
      /\ petitions'[last] = p /\ \A i \in DOMAIN petitions : petitions'[i] = petitions[i]
  BY <1>2
<1>. HIDE DEF n
<1>4. GovernanceTypeOK'
  BY <1>2 DEF GovernanceIInv, GovernanceTypeOK, Executes
<1>5. KeysSpent'
  <2>1. \A i \in DOMAIN petitions : ~(petitions[i].by = m.by /\ petitions[i].key = m.key)
    BY DEF GovernanceIInv, KeysSpent, Executes, Answered
  <2>. QED
    BY <1>3, <2>1 DEF GovernanceIInv, KeysSpent, Executes
<1>6. ReviewedByAnother'
  BY <1>3 DEF GovernanceIInv, ReviewedByAnother
<1>7. TicketsSound'
  BY <1>3 DEF GovernanceIInv, TicketsSound
<1>8. ProposalsSound'
  BY <1>3 DEF GovernanceIInv, ProposalsSound, IsRelease
<1>9. ReleasesSound'
  BY <1>3 DEF GovernanceIInv, ReleasesSound, Published
<1>. QED
  BY <1>4, <1>5, <1>6, <1>7, <1>8, <1>9 DEF GovernanceIInv

LEMMA ProposeReleaseKeeps ==
  ASSUME GovernanceIInv, NEW m, Executes(m), ProposeRelease(m)
  PROVE  GovernanceIInv'
<1>1. PICK target \in Nat :
        /\ Propose(m, Snapshot, target)
        /\ m.command.action = "propose_rollback" => \E r \in releases : r.id = target
  <2>1. CASE m.command.action = "propose_release"
    BY <2>1 DEF ProposeRelease
  <2>2. CASE m.command.action # "propose_release"
    <3>1. PICK r \in releases : Propose(m, Snapshot, r.id)
      BY <2>2 DEF ProposeRelease
    <3>2. r.id \in Nat
      BY DEF GovernanceIInv, GovernanceTypeOK, Release
    <3>. QED
      BY <3>1, <3>2
  <2>. QED
    BY <2>1, <2>2
<1>. PICK p : p = [kind |-> m.command.action, expected |-> m.command.expected, by |-> m.by,
                   key |-> m.key, payload |-> Snapshot, target |-> target, status |-> "pending",
                   reviewer |-> ""]
  OBVIOUS
<1>2. listing \in Listing /\ m.command.expected = listing.version
      /\ m.command.action \in {"propose_release", "propose_rollback"}
  BY DEF GovernanceIInv, GovernanceTypeOK, ProposeRelease
<1>3. Snapshot \in Snap
  BY <1>2 DEF Snapshot, Snap, Listing
<1>4. p \in Petition
  BY <1>2, <1>3 DEF Petition, Listing, Executes
<1>5. petitions' = Append(petitions, p) /\ UNCHANGED <<listing, tickets, releases>>
  BY <1>1 DEF Propose
<1>6. p.by = m.by /\ p.key = m.key /\ p.status = "pending" /\ p.kind = m.command.action
      /\ p.target = target
  OBVIOUS
<1>. QED
  BY <1>1, <1>2, <1>4, <1>5, <1>6, ProposeKeeps

LEMMA ProposeResolutionKeeps ==
  ASSUME GovernanceIInv, NEW m, Executes(m), ProposeResolution(m)
  PROVE  GovernanceIInv'
<1>. PICK p : p = [kind |-> m.command.action, expected |-> m.command.expected, by |-> m.by,
                   key |-> m.key, payload |-> Nothing, target |-> m.command.ticket,
                   status |-> "pending", reviewer |-> ""]
  OBVIOUS
<1>. PICK t : t = m.command.ticket
  OBVIOUS
<1>1. /\ t \in DOMAIN tickets /\ tickets \in Seq(Ticket)
      /\ m.command.action = "resolve_ticket"
      /\ tickets[t] = [status |-> "open", version |-> m.command.expected]
  BY DEF GovernanceIInv, GovernanceTypeOK, ProposeResolution
<1>2. tickets[t] \in Ticket /\ t \in Nat
  <2>1. tickets \in Seq(Ticket)
    BY <1>1
  <2>2. \A i \in DOMAIN tickets : i \in Nat /\ tickets[i] \in Ticket
    BY ONLY <2>1
  <2>. QED
    BY ONLY <1>1, <2>2
<1>3. m.command.expected \in Nat
  BY ONLY <1>1, <1>2 DEF Ticket
<1>4. p \in Petition
  BY <1>1, <1>2, <1>3 DEF Petition, Executes
<1>5. petitions' = Append(petitions, p) /\ UNCHANGED <<listing, tickets, releases>>
  BY DEF Propose, ProposeResolution
<1>6. p.by = m.by /\ p.key = m.key /\ p.status = "pending" /\ p.kind = "resolve_ticket"
      /\ p.target = t /\ p.payload = Nothing
  BY <1>1
<1>. QED
  BY <1>1, <1>4, <1>5, <1>6, ProposeKeeps

\* A ticket is opened after those that are there, or an incident is counted.
LEMMA OpenTicketKeeps ==
  ASSUME GovernanceIInv, NEW m, Executes(m), OpenTicket(m) \/ RecordEvent(m)
  PROVE  GovernanceIInv'
<1>1. /\ UNCHANGED <<listing, petitions, releases, keys, desk>> /\ answered \subseteq answered'
      /\ tickets \in Seq(Ticket)
      /\ tickets' \in {tickets, Append(tickets, [status |-> "open", version |-> 1])}
  BY DEF OpenTicket, RecordEvent, Executes, GovernanceIInv, GovernanceTypeOK
<1>2. [status |-> "open", version |-> 1] \in Ticket
  BY DEF Ticket
<1>3. /\ tickets' \in Seq(Ticket)
      /\ \A t \in DOMAIN tickets : t \in DOMAIN tickets' /\ tickets'[t] = tickets[t]
  BY <1>1, <1>2
<1>4. GovernanceTypeOK'
  BY <1>1, <1>3 DEF GovernanceIInv, GovernanceTypeOK
<1>5. KeysSpent' /\ ReviewedByAnother' /\ ProposalsSound' /\ ReleasesSound'
  BY <1>1 DEF GovernanceIInv, KeysSpent, ReviewedByAnother, ProposalsSound, IsRelease,
              ReleasesSound, Published
<1>6. TicketsSound'
  BY <1>1, <1>3 DEF GovernanceIInv, TicketsSound
<1>. QED
  BY <1>4, <1>5, <1>6 DEF GovernanceIInv

\* A review closes one proposal, which was pending, and changes nothing else of it.
LEMMA ReviewCloses ==
  ASSUME GovernanceIInv, NEW m, Executes(m), Review(m), Allowed(m.by, m.command)
  PROVE  LET id == m.command.target  p == petitions'[id] IN
         /\ petitions' \in Seq(Petition) /\ DOMAIN petitions' = DOMAIN petitions
         /\ id \in DOMAIN petitions /\ petitions[id].status = "pending" /\ p \in Petition
         /\ p.status = IF m.command.decision = "approve" THEN "approved" ELSE "rejected"
         /\ p.kind = petitions[id].kind /\ p.by = petitions[id].by /\ p.key = petitions[id].key
         /\ p.payload = petitions[id].payload /\ p.target = petitions[id].target
         /\ p.reviewer \notin {p.by, p.payload.owner}
         /\ \A i \in DOMAIN petitions \ {id} : petitions'[i] = petitions[i]
<1>. DEFINE id == m.command.target
            now == IF m.command.decision = "approve" THEN "approved" ELSE "rejected"
            after == [petitions[id] EXCEPT !.status = now, !.reviewer = m.by]
<1>1. /\ petitions \in Seq(Petition) /\ id \in DOMAIN petitions /\ petitions[id] \in Petition
      /\ petitions[id].by # m.by /\ m.by \in People
  BY DEF GovernanceIInv, GovernanceTypeOK, Executes, Review, Allowed
<1>5. m.by # petitions[id].payload.owner
  <2>1. CASE IsRelease(petitions[id])
    BY <2>1 DEF Review, Allowed
  <2>2. CASE ~IsRelease(petitions[id])
    <3>1. petitions[id].kind = "resolve_ticket"
      BY <1>1, <2>2 DEF IsRelease, Petition
    <3>2. petitions[id].payload = Nothing
      BY <1>1, <3>1 DEF GovernanceIInv, TicketsSound
    <3>3. Nothing.owner = "" /\ m.by # ""
      BY <1>1, GovernanceConstants DEF Nothing
    <3>. QED
      BY ONLY <3>2, <3>3
  <2>. QED
    BY <2>1, <2>2
<1>2. /\ after \in Petition /\ after.status = now /\ after.reviewer = m.by
      /\ after.kind = petitions[id].kind /\ after.by = petitions[id].by /\ after.key = petitions[id].key
      /\ after.payload = petitions[id].payload /\ after.target = petitions[id].target
  BY <1>1 DEF Petition
<1>3. petitions[id].status = "pending" /\ petitions' = [petitions EXCEPT ![id] = after]
  BY DEF Review
<1>. HIDE DEF after
<1>4. petitions' \in Seq(Petition) /\ DOMAIN petitions' = DOMAIN petitions
      /\ petitions'[id] = after /\ \A i \in DOMAIN petitions \ {id} : petitions'[i] = petitions[i]
  BY <1>1, <1>2, <1>3
<1>. QED
  BY <1>1, <1>2, <1>3, <1>4, <1>5

\* Whatever a review decides, keys, reviewers and proposals stay sound.
LEMMA ReviewKeepsProposals ==
  ASSUME GovernanceIInv, NEW m, Executes(m), Review(m), Allowed(m.by, m.command)
  PROVE  KeysSpent' /\ ReviewedByAnother'
<1>1. answered \subseteq answered'
  BY DEF Executes
<1>. QED
  BY <1>1, ReviewCloses, SMTT(30) DEF GovernanceIInv, KeysSpent, ReviewedByAnother

LEMMA RejectKeeps ==
  ASSUME GovernanceIInv, NEW m, Executes(m), Review(m), Allowed(m.by, m.command),
         m.command.decision # "approve"
  PROVE  GovernanceIInv'
<1>. PICK id : id = m.command.target
  OBVIOUS
<1>1. /\ petitions' \in Seq(Petition) /\ DOMAIN petitions' = DOMAIN petitions
      /\ id \in DOMAIN petitions /\ petitions[id].status = "pending"
      /\ petitions'[id].status = "rejected" /\ petitions'[id].kind = petitions[id].kind
      /\ petitions'[id].payload = petitions[id].payload /\ petitions'[id].target = petitions[id].target
      /\ \A i \in DOMAIN petitions \ {id} : petitions'[i] = petitions[i]
  BY ReviewCloses
<1>2. UNCHANGED <<listing, tickets, releases, keys, desk>>
  BY DEF Review, Executes
<1>3. GovernanceTypeOK'
  BY <1>1, <1>2 DEF GovernanceIInv, GovernanceTypeOK
<1>4. TicketsSound'
  BY <1>1, <1>2 DEF GovernanceIInv, TicketsSound
<1>5. ProposalsSound'
  BY <1>1, <1>2 DEF GovernanceIInv, ProposalsSound, IsRelease
<1>6. ReleasesSound'
  BY <1>1, <1>2 DEF GovernanceIInv, ReleasesSound, Published
<1>. QED
  BY <1>3, <1>4, <1>5, <1>6, ReviewKeepsProposals DEF GovernanceIInv

\* A resolution that is approved resolves a ticket that was open.
LEMMA ApproveResolutionKeeps ==
  ASSUME GovernanceIInv, NEW m, Executes(m), Review(m), Allowed(m.by, m.command),
         m.command.decision = "approve", ~IsRelease(petitions[m.command.target])
  PROVE  GovernanceIInv'
<1>. PICK id : id = m.command.target
  OBVIOUS
<1>. PICK p : p = petitions[id]
  OBVIOUS
<1>1. /\ petitions' \in Seq(Petition) /\ DOMAIN petitions' = DOMAIN petitions
      /\ id \in DOMAIN petitions /\ p.status = "pending"
      /\ petitions'[id].status = "approved" /\ petitions'[id].kind = p.kind
      /\ petitions'[id].payload = p.payload /\ petitions'[id].target = p.target
      /\ \A i \in DOMAIN petitions \ {id} : petitions'[i] = petitions[i]
  BY ReviewCloses
<1>2. p.kind = "resolve_ticket"
  <2>1. petitions \in Seq(Petition)
    BY DEF GovernanceIInv, GovernanceTypeOK
  <2>2. p \in Petition
    BY <1>1, <2>1
  <2>3. p.kind \in {"propose_release", "propose_rollback", "resolve_ticket"}
    BY ONLY <2>2 DEF Petition
  <2>. QED
    BY <2>3 DEF IsRelease
<1>. PICK t : t = p.target
  OBVIOUS
<1>3. /\ UNCHANGED <<listing, releases, keys, desk>>
      /\ tickets[t].status = "open"
      /\ tickets' = [tickets EXCEPT ![t] = [status |-> "resolved", version |-> tickets[t].version + 1]]
  BY SMTT(30) DEF Review, Executes, ApplyResolution
<1>4. /\ t \in DOMAIN tickets /\ tickets \in Seq(Ticket) /\ p.payload = Nothing
  BY <1>1, <1>2 DEF GovernanceIInv, GovernanceTypeOK, TicketsSound
<1>5. /\ tickets' \in Seq(Ticket) /\ DOMAIN tickets' = DOMAIN tickets
      /\ tickets'[t].status = "resolved"
      /\ \A u \in DOMAIN tickets \ {t} : tickets'[u] = tickets[u]
  <2>. DEFINE after == [status |-> "resolved", version |-> tickets[t].version + 1]
  <2>1. tickets[t] \in Ticket
    BY <1>4
  <2>2. after \in Ticket /\ after.status = "resolved"
    BY <2>1 DEF Ticket
  <2>3. tickets' = [tickets EXCEPT ![t] = after]
    BY <1>3
  <2>. HIDE DEF after
  <2>. QED
    BY <1>4, <2>2, <2>3
<1>6. GovernanceTypeOK'
  BY <1>1, <1>3, <1>5 DEF GovernanceIInv, GovernanceTypeOK
<1>7. TicketsSound'
  <2>1. \A i \in DOMAIN petitions :
          petitions[i].kind = "resolve_ticket" /\ petitions[i].status = "approved" => petitions[i].target # t
    BY <1>3 DEF GovernanceIInv, TicketsSound
  <2>2. ASSUME NEW i \in DOMAIN petitions', petitions'[i].kind = "resolve_ticket"
        PROVE  /\ petitions'[i].target \in DOMAIN tickets' /\ petitions'[i].payload = Nothing
               /\ petitions'[i].status = "approved" => tickets'[petitions'[i].target].status = "resolved"
    BY <1>1, <1>4, <1>5, <2>1, <2>2 DEF GovernanceIInv, TicketsSound
  <2>3. ASSUME NEW i \in DOMAIN petitions', NEW j \in DOMAIN petitions',
               petitions'[i].kind = "resolve_ticket", petitions'[i].status = "approved",
               petitions'[j].kind = "resolve_ticket", petitions'[j].status = "approved",
               petitions'[j].target = petitions'[i].target
        PROVE  i = j
    BY <1>1, <2>1, <2>3 DEF GovernanceIInv, TicketsSound
  <2>. QED
    BY <2>2, <2>3 DEF TicketsSound
<1>8. ProposalsSound'
  BY <1>1, <1>2, <1>3 DEF GovernanceIInv, ProposalsSound, IsRelease
<1>9. ReleasesSound'
  BY <1>1, <1>3 DEF GovernanceIInv, ReleasesSound, Published
<1>. QED
  BY <1>6, <1>7, <1>8, <1>9, ReviewKeepsProposals DEF GovernanceIInv

\* What a release publishes is what was proposed over the listing as it stands, or
\* what the release that a rollback names had published.
LEMMA ApproveReleaseKeeps ==
  ASSUME GovernanceIInv, NEW m, Executes(m), Review(m), Allowed(m.by, m.command),
         m.command.decision = "approve", IsRelease(petitions[m.command.target])
  PROVE  GovernanceIInv'
<1>. PICK id : id = m.command.target
  OBVIOUS
<1>. PICK p : p = petitions[id]
  OBVIOUS
<1>1. /\ petitions' \in Seq(Petition) /\ DOMAIN petitions' = DOMAIN petitions
      /\ id \in DOMAIN petitions /\ p.status = "pending" /\ petitions \in Seq(Petition)
      /\ petitions'[id].status = "approved" /\ petitions'[id].kind = p.kind
      /\ petitions'[id].payload = p.payload /\ petitions'[id].target = p.target
      /\ \A i \in DOMAIN petitions \ {id} : petitions'[i] = petitions[i]
  BY ReviewCloses DEF GovernanceIInv, GovernanceTypeOK
<1>. PICK snapshot : snapshot = ReleaseOf(p)
  OBVIOUS
<1>. PICK over : over = Snapshot
  OBVIOUS
<1>. PICK v : v = listing.version + 1
  OBVIOUS
<1>. PICK r : r = [id |-> id, snapshot |-> snapshot, version |-> v, over |-> over]
  OBVIOUS
<1>2. /\ UNCHANGED <<tickets, keys, desk>> /\ p.payload = over /\ snapshot.owner = listing.owner
      /\ listing' = [listing EXCEPT !.version = v, !.status = "published", !.content = snapshot.content]
      /\ releases' = releases \cup {r}
  BY DEF Review, Executes, ApplyRelease, SameContent
<1>3. /\ listing \in Listing /\ listing.version \in Nat /\ v \in Nat /\ v > listing.version
      /\ over \in Snap /\ over.owner = listing.owner /\ releases \subseteq Release /\ id \in Nat
      /\ IsRelease(p) /\ p \in Petition
  BY <1>1 DEF GovernanceIInv, GovernanceTypeOK, Listing, Snap, Snapshot
<1>4. /\ p.kind = "propose_release" => snapshot = p.payload
      /\ p.kind # "propose_release" =>
           \E s \in releases : s.id = p.target /\ s.snapshot = snapshot
  <2>1. CASE p.kind = "propose_release"
    BY <2>1 DEF ReleaseOf
  <2>2. CASE p.kind = "propose_rollback"
    <3>1. \E s \in releases : s.id = p.target
      BY <1>1, <2>2 DEF GovernanceIInv, ProposalsSound
    <3>. QED
      BY <2>2, <3>1 DEF ReleaseOf
  <2>. QED
    BY <1>3, <2>1, <2>2 DEF IsRelease
<1>5. snapshot \in Snap
  BY <1>2, <1>3, <1>4 DEF Release
<1>6. /\ r \in Release /\ r.id = id /\ r.snapshot = snapshot /\ r.version = v /\ r.over = over
  BY <1>3, <1>5 DEF Release
<1>7. /\ listing' \in Listing /\ listing'.version = v
  BY <1>2, <1>3, <1>5 DEF Listing, Snap
<1>8. GovernanceTypeOK'
  BY <1>1, <1>2, <1>3, <1>6, <1>7 DEF GovernanceIInv, GovernanceTypeOK
<1>9. TicketsSound'
  BY <1>1, <1>2, <1>3, SMTT(30) DEF GovernanceIInv, TicketsSound, IsRelease
<1>10. ProposalsSound'
  <2>1. ASSUME NEW i \in DOMAIN petitions', petitions'[i].kind = "propose_rollback"
        PROVE  \E s \in releases' : s.id = petitions'[i].target
    BY <1>1, <1>2, <2>1 DEF GovernanceIInv, ProposalsSound
  <2>2. ASSUME NEW i \in DOMAIN petitions', petitions'[i].status = "approved",
               IsRelease(petitions'[i])
        PROVE  \E s \in releases' : s.id = i /\ s.over = petitions'[i].payload
    BY <1>1, <1>2, <1>6, <2>2 DEF GovernanceIInv, ProposalsSound, IsRelease
  <2>. QED
    BY <2>1, <2>2 DEF ProposalsSound, IsRelease
<1>11. \A s \in releases : s.version \in Nat /\ s.version <= listing.version /\ s.id # id
  BY <1>1, <1>3 DEF GovernanceIInv, ReleasesSound, Published, Release
<1>12. ReleasesSound'
  <2>1. ASSUME NEW s \in releases PROVE Published(s)'
    <3>1. Published(s)
      BY DEF GovernanceIInv, ReleasesSound
    <3>2. s.version <= listing'.version
      BY <1>3, <1>7, <1>11
    <3>. QED
      BY <1>1, <1>2, <1>11, <3>1, <3>2 DEF Published
  <2>2. Published(r)'
    BY <1>1, <1>2, <1>3, <1>4, <1>6, <1>7, <1>11, SMTT(30) DEF Published
  <2>3. ASSUME NEW s \in releases', NEW u \in releases', s.version = u.version PROVE s = u
    BY <1>2, <1>3, <1>6, <1>11, <2>3 DEF GovernanceIInv, ReleasesSound
  <2>4. \A s \in releases' : Published(s)'
    BY <1>2, <2>1, <2>2 DEF Published
  <2>. QED
    BY <2>3, <2>4 DEF ReleasesSound
<1>. QED
  BY <1>8, <1>9, <1>10, <1>12, ReviewKeepsProposals DEF GovernanceIInv

LEMMA ExecuteKeeps ==
  ASSUME GovernanceIInv, NEW d \in Desks, desk[d] # NoRetry, Execute(desk[d])
  PROVE  GovernanceIInv'
<1>. PICK m : m = desk[d]
  OBVIOUS
<1>1. Executes(m) /\ Allowed(m.by, m.command)
  BY DEF Execute, Executes, GovernanceIInv, GovernanceTypeOK
<1>2. \/ ProposeRelease(m) \/ ProposeResolution(m) \/ OpenTicket(m) \/ RecordEvent(m)
      \/ Review(m)
  BY DEF Execute
<1>. QED
  BY <1>1, <1>2, ProposeReleaseKeeps, ProposeResolutionKeeps, OpenTicketKeeps, RejectKeeps,
     ApproveResolutionKeeps, ApproveReleaseKeeps

LEMMA NextGovernanceIInv == GovernanceIInv /\ [GovernanceNext]_governanceVars => GovernanceIInv'
<1>. SUFFICES ASSUME GovernanceIInv, [GovernanceNext]_governanceVars PROVE GovernanceIInv'
  OBVIOUS
<1>1. CASE UNCHANGED governanceVars
  <2>1. GovernanceTypeOK' /\ UNCHANGED <<listing, petitions, tickets, releases, answered>>
    BY <1>1 DEF governanceVars, GovernanceIInv, GovernanceTypeOK
  <2>2. listing'.version >= listing.version
    BY <2>1 DEF GovernanceIInv, GovernanceTypeOK, Listing
  <2>. QED
    BY <2>1, <2>2, RecordsStay
<1>2. CASE GovernanceNext
  BY <1>2, DeskKeeps, ExecuteKeeps, OutsideKeeps DEF GovernanceNext
<1>. QED
  BY <1>1, <1>2

LEMMA GovernanceIInvSuffices == GovernanceIInv => GovernedByTwo
<1>. SUFFICES ASSUME GovernanceIInv PROVE GovernedByTwo
  OBVIOUS
<1>1. ASSUME NEW i \in DOMAIN petitions, NEW j \in DOMAIN petitions
      PROVE  LET p == petitions[i]  q == petitions[j] IN
             /\ p.by = q.by /\ p.key = q.key => i = j
             /\ p.status = "approved" =>
                  /\ p.reviewer \notin {p.by, p.payload.owner}
                  /\ IsRelease(p) => \E r \in releases : r.id = i /\ r.over = p.payload
                  /\ q.status = "approved" /\ p.kind = "resolve_ticket" /\ q.kind = p.kind
                       /\ p.target = q.target => i = j
  BY ZenonT(40) DEF GovernanceIInv, KeysSpent, ReviewedByAnother, TicketsSound, ProposalsSound, IsRelease
<1>2. ASSUME NEW r \in releases
      PROVE  LET p == petitions[r.id] IN
             /\ p.status = "approved"
             /\ \A s \in releases : s.version = r.version => s = r
             /\ IF p.kind = "propose_release" THEN r.snapshot = p.payload
                ELSE \E s \in releases : s.id = p.target /\ s.snapshot = r.snapshot
                                         /\ s.version < r.version
             /\ r.snapshot.owner = r.over.owner
  BY DEF GovernanceIInv, ReleasesSound, Published
<1>. QED
  BY <1>1, <1>2 DEF GovernedByTwo

\* For any wallets, roles and desks: whatever governance publishes or resolves took two
\* wallets and is what was proposed over the listing that stood (governance service, its
\* idempotency table and the two-person review).
THEOREM GovernanceTakesTwo == GovernanceSpec => []GovernedByTwo
<1>1. GovernanceSpec => []GovernanceIInv
  BY InitGovernanceIInv, NextGovernanceIInv, PTL DEF GovernanceSpec
<1>. QED
  BY <1>1, GovernanceIInvSuffices, PTL

-----------------------------------------------------------------------------
(* The yield vault.                                                        *)

Unit == 100 * Year
Position == [principal : Nat, accrued : Nat, checkpointAt : Nat]
Principals == [a \in Clients |-> positions[a].principal]

VaultTypeOK ==
    /\ blockTime \in Nat \ {0} /\ rewardReserve \in Nat
    /\ tokens \in [Clients \cup {Vault} -> Nat] /\ positions \in [Clients -> Position]
    /\ paidYield \in [Clients -> Nat] /\ due \in [Clients -> Nat]

PrincipalHeld == tokens[Vault] >= rewardReserve + Total(Principals)

\* What has been credited to a position, paid or not, and what its principal earned since
\* its last checkpoint, in units of exact yield.
Running(position, t) == position.principal * RatePercent * (t - position.checkpointAt)

\* Between checkpoints a position is owed what was credited and what runs, and has lost less
\* than a unit to truncation on each day up to its last checkpoint.
OwedExactly(position, given, exact, t) ==
    /\ position.checkpointAt <= t
    /\ position.checkpointAt = 0 => position.principal = 0
    /\ (given + position.accrued) * Unit + Running(position, t) <= exact
    /\ exact <= (given + position.accrued) * Unit + Running(position, t)
                  + position.checkpointAt * (Unit - 1)

YieldExact == \A a \in Clients : OwedExactly(positions[a], paidYield[a], due[a], blockTime)

VaultIInv == VaultTypeOK /\ PrincipalHeld /\ YieldExact

LEMMA UnitType == Unit \in Nat \ {0}
BY VaultConstants DEF Unit

LEMMA ClientsFinite == IsFiniteSet(Clients)
BY VaultConstants, FS_AddElement DEF Clients

\* Truncated division by a positive number.
LEMMA Truncation ==
  ASSUME NEW q \in Nat, NEW c \in Nat \ {0}
  PROVE  q \div c \in Nat /\ (q \div c) * c <= q /\ q < (q \div c) * c + c
OBVIOUS

\* Crediting what runs, truncated, at a checkpoint on day t loses less than a unit,
\* and nothing when the last checkpoint, on day k, was today.
LEMMA Credited ==
  ASSUME NEW x \in Nat, NEW q \in Nat, NEW y \in Nat, NEW k \in Nat, NEW t \in Nat, NEW d \in Nat,
         NEW u \in Nat \ {0},
         x * u + q <= d, d <= x * u + q + k * (u - 1), k <= t,
         y * u <= q, q < y * u + u, k = t => q = 0
  PROVE  (x + y) * u <= d /\ d <= (x + y) * u + t * (u - 1)
<1>. DEFINE xu == x * u
            yu == y * u
            ku == k * (u - 1)
            tu == t * (u - 1)
<1>1. (x + y) * u = xu + yu /\ {xu, yu, ku, tu} \subseteq Nat
  BY Z3
<1>2. CASE k < t
  <2>1. PICK n \in Nat : t = k + 1 + n
    <3>1. t - k - 1 \in Nat /\ t = k + 1 + (t - k - 1)
      BY <1>2
    <3>. QED
      BY <3>1
  <2>2. tu = ku + (u - 1) + n * (u - 1) /\ n * (u - 1) >= 0
    BY <2>1, Z3
  <2>. DEFINE nu == n * (u - 1)
  <2>3. nu \in Nat
    BY Z3
  <2>. HIDE DEF xu, yu, ku, tu, nu
  <2>. QED
    BY <1>1, <2>2, <2>3 DEF xu, ku, yu, tu, nu
<1>3. CASE k = t
  <2>1. yu = 0 /\ ku = tu
    <3>1. yu <= 0
      BY <1>3
    <3>. QED
      BY <1>1, <1>3, <3>1
  <2>. QED
    BY <1>1, <1>3, <2>1
<1>. QED
  BY <1>2, <1>3

\* linearYield is what runs, truncated.
LEMMA YieldIsTruncated ==
  ASSUME NEW n \in Nat, NEW e \in Nat
  PROVE  /\ LinearYield(n, e) \in Nat
         /\ LinearYield(n, e) * Unit <= n * RatePercent * e
         /\ n * RatePercent * e < LinearYield(n, e) * Unit + Unit
<1>. DEFINE q == n * RatePercent * e
<1>1. RatePercent \in Nat
  BY VaultConstants
<1>2. n * RatePercent \in Nat
  BY <1>1
<1>3. q \in Nat
  BY <1>2
<1>4. LinearYield(n, e) = q \div Unit
  BY DEF LinearYield, Unit
<1>. HIDE DEF q
<1>5. /\ q \div Unit \in Nat /\ (q \div Unit) * Unit <= q
      /\ q < (q \div Unit) * Unit + Unit
  BY <1>3, UnitType, Truncation
<1>. QED
  BY <1>4, <1>5 DEF q

\* A checkpoint keeps the principal and what is owed, and brings the position to today.
LEMMA CheckpointOwes ==
  ASSUME VaultTypeOK, NEW p \in Position, NEW given \in Nat, NEW exact \in Nat,
         OwedExactly(p, given, exact, blockTime)
  PROVE  \E y \in Nat :
           /\ Checkpoint(p) = [principal |-> p.principal, accrued |-> p.accrued + y,
                               checkpointAt |-> blockTime]
           /\ y = IF p.principal = 0 \/ p.checkpointAt = 0 THEN 0
                  ELSE LinearYield(p.principal, blockTime - p.checkpointAt)
           /\ (given + p.accrued + y) * Unit <= exact
           /\ exact <= (given + p.accrued + y) * Unit + blockTime * (Unit - 1)
<1>1. /\ p.principal \in Nat /\ p.accrued \in Nat /\ p.checkpointAt \in Nat
      /\ blockTime \in Nat /\ p.checkpointAt <= blockTime /\ RatePercent \in Nat
      /\ p.checkpointAt = 0 => p.principal = 0
  BY VaultConstants DEF Position, VaultTypeOK, OwedExactly
<1>. DEFINE e == blockTime - p.checkpointAt
            q == p.principal * RatePercent * e
            y == IF p.principal = 0 \/ p.checkpointAt = 0 THEN 0 ELSE LinearYield(p.principal, e)
<1>2. e \in Nat
  BY <1>1
<1>3. p.principal * RatePercent \in Nat
  BY <1>1
<1>4. q \in Nat
  BY <1>2, <1>3
<1>5. y \in Nat /\ y * Unit <= q /\ q < y * Unit + Unit
  <2>1. CASE p.principal = 0
    BY <1>1, <1>2, <2>1, UnitType
  <2>2. CASE p.principal # 0
    BY <1>1, <1>2, <2>2, YieldIsTruncated
  <2>. QED
    BY <2>1, <2>2
<1>6. p.checkpointAt = blockTime => q = 0
  BY <1>1, <1>3
<1>7. Checkpoint(p) = [principal |-> p.principal, accrued |-> p.accrued + y,
                       checkpointAt |-> blockTime]
  <2>1. p = [principal |-> p.principal, accrued |-> p.accrued, checkpointAt |-> p.checkpointAt]
    BY DEF Position
  <2>2. p.accrued + y = p.accrued + IF p.checkpointAt # 0 /\ p.principal # 0
                                     THEN LinearYield(p.principal, e) ELSE 0
    OBVIOUS
  <2>. HIDE DEF y
  <2>3. PICK z : z = p.accrued + y
    OBVIOUS
  <2>4. Checkpoint(p) = [p EXCEPT !.checkpointAt = blockTime, !.accrued = z]
    BY <2>2, <2>3 DEF Checkpoint
  <2>5. Checkpoint(p) = [principal |-> p.principal, accrued |-> z, checkpointAt |-> blockTime]
    BY ONLY <2>1, <2>4
  <2>. QED
    BY <2>3, <2>5
<1>8. /\ (given + p.accrued) * Unit + q <= exact
      /\ exact <= (given + p.accrued) * Unit + q + p.checkpointAt * (Unit - 1)
  BY DEF OwedExactly, Running
<1>9. given + p.accrued \in Nat
  BY <1>1
<1>10. y = IF p.principal = 0 \/ p.checkpointAt = 0 THEN 0 ELSE LinearYield(p.principal, e)
  OBVIOUS
<1>. HIDE DEF q, y
<1>11. /\ (given + p.accrued + y) * Unit <= exact
       /\ exact <= (given + p.accrued + y) * Unit + blockTime * (Unit - 1)
  BY <1>1, <1>4, <1>5, <1>6, <1>8, <1>9, UnitType, Credited
<1>. QED
  BY <1>5, <1>7, <1>10, <1>11

\* A position that was brought to today is owed the same whatever its principal becomes
\* and however what was credited is divided between paid and not.
LEMMA FreshOwes ==
  ASSUME VaultTypeOK, NEW n \in Nat, NEW x \in Nat, NEW given \in Nat, NEW exact \in Nat,
         (given + x) * Unit <= exact,
         exact <= (given + x) * Unit + blockTime * (Unit - 1),
         NEW r, r = [principal |-> n, accrued |-> x, checkpointAt |-> blockTime]
  PROVE  r \in Position /\ OwedExactly(r, given, exact, blockTime)
<1>1. blockTime \in Nat \ {0} /\ RatePercent \in Nat /\ Unit \in Nat
  BY VaultConstants, UnitType DEF VaultTypeOK
<1>2. n * RatePercent \in Nat
  BY <1>1
<1>3. Running(r, blockTime) = 0
  BY <1>1, <1>2 DEF Running
<1>. DEFINE xu == (given + x) * Unit
            tu == blockTime * (Unit - 1)
<1>4. xu \in Nat /\ tu \in Int
  BY <1>1
<1>. HIDE DEF xu, tu
<1>. QED
  BY <1>1, <1>3, <1>4 DEF OwedExactly, Position, xu, tu

LEMMA PrincipalsType ==
  ASSUME VaultTypeOK
  PROVE  Principals \in [Clients -> Nat]
BY DEF Principals, VaultTypeOK, Position

\* A step that touches one position, whose debt it keeps exact, and moves the tokens of the
\* vault with that position's principal and with the reserve.
LEMMA TouchKeeps ==
  ASSUME VaultIInv, NEW a \in Clients, NEW r \in Position, NEW given \in Nat,
         blockTime' = blockTime, due' = due,
         positions' = [positions EXCEPT ![a] = r],
         paidYield' = [paidYield EXCEPT ![a] = given],
         OwedExactly(r, given, due[a], blockTime),
         tokens' \in [Clients \cup {Vault} -> Nat], rewardReserve' \in Nat,
         tokens'[Vault] - rewardReserve' = tokens[Vault] - rewardReserve
                                             + r.principal - positions[a].principal
  PROVE  VaultIInv'
<1>1. VaultTypeOK' /\ VaultTypeOK
  BY DEF VaultIInv, VaultTypeOK
<1>2. YieldExact'
  <2>1. SUFFICES ASSUME NEW c \in Clients
                 PROVE  OwedExactly(positions'[c], paidYield'[c], due[c], blockTime)
    BY DEF YieldExact, OwedExactly, Running
  <2>2. CASE c = a
    BY <1>1, <2>2 DEF VaultTypeOK
  <2>3. CASE c # a
    <3>1. positions'[c] = positions[c] /\ paidYield'[c] = paidYield[c]
      BY <1>1, <2>3 DEF VaultTypeOK
    <3>. QED
      BY <3>1 DEF VaultIInv, YieldExact
  <2>. QED
    BY <2>2, <2>3
<1>3. PrincipalHeld'
  <2>. DEFINE f == Principals
              g == [c \in Clients |-> positions'[c].principal]
  <2>1. f \in [Clients -> Nat] /\ g \in [Clients -> Nat]
    BY <1>1 DEF Principals, VaultTypeOK, Position
  <2>2. f[a] = positions[a].principal /\ g[a] = r.principal
    BY <1>1 DEF Principals, VaultTypeOK
  <2>3. \A c \in Clients \ {a} : g[c] = f[c]
    BY <1>1 DEF Principals, VaultTypeOK
  <2>4. /\ tokens[Vault] >= rewardReserve + Total(f)
        /\ {tokens[Vault], rewardReserve, tokens'[Vault], rewardReserve'} \subseteq Nat
    BY <1>1 DEF VaultIInv, PrincipalHeld, VaultTypeOK
  <2>5. PrincipalHeld' <=> tokens'[Vault] >= rewardReserve' + Total(g)
    BY DEF PrincipalHeld, Principals
  <2>. HIDE DEF f, g
  <2>6. Total(g) = Total(f) - f[a] + g[a] /\ Total(f) \in Nat
    BY <2>1, <2>3, ClientsFinite, TotalDiffersAtOnePlace, TotalType
  <2>. QED
    BY <2>1, <2>2, <2>4, <2>5, <2>6
<1>. QED
  BY <1>1, <1>2, <1>3 DEF VaultIInv

\* A step that touches no position and leaves the vault no worse beside its reserve.
LEMMA MoneyKeeps ==
  ASSUME VaultIInv, UNCHANGED <<blockTime, due, positions, paidYield>>,
         tokens' \in [Clients \cup {Vault} -> Nat], rewardReserve' \in Nat,
         tokens'[Vault] - rewardReserve' >= tokens[Vault] - rewardReserve
  PROVE  VaultIInv'
<1>1. VaultTypeOK' /\ YieldExact'
  BY DEF VaultIInv, VaultTypeOK, YieldExact, OwedExactly, Running
<1>2. Total(Principals) \in Nat /\ Principals' = Principals
  BY PrincipalsType, ClientsFinite, TotalType DEF VaultIInv, Principals
<1>3. PICK n \in Nat : n = Total(Principals)
  BY <1>2
<1>4. /\ tokens[Vault] >= rewardReserve + n
      /\ {tokens[Vault], rewardReserve, tokens'[Vault], rewardReserve'} \subseteq Nat
  BY <1>3 DEF VaultIInv, PrincipalHeld, VaultTypeOK
<1>5. PrincipalHeld' <=> tokens'[Vault] >= rewardReserve' + n
  BY <1>2, <1>3 DEF PrincipalHeld
<1>. QED
  BY <1>1, <1>4, <1>5 DEF VaultIInv

\* A transfer between a client and the vault.
LEMMA TransferMoves ==
  ASSUME VaultTypeOK, NEW from \in Clients \cup {Vault}, NEW to \in Clients \cup {Vault},
         from # to, NEW amount \in Nat, tokens[from] >= amount
  PROVE  /\ Transferred(from, to, amount) \in [Clients \cup {Vault} -> Nat]
         /\ Transferred(from, to, amount)[from] = tokens[from] - amount
         /\ Transferred(from, to, amount)[to] = tokens[to] + amount
BY DEF Transferred, VaultTypeOK

LEMMA NextDayKeeps ==
  ASSUME VaultIInv, NextDay
  PROVE  VaultIInv'
<1>1. RatePercent \in Nat /\ VaultTypeOK
  BY VaultConstants DEF VaultIInv
<1>2. \A c \in Clients : /\ positions[c].principal \in Nat /\ positions[c].accrued \in Nat
                         /\ positions[c].checkpointAt \in Nat /\ paidYield[c] \in Nat
                         /\ due[c] \in Nat
  BY <1>1 DEF VaultTypeOK, Position
<1>3. \A c \in Clients : positions[c].principal * RatePercent \in Nat
  BY <1>1, <1>2
<1>4. VaultTypeOK'
  BY <1>1, <1>3 DEF VaultTypeOK, NextDay
<1>5. PrincipalHeld'
  BY DEF NextDay, VaultIInv, PrincipalHeld, Principals
<1>6. YieldExact'
  <2>1. SUFFICES ASSUME NEW c \in Clients
                 PROVE  OwedExactly(positions[c], paidYield[c], due'[c], blockTime + 1)
    BY DEF YieldExact, OwedExactly, Running, NextDay
  <2>. DEFINE w == positions[c].principal * RatePercent
              e == blockTime - positions[c].checkpointAt
  <2>2. /\ OwedExactly(positions[c], paidYield[c], due[c], blockTime)
        /\ blockTime \in Nat
    BY <1>1 DEF VaultIInv, YieldExact, VaultTypeOK
  <2>3. due'[c] = due[c] + w /\ w \in Nat
    BY <1>3 DEF NextDay
  <2>4. /\ Running(positions[c], blockTime) = w * e /\ e \in Int
        /\ Running(positions[c], blockTime + 1) = w * (blockTime + 1 - positions[c].checkpointAt)
        /\ blockTime + 1 - positions[c].checkpointAt = e + 1
    BY <1>2, <2>2 DEF Running
  <2>5. Running(positions[c], blockTime + 1) = Running(positions[c], blockTime) + w
    <3>. HIDE DEF w, e
    <3>1. w * (e + 1) = w * e + w
      BY <2>3, <2>4, Z3
    <3>. QED
      BY <2>4, <3>1
  <2>. DEFINE k == (paidYield[c] + positions[c].accrued) * Unit
              l == positions[c].checkpointAt * (Unit - 1)
              run == Running(positions[c], blockTime)
  <2>6. k \in Nat /\ l \in Int /\ run \in Int
    <3>1. paidYield[c] + positions[c].accrued \in Nat /\ Unit \in Nat
      BY <1>2, UnitType
    <3>2. w * e \in Int
      BY <2>3, <2>4
    <3>. QED
      BY <1>2, <2>4, <3>1, <3>2
  <2>7. /\ k + run <= due[c] /\ due[c] <= k + run + l
        /\ positions[c].checkpointAt <= blockTime
        /\ positions[c].checkpointAt = 0 => positions[c].principal = 0
    BY <2>2 DEF OwedExactly
  <2>8. Running(positions[c], blockTime + 1) = run + w
    BY <2>5
  <2>. HIDE DEF w, k, l, run
  <2>9. k + (run + w) <= due'[c] /\ due'[c] <= k + (run + w) + l
    BY <1>2, <2>3, <2>6, <2>7
  <2>10. positions[c].checkpointAt <= blockTime + 1
    BY <1>2, <2>2, <2>7
  <2>. QED
    BY <2>7, <2>8, <2>9, <2>10 DEF OwedExactly, k, l
<1>. QED
  BY <1>4, <1>5, <1>6 DEF VaultIInv

\* Minting, and transfers to the vault that are no stake.
LEMMA TokensKeep ==
  ASSUME VaultIInv, NEW a \in Clients,
         \/ Faucet(a)
         \/ \E kind \in {"agent", "publisher"} : GrantAirdrop(a, kind)
         \/ \E amount \in Quantities : Donate(a, amount) \/ FundRewardPool(amount)
         \/ SetAirdropDistributor(a)
  PROVE  VaultIInv'
<1>1. /\ VaultTypeOK /\ a # Vault /\ a \in Clients \cup {Vault} /\ Deployer \in Clients
      /\ FaucetAmount \in Nat /\ AirdropAmount \in Nat /\ Deployer # Vault
  BY VaultConstants DEF VaultIInv, Clients
<1>2. /\ tokens[Vault] \in Nat /\ rewardReserve \in Nat
      /\ tokens \in [Clients \cup {Vault} -> Nat] /\ tokens[a] \in Nat
  BY <1>1 DEF VaultTypeOK
<1>3. CASE \/ Faucet(a) \/ SetAirdropDistributor(a)
           \/ \E kind \in {"agent", "publisher"} : GrantAirdrop(a, kind)
  <2>1. /\ UNCHANGED <<blockTime, due, positions, paidYield, rewardReserve>>
        /\ \/ tokens' = tokens
           \/ tokens' = [tokens EXCEPT ![a] = @ + FaucetAmount]
           \/ tokens' = [tokens EXCEPT ![a] = @ + AirdropAmount]
    BY <1>3 DEF Faucet, GrantAirdrop, SetAirdropDistributor
  <2>2. tokens' \in [Clients \cup {Vault} -> Nat] /\ tokens'[Vault] = tokens[Vault]
    BY <1>1, <1>2, <2>1
  <2>. QED
    BY <1>2, <2>1, <2>2, MoneyKeeps
<1>4. CASE \E amount \in Quantities : Donate(a, amount) \/ FundRewardPool(amount)
  <2>1. PICK amount \in Quantities : Donate(a, amount) \/ FundRewardPool(amount)
    BY <1>4
  <2>2. amount \in Nat
    BY VaultConstants
  <2>3. CASE Donate(a, amount)
    <3>1. /\ tokens[a] >= amount /\ tokens' = Transferred(a, Vault, amount)
          /\ UNCHANGED <<blockTime, due, positions, paidYield, rewardReserve>>
      BY <2>3 DEF Donate
    <3>2. tokens' \in [Clients \cup {Vault} -> Nat] /\ tokens'[Vault] = tokens[Vault] + amount
      BY <1>1, <2>2, <3>1, TransferMoves
    <3>. QED
      BY <1>2, <2>2, <3>1, <3>2, MoneyKeeps
  <2>4. CASE FundRewardPool(amount)
    <3>1. /\ tokens[Deployer] >= amount /\ tokens' = Transferred(Deployer, Vault, amount)
          /\ rewardReserve' = rewardReserve + amount
          /\ UNCHANGED <<blockTime, due, positions, paidYield>>
      BY <2>4 DEF FundRewardPool
    <3>2. tokens' \in [Clients \cup {Vault} -> Nat] /\ tokens'[Vault] = tokens[Vault] + amount
      BY <1>1, <2>2, <3>1, TransferMoves, Deployer \in Clients \cup {Vault}, ZenonT(40)
    <3>. QED
      BY <1>2, <2>2, <3>1, <3>2, MoneyKeeps
  <2>. QED
    BY <2>1, <2>3, <2>4
<1>. QED
  BY <1>3, <1>4

\* The three operations on a position: each begins with the checkpoint.
LEMMA PositionsKeep ==
  ASSUME VaultIInv, NEW a \in Clients,
         \/ ClaimYield(a)
         \/ \E amount \in Quantities : Stake(a, amount) \/ Unstake(a, amount)
  PROVE  VaultIInv'
<1>1. /\ VaultTypeOK /\ a # Vault /\ a \in Clients \cup {Vault} /\ Vault \in Clients \cup {Vault}
      /\ Quantities \subseteq Nat /\ rewardReserve \in Nat /\ tokens[Vault] \in Nat
      /\ positions \in [Clients -> Position] /\ paidYield \in [Clients -> Nat]
      /\ due \in [Clients -> Nat]
  BY VaultConstants DEF VaultIInv, VaultTypeOK
<1>2. PICK p \in Position : p = positions[a]
  BY <1>1
<1>3. /\ p.principal \in Nat /\ p.accrued \in Nat
      /\ paidYield[a] \in Nat /\ due[a] \in Nat
      /\ OwedExactly(p, paidYield[a], due[a], blockTime)
  BY <1>1, <1>2 DEF Position, VaultIInv, YieldExact
<1>4. PICK y \in Nat :
           /\ Checkpoint(p) = [principal |-> p.principal, accrued |-> p.accrued + y,
                               checkpointAt |-> blockTime]
           /\ (paidYield[a] + p.accrued + y) * Unit <= due[a]
           /\ due[a] <= (paidYield[a] + p.accrued + y) * Unit + blockTime * (Unit - 1)
  BY <1>1, <1>3, CheckpointOwes
<1>5. PICK x \in Nat : x = p.accrued + y
  BY <1>3
<1>6. PICK c : c = Checkpoint(p)
  OBVIOUS
<1>7. c = [principal |-> p.principal, accrued |-> x, checkpointAt |-> blockTime]
  BY <1>4, <1>5, <1>6
<1>8. paidYield[a] + p.accrued + y = paidYield[a] + x
  BY <1>3, <1>5
<1>9. /\ (paidYield[a] + x) * Unit <= due[a]
      /\ due[a] <= (paidYield[a] + x) * Unit + blockTime * (Unit - 1)
  BY <1>4, <1>8
<1>10. CASE \E amount \in Quantities : Stake(a, amount) \/ Unstake(a, amount)
  <2>1. PICK amount \in Quantities : Stake(a, amount) \/ Unstake(a, amount)
    BY <1>10
  <2>2. PICK n \in Nat :
          /\ n = IF Stake(a, amount) THEN p.principal + amount ELSE p.principal - amount
    BY <1>1, <1>2, <1>3, <2>1 DEF Unstake
  <2>. DEFINE r == [principal |-> n, accrued |-> x, checkpointAt |-> blockTime]
  <2>3. positions' = [positions EXCEPT ![a] = r]
    <3>1. CASE Stake(a, amount)
      <4>1. positions' = [positions EXCEPT ![a] = [c EXCEPT !.principal = @ + amount]]
        BY <1>2, <1>6, <3>1 DEF Stake, Staked
      <4>2. [c EXCEPT !.principal = @ + amount]
              = [principal |-> p.principal + amount, accrued |-> x, checkpointAt |-> blockTime]
        BY ONLY <1>7
      <4>. QED
        BY <2>2, <3>1, <4>1, <4>2
    <3>2. CASE ~Stake(a, amount)
      <4>1. positions' = [positions EXCEPT ![a] = [c EXCEPT !.principal = @ - amount]]
        BY <1>2, <1>6, <2>1, <3>2 DEF Unstake, Unstaked
      <4>2. [c EXCEPT !.principal = @ - amount]
              = [principal |-> p.principal - amount, accrued |-> x, checkpointAt |-> blockTime]
        BY ONLY <1>7
      <4>. QED
        BY <2>2, <3>2, <4>1, <4>2
    <3>. QED
      BY <3>1, <3>2
  <2>4. r \in Position /\ OwedExactly(r, paidYield[a], due[a], blockTime)
    BY <1>1, <1>3, <1>9, FreshOwes
  <2>5. r.principal = n
    OBVIOUS
  <2>. HIDE DEF r
  <2>6. /\ UNCHANGED <<blockTime, due, rewardReserve, paidYield>>
        /\ paidYield' = [paidYield EXCEPT ![a] = paidYield[a]]
    BY <1>1, <2>1 DEF Stake, Unstake
  <2>7. /\ tokens' \in [Clients \cup {Vault} -> Nat]
        /\ tokens'[Vault] = tokens[Vault] + n - p.principal
    <3>1. CASE Stake(a, amount)
      <4>1. tokens[a] >= amount /\ tokens' = Transferred(a, Vault, amount)
        BY <3>1 DEF Stake
      <4>2. tokens' \in [Clients \cup {Vault} -> Nat] /\ tokens'[Vault] = tokens[Vault] + amount
        BY <1>1, <4>1, TransferMoves
      <4>. QED
        BY <1>1, <1>3, <2>2, <3>1, <4>2
    <3>2. CASE ~Stake(a, amount)
      <4>1. tokens[Vault] >= amount /\ tokens' = Transferred(Vault, a, amount)
        BY <2>1, <3>2 DEF Unstake
      <4>2. tokens' \in [Clients \cup {Vault} -> Nat] /\ tokens'[Vault] = tokens[Vault] - amount
        BY <1>1, <4>1, TransferMoves
      <4>. QED
        BY <1>1, <1>3, <2>2, <3>2, <4>2
    <3>. QED
      BY <3>1, <3>2
  <2>8. tokens'[Vault] - rewardReserve' = tokens[Vault] - rewardReserve
                                             + r.principal - positions[a].principal
    BY <1>1, <1>2, <1>3, <2>2, <2>5, <2>6, <2>7
  <2>. QED
    BY <1>1, <1>3, <2>3, <2>4, <2>6, <2>7, <2>8, TouchKeeps
<1>11. CASE ClaimYield(a)
  <2>. DEFINE r == [principal |-> p.principal, accrued |-> 0, checkpointAt |-> blockTime]
              given == paidYield[a] + x
  <2>1. c.accrued = x
    BY <1>7
  <2>2. /\ x <= rewardReserve /\ tokens[Vault] >= x
        /\ positions' = [positions EXCEPT ![a] = [c EXCEPT !.accrued = 0]]
        /\ rewardReserve' = rewardReserve - x
        /\ tokens' = Transferred(Vault, a, x)
        /\ paidYield' = [paidYield EXCEPT ![a] = given]
        /\ UNCHANGED <<blockTime, due>>
    BY <1>2, <1>6, <1>11, <2>1 DEF ClaimYield
  <2>3. positions' = [positions EXCEPT ![a] = r]
    <3>1. [c EXCEPT !.accrued = 0] = r
      BY ONLY <1>7
    <3>. QED
      BY <2>2, <3>1
  <2>4. given \in Nat /\ given + 0 = paidYield[a] + x
    BY <1>3
  <2>. HIDE DEF given
  <2>5. r \in Position /\ OwedExactly(r, given, due[a], blockTime)
    BY <1>1, <1>3, <1>9, <2>4, FreshOwes
  <2>6. r.principal = p.principal
    OBVIOUS
  <2>. HIDE DEF r
  <2>7. tokens' \in [Clients \cup {Vault} -> Nat] /\ tokens'[Vault] = tokens[Vault] - x
    BY <1>1, <2>2, TransferMoves
  <2>8. /\ tokens'[Vault] - rewardReserve' = tokens[Vault] - rewardReserve
                                             + r.principal - positions[a].principal
        /\ rewardReserve' \in Nat
    BY <1>1, <1>2, <1>3, <2>2, <2>6, <2>7
  <2>. QED
    BY <2>2, <2>3, <2>4, <2>5, <2>7, <2>8, TouchKeeps
<1>. QED
  BY <1>10, <1>11

LEMMA VaultStart ==
  ASSUME VaultInit
  PROVE  VaultIInv
<1>1. VaultTypeOK
  BY DEF VaultInit, VaultTypeOK, Position
<1>2. PrincipalHeld
  <2>1. Principals \in [Clients -> Nat] /\ \A c \in Clients : Principals[c] = 0
    BY DEF VaultInit, Principals
  <2>2. Total(Principals) = 0
    BY <2>1, TotalOfNothing
  <2>. QED
    BY <2>2 DEF VaultInit, PrincipalHeld
<1>3. YieldExact
  <2>1. SUFFICES ASSUME NEW c \in Clients
                 PROVE  OwedExactly(positions[c], paidYield[c], due[c], blockTime)
    BY DEF YieldExact
  <2>2. /\ positions[c] = [principal |-> 0, accrued |-> 0, checkpointAt |-> 0]
        /\ paidYield[c] = 0 /\ due[c] = 0 /\ blockTime = 1 /\ RatePercent \in Nat
        /\ Unit \in Nat
    BY VaultConstants, UnitType DEF VaultInit
  <2>3. Running(positions[c], blockTime) = 0
    BY <2>2 DEF Running
  <2>. QED
    BY <2>2, <2>3 DEF OwedExactly
<1>. QED
  BY <1>1, <1>2, <1>3 DEF VaultIInv

LEMMA VaultStep ==
  ASSUME VaultIInv, [VaultNext]_vaultVars
  PROVE  VaultIInv'
<1>1. CASE UNCHANGED vaultVars
  BY <1>1 DEF vaultVars, VaultIInv, VaultTypeOK, PrincipalHeld, Principals, YieldExact,
              OwedExactly, Running
<1>2. CASE VaultNext
  <2>1. Deployer \in Clients
    BY DEF Clients
  <2>. QED
    BY <1>2, <2>1, NextDayKeeps, TokensKeep, PositionsKeep DEF VaultNext
<1>. QED
  BY <1>1, <1>2

\* Between checkpoints the public earned() truncates what runs as the checkpoint would.
LEMMA VaultInvariantSuffices ==
  ASSUME VaultIInv
  PROVE  PrincipalIsSafe
<1>1. VaultTypeOK /\ Unit \in Nat \ {0}
  BY UnitType DEF VaultIInv
<1>2. ASSUME NEW a \in Clients
      PROVE  /\ (paidYield[a] + Earned(a)) * 100 * Year <= due[a]
             /\ due[a] < (paidYield[a] + Earned(a) + blockTime) * 100 * Year
  <2>1. PICK p \in Position : p = positions[a]
    BY <1>1 DEF VaultTypeOK
  <2>2. /\ p.accrued \in Nat /\ paidYield[a] \in Nat /\ due[a] \in Nat /\ blockTime \in Nat \ {0}
        /\ OwedExactly(p, paidYield[a], due[a], blockTime) /\ Year \in Nat
    BY <1>1, <2>1, VaultConstants DEF VaultTypeOK, Position, VaultIInv, YieldExact
  <2>3. PICK y \in Nat :
           /\ y = IF p.principal = 0 \/ p.checkpointAt = 0 THEN 0
                  ELSE LinearYield(p.principal, blockTime - p.checkpointAt)
           /\ (paidYield[a] + p.accrued + y) * Unit <= due[a]
           /\ due[a] <= (paidYield[a] + p.accrued + y) * Unit + blockTime * (Unit - 1)
    BY <1>1, <2>2, CheckpointOwes
  <2>4. Earned(a) = p.accrued + y
    BY <2>1, <2>3 DEF Earned
  <2>5. PICK z \in Nat : z = paidYield[a] + p.accrued + y
    BY <2>2, <2>3
  <2>6. paidYield[a] + Earned(a) = z
    BY <2>2, <2>3, <2>4, <2>5
  <2>7. /\ z * 100 * Year = z * Unit
        /\ (z + blockTime) * 100 * Year = z * Unit + blockTime * Unit
        /\ blockTime * (Unit - 1) = blockTime * Unit - blockTime
    BY <2>2, Z3 DEF Unit
  <2>. DEFINE zu == z * Unit
              tu == blockTime * Unit
  <2>8. zu \in Nat /\ tu \in Nat /\ zu <= due[a] /\ due[a] <= zu + (tu - blockTime)
    BY <1>1, <2>2, <2>3, <2>5, <2>7
  <2>9. z * 100 * Year = zu /\ (z + blockTime) * 100 * Year = zu + tu
    BY <2>7
  <2>. HIDE DEF zu, tu
  <2>10. zu <= due[a] /\ due[a] < zu + tu
    BY <2>2, <2>8
  <2>. QED
    BY <2>6, <2>9, <2>10
<1>3. /\ tokens[Vault] >= rewardReserve + Total([a \in Clients |-> positions[a].principal])
      /\ rewardReserve >= 0
  BY <1>1 DEF VaultIInv, PrincipalHeld, Principals, VaultTypeOK
<1>. QED
  BY <1>2, <1>3 DEF PrincipalIsSafe

\* Whatever is staked, withdrawn, claimed, donated and funded: the vault holds every
\* principal beside the reserve, and each account's yield is the exact one less at most
\* the truncation of its checkpoints.
THEOREM VaultPrincipalSafe == VaultSpec => []PrincipalIsSafe
<1>1. VaultSpec => []VaultIInv
  BY VaultStart, VaultStep, PTL DEF VaultSpec
<1>. QED
  BY <1>1, VaultInvariantSuffices, PTL

-----------------------------------------------------------------------------
(* The wallet's tabs.  While a session in the jar is live some tab answers *)
(* for it: the tab will hear of a change, has a logout to confirm, has a   *)
(* job that will clear or replace the cookie, or is signed in for it.      *)

Jobs == [kind : {"login", "logout"}, late : BOOLEAN, wallet : Accounts \cup {None},
         at : {"queued", "clean", "cleaning", "challenge", "verified", "check", "failing",
               "logout", "leaving"}]

SessionTypes ==
    /\ account \in Accounts
    /\ notices \in [Tabs -> SUBSET {"changed", "broadcast"}]
    /\ needsAuth \in [Tabs -> BOOLEAN] /\ cleanup \in [Tabs -> BOOLEAN]
    /\ signedIn \in [Tabs -> Accounts \cup {None}] /\ shown \in [Tabs -> Accounts \cup {None}]
    /\ jobs \in [Tabs -> Seq(Jobs)]
    /\ cookie \in [wallet : Accounts \cup {None}, live : BOOLEAN]

\* A job that ends by clearing the cookie, by replacing it, or by signing in for it.
Resolves(job, kept) ==
    /\ job.at # "leaving"
    /\ job.at = "queued" => ~job.late
    /\ job.at = "check" => job.wallet = kept.wallet

AnswersFor(t, kept) ==
    \/ notices[t] # {} \/ cleanup[t]
    \/ \E i \in DOMAIN jobs[t] : Resolves(jobs[t][i], kept)
    \/ ~needsAuth[t] /\ signedIn[t] = account /\ kept.wallet = account

CookieAnswered == cookie.live => \E t \in Tabs : AnswersFor(t, cookie)

\* A job that signs its tab in or tells it that it has to.
Promising(job) == ~job.late /\ job.at \notin {"logout", "leaving"}
Trusts(t) ==
    ~needsAuth[t] =>
        \/ "changed" \in notices[t] \/ signedIn[t] = account
        \/ \E i \in DOMAIN jobs[t] : Promising(jobs[t][i])

SessionIInv == SessionTypes /\ CookieAnswered /\ \A t \in Tabs : Trusts(t)

Stages == {"queued", "clean", "cleaning", "challenge", "verified", "check", "failing",
           "logout", "leaving"}

LEMMA QueuesMove ==
    ASSUME SessionTypes, NEW t \in Tabs, Busy(t), NEW step \in Stages
    PROVE  /\ Moved(t, step) \in [Tabs -> Seq(Jobs)]
           /\ \A u \in Tabs : u # t => Moved(t, step)[u] = jobs[u]
           /\ DOMAIN Moved(t, step)[t] = DOMAIN jobs[t] /\ 1 \in DOMAIN jobs[t]
           /\ Moved(t, step)[t][1] = [Job(t) EXCEPT !.at = step]
           /\ \A i \in DOMAIN jobs[t] : i # 1 => Moved(t, step)[t][i] = jobs[t][i]
<1> DEFINE q == jobs[t]  moved == [Job(t) EXCEPT !.at = step]  r == [q EXCEPT ![1] = moved]
<1>1. q \in Seq(Jobs) /\ q # << >>
  BY DEF SessionTypes, Busy
<1>2. Len(q) \in Nat /\ 1 \in DOMAIN q /\ Job(t) = q[1] /\ q[1] \in Jobs /\ DOMAIN q = 1..Len(q)
  BY <1>1 DEF Job
<1>3. moved \in Jobs
  BY <1>2 DEF Jobs, Stages
<1>4. r \in Seq(Jobs) /\ DOMAIN r = DOMAIN q /\ r[1] = moved
      /\ \A i \in DOMAIN q : i # 1 => r[i] = q[i]
  BY <1>1, <1>2, <1>3
<1>5. Moved(t, step) = [jobs EXCEPT ![t] = r]
  BY <1>2 DEF Moved
<1> QED
  BY <1>2, <1>4, <1>5 DEF SessionTypes

LEMMA QueuesAdvance ==
    ASSUME SessionTypes, NEW t \in Tabs, Busy(t)
    PROVE  /\ Done(t) \in [Tabs -> Seq(Jobs)]
           /\ \A u \in Tabs : u # t => Done(t)[u] = jobs[u]
           /\ \A i \in DOMAIN jobs[t] : i # 1 =>
                 \E k \in DOMAIN Done(t)[t] : Done(t)[t][k] = jobs[t][i]
           /\ 1 \in DOMAIN jobs[t] /\ Job(t) = jobs[t][1] /\ Job(t) \in Jobs
<1> DEFINE q == jobs[t]
<1>1. q \in Seq(Jobs) /\ q # << >>
  BY DEF SessionTypes, Busy
<1>2. /\ Len(q) \in Nat /\ Len(q) >= 1 /\ DOMAIN q = 1..Len(q) /\ Tail(q) \in Seq(Jobs)
      /\ Len(Tail(q)) = Len(q) - 1 /\ DOMAIN Tail(q) = 1..(Len(q) - 1)
      /\ \A k \in 1..(Len(q) - 1) : Tail(q)[k] = q[k + 1]
  BY <1>1
<1>3. Done(t) = [jobs EXCEPT ![t] = Tail(q)]
  BY DEF Done
<1>4. ASSUME NEW i \in DOMAIN q, i # 1
      PROVE  \E k \in DOMAIN Tail(q) : Tail(q)[k] = q[i]
  <2>1. i - 1 \in 1..(Len(q) - 1) /\ (i - 1) + 1 = i
    BY <1>2, <1>4
  <2> QED
    BY <1>2, <2>1
<1> QED
  BY <1>1, <1>2, <1>3, <1>4 DEF SessionTypes, Job

\* What invalidation does to a queue: its jobs keep their places, and are outdated.
LEMMA OutdatedStays ==
    ASSUME NEW q \in Seq(Jobs)
    PROVE  /\ Outdated(q) \in Seq(Jobs) /\ DOMAIN Outdated(q) = DOMAIN q
           /\ \A i \in DOMAIN q : Outdated(q)[i].at = q[i].at /\ Outdated(q)[i].wallet = q[i].wallet
<1>1. Len(q) \in Nat /\ DOMAIN q = 1..Len(q) /\ \A i \in DOMAIN q : q[i] \in Jobs
  OBVIOUS
<1>2. \A i \in DOMAIN q : Outdated(q)[i] \in Jobs /\ Outdated(q)[i].at = q[i].at
                         /\ Outdated(q)[i].wallet = q[i].wallet
  BY <1>1 DEF Outdated, Jobs
<1>3. Outdated(q) = [i \in 1..Len(q) |-> Outdated(q)[i]]
  BY <1>1 DEF Outdated
<1> QED
  BY <1>1, <1>2, <1>3

LEMMA LogoutIsQueued ==
    ASSUME SessionTypes, NEW t \in Tabs
    PROVE  LET q == Outdated(Append(jobs[t], LogoutJob)) IN
           /\ q \in Seq(Jobs) /\ \E i \in DOMAIN q : q[i].at = "logout"
<1> DEFINE p == Append(jobs[t], LogoutJob)
<1>1. LogoutJob \in Jobs
  BY DEF LogoutJob, Jobs
<1>2. jobs[t] \in Seq(Jobs)
  BY DEF SessionTypes
<1>3. p \in Seq(Jobs) /\ Len(jobs[t]) + 1 \in DOMAIN p /\ p[Len(jobs[t]) + 1] = LogoutJob
  BY <1>1, <1>2
<1>4. LogoutJob.at = "logout"
  BY DEF LogoutJob
<1> DEFINE n == Len(jobs[t]) + 1
<1>5. Outdated(p) \in Seq(Jobs) /\ n \in DOMAIN Outdated(p) /\ Outdated(p)[n].at = p[n].at
  <2> HIDE DEF p, n
  <2>1. n \in DOMAIN p
    BY <1>3 DEF n
  <2> QED
    BY <1>3, <2>1, OutdatedStays
<1>6. p[n].at = "logout"
  BY <1>3, <1>4
<1> HIDE DEF n
<1> QED
  BY <1>5, <1>6 DEF p

-----------------------------------------------------------------------------
(* A tab that a step leaves alone answers for what it answered for.        *)

Untouched(u) ==
    /\ notices[u] \subseteq notices'[u] /\ cleanup'[u] = cleanup[u] /\ jobs'[u] = jobs[u]
    /\ needsAuth'[u] = needsAuth[u] /\ signedIn'[u] = signedIn[u] /\ account' = account

Touches(t) == \A u \in Tabs \ {t} : Untouched(u)

LEMMA UntouchedKeeps ==
    ASSUME NEW u \in Tabs, Untouched(u)
    PROVE  /\ cookie' = cookie /\ AnswersFor(u, cookie) => AnswersFor(u, cookie)'
           /\ Trusts(u) => Trusts(u)'
BY DEF Untouched, AnswersFor, Trusts

\* A step of one tab: the others keep what they had, and the tab itself does.
LEMMA OneTabSteps ==
    ASSUME SessionIInv, SessionTypes', NEW t \in Tabs,
           Touches(t), Trusts(t)',
           \/ ~cookie'.live \/ AnswersFor(t, cookie)'
           \/ cookie' = cookie /\ ~AnswersFor(t, cookie)
    PROVE  SessionIInv'
<1>1. ASSUME NEW u \in Tabs PROVE Trusts(u)'
  BY UntouchedKeeps DEF SessionIInv, Touches
<1>2. CookieAnswered'
  <2>1. CASE ~cookie'.live \/ AnswersFor(t, cookie)'
    BY <2>1 DEF CookieAnswered
  <2>2. CASE cookie' = cookie /\ ~AnswersFor(t, cookie) /\ cookie'.live
    <3>1. PICK u \in Tabs : AnswersFor(u, cookie)
      BY <2>2 DEF SessionIInv, CookieAnswered
    <3>2. AnswersFor(u, cookie)'
      BY <2>2, <3>1, UntouchedKeeps DEF Touches
    <3> QED
      BY <3>2 DEF CookieAnswered
  <2> QED
    BY <2>1, <2>2
<1> QED
  BY <1>1, <1>2 DEF SessionIInv

-----------------------------------------------------------------------------
(* One lemma for each action.                                              *)

LEMMA SwitchKeeps == SessionIInv /\ SwitchAccount => SessionIInv'
<1> SUFFICES ASSUME SessionIInv, SwitchAccount PROVE SessionIInv'
  OBVIOUS
<1> USE DEF SwitchAccount, flagVars
<1>1. SessionTypes'
  BY DEF SessionIInv, SessionTypes
<1>2. \A t \in Tabs : "changed" \in notices'[t]
  BY DEF SessionIInv, SessionTypes
<1>3. CookieAnswered'
  BY <1>2 DEF SessionIInv, CookieAnswered, AnswersFor
<1>4. \A t \in Tabs : Trusts(t)'
  BY <1>2 DEF Trusts
<1> QED
  BY <1>1, <1>3, <1>4 DEF SessionIInv

LEMMA ExpireKeeps == SessionIInv /\ Expire => SessionIInv'
<1> SUFFICES ASSUME SessionIInv, Expire PROVE SessionIInv'
  OBVIOUS
<1> USE DEF Expire, flagVars
<1>1. SessionTypes' /\ ~cookie'.live
  BY DEF SessionIInv, SessionTypes
<1>2. CookieAnswered'
  BY <1>1 DEF CookieAnswered
<1>3. \A t \in Tabs : Trusts(t)'
  BY DEF SessionIInv, Trusts
<1> QED
  BY <1>1, <1>2, <1>3 DEF SessionIInv

\* Hearing that all is void, from the wallet or from another tab.
LEMMA HearingKeeps ==
    ASSUME NEW t \in Tabs, SessionIInv, Invalidate(t, Append(jobs[t], LogoutJob)),
           notices' \in [Tabs -> SUBSET {"changed", "broadcast"}],
           \A u \in Tabs : u # t => notices[u] \subseteq notices'[u],
           UNCHANGED <<account, switches, logins, cookie>>
    PROVE  SessionIInv'
<1> DEFINE q == Outdated(Append(jobs[t], LogoutJob))
<1>0. SessionTypes
  BY DEF SessionIInv
<1>1. q \in Seq(Jobs) /\ \E i \in DOMAIN q : q[i].at = "logout"
  BY <1>0, LogoutIsQueued
<1> HIDE DEF q
<1>2. jobs' = [jobs EXCEPT ![t] = q]
  BY DEF Invalidate, q
<1>3. SessionTypes'
  BY <1>0, <1>1, <1>2 DEF SessionTypes, Invalidate
<1>4. Touches(t)
  BY <1>0, <1>2 DEF SessionTypes, Invalidate, Untouched, Touches
<1>5. jobs'[t] = q /\ needsAuth'[t]
  BY <1>0, <1>2 DEF SessionTypes, Invalidate
<1>6. AnswersFor(t, cookie)'
  BY <1>1, <1>5 DEF AnswersFor, Resolves
<1>7. Trusts(t)'
  BY <1>5 DEF Trusts
<1> QED
  BY <1>3, <1>4, <1>6, <1>7, OneTabSteps

LEMMA HearOfChangeKeeps == ASSUME NEW t \in Tabs PROVE SessionIInv /\ HearOfChange(t) => SessionIInv'
<1> SUFFICES ASSUME SessionIInv, HearOfChange(t) PROVE SessionIInv'
  OBVIOUS
<1>1. /\ notices' \in [Tabs -> SUBSET {"changed", "broadcast"}]
      /\ \A u \in Tabs : u # t => notices[u] \subseteq notices'[u]
  BY DEF SessionIInv, SessionTypes, HearOfChange, Broadcast
<1> QED
  BY <1>1, HearingKeeps DEF HearOfChange

LEMMA HearBroadcastKeeps == ASSUME NEW t \in Tabs PROVE SessionIInv /\ HearBroadcast(t) => SessionIInv'
<1> SUFFICES ASSUME SessionIInv, HearBroadcast(t) PROVE SessionIInv'
  OBVIOUS
<1>1. /\ notices' \in [Tabs -> SUBSET {"changed", "broadcast"}]
      /\ \A u \in Tabs : u # t => notices[u] \subseteq notices'[u]
  BY DEF SessionIInv, SessionTypes, HearBroadcast
<1> QED
  BY <1>1, HearingKeeps DEF HearBroadcast

LEMMA ConnectKeeps == ASSUME NEW t \in Tabs PROVE SessionIInv /\ Connect(t) => SessionIInv'
<1> SUFFICES ASSUME SessionIInv, Connect(t) PROVE SessionIInv'
  OBVIOUS
<1>1. SessionTypes'
  BY DEF SessionIInv, SessionTypes, Connect
<1>2. CookieAnswered'
  BY DEF SessionIInv, CookieAnswered, AnswersFor, Connect
<1>3. \A u \in Tabs : Trusts(u)'
  BY DEF SessionIInv, Trusts, Connect
<1> QED
  BY <1>1, <1>2, <1>3 DEF SessionIInv

LEMMA RequestLoginKeeps == ASSUME NEW t \in Tabs PROVE SessionIInv /\ RequestLogin(t) => SessionIInv'
<1> SUFFICES ASSUME SessionIInv, RequestLogin(t) PROVE SessionIInv'
  OBVIOUS
<1> DEFINE q == jobs[t]  job == LoginJob(shown[t])  n == Len(q) + 1
<1>1. SessionTypes /\ q \in Seq(Jobs)
  BY DEF SessionIInv, SessionTypes
<1>2. job \in Jobs /\ ~job.late /\ job.at = "queued"
  BY <1>1 DEF SessionTypes, LoginJob, Jobs
<1>3. Append(q, job) \in Seq(Jobs) /\ n \in DOMAIN Append(q, job) /\ Append(q, job)[n] = job
  BY <1>1, <1>2
<1>4. jobs' = [jobs EXCEPT ![t] = Append(q, job)]
  BY DEF RequestLogin
<1> HIDE DEF job, n
<1>5. SessionTypes'
  BY <1>1, <1>3, <1>4 DEF SessionTypes, RequestLogin
<1>6. Touches(t)
  BY <1>1, <1>4 DEF SessionTypes, RequestLogin, Untouched, Touches
<1>7. n \in DOMAIN jobs'[t] /\ jobs'[t][n] = job
  BY <1>1, <1>3, <1>4 DEF SessionTypes
<1>8. AnswersFor(t, cookie)'
  BY <1>2, <1>7 DEF AnswersFor, Resolves
<1>9. Trusts(t)'
  BY <1>2, <1>7 DEF Trusts, Promising
<1> QED
  BY <1>5, <1>6, <1>8, <1>9, OneTabSteps

-----------------------------------------------------------------------------
(* A login and a logout, step by step: the job at the head moves on, or is *)
(* done with.                                                              *)

MovedJob(t, step) == [Job(t) EXCEPT !.at = step]

LEMMA OthersWait ==
    ASSUME NEW t \in Tabs, SessionTypes, Busy(t),
           jobs' = Done(t) \/ \E step \in Stages : jobs' = Moved(t, step)
    PROVE  jobs' \in [Tabs -> Seq(Jobs)] /\ \A u \in Tabs : u # t => jobs'[u] = jobs[u]
<1>1. CASE jobs' = Done(t)
  <2>1. Done(t) \in [Tabs -> Seq(Jobs)] /\ \A u \in Tabs : u # t => Done(t)[u] = jobs[u]
    BY QueuesAdvance
  <2> QED
    BY <1>1, <2>1
<1>2. ASSUME NEW step \in Stages, jobs' = Moved(t, step)
      PROVE  jobs' \in [Tabs -> Seq(Jobs)] /\ \A u \in Tabs : u # t => jobs'[u] = jobs[u]
  <2>1. /\ Moved(t, step) \in [Tabs -> Seq(Jobs)]
        /\ \A u \in Tabs : u # t => Moved(t, step)[u] = jobs[u]
    BY QueuesMove
  <2> QED
    BY <1>2, <2>1
<1> QED
  BY <1>1, <1>2

LEMMA MovingTrusts ==
    ASSUME NEW t \in Tabs, NEW step \in Stages, SessionTypes, Busy(t), Trusts(t),
           jobs' = Moved(t, step), needsAuth'[t] = needsAuth[t],
           Promising(Job(t)) => Promising(MovedJob(t, step)),
           UNCHANGED <<account, notices, signedIn>>
    PROVE  Trusts(t)'
<1>0. Job(t) = jobs[t][1]
  BY QueuesAdvance
<1>1. ASSUME NEW i \in DOMAIN jobs[t], Promising(jobs[t][i])
      PROVE  i \in DOMAIN jobs'[t] /\ Promising(jobs'[t][i])
  BY <1>0, <1>1, QueuesMove DEF MovedJob
<1> QED
  BY <1>1 DEF Trusts

LEMMA AdvancingTrusts ==
    ASSUME NEW t \in Tabs, SessionTypes, Busy(t), Trusts(t),
           jobs' = Done(t), needsAuth'[t] = needsAuth[t], ~Promising(Job(t)),
           UNCHANGED <<account, notices, signedIn>>
    PROVE  Trusts(t)'
<1>1. ASSUME NEW i \in DOMAIN jobs[t], Promising(jobs[t][i])
      PROVE  \E k \in DOMAIN jobs'[t] : Promising(jobs'[t][k])
  BY <1>1, QueuesAdvance
<1> QED
  BY <1>1 DEF Trusts

LEMMA MovingKeeps ==
    ASSUME NEW t \in Tabs, NEW step \in Stages, SessionIInv, Busy(t), jobs' = Moved(t, step),
           Resolves(Job(t), cookie) => Resolves(MovedJob(t, step), cookie),
           Promising(Job(t)) => Promising(MovedJob(t, step)),
           UNCHANGED <<account, notices, flagVars, cookie>>
    PROVE  SessionIInv'
<1>0. SessionTypes
  BY DEF SessionIInv
<1>1. SessionTypes'
  BY <1>0, QueuesMove DEF SessionTypes, flagVars
<1>2. Touches(t)
  <2>1. \A u \in Tabs : u # t => jobs'[u] = jobs[u]
    BY <1>0, QueuesMove, ZenonT(40)
  <2> QED
    BY <2>1 DEF Touches, Untouched, flagVars
<1>3. Trusts(t)'
  BY <1>0, MovingTrusts DEF SessionIInv, flagVars
<1>4. Job(t) = jobs[t][1]
  BY <1>0, QueuesAdvance
<1>5. ASSUME NEW i \in DOMAIN jobs[t], Resolves(jobs[t][i], cookie)
      PROVE  i \in DOMAIN jobs'[t] /\ Resolves(jobs'[t][i], cookie)
  BY <1>0, <1>4, <1>5, QueuesMove DEF MovedJob
<1>6. AnswersFor(t, cookie) => AnswersFor(t, cookie)'
  BY <1>5 DEF AnswersFor, flagVars
<1> QED
  BY <1>1, <1>2, <1>3, <1>6, OneTabSteps

LEMMA StartLoginKeeps == ASSUME NEW t \in Tabs PROVE SessionIInv /\ StartLogin(t) => SessionIInv'
<1> SUFFICES ASSUME SessionIInv, StartLogin(t) PROVE SessionIInv'
  OBVIOUS
<1>0. SessionTypes /\ Busy(t) /\ Job(t).at = "queued" /\ UNCHANGED <<account, notices, flagVars, cookie>>
  BY DEF SessionIInv, StartLogin, At
<1>1. CASE Job(t).late
  <2>0. jobs' = Done(t) /\ Job(t) = jobs[t][1]
    BY <1>0, <1>1, QueuesAdvance DEF StartLogin
  <2>1. SessionTypes'
    BY <1>0, <2>0, QueuesAdvance DEF SessionTypes, flagVars
  <2>2. Touches(t)
    BY <1>0, <2>0, QueuesAdvance DEF Touches, Untouched, flagVars
  <2>3. Trusts(t)'
    BY <1>0, <1>1, <2>0, AdvancingTrusts DEF SessionIInv, flagVars, Promising
  <2>4. ASSUME NEW i \in DOMAIN jobs[t], Resolves(jobs[t][i], cookie)
        PROVE  \E k \in DOMAIN jobs'[t] : Resolves(jobs'[t][k], cookie)
    <3>1. i # 1
      BY <1>0, <1>1, <2>0, <2>4 DEF Resolves
    <3> QED
      BY <1>0, <2>0, <2>4, <3>1, QueuesAdvance
  <2>5. AnswersFor(t, cookie) => AnswersFor(t, cookie)'
    BY <1>0, <2>4 DEF AnswersFor, flagVars
  <2> QED
    BY <1>0, <2>1, <2>2, <2>3, <2>5, OneTabSteps
<1>2. CASE ~Job(t).late
  <2>1. PICK step \in {"clean", "challenge"} : jobs' = Moved(t, step)
    BY <1>2 DEF StartLogin
  <2>2. step \in Stages /\ Resolves(MovedJob(t, step), cookie) /\ Promising(MovedJob(t, step))
    <3>1. Job(t) \in Jobs
      BY <1>0, QueuesAdvance
    <3> QED
      BY <1>2, <3>1 DEF Resolves, Promising, MovedJob, Stages, Jobs
  <2> QED
    BY <1>0, <2>1, <2>2, MovingKeeps
<1> QED
  BY <1>1, <1>2

LEMMA FailingKeeps ==
    ASSUME NEW t \in Tabs, SessionIInv, Busy(t), Fails(t),
           UNCHANGED <<account, notices, flagVars, cookie>>
    PROVE  SessionIInv'
<1>1. Job(t) \in Jobs
  BY QueuesAdvance DEF SessionIInv
<1>2. /\ "failing" \in Stages /\ Resolves(MovedJob(t, "failing"), cookie)
      /\ Promising(Job(t)) => Promising(MovedJob(t, "failing"))
  BY <1>1 DEF Resolves, Promising, MovedJob, Stages, Jobs
<1> QED
  BY <1>2, MovingKeeps DEF Fails

LEMMA VerifyKeeps == ASSUME NEW t \in Tabs PROVE SessionIInv /\ Verify(t) => SessionIInv'
<1> SUFFICES ASSUME SessionIInv, Verify(t) PROVE SessionIInv'
  OBVIOUS
<1>0. Busy(t) /\ UNCHANGED <<account, notices, flagVars, cookie>>
  BY DEF Verify, At
<1>1. CASE jobs' = Moved(t, "verified")
  <2>1. Job(t) \in Jobs
    BY <1>0, QueuesAdvance DEF SessionIInv
  <2>2. /\ "verified" \in Stages /\ Resolves(MovedJob(t, "verified"), cookie)
        /\ Promising(Job(t)) => Promising(MovedJob(t, "verified"))
    BY <2>1 DEF Resolves, Promising, MovedJob, Stages, Jobs
  <2> QED
    BY <1>0, <1>1, <2>2, MovingKeeps
<1>2. CASE Fails(t)
  BY <1>0, <1>2, FailingKeeps
<1> QED
  BY <1>1, <1>2 DEF Verify

LEMMA ReceiveCookieKeeps == ASSUME NEW t \in Tabs PROVE SessionIInv /\ ReceiveCookie(t) => SessionIInv'
<1> SUFFICES ASSUME SessionIInv, ReceiveCookie(t) PROVE SessionIInv'
  OBVIOUS
<1>0. /\ SessionTypes /\ Busy(t) /\ Job(t).at = "verified" /\ jobs' = Moved(t, "check")
      /\ UNCHANGED <<account, notices, flagVars>> /\ cookie' = [wallet |-> Job(t).wallet, live |-> TRUE]
  BY DEF SessionIInv, ReceiveCookie, At
<1>1. Job(t) \in Jobs /\ "check" \in Stages
  BY <1>0, QueuesAdvance DEF Stages
<1>2. SessionTypes'
  <2>1. Job(t).wallet \in Accounts \cup {None}
    BY <1>1 DEF Jobs
  <2> QED
    BY <1>0, <1>1, <2>1, QueuesMove DEF SessionTypes, flagVars
<1>3. Touches(t)
  <2>1. \A u \in Tabs : u # t => jobs'[u] = jobs[u]
    BY <1>0, <1>1, OthersWait
  <2> QED
    BY <1>0, <2>1 DEF Touches, Untouched, flagVars
<1>4. Promising(Job(t)) => Promising(MovedJob(t, "check"))
  BY <1>1 DEF Promising, MovedJob, Jobs
<1>5. Trusts(t)'
  BY <1>0, <1>1, <1>4, MovingTrusts DEF SessionIInv, flagVars
<1>6. 1 \in DOMAIN jobs'[t] /\ jobs'[t][1] = MovedJob(t, "check")
  BY <1>0, <1>1, QueuesMove DEF MovedJob
<1>7. Resolves(MovedJob(t, "check"), cookie')
  BY <1>0, <1>1 DEF Resolves, MovedJob, Jobs
<1>8. AnswersFor(t, cookie)'
  BY <1>6, <1>7 DEF AnswersFor
<1> QED
  BY <1>2, <1>3, <1>5, <1>8, OneTabSteps

LEMMA EndLoginKeeps == ASSUME NEW t \in Tabs PROVE SessionIInv /\ EndLogin(t) => SessionIInv'
<1> SUFFICES ASSUME SessionIInv, EndLogin(t) PROVE SessionIInv'
  OBVIOUS
<1>0. SessionTypes /\ Busy(t) /\ Job(t).at = "check" /\ UNCHANGED <<account, notices, cookie>>
  BY DEF SessionIInv, EndLogin, At
<1>1. CASE Fails(t) /\ UNCHANGED flagVars
  BY <1>0, <1>1, FailingKeeps
<1>2. CASE /\ SameWallet(t) /\ jobs' = Done(t) /\ UNCHANGED <<cleanup, shown>>
           /\ needsAuth' = [needsAuth EXCEPT ![t] = FALSE]
           /\ signedIn' = [signedIn EXCEPT ![t] = Job(t).wallet]
  <2>0. Job(t) = jobs[t][1] /\ Job(t) \in Jobs /\ Job(t).wallet = account
    BY <1>0, <1>2, QueuesAdvance DEF SameWallet
  <2>1. SessionTypes'
    <3>1. jobs' \in [Tabs -> Seq(Jobs)] /\ Job(t).wallet \in Accounts \cup {None}
      BY <1>0, <1>2, <2>0, QueuesAdvance DEF Jobs
    <3> QED
      BY <1>0, <1>2, <3>1 DEF SessionTypes
  <2>2. Touches(t)
    <3>1. \A u \in Tabs : u # t => jobs'[u] = jobs[u]
      BY <1>0, <1>2, QueuesAdvance
    <3> QED
      BY <1>0, <1>2, <3>1 DEF SessionTypes, Touches, Untouched
  <2>3. ~needsAuth'[t] /\ signedIn'[t] = account'
    BY <1>0, <1>2, <2>0 DEF SessionTypes
  <2>4. Trusts(t)'
    BY <2>3 DEF Trusts
  <2>5. CASE cookie.wallet = account
    <3>1. AnswersFor(t, cookie)'
      BY <1>0, <2>3, <2>5 DEF AnswersFor
    <3> QED
      BY <2>1, <2>2, <2>4, <3>1, OneTabSteps
  <2>6. CASE cookie.wallet # account
    <3>1. ASSUME NEW i \in DOMAIN jobs[t], Resolves(jobs[t][i], cookie)
          PROVE  \E k \in DOMAIN jobs'[t] : Resolves(jobs'[t][k], cookie)
      <4>1. i # 1
        BY <1>0, <2>0, <2>6, <3>1 DEF Resolves
      <4> QED
        BY <1>0, <1>2, <3>1, <4>1, QueuesAdvance
    <3>2. AnswersFor(t, cookie) => AnswersFor(t, cookie)'
      BY <1>0, <1>2, <2>6, <3>1 DEF AnswersFor
    <3> QED
      BY <1>0, <2>1, <2>2, <2>4, <3>2, OneTabSteps
  <2> QED
    BY <2>5, <2>6
<1> QED
  BY <1>1, <1>2 DEF EndLogin

LEMMA FailLoginKeeps == ASSUME NEW t \in Tabs PROVE SessionIInv /\ FailLogin(t) => SessionIInv'
<1> SUFFICES ASSUME SessionIInv, FailLogin(t) PROVE SessionIInv'
  OBVIOUS
<1>0. SessionTypes /\ Busy(t) /\ Job(t).at = "failing" /\ UNCHANGED <<account, cookie>>
  BY DEF SessionIInv, FailLogin, At
<1>1. Job(t) \in Jobs /\ "logout" \in Stages
  BY <1>0, QueuesAdvance DEF Stages
<1>2. CASE Job(t).late
  <2>1. jobs' = Moved(t, "logout") /\ UNCHANGED <<flagVars, notices>>
    BY <1>2 DEF FailLogin
  <2>2. Resolves(MovedJob(t, "logout"), cookie) /\ ~Promising(Job(t))
    BY <1>1, <1>2 DEF Resolves, Promising, MovedJob, Jobs
  <2> QED
    BY <1>0, <1>1, <2>1, <2>2, MovingKeeps
<1>3. CASE ~Job(t).late
  <2> DEFINE p == Moved(t, "logout")[t]  q == Outdated(p)
  <2>1. Invalidate(t, p) /\ notices' = Broadcast(t, notices)
    BY <1>3 DEF FailLogin
  <2>2. p \in Seq(Jobs) /\ 1 \in DOMAIN p /\ p[1].at = "logout"
    <3>1. p \in Seq(Jobs) /\ 1 \in DOMAIN p /\ p[1] = [Job(t) EXCEPT !.at = "logout"]
      BY <1>0, <1>1, QueuesMove
    <3> QED
      BY <1>1, <3>1 DEF Jobs
  <2> HIDE DEF p
  <2>3. q \in Seq(Jobs) /\ 1 \in DOMAIN q /\ q[1].at = "logout"
    BY <2>2, OutdatedStays
  <2> HIDE DEF q
  <2>4. jobs' = [jobs EXCEPT ![t] = q]
    BY <2>1 DEF Invalidate, q
  <2>5. SessionTypes'
    BY <1>0, <2>1, <2>3, <2>4 DEF SessionTypes, Invalidate, Broadcast
  <2>6. Touches(t)
    BY <1>0, <2>1, <2>4 DEF SessionTypes, Invalidate, Broadcast, Touches, Untouched
  <2>7. jobs'[t] = q /\ needsAuth'[t]
    BY <1>0, <2>1, <2>4 DEF SessionTypes, Invalidate
  <2>8. AnswersFor(t, cookie)' /\ Trusts(t)'
    BY <2>3, <2>7 DEF AnswersFor, Resolves, Trusts
  <2> QED
    BY <2>5, <2>6, <2>8, OneTabSteps
<1> QED
  BY <1>2, <1>3

LEMMA SendLogoutKeeps == ASSUME NEW t \in Tabs PROVE SessionIInv /\ SendLogout(t) => SessionIInv'
<1> SUFFICES ASSUME SessionIInv, SendLogout(t) PROVE SessionIInv'
  OBVIOUS
<1>0. /\ SessionTypes /\ Busy(t) /\ UNCHANGED <<account, notices, flagVars>>
      /\ cookie' = [cookie EXCEPT !.live = FALSE]
  BY DEF SessionIInv, SendLogout, At
<1>1. Job(t) \in Jobs
  BY <1>0, QueuesAdvance
<1>2. PICK step \in {"cleaning", "leaving"} :
        /\ jobs' = Moved(t, step)
        /\ Promising(Job(t)) => Promising(MovedJob(t, step))
  BY <1>1 DEF SendLogout, At, Promising, MovedJob, Jobs
<1>3. step \in Stages
  BY DEF Stages
<1>4. SessionTypes' /\ ~cookie'.live
  <2>1. jobs' \in [Tabs -> Seq(Jobs)]
    BY <1>0, <1>2, <1>3, QueuesMove
  <2> QED
    BY <1>0, <2>1 DEF SessionTypes, flagVars
<1>5. Touches(t)
  <2>1. \A u \in Tabs : u # t => jobs'[u] = jobs[u]
    BY <1>0, <1>2, <1>3, OthersWait
  <2> QED
    BY <1>0, <2>1 DEF Touches, Untouched, flagVars
<1>6. Trusts(t)'
  BY <1>0, <1>2, <1>3, MovingTrusts DEF SessionIInv, flagVars
<1> QED
  BY <1>4, <1>5, <1>6, OneTabSteps

LEMMA ReceiveLogoutKeeps == ASSUME NEW t \in Tabs PROVE SessionIInv /\ ReceiveLogout(t) => SessionIInv'
<1> SUFFICES ASSUME SessionIInv, ReceiveLogout(t) PROVE SessionIInv'
  OBVIOUS
<1>0. /\ SessionTypes /\ Busy(t) /\ Job(t).at \in {"leaving", "cleaning"}
      /\ UNCHANGED <<account, notices, needsAuth, shown, signedIn>>
      /\ cookie' = NoCookie /\ cleanup' = [cleanup EXCEPT ![t] = FALSE]
  BY DEF SessionIInv, ReceiveLogout, At
<1>1. Job(t) \in Jobs /\ "failing" \in Stages /\ "challenge" \in Stages
  BY <1>0, QueuesAdvance DEF Stages
<1>2. \/ jobs' = Done(t) /\ ~Promising(Job(t))
      \/ \E step \in {"failing", "challenge"} :
            jobs' = Moved(t, step) /\ (Promising(Job(t)) => Promising(MovedJob(t, step)))
  BY <1>0, <1>1 DEF ReceiveLogout, AfterLogout, At, Promising, MovedJob, Jobs
<1>3. jobs' \in [Tabs -> Seq(Jobs)] /\ \A u \in Tabs : u # t => jobs'[u] = jobs[u]
  BY <1>0, <1>1, <1>2, OthersWait
<1>4. SessionTypes' /\ ~cookie'.live
  BY <1>0, <1>3 DEF SessionTypes, NoCookie
<1>5. Touches(t)
  BY <1>0, <1>3 DEF SessionTypes, Touches, Untouched
<1>6. Trusts(t)'
  <2>1. CASE jobs' = Done(t) /\ ~Promising(Job(t))
    BY <1>0, <2>1, AdvancingTrusts DEF SessionIInv
  <2>2. CASE ~(jobs' = Done(t) /\ ~Promising(Job(t)))
    <3>1. PICK step \in Stages :
             jobs' = Moved(t, step) /\ (Promising(Job(t)) => Promising(MovedJob(t, step)))
      BY <1>1, <1>2, <2>2
    <3> QED
      BY <1>0, <3>1, MovingTrusts DEF SessionIInv
  <2> QED
    BY <2>1, <2>2
<1> QED
  BY <1>4, <1>5, <1>6, OneTabSteps

LEMMA LoseLogoutKeeps == ASSUME NEW t \in Tabs PROVE SessionIInv /\ LoseLogout(t) => SessionIInv'
<1> SUFFICES ASSUME SessionIInv, LoseLogout(t) PROVE SessionIInv'
  OBVIOUS
<1>0. SessionTypes /\ Busy(t) /\ UNCHANGED <<account, notices, signedIn, cookie>> /\ "failing" \in Stages
  BY DEF SessionIInv, LoseLogout, Stages
<1>1. jobs' = Done(t) \/ jobs' = Moved(t, "failing")
  BY DEF LoseLogout
<1>2. jobs' \in [Tabs -> Seq(Jobs)] /\ \A u \in Tabs : u # t => jobs'[u] = jobs[u]
  BY <1>0, <1>1, OthersWait
<1>3. SessionTypes'
  BY <1>0, <1>2 DEF SessionTypes, LoseLogout
<1>4. Touches(t)
  BY <1>0, <1>2 DEF SessionTypes, Touches, Untouched, LoseLogout
<1>5. cleanup'[t] /\ needsAuth'[t]
  BY <1>0 DEF SessionTypes, LoseLogout
<1>6. AnswersFor(t, cookie)' /\ Trusts(t)'
  BY <1>5 DEF AnswersFor, Trusts
<1> QED
  BY <1>3, <1>4, <1>6, OneTabSteps

-----------------------------------------------------------------------------
LEMMA SessionsStart == WalletInit => SessionIInv
<1> SUFFICES ASSUME WalletInit PROVE SessionIInv
  OBVIOUS
<1>1. << >> \in Seq(Jobs)
  OBVIOUS
<1>2. SessionTypes
  BY <1>1 DEF WalletInit, SessionTypes, NoCookie
<1> QED
  BY <1>2 DEF WalletInit, SessionIInv, CookieAnswered, Trusts, NoCookie

LEMMA SessionsStay == SessionIInv /\ [WalletNext]_walletVars => SessionIInv'
<1> SUFFICES ASSUME SessionIInv, [WalletNext]_walletVars PROVE SessionIInv'
  OBVIOUS
<1>1. CASE UNCHANGED walletVars
  <2>1. SessionTypes'
    BY <1>1 DEF SessionIInv, SessionTypes, walletVars
  <2>2. CookieAnswered'
    BY <1>1 DEF SessionIInv, CookieAnswered, AnswersFor, walletVars
  <2>3. \A t \in Tabs : Trusts(t)'
    BY <1>1 DEF SessionIInv, Trusts, walletVars
  <2> QED
    BY <2>1, <2>2, <2>3 DEF SessionIInv
<1>2. CASE WalletNext
  BY <1>2, SwitchKeeps, ExpireKeeps, HearOfChangeKeeps, HearBroadcastKeeps, ConnectKeeps,
     RequestLoginKeeps, StartLoginKeeps, VerifyKeeps, ReceiveCookieKeeps, EndLoginKeeps,
     FailLoginKeeps, SendLogoutKeeps, ReceiveLogoutKeeps, LoseLogoutKeeps DEF WalletNext
<1> QED
  BY <1>1, <1>2

LEMMA SettledSessions == SessionIInv => OneIdentity
<1> SUFFICES ASSUME SessionIInv, Settled, \A t \in Tabs : ~cleanup[t] PROVE
        /\ cookie.live => cookie.wallet = account /\ \E t \in Tabs : MayAsk(t)
        /\ \A t \in Tabs : MayAsk(t) => signedIn[t] = account
  BY DEF OneIdentity
<1>1. \A t \in Tabs : notices[t] = {} /\ DOMAIN jobs[t] = {}
  BY DEF Settled, Busy
<1>2. ASSUME cookie.live PROVE cookie.wallet = account /\ \E t \in Tabs : MayAsk(t)
  <2>1. PICK t \in Tabs : AnswersFor(t, cookie)
    BY <1>2 DEF SessionIInv, CookieAnswered
  <2> QED
    BY <1>1, <2>1 DEF AnswersFor, MayAsk
<1>3. ASSUME NEW t \in Tabs, MayAsk(t) PROVE signedIn[t] = account
  BY <1>1, <1>3 DEF SessionIInv, Trusts, MayAsk
<1> QED
  BY <1>2, <1>3

\* However logins, logouts and broadcasts of any number of tabs overtake each
\* other, once they have settled a live session is of the account the wallet shows,
\* some tab signed in for it, and no tab asks for another (walletSession.ts).
THEOREM SessionsAgree == WalletSpec => []OneIdentity
<1>1. WalletSpec => []SessionIInv
  BY SessionsStart, SessionsStay, PTL DEF WalletSpec
<1> QED
  BY <1>1, SettledSessions, PTL

-----------------------------------------------------------------------------
(* The commercial ledger.  What a set of entries, receipts or postings is  *)
(* worth: the parts of it together, its positive ones, and the same        *)
(* amounts under other names.                                              *)

Priced(S) == IsFiniteSet(S) /\ \A x \in S : x.amount \in Nat
Prices(S) == [x \in S |-> x.amount]

LEMMA WorthType ==
    ASSUME NEW S, Priced(S)
    PROVE  Prices(S) \in [S -> Nat] /\ Worth(S) = Total(Prices(S)) /\ Worth(S) \in Nat
<1>1. Prices(S) \in [S -> Nat] /\ Worth(S) = Total(Prices(S)) /\ IsFiniteSet(S)
  BY DEF Priced, Prices, Worth
<1> QED
  BY <1>1, TotalType

LEMMA WorthOfNone == Worth({}) = 0 /\ Priced({})
<1>1. Prices({}) \in [{} -> Nat] /\ Worth({}) = Total(Prices({})) /\ Priced({})
  BY FS_EmptySet DEF Priced, Prices, Worth
<1> QED
  BY <1>1, TotalOfNothing

LEMMA WorthOfPart ==
    ASSUME NEW S, Priced(S), NEW D, D \subseteq S, \A x \in S \ D : x.amount = 0
    PROVE  Priced(D) /\ Worth(D) = Worth(S)
<1>1. Priced(D)
  BY FS_Subset DEF Priced
<1>2. /\ Prices(D) \in [D -> Nat] /\ Worth(D) = Total(Prices(D))
      /\ Prices(S) \in [S -> Nat] /\ Worth(S) = Total(Prices(S))
  BY <1>1, WorthType
<1>3. /\ \A x \in D : Prices(S)[x] = Prices(D)[x]
      /\ \A x \in S \ D : Prices(S)[x] = 0
  BY DEF Prices
<1> QED
  BY <1>1, <1>2, <1>3, TotalOfPart

LEMMA WorthOfSubset ==
    ASSUME NEW S, Priced(S), NEW D \in SUBSET S
    PROVE  Priced(D)
BY FS_Subset DEF Priced

LEMMA WorthOfPositive ==
    ASSUME NEW S, Priced(S)
    PROVE  LET P == {x \in S : x.amount > 0} IN Priced(P) /\ Worth(P) = Worth(S)
<1> DEFINE P == {x \in S : x.amount > 0}
<1>1. P \subseteq S /\ \A x \in S \ P : x.amount = 0
  BY DEF Priced
<1> HIDE DEF P
<1>2. Priced(P) /\ Worth(P) = Worth(S)
  BY <1>1, WorthOfPart
<1> QED
  BY <1>2 DEF P

LEMMA WorthTogether ==
    ASSUME NEW S, Priced(S), NEW R, Priced(R), S \cap R = {}
    PROVE  Priced(S \cup R) /\ Worth(S \cup R) = Worth(S) + Worth(R)
<1> DEFINE U == S \cup R
           f == Prices(U)
           g == [x \in U |-> IF x \in S THEN x.amount ELSE 0]
           h == [x \in U |-> IF x \in R THEN x.amount ELSE 0]
<1>1. Priced(U)
  BY FS_Union DEF Priced
<1>2. f \in [U -> Nat] /\ Worth(U) = Total(f)
  BY <1>1, WorthType
<1>3. g \in [U -> Nat] /\ h \in [U -> Nat]
  BY DEF Priced
<1>4. \A x \in U : f[x] = g[x] + h[x]
  BY DEF Priced, Prices
<1>5. Prices(S) \in [S -> Nat] /\ Worth(S) = Total(Prices(S)) /\ Prices(R) \in [R -> Nat] /\ Worth(R) = Total(Prices(R))
  BY WorthType
<1>6. /\ S \subseteq U /\ R \subseteq U
      /\ \A x \in S : g[x] = Prices(S)[x]
      /\ \A x \in U \ S : g[x] = 0
      /\ \A x \in R : h[x] = Prices(R)[x]
      /\ \A x \in U \ R : h[x] = 0
  BY DEF Prices
<1>7. IsFiniteSet(U)
  BY <1>1 DEF Priced
<1> HIDE DEF U, f, g, h
<1>8. Total(f) = Total(g) + Total(h)
  BY <1>2, <1>3, <1>4, <1>7, TotalOfSum
<1>9. Total(g) = Total(Prices(S)) /\ Total(h) = Total(Prices(R))
  BY <1>3, <1>5, <1>6, TotalOfPart, SMTT(30)
<1> QED
  BY <1>1, <1>2, <1>5, <1>8, <1>9 DEF U

LEMMA WorthOfOne ==
    ASSUME NEW x, x.amount \in Nat
    PROVE  Priced({x}) /\ Worth({x}) = x.amount
<1> DEFINE S == {x}  f == Prices(S)
<1>1. Priced(S)
  BY FS_Singleton DEF Priced
<1>2. f \in [S -> Nat] /\ Worth(S) = Total(f) /\ f[x] = x.amount /\ IsFiniteSet(S)
  BY <1>1, WorthType DEF Prices, Priced
<1>3. Elsewhere(f, x) = {}
  BY DEF Elsewhere, Prices
<1>4. Total(f) = f[x] + Cardinality(Elsewhere(f, x))
  <2> HIDE DEF f
  <2>1. x \in S
    OBVIOUS
  <2> HIDE DEF S
  <2> QED
    BY <1>2, <2>1, TotalSplit
<1>5. Cardinality(Elsewhere(f, x)) = 0
  BY <1>3, FS_EmptySet
<1> HIDE DEF f
<1> QED
  BY <1>1, <1>2, <1>4, <1>5

Named(name, S) == {name[x] : x \in S}

\* One thing for each name, of the amount that the name has.
LEMMA WorthOfNamed ==
    ASSUME NEW N, IsFiniteSet(N), NEW f \in [N -> Nat], NEW name,
           DOMAIN name = N, \A x \in N : name[x].amount = f[x],
           \A x, y \in N : name[x] = name[y] => x = y
    PROVE  Priced(Named(name, N)) /\ Worth(Named(name, N)) = Total(f)
<1> DEFINE R == {name[x] : x \in N}
           m == [x \in N |-> name[x]]
<1>1. m \in [N -> R] /\ (\A x, y \in N : m[x] = m[y] => x = y) /\ \A r \in R : \E x \in N : m[x] = r
  OBVIOUS
<1>2. \A r \in R : r.amount \in Nat
  OBVIOUS
<1>3. \A x \in N : m[x].amount = f[x] /\ m[x] \in R
  OBVIOUS
<1> HIDE DEF R, m
<1>4. m \in Bijection(N, R)
  BY <1>1, Fun_IsBij
<1>5. IsFiniteSet(R)
  BY <1>4, FS_Bijection DEF ExistsBijection
<1>6. Priced(R)
  BY <1>2, <1>5 DEF Priced
<1>7. Prices(R) \in [R -> Nat] /\ Worth(R) = Total(Prices(R))
  BY <1>6, WorthType
<1>8. \A x \in N : Prices(R)[m[x]] = f[x]
  BY <1>3 DEF Prices
<1>9. Total(Prices(R)) = Total(f)
  BY <1>4, <1>7, <1>8, TotalRenamed
<1> QED
  BY <1>6, <1>7, <1>9 DEF R, Named

\* The same amounts under other names.
LEMMA WorthRenamed ==
    ASSUME NEW S, Priced(S), NEW name, DOMAIN name = S, \A x \in S : name[x].amount = x.amount,
           \A x, y \in S : name[x] = name[y] => x = y
    PROVE  Priced(Named(name, S)) /\ Worth(Named(name, S)) = Worth(S)
<1> DEFINE f == Prices(S)
<1>1. f \in [S -> Nat] /\ Worth(S) = Total(f) /\ IsFiniteSet(S)
      /\ \A x \in S : name[x].amount = f[x]
  BY WorthType DEF Priced, Prices
<1> HIDE DEF f
<1> QED
  BY <1>1, WorthOfNamed

-----------------------------------------------------------------------------
(* What a manifest divides, part by part.                                  *)

IncomeRight ==
    /\ income \subseteq Offered /\ Covered(income)
    /\ \A r \in income : Authorised(r)
    /\ \A r, x \in income : r.id = x.id => r = x

NodeEntry(c) == Entry("node", c, AgentOf[c], ChildBudget[c])
FeeEntry == Entry("platform", "fee", Platform, Fee)
RefundEntry == Entry("refund", "budget", Publisher, Refund)
IncomeEntry(r) == Entry(r.kind, r.id, r.to, r.amount)
Returned(w) == Entry("deposit_return", w, w, Deposit[w] - ForfeitedBy(income, w))

LEMMA IncomePriced ==
    ASSUME IncomeRight
    PROVE  /\ Priced(income) /\ \A R \in SUBSET income : Priced(R)
           /\ \A r \in income : r.amount \in Nat \ {0}
<1>1. \A r \in income : r.amount \in Nat \ {0}
  BY LedgerConstants DEF IncomeRight
<1>2. Priced(income)
  BY <1>1, LedgerConstants, FS_Subset DEF IncomeRight, Priced
<1> QED
  BY <1>1, <1>2, WorthOfSubset

LEMMA ForfeitedBounds ==
    ASSUME IncomeRight, NEW w \in Participants
    PROVE  /\ ForfeitedBy(income, w) \in Nat /\ Deposit[w] \in Nat
           /\ ForfeitedBy(income, w) <= Deposit[w]
<1>1. Priced({r \in Penalties(income) : r.from = w})
  BY IncomePriced DEF Penalties
<1>2. ForfeitedBy(income, w) \in Nat
  BY <1>1, WorthType DEF ForfeitedBy
<1> QED
  BY <1>2, LedgerConstants DEF IncomeRight, Covered

\* What all deposits forfeit together is what the penalties are worth.
LEMMA ForfeitedTogether ==
    ASSUME IncomeRight
    PROVE  Total([w \in Participants |-> ForfeitedBy(income, w)]) = Worth(Penalties(income))
<1> DEFINE S == Penalties(income)
           f == Prices(S)
           of == [r \in S |-> r.from]
           g == [w \in Participants |-> ForfeitedBy(income, w)]
<1>1. Priced(S)
  BY IncomePriced DEF Penalties
<1>2. f \in [S -> Nat] /\ Worth(S) = Total(f) /\ IsFiniteSet(S)
  BY <1>1, WorthType DEF Priced
<1>3. of \in [S -> Participants]
  BY DEF Penalties, IncomeRight, Authorised
<1>4. g \in [Participants -> Nat] /\ IsFiniteSet(Participants)
  BY ForfeitedBounds, LedgerConstants
<1>5. ASSUME NEW w \in Participants PROVE g[w] = Total(Group(f, of, w))
  <2>1. DOMAIN f = S
    BY DEF Prices
  <2>2. Group(f, of, w) = [x \in {r \in S : r.from = w} |-> x.amount]
    BY <2>1 DEF Group, Prices
  <2> QED
    BY <2>2 DEF ForfeitedBy, Worth
<1> HIDE DEF S, f, of, g
<1>6. Total(g) = Total(f)
  BY <1>2, <1>3, <1>4, <1>5, TotalOfGroups
<1> QED
  BY <1>2, <1>6 DEF g, S

LEMMA EarnedBounds ==
    NodesEarn(Accepted) \in Nat /\ NodesEarn(Accepted) <= Budget /\ Refund \in Nat
    /\ IsFiniteSet(Accepted) /\ [c \in Accepted |-> ChildBudget[c]] \in [Accepted -> Nat]
<1> DEFINE f == [c \in Accepted |-> ChildBudget[c]]
           all == [c \in Children |-> ChildBudget[c]]
           g == [c \in Children |-> IF c \in Accepted THEN ChildBudget[c] ELSE 0]
<1>1. Accepted \in SUBSET Children
  BY DEF Accepted
<1>2. IsFiniteSet(Accepted) /\ IsFiniteSet(Children)
  BY <1>1, LedgerConstants, FS_Subset
<1>3. \A c \in Children : ChildBudget[c] \in Nat
  BY LedgerConstants
<1>4. f \in [Accepted -> Nat] /\ all \in [Children -> Nat] /\ g \in [Children -> Nat]
  BY <1>1, <1>3
<1>5. /\ \A c \in Accepted : g[c] = f[c]
      /\ \A c \in Children \ Accepted : g[c] = 0
      /\ \A c \in Children : g[c] <= all[c]
  BY <1>1, <1>3
<1>6. NodesEarn(Accepted) = Total(f) /\ NodesEarn(Children) = Total(all)
  BY DEF NodesEarn
<1> HIDE DEF f, all, g
<1>7. Total(g) = Total(f)
  BY <1>1, <1>4, <1>5, TotalOfPart
<1>8. Total(g) <= Total(all) /\ Total(f) \in Nat /\ Total(all) \in Nat /\ Total(g) \in Nat
  BY <1>2, <1>4, <1>5, TotalMonotone, TotalType
<1>9. NodesEarn(Accepted) \in Nat /\ NodesEarn(Accepted) <= Budget
  BY <1>6, <1>7, <1>8, LedgerConstants
<1>10. Refund \in Nat
  BY <1>9, LedgerConstants DEF Refund
<1> QED
  BY <1>2, <1>4, <1>9, <1>10 DEF f

NodeEntries == {NodeEntry(c) : c \in Accepted}
IncomeEntries(R) == {IncomeEntry(r) : r \in R}
Returns == {Returned(w) : w \in Participants}

LEMMA NodesWorth == Priced(NodeEntries) /\ Worth(NodeEntries) = NodesEarn(Accepted)
<1> DEFINE f == [c \in Accepted |-> ChildBudget[c]]
           name == [c \in Accepted |-> NodeEntry(c)]
<1>1. f \in [Accepted -> Nat] /\ IsFiniteSet(Accepted) /\ NodesEarn(Accepted) = Total(f)
  BY EarnedBounds DEF NodesEarn
<1>2. /\ DOMAIN name = Accepted /\ \A c \in Accepted : name[c].amount = f[c]
      /\ \A c, d \in Accepted : name[c] = name[d] => c = d
  BY DEF NodeEntry, Entry
<1>3. NodeEntries = Named(name, Accepted)
  BY DEF NodeEntries, Named
<1> HIDE DEF f, name
<1>4. Priced(Named(name, Accepted)) /\ Worth(Named(name, Accepted)) = Total(f)
  BY <1>1, <1>2, WorthOfNamed
<1> QED
  BY <1>1, <1>3, <1>4

LEMMA IncomesWorth ==
    ASSUME IncomeRight, NEW R \in SUBSET income
    PROVE  Priced(IncomeEntries(R)) /\ Worth(IncomeEntries(R)) = Worth(R)
<1> DEFINE name == [r \in R |-> IncomeEntry(r)]
<1>1. Priced(R)
  BY IncomePriced
<1>2. /\ DOMAIN name = R /\ \A r \in R : name[r].amount = r.amount
      /\ \A r, x \in R : name[r] = name[x] => r = x
  BY DEF IncomeEntry, Entry, IncomeRight
<1>3. IncomeEntries(R) = Named(name, R)
  BY DEF IncomeEntries, Named
<1> HIDE DEF name
<1>4. Priced(Named(name, R)) /\ Worth(Named(name, R)) = Worth(R)
  BY <1>1, <1>2, WorthRenamed
<1> QED
  BY <1>3, <1>4

LEMMA ReturnsWorth ==
    ASSUME IncomeRight
    PROVE  /\ Priced(Returns)
           /\ Worth(Returns) + Worth(Penalties(income)) = 2 * Deposit[Publisher]
<1> DEFINE f == [w \in Participants |-> Deposit[w] - ForfeitedBy(income, w)]
           g == [w \in Participants |-> ForfeitedBy(income, w)]
           name == [w \in Participants |-> Returned(w)]
<1>1. f \in [Participants -> Nat] /\ g \in [Participants -> Nat]
  BY ForfeitedBounds
<1>2. \A w \in Participants : Deposit[w] = f[w] + g[w]
  BY ForfeitedBounds
<1>3. /\ DOMAIN name = Participants /\ \A w \in Participants : name[w].amount = f[w]
      /\ \A w, u \in Participants : name[w] = name[u] => w = u
  BY DEF Returned, Entry
<1>4. Returns = Named(name, Participants)
  BY DEF Returns, Named
<1>5. IsFiniteSet(Participants) /\ Deposit \in [Participants -> Nat] /\ Total(Deposit) = 2 * Deposit[Publisher]
  BY LedgerConstants
<1>6. Total(g) = Worth(Penalties(income))
  BY ForfeitedTogether
<1> HIDE DEF f, g, name
<1>7. Priced(Named(name, Participants)) /\ Worth(Named(name, Participants)) = Total(f)
  BY <1>1, <1>3, <1>5, WorthOfNamed
<1>8. Total(Deposit) = Total(f) + Total(g)
  BY <1>1, <1>2, <1>5, TotalOfSum
<1> QED
  BY <1>4, <1>5, <1>6, <1>7, <1>8

AllEntries == NodeEntries \cup {FeeEntry, RefundEntry} \cup IncomeEntries(income) \cup Returns

LEMMA KindsOfEntries ==
    ASSUME IncomeRight
    PROVE  /\ \A e \in NodeEntries : e.kind = "node"
           /\ FeeEntry.kind = "platform" /\ FeeEntry.amount = Fee
           /\ RefundEntry.kind = "refund" /\ RefundEntry.amount = Refund
           /\ \A e \in IncomeEntries(income) : e.kind \in {"yield", "penalty"}
           /\ \A e \in Returns : e.kind = "deposit_return"
           /\ Entries = {e \in AllEntries : e.amount > 0}
<1>1. \A r \in income : r.kind \in {"yield", "penalty"}
  BY DEF IncomeRight, Authorised
<1>2. Entries = {e \in AllEntries : e.amount > 0}
  BY DEF Entries, AllEntries, NodeEntries, NodeEntry, FeeEntry, RefundEntry, IncomeEntries,
         IncomeEntry, Returns, Returned
<1> QED
  BY <1>1, <1>2 DEF NodeEntries, NodeEntry, FeeEntry, RefundEntry, IncomeEntries, IncomeEntry,
                    Returns, Returned, Entry

LEMMA BudgetWorth ==
    ASSUME IncomeRight
    PROVE  /\ Priced(NodeEntries \cup {RefundEntry})
           /\ Worth(NodeEntries \cup {RefundEntry}) = Budget
<1>1. Priced({RefundEntry}) /\ Worth({RefundEntry}) = Refund
  BY KindsOfEntries, EarnedBounds, WorthOfOne
<1>2. NodeEntries \cap {RefundEntry} = {}
  BY KindsOfEntries
<1>3. /\ Priced(NodeEntries \cup {RefundEntry})
      /\ Worth(NodeEntries \cup {RefundEntry}) = NodesEarn(Accepted) + Refund
  BY <1>1, <1>2, NodesWorth, WorthTogether
<1> QED
  BY <1>3, EarnedBounds, LedgerConstants DEF Refund

LEMMA FeeWorth ==
    ASSUME IncomeRight
    PROVE  Priced({FeeEntry}) /\ Worth({FeeEntry}) = Fee
BY KindsOfEntries, LedgerConstants, WorthOfOne

LEMMA IncomeSplits ==
    ASSUME IncomeRight
    PROVE  Worth(income) = Worth(Yields(income)) + Worth(Penalties(income))
<1>1. /\ income = Yields(income) \cup Penalties(income)
      /\ Yields(income) \cap Penalties(income) = {}
  BY DEF IncomeRight, Authorised, Yields, Penalties
<1>2. Priced(Yields(income)) /\ Priced(Penalties(income))
  BY IncomePriced DEF Yields, Penalties
<1> QED
  BY <1>1, <1>2, WorthTogether

\* Whatever was accepted, cancelled, forfeited or observed: the entries add up.
LEMMA EntriesAdd ==
    ASSUME IncomeRight
    PROVE  Priced(AllEntries) /\ Priced(Entries) /\ Adds(Entries)
<1> DEFINE B == NodeEntries \cup {RefundEntry}
           F == {FeeEntry}
           I == IncomeEntries(income)
<1>1. Priced(B) /\ Worth(B) = Budget
  BY BudgetWorth
<1>2. Priced(F) /\ Worth(F) = Fee
  BY FeeWorth
<1>3. Priced(I) /\ Worth(I) = Worth(income)
  BY IncomesWorth
<1>4. Priced(Returns) /\ Worth(Returns) + Worth(Penalties(income)) = 2 * Deposit[Publisher]
  BY ReturnsWorth
<1>5. B \cap F = {} /\ (B \cup F) \cap I = {} /\ (B \cup F \cup I) \cap Returns = {}
  BY KindsOfEntries
<1>6. AllEntries = ((B \cup F) \cup I) \cup Returns
  BY DEF AllEntries
<1> HIDE DEF B, F, I
<1>7. Priced(B \cup F) /\ Worth(B \cup F) = Budget + Fee
  BY <1>1, <1>2, <1>5, WorthTogether
<1>8. Priced((B \cup F) \cup I) /\ Worth((B \cup F) \cup I) = Budget + Fee + Worth(income)
  <2> DEFINE A == B \cup F
  <2>1. Priced(A) /\ Worth(A) = Budget + Fee /\ A \cap I = {}
    BY <1>5, <1>7
  <2> HIDE DEF A
  <2>2. Priced(A \cup I) /\ Worth(A \cup I) = Budget + Fee + Worth(income)
    BY <1>3, <2>1, WorthTogether
  <2> QED
    BY <2>2 DEF A
<1>9. Priced(AllEntries) /\ Worth(AllEntries) = Budget + Fee + Worth(income) + Worth(Returns)
  <2> DEFINE A == (B \cup F) \cup I
  <2>1. Priced(A) /\ Worth(A) = Budget + Fee + Worth(income) /\ A \cap Returns = {}
    BY <1>5, <1>8
  <2> HIDE DEF A
  <2>2. Priced(A \cup Returns) /\ Worth(A \cup Returns) = Budget + Fee + Worth(income) + Worth(Returns)
    BY <1>4, <2>1, WorthTogether
  <2> QED
    BY <1>6, <2>2 DEF A
<1>10. Priced(Entries) /\ Worth(Entries) = Worth(AllEntries)
  BY <1>9, KindsOfEntries, WorthOfPositive
<1>11. /\ Worth(income) = Worth(Yields(income)) + Worth(Penalties(income))
       /\ Worth(Yields(income)) \in Nat /\ Worth(Penalties(income)) \in Nat
       /\ Worth(Returns) \in Nat /\ Budget \in Nat /\ Fee \in Nat
  <2>1. Priced(Yields(income)) /\ Priced(Penalties(income))
    BY IncomePriced DEF Yields, Penalties
  <2> QED
    BY <1>4, <2>1, IncomeSplits, WorthType, LedgerConstants
<1>12. Deposit[Publisher] \in Nat
  BY LedgerConstants
<1>13. Worth(Entries) = Budget + Fee + 2 * Deposit[Publisher] + Worth(Yields(income))
  BY <1>4, <1>9, <1>10, <1>11, <1>12
<1> QED
  BY <1>9, <1>10, <1>13 DEF Adds

-----------------------------------------------------------------------------
(* What the journal says of an account: what was observed, what was        *)
(* divided and what was paid out of it or into it.                         *)

PaidOut == {e \in manifest : paid[e] \in PayoutIds}
Observed(R) == {IncomePosting(r) : r \in R}
Divided(S) == {ManifestPosting(e) : e \in S}
Payments(S) == {PaymentPosting(e) : e \in S}

JournalRight == journal = Observed(income) \cup Divided(manifest) \cup Payments(PaidOut)

LEMMA PostingsWorth ==
    ASSUME NEW S, Priced(S)
    PROVE  /\ Priced(Divided(S)) /\ Worth(Divided(S)) = Worth(S)
           /\ Priced(Payments(S)) /\ Worth(Payments(S)) = Worth(S)
<1> DEFINE d == [e \in S |-> ManifestPosting(e)]
           p == [e \in S |-> PaymentPosting(e)]
<1>1. /\ DOMAIN d = S /\ \A e \in S : d[e].amount = e.amount
      /\ \A e, f \in S : d[e] = d[f] => e = f
  BY DEF ManifestPosting, Posting
<1>2. /\ DOMAIN p = S /\ \A e \in S : p[e].amount = e.amount
      /\ \A e, f \in S : p[e] = p[f] => e = f
  BY DEF PaymentPosting, Posting
<1>3. Divided(S) = Named(d, S) /\ Payments(S) = Named(p, S)
  BY DEF Divided, Payments, Named
<1> HIDE DEF d, p
<1> QED
  BY <1>1, <1>2, <1>3, WorthRenamed

LEMMA ObservedWorth ==
    ASSUME IncomeRight, NEW R \in SUBSET income
    PROVE  Priced(Observed(R)) /\ Worth(Observed(R)) = Worth(R) /\ Priced(R)
<1> DEFINE name == [r \in R |-> IncomePosting(r)]
<1>1. Priced(R)
  BY IncomePriced
<1>2. /\ DOMAIN name = R /\ \A r \in R : name[r].amount = r.amount
      /\ \A r, x \in R : name[r] = name[x] => r = x
  BY DEF IncomePosting, Posting, IncomeRight
<1>3. Observed(R) = Named(name, R)
  BY DEF Observed, Named
<1> HIDE DEF name
<1>4. Priced(Named(name, R)) /\ Worth(Named(name, R)) = Worth(R)
  BY <1>1, <1>2, WorthRenamed
<1> QED
  BY <1>1, <1>3, <1>4

\* Postings of the three kinds are different.
LEMMA KindsOfPostings ==
    /\ \A r, e : IncomePosting(r) # ManifestPosting(e) /\ IncomePosting(r) # PaymentPosting(e)
    /\ \A e, f : ManifestPosting(e) # PaymentPosting(f)
<1>1. \A r : IncomePosting(r).event[1] = "income"
  BY DEF IncomePosting, Posting
<1>2. \A e : ManifestPosting(e).event[1] = "manifest" /\ PaymentPosting(e).event[1] = "payment"
  BY DEF ManifestPosting, PaymentPosting, Posting
<1> QED
  BY <1>1, <1>2

\* The worth of some observations, divisions and payments is that of their subjects.
LEMMA WorthOfPostings ==
    ASSUME IncomeRight, NEW R \in SUBSET income, NEW S, Priced(S), NEW T, Priced(T)
    PROVE  Worth(Observed(R) \cup Divided(S) \cup Payments(T)) = Worth(R) + Worth(S) + Worth(T)
<1>1. /\ Priced(Observed(R)) /\ Worth(Observed(R)) = Worth(R)
      /\ Priced(Divided(S)) /\ Worth(Divided(S)) = Worth(S)
      /\ Priced(Payments(T)) /\ Worth(Payments(T)) = Worth(T)
  BY ObservedWorth, PostingsWorth
<1>2. /\ Observed(R) \cap Divided(S) = {}
      /\ (Observed(R) \cup Divided(S)) \cap Payments(T) = {}
  BY KindsOfPostings DEF Observed, Divided, Payments
<1>3. Priced(Observed(R) \cup Divided(S)) /\ Worth(Observed(R) \cup Divided(S)) = Worth(R) + Worth(S)
  BY <1>1, <1>2, WorthTogether
<1> DEFINE A == Observed(R) \cup Divided(S)
<1>4. Priced(A) /\ Worth(A) = Worth(R) + Worth(S) /\ A \cap Payments(T) = {}
  BY <1>2, <1>3
<1> HIDE DEF A
<1>5. Worth(A \cup Payments(T)) = Worth(R) + Worth(S) + Worth(T)
  BY <1>1, <1>4, WorthTogether, SMTT(30)
<1> QED
  BY <1>5 DEF A

Debited(a) == {r \in income : IncomePosting(r).debit = a}
Taken(a) == {e \in manifest : DebitOf(e) = a}

LEMMA DebitsAre ==
    ASSUME IncomeRight, JournalRight, Priced(manifest), NEW a, NEW T \in SUBSET manifest,
           T = {e \in PaidOut : <<"payable", e>> = a}
    PROVE  Debits(a) = Worth(Debited(a)) + Worth(Taken(a)) + Worth(T)
<1>1. {p \in journal : p.debit = a} = Observed(Debited(a)) \cup Divided(Taken(a)) \cup Payments(T)
  <2>1. {p \in Observed(income) : p.debit = a} = Observed(Debited(a))
    BY DEF Observed, Debited
  <2>2. {p \in Divided(manifest) : p.debit = a} = Divided(Taken(a))
    BY DEF Divided, Taken, ManifestPosting, Posting
  <2>3. {p \in Payments(PaidOut) : p.debit = a} = Payments(T)
    BY DEF Payments, PaymentPosting, Posting
  <2> QED
    BY <2>1, <2>2, <2>3 DEF JournalRight
<1>2. Debited(a) \in SUBSET income /\ Priced(Taken(a)) /\ Priced(T)
  BY WorthOfSubset DEF Debited, Taken
<1> QED
  BY <1>1, <1>2, WorthOfPostings DEF Debits

LEMMA CreditsAre ==
    ASSUME IncomeRight, JournalRight, Priced(manifest), NEW a, a # <<"payments">>,
           NEW R, R = {r \in income : <<"pool", r.kind>> = a},
           NEW S, S = {e \in manifest : <<"payable", e>> = a}
    PROVE  Credits(a) = Worth(R) + Worth(S)
<1>1. {p \in journal : p.credit = a} = Observed(R) \cup Divided(S) \cup Payments({})
  <2>1. {p \in Observed(income) : p.credit = a} = Observed(R)
    BY DEF Observed, IncomePosting, Posting
  <2>2. {p \in Divided(manifest) : p.credit = a} = Divided(S)
    BY DEF Divided, ManifestPosting, Posting
  <2>3. {p \in Payments(PaidOut) : p.credit = a} = Payments({})
    BY DEF Payments, PaymentPosting, Posting
  <2> QED
    BY <2>1, <2>2, <2>3 DEF JournalRight
<1>2. R \in SUBSET income /\ Priced(R) /\ Priced(S) /\ Priced({}) /\ Worth({}) = 0
  BY WorthOfSubset, WorthOfNone, IncomePriced
<1>3. Credits(a) = Worth(R) + Worth(S) + Worth({})
  BY <1>1, <1>2, WorthOfPostings DEF Credits
<1> QED
  BY <1>2, <1>3, WorthType

\* No account has the name of another.
LEMMA AccountsDiffer ==
    /\ \A x : <<"payable", x>> # <<"budget">> /\ <<"payable", x>> # <<"fee">>
             /\ <<"payable", x>> # <<"payments">>
             /\ <<"deposit", x>> # <<"budget">> /\ <<"deposit", x>> # <<"fee">>
             /\ <<"pool", x>> # <<"budget">> /\ <<"pool", x>> # <<"fee">> /\ <<"pool", x>> # <<"payments">>
    /\ \A x, y : /\ <<"payable", x>> # <<"deposit", y>> /\ <<"payable", x>> # <<"pool", y>>
                 /\ <<"deposit", x>> # <<"pool", y>>
                 /\ <<"deposit", x>> = <<"deposit", y>> => x = y
                 /\ <<"pool", x>> = <<"pool", y>> => x = y
                 /\ <<"payable", x>> = <<"payable", y>> => x = y
    /\ <<"assets">> # <<"budget">> /\ <<"assets">> # <<"fee">>
    /\ \A x : <<"assets">> # <<"deposit", x>> /\ <<"assets">> # <<"pool", x>> /\ <<"assets">> # <<"payable", x>>
    /\ <<"budget">> # <<"fee">>
OBVIOUS

Drawn == IncomeRight /\ JournalRight /\ manifest = Entries

LEMMA ManifestPriced ==
    ASSUME Drawn
    PROVE  /\ IncomeRight /\ JournalRight /\ Priced(manifest) /\ Worth({}) = 0
           /\ manifest = {e \in AllEntries : e.amount > 0}
           /\ \A S \in SUBSET manifest : Priced(S) /\ Worth(S) \in Nat
           /\ \A R \in SUBSET income : Priced(R) /\ Worth(R) \in Nat
BY EntriesAdd, KindsOfEntries, WorthOfSubset, WorthType, WorthOfNone, IncomePriced DEF Drawn

\* Of some of the entries, those of an amount are worth what all are.
LEMMA ManifestPart ==
    ASSUME Drawn, NEW S \in SUBSET AllEntries, Priced(S), NEW P,
           P = {e \in manifest : e \in S}
    PROVE  Worth(P) = Worth(S)
<1>1. P = {e \in S : e.amount > 0}
  BY ManifestPriced
<1> QED
  BY <1>1, WorthOfPositive

LEMMA BudgetCloses ==
    ASSUME Drawn
    PROVE  Debits(<<"budget">>) = Budget
<1> DEFINE a == <<"budget">>  S == NodeEntries \cup {RefundEntry}
<1>1. Debited(a) = {}
  BY AccountsDiffer DEF Debited, IncomePosting, Posting
<1>2. {} = {e \in PaidOut : <<"payable", e>> = a}
  BY AccountsDiffer
<1>3. Taken(a) = {e \in manifest : e \in S}
  BY ManifestPriced, KindsOfEntries, AccountsDiffer DEF Taken, DebitOf, AllEntries
<1>4. S \in SUBSET AllEntries /\ Priced(S) /\ Worth(S) = Budget
  BY ManifestPriced, BudgetWorth DEF AllEntries
<1> HIDE DEF a, S
<1>5. Worth(Taken(a)) = Budget
  BY <1>3, <1>4, ManifestPart
<1>6. Debits(a) = Worth(Debited(a)) + Worth(Taken(a)) + Worth({})
  BY <1>2, ManifestPriced, DebitsAre
<1>7. Worth({}) = 0 /\ Budget \in Nat
  BY WorthOfNone, LedgerConstants
<1>8. Debits(a) = 0 + Budget + 0
  BY <1>1, <1>5, <1>6, <1>7
<1>9. Debits(a) = Budget
  BY <1>7, <1>8
<1> QED
  BY <1>9 DEF a

LEMMA FeeCloses ==
    ASSUME Drawn
    PROVE  Debits(<<"fee">>) = Fee
<1> DEFINE a == <<"fee">>  S == {FeeEntry}
<1>1. Debited(a) = {}
  BY AccountsDiffer DEF Debited, IncomePosting, Posting
<1>2. {} = {e \in PaidOut : <<"payable", e>> = a}
  BY AccountsDiffer
<1>3. Taken(a) = {e \in manifest : e \in S}
  BY ManifestPriced, KindsOfEntries, AccountsDiffer DEF Taken, DebitOf, AllEntries
<1>4. S \in SUBSET AllEntries /\ Priced(S) /\ Worth(S) = Fee
  BY ManifestPriced, FeeWorth DEF AllEntries
<1> HIDE DEF a, S
<1>5. Worth(Taken(a)) = Fee
  BY <1>3, <1>4, ManifestPart
<1>6. Debits(a) = Worth(Debited(a)) + Worth(Taken(a)) + Worth({})
  BY <1>2, ManifestPriced, DebitsAre
<1>7. Worth({}) = 0 /\ Fee \in Nat
  BY WorthOfNone, LedgerConstants
<1>8. Debits(a) = 0 + Fee + 0
  BY <1>1, <1>5, <1>6, <1>7
<1>9. Debits(a) = Fee
  BY <1>7, <1>8
<1> QED
  BY <1>9 DEF a

LEMMA DepositCloses ==
    ASSUME Drawn, NEW w \in Participants
    PROVE  Debits(<<"deposit", w>>) = Deposit[w]
<1> DEFINE a == <<"deposit", w>>  S == {Returned(w)}
<1>1. Debited(a) = {r \in Penalties(income) : r.from = w}
  BY AccountsDiffer DEF Debited, IncomePosting, Posting, Penalties
<1>2. {} = {e \in PaidOut : <<"payable", e>> = a}
  BY AccountsDiffer
<1>3. Taken(a) = {e \in manifest : e \in S}
  <2>1. \A u \in Participants : Returned(u).of = u
    BY DEF Returned, Entry
  <2>2. \A e \in AllEntries : DebitOf(e) = a <=> e \in S
    BY <2>1, ManifestPriced, KindsOfEntries, AccountsDiffer DEF DebitOf, AllEntries, Returns
  <2> QED
    BY <2>2, ManifestPriced DEF Taken
<1>4. S \in SUBSET AllEntries /\ Priced(S) /\ Worth(S) = Deposit[w] - ForfeitedBy(income, w)
  <2>1. Returned(w).amount = Deposit[w] - ForfeitedBy(income, w)
    BY DEF Returned, Entry
  <2>2. Returned(w).amount \in Nat
    BY <2>1, ForfeitedBounds, ManifestPriced
  <2> QED
    BY <2>1, <2>2, WorthOfOne DEF AllEntries, Returns
<1> HIDE DEF a, S
<1>5. Worth(Taken(a)) = Deposit[w] - ForfeitedBy(income, w)
  BY <1>3, <1>4, ManifestPart
<1>6. Debits(a) = Worth(Debited(a)) + Worth(Taken(a)) + Worth({})
  BY <1>2, ManifestPriced, DebitsAre
<1>7. Worth(Debited(a)) = ForfeitedBy(income, w)
  BY <1>1 DEF ForfeitedBy
<1> QED
  BY <1>5, <1>6, <1>7, ManifestPriced, ForfeitedBounds DEF a

LEMMA PoolCloses ==
    ASSUME Drawn, NEW kind \in {"yield", "penalty"}
    PROVE  Debits(<<"pool", kind>>) = Credits(<<"pool", kind>>)
<1> DEFINE a == <<"pool", kind>>  R == {r \in income : r.kind = kind}  S == IncomeEntries(R)
<1>1. Debited(a) = {}
  BY AccountsDiffer DEF Debited, IncomePosting, Posting
<1>2. {} = {e \in PaidOut : <<"payable", e>> = a} /\ {} = {e \in manifest : <<"payable", e>> = a}
  BY AccountsDiffer
<1>3. Taken(a) = {e \in manifest : e \in S}
  <2>1. \A r \in income : IncomeEntry(r).kind = r.kind
    BY DEF IncomeEntry, Entry
  <2>2. \A e \in AllEntries : DebitOf(e) = a <=> e \in S
    BY <2>1, ManifestPriced, KindsOfEntries, AccountsDiffer DEF DebitOf, AllEntries, IncomeEntries
  <2> QED
    BY <2>2, ManifestPriced DEF Taken
<1>4. S \in SUBSET AllEntries /\ R \in SUBSET income
  BY DEF AllEntries, IncomeEntries
<1>5. R = {r \in income : <<"pool", r.kind>> = a} /\ a # <<"payments">>
  BY AccountsDiffer
<1> HIDE DEF a, R
<1>6. Priced(S) /\ Worth(S) = Worth(R)
  BY <1>4, ManifestPriced, IncomesWorth
<1> HIDE DEF S
<1>7. Worth(Taken(a)) = Worth(R)
  BY <1>3, <1>4, <1>6, ManifestPart
<1>8. Debits(a) = Worth(Debited(a)) + Worth(Taken(a)) + Worth({})
  BY <1>2, ManifestPriced, DebitsAre
<1>9. Credits(a) = Worth(R) + Worth({})
  BY <1>2, <1>5, ManifestPriced, CreditsAre
<1>10. Worth({}) = 0 /\ Worth(R) \in Nat
  BY <1>4, WorthOfNone, ManifestPriced
<1>11. Debits(a) = 0 + Worth(R) + 0 /\ Credits(a) = Worth(R) + 0
  BY <1>1, <1>7, <1>8, <1>9, <1>10
<1>12. Debits(a) = Credits(a)
  BY <1>10, <1>11
<1> QED
  BY <1>12 DEF a

LEMMA PayableCloses ==
    ASSUME Drawn, NEW e \in manifest
    PROVE  /\ Credits(<<"payable", e>>) = e.amount
           /\ Debits(<<"payable", e>>) \in {0, e.amount}
<1> DEFINE a == <<"payable", e>>  T == {f \in PaidOut : <<"payable", f>> = a}
<1>1. Debited(a) = {} /\ {} = {r \in income : <<"pool", r.kind>> = a} /\ a # <<"payments">>
  BY AccountsDiffer DEF Debited, IncomePosting, Posting
<1>2. Taken(a) = {}
  BY AccountsDiffer DEF Taken, DebitOf
<1>3. {e} = {f \in manifest : <<"payable", f>> = a} /\ T \in {{}, {e}} /\ T \in SUBSET manifest
  BY AccountsDiffer DEF PaidOut
<1>4. e.amount \in Nat
  BY ManifestPriced DEF Priced
<1>5. Worth({e}) = e.amount
  BY <1>4, WorthOfOne
<1>6. T = {f \in PaidOut : <<"payable", f>> = a}
  OBVIOUS
<1> HIDE DEF a, T
<1>7. Credits(a) = Worth({}) + Worth({e})
  BY <1>1, <1>3, ManifestPriced, CreditsAre
<1>8. Debits(a) = Worth({}) + Worth({}) + Worth(T)
  <2>1. Debits(a) = Worth(Debited(a)) + Worth(Taken(a)) + Worth(T)
    BY <1>3, <1>6, ManifestPriced, DebitsAre
  <2> QED
    BY <1>1, <1>2, <2>1
<1>9. Worth({}) = 0 /\ Worth(T) \in {0, e.amount}
  BY <1>3, <1>5, WorthOfNone
<1>10. Credits(a) = 0 + e.amount /\ Debits(a) = 0 + 0 + Worth(T)
  BY <1>5, <1>7, <1>8, <1>9
<1>11. Credits(a) = e.amount /\ Debits(a) \in {0, e.amount}
  BY <1>4, <1>9, <1>10
<1> QED
  BY <1>11 DEF a

LEMMA AccountsDoClose == Drawn => AccountsClose
BY BudgetCloses, FeeCloses, DepositCloses, PoolCloses, PayableCloses DEF AccountsClose

-----------------------------------------------------------------------------
(* The inductive invariant: what was observed is recorded under its own    *)
(* identifier, the manifest is the one that the children and the income    *)
(* still give, and the journal holds the postings of these and no others.  *)

LedgerKinds ==
    /\ source \in {Lifecycle[i] : i \in 1..9} /\ faithful \in BOOLEAN
    /\ children \in [Children -> {"none", "assigned", "submitted", "accepted", "cancelled"}]
    /\ resolution \in Resolutions /\ DOMAIN paid = manifest /\ DOMAIN receipts = Identifiers

IncomeRecorded ==
    /\ income \subseteq Offered /\ Covered(income)
    /\ \A r \in income : Authorised(r) /\ receipts[r.id] = <<"income", r>>

ManifestRests ==
    manifest # {} =>
        /\ Created /\ manifest = Entries
        /\ Penalties(income) # {} => resolution # NoResolution /\ Settles(resolution)

ClaimsRight ==
    /\ \A e \in manifest :
         /\ paid[e] \in {"unclaimed", "pending_external"} \cup PayoutIds
         /\ paid[e] \in PayoutIds => receipts[paid[e]] = <<"payout", e>>
    /\ \A i \in TakenElsewhere \cap Identifiers : receipts[i] = <<"another order's">>

LedgerIInv == LedgerKinds /\ IncomeRecorded /\ ManifestRests /\ JournalRight /\ ClaimsRight

\* What is recorded under an identifier tells what it is.
LEMMA RecordsDiffer ==
    /\ \A x : <<"income", x>> # Unused /\ <<"payout", x>> # Unused /\ <<"another order's">> # Unused
    /\ \A x, y : <<"income", x>> # <<"payout", y>> /\ <<"payout", y>> # <<"another order's">>
    /\ \A x, y : <<"income", x>> = <<"income", y>> => x = y
    /\ \A x, y : <<"payout", x>> = <<"payout", y>> => x = y
BY DEF Unused

LEMMA RecordedIsRight == IncomeRecorded => IncomeRight
<1> SUFFICES ASSUME IncomeRecorded PROVE IncomeRight
  OBVIOUS
<1>1. ASSUME NEW r \in income, NEW x \in income, r.id = x.id PROVE r = x
  <2>1. receipts[r.id] = <<"income", r>> /\ receipts[x.id] = <<"income", x>>
    BY DEF IncomeRecorded
  <2>2. <<"income", r>> = <<"income", x>>
    BY <1>1, <2>1
  <2> QED
    BY <2>2, RecordsDiffer
<1> QED
  BY <1>1 DEF IncomeRecorded, IncomeRight

\* Entries follow from the children and the income alone.
LEMMA EntriesStay == children' = children /\ income' = income => Entries' = Entries
BY DEF Entries, Accepted, Refund, NodesEarn

LEMMA FrameKeeps ==
    ASSUME LedgerIInv, LedgerKinds', children' = children \/ manifest = {},
           UNCHANGED <<income, manifest, resolution, paid, receipts, journal>>
    PROVE  LedgerIInv'
<1>1. IncomeRecorded' /\ ClaimsRight'
  BY DEF LedgerIInv, IncomeRecorded, ClaimsRight
<1>2. PaidOut' = PaidOut
  BY DEF PaidOut
<1>3. JournalRight'
  BY <1>2 DEF LedgerIInv, JournalRight
<1>4. ManifestRests'
  <2>1. CASE manifest = {}
    BY <2>1 DEF ManifestRests
  <2>2. CASE children' = children /\ manifest # {}
    BY <2>2, EntriesStay DEF LedgerIInv, ManifestRests, Created, Settles
  <2> QED
    BY <2>1, <2>2
<1> QED
  BY <1>1, <1>3, <1>4 DEF LedgerIInv

LEMMA SourceAdvancesKeeps == LedgerIInv /\ SourceAdvances => LedgerIInv'
<1> SUFFICES ASSUME LedgerIInv, SourceAdvances PROVE LedgerIInv'
  OBVIOUS
<1>1. PICK i \in 1..8 : Lifecycle[i] = source /\ source' = Lifecycle[i + 1]
  BY DEF SourceAdvances
<1>2. i + 1 \in 1..9
  OBVIOUS
<1>3. source' \in {Lifecycle[j] : j \in 1..9}
  BY <1>1, <1>2
<1>4. LedgerKinds'
  BY <1>3 DEF LedgerIInv, LedgerKinds, SourceAdvances
<1> QED
  BY <1>4, FrameKeeps DEF SourceAdvances

LEMMA SourceDivergesKeeps == LedgerIInv /\ SourceDiverges => LedgerIInv'
<1> SUFFICES ASSUME LedgerIInv, SourceDiverges PROVE LedgerIInv'
  OBVIOUS
<1>1. LedgerKinds'
  BY DEF LedgerIInv, LedgerKinds, SourceDiverges
<1> QED
  BY <1>1, FrameKeeps DEF SourceDiverges

LEMMA CreateKeeps == LedgerIInv /\ Create => LedgerIInv'
<1> SUFFICES ASSUME LedgerIInv, Create PROVE LedgerIInv'
  OBVIOUS
<1>1. LedgerKinds'
  BY DEF LedgerIInv, LedgerKinds, Create
<1>2. manifest = {}
  BY DEF LedgerIInv, ManifestRests, Create
<1> QED
  BY <1>1, <1>2, FrameKeeps DEF Create

LEMMA MoveChildKeeps ==
    ASSUME NEW c \in Children, NEW from, NEW to \in {"submitted", "accepted", "cancelled"}
    PROVE  LedgerIInv /\ MoveChild(c, from, to) => LedgerIInv'
<1> SUFFICES ASSUME LedgerIInv, MoveChild(c, from, to) PROVE LedgerIInv'
  OBVIOUS
<1>1. LedgerKinds'
  BY DEF LedgerIInv, LedgerKinds, MoveChild
<1> QED
  BY <1>1, FrameKeeps DEF MoveChild

LEMMA ObserveIncomeKeeps ==
    ASSUME NEW batch \in SUBSET Offered
    PROVE  LedgerIInv /\ ObserveIncome(batch) => LedgerIInv'
<1> SUFFICES ASSUME LedgerIInv, ObserveIncome(batch) PROVE LedgerIInv'
  OBVIOUS
<1> DEFINE new == {r \in batch : receipts[r.id] = Unused}
<1>1. /\ manifest = {} /\ \A r \in batch : Authorised(r)
      /\ \A r, x \in batch : r.id = x.id => r = x
      /\ Covered(income \cup new) /\ income' = income \cup new
      /\ receipts' = [i \in Identifiers |->
                        IF \E r \in new : r.id = i
                        THEN <<"income", CHOOSE r \in new : r.id = i>> ELSE receipts[i]]
      /\ Posts({IncomePosting(r) : r \in new})
      /\ UNCHANGED <<source, faithful, children, manifest, resolution, paid>>
  BY DEF ObserveIncome
<1>2. new \subseteq batch /\ new \subseteq Offered /\ \A r \in new : receipts[r.id] = Unused
  OBVIOUS
<1> HIDE DEF new
<1>3. \A r \in Offered : r.id \in Identifiers
  BY DEF Identifiers
<1>4. LedgerKinds'
  BY <1>1 DEF LedgerIInv, LedgerKinds
<1>5. ASSUME NEW i \in Identifiers, receipts[i] # Unused PROVE receipts'[i] = receipts[i]
  BY <1>1, <1>2, <1>5
<1>6. ASSUME NEW r \in new PROVE receipts'[r.id] = <<"income", r>>
  <2>1. (CHOOSE x \in new : x.id = r.id) = r
    BY <1>1, <1>2
  <2> QED
    BY <1>1, <1>2, <1>3, <2>1
<1>7. IncomeRecorded'
  <2>1. ASSUME NEW r \in income PROVE Authorised(r) /\ receipts'[r.id] = <<"income", r>>
    BY <1>3, <1>5, RecordsDiffer DEF LedgerIInv, IncomeRecorded
  <2>2. Covered(income') /\ income' \subseteq Offered
    BY <1>1, <1>2 DEF LedgerIInv, IncomeRecorded
  <2>3. \A r \in income' : Authorised(r) /\ receipts'[r.id] = <<"income", r>>
    BY <1>1, <1>2, <1>6, <2>1
  <2>4. Covered(income)'
    BY <2>2 DEF Covered, ForfeitedBy, Penalties
  <2> QED
    BY <2>2, <2>3, <2>4 DEF IncomeRecorded, Authorised
<1>8. ClaimsRight'
  BY <1>1, <1>5, RecordsDiffer DEF LedgerIInv, ClaimsRight
<1>9. JournalRight'
  <2>1. \A r \in new : IncomePosting(r).amount > 0
    BY <1>2, LedgerConstants DEF IncomePosting, Posting
  <2>2. journal' = journal \cup Observed(new)
    BY <1>1, <2>1 DEF Posts, Observed
  <2>3. PaidOut' = PaidOut
    BY <1>1 DEF PaidOut
  <2>4. Observed(income') = Observed(income) \cup Observed(new)
    BY <1>1 DEF Observed
  <2> QED
    BY <1>1, <2>2, <2>3, <2>4 DEF LedgerIInv, JournalRight
<1>10. ManifestRests'
  BY <1>1 DEF ManifestRests
<1> QED
  BY <1>4, <1>7, <1>8, <1>9, <1>10 DEF LedgerIInv

LEMMA DrawManifestKeeps ==
    ASSUME NEW d \in Resolutions
    PROVE  LedgerIInv /\ DrawManifest(d) => LedgerIInv'
<1> SUFFICES ASSUME LedgerIInv, DrawManifest(d) PROVE LedgerIInv'
  OBVIOUS
<1>1. /\ Created /\ manifest = {} /\ manifest' = Entries /\ resolution' = d
      /\ IF NeedsResolution THEN d # NoResolution /\ Settles(d) ELSE d = NoResolution
      /\ paid' = [e \in Entries |-> "unclaimed"] /\ Posts({ManifestPosting(e) : e \in Entries})
      /\ UNCHANGED <<source, faithful, children, income, receipts>>
  BY DEF DrawManifest, Working, Bound
<1>2. LedgerKinds'
  BY <1>1 DEF LedgerIInv, LedgerKinds
<1>3. IncomeRecorded'
  BY <1>1 DEF LedgerIInv, IncomeRecorded
<1>4. ManifestRests'
  <2>1. Created' /\ manifest' = Entries'
    BY <1>1, EntriesStay DEF Created
  <2>2. Penalties(income) # {} => d # NoResolution /\ Settles(d)
    BY <1>1 DEF NeedsResolution
  <2>3. (Penalties(income) # {} => resolution # NoResolution /\ Settles(resolution))'
    BY <1>1, <2>2 DEF Settles
  <2> QED
    BY <2>1, <2>3 DEF ManifestRests
<1>5. ClaimsRight'
  BY <1>1, LedgerConstants DEF LedgerIInv, ClaimsRight
<1>6. JournalRight'
  <2>1. \A e \in Entries : ManifestPosting(e).amount > 0
    BY DEF Entries, ManifestPosting, Posting
  <2>2. journal' = journal \cup Divided(Entries)
    BY <1>1, <2>1 DEF Posts, Divided
  <2>3. PaidOut' = {} /\ PaidOut = {}
    BY <1>1, LedgerConstants DEF PaidOut
  <2>4. Divided({}) = {} /\ Observed(income') = Observed(income) /\ Divided(manifest') = Divided(Entries)
    BY <1>1 DEF Divided
  <2> QED
    BY <1>1, <2>2, <2>3, <2>4 DEF LedgerIInv, JournalRight
<1> QED
  BY <1>2, <1>3, <1>4, <1>5, <1>6 DEF LedgerIInv

LEMMA EntryClaimKeeps ==
    ASSUME NEW e \in manifest
    PROVE  LedgerIInv /\ Claim(e) => LedgerIInv'
<1> SUFFICES ASSUME LedgerIInv, Claim(e) PROVE LedgerIInv'
  OBVIOUS
<1>1. /\ paid[e] = "unclaimed" /\ paid' = [paid EXCEPT ![e] = "pending_external"]
      /\ UNCHANGED <<source, faithful, children, income, manifest, resolution, receipts, journal>>
  BY DEF Claim
<1>2. LedgerKinds' /\ IncomeRecorded'
  BY <1>1 DEF LedgerIInv, LedgerKinds, IncomeRecorded
<1>3. ManifestRests'
  BY <1>1, EntriesStay DEF LedgerIInv, ManifestRests, Created, Settles
<1>4. /\ paid'[e] = "pending_external" /\ \A f \in manifest : f # e => paid'[f] = paid[f]
  BY <1>1 DEF LedgerIInv, LedgerKinds
<1>5. ClaimsRight'
  BY <1>1, <1>4, LedgerConstants DEF LedgerIInv, ClaimsRight
<1>6. PaidOut' = PaidOut
  BY <1>1, <1>4, LedgerConstants DEF PaidOut
<1>7. JournalRight'
  BY <1>1, <1>6 DEF LedgerIInv, JournalRight
<1> QED
  BY <1>2, <1>3, <1>5, <1>7 DEF LedgerIInv

LEMMA ReconcileKeeps ==
    ASSUME NEW e \in manifest, NEW i \in PayoutIds
    PROVE  LedgerIInv /\ Reconcile(e, i) => LedgerIInv'
<1> SUFFICES ASSUME LedgerIInv, Reconcile(e, i) PROVE LedgerIInv'
  OBVIOUS
<1>1. /\ paid[e] = "pending_external" /\ receipts[i] = Unused
      /\ receipts' = [receipts EXCEPT ![i] = <<"payout", e>>] /\ paid' = [paid EXCEPT ![e] = i]
      /\ Posts({PaymentPosting(e)})
      /\ UNCHANGED <<source, faithful, children, income, manifest, resolution>>
  BY DEF Reconcile, Fresh
<1>2. LedgerKinds'
  BY <1>1 DEF LedgerIInv, LedgerKinds
<1>3. i \in Identifiers /\ \A r \in Offered : r.id \in Identifiers
  BY DEF Identifiers
<1>4. /\ receipts'[i] = <<"payout", e>>
      /\ \A j \in Identifiers : receipts[j] # Unused => receipts'[j] = receipts[j]
  BY <1>1, <1>3 DEF LedgerIInv, LedgerKinds
<1>5. IncomeRecorded'
  BY <1>1, <1>3, <1>4, RecordsDiffer, ZenonT(40) DEF LedgerIInv, IncomeRecorded
<1>6. ManifestRests'
  BY <1>1, EntriesStay DEF LedgerIInv, ManifestRests, Created, Settles
<1>7. paid'[e] = i /\ \A f \in manifest : f # e => paid'[f] = paid[f]
  BY <1>1 DEF LedgerIInv, LedgerKinds
<1>8. ClaimsRight'
  <2>1. PayoutIds \subseteq Identifiers
    BY DEF Identifiers
  <2>2. ASSUME NEW f \in manifest
        PROVE  /\ paid'[f] \in {"unclaimed", "pending_external"} \cup PayoutIds
               /\ paid'[f] \in PayoutIds => receipts'[paid'[f]] = <<"payout", f>>
    <3>1. CASE f = e
      BY <1>4, <1>7, <3>1
    <3>2. CASE f # e
      <4>1. paid'[f] = paid[f] /\ paid[f] \in {"unclaimed", "pending_external"} \cup PayoutIds
        BY <1>7, <3>2 DEF LedgerIInv, ClaimsRight
      <4>2. ASSUME paid[f] \in PayoutIds PROVE receipts'[paid[f]] = <<"payout", f>>
        <5>1. receipts[paid[f]] = <<"payout", f>> /\ paid[f] \in Identifiers
          BY <2>1, <4>2 DEF LedgerIInv, ClaimsRight
        <5>2. receipts[paid[f]] # Unused
          BY <5>1, RecordsDiffer
        <5> QED
          BY <1>4, <5>1, <5>2
      <4> QED
        BY <4>1, <4>2
    <3> QED
      BY <3>1, <3>2
  <2>3. ASSUME NEW j \in TakenElsewhere \cap Identifiers
        PROVE  receipts'[j] = <<"another order's">>
    <3>1. receipts[j] = <<"another order's">>
      BY DEF LedgerIInv, ClaimsRight
    <3>2. receipts[j] # Unused
      BY <3>1, RecordsDiffer
    <3> QED
      BY <1>4, <3>1, <3>2
  <2>4. manifest' = manifest
    BY <1>1
  <2> QED
    BY <2>2, <2>3, <2>4 DEF ClaimsRight
<1>9. PaidOut' = PaidOut \cup {e}
  BY <1>1, <1>7 DEF PaidOut
<1>10. JournalRight'
  <2>1. manifest = Entries
    BY DEF LedgerIInv, ManifestRests
  <2>2. e.amount > 0
    BY <2>1 DEF Entries
  <2>3. PaymentPosting(e).amount > 0
    BY <2>2 DEF PaymentPosting, Posting
  <2>4. journal' = journal \cup {PaymentPosting(e)}
    BY <1>1, <2>3 DEF Posts
  <2>5. Payments(PaidOut \cup {e}) = Payments(PaidOut) \cup {PaymentPosting(e)}
    BY DEF Payments
  <2> QED
    BY <1>1, <1>9, <2>4, <2>5 DEF LedgerIInv, JournalRight
<1> QED
  BY <1>2, <1>5, <1>6, <1>8, <1>10 DEF LedgerIInv

-----------------------------------------------------------------------------
LEMMA LedgerStarts == LedgerInit => LedgerIInv
<1> SUFFICES ASSUME LedgerInit PROVE LedgerIInv
  OBVIOUS
<1>1. LedgerKinds
  <2>1. source \in {Lifecycle[i] : i \in 1..9}
    <3>1. /\ Lifecycle[1] = "open" /\ Lifecycle[3] = "funded" /\ Lifecycle[4] = "matching"
          /\ Lifecycle[5] = "assigned" /\ Lifecycle[6] = "in_progress"
      BY DEF Lifecycle
    <3>2. source \in {"open", "funded", "matching", "assigned", "in_progress"}
      BY DEF LedgerInit, Creatable
    <3> QED
      BY <3>1, <3>2
  <2>2. DOMAIN paid = {}
    <3>1. paid = << >>
      BY DEF LedgerInit
    <3> QED
      BY <3>1
  <2> QED
    BY <2>1, <2>2 DEF LedgerInit, LedgerKinds, Resolutions
<1>2. Covered(income)
  <2>1. \A w \in Participants : {r \in Penalties(income) : r.from = w} = {}
    BY DEF LedgerInit, Penalties
  <2>2. \A w \in Participants : ForfeitedBy(income, w) = 0 /\ Deposit[w] \in Nat
    BY <2>1, WorthOfNone, LedgerConstants DEF ForfeitedBy
  <2> QED
    BY <2>2 DEF Covered
<1>3. IncomeRecorded /\ ManifestRests /\ ClaimsRight
  BY <1>2 DEF LedgerInit, IncomeRecorded, ManifestRests, ClaimsRight
<1>4. JournalRight
  BY DEF LedgerInit, JournalRight, Observed, Divided, Payments, PaidOut
<1> QED
  BY <1>1, <1>3, <1>4 DEF LedgerIInv

LEMMA LedgerStays == LedgerIInv /\ [LedgerNext]_ledgerVars => LedgerIInv'
<1> SUFFICES ASSUME LedgerIInv, [LedgerNext]_ledgerVars PROVE LedgerIInv'
  OBVIOUS
<1>1. CASE UNCHANGED ledgerVars
  <2>1. LedgerKinds'
    BY <1>1 DEF LedgerIInv, LedgerKinds, ledgerVars
  <2> QED
    BY <1>1, <2>1, FrameKeeps DEF ledgerVars
<1>2. ASSUME NEW c \in Children, Submit(c) \/ Accept(c) \/ Cancel(c) PROVE LedgerIInv'
  BY <1>2, MoveChildKeeps DEF Submit, Accept, Cancel
<1>3. ASSUME NEW batch \in SUBSET Offered, ObserveIncome(batch) PROVE LedgerIInv'
  BY <1>3, ObserveIncomeKeeps
<1>4. ASSUME NEW d \in Resolutions, DrawManifest(d) PROVE LedgerIInv'
  BY <1>4, DrawManifestKeeps
<1>5. ASSUME NEW e \in manifest, Claim(e) \/ \E i \in PayoutIds : Reconcile(e, i) PROVE LedgerIInv'
  BY <1>5, EntryClaimKeeps, ReconcileKeeps
<1> QED
  BY <1>1, <1>2, <1>3, <1>4, <1>5, SourceAdvancesKeeps, SourceDivergesKeeps, CreateKeeps DEF LedgerNext

LEMMA LedgerDoesSettle == LedgerIInv => LedgerSettles
<1> SUFFICES ASSUME LedgerIInv PROVE LedgerSettles
  OBVIOUS
<1>0. IncomeRight
  BY RecordedIsRight DEF LedgerIInv
<1>1. \A e \in manifest : e.amount \in Nat \ {0}
  <2>1. \A e \in Entries : e.amount \in Nat /\ e.amount > 0
    BY <1>0, EntriesAdd, KindsOfEntries DEF Priced
  <2> QED
    BY <2>1 DEF LedgerIInv, ManifestRests
<1>2. LedgerTypeOK
  <2>1. \A r \in income : IncomePosting(r).amount \in Nat \ {0}
    BY <1>0, IncomePriced DEF IncomePosting, Posting
  <2>2. \A e \in manifest : /\ ManifestPosting(e).amount \in Nat \ {0}
                           /\ PaymentPosting(e).amount \in Nat \ {0}
    BY <1>1 DEF ManifestPosting, PaymentPosting, Posting
  <2>3. \A p \in journal : p.amount \in Nat \ {0}
    BY <2>1, <2>2 DEF LedgerIInv, JournalRight, Observed, Divided, Payments, PaidOut
  <2> QED
    BY <1>0, <1>1, <2>3 DEF LedgerTypeOK, LedgerIInv, LedgerKinds, IncomeRight
<1>3. AccountsClose
  <2>1. CASE manifest = {}
    BY <2>1 DEF AccountsClose
  <2>2. CASE manifest # {}
    BY <1>0, <2>2, AccountsDoClose DEF Drawn, LedgerIInv, ManifestRests
  <2> QED
    BY <2>1, <2>2
<1>4. ManifestAlwaysAdds
  BY <1>0, EntriesAdd DEF ManifestAlwaysAdds
<1>5. OneTransferPerClaim
  <2> SUFFICES ASSUME NEW e \in manifest, NEW f \in manifest, paid[e] \in PayoutIds
               PROVE  /\ receipts[paid[e]] = <<"payout", e>> /\ paid[e] \notin TakenElsewhere
                      /\ (paid[e] = paid[f] => e = f)
    BY DEF OneTransferPerClaim
  <2>1. receipts[paid[e]] = <<"payout", e>> /\ paid[e] \in Identifiers
    BY DEF LedgerIInv, ClaimsRight, Identifiers
  <2>2. paid[e] \notin TakenElsewhere
    BY <2>1, RecordsDiffer DEF LedgerIInv, ClaimsRight
  <2>3. paid[e] = paid[f] => receipts[paid[e]] = <<"payout", f>>
    BY DEF LedgerIInv, ClaimsRight
  <2> QED
    BY <2>1, <2>2, <2>3, RecordsDiffer
<1>6. PenaltiesAreDecided
  <2> SUFFICES ASSUME NEW e \in manifest, e.kind = "penalty"
               PROVE  /\ resolution.outcome = "responsibility"
                      /\ \E r \in income : r.id = e.of /\ r.decision = resolution.decision
    BY DEF PenaltiesAreDecided
  <2>1. e \in Entries
    BY DEF LedgerIInv, ManifestRests
  <2>2. PICK r \in income : e = IncomeEntry(r)
    BY <1>0, <2>1, KindsOfEntries DEF AllEntries, IncomeEntries
  <2>3. r.kind = "penalty" /\ e.of = r.id
    BY <2>2 DEF IncomeEntry, Entry
  <2>4. r \in Penalties(income)
    BY <2>3 DEF Penalties
  <2>5. resolution # NoResolution /\ Settles(resolution) /\ resolution \in Resolutions
    BY <2>4 DEF LedgerIInv, LedgerKinds, ManifestRests
  <2> QED
    BY <2>3, <2>4, <2>5 DEF Settles, Resolutions
<1> QED
  BY <1>2, <1>3, <1>4, <1>5, <1>6 DEF LedgerSettles

\* Whatever was cancelled, forfeited or observed, in whatever order and for whatever
\* children, deposits and receipts: a drawn manifest closes every account to the token
\* and can always be drawn, a claim is settled by a transfer of its own, and a
\* penalty leaves a deposit by the decision for it (commercial/service.ts).
THEOREM LedgerCloses == LedgerSpec => []LedgerSettles
<1>1. LedgerSpec => []LedgerIInv
  BY LedgerStarts, LedgerStays, PTL DEF LedgerSpec
<1> QED
  BY <1>1, LedgerDoesSettle, PTL

-----------------------------------------------------------------------------
(* Matching.  Selecting first: a pool that is not empty has a winner, and  *)
(* no two seats are of one model.                                          *)

LEMMA WinnerIsDrawn ==
    ASSUME NEW pool \in SUBSET Agents, pool # {}, NEW word \in Words
    PROVE  Winner(pool, word) \in pool
<1> DEFINE order == Those(ByKey, pool)
<1>1. ByKey \in Seq(Agents) /\ Range(ByKey) = Agents /\ word \in Nat
  BY MatchingConstants
<1>2. PICK i \in 1..Len(ByKey) : ByKey[i] \in pool
  BY <1>1 DEF Range
<1>3. order \in Seq(Agents \cap pool) /\ Len(order) > 0
  BY <1>1, <1>2, ThoseAre
<1> HIDE DEF order
<1>4. Len(order) \in Nat /\ (word % Len(order)) + 1 \in 1..Len(order)
  BY <1>1, <1>3
<1>5. order[(word % Len(order)) + 1] \in pool
  BY <1>3, <1>4
<1> QED
  BY <1>5 DEF Winner, order

LEMMA PoolIsLeft ==
    ASSUME NEW S \in SUBSET Agents
    PROVE  PoolOf(S) \subseteq S /\ (S # {} => PoolOf(S) # {})
<1>1. PoolOf(S) \subseteq S
  BY DEF PoolOf
<1>2. ASSUME S # {} PROVE PoolOf(S) # {}
  <2> DEFINE places == {i \in DOMAIN Ranking : Ranking[i] \in S}
  <2>1. Ranking \in Seq(Agents) /\ Agents = Range(Ranking)
    BY MatchingConstants DEF Agents
  <2>2. places \subseteq Nat /\ places # {}
    BY <1>2, <2>1 DEF Range
  <2>3. PICK m \in places : \A i \in places : m <= i
    BY <2>2, Least
  <2>4. \A i, j \in DOMAIN Ranking : Ranking[i] = Ranking[j] => i = j
    BY MatchingConstants
  <2>5. ASSUME NEW b \in S, Before(Ranking, b, Ranking[m]) PROVE FALSE
    <3>1. PICK i \in DOMAIN Ranking, j \in DOMAIN Ranking : i < j /\ Ranking[i] = b /\ Ranking[j] = Ranking[m]
      BY <2>5 DEF Before
    <3>2. j = m /\ i \in places
      BY <2>4, <3>1
    <3>3. m <= i /\ i < m /\ i \in Nat /\ m \in Nat
      BY <2>1, <2>2, <2>3, <3>1, <3>2
    <3> QED
      BY <3>3
  <2>6. Ranking[m] \in PoolOf(S)
    BY <2>5 DEF PoolOf
  <2> QED
    BY <2>6
<1> QED
  BY <1>1, <1>2

OfOneModel(a, b) == ModelOf[a] = ModelOf[b]
SeatedApart(s) ==
    /\ s \in Seq(Agents) /\ Len(s) <= 3
    /\ \A i, j \in 1..Len(s) : OfOneModel(s[i], s[j]) => i = j

LEMMA SeatedLength == \A s : SeatedApart(s) => s \in Seq(Agents) /\ Len(s) \in Nat /\ Len(s) <= 3
<1> SUFFICES ASSUME NEW s, SeatedApart(s) PROVE s \in Seq(Agents) /\ Len(s) \in Nat /\ Len(s) <= 3
  OBVIOUS
<1>1. s \in Seq(Agents) /\ Len(s) <= 3
  BY DEF SeatedApart
<1>2. Len(s) \in Nat
  BY <1>1
<1> QED
  BY <1>1, <1>2

LEMMA SeatsOneMore ==
    ASSUME NEW seated, SeatedApart(seated), NEW seq \in Seq(Agents), NEW limit \in Nat
    PROVE  SeatedApart(Seat(seated, seq, limit))
<1> DEFINE T == Novel(seated, seq)
           t == Subsequence(seq, T)
           n == Min({limit, 3 - Len(seated)})
           more == Leading(t, n)
<1>1. T \in SUBSET (1..Len(seq))
  BY DEF Novel
<1>2. /\ \A i \in T : \A k \in 1..Len(seated) : ~OfOneModel(seated[k], seq[i])
      /\ \A i, j \in T : OfOneModel(seq[i], seq[j]) => i = j
  <2>1. seated \in Seq(Agents) /\ DOMAIN seated = 1..Len(seated)
    BY DEF SeatedApart
  <2>2. ASSUME NEW i \in T, NEW j \in T, OfOneModel(seq[i], seq[j]) PROVE i = j
    <3>1. i \in DOMAIN seq /\ j \in DOMAIN seq /\ i \in Nat /\ j \in Nat
      BY DEF Novel
    <3>2. i <= j /\ j <= i
      BY <2>2, <3>1 DEF Novel, OfOneModel
    <3> QED
      BY <3>1, <3>2
  <2>3. ASSUME NEW i \in T, NEW k \in 1..Len(seated) PROVE ~OfOneModel(seated[k], seq[i])
    BY <2>1 DEF Novel, OfOneModel
  <2> QED
    BY <2>2, <2>3
<1>3. n \in Nat /\ n <= 3 - Len(seated)
  <2>1. Len(seated) \in Nat /\ Len(seated) <= 3
    BY SeatedLength
  <2> DEFINE left == 3 - Len(seated)
  <2>2. left \in Nat
    BY <2>1
  <2> HIDE DEF left
  <2>3. \E x \in {limit, left} : \A y \in {limit, left} : x <= y
    BY <2>2
  <2>4. Min({limit, left}) \in {limit, left} /\ Min({limit, left}) <= left
    BY <2>3 DEF Min
  <2> QED
    BY <2>2, <2>4 DEF left
<1> HIDE DEF T, n
<1>4. /\ t \in Seq(Agents) /\ Len(t) = Cardinality(T)
      /\ \A k \in 1..Cardinality(T) : Nth(T, k) \in T /\ t[k] = seq[Nth(T, k)]
      /\ \A k, l \in 1..Cardinality(T) : Nth(T, k) = Nth(T, l) => k = l
  BY <1>1, SubsequenceIs
<1> HIDE DEF t
<1>5. /\ more \in Seq(Agents) /\ Len(more) <= n
      /\ \A k \in 1..Len(more) : k \in 1..Len(t) /\ more[k] = t[k]
  BY <1>3, <1>4, LeadingIs
<1> HIDE DEF more
<1>6. \A k \in 1..Len(more) : k \in 1..Cardinality(T) /\ more[k] = seq[Nth(T, k)] /\ Nth(T, k) \in T
  BY <1>4, <1>5
<1>7. \A k, l \in 1..Len(more) : OfOneModel(more[k], more[l]) => k = l
  BY <1>2, <1>4, <1>6
<1>8. \A i \in 1..Len(seated), k \in 1..Len(more) :
        ~OfOneModel(seated[i], more[k]) /\ ~OfOneModel(more[k], seated[i])
  BY <1>2, <1>6 DEF OfOneModel
<1>9. SeatedApart(seated \o more)
  <2> DEFINE s == seated \o more
  <2>0. Len(more) \in Nat /\ seated \in Seq(Agents) /\ Len(seated) \in Nat
    BY <1>5, SeatedLength
  <2>1. /\ seated \in Seq(Agents) /\ Len(seated) \in Nat /\ Len(more) \in Nat
        /\ \A i, j \in 1..Len(seated) : OfOneModel(seated[i], seated[j]) => i = j
    BY <2>0 DEF SeatedApart
  <2>2. /\ s \in Seq(Agents) /\ Len(s) = Len(seated) + Len(more)
        /\ \A i \in 1..Len(seated) : s[i] = seated[i]
        /\ \A i \in 1..Len(s) : ~(i \in 1..Len(seated)) => i - Len(seated) \in 1..Len(more) /\ s[i] = more[i - Len(seated)]
    BY <1>5, <2>1
  <2> HIDE DEF s
  <2>3. Len(s) <= 3
    BY <1>3, <1>5, <2>1, <2>2
  <2>4. ASSUME NEW i \in 1..Len(s), NEW j \in 1..Len(s), OfOneModel(s[i], s[j]) PROVE i = j
    <3>1. CASE i \in 1..Len(seated) /\ j \in 1..Len(seated)
      BY <2>1, <2>2, <2>4, <3>1
    <3>2. CASE i \in 1..Len(seated) /\ j \notin 1..Len(seated)
      BY <1>8, <2>2, <2>4, <3>2
    <3>3. CASE i \notin 1..Len(seated) /\ j \in 1..Len(seated)
      BY <1>8, <2>2, <2>4, <3>3
    <3>4. CASE i \notin 1..Len(seated) /\ j \notin 1..Len(seated)
      <4>1. i - Len(seated) = j - Len(seated)
        BY <1>7, <2>2, <2>4, <3>4
      <4> QED
        BY <2>1, <2>2, <4>1
    <3> QED
      BY <3>1, <3>2, <3>3, <3>4
  <2> QED
    BY <2>2, <2>3, <2>4 DEF SeatedApart, s
<1> QED
  BY <1>9 DEF Seat, more, t, T, n

LEMMA SeatsAreApart ==
    ASSUME NEW S \in SUBSET Agents, NEW shuffled \in SetToSeqs(Newcomers)
    PROVE  SeatedApart(Seats(S, shuffled))
<1> DEFINE history == Those(Ranking, S \ Newcomers)
           fresh == Those(shuffled, S \cap Newcomers)
<1>1. history \in Seq(Agents)
  <2>1. Ranking \in Seq(Agents)
    BY MatchingConstants
  <2>2. history \in Seq(Agents \cap (S \ Newcomers))
    BY <2>1, ThoseAre
  <2> HIDE DEF history
  <2> QED
    BY <2>2
<1>2. fresh \in Seq(Agents)
  <2>1. shuffled \in Seq(Newcomers)
    <3>1. IsFiniteSet(Agents)
      <4>1. Ranking \in Seq(Agents) /\ Agents = Range(Ranking)
        BY MatchingConstants DEF Agents
      <4>2. IsFiniteSet(1..Len(Ranking)) /\ Ranking \in Surjection(1..Len(Ranking), Agents)
        <5>1. IsFiniteSet(1..Len(Ranking))
          BY <4>1, FS_Interval
        <5>2. Ranking \in [1..Len(Ranking) -> Agents] /\ Agents = {Ranking[i] : i \in 1..Len(Ranking)}
          BY <4>1 DEF Range
        <5> QED
          BY <5>1, <5>2 DEF Surjection
      <4> QED
        BY <4>2, FS_Surjection
    <3>2. Cardinality(Newcomers) \in Nat
      BY <3>1, MatchingConstants, FS_Subset, FS_CardinalityType
    <3>3. shuffled \in [1..Cardinality(Newcomers) -> Newcomers]
      BY DEF SetToSeqs
    <3> QED
      BY <3>2, <3>3
  <2>2. fresh \in Seq(Newcomers \cap (S \cap Newcomers))
    BY <2>1, ThoseAre
  <2> HIDE DEF fresh
  <2>3. Newcomers \subseteq Agents
    BY MatchingConstants
  <2> QED
    BY <2>2, <2>3
<1> HIDE DEF history, fresh
<1>3. SeatedApart(<<>>)
  BY DEF SeatedApart
<1>4. SeatedApart(Seat(<<>>, history, 2))
  BY <1>1, <1>3, SeatsOneMore
<1>5. SeatedApart(Seat(Seat(<<>>, history, 2), fresh, 3))
  BY <1>2, <1>4, SeatsOneMore
<1> DEFINE explored == Seat(Seat(<<>>, history, 2), fresh, 3)
<1>6. 3 - Len(explored) \in Nat
  BY <1>5, SeatedLength
<1> HIDE DEF explored
<1>7. SeatedApart(Seat(explored, history, 3 - Len(explored)))
  <2>1. SeatedApart(explored)
    BY <1>5 DEF explored
  <2> QED
    BY <1>1, <1>6, <2>1, SeatsOneMore
<1> QED
  BY <1>7 DEF Seats, explored, history, fresh

-----------------------------------------------------------------------------
(* The inductive invariant: the head of the chain carries on what is deep, *)
(* the intent is of the mode and no later than the market, and its pool is *)
(* still the one to draw from as long as versions and clocks agree; what a *)
(* refresh brought is what the deep word decides.                          *)

Decided(d) == d.state \in {"RandomReady", "Selected"}
DrawKind(d) ==
    \/ d = Undrawn
    \/ d.state = "Frozen"
    \/ d.state = "Requested" /\ d.request \in Requests
    \/ /\ Decided(d) /\ d.request \in Requests /\ d.word \in Words
       /\ d = [state |-> d.state, commitment |-> d.commitment, request |-> d.request, word |-> d.word]
CarriesOn(e, d) ==
    Decided(d) => /\ Decided(e) /\ e.commitment = d.commitment
                  /\ e.request = d.request /\ e.word = d.word

Steps == {"idle", "asking", "answered", "bound"}
Brought == [request : Requests, agent : Agents]
Stand == [at : Steps, evidence : {NoEvidence} \cup Brought]
Intents == [mode : {"ranked", "vrf-exploration"}, version : Nat, revision : Nat, stamp : Nat, pool : SUBSET Agents]

MatchKinds ==
    /\ mode \in {"ranked", "vrf-exploration"} /\ agent \in Agents \cup {Nobody}
    /\ version \in Nat /\ clock \in Nat /\ stamp \in Nat /\ qualified \subseteq Agents
    /\ verified \in Agents \cup {Nobody} /\ events \subseteq {"configured", "wakeup"} /\ consumed \subseteq events
    /\ binding.request \in Requests \cup {0} /\ binding = [phase |-> binding.phase, request |-> binding.request]
    /\ refresh \in [Refreshers -> Stand]
    /\ DrawKind(draw) /\ DrawKind(deep) /\ CarriesOn(draw, deep)

AsBound == version = intent.version /\ clock = intent.revision /\ stamp = intent.stamp

IntentRight ==
    /\ intent = NoIntent \/ intent \in Intents
    /\ intent = NoIntent => mode = "ranked" /\ events = {} /\ candidates = {}
    /\ intent # NoIntent => /\ intent.mode = mode
                            /\ intent.version <= version /\ intent.revision <= clock /\ intent.stamp <= stamp
    /\ mode = "vrf-exploration" => intent.pool # {} /\ (AsBound => intent.pool = PoolOf(qualified))

\* The deep record decides for a, over the pool that was frozen with the task.
Decides(a) ==
    /\ mode = "vrf-exploration"
    /\ Decided(deep) /\ deep.commitment = Commitment /\ a = Winner(intent.pool, deep.word)

DecisionsRight ==
    /\ verified # Nobody => Decides(verified)
    /\ \A p \in Refreshers :
         /\ refresh[p].at # "idle" => mode = "vrf-exploration"
         /\ refresh[p].at \in {"answered", "bound"} =>
              refresh[p].evidence \in Brought /\ Decides(refresh[p].evidence.agent)
    /\ mode = "vrf-exploration" => agent \in {Nobody, verified}

CandidatesRight ==
    /\ \A c \in candidates : c.agent \in Agents /\ c.rank \in 1..3
    /\ \A c, d \in candidates : c.rank = d.rank \/ ModelOf[c.agent] = ModelOf[d.agent] => c = d
    /\ mode = "vrf-exploration" =>
         \A c \in candidates : verified # Nobody /\ c = [agent |-> verified, rank |-> 1]
    /\ mode = "ranked" => events \subseteq {"configured"} /\ (consumed = {} => candidates = {})

MatchIInv == MatchKinds /\ IntentRight /\ DecisionsRight /\ CandidatesRight

LEMMA DecisionStays ==
    ASSUME MatchIInv, intent' = intent, mode' = mode, deep' = deep \/ deep' = draw
    PROVE  \A a : Decides(a) => Decides(a)'
BY DEF MatchIInv, MatchKinds, Decides, CarriesOn, Commitment

LEMMA IntentsDiffer == NoIntent \notin Intents /\ \A i \in Intents : i.mode # "none"
BY DEF NoIntent, Intents

LEMMA MatchStarts == MatchInit => MatchIInv
<1> SUFFICES ASSUME MatchInit PROVE MatchIInv
  OBVIOUS
<1>1. DrawKind(Undrawn) /\ ~Decided(Undrawn)
  BY DEF DrawKind, Decided, Undrawn
<1>2. [at |-> "idle", evidence |-> NoEvidence] \in Stand
  BY DEF Stand, Steps
<1>3. MatchKinds
  BY <1>1, <1>2 DEF MatchInit, MatchKinds, CarriesOn
<1> QED
  BY <1>3 DEF MatchInit, MatchIInv, IntentRight, DecisionsRight, CandidatesRight

\* What the market does leaves the intent and what was decided; whether it is still
\* bound to the market is asked again.
LEMMA MarketMoves ==
    ASSUME MatchIInv, UNCHANGED <<bindingVars, matcherVars, chainVars, refresh>>,
           version' \in Nat, clock' \in Nat, stamp' \in Nat, qualified' \subseteq Agents,
           version <= version', clock <= clock', stamp <= stamp',
           version < version' \/ clock < clock' \/ stamp < stamp',
           agent' = agent \/ (agent' \in Agents /\ (mode = "vrf-exploration" => agent' = verified))
    PROVE  MatchIInv'
<1>1. UNCHANGED <<intent, binding, verified, mode, events, consumed, candidates, draw, deep, refresh>>
  BY DEF bindingVars, matcherVars, chainVars
<1>2. MatchKinds'
  BY <1>1 DEF MatchIInv, MatchKinds
<1>3. IntentRight'
  <2>1. intent # NoIntent => /\ intent.version \in Nat /\ intent.revision \in Nat /\ intent.stamp \in Nat
                             /\ intent.version <= version /\ intent.revision <= clock /\ intent.stamp <= stamp
                             /\ intent.mode = mode
    BY DEF MatchIInv, IntentRight, Intents
  <2>2. version \in Nat /\ clock \in Nat /\ stamp \in Nat
    BY DEF MatchIInv, MatchKinds
  <2>3. intent # NoIntent => /\ intent.version <= version' /\ intent.revision <= clock' /\ intent.stamp <= stamp'
                             /\ ~AsBound'
    BY <1>1, <2>1, <2>2 DEF AsBound
  <2>4. mode = "vrf-exploration" => intent # NoIntent
    BY DEF MatchIInv, IntentRight
  <2> QED
    BY <1>1, <2>1, <2>3, <2>4 DEF MatchIInv, IntentRight
<1>4. \A a : Decides(a) => Decides(a)'
  BY <1>1, DecisionStays
<1>5. DecisionsRight'
  BY <1>1, <1>4 DEF MatchIInv, DecisionsRight
<1>6. CandidatesRight'
  BY <1>1 DEF MatchIInv, CandidatesRight
<1> QED
  BY <1>2, <1>3, <1>5, <1>6 DEF MatchIInv

LEMMA MarketKeeps ==
    ASSUME MatchIInv, AgentsChange \/ TaskEdited \/ WorkflowMoves \/ \E a \in Agents : Assign(a)
    PROVE  MatchIInv'
<1>1. version \in Nat /\ clock \in Nat /\ stamp \in Nat /\ qualified \subseteq Agents
  BY DEF MatchIInv, MatchKinds
<1>2. CASE AgentsChange
  BY <1>1, <1>2, MarketMoves DEF AgentsChange
<1>3. CASE TaskEdited
  BY <1>1, <1>3, MarketMoves DEF TaskEdited
<1>4. CASE WorkflowMoves
  BY <1>1, <1>4, MarketMoves DEF WorkflowMoves
<1>5. ASSUME NEW a \in Agents, Assign(a) PROVE MatchIInv'
  BY <1>1, <1>5, MarketMoves DEF Assign
<1> QED
  BY <1>2, <1>3, <1>4, <1>5

LEMMA ConfigureKeeps ==
    ASSUME MatchIInv, NEW m \in {"ranked", "vrf-exploration"}, Configure(m)
    PROVE  MatchIInv'
<1>1. /\ agent = Nobody /\ intent = NoIntent /\ candidates = {} /\ consumed = {}
      /\ m = "vrf-exploration" => qualified # {}
      /\ mode' = m /\ version' = version + 1
      /\ intent' = [mode |-> m, version |-> version + 1, revision |-> clock, stamp |-> stamp,
                    pool |-> IF m = "ranked" THEN {} ELSE PoolOf(qualified)]
      /\ binding' = [phase |-> IF m = "ranked" THEN "none" ELSE "awaiting_request", request |-> 0]
      /\ events' = events \cup {"configured"}
      /\ UNCHANGED <<agent, qualified, clock, stamp, confirmed, verified, consumed, candidates, draw, deep, refresh>>
  BY DEF Configure, Unlocked, chainVars
<1>2. mode = "ranked" /\ events = {} /\ version \in Nat /\ clock \in Nat /\ stamp \in Nat /\ qualified \subseteq Agents
  BY <1>1 DEF MatchIInv, MatchKinds, IntentRight
<1>3. verified = Nobody /\ \A p \in Refreshers : refresh[p].at = "idle"
  BY <1>2 DEF MatchIInv, DecisionsRight, Decides
<1>4. PoolOf(qualified) \subseteq Agents /\ (m = "vrf-exploration" => PoolOf(qualified) # {})
  BY <1>1, <1>2, PoolIsLeft
<1>5. MatchKinds'
  BY <1>1, <1>2 DEF MatchIInv, MatchKinds
<1>6. intent' \in Intents /\ intent' # NoIntent
  BY <1>1, <1>2, <1>4, IntentsDiffer DEF Intents
<1>7. IntentRight'
  BY <1>1, <1>2, <1>4, <1>6 DEF IntentRight, AsBound
<1>8. DecisionsRight'
  BY <1>1, <1>3 DEF DecisionsRight
<1>9. CandidatesRight'
  BY <1>1, <1>2 DEF CandidatesRight
<1> QED
  BY <1>5, <1>7, <1>8, <1>9 DEF MatchIInv

LEMMA MatchKeeps ==
    ASSUME MatchIInv, NEW e \in events, Match(e)
    PROVE  MatchIInv'
<1>1. /\ Gate # "locked" /\ consumed' = consumed \cup {e}
      /\ UNCHANGED <<mode, version, agent, qualified, clock, stamp, confirmed, intent, binding, verified,
                     events, draw, deep, refresh>>
  BY DEF Match, marketVars, bindingVars, chainVars
<1>2. MatchKinds' /\ IntentRight' /\ DecisionsRight'
  <2>1. intent = NoIntent => e \notin events
    BY DEF MatchIInv, IntentRight
  <2>2. intent # NoIntent
    BY <2>1
  <2>3. \A a : Decides(a) => Decides(a)'
    BY <1>1, DecisionStays
  <2>4. MatchKinds'
    BY <1>1 DEF MatchIInv, MatchKinds
  <2>5. AsBound' <=> AsBound
    BY <1>1 DEF AsBound
  <2>6. IntentRight'
    BY <1>1, <2>2, <2>5 DEF MatchIInv, IntentRight
  <2>7. DecisionsRight'
    BY <1>1, <2>3 DEF MatchIInv, DecisionsRight
  <2> QED
    BY <2>4, <2>6, <2>7
<1>3. CandidatesRight'
  <2>1. CASE UNCHANGED candidates
    BY <1>1, <2>1 DEF MatchIInv, CandidatesRight
  <2>2. CASE Gate = "verified" /\ candidates' = candidates \cup {[agent |-> verified, rank |-> 1]}
    <3>1. mode # "ranked" /\ verified # Nobody
      BY <2>2 DEF Gate
    <3>2. mode = "vrf-exploration" /\ verified \in Agents
      BY <3>1 DEF MatchIInv, MatchKinds
    <3>3. \A c \in candidates' : c = [agent |-> verified, rank |-> 1]
      BY <2>2, <3>2 DEF MatchIInv, CandidatesRight
    <3>4. \A c \in candidates' : c.agent \in Agents /\ c.rank \in 1..3
      BY <3>2, <3>3
    <3> QED
      BY <1>1, <3>1, <3>2, <3>3, <3>4 DEF CandidatesRight
  <2>3. ASSUME Gate = "ranked", e \notin consumed, NEW shuffled \in SetToSeqs(Newcomers),
               candidates' = candidates \cup
                 {[agent |-> Seats(qualified, shuffled)[i], rank |-> i] : i \in DOMAIN Seats(qualified, shuffled)}
        PROVE  CandidatesRight'
    <3> DEFINE seats == Seats(qualified, shuffled)
    <3>1. mode = "ranked"
      BY <2>3 DEF Gate
    <3>2. consumed = {} /\ candidates = {} /\ events \subseteq {"configured"}
      BY <2>3, <3>1 DEF MatchIInv, MatchKinds, CandidatesRight
    <3>3. qualified \subseteq Agents
      BY DEF MatchIInv, MatchKinds
    <3>4. SeatedApart(seats)
      BY <3>3, SeatsAreApart
    <3>5. candidates' = {[agent |-> seats[i], rank |-> i] : i \in DOMAIN seats}
      BY <2>3, <3>2
    <3> HIDE DEF seats
    <3>6. seats \in Seq(Agents) /\ Len(seats) \in Nat /\ Len(seats) <= 3
      BY <3>4, SeatedLength
    <3>7. DOMAIN seats = 1..Len(seats) /\ \A i \in 1..Len(seats) : seats[i] \in Agents /\ i \in 1..3
      BY <3>6
    <3>8. \A c \in candidates' : \E i \in 1..Len(seats) : c = [agent |-> seats[i], rank |-> i]
      BY <3>5, <3>7
    <3>9. \A c \in candidates' : c.agent \in Agents /\ c.rank \in 1..3
      BY <3>7, <3>8
    <3>10. ASSUME NEW c \in candidates', NEW d \in candidates',
                  c.rank = d.rank \/ ModelOf[c.agent] = ModelOf[d.agent]
           PROVE  c = d
      <4>1. PICK i \in 1..Len(seats) : c = [agent |-> seats[i], rank |-> i]
        BY <3>8
      <4>2. PICK j \in 1..Len(seats) : d = [agent |-> seats[j], rank |-> j]
        BY <3>8
      <4>3. i = j \/ OfOneModel(seats[i], seats[j])
        BY <3>10, <4>1, <4>2 DEF OfOneModel
      <4>4. i = j
        BY <3>4, <4>3 DEF SeatedApart
      <4> QED
        BY <4>1, <4>2, <4>4
    <3> QED
      BY <1>1, <3>1, <3>2, <3>9, <3>10 DEF CandidatesRight
  <2> QED
    BY <2>1, <2>2, <2>3 DEF Match
<1> QED
  BY <1>2, <1>3 DEF MatchIInv

LEMMA SelectorKeeps ==
    ASSUME MatchIInv,
           \/ \E c \in {Commitment, <<"another">>} : FreezePool(c)
           \/ \E r \in Requests : RequestSelection(r) \/ \E word \in Words : Fulfill(r, word)
           \/ Finalize \/ Deepen \/ Reorganise
    PROVE  MatchIInv'
<1>1. UNCHANGED <<mode, version, agent, qualified, clock, stamp, confirmed, intent, binding, verified,
                  events, consumed, candidates, refresh>>
  BY DEF FreezePool, RequestSelection, Fulfill, Finalize, Deepen, Reorganise, marketVars, bindingVars, matcherVars
<1>2. DrawKind(draw) /\ DrawKind(deep) /\ CarriesOn(draw, deep)
  BY DEF MatchIInv, MatchKinds
<1>3. /\ DrawKind(draw') /\ DrawKind(deep') /\ CarriesOn(draw', deep')
      /\ deep' = deep \/ deep' = draw
  <2>1. ASSUME NEW c, FreezePool(c) PROVE DrawKind(draw') /\ CarriesOn(draw', deep) /\ deep' = deep
    BY <1>2, <2>1 DEF FreezePool, DrawKind, CarriesOn, Decided
  <2>2. ASSUME NEW r \in Requests, RequestSelection(r) PROVE DrawKind(draw') /\ CarriesOn(draw', deep) /\ deep' = deep
    BY <1>2, <2>2 DEF RequestSelection, DrawKind, CarriesOn, Decided
  <2>3. ASSUME NEW r \in Requests, NEW word \in Words, Fulfill(r, word)
        PROVE  DrawKind(draw') /\ CarriesOn(draw', deep) /\ deep' = deep
    BY <1>2, <2>3 DEF Fulfill, DrawKind, CarriesOn, Decided
  <2>4. ASSUME Finalize PROVE DrawKind(draw') /\ CarriesOn(draw', deep) /\ deep' = deep
    <3>1. draw.state = "RandomReady" /\ deep' = deep /\ draw' = [draw EXCEPT !.state = "Selected"]
      BY <2>4 DEF Finalize
    <3>2. /\ draw = [state |-> draw.state, commitment |-> draw.commitment, request |-> draw.request, word |-> draw.word]
          /\ draw.request \in Requests /\ draw.word \in Words
      BY <1>2, <3>1 DEF DrawKind, Undrawn
    <3>3. draw' = [state |-> "Selected", commitment |-> draw.commitment, request |-> draw.request, word |-> draw.word]
      BY <3>1, <3>2
    <3>4. DrawKind(draw')
      BY <3>2, <3>3 DEF DrawKind, Decided
    <3>5. CarriesOn(draw', deep)
      BY <1>2, <3>3 DEF CarriesOn, Decided
    <3> QED
      BY <3>1, <3>4, <3>5
  <2>5. ASSUME Deepen PROVE deep' = draw /\ draw' = draw
    BY <2>5 DEF Deepen
  <2>6. ASSUME Reorganise PROVE deep' = deep /\ draw' = deep
    BY <2>6 DEF Reorganise
  <2>7. CarriesOn(draw, draw) /\ CarriesOn(deep, deep)
    BY DEF CarriesOn
  <2> QED
    BY <1>2, <2>1, <2>2, <2>3, <2>4, <2>5, <2>6, <2>7
<1>4. MatchKinds'
  <2>1. (DrawKind(draw) /\ DrawKind(deep) /\ CarriesOn(draw, deep))'
    BY <1>3 DEF DrawKind, CarriesOn, Decided
  <2> QED
    BY <1>1, <2>1 DEF MatchIInv, MatchKinds
<1>5. IntentRight'
  <2>1. AsBound' <=> AsBound
    BY <1>1 DEF AsBound
  <2> QED
    BY <1>1, <2>1 DEF MatchIInv, IntentRight
<1>6. \A a : Decides(a) => Decides(a)'
  BY <1>1, <1>3, DecisionStays
<1>7. DecisionsRight'
  BY <1>1, <1>6 DEF MatchIInv, DecisionsRight
<1>8. CandidatesRight'
  BY <1>1 DEF MatchIInv, CandidatesRight
<1> QED
  BY <1>4, <1>5, <1>7, <1>8 DEF MatchIInv

\* A refresh that moves on touches neither the market nor the intent; what it records
\* is what it brought.
LEMMA RefreshMoves ==
    ASSUME MatchIInv, NEW p \in Refreshers, NEW to \in Steps, NEW evidence \in {NoEvidence} \cup Brought,
           refresh' = [refresh EXCEPT ![p] = [at |-> to, evidence |-> evidence]],
           to # "idle" => mode = "vrf-exploration",
           to \in {"answered", "bound"} => evidence \in Brought /\ Decides(evidence.agent),
           UNCHANGED <<version, agent, qualified, clock, stamp, mode, intent, draw, deep, consumed>>,
           binding'.request \in Requests \cup {0}, binding' = [phase |-> binding'.phase, request |-> binding'.request],
           \/ UNCHANGED <<verified, events, candidates>>
           \/ /\ verified = Nobody /\ agent = Nobody /\ mode = "vrf-exploration" /\ intent # NoIntent
              /\ verified' \in Agents /\ Decides(verified') /\ events' = events \cup {"wakeup"}
              /\ UNCHANGED candidates
    PROVE  MatchIInv'
<1>1. [at |-> to, evidence |-> evidence] \in Stand
  BY DEF Stand
<1>2. /\ refresh' \in [Refreshers -> Stand] /\ refresh'[p] = [at |-> to, evidence |-> evidence]
      /\ \A q \in Refreshers : q # p => refresh'[q] = refresh[q]
  BY <1>1 DEF MatchIInv, MatchKinds
<1>3. MatchKinds'
  BY <1>2 DEF MatchIInv, MatchKinds, DrawKind, CarriesOn, Decided
<1>4. IntentRight'
  <2>1. AsBound' <=> AsBound
    BY DEF AsBound
  <2> QED
    BY <2>1 DEF MatchIInv, IntentRight
<1>5. \A a : Decides(a) => Decides(a)'
  BY DecisionStays
<1>6. \A a : Decides(a)' <=> Decides(a)
  BY DEF Decides, Commitment
<1>7. DecisionsRight'
  <2>1. ASSUME NEW q \in Refreshers
        PROVE  /\ refresh'[q].at # "idle" => mode = "vrf-exploration"
               /\ refresh'[q].at \in {"answered", "bound"} =>
                    refresh'[q].evidence \in Brought /\ Decides(refresh'[q].evidence.agent)
    <3>1. CASE q = p
      BY <1>2, <3>1
    <3>2. CASE q # p
      BY <1>2, <3>2 DEF MatchIInv, DecisionsRight
    <3> QED
      BY <3>1, <3>2
  <2>2. verified' # Nobody => Decides(verified')
    BY DEF MatchIInv, DecisionsRight
  <2>3. mode = "vrf-exploration" => agent \in {Nobody, verified'}
    BY DEF MatchIInv, DecisionsRight
  <2>4. /\ verified' # Nobody => Decides(verified)'
        /\ \A q \in Refreshers : refresh'[q].at \in {"answered", "bound"} => Decides(refresh[q].evidence.agent)'
    BY <1>6, <2>1, <2>2 DEF Decides, Commitment
  <2> QED
    BY <2>1, <2>3, <2>4 DEF DecisionsRight
<1>8. CandidatesRight'
  <2>1. verified = Nobody /\ mode = "vrf-exploration" => candidates = {}
    BY DEF MatchIInv, CandidatesRight
  <2> QED
    BY <2>1 DEF MatchIInv, CandidatesRight
<1> QED
  BY <1>3, <1>4, <1>7, <1>8 DEF MatchIInv

LEMMA RefreshKeeps ==
    ASSUME MatchIInv, NEW p \in Refreshers,
           ReadPending(p) \/ AskOracle(p) \/ BindEvidence(p) \/ RecordVerified(p) \/ GiveUp(p)
    PROVE  MatchIInv'
<1>1. binding.request \in Requests \cup {0} /\ binding = [phase |-> binding.phase, request |-> binding.request]
      /\ refresh[p] \in Stand
  BY DEF MatchIInv, MatchKinds
<1>2. CASE ReadPending(p)
  BY <1>1, <1>2, RefreshMoves DEF ReadPending, Moves, Steps, marketVars, bindingVars, matcherVars, chainVars
<1>3. CASE AskOracle(p)
  <2>1. /\ refresh[p].at = "asking" /\ Decided(deep) /\ deep.commitment = Commitment
        /\ refresh' = [refresh EXCEPT ![p] = [at |-> "answered",
              evidence |-> [request |-> deep.request, agent |-> Winner(intent.pool, deep.word)]]]
        /\ UNCHANGED <<marketVars, bindingVars, matcherVars, chainVars>>
    BY <1>3 DEF AskOracle, Moves, Seen, Decided
  <2>2. mode = "vrf-exploration"
    BY <2>1 DEF MatchIInv, DecisionsRight
  <2>3. deep.request \in Requests /\ deep.word \in Words
    BY <2>1 DEF MatchIInv, MatchKinds, DrawKind, Decided, Undrawn
  <2>4. intent.pool # {} /\ intent.pool \subseteq Agents
    BY <2>2 DEF MatchIInv, IntentRight, Intents
  <2>5. Winner(intent.pool, deep.word) \in Agents
    BY <2>3, <2>4, WinnerIsDrawn
  <2> DEFINE found == [request |-> deep.request, agent |-> Winner(intent.pool, deep.word)]
  <2>6. found \in Brought /\ Decides(found.agent)
    BY <2>1, <2>2, <2>3, <2>5 DEF Brought, Decides
  <2>7. refresh' = [refresh EXCEPT ![p] = [at |-> "answered", evidence |-> found]]
    BY <2>1
  <2> HIDE DEF found
  <2> QED
    BY <1>1, <2>1, <2>2, <2>6, <2>7, RefreshMoves DEF Steps, marketVars, bindingVars, matcherVars, chainVars
<1>4. CASE BindEvidence(p)
  <2>1. /\ refresh[p].at = "answered"
        /\ refresh' = [refresh EXCEPT ![p] = [at |-> "bound", evidence |-> refresh[p].evidence]]
        /\ binding' \in {binding, [phase |-> "awaiting_oracle", request |-> refresh[p].evidence.request]}
        /\ UNCHANGED <<marketVars, intent, verified, mode, matcherVars, chainVars>>
    BY <1>4 DEF BindEvidence, Moves
  <2>2. refresh[p].evidence \in Brought /\ Decides(refresh[p].evidence.agent) /\ mode = "vrf-exploration"
    BY <2>1 DEF MatchIInv, DecisionsRight
  <2>3. refresh[p].evidence.request \in Requests
    BY <2>2 DEF Brought
  <2>4. binding'.request \in Requests \cup {0} /\ binding' = [phase |-> binding'.phase, request |-> binding'.request]
    BY <1>1, <2>1, <2>3
  <2> DEFINE held == refresh[p].evidence
  <2> HIDE DEF held
  <2> QED
    BY <2>1, <2>2, <2>4, RefreshMoves DEF held, Steps, marketVars, matcherVars, chainVars
<1>5. CASE RecordVerified(p)
  <2>1. /\ refresh[p].at = "bound" /\ Gate = "oracle_pending" /\ verified' = refresh[p].evidence.agent
        /\ events' = events \cup {"wakeup"}
        /\ refresh' = [refresh EXCEPT ![p] = [at |-> "idle", evidence |-> NoEvidence]]
        /\ UNCHANGED <<marketVars, intent, binding, mode, consumed, candidates, chainVars>>
    BY <1>5 DEF RecordVerified, Moves
  <2>2. refresh[p].evidence \in Brought /\ Decides(refresh[p].evidence.agent) /\ mode = "vrf-exploration"
    BY <2>1 DEF MatchIInv, DecisionsRight
  <2>3. verified = Nobody /\ agent = Nobody
    BY <2>1 DEF Gate
  <2>4. intent # NoIntent
    BY <2>2 DEF MatchIInv, IntentRight
  <2>5. verified' \in Agents /\ Decides(verified')
    BY <2>1, <2>2 DEF Brought
  <2> QED
    BY <1>1, <2>1, <2>2, <2>3, <2>4, <2>5, RefreshMoves DEF Steps, marketVars, chainVars
<1>6. CASE GiveUp(p)
  BY <1>1, <1>6, RefreshMoves DEF GiveUp, Moves, Steps, marketVars, bindingVars, matcherVars, chainVars
<1> QED
  BY <1>2, <1>3, <1>4, <1>5, <1>6

LEMMA MatchStays == MatchIInv /\ [MatchNext]_matchVars => MatchIInv'
<1> SUFFICES ASSUME MatchIInv, [MatchNext]_matchVars PROVE MatchIInv'
  OBVIOUS
<1>1. CASE UNCHANGED matchVars
  <2>1. MatchKinds' /\ IntentRight'
    BY <1>1 DEF MatchIInv, matchVars, MatchKinds, IntentRight, DrawKind, CarriesOn, Decided, AsBound, PoolOf
  <2>2. DecisionsRight'
    BY <1>1 DEF MatchIInv, matchVars, DecisionsRight, Decides, Commitment, Decided
  <2>3. CandidatesRight'
    BY <1>1 DEF MatchIInv, matchVars, CandidatesRight
  <2> QED
    BY <2>1, <2>2, <2>3 DEF MatchIInv
<1>2. CASE MatchNext
  BY <1>2, MarketKeeps, ConfigureKeeps, MatchKeeps, SelectorKeeps, RefreshKeeps DEF MatchNext
<1> QED
  BY <1>1, <1>2

\* The states of OnlyTheDrawnAgent, and its step.
DrawnRight ==
    /\ MatchTypeOK
    /\ \A c, d \in candidates : c.rank = d.rank \/ ModelOf[c.agent] = ModelOf[d.agent] => c = d
    /\ verified # Nobody =>
         /\ deep.state \in {"RandomReady", "Selected"} /\ deep.commitment = Commitment
         /\ verified = Winner(intent.pool, deep.word)
    /\ mode = "vrf-exploration" =>
         /\ \A c \in candidates : c.agent = verified
         /\ agent \in {Nobody, verified}
AssignsTheDrawn ==
    mode = "vrf-exploration" /\ agent' # agent => agent' \in PoolOf(qualified) /\ intent.pool = PoolOf(qualified)

LEMMA InvariantIsDrawn == MatchIInv => DrawnRight
<1> SUFFICES ASSUME MatchIInv PROVE DrawnRight
  OBVIOUS
<1>1. MatchTypeOK
  BY DEF MatchIInv, MatchKinds, CandidatesRight, MatchTypeOK, Stand, Steps, Brought
<1> QED
  BY <1>1 DEF MatchIInv, DecisionsRight, CandidatesRight, Decides, Decided, DrawnRight

LEMMA AssignmentsAreDrawn == MatchIInv /\ [MatchNext]_matchVars => [AssignsTheDrawn]_matchVars
<1> SUFFICES ASSUME MatchIInv, MatchNext, mode = "vrf-exploration", agent' # agent
             PROVE  agent' \in PoolOf(qualified) /\ intent.pool = PoolOf(qualified)
  BY DEF AssignsTheDrawn
<1>1. PICK a \in Agents : Assign(a)
  BY DEF MatchNext, AgentsChange, TaskEdited, WorkflowMoves, Configure, Match, FreezePool, RequestSelection,
         Fulfill, Finalize, Deepen, Reorganise, ReadPending, AskOracle, BindEvidence, RecordVerified, GiveUp, marketVars
<1>2. Gate = "verified" /\ agent' = verified
  BY <1>1 DEF Assign
<1>3. AsBound /\ verified # Nobody
  BY <1>2 DEF Gate, AsBound
<1>4. Decides(verified)
  BY <1>3 DEF MatchIInv, DecisionsRight
<1>5. deep.word \in Words
  BY <1>4 DEF MatchIInv, MatchKinds, DrawKind, Decides, Decided, Undrawn
<1>6. intent.pool # {} /\ intent.pool \subseteq Agents /\ intent.pool = PoolOf(qualified)
  BY <1>3 DEF MatchIInv, IntentRight, Intents
<1>7. Winner(intent.pool, deep.word) \in intent.pool
  BY <1>5, <1>6, WinnerIsDrawn
<1> QED
  BY <1>2, <1>4, <1>6, <1>7 DEF Decides

\* However refreshes, callbacks, reorganisations and events cross, for any agents,
\* models, words and bounds: candidates have a rank and a model of their own; a draw has
\* the one winner that the deep word picks from the frozen pool, nobody else becomes a
\* candidate or is assigned, and who is assigned still belongs to the pool to draw from
\* (matching/service.ts, ranking/selection.go, VRFExplorationSelector.sol).
THEOREM DrawsDecide == MatchSpec => OnlyTheDrawnAgent
<1>1. MatchSpec => []MatchIInv
  BY MatchStarts, MatchStays, PTL DEF MatchSpec
<1>2. MatchSpec => [][AssignsTheDrawn]_matchVars
  BY <1>1, AssignmentsAreDrawn, PTL DEF MatchSpec
<1>3. MatchSpec => []DrawnRight
  BY <1>1, InvariantIsDrawn, PTL
<1> QED
  BY <1>2, <1>3 DEF OnlyTheDrawnAgent, DrawnRight, AssignsTheDrawn
=============================================================================
