---------------------------- MODULE OwnerAgents ----------------------------
(***************************************************************************)
(* The agents an owner registers in the browser: the records of one        *)
(* database that all tabs share, each with the history of its versions,    *)
(* and the pages that list them and move them on.  A page writes the whole *)
(* record it holds, changed by one step, over whatever is stored; between  *)
(* reading and writing the wallet may change and other tabs may write.     *)
(***************************************************************************)
EXTENDS Integers, Sequences, FiniteSets, FiniteSetsExt, SequencesExt

CONSTANTS
    OwnerTabs, OwnerWallets,
    Registrable,        \* identifiers of records
    MaxHistory,         \* bound of the events of a record
    MaxInFlight         \* bound of the reads and writes the tabs wait for

VARIABLES
    registry,       \* the object store: identifier -> record, NotStored or Removed
    ownerShown,     \* ownerShown[t]: walletAddress of the page in t
    listing,        \* listing[t]: the reads of t's effects, with their answer if there is one
    owned,          \* owned[t]: the records the page shows
    busyWith,       \* busyWith[t]: the record whose buttons are disabled
    saving          \* saving[t]: records on their way to the store

ownerVars == <<registry, ownerShown, listing, owned, busyWith, saving>>

NoOwner == "nobody"
NothingBusy == "nothing"
NotStored == [owner |-> NoOwner]
Removed == [owner |-> "removed"]
AgentStatuses == {"draft", "reviewing", "published", "paused", "retired"}

OwnerInit ==
    /\ registry = [id \in Registrable |-> NotStored]
    /\ ownerShown = [t \in OwnerTabs |-> NoOwner]
    /\ listing = [t \in OwnerTabs |-> {}] /\ owned = [t \in OwnerTabs |-> {}]
    /\ busyWith = [t \in OwnerTabs |-> NothingBusy] /\ saving = [t \in OwnerTabs |-> {}]

InFlightAt(t) == Cardinality(listing[t]) + Cardinality(saving[t])
RoomForRequest == MapThenSumSet(InFlightAt, OwnerTabs) < MaxInFlight

----------------------------------------------------------------------------
\* determineAgentAdmission, and the status importedStatus gives to what it admits:
\* a paid agent waits for the platform's test, any other is published at once.
Admissions == {"reviewing", "published"}

\* A record without a lifecycle begins its history when it is first looked at.
Imported(id, wallet, status) ==
    [id |-> id, owner |-> wallet, history |-> <<[from |-> "none", to |-> status, version |-> 1]>>]
Status(record) == Last(record.history).to
Version(record) == Last(record.history).version

\* allowedTransitions
AllowedTransitions(from) ==
    CASE from = "draft" -> {"reviewing"}
      [] from = "reviewing" -> {"draft", "published"}
      [] from = "published" -> {"paused", "retired"}
      [] from = "paused" -> {"published", "retired"}
      [] from = "retired" -> {}

\* actionsFor, with targetByAction: what each button leads to.
Buttons(record) ==
    CASE Status(record) = "draft" -> {"reviewing"}
      [] Status(record) = "reviewing" -> {"published"}
      [] Status(record) = "published" -> {"paused", "draft", "retired"}
      [] Status(record) = "paused" -> {"published", "draft", "retired"}
      [] Status(record) = "retired" -> {}

\* Mutant: a revision is another step of the version it revises.
RevisedInPlace(record) == Version(record)
\* beginAgentRevision
RevisionOf(record) == Version(record) + 1

\* nextOwnerAgentLifecycle
Advanced(record, to) ==
    LET revises == to = "draft" /\ Status(record) \in {"published", "paused"}
    IN  [record EXCEPT !.history = Append(@,
           [from |-> Status(record), to |-> to,
            version |-> IF revises THEN RevisionOf(record) ELSE Version(record)])]

----------------------------------------------------------------------------
\* AgentNewPage: a record for the wallet connected, or for an address typed in,
\* under an identifier of its own.
SaveNewAgent(id, wallet) ==
    /\ registry[id] = NotStored
    /\ \E status \in Admissions : registry' = [registry EXCEPT ![id] = Imported(id, wallet, status)]
    /\ UNCHANGED <<ownerShown, listing, owned, busyWith, saving>>

\* removeOwnerAgent compares the stored owner; the one it is given is the record's own,
\* as the registration page listed it, perhaps for an earlier wallet.
RemoveAgent(id) ==
    /\ registry[id] \notin {NotStored, Removed} /\ registry' = [registry EXCEPT ![id] = Removed]
    /\ UNCHANGED <<ownerShown, listing, owned, busyWith, saving>>

\* The effect on walletAddress: what earlier reads bring counts no more.
Superseded(reads) == {[r EXCEPT !.current = FALSE] : r \in reads}
DisconnectOwner(t) ==
    /\ ownerShown[t] # NoOwner /\ ownerShown' = [ownerShown EXCEPT ![t] = NoOwner]
    /\ owned' = [owned EXCEPT ![t] = {}]
    /\ listing' = [listing EXCEPT ![t] = Superseded(@)]
    /\ UNCHANGED <<registry, busyWith, saving>>
ConnectOwner(t, wallet) ==
    /\ ownerShown[t] = NoOwner /\ RoomForRequest
    /\ ownerShown' = [ownerShown EXCEPT ![t] = wallet]
    /\ listing' = [listing EXCEPT ![t] = @ \cup {[for |-> wallet, current |-> TRUE, answer |-> << >>]}]
    /\ UNCHANGED <<registry, owned, busyWith, saving>>

\* listOwnerAgents: the records under the index of the owner, when they are read.
OwnedBy(wallet) == {registry[id] : id \in {i \in Registrable : registry[i].owner = wallet}}
ReadListing(t, read) ==
    /\ read.answer = << >>
    /\ listing' = [listing EXCEPT ![t] =
         (@ \ {read}) \cup {[read EXCEPT !.answer = <<OwnedBy(read.for)>>]}]
    /\ UNCHANGED <<registry, ownerShown, owned, busyWith, saving>>

\* Mutant: a read of an earlier wallet is shown.
CountsAlways(read) == TRUE
Counts(read) == read.current
ReceiveListing(t, read) ==
    /\ read.answer # << >> /\ listing' = [listing EXCEPT ![t] = @ \ {read}]
    /\ owned' = IF Counts(read) THEN [owned EXCEPT ![t] = read.answer[1]] ELSE owned
    /\ UNCHANGED <<registry, ownerShown, busyWith, saving>>
ListingFails(t, read) ==
    /\ listing' = [listing EXCEPT ![t] = @ \ {read}]
    /\ UNCHANGED <<registry, ownerShown, owned, busyWith, saving>>

\* A button of a record as the page shows it; those of another record that is being
\* saved are enabled again.
PressButton(t, record, to) ==
    /\ busyWith[t] # record.id /\ to \in Buttons(record)
    /\ Len(record.history) < MaxHistory /\ RoomForRequest
    /\ busyWith' = [busyWith EXCEPT ![t] = record.id]
    /\ saving' = [saving EXCEPT ![t] = @ \cup {Advanced(record, to)}]
    /\ UNCHANGED <<registry, ownerShown, listing, owned>>

\* saveOwnerAgent puts the record, and the page that still lists it shows it.
AgentSaved(t, record) ==
    /\ registry' = [registry EXCEPT ![record.id] = record]
    /\ owned' = [owned EXCEPT ![t] = {IF r.id = record.id THEN record ELSE r : r \in @}]
    /\ saving' = [saving EXCEPT ![t] = @ \ {record}]
    /\ busyWith' = [busyWith EXCEPT ![t] = NothingBusy]
    /\ UNCHANGED <<ownerShown, listing>>
SaveFails(t, record) ==
    /\ saving' = [saving EXCEPT ![t] = @ \ {record}]
    /\ busyWith' = [busyWith EXCEPT ![t] = NothingBusy]
    /\ UNCHANGED <<registry, ownerShown, listing, owned>>

OwnerNext ==
    \/ \E id \in Registrable : RemoveAgent(id) \/ \E w \in OwnerWallets : SaveNewAgent(id, w)
    \/ \E t \in OwnerTabs :
         \/ DisconnectOwner(t) \/ \E w \in OwnerWallets : ConnectOwner(t, w)
         \/ \E read \in listing[t] :
              ReadListing(t, read) \/ ReceiveListing(t, read) \/ ListingFails(t, read)
         \/ \E record \in owned[t], to \in AgentStatuses : PressButton(t, record, to)
         \/ \E record \in saving[t] : AgentSaved(t, record) \/ SaveFails(t, record)

OwnerSpec == OwnerInit /\ [][OwnerNext]_ownerVars

----------------------------------------------------------------------------
\* A history is a legal path, each version of it but the first reviewed before it
\* was published, and the version counts the revisions.
LegalHistory(h) ==
    /\ \A i \in 2..Len(h) :
         /\ h[i].from = h[i - 1].to
         /\ IF h[i].from \in {"published", "paused"} /\ h[i].to = "draft"
            THEN h[i].version = h[i - 1].version + 1
            ELSE h[i].version = h[i - 1].version /\ h[i].to \in AllowedTransitions(h[i].from)
    /\ \A i \in DOMAIN h : h[i].to = "published" /\ h[i].version > 1 =>
         \E j \in 1..i : h[j].to = "reviewing" /\ h[j].version = h[i].version

\* However the tabs overwrite each other, remove and bring back records, and change
\* wallets while they read and save: the store holds legal histories only, and the
\* page of managed agents lists no record of another wallet than the one it shows.
HistoriesAreLegal ==
    /\ \A id \in Registrable :
         registry[id] \notin {NotStored, Removed} => LegalHistory(registry[id].history)
    /\ \A t \in OwnerTabs : \A r \in owned[t] : r.owner = ownerShown[t]
=============================================================================
