-------------------------- MODULE ChainVerification --------------------------
(***************************************************************************)
(* How a wallet's transaction becomes a confirmed fact of the market:      *)
(* app/api/transactions/verify/route.ts, chain/reconcile.ts and the        *)
(* Postgres rows of chain/transaction-store.ts, for the row of one intent. *)
(*                                                                         *)
(* A verification call binds the hash, reads back what the row knew, asks  *)
(* two sources what the chain says and saves the verdict, with an await    *)
(* between any two of these steps; several calls for one intent run at     *)
(* once, while the chain mines, extends and reorganizes.  All the ways a   *)
(* transaction can fail to be what the intent asked for (wrong sender,     *)
(* amount, calldata, event, failed receipt) are one bit of the chain; but  *)
(* each source brings its own logs, and those of blockscout, asked for     *)
(* after the receipt, may lag and come empty.                              *)
(***************************************************************************)
EXTENDS Naturals, FiniteSets

CONSTANTS
    Calls,              \* verification calls that may be in flight
    Hashes,             \* transaction hashes a client may submit for the intent
    Blocks,             \* block hashes
    NoHash, NoBlock,
    MinConfirmations,   \* minimumConfirmations
    FinalDepth,         \* bound: a block this deep is never reorganized away
    MaxOutages          \* bound on how often a source or a call fails, or logs lag

ASSUME VerificationConstants ==
    /\ NoHash \notin Hashes /\ NoBlock \notin Blocks
    /\ MinConfirmations \in Nat \ {0} /\ FinalDepth \in Nat
    /\ FinalDepth > MinConfirmations /\ MaxOutages \in Nat

VARIABLES
    row,        \* the row of agent_market.chain_transactions
    calls,      \* where each verification call stands and what it has read
    canonical,  \* the canonical chain's block holding a transaction of the intent
    mined,      \* per block: the transaction it held and how deep it ever was
    outages,    \* failures of sources and calls so far
    standing,   \* history: the block of the last confirmation no reorg revoked
    unshown     \* history: the blocks whose transaction was once shown without its logs

vars == <<row, calls, canonical, mined, outages, standing, unshown>>

Sources == {"rpc", "blockscout"}
Statuses == {"created", "submitted", "verifying", "confirmed", "failed", "reorged"}
Steps == {"idle", "findStatus", "findBlock", "read"}

\* One source's observation: the receipt first, the canonical block at its
\* height later, when the chain may have changed; and whether its logs were there.
Unread == [read |-> "no", block |-> NoBlock, deep |-> FALSE, ok |-> FALSE, logs |-> FALSE, canonical |-> FALSE]
Silent == [Unread EXCEPT !.read = "complete"]

IdleCall == [at |-> "idle", hash |-> NoHash, previous |-> "other",
             previousBlock |-> NoBlock, seen |-> [s \in Sources |-> Unread]]

Init ==
    /\ row = [txHash |-> NoHash, status |-> "created", blockHash |-> NoBlock]
    /\ calls = [c \in Calls |-> IdleCall]
    /\ canonical = NoBlock
    /\ mined = [b \in Blocks |-> [hash |-> NoHash, depth |-> 0, ok |-> FALSE]]
    /\ outages = 0
    /\ standing = NoBlock /\ unshown = {}

----------------------------------------------------------------------------
\* The chain: the wallet's transactions share a nonce, so one at most is in it.
\* A block's name means nothing, so the next one gets the next unused name.
Mine(h, ok) ==
    LET fresh == CHOOSE b \in Blocks : mined[b].depth = 0
    IN  /\ canonical = NoBlock
        /\ \E b \in Blocks : mined[b].depth = 0
        /\ canonical' = fresh
        /\ mined' = [mined EXCEPT ![fresh] = [hash |-> h, depth |-> 1, ok |-> ok]]
        /\ UNCHANGED <<row, calls, outages, standing, unshown>>

Extend ==
    /\ canonical # NoBlock
    /\ mined[canonical].depth < FinalDepth
    /\ mined' = [mined EXCEPT ![canonical].depth = @ + 1]
    /\ UNCHANGED <<row, calls, canonical, outages, standing, unshown>>

Reorganize ==
    /\ canonical # NoBlock
    /\ mined[canonical].depth < FinalDepth
    /\ canonical' = NoBlock
    /\ UNCHANGED <<row, calls, mined, outages, standing, unshown>>

----------------------------------------------------------------------------
\* Mutant: a hash already bound is refused even when it comes again.
MayBindOnce(h) == row.txHash = NoHash

MayBind(h) == row.txHash \in {NoHash, h}

\* recordSubmission: one UPDATE, whatever the status was.
Submit(c, h) ==
    /\ calls[c].at = "idle"
    /\ MayBind(h)
    /\ row' = [row EXCEPT !.txHash = h, !.status = "submitted"]
    /\ calls' = [calls EXCEPT ![c] = [IdleCall EXCEPT !.at = "findStatus", !.hash = h]]
    /\ UNCHANGED <<canonical, mined, outages, standing, unshown>>

\* findVerification, of which only "confirmed" is ever used.
FindStatus(c) ==
    /\ calls[c].at = "findStatus"
    /\ calls' = [calls EXCEPT ![c] =
                    [@ EXCEPT !.at = "findBlock",
                              !.previous = IF row.status = "confirmed" THEN "confirmed"
                                                                       ELSE "other"]]
    /\ UNCHANGED <<row, canonical, mined, outages, standing, unshown>>

\* findCanonicalBlockHash, compared only with a confirmation found before it.
FindBlock(c) ==
    /\ calls[c].at = "findBlock"
    /\ calls' = [calls EXCEPT ![c] =
                    [@ EXCEPT !.at = "read",
                              !.previousBlock = IF calls[c].previous = "confirmed"
                                                THEN row.blockHash ELSE NoBlock]]
    /\ UNCHANGED <<row, canonical, mined, outages, standing, unshown>>

\* Mutant: one confirmation too many is counted.
DeepByOneMore(depth) == depth + 1 >= MinConfirmations

\* All that is used of the confirmations: whether they are enough.
Deep(depth) == depth >= MinConfirmations

\* What the checks of chain, sender, target, amount, calldata, receipt status and
\* event will find, all at once: the transaction of the block does what was intended.
AsIntended(block) == mined[block].ok

\* The receipt of the RPC holds its logs; blockscout's are asked for next.
ReadReceipt(c, s) ==
    /\ calls[c].at = "read" /\ calls[c].seen[s].read = "no"
    /\ calls' = [calls EXCEPT ![c].seen[s] =
                    IF canonical # NoBlock /\ mined[canonical].hash = calls[c].hash
                    THEN [read |-> "receipt", block |-> canonical, canonical |-> FALSE,
                          deep |-> Deep(mined[canonical].depth), ok |-> AsIntended(canonical),
                          logs |-> s = "rpc"]
                    ELSE Silent]
    /\ UNCHANGED <<row, canonical, mined, outages, standing, unshown>>

\* The block now canonical at the receipt's height; blockscout's latest block number
\* and its logs are read with it, the other source's were read with the receipt.
\* An index that lags has no items for the transaction, which is read as no logs.
ReadCanonical(c, s, lags) ==
    LET seen == calls[c].seen[s]
        still == canonical = seen.block
    IN  /\ calls[c].at = "read" /\ seen.read = "receipt"
        /\ lags => s = "blockscout" /\ outages < MaxOutages
        /\ calls' = [calls EXCEPT ![c].seen[s] =
                        [seen EXCEPT !.read = "complete",
                                     !.canonical = still,
                                     !.logs = s = "rpc" \/ (still /\ ~lags),
                                     !.deep = IF s = "blockscout" /\ still
                                              THEN Deep(mined[canonical].depth) ELSE @]]
        /\ outages' = IF lags THEN outages + 1 ELSE outages
        /\ unshown' = IF lags THEN unshown \cup {seen.block} ELSE unshown
        /\ UNCHANGED <<row, canonical, mined, standing>>

\* A source times out: reconcileTransaction reports it as verifying.
Outage(c, s) ==
    /\ calls[c].at = "read" /\ calls[c].seen[s].read # "complete"
    /\ outages < MaxOutages
    /\ outages' = outages + 1
    /\ calls' = [calls EXCEPT ![c].seen[s] = Silent]
    /\ UNCHANGED <<row, canonical, mined, standing, unshown>>

\* The process dies, or a query throws: the call is over and nothing is saved.
Abandon(c) ==
    /\ calls[c].at # "idle"
    /\ outages < MaxOutages
    /\ outages' = outages + 1
    /\ calls' = [calls EXCEPT ![c] = IdleCall]
    /\ UNCHANGED <<row, canonical, mined, standing, unshown>>

----------------------------------------------------------------------------
\* coreTransactionEqual, receiptsEqual
SourcesAgree(c) ==
    /\ \A s \in Sources : calls[c].seen[s].block # NoBlock
    /\ calls[c].seen["rpc"].block = calls[c].seen["blockscout"].block

ReorgSeen(c) ==
    \/ \E s \in Sources : ~calls[c].seen[s].canonical
    \/ /\ calls[c].previous = "confirmed"
       /\ calls[c].previousBlock \notin {NoBlock, calls[c].seen["rpc"].block}

\* What the checks of the transaction, matchingEvent and eventError find in each source's
\* observation: the call of the intent, and the right event if the logs are there.  The
\* logs of one block are the same wherever they are shown.
ShownRight(c) == \A s \in Sources : calls[c].seen[s].logs /\ calls[c].seen[s].ok

\* reconcileTransaction, in the order of its checks.
Verdict(c) ==
    CASE ~SourcesAgree(c) -> "verifying"
      [] SourcesAgree(c) /\ ReorgSeen(c) -> "reorged"
      [] SourcesAgree(c) /\ ~ReorgSeen(c) /\ ~ShownRight(c) -> "failed"
      [] OTHER -> IF \A s \in Sources : calls[c].seen[s].deep THEN "confirmed" ELSE "verifying"

\* onCanonicalObservation: the block is reported once the transaction is the
\* right one, whether or not it is deep enough.
Observed(c) ==
    IF SourcesAgree(c) /\ ~ReorgSeen(c) /\ ShownRight(c)
    THEN calls[c].seen["rpc"].block ELSE NoBlock

\* Mutant: a late verdict overwrites a confirmation.
MayOverwrite(verdict) == TRUE

MaySave(verdict) == row.status = "confirmed" => verdict = "reorged"

\* saveVerification: one UPDATE guarded by hash and status; when the guard
\* fails the row stays and the call returns it or a conflict.
Save(c) ==
    LET verdict == Verdict(c)
        saved == /\ row.txHash \in {NoHash, calls[c].hash}
                 /\ MaySave(verdict)
    IN  /\ calls[c].at = "read"
        /\ \A s \in Sources : calls[c].seen[s].read = "complete"    \* Promise.all
        /\ row' = IF saved
                  THEN [txHash |-> calls[c].hash, status |-> verdict,
                        blockHash |-> IF Observed(c) # NoBlock THEN Observed(c)
                                                              ELSE row.blockHash]
                  ELSE row
        /\ standing' = CASE saved /\ verdict = "confirmed" ->
                               IF standing = NoBlock THEN Observed(c) ELSE standing
                         [] saved /\ verdict = "reorged" -> NoBlock
                         [] OTHER -> standing
        /\ calls' = [calls EXCEPT ![c] = IdleCall]
        /\ UNCHANGED <<canonical, mined, outages, unshown>>

CallStep(c) ==
    \/ FindStatus(c) \/ FindBlock(c) \/ Save(c)
    \/ \E s \in Sources : ReadReceipt(c, s) \/ ReadCanonical(c, s, FALSE)

Next ==
    \/ \E h \in Hashes, ok \in BOOLEAN : Mine(h, ok)
    \/ Extend
    \/ Reorganize
    \/ \E c \in Calls, h \in Hashes : Submit(c, h)
    \/ \E c \in Calls : CallStep(c)
    \/ \E c \in Calls : Abandon(c)
    \/ \E c \in Calls, s \in Sources : Outage(c, s) \/ ReadCanonical(c, s, TRUE)

\* The client verifies the hash it bound again and again (the pages' verify
\* buttons), a handler that started runs on, and blocks keep being produced.
Fairness ==
    /\ \A c \in Calls : WF_vars(CallStep(c))
    /\ \A c \in Calls : WF_vars(\E h \in Hashes : Submit(c, h))
    /\ WF_vars(Extend)

Spec == Init /\ [][Next]_vars /\ Fairness

----------------------------------------------------------------------------
\* Types of the row, of what calls have read and of the chain's history.
ChainTypeOK ==
    /\ row \in [txHash : Hashes \cup {NoHash}, status : Statuses,
                blockHash : Blocks \cup {NoBlock}]
    /\ calls \in [Calls -> [at : Steps, hash : Hashes \cup {NoHash},
                            previous : {"confirmed", "other"}, previousBlock : Blocks \cup {NoBlock},
                            seen : [Sources -> [read : {"no", "receipt", "complete"},
                                                block : Blocks \cup {NoBlock},
                                                deep : BOOLEAN, ok : BOOLEAN,
                                                logs : BOOLEAN, canonical : BOOLEAN]]]]
    /\ canonical \in Blocks \cup {NoBlock}
    /\ mined \in [Blocks -> [hash : Hashes \cup {NoHash}, depth : 0..FinalDepth, ok : BOOLEAN]]
    /\ outages \in 0..MaxOutages
    /\ standing \in Blocks \cup {NoBlock} /\ unshown \subseteq Blocks

\* However calls, reorganizations and outages interleave, a row is confirmed
\* only with the block of its own successful transaction, and only a block that
\* really had minimumConfirmations (reconcileTransaction, saveVerification).  It is
\* failed only when a transaction with its hash was mined that was not what the
\* intent asked for, or that a source once showed without its logs: an unanswered
\* read, a block the sources differ on and a block dropped meanwhile are no failure.
\* Clients may race with different hashes: every call past recordSubmission works
\* for the one the row is bound to.
VerdictWasTrue ==
    /\ ChainTypeOK
    /\ row.status = "confirmed" =>
          /\ row.blockHash # NoBlock
          /\ mined[row.blockHash].hash = row.txHash
          /\ mined[row.blockHash].ok
          /\ mined[row.blockHash].depth >= MinConfirmations
    /\ row.status = "failed" =>
          \E b \in Blocks : /\ mined[b].depth > 0 /\ mined[b].hash = row.txHash
                            /\ (~mined[b].ok \/ b \in unshown)
    /\ \A c \in Calls : calls[c].at # "idle" => calls[c].hash = row.txHash

\* Verdicts are reached and saved out of order; still, while the chain never
\* dropped the row's transaction, a confirmation ends only by a new submission.
ConfirmationLostOnlyToReorg ==
    [][row.status = "confirmed" /\ row'.status \notin {"confirmed", "submitted"} =>
          /\ row'.status = "reorged"
          /\ \E b \in Blocks \ {canonical} : mined[b].depth > 0 /\ mined[b].hash = row.txHash]_vars

\* Whatever reorganizations, outages and stale verdicts came before, once the
\* row's transaction is final its confirmation is reached again and again.
FinalIsConfirmed ==
    (/\ canonical # NoBlock
     /\ mined[canonical].depth = FinalDepth
     /\ mined[canonical].ok
     /\ row.txHash = mined[canonical].hash)
        ~> (row.status = "confirmed" /\ row.blockHash = canonical)

\* What reconcile.test.ts promises, "detects a non-canonical block and a
\* changed previously confirmed block": until a verdict says reorged, the block
\* of the confirmation stays the row's block.
ConfirmedBlockStands == standing # NoBlock => row.blockHash = standing
=============================================================================
