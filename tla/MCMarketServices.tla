-------------------------- MODULE MCMarketServices --------------------------
(***************************************************************************)
(* Model checking of the services around an order that share nothing with  *)
(* each other: the commercial ledger, matching and draws, wallet sessions  *)
(* in the browser and logins at the server, replay of dead letters,        *)
(* transaction intents, reviews, governance and the yield vault.  A        *)
(* behaviour exercises one of them, its part, and leaves the others as     *)
(* they began: interleaving services that cannot interact would only       *)
(* multiply states.                                                        *)
(***************************************************************************)
EXTENDS CommercialLedger, MatchSelection, WalletSessions, RecoveryReplay,
        TransactionIntents, Reputation, GovernanceReleases,
        YieldVault, TLC

CONSTANTS s1, s2, A, B,   \* model values, symmetric; each part has its own use for them
          o1, o2, o3

VARIABLE part
services == <<ledgerVars, matchVars, walletVars, replayVars, intentVars, reputationVars,
             challengeVars, governanceVars, vaultVars>>

\* One worker with two children, and a yield and two penalties it may suffer.
MCAgentOf == [c \in Children |-> "a"]
MCChildBudget == [c \in Children |-> 1]
MCDeposit == [w \in {"pub", "a"} |-> 2]
Receipt(id, kind, to, amount, decision) ==
    [id |-> id, kind |-> kind, from |-> "a", to |-> to, amount |-> amount,
     decision |-> decision, consented |-> TRUE]
MCOffered == {Receipt("y1", "yield", "plat", 1, "d1"), Receipt("p1", "penalty", "pub", 1, "d1"),
              Receipt("p2", "penalty", "pub", 2, "d2")}

MCRanking == <<"a", "b">>
MCByKey == <<"b", "a">>
MCModelOf == [a \in {"a", "b"} |-> a]

MCAgentOfOrder == [o \in Orders |-> "a"]
MCOwnerOf == [a \in {"a"} |-> "owner"]
\* The signals of log1p up to 20 orders and up to 8 units, where 8 reach the cap.
MCOrderSignal == <<23, 36, 45>>
MCEarningsSignal == [n \in 0..11 |-> IF n >= 8 THEN 100 ELSE <<0, 32, 50, 63, 73, 82, 89, 95>>[n + 1]]
MCOrderValue == (o1 :> 8) @@ (o2 :> 2) @@ (o3 :> 1)
MCVerdicts == {[mark |-> 100, outcome |-> "accepted", blamed |-> FALSE],
               [mark |-> 0, outcome |-> "disputed", blamed |-> TRUE]}

\* One order has been reviewed already, one way or the other.
MCReviewed ==
    /\ grant = [o \in Orders |-> IF o = o1 THEN "consumed" ELSE "absent"]
    /\ \E v \in Verdicts : posted = [o \in Orders |-> IF o = o1 THEN Dated(v, 0) ELSE NoReview]
    /\ linked = FALSE /\ published = RatedAgents
    /\ submission = [p \in Submissions |-> [at |-> "idle"]] /\ today = 0

\* The owner, an operator and a reviewer who is also an operator.
MCGrants == [w \in {"own", "op", "rev"} |->
    CASE w = "own" -> {} [] w = "op" -> {"operator"} [] w = "rev" -> {"operator", "reviewer"}]
MCSends == [w \in {"own", "op", "rev"} |->
    CASE w = "own" -> {"propose_release", "open_ticket"}
      [] w = "op" -> {"propose_rollback", "resolve_ticket", "event"}
      [] w = "rev" -> {"review", "propose_rollback"}]

MCInit ==
    /\ part \in {"ledger", "match", "wallet", "replay", "intents", "reviews", "logins",
                "governance", "vault"}
    /\ LedgerInit /\ MatchInit /\ WalletInit /\ ReplayInit /\ IntentInit
    /\ IF part = "reviews" THEN MCReviewed ELSE ReputationInit
    /\ ChallengeInit /\ GovernanceInit /\ VaultInit
    /\ source = "in_progress"
    /\ qualified = Agents /\ (part # "match" => stamp = 0)
    /\ part # "wallet" => account = A
    /\ part # "intents" => taskRow = [status |-> "assigned", revision |-> 1, agent |-> NoAgent]
    /\ listing.content = "v" /\ releases = {FirstRelease("u")}   \* edited since

MCNext ==
    /\ UNCHANGED part
    /\ \/ /\ part = "ledger" /\ LedgerNext
          /\ UNCHANGED <<matchVars, walletVars, replayVars, intentVars, reputationVars,
                         challengeVars, governanceVars, vaultVars>>
       \/ /\ part = "match" /\ MatchNext
          /\ UNCHANGED <<ledgerVars, walletVars, replayVars, intentVars, reputationVars,
                         challengeVars, governanceVars, vaultVars>>
       \/ /\ part = "wallet" /\ WalletNext
          /\ UNCHANGED <<ledgerVars, matchVars, replayVars, intentVars, reputationVars,
                         challengeVars, governanceVars, vaultVars>>
       \/ /\ part = "replay" /\ ReplayNext
          /\ UNCHANGED <<ledgerVars, matchVars, walletVars, intentVars, reputationVars,
                         challengeVars, governanceVars, vaultVars>>
       \/ /\ part = "intents" /\ IntentNext
          /\ UNCHANGED <<ledgerVars, matchVars, walletVars, replayVars, reputationVars,
                         challengeVars, governanceVars, vaultVars>>
       \/ /\ part = "reviews" /\ ReputationNext
          /\ UNCHANGED <<ledgerVars, matchVars, walletVars, replayVars, intentVars,
                         challengeVars, governanceVars, vaultVars>>
       \/ /\ part = "logins" /\ ChallengeNext
          /\ UNCHANGED <<ledgerVars, matchVars, walletVars, replayVars, intentVars,
                         reputationVars, governanceVars, vaultVars>>
       \/ /\ part = "governance" /\ GovernanceNext
          /\ UNCHANGED <<ledgerVars, matchVars, walletVars, replayVars, intentVars,
                         reputationVars, challengeVars, vaultVars>>
       \/ /\ part = "vault" /\ VaultNext
          /\ UNCHANGED <<ledgerVars, matchVars, walletVars, replayVars, intentVars,
                         reputationVars, challengeVars, governanceVars>>

MCSpec == MCInit /\ [][MCNext]_<<part, services>>

MCSymmetry == Permutations({s1, s2}) \cup Permutations({A, B})
=============================================================================
