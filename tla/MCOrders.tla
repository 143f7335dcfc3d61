------------------------------- MODULE MCOrders -------------------------------
(***************************************************************************)
(* Instance for TLC of OrderLifecycle and of the pages of the browser that *)
(* publish tasks, act on orders and keep an owner's agents.  A behaviour   *)
(* has one side.  In "race" two executions race, one of them sent again,   *)
(* on terms that stay as they are and do not expire (an expired quote      *)
(* counts as a wrong fingerprint); in "terms" one execution meets new      *)
(* terms, and halts with their proposals.  The first graph has one agent   *)
(* in its team.  The pages share no state with these or with each other.   *)
(***************************************************************************)
EXTENDS OrderLifecycle, OrderDetail, TaskPublication, OwnerAgents, TLC

VARIABLE side
pages == <<detailVars, publicationVars, ownerVars>>

TeamInstance(r) == Agents
MCDrafts == {[budget |-> 100, hours |-> 1], [budget |-> 200, hours |-> 2]}

Symmetry == Permutations(Executions) \cup Permutations(Operators) \cup Permutations(Proposals)

MCInit ==
    /\ Init /\ DetailInit /\ PublicationInit /\ OwnerInit
    /\ side \in {"race", "terms", "order", "publish", "agents"}
    /\ side = "order" \/ row.status = CHOOSE s \in StartStatuses : TRUE

Race ==
    \/ /\ Pricing /\ terms' = terms
       /\ \A n \in DOMAIN quotes' : ~quotes'[n].expired
    \/ RenewContext \/ Halt
    \/ \E e \in Executions : Execute(e)
Terms ==
    \/ Pricing \/ RenewContext \/ Governance
    \/ \E e \in Executions :
         /\ \A other \in Executions \ {e} : calls[other] = IdleCall
         /\ Execute(e) /\ calls'[e].key = FreshKey

MCNext ==
    /\ UNCHANGED side
    /\ \/ side = "race" /\ Race /\ UNCHANGED pages
       \/ side = "terms" /\ Terms /\ UNCHANGED pages
       \/ side = "order" /\ DetailNext /\ UNCHANGED <<vars, publicationVars, ownerVars>>
       \/ side = "publish" /\ PublicationNext /\ UNCHANGED <<vars, detailVars, ownerVars>>
       \/ side = "agents" /\ OwnerNext /\ UNCHANGED <<vars, detailVars, publicationVars>>

MCSpec == MCInit /\ [][MCNext]_<<side, vars, pages>>

----------------------------------------------------------------------------
\* What the pages show is true and what they send is what they offered: the order
\* page acts as shown and catches up (OrderDetailPage.tsx), the task page funds only
\* what was approved and confirmed (DirectoryPages.tsx), and the agents' pages keep
\* legal histories of the right owner (ownerAgentLifecycle.ts).
PagesTellTheTruth == ActsAsShown /\ CatchesUp /\ FundsWhatWasApproved /\ HistoriesAreLegal
=============================================================================
