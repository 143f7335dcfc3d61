----------------------------- MODULE OrderProofs -----------------------------
(***************************************************************************)
(* Theorems about orders, the quote gate and governance, for any number of *)
(* executions, keys, proposals, quotes and terms.  The gate reads a quote  *)
(* outside the order's transaction, so the inductive invariant says what a *)
(* call may still rely on when it commits: the quote it was let through on *)
(* only gains confirmations, and the status it found is the row's as long  *)
(* as nobody wrote the row.                                                *)
(***************************************************************************)
EXTENDS OrderLifecycle, TLAPS

Row == [status : Statuses, previous : Statuses \ {"manual_review"}]
Call == [at : {"idle", "find", "quote", "confirmations", "commit"},
         command : Gated \cup {"ungated", "mark_manual_review"}, key : Keys \cup {FreshKey},
         quote : 0..MaxQuotes, sound : BOOLEAN, found : Statuses]
Proposal == [proposer : Operators \cup {Nobody}, previous : Statuses \ {"manual_review"}]

\* The quote is of the kind the gated command asks for, and no approval is missing.
Fits(q, command) ==
    /\ q \in DOMAIN quotes /\ (Final(q) <=> command = "mark_funding_pending")
    /\ quotes[q].approval # "required"

Cleared(command) ==
    \E q \in DOMAIN quotes : Fits(q, command) /\ Required(q) \subseteq quotes[q].confirmed

CallSound(k) ==
    /\ k.at = "find" /\ k.command \in Gated => k.quote \in DOMAIN quotes
    /\ k.at = "quote" => k.command \in Gated /\ k.quote \in DOMAIN quotes
    /\ k.at = "confirmations" => k.command \in Gated /\ Fits(k.quote, k.command)
    /\ k.at = "commit" /\ k.command \in Gated => Cleared(k.command)

\* Who holds the row's version found its status.
FoundTheRow ==
    \A e \in Executions : e \in upToDate =>
        calls[e].at \in {"quote", "confirmations", "commit"} /\ calls[e].found = order.status

\* A proposal made before the halt holds an older version.
EarlierIsStale == \A p \in earlier : p \notin upToDate /\ proposals[p] # NoProposal

OrderIInv ==
    /\ OrderTypeOK /\ \A k \in Keys : applied[k] <= 1
    /\ \A e \in Executions : CallSound(calls[e])
    /\ FoundTheRow /\ EarlierIsStale

LEMMA Typed ==
  ASSUME OrderTypeOK
  PROVE  /\ order \in Row /\ calls \in [Executions -> Call]
         /\ proposals \in [Proposals -> Proposal] /\ quotes \in Seq(Quote)
BY DEF OrderTypeOK, Row, Call, Proposal, QuotesTypeOK

LEMMA IdleCallType == IdleCall \in Call /\ IdleCall.at = "idle" /\ CallSound(IdleCall)
<1>1. IdleCall \in Call /\ IdleCall.at = "idle"
  BY QuoteConstants DEF IdleCall, Call, Statuses
<1>. QED
  BY <1>1 DEF CallSound

LEMMA InitOrderIInv == Init => OrderIInv
<1>. SUFFICES ASSUME Init PROVE OrderIInv
  OBVIOUS
<1>1. calls \in [Executions -> Call]
  BY IdleCallType DEF Init
<1>2. QuotesTypeOK
  BY QuoteConstants DEF Init, QuotesInit, QuotesTypeOK
<1>3. OrderTypeOK
  BY <1>1, <1>2 DEF Init, OrderTypeOK, Call, Statuses, NoProposal
<1>4. \A e \in Executions : CallSound(calls[e])
  BY IdleCallType DEF Init
<1>5. FoundTheRow /\ EarlierIsStale
  BY OrderConstants DEF Init, FoundTheRow, EarlierIsStale
<1>. QED
  BY <1>3, <1>4, <1>5 DEF Init, OrderIInv

\* applyOrderCommand leads to a status of the table, and from none that is terminal or
\* halted.
LEMMA RulesOfTheTable ==
  ASSUME NEW command \in Commands
  PROVE  /\ Rules[command].to \in Statuses
         /\ Rules[command].from \subseteq Statuses \ (Terminal \cup {"manual_review"})
         /\ Rules[command].to = "funding_pending" <=> command = "mark_funding_pending"
         /\ Rules[command].to = "matching" <=> command = "start_matching"
BY DEF Commands, Rules, Statuses, Terminal

\* Quotes are only added, confirmed, approved and expired.
LEMMA QuotesGrow ==
  ASSUME quotes \in Seq(Quote), quotes' \in Seq(Quote), NEW k, CallSound(k),
         \A q \in DOMAIN quotes :
            /\ q \in DOMAIN quotes' /\ quotes'[q].fingerprint = quotes[q].fingerprint
            /\ quotes[q].confirmed \subseteq quotes'[q].confirmed
            /\ quotes[q].approval # "required" => quotes'[q].approval # "required"
  PROVE  CallSound(k)'
<1>1. ASSUME NEW q, NEW command, Fits(q, command)
      PROVE  /\ Fits(q, command)'
             /\ Required(q) \subseteq quotes[q].confirmed
                  => Required(q)' \subseteq quotes'[q].confirmed
  BY <1>1 DEF Fits, Final, Required
<1>2. ASSUME NEW command, Cleared(command)
      PROVE  Cleared(command)'
  <2>1. PICK q \in DOMAIN quotes : Fits(q, command) /\ Required(q) \subseteq quotes[q].confirmed
    BY <1>2 DEF Cleared
  <2>2. q \in DOMAIN quotes' /\ Fits(q, command)' /\ Required(q)' \subseteq quotes'[q].confirmed
    BY <1>1, <2>1
  <2>. QED
    BY <2>2 DEF Cleared
<1>. QED
  BY <1>1, <1>2 DEF CallSound

\* Every step of the risk service keeps the quotes' types and only adds to them.
QuotesOnlyGrow ==
    \A q \in DOMAIN quotes :
        /\ q \in DOMAIN quotes' /\ quotes'[q].fingerprint = quotes[q].fingerprint
        /\ quotes[q].confirmed \subseteq quotes'[q].confirmed
        /\ quotes[q].approval # "required" => quotes'[q].approval # "required"

LEMMA OneQuoteChanges ==
  ASSUME QuotesTypeOK, NEW q \in DOMAIN quotes, NEW r \in Quote,
         quotes' = [quotes EXCEPT ![q] = r], UNCHANGED <<taskVars, pricing>>,
         r.fingerprint = quotes[q].fingerprint, quotes[q].confirmed \subseteq r.confirmed,
         quotes[q].approval # "required" => r.approval # "required"
  PROVE  QuotesTypeOK' /\ QuotesOnlyGrow
<1>1. quotes \in Seq(Quote) /\ DOMAIN quotes = 1..Len(quotes) /\ Len(quotes) \in Nat
  BY DEF QuotesTypeOK
<1>2. quotes' \in Seq(Quote) /\ Len(quotes') = Len(quotes) /\ DOMAIN quotes' = DOMAIN quotes
  BY <1>1
<1>3. \A x \in DOMAIN quotes : quotes'[x] = IF x = q THEN r ELSE quotes[x]
  BY <1>1
<1>. QED
  BY <1>2, <1>3 DEF QuotesTypeOK, QuotesOnlyGrow, taskVars

LEMMA QuoteStepKeeps ==
  ASSUME QuotesTypeOK,
         \/ SaveGraph \/ SaveProgress \/ PriceNodes \/ AskAssessor \/ GiveUpPricing
         \/ \E reviewed \in Reviews : Issue(reviewed)
         \/ \E q \in DOMAIN quotes :
               (\E who \in Parties : Confirm(q, who)) \/ ApproveManual(q) \/ Expire(q)
  PROVE  QuotesTypeOK' /\ QuotesOnlyGrow
<1>1. /\ quotes \in Seq(Quote) /\ Len(quotes) <= MaxQuotes /\ terms \in 0..MaxTerms
      /\ pricing \in {Idle} \cup 0..MaxTerms /\ MaxTerms \in Nat /\ MaxQuotes \in Nat
      /\ Idle \notin Nat /\ Len(quotes) \in Nat
      /\ graph \in {"none", "unpriced", "priced"} /\ (terms = 0 <=> graph = "none")
  BY QuoteConstants DEF QuotesTypeOK
<1>2. CASE SaveGraph \/ SaveProgress \/ PriceNodes \/ AskAssessor \/ GiveUpPricing
  <2>1. quotes' = quotes
    BY <1>2 DEF SaveGraph, SaveProgress, PriceNodes, AskAssessor, GiveUpPricing
  <2>2. QuotesOnlyGrow
    BY <2>1 DEF QuotesOnlyGrow
  <2>3. /\ terms' \in 0..MaxTerms /\ graph' \in {"none", "unpriced", "priced"}
        /\ (terms' = 0 <=> graph' = "none") /\ pricing' \in {Idle} \cup 0..MaxTerms
    <3>1. CASE SaveGraph
      BY <1>1, <3>1 DEF SaveGraph
    <3>2. CASE SaveProgress
      BY <1>1, <3>2 DEF SaveProgress
    <3>3. CASE PriceNodes
      BY <1>1, <3>3 DEF PriceNodes
    <3>4. CASE AskAssessor \/ GiveUpPricing
      BY <1>1, <3>4 DEF AskAssessor, GiveUpPricing, taskVars
    <3>. QED
      BY <1>2, <3>1, <3>2, <3>3, <3>4
  <2>. QED
    BY <1>1, <2>1, <2>2, <2>3 DEF QuotesTypeOK
<1>3. CASE \E reviewed \in Reviews : Issue(reviewed)
  <2>1. PICK reviewed \in Reviews : Issue(reviewed)
    BY <1>3
  <2>. DEFINE r == [fingerprint |-> pricing, confirmed |-> {}, approval |-> reviewed,
                    expired |-> FALSE]
  <2>2. r \in Quote
    BY <1>1, <2>1, QuoteConstants DEF Issue, Quote, Approvals
  <2>3. /\ quotes' = Append(quotes, r) /\ Len(quotes) < MaxQuotes
        /\ pricing' = Idle /\ UNCHANGED taskVars
    BY <2>1 DEF Issue
  <2>. HIDE DEF r
  <2>4. /\ quotes' \in Seq(Quote) /\ Len(quotes') = Len(quotes) + 1
        /\ \A q \in DOMAIN quotes : q \in DOMAIN quotes' /\ quotes'[q] = quotes[q]
    BY <1>1, <2>2, <2>3
  <2>. QED
    BY <1>1, <2>3, <2>4 DEF QuotesTypeOK, QuotesOnlyGrow, taskVars
<1>4. ASSUME NEW q \in DOMAIN quotes,
             (\E who \in Parties : Confirm(q, who)) \/ ApproveManual(q) \/ Expire(q)
      PROVE  QuotesTypeOK' /\ QuotesOnlyGrow
  <2>1. quotes[q] \in Quote
    BY <1>1
  <2>2. CASE \E who \in Parties : Confirm(q, who)
    <3>1. PICK who \in Parties : Confirm(q, who)
      BY <2>2
    <3>. DEFINE r == [quotes[q] EXCEPT !.confirmed = @ \cup {who}]
    <3>2. /\ r \in Quote /\ r.fingerprint = quotes[q].fingerprint
          /\ quotes[q].confirmed \subseteq r.confirmed /\ r.approval = quotes[q].approval
      BY <2>1 DEF Quote
    <3>3. quotes' = [quotes EXCEPT ![q] = r] /\ UNCHANGED <<taskVars, pricing>>
      BY <3>1 DEF Confirm, Confirmable
    <3>. HIDE DEF r
    <3>. QED
      BY <3>2, <3>3, OneQuoteChanges
  <2>3. CASE ApproveManual(q)
    <3>. DEFINE r == [quotes[q] EXCEPT !.approval = "given"]
    <3>2. /\ r \in Quote /\ r.fingerprint = quotes[q].fingerprint
          /\ r.confirmed = quotes[q].confirmed /\ r.approval = "given"
      BY <2>1 DEF Quote, Approvals
    <3>3. quotes' = [quotes EXCEPT ![q] = r] /\ UNCHANGED <<taskVars, pricing>>
      BY <2>3 DEF ApproveManual
    <3>. HIDE DEF r
    <3>. QED
      BY <3>2, <3>3, OneQuoteChanges
  <2>4. CASE Expire(q)
    <3>. DEFINE r == [quotes[q] EXCEPT !.expired = TRUE]
    <3>2. /\ r \in Quote /\ r.fingerprint = quotes[q].fingerprint
          /\ r.confirmed = quotes[q].confirmed /\ r.approval = quotes[q].approval
      BY <2>1 DEF Quote
    <3>3. quotes' = [quotes EXCEPT ![q] = r] /\ UNCHANGED <<taskVars, pricing>>
      BY <2>4 DEF Expire
    <3>. HIDE DEF r
    <3>. QED
      BY <3>2, <3>3, OneQuoteChanges
  <2>. QED
    BY <1>4, <2>2, <2>3, <2>4
<1>. QED
  BY <1>2, <1>3, <1>4

LEMMA PricingKeeps ==
  ASSUME OrderIInv, Pricing
  PROVE  OrderIInv'
<1>1. QuotesTypeOK' /\ QuotesOnlyGrow /\ UNCHANGED orderVars
  <2>1. QuotesTypeOK
    BY DEF OrderIInv, OrderTypeOK
  <2>2. \/ SaveGraph \/ SaveProgress \/ PriceNodes \/ AskAssessor \/ GiveUpPricing
        \/ \E reviewed \in Reviews : Issue(reviewed)
        \/ \E q \in DOMAIN quotes :
               (\E who \in Parties : Confirm(q, who)) \/ ApproveManual(q) \/ Expire(q)
    BY DEF Pricing
  <2>. QED
    BY <2>1, <2>2, QuoteStepKeeps DEF Pricing
<1>2. OrderTypeOK'
  BY <1>1 DEF OrderIInv, OrderTypeOK, orderVars
<1>3. ASSUME NEW e \in Executions PROVE CallSound(calls[e])'
  <2>1. PICK k : k = calls[e]
    OBVIOUS
  <2>2. CallSound(k) /\ quotes \in Seq(Quote) /\ quotes' \in Seq(Quote)
    BY <1>1, <2>1 DEF OrderIInv, OrderTypeOK, QuotesTypeOK
  <2>3. CallSound(k)'
    BY <1>1, <2>2, QuotesGrow DEF QuotesOnlyGrow
  <2>. QED
    BY <1>1, <2>1, <2>3 DEF orderVars
<1>4. /\ \A k \in Keys : applied'[k] <= 1
      /\ FoundTheRow' /\ EarlierIsStale'
  BY <1>1 DEF OrderIInv, FoundTheRow, EarlierIsStale, orderVars
<1>. QED
  BY <1>2, <1>3, <1>4 DEF OrderIInv

----------------------------------------------------------------------------
\* A step of one call that does not write the row: it may come to hold the row's version
\* only with the status that is there.
LEMMA CallMoves ==
  ASSUME OrderIInv, NEW e \in Executions, NEW k \in Call, CallSound(k),
         calls' = [calls EXCEPT ![e] = k],
         UNCHANGED <<order, applied, proposals, earlier, quoteVars>>,
         upToDate' \subseteq upToDate \cup {e}, upToDate' \ {e} = upToDate \ {e},
         e \in upToDate' => /\ k.at \in {"quote", "confirmations", "commit"}
                            /\ k.found = order.status
  PROVE  OrderIInv'
<1>1. calls \in [Executions -> Call] /\ OrderTypeOK /\ Executions \cap Proposals = {}
  BY Typed, OrderConstants DEF OrderIInv
<1>2. calls' \in [Executions -> Call]
  BY <1>1
<1>3. upToDate' \subseteq Executions \cup Proposals \cup {Context}
  BY <1>1 DEF OrderTypeOK
<1>4. OrderTypeOK'
  BY <1>1, <1>2, <1>3 DEF OrderTypeOK, Call, quoteVars, taskVars, QuotesTypeOK
<1>5. ASSUME NEW d \in Executions PROVE CallSound(calls[d])'
  <2>1. PICK x : x = calls'[d]
    OBVIOUS
  <2>2. CallSound(x)
    BY <1>1, <2>1 DEF OrderIInv
  <2>3. CallSound(x)'
    BY <2>2 DEF CallSound, Fits, Cleared, Final, Required, quoteVars
  <2>. QED
    BY <2>1, <2>3
<1>6. FoundTheRow'
  <2>1. ASSUME NEW d \in Executions, d \in upToDate'
        PROVE  calls'[d].at \in {"quote", "confirmations", "commit"}
               /\ calls'[d].found = order.status
    <3>1. CASE d = e
      BY <1>1, <2>1, <3>1
    <3>2. CASE d # e
      BY <1>1, <2>1, <3>2 DEF OrderIInv, FoundTheRow
    <3>. QED
      BY <3>1, <3>2
  <2>. QED
    BY <2>1 DEF FoundTheRow
<1>7. EarlierIsStale'
  BY <1>1 DEF OrderIInv, OrderTypeOK, EarlierIsStale
<1>8. \A x \in Keys : applied'[x] <= 1
  BY DEF OrderIInv
<1>. QED
  BY <1>4, <1>5, <1>6, <1>7, <1>8 DEF OrderIInv

\* A call that ends.
LEMMA CallEnds ==
  ASSUME OrderIInv, NEW e \in Executions, calls' = [calls EXCEPT ![e] = IdleCall],
         UNCHANGED <<order, applied, proposals, earlier, quoteVars>>,
         upToDate' = upToDate \ {e}
  PROVE  OrderIInv'
BY IdleCallType, CallMoves

LEMMA StartKeeps ==
  ASSUME OrderIInv, NEW e \in Executions, NEW k \in Keys \cup {FreshKey},
         \/ Start(e, k)
         \/ \E c \in Gated, q \in DOMAIN quotes, right \in BOOLEAN : StartGated(e, c, k, q, right)
  PROVE  OrderIInv'
<1>1. /\ quotes \in Seq(Quote) /\ Len(quotes) <= MaxQuotes /\ MaxQuotes \in Nat
      /\ calls[e].at = "idle" /\ UNCHANGED <<order, applied, upToDate, proposals, earlier, quoteVars>>
  BY QuoteConstants DEF OrderIInv, OrderTypeOK, QuotesTypeOK, Start, StartGated
<1>2. e \notin upToDate
  BY <1>1 DEF OrderIInv, FoundTheRow
<1>3. CASE Start(e, k)
  <2>. DEFINE r == [IdleCall EXCEPT !.at = "find", !.key = k]
  <2>1. r \in Call /\ r.at = "find" /\ r.command = "ungated"
    BY IdleCallType DEF IdleCall, Call
  <2>2. calls' = [calls EXCEPT ![e] = r]
    BY <1>3 DEF Start
  <2>. HIDE DEF r
  <2>3. CallSound(r)
    BY <2>1 DEF CallSound, Gated
  <2>. QED
    BY <1>1, <1>2, <2>1, <2>2, <2>3, CallMoves
<1>4. CASE \E c \in Gated, q \in DOMAIN quotes, right \in BOOLEAN : StartGated(e, c, k, q, right)
  <2>1. PICK c \in Gated, q \in DOMAIN quotes, right \in BOOLEAN : StartGated(e, c, k, q, right)
    BY <1>4
  <2>2. PICK sound \in BOOLEAN : sound = (right /\ ~quotes[q].expired)
    OBVIOUS
  <2>. DEFINE r == [IdleCall EXCEPT !.at = "find", !.command = c, !.key = k, !.quote = q,
                                    !.sound = sound]
  <2>3. q \in 0..MaxQuotes
    BY <1>1
  <2>4. r \in Call /\ r.at = "find" /\ r.command = c /\ r.quote = q
    BY <2>3, IdleCallType DEF IdleCall, Call
  <2>5. calls' = [calls EXCEPT ![e] = r]
    BY <2>1, <2>2 DEF StartGated
  <2>. HIDE DEF r
  <2>6. CallSound(r)
    BY <2>4 DEF CallSound
  <2>. QED
    BY <1>1, <1>2, <2>4, <2>5, <2>6, CallMoves
<1>. QED
  BY <1>3, <1>4

LEMMA FindKeeps ==
  ASSUME OrderIInv, NEW e \in Executions, Find(e)
  PROVE  OrderIInv'
<1>1. PICK k \in Call : k = calls[e]
  BY Typed DEF OrderIInv
<1>2. PICK at : at = IF k.command \in Gated THEN "quote" ELSE "commit"
  OBVIOUS
<1>3. PICK status \in Statuses : status = order.status
  BY Typed DEF OrderIInv, Row
<1>. DEFINE r == [k EXCEPT !.at = at, !.found = status]
<1>4. /\ r \in Call /\ r.at = at /\ r.found = status /\ r.command = k.command
      /\ r.quote = k.quote
  BY <1>2 DEF Call
<1>5. /\ calls' = [calls EXCEPT ![e] = r] /\ upToDate' = upToDate \cup {e}
      /\ k.at = "find" /\ UNCHANGED <<order, applied, proposals, earlier, quoteVars>>
  BY <1>1, <1>2, <1>3 DEF Find
<1>. HIDE DEF r
<1>6. CallSound(k)
  BY <1>1 DEF OrderIInv
<1>7. CallSound(r)
  BY <1>2, <1>4, <1>5, <1>6 DEF CallSound
<1>. QED
  BY <1>2, <1>3, <1>4, <1>5, <1>7, CallMoves

\* The call goes on to its commit.
LEMMA CommittingType ==
  ASSUME OrderIInv, NEW e \in Executions,
         NEW command \in Gated \cup {"mark_manual_review"}, command \in Gated => Cleared(command)
  PROVE  /\ Committing(e, command) \in Call /\ CallSound(Committing(e, command))
         /\ Committing(e, command).at = "commit"
         /\ Committing(e, command).found = calls[e].found
<1>1. PICK r : r = Committing(e, command)
  OBVIOUS
<1>2. /\ r \in Call /\ r.at = "commit" /\ r.found = calls[e].found /\ r.command = command
  <2>1. PICK k \in Call : k = calls[e]
    BY Typed DEF OrderIInv
  <2>2. r = [k EXCEPT !.at = "commit", !.command = command, !.quote = 0, !.sound = TRUE]
    BY <1>1, <2>1 DEF Committing
  <2>3. MaxQuotes \in Nat
    BY QuoteConstants
  <2>4. command \in Gated \cup {"ungated", "mark_manual_review"} /\ 0 \in 0..MaxQuotes
    BY <2>3
  <2>5. /\ r = [at |-> "commit", command |-> command, key |-> k.key, quote |-> 0,
                sound |-> TRUE, found |-> k.found]
        /\ k.key \in Keys \cup {FreshKey} /\ k.found \in Statuses
    BY <2>2 DEF Call
  <2>6. r \in Call
    BY <2>4, <2>5 DEF Call
  <2>. QED
    BY <2>1, <2>5, <2>6
<1>3. CallSound(r)
  BY <1>2 DEF CallSound
<1>. QED
  BY <1>1, <1>2, <1>3

LEMMA GateKeeps ==
  ASSUME OrderIInv, NEW e \in Executions,
         ReadQuote(e) \/ QuoteUnknown(e) \/ ReadConfirmations(e)
  PROVE  OrderIInv'
<1>1. PICK k \in Call : k = calls[e]
  BY Typed DEF OrderIInv
<1>2. CallSound(k) /\ calls \in [Executions -> Call]
  BY <1>1, Typed DEF OrderIInv
<1>3. k.at \in {"quote", "confirmations"} /\ UNCHANGED <<order, applied, proposals, earlier, quoteVars>>
  BY <1>1 DEF ReadQuote, QuoteUnknown, ReadConfirmations
<1>4. e \in upToDate => k.found = order.status
  BY <1>1 DEF OrderIInv, FoundTheRow
<1>5. upToDate' = StillWorking(e) \/ upToDate' = upToDate
  BY DEF ReadQuote, QuoteUnknown, ReadConfirmations
<1>6. ASSUME calls' = [calls EXCEPT ![e] = IdleCall], upToDate' = StillWorking(e)
      PROVE  OrderIInv'
  <2>1. calls'[e].at = "idle"
    BY <1>2, <1>6, IdleCallType
  <2>2. upToDate' = upToDate \ {e}
    BY <1>6, <2>1 DEF StillWorking
  <2>. QED
    BY <1>3, <1>6, <2>2, CallEnds
<1>7. ASSUME NEW r \in Call, calls' = [calls EXCEPT ![e] = r], CallSound(r),
             r.at \in {"confirmations", "commit"}, r.found = k.found
      PROVE  OrderIInv'
  <2>1. calls'[e] = r
    BY <1>2, <1>7
  <2>2. upToDate' = upToDate
    BY <1>5, <1>7, <2>1 DEF StillWorking
  <2>. QED
    BY <1>3, <1>4, <1>7, <2>2, CallMoves
<1>8. ASSUME calls' = [calls EXCEPT ![e] = Halting(e)]
      PROVE  OrderIInv'
  <2>1. /\ Halting(e) \in Call /\ CallSound(Halting(e)) /\ Halting(e).at = "commit"
        /\ Halting(e).found = k.found
    BY <1>1, CommittingType DEF Halting, Gated
  <2>2. PICK r : r = Halting(e)
    OBVIOUS
  <2>. QED
    BY <1>7, <1>8, <2>1, <2>2
<1>9. CASE QuoteUnknown(e)
  BY <1>8, <1>9 DEF QuoteUnknown
<1>10. CASE ReadQuote(e)
  <2>1. PICK q : q = k.quote
    OBVIOUS
  <2>2. /\ k.at = "quote" /\ upToDate' = StillWorking(e)
        /\ calls' = [calls EXCEPT ![e] =
              CASE ~Active(q) -> Halting(e)
                [] Active(q) /\ Final(q) # (calls[e].command = "mark_funding_pending") -> IdleCall
                [] OTHER -> IF ~calls[e].sound THEN Halting(e)
                            ELSE IF quotes[q].approval = "required" THEN IdleCall
                            ELSE [calls[e] EXCEPT !.at = "confirmations"]]
    BY <1>1, <1>10, <2>1 DEF ReadQuote
  <2>3. CASE ~Active(q)
    BY <1>8, <2>2, <2>3
  <2>4. CASE Active(q) /\ Final(q) # (k.command = "mark_funding_pending")
    BY <1>1, <1>6, <2>2, <2>4
  <2>5. CASE Active(q) /\ Final(q) = (k.command = "mark_funding_pending")
    <3>1. CASE ~k.sound
      BY <1>1, <1>8, <2>2, <2>5, <3>1
    <3>2. CASE k.sound /\ quotes[q].approval = "required"
      BY <1>1, <1>6, <2>2, <2>5, <3>2
    <3>3. CASE k.sound /\ quotes[q].approval # "required"
      <4>. DEFINE r == [k EXCEPT !.at = "confirmations"]
      <4>1. /\ r \in Call /\ r.at = "confirmations" /\ r.found = k.found /\ r.quote = q
            /\ r.command = k.command
        BY <2>1 DEF Call
      <4>2. calls' = [calls EXCEPT ![e] = r]
        BY <1>1, <2>2, <2>5, <3>3
      <4>. HIDE DEF r
      <4>3. k.command \in Gated /\ q \in DOMAIN quotes
        BY <1>2, <2>1, <2>2 DEF CallSound
      <4>4. CallSound(r)
        BY <2>5, <3>3, <4>1, <4>3 DEF CallSound, Fits
      <4>. QED
        BY <1>7, <4>1, <4>2, <4>4
    <3>. QED
      BY <3>1, <3>2, <3>3
  <2>. QED
    BY <2>3, <2>4, <2>5
<1>11. CASE ReadConfirmations(e)
  <2>1. /\ k.at = "confirmations" /\ upToDate' = StillWorking(e)
        /\ calls' = [calls EXCEPT ![e] = IF Agreed(k.quote) THEN Committing(e, k.command)
                                         ELSE IdleCall]
    BY <1>1, <1>11 DEF ReadConfirmations
  <2>2. k.command \in Gated /\ Fits(k.quote, k.command)
    BY <1>2, <2>1 DEF CallSound
  <2>3. CASE Agreed(k.quote)
    <3>1. Cleared(k.command)
      BY <2>2, <2>3 DEF Cleared, Fits, Agreed
    <3>2. PICK r : r = Committing(e, k.command)
      OBVIOUS
    <3>3. r \in Call /\ CallSound(r) /\ r.at = "commit" /\ r.found = k.found
      BY <1>1, <2>2, <3>1, <3>2, CommittingType
    <3>. QED
      BY <1>7, <2>1, <2>3, <3>2, <3>3
  <2>4. CASE ~Agreed(k.quote)
    BY <1>6, <2>1, <2>4
  <2>. QED
    BY <2>3, <2>4
<1>. QED
  BY <1>9, <1>10, <1>11

LEMMA EndKeeps ==
  ASSUME OrderIInv, NEW e \in Executions, Abandon(e) \/ Refuse(e)
  PROVE  OrderIInv'
BY CallEnds DEF Abandon, Refuse

----------------------------------------------------------------------------
\* The row is written: nobody holds its version any more.
LEMMA RowWritten ==
  ASSUME OrderIInv, NEW to \in Statuses, NEW from \in Statuses \ {"manual_review"},
         \/ order' = Moved(from, to)
         \/ from = "open" /\ order' = Moved("manual_review", to) /\ to # "manual_review",
         applied' \in [Keys -> Nat], \A k \in Keys : applied'[k] <= 1,
         upToDate' = {}, UNCHANGED quoteVars,
         calls' \in [Executions -> Call], \A e \in Executions : calls'[e] \in {calls[e], IdleCall},
         proposals' \in [Proposals -> Proposal], earlier' \subseteq Proposals,
         \A p \in earlier' : proposals'[p] # NoProposal
  PROVE  OrderIInv'
<1>1. "open" \in Statuses \ {"manual_review"}
  BY DEF Statuses
<1>2. order' \in Row /\ (order'.status # "manual_review" => order'.previous = "open")
  BY <1>1 DEF Row, Moved
<1>3. OrderTypeOK'
  BY <1>2 DEF OrderIInv, OrderTypeOK, Call, Row, Proposal, quoteVars, taskVars, QuotesTypeOK
<1>4. ASSUME NEW d \in Executions PROVE CallSound(calls[d])'
  <2>1. PICK x : x = calls'[d]
    OBVIOUS
  <2>2. CallSound(x)
    BY <2>1, IdleCallType DEF OrderIInv
  <2>3. CallSound(x)'
    BY <2>2 DEF CallSound, Fits, Cleared, Final, Required, quoteVars
  <2>. QED
    BY <2>1, <2>3
<1>5. FoundTheRow' /\ EarlierIsStale'
  BY DEF FoundTheRow, EarlierIsStale
<1>. QED
  BY <1>3, <1>4, <1>5 DEF OrderIInv

\* What a command that is applied found is what is there.
LEMMA AppliesToTheRow ==
  ASSUME OrderIInv, NEW e \in Executions, NEW command \in Commands, Apply(e, command)
  PROVE  /\ calls[e].found = order.status
         /\ order.status \in Statuses \ (Terminal \cup {"manual_review"})
         /\ order' = Moved(order.status, Rules[command].to)
         /\ order'.status = Rules[command].to
<1>1. calls[e].found = order.status
  BY DEF Apply, UnchangedSinceFind, OrderIInv, FoundTheRow
<1>2. order.status \in Rules[command].from /\ order' = Moved(order.status, Rules[command].to)
  BY <1>1 DEF Apply
<1>3. order'.status = Rules[command].to
  BY <1>2 DEF Moved
<1>. QED
  BY <1>1, <1>2, <1>3, RulesOfTheTable

LEMMA ApplyKeeps ==
  ASSUME OrderIInv, NEW e \in Executions, NEW command \in Commands, Apply(e, command)
  PROVE  OrderIInv'
<1>1. PICK to \in Statuses, from \in Statuses \ {"manual_review"} :
           to = Rules[command].to /\ from = order.status
  BY AppliesToTheRow, RulesOfTheTable
<1>2. order' = Moved(from, to)
  BY <1>1, AppliesToTheRow
<1>3. PICK k \in Keys \cup {FreshKey} : k = calls[e].key
  BY Typed DEF OrderIInv, Call
<1>4. /\ ~(k \in Keys /\ applied[k] > 0) /\ upToDate' = {} /\ UNCHANGED <<proposals, quoteVars>>
      /\ applied' = IF k \in Keys THEN [applied EXCEPT ![k] = @ + 1] ELSE applied
      /\ earlier' \in {earlier, {p \in Proposals : proposals[p] # NoProposal}}
      /\ calls' = [calls EXCEPT ![e] = IdleCall]
  BY <1>3 DEF Apply, AlreadyApplied
<1>5. applied \in [Keys -> Nat] /\ \A x \in Keys : applied[x] <= 1
  BY DEF OrderIInv, OrderTypeOK
<1>6. applied' \in [Keys -> Nat] /\ \A x \in Keys : applied'[x] <= 1
  <2>1. CASE k \in Keys
    <3>1. applied[k] = 0
      BY <1>4, <1>5, <2>1
    <3>. QED
      BY <1>4, <1>5, <2>1, <3>1
  <2>2. CASE k \notin Keys
    BY <1>4, <1>5, <2>2
  <2>. QED
    BY <2>1, <2>2
<1>7. /\ calls' \in [Executions -> Call]
      /\ \A d \in Executions : calls'[d] \in {calls[d], IdleCall}
  BY <1>4, IdleCallType, Typed DEF OrderIInv
<1>8. /\ proposals' \in [Proposals -> Proposal] /\ earlier' \subseteq Proposals
      /\ \A p \in earlier' : proposals'[p] # NoProposal
  BY <1>4, Typed DEF OrderIInv, OrderTypeOK, EarlierIsStale
<1>. QED
  BY <1>2, <1>4, <1>6, <1>7, <1>8, RowWritten

LEMMA GovernanceKeeps ==
  ASSUME OrderIInv, Governance
  PROVE  OrderIInv'
<1>1. /\ order \in Row /\ calls \in [Executions -> Call] /\ proposals \in [Proposals -> Proposal]
      /\ earlier \subseteq Proposals /\ applied \in [Keys -> Nat]
      /\ \A k \in Keys : applied[k] <= 1
      /\ \A p \in earlier : p \notin upToDate /\ proposals[p] # NoProposal
      /\ upToDate \subseteq Executions \cup Proposals \cup {Context}
      /\ Executions \cap Proposals = {} /\ Nobody \notin Operators
  BY Typed, OrderConstants DEF OrderIInv, OrderTypeOK, EarlierIsStale
<1>2. NoProposal \in Proposal
  BY DEF NoProposal, Proposal, Statuses
<1>3. CASE Halt
  <2>1. PICK from \in Statuses \ {"manual_review"} : from = order.status
    BY <1>1, <1>3 DEF Halt, Row
  <2>2. /\ order' = Moved(from, "manual_review") /\ upToDate' = {}
        /\ earlier' = {p \in Proposals : proposals[p] # NoProposal}
        /\ UNCHANGED <<applied, calls, proposals, quoteVars>>
    BY <1>3, <2>1 DEF Halt
  <2>3. "manual_review" \in Statuses
    BY DEF Statuses
  <2>. QED
    BY <1>1, <2>2, <2>3, RowWritten
<1>4. ASSUME NEW o \in Operators, NEW p \in Proposals, Approve(o, p)
      PROVE  OrderIInv'
  <2>1. PICK to \in Statuses \ {"manual_review"} : to = order.previous
    BY <1>1 DEF Row
  <2>2. /\ order' = Moved("manual_review", to) /\ upToDate' = {}
        /\ proposals' = [proposals EXCEPT ![p] = NoProposal] /\ earlier' = earlier \ {p}
        /\ UNCHANGED <<applied, calls, quoteVars>>
    BY <1>4, <2>1 DEF Approve
  <2>3. "open" \in Statuses \ {"manual_review"}
    BY DEF Statuses
  <2>4. /\ proposals' \in [Proposals -> Proposal]
        /\ \A x \in earlier' : proposals'[x] # NoProposal
    BY <1>1, <1>2, <2>2
  <2>. QED
    BY <1>1, <2>1, <2>2, <2>3, <2>4, RowWritten
<1>5. ASSUME NEW o \in Operators, NEW p \in Proposals, ProposeResume(o, p) \/ Reject(o, p)
      PROVE  OrderIInv'
  <2>1. /\ UNCHANGED <<order, applied, calls, quoteVars>>
        /\ proposals' \in [Proposals -> Proposal] /\ earlier' \subseteq earlier
        /\ upToDate' \subseteq upToDate \cup {p}
        /\ \A x \in earlier' : x \notin upToDate' /\ proposals'[x] # NoProposal
    <3>1. CASE ProposeResume(o, p)
      <4>. DEFINE r == [proposer |-> o, previous |-> order.previous]
      <4>1. r \in Proposal
        BY <1>1 DEF Row, Proposal
      <4>2. /\ proposals' = [proposals EXCEPT ![p] = r] /\ proposals[p] = NoProposal
            /\ upToDate' = upToDate \cup {p} /\ UNCHANGED <<order, applied, calls, earlier, quoteVars>>
        BY <3>1 DEF ProposeResume
      <4>. HIDE DEF r
      <4>3. p \notin earlier
        BY <1>1, <4>2
      <4>4. \A x \in earlier : proposals'[x] = proposals[x]
        BY <1>1, <4>2, <4>3
      <4>. QED
        BY <1>1, <4>1, <4>2, <4>3, <4>4
    <3>2. CASE Reject(o, p)
      BY <1>1, <1>2, <3>2 DEF Reject
    <3>. QED
      BY <1>5, <3>1, <3>2
  <2>2. OrderTypeOK'
    BY <1>1, <2>1 DEF OrderIInv, OrderTypeOK, Proposal, quoteVars, taskVars, QuotesTypeOK
  <2>3. ASSUME NEW d \in Executions PROVE CallSound(calls[d])'
    <3>1. PICK x : x = calls[d]
      OBVIOUS
    <3>2. CallSound(x)
      BY <3>1 DEF OrderIInv
    <3>3. CallSound(x)'
      BY <2>1, <3>2 DEF CallSound, Fits, Cleared, Final, Required, quoteVars
    <3>. QED
      BY <2>1, <3>1, <3>3
  <2>4. FoundTheRow'
    <3>1. p \notin Executions
      BY <1>1
    <3>. QED
      BY <2>1, <3>1 DEF OrderIInv, FoundTheRow
  <2>5. EarlierIsStale'
    BY <2>1 DEF EarlierIsStale
  <2>. QED
    BY <1>1, <2>1, <2>2, <2>3, <2>4, <2>5 DEF OrderIInv
<1>. QED
  BY <1>3, <1>4, <1>5 DEF Governance

LEMMA RenewContextKeeps ==
  ASSUME OrderIInv, RenewContext
  PROVE  OrderIInv'
<1>1. /\ UNCHANGED <<order, applied, calls, proposals, earlier, quoteVars>>
      /\ upToDate' = upToDate \cup {Context} /\ Context \notin Executions \cup Proposals
  BY OrderConstants DEF RenewContext
<1>2. OrderTypeOK'
  BY <1>1 DEF OrderIInv, OrderTypeOK, quoteVars, taskVars, QuotesTypeOK
<1>3. ASSUME NEW d \in Executions PROVE CallSound(calls[d])'
  <2>1. PICK x : x = calls[d]
    OBVIOUS
  <2>2. CallSound(x)
    BY <2>1 DEF OrderIInv
  <2>3. CallSound(x)'
    BY <1>1, <2>2 DEF CallSound, Fits, Cleared, Final, Required, quoteVars
  <2>. QED
    BY <1>1, <2>1, <2>3
<1>4. FoundTheRow' /\ EarlierIsStale' /\ \A k \in Keys : applied'[k] <= 1
  BY <1>1 DEF OrderIInv, OrderTypeOK, FoundTheRow, EarlierIsStale
<1>. QED
  BY <1>2, <1>3, <1>4 DEF OrderIInv

LEMMA NextOrderIInv ==
  ASSUME OrderIInv, [Next]_vars
  PROVE  OrderIInv'
<1>1. CASE UNCHANGED vars
  <2>1. /\ UNCHANGED <<order, applied, calls, proposals, earlier, upToDate, quoteVars>>
    BY <1>1 DEF vars, orderVars
  <2>2. OrderTypeOK'
    BY <2>1 DEF OrderIInv, OrderTypeOK, quoteVars, taskVars, QuotesTypeOK
  <2>3. ASSUME NEW d \in Executions PROVE CallSound(calls[d])'
    <3>1. PICK x : x = calls[d]
      OBVIOUS
    <3>2. CallSound(x)
      BY <3>1 DEF OrderIInv
    <3>3. CallSound(x)'
      BY <2>1, <3>2 DEF CallSound, Fits, Cleared, Final, Required, quoteVars
    <3>. QED
      BY <2>1, <3>1, <3>3
  <2>4. FoundTheRow' /\ EarlierIsStale' /\ \A k \in Keys : applied'[k] <= 1
    BY <2>1 DEF OrderIInv, FoundTheRow, EarlierIsStale
  <2>. QED
    BY <2>2, <2>3, <2>4 DEF OrderIInv
<1>2. CASE Next
  BY <1>2, PricingKeeps, RenewContextKeeps, StartKeeps, FindKeeps, GateKeeps, EndKeeps,
     ApplyKeeps, GovernanceKeeps DEF Next, Execute
<1>. QED
  BY <1>1, <1>2

THEOREM OrderInvariance == Spec => []OrderIInv
BY InitOrderIInv, NextOrderIInv, PTL DEF Spec

\* A command sent again with its key, by however many calls and with halts in between,
\* is applied once at most.
THEOREM AppliedOnce == Spec => []AppliedAtMostOnce
<1>1. OrderIInv => AppliedAtMostOnce
  BY DEF OrderIInv, AppliedAtMostOnce
<1>. QED
  BY <1>1, OrderInvariance, PTL

\* Which steps write the row.
LEMMA RowWriters ==
  ASSUME [Next]_vars, order' # order
  PROVE  \/ \E e \in Executions, command \in Commands : Apply(e, command)
         \/ Halt
         \/ \E o \in Operators, p \in Proposals : Approve(o, p)
BY DEF Next, vars, orderVars, Pricing, RenewContext, Execute, Governance, Start, StartGated, Find,
       ReadQuote, QuoteUnknown, ReadConfirmations, Abandon, Refuse, ProposeResume, Reject

LEMMA MovesOnAgreement ==
  ASSUME OrderIInv, [Next]_vars, order'.status \in {"funding_pending", "matching"},
         order.status # "manual_review", order'.status # order.status
  PROVE  \E q \in DOMAIN quotes :
              /\ Final(q) <=> order'.status = "funding_pending"
              /\ Required(q) \subseteq quotes[q].confirmed
              /\ quotes[q].approval # "required"
<1>1. PICK e \in Executions, command \in Commands : Apply(e, command)
  <2>1. ~Halt
    BY DEF Halt, Moved
  <2>2. \A o \in Operators, p \in Proposals : ~Approve(o, p)
    BY DEF Approve
  <2>. QED
    BY <2>1, <2>2, RowWriters
<1>2. order'.status = Rules[command].to
  BY <1>1, AppliesToTheRow
<1>3. /\ command \in Gated
      /\ order'.status = "funding_pending" <=> command = "mark_funding_pending"
  BY <1>2, RulesOfTheTable DEF Gated
<1>4. calls[e].at = "commit" /\ calls[e].command = command
  BY <1>1, <1>3 DEF Apply, Carried
<1>5. Cleared(command)
  BY <1>3, <1>4 DEF OrderIInv, CallSound
<1>. QED
  BY <1>3, <1>5 DEF Cleared, Fits

\* An order goes to funding or to matching only on a quote to which everybody it concerns
\* agreed, although the gate is asked outside the order's transaction.
THEOREM OrdersMoveOnAgreement == Spec => MovedOnAgreement
<1>1. OrderIInv /\ [Next]_vars =>
        [order'.status \in {"funding_pending", "matching"} /\ order.status # "manual_review"
            /\ order'.status # order.status =>
          \E q \in DOMAIN quotes :
              /\ Final(q) <=> order'.status = "funding_pending"
              /\ Required(q) \subseteq quotes[q].confirmed
              /\ quotes[q].approval # "required"]_vars
  BY MovesOnAgreement
<1>. QED
  BY <1>1, OrderInvariance, PTL DEF MovedOnAgreement, Spec

LEMMA ResumesByTwo ==
  ASSUME OrderIInv, [Next]_vars
  PROVE  /\ order.status \in Terminal => order' = order
         /\ order.status = "manual_review" /\ order' # order =>
              /\ order'.status = order.previous
              /\ \E o \in Operators, p \in Proposals \ earlier :
                   Approve(o, p) /\ o # proposals[p].proposer
<1>1. SUFFICES ASSUME order' # order, order.status \in Terminal \cup {"manual_review"}
               PROVE  /\ order.status = "manual_review" /\ order'.status = order.previous
                      /\ \E o \in Operators, p \in Proposals \ earlier :
                           Approve(o, p) /\ o # proposals[p].proposer
  BY DEF Terminal
<1>2. PICK o \in Operators, p \in Proposals : Approve(o, p)
  <2>1. ~Halt
    BY <1>1 DEF Halt
  <2>2. \A e \in Executions, command \in Commands : ~Apply(e, command)
    BY <1>1, AppliesToTheRow
  <2>. QED
    BY <1>1, <2>1, <2>2, RowWriters
<1>3. order.status = "manual_review" /\ order'.status = order.previous
  BY <1>2 DEF Approve, Moved
<1>4. p \notin earlier /\ o # proposals[p].proposer
  BY <1>2 DEF Approve, SameHalt, MayReview, OrderIInv, EarlierIsStale
<1>. QED
  BY <1>2, <1>3, <1>4

\* A halted order moves only back to where it was, by two people, on a proposal of this
\* very halt; a settled or refunded one never.
THEOREM HaltsEndByTwo == Spec => ResumedByTwo
<1>1. OrderIInv /\ [Next]_vars =>
        [/\ order.status \in Terminal => order' = order
         /\ order.status = "manual_review" /\ order' # order =>
              /\ order'.status = order.previous
              /\ \E o \in Operators, p \in Proposals \ earlier :
                   Approve(o, p) /\ o # proposals[p].proposer]_vars
  BY ResumesByTwo
<1>. QED
  BY <1>1, OrderInvariance, PTL DEF ResumedByTwo, Spec

LEMMA QuotesFollowTheTask ==
  ASSUME OrderIInv, [Next]_vars, NEW q \in DOMAIN quotes',
         q \notin DOMAIN quotes \/ quotes'[q].confirmed # quotes[q].confirmed
  PROVE  /\ q = Len(quotes') /\ Loadable /\ quotes'[q].fingerprint = terms
         /\ order.status \notin {"manual_review", "disputed"}
<1>1. quotes \in Seq(Quote) /\ Len(quotes) \in Nat /\ quotes' # quotes
  BY DEF OrderIInv, OrderTypeOK, QuotesTypeOK
<1>2. Pricing
  BY <1>1 DEF Next, vars, quoteVars, RenewContext, Execute, Governance, Start, StartGated, Find,
              ReadQuote, QuoteUnknown, ReadConfirmations, Abandon, Refuse, Apply, Halt,
              ProposeResume, Reject, Approve
<1>3. CASE \E reviewed \in Reviews : Quotable /\ Issue(reviewed)
  <2>1. PICK reviewed \in Reviews : Quotable /\ Issue(reviewed)
    BY <1>3
  <2>2. PICK r : r = [fingerprint |-> pricing, confirmed |-> {}, approval |-> reviewed,
                      expired |-> FALSE]
    OBVIOUS
  <2>3. quotes' = Append(quotes, r) /\ Loadable /\ pricing = terms /\ r.fingerprint = pricing
    BY <2>1, <2>2 DEF Issue, SamePrice
  <2>4. q = Len(quotes') /\ quotes'[q] = r
    BY <1>1, <2>3
  <2>. QED
    BY <2>1, <2>3, <2>4 DEF Quotable
<1>4. ASSUME NEW x \in DOMAIN quotes, Quotable, NEW who \in Parties, Confirm(x, who)
      PROVE  /\ q = Len(quotes') /\ Loadable /\ quotes'[q].fingerprint = terms
             /\ order.status \notin {"manual_review", "disputed"}
  <2>1. PICK r : r = [quotes[x] EXCEPT !.confirmed = @ \cup {who}]
    OBVIOUS
  <2>2. quotes[x] \in Quote
    BY <1>1
  <2>3. /\ quotes' = [quotes EXCEPT ![x] = r] /\ x = Len(quotes) /\ Loadable
        /\ quotes[x].fingerprint = terms /\ r.fingerprint = terms
    BY <1>4, <2>1, <2>2 DEF Confirm, Confirmable, Active, Quote
  <2>4. q = x /\ Len(quotes') = Len(quotes) /\ quotes'[x] = r
    BY <1>1, <2>3
  <2>. QED
    BY <1>4, <2>3, <2>4 DEF Quotable
<1>5. ASSUME NEW x \in DOMAIN quotes, ApproveManual(x) \/ Expire(x)
      PROVE  FALSE
  <2>1. \A y \in DOMAIN quotes : quotes'[y].confirmed = quotes[y].confirmed
    <3>1. PICK r : /\ quotes' = [quotes EXCEPT ![x] = r] /\ r.confirmed = quotes[x].confirmed
      <4>1. quotes[x] \in Quote
        BY <1>1
      <4>. QED
        BY <1>5, <4>1 DEF ApproveManual, Expire, Quote
    <3>. QED
      BY <1>1, <3>1
  <2>2. DOMAIN quotes' = DOMAIN quotes
    BY <1>5 DEF ApproveManual, Expire
  <2>. QED
    BY <2>1, <2>2
<1>6. SaveGraph \/ SaveProgress \/ PriceNodes \/ AskAssessor \/ GiveUpPricing => quotes' = quotes
  BY DEF SaveGraph, SaveProgress, PriceNodes, AskAssessor, GiveUpPricing
<1>. QED
  BY <1>1, <1>2, <1>3, <1>4, <1>5, <1>6 DEF Pricing

\* Quotes are issued and confirmed only for the task as it is at that moment, and never
\* while the order is halted or in dispute.
THEOREM QuotesAreOfTheTask == Spec => PricingFollowsTheTask
<1>1. OrderIInv /\ [Next]_vars =>
        [\A q \in DOMAIN quotes' :
          (q \notin DOMAIN quotes \/ quotes'[q].confirmed # quotes[q].confirmed) =>
              /\ q = Len(quotes')
              /\ Loadable /\ quotes'[q].fingerprint = terms
              /\ order.status \notin {"manual_review", "disputed"}]_vars
  BY QuotesFollowTheTask
<1>. QED
  BY <1>1, OrderInvariance, PTL DEF PricingFollowsTheTask, Spec
=============================================================================
