# TLA+ models of agent-market

Specifications, TLC configurations and TLAPS proofs for agent-market: the settlement contracts, the
verification of wallet transactions, the order with its risk quotes, its commercial ledger and its
governance, the matching of agents, the Queen's planning and orchestration, the local agent runtime, the
login, planning, pricing, chat, task, order and agents' pages, the performance pipeline and the trainer. Every definition is
translated from the source; `PROJECT.json` names the lines of each one, the runs, the mutants, the hazards and the findings.

To run: `tlc -workers 2 -config MCOrders.cfg MCOrders` (any pair of the table in section 3) and
`tlapm DisputeResolutionProofs.tla` (any `*Proofs.tla`).

## 1. The system

A publisher posts a task and a budget. A Queen agent plans a task graph, the publisher approves
it, agents are priced, matched and assigned, work is delivered, and the budget is settled or
refunded on chain. The parts, with the state each keeps:

| Part | State | Operations | Talks to |
| --- | --- | --- | --- |
| `AgentMarketEscrow.sol` (V2) | tasks, used request references, reward reserve, tokens held | create, assign, accept, submit, acceptWork, timeout, openDispute, resolveDispute | the committee, in the same transaction, in both directions |
| `ArbitrationCommittee.sol` | a case per task, who has voted, a cursor over the ring of members | openCase, declareConflict, castVote, authorize escrow | the escrow |
| `AgentMarketWorkflowEscrow.sol` (V3), `TaskStakeReceipt.sol` | tasks, node assignments, stake receipts (ERC-721) | create, anchor, assign, accept, dispute, resolve, claim, cancel, transfer | the token |
| Chain verification (`app/api/transactions/verify/route.ts`, `chain/`) | a row per transaction intent | bind a hash, read two sources, save a verdict | RPC, Blockscout, Postgres |
| Orders (`application/order-service.ts`, `postgres-order-store.ts`) | the task's row (status, version, status before a halt), idempotency rows | twelve commands with a transition table | quote gate, governance |
| Risk quotes (`risk-pricing-service.ts`, `risk-quote-store.ts`, `postgres-risk-task-source.ts`) | quotes with confirmations and approvals | issue, confirm, approve, expire, evaluate | an assessor (awaited), the Queen's saved graph |
| Governance (`governance/service.ts`) | proposals, tickets, releases | halt, propose and review a resume, and others | the order's row |
| Queen asynchronous runtime (`queen-*.ts` of the local agent runner, `queen-planning-*.ts` of the transaction engine) | planning request and approval, outbox, queue, operation ledger, checkpoint of a LangGraph thread, workflow snapshot | request, approve, publish, consume, plan, execute | SNS/SQS, Postgres, agents |
| Commercial ledger (`commercial/service.ts`) | an order's children, observed income and penalties, manifest, claims, journal | open, deliver, accept, observe, manifest, claim, reconcile | the task's order as its source, payouts outside |
| Matching (`matching/service.ts`, `matcher-go`, `VRFExplorationSelector.sol`) | the task's policy, the frozen pool, the selection on chain, candidates | configure, refresh, match, freeze, fulfil, assign | the oracle's chain, the registry of agents |
| Wallet authentication (`auth/`, `walletSession.ts`) | challenges, sessions; tabs, queues and one cookie in the browser | issue, verify, log out, switch accounts, broadcast | the wallet, every route |
| Transaction intents (`app/api/transactions/`, `policy.ts`, `chainClient.ts`) | intents under an identifier | authorise, bind, store, hand to the wallet | the task, the arbiter's review, chain verification |
| Reputation (`postgres-reputation-v2-store.ts`) | grants, reviews, scores | grant, submit, score | accepted orders |
| Governance releases and tickets (`governance/service.ts`) | listings, releases, proposals, tickets, events | propose, review, roll back, open, resolve | the registry |
| Recovery replay (`recovery/replay.ts`) | dead letters, leases | request, claim, publish, mark | the queue |
| `StakeYieldVault.sol`, `YDToken.sol` | positions, reserve, balances | stake, withdraw, claim, fund, faucet, airdrop | each other |
| Queen orchestrator and ranking (`queen-orchestrator.ts`, `queen-ranking.ts`, `jev-decision-adapter.ts`) | the record of a task, in memory and in the store; seats offered to agents | thirteen operations on the record, each a load, a change and a save | agents, the store, the runtime |
| Local agent runner and stream runtime (`runner.ts`, `stream-runtime.ts`, `signing.ts`, `runtime-server.ts`) | leases answered, nonces, runs under way | poll, run, abort, report; verify, stream, orchestrate | the control plane, the edge, models |
| Pricing, planning and chat pages with the edge (`LiveRiskQuotePanel.tsx`, `LocalAgentsPage.tsx`, `pages-worker.ts`) | what a page shows, what is under way, which wallet | load, create, confirm; read, propose, confirm; prompt, cancel | the transaction engine, the runtime |
| Performance pipeline (`performance/`, `infra/aws/template.yaml`, `worker.py`) | page loads, reports, queue, tasks, samples, summaries | render, hydrate, report, ingest, dispatch, aggregate | the browser, SQS, ECS, Postgres |
| Trainer and model registry (`services/trainer`) | the exposure log, artifacts, the registry's file | train, gate, register, decide, activate, predict | the reviewers, the file system |
| Order page (`OrderDetailRoute.tsx`, `OrderDetailPage.tsx`, `orderClient.ts`, `api/orders/`) | the session it asked for, the cached order, reads and commands under way | sign in, read, press a button, read again | the order service, the cookie jar all tabs share |
| Task page (`DirectoryPages.tsx`, `api/tasks/`) | the form, the step, the pending transaction | validate, publish, recheck | tasks, intents, verification, the wallet |
| Owner's agents (`ManagedAgentsPage.tsx`, `ownerAgentLifecycle.ts`, `ownerAgentRegistry.ts`) | records in the browser's database, each with its history; what each tab lists | register, list, move on, revise, remove | the database all tabs share |
| Settlement projection, outbox dispatch, the agent boundary, Temporal scheduling, the rest of the web client and of the HTTP routes, the schema | | | not modelled, with the reason under `components` in `PROJECT.json` and in section 6 |

What is hard in it:

* **Two contracts in one transaction.** A dispute must exist in both or in neither, recusals replace
  seats while votes are in, and the ruling vote pays out.
* **Reads and writes apart.** The order service computes from a row, asks the quote gate across two
  more reads, and writes later; the assessor is awaited between reading a task and quoting it; a
  verification reads two sources while the chain reorganizes and other calls save verdicts.
* **Delivery.** Events are published more than once, leases lapse while a worker still runs, workers
  die between an external effect and the record of it, owners finish after they were given up.
* **Permissions that end.** A request expires or its task moves on while agents are being called.
* **Rounding and shortfall.** Yields larger than the reserve, shares that do not divide a budget or a
  deposit, plans frozen below the full share, yield truncated at every checkpoint.
* **Two copies of a record.** Several runtimes hold the same task in memory and work on it across awaits;
  several tabs hold one cookie; a panel shows a quote while the task goes on; a page writes a reply by position.
* **Answers that do not come.** The edge gives up after ten seconds on work that takes two minutes, a
  launched task's answer is lost, a confirmation is recorded although nobody heard so.
* **Files and clocks.** A registry restored from a backup, nonces forgotten by a restart, samples of one
  request spread over the boundary between training and holdout.

What makes each part correct is stated by its properties, section 4.

## 2. Modules

| Module | Models | Extends |
| --- | --- | --- |
| `Collections`, `SettlementParties` | sums of tokens over a finite set (as the cardinality of a set of coins, so that no recursion stands in the way of a proof), tables, subsequences, and sets put in order by rank; accounts and tasks of the V2 contracts | |
| `AgentMarketEscrow` | the V2 escrow, one action per external function; the two that involve the committee are completed below | `Collections`, `SettlementParties` |
| `ArbitrationCommittee` | the committee by itself, with `CommitteeSpec` | `SettlementParties` |
| `DisputeResolution` | both contracts as deployed: `OpenDispute` conjoins the escrow's lock and `OpenCase`, `Vote` conjoins `CastVote` and, for the ruling vote, `ResolveDispute` | both |
| `EscrowPromise` | abstract: a budget is pledged once, backed while pledged, released once | `Collections` |
| `WorkflowEscrow` | the V3 escrow and its receipts | `Collections` |
| `ChainVerification` | the row of one intent, any number of verification calls, two sources and a chain that reorganizes | |
| `RiskQuotes` | the quotes of one task and the terms they are for | |
| `OrderLifecycle` | `OrderService.execute` over the Postgres store, the gate, governance | `RiskQuotes` |
| `QueenAsyncWorker` | one task planned, approved and executed by workers | |
| `CommercialLedger` | the commercial order of one task; a command is a step, as it holds the locks of task and order | `Collections` |
| `MatchSelection` | one task's policy, the matcher's candidates, the draw and the chain it is read from at two depths | `Collections` |
| `WalletSessions` | the browser's and the server's side of a login | |
| `TransactionIntents` | what a wallet may be asked to sign, from the route to the wallet | |
| `Reputation` | grants, submissions that check one query at a time, and the score | |
| `GovernanceReleases` | proposals over a listing, their review, tickets and events, sent from desks that retry | |
| `RecoveryReplay` | replays under leases that lapse | |
| `YieldVault` | vault and token | |
| `QueenOrchestrator` | the record of one task, several runtimes and callers over one store | |
| `AgentRouting` | the seats offered for a node, and when advice about them is believed | `Collections` |
| `AgentRunner`, `StreamRuntime` | leases; signed requests and what they open | |
| `RiskPricing` | assessor, amounts, routes, edge, panel and an operator's approval of one task's quotes | `Collections` |
| `PlanningConsole`, `AgentChat` | the planning page and the agents' page, each with the edge | `Collections` (`AgentChat`) |
| `PerformancePipeline` | page loads, reports, dispatcher and tasks | `Collections` |
| `Trainer` | split, gate and artifact; registry file, processes and handles | `Collections` |
| `OrderDetail` | the order page with the routes it calls, while the order moves | |
| `TaskPublication` | the task page from the draft to the verified funding | |
| `OwnerAgents` | the agents of the browser's database and the pages of all tabs over it | |
| `MCMarketServices`, `MCPlatform` | instances of several of these at once, see section 3 | the modules from `CommercialLedger` on |
| `MC*` | instances for TLC | the above |
| `*Proofs` | theorems and proofs | the module they are about |

How state and actions correspond to the code:

* **Contracts.** Mappings are functions, `msg.sender` is the parameter `caller`, a revert condition is a
  guard, since a call that reverts changes nothing. Token transfers move `balance` and `held`, and a
  transfer that is not covered reverts the call. `block.timestamp` is `clock`. Amounts are unbounded naturals: Solidity 0.8
  reverts on overflow, and no amount in reach comes near 2^256.
* **`ChainVerification`.** One action per await of the verify route: `Submit` (recordSubmission),
  `FindStatus`, `FindBlock`, `ReadReceipt` and `ReadCanonical` per source, `Save`. `Verdict` keeps the
  order of the checks of `reconcileTransaction`. Everything that can be wrong with a transaction
  (sender, amount, contents of the event, receipt status) is one bit of the block, the same for both sources.
  Each source brings its own logs, though: those of the RPC are in the receipt, those of Blockscout come from a call
  of their own and are empty while its index lags (`readers.ts:233-242`), and a source without the event makes the
  verdict `failed` (`reconcile.ts:363-367`). `standing` and `unshown`, the blocks whose transaction was once shown without its
  logs, are history variables.
* **`OrderLifecycle`.** `Start` is `findResult`, `Find` the read the command is computed from, `ReadQuote` and
  `ReadConfirmations` the gate's two reads, `Apply` and `Refuse` the transaction of `commit`. The version
  column is compared and never otherwise read, so the model keeps the set of those who hold its
  current value (`upToDate`), which every write of the row empties; this needs no bound on versions.
  `earlier` is a history variable: the proposals made before the present halt.
* **`RiskQuotes`.** A fingerprint is the number of the terms it was taken of. `graph` says whether the
  prices of the graph's nodes are of the record the runtime saved last, which is what
  `authoritativeRiskTaskFromDatabase` asks for. Prices and risk contexts are written by nothing in this
  repository; `PriceNodes` and `RenewContext` stand for whoever writes them.
* **`QueenAsyncWorker`.** A worker's `at` is the next thing `consumeOneQueenSqsMessage`, the ledger,
  `createQueenDurablePlanning` or `createQueenDurableApproval` does; `thread` is the checkpoint LangGraph writes
  after each node; `ledger`, `outbox`, `queue` are the tables and the queue. Everything a worker asks the
  database again before it acts turns from yes to no only once and is the flag `live`. `calls` is a history
  of agent calls. A message is receivable while somebody holds it, as its visibility may lapse. The
  graph and assignment hashes of an approval are left out: no mutation from outside reaches the
  snapshot any more (`stream-runtime.ts` refuses them), and nodes that the runtime appends are exempt.
* **Services under a lock.** `CommercialLedger`, `MatchSelection`, `RecoveryReplay` and `GovernanceReleases` run a command
  in one transaction that locks its rows, so a command is one action, and one that fails changes
  nothing. What lies outside such a transaction is a step of its own: the read of the oracle, the
  publish between claim and mark, the answer that a desk may lose and ask for again under the same key.
  Governance starts after a listing's first release, a state that two commands reach.
* **`WalletSessions`.** `cookie` is the jar all tabs share; each tab has a queue of logins
  and logouts (`walletSession.ts`), and broadcasts and the wallet's events are messages that arrive when
  they arrive. On the server, reading a challenge, checking the message at a remembered instant, and
  consuming it with the opening of the session are three steps; a signature is the address it recovers to.
* **`TransactionIntents`, `Reputation`.** One action per query: the read of the record and the insert of the
  intent are apart, and so are the checks of a submitted review and its transaction. The score is
  in hundredths over half-lives; only the newest `MaxEvents` reviews count (20 in the code), and experience is two
  tables (logarithms in the code), of the number of accepted orders among them and of what those orders were worth.
* **`QueenOrchestrator`.** `stored` is the row under its record version, `memory[r]` the map entry of a runtime. A
  call loads (from memory, or from the store when memory has none), changes a clone across its awaits,
  saves under the version it read, and only then replaces the memory. Agents answer anything;
  texts and dependencies are left out. `AgentRouting` fills a node's seats from any pool, with the day in half-lives.
* **`AgentRunner`, `StreamRuntime`.** A process with its maps of leases and nonces; a restart empties them. The control
  plane offers any lease at any time; requests signed at one time arrive at another, twice, or never.
* **Pages.** `RiskPricing`, `PlanningConsole` and `AgentChat` model a browser request as a record with a place in the code
  (`visits`, `flying`, `exchanges`), so that an answer may come after the wallet, the page or the prompt has
  changed. The edge is the place where a request may be given up while it is still served.
* **`OrderDetail`.** The query client holds one read at a time (`reading`), the mutation is sent, answered or waits for the
  reads it invalidated (`mutation`), and commands of a page that was reset go on without it (`orphans`). The page knows only
  its wallet; a request carries whatever session the cookie jar holds by then, so the session of each request is
  chosen among the user's wallets or none. `newest` and `effect` are history variables.
* **`TaskPublication`.** `handler` is the next request of `publishTask` or `recheckPendingTransaction`, which may fail before
  or after it took effect, as may the wallet's prompt. `escrowIntents` keeps of a stored intent what can differ
  between two requests for it, the deadline; `prompted` is what may be on the chain.
* **`OwnerAgents`.** `listing` and `saving` are the reads and writes each tab waits for; a write puts the whole record over
  whatever is stored. A record's status and version are those of the last event of its history.
* **`PerformancePipeline`.** `pages` is the browser's collector, `envelopes` what was signed, `queue` and `receives` the FIFO queue and
  its receive counts, `dispatcher` the one Lambda invocation that holds the group, `tasks` the cluster, `samples` and
  `summaries` the tables. Visibility outlasts dispatcher and task by the template's numbers, quoted in the module.
* **`Trainer`.** Samples are numbered by exposure; the splitter of scikit-learn may return any grouped
  folds, and a gate fails any set of metrics. The registry's file lock makes each operation one step,
  which a process may leave half done, after the artifact and before the file.

## 3. Runs

| Run | Config | Instance | Result |
| --- | --- | --- | --- |
| `dispute` | `MCDisputeResolution` | one task, five members of whom one is a party, three clock values, a reserve smaller than the yield | passes |
| `recused_vote` | `MCRecusedVote` | the same, one clock step | violates `RulingCarriedByTwoSeats` |
| `workflow_escrow` | `MCWorkflowEscrow` | two tasks, two nodes, shares 1 and 2 of 3 | passes |
| `chain_safety` | `MCChainVerification` | two calls, two hashes, two blocks, two confirmations wanted, one outage | passes |
| `chain_liveness` | `MCChainLiveness` | two calls, one hash, two blocks, fair | passes |
| `lost_reorg` | `MCLostReorg` | one call | violates `ConfirmedBlockStands` |
| `orders` | `MCOrders` | two executions, one repeated key, one quote, one change of terms, two operators, two proposals, halts; three pages, see below | passes |
| `stale_funding` | `MCStaleFunding` | two quotes, two changes of terms | violates `FundedOnCurrentTerms` |
| `queen_async` | `MCQueenAsyncWorker` | two workers, the approval published up to twice, one repair | passes |
| `low_risk` | `MCLowRisk` | one worker | violates `LowRiskSkipsRedTeam` |
| `market_services` | `MCMarketServices` | nine services, one per behaviour | passes |
| `platform` | `MCPlatform` | ten parts of the agents' side and the client, one per behaviour | passes |

**The two sums.** `market_services` and `platform` each check several modules that share no variable. The
variable `part` is chosen initially and stays: a behaviour takes the steps of one part and leaves the
others' variables as they began (each part not exercised begins in one fixed initial state). As the parts share nothing, any interleaving of two of them
projects onto two such behaviours, so for properties of a single part, which all of these are, nothing is lost. `part` also
splits two modules that would be too large in one piece: a page load and arriving reports
(`PerformancePipeline`), the page and other callers (`AgentChat`); there the dispatcher and the runtime are exercised
with reports and requests of either kind, not with both at once. Interchangeable identities
(two browsers, two requests, two processes) are one pair of symmetric model values that every part uses for its own.

Bounds of `market_services`:

| Part | Instance | Why it is enough |
| --- | --- | --- |
| ledger | two children of one worker, a yield, two penalties, two payouts of which one is already taken | one child to deliver and one to cancel; a penalty within and one beyond the deposit |
| match | two agents of whom one is a newcomer, two random words, two refreshes, one draw seen at the head and deep | ranking and draw pick differently, a refresh overtakes another |
| wallet | two tabs, two accounts, two logins, one switch of account | the least with which tabs and accounts can disagree |
| replay | two originals, two bodies, one request, two workers, two leases | a lease that lapses and its late worker |
| intents | two requesters, three methods, one review changed once | a payload computed before a change and stored after it |
| reviews | three orders of one agent, worth 8, 2 and 1, the first one reviewed already, the newest two reviews count (`MaxEvents`); two submissions, praise and blame, four half-lives | a submission that crosses another for its grant; ages on both sides of the window; a third review that pushes out the first |
| logins | two browsers, two wallets, one challenge | everybody races for the challenge |
| governance | an owner, an operator, a reviewer who is also an operator; two desks, three keys, one edit or revocation | retries and crossing commands; a proposal overtaken by an edit |
| vault | one staker, amounts 1 and 2, three days, 50 % a day | every truncation (a half is lost) and a reserve that runs out |

Bounds of `platform`:

| Part | Instance | Why it is enough |
| --- | --- | --- |
| queen | two callers, two runtimes, two calls from five stages of a task, agents of whom two share a model | one call overtakes the other's load or save; each operation is reached from some stage |
| leases | two pollers, three leases (one for another model, one for an offline agent), four offers | a lease offered again while and after it runs |
| streams | a public and an owner key, one nonce, a window of one, four instants, four agents, two runs | a replay within, at the edge of and beyond the window, before and after a restart |
| pricing | terms without and with nodes, three nodes of two agents, an odd budget, two quotes of either of two assessments, one of which asks for an operator's approval; one panel, two presses (`MaxPressed`), the publisher's wallet left once | deposits that do not divide, terms that change under an assessor, a quote that expires in the panel; a quote loaded or made, and then refreshed or confirmed, with and without the approval it needs |
| routing | four candidates, three models, two newcomers, three seats, a score before and after a half-life; an advice ends a behaviour, since the next draw drops it and nothing else reads it | models that repeat, a newcomer that ages, a seat nobody fills |
| trainer | four samples of three requests | requests that overlap, and a boundary between every two |
| registry | two versions, two processes, two epochs, a backup, a lost artifact | rollback to the epoch before |
| console | the publisher's wallet and another, two versions, one revision, two requests under way, two reads (`MaxReads`); in one behaviour a plan ceases to be current in one of three ways (`Ends`: revised, closed, expired) | an answer that was given up arrives under another account; the proposal spends the first reading, the confirmation the second, and either answer may be lost |
| load, reports | two reports, two tasks, two receives, one fault; painted, not painted and out of bounds | a message received again while its task runs, and dead-lettered |
| page, strangers | two agents of one model or of two, six callers that lie about length, origin, shape or token | a prompt after a cancelled one; each gate of the edge on its own |

Bounds of `orders`. The variable `side` chooses between a race of two executions on fixed terms, one execution on terms that
change, and three pages that share no variable with these or each other, in the way of the sums above:

| Page | Instance | Why it is enough |
| --- | --- | --- |
| order | one order opened in any status in which a button is offered, three versions (`MaxVersion`), the publisher's and the agent's wallet, one command left over from a reset page (`MaxOrphans`) | a command and a read that overtake each other, and a third party's step between them |
| publish | two drafts of different budgets and hours (`Drafts`), two tasks (`MaxTasks`), two instants (`MaxClock`) | a draft changed between approval and funding, a task begun again, a deadline counted twice |
| agents | two tabs, two wallets, one record with four events (`MaxHistory`), two reads or writes under way (`MaxInFlight`) | a revision that needs review again; a tab that overwrites the other's step, or shows another wallet when it is answered |

Why the other bounds suffice. The contracts' tasks share only the token pool, the reserve and the used references:
one task with a committee and two without exercise each of these. Five members are the least the constructor accepts; with a party
among them a recusal finds exactly one replacement, the tightest ring there is. Shares of 1 and 2 out
of 3 make a plan that falls short, one that is exact and leaves rounding dust, and one that must be
refused. Two verification calls are one to read and one to overtake it; two blocks are one
reorganization. Two executions are what a race needs, and the key that is sent again is shared by
both. Two proposals are needed for one to end the halt in which the other was made. A second quote
multiplies the states of `orders` beyond a run's time; `stale_funding` explores it. Two workers and two
copies of an event are a duplicate delivery; the code allows two repairs and the run one, as all
attempts pass through the same nodes (with one copy of each event, two repairs pass too).

Deadlock is not checked where the system may stop: the contracts when every task is settled, a
verification when no call is left to make, the Queen runtime when its operation is committed or
uncertain, each part of the two sums when its clock, its requests or its task have come to their end.
It is checked in `orders` and `stale_funding`.

## 4. What the runs show

**V2 settlement** (`dispute`). `EscrowSolvent`: the contract holds exactly the reserve and the budgets and bonds of
unsettled tasks, also when a yield exceeds the reserve. `DisputedIffCaseOpen`, `RulingIsApplied`: the contracts
agree on which tasks are in dispute, and the side with two votes is the side that was paid.
`NobodyJudgesOwnTask`: after any recusals the seats are held by three different members, none a party.
`DisputeCanBeEnded`: a seated member who may vote, and a payout that is covered, are always left, even if
the escrow has been deauthorized. `KeepsPromise`: the escrow implements `EscrowPromise` under
the mapping from task states to stages.

**V3 escrow** (`workflow_escrow`). `EscrowSolvent` accounts for budgets, stakes and rounding dust to the token, and a
receipt exists exactly while a stake is held, whoever owns it. `FullAcceptanceCoversEveryNode`: a full plan has no unaccepted
node, so that settling it cannot revert. `KeepsPromise` again. (The dust of an agents' settlement has no way
out of the contract, as `Dust` in the invariant shows.)

**Chain verification** (`chain_safety`, `chain_liveness`). `VerdictWasTrue`: a confirmed row names a block that really was deep enough
and held its successful transaction; a row is failed only if a transaction with its hash was mined that was not what was
asked for, or that a source once showed without its logs, and never for a read that was not answered, sources that differ on the block or a block dropped
meanwhile; and an intent has one hash however many clients race. (A right transaction marked failed while Blockscout's index lags is
what the code does; a client that asks again has it verified anew.) `ConfirmationLostOnlyToReorg`: a confirmation ends only by a new submission or because the chain dropped the
block. `FinalIsConfirmed` (liveness): once the bound transaction is final, confirmation is reached whatever came before.

**Orders** (`orders`). `AppliedAtMostOnce`: a key sent again by racing calls is applied once. `MovedOnAgreement`: although the gate reads
outside the order's transaction, an order moves to funding or matching only on a quote everybody
confirmed. `PricingFollowsTheTask`: nothing is quoted or confirmed for terms that passed while the
assessor thought, nor during a halt. `ResumedByTwo`: calls that read the order before it was halted, settled or
refunded leave it alone; a halt ends by two operators, one of whom proposed it
in that halt, although proposals of an earlier halt may still be pending. `PagesTellTheTruth` has a part for each page.
`ActsAsShown`: whatever session the shared jar held, a command takes effect as the party, and from the status, for which
the page showed its button, although it sends neither along; two effects the service allows are excepted in the definition.
`CatchesUp`: a page that was taken back to an older order is reading it again or knows that this failed. `FundsWhatWasApproved`:
one escrow payload per task, asked for only after that task's own approval was confirmed. `HistoriesAreLegal`: tabs
overwriting each other leave legal histories, and a page lists no other wallet's records.

**Queen runtime** (`queen_async`). `AgentsCalledOnce`: duplicates, crashes, lapsed leases and late owners never
make a second call for the same node and attempt, and after the permission ended at most the one
call authorized just before is made. `CommittedIsDurable`: a commit vouches for a written
checkpoint, and no message is deleted before its operation is committed. `UncertainIsFinal`: an outcome nobody knows is
left to reconciliation, even when its owner finishes later. `FinalOnReviewedOutput`: the final arbiter sees only what judge and, at high
risk, red team approved since the last repair.

**Services around an order** (`market_services`).

* `LedgerSettles`: the journal closes, the manifest adds up to what was deposited whatever was cancelled or
  forfeited, each claim is settled by a transfer of its own, and a penalty that takes a deposit has its decision.
* `OnlyTheDrawnAgent`: repeated and crossing events never rank a task twice; a draw has one winner, the one the deep random word picks
  from the pool frozen with the task; and nothing the qualification rests on has changed when it is assigned.
* `OneIdentity`: once tabs and broadcasts have settled, a live cookie is of the wallet's account, and no tab asks for
  another one. Excepted is a logout that could not be confirmed: its tab asks for nothing (`cleanup`), but the
  clearing it meant may still reach a cookie another tab obtained meanwhile.
* `OneSessionPerSignature`: a signed message opens one session, of its wallet and in its time, and a command runs only
  under a session that was good when the command's body had arrived.
* `HandedAsIssued`: an identifier stands for one payload, and a wallet is handed exactly what verification will
  hold it to, bound to the version the arbiter reviewed.
* `ReviewsCount`: one review per grant, a score between 0 and 100 points, which praise lowers only by pushing the accepted
  review of a more valuable order out of those that count. (It then really does: without the exception TLC finds a case.)
* `GovernedByTwo`: what a reviewer approves is what was proposed over exactly the listing that stood then, by another
  wallet; versions are published once, and a repeated command proposes nothing twice.
* `ReplayedOnce`: one lease at a time, one body per key, and what is marked published was delivered.
* `PrincipalIsSafe`: every principal is in the vault beside the reserve, nobody earns more than the exact yield, and
  truncation takes less than a unit per day with a checkpoint.

**Agents and client** (`platform`).

* `ReviewedWorkBinds`: whatever callers, runtimes and restarts interleave, judgements in the store stay, a run has an
  accepted agent on every required node, its graph gains only what reviews and repairs append, and no save takes back another's.
* `SelectionIsFair`: as many different models as seats allow, a newcomer's seat where risk allows it, and advice only with
  the certainty the policy asks for.
* `LeaseAnsweredOnce`, `ServedOncePerSignature`: within a process' life, a model is called once per lease, and a signature opens one
  run; what is reserved to an owner is reached under the owner's key; an answer has one closing event.
* `FundingRestsOnTheQuote`: the panel announces only the quote it shows, confirmed by everyone with a part in the
  deposit and approved by an operator if its risk asks for that; and the parts add up to the deposit in the order of the weights. The panel's own
  confirmation is refused (section 6); it gets to announce a quote by refreshing after the parties confirmed with clients of their own.
* `OneDecisionPerReading`: a plan is shown to its publisher only, each reading carries at most one decision, and an
  approval is of the current, planned version.
* `RepliesAreTheirOwn`: a reply holds the pieces of its own turn in order, whatever was cancelled before; the runtime
  hears only requests that passed every gate of the edge.
* `ReportsAccountedFor`: an accepted report is waiting, dead-lettered or stored; one task is wanted at a time; percentiles are
  ordered and within what was measured.
* `HoldoutFollowsTraining`: the split separates past from future, and requests from each other. (The code checks the overlap once more
  before it returns; that check can never fire.)
* `OnlyReviewedModelsServe`: no prediction with an older epoch than the last, nor with a retired version, nor with an
  artifact whose approval does not fit its gate, though files are restored and artifacts lost.

Four runs end in a violation, each of something the repository says of itself; `findings` quotes it:

* `recused_vote` - a recused member's vote stays in the tally, so one seat can carry a ruling (`ArbitrationCommittee.sol:67`).
* `lost_reorg` - a new submission hides the confirmation that a reorganization should be compared with (`transaction-store.ts:265`).
* `stale_funding` - a confirmed quote stays good for funding after the task's terms changed (`order-service.ts:74`).
* `low_risk` - the checkpoint's risk level is the schema's default, so a low-risk task is sent to a red team it does not have and ends uncertain (`queen-durable-planning.ts:38`).

**Fairness.** Only `chain_liveness` assumes any: a handler that started goes on (Node runs its
continuations), somebody keeps asking for the verification (the pages' verify buttons; nothing in the
repository polls by itself, so this is an assumption on the client), and blocks keep being produced.
Outages and crashes are bounded by `MaxOutages`, not excluded. No liveness is stated of the Queen runtime:
the repository deploys no worker that runs continuously, and the queue's retries are configured outside it.

## 5. Proofs

Every theorem holds for all values of the constants its module's assumption allows (`EscrowConstants`,
`CommitteeConstants`, `PartiesConstants`, `WorkflowEscrowConstants`, `VerificationConstants`, `QuoteConstants`,
`OrderConstants`, `QueenConstants`, `ReplayConstants`, `ChallengeTimes`, `GovernanceConstants`, `VaultConstants`, `LedgerConstants`,
`MatchingConstants`, `RunnerConstants`, `RuntimeConstants`, `WantsShaped`, `RegistryConstants`, `ChatConstants`, `PricingConstants`, `TermsConstants`, `AssessedConstants`,
`TrainerConstants`, `PipelineConstants`, `RoutingConstants`, `ShuffleConstants`, `AdviceConstants`, `ConsoleConstants`,
each a check of a constructor, a policy's range or the finiteness of a set). Each follows one argument: TLC first
checked the inductive invariant on the instance of section 3, one lemma per action shows that it is kept, and the property
is read off it. Action properties are shown of a step from a state of the invariant. What each invariant adds to
the properties, and why it is needed:

### Settlement

* `DisputeResolutionProofs`, V2. `DisputeIInv` has three parts. `EscrowIInv` adds to types and solvency that the parties
  of a task are known accounts, that no task started in the future (so yields are not negative) and that no
  bond is booked before acceptance (so that a refund of an unaccepted task is covered). `CommitteeIInv` adds to types that a
  task without a case has no votes; the tally counts voters and a ruling takes two votes, which leaves at most three
  voters. `Tied` says that a case names the parties of its task and exists only while or after the task is disputed,
  which keeps a second case from being opened and a settled task from being settled again. Where both
  contracts move, their lemmas are joined by one on `Tied`. Results: `TypeCorrect`, `SeatsImpartial`, `VotesDecide`,
  `RulingReachable` of `CommitteeSpec`; `DisputeTypeCorrect`, `Solvent`, `ContractsAgree`, `RulingsAreApplied`, `Impartial`,
  `NoDisputeIsStuck` of `Spec`, under `EscrowIsDeployed`. That some seated member has not voted follows by counting: an
  open case has at most two votes and three different members.
* `WorkflowEscrowProofs`, V3: `WorkflowSolvent`, `FullWorkflowsResolve`. `WorkflowIInv` adds that the two share counters of a task are the sums
  over its nodes (`SharesAccounted`), that a node without an agent has nothing (`PlanKnown`, `NothingPlanned`), and that stakes and receipts name each other
  (`ReceiptBacksStake`). When the accepted counter is the full share, the accepted nodes' shares sum to it, so no other node can have any.
* `EscrowRefinesPromise`, `WorkflowKeepsPromise`: both escrows implement `EscrowPromise`. Each call is mapped to pledging, refunding or
  paying the task's own budget, or to a stutter; the guard of the abstract payment, that what is left backs every
  other pledge, is where solvency is used. `CollectionsProofs` carries the arithmetic: a sum that changes at one place changes
  by that place's difference.

### Verification and orders

* `ChainVerificationProofs`: `VerdictsTrue` and `ConfirmationsStand`. A verdict is computed from what was read moments before,
  so `ChainIInv` says of every reading in flight what is still true of it: the block it names held the
  row's transaction and still has what was read of it, one found off the chain stays off it, and one shown without its logs is
  remembered in `unshown`, which is what a verdict of failure is then held to.
* `OrderProofs`: `AppliedOnce`, `OrdersMoveOnAgreement`, `HaltsEndByTwo`, `QuotesAreOfTheTask`. The gate reads outside the order's transaction,
  so `OrderIInv` says what a call may still rely on when it commits: the quote it was let through on only
  gains confirmations (`QuotesGrow`), and whoever holds the row's version found the row's status (`FoundTheRow`).
  `EarlierIsStale` tells the proposals of this halt from those of an earlier one by the version they hold.

### Queen runtime

`QueenProofs`, the workers: `AgentsAnswerOnce`, `CommitsLeaveResults`, `ArbiterSeesReviewed`, `UncertainStays`. A ledger row is inserted once, and a
worker past the insert is `Entitled` to the row it inserted itself, so one worker at most carries out an
operation, whatever copies, crashes and lapsed leases there are. Every call has a rank, four times its attempt plus the place of its node;
`QueenIInv` says that ranks of the calls made increase strictly and lie below the node the thread stands at, which is why no node is
called twice in one attempt, and says at each stage what the worker finds (`PlanningFinds`, `ApprovalFinds`). `ReviewedFor` is the
strengthening of `FinalOnReviewedOutput` to the nodes before the arbiter, and `Delivered` says that a message taken off the queue left a committed row.

`QueenProofs`, the seats: `DrawsAreFair`. `RoutingIInv` is what the draw and the advice each promise (`OfferedFairly`, `AdvisedFairly`) of whatever pool they were made from. A
seat's occupant is the agent with so many ahead of it (`InOrder`), so the facts about seats are facts about counting: of models, of newcomers, and of
the two that history keeps.

`QueenProofs`, the planning page: `DecidedOncePerReading`. `ConsoleIInv` says of each request under way whose session it carries (`CookieFits`), that the page waits for
one answer at most (`AwaitedAlone`), and that a reading on screen has not been decided upon (`ReadingsFresh`).

### Services and the local runner

* `MarketServicesProofs`. `ReplayTypeCorrect`, `ReplaysOnce`: two leases of one record never bear the same token, none bears one above its record's
  attempts, and each carries its record's body; a late report is then told from the current one by its token
  alone, which is what `requireLease` compares. (The token is a fresh uuid written with the attempt, and the attempt's number stands for it.)
  `IntentsHandedAsIssued`: a stored resolution rests on a review of its revision, although reviews are superseded while an intent is built.
  `SessionsOpenedOnce`: a session in the table is backed by its consumed challenge, and what a verification remembers of a
  challenge is still what the row says except that it may have been consumed. `GovernanceTakesTwo`: an approved proposal
  keeps its reviewer and its release over exactly what it was proposed on, a ticket its one resolution, and no release
  bears a version above the listing's, which is what makes the next one new. `VaultPrincipalSafe`: the exact yield is bounded from below and above by what was paid, accrued and
  runs, in units of a principal-second, so that truncation at checkpoints is accounted for exactly.
  `SessionsAgree`: `SessionIInv` says that while a live cookie exists some tab answers for it (`CookieAnswered`), and what each tab may
  trust in what it remembers (`Trusts`), through cookies that arrive late and broadcasts that have not arrived.
  `LedgerCloses`: `LedgerIInv` ties the journal to the records (`IncomeRecorded`, `ManifestRests`, `JournalRight`, `ClaimsRight`). That debits equal
  credits, and that the entries of a manifest add up to what was deposited, is shown by counting the coins of each group.
  `DrawsDecide`: `MatchIInv` says that candidates and decisions are of the intent's frozen pool (`CandidatesRight`, `DecisionsRight`); that a pool which is not empty has
  a winner, and that no two seats are of one model, are lemmas about the subsequences that fill them (`WinnerIsDrawn`, `SeatsAreApart`).
* `PlatformProofs` has a part for each of these services:
  * `LeasesAnsweredOnce`. `LeaseAnsweredOnce` does not say where a call came from, so `RunnerIInv`
    adds that a lease once run is under way or completed and never both, that what is under way is awaited
    by a poller (which bounds the leases under way by the pollers, through a surjection), and that what was
    reported is what was completed.
  * `SignaturesServedOnce`. `RuntimeIInv` is `SentAsSigned`, `RunsRight`, `Remembered`, `ServedApart`: a nonce may be forgotten, but only
    when the clock has left the window of its signature, and two runs of one life never have one signature.
  * `PredictionsReviewed`. `RegistryIInv` is `FilesRight`, `ProcessesRight`: an approved record carries an audit that fits its artifact's gate, in the file and in the
    operator's copy of it, and a process has read the epoch it predicted with.
  * `WorkStaysReviewed`. The orchestrator's `QueenIInv` is `TasksTypeOK`, `StoreRight`, `CallRight`, `Known`: every copy is of a version the store has had, and what a call
    is about to save keeps all that the version it was made from recorded. Compare-and-save does the rest.
  * `RepliesKeepApart`. `ChatIInv` is `ChatKinds`, `PiecesNumbered`, `MessagesRight`, `FlightRight`, `WireRight`, `ExchangesRight`: pieces are
    numbered by turn and place, and what the page has not read begins where its reply ends.
  * `FundingRests`. `PricingIInv` is `PricingTypeOK`, `QuotesRight`, `AnswersRight`, `PanelRight`: an answer that reads "confirmed" names a quote that has the confirmations and
    the approval it needs, whatever was issued since. The amounts follow from counting coins and ranks, for any weights and deposits.
  * `HoldoutsFollow`. Of the log `TrainerIInv` says only that its times are numbers; the lemma `SplitFollows` is about any log.
  * `ReportsAccounted`. `PipelineIInv` is `PagesRight`, `EnvelopesRight`, `TasksRight`, `DispatchRight`, `Accounted`, `SummariesRight`: the message an attempt works on stays at the
    head of the queue, an attempt launches a task only when none is wanted, and a task that stopped well stored its sample. The
    order of the percentiles rests on the k-th value growing with k, and interpolation with its weight.

### Left to TLC

* `FinalIsConfirmed` is liveness, out of the prover's reach.
* `ReviewsCount` rests on what averages over reviews compute, and `PagesTellTheTruth` of the order, task and agents' pages has
  not been taken up; both are model-checked on the bounds of section 3.
* The four runs that end in a violation are counterexamples of an instance and need no proof.

Sums, ranks and percentiles are written as counting, so that the library's facts about finite sets reach them, and where an induction
could not be avoided (`CollectionsProofs`) it takes the least counterexample (`WFMin`). What a recursive definition computes is
proved nowhere, and nothing that was proved rests on one.

## 6. Not modelled

The ABI, gas, reentrancy of the token (a plain ERC-20), who a wallet is (the models let any caller act as
any wallet the code would accept); the words of requirements, outputs and notes; fitting a model and its metrics; review
artifacts and event rows that an order's commit writes along; conversation with the Queen; the
answer an execution returns (the models follow the rows). Components without a module:

* *Settlement projection* turns a verification into an order command and is called by tests only.
* *Outbox dispatch* loops over a store that nothing in the repository implements.
* *Agent boundary*: validation of what is exchanged; so are `domain/tasks.ts` and `domain/agents.ts`, which only tests call.
* *Temporal scheduling* starts the same planning through the same ledger; the durable execution is Temporal's.
* Of the *web client*, static pages, layout and the office, which decide nothing; *routes, schema and infrastructure*
  beyond those of the modelled components are read for which commands may arrive and for the constraints models rely on.

Noted while reading, without a property:

* A V2 task whose agent never accepts stays open: there is no cancellation (`AgentMarketEscrow.sol:83`).
* Cases are keyed by the task alone, so a second authorized escrow with the same identifier is blocked (`ArbitrationCommittee.sol:58`).
* Acceptance sends a V2 bond to the treasury (`AgentMarketEscrow.sol:151`).
* Candidates are selected with the status `active` that migration 0011 renamed to `published` (`matching/service.ts:73`,
  `matcher-go/internal/store/postgres.go:52`); the model takes the renamed one for the qualified pool.
* A funded order needs a preliminary quote to go to matching, which cannot exist once a graph is saved; a wrong or superseded quote named in a
  command sends the order to review (`order-service.ts:96`).
* An expired planning request cannot be renewed for the same task version; an approval consumed before planning wrote
  its checkpoint is spent (`queen-planning-approval.ts:61`).
* A refund clears the review eligibility in the snapshot, but no row is taken back (`orders.ts:191`).
* The confirmation route expects an actor type that the panel never sends (`risk-quote/confirm/route.ts:25`,
  `riskPricingClient.ts:187`), so the panel's own confirmation is refused; in the model too, where parties confirm
  with clients of their own.
* When the escrow prompt is rejected or its answer is lost, rechecking the approval asks for the escrow again with a deadline
  counted from a later instant, and with the hours of the form as it is by then; the stored intent has another one, and the request
  ends in `CHAIN_INTENT_CONFLICT` (`DirectoryPages.tsx:166`, `transaction-store.ts:209`). `FundsWhatWasApproved` rests on that conflict.
* After a funding was verified the step stays at "ready" while the next task is created (`DirectoryPages.tsx:210`).
* The order page reports "authenticated projection refreshed" also when the read after a command failed (`OrderDetailPage.tsx:292`).
* Two tabs may lose a step of an agent's history, or bring back a removed or retired agent: the last write wins (`ownerAgentLifecycle.ts:74`).
  Visibility in the market asks for the admission and not for the lifecycle (`ownerAgentRegistry.ts:104`). The registration page
  lists whichever read answers last, also of an earlier wallet (`DirectoryPages.tsx:74`); it shows the records and can remove them, no more.
* The nonces and leases of the local runtime live in memory: a restart within the window forgets them (`signing.ts:65`, `runner.ts:65`);
  the properties say so, being about the life of a process.

## 7. Plan

1. *V2 settlement, chain, orders, quotes, Queen runtime, V3*: modelled and checked; V2 proved. Done.
2. *Ledger, matching, wallets, intents, reputation, replay, governance, vault*: modelled and checked. Done.
3. *Orchestrator, runner, runtime, pricing, routing, pages, performance, trainer*: modelled and checked. Done; so are
   the order, task and agents' pages.
4. *Proofs*: every property the passing runs check is proved (section 5) except `FinalIsConfirmed`, which is liveness, `ReviewsCount` and
   `PagesTellTheTruth`. Left: the parts of `PagesTellTheTruth`, of which `HistoriesAreLegal` and `FundsWhatWasApproved` come first, and the
   one-review-per-grant half of `ReviewsCount`. No module of the project declares a recursive operator, so that all of them can be proved about.
5. *Compositions*: an order with its ledger and its verified transactions; the orchestrator with the approval the
   planning page records; liveness of replay and of the performance pipeline under the schedules of the template.
