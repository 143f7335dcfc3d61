----------------------------- MODULE YieldVault -----------------------------
(***************************************************************************)
(* StakeYieldVault with the YD token it holds.  Yield is linear in         *)
(* principal and time and is computed with truncation whenever a position  *)
(* is touched; it is paid from a reserve that the owner fills, and the     *)
(* principal beside it in the same balance must never pay it.              *)
(***************************************************************************)
EXTENDS Integers, Collections

CONSTANTS
    Deployer,       \* deployer and owner of both contracts
    Stakers,        \* the other accounts
    Quantities,     \* amounts that are asked for
    FaucetAmount, Cooldown, AirdropAmount,
    RatePercent, Year,
    MaxDay,         \* bound of block.timestamp
    MaxSupply       \* bound of the tokens minted

Vault == "vault"
Clients == Stakers \cup {Deployer}

ASSUME VaultConstants ==
    /\ IsFiniteSet(Stakers) /\ Deployer \notin Stakers /\ Vault \notin Clients
    /\ Quantities \subseteq Nat
    /\ {FaucetAmount, AirdropAmount, Cooldown, RatePercent} \subseteq Nat /\ Year \in Nat \ {0}

VARIABLES
    blockTime,          \* block.timestamp
    tokens,         \* balances of the token
    nextClaimAt,    \* of the faucet
    airdropped,     \* kinds of airdrop each account has had
    distributor,    \* airdropDistributor
    positions,      \* positions of the vault
    rewardReserve,
    paidYield,      \* what claimYield has paid to each
    due             \* exact yield up to blockTime, in units of 1 / (100 * YEAR)

vaultVars == <<blockTime, tokens, nextClaimAt, airdropped, distributor, positions, rewardReserve,
               paidYield, due>>
tokenVars == <<nextClaimAt, airdropped, distributor>>

VaultInit ==
    /\ blockTime = 1 /\ tokens = [a \in Clients \cup {Vault} |-> 0]
    /\ nextClaimAt = [a \in Clients |-> 0] /\ airdropped = [a \in Clients |-> {}]
    /\ distributor = Deployer
    /\ positions = [a \in Clients |-> [principal |-> 0, accrued |-> 0, checkpointAt |-> 0]]
    /\ rewardReserve = 0
    /\ paidYield = [a \in Clients |-> 0] /\ due = [a \in Clients |-> 0]

NextDay ==
    /\ blockTime < MaxDay /\ blockTime' = blockTime + 1
    /\ due' = [a \in Clients |-> due[a] + positions[a].principal * RatePercent]
    /\ UNCHANGED <<tokens, tokenVars, positions, rewardReserve, paidYield>>

----------------------------------------------------------------------------
\* YDToken: minting, and transfers by their owners.
MayMint(amount) == Total(tokens) + amount <= MaxSupply

Faucet(a) ==
    /\ blockTime >= nextClaimAt[a] /\ MayMint(FaucetAmount)
    /\ nextClaimAt' = [nextClaimAt EXCEPT ![a] = blockTime + Cooldown]
    /\ tokens' = [tokens EXCEPT ![a] = @ + FaucetAmount]
    /\ UNCHANGED <<blockTime, airdropped, distributor, positions, rewardReserve, paidYield, due>>

SetAirdropDistributor(d) ==
    /\ distributor' = d /\ distributor # d
    /\ UNCHANGED <<blockTime, tokens, nextClaimAt, airdropped, positions, rewardReserve, paidYield, due>>

\* grantAgentAirdrop and grantPublisherAirdrop, by the distributor.
GrantAirdrop(a, kind) ==
    /\ kind \notin airdropped[a] /\ MayMint(AirdropAmount)
    /\ airdropped' = [airdropped EXCEPT ![a] = @ \cup {kind}]
    /\ tokens' = [tokens EXCEPT ![a] = @ + AirdropAmount]
    /\ UNCHANGED <<blockTime, nextClaimAt, distributor, positions, rewardReserve, paidYield, due>>

Transferred(from, to, amount) == [tokens EXCEPT ![from] = @ - amount, ![to] = @ + amount]

Donate(a, amount) ==
    /\ tokens[a] >= amount /\ tokens' = Transferred(a, Vault, amount)
    /\ UNCHANGED <<blockTime, tokenVars, positions, rewardReserve, paidYield, due>>

----------------------------------------------------------------------------
\* StakeYieldVault.
FundRewardPool(amount) ==
    /\ amount > 0 /\ tokens[Deployer] >= amount
    /\ rewardReserve' = rewardReserve + amount /\ tokens' = Transferred(Deployer, Vault, amount)
    /\ UNCHANGED <<blockTime, tokenVars, positions, paidYield, due>>

LinearYield(principal, elapsed) == (principal * RatePercent * elapsed) \div (100 * Year)

Checkpoint(position) ==
    [position EXCEPT !.checkpointAt = blockTime,
                     !.accrued = @ + IF position.checkpointAt # 0 /\ position.principal # 0
                                     THEN LinearYield(position.principal, blockTime - position.checkpointAt)
                                     ELSE 0]

\* Mutant: the principal is added before the checkpoint.
StakedFirst(position, amount) == Checkpoint([position EXCEPT !.principal = @ + amount])
Staked(position, amount) == [Checkpoint(position) EXCEPT !.principal = @ + amount]
Unstaked(position, amount) == [Checkpoint(position) EXCEPT !.principal = @ - amount]

Stake(a, amount) ==
    /\ amount > 0 /\ tokens[a] >= amount
    /\ positions' = [positions EXCEPT ![a] = Staked(@, amount)]
    /\ tokens' = Transferred(a, Vault, amount)
    /\ UNCHANGED <<blockTime, tokenVars, rewardReserve, paidYield, due>>

\* A transfer that the balance does not cover reverts everything.
Unstake(a, amount) ==
    /\ amount > 0 /\ amount <= positions[a].principal /\ tokens[Vault] >= amount
    /\ positions' = [positions EXCEPT ![a] = Unstaked(@, amount)]
    /\ tokens' = Transferred(Vault, a, amount)
    /\ UNCHANGED <<blockTime, tokenVars, rewardReserve, paidYield, due>>

ClaimYield(a) ==
    LET position == Checkpoint(positions[a])
        amount == position.accrued
    IN /\ amount <= rewardReserve /\ tokens[Vault] >= amount
       /\ positions' = [positions EXCEPT ![a] = [position EXCEPT !.accrued = 0]]
       /\ rewardReserve' = rewardReserve - amount
       /\ tokens' = Transferred(Vault, a, amount)
       /\ paidYield' = [paidYield EXCEPT ![a] = @ + amount]
       /\ UNCHANGED <<blockTime, tokenVars, due>>

Earned(a) ==
    LET position == positions[a] IN
    position.accrued + IF position.principal = 0 \/ position.checkpointAt = 0 THEN 0
                       ELSE LinearYield(position.principal, blockTime - position.checkpointAt)

VaultNext ==
    \/ NextDay
    \/ \E a \in Clients :
         \/ Faucet(a) \/ ClaimYield(a) \/ SetAirdropDistributor(a)
         \/ \E kind \in {"agent", "publisher"} : GrantAirdrop(a, kind)
         \/ \E amount \in Quantities : Donate(a, amount) \/ Stake(a, amount) \/ Unstake(a, amount)
    \/ \E amount \in Quantities : FundRewardPool(amount)

VaultSpec == VaultInit /\ [][VaultNext]_vaultVars

----------------------------------------------------------------------------
\* However deposits, withdrawals, claims and checkpoints follow each other: the vault
\* holds every principal beside the reserve, so each can be withdrawn whatever was
\* claimed; nobody earns more than the exact yield of the principal over the time it
\* was staked, and truncation at the checkpoints takes less than a unit for each day
\* on which there was one.
PrincipalIsSafe ==
    /\ tokens[Vault] >= rewardReserve + Total([a \in Clients |-> positions[a].principal])
    /\ rewardReserve >= 0
    /\ \A a \in Clients :
         /\ (paidYield[a] + Earned(a)) * 100 * Year <= due[a]
         /\ due[a] < (paidYield[a] + Earned(a) + blockTime) * 100 * Year
=============================================================================
