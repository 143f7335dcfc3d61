SPECIFICATION Spec
CONSTANTS
    m1 = m1
    m2 = m2
    m3 = m3
    m4 = m4
    m5 = m5
    Tasks = {t1}
    Refs = {r1}
    Accounts = {m1, alice}
    Escrows = {Escrow}
    Owner = alice
    Treasury = alice
    NoOne = NoOne
    NoRef = NoRef
    Budgets = {20}
    Fundings = {1}
    InitialFunds = 21
    BondPercent = 6
    RatePercent = 6
    Year = 1
    MaxTime = 1
    MaxReserve = 1
    Members <- MCMembers
    Escrow = Escrow
INVARIANT RulingCarriedByTwoSeats
CHECK_DEADLOCK FALSE
