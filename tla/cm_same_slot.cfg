\* Two subscriptions of one client and one kind.
SPECIFICATION Spec
CONSTANTS
    s1 = s1
    s2 = s2
    s3 = s3
    raydium = raydium
    other = other
    transactions = transactions
    accounts = accounts
    NoConn = NoConn
    SubId = {s1, s2, s3}
    Client = {raydium, other}
    Kind = {transactions, accounts}
    ClientOf <- MCClientOf
    Sub = s3
    KindOf <- MCKindOf
    Conn = {c1}
    DurationBits = 1
    CommandCap = 3
    EventCap = 1
    MaxFaults = 0
INVARIANTS
    EverySubscriptionRequested
