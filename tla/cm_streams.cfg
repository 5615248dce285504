\* Streams that fail and are replaced, while commands change the registry.
SPECIFICATION NoShutdownSpec
CONSTANTS
    s1 = s1
    s2 = s2
    s3 = s3
    raydium = raydium
    other = other
    transactions = transactions
    accounts = accounts
    NoConn = NoConn
    SubId = {s1}
    Client = {raydium}
    Kind = {transactions}
    ClientOf <- MCClientOf1
    Sub = s1
    KindOf <- MCKindOf1
    Conn = {c1, c2, c3, c4, c5}
    DurationBits = 1
    CommandCap = 1
    EventCap = 2
    MaxFaults = 2
INVARIANTS
    ServerInSync
    OneConnection
    DeadStreamNoticed
    AbandonedStreamsBounded
