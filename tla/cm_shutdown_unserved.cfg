\* The width of Duration as it is, and a server that may stay out of reach.
SPECIFICATION FairSpec
CONSTANTS
    s1 = s1
    s2 = s2
    s3 = s3
    raydium = raydium
    other = other
    transactions = transactions
    accounts = accounts
    NoConn = NoConn
    SubId = {s1}
    Client = {raydium}
    Kind = {transactions}
    ClientOf <- MCClientOf1
    Sub = s1
    KindOf <- MCKindOf1
    Conn = {c1}
    DurationBits = 64
    CommandCap = 1
    EventCap = 1
    MaxFaults = 0
PROPERTIES
    ShutdownServed
