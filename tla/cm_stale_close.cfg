\* One failure of the network, and the events its stream leaves behind.
SPECIFICATION Spec
CONSTANTS
    s1 = s1
    s2 = s2
    s3 = s3
    raydium = raydium
    other = other
    transactions = transactions
    accounts = accounts
    NoConn = NoConn
    SubId = {s1}
    Client = {raydium}
    Kind = {transactions}
    ClientOf <- MCClientOf1
    Sub = s1
    KindOf <- MCKindOf1
    Conn = {c1, c2}
    DurationBits = 1
    CommandCap = 1
    EventCap = 1
    MaxFaults = 1
PROPERTIES
    OnlyDeadConnectionsDropped
