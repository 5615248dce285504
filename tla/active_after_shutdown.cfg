\* The sequence of Ctrl+C against handler tasks that are still at work.
SPECIFICATION Spec
CONSTANTS
    migration = migration
    program = program
    pump = pump
    pool = pool
    NoKey = NoKey
    Key = {migration, program, pump, pool}
    PumpKey = {pump}
    ProgramId = program
    MigrationPubkey = migration
    NoConn = NoConn
    Conn = {c1, c2}
    migrated = migrated
    unsigned = unsigned
    loaded = loaded
    Update = {migrated, unsigned, loaded}
    Content <- MCContent
    MaxConnections = 1
    MaxSent = 1
    MaxStarts = 1
INVARIANTS
    NoneActiveAfterShutdown
