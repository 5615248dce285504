\* Updates on overlapping streams, a crash or Ctrl+C, and a second start.
SPECIFICATION FairSpec
CONSTANTS
    migration = migration
    program = program
    pump = pump
    pool = pool
    NoKey = NoKey
    Key = {migration, program, pump, pool}
    PumpKey = {pump}
    ProgramId = program
    MigrationPubkey = migration
    NoConn = NoConn
    Conn = {c1, c2}
    migrated = migrated
    unsigned = unsigned
    loaded = loaded
    Update = {migrated, unsigned, loaded}
    Content <- MCContent
    MaxConnections = 1
    MaxSent = 1
    MaxStarts = 2
INVARIANTS
    RowsAreMigrations
    OneRowPerDelivery
    NothingForgotten
    MarkedStayInactive
    RegisteredBeforeCarried
PROPERTIES
    CtrlCEndsProgram
    WantedSettles
    ImplementsPoolTable
