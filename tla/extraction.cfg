\* The search over transactions of two instructions and two entries of inner ones.
SPECIFICATION Spec
CONSTANTS
    migration = migration
    program = program
    pump1 = pump1
    pump2 = pump2
    account = account
    NoKey = NoKey
    Key = {migration, program, pump1, pump2, account}
    PumpKey = {pump1, pump2}
    ProgramId = program
    MigrationPubkey = migration
    Transaction <- MCTransaction
INVARIANTS
    ExtractionCorrect
    FilterKeepsPools
