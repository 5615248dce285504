---------------------------- MODULE Transactions -----------------------------
(***************************************************************************)
(* What the program reads in a transaction update: whether it belongs to   *)
(* the subscription (matches_event of src/connection/subscription.rs), and *)
(* the pool, the mint and the signers that the Raydium monitor finds in it *)
(* (src/monitors/raydium_v4.rs).                                           *)
(*                                                                         *)
(* The monitor's search is stated here by what it finds; PoolExtraction    *)
(* has the loops that find it.                                             *)
(*                                                                         *)
(* An account key is a model value: its base58 form is compared, looked at *)
(* for its ending, and stored, nothing else.  Of the logs it only matters  *)
(* whether a line contains "initialize2".  Lists that are absent, or that  *)
(* the meta data say to be none, are empty; so is the number of signers of *)
(* a message without header.                                               *)
(***************************************************************************)
EXTENDS Integers, Sequences, FiniteSetsExt

CONSTANTS Key,              \* account keys
          NoKey,            \* None in pool_address and mint_address
          PumpKey,          \* the keys whose base58 form ends in "pump"
          ProgramId,        \* settings.transaction_monitor.program_id
          MigrationPubkey   \* settings.transaction_monitor.migration_pubkey

ASSUME TransactionAssumption ==
    /\ NoKey \notin Key
    /\ PumpKey \subseteq Key
    /\ ProgramId \in Key
    /\ MigrationPubkey \in Key

\* The updates.  Indices into keys start at 0 and need not be in range: they
\* also count the addresses loaded from lookup tables, which keys lacks.
TransactionUpdate ==
    [ whole : BOOLEAN,               \* it has a transaction with a message
      keys : Seq(Key),               \* message.account_keys
      signers : Nat,                 \* header.num_required_signatures
      instructions : Seq([program : Nat, accounts : Seq(Nat)]),
      inner : Seq(Seq(Seq(Nat))),    \* the accounts of inner instructions,
                                     \* by the instruction they belong to
      initialize2 : BOOLEAN ]        \* a log line contains "initialize2"

-----------------------------------------------------------------------------
(* The filter.                                                             *)

\* create_subscription: account_include of the transactions asked for.
AccountInclude == {ProgramId}

\* Mutant: the accounts are looked for among the signers.
MatchesSigners(tx) ==
    ~tx.whole \/ AccountInclude \subseteq
                     {tx.keys[n] : n \in DOMAIN tx.keys \cap 1..tx.signers}

\* Every included account is among the keys, if there are any to look at.
MatchesTransaction(tx) ==
    ~tx.whole \/ AccountInclude \subseteq {tx.keys[n] : n \in DOMAIN tx.keys}

-----------------------------------------------------------------------------
(* The search for pool, mint and signers.                                  *)

\* The key with an index, if it is in range.
KeyAt(tx, index) ==
    IF index < Len(tx.keys) THEN tx.keys[index + 1] ELSE NoKey

SignersOf(tx) == {tx.keys[n] : n \in DOMAIN tx.keys \cap 1..tx.signers}

\* The places of a list of account indices where a pump key stands.
PumpPlaces(tx, accounts) ==
    { place \in DOMAIN accounts : KeyAt(tx, accounts[place]) \in PumpKey }

FirstPump(tx, accounts) ==
    IF PumpPlaces(tx, accounts) = {} THEN NoKey
    ELSE KeyAt(tx, accounts[Min(PumpPlaces(tx, accounts))])

FifthAccount(tx, accounts) ==
    IF Len(accounts) > 4 THEN KeyAt(tx, accounts[5]) ELSE NoKey

\* The n-th instruction is one of the program.
RunsProgram(tx, n) == KeyAt(tx, tx.instructions[n].program) = ProgramId

\* The instructions of the program that name a pool or a mint.
Telling(tx) ==
    { n \in DOMAIN tx.instructions :
        /\ RunsProgram(tx, n)
        /\ \/ FifthAccount(tx, tx.instructions[n].accounts) # NoKey
           \/ FirstPump(tx, tx.instructions[n].accounts) # NoKey }

\* The pool is the fifth account of the first telling instruction, even if
\* that names only a mint and a later one a pool.
PoolOf(tx) ==
    IF Telling(tx) = {} THEN NoKey
    ELSE FifthAccount(tx, tx.instructions[Min(Telling(tx))].accounts)

\* The mint is the first pump key of the same instruction...
TopLevelMint(tx) ==
    IF Telling(tx) = {} THEN NoKey
    ELSE FirstPump(tx, tx.instructions[Min(Telling(tx))].accounts)

Earlier(p, q) == p[1] < q[1] \/ (p[1] = q[1] /\ p[2] < q[2])

\* Inner instructions, of whatever program, that name a pump key.
InnerTelling(tx) ==
    { p \in UNION { {o} \X DOMAIN tx.inner[o] : o \in DOMAIN tx.inner } :
        FirstPump(tx, tx.inner[p[1]][p[2]]) # NoKey }

FirstInnerTelling(tx) ==
    CHOOSE p \in InnerTelling(tx) :
        \A q \in InnerTelling(tx) : p = q \/ Earlier(p, q)

\* ... and without one, that of the first inner instruction that has one.
MintOf(tx) ==
    IF TopLevelMint(tx) # NoKey THEN TopLevelMint(tx)
    ELSE IF InnerTelling(tx) = {} THEN NoKey
    ELSE LET first == FirstInnerTelling(tx)
         IN FirstPump(tx, tx.inner[first[1]][first[2]])

-----------------------------------------------------------------------------
(* What the handler of an update does with it.                             *)

\* process_transaction: the event made of an update that could be read.
PoolEvent(tx) ==
    [ pool_address |-> PoolOf(tx),
      mint_address |-> MintOf(tx),
      signers |-> SignersOf(tx),
      initialize2 |-> tx.initialize2 ]

\* Mutant: either criterion is enough.
WantsEither(tx) ==
    /\ tx.whole
    /\ \/ PoolEvent(tx).initialize2
       \/ MigrationPubkey \in PoolEvent(tx).signers
    /\ PoolEvent(tx).pool_address # NoKey
    /\ PoolEvent(tx).mint_address # NoKey

\* The handler inserts a pool when the update could be read, the event meets
\* both criteria, and it names a pool and a mint; else it returns.
Wants(tx) ==
    /\ tx.whole
    /\ PoolEvent(tx).initialize2
    /\ MigrationPubkey \in PoolEvent(tx).signers
    /\ PoolEvent(tx).pool_address # NoKey
    /\ PoolEvent(tx).mint_address # NoKey
==============================
