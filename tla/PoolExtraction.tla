--------------------------- MODULE PoolExtraction ----------------------------
(***************************************************************************)
(* extract_pool_address_mint_and_signers of src/monitors/raydium_v4.rs:    *)
(* the two searches, one instruction to a step.  A step of the first looks *)
(* at a top-level instruction, a step of the second at an inner one; phase *)
(* says which of them is on.                                               *)
(***************************************************************************)
EXTENDS Transactions

CONSTANT Transaction   \* the updates the function may be given

ASSUME ExtractionAssumption == Transaction \subseteq TransactionUpdate

VARIABLES tx,      \* tx_info
          phase,   \* "top", "inner", "returned", "failed"
          at,      \* the top-level instruction to look at, or the entry of
                   \* inner_instructions
          within,  \* the instruction of that entry
          pool,    \* pool_address
          mint     \* minted_token

vars == <<tx, phase, at, within, pool, mint>>

Init ==
    /\ tx \in Transaction
    /\ phase = "top"
    /\ at = 1
    /\ within = 1
    /\ pool = NoKey
    /\ mint = NoKey

\* Without transaction or message the function returns an error.
PartMissing ==
    /\ phase = "top"
    /\ ~tx.whole
    /\ phase' = "failed"
    /\ UNCHANGED <<tx, at, within, pool, mint>>

\* The second search is made only without a mint.
SearchInner(minted) ==
    /\ phase' = IF minted = NoKey THEN "inner" ELSE "returned"
    /\ at' = 1
    /\ within' = 1

LookAtTop ==
    /\ phase = "top"
    /\ tx.whole
    /\ at <= Len(tx.instructions)

\* Not of the program, or the index of its program is out of range.
SkipInstruction ==
    /\ LookAtTop
    /\ ~RunsProgram(tx, at)
    /\ at' = at + 1
    /\ UNCHANGED <<tx, phase, within, pool, mint>>

\* Mutant: the search goes on and what it finds later replaces the pool.
ReadInstructionToTheEnd ==
    /\ LookAtTop
    /\ RunsProgram(tx, at)
    /\ LET accounts == tx.instructions[at].accounts
       IN /\ pool' = IF FifthAccount(tx, accounts) = NoKey THEN pool
                     ELSE FifthAccount(tx, accounts)
          /\ mint' = IF FirstPump(tx, accounts) = NoKey THEN mint
                     ELSE FirstPump(tx, accounts)
    /\ at' = at + 1
    /\ UNCHANGED <<tx, phase, within>>

\* Of the program: the search ends with it if it names a pool or a mint.
ReadInstruction ==
    /\ LookAtTop
    /\ RunsProgram(tx, at)
    /\ pool' = FifthAccount(tx, tx.instructions[at].accounts)
    /\ mint' = FirstPump(tx, tx.instructions[at].accounts)
    /\ IF pool' = NoKey /\ mint' = NoKey
       THEN at' = at + 1 /\ UNCHANGED <<phase, within>>
       ELSE SearchInner(mint')
    /\ UNCHANGED tx

EndOfTop ==
    /\ phase = "top"
    /\ tx.whole
    /\ at > Len(tx.instructions)
    /\ SearchInner(mint)
    /\ UNCHANGED <<tx, pool, mint>>

\* An inner instruction is not asked for its program.
ReadInner ==
    /\ phase = "inner"
    /\ at <= Len(tx.inner)
    /\ within <= Len(tx.inner[at])
    /\ mint' = FirstPump(tx, tx.inner[at][within])
    /\ within' = within + 1
    /\ phase' = IF mint' = NoKey THEN "inner" ELSE "returned"
    /\ UNCHANGED <<tx, at, pool>>

EndOfEntry ==
    /\ phase = "inner"
    /\ at <= Len(tx.inner)
    /\ within > Len(tx.inner[at])
    /\ at' = at + 1
    /\ within' = 1
    /\ UNCHANGED <<tx, phase, pool, mint>>

EndOfInner ==
    /\ phase = "inner"
    /\ at > Len(tx.inner)
    /\ phase' = "returned"
    /\ UNCHANGED <<tx, at, within, pool, mint>>

Returned ==
    /\ phase \in {"returned", "failed"}
    /\ UNCHANGED vars

Next ==
    \/ PartMissing
    \/ SkipInstruction
    \/ ReadInstruction
    \/ EndOfTop
    \/ ReadInner
    \/ EndOfEntry
    \/ EndOfInner
    \/ Returned

Spec == Init /\ [][Next]_vars

-----------------------------------------------------------------------------
\* Positions stay one past the lists they run over at most.
TypeOK ==
    /\ tx \in Transaction
    /\ phase \in {"top", "inner", "returned", "failed"}
    /\ at \in Nat \ {0}
    /\ within \in Nat \ {0}
    /\ pool \in Key \cup {NoKey}
    /\ mint \in Key \cup {NoKey}

\* The searches find what their comments say, through every early exit: pool
\* and mint of the first instruction of the program that names either, and
\* only without a mint there, the first pump key of the inner instructions.
ExtractionCorrect ==
    phase = "returned" => pool = PoolOf(tx) /\ mint = MintOf(tx)

\* The local filter and the search read the same keys, so the filter, which
\* knows nothing of loaded addresses, never skips an update with a pool.
FilterKeepsPools ==
    pool # NoKey => MatchesTransaction(tx)
==============================================================================
