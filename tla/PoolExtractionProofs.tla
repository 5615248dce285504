------------------------ MODULE PoolExtractionProofs -------------------------
(***************************************************************************)
(* The searches of extract_pool_address_mint_and_signers find what         *)
(* Transactions says, in every transaction.                                *)
(***************************************************************************)
EXTENDS PoolExtraction, TransactionsProofs

USE ExtractionAssumption

-----------------------------------------------------------------------------

\* What the searches have done so far: every instruction before the place they
\* are at was looked at, and told nothing.
Progress ==
    /\ phase = "top" =>
          /\ pool = NoKey
          /\ mint = NoKey
          /\ \A n \in Telling(tx) : n >= at
    /\ phase = "inner" =>
          /\ pool = PoolOf(tx)
          /\ TopLevelMint(tx) = NoKey
          /\ mint = NoKey
          /\ \A p \in InnerTelling(tx) :
                p[1] > at \/ (p[1] = at /\ p[2] >= within)

IInv == TypeOK /\ Progress /\ ExtractionCorrect /\ FilterKeepsPools

LEMMA TypeStep ==
    ASSUME TypeOK, [Next]_vars
    PROVE  TypeOK'
<1>1. /\ tx \in Transaction
      /\ at \in Nat \ {0}
      /\ within \in Nat \ {0}
      /\ tx.instructions \in Seq([program : Nat, accounts : Seq(Nat)])
      /\ tx.inner \in Seq(Seq(Seq(Nat)))
  BY UpdateFields DEF TypeOK
<1>2. CASE PartMissing
  BY <1>2 DEF PartMissing, TypeOK
<1>3. CASE SkipInstruction
  BY <1>1, <1>3 DEF SkipInstruction, LookAtTop, TypeOK
<1>4. CASE ReadInstruction
  <2>1. tx.instructions[at].accounts \in Seq(Nat)
    <3>1. at \in DOMAIN tx.instructions
      BY <1>1, <1>4 DEF ReadInstruction, LookAtTop
    <3>2. tx.instructions[at] \in [program : Nat, accounts : Seq(Nat)]
      BY <1>1, <3>1, ElementType
    <3> QED
      BY <3>2
  <2>2. pool' \in Key \cup {NoKey} /\ mint' \in Key \cup {NoKey}
    BY <1>1, <1>4, <2>1, FifthAccountType, FirstPumpType DEF ReadInstruction
  <2> QED
    BY <1>1, <1>4, <2>2 DEF ReadInstruction, LookAtTop, SearchInner, TypeOK
<1>5. CASE EndOfTop
  BY <1>5 DEF EndOfTop, SearchInner, TypeOK
<1>6. CASE ReadInner
  <2>1. tx.inner[at][within] \in Seq(Nat)
    BY <1>1, <1>6 DEF ReadInner
  <2>2. mint' \in Key \cup {NoKey}
    BY <1>1, <1>6, <2>1, FirstPumpType DEF ReadInner
  <2> QED
    BY <1>1, <1>6, <2>2 DEF ReadInner, TypeOK
<1>7. CASE EndOfEntry
  BY <1>1, <1>7 DEF EndOfEntry, TypeOK
<1>8. CASE EndOfInner
  BY <1>8 DEF EndOfInner, TypeOK
<1>9. CASE Returned \/ UNCHANGED vars
  BY <1>9 DEF Returned, vars, TypeOK
<1> QED
  BY <1>2, <1>3, <1>4, <1>5, <1>6, <1>7, <1>8, <1>9 DEF Next

-----------------------------------------------------------------------------
\* The instruction the first search is at tells something, or nothing.
LEMMA TellingHere ==
    ASSUME TypeOK, at \in DOMAIN tx.instructions
    PROVE  at \in Telling(tx) <=>
              /\ RunsProgram(tx, at)
              /\ \/ FifthAccount(tx, tx.instructions[at].accounts) # NoKey
                 \/ FirstPump(tx, tx.instructions[at].accounts) # NoKey
  BY DEF Telling

LEMMA SkipInstructionStep ==
    ASSUME IInv, TypeOK', SkipInstruction
    PROVE  Progress' /\ ExtractionCorrect'
<1>1. at \in Nat /\ at \in DOMAIN tx.instructions /\ at \notin Telling(tx)
  BY UpdateFields DEF IInv, TypeOK, SkipInstruction, LookAtTop, Telling
<1>2. \A n \in Telling(tx) : n \in Nat /\ n >= at
  BY UpdateFields
  DEF IInv, TypeOK, Progress, SkipInstruction, LookAtTop, Telling
<1>3. \A n \in Telling(tx) : n >= at + 1
  BY <1>1, <1>2
<1> QED
  BY <1>3 DEF IInv, Progress, ExtractionCorrect, SkipInstruction, LookAtTop

\* Entering the second search, or leaving with the mint of the first.
LEMMA SearchInnerStep ==
    ASSUME NEW t \in TransactionUpdate, tx' = t, SearchInner(mint'),
           pool' = PoolOf(t), mint' = TopLevelMint(t)
    PROVE  Progress' /\ ExtractionCorrect'
<1>1. \A p \in InnerTelling(t) : p[1] > 1 \/ (p[1] = 1 /\ p[2] >= 1)
  <2>1. SUFFICES ASSUME NEW p \in InnerTelling(t)
                 PROVE  p[1] > 1 \/ (p[1] = 1 /\ p[2] >= 1)
    BY <2>1
  <2>2. PICK k \in DOMAIN t.inner : p \in {k} \X DOMAIN t.inner[k]
    BY DEF InnerTelling
  <2>3. k \in 1..Len(t.inner) /\ t.inner[k] \in Seq(Seq(Nat))
    BY UpdateFields
  <2>4. k \in Nat \ {0} /\ DOMAIN t.inner[k] \in SUBSET (Nat \ {0})
    BY <2>3, UpdateFields
  <2> QED
    BY <2>2, <2>4
<1>2. CASE mint' = NoKey
  BY <1>1, <1>2 DEF SearchInner, Progress, ExtractionCorrect
<1>3. CASE mint' # NoKey
  <2>1. MintOf(t) = mint'
    BY <1>3 DEF MintOf
  <2> QED
    BY <1>3, <2>1 DEF SearchInner, Progress, ExtractionCorrect
<1> QED
  BY <1>2, <1>3

LEMMA ReadInstructionStep ==
    ASSUME IInv, TypeOK', ReadInstruction
    PROVE  Progress' /\ ExtractionCorrect'
<1> DEFINE accounts == tx.instructions[at].accounts
<1>1. /\ at \in DOMAIN tx.instructions
      /\ at \in Nat
      /\ \A n \in Telling(tx) : n \in Nat /\ n >= at
  BY UpdateFields
  DEF IInv, TypeOK, Progress, ReadInstruction, LookAtTop, Telling
<1>2. /\ tx \in Transaction
      /\ tx' = tx
      /\ pool' = FifthAccount(tx, accounts)
      /\ mint' = FirstPump(tx, accounts)
      /\ RunsProgram(tx, at)
      /\ phase = "top"
  BY DEF ReadInstruction, LookAtTop, IInv, TypeOK
<1>3. CASE pool' = NoKey /\ mint' = NoKey
  <2>1. at \notin Telling(tx)
    BY <1>1, <1>2, <1>3, TellingHere DEF IInv
  <2>2. \A n \in Telling(tx) : n >= at + 1
    BY <1>1, <2>1
  <2>3. at' = at + 1 /\ phase' = "top"
    BY <1>2, <1>3 DEF ReadInstruction
  <2> QED
    BY <1>2, <1>3, <2>2, <2>3 DEF Progress, ExtractionCorrect
<1>4. CASE ~(pool' = NoKey /\ mint' = NoKey)
  <2>1. at \in Telling(tx)
    BY <1>1, <1>2, <1>4, TellingHere DEF IInv
  <2>2. pool' = PoolOf(tx) /\ mint' = TopLevelMint(tx)
    BY <1>1, <1>2, <2>1, FirstTells
  <2>3. SearchInner(mint')
    BY <1>4 DEF ReadInstruction
  <2> QED
    BY <1>2, <2>2, <2>3, SearchInnerStep
<1> QED
  BY <1>3, <1>4

LEMMA EndOfTopStep ==
    ASSUME IInv, TypeOK', EndOfTop
    PROVE  Progress' /\ ExtractionCorrect'
<1>1. Telling(tx) = {}
  <2>1. SUFFICES ASSUME NEW n \in Telling(tx) PROVE FALSE
    OBVIOUS
  <2>2. n \in 1..Len(tx.instructions) /\ n >= at
    BY UpdateFields DEF IInv, TypeOK, Progress, EndOfTop, Telling
  <2> QED
    BY <2>2, UpdateFields DEF EndOfTop, IInv, TypeOK
<1>2. pool = PoolOf(tx) /\ mint = TopLevelMint(tx)
  BY <1>1, NoneTelling DEF IInv, TypeOK, Progress, EndOfTop
<1>3. /\ tx \in Transaction /\ tx' = tx
      /\ SearchInner(mint') /\ pool' = pool /\ mint' = mint
  BY DEF EndOfTop, IInv, TypeOK
<1> QED
  BY <1>2, <1>3, SearchInnerStep

LEMMA ReadInnerStep ==
    ASSUME IInv, TypeOK', ReadInner
    PROVE  Progress' /\ ExtractionCorrect'
<1>1. /\ tx \in Transaction
      /\ at \in DOMAIN tx.inner
      /\ tx.inner[at] \in Seq(Seq(Nat))
      /\ at \in Nat
  BY UpdateFields, ElementType DEF IInv, TypeOK, ReadInner
<1>2. within \in DOMAIN tx.inner[at] /\ within \in Nat
  BY <1>1 DEF IInv, TypeOK, ReadInner
<1>3. /\ tx' = tx /\ at' = at /\ pool' = pool
      /\ mint' = FirstPump(tx, tx.inner[at][within])
      /\ within' = within + 1
      /\ phase' = IF mint' = NoKey THEN "inner" ELSE "returned"
      /\ phase = "inner"
  BY DEF ReadInner
<1>4. /\ pool = PoolOf(tx)
      /\ TopLevelMint(tx) = NoKey
      /\ \A p \in InnerTelling(tx) :
            p[1] > at \/ (p[1] = at /\ p[2] >= within)
  BY <1>3 DEF IInv, Progress
<1>5. CASE mint' = NoKey
  <2>1. <<at, within>> \notin InnerTelling(tx)
    BY <1>1, <1>2, <1>3, <1>5, InnerTellingHere
  <2>2. \A p \in InnerTelling(tx) :
            p[1] > at \/ (p[1] = at /\ p[2] >= within + 1)
    <3>1. SUFFICES ASSUME NEW p \in InnerTelling(tx)
                   PROVE  p[1] > at \/ (p[1] = at /\ p[2] >= within + 1)
      OBVIOUS
    <3>2. p = <<p[1], p[2]>> /\ p[1] \in Nat /\ p[2] \in Nat
      BY <1>1, InnerPlaces
    <3>3. ~ (p[1] = at /\ p[2] = within)
      BY <2>1, <3>2
    <3>4. p[1] > at \/ (p[1] = at /\ p[2] >= within)
      BY <1>4
    <3> QED
      BY <1>1, <1>2, <3>2, <3>3, <3>4
  <2> QED
    BY <1>3, <1>4, <1>5, <2>2 DEF Progress, ExtractionCorrect
<1>6. CASE mint' # NoKey
  <2>1. <<at, within>> \in InnerTelling(tx)
    BY <1>1, <1>2, <1>3, <1>6, InnerTellingHere
  <2>2. MintOf(tx) = mint'
    BY <1>1, <1>2, <1>3, <1>4, <2>1, FirstInnerTells
  <2> QED
    BY <1>3, <1>4, <1>6, <2>2 DEF Progress, ExtractionCorrect
<1> QED
  BY <1>5, <1>6

LEMMA EndOfEntryStep ==
    ASSUME IInv, TypeOK', EndOfEntry
    PROVE  Progress' /\ ExtractionCorrect'
<1>1. /\ tx \in Transaction
      /\ at \in 1..Len(tx.inner)
      /\ within > Len(tx.inner[at])
      /\ within \in Nat
      /\ tx.inner[at] \in Seq(Seq(Nat))
      /\ phase = "inner"
  BY UpdateFields, ElementType DEF IInv, TypeOK, EndOfEntry
<1>2. \A p \in InnerTelling(tx) : p[1] > at \/ (p[1] = at /\ p[2] >= within)
  BY <1>1 DEF IInv, Progress
<1>3. \A p \in InnerTelling(tx) :
          p[1] > at + 1 \/ (p[1] = at + 1 /\ p[2] >= 1)
  <2>1. SUFFICES ASSUME NEW p \in InnerTelling(tx)
                 PROVE  p[1] > at + 1 \/ (p[1] = at + 1 /\ p[2] >= 1)
    OBVIOUS
  <2>2. /\ p[1] \in 1..Len(tx.inner)
        /\ p[2] \in 1..Len(tx.inner[p[1]])
    BY <1>1, InnerPlaces
  <2>3. p[1] \in Nat /\ p[2] \in Nat /\ p[2] >= 1
    BY <2>2
  <2>4. p[1] # at
    <3>1. SUFFICES ASSUME p[1] = at PROVE FALSE
      OBVIOUS
    <3>2. p[2] \in 1..Len(tx.inner[at]) /\ p[2] >= within
      BY <1>1, <1>2, <2>2, <3>1
    <3> QED
      BY <1>1, <3>2
  <2> QED
    BY <1>1, <1>2, <2>3, <2>4
<1> QED
  BY <1>1, <1>3 DEF IInv, Progress, ExtractionCorrect, EndOfEntry

LEMMA EndOfInnerStep ==
    ASSUME IInv, TypeOK', EndOfInner
    PROVE  Progress' /\ ExtractionCorrect'
<1>1. tx \in Transaction /\ at > Len(tx.inner) /\ at \in Nat
  BY DEF IInv, TypeOK, EndOfInner
<1>2. \A p \in InnerTelling(tx) : p[1] > at \/ (p[1] = at /\ p[2] >= within)
  BY DEF IInv, Progress, EndOfInner
<1>3. \A p \in InnerTelling(tx) : p[1] \in 1..Len(tx.inner)
  BY <1>1, InnerPlaces
<1>4. InnerTelling(tx) = {}
  BY <1>1, <1>2, <1>3, UpdateFields
<1>5. MintOf(tx) = NoKey
  BY <1>4 DEF MintOf, IInv, Progress, EndOfInner
<1> QED
  BY <1>5 DEF IInv, Progress, ExtractionCorrect, EndOfInner

\* The program is among the keys once an instruction is found to run it.
LEMMA FilterStep ==
    ASSUME IInv, [Next]_vars
    PROVE  FilterKeepsPools'
<1>1. tx \in Transaction
  BY DEF IInv, TypeOK
<1>2. CASE ReadInstruction
  <2>1. RunsProgram(tx, at) /\ tx' = tx /\ at \in DOMAIN tx.instructions
    BY <1>2, UpdateFields DEF ReadInstruction, LookAtTop, IInv, TypeOK
  <2>2. \E n \in DOMAIN tx.keys : tx.keys[n] = ProgramId
    BY <1>1, <2>1, PoolHasProgram
  <2> QED
    BY <2>1, <2>2
    DEF FilterKeepsPools, MatchesTransaction, AccountInclude
<1>3. CASE ~ReadInstruction
  <2>1. tx' = tx /\ pool' = pool
    BY <1>3 DEF Next, PartMissing, SkipInstruction, EndOfTop, ReadInner,
                EndOfEntry, EndOfInner, Returned, vars
  <2> QED
    BY <2>1 DEF IInv, FilterKeepsPools
<1> QED
  BY <1>2, <1>3

-----------------------------------------------------------------------------
LEMMA InductiveInvariant == Spec => []IInv
<1>1. Init => IInv
  <2> SUFFICES ASSUME Init PROVE IInv
    OBVIOUS
  <2>2. \A n \in Telling(tx) : n >= at
    BY UpdateFields DEF Init, Telling
  <2> QED
    BY <2>2 DEF Init, IInv, TypeOK, Progress, ExtractionCorrect,
                FilterKeepsPools
<1>2. IInv /\ [Next]_vars => IInv'
  <2> SUFFICES ASSUME IInv, [Next]_vars PROVE IInv'
    OBVIOUS
  <2>2. TypeOK' /\ FilterKeepsPools'
    BY TypeStep, FilterStep DEF IInv
  <2>3. CASE PartMissing
    BY <2>2, <2>3 DEF IInv, Progress, ExtractionCorrect, PartMissing
  <2>4. CASE Returned \/ UNCHANGED vars
    BY <2>2, <2>4 DEF IInv, Progress, ExtractionCorrect, Returned, vars
  <2>5. Progress' /\ ExtractionCorrect'
    BY <2>2, <2>3, <2>4, SkipInstructionStep, ReadInstructionStep,
       EndOfTopStep, ReadInnerStep, EndOfEntryStep, EndOfInnerStep
    DEF Next, IInv
  <2> QED
    BY <2>2, <2>5 DEF IInv
<1> QED
  BY <1>1, <1>2, PTL DEF Spec

\* The positions stay numbers, what is found stays a key or nothing.
THEOREM PoolExtractionTypeCorrect == Spec => []TypeOK
  BY InductiveInvariant, PTL DEF IInv

\* The two searches of extract_pool_address_mint_and_signers, for every
\* transaction: out-of-range indices, short and empty lists included.
THEOREM SearchesAreCorrect == Spec => []ExtractionCorrect
  BY InductiveInvariant, PTL DEF IInv

\* matches_event never skips a transaction in which the monitor finds a pool.
THEOREM FilterNeverSkipsPools == Spec => []FilterKeepsPools
  BY InductiveInvariant, PTL DEF IInv
==============================================================================
