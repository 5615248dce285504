------------------------- MODULE TransactionsProofs --------------------------
(***************************************************************************)
(* What is read in a transaction update: the types of what the operators   *)
(* of Transactions give, where the searches find it, and what a            *)
(* transaction that the handler stores must have.                          *)
(***************************************************************************)
EXTENDS Transactions, TLAPS, WellFoundedInduction

LEMMA ElementType ==
    ASSUME NEW S, NEW s \in Seq(S), NEW n \in DOMAIN s
    PROVE  s[n] \in S
  OBVIOUS

LEMMA UpdateFields ==
    ASSUME NEW t \in TransactionUpdate
    PROVE  /\ t.whole \in BOOLEAN
           /\ t.keys \in Seq(Key)
           /\ t.signers \in Nat
           /\ t.instructions \in Seq([program : Nat, accounts : Seq(Nat)])
           /\ t.inner \in Seq(Seq(Seq(Nat)))
  BY DEF TransactionUpdate

\* An index gives a key of the transaction, or none.
LEMMA KeyAtType ==
    ASSUME NEW t \in TransactionUpdate, NEW index \in Nat
    PROVE  /\ KeyAt(t, index) \in Key \cup {NoKey}
           /\ KeyAt(t, index) # NoKey =>
                 \E n \in DOMAIN t.keys : t.keys[n] = KeyAt(t, index)
<1>1. t.keys \in Seq(Key)
  BY UpdateFields
<1>2. CASE index < Len(t.keys)
  <2>1. index + 1 \in 1..Len(t.keys) /\ index + 1 \in DOMAIN t.keys
    BY <1>1, <1>2
  <2>2. t.keys[index + 1] \in Key
    BY <1>1, <2>1
  <2> QED
    BY <1>2, <2>1, <2>2 DEF KeyAt
<1>3. CASE ~(index < Len(t.keys))
  BY <1>3 DEF KeyAt
<1> QED
  BY <1>2, <1>3

\* Min of a set of naturals with a least element.
LEMMA LeastIsMin ==
    ASSUME NEW S \in SUBSET Nat, NEW m \in S, \A y \in S : m <= y
    PROVE  Min(S) = m
<1>1. \A x \in S : (\A y \in S : x <= y) => x = m
  OBVIOUS
<1>2. (CHOOSE x \in S : \A y \in S : x <= y) = m
  BY <1>1
<1> QED
  BY <1>2 DEF Min

LEMMA LeastExists ==
    ASSUME NEW S \in SUBSET Nat, S # {}
    PROVE  \E m \in S : \A y \in S : m <= y
<1>1. PICK m \in S : \A y \in S : ~ <<y, m>> \in OpToRel(<, Nat)
  BY NatLessThanWellFounded, WFMin
<1>2. \A y \in S : ~ (y < m)
  BY <1>1 DEF OpToRel
<1> QED
  BY <1>2

LEMMA FifthAccountType ==
    ASSUME NEW t \in TransactionUpdate, NEW accounts \in Seq(Nat)
    PROVE  FifthAccount(t, accounts) \in Key \cup {NoKey}
<1>1. Len(accounts) > 4 => accounts[5] \in Nat
  OBVIOUS
<1> QED
  BY <1>1, KeyAtType DEF FifthAccount

LEMMA FirstPumpType ==
    ASSUME NEW t \in TransactionUpdate, NEW accounts \in Seq(Nat)
    PROVE  FirstPump(t, accounts) \in Key \cup {NoKey}
<1>1. CASE PumpPlaces(t, accounts) = {}
  BY <1>1 DEF FirstPump
<1>2. CASE PumpPlaces(t, accounts) # {}
  <2> DEFINE P == PumpPlaces(t, accounts)
  <2>1. P \in SUBSET Nat /\ P \subseteq DOMAIN accounts
    BY DEF PumpPlaces
  <2>2. PICK p \in P : TRUE
    BY <1>2
  <2>3. Min(P) \in P
    <3>1. \E m \in P : \A y \in P : m <= y
      BY <2>1, <2>2, LeastExists
    <3> QED
      BY <3>1, <2>1, LeastIsMin
  <2>4. accounts[Min(P)] \in Nat
    BY <2>1, <2>3
  <2> QED
    BY <2>4, <1>2, KeyAtType DEF FirstPump
<1> QED
  BY <1>1, <1>2

-----------------------------------------------------------------------------
\* What the first telling instruction, and the first inner one, give.
LEMMA FirstTells ==
    ASSUME NEW t \in TransactionUpdate, NEW n \in Telling(t),
           \A m \in Telling(t) : m >= n
    PROVE  /\ PoolOf(t) = FifthAccount(t, t.instructions[n].accounts)
           /\ TopLevelMint(t) = FirstPump(t, t.instructions[n].accounts)
<1>1. Telling(t) \in SUBSET Nat
  BY UpdateFields DEF Telling
<1>2. Min(Telling(t)) = n
  BY <1>1, LeastIsMin
<1>3. Telling(t) # {}
  OBVIOUS
<1> QED
  BY <1>2, <1>3 DEF PoolOf, TopLevelMint

LEMMA NoneTelling ==
    ASSUME NEW t \in TransactionUpdate, Telling(t) = {}
    PROVE  PoolOf(t) = NoKey /\ TopLevelMint(t) = NoKey
  BY DEF PoolOf, TopLevelMint

LEMMA FirstInnerTells ==
    ASSUME NEW t \in TransactionUpdate, TopLevelMint(t) = NoKey,
           NEW o \in Nat, NEW i \in Nat, <<o, i>> \in InnerTelling(t),
           \A p \in InnerTelling(t) : p[1] > o \/ (p[1] = o /\ p[2] >= i)
    PROVE  MintOf(t) = FirstPump(t, t.inner[o][i])
<1>1. \A p \in InnerTelling(t) :
          p = <<p[1], p[2]>> /\ p[1] \in Nat /\ p[2] \in Nat
  <2>1. SUFFICES ASSUME NEW p \in InnerTelling(t)
                 PROVE  p = <<p[1], p[2]>> /\ p[1] \in Nat /\ p[2] \in Nat
    BY <2>1
  <2>2. PICK k \in DOMAIN t.inner : p \in {k} \X DOMAIN t.inner[k]
    BY DEF InnerTelling
  <2>3. k \in Nat /\ DOMAIN t.inner[k] \in SUBSET Nat
    BY UpdateFields
  <2> QED
    BY <2>2, <2>3
<1>2. \A q \in InnerTelling(t) : <<o, i>> = q \/ Earlier(<<o, i>>, q)
  BY <1>1 DEF Earlier
<1>3. \A p \in InnerTelling(t) :
          (\A q \in InnerTelling(t) : p = q \/ Earlier(p, q)) => p = <<o, i>>
  BY <1>1, <1>2 DEF Earlier
<1>4. FirstInnerTelling(t) = <<o, i>>
  BY <1>2, <1>3 DEF FirstInnerTelling
<1>5. InnerTelling(t) # {}
  OBVIOUS
<1> QED
  BY <1>4, <1>5 DEF MintOf

LEMMA InnerTellingHere ==
    ASSUME NEW t \in TransactionUpdate, NEW o \in DOMAIN t.inner,
           NEW i \in DOMAIN t.inner[o]
    PROVE  <<o, i>> \in InnerTelling(t) <=>
              FirstPump(t, t.inner[o][i]) # NoKey
<1>1. <<o, i>> \in UNION { {k} \X DOMAIN t.inner[k] : k \in DOMAIN t.inner }
  OBVIOUS
<1> QED
  BY <1>1 DEF InnerTelling

LEMMA InnerPlaces ==
    ASSUME NEW t \in TransactionUpdate, NEW p \in InnerTelling(t)
    PROVE  /\ p = <<p[1], p[2]>>
           /\ p[1] \in 1..Len(t.inner)
           /\ p[2] \in 1..Len(t.inner[p[1]])
<1>1. PICK k \in DOMAIN t.inner : p \in {k} \X DOMAIN t.inner[k]
  BY DEF InnerTelling
<1>2. k \in 1..Len(t.inner) /\ t.inner[k] \in Seq(Seq(Nat))
  BY UpdateFields
<1>3. DOMAIN t.inner[k] = 1..Len(t.inner[k])
  BY <1>2
<1> QED
  BY <1>1, <1>2, <1>3

-----------------------------------------------------------------------------
\* A transaction with a pool runs the program.
LEMMA PoolHasProgram ==
    ASSUME NEW t \in TransactionUpdate, NEW n \in DOMAIN t.instructions,
           RunsProgram(t, n)
    PROVE  \E k \in DOMAIN t.keys : t.keys[k] = ProgramId
<1>1. t.instructions[n] \in [program : Nat, accounts : Seq(Nat)]
  BY UpdateFields, ElementType
<1>2. t.instructions[n].program \in Nat
  BY <1>1
<1> QED
  BY <1>2, KeyAtType, TransactionAssumption DEF RunsProgram

\* A list in which a pump key is found names one of the transaction.
LEMMA FirstPumpIsPump ==
    ASSUME NEW t \in TransactionUpdate, NEW accounts \in Seq(Nat),
           FirstPump(t, accounts) # NoKey
    PROVE  \E k \in DOMAIN t.keys : t.keys[k] \in PumpKey
<1>1. PICK place \in PumpPlaces(t, accounts) : TRUE
  BY DEF FirstPump
<1>2. accounts[place] \in Nat /\ KeyAt(t, accounts[place]) \in PumpKey
  BY ElementType DEF PumpPlaces
<1> QED
  BY <1>2, KeyAtType, TransactionAssumption

\* What the handler stores is signed, runs the program and names a pump key.
LEMMA WantedIsMigration ==
    ASSUME NEW t \in TransactionUpdate, Wants(t)
    PROVE  /\ t.initialize2
           /\ \E k \in DOMAIN t.keys \cap 1..t.signers :
                  t.keys[k] = MigrationPubkey
           /\ \E k \in DOMAIN t.keys : t.keys[k] = ProgramId
           /\ \E k \in DOMAIN t.keys : t.keys[k] \in PumpKey
<1>1. PICK n \in Telling(t) : n = Min(Telling(t))
  <2>1. Telling(t) # {}
    BY DEF Wants, PoolEvent, PoolOf
  <2>2. Telling(t) \in SUBSET Nat
    BY UpdateFields DEF Telling
  <2>3. PICK m \in Telling(t) : \A y \in Telling(t) : m <= y
    BY <2>1, <2>2, LeastExists
  <2> QED
    BY <2>2, <2>3, LeastIsMin
<1>2. n \in DOMAIN t.instructions /\ RunsProgram(t, n)
  BY DEF Telling
<1>3. t.instructions[n] \in [program : Nat, accounts : Seq(Nat)]
  BY <1>2, UpdateFields, ElementType
<1>4. \E k \in DOMAIN t.keys : t.keys[k] \in PumpKey
  <2>1. CASE TopLevelMint(t) # NoKey
    <3>1. FirstPump(t, t.instructions[n].accounts) # NoKey
      BY <1>1, <2>1 DEF TopLevelMint
    <3> QED
      BY <1>3, <3>1, FirstPumpIsPump
  <2>2. CASE TopLevelMint(t) = NoKey
    <3>1. InnerTelling(t) # {}
      BY <2>2 DEF Wants, PoolEvent, MintOf
    <3>2. PICK p \in InnerTelling(t) : TRUE
      BY <3>1
    <3>3. /\ FirstPump(t, t.inner[p[1]][p[2]]) # NoKey
          /\ p[1] \in DOMAIN t.inner
          /\ p[2] \in DOMAIN t.inner[p[1]]
      BY InnerPlaces, UpdateFields, ElementType DEF InnerTelling
    <3>4. t.inner[p[1]][p[2]] \in Seq(Nat)
      BY <3>3, UpdateFields, ElementType
    <3> QED
      BY <3>3, <3>4, FirstPumpIsPump
  <2> QED
    BY <2>1, <2>2
<1>5. \E k \in DOMAIN t.keys \cap 1..t.signers : t.keys[k] = MigrationPubkey
  BY DEF Wants, PoolEvent, SignersOf
<1> QED
  BY <1>2, <1>4, <1>5, PoolHasProgram DEF Wants, PoolEvent
==============================================================================
