------------------------- MODULE SubscriptionsProofs -------------------------
(***************************************************************************)
(* The operations on client_subscriptions keep it the index of the         *)
(* registered subscriptions, and a request can be built for any set of     *)
(* them.                                                                   *)
(***************************************************************************)
EXTENDS Subscriptions, TLAPS

\* The clients that have an entry in the index of subs.
LEMMA IndexOfEntries ==
    ASSUME NEW subs \in SUBSET SubId
    PROVE  /\ IndexOf(subs) \in ClientIndex
           /\ \A c : c \in DOMAIN IndexOf(subs) <=> OwnedBy(subs, c) # {}
           /\ \A c \in DOMAIN IndexOf(subs) : IndexOf(subs)[c] = OwnedBy(subs, c)
<1> DEFINE D == { ClientOf[s] : s \in subs }
<1>1. D \in SUBSET Client
  BY SubscriptionAssumption
<1>2. IndexOf(subs) = [c \in D |-> OwnedBy(subs, c)]
  BY DEF IndexOf, OwnedBy
<1>3. \A c : OwnedBy(subs, c) \in SUBSET SubId
  BY DEF OwnedBy
<1>4. [c \in D |-> OwnedBy(subs, c)] \in [D -> SUBSET SubId]
  BY <1>3
<1>5. IndexOf(subs) \in ClientIndex
  BY <1>1, <1>2, <1>4, Zenon DEF ClientIndex
<1>6. \A c : c \in D <=> OwnedBy(subs, c) # {}
  BY DEF OwnedBy
<1>7. DOMAIN IndexOf(subs) = D
  BY <1>2
<1> QED
  BY <1>2, <1>5, <1>6, <1>7

\* Two functions that agree on one domain are equal.
LEMMA IndexIsIndexOf ==
    ASSUME NEW subs \in SUBSET SubId, NEW f, f = [c \in DOMAIN f |-> f[c]],
           \A c : c \in DOMAIN f <=> OwnedBy(subs, c) # {},
           \A c \in DOMAIN f : f[c] = OwnedBy(subs, c)
    PROVE  f = IndexOf(subs)
<1>1. DOMAIN f = { ClientOf[s] : s \in subs }
  BY DEF OwnedBy
<1>2. f = [c \in { ClientOf[s] : s \in subs } |-> f[c]]
  BY <1>1
<1>3. \A c \in { ClientOf[s] : s \in subs } : f[c] = OwnedBy(subs, c)
  BY <1>1
<1> QED
  BY <1>2, <1>3 DEF IndexOf, OwnedBy

\* entry(c).or_insert_with(..).insert(s), lines 258-261 of manager.rs.
LEMMA IndexInsertCorrect ==
    ASSUME NEW subs \in SUBSET SubId, NEW s \in SubId
    PROVE  IndexInsert(IndexOf(subs), ClientOf[s], s) = IndexOf(subs \cup {s})
<1> DEFINE f == IndexInsert(IndexOf(subs), ClientOf[s], s)
           after == subs \cup {s}
<1>1. \A c : OwnedBy(after, c) =
                 IF c = ClientOf[s] THEN OwnedBy(subs, c) \cup {s}
                 ELSE OwnedBy(subs, c)
  BY DEF OwnedBy
<1>2. DOMAIN f = DOMAIN IndexOf(subs) \cup {ClientOf[s]}
  BY DEF IndexInsert
<1>3. \A c \in DOMAIN f :
          f[c] = IF c # ClientOf[s] THEN IndexOf(subs)[c]
                 ELSE IF c \in DOMAIN IndexOf(subs)
                 THEN IndexOf(subs)[c] \cup {s} ELSE {s}
  BY DEF IndexInsert
<1>4. f = [c \in DOMAIN f |-> f[c]]
  BY DEF IndexInsert
<1>5. \A c : c \in DOMAIN f <=> OwnedBy(after, c) # {}
  BY <1>1, <1>2, IndexOfEntries
<1>6. \A c \in DOMAIN f : f[c] = OwnedBy(after, c)
  BY <1>1, <1>2, <1>3, IndexOfEntries
<1>7. after \in SUBSET SubId
  OBVIOUS
<1> HIDE DEF f, after
<1>8. f = IndexOf(after)
  BY <1>4, <1>5, <1>6, <1>7, IndexIsIndexOf
<1> QED
  BY <1>8 DEF f, after

\* client_subs.remove(c), line 316.
LEMMA IndexDropCorrect ==
    ASSUME NEW subs \in SUBSET SubId, NEW c
    PROVE  IndexDrop(IndexOf(subs), c) = IndexOf(subs \ OwnedBy(subs, c))
<1> DEFINE f == IndexDrop(IndexOf(subs), c)
           after == subs \ OwnedBy(subs, c)
<1>1. \A d : OwnedBy(after, d) = IF d = c THEN {} ELSE OwnedBy(subs, d)
  BY DEF OwnedBy
<1>2. f = [d \in DOMAIN IndexOf(subs) \ {c} |-> IndexOf(subs)[d]]
  BY DEF IndexDrop, Restrict
<1>3. /\ DOMAIN f = DOMAIN IndexOf(subs) \ {c}
      /\ \A d \in DOMAIN f : f[d] = IndexOf(subs)[d]
      /\ f = [d \in DOMAIN f |-> f[d]]
  BY <1>2
<1>4. \A d : d \in DOMAIN f <=> OwnedBy(after, d) # {}
  BY <1>1, <1>3, IndexOfEntries
<1>5. \A d \in DOMAIN f : f[d] = OwnedBy(after, d)
  BY <1>1, <1>3, IndexOfEntries
<1>6. after \in SUBSET SubId
  OBVIOUS
<1> HIDE DEF f, after
<1>7. f = IndexOf(after)
  BY <1>3, <1>4, <1>5, <1>6, IndexIsIndexOf
<1> QED
  BY <1>7 DEF f, after

\* subs.remove(s), and the entry with it when it was the last, lines 282-287.
LEMMA IndexRemoveCorrect ==
    ASSUME NEW subs \in SUBSET SubId, NEW s \in SubId
    PROVE  IndexRemove(IndexOf(subs), ClientOf[s], s) = IndexOf(subs \ {s})
<1> DEFINE index == IndexOf(subs)
           c == ClientOf[s]
           after == subs \ {s}
<1>1. \A d : OwnedBy(after, d) =
                 IF d = c THEN OwnedBy(subs, c) \ {s} ELSE OwnedBy(subs, d)
  BY DEF OwnedBy
<1>2. after \in SUBSET SubId
  OBVIOUS
<1>3. CASE c \notin DOMAIN index
  <2>1. OwnedBy(subs, c) = {}
    BY <1>3, IndexOfEntries
  <2>2. after = subs
    BY <2>1 DEF OwnedBy
  <2> QED
    BY <1>3, <2>2 DEF IndexRemove
<1>4. CASE c \in DOMAIN index /\ index[c] \subseteq {s}
  <2>1. IndexRemove(index, c, s) = IndexDrop(index, c)
    BY <1>4, Zenon DEF IndexRemove
  <2>2. OwnedBy(subs, c) # {} /\ OwnedBy(subs, c) \subseteq {s}
    BY <1>4, IndexOfEntries
  <2>3. OwnedBy(subs, c) = {s}
    BY <2>2
  <2>4. after = subs \ OwnedBy(subs, c)
    BY <2>3
  <2> QED
    BY <2>1, <2>4, IndexDropCorrect
<1>5. CASE c \in DOMAIN index /\ ~(index[c] \subseteq {s})
  <2> DEFINE f == [index EXCEPT ![c] = @ \ {s}]
  <2>1. IndexRemove(index, c, s) = f
    BY <1>5, Zenon DEF IndexRemove
  <2>2. /\ DOMAIN f = DOMAIN index
        /\ f = [d \in DOMAIN f |-> f[d]]
        /\ \A d \in DOMAIN f : f[d] = IF d = c THEN index[c] \ {s} ELSE index[d]
    BY <1>5
  <2>3. \A d : d \in DOMAIN f <=> OwnedBy(after, d) # {}
    <3>1. OwnedBy(after, c) # {}
      BY <1>1, <1>5, IndexOfEntries
    <3> QED
      BY <1>1, <1>5, <2>2, <3>1, IndexOfEntries
  <2>4. \A d \in DOMAIN f : f[d] = OwnedBy(after, d)
    BY <1>1, <1>5, <2>2, IndexOfEntries
  <2> HIDE DEF f, after
  <2>5. f = IndexOf(after)
    BY <1>2, <2>2, <2>3, <2>4, IndexIsIndexOf
  <2> QED
    BY <2>1, <2>5 DEF after
<1> QED
  BY <1>3, <1>4, <1>5

\* client_subs.get(c), lines 299-302.
LEMMA IndexLookupCorrect ==
    ASSUME NEW subs \in SUBSET SubId, NEW c
    PROVE  IndexLookup(IndexOf(subs), c) = OwnedBy(subs, c)
BY IndexOfEntries DEF IndexLookup

\* Some request can be built from any registry, and it carries registered
\* subscriptions only (lines 456-486).
THEOREM RequestExists ==
    ASSUME NEW subs \in SUBSET SubId
    PROVE  /\ BuildSubscribeRequest(subs) # {}
           /\ BuildSubscribeRequest(subs) \subseteq SUBSET subs
<1> DEFINE pick(slot) == CHOOSE s \in subs : FilterSlot(s) = slot
           req == { pick(FilterSlot(s)) : s \in subs }
<1>1. \A s \in subs :
          pick(FilterSlot(s)) \in subs
          /\ FilterSlot(pick(FilterSlot(s))) = FilterSlot(s)
  <2> TAKE s \in subs
  <2>1. \E t \in subs : FilterSlot(t) = FilterSlot(s)
    OBVIOUS
  <2> HIDE DEF pick
  <2> QED
    BY <2>1 DEF pick
<1> HIDE DEF pick
<1>2. req \in SUBSET subs
  BY <1>1
<1>3. \A s \in subs : \E r \in req : FilterSlot(r) = FilterSlot(s)
  BY <1>1
<1>4. \A r1, r2 \in req : FilterSlot(r1) = FilterSlot(r2) => r1 = r2
  <2> TAKE r1, r2 \in req
  <2>1. PICK s1 \in subs : r1 = pick(FilterSlot(s1))
    OBVIOUS
  <2>2. PICK s2 \in subs : r2 = pick(FilterSlot(s2))
    OBVIOUS
  <2> QED
    BY <1>1, <2>1, <2>2
<1> HIDE DEF req
<1>5. req \in BuildSubscribeRequest(subs)
  BY <1>2, <1>3, <1>4 DEF BuildSubscribeRequest
<1> QED
  BY <1>5 DEF BuildSubscribeRequest
==============================================================================
