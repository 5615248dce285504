---------------------------- MODULE Subscriptions ----------------------------
(***************************************************************************)
(* The data of the connection manager: subscriptions, the index of them by *)
(* client, and the request that carries them to the Geyser server          *)
(* (src/connection/subscription.rs and the registries of manager.rs).      *)
(*                                                                         *)
(* A Subscription is known by its id.  Its client and the kind of filter   *)
(* it carries are fixed when it is built, so they are functions of the id; *)
(* the content of the filter stands behind the id too, since no two        *)
(* subscriptions share an id.                                              *)
(***************************************************************************)
EXTENDS Functions

CONSTANTS SubId,      \* subscription ids handed out by NEXT_SUB_ID
          Client,     \* client ids
          Kind,       \* variants of SubscriptionType
          ClientOf,   \* Subscription::client_id
          KindOf      \* Subscription::subscription_type

ASSUME SubscriptionAssumption ==
    /\ ClientOf \in [SubId -> Client]
    /\ KindOf \in [SubId -> Kind]

-----------------------------------------------------------------------------
(* client_subscriptions: a map from a client to the ids of its             *)
(* subscriptions.  A client without subscriptions has no entry.            *)

ClientIndex ==
    UNION { [D -> SUBSET SubId] : D \in SUBSET Client }

\* client_subs.entry(c).or_insert_with(HashSet::new).insert(s)
IndexInsert(index, c, s) ==
    [d \in DOMAIN index \cup {c} |->
        IF d # c THEN index[d]
        ELSE IF c \in DOMAIN index THEN index[c] \cup {s} ELSE {s}]

\* The entry of c goes away as a whole.
IndexDrop(index, c) ==
    Restrict(index, DOMAIN index \ {c})

\* Mutant: an entry that becomes empty stays.
IndexRemoveKeepsEntry(index, c, s) ==
    IF c \in DOMAIN index THEN [index EXCEPT ![c] = @ \ {s}] ELSE index

\* s leaves the entry of c, and an entry that becomes empty goes away.
IndexRemove(index, c, s) ==
    IF c \notin DOMAIN index THEN index
    ELSE IF index[c] \subseteq {s} THEN IndexDrop(index, c)
    ELSE [index EXCEPT ![c] = @ \ {s}]

\* The ids recorded for c, none when c has no entry.
IndexLookup(index, c) ==
    IF c \in DOMAIN index THEN index[c] ELSE {}

-----------------------------------------------------------------------------
(* SubscribeRequest: one map per kind of filter, each keyed by client id.  *)

\* The place of s in the request: which of its five maps, and which key.
FilterSlot(s) == <<KindOf[s], ClientOf[s]>>

\* The requests that build_subscribe_request can return for the registered
\* subscriptions subs.  It walks the HashMap in an order the program does not
\* control and inserts each filter into its slot, so of several subscriptions
\* with one slot any single one remains.  A request is the set of the
\* subscriptions whose filters it carries.
BuildSubscribeRequest(subs) ==
    { req \in SUBSET subs :
        /\ \A s \in subs : \E r \in req : FilterSlot(r) = FilterSlot(s)
        /\ \A r1, r2 \in req : FilterSlot(r1) = FilterSlot(r2) => r1 = r2 }

-----------------------------------------------------------------------------
(* Reference definitions the properties compare with.                      *)

\* What client_subscriptions should be when subs are registered.
IndexOf(subs) ==
    [c \in { ClientOf[s] : s \in subs } |-> { s \in subs : ClientOf[s] = c }]

\* The subscriptions of a client.
OwnedBy(subs, c) == { s \in subs : ClientOf[s] = c }
==============================================================================
