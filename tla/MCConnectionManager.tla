------------------------- MODULE MCConnectionManager -------------------------
(* Instances of ConnectionManager for TLC.                                 *)
EXTENDS SubscriptionFeed, TLC

CONSTANTS s1, s2, s3, raydium, other, transactions, accounts

\* Two clients; two subscriptions of one client share their kind.
MCClientOf == s1 :> raydium @@ s2 :> raydium @@ s3 :> other
MCKindOf == s1 :> transactions @@ s2 :> transactions @@ s3 :> accounts

MCClientOf1 == s1 :> raydium
MCKindOf1 == s1 :> transactions

\* The behaviours in which nobody calls shutdown().
NoShutdownSpec == Init /\ [][Next /\ caller' = "idle"]_vars

====
