------------------------------ MODULE PoolTable -------------------------------
(***************************************************************************)
(* The table liquidity_pools_v4 as the outside sees it, without streams,   *)
(* tasks, connections to the database, crashes or restarts: what           *)
(* EventPipeline promises to whoever reads the table.                      *)
(*                                                                         *)
(* For each update that reaches the program it is decided once, and for    *)
(* good, whether an INSERT is given to the database.  The database does    *)
(* an INSERT once or not at all, in any order and at any later time.  The  *)
(* rows that are there keep their place, and become inactive all at once,  *)
(* never one by one and never active again.                                *)
(***************************************************************************)
EXTENDS Sequences

CONSTANTS Item,       \* updates that can reach the program
          Storable    \* those among them that belong in the table

VARIABLES decided,    \* the updates that nothing more will be done about
          given,      \* INSERTs the database has and may still do
          table

tableState == <<decided, given, table>>

TableInit ==
    /\ decided = {}
    /\ given = {}
    /\ table = <<>>

\* An update is stored, as far as the program goes.
Give(d) ==
    /\ d \in Storable \ decided
    /\ decided' = decided \cup {d}
    /\ given' = given \cup {d}
    /\ UNCHANGED table

\* Updates are not stored: not wanted, no connection in time, or lost.
PassBy(items) ==
    /\ items \cap decided = {}
    /\ decided' = decided \cup items
    /\ UNCHANGED <<given, table>>

Commit(d) ==
    /\ d \in given
    /\ given' = given \ {d}
    /\ table' = Append(table, [of |-> d, active |-> TRUE])
    /\ UNCHANGED decided

Lose(d) ==
    /\ d \in given
    /\ given' = given \ {d}
    /\ UNCHANGED <<decided, table>>

MarkAll ==
    /\ table' = [n \in DOMAIN table |-> [table[n] EXCEPT !.active = FALSE]]
    /\ UNCHANGED <<decided, given>>

TableNext ==
    \/ \E d \in Item : Give(d) \/ Commit(d) \/ Lose(d)
    \/ \E items \in SUBSET Item : PassBy(items)
    \/ MarkAll

TableSpec == TableInit /\ [][TableNext]_tableState
==============================================================================
