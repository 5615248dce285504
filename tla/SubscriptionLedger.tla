------------------------- MODULE SubscriptionLedger --------------------------
(***************************************************************************)
(* What ConnectionManager promises to the callers of its API, without      *)
(* connections, locks or indexes: accepted commands are applied one at a   *)
(* time, in the order in which they were accepted, each to the whole set   *)
(* of active subscriptions, until the manager stops.  Commands accepted    *)
(* but not yet applied when it stops are lost.                             *)
(***************************************************************************)
EXTENDS Sequences, Subscriptions

VARIABLES pending,   \* commands accepted and not yet applied, oldest first
          active,    \* ids of the active subscriptions
          open       \* TRUE until the manager stops

ledgerVars == <<pending, active, open>>

Command ==
    [op : {"add", "remove"}, sub : SubId]
        \cup [op : {"remove_client"}, client : Client]
        \cup [op : {"shutdown"}]

LedgerTypeOK ==
    /\ pending \in Seq(Command)
    /\ active \in SUBSET SubId
    /\ open \in BOOLEAN

LedgerInit ==
    /\ pending = <<>>
    /\ active = {}
    /\ open = TRUE

Accept(command) ==
    /\ open
    /\ pending' = Append(pending, command)
    /\ UNCHANGED <<active, open>>

\* The set of active subscriptions after a command.
Effect(command, subs) ==
    CASE command.op = "add" -> subs \cup {command.sub}
      [] command.op = "remove" -> subs \ {command.sub}
      [] command.op = "remove_client" -> subs \ OwnedBy(subs, command.client)
      [] OTHER -> subs

Apply ==
    /\ open
    /\ pending # <<>>
    /\ Head(pending).op # "shutdown"
    /\ active' = Effect(Head(pending), active)
    /\ pending' = Tail(pending)
    /\ UNCHANGED open

Stop ==
    /\ open
    /\ open' = FALSE
    /\ pending' = <<>>
    /\ UNCHANGED active

LedgerNext ==
    \/ \E command \in Command : Accept(command)
    \/ Apply
    \/ Stop

LedgerSpec == LedgerInit /\ [][LedgerNext]_ledgerVars
==============================================================================
