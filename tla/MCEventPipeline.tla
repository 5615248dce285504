--------------------------- MODULE MCEventPipeline ---------------------------
(* Instances of EventPipeline for TLC.                                     *)
EXTENDS EventPipeline

CONSTANTS migration, program, pump, pool,     \* keys
          migrated, unsigned, loaded          \* updates

Migration ==
    [ whole |-> TRUE, keys |-> <<migration, program, pump, pool>>,
      signers |-> 1,
      instructions |-> << [program |-> 1, accounts |-> <<0, 0, 0, 2, 3>>] >>,
      inner |-> << >>, initialize2 |-> TRUE ]

\* Matches the filter, and meets one criterion.
Unsigned == [Migration EXCEPT !.signers = 0]

\* Asked for because of a loaded address, which the keys do not have.
Loaded == [Migration EXCEPT !.keys = <<migration, pump, pool>>]

MCContent ==
    [ u \in Update |-> CASE u = migrated -> Migration
                         [] u = unsigned -> Unsigned
                         [] u = loaded -> Loaded ]
==============================================================================
