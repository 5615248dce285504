-------------------------- MODULE MCPoolExtraction ---------------------------
(* Instances of PoolExtraction for TLC.                                    *)
EXTENDS PoolExtraction, SequencesExt

CONSTANTS migration, program, pump1, pump2, account

\* All that matter to the search, too few for the indices below, and lists
\* without the program or without anything.
MCKeys ==
    { <<migration, program, pump1, pump2, account>>, <<migration, program>>,
      <<migration, account, pump1>>, <<>> }

\* Lists that are short, that name a pump key early, late, out of range or as
\* the fifth account, and a fifth account out of range.
MCAccounts ==
    { <<>>, <<2>>, <<3, 2>>, <<9, 3>>, <<0, 0, 0, 0, 4>>, <<2, 0, 0, 0, 9>>,
      <<0, 0, 0, 0, 2>> }

MCInstruction ==
    [program : {1}, accounts : MCAccounts]
        \cup [program : {4, 7}, accounts : {<<3, 0, 0, 0, 2>>}]

MCInner == BoundedSeq({<<0>>, <<9, 3>>, <<2, 3>>}, 2)

MCTransaction ==
    [ whole : BOOLEAN, keys : MCKeys, signers : {1},
      instructions : BoundedSeq(MCInstruction, 2),
      inner : BoundedSeq(MCInner, 2),
      initialize2 : {TRUE} ]
==============================================================================
