------------------------------ MODULE MCBatch -------------------------------
(***************************************************************************)
(* Two files for Batch.  The first has a cube that can time out, and so    *)
(* makes the IDs 3 and 4; the second has two or three cubes, and with      *)
(* three the ID 3 is one of its own.                                       *)
(***************************************************************************)
EXTENDS Batch

TwoAndTwo == << << {1, 2}, {3} >>, << {4}, {5} >> >>

TwoAndThree == << << {1, 2}, {3} >>, << {4}, {5}, {6} >> >>
=============================================================================
