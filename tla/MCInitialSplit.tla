--------------------------- MODULE MCInitialSplit ---------------------------
(***************************************************************************)
(* An instance of InitialSplit: all the formulas of two clauses of two     *)
(* literals over three variables, some of which mention fewer variables    *)
(* than there are rounds.                                                  *)
(***************************************************************************)
EXTENDS InitialSplit

Clause2 == {<<l, m>> : l, m \in Literals(NumVars)}

MCFormulas == {<<c, d>> : c, d \in Clause2}
=============================================================================
