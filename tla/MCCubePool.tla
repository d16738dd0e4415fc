----------------------------- MODULE MCCubePool -----------------------------
(***************************************************************************)
(* Formulas over three variables for CubePool:                             *)
(*  - x1 has no model and unit propagation does not see it;                *)
(*  - a unit, a binary clause that propagates, a free variable;            *)
(*  - no model at all, found by the solver only;                           *)
(*  - refuted by unit propagation.                                         *)
(***************************************************************************)
EXTENDS CubePool

MCFormulas == {
    << <<-1, 2, 3>>, <<-1, 2, -3>>, <<-1, -2, 3>>, <<-1, -2, -3>>,
       <<1, 2>> >>,
    << <<1>>, <<-1, 2, 3>>, <<-2, -3>> >>,
    << <<1, 2>>, <<1, -2>>, <<-1, 2>>, <<-1, -2>> >>,
    << <<1>>, <<-1>> >> }
=============================================================================
