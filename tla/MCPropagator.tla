---------------------------- MODULE MCPropagator ----------------------------
(***************************************************************************)
(* Formulas for Propagator: every pair of the long clauses below with      *)
(* every set of at most one short one before or behind them, and the       *)
(* clauses that repeat a literal or hold its negation with each other,     *)
(* with a long clause and behind short ones, a unit clause keeping the     *)
(* number of cubes low.                                                    *)
(***************************************************************************)
EXTENDS Propagator

Long == { <<1, 2, 3>>, <<-1, 2, 4>>, <<-2, -3, -4>>, <<1, -2, 3, -4>>, <<-1, -2, -3>> }

Short == { <<1, -3>>, <<-2, 4>>, <<3>>, <<-4>> }

Repeating == { <<1, 1, 2>>, <<2, 1, 1>>, <<-1, -1, -1>>, <<1, 1, -2, -2>>, <<1, 1>>, <<1, -1, 2>> }

MCFormulas ==
    {<<a, b>> : a \in Long, b \in Long}
    \cup {<<a, b, c>> : a \in Long, b \in Long, c \in Short}
    \cup {<<c, d, a>> : a \in Long, c \in Short, d \in Short}
    \cup {<<a, b, <<-4>> >> : a \in Repeating, b \in Repeating}
    \cup {<<a, <<-1, 2, 4>> >> : a \in Repeating}
    \cup {<<c, <<4>>, a>> : a \in Repeating, c \in Short}
    \cup { << <<1, 2>>, <<-1, 2>>, <<1, -2>>, <<-1>> >>, << <<1>>, <<>> >> }
=============================================================================
