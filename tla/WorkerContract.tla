--------------------------- MODULE WorkerContract ---------------------------
(***************************************************************************)
(* What the master relies on when it hands a task to a worker: the worker  *)
(* answers each task once, with the count ganak printed or with a timeout, *)
(* and with the count 0 of a "failed" run only if ganak has ended without  *)
(* printing a count (silent).  Master has these answers as GanakCounts,    *)
(* GanakTimesOut and GanakFails; WorkerSolve implements them.              *)
(***************************************************************************)
VARIABLES phase, answer, silent

vars == <<phase, answer, silent>>

Init == phase = "idle" /\ answer = "none" /\ ~silent

Take == phase = "idle" /\ phase' = "solving" /\ answer' = "none" /\ ~silent'

GanakFails == phase = "solving" /\ silent' /\ UNCHANGED <<phase, answer>>

Answer ==
    /\ phase = "solving"
    /\ phase' = "submit"
    /\ answer' \in {"count", "timeout", "failed"}
    /\ answer' = "failed" => silent
    /\ answer' = "count" => ~silent
    /\ UNCHANGED silent

Submit == phase = "submit" /\ phase' = "idle" /\ answer' = "none" /\ UNCHANGED silent

Next == Take \/ GanakFails \/ Answer \/ Submit

Spec == Init /\ [][Next]_vars
=============================================================================
