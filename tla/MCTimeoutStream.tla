-------------------------- MODULE MCTimeoutStream --------------------------
(***************************************************************************)
(* A small instance of TimeoutStream for TLC: worker a solves several      *)
(* tasks and opens a stream for each; worker b has one task, which times   *)
(* out, and a stream that a's results and Solve broadcast to meanwhile.    *)
(***************************************************************************)
EXTENDS TimeoutStream

CONSTANTS a, b, TasksOfA

MCMaxTasks == [w \in Workers |-> IF w = a THEN TasksOfA ELSE 1]

MCDurations == [w \in Workers |-> IF w = a THEN {1} ELSE {}]
=============================================================================
