------------------------------ MODULE MCMaster ------------------------------
(***************************************************************************)
(* Small instances of Master for TLC.                                      *)
(***************************************************************************)
EXTENDS Master, TLC

CONSTANTS Rounds      \* rounds of initial splits, 6 in main.go

\* x1 \/ x2 over three variables, six models; x2 is split first, then x1.
MCClauses == << <<1, 2>> >>

\* The cubes of main.go after Rounds rounds (InitialSplit is its loop).
Level[n \in 0..Rounds] ==
    IF n = 0 THEN << {} >>
    ELSE LET prev == Level[n - 1]
         IN  [i \in 1..(2 * Len(prev)) |->
                 SplitCubeSmart(prev[(i + 1) \div 2], MCClauses)[2 - (i % 2)]]

MCInitialCubes == Level[Rounds]

Symmetry == Permutations(Workers)
=============================================================================
