------------------------------ MODULE MCDiverts ------------------------------
(* Model-checking instance of Diverts: two commands and two failed calls, *)
(* enough for a Create that fails half-way, a Delete of what it left, and *)
(* a rerun of a Delete that failed after removing the CRD.                 *)
EXTENDS Diverts

MCMaxFailures == 2
MCMaxRuns == 2
=============================================================================
