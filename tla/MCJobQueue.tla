----------------------------- MODULE MCJobQueue -----------------------------
(* Small instances of JobQueue for TLC.                                    *)
EXTENDS JobQueue, TLC

(* Jobs and runners are interchangeable: nothing orders them.              *)
Symmetry == Permutations(Job) \cup Permutations(Worker)
=============================================================================
