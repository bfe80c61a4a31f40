----------------------------- MODULE MCOrphanGuard -----------------------------
(***************************************************************************)
(* Instances of OrphanGuard for TLC.                                       *)
(***************************************************************************)
EXTENDS OrphanGuard

CONSTANTS j1, j2, j3

FirstTwo  == {j1, j2}
ThreeJobs == {j1, j2, j3}

On  == [on |-> TRUE, mapped |-> ThreeJobs]
Off == [on |-> FALSE, mapped |-> {j1, j2}]

OnAndOff == {On, Off}

=============================================================================
