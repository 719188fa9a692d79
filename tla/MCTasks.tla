------------------------------ MODULE MCTasks -------------------------------
(***************************************************************************)
(* Tasks for TLC: the .cfg files Tasks*.cfg give the constants their       *)
(* values and choose Spec or FairSpec.                                     *)
(***************************************************************************)
EXTENDS Tasks, TLC

\* Messages are only stored and handed over: TasksChan.cfg checks one of each set of permuted states.
MsgSymmetry == Permutations(Msgs)
=============================================================================
