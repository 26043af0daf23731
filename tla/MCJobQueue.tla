----------------------------- MODULE MCJobQueue -----------------------------
EXTENDS JobQueue, TLC

\* Tasks are only compared for equality; their order of arrival is in rowid.
TaskSymmetry == Permutations(Tasks)
=============================================================================
