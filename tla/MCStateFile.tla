---------------------------- MODULE MCStateFile ----------------------------
(***************************************************************************)
(* StateFile for TLC: no file, every older version, and a later one.       *)
(***************************************************************************)
EXTENDS StateFile, TLC

MCVersions == {0, 2, 3, 4, 5, 7}
MCSymmetry == Permutations(Accounts)

============================================================================
