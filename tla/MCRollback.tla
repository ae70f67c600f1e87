----------------------------- MODULE MCRollback -----------------------------
(***************************************************************************)
(* Rollback for TLC.                                                       *)
(***************************************************************************)
EXTENDS Rollback, TLC

MCDaily  == {"daily"}
MCWeekly == {"weekly"}
MCBoth   == {"daily", "weekly"}

\* Events, and subscriptions, are interchangeable.
MCSymmetry == Permutations(Ids) \cup Permutations(Subs)

============================================================================
