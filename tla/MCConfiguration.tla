-------------------------- MODULE MCConfiguration --------------------------
(***************************************************************************)
(* Instances of Configuration for TLC: two subscriptions, the newer one of *)
(* another group than the account's, and pages of one.                     *)
(***************************************************************************)
EXTENDS Configuration

MCSubs    == 1..2
MCInGroup == {1}
MCTabs    == {"overview", "mapping", "notifications"}

============================================================================
