---------------------------- MODULE ResetLedger ----------------------------
(***************************************************************************)
(* What the engine promises its downstream users, without workers, files   *)
(* or a network: an official reset of an upstream account entitles each    *)
(* subscription to one quota reset.  A reset is executed only for a window *)
(* that upstream has opened, and never a second time for the same one.     *)
(***************************************************************************)
EXTENDS Naturals

CONSTANTS Sources, Subs, MaxWindow

VARIABLES
  official,  \* the official window of each source
  resets     \* how often a subscription was reset for a source's window

Right == [src : Sources, win : 1..MaxWindow, sub : Subs]

Init == official = [s \in Sources |-> 1] /\ resets = [r \in Right |-> 0]

OpenWindow(s) ==
  /\ official[s] < MaxWindow
  /\ official' = [official EXCEPT ![s] = @ + 1]
  /\ UNCHANGED resets

Reset(r) ==
  /\ r.win <= official[r.src] /\ resets[r] = 0
  /\ resets' = [resets EXCEPT ![r] = 1]
  /\ UNCHANGED official

Next == (\E s \in Sources : OpenWindow(s)) \/ (\E r \in Right : Reset(r))

Spec == Init /\ [][Next]_<<official, resets>>

============================================================================
