----------------------------- MODULE StateFile -----------------------------
(***************************************************************************)
(* What a start makes of the state file (store.go OpenStore): a file of an *)
(* older version is brought to the present one in steps, saved, and only   *)
(* then used; one of the present version is used as it is.  The other      *)
(* modules take a restart to bring back what the file holds; here is what  *)
(* that rests on, and what holds across an upgrade.                        *)
(*                                                                         *)
(* An event is one record of the file, newest first.  What a poll may do   *)
(* with an account is in Detection.tla, what an event does downstream in   *)
(* ResetPipeline.tla; here a poll confirms a window or does not.           *)
(***************************************************************************)
EXTENDS Naturals, Sequences, FiniteSetsExt

CONSTANTS
  Accounts,
  Versions,      \* of the file found at first; 0 when there is none
  MaxWindow,     \* bound: official windows of an account
  MaxEvents,     \* length of the event list (100 in AddEvent)
  SaveOutcomes   \* as in ResetPipeline

ASSUME StateFileAssumption ==
  /\ Versions \subseteq Nat \ {6} /\ MaxWindow \in Nat \ {0} /\ MaxEvents \in Nat \ {0}
  /\ TRUE \in SaveOutcomes /\ SaveOutcomes \subseteq BOOLEAN

stateVersion == 6
Windows == 1..MaxWindow

\* A setting: not in the file, zero or blank, the administrator's, an old
\* default text, or the present default.  grace stands for the settings that
\* may be saved as zero or blank (the Bark group is another), body for the
\* undo notification's text.
Value  == {"absent", "empty", "own", "legacy", "default"}
Config == [grace : Value, body : Value]

\* AccountState; native (ghost): the sample was taken from Sub2API's own usage
\* and not, as before version 4, from the upstream percentage.
Account == [init : BOOLEAN, native : BOOLEAN, fuse : 0..MaxWindow]

\* What became of an event's targets, and the time its undo is allowed.
Event == [src : Accounts, win : Windows, status : {"failed", "succeeded", "undone"},
          life : {"short", "day", "long"}]

VARIABLES
  up,        \* the process runs
  mem, disk, \* the state in memory and in the file
  win,       \* the official window of each upstream account
  paid       \* ghost: how often downstream users were reset for a window

vars == <<up, mem, disk, win, paid>>

----------------------------------------------------------------------------
(* OpenStore's steps, each for the versions before it.                     *)

\* Mutant: only percentage thresholds are thought incomparable.
Rebaselined_UpTo2(f) ==
  IF f.version > 2 THEN f
  ELSE [f EXCEPT !.acc = [a \in Accounts |-> [@[a] EXCEPT !.init = FALSE]]]

\* Versions 3 and 4: a sample of the older kind is no baseline.
Rebaselined(f) ==
  IF f.version > 3 THEN f
  ELSE [f EXCEPT !.acc = [a \in Accounts |-> [@[a] EXCEPT !.init = FALSE]]]

\* Mutant: an event that was undone is given a new deadline, and only that.
WithUndoWindow_Undone(f) ==
  IF f.version > 4 THEN f
  ELSE [f EXCEPT !.events = [k \in DOMAIN @ |->
          IF @[k].status = "undone" THEN [@[k] EXCEPT !.life = "day"] ELSE @[k]]]

\* Version 5: what may be undone, may be for a day.
WithUndoWindow(f) ==
  IF f.version > 4 THEN f
  ELSE [f EXCEPT !.events = [k \in DOMAIN @ |->
          IF @[k].status = "succeeded" THEN [@[k] EXCEPT !.life = "day"] ELSE @[k]]]

\* The events that reset somebody for an account.
Effective(evs, a) == {k \in DOMAIN evs : evs[k].src = a /\ evs[k].status # "failed"}

\* Mutant: the oldest event is taken.
Seeded_Oldest(f) ==
  IF f.version > 5 THEN f
  ELSE [f EXCEPT !.acc = [a \in Accounts |->
          IF Effective(f.events, a) = {} THEN @[a]
          ELSE [@[a] EXCEPT !.fuse = f.events[Max(Effective(f.events, a))].win]]]

\* Mutant: the fuse is seeded at every start.
Seeded_Always(f) ==
  [f EXCEPT !.acc = [a \in Accounts |->
     IF Effective(f.events, a) = {} THEN @[a]
     ELSE [@[a] EXCEPT !.fuse = f.events[Min(Effective(f.events, a))].win]]]

\* Version 6: the fuse remembers the newest of them.
Seeded(f) ==
  IF f.version > 5 THEN f
  ELSE [f EXCEPT !.acc = [a \in Accounts |->
          IF Effective(f.events, a) = {} THEN @[a]
          ELSE [@[a] EXCEPT !.fuse = f.events[Min(Effective(f.events, a))].win]]]

\* The file is read over the default settings; then zero and blank ones are
\* replaced too, and the undo text that used to be the default.
WithDefaults(c) ==
  [grace |-> IF c.grace \in {"absent", "empty"} THEN "default" ELSE c.grace,
   body  |-> IF c.body \in {"absent", "empty", "legacy"} THEN "default" ELSE c.body]

Empty(c) == [version |-> stateVersion, cfg |-> c, events |-> <<>>,
             acc |-> [a \in Accounts |-> [init |-> FALSE, native |-> FALSE, fuse |-> 0]]]
NewState == Empty([grace |-> "default", body |-> "default"])

Load(f) ==
  IF f.version = 0 THEN NewState
  ELSE [Seeded(WithUndoWindow(Rebaselined(f)))
          EXCEPT !.cfg = WithDefaults(@), !.version = stateVersion]

----------------------------------------------------------------------------
(* What a release before version 6 may have left: its windows went up and  *)
(* could be confirmed more than once, its undo could last for another time *)
(* than a day until version 5, and a percentage was its usage until 4.     *)

Older(v, f) ==
  /\ f.version = v
  /\ \A a \in Accounts : f.acc[a].native = (v >= 4) /\ f.acc[a].fuse = 0
  /\ \A k \in DOMAIN f.events :
       /\ f.events[k].win <= win[f.events[k].src]
       /\ f.events[k].life = "day" \/ (v <= 4 /\ f.events[k].status # "failed")
       /\ \A j \in 1..(k - 1) : f.events[j].src = f.events[k].src
                                  => f.events[j].win >= f.events[k].win

OldConfigs == {[grace |-> "absent", body |-> "legacy"], [grace |-> "empty", body |-> "own"]}

Init ==
  /\ up = FALSE /\ win \in [Accounts -> Windows]
  /\ \E v \in Versions :
       \/ v = 0 /\ disk = [NewState EXCEPT !.version = 0]
       \/ /\ v > 0
          /\ disk \in [version : {v}, cfg : OldConfigs,
                       acc : [Accounts -> [init : BOOLEAN, native : {v >= 4}, fuse : {0}]],
                       events : UNION {[1..m -> Event] : m \in 0..MaxEvents}]
          /\ Older(v, disk)
  /\ mem = disk
  /\ paid = [c \in Accounts \X Windows |->
       IF \E k \in Effective(disk.events, c[1]) : disk.events[k].win = c[2] THEN 1 ELSE 0]

----------------------------------------------------------------------------

\* A file of another version is saved before it is used; when that fails the
\* process ends and the file is as it was.  One of a later version is refused.
Start ==
  /\ ~up /\ disk.version <= stateVersion
  /\ \/ disk.version = stateVersion /\ UNCHANGED disk
     \/ disk.version < stateVersion /\ disk' = Load(disk)
  /\ up' = TRUE /\ mem' = Load(disk)
  /\ UNCHANGED <<win, paid>>

\* Every later save writes the whole of memory.
Save(f) == mem' = f /\ \E ok \in SaveOutcomes : disk' = IF ok THEN f ELSE disk

\* SetConfig: zero and blank are valid for some settings, and nothing prevents
\* the old text.
SetConfig(c) ==
  /\ up /\ c.grace \in {"empty", "own"} /\ c.body \in {"legacy", "own"}
  /\ Save([mem EXCEPT !.cfg = c])
  /\ UNCHANGED <<up, win, paid>>

\* A poll that confirms nothing leaves a baseline, and the fuse as it was.
PollSettles(a) ==
  /\ up
  /\ Save([mem EXCEPT !.acc[a] = [@ EXCEPT !.init = TRUE, !.native = TRUE]])
  /\ UNCHANGED <<up, win, paid>>

\* A drop against a native baseline, in a window the fuse does not remember:
\* the fuse is saved, then the event, and users are reset if that succeeded.
Confirm(a) ==
  /\ up /\ mem.acc[a].init /\ mem.acc[a].native /\ mem.acc[a].fuse # win[a]
  /\ \E st \in {"failed", "succeeded"} :
       LET fused == [mem EXCEPT !.acc[a].fuse = win[a]]
           e     == [src |-> a, win |-> win[a], status |-> st, life |-> "day"]
           kept  == IF Len(mem.events) < MaxEvents THEN mem.events
                    ELSE SubSeq(mem.events, 1, MaxEvents - 1)
           both  == [fused EXCEPT !.events = <<e>> \o kept]
       IN /\ mem' = both
          /\ \/ /\ disk' = both
                /\ paid' = IF st = "succeeded" THEN [paid EXCEPT ![<<a, win[a]>>] = @ + 1] ELSE paid
             \/ /\ FALSE \in SaveOutcomes /\ st = "failed"
                /\ disk' \in {fused, disk} /\ UNCHANGED paid
  /\ UNCHANGED <<up, win>>

OfficialReset(a) ==
  /\ win[a] < MaxWindow /\ win' = [win EXCEPT ![a] = @ + 1]
  /\ UNCHANGED <<up, mem, disk, paid>>

Crash ==
  /\ up /\ up' = FALSE /\ mem' = disk
  /\ UNCHANGED <<disk, win, paid>>

Next ==
  \/ Start \/ Crash
  \/ \E c \in Config : SetConfig(c)
  \/ \E a \in Accounts : PollSettles(a) \/ Confirm(a) \/ OfficialReset(a)

Spec == Init /\ [][Next]_vars

----------------------------------------------------------------------------
(* Properties.                                                             *)

\* "Restarting after an upgrade cannot replay the same reset against
\* downstream users" (store.go:99): whatever events an older release left, and
\* wherever the start and later saves fail, no window that reset somebody is
\* confirmed and acted on again.
NoReplay == \A c \in Accounts \X Windows : paid[c] <= 1

\* "Every monitored account must establish one fresh native-usage sample"
\* (store.go:68): in a running process no account counts as initialised by a
\* sample of another kind.
BaselineIsNative == up => \A a \in Accounts : mem.acc[a].init => mem.acc[a].native

\* "Rollback protection unconditional ... fixes its lifetime at 24 hours"
\* (store.go:77): whatever the old settings were, what a running process lets
\* the administrator undo, it does for a day.
UndoWindowFixed ==
  up => \A k \in DOMAIN mem.events :
          mem.events[k].status = "succeeded" => mem.events[k].life = "day"

\* A restart finds what the file holds, as the other modules take for granted:
\* no migration is repeated, and the settings are the saved ones, except those
\* that OpenStore takes for missing (zero, blank, the old undo text).
RestartIsSame ==
  up => LET f == Load(disk)
        IN /\ f.acc = disk.acc /\ f.events = disk.events
           /\ \A s \in DOMAIN f.cfg :
                f.cfg[s] = disk.cfg[s] \/ disk.cfg[s] \in {"empty", "legacy"}

============================================================================
