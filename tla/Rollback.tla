------------------------------ MODULE Rollback ------------------------------
(***************************************************************************)
(* Undoing downstream resets: a subscription's row in Sub2API's database,  *)
(* the events whose resets were recorded with the row before and after,    *)
(* and the administrator's undo, which puts the earlier usage back under   *)
(* the usage consumed since (engine.go UndoTarget, restore.go Restore).    *)
(*                                                                         *)
(* Time is counted in ticks, Day of them to a day, which is also the undo  *)
(* deadline.  Usage is a number of requests.  The reset loop is here as far *)
(* as it gives the undo its snapshots; its saves succeed, and what happens *)
(* when they do not is in ResetPipeline.tla.                               *)
(***************************************************************************)
EXTENDS Integers, FiniteSets

CONSTANTS
  Subs,         \* downstream subscriptions
  Ids,          \* events
  Dims,         \* the windows a subscription has: some of "daily", "weekly", "monthly"
  Day, Week, Month,
  Overlap,      \* the workers of two accounts may run at the same time
  Others,       \* somebody else resets the subscriptions too
  LostAck,      \* a commit's acknowledgement may be lost
  SaveOutcomes, MayCrash,  \* as in ResetPipeline
  MaxTime, MaxSpent,       \* bounds: the clock, the requests of a subscription
  MaxApplied               \* bound: how often one reset is taken back

ASSUME RollbackAssumption ==
  /\ Dims # {} /\ Dims \subseteq {"daily", "weekly", "monthly"}
  /\ {Day, Week, Month} \subseteq Nat \ {0}
  /\ {MaxTime, MaxSpent, MaxApplied} \subseteq Nat
  /\ TRUE \in SaveOutcomes /\ SaveOutcomes \subseteq BOOLEAN
  /\ {Overlap, Others, LostAck, MayCrash} \subseteq BOOLEAN

Time == 0..MaxTime
Row  == [use : [Dims -> Nat], start : [Dims -> Time]]
Target == [status : {"pending", "resetting", "succeeded", "failed"},
           before : Row, after : Row,
           undo : {"none", "in_progress", "failed", "succeeded", "expired"}]
Event == [dims : SUBSET Dims, expires : Nat,
          undo : {"none", "available", "in_progress", "partial",
                  "failed", "succeeded", "expired"},
          targets : [Subs -> Target]]

VARIABLES
  now,
  row,      \* user_subscriptions: usage and window starts
  spent,    \* ghost: when each subscription consumed a request
  mem, disk,\* the events in memory and in the state file
  busy,     \* events whose worker runs; it holds pollMu
  u,        \* the undo under way
  applied   \* ghost: how often each reset was taken back

events == <<mem, disk>>
vars == <<now, row, spent, mem, disk, busy, u, applied>>

----------------------------------------------------------------------------
(* Windows of a subscription.                                              *)

DayStart(t) == t - (t % Day)
Length == [weekly |-> Week, monthly |-> Month]
Start(d, t) == IF d = "daily" THEN DayStart(t) ELSE t

\* A reset by Sub2API: nothing used, the daily window still the calendar day.
ResetRow(r, D, t) ==
  [use   |-> [d \in Dims |-> IF d \in D THEN 0 ELSE r.use[d]],
   start |-> [d \in Dims |-> IF d \in D THEN Start(d, t) ELSE r.start[d]]]

\* The windows that have run out by t.
Ended(r, t) ==
  {d \in Dims : IF d = "daily" THEN r.start[d] < DayStart(t)
                ELSE r.start[d] + Length[d] <= t}

----------------------------------------------------------------------------
(* resolveRestoreWindows.                                                  *)

\* Yesterday's usage stays yesterday's: the day of the reset is still today
\* and nothing has moved the daily anchor.
RestoresDaily(cur, tg, D, t) ==
  /\ "daily" \in D
  /\ DayStart(tg.before.start["daily"]) = DayStart(t)
  /\ tg.before.start["daily"] = tg.after.start["daily"]
  /\ cur.start["daily"] = tg.after.start["daily"]

\* The weekly and monthly windows that would still run without the reset.
Running(tg, D, t) ==
  {d \in D \ {"daily"} : t < tg.before.start[d] + Length[d]}

\* Mutant: the days are not compared.
Plan_AnyDay(cur, tg, D, t) == Running(tg, D, t) \cup (D \cap {"daily"})

Plan(cur, tg, D, t) ==
  Running(tg, D, t) \cup (IF RestoresDaily(cur, tg, D, t) THEN {"daily"} ELSE {})

\* Mutant: a window that moved since is restored over.
Refused_Never(cur, tg, D, t) == Plan(cur, tg, D, t) = {}

\* A window was reset again since, or every window has run out.
Refused(cur, tg, D, t) ==
  \/ \E d \in Running(tg, D, t) : cur.start[d] # tg.after.start[d]
  \/ Plan(cur, tg, D, t) = {}

\* Mutant: the earlier usage replaces what was consumed since.
Restored_Replace(cur, tg, D) ==
  [use   |-> [d \in Dims |-> IF d \in D THEN tg.before.use[d] ELSE cur.use[d]],
   start |-> [d \in Dims |-> IF d \in D THEN tg.before.start[d] ELSE cur.start[d]]]

\* Mutant: the earlier usage is taken off.
Restored_TakenOff(cur, tg, D) ==
  [use   |-> [d \in Dims |-> IF d \in D THEN cur.use[d] - tg.before.use[d] ELSE cur.use[d]],
   start |-> [d \in Dims |-> IF d \in D THEN tg.before.start[d] ELSE cur.start[d]]]

Restored(cur, tg, D) ==
  [use   |-> [d \in Dims |-> IF d \in D THEN tg.before.use[d] + cur.use[d] ELSE cur.use[d]],
   start |-> [d \in Dims |-> IF d \in D THEN tg.before.start[d] ELSE cur.start[d]]]

----------------------------------------------------------------------------
(* The undo status of a target and of its event.                           *)

Reset(e) == {s \in Subs : e.targets[s].status = "succeeded"}
With(e, v) == {s \in Reset(e) : e.targets[s].undo = v}

\* Mutant: one undone target is enough.
Aggregate_Any(e) ==
  IF With(e, "succeeded") # {} THEN "succeeded"
  ELSE IF now >= e.expires THEN "expired" ELSE "available"

\* updateEventUndoAggregate, in its order.
Aggregate(e) ==
  IF Reset(e) = {} THEN "failed"
  ELSE IF With(e, "succeeded") = Reset(e) THEN "succeeded"
  ELSE IF now >= e.expires THEN "expired"
  ELSE IF With(e, "in_progress") # {} THEN "in_progress"
  ELSE IF With(e, "succeeded") # {} THEN "partial"
  ELSE IF With(e, "failed") # {} THEN "failed"
  ELSE "available"

\* UpdateUndoTarget; then the aggregate, saved on its own.
Marked(st, i, s, v) == [st EXCEPT ![i].targets[s].undo = v]
Aggregated(st, i)   == [st EXCEPT ![i].undo = Aggregate(st[i])]

\* The target's status is saved or not, then the event's.
MarkBoth(i, s, v) ==
  LET st1 == Marked(mem, i, s, v)
      st2 == Aggregated(st1, i)
  IN \E first, second \in SaveOutcomes :
       /\ mem' = st2
       /\ disk' = IF second THEN st2 ELSE IF first THEN st1 ELSE disk

\* The target's status could not be saved, and the undo stops there.
MarkFails(i, s, v) ==
  FALSE \in SaveOutcomes /\ mem' = Marked(mem, i, s, v) /\ disk' = disk

\* The target's status is saved, then the event's is saved or not.
MarkSaved(i, s, v) ==
  LET st1 == Marked(mem, i, s, v)
      st2 == Aggregated(st1, i)
  IN \E second \in SaveOutcomes : mem' = st2 /\ disk' = IF second THEN st2 ELSE st1

----------------------------------------------------------------------------
NoUndo == [pc |-> "idle"]
Fresh  == [use |-> [d \in Dims |-> 0], start |-> [d \in Dims |-> 0]]

Init ==
  /\ now = 0
  /\ row = [s \in Subs |-> Fresh] /\ spent = [s \in Subs |-> {}]
  /\ mem = [i \in Ids |->
       [dims |-> {}, expires |-> 0, undo |-> "none",
        targets |-> [s \in Subs |->
           [status |-> "pending", before |-> Fresh, after |-> Fresh, undo |-> "none"]]]]
  /\ disk = mem /\ busy = {} /\ u = NoUndo
  /\ applied = [c \in Ids \X Subs |-> 0]

(* The subscription.                                                       *)

\* A tick; the windows that have run out start afresh.
Tick ==
  /\ now < MaxTime /\ now' = now + 1
  /\ row' = [s \in Subs |-> ResetRow(row[s], Ended(row[s], now'), now')]
  /\ UNCHANGED <<spent, events, busy, u, applied>>

Spend(s) ==
  /\ now \notin spent[s] /\ Cardinality(spent[s]) < MaxSpent
  /\ spent' = [spent EXCEPT ![s] = @ \cup {now}]
  /\ row' = [row EXCEPT ![s].use = [d \in Dims |-> @[d] + 1]]
  /\ UNCHANGED <<now, events, busy, u, applied>>

\* Two resets of a subscription are never at the same moment.
Movable(s) ==
  \A d \in Dims \ {"daily"} :
    row[s].start[d] < now /\ \A i \in Ids : mem[i].targets[s].after.start[d] < now

\* Somebody resets the subscription by hand.
OtherReset(s) ==
  /\ Others /\ Movable(s)
  /\ \E D \in (SUBSET Dims) \ {{}} : row' = [row EXCEPT ![s] = ResetRow(@, D, now)]
  /\ UNCHANGED <<now, spent, events, busy, u, applied>>

(* The reset loop (processSource): the event, then for each target the     *)
(* subscription is read, and later reset.                                  *)

\* The settings of the account and the undo deadline go into the event.
Detect(i) ==
  /\ u = NoUndo /\ (Overlap \/ busy = {}) /\ mem[i].undo = "none"
  /\ \E D \in (SUBSET Dims) \ {{}} :
       mem' = [mem EXCEPT ![i].dims = D, ![i].expires = now + Day, ![i].undo = "available"]
  /\ disk' = mem' /\ busy' = busy \cup {i}
  /\ UNCHANGED <<now, row, spent, u, applied>>

Capture(i, s) ==
  /\ i \in busy /\ mem[i].targets[s].status = "pending"
  /\ \A t \in Subs : mem[i].targets[t].status # "resetting"
  /\ mem' = [mem EXCEPT ![i].targets[s].status = "resetting",
                        ![i].targets[s].before = row[s]]
  /\ disk' = mem'
  /\ UNCHANGED <<now, row, spent, busy, u, applied>>

ResetTarget(i, s) ==
  /\ i \in busy /\ mem[i].targets[s].status = "resetting" /\ Movable(s)
  /\ row' = [row EXCEPT ![s] = ResetRow(@, mem[i].dims, now)]
  /\ mem' = [mem EXCEPT ![i].targets[s].status = "succeeded",
                        ![i].targets[s].after = row'[s]]
  /\ disk' = mem'
  /\ UNCHANGED <<now, spent, busy, u, applied>>

\* A target that is not reset, and the end of the loop.
TargetFails(i, s) ==
  /\ i \in busy /\ mem[i].targets[s].status \in {"pending", "resetting"}
  /\ mem' = [mem EXCEPT ![i].targets[s].status = "failed"] /\ disk' = mem'
  /\ UNCHANGED <<now, row, spent, busy, u, applied>>

Done(i) ==
  /\ i \in busy /\ \A s \in Subs : mem[i].targets[s].status \in {"succeeded", "failed"}
  /\ busy' = busy \ {i}
  /\ UNCHANGED <<now, row, spent, events, u, applied>>

----------------------------------------------------------------------------
(* UndoTarget.                                                             *)

\* pollMu is free, and the target was reset and is not undone.
MayUndo(i, s) ==
  /\ busy = {} /\ u = NoUndo
  /\ mem[i].targets[s].status = "succeeded" /\ mem[i].targets[s].undo # "succeeded"

UndoExpired(i, s) ==
  /\ MayUndo(i, s) /\ now >= mem[i].expires
  /\ MarkBoth(i, s, "expired")
  /\ UNCHANGED <<now, row, spent, busy, u, applied>>

UndoStart(i, s) ==
  /\ MayUndo(i, s) /\ now < mem[i].expires
  /\ \/ MarkFails(i, s, "in_progress") /\ UNCHANGED u
     \/ /\ MarkSaved(i, s, "in_progress")
        /\ u' = [pc |-> "restoring", id |-> i, sub |-> s, at |-> now]
  /\ UNCHANGED <<now, row, spent, busy, applied>>

\* The transaction locks the row, compares the windows at the time of the
\* call, and commits.
Commit ==
  /\ u.pc = "restoring" /\ applied[u.id, u.sub] < MaxApplied
  /\ LET tg == mem[u.id].targets[u.sub]
         D  == mem[u.id].dims
     IN /\ ~Refused(row[u.sub], tg, D, u.at)
        /\ row' = [row EXCEPT ![u.sub] = Restored(@, tg, Plan(@, tg, D, u.at))]
  /\ applied' = [applied EXCEPT ![<<u.id, u.sub>>] = @ + 1]
  /\ u' = [u EXCEPT !.pc = "committed"]
  /\ UNCHANGED <<now, spent, events, busy>>

\* Mutant: the failed undo is not recorded.
UndoFails_Silent ==
  /\ u.pc = "restoring" \/ (LostAck /\ u.pc = "committed")
  /\ u' = NoUndo
  /\ UNCHANGED <<now, row, spent, events, busy, applied>>

\* The windows moved or ended, the database fails, or its acknowledgement of
\* the commit is lost.
UndoFails ==
  /\ u.pc = "restoring" \/ (LostAck /\ u.pc = "committed")
  /\ MarkBoth(u.id, u.sub, "failed")
  /\ u' = NoUndo
  /\ UNCHANGED <<now, row, spent, busy, applied>>

UndoSucceeds ==
  /\ u.pc = "committed"
  /\ MarkFails(u.id, u.sub, "succeeded") \/ MarkSaved(u.id, u.sub, "succeeded")
  /\ u' = NoUndo
  /\ UNCHANGED <<now, row, spent, busy, applied>>

\* The process dies and starts over from the file.
Crash ==
  /\ MayCrash
  /\ mem' = disk /\ disk' = disk /\ busy' = {} /\ u' = NoUndo
  /\ UNCHANGED <<now, row, spent, applied>>

Next ==
  \/ Tick \/ Commit \/ UndoFails \/ UndoSucceeds \/ Crash
  \/ \E s \in Subs : Spend(s) \/ OtherReset(s)
  \/ \E i \in Ids : Detect(i) \/ Done(i)
  \/ \E i \in Ids, s \in Subs :
       \/ Capture(i, s) \/ ResetTarget(i, s) \/ TargetFails(i, s)
       \/ UndoStart(i, s) \/ UndoExpired(i, s)

Spec == Init /\ [][Next]_vars

----------------------------------------------------------------------------
(* Properties.                                                             *)

\* Snapshots, rows and the statuses in the state file are well formed; in
\* particular no window's usage is negative.
TypeOK ==
  /\ now \in Time /\ row \in [Subs -> Row] /\ spent \in [Subs -> SUBSET Time]
  /\ mem \in [Ids -> Event] /\ disk \in [Ids -> Event]
  /\ busy \subseteq Ids /\ applied \in [Ids \X Subs -> Nat]
  /\ u = NoUndo \/ u \in [pc : {"restoring", "committed"}, id : Ids, sub : Subs, at : Time]

\* Nobody is charged in a window for more than was consumed since the window
\* began, in whatever order resets are undone: yesterday's usage never comes
\* back into today, and none is counted twice.
UsageIsReal ==
  \A s \in Subs, d \in Dims :
    row[s].use[d] <= Cardinality({t \in spent[s] : t >= row[s].start[d]})

\* The README's promise: a reset is taken back once.
UndoneOnce == \A c \in Ids \X Subs : applied[c] <= 1

\* What was consumed after a reset is still charged after its undo.
ConsumptionKept ==
  [][\A s \in Subs, d \in Dims : applied' # applied => row'[s].use[d] >= row[s].use[d]]_vars

\* A target shown as undone, in memory or on disk, was undone, and an event is
\* shown as undone only when every target it reset is.
UndoneIsTrue ==
  \A st \in {mem, disk}, i \in Ids :
    /\ \A s \in Subs : st[i].targets[s].undo = "succeeded" => applied[i, s] > 0
    /\ st[i].undo = "succeeded" => \A s \in Reset(st[i]) : applied[i, s] > 0

\* With saves that succeed and no crash, nothing is shown as being undone
\* when no undo runs, and the next one may be tried.
UndoEnds ==
  u = NoUndo => \A i \in Ids :
    mem[i].undo # "in_progress" /\ \A s \in Subs : mem[i].targets[s].undo # "in_progress"

============================================================================
