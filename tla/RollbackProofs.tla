--------------------------- MODULE RollbackProofs ---------------------------
(***************************************************************************)
(* Proofs about Rollback, for every number of events and subscriptions,    *)
(* any window lengths, and any order of resets and undos.                  *)
(***************************************************************************)
EXTENDS Rollback, FiniteSetTheorems, TLAPS

(* The parts of the invariant.                                             *)

\* What the loop records of a reset is the same in memory and in the file;
\* only an undo's saves may fail.
SameLoop ==
  \A i \in Ids :
    /\ disk[i].dims = mem[i].dims
    /\ \A s \in Subs : LET a == mem[i].targets[s]
                           b == disk[i].targets[s]
                       IN a.status = b.status /\ a.before = b.before /\ a.after = b.after

\* Targets are worked on only in events that were detected.
Detected(st) == \A i \in Ids, s \in Subs :
  st[i].targets[s].status # "pending" => st[i].undo # "none"

\* The loop and an undo exclude each other through pollMu.
Exclusive ==
  /\ busy # {} => u = NoUndo /\ disk = mem
  /\ \A i \in busy : mem[i].undo = "available"
  /\ u # NoUndo => mem[u.id].targets[u.sub].status = "succeeded"

LoopInv == SameLoop /\ Detected(mem) /\ Detected(disk) /\ Exclusive

\* A committed undo was applied.
UndoneInv == UndoneIsTrue /\ (u.pc = "committed" => applied[<<u.id, u.sub>>] > 0)

\* What is shown as being undone is the undo under way.
ProgressInv == \A i \in Ids :
  /\ mem[i].undo = "in_progress" => u # NoUndo /\ u.id = i
  /\ \A s \in Subs : mem[i].targets[s].undo = "in_progress" =>
                       u # NoUndo /\ u.id = i /\ u.sub = s

\* The windows that a reset starts anew; the daily one keeps to the calendar.
Long == Dims \ {"daily"}

\* Those windows start no later than now, and a reset moves their start forward.
StartInv ==
  /\ \A s \in Subs, d \in Long :
       /\ row[s].start[d] <= now
       /\ \A i \in Ids : LET tg == mem[i].targets[s] IN
            /\ tg.after.start[d] <= now
            /\ tg.status = "succeeded" /\ d \in mem[i].dims =>
                 tg.before.start[d] < tg.after.start[d]
            /\ i \in busy /\ tg.status = "resetting" => tg.before.start[d] <= row[s].start[d]
  /\ u # NoUndo => u.at <= now

\* The windows an undo can still put back are those running at this time.
UndoTime == IF u = NoUndo THEN now ELSE u.at

\* A start before a, or later than m.
Off(v, a, m) == v < a \/ v > m

\* No undo that could put window d of s back between a and m finds the start it
\* compares: the reset it would undo came no later than m.
Barred(st, bz, s, d, a, m) == \A k \in Ids :
  LET tg == st[k].targets[s] IN
  d \in st[k].dims =>
    /\ tg.status = "succeeded" => tg.after.start[d] <= m \/ Off(tg.before.start[d], a, m)
    /\ k \in bz /\ tg.status = "resetting" => Off(tg.before.start[d], a, m)

\* The start a of a window never comes back.
NoReturn(s, d, a) == \E m \in Time :
  /\ a <= m /\ m <= now /\ Off(row[s].start[d], a, m)
  /\ Barred(mem, busy, s, d, a, m)

OnceInv == \A i \in Ids, s \in Subs :
  LET tg == mem[i].targets[s] IN
  applied[<<i, s>>] > 0 =>
    /\ applied[<<i, s>>] = 1 /\ tg.status = "succeeded"
    /\ \A d \in Running(tg, mem[i].dims, UndoTime) : NoReturn(s, d, tg.after.start[d])
----------------------------------------------------------------------------
(* Changing one target.                                                    *)

Statuses == {"pending", "resetting", "succeeded", "failed"}
Undos    == {"none", "in_progress", "failed", "succeeded", "expired"}
EventUndos == {"none", "available", "in_progress", "partial", "failed", "succeeded", "expired"}
Events == [Ids -> Event]

\* Only the target of s in event i changes, to tg.
OnlyTarget(old, new, i, s, tg) ==
  /\ \A j \in Ids : j # i => new[j] = old[j]
  /\ new[i].dims = old[i].dims /\ new[i].expires = old[i].expires /\ new[i].undo = old[i].undo
  /\ \A t \in Subs : new[i].targets[t] = IF t = s THEN tg ELSE old[i].targets[t]

LEMMA EventFields ==
  ASSUME NEW e \in Event
  PROVE  /\ e.dims \in SUBSET Dims /\ e.expires \in Nat /\ e.undo \in EventUndos
         /\ e.targets \in [Subs -> Target]
BY DEF Event, EventUndos

LEMMA TargetFields ==
  ASSUME NEW tg \in Target
  PROVE  /\ tg.status \in Statuses /\ tg.before \in Row /\ tg.after \in Row
         /\ tg.undo \in Undos
BY DEF Target, Statuses, Undos

LEMMA SetTarget ==
  ASSUME NEW st \in Events, NEW i \in Ids, NEW s \in Subs, NEW tg \in Target
  PROVE  LET new == [st EXCEPT ![i] = [st[i] EXCEPT !.targets = [st[i].targets EXCEPT ![s] = tg]]]
         IN new \in Events /\ OnlyTarget(st, new, i, s, tg)
<1> DEFINE ts == [st[i].targets EXCEPT ![s] = tg]
           e == [st[i] EXCEPT !.targets = ts]
           new == [st EXCEPT ![i] = e]
<1>1. st[i] \in Event
  BY DEF Events
<1>2. st[i].targets \in [Subs -> Target]
  BY <1>1, EventFields
<1>3. ts \in [Subs -> Target] /\ \A t \in Subs : ts[t] = IF t = s THEN tg ELSE st[i].targets[t]
  BY <1>2
<1> HIDE DEF ts
<1>4. e \in Event /\ e.targets = ts /\ e.dims = st[i].dims /\ e.expires = st[i].expires
      /\ e.undo = st[i].undo
  BY <1>1, <1>3 DEF Event
<1> HIDE DEF e
<1>5. new \in Events /\ new[i] = e /\ \A j \in Ids : j # i => new[j] = st[j]
  BY <1>4 DEF Events
<1> HIDE DEF new
<1>6. new \in Events /\ OnlyTarget(st, new, i, s, tg)
  BY <1>3, <1>4, <1>5 DEF OnlyTarget
<1> QED
  BY <1>6 DEF new, e, ts

LEMMA MarkedFields ==
  ASSUME NEW st \in Events, NEW i \in Ids, NEW s \in Subs, NEW v \in Undos
  PROVE  /\ Marked(st, i, s, v) \in Events
         /\ OnlyTarget(st, Marked(st, i, s, v), i, s, [st[i].targets[s] EXCEPT !.undo = v])
<1> DEFINE tg == [st[i].targets[s] EXCEPT !.undo = v]
<1>1. st[i].targets[s] \in Target
  BY EventFields DEF Events
<1>2. tg \in Target
  BY <1>1 DEF Target, Undos
<1>3. Marked(st, i, s, v) =
        [st EXCEPT ![i] = [st[i] EXCEPT !.targets = [st[i].targets EXCEPT ![s] = tg]]]
  BY DEF Marked
<1> HIDE DEF tg
<1> DEFINE new == [st EXCEPT ![i] = [st[i] EXCEPT !.targets = [st[i].targets EXCEPT ![s] = tg]]]
<1>4. new \in Events /\ OnlyTarget(st, new, i, s, tg)
  BY <1>2, SetTarget
<1> QED
  BY <1>3, <1>4 DEF tg

\* The status of an event: never reset to "none" or "available" by an undo that
\* found a reset.
LEMMA AggregateValues ==
  ASSUME NEW e
  PROVE  /\ Aggregate(e) \in EventUndos /\ Aggregate(e) # "none"
         /\ Aggregate(e) = "succeeded" => With(e, "succeeded") = Reset(e)
         /\ Aggregate(e) = "in_progress" => With(e, "in_progress") # {}
BY DEF Aggregate, EventUndos

\* Only the status of event i changes, to the aggregate.
LEMMA AggregatedFields ==
  ASSUME NEW st \in Events, NEW i \in Ids
  PROVE  LET new == Aggregated(st, i) IN
         /\ new \in Events
         /\ \A j \in Ids : j # i => new[j] = st[j]
         /\ new[i].dims = st[i].dims /\ new[i].expires = st[i].expires
         /\ new[i].targets = st[i].targets /\ new[i].undo = Aggregate(st[i])
<1> DEFINE a == Aggregate(st[i])
           e == [st[i] EXCEPT !.undo = a]
<1>1. st[i] \in Event
  BY DEF Events
<1>2. a \in EventUndos
  BY AggregateValues
<1> HIDE DEF a
<1>3. e \in Event /\ e.dims = st[i].dims /\ e.expires = st[i].expires
      /\ e.targets = st[i].targets /\ e.undo = a
  BY <1>1, <1>2 DEF Event, EventUndos
<1> DEFINE new == [st EXCEPT ![i] = e]
<1> HIDE DEF e
<1>4. new \in Events /\ new[i] = e /\ \A j \in Ids : j # i => new[j] = st[j]
  BY <1>3 DEF Events
<1>5. Aggregated(st, i) = new
  BY DEF Aggregated, new, e, a
<1> HIDE DEF new
<1> QED
  BY <1>3, <1>4, <1>5 DEF a

\* What an undo leaves alone: everything but the undo statuses of event i.
SameReset(old, new, i) ==
  /\ \A j \in Ids : j # i => new[j] = old[j]
  /\ new[i].dims = old[i].dims /\ new[i].expires = old[i].expires
  /\ \A t \in Subs : LET a == old[i].targets[t]
                         b == new[i].targets[t]
                     IN a.status = b.status /\ a.before = b.before /\ a.after = b.after

\* The status of an event that was aggregated.
Summarised(e) ==
  /\ e.undo # "none"
  /\ e.undo = "succeeded" =>
       \A t \in Subs : e.targets[t].status = "succeeded" => e.targets[t].undo = "succeeded"
  /\ e.undo = "in_progress" => \E t \in Subs : e.targets[t].undo = "in_progress"

\* The target of s is marked v; the event's status is left alone, or aggregated.
MarkedIn(old, new, i, s, v) ==
  /\ new \in Events /\ SameReset(old, new, i)
  /\ \A t \in Subs : new[i].targets[t].undo = IF t = s THEN v ELSE old[i].targets[t].undo
  /\ new[i].undo = old[i].undo \/ Summarised(new[i])

LEMMA MarkedIsMarked ==
  ASSUME NEW st \in Events, NEW i \in Ids, NEW s \in Subs, NEW v \in Undos
  PROVE  MarkedIn(st, Marked(st, i, s, v), i, s, v)
<1> DEFINE old == st[i].targets[s]
           tg == [old EXCEPT !.undo = v]
           new == Marked(st, i, s, v)
<1>1. old \in Target
  BY EventFields DEF Events
<1>2. tg.status = old.status /\ tg.before = old.before /\ tg.after = old.after /\ tg.undo = v
  BY <1>1 DEF Target
<1>3. new \in Events /\ OnlyTarget(st, new, i, s, tg)
  BY MarkedFields
<1> HIDE DEF tg, new
<1>4. SameReset(st, new, i)
  BY <1>2, <1>3 DEF OnlyTarget, SameReset
<1>5. \A t \in Subs : new[i].targets[t].undo = IF t = s THEN v ELSE st[i].targets[t].undo
  BY <1>2, <1>3 DEF OnlyTarget
<1>6. new[i].undo = st[i].undo
  BY <1>3 DEF OnlyTarget
<1>7. MarkedIn(st, new, i, s, v)
  BY <1>3, <1>4, <1>5, <1>6 DEF MarkedIn
<1> QED
  BY <1>7 DEF new

LEMMA AggregatedIsMarked ==
  ASSUME NEW st \in Events, NEW i \in Ids, NEW s \in Subs, NEW v \in Undos
  PROVE  LET new == Aggregated(Marked(st, i, s, v), i) IN
         MarkedIn(st, new, i, s, v) /\ Summarised(new[i])
<1> DEFINE mid == Marked(st, i, s, v)
           new == Aggregated(mid, i)
<1>1. MarkedIn(st, mid, i, s, v)
  BY MarkedIsMarked
<1>2. mid \in Events
  BY <1>1 DEF MarkedIn
<1> HIDE DEF mid
<1>3. /\ new \in Events
      /\ \A j \in Ids : j # i => new[j] = mid[j]
      /\ new[i].dims = mid[i].dims /\ new[i].expires = mid[i].expires
      /\ new[i].targets = mid[i].targets /\ new[i].undo = Aggregate(mid[i])
  BY <1>2, AggregatedFields
<1> HIDE DEF new
<1>4. SameReset(st, new, i)
  BY <1>1, <1>3 DEF MarkedIn, SameReset
<1>5. Summarised(new[i])
  <2>1. new[i].undo # "none"
    BY <1>3, AggregateValues
  <2>2. ASSUME new[i].undo = "succeeded", NEW t \in Subs, new[i].targets[t].status = "succeeded"
        PROVE  new[i].targets[t].undo = "succeeded"
    <3>1. With(mid[i], "succeeded") = Reset(mid[i])
      BY <1>3, <2>2, AggregateValues
    <3>2. t \in Reset(mid[i])
      BY <1>3, <2>2 DEF Reset
    <3> QED
      BY <1>3, <3>1, <3>2 DEF With
  <2>3. ASSUME new[i].undo = "in_progress"
        PROVE  \E t \in Subs : new[i].targets[t].undo = "in_progress"
    <3>1. With(mid[i], "in_progress") # {}
      BY <1>3, <2>3, AggregateValues
    <3> QED
      BY <1>3, <3>1 DEF With, Reset
  <2> QED
    BY <2>1, <2>2, <2>3 DEF Summarised
<1>6. \A t \in Subs : new[i].targets[t].undo = IF t = s THEN v ELSE st[i].targets[t].undo
  BY <1>1, <1>3 DEF MarkedIn
<1>7. MarkedIn(st, new, i, s, v)
  BY <1>3, <1>4, <1>5, <1>6 DEF MarkedIn
<1> QED
  BY <1>5, <1>7 DEF new, mid

\* A mark of an undo: in memory always, in the file as far as the saves go.
MarkStep(i, s, v) ==
  /\ MarkedIn(mem, mem', i, s, v)
  /\ disk' = disk \/ MarkedIn(mem, disk', i, s, v)
  /\ Summarised(mem'[i]) \/ FALSE \in SaveOutcomes

LEMMA MarkBothStep ==
  ASSUME mem \in Events, NEW i \in Ids, NEW s \in Subs, NEW v \in Undos, MarkBoth(i, s, v)
  PROVE  MarkStep(i, s, v)
<1> DEFINE st1 == Marked(mem, i, s, v)
           st2 == Aggregated(st1, i)
<1>1. mem' = st2 /\ (disk' = st2 \/ disk' = st1 \/ disk' = disk)
  BY DEF MarkBoth
<1>2. MarkedIn(mem, st1, i, s, v)
  BY MarkedIsMarked
<1>3. MarkedIn(mem, st2, i, s, v) /\ Summarised(st2[i])
  BY AggregatedIsMarked
<1> HIDE DEF st1, st2
<1> QED
  BY <1>1, <1>2, <1>3 DEF MarkStep

LEMMA MarkFailsStep ==
  ASSUME mem \in Events, NEW i \in Ids, NEW s \in Subs, NEW v \in Undos, MarkFails(i, s, v)
  PROVE  MarkStep(i, s, v)
BY MarkedIsMarked DEF MarkFails, MarkStep

LEMMA MarkSavedStep ==
  ASSUME mem \in Events, NEW i \in Ids, NEW s \in Subs, NEW v \in Undos, MarkSaved(i, s, v)
  PROVE  MarkStep(i, s, v)
<1> DEFINE st1 == Marked(mem, i, s, v)
           st2 == Aggregated(st1, i)
<1>1. mem' = st2 /\ (disk' = st2 \/ disk' = st1)
  BY DEF MarkSaved
<1>2. MarkedIn(mem, st1, i, s, v)
  BY MarkedIsMarked
<1>3. MarkedIn(mem, st2, i, s, v) /\ Summarised(st2[i])
  BY AggregatedIsMarked
<1> HIDE DEF st1, st2
<1> QED
  BY <1>1, <1>2, <1>3 DEF MarkStep
----------------------------------------------------------------------------
(* Types.                                                                  *)

LEMMA ConstantTypes ==
  /\ Day \in Nat /\ Day > 0 /\ Week \in Nat /\ Week > 0 /\ Month \in Nat /\ Month > 0
  /\ MaxTime \in Nat /\ Dims \subseteq {"daily", "weekly", "monthly"}
BY RollbackAssumption

LEMMA RowFields ==
  ASSUME NEW r \in Row, NEW d \in Dims
  PROVE  r.use[d] \in Nat /\ r.start[d] \in Time /\ r.start[d] \in Nat
BY DEF Row, Time

LEMMA LengthType ==
  ASSUME NEW d \in Dims \ {"daily"}
  PROVE  Length[d] \in Nat /\ Length[d] > 0
BY ConstantTypes DEF Length

\* The calendar day of t starts no later than t.
LEMMA StartType ==
  ASSUME NEW d, NEW t \in Time
  PROVE  Start(d, t) \in Time /\ Start(d, t) <= t
<1>1. t \in Nat /\ t <= MaxTime /\ t % Day \in Nat /\ t % Day <= t
  BY ConstantTypes DEF Time
<1> QED
  BY <1>1, ConstantTypes DEF Start, DayStart, Time

LEMMA ResetRowType ==
  ASSUME NEW r \in Row, NEW D, NEW t \in Time
  PROVE  /\ ResetRow(r, D, t) \in Row
         /\ \A d \in Dims : ResetRow(r, D, t).start[d] = IF d \in D THEN Start(d, t) ELSE r.start[d]
<1> DEFINE uses == [d \in Dims |-> IF d \in D THEN 0 ELSE r.use[d]]
           starts == [d \in Dims |-> IF d \in D THEN Start(d, t) ELSE r.start[d]]
<1>1. uses \in [Dims -> Nat]
  BY RowFields
<1>2. starts \in [Dims -> Time]
  BY RowFields, StartType
<1>3. ResetRow(r, D, t) = [use |-> uses, start |-> starts]
  BY DEF ResetRow
<1>4. \A d \in Dims : starts[d] = IF d \in D THEN Start(d, t) ELSE r.start[d]
  OBVIOUS
<1> HIDE DEF uses, starts
<1> QED
  BY <1>1, <1>2, <1>3, <1>4 DEF Row

LEMMA RestoredType ==
  ASSUME NEW r \in Row, NEW tg \in Target, NEW D
  PROVE  /\ Restored(r, tg, D) \in Row
         /\ \A d \in Dims :
              /\ Restored(r, tg, D).start[d] = IF d \in D THEN tg.before.start[d] ELSE r.start[d]
              /\ Restored(r, tg, D).use[d] = IF d \in D THEN tg.before.use[d] + r.use[d]
                                             ELSE r.use[d]
<1> DEFINE uses == [d \in Dims |-> IF d \in D THEN tg.before.use[d] + r.use[d] ELSE r.use[d]]
           starts == [d \in Dims |-> IF d \in D THEN tg.before.start[d] ELSE r.start[d]]
<1>0. tg.before \in Row
  BY TargetFields
<1>1. uses \in [Dims -> Nat]
  BY <1>0, RowFields
<1>2. starts \in [Dims -> Time]
  BY <1>0, RowFields
<1>3. Restored(r, tg, D) = [use |-> uses, start |-> starts]
  BY DEF Restored
<1>4. \A d \in Dims :
        /\ starts[d] = IF d \in D THEN tg.before.start[d] ELSE r.start[d]
        /\ uses[d] = IF d \in D THEN tg.before.use[d] + r.use[d] ELSE r.use[d]
  OBVIOUS
<1> HIDE DEF uses, starts
<1> QED
  BY <1>1, <1>2, <1>3, <1>4 DEF Row

\* An undo under way.
UndoType == [pc : {"restoring", "committed"}, id : Ids, sub : Subs, at : Time]

LEMMA UndoFields ==
  ASSUME u \in UndoType
  PROVE  u.id \in Ids /\ u.sub \in Subs /\ u.at \in Time /\ u.pc \in {"restoring", "committed"}
         /\ u # NoUndo
<1>1. u.id \in Ids /\ u.sub \in Subs /\ u.at \in Time /\ u.pc \in {"restoring", "committed"}
  BY DEF UndoType
<1>2. NoUndo.pc = "idle"
  BY DEF NoUndo
<1> QED
  BY <1>1, <1>2

LEMMA ActiveUndo ==
  ASSUME TypeOK, u.pc \in {"restoring", "committed"} \/ u # NoUndo
  PROVE  u \in UndoType
<1>1. NoUndo.pc = "idle"
  BY DEF NoUndo
<1> QED
  BY <1>1 DEF TypeOK, UndoType

\* One state's typed parts, as used below.
LEMMA StateParts ==
  ASSUME TypeOK
  PROVE  /\ now \in Time /\ now \in Nat /\ row \in [Subs -> Row] /\ mem \in Events /\ disk \in Events
         /\ \A i \in Ids : mem[i] \in Event /\ disk[i] \in Event
         /\ \A i \in Ids, s \in Subs : mem[i].targets[s] \in Target /\ disk[i].targets[s] \in Target
         /\ applied \in [Ids \X Subs -> Nat] /\ busy \subseteq Ids
<1>1. mem \in Events /\ disk \in Events
  BY DEF TypeOK, Events
<1>2. \A i \in Ids : mem[i] \in Event /\ disk[i] \in Event
  BY <1>1 DEF Events
<1>3. \A i \in Ids, s \in Subs : mem[i].targets[s] \in Target /\ disk[i].targets[s] \in Target
  BY <1>2, EventFields
<1> QED
  BY <1>1, <1>2, <1>3 DEF TypeOK, Time

----------------------------------------------------------------------------
(* The steps of the loop, field by field.                                  *)

LEMMA CaptureFields ==
  ASSUME TypeOK, NEW i \in Ids, NEW s \in Subs, Capture(i, s)
  PROVE  LET new == mem'[i].targets[s]
             old == mem[i].targets[s]
         IN /\ mem' \in Events /\ disk' = mem' /\ OnlyTarget(mem, mem', i, s, new)
            /\ old.status = "pending" /\ new.status = "resetting"
            /\ new.before = row[s] /\ new.after = old.after /\ new.undo = old.undo
<1> DEFINE old == mem[i].targets[s]
           t1 == [old EXCEPT !.status = "resetting"]
           mid == [mem EXCEPT ![i] = [mem[i] EXCEPT !.targets = [mem[i].targets EXCEPT ![s] = t1]]]
           t2 == [t1 EXCEPT !.before = row[s]]
<1>1. old \in Target /\ row[s] \in Row /\ mem \in Events
  BY StateParts
<1>2. /\ t1 \in Target /\ t2 \in Target
      /\ t2.status = "resetting" /\ t2.before = row[s] /\ t2.after = old.after
      /\ t2.undo = old.undo
  BY <1>1 DEF Target
<1>3. mem' = [mid EXCEPT ![i] = [mid[i] EXCEPT !.targets = [mid[i].targets EXCEPT
                ![s] = [mid[i].targets[s] EXCEPT !.before = row[s]]]]]
  BY DEF Capture
<1> HIDE DEF t1
<1>4. mid \in Events /\ OnlyTarget(mem, mid, i, s, t1)
  BY <1>1, <1>2, SetTarget
<1> HIDE DEF mid
<1>41. mid[i].targets[s] = t1
  BY <1>4 DEF OnlyTarget
<1>5. mem' = [mid EXCEPT ![i] = [mid[i] EXCEPT !.targets = [mid[i].targets EXCEPT ![s] = t2]]]
  BY <1>3, <1>41
<1> HIDE DEF t2
<1> DEFINE n == [mid EXCEPT ![i] = [mid[i] EXCEPT !.targets = [mid[i].targets EXCEPT ![s] = t2]]]
<1>60. n \in Events /\ OnlyTarget(mid, n, i, s, t2)
  BY <1>2, <1>4, SetTarget
<1>61. mem' \in Events /\ OnlyTarget(mid, mem', i, s, t2)
  BY <1>5, <1>60
<1> HIDE DEF n
<1>6. mem' \in Events /\ OnlyTarget(mem, mem', i, s, t2) /\ mem'[i].targets[s] = t2
  BY <1>4, <1>61 DEF OnlyTarget
<1> QED
  BY <1>2, <1>6 DEF Capture

LEMMA ResetFields ==
  ASSUME TypeOK, NEW i \in Ids, NEW s \in Subs, ResetTarget(i, s)
  PROVE  LET new == mem'[i].targets[s]
             old == mem[i].targets[s]
         IN /\ mem' \in Events /\ disk' = mem' /\ OnlyTarget(mem, mem', i, s, new)
            /\ row' \in [Subs -> Row] /\ row'[s] = ResetRow(row[s], mem[i].dims, now)
            /\ \A t \in Subs : t # s => row'[t] = row[t]
            /\ old.status = "resetting" /\ new.status = "succeeded"
            /\ new.before = old.before /\ new.after = row'[s] /\ new.undo = old.undo
<1> DEFINE old == mem[i].targets[s]
           r == ResetRow(row[s], mem[i].dims, now)
           t1 == [old EXCEPT !.status = "succeeded"]
           mid == [mem EXCEPT ![i] = [mem[i] EXCEPT !.targets = [mem[i].targets EXCEPT ![s] = t1]]]
           t2 == [t1 EXCEPT !.after = r]
<1>1. old \in Target /\ row \in [Subs -> Row] /\ mem \in Events /\ now \in Time
  BY StateParts
<1>2. r \in Row
  BY <1>1, ResetRowType
<1>3. row' = [row EXCEPT ![s] = r]
  BY DEF ResetTarget
<1>4. row' \in [Subs -> Row] /\ row'[s] = r /\ \A t \in Subs : t # s => row'[t] = row[t]
  BY <1>1, <1>2, <1>3
<1>5. mem' = [mid EXCEPT ![i] = [mid[i] EXCEPT !.targets = [mid[i].targets EXCEPT
                ![s] = [mid[i].targets[s] EXCEPT !.after = row'[s]]]]]
  BY DEF ResetTarget
<1> HIDE DEF r
<1>6. /\ t1 \in Target /\ t2 \in Target
      /\ t2.status = "succeeded" /\ t2.before = old.before /\ t2.after = r
      /\ t2.undo = old.undo
  BY <1>1, <1>2 DEF Target
<1> HIDE DEF t1
<1>7. mid \in Events /\ OnlyTarget(mem, mid, i, s, t1)
  BY <1>1, <1>6, SetTarget
<1> HIDE DEF mid
<1>71. mid[i].targets[s] = t1
  BY <1>7 DEF OnlyTarget
<1>8. mem' = [mid EXCEPT ![i] = [mid[i] EXCEPT !.targets = [mid[i].targets EXCEPT ![s] = t2]]]
  BY <1>4, <1>5, <1>71
<1> HIDE DEF t2
<1> DEFINE n == [mid EXCEPT ![i] = [mid[i] EXCEPT !.targets = [mid[i].targets EXCEPT ![s] = t2]]]
<1>90. n \in Events /\ OnlyTarget(mid, n, i, s, t2)
  BY <1>6, <1>7, SetTarget
<1>91. mem' \in Events /\ OnlyTarget(mid, mem', i, s, t2)
  BY <1>8, <1>90
<1> HIDE DEF n
<1>9. mem' \in Events /\ OnlyTarget(mem, mem', i, s, t2) /\ mem'[i].targets[s] = t2
  BY <1>7, <1>91 DEF OnlyTarget
<1> QED
  BY <1>4, <1>6, <1>9 DEF ResetTarget, r

LEMMA FailsFields ==
  ASSUME TypeOK, NEW i \in Ids, NEW s \in Subs, TargetFails(i, s)
  PROVE  LET new == mem'[i].targets[s]
             old == mem[i].targets[s]
         IN /\ mem' \in Events /\ disk' = mem' /\ OnlyTarget(mem, mem', i, s, new)
            /\ old.status \in {"pending", "resetting"} /\ new.status = "failed"
            /\ new.before = old.before /\ new.after = old.after /\ new.undo = old.undo
<1> DEFINE old == mem[i].targets[s]
           tg == [old EXCEPT !.status = "failed"]
           new == [mem EXCEPT ![i] = [mem[i] EXCEPT !.targets = [mem[i].targets EXCEPT ![s] = tg]]]
<1>1. old \in Target /\ mem \in Events
  BY StateParts
<1>2. tg \in Target /\ tg.status = "failed" /\ tg.before = old.before /\ tg.after = old.after
      /\ tg.undo = old.undo
  BY <1>1 DEF Target
<1>3. mem' = new
  BY DEF TargetFails
<1> HIDE DEF tg
<1>4. new \in Events /\ OnlyTarget(mem, new, i, s, tg)
  BY <1>1, <1>2, SetTarget
<1>5. new[i].targets[s] = tg
  BY <1>4 DEF OnlyTarget
<1> HIDE DEF new
<1> QED
  BY <1>2, <1>3, <1>4, <1>5 DEF TargetFails

LEMMA DetectFields ==
  ASSUME TypeOK, NEW i \in Ids, Detect(i)
  PROVE  /\ mem' \in Events /\ disk' = mem' /\ u = NoUndo /\ mem[i].undo = "none"
         /\ \A j \in Ids : j # i => mem'[j] = mem[j]
         /\ mem'[i].targets = mem[i].targets /\ mem'[i].undo = "available"
         /\ busy' = busy \cup {i}
<1>1. PICK D \in (SUBSET Dims) \ {{}} :
        mem' = [mem EXCEPT ![i].dims = D, ![i].expires = now + Day, ![i].undo = "available"]
  BY DEF Detect
<1> DEFINE e == [[[mem[i] EXCEPT !.dims = D] EXCEPT !.expires = now + Day]
                  EXCEPT !.undo = "available"]
<1>2. now + Day \in Nat /\ mem \in [Ids -> Event] /\ mem[i] \in Event
  BY StateParts, ConstantTypes DEF Events
<1>3. e \in Event /\ e.targets = mem[i].targets /\ e.undo = "available"
  BY <1>2 DEF Event
<1>4. mem' = [mem EXCEPT ![i] = e]
  BY <1>1, <1>2 DEF Event
<1> HIDE DEF e
<1>5. mem' \in Events /\ mem'[i] = e /\ \A j \in Ids : j # i => mem'[j] = mem[j]
  BY <1>2, <1>3, <1>4 DEF Events
<1> QED
  BY <1>3, <1>5 DEF Detect
LEMMA SpendFields ==
  ASSUME TypeOK, NEW s \in Subs, Spend(s)
  PROVE  /\ row' \in [Subs -> Row] /\ spent' \in [Subs -> SUBSET Time]
         /\ \A t \in Subs : row'[t].start = row[t].start
<1> DEFINE uses == [d \in Dims |-> row[s].use[d] + 1]
           r == [row[s] EXCEPT !.use = uses]
<1>1. row \in [Subs -> Row] /\ row[s] \in Row /\ now \in Time /\ spent \in [Subs -> SUBSET Time]
  BY StateParts DEF TypeOK
<1>2. uses \in [Dims -> Nat]
  BY <1>1, RowFields
<1>3. row' = [row EXCEPT ![s] = r]
  BY DEF Spend
<1> HIDE DEF uses
<1>4. r \in Row /\ r.start = row[s].start
  BY <1>1, <1>2 DEF Row
<1> HIDE DEF r
<1>5. row' \in [Subs -> Row] /\ \A t \in Subs : row'[t].start = row[t].start
  BY <1>1, <1>3, <1>4
<1>6. spent' \in [Subs -> SUBSET Time]
  BY <1>1 DEF Spend
<1> QED
  BY <1>5, <1>6

LEMMA OtherFields ==
  ASSUME TypeOK, NEW s \in Subs, OtherReset(s)
  PROVE  /\ row' \in [Subs -> Row] /\ \A t \in Subs : t # s => row'[t] = row[t]
         /\ \E D \in SUBSET Dims : row'[s] = ResetRow(row[s], D, now)
<1>1. PICK D \in SUBSET Dims : row' = [row EXCEPT ![s] = ResetRow(row[s], D, now)]
  BY DEF OtherReset
<1> DEFINE r == ResetRow(row[s], D, now)
<1>2. row \in [Subs -> Row] /\ now \in Time
  BY StateParts
<1>3. r \in Row
  BY <1>2, ResetRowType
<1>4. row' = [row EXCEPT ![s] = r]
  BY <1>1
<1>5. r = ResetRow(row[s], D, now)
  OBVIOUS
<1> HIDE DEF r
<1>6. row' \in [Subs -> Row] /\ row'[s] = r /\ \A t \in Subs : t # s => row'[t] = row[t]
  BY <1>2, <1>3, <1>4
<1> QED
  BY <1>5, <1>6

LEMMA TickFields ==
  ASSUME TypeOK, Tick
  PROVE  /\ now' \in Time /\ now' = now + 1 /\ row' \in [Subs -> Row]
         /\ \A s \in Subs : row'[s] = ResetRow(row[s], Ended(row[s], now'), now')
<1>1. row \in [Subs -> Row] /\ now \in Nat /\ now < MaxTime
  BY StateParts DEF Tick
<1>2. now' \in Time /\ now' = now + 1
  BY <1>1, ConstantTypes DEF Tick, Time
<1> DEFINE r(s) == ResetRow(row[s], Ended(row[s], now'), now')
<1>3. \A s \in Subs : r(s) \in Row
  BY <1>1, <1>2, ResetRowType
<1>4. row' = [s \in Subs |-> r(s)]
  BY DEF Tick
<1>5. \A s \in Subs : r(s) = ResetRow(row[s], Ended(row[s], now'), now')
  OBVIOUS
<1> HIDE DEF r
<1> QED
  BY <1>2, <1>3, <1>4, <1>5

LEMMA CommitFields ==
  ASSUME TypeOK, Commit
  PROVE  LET tg == mem[u.id].targets[u.sub]
             D  == mem[u.id].dims
         IN /\ u \in UndoType /\ u.pc = "restoring"
            /\ ~Refused(row[u.sub], tg, D, u.at)
            /\ row' \in [Subs -> Row]
            /\ row'[u.sub] = Restored(row[u.sub], tg, Plan(row[u.sub], tg, D, u.at))
            /\ \A t \in Subs : t # u.sub => row'[t] = row[t]
            /\ applied' \in [Ids \X Subs -> Nat]
            /\ applied'[<<u.id, u.sub>>] = applied[<<u.id, u.sub>>] + 1
            /\ \A c \in Ids \X Subs : c # <<u.id, u.sub>> => applied'[c] = applied[c]
            /\ u' \in UndoType /\ u'.pc = "committed"
            /\ u'.id = u.id /\ u'.sub = u.sub /\ u'.at = u.at
<1> DEFINE tg == mem[u.id].targets[u.sub]
           D  == mem[u.id].dims
           r  == Restored(row[u.sub], tg, Plan(row[u.sub], tg, D, u.at))
<1>1. u \in UndoType /\ u.pc = "restoring"
  BY ActiveUndo DEF Commit
<1>2. u.id \in Ids /\ u.sub \in Subs
  BY <1>1, UndoFields
<1>3. row \in [Subs -> Row] /\ tg \in Target /\ applied \in [Ids \X Subs -> Nat]
  BY <1>2, StateParts
<1>4. r \in Row
  BY <1>2, <1>3, RestoredType
<1>5. row' = [row EXCEPT ![u.sub] = r] /\ ~Refused(row[u.sub], tg, D, u.at)
  BY DEF Commit
<1> HIDE DEF r
<1>6. /\ row' \in [Subs -> Row] /\ row'[u.sub] = r
      /\ \A t \in Subs : t # u.sub => row'[t] = row[t]
  BY <1>2, <1>3, <1>4, <1>5
<1> DEFINE c == <<u.id, u.sub>>
<1>7. c \in Ids \X Subs /\ applied[c] \in Nat
  BY <1>2, <1>3
<1>8. applied' = [applied EXCEPT ![c] = applied[c] + 1]
  BY DEF Commit
<1>9. /\ applied' \in [Ids \X Subs -> Nat] /\ applied'[c] = applied[c] + 1
      /\ \A k \in Ids \X Subs : k # c => applied'[k] = applied[k]
  <2> HIDE DEF c
  <2> QED BY <1>3, <1>7, <1>8
<1>10. /\ u' \in UndoType /\ u'.pc = "committed"
       /\ u'.id = u.id /\ u'.sub = u.sub /\ u'.at = u.at
  <2>1. u' = [u EXCEPT !.pc = "committed"]
    BY DEF Commit
  <2> QED
    BY <1>1, <2>1 DEF UndoType
<1> QED
  BY <1>1, <1>5, <1>6, <1>9, <1>10 DEF r

\* The steps that mark a target of an event, and what the undo is after them.
LEMMA ExpiredFields ==
  ASSUME TypeOK, NEW i \in Ids, NEW s \in Subs, UndoExpired(i, s)
  PROVE  /\ MarkStep(i, s, "expired") /\ u' = u /\ u = NoUndo /\ busy = {}
         /\ mem[i].targets[s].undo # "succeeded"
<1>1. mem \in Events /\ "expired" \in Undos /\ MarkBoth(i, s, "expired")
  BY StateParts DEF UndoExpired, Undos
<1> QED
  BY <1>1, MarkBothStep DEF UndoExpired, MayUndo

LEMMA StartFields ==
  ASSUME TypeOK, NEW i \in Ids, NEW s \in Subs, UndoStart(i, s)
  PROVE  /\ MarkStep(i, s, "in_progress") /\ u = NoUndo /\ busy = {}
         /\ mem[i].targets[s].status = "succeeded" /\ mem[i].targets[s].undo # "succeeded"
         /\ \/ u' = NoUndo /\ FALSE \in SaveOutcomes
            \/ /\ u' \in UndoType /\ u'.pc = "restoring" /\ u'.id = i /\ u'.sub = s
               /\ u'.at = now
<1>1. mem \in Events /\ "in_progress" \in Undos /\ now \in Time
  BY StateParts DEF Undos
<1>2. /\ u = NoUndo /\ busy = {}
      /\ mem[i].targets[s].status = "succeeded" /\ mem[i].targets[s].undo # "succeeded"
  BY DEF UndoStart, MayUndo
<1>3. CASE MarkFails(i, s, "in_progress") /\ u' = u
  BY <1>1, <1>2, <1>3, MarkFailsStep DEF MarkFails
<1>4. CASE /\ MarkSaved(i, s, "in_progress")
           /\ u' = [pc |-> "restoring", id |-> i, sub |-> s, at |-> now]
  <2>1. MarkStep(i, s, "in_progress")
    BY <1>1, <1>4, MarkSavedStep
  <2>2. /\ u' \in UndoType /\ u'.pc = "restoring" /\ u'.id = i /\ u'.sub = s
        /\ u'.at = now
    BY <1>1, <1>4 DEF UndoType
  <2> QED
    BY <1>2, <2>1, <2>2
<1> QED
  BY <1>3, <1>4 DEF UndoStart

LEMMA EndFields ==
  ASSUME TypeOK, UndoFails \/ UndoSucceeds
  PROVE  /\ u \in UndoType /\ u' = NoUndo
         /\ \/ MarkStep(u.id, u.sub, "failed") /\ (LostAck = FALSE => u.pc = "restoring")
            \/ MarkStep(u.id, u.sub, "succeeded") /\ u.pc = "committed"
<1>1. u \in UndoType
  BY ActiveUndo DEF UndoFails, UndoSucceeds
<1>2. mem \in Events /\ "failed" \in Undos /\ "succeeded" \in Undos /\ u.id \in Ids /\ u.sub \in Subs
  BY <1>1, StateParts, UndoFields DEF Undos
<1>3. CASE UndoFails
  BY <1>1, <1>2, <1>3, MarkBothStep DEF UndoFails
<1>4. CASE UndoSucceeds
  <2>1. MarkFails(u.id, u.sub, "succeeded") \/ MarkSaved(u.id, u.sub, "succeeded")
    BY <1>4 DEF UndoSucceeds
  <2>2. MarkStep(u.id, u.sub, "succeeded")
    BY <1>2, <2>1, MarkFailsStep, MarkSavedStep
  <2> QED
    BY <1>1, <1>4, <2>2 DEF UndoSucceeds
<1> QED
  BY <1>3, <1>4
LEMMA MarkTypes ==
  ASSUME TypeOK, NEW i, NEW s, NEW v, MarkStep(i, s, v)
  PROVE  mem' \in [Ids -> Event] /\ disk' \in [Ids -> Event]
BY DEF MarkStep, MarkedIn, TypeOK, Events

LEMMA InitTypes == Init => TypeOK
<1> SUFFICES ASSUME Init PROVE TypeOK
  OBVIOUS
<1>1. 0 \in Time
  BY ConstantTypes DEF Time
<1>2. Fresh \in Row
  BY <1>1 DEF Fresh, Row
<1> DEFINE tg == [status |-> "pending", before |-> Fresh, after |-> Fresh, undo |-> "none"]
           ts == [s \in Subs |-> tg]
           e == [dims |-> {}, expires |-> 0, undo |-> "none", targets |-> ts]
<1>3. tg \in Target
  BY <1>2 DEF Target
<1>4. mem = [i \in Ids |-> e]
  BY DEF Init
<1> HIDE DEF tg
<1>5. ts \in [Subs -> Target]
  BY <1>3
<1> HIDE DEF ts
<1>6. e \in Event
  BY <1>5 DEF Event
<1> HIDE DEF e
<1>7. mem \in [Ids -> Event]
  BY <1>4, <1>6
<1>8. row \in [Subs -> Row] /\ spent \in [Subs -> SUBSET Time]
  BY <1>2 DEF Init
<1>9. applied \in [Ids \X Subs -> Nat] /\ disk \in [Ids -> Event] /\ busy \subseteq Ids
      /\ u = NoUndo /\ now \in Time
  BY <1>1, <1>7 DEF Init
<1> QED
  BY <1>7, <1>8, <1>9 DEF TypeOK

\* Snapshots, rows and the statuses in the state file are well formed, and no
\* window's usage is negative, for any number of events and subscriptions.
THEOREM RollbackTypeCorrect == Spec => []TypeOK
<1>1. TypeOK /\ [Next]_vars => TypeOK'
  <2> SUFFICES ASSUME TypeOK, [Next]_vars
               PROVE  TypeOK'
    OBVIOUS
  <2> USE DEF UndoType
  <2>1. CASE Tick
    <3>1. now' \in Time /\ row' \in [Subs -> Row]
      BY <2>1, TickFields
    <3> QED
      BY <2>1, <3>1 DEF Tick, TypeOK, events
  <2>2. CASE Commit
    <3>1. /\ row' \in [Subs -> Row] /\ applied' \in [Ids \X Subs -> Nat]
          /\ u' \in UndoType
      BY <2>2, CommitFields
    <3> QED
      BY <2>2, <3>1 DEF Commit, TypeOK, events
  <2>3. CASE UndoFails \/ UndoSucceeds
    <3>1. mem' \in [Ids -> Event] /\ disk' \in [Ids -> Event] /\ u' = NoUndo
      BY <2>3, EndFields, MarkTypes
    <3>2. NoUndo' = NoUndo /\ UNCHANGED <<now, row, spent, busy, applied>>
      BY <2>3 DEF NoUndo, UndoFails, UndoSucceeds
    <3> QED
      BY <3>1, <3>2 DEF TypeOK
  <2>4. CASE Crash
    BY <2>4 DEF Crash, TypeOK, NoUndo
  <2>5. ASSUME NEW s \in Subs, Spend(s) PROVE TypeOK'
    <3>1. row' \in [Subs -> Row] /\ spent' \in [Subs -> SUBSET Time]
      BY <2>5, SpendFields
    <3> QED
      BY <2>5, <3>1 DEF Spend, TypeOK, events
  <2>6. ASSUME NEW s \in Subs, OtherReset(s) PROVE TypeOK'
    <3>1. row' \in [Subs -> Row]
      BY <2>6, OtherFields
    <3> QED
      BY <2>6, <3>1 DEF OtherReset, TypeOK, events
  <2>7. ASSUME NEW i \in Ids, Detect(i) PROVE TypeOK'
    <3>1. mem' \in [Ids -> Event] /\ disk' = mem' /\ busy' = busy \cup {i}
      BY <2>7, DetectFields DEF Events
    <3> QED
      BY <2>7, <3>1 DEF Detect, TypeOK, events
  <2>8. ASSUME NEW i \in Ids, Done(i) PROVE TypeOK'
    BY <2>8 DEF Done, TypeOK, events
  <2>9. ASSUME NEW i \in Ids, NEW s \in Subs, Capture(i, s) PROVE TypeOK'
    <3>1. mem' \in [Ids -> Event] /\ disk' = mem'
      BY <2>9, CaptureFields DEF Events
    <3> QED
      BY <2>9, <3>1 DEF Capture, TypeOK
  <2>10. ASSUME NEW i \in Ids, NEW s \in Subs, ResetTarget(i, s) PROVE TypeOK'
    <3>1. mem' \in [Ids -> Event] /\ disk' = mem' /\ row' \in [Subs -> Row]
      BY <2>10, ResetFields DEF Events
    <3> QED
      BY <2>10, <3>1 DEF ResetTarget, TypeOK
  <2>11. ASSUME NEW i \in Ids, NEW s \in Subs, TargetFails(i, s) PROVE TypeOK'
    <3>1. mem' \in [Ids -> Event] /\ disk' = mem'
      BY <2>11, FailsFields DEF Events
    <3> QED
      BY <2>11, <3>1 DEF TargetFails, TypeOK
  <2>12. ASSUME NEW i \in Ids, NEW s \in Subs, UndoStart(i, s) PROVE TypeOK'
    <3>1. mem' \in [Ids -> Event] /\ disk' \in [Ids -> Event]
          /\ (u' = NoUndo \/ u' \in UndoType)
      BY <2>12, StartFields, MarkTypes
    <3>2. NoUndo' = NoUndo /\ UNCHANGED <<now, row, spent, busy, applied>>
      BY <2>12 DEF NoUndo, UndoStart
    <3> QED
      BY <3>1, <3>2 DEF TypeOK
  <2>13. ASSUME NEW i \in Ids, NEW s \in Subs, UndoExpired(i, s) PROVE TypeOK'
    <3>1. mem' \in [Ids -> Event] /\ disk' \in [Ids -> Event] /\ u' = u
      BY <2>13, ExpiredFields, MarkTypes
    <3>2. NoUndo' = NoUndo /\ UNCHANGED <<now, row, spent, busy, applied>>
      BY <2>13 DEF NoUndo, UndoExpired
    <3> QED
      BY <3>1, <3>2 DEF TypeOK
  <2>14. CASE UNCHANGED vars
    BY <2>14 DEF vars, events, TypeOK, NoUndo
  <2> QED
    BY <2>1, <2>2, <2>3, <2>4, <2>5, <2>6, <2>7, <2>8, <2>9, <2>10, <2>11, <2>12, <2>13, <2>14
       DEF Next
<1> QED
  BY <1>1, InitTypes, PTL DEF Spec

\* What was consumed after a reset is still charged after its undo: the
\* restored row adds the earlier usage and takes none away (restore.go Restore).
THEOREM ConsumptionStaysCharged == Spec => ConsumptionKept
<1> DEFINE Kept == \A s \in Subs, d \in Dims :
                     applied' # applied => row'[s].use[d] >= row[s].use[d]
<1>1. TypeOK /\ [Next]_vars => [Kept]_vars
  <2> SUFFICES ASSUME TypeOK, [Next]_vars, applied' # applied, NEW s \in Subs, NEW d \in Dims
               PROVE  row'[s].use[d] >= row[s].use[d]
    OBVIOUS
  <2>1. Commit
    <3>1. ~Tick /\ ~UndoFails /\ ~UndoSucceeds /\ ~Crash
      BY DEF Tick, UndoFails, UndoSucceeds, Crash
    <3>2. \A t \in Subs : ~Spend(t) /\ ~OtherReset(t)
      BY DEF Spend, OtherReset
    <3>3. \A i \in Ids : ~Detect(i) /\ ~Done(i)
      BY DEF Detect, Done
    <3>4. \A i \in Ids, t \in Subs : /\ ~Capture(i, t) /\ ~ResetTarget(i, t) /\ ~TargetFails(i, t)
                                    /\ ~UndoStart(i, t) /\ ~UndoExpired(i, t)
      BY DEF Capture, ResetTarget, TargetFails, UndoStart, UndoExpired
    <3>5. ~UNCHANGED vars
      BY DEF vars
    <3> QED
      BY <3>1, <3>2, <3>3, <3>4, <3>5 DEF Next
  <2> DEFINE tg == mem[u.id].targets[u.sub]
             P  == Plan(row[u.sub], tg, mem[u.id].dims, u.at)
  <2>2. /\ u \in UndoType /\ row'[u.sub] = Restored(row[u.sub], tg, P)
        /\ \A t \in Subs : t # u.sub => row'[t] = row[t]
    BY <2>1, CommitFields
  <2>3. u.id \in Ids /\ u.sub \in Subs
    BY <2>2, UndoFields
  <2>4. tg \in Target /\ row \in [Subs -> Row]
    BY <2>3, StateParts
  <2>5. tg.before.use[d] \in Nat /\ row[s].use[d] \in Nat
    BY <2>4, TargetFields, RowFields
  <2> HIDE DEF P, tg
  <2>6. CASE s = u.sub
    <3>1. row'[s].use[d] = IF d \in P THEN tg.before.use[d] + row[s].use[d] ELSE row[s].use[d]
      BY <2>2, <2>4, <2>6, RestoredType
    <3> QED
      BY <2>5, <3>1
  <2>7. CASE s # u.sub
    BY <2>2, <2>5, <2>7
  <2> QED
    BY <2>6, <2>7
<1> QED
  BY <1>1, RollbackTypeCorrect, PTL DEF Spec, ConsumptionKept
----------------------------------------------------------------------------
(* Every step is one of these: the loop works on a target, an undo marks   *)
(* one, the loop begins or ends, the process restarts, or the events stay. *)

LoopStep(i, s) ==
  LET new == mem'[i].targets[s]
      old == mem[i].targets[s]
  IN /\ Capture(i, s) \/ ResetTarget(i, s) \/ TargetFails(i, s)
     /\ i \in busy /\ mem' \in Events /\ disk' = mem' /\ OnlyTarget(mem, mem', i, s, new)
     /\ old.status \in {"pending", "resetting"}
     /\ new.status \in {"resetting", "succeeded", "failed"} /\ new.undo = old.undo
     /\ UNCHANGED <<now, busy, u, applied>>

LEMMA IsLoopStep ==
  ASSUME TypeOK, NEW i \in Ids, NEW s \in Subs,
         Capture(i, s) \/ ResetTarget(i, s) \/ TargetFails(i, s)
  PROVE  LoopStep(i, s)
<1>1. CASE Capture(i, s)
  BY <1>1, CaptureFields DEF LoopStep, Capture
<1>2. CASE ResetTarget(i, s)
  BY <1>2, ResetFields DEF LoopStep, ResetTarget
<1>3. CASE TargetFails(i, s)
  BY <1>3, FailsFields DEF LoopStep, TargetFails
<1> QED
  BY <1>1, <1>2, <1>3

\* A target is marked v and the undo begins or ends.
UndoMark(i, s, v) ==
  /\ MarkStep(i, s, v) /\ busy = {} /\ UNCHANGED <<now, row, spent, busy, applied>>
  /\ v = "succeeded" => u.pc = "committed" /\ u.id = i /\ u.sub = s
  /\ u # NoUndo => /\ u.id = i /\ u.sub = s
                   /\ LostAck = FALSE /\ v # "succeeded" => u.pc = "restoring"
  /\ u = NoUndo => mem[i].targets[s].undo # "succeeded"
  /\ \/ u' = NoUndo /\ (v # "in_progress" \/ FALSE \in SaveOutcomes)
     \/ /\ u = NoUndo /\ u' \in UndoType /\ u'.pc = "restoring" /\ u'.id = i /\ u'.sub = s
        /\ u'.at = now /\ v = "in_progress"
        /\ mem[i].targets[s].status = "succeeded" /\ mem[i].targets[s].undo # "succeeded"

LEMMA IsUndoMark ==
  ASSUME TypeOK, Exclusive,
         \/ \E i \in Ids, s \in Subs : UndoStart(i, s) \/ UndoExpired(i, s)
         \/ UndoFails \/ UndoSucceeds
  PROVE  \E i \in Ids, s \in Subs, v \in Undos : UndoMark(i, s, v)
<1>1. ASSUME NEW i \in Ids, NEW s \in Subs, UndoStart(i, s)
      PROVE  UndoMark(i, s, "in_progress")
  <2>1. UNCHANGED <<now, row, spent, busy, applied>>
    BY <1>1 DEF UndoStart
  <2> QED
    BY <1>1, <2>1, StartFields DEF UndoMark
<1>2. ASSUME NEW i \in Ids, NEW s \in Subs, UndoExpired(i, s)
      PROVE  UndoMark(i, s, "expired")
  <2>1. UNCHANGED <<now, row, spent, busy, applied>>
    BY <1>2 DEF UndoExpired
  <2> QED
    BY <1>2, <2>1, ExpiredFields DEF UndoMark
<1>3. ASSUME UndoFails \/ UndoSucceeds
      PROVE  /\ u.id \in Ids /\ u.sub \in Subs
             /\ UndoMark(u.id, u.sub, "failed") \/ UndoMark(u.id, u.sub, "succeeded")
  <2>1. UNCHANGED <<now, row, spent, busy, applied>>
    BY <1>3 DEF UndoFails, UndoSucceeds
  <2>2. /\ u \in UndoType /\ u' = NoUndo
        /\ \/ MarkStep(u.id, u.sub, "failed") /\ (LostAck = FALSE => u.pc = "restoring")
           \/ MarkStep(u.id, u.sub, "succeeded") /\ u.pc = "committed"
    BY <1>3, EndFields
  <2>3. u.id \in Ids /\ u.sub \in Subs /\ u # NoUndo
    BY <2>2, UndoFields
  <2>4. busy = {}
    BY <2>3 DEF Exclusive
  <2> QED
    BY <2>1, <2>2, <2>3, <2>4 DEF UndoMark
<1>4. {"in_progress", "expired", "failed", "succeeded"} \subseteq Undos
  BY DEF Undos
<1> QED
  BY <1>1, <1>2, <1>3, <1>4

\* Nothing happens to the events.
Quiet ==
  /\ UNCHANGED <<mem, disk, busy>> /\ (UNCHANGED <<u, applied>> \/ Commit)
  /\ \/ Commit \/ Tick \/ UNCHANGED <<now, row, spent>>
     \/ \E s \in Subs : Spend(s) \/ OtherReset(s)

\* The steps of the system, as the proofs tell them apart.
LEMMA Steps ==
  ASSUME TypeOK, Exclusive, [Next]_vars
  PROVE  \/ Quiet \/ Crash
         \/ \E i \in Ids : Detect(i) \/ Done(i)
         \/ \E i \in Ids, s \in Subs : LoopStep(i, s)
         \/ \E i \in Ids, s \in Subs, v \in Undos : UndoMark(i, s, v)
<1>1. ASSUME \/ Tick \/ Commit \/ UNCHANGED vars
             \/ \E s \in Subs : Spend(s) \/ OtherReset(s)
      PROVE  Quiet
  BY <1>1 DEF Quiet, Tick, Commit, vars, events, Spend, OtherReset
<1>2. ASSUME NEW i \in Ids, NEW s \in Subs, Capture(i, s) \/ ResetTarget(i, s) \/ TargetFails(i, s)
      PROVE  LoopStep(i, s)
  BY <1>2, IsLoopStep
<1>3. ASSUME \/ \E i \in Ids, s \in Subs : UndoStart(i, s) \/ UndoExpired(i, s)
             \/ UndoFails \/ UndoSucceeds
      PROVE  \E i \in Ids, s \in Subs, v \in Undos : UndoMark(i, s, v)
  BY <1>3, IsUndoMark
<1> QED
  BY <1>1, <1>2, <1>3 DEF Next

\* The parts of the invariant that a mark leaves alone or makes true again.
LEMMA MarkKeepsLoop ==
  ASSUME TypeOK, LoopInv, NEW i \in Ids, NEW s \in Subs, NEW v \in Undos, UndoMark(i, s, v)
  PROVE  LoopInv'
<1>1. /\ MarkedIn(mem, mem', i, s, v) /\ (disk' = disk \/ MarkedIn(mem, disk', i, s, v))
      /\ busy = {} /\ busy' = {}
  BY DEF UndoMark, MarkStep
<1>2. SameReset(mem, mem', i) /\ (disk' = disk \/ SameReset(mem, disk', i))
  BY <1>1 DEF MarkedIn
<1>3. SameLoop'
  <2>1. CASE disk' = disk
    BY <1>2, <2>1 DEF LoopInv, SameLoop, SameReset
  <2>2. CASE SameReset(mem, disk', i)
    BY <1>2, <2>2 DEF SameLoop, SameReset
  <2> QED
    BY <1>2, <2>1, <2>2
<1>4. ASSUME NEW st, MarkedIn(mem, st, i, s, v) PROVE Detected(st)
  BY <1>4 DEF MarkedIn, SameReset, Summarised, LoopInv, Detected
<1>5. Detected(mem') /\ Detected(disk')
  BY <1>1, <1>4 DEF LoopInv
<1>6. Exclusive'
  <2>1. u' # NoUndo => mem'[u'.id].targets[u'.sub].status = "succeeded"
    BY <1>2 DEF UndoMark, SameReset
  <2> QED
    BY <1>1, <2>1 DEF Exclusive, NoUndo
<1> QED
  BY <1>3, <1>5, <1>6 DEF LoopInv, Detected

LEMMA LoopKept == TypeOK /\ LoopInv /\ [Next]_vars => LoopInv'
<1> SUFFICES ASSUME TypeOK, LoopInv, [Next]_vars
             PROVE  LoopInv'
  OBVIOUS
<1>1. CASE Quiet
  <2>1. UNCHANGED <<mem, disk, busy>> /\ (u' = u \/ Commit)
    BY <1>1 DEF Quiet
  <2>2. Commit => /\ u # NoUndo /\ u'.id = u.id /\ u'.sub = u.sub
    BY CommitFields, UndoFields
  <2>3. Exclusive'
    BY <2>1, <2>2 DEF LoopInv, Exclusive, NoUndo
  <2> QED
    BY <2>1, <2>3 DEF LoopInv, SameLoop, Detected
<1>2. CASE Crash
  BY <1>2 DEF Crash, LoopInv, SameLoop, Detected, Exclusive, NoUndo
<1>3. ASSUME NEW i \in Ids, Detect(i) PROVE LoopInv'
  <2>1. /\ mem' \in Events /\ disk' = mem' /\ u = NoUndo
        /\ \A j \in Ids : j # i => mem'[j] = mem[j]
        /\ mem'[i].targets = mem[i].targets /\ mem'[i].undo = "available"
        /\ busy' = busy \cup {i} /\ u' = u
    BY <1>3, DetectFields DEF Detect
  <2>2. SameLoop'
    BY <2>1 DEF SameLoop
  <2>3. Detected(mem') /\ Detected(disk')
    BY <2>1 DEF LoopInv, Detected
  <2>4. \A j \in busy : j \in Ids
    BY StateParts
  <2>5. Exclusive'
    BY <2>1, <2>4 DEF LoopInv, Exclusive, NoUndo
  <2> QED
    BY <2>2, <2>3, <2>5 DEF LoopInv, Detected
<1>4. ASSUME NEW i \in Ids, Done(i) PROVE LoopInv'
  BY <1>4 DEF Done, events, LoopInv, SameLoop, Detected, Exclusive, NoUndo
<1>5. ASSUME NEW i \in Ids, NEW s \in Subs, LoopStep(i, s) PROVE LoopInv'
  <2>1. /\ i \in busy /\ disk' = mem' /\ OnlyTarget(mem, mem', i, s, mem'[i].targets[s])
        /\ busy' = busy /\ u' = u
    BY <1>5 DEF LoopStep
  <2>2. SameLoop'
    BY <2>1 DEF SameLoop
  <2>3. mem[i].undo = "available" /\ u = NoUndo
    BY <2>1 DEF LoopInv, Exclusive
  <2>4. Detected(mem') /\ Detected(disk')
    BY <2>1, <2>3 DEF LoopInv, Detected, OnlyTarget
  <2>5. \A j \in busy : j \in Ids
    BY StateParts
  <2>6. Exclusive'
    BY <2>1, <2>3, <2>5 DEF LoopInv, Exclusive, OnlyTarget, NoUndo
  <2> QED
    BY <2>2, <2>4, <2>6 DEF LoopInv, Detected
<1>6. ASSUME NEW i \in Ids, NEW s \in Subs, NEW v \in Undos, UndoMark(i, s, v) PROVE LoopInv'
  BY <1>6, MarkKeepsLoop
<1> QED
  BY <1>1, <1>2, <1>3, <1>4, <1>5, <1>6, Steps DEF LoopInv

LEMMA LoopInit == Init => LoopInv
<1> SUFFICES ASSUME Init PROVE LoopInv
  OBVIOUS
<1>1. /\ disk = mem /\ busy = {} /\ u = NoUndo
      /\ \A i \in Ids, s \in Subs : mem[i].targets[s].status = "pending"
  BY DEF Init
<1> QED
  BY <1>1 DEF LoopInv, SameLoop, Detected, Exclusive
----------------------------------------------------------------------------
(* What is shown as undone was undone.                                     *)

ShownIn(st) == \A i \in Ids :
  /\ \A s \in Subs : st[i].targets[s].undo = "succeeded" => applied[<<i, s>>] > 0
  /\ st[i].undo = "succeeded" =>
       \A s \in Subs : st[i].targets[s].status = "succeeded" => applied[<<i, s>>] > 0

LEMMA ShownInBoth == UndoneIsTrue <=> ShownIn(mem) /\ ShownIn(disk)
BY DEF UndoneIsTrue, ShownIn, Reset

\* A mark keeps it: of "succeeded" after the commit only, and of the event only
\* when the targets it reset are all marked so.
LEMMA MarkIsTrue ==
  ASSUME ShownIn(mem), NEW i \in Ids, NEW s \in Subs, NEW v, NEW st, MarkedIn(mem, st, i, s, v),
         v = "succeeded" => applied[<<i, s>>] > 0
  PROVE  ShownIn(st)
<1>1. ASSUME NEW j \in Ids, NEW t \in Subs, st[j].targets[t].undo = "succeeded"
      PROVE  applied[<<j, t>>] > 0
  BY <1>1 DEF MarkedIn, SameReset, ShownIn
<1>2. ASSUME NEW j \in Ids, st[j].undo = "succeeded", NEW t \in Subs,
             st[j].targets[t].status = "succeeded"
      PROVE  applied[<<j, t>>] > 0
  <2>1. CASE j = i /\ Summarised(st[i])
    BY <1>1, <1>2, <2>1 DEF Summarised
  <2>2. CASE j # i \/ st[i].undo = mem[i].undo
    BY <1>2, <2>2 DEF MarkedIn, SameReset, ShownIn
  <2> QED
    BY <2>1, <2>2 DEF MarkedIn
<1> QED
  BY <1>1, <1>2 DEF ShownIn

LEMMA UndoneKept == TypeOK /\ LoopInv /\ UndoneInv /\ [Next]_vars => UndoneInv'
<1> SUFFICES ASSUME TypeOK, LoopInv, UndoneInv, [Next]_vars
             PROVE  UndoneInv'
  OBVIOUS
<1> DEFINE Applied == u.pc = "committed" => applied[<<u.id, u.sub>>] > 0
<1>0. ShownIn(mem) /\ ShownIn(disk) /\ Applied
  BY ShownInBoth DEF UndoneInv
<1> SUFFICES ShownIn(mem)' /\ ShownIn(disk)' /\ Applied'
  <2>1. UndoneIsTrue' <=> ShownIn(mem)' /\ ShownIn(disk)'
    BY ShownInBoth, PTL
  <2> QED
    BY <2>1 DEF UndoneInv
<1>1. CASE Quiet /\ UNCHANGED <<u, applied>>
  BY <1>0, <1>1 DEF Quiet, ShownIn
<1>2. CASE Quiet /\ Commit
  <2>1. /\ u \in UndoType /\ applied \in [Ids \X Subs -> Nat]
        /\ applied'[<<u.id, u.sub>>] = applied[<<u.id, u.sub>>] + 1
        /\ \A c \in Ids \X Subs : c # <<u.id, u.sub>> => applied'[c] = applied[c]
        /\ u'.id = u.id /\ u'.sub = u.sub /\ mem' = mem /\ disk' = disk
    BY <1>2, CommitFields, StateParts DEF Quiet
  <2>2. <<u.id, u.sub>> \in Ids \X Subs
    BY <2>1, UndoFields
  <2>3. \A c \in Ids \X Subs : applied[c] \in Nat
    BY <2>1
  <2>4. \A c \in Ids \X Subs : applied[c] > 0 => applied'[c] > 0
    BY <2>1, <2>2, <2>3
  <2>5. applied'[<<u.id, u.sub>>] > 0
    BY <2>1, <2>2, <2>3
  <2> QED
    BY <1>0, <2>1, <2>4, <2>5 DEF ShownIn
<1>3. CASE Crash
  BY <1>0, <1>3 DEF Crash, ShownIn, NoUndo
<1>4. ASSUME NEW i \in Ids, Detect(i)
      PROVE  ShownIn(mem)' /\ ShownIn(disk)' /\ Applied'
  <2>1. /\ disk' = mem' /\ \A j \in Ids : j # i => mem'[j] = mem[j]
        /\ mem'[i].targets = mem[i].targets /\ mem'[i].undo = "available"
        /\ u' = u /\ applied' = applied
    BY <1>4, DetectFields DEF Detect
  <2>2. ShownIn(mem')
    BY <1>0, <2>1 DEF ShownIn
  <2> QED
    BY <1>0, <2>1, <2>2 DEF ShownIn
<1>5. ASSUME NEW i \in Ids, Done(i)
      PROVE  ShownIn(mem)' /\ ShownIn(disk)' /\ Applied'
  BY <1>0, <1>5 DEF Done, events, ShownIn
<1>6. ASSUME NEW i \in Ids, NEW s \in Subs, LoopStep(i, s)
      PROVE  ShownIn(mem)' /\ ShownIn(disk)' /\ Applied'
  <2>1. /\ i \in busy /\ disk' = mem' /\ OnlyTarget(mem, mem', i, s, mem'[i].targets[s])
        /\ mem'[i].targets[s].undo = mem[i].targets[s].undo
        /\ u' = u /\ applied' = applied
    BY <1>6 DEF LoopStep
  <2>2. mem[i].undo = "available"
    BY <2>1 DEF LoopInv, Exclusive
  <2>3. ShownIn(mem)'
    BY <1>0, <2>1, <2>2 DEF ShownIn, OnlyTarget
  <2> QED
    BY <1>0, <2>1, <2>3 DEF ShownIn
<1>7. ASSUME NEW i \in Ids, NEW s \in Subs, NEW v \in Undos, UndoMark(i, s, v)
      PROVE  ShownIn(mem)' /\ ShownIn(disk)' /\ Applied'
  <2>1. /\ MarkedIn(mem, mem', i, s, v) /\ (disk' = disk \/ MarkedIn(mem, disk', i, s, v))
        /\ applied' = applied
    BY <1>7 DEF UndoMark, MarkStep
  <2>2. v = "succeeded" => applied[<<i, s>>] > 0
    BY <1>0, <1>7 DEF UndoMark
  <2>3. ShownIn(mem') /\ ShownIn(disk')
    BY <1>0, <2>1, <2>2, MarkIsTrue
  <2>4. u'.pc # "committed"
    <3>1. u' = NoUndo \/ u'.pc = "restoring"
      BY <1>7 DEF UndoMark
    <3>2. NoUndo.pc = "idle"
      BY DEF NoUndo
    <3> QED
      BY <3>1, <3>2
  <2> QED
    BY <2>1, <2>3, <2>4 DEF ShownIn
<1> QED
  BY <1>1, <1>2, <1>3, <1>4, <1>5, <1>6, <1>7, Steps DEF LoopInv, Quiet

\* A target shown as undone, in memory or in the state file, was undone, and an
\* event only when every target it reset was (engine.go UndoTarget, store.go
\* updateEventUndoAggregate), whatever is saved and whenever the process dies.
THEOREM ShownAsUndone == Spec => []UndoneIsTrue
<1>1. Init => UndoneInv
  <2> SUFFICES ASSUME Init PROVE UndoneInv
    OBVIOUS
  <2>1. /\ disk = mem /\ u = NoUndo /\ \A i \in Ids : mem[i].undo = "none"
        /\ \A i \in Ids, s \in Subs : mem[i].targets[s].undo = "none"
    BY DEF Init
  <2> QED
    BY <2>1, ShownInBoth DEF ShownIn, UndoneInv, NoUndo
<1>2. Spec => []LoopInv
  BY LoopInit, LoopKept, RollbackTypeCorrect, PTL DEF Spec
<1>3. Spec => []UndoneInv
  BY <1>1, <1>2, UndoneKept, RollbackTypeCorrect, PTL DEF Spec
<1>4. UndoneInv => UndoneIsTrue
  BY DEF UndoneInv
<1> QED
  BY <1>3, <1>4, PTL

----------------------------------------------------------------------------
(* An undo comes to an end.                                                *)

LEMMA ProgressKept ==
  ASSUME SaveOutcomes = {TRUE}, MayCrash = FALSE
  PROVE  TypeOK /\ LoopInv /\ ProgressInv /\ [Next]_vars => ProgressInv'
<1> SUFFICES ASSUME TypeOK, LoopInv, ProgressInv, [Next]_vars
             PROVE  ProgressInv'
  OBVIOUS
<1>1. CASE Quiet
  <2>1. Commit => u # NoUndo /\ u' # NoUndo /\ u'.id = u.id /\ u'.sub = u.sub
    BY CommitFields, UndoFields DEF NoUndo
  <2> QED
    BY <1>1, <2>1 DEF Quiet, ProgressInv, NoUndo
<1>2. ~Crash
  BY DEF Crash
<1>3. ASSUME NEW i \in Ids, Detect(i) PROVE ProgressInv'
  <2>1. /\ \A j \in Ids : j # i => mem'[j] = mem[j]
        /\ mem'[i].targets = mem[i].targets /\ mem'[i].undo = "available" /\ u' = u
    BY <1>3, DetectFields DEF Detect
  <2> QED
    BY <2>1 DEF ProgressInv, NoUndo
<1>4. ASSUME NEW i \in Ids, Done(i) PROVE ProgressInv'
  BY <1>4 DEF Done, events, ProgressInv, NoUndo
<1>5. ASSUME NEW i \in Ids, NEW s \in Subs, LoopStep(i, s) PROVE ProgressInv'
  <2>1. /\ OnlyTarget(mem, mem', i, s, mem'[i].targets[s])
        /\ mem'[i].targets[s].undo = mem[i].targets[s].undo /\ u' = u
    BY <1>5 DEF LoopStep
  <2> QED
    BY <2>1 DEF ProgressInv, OnlyTarget, NoUndo
<1>6. ASSUME NEW i \in Ids, NEW s \in Subs, NEW v \in Undos, UndoMark(i, s, v)
      PROVE  ProgressInv'
  <2>1. /\ SameReset(mem, mem', i) /\ Summarised(mem'[i])
        /\ \A t \in Subs : mem'[i].targets[t].undo = IF t = s THEN v ELSE mem[i].targets[t].undo
    BY <1>6 DEF UndoMark, MarkStep, MarkedIn
  <2>2. CASE v = "in_progress"
    <3>1. u = NoUndo /\ u' # NoUndo /\ u'.id = i /\ u'.sub = s
      BY <1>6, <2>2, UndoFields DEF UndoMark, UndoType, NoUndo
    <3>2. NoUndo' = NoUndo
      BY DEF NoUndo
    <3> QED
      BY <2>1, <3>1, <3>2 DEF ProgressInv, SameReset
  <2>3. CASE v # "in_progress"
    <3>1. \A j \in Ids, t \in Subs : mem'[j].targets[t].undo # "in_progress"
      <4>1. u = NoUndo \/ (u # NoUndo /\ u.id = i /\ u.sub = s)
        BY <1>6 DEF UndoMark
      <4> QED
        BY <2>1, <2>3, <4>1 DEF ProgressInv, SameReset
    <3>2. \A j \in Ids : mem'[j].undo # "in_progress"
      <4>1. mem'[i].undo # "in_progress"
        BY <2>1, <3>1 DEF Summarised
      <4>2. ASSUME NEW j \in Ids, j # i PROVE mem'[j].undo # "in_progress"
        BY <1>6, <2>1, <4>2 DEF ProgressInv, SameReset, UndoMark
      <4> QED
        BY <4>1, <4>2
    <3> QED
      BY <3>1, <3>2 DEF ProgressInv
  <2> QED
    BY <2>2, <2>3
<1> QED
  BY <1>1, <1>2, <1>3, <1>4, <1>5, <1>6, Steps DEF LoopInv

\* With saves that succeed and no crash, nothing is shown as being undone when
\* no undo runs: every way out of UndoTarget marks the target and aggregates the
\* event again.
THEOREM UndoComesToAnEnd ==
  ASSUME SaveOutcomes = {TRUE}, MayCrash = FALSE
  PROVE  Spec => []UndoEnds
<1>1. Init => ProgressInv
  <2> SUFFICES ASSUME Init PROVE ProgressInv
    OBVIOUS
  <2>1. /\ \A i \in Ids : mem[i].undo = "none"
        /\ \A i \in Ids, s \in Subs : mem[i].targets[s].undo = "none"
    BY DEF Init
  <2> QED
    BY <2>1 DEF ProgressInv
<1>2. Spec => []LoopInv
  BY LoopInit, LoopKept, RollbackTypeCorrect, PTL DEF Spec
<1>3. TypeOK /\ LoopInv /\ ProgressInv /\ [Next]_vars => ProgressInv'
  BY ProgressKept
<1>4. Spec => []ProgressInv
  BY <1>1, <1>2, <1>3, RollbackTypeCorrect, PTL DEF Spec
<1>5. ProgressInv => UndoEnds
  BY DEF ProgressInv, UndoEnds
<1> QED
  BY <1>4, <1>5, PTL

----------------------------------------------------------------------------
(* A reset is taken back once.                                             *)

LEMMA StartNumbers ==
  ASSUME TypeOK
  PROVE  /\ now \in Nat
         /\ \A s \in Subs, d \in Long : row[s].start[d] \in Time /\ row[s].start[d] \in Nat
         /\ \A i \in Ids, s \in Subs, d \in Long :
              /\ mem[i].targets[s].before.start[d] \in Nat
              /\ mem[i].targets[s].after.start[d] \in Time
              /\ mem[i].targets[s].after.start[d] \in Nat
         /\ \A i \in Ids : mem[i].dims \subseteq Dims
<1>1. ASSUME NEW i \in Ids, NEW s \in Subs, NEW d \in Long
      PROVE  /\ mem[i].targets[s].before.start[d] \in Nat
             /\ mem[i].targets[s].after.start[d] \in Time
             /\ mem[i].targets[s].after.start[d] \in Nat
  <2>1. mem[i].targets[s] \in Target
    BY StateParts
  <2>2. mem[i].targets[s].before \in Row /\ mem[i].targets[s].after \in Row
    BY <2>1, TargetFields
  <2> QED
    BY <2>2, RowFields DEF Long
<1>2. \A i \in Ids : mem[i].dims \subseteq Dims
  BY StateParts, EventFields
<1>3. \A s \in Subs, d \in Long : row[s].start[d] \in Time /\ row[s].start[d] \in Nat
  BY StateParts, RowFields DEF Long
<1> QED
  BY <1>1, <1>2, <1>3, StateParts

\* Without a daily window a reset starts the windows it resets now.
LEMMA ResetStart ==
  ASSUME NEW r \in Row, NEW D, NEW t \in Time, NEW d \in Long
  PROVE  ResetRow(r, D, t).start[d] = IF d \in D THEN t ELSE r.start[d]
<1>1. Start(d, t) = t
  BY DEF Start, Long
<1> QED
  BY <1>1, ResetRowType DEF Long

\* But for an undo's commit, a window keeps its start or starts now.
LEMMA RowMoves ==
  ASSUME TypeOK, [Next]_vars, ~Commit
  PROVE  /\ now' \in Nat /\ now <= now'
         /\ \A s \in Subs, d \in Long : row'[s].start[d] \in {row[s].start[d], now'}
<1>1. CASE Tick
  <2>1. ASSUME NEW s \in Subs, NEW d \in Long
        PROVE  row'[s].start[d] \in {row[s].start[d], now'}
    BY <1>1, <2>1, TickFields, ResetStart, StateParts
  <2> QED
    BY <1>1, <2>1, TickFields, StartNumbers
<1>2. ASSUME NEW t \in Subs, Spend(t)
      PROVE  now' = now /\ \A s \in Subs : row'[s].start = row[s].start
  BY <1>2, SpendFields DEF Spend
<1>3. ASSUME NEW t \in Subs, OtherReset(t)
      PROVE  /\ now' = now
             /\ \A s \in Subs, d \in Long : row'[s].start[d] \in {row[s].start[d], now}
  BY <1>3, OtherFields, ResetStart, StateParts DEF OtherReset
<1>4. ASSUME NEW i \in Ids, NEW t \in Subs, ResetTarget(i, t)
      PROVE  /\ now' = now
             /\ \A s \in Subs, d \in Long : row'[s].start[d] \in {row[s].start[d], now}
  <2> DEFINE D == mem[i].dims
  <2>1. row'[t] = ResetRow(row[t], D, now) /\ \A s \in Subs : s # t => row'[s] = row[s]
    BY <1>4, ResetFields
  <2>2. row[t] \in Row /\ now \in Time
    BY StateParts
  <2> HIDE DEF D
  <2>3. \A d \in Long : row'[t].start[d] = IF d \in D THEN now ELSE row[t].start[d]
    BY <2>1, <2>2, ResetStart
  <2>4. now' = now
    BY <1>4 DEF ResetTarget
  <2> QED
    BY <2>1, <2>3, <2>4
<1>5. ASSUME NEW i \in Ids, NEW t \in Subs,
             Capture(i, t) \/ TargetFails(i, t) \/ UndoStart(i, t) \/ UndoExpired(i, t)
      PROVE  now' = now /\ row' = row
  BY <1>5 DEF Capture, TargetFails, UndoStart, UndoExpired
<1>6. ASSUME UndoFails \/ UndoSucceeds \/ Crash \/ UNCHANGED vars
      PROVE  now' = now /\ row' = row
  BY <1>6 DEF UndoFails, UndoSucceeds, Crash, vars
<1>7. ASSUME NEW i \in Ids, Detect(i) \/ Done(i)
      PROVE  now' = now /\ row' = row
  BY <1>7 DEF Detect, Done
<1> QED
  BY <1>1, <1>2, <1>3, <1>4, <1>5, <1>6, <1>7, StartNumbers DEF Next

\* What the reset of a target recorded.
SameRecord(old, new, i, s) ==
  LET a == old[i].targets[s]
      b == new[i].targets[s]
  IN new[i].dims = old[i].dims /\ b.status = a.status /\ b.before = a.before /\ b.after = a.after

LEMMA UndoTimeGrows ==
  ASSUME TypeOK, LoopInv, StartInv, [Next]_vars, now <= now', now' \in Nat
  PROVE  UndoTime \in Nat /\ UndoTime' \in Nat /\ UndoTime <= UndoTime'
<1>1. now \in Nat
  BY StartNumbers
<1>2. u # NoUndo => u.at \in Nat /\ u.at <= now
  <2>1. u # NoUndo => u.at \in Time
    BY ActiveUndo, UndoFields
  <2> QED
    BY <2>1 DEF StartInv, Time
<1>3. u' = u \/ u' = NoUndo \/ (u' # NoUndo /\ u = NoUndo /\ u'.at = now)
      \/ (u # NoUndo /\ u' # NoUndo /\ u'.at = u.at)
  <2>1. CASE Quiet
    BY <2>1, CommitFields, UndoFields DEF Quiet, NoUndo
  <2>2. CASE Crash
    BY <2>2 DEF Crash
  <2>3. ASSUME NEW i \in Ids, Detect(i) \/ Done(i) PROVE u' = u
    BY <2>3 DEF Detect, Done
  <2>4. ASSUME NEW i \in Ids, NEW s \in Subs, LoopStep(i, s) PROVE u' = u
    BY <2>4 DEF LoopStep
  <2>5. ASSUME NEW i \in Ids, NEW s \in Subs, NEW v \in Undos, UndoMark(i, s, v)
        PROVE  u' = NoUndo \/ (u' # NoUndo /\ u = NoUndo /\ u'.at = now)
    <3>1. u' = NoUndo \/ (u = NoUndo /\ u'.pc = "restoring" /\ u'.at = now)
      BY <2>5 DEF UndoMark
    <3> QED
      BY <3>1 DEF NoUndo
  <2> QED
    BY <2>1, <2>2, <2>3, <2>4, <2>5, Steps DEF LoopInv
<1>4. UndoTime' = IF u' = NoUndo THEN now' ELSE u'.at
  BY DEF UndoTime, NoUndo
<1> QED
  BY <1>1, <1>2, <1>3, <1>4 DEF UndoTime

\* The commit puts windows it reset, and that still run, back where they were.
LEMMA CommitMoves ==
  ASSUME TypeOK, LoopInv, StartInv, Commit
  PROVE  LET tg == mem[u.id].targets[u.sub]
             D  == mem[u.id].dims
         IN /\ tg.status = "succeeded" /\ busy = {} /\ ("daily" \notin Dims => Running(tg, D, u.at) # {})
            /\ \A d \in Running(tg, D, u.at) :
                 d \in D /\ d \in Long /\ row[u.sub].start[d] = tg.after.start[d]
            /\ \A d \in Long :
                 row'[u.sub].start[d] = IF d \in Running(tg, D, u.at) THEN tg.before.start[d]
                                        ELSE row[u.sub].start[d]
            /\ \A t \in Subs : t # u.sub => row'[t] = row[t]
            /\ mem' = mem /\ busy' = busy /\ now' = now
<1> DEFINE tg == mem[u.id].targets[u.sub]
           D  == mem[u.id].dims
           R  == Running(tg, D, u.at)
           P  == Plan(row[u.sub], tg, D, u.at)
<1>1. /\ u \in UndoType /\ ~Refused(row[u.sub], tg, D, u.at)
      /\ row'[u.sub] = Restored(row[u.sub], tg, P)
      /\ \A t \in Subs : t # u.sub => row'[t] = row[t]
  BY CommitFields
<1>2. u.id \in Ids /\ u.sub \in Subs /\ u # NoUndo
  BY <1>1, UndoFields
<1>3. D \subseteq Dims /\ tg \in Target /\ row[u.sub] \in Row
  BY <1>2, StateParts, EventFields
<1>4. tg.status = "succeeded" /\ busy = {}
  BY <1>2 DEF LoopInv, Exclusive
<1>5. R \subseteq P /\ P \subseteq R \cup (D \cap {"daily"})
  BY DEF Plan, RestoresDaily
<1>6. /\ "daily" \notin Dims => R # {}
      /\ \A d \in R : row[u.sub].start[d] = tg.after.start[d]
  BY <1>1, <1>3, <1>5 DEF Refused
<1>7. \A d \in R : d \in D /\ d \in Long
  BY <1>3 DEF Running, Long
<1> HIDE DEF R
<1>8. \A d \in Long : row'[u.sub].start[d] = IF d \in R THEN tg.before.start[d]
                                             ELSE row[u.sub].start[d]
  <2> HIDE DEF P, tg, D
  <2>0. \A d \in Long : d \in Dims /\ (d \in P <=> d \in R)
    BY <1>5 DEF Long
  <2>1. \A d \in Long : Restored(row[u.sub], tg, P).start[d] =
                          IF d \in P THEN tg.before.start[d] ELSE row[u.sub].start[d]
    BY <1>3, <2>0, RestoredType
  <2> QED
    BY <1>1, <2>0, <2>1
<1> QED
  BY <1>1, <1>4, <1>6, <1>7, <1>8 DEF Commit, events, R

\* The part of StartInv about one target.
StartOf(i, s, d) ==
  LET tg == mem[i].targets[s] IN
  /\ tg.after.start[d] <= now
  /\ tg.status = "succeeded" /\ d \in mem[i].dims => tg.before.start[d] < tg.after.start[d]
  /\ i \in busy /\ tg.status = "resetting" => tg.before.start[d] <= row[s].start[d]

LEMMA StartOfAll ==
  StartInv <=> /\ \A s \in Subs, d \in Long : row[s].start[d] <= now
               /\ \A i \in Ids, s \in Subs, d \in Long : StartOf(i, s, d)
               /\ u # NoUndo => u.at <= now
BY DEF StartInv, StartOf

\* A target whose record stays, when no window goes back.
LEMMA StartOfSame ==
  ASSUME TypeOK, StartInv, NEW i \in Ids, NEW s \in Subs, NEW d \in Long,
         SameRecord(mem, mem', i, s), now <= now', now' \in Nat,
         i \in busy' => i \in busy /\ row'[s].start[d] \in {row[s].start[d], now'}
  PROVE  StartOf(i, s, d)'
<1>1. StartOf(i, s, d) /\ row[s].start[d] <= now
  BY StartOfAll
<1>2. /\ now \in Nat /\ mem[i].targets[s].after.start[d] \in Nat
      /\ mem[i].targets[s].before.start[d] \in Nat /\ row[s].start[d] \in Nat
  BY StartNumbers
<1> QED
  BY <1>1, <1>2 DEF StartOf, SameRecord

LEMMA NoCommit ==
  ASSUME TypeOK, applied' = applied
  PROVE  ~Commit
<1> SUFFICES ASSUME Commit PROVE FALSE
  OBVIOUS
<1> DEFINE c == <<u.id, u.sub>>
<1>1. u \in UndoType /\ applied'[c] = applied[c] + 1
  BY CommitFields
<1>2. c \in Ids \X Subs
  BY <1>1, UndoFields
<1>3. applied[c] \in Nat
  BY <1>2, StateParts
<1> QED
  BY <1>1, <1>3

LEMMA StartKept == TypeOK /\ LoopInv /\ StartInv /\ [Next]_vars => StartInv'
<1> SUFFICES ASSUME TypeOK, LoopInv, StartInv, [Next]_vars
             PROVE  StartInv'
  OBVIOUS
<1> DEFINE Targets == \A i \in Ids, s \in Subs, d \in Long : StartOf(i, s, d)
           Rows == \A s \in Subs, d \in Long : row[s].start[d] <= now
           Undo == u # NoUndo => u.at <= now
<1>0. Targets /\ Rows /\ Undo
  BY StartOfAll
<1> SUFFICES Targets' /\ Rows' /\ Undo'
  <2>1. StartInv' <=> Targets' /\ Rows' /\ Undo'
    BY StartOfAll, PTL
  <2> QED
    BY <2>1
<1>1. now' \in Nat /\ now <= now' /\ (~Commit => \A s \in Subs, d \in Long :
                                        row'[s].start[d] \in {row[s].start[d], now'})
  <2>1. CASE Commit
    <3>1. now' = now
      BY <2>1 DEF Commit
    <3> QED
      BY <2>1, <3>1, StartNumbers
  <2>2. CASE ~Commit
    BY <2>2, RowMoves
  <2> QED
    BY <2>1, <2>2
<1>2. \A s \in Subs, d \in Long : row[s].start[d] \in Nat /\ row[s].start[d] <= now
  BY <1>0, StartNumbers
<1>3. Undo'
  <2>2. u' = u \/ u' = NoUndo \/ (u' # NoUndo /\ u'.at = now) \/ (u # NoUndo /\ u'.at = u.at)
    <3>1. CASE Quiet
      BY <3>1, CommitFields, UndoFields DEF Quiet
    <3>2. CASE Crash
      BY <3>2 DEF Crash
    <3>3. ASSUME NEW i \in Ids, Detect(i) \/ Done(i) PROVE u' = u
      BY <3>3 DEF Detect, Done
    <3>4. ASSUME NEW i \in Ids, NEW s \in Subs, LoopStep(i, s) PROVE u' = u
      BY <3>4 DEF LoopStep
    <3>5. ASSUME NEW i \in Ids, NEW s \in Subs, NEW v \in Undos, UndoMark(i, s, v)
          PROVE  u' = NoUndo \/ (u' # NoUndo /\ u'.at = now)
      <4>1. u' = NoUndo \/ (u'.pc = "restoring" /\ u'.at = now)
        BY <3>5 DEF UndoMark
      <4> QED
        BY <4>1 DEF NoUndo
    <3> QED
      BY <3>1, <3>2, <3>3, <3>4, <3>5, Steps DEF LoopInv
  <2>3. u # NoUndo => u.at \in Nat
    <3>1. u # NoUndo => u.at \in Time
      BY ActiveUndo, UndoFields
    <3> QED
      BY <3>1 DEF Time
  <2> QED
    BY <1>0, <1>1, <2>2, <2>3, StartNumbers DEF NoUndo
<1>4. CASE Commit
  <2> DEFINE tg == mem[u.id].targets[u.sub]
             D  == mem[u.id].dims
             R  == Running(tg, D, u.at)
  <2>1. /\ tg.status = "succeeded" /\ busy = {} /\ \A d \in R : d \in D /\ d \in Long
        /\ \A d \in Long : row'[u.sub].start[d] = IF d \in R THEN tg.before.start[d]
                                                  ELSE row[u.sub].start[d]
        /\ \A t \in Subs : t # u.sub => row'[t] = row[t]
        /\ mem' = mem /\ busy' = busy /\ now' = now
    BY <1>4, CommitMoves
  <2>2. u.id \in Ids /\ u.sub \in Subs
    BY <1>4, CommitFields, UndoFields
  <2>3. Targets'
    <3> SUFFICES ASSUME NEW i \in Ids, NEW s \in Subs, NEW d \in Long PROVE StartOf(i, s, d)'
      OBVIOUS
    <3> QED
      BY <1>0, <2>1 DEF StartOf
  <2>4. ASSUME NEW d \in Long PROVE row'[u.sub].start[d] <= now
    <3>1. StartOf(u.id, u.sub, d) /\ row[u.sub].start[d] <= now
      BY <1>0, <2>2
    <3>2. tg.before.start[d] \in Nat /\ tg.after.start[d] \in Nat /\ now \in Nat
      BY <2>2, StartNumbers
    <3>3. d \in R => tg.before.start[d] <= now
      BY <2>1, <3>1, <3>2 DEF StartOf
    <3> HIDE DEF R, tg
    <3> QED
      BY <2>1, <3>1, <3>3
  <2>5. Rows'
    <3> SUFFICES ASSUME NEW s \in Subs, NEW d \in Long PROVE row'[s].start[d] <= now'
      OBVIOUS
    <3> QED
      BY <1>2, <2>1, <2>4
  <2> QED
    BY <1>3, <2>3, <2>5
<1>5. ASSUME ~Commit PROVE Rows'
  BY <1>1, <1>2, <1>5, StartNumbers
<1>6. ASSUME ~Commit, NEW i \in Ids, NEW s \in Subs, SameRecord(mem, mem', i, s),
             i \in busy' => i \in busy, NEW d \in Long
      PROVE  StartOf(i, s, d)'
  BY <1>1, <1>6, StartOfSame
<1>7. CASE Quiet /\ ~Commit
  BY <1>3, <1>5, <1>6, <1>7 DEF Quiet, SameRecord
<1>8. CASE Crash
  <2>1. mem' = disk /\ busy' = {} /\ ~Commit
    BY <1>8 DEF Crash, Commit, NoUndo
  <2>2. \A i \in Ids, s \in Subs : SameRecord(mem, mem', i, s)
    BY <2>1 DEF LoopInv, SameLoop, SameRecord
  <2> QED
    BY <1>3, <1>5, <1>6, <2>1, <2>2
<1>9. ASSUME NEW i \in Ids, Detect(i) PROVE Targets' /\ Rows' /\ Undo'
  <2>1. /\ mem[i].undo = "none" /\ \A j \in Ids : j # i => mem'[j] = mem[j]
        /\ mem'[i].targets = mem[i].targets /\ busy' = busy \cup {i} /\ ~Commit /\ now' = now
    BY <1>9, DetectFields DEF Detect, Commit, NoUndo
  <2>2. \A s \in Subs : mem[i].targets[s].status = "pending"
    BY <2>1 DEF LoopInv, Detected
  <2>3. ASSUME NEW s \in Subs, NEW d \in Long PROVE StartOf(i, s, d)'
    BY <1>0, <2>1, <2>2 DEF StartOf
  <2>4. ASSUME NEW j \in Ids, NEW s \in Subs, NEW d \in Long, j # i PROVE StartOf(j, s, d)'
    <3>1. SameRecord(mem, mem', j, s) /\ (j \in busy' => j \in busy)
      BY <2>1, <2>4 DEF SameRecord
    <3> QED
      BY <1>6, <2>1, <3>1
  <2> QED
    BY <1>3, <1>5, <2>1, <2>3, <2>4
<1>10. ASSUME NEW i \in Ids, Done(i) PROVE Targets' /\ Rows' /\ Undo'
  <2>1. busy' = busy \ {i} /\ mem' = mem /\ ~Commit
    BY <1>10 DEF Done, events, Commit
  <2> QED
    BY <1>3, <1>5, <1>6, <2>1 DEF SameRecord
<1>11. ASSUME NEW i \in Ids, NEW s \in Subs, LoopStep(i, s)
       PROVE  Targets' /\ Rows' /\ Undo'
  <2> DEFINE new == mem'[i].targets[s]
             old == mem[i].targets[s]
  <2>1. /\ OnlyTarget(mem, mem', i, s, new) /\ busy' = busy /\ now' = now /\ ~Commit
    BY <1>11, NoCommit DEF LoopStep
  <2>2. ASSUME NEW j \in Ids, NEW t \in Subs, j # i \/ t # s, NEW d \in Long
        PROVE  StartOf(j, t, d)'
    <3>1. SameRecord(mem, mem', j, t)
      BY <2>1, <2>2 DEF OnlyTarget, SameRecord
    <3> QED
      BY <1>6, <2>1, <3>1
  <2>3. ASSUME NEW d \in Long PROVE StartOf(i, s, d)'
    <3>1. /\ StartOf(i, s, d) /\ row[s].start[d] \in Nat /\ row[s].start[d] <= now
          /\ old.before.start[d] \in Nat /\ old.after.start[d] \in Nat /\ now \in Nat
          /\ mem'[i].dims = mem[i].dims
      BY <1>0, <1>2, <2>1, StartNumbers DEF OnlyTarget
    <3>2. CASE Capture(i, s)
      <4>1. /\ new.status = "resetting" /\ new.before = row[s] /\ new.after = old.after
            /\ row' = row
        BY <3>2, CaptureFields DEF Capture
      <4> HIDE DEF new
      <4>2. StartOf(i, s, d)' <=>
              /\ new.after.start[d] <= now'
              /\ new.status = "succeeded" /\ d \in mem'[i].dims
                   => new.before.start[d] < new.after.start[d]
              /\ i \in busy' /\ new.status = "resetting"
                   => new.before.start[d] <= row'[s].start[d]
        BY DEF StartOf, new
      <4> QED
        BY <2>1, <3>1, <4>1, <4>2 DEF StartOf
    <3>3. CASE ResetTarget(i, s)
      <4>1. /\ old.status = "resetting" /\ new.status = "succeeded" /\ new.before = old.before
            /\ new.after = row'[s] /\ row'[s] = ResetRow(row[s], mem[i].dims, now)
            /\ i \in busy /\ Movable(s)
        BY <3>3, ResetFields DEF ResetTarget
      <4>2. row[s] \in Row /\ now \in Time
        BY StateParts
      <4>3. row'[s].start[d] = IF d \in mem[i].dims THEN now ELSE row[s].start[d]
        BY <4>1, <4>2, ResetStart
      <4>4. row[s].start[d] < now
        BY <4>1 DEF Movable, Long
      <4>5. old.before.start[d] <= row[s].start[d]
        BY <3>1, <4>1 DEF StartOf
      <4> HIDE DEF new
      <4>6. StartOf(i, s, d)' <=>
              /\ new.after.start[d] <= now'
              /\ new.status = "succeeded" /\ d \in mem'[i].dims
                   => new.before.start[d] < new.after.start[d]
              /\ i \in busy' /\ new.status = "resetting"
                   => new.before.start[d] <= row'[s].start[d]
        BY DEF StartOf, new
      <4> QED
        BY <2>1, <3>1, <4>1, <4>3, <4>4, <4>5, <4>6
    <3>4. CASE TargetFails(i, s)
      <4>1. new.status = "failed" /\ new.after = old.after
        BY <3>4, FailsFields
      <4> QED
        BY <2>1, <3>1, <4>1 DEF StartOf
    <3> QED
      BY <1>11, <3>2, <3>3, <3>4 DEF LoopStep
  <2> QED
    BY <1>3, <1>5, <2>1, <2>2, <2>3
<1>12. ASSUME NEW i \in Ids, NEW s \in Subs, NEW v \in Undos, UndoMark(i, s, v)
       PROVE  Targets' /\ Rows' /\ Undo'
  <2>1. SameReset(mem, mem', i) /\ busy' = busy /\ ~Commit
    BY <1>12, NoCommit DEF UndoMark, MarkStep, MarkedIn
  <2>2. \A j \in Ids, t \in Subs : SameRecord(mem, mem', j, t)
    BY <2>1 DEF SameReset, SameRecord
  <2> QED
    BY <1>3, <1>5, <1>6, <2>1, <2>2
<1> QED
  BY <1>3, <1>4, <1>7, <1>8, <1>9, <1>10, <1>11, <1>12, Steps DEF LoopInv

Once(i, s) ==
  LET tg == mem[i].targets[s] IN
  applied[<<i, s>>] > 0 =>
    /\ applied[<<i, s>>] = 1 /\ tg.status = "succeeded"
    /\ \A d \in Running(tg, mem[i].dims, UndoTime) : NoReturn(s, d, tg.after.start[d])

\* The windows that would still run only become fewer.
LEMMA RunningShrinks ==
  ASSUME NEW tg \in Target, NEW D \in SUBSET Dims,
         NEW t1 \in Nat, NEW t2 \in Nat, t1 <= t2
  PROVE  Running(tg, D, t2) \subseteq Running(tg, D, t1)
<1>1. ASSUME NEW d \in D \ {"daily"}
      PROVE  tg.before.start[d] \in Nat /\ Length[d] \in Nat
  <2>1. d \in Dims \ {"daily"} /\ tg.before \in Row
    BY TargetFields
  <2> QED
    BY <2>1, RowFields, LengthType
<1> QED
  BY <1>1 DEF Running

\* A step that takes nothing back keeps OnceInv for a target whose record stays
\* when no start comes back that could not before.
LEMMA OnceSame ==
  ASSUME TypeOK, OnceInv, NEW i \in Ids, NEW s \in Subs,
         applied'[<<i, s>>] = applied[<<i, s>>],
         UndoTime \in Nat, UndoTime' \in Nat, UndoTime <= UndoTime',
         applied[<<i, s>>] > 0 => SameRecord(mem, mem', i, s),
         \A d \in Long, a \in Time :
           /\ a = mem[i].targets[s].after.start[d] /\ mem[i].targets[s].status = "succeeded"
           /\ NoReturn(s, d, a)
           => NoReturn(s, d, a)'
  PROVE  Once(i, s)'
<1> SUFFICES ASSUME applied[<<i, s>>] > 0 PROVE Once(i, s)'
  BY DEF Once
<1> DEFINE tg == mem[i].targets[s]
           D  == mem[i].dims
           tg2 == mem'[i].targets[s]
           D2  == mem'[i].dims
           R2 == Running(tg2, D2, UndoTime')
           Gone(d) == NoReturn(s, d, mem[i].targets[s].after.start[d])
<1>1. /\ applied[<<i, s>>] = 1 /\ tg.status = "succeeded"
      /\ \A d \in Running(tg, D, UndoTime) : NoReturn(s, d, tg.after.start[d])
  BY DEF OnceInv
<1>2. D2 = D /\ tg2.status = tg.status /\ tg2.before = tg.before /\ tg2.after = tg.after
  BY DEF SameRecord
<1>3. tg \in Target /\ D \in SUBSET Dims
  BY StateParts, EventFields
<1>4. Running(tg, D, UndoTime') \subseteq Running(tg, D, UndoTime)
  BY <1>3, RunningShrinks
<1>5. R2 = Running(tg, D, UndoTime')
  BY <1>2 DEF Running
<1> HIDE DEF R2
<1>6. ASSUME NEW d \in R2 PROVE Gone(d)'
  <2>1. d \in Long /\ d \in Running(tg, D, UndoTime)
    BY <1>3, <1>4, <1>5, <1>6 DEF Running, Long
  <2>2. PICK a \in Time : a = tg.after.start[d]
    BY <2>1, StartNumbers
  <2>3. NoReturn(s, d, a)
    BY <1>1, <2>1, <2>2
  <2>4. NoReturn(s, d, a)'
    BY <1>1, <2>1, <2>2, <2>3
  <2>5. a = tg2.after.start[d]
    BY <1>2, <2>2
  <2> QED
    BY <2>4, <2>5 DEF NoReturn
<1>7. Once(i, s)' <=> (applied'[<<i, s>>] > 0 =>
        /\ applied'[<<i, s>>] = 1 /\ tg2.status = "succeeded"
        /\ \A d \in R2 : Gone(d)')
  BY DEF Once, R2, Running, UndoTime
<1> QED
  BY <1>1, <1>2, <1>6, <1>7

\* Before a reset now, the time m can be taken before now.
LEMMA MovableBar ==
  ASSUME TypeOK, NEW s \in Subs, Movable(s), NEW d \in Long,
         NEW a \in Time, a < now, NoReturn(s, d, a)
  PROVE  \E m \in Time : /\ a <= m /\ m < now /\ Off(row[s].start[d], a, m)
                         /\ Barred(mem, busy, s, d, a, m)
<1>1. PICK m \in Time : /\ a <= m /\ m <= now /\ Off(row[s].start[d], a, m)
                        /\ Barred(mem, busy, s, d, a, m)
  BY DEF NoReturn
<1>2. now \in Nat /\ m \in Nat /\ a \in Nat /\ now \in Time
  BY StartNumbers, StateParts DEF Time
<1>3. CASE m < now
  BY <1>1, <1>3
<1>4. CASE m = now
  <2> DEFINE m1 == now - 1
  <2>1. m1 \in Time /\ m1 \in Nat /\ a <= m1 /\ m1 < now
    BY <1>2, ConstantTypes DEF Time
  <2>2. ASSUME NEW v \in Nat, Off(v, a, m) PROVE Off(v, a, m1)
    BY <1>2, <1>4, <2>2 DEF Off
  <2>3. row[s].start[d] \in Nat
    BY StartNumbers
  <2>4. \A k \in Ids : /\ mem[k].targets[s].after.start[d] < now
                       /\ mem[k].targets[s].after.start[d] \in Nat
                       /\ mem[k].targets[s].before.start[d] \in Nat
    BY StartNumbers DEF Movable, Long
  <2>5. \A k \in Ids : mem[k].targets[s].after.start[d] <= m1
    BY <1>2, <2>4
  <2> HIDE DEF m1
  <2>6. Barred(mem, busy, s, d, a, m1)
    BY <1>1, <2>2, <2>4, <2>5 DEF Barred
  <2> QED
    BY <1>1, <2>1, <2>2, <2>3, <2>6
<1> QED
  BY <1>1, <1>2, <1>3, <1>4

LEMMA BarSame ==
  ASSUME NEW s \in Subs, NEW d, NEW a, NEW m,
         \A k \in Ids : SameRecord(mem, mem', k, s), busy' \subseteq busy,
         Barred(mem, busy, s, d, a, m)
  PROVE  Barred(mem', busy', s, d, a, m)
BY DEF Barred, SameRecord

\* No start comes back in a step that moves windows to now at the most, when the
\* reset of the subscription is not among them.
LEMMA BarStays ==
  ASSUME TypeOK, NEW s \in Subs, NEW d \in Long, NEW a \in Time, NoReturn(s, d, a),
         now' \in Nat, now <= now',
         \/ row'[s].start[d] = row[s].start[d]
         \/ row'[s].start[d] = now' /\ now' = now + 1,
         \A m \in Time : Off(row[s].start[d], a, m) /\ Barred(mem, busy, s, d, a, m)
                           => Barred(mem', busy', s, d, a, m)
  PROVE  NoReturn(s, d, a)'
<1>1. PICK m \in Time : /\ a <= m /\ m <= now /\ Off(row[s].start[d], a, m)
                        /\ Barred(mem, busy, s, d, a, m)
  BY DEF NoReturn
<1>2. now \in Nat /\ m \in Nat /\ a \in Nat
  BY StartNumbers DEF Time
<1>3. Off(row'[s].start[d], a, m)
  BY <1>1, <1>2 DEF Off
<1>4. m <= now' /\ Barred(mem', busy', s, d, a, m)
  BY <1>1, <1>2
<1> QED
  BY <1>1, <1>3, <1>4 DEF NoReturn

\* A reset of the subscription moves windows to now; afterwards none of the
\* earlier starts, which no undo could reach before, is within reach.
LEMMA BarMoves ==
  ASSUME TypeOK, NEW s \in Subs, NEW d \in Long, NEW a \in Time, a < now,
         NoReturn(s, d, a), Movable(s), now' = now,
         row'[s].start[d] \in {row[s].start[d], now},
         \A m \in Time : m < now /\ Barred(mem, busy, s, d, a, m)
                           => Barred(mem', busy', s, d, a, m)
  PROVE  NoReturn(s, d, a)'
<1>1. PICK m \in Time : /\ a <= m /\ m < now /\ Off(row[s].start[d], a, m)
                        /\ Barred(mem, busy, s, d, a, m)
  BY MovableBar
<1>2. now \in Nat /\ m \in Nat /\ a \in Nat
  BY StartNumbers DEF Time
<1>3. Off(row'[s].start[d], a, m)
  BY <1>1, <1>2 DEF Off
<1>4. m <= now' /\ Barred(mem', busy', s, d, a, m)
  BY <1>1, <1>2
<1> QED
  BY <1>1, <1>3, <1>4 DEF NoReturn

\* Steps that leave the records alone.
LEMMA QuietKeepsBar ==
  ASSUME TypeOK, StartInv, Quiet, ~Commit,
         NEW i \in Ids, NEW s \in Subs, NEW d \in Long, NEW a \in Time, NoReturn(s, d, a),
         a = mem[i].targets[s].after.start[d]
  PROVE  NoReturn(s, d, a)'
<1>1. mem' = mem /\ busy' = busy
  BY DEF Quiet
<1>2. \A m \in Time : Barred(mem, busy, s, d, a, m) => Barred(mem', busy', s, d, a, m)
  BY <1>1
<1>3. now \in Nat
  BY StartNumbers
<1>4. CASE Tick
  <2>1. now' = now + 1 /\ row'[s].start[d] \in {row[s].start[d], now'}
    BY <1>4, TickFields, ResetStart, StateParts
  <2>2. now' \in Nat /\ now <= now'
    BY <1>3, <2>1
  <2> QED
    BY <1>2, <2>1, <2>2, BarStays
<1>5. CASE UNCHANGED <<now, row>> \/ \E t \in Subs : Spend(t)
  <2>1. now' = now /\ row'[s].start[d] = row[s].start[d]
    BY <1>5, SpendFields DEF Spend
  <2> QED
    BY <1>2, <1>3, <2>1, BarStays
<1>6. ASSUME NEW t \in Subs, OtherReset(t), t # s PROVE NoReturn(s, d, a)'
  <2>1. now' = now /\ row'[s].start[d] = row[s].start[d]
    BY <1>6, OtherFields DEF OtherReset
  <2> QED
    BY <1>2, <1>3, <2>1, BarStays
<1>7. CASE OtherReset(s)
  <2>1. now' = now /\ Movable(s)
    BY <1>7 DEF OtherReset
  <2>2. row'[s].start[d] \in {row[s].start[d], now}
    BY <1>7, OtherFields, ResetStart, StateParts
  <2>3. a < now
    BY <2>1 DEF Movable, Long
  <2> QED
    BY <1>2, <2>1, <2>2, <2>3, BarMoves
<1> QED
  BY <1>4, <1>5, <1>6, <1>7 DEF Quiet

\* The work on a target of the same subscription.
LEMMA LoopKeepsBar ==
  ASSUME TypeOK, StartInv, NEW j \in Ids, NEW t \in Subs, LoopStep(j, t),
         NEW i \in Ids, NEW s \in Subs, NEW d \in Long, NEW a \in Time, NoReturn(s, d, a),
         a = mem[i].targets[s].after.start[d], mem[i].targets[s].status = "succeeded"
  PROVE  NoReturn(s, d, a)'
<1> DEFINE new == mem'[j].targets[t]
           old == mem[j].targets[t]
<1>1. /\ OnlyTarget(mem, mem', j, t, new) /\ busy' = busy /\ now' = now
      /\ Capture(j, t) \/ ResetTarget(j, t) \/ TargetFails(j, t)
  BY DEF LoopStep
<1>2. now \in Nat
  BY StartNumbers
<1>3. \A k \in Ids, r \in Subs : k # j \/ r # t => SameRecord(mem, mem', k, r)
  BY <1>1 DEF OnlyTarget, SameRecord
<1>4. CASE s # t
  <2>1. row'[s] = row[s]
    <3>1. CASE Capture(j, t) \/ TargetFails(j, t)
      BY <3>1 DEF Capture, TargetFails
    <3>2. CASE ResetTarget(j, t)
      <4>1. \A r \in Subs : r # t => row'[r] = row[r]
        BY <3>2, ResetFields
      <4> QED
        BY <1>4, <4>1
    <3> QED
      BY <1>1, <3>1, <3>2
  <2>2. \A m \in Time : Barred(mem, busy, s, d, a, m) => Barred(mem', busy', s, d, a, m)
    BY <1>1, <1>3, <1>4, BarSame
  <2> QED
    BY <1>1, <1>2, <2>1, <2>2, BarStays
<1> DEFINE Rest(m) == \A k \in Ids \ {j} :
             LET tg == mem'[k].targets[s] IN
             d \in mem'[k].dims =>
               /\ tg.status = "succeeded" => tg.after.start[d] <= m \/ Off(tg.before.start[d], a, m)
               /\ k \in busy' /\ tg.status = "resetting" => Off(tg.before.start[d], a, m)
           Own(m) ==
             d \in mem'[j].dims =>
               /\ new.status = "succeeded" => new.after.start[d] <= m \/ Off(new.before.start[d], a, m)
               /\ j \in busy' /\ new.status = "resetting" => Off(new.before.start[d], a, m)
<1>5. ASSUME NEW m \in Time, Barred(mem, busy, s, d, a, m) PROVE Rest(m)
  BY <1>1, <1>3, <1>5 DEF Barred, SameRecord
<1>6. ASSUME s = t, NEW m, Rest(m), Own(m) PROVE Barred(mem', busy', s, d, a, m)
  BY <1>6 DEF Barred
<1>7. mem'[j].dims = mem[j].dims
  BY <1>1 DEF OnlyTarget
<1>8. CASE s = t /\ Capture(j, t)
  <2>1. new.status = "resetting" /\ new.before = row[s] /\ row' = row
    <3>1. new.status = "resetting" /\ new.before = row[t] /\ row' = row
      BY <1>8, CaptureFields DEF Capture
    <3> QED
      BY <1>8, <3>1
  <2> HIDE DEF new
  <2>2. ASSUME NEW m \in Time, Off(row[s].start[d], a, m), Barred(mem, busy, s, d, a, m)
        PROVE  Barred(mem', busy', s, d, a, m)
    <3>1. Own(m)
      BY <2>1, <2>2
    <3> QED
      BY <1>5, <1>6, <1>8, <2>2, <3>1
  <2> QED
    BY <1>1, <1>2, <2>1, <2>2, BarStays
<1>9. CASE s = t /\ TargetFails(j, t)
  <2>1. new.status = "failed" /\ row' = row
    BY <1>9, FailsFields DEF TargetFails
  <2> HIDE DEF new
  <2>2. ASSUME NEW m \in Time, Barred(mem, busy, s, d, a, m)
        PROVE  Barred(mem', busy', s, d, a, m)
    <3>1. Own(m)
      BY <2>1
    <3> QED
      BY <1>5, <1>6, <1>9, <2>2, <3>1
  <2> QED
    BY <1>1, <1>2, <2>1, <2>2, BarStays
<1>10. CASE s = t /\ ResetTarget(j, t)
  <2>1. /\ old.status = "resetting" /\ new.status = "succeeded" /\ new.before = old.before
        /\ row'[s] = ResetRow(row[s], mem[j].dims, now) /\ j \in busy /\ Movable(s)
    BY <1>10, ResetFields DEF ResetTarget
  <2>2. row'[s].start[d] \in {row[s].start[d], now}
    <3> DEFINE D == mem[j].dims
    <3>1. row'[s] = ResetRow(row[s], D, now) /\ row[s] \in Row /\ now \in Time
      BY <2>1, StateParts
    <3> HIDE DEF D
    <3> QED
      BY <3>1, ResetStart
  <2>3. a < now
    BY <2>1 DEF Movable, Long
  <2>4. ASSUME NEW m \in Time, Barred(mem, busy, s, d, a, m)
        PROVE  Barred(mem', busy', s, d, a, m)
    <3>1. d \in mem[j].dims => Off(old.before.start[d], a, m)
      BY <1>10, <2>1, <2>4 DEF Barred
    <3> HIDE DEF new
    <3>2. Own(m)
      BY <1>7, <2>1, <3>1
    <3> QED
      BY <1>5, <1>6, <1>10, <2>4, <3>2
  <2> QED
    BY <1>1, <2>1, <2>2, <2>3, <2>4, BarMoves
<1> QED
  BY <1>1, <1>4, <1>8, <1>9, <1>10

\* The commit: a reset that was taken back is not found again, and no other one
\* that was comes within reach.
LEMMA CommitKeepsOnce ==
  ASSUME "daily" \notin Dims, TypeOK, LoopInv, StartInv, OnceInv, Commit
  PROVE  \A i \in Ids, s \in Subs : Once(i, s)'
<1> DEFINE i0 == u.id
           s0 == u.sub
           tg0 == mem[i0].targets[s0]
           D0 == mem[i0].dims
           R0 == Running(tg0, D0, u.at)
<1>1. /\ u \in UndoType /\ u' \in UndoType /\ u'.at = u.at
      /\ applied \in [Ids \X Subs -> Nat] /\ applied'[<<i0, s0>>] = applied[<<i0, s0>>] + 1
      /\ \A c \in Ids \X Subs : c # <<i0, s0>> => applied'[c] = applied[c]
  BY CommitFields, StateParts
<1>2. i0 \in Ids /\ s0 \in Subs /\ u # NoUndo /\ u' # NoUndo /\ u.at \in Nat
  <2>1. u' # NoUndo
    BY <1>1 DEF UndoType, NoUndo
  <2> QED
    BY <1>1, <2>1, UndoFields DEF Time
<1>3. /\ tg0.status = "succeeded" /\ busy = {} /\ R0 # {}
      /\ \A d \in R0 : d \in D0 /\ d \in Long /\ row[s0].start[d] = tg0.after.start[d]
      /\ \A d \in Long : row'[s0].start[d] = IF d \in R0 THEN tg0.before.start[d]
                                             ELSE row[s0].start[d]
      /\ \A t \in Subs : t # s0 => row'[t] = row[t]
      /\ mem' = mem /\ busy' = busy /\ now' = now
  BY CommitMoves
<1>4. UndoTime = u.at /\ UndoTime' = u.at
  <2>1. UndoTime' = IF u' = NoUndo THEN now' ELSE u'.at
    BY DEF UndoTime, NoUndo
  <2> QED
    BY <1>1, <1>2, <2>1 DEF UndoTime
<1>5. applied[<<i0, s0>>] = 0
  <2> SUFFICES ASSUME applied[<<i0, s0>>] > 0 PROVE FALSE
    <3>1. applied[<<i0, s0>>] \in Nat
      BY <1>1, <1>2
    <3> QED
      BY <3>1
  <2>1. PICK d \in R0 : TRUE
    BY <1>3
  <2>2. NoReturn(s0, d, tg0.after.start[d])
    BY <1>2, <1>4 DEF OnceInv
  <2>3. tg0.after.start[d] \in Nat /\ row[s0].start[d] = tg0.after.start[d]
    BY <1>2, <1>3, StartNumbers
  <2>4. PICK m \in Time : /\ tg0.after.start[d] <= m
                          /\ Off(row[s0].start[d], tg0.after.start[d], m)
    BY <2>2 DEF NoReturn
  <2>5. m \in Nat
    BY DEF Time
  <2> QED
    BY <2>3, <2>4, <2>5 DEF Off
<1>6. ASSUME NEW d \in R0, NEW a \in Time, a = tg0.after.start[d]
      PROVE  NoReturn(s0, d, a)'
  <2>1. d \in D0 /\ d \in Long /\ now \in Nat /\ now \in Time
    BY <1>3, StateParts
  <2>2. StartOf(i0, s0, d) /\ \A k \in Ids : StartOf(k, s0, d)
    BY <1>2, <2>1, StartOfAll
  <2>3. a <= now /\ tg0.before.start[d] < a
    BY <1>3, <1>6, <2>1, <2>2 DEF StartOf
  <2>4. row'[s0].start[d] = tg0.before.start[d]
    BY <1>3, <2>1
  <2> HIDE DEF R0, tg0, D0, s0, i0
  <2>5. Barred(mem', busy', s0, d, a, now)
    BY <1>3, <2>2 DEF Barred, StartOf
  <2>6. Off(row'[s0].start[d], a, now)
    BY <2>3, <2>4 DEF Off
  <2>7. s0' = s0
    BY <1>1, CommitFields DEF s0
  <2> QED
    BY <1>3, <2>1, <2>3, <2>5, <2>6, <2>7 DEF NoReturn
<1>7. ASSUME NEW d \in Long, NEW a \in Time, NEW s \in Subs, NoReturn(s, d, a)
      PROVE  NoReturn(s, d, a)'
  <2>1. PICK m \in Time : /\ a <= m /\ m <= now /\ Off(row[s].start[d], a, m)
                          /\ Barred(mem, busy, s, d, a, m)
    BY <1>7 DEF NoReturn
  <2>2. Barred(mem', busy', s, d, a, m)
    BY <1>3, <2>1
  <2>3. Off(row'[s].start[d], a, m)
    <3>1. CASE s # s0 \/ d \notin R0
      BY <1>3, <2>1, <3>1
    <3>2. CASE s = s0 /\ d \in R0
      <4>1. /\ tg0.after.start[d] <= m \/ Off(tg0.before.start[d], a, m)
            /\ row[s].start[d] = tg0.after.start[d] /\ d \in D0
            /\ row'[s].start[d] = tg0.before.start[d]
        BY <1>2, <1>3, <2>1, <3>2 DEF Barred
      <4>2. StartOf(i0, s0, d)
        BY <1>2, StartOfAll
      <4>3. tg0.before.start[d] < tg0.after.start[d]
        BY <1>3, <4>1, <4>2 DEF StartOf
      <4>4. tg0.before.start[d] \in Nat /\ tg0.after.start[d] \in Nat
        BY <1>2, StartNumbers
      <4>5. a \in Nat /\ m \in Nat
        BY DEF Time
      <4> HIDE DEF tg0, D0, R0
      <4> QED
        BY <2>1, <4>1, <4>3, <4>4, <4>5 DEF Off
    <3> QED
      BY <3>1, <3>2
  <2> QED
    BY <1>3, <2>1, <2>2, <2>3 DEF NoReturn
<1>8. ASSUME NEW i \in Ids, NEW s \in Subs, <<i, s>> # <<i0, s0>> PROVE Once(i, s)'
  <2>1. applied'[<<i, s>>] = applied[<<i, s>>]
    BY <1>1, <1>8
  <2>2. SameRecord(mem, mem', i, s)
    BY <1>3 DEF SameRecord
  <2>3. UndoTime \in Nat /\ UndoTime' \in Nat /\ UndoTime <= UndoTime'
    BY <1>2, <1>4
  <2> QED
    BY <1>7, <2>1, <2>2, <2>3, OnceSame
<1>9. ASSUME NEW i \in Ids, NEW s \in Subs, i = i0, s = s0 PROVE Once(i, s)'
  <2> DEFINE tg == mem[i].targets[s]
             Gone(d) == NoReturn(s, d, mem[i].targets[s].after.start[d])
  <2>1. applied'[<<i, s>>] = 1 /\ tg.status = "succeeded"
    BY <1>1, <1>3, <1>5, <1>9
  <2>2. ASSUME NEW d \in R0 PROVE Gone(d)'
    <3>1. PICK a \in Time : a = tg0.after.start[d]
      BY <1>2, <1>3, StartNumbers
    <3>2. NoReturn(s0, d, a)'
      BY <1>6, <3>1
    <3>3. s0' = s
      BY <1>9, CommitFields
    <3>4. a = mem'[i].targets[s].after.start[d]
      BY <1>3, <1>9, <3>1
    <3> QED
      BY <3>2, <3>3, <3>4 DEF NoReturn
  <2>3. Running(mem'[i].targets[s], mem'[i].dims, UndoTime') = R0
    BY <1>3, <1>4, <1>9 DEF Running
  <2>4. Once(i, s)' <=> (applied'[<<i, s>>] > 0 =>
          /\ applied'[<<i, s>>] = 1 /\ mem'[i].targets[s].status = "succeeded"
          /\ \A d \in Running(mem'[i].targets[s], mem'[i].dims, UndoTime') : Gone(d)')
    BY DEF Once, Running, UndoTime
  <2> QED
    BY <1>3, <2>1, <2>2, <2>3, <2>4
<1> QED
  BY <1>2, <1>8, <1>9

LEMMA OnceKept ==
  ASSUME "daily" \notin Dims
  PROVE  TypeOK /\ LoopInv /\ StartInv /\ OnceInv /\ [Next]_vars => OnceInv'
<1> SUFFICES ASSUME TypeOK, LoopInv, StartInv, OnceInv, [Next]_vars
             PROVE  \A i \in Ids, s \in Subs : Once(i, s)'
  BY DEF OnceInv, Once
<1>1. CASE Commit
  BY <1>1, CommitKeepsOnce
<1> SUFFICES ASSUME ~Commit, NEW i \in Ids, NEW s \in Subs PROVE Once(i, s)'
  BY <1>1
<1>2. /\ now' \in Nat /\ now <= now'
      /\ \A t \in Subs, d \in Long : row'[t].start[d] \in {row[t].start[d], now'}
  BY RowMoves
<1>3. UndoTime \in Nat /\ UndoTime' \in Nat /\ UndoTime <= UndoTime'
  BY <1>2, UndoTimeGrows
<1>4. applied[<<i, s>>] > 0 => mem[i].targets[s].status = "succeeded"
  BY DEF OnceInv
<1>5. now \in Nat
  BY StartNumbers
<1>6. CASE Quiet
  <2>1. SameRecord(mem, mem', i, s) /\ applied' = applied
    BY <1>6 DEF Quiet, SameRecord
  <2>2. ASSUME NEW d \in Long, NEW a \in Time, a = mem[i].targets[s].after.start[d],
               NoReturn(s, d, a)
        PROVE  NoReturn(s, d, a)'
    BY <1>6, <2>2, QuietKeepsBar
  <2> QED
    BY <1>3, <2>1, <2>2, OnceSame
<1>7. ASSUME \A k \in Ids, t \in Subs : SameRecord(mem, mem', k, t), busy' \subseteq busy,
             UNCHANGED <<now, row, applied>>
      PROVE  Once(i, s)'
  <2>1. ASSUME NEW d \in Long, NEW a \in Time, NoReturn(s, d, a)
        PROVE  NoReturn(s, d, a)'
    <3>1. \A m \in Time : Barred(mem, busy, s, d, a, m) => Barred(mem', busy', s, d, a, m)
      BY <1>7, BarSame
    <3> QED
      BY <1>5, <1>7, <2>1, <3>1, BarStays
  <2> QED
    BY <1>3, <1>7, <2>1, OnceSame
<1>8. CASE Crash
  <2>1. \A k \in Ids, t \in Subs : SameRecord(mem, mem', k, t)
    BY <1>8 DEF Crash, LoopInv, SameLoop, SameRecord
  <2> QED
    BY <1>7, <1>8, <2>1 DEF Crash
<1>9. ASSUME NEW j \in Ids, Detect(j) PROVE Once(i, s)'
  <2>1. /\ mem[j].undo = "none" /\ \A k \in Ids : k # j => mem'[k] = mem[k]
        /\ mem'[j].targets = mem[j].targets /\ busy' = busy \cup {j}
        /\ UNCHANGED <<now, row, applied>>
    BY <1>9, DetectFields DEF Detect
  <2>2. mem[j].targets[s].status = "pending"
    BY <2>1 DEF LoopInv, Detected
  <2>3. applied[<<i, s>>] > 0 => SameRecord(mem, mem', i, s)
    BY <1>4, <2>1, <2>2 DEF SameRecord
  <2>4. ASSUME NEW d \in Long, NEW a \in Time, NoReturn(s, d, a)
        PROVE  NoReturn(s, d, a)'
    <3>1. ASSUME NEW m \in Time, Barred(mem, busy, s, d, a, m)
          PROVE  Barred(mem', busy', s, d, a, m)
      BY <2>1, <2>2, <3>1 DEF Barred
    <3>2. \A m \in Time : Barred(mem, busy, s, d, a, m) => Barred(mem', busy', s, d, a, m)
      BY <3>1
    <3>3. now' \in Nat /\ now <= now' /\ row'[s].start[d] = row[s].start[d]
      BY <1>5, <2>1
    <3> QED
      BY <2>4, <3>2, <3>3, BarStays
  <2> QED
    BY <1>3, <2>1, <2>3, <2>4, OnceSame
<1>10. ASSUME NEW j \in Ids, Done(j) PROVE Once(i, s)'
  <2>1. mem' = mem /\ busy' \subseteq busy /\ UNCHANGED <<now, row, applied>>
    BY <1>10 DEF Done, events
  <2> QED
    BY <1>7, <2>1 DEF SameRecord
<1>11. ASSUME NEW j \in Ids, NEW t \in Subs, LoopStep(j, t) PROVE Once(i, s)'
  <2>1. /\ OnlyTarget(mem, mem', j, t, mem'[j].targets[t]) /\ applied' = applied
        /\ mem[j].targets[t].status # "succeeded"
    BY <1>11 DEF LoopStep
  <2>2. applied[<<i, s>>] > 0 => SameRecord(mem, mem', i, s)
    BY <1>4, <2>1 DEF SameRecord, OnlyTarget
  <2>3. ASSUME NEW d \in Long, NEW a \in Time, a = mem[i].targets[s].after.start[d],
               mem[i].targets[s].status = "succeeded", NoReturn(s, d, a)
        PROVE  NoReturn(s, d, a)'
    BY <1>11, <2>3, LoopKeepsBar
  <2> QED
    BY <1>3, <2>1, <2>2, <2>3, OnceSame
<1>12. ASSUME NEW j \in Ids, NEW t \in Subs, NEW v \in Undos, UndoMark(j, t, v)
       PROVE  Once(i, s)'
  <2>1. SameReset(mem, mem', j) /\ busy' = busy /\ UNCHANGED <<now, row, applied>>
    BY <1>12 DEF UndoMark, MarkStep, MarkedIn
  <2>2. \A k \in Ids, r \in Subs : SameRecord(mem, mem', k, r)
    BY <2>1 DEF SameReset, SameRecord
  <2> QED
    BY <1>7, <2>1, <2>2
<1> QED
  BY <1>6, <1>8, <1>9, <1>10, <1>11, <1>12, Steps DEF LoopInv

\* A reset is taken back once, the README's promise, for subscriptions without a
\* daily window: the undo finds the start its reset gave a window, and once it
\* is taken back no order of other resets and undos brings that start back,
\* even when the acknowledgement of a commit is lost or the process dies before
\* it is recorded (restore.go resolveRestoreWindows).
THEOREM TakenBackOnce ==
  ASSUME "daily" \notin Dims
  PROVE  Spec => []UndoneOnce
<1>1. Init => StartInv
  <2> SUFFICES ASSUME Init PROVE StartInv
    OBVIOUS
  <2>1. /\ now = 0 /\ busy = {} /\ u = NoUndo
        /\ \A s \in Subs : row[s] = Fresh
        /\ \A i \in Ids, s \in Subs : /\ mem[i].targets[s].status = "pending"
                                      /\ mem[i].targets[s].after = Fresh
    BY DEF Init
  <2>2. \A d \in Long : Fresh.start[d] = 0
    BY DEF Fresh, Long
  <2> QED
    BY <2>1, <2>2 DEF StartInv
<1>2. Init => OnceInv
  <2> SUFFICES ASSUME Init, NEW i \in Ids, NEW s \in Subs PROVE applied[<<i, s>>] = 0
    BY DEF OnceInv
  <2> QED
    BY DEF Init
<1>3. Spec => []LoopInv
  BY LoopInit, LoopKept, RollbackTypeCorrect, PTL DEF Spec
<1>4. TypeOK /\ LoopInv /\ StartInv /\ [Next]_vars => StartInv'
  BY StartKept
<1>5. Spec => []StartInv
  BY <1>1, <1>3, <1>4, RollbackTypeCorrect, PTL DEF Spec
<1>6. TypeOK /\ LoopInv /\ StartInv /\ OnceInv /\ [Next]_vars => OnceInv'
  BY OnceKept
<1>7. Spec => []OnceInv
  BY <1>2, <1>3, <1>5, <1>6, RollbackTypeCorrect, PTL DEF Spec
<1>8. TypeOK /\ OnceInv => UndoneOnce
  <2> SUFFICES ASSUME TypeOK, OnceInv, NEW i \in Ids, NEW s \in Subs PROVE applied[<<i, s>>] <= 1
    BY DEF UndoneOnce
  <2>1. applied[<<i, s>>] \in Nat
    BY StateParts
  <2> QED
    BY <2>1 DEF OnceInv
<1> QED
  BY <1>7, <1>8, RollbackTypeCorrect, PTL

----------------------------------------------------------------------------
(* Nobody is charged for more than was consumed.                           *)

\* Each request is stamped with the start of the window it was counted in.  The
\* requests of s stamped lo or later, and of those the ones stamped before hi.
From(s, e, lo) == {t \in spent[s] : lo <= e[t]}
Between(s, e, lo, hi) == {t \in spent[s] : lo <= e[t] /\ e[t] < hi}

\* A stamp of now is left of a window that starts now, or that was reset now.
Stamped(s, d, e) == \A t \in spent[s] :
  /\ t <= now /\ e[t] <= t
  /\ e[t] = now => \/ row[s].start[d] = now
                   \/ \E i \in Ids : mem[i].targets[s].after.start[d] = now

\* A snapshot charges for what was stamped in the windows it can put back.
Recorded(i, s, d, e) ==
  LET tg == mem[i].targets[s] IN
  /\ tg.status = "succeeded" /\ d \in mem[i].dims =>
       tg.before.use[d] <= Cardinality(Between(s, e, tg.before.start[d], tg.after.start[d]))
  /\ tg.status = "resetting" /\ i \in busy =>
       tg.before.use[d] <= Cardinality(From(s, e, tg.before.start[d]))

Counted(s, d, e) ==
  /\ Stamped(s, d, e)
  /\ row[s].use[d] <= Cardinality(From(s, e, row[s].start[d]))
  /\ \A i \in Ids : Recorded(i, s, d, e)

CountInv == \A s \in Subs, d \in Long : \E e \in [Time -> Time] : Counted(s, d, e)

\* Counting subsets of the requests of a subscription.
LEMMA SpentFinite ==
  ASSUME TypeOK, NEW s \in Subs, NEW T \in SUBSET spent[s]
  PROVE  IsFiniteSet(T) /\ Cardinality(T) \in Nat
<1>1. IsFiniteSet(Time)
  BY ConstantTypes, FS_Interval DEF Time
<1>2. T \in SUBSET Time
  BY DEF TypeOK
<1>3. IsFiniteSet(T)
  BY <1>1, <1>2, FS_Subset
<1> QED
  BY <1>3, FS_CardinalityType

LEMMA FromTypes ==
  ASSUME TypeOK, NEW s \in Subs, NEW e, NEW lo, NEW hi
  PROVE  /\ IsFiniteSet(From(s, e, lo)) /\ Cardinality(From(s, e, lo)) \in Nat
         /\ IsFiniteSet(Between(s, e, lo, hi)) /\ Cardinality(Between(s, e, lo, hi)) \in Nat
<1>1. From(s, e, lo) \in SUBSET spent[s] /\ Between(s, e, lo, hi) \in SUBSET spent[s]
  BY DEF From, Between
<1> QED
  BY <1>1, SpentFinite

LEMMA UseNumbers ==
  ASSUME TypeOK, NEW s \in Subs, NEW d \in Long
  PROVE  /\ row[s].use[d] \in Nat
         /\ \A i \in Ids : /\ mem[i].targets[s].before.use[d] \in Nat
                           /\ disk[i].targets[s].before.use[d] \in Nat
<1>1. ASSUME NEW i \in Ids
      PROVE  /\ mem[i].targets[s].before.use[d] \in Nat
             /\ disk[i].targets[s].before.use[d] \in Nat
  <2>1. mem[i].targets[s] \in Target /\ disk[i].targets[s] \in Target
    BY StateParts
  <2>2. mem[i].targets[s].before \in Row /\ disk[i].targets[s].before \in Row
    BY <2>1, TargetFields
  <2> QED
    BY <2>2, RowFields DEF Long
<1> QED
  BY <1>1, StateParts, RowFields DEF Long

LEMMA ResetUse ==
  ASSUME NEW r \in Row, NEW D, NEW t \in Time, NEW d \in Dims
  PROVE  ResetRow(r, D, t).use[d] = IF d \in D THEN 0 ELSE r.use[d]
<1> DEFINE uses == [k \in Dims |-> IF k \in D THEN 0 ELSE r.use[k]]
<1>1. ResetRow(r, D, t).use = uses
  BY DEF ResetRow
<1>2. uses[d] = IF d \in D THEN 0 ELSE r.use[d]
  OBVIOUS
<1> QED
  BY <1>1, <1>2

LEMMA SpendUse ==
  ASSUME TypeOK, NEW s \in Subs, Spend(s), NEW d \in Dims
  PROVE  row'[s].use[d] = row[s].use[d] + 1
<1> DEFINE uses == [k \in Dims |-> row[s].use[k] + 1]
           r == [row[s] EXCEPT !.use = uses]
<1>1. row \in [Subs -> Row] /\ row[s] \in Row
  BY StateParts
<1>2. uses[d] = row[s].use[d] + 1
  OBVIOUS
<1>3. row' = [row EXCEPT ![s] = r]
  BY DEF Spend
<1> HIDE DEF uses
<1>4. r.use = uses
  BY <1>1 DEF Row
<1> HIDE DEF r
<1>5. row'[s] = r
  BY <1>1, <1>3
<1> QED
  BY <1>2, <1>4, <1>5

\* A record that stays, or a target that was not worked on.
StillRecorded(k, s) ==
  \/ SameRecord(mem, mem', k, s)
  \/ mem'[k].targets[s] = mem[k].targets[s] /\ mem[k].targets[s].status = "pending"

\* Steps in which s consumes nothing and the window keeps its count, or starts
\* afresh now.
LEMMA CountSame ==
  ASSUME TypeOK, NEW s \in Subs, NEW d \in Long, NEW e \in [Time -> Time], Counted(s, d, e),
         spent'[s] = spent[s], now' = now \/ now' = now + 1,
         \A k \in Ids : StillRecorded(k, s), busy' \subseteq busy,
         \/ row'[s].use[d] = row[s].use[d] /\ row'[s].start[d] = row[s].start[d]
         \/ row'[s].use[d] = 0 /\ row'[s].start[d] = now'
  PROVE  Counted(s, d, e)'
<1>1. spent[s] \subseteq Time /\ \A t \in spent[s] : t \in Nat /\ e[t] \in Nat
  BY DEF TypeOK, Time
<1>2. now \in Nat
  BY StartNumbers
<1>3. Stamped(s, d, e)'
  <2>1. \A k \in Ids : mem'[k].targets[s].after = mem[k].targets[s].after
    BY DEF StillRecorded, SameRecord
  <2> SUFFICES ASSUME NEW t \in spent[s]
               PROVE  /\ t <= now' /\ e[t] <= t
                      /\ e[t] = now' => \/ row'[s].start[d] = now'
                                        \/ \E i \in Ids : mem'[i].targets[s].after.start[d] = now'
    BY DEF Stamped
  <2>2. /\ t <= now /\ e[t] <= t /\ t \in Nat /\ e[t] \in Nat
        /\ e[t] = now => \/ row[s].start[d] = now
                         \/ \E i \in Ids : mem[i].targets[s].after.start[d] = now
    BY <1>1 DEF Counted, Stamped
  <2>3. CASE now' = now
    BY <2>1, <2>2, <2>3
  <2>4. CASE now' = now + 1
    BY <1>2, <2>2, <2>4
  <2> QED
    BY <2>3, <2>4
<1>4. \A lo, hi : From(s, e, lo)' = From(s, e, lo) /\ Between(s, e, lo, hi)' = Between(s, e, lo, hi)
  BY DEF From, Between
<1>5. row'[s].use[d] <= Cardinality(From(s, e, row[s].start[d])')
  <2>1. CASE row'[s].use[d] = row[s].use[d] /\ row'[s].start[d] = row[s].start[d]
    BY <2>1 DEF Counted, From
  <2>2. CASE row'[s].use[d] = 0
    <3>1. From(s, e, row[s].start[d])' \in SUBSET spent[s]
      BY DEF From
    <3>2. Cardinality(From(s, e, row[s].start[d])') \in Nat
      BY <3>1, SpentFinite
    <3> QED
      BY <2>2, <3>2
  <2> QED
    BY <2>1, <2>2
<1>6. ASSUME NEW k \in Ids PROVE Recorded(k, s, d, e)'
  <2>1. Recorded(k, s, d, e)
    BY DEF Counted
  <2>2. CASE SameRecord(mem, mem', k, s)
    BY <2>1, <2>2 DEF Recorded, From, Between, SameRecord
  <2>3. CASE mem'[k].targets[s] = mem[k].targets[s] /\ mem[k].targets[s].status = "pending"
    BY <2>3 DEF Recorded
  <2> QED
    BY <2>2, <2>3 DEF StillRecorded
<1> QED
  BY <1>3, <1>5, <1>6 DEF Counted

\* A request is stamped with the start of the window it is counted in.
LEMMA CountSpend ==
  ASSUME TypeOK, StartInv, NEW s \in Subs, NEW d \in Long, NEW e \in [Time -> Time],
         Counted(s, d, e), Spend(s)
  PROVE  \E f \in [Time -> Time] : Counted(s, d, f)'
<1> DEFINE a == row[s].start[d]
<1>1. /\ now \in Time /\ now \in Nat /\ a \in Time /\ a \in Nat /\ a <= now
      /\ spent[s] \subseteq Time /\ d \in Dims /\ now \notin spent[s]
  BY StateParts, StartNumbers DEF StartInv, TypeOK, Spend, Long
<1>2. /\ row'[s].use[d] = row[s].use[d] + 1 /\ row'[s].start[d] = a
      /\ mem' = mem /\ busy' = busy /\ now' = now
  BY <1>1, SpendUse, SpendFields DEF Spend, events
<1>3. spent'[s] = spent[s] \cup {now}
  BY DEF Spend, TypeOK
<1>0. [e EXCEPT ![now] = a] \in [Time -> Time]
  BY <1>1
<1>01. PICK f \in [Time -> Time] : f = [e EXCEPT ![now] = a]
  BY <1>0
<1>4. f[now] = a /\ \A t \in spent[s] : f[t] = e[t]
  BY <1>1, <1>01
<1>5. Stamped(s, d, f)'
  <2> SUFFICES ASSUME NEW t \in spent'[s]
               PROVE  /\ t <= now' /\ f[t] <= t
                      /\ f[t] = now' => \/ row'[s].start[d] = now'
                                        \/ \E i \in Ids : mem'[i].targets[s].after.start[d] = now'
    BY DEF Stamped
  <2>1. CASE t = now
    BY <1>1, <1>2, <1>4, <2>1
  <2>2. CASE t \in spent[s]
    BY <1>2, <1>4, <2>2 DEF Counted, Stamped
  <2> QED
    BY <1>3, <2>1, <2>2
<1> DEFINE F(lo) == From(s, e, lo)
           G(lo) == {t \in spent'[s] : lo <= f[t]}
           B(lo, hi) == Between(s, e, lo, hi)
           C(lo, hi) == {t \in spent'[s] : lo <= f[t] /\ f[t] < hi}
<1>6. \A lo, hi : F(lo) \subseteq G(lo) /\ B(lo, hi) \subseteq C(lo, hi)
  BY <1>3, <1>4 DEF From, Between
<1>7. \A lo, hi : /\ IsFiniteSet(F(lo)) /\ IsFiniteSet(G(lo)) /\ IsFiniteSet(C(lo, hi))
                  /\ Cardinality(F(lo)) \in Nat /\ Cardinality(G(lo)) \in Nat
                  /\ Cardinality(B(lo, hi)) \in Nat /\ Cardinality(C(lo, hi)) \in Nat
  <2> SUFFICES ASSUME NEW lo, NEW hi
               PROVE  /\ IsFiniteSet(F(lo)) /\ IsFiniteSet(G(lo)) /\ IsFiniteSet(C(lo, hi))
                      /\ Cardinality(F(lo)) \in Nat /\ Cardinality(G(lo)) \in Nat
                      /\ Cardinality(B(lo, hi)) \in Nat /\ Cardinality(C(lo, hi)) \in Nat
    OBVIOUS
  <2>1. IsFiniteSet(spent[s]) /\ IsFiniteSet(spent'[s])
    <3>1. IsFiniteSet(spent[s])
      BY SpentFinite
    <3> QED
      BY <1>3, <3>1, FS_AddElement
  <2>2. G(lo) \in SUBSET spent'[s] /\ C(lo, hi) \in SUBSET spent'[s]
    OBVIOUS
  <2> HIDE DEF G, C
  <2>3. IsFiniteSet(G(lo)) /\ IsFiniteSet(C(lo, hi))
    BY <2>1, <2>2, FS_Subset
  <2> QED
    BY <2>3, FromTypes, FS_CardinalityType
<1>8. \A lo, hi : /\ Cardinality(F(lo)) <= Cardinality(G(lo))
                  /\ Cardinality(B(lo, hi)) <= Cardinality(C(lo, hi))
  <2> HIDE DEF F, G, B, C
  <2> QED
    BY <1>6, <1>7, FS_Subset
<1>9. G(a) = F(a) \cup {now} /\ now \notin F(a)
  BY <1>1, <1>3, <1>4 DEF From
<1>10. row[s].use[d] + 1 <= Cardinality(G(a))
  <2>1. Cardinality(F(a) \cup {now}) = Cardinality(F(a)) + 1
    BY <1>7, <1>9, FS_AddElement
  <2>2. row[s].use[d] <= Cardinality(F(a)) /\ row[s].use[d] \in Nat
    BY UseNumbers DEF Counted
  <2>3. Cardinality(F(a)) \in Nat
    BY <1>7
  <2>4. Cardinality(G(a)) = Cardinality(F(a)) + 1
    BY <1>9, <2>1
  <2> HIDE DEF F, G
  <2> QED
    BY <2>2, <2>3, <2>4
<1>11. /\ \A lo : From(s, f, lo)' = {t \in spent'[s] : lo <= f[t]}
       /\ \A lo, hi : Between(s, f, lo, hi)' = {t \in spent'[s] : lo <= f[t] /\ f[t] < hi}
  BY DEF From, Between
<1>12. row'[s].use[d] <= Cardinality(From(s, f, row[s].start[d])')
  <2>1. From(s, f, row[s].start[d])' = G(a)
    BY <1>2 DEF From
  <2> HIDE DEF G
  <2> QED
    BY <1>2, <1>10, <2>1
<1>13. ASSUME NEW i \in Ids PROVE Recorded(i, s, d, f)'
  <2> DEFINE tg == mem[i].targets[s]
             lo == tg.before.start[d]
             hi == tg.after.start[d]
  <2>1. /\ From(s, f, mem[i].targets[s].before.start[d])' = G(lo)
        /\ Between(s, f, mem[i].targets[s].before.start[d], mem[i].targets[s].after.start[d])'
             = C(lo, hi)
    BY <1>2 DEF From, Between
  <2>2. /\ tg.status = "succeeded" /\ d \in mem[i].dims => tg.before.use[d] <= Cardinality(B(lo, hi))
        /\ tg.status = "resetting" /\ i \in busy => tg.before.use[d] <= Cardinality(F(lo))
    BY DEF Counted, Recorded
  <2>3. tg.before.use[d] \in Nat
    BY UseNumbers
  <2> DEFINE Q == /\ tg.status = "succeeded" /\ d \in mem[i].dims => tg.before.use[d] <= Cardinality(C(lo, hi))
                  /\ tg.status = "resetting" /\ i \in busy => tg.before.use[d] <= Cardinality(G(lo))
  <2>4. Q
    <3> HIDE DEF B, C, F, G, lo, hi, tg
    <3> QED
      BY <1>7, <1>8, <2>2, <2>3
  <2> HIDE DEF C, G
  <2> QED
    BY <1>2, <2>1, <2>4 DEF Recorded
<1>14. Counted(s, d, f)'
  BY <1>5, <1>12, <1>13 DEF Counted
<1> QED
  BY <1>14

\* The commit adds the requests of the windows it puts back, none of which is
\* among those counted since.
LEMMA CountCommit ==
  ASSUME TypeOK, LoopInv, StartInv, NEW s \in Subs, NEW d \in Long, NEW e \in [Time -> Time],
         Counted(s, d, e), Commit, s = u.sub,
         d \in Running(mem[u.id].targets[s], mem[u.id].dims, u.at)
  PROVE  Counted(s, d, e)'
<1> DEFINE i0 == u.id
           tg0 == mem[i0].targets[s]
           lo == tg0.before.start[d]
           hi == tg0.after.start[d]
           B == Between(s, e, lo, hi)
           F == From(s, e, hi)
           G == From(s, e, lo)
<1>1. /\ tg0.status = "succeeded" /\ d \in mem[i0].dims
      /\ row[s].start[d] = hi /\ row'[s].start[d] = lo
      /\ mem' = mem /\ busy' = busy /\ now' = now
  BY CommitMoves
<1>2. i0 \in Ids /\ d \in Dims
  BY CommitFields, UndoFields DEF Long
<1>3. lo \in Nat /\ hi \in Nat /\ lo < hi
  <2>1. StartOf(i0, s, d)
    BY <1>2, StartOfAll
  <2> QED
    BY <1>1, <1>2, <2>1, StartNumbers DEF StartOf
<1>4. row'[s].use[d] = tg0.before.use[d] + row[s].use[d]
  <2> DEFINE P == Plan(row[s], tg0, mem[i0].dims, u.at)
  <2>1. row'[s] = Restored(row[s], tg0, P) /\ row[s] \in Row /\ tg0 \in Target
    BY <1>2, CommitFields, StateParts
  <2>2. d \in P
    BY DEF Plan
  <2> HIDE DEF P, tg0
  <2> QED
    BY <1>2, <2>1, <2>2, RestoredType
<1>5. spent' = spent
  BY DEF Commit
<1>6. /\ row[s].use[d] <= Cardinality(F) /\ tg0.before.use[d] <= Cardinality(B)
      /\ row[s].use[d] \in Nat /\ tg0.before.use[d] \in Nat
  BY <1>1, <1>2, UseNumbers DEF Counted, Recorded
<1>7. \A t \in spent[s] : e[t] \in Nat
  BY DEF TypeOK, Time
<1>8. G = B \cup F /\ B \cap F = {}
  <2> HIDE DEF lo, hi
  <2>1. \A t \in spent[s] : /\ lo <= e[t] <=> (lo <= e[t] /\ e[t] < hi) \/ hi <= e[t]
                            /\ ~(e[t] < hi /\ hi <= e[t])
    BY <1>3, <1>7
  <2> QED
    BY <2>1 DEF From, Between
<1>9. /\ IsFiniteSet(B) /\ IsFiniteSet(F) /\ Cardinality(B) \in Nat /\ Cardinality(F) \in Nat
  BY FromTypes
<1>10. row'[s].use[d] <= Cardinality(G)
  <2> HIDE DEF B, F, G
  <2>1. Cardinality(G) = Cardinality(B) + Cardinality(F) - Cardinality(B \cap F)
    BY <1>8, <1>9, FS_Union
  <2>2. Cardinality(B \cap F) = 0
    BY <1>8, FS_EmptySet
  <2> QED
    BY <1>4, <1>6, <1>9, <2>1, <2>2
<1>11. From(s, e, row[s].start[d])' = G
  BY <1>1, <1>5 DEF From
<1>12. \A i \in Ids : Recorded(i, s, d, e)'
  <2> SUFFICES ASSUME NEW i \in Ids PROVE Recorded(i, s, d, e)'
    OBVIOUS
  <2>1. Recorded(i, s, d, e)
    BY DEF Counted
  <2> QED
    BY <1>1, <1>5, <2>1 DEF Recorded, From, Between
<1>13. Stamped(s, d, e)'
  <2> SUFFICES ASSUME NEW t \in spent[s]
               PROVE  /\ t <= now /\ e[t] <= t
                      /\ e[t] = now => \E i \in Ids : mem[i].targets[s].after.start[d] = now
    BY <1>1, <1>5 DEF Stamped
  <2>1. /\ t <= now /\ e[t] <= t
        /\ e[t] = now => \/ row[s].start[d] = now
                         \/ \E i \in Ids : mem[i].targets[s].after.start[d] = now
    BY DEF Counted, Stamped
  <2> QED
    BY <1>1, <1>2, <2>1
<1>14. Counted(s, d, e)' <=> /\ Stamped(s, d, e)'
                             /\ row'[s].use[d] <= Cardinality(From(s, e, row[s].start[d])')
                             /\ \A i \in Ids : Recorded(i, s, d, e)'
  BY DEF Counted
<1> QED
  BY <1>10, <1>11, <1>12, <1>13, <1>14

\* The work on a target of s.
LEMMA CountLoop ==
  ASSUME TypeOK, StartInv, NEW s \in Subs, NEW d \in Long, NEW e \in [Time -> Time],
         Counted(s, d, e), NEW j \in Ids, LoopStep(j, s)
  PROVE  Counted(s, d, e)'
<1> DEFINE new == mem'[j].targets[s]
           old == mem[j].targets[s]
<1>1. /\ OnlyTarget(mem, mem', j, s, new) /\ busy' = busy /\ now' = now
      /\ Capture(j, s) \/ ResetTarget(j, s) \/ TargetFails(j, s)
  BY DEF LoopStep
<1>2. spent' = spent /\ d \in Dims
  BY <1>1 DEF Capture, ResetTarget, TargetFails, Long
<1>3. \A lo, hi : From(s, e, lo)' = From(s, e, lo) /\ Between(s, e, lo, hi)' = Between(s, e, lo, hi)
  BY <1>2 DEF From, Between
<1>4. ASSUME NEW k \in Ids, k # j PROVE Recorded(k, s, d, e)'
  <2>1. Recorded(k, s, d, e) /\ mem'[k] = mem[k]
    BY <1>1, <1>4 DEF Counted, OnlyTarget
  <2> QED
    BY <1>1, <1>2, <2>1 DEF Recorded, From, Between
<1>5. Recorded(j, s, d, e)' <=>
        /\ new.status = "succeeded" /\ d \in mem'[j].dims =>
             new.before.use[d] <= Cardinality(Between(s, e, new.before.start[d], new.after.start[d]))
        /\ new.status = "resetting" /\ j \in busy =>
             new.before.use[d] <= Cardinality(From(s, e, new.before.start[d]))
  BY <1>1, <1>2 DEF Recorded, From, Between
<1>6. Counted(s, d, e)' <=> /\ Stamped(s, d, e)'
                            /\ row'[s].use[d] <= Cardinality(From(s, e, row[s].start[d])')
                            /\ \A i \in Ids : Recorded(i, s, d, e)'
  BY DEF Counted
<1>7. /\ Stamped(s, d, e) /\ row[s].use[d] <= Cardinality(From(s, e, row[s].start[d]))
      /\ Recorded(j, s, d, e)
  BY DEF Counted
<1>8. ASSUME row' = row, new.after = old.after, Recorded(j, s, d, e)'
      PROVE  Counted(s, d, e)'
  <2>1. \A k \in Ids : mem'[k].targets[s].after = mem[k].targets[s].after
    BY <1>1, <1>8 DEF OnlyTarget
  <2>2. Stamped(s, d, e)'
    BY <1>1, <1>2, <1>7, <1>8, <2>1 DEF Stamped
  <2>3. row'[s].use[d] <= Cardinality(From(s, e, row[s].start[d])')
    BY <1>2, <1>7, <1>8 DEF From
  <2> QED
    BY <1>4, <1>6, <1>8, <2>2, <2>3
<1>9. CASE Capture(j, s)
  <2>1. new.status = "resetting" /\ new.before = row[s] /\ new.after = old.after /\ row' = row
    BY <1>9, CaptureFields DEF Capture
  <2>2. Recorded(j, s, d, e)'
    <3> HIDE DEF new
    <3> QED
      BY <1>5, <1>7, <2>1
  <2> QED
    BY <1>8, <2>1, <2>2
<1>10. CASE TargetFails(j, s)
  <2>1. new.status = "failed" /\ new.after = old.after /\ row' = row
    BY <1>10, FailsFields DEF TargetFails
  <2>2. Recorded(j, s, d, e)'
    <3> HIDE DEF new
    <3> QED
      BY <1>5, <2>1
  <2> QED
    BY <1>8, <2>1, <2>2
<1>11. CASE ResetTarget(j, s)
  <2> DEFINE D == mem[j].dims
  <2>1. /\ old.status = "resetting" /\ new.status = "succeeded" /\ new.before = old.before
        /\ new.after = row'[s] /\ row'[s] = ResetRow(row[s], D, now) /\ j \in busy /\ Movable(s)
    BY <1>11, ResetFields DEF ResetTarget
  <2>2. row[s] \in Row /\ now \in Time /\ now \in Nat
    BY StateParts
  <2>3. /\ row'[s].start[d] = IF d \in D THEN now ELSE row[s].start[d]
        /\ row'[s].use[d] = IF d \in D THEN 0 ELSE row[s].use[d]
    <3> HIDE DEF D
    <3> QED
      BY <1>2, <2>1, <2>2, ResetStart, ResetUse
  <2>4. \A t \in spent[s] : t <= now /\ e[t] <= t /\ e[t] < now
    <3> SUFFICES ASSUME NEW t \in spent[s] PROVE t <= now /\ e[t] <= t /\ e[t] < now
      OBVIOUS
    <3>1. /\ t <= now /\ e[t] <= t
          /\ e[t] = now => \/ row[s].start[d] = now
                           \/ \E i \in Ids : mem[i].targets[s].after.start[d] = now
      BY <1>7 DEF Stamped
    <3>2. t \in Nat /\ e[t] \in Nat
      BY DEF TypeOK, Time
    <3>3. row[s].start[d] < now /\ \A i \in Ids : mem[i].targets[s].after.start[d] < now
      BY <2>1 DEF Movable, Long
    <3>4. row[s].start[d] \in Nat /\ \A i \in Ids : mem[i].targets[s].after.start[d] \in Nat
      BY StartNumbers
    <3>5. e[t] # now
      BY <2>2, <3>1, <3>3, <3>4
    <3> QED
      BY <2>2, <3>1, <3>2, <3>5
  <2>5. Stamped(s, d, e)'
    <3> SUFFICES ASSUME NEW t \in spent[s]
                 PROVE  /\ t <= now' /\ e[t] <= t
                        /\ e[t] = now' => \/ row'[s].start[d] = now'
                                          \/ \E i \in Ids : mem'[i].targets[s].after.start[d] = now'
      BY <1>2 DEF Stamped
    <3>1. e[t] \in Nat
      BY DEF TypeOK, Time
    <3> QED
      BY <1>1, <2>2, <2>4, <3>1
  <2>6. row'[s].use[d] <= Cardinality(From(s, e, row[s].start[d])')
    <3>1. CASE d \in D
      <4>1. From(s, e, row[s].start[d])' \in SUBSET spent[s]
        BY <1>2 DEF From
      <4>2. Cardinality(From(s, e, row[s].start[d])') \in Nat
        BY <4>1, SpentFinite
      <4> QED
        BY <2>3, <3>1, <4>2
    <3>2. CASE d \notin D
      BY <1>2, <1>7, <2>3, <3>2 DEF From
    <3> QED
      BY <3>1, <3>2
  <2>7. Recorded(j, s, d, e)'
    <3>1. d \in mem'[j].dims => d \in D
      BY <1>1 DEF OnlyTarget
    <3>2. ASSUME d \in D
          PROVE  new.before.use[d] <= Cardinality(Between(s, e, new.before.start[d], new.after.start[d]))
      <4>1. new.after.start[d] = now
        BY <2>1, <2>3, <3>2
      <4>2. Between(s, e, new.before.start[d], now) = From(s, e, new.before.start[d])
        BY <2>4 DEF Between, From
      <4>3. old.before.use[d] <= Cardinality(From(s, e, old.before.start[d]))
        BY <1>7, <2>1 DEF Recorded
      <4> HIDE DEF new, old
      <4> QED
        BY <2>1, <4>1, <4>2, <4>3
    <3> HIDE DEF new
    <3> QED
      BY <1>5, <2>1, <3>1, <3>2
  <2> QED
    BY <1>4, <1>6, <2>5, <2>6, <2>7
<1> QED
  BY <1>1, <1>9, <1>10, <1>11

\* Steps that concern s in nothing but its window's end.
LEMMA CountKept == TypeOK /\ LoopInv /\ StartInv /\ CountInv /\ [Next]_vars => CountInv'
<1> SUFFICES ASSUME TypeOK, LoopInv, StartInv, CountInv, [Next]_vars, NEW s \in Subs, NEW d \in Long
             PROVE  \E e \in [Time -> Time] : Counted(s, d, e)'
  BY DEF CountInv
<1>1. PICK e \in [Time -> Time] : Counted(s, d, e)
  BY DEF CountInv
<1>2. d \in Dims /\ row[s] \in Row /\ now \in Time
  BY StateParts DEF Long
<1> DEFINE Kept == row'[s].use[d] = row[s].use[d] /\ row'[s].start[d] = row[s].start[d]
           Afresh == row'[s].use[d] = 0 /\ row'[s].start[d] = now'
<1>3. ASSUME spent'[s] = spent[s], now' = now \/ now' = now + 1,
             \A k \in Ids : StillRecorded(k, s), busy' \subseteq busy, Kept \/ Afresh
      PROVE  Counted(s, d, e)'
  BY <1>1, <1>3, CountSame
<1>4. mem' = mem => \A k \in Ids : StillRecorded(k, s)
  BY DEF StillRecorded, SameRecord
<1>5. CASE Quiet
  <2>1. mem' = mem /\ busy' = busy
    BY <1>5 DEF Quiet
  <2>2. CASE Tick
    <3>1. now' = now + 1 /\ now' \in Time /\ row'[s] = ResetRow(row[s], Ended(row[s], now'), now')
      BY <2>2, TickFields
    <3>2. Kept \/ Afresh
      <4> DEFINE D == Ended(row[s], now')
      <4>1. row'[s] = ResetRow(row[s], D, now')
        BY <3>1
      <4> HIDE DEF D
      <4>2. /\ row'[s].start[d] = IF d \in D THEN now' ELSE row[s].start[d]
            /\ row'[s].use[d] = IF d \in D THEN 0 ELSE row[s].use[d]
        BY <1>2, <3>1, <4>1, ResetStart, ResetUse
      <4> QED
        BY <4>2
    <3> QED
      BY <1>3, <1>4, <2>1, <2>2, <3>1, <3>2 DEF Tick
  <2>3. CASE Commit
    <3>1. CASE s = u.sub /\ d \in Running(mem[u.id].targets[s], mem[u.id].dims, u.at)
      BY <1>1, <2>3, <3>1, CountCommit
    <3>2. CASE ~(s = u.sub /\ d \in Running(mem[u.id].targets[s], mem[u.id].dims, u.at))
      <4>1. Kept
        <5>1. CASE s # u.sub
          BY <2>3, <5>1, CommitMoves
        <5>2. CASE s = u.sub
          <6> DEFINE tg == mem[u.id].targets[s]
                     P == Plan(row[s], tg, mem[u.id].dims, u.at)
          <6>1. d \notin P
            BY <3>2, <5>2 DEF Plan, Long
          <6>2. row'[s] = Restored(row[s], tg, P) /\ tg \in Target
            BY <2>3, <5>2, CommitFields, UndoFields, StateParts
          <6> HIDE DEF P, tg
          <6> QED
            BY <1>2, <6>1, <6>2, RestoredType
        <5> QED
          BY <5>1, <5>2
      <4>2. now' = now /\ spent' = spent
        BY <2>3 DEF Commit
      <4> QED
        BY <1>3, <1>4, <2>1, <4>1, <4>2
    <3> QED
      BY <3>1, <3>2
  <2>4. CASE Spend(s)
    BY <1>1, <2>4, CountSpend
  <2>5. ASSUME NEW t \in Subs, Spend(t), t # s PROVE Counted(s, d, e)'
    <3>1. row'[s] = row[s] /\ spent'[s] = spent[s] /\ now' = now
      BY <2>5, StateParts DEF Spend, TypeOK
    <3> QED
      BY <1>3, <1>4, <2>1, <3>1
  <2>6. ASSUME NEW t \in Subs, OtherReset(t) PROVE Counted(s, d, e)'
    <3>1. Kept \/ Afresh
      <4>1. CASE t # s
        BY <2>6, <4>1, OtherFields
      <4>2. CASE t = s
        <5>1. PICK D \in SUBSET Dims : row'[s] = ResetRow(row[s], D, now)
          BY <2>6, <4>2, OtherFields
        <5>2. now' = now
          BY <2>6 DEF OtherReset
        <5> QED
          BY <1>2, <5>1, <5>2, ResetStart, ResetUse
      <4> QED
        BY <4>1, <4>2
    <3> QED
      BY <1>3, <1>4, <2>1, <2>6, <3>1 DEF OtherReset
  <2>7. CASE UNCHANGED <<now, row, spent>>
    BY <1>3, <1>4, <2>1, <2>7
  <2> QED
    BY <1>1, <1>5, <2>2, <2>3, <2>4, <2>5, <2>6, <2>7 DEF Quiet
<1>6. ASSUME \A k \in Ids : SameRecord(mem, mem', k, s), busy' \subseteq busy,
             UNCHANGED <<now, row, spent>>
      PROVE  Counted(s, d, e)'
  BY <1>3, <1>6 DEF StillRecorded
<1>7. CASE Crash
  BY <1>6, <1>7 DEF Crash, LoopInv, SameLoop, SameRecord
<1>8. ASSUME NEW j \in Ids, Detect(j) PROVE Counted(s, d, e)'
  <2>1. /\ mem[j].undo = "none" /\ \A k \in Ids : k # j => mem'[k] = mem[k]
        /\ mem'[j].targets = mem[j].targets /\ busy' = busy \cup {j}
        /\ UNCHANGED <<now, row, spent>>
    BY <1>8, DetectFields DEF Detect
  <2>2. mem[j].targets[s].status = "pending"
    BY <2>1 DEF LoopInv, Detected
  <2>3. Stamped(s, d, e)'
    <3>1. \A k \in Ids : mem'[k].targets[s].after = mem[k].targets[s].after
      BY <2>1
    <3> QED
      BY <1>1, <2>1, <3>1 DEF Counted, Stamped
  <2>4. row'[s].use[d] <= Cardinality(From(s, e, row[s].start[d])')
    BY <1>1, <2>1 DEF Counted, From
  <2>5. ASSUME NEW k \in Ids PROVE Recorded(k, s, d, e)'
    <3>1. CASE k = j
      BY <2>1, <2>2, <3>1 DEF Recorded
    <3>2. CASE k # j
      <4>1. Recorded(k, s, d, e)
        BY <1>1 DEF Counted
      <4> QED
        BY <2>1, <3>2, <4>1 DEF Recorded, From, Between
    <3> QED
      BY <3>1, <3>2
  <2> QED
    BY <2>3, <2>4, <2>5 DEF Counted
<1>9. ASSUME NEW j \in Ids, Done(j) PROVE Counted(s, d, e)'
  BY <1>3, <1>4, <1>9 DEF Done, events
<1>10. ASSUME NEW j \in Ids, NEW t \in Subs, LoopStep(j, t) PROVE Counted(s, d, e)'
  <2>1. CASE t = s
    BY <1>1, <1>10, <2>1, CountLoop
  <2>2. CASE t # s
    <3>1. \A k \in Ids : SameRecord(mem, mem', k, s)
      BY <1>10, <2>2 DEF LoopStep, OnlyTarget, SameRecord
    <3>2. row'[s] = row[s]
      <4>1. CASE Capture(j, t) \/ TargetFails(j, t)
        BY <4>1 DEF Capture, TargetFails
      <4>2. CASE ResetTarget(j, t)
        <5>1. \A r \in Subs : r # t => row'[r] = row[r]
          BY <4>2, ResetFields
        <5> QED
          BY <2>2, <5>1
      <4> QED
        BY <1>10, <4>1, <4>2 DEF LoopStep
    <3>3. spent' = spent /\ now' = now /\ busy' = busy
      BY <1>10 DEF LoopStep, Capture, ResetTarget, TargetFails
    <3> QED
      BY <1>3, <3>1, <3>2, <3>3 DEF StillRecorded
  <2> QED
    BY <2>1, <2>2
<1>11. ASSUME NEW j \in Ids, NEW t \in Subs, NEW v \in Undos, UndoMark(j, t, v)
       PROVE  Counted(s, d, e)'
  <2>1. SameReset(mem, mem', j) /\ busy' = busy /\ UNCHANGED <<now, row, spent>>
    BY <1>11 DEF UndoMark, MarkStep, MarkedIn
  <2>2. \A k \in Ids : SameRecord(mem, mem', k, s)
    BY <2>1 DEF SameReset, SameRecord
  <2> QED
    BY <1>6, <2>1, <2>2
<1> QED
  BY <1>5, <1>7, <1>8, <1>9, <1>10, <1>11, Steps DEF LoopInv

\* The stamps of the requests a window counts are its start or later, and so are
\* the requests.
LEMMA CountBounds ==
  ASSUME TypeOK, CountInv, NEW s \in Subs, NEW d \in Long
  PROVE  row[s].use[d] <= Cardinality({t \in spent[s] : t >= row[s].start[d]})
<1>1. PICK e \in [Time -> Time] : Counted(s, d, e)
  BY DEF CountInv
<1> DEFINE F == From(s, e, row[s].start[d])
           G == {t \in spent[s] : t >= row[s].start[d]}
<1>2. F \subseteq G
  <2> SUFFICES ASSUME NEW t \in spent[s], row[s].start[d] <= e[t] PROVE t >= row[s].start[d]
    BY DEF From
  <2>1. e[t] <= t /\ e[t] \in Nat /\ t \in Nat
    BY <1>1 DEF Counted, Stamped, TypeOK, Time
  <2> QED
    BY <2>1, StartNumbers
<1>3. IsFiniteSet(G) /\ Cardinality(G) \in Nat /\ Cardinality(F) \in Nat
  BY SpentFinite, FromTypes
<1>4. row[s].use[d] <= Cardinality(F) /\ row[s].use[d] \in Nat
  BY <1>1, UseNumbers DEF Counted
<1> HIDE DEF F, G
<1>5. Cardinality(F) <= Cardinality(G)
  BY <1>2, <1>3, FS_Subset
<1>6. row[s].use[d] <= Cardinality(G)
  BY <1>3, <1>4, <1>5
<1> QED
  BY <1>6 DEF G

LEMMA CountInit == Init => StartInv /\ CountInv
<1> SUFFICES ASSUME Init PROVE StartInv /\ CountInv
  OBVIOUS
<1>1. /\ now = 0 /\ busy = {} /\ u = NoUndo
      /\ \A s \in Subs : row[s] = Fresh /\ spent[s] = {}
      /\ \A i \in Ids, s \in Subs : /\ mem[i].targets[s].status = "pending"
                                    /\ mem[i].targets[s].after = Fresh
  BY DEF Init
<1>2. \A d \in Long : Fresh.start[d] = 0 /\ Fresh.use[d] = 0
  BY DEF Fresh, Long
<1>3. StartInv
  BY <1>1, <1>2 DEF StartInv
<1>4. ASSUME NEW s \in Subs, NEW d \in Long PROVE \E e \in [Time -> Time] : Counted(s, d, e)
  <2>1. PICK e \in [Time -> Time] : TRUE
    <3>1. 0 \in Time
      BY ConstantTypes DEF Time
    <3>2. [t \in Time |-> 0] \in [Time -> Time]
      BY <3>1
    <3> QED
      BY <3>2
  <2>2. Stamped(s, d, e) /\ \A i \in Ids : Recorded(i, s, d, e)
    BY <1>1 DEF Stamped, Recorded
  <2>3. From(s, e, row[s].start[d]) = {}
    BY <1>1 DEF From
  <2>4. row[s].use[d] <= Cardinality(From(s, e, row[s].start[d]))
    BY <1>1, <1>2, <2>3, FS_EmptySet
  <2> QED
    BY <2>2, <2>4 DEF Counted
<1> QED
  BY <1>3, <1>4 DEF CountInv

\* The usage of a weekly or monthly window was consumed since the window began.
LongUsage == \A s \in Subs, d \in Long :
  row[s].use[d] <= Cardinality({t \in spent[s] : t >= row[s].start[d]})

\* Nobody is charged in a weekly or monthly window for more than was consumed
\* since it began, whatever the order of resets and undos, with workers that
\* overlap, resets by hand, lost acknowledgements and crashes (restore.go
\* resolveRestoreWindows and Restore).
THEOREM LongWindowsChargedForReal == Spec => []LongUsage
<1>1. Spec => []LoopInv
  BY LoopInit, LoopKept, RollbackTypeCorrect, PTL DEF Spec
<1>2. Spec => []StartInv
  BY <1>1, CountInit, StartKept, RollbackTypeCorrect, PTL DEF Spec
<1>3. Spec => []CountInv
  BY <1>1, <1>2, CountInit, CountKept, RollbackTypeCorrect, PTL DEF Spec
<1>4. TypeOK /\ CountInv => LongUsage
  BY CountBounds DEF LongUsage
<1> QED
  BY <1>3, <1>4, RollbackTypeCorrect, PTL

\* For a subscription without a daily window these are all its windows.
THEOREM ChargedForReal ==
  ASSUME "daily" \notin Dims
  PROVE  Spec => []UsageIsReal
<1>1. LongUsage => UsageIsReal
  BY DEF LongUsage, UsageIsReal, Long
<1> QED
  BY <1>1, LongWindowsChargedForReal, PTL

----------------------------------------------------------------------------
(* The daily window, without crashes and lost acknowledgements.            *)

\* No crash, and every commit acknowledged; saves may still fail.
Faultless == MayCrash = FALSE /\ LostAck = FALSE

\* One event is worked on if workers do not overlap, its targets are worked on
\* only then, and a reset that was taken back is recorded as undone, or about to
\* be.
SoloInv ==
  /\ Overlap = FALSE => \A i, j \in busy : i = j
  /\ \A i \in Ids, s \in Subs : mem[i].targets[s].status = "resetting" => i \in busy
  /\ \A i \in Ids, s \in Subs : applied[<<i, s>>] > 0 =>
       /\ applied[<<i, s>>] = 1 /\ mem[i].targets[s].status = "succeeded"
       /\ \/ mem[i].targets[s].undo = "succeeded"
          \/ u.pc = "committed" /\ u.id = i /\ u.sub = s
  /\ u.pc = "restoring" => applied[<<u.id, u.sub>>] = 0

LEMMA SoloKept ==
  ASSUME Faultless
  PROVE  TypeOK /\ LoopInv /\ SoloInv /\ [Next]_vars => SoloInv'
<1> SUFFICES ASSUME TypeOK, LoopInv, SoloInv, [Next]_vars
             PROVE  SoloInv'
  OBVIOUS
<1>0. \A i \in Ids, s \in Subs : applied[<<i, s>>] \in Nat
  BY StateParts
<1>1. CASE Quiet /\ UNCHANGED <<u, applied>>
  BY <1>1 DEF Quiet, SoloInv
<1>2. CASE Quiet /\ Commit
  <2>1. /\ u \in UndoType /\ u.pc = "restoring"
        /\ applied'[<<u.id, u.sub>>] = applied[<<u.id, u.sub>>] + 1
        /\ \A c \in Ids \X Subs : c # <<u.id, u.sub>> => applied'[c] = applied[c]
        /\ u'.pc = "committed" /\ u'.id = u.id /\ u'.sub = u.sub
        /\ mem' = mem /\ busy' = busy
    BY <1>2, CommitFields DEF Quiet
  <2>2. mem[u.id].targets[u.sub].status = "succeeded" /\ applied[<<u.id, u.sub>>] = 0
    BY <2>1, UndoFields DEF LoopInv, Exclusive, SoloInv
  <2>3. ASSUME NEW i \in Ids, NEW s \in Subs, applied'[<<i, s>>] > 0
        PROVE  /\ applied'[<<i, s>>] = 1 /\ mem[i].targets[s].status = "succeeded"
               /\ \/ mem[i].targets[s].undo = "succeeded"
                  \/ u.id = i /\ u.sub = s
    <3>1. CASE i = u.id /\ s = u.sub
      BY <2>1, <2>2, <3>1
    <3>2. CASE ~(i = u.id /\ s = u.sub)
      <4>1. applied'[<<i, s>>] = applied[<<i, s>>]
        BY <2>1, <3>2
      <4> QED
        BY <2>1, <2>3, <4>1 DEF SoloInv
    <3> QED
      BY <3>1, <3>2
  <2> QED
    BY <2>1, <2>3 DEF SoloInv
<1>3. ~Crash
  BY DEF Crash, Faultless
<1>4. ASSUME NEW i \in Ids, Detect(i) PROVE SoloInv'
  <2>1. /\ \A j \in Ids : j # i => mem'[j] = mem[j]
        /\ mem'[i].targets = mem[i].targets /\ busy' = busy \cup {i}
        /\ u' = u /\ applied' = applied /\ (Overlap = FALSE => busy = {})
    BY <1>4, DetectFields DEF Detect
  <2> QED
    BY <2>1 DEF SoloInv
<1>5. ASSUME NEW i \in Ids, Done(i) PROVE SoloInv'
  BY <1>5 DEF Done, events, SoloInv
<1>6. ASSUME NEW i \in Ids, NEW s \in Subs, LoopStep(i, s) PROVE SoloInv'
  <2>1. /\ i \in busy /\ OnlyTarget(mem, mem', i, s, mem'[i].targets[s])
        /\ mem[i].targets[s].status # "succeeded"
        /\ busy' = busy /\ u' = u /\ applied' = applied
    BY <1>6 DEF LoopStep
  <2>2. ASSUME NEW j \in Ids, NEW t \in Subs, applied[<<j, t>>] > 0
        PROVE  mem'[j].targets[t] = mem[j].targets[t]
    BY <2>1, <2>2 DEF SoloInv, OnlyTarget
  <2>3. \A j \in Ids, t \in Subs : mem'[j].targets[t].status = "resetting" => j \in busy
    BY <2>1 DEF SoloInv, OnlyTarget
  <2> QED
    BY <2>1, <2>2, <2>3 DEF SoloInv
<1>7. ASSUME NEW i \in Ids, NEW s \in Subs, NEW v \in Undos, UndoMark(i, s, v)
      PROVE  SoloInv'
  <2>1. /\ SameReset(mem, mem', i) /\ busy' = busy /\ applied' = applied
        /\ \A t \in Subs : mem'[i].targets[t].undo = IF t = s THEN v ELSE mem[i].targets[t].undo
        /\ \A j \in Ids : j # i => mem'[j] = mem[j]
    BY <1>7 DEF UndoMark, MarkStep, MarkedIn, SameReset
  <2>2. \A j \in Ids, t \in Subs : mem'[j].targets[t].status = mem[j].targets[t].status
    BY <2>1 DEF SameReset
  <2>3. /\ u # NoUndo => /\ u.id = i /\ u.sub = s
                         /\ v # "succeeded" => u.pc = "restoring"
        /\ u = NoUndo => mem[i].targets[s].undo # "succeeded"
    BY <1>7 DEF UndoMark, Faultless
  <2>4. NoUndo.pc = "idle"
    BY DEF NoUndo
  <2>5. ASSUME NEW j \in Ids, NEW t \in Subs, applied[<<j, t>>] > 0
        PROVE  mem'[j].targets[t].undo = "succeeded"
    <3>1. \/ mem[j].targets[t].undo = "succeeded"
          \/ u.pc = "committed" /\ u.id = j /\ u.sub = t
      BY <2>5 DEF SoloInv
    <3>2. CASE j = i /\ t = s
      <4>1. u.pc # "restoring"
        BY <2>3, <2>4, <2>5, <3>2 DEF SoloInv
      <4>2. u # NoUndo
        BY <2>3, <2>4, <3>1, <3>2
      <4> QED
        BY <2>1, <2>3, <3>2, <4>1, <4>2
    <3>3. CASE ~(j = i /\ t = s)
      <4>1. mem[j].targets[t].undo = "succeeded"
        BY <2>3, <2>4, <3>1, <3>3
      <4> QED
        BY <2>1, <3>3, <4>1
    <3> QED
      BY <3>2, <3>3
  <2>6. u'.pc = "restoring" => applied[<<u'.id, u'.sub>>] = 0
    <3>1. \/ u' = NoUndo
          \/ u = NoUndo /\ u'.id = i /\ u'.sub = s
      BY <1>7 DEF UndoMark
    <3>2. u = NoUndo => ~(applied[<<i, s>>] > 0)
      BY <2>3, <2>4 DEF SoloInv
    <3> QED
      BY <1>0, <2>4, <3>1, <3>2
  <2> QED
    BY <2>1, <2>2, <2>5, <2>6 DEF SoloInv
<1> QED
  BY <1>1, <1>2, <1>3, <1>4, <1>5, <1>6, <1>7, Steps DEF LoopInv, Quiet

LEMMA SoloInit == Init => SoloInv
<1> SUFFICES ASSUME Init PROVE SoloInv
  OBVIOUS
<1>1. /\ busy = {} /\ u.pc = "idle"
      /\ \A i \in Ids, s \in Subs : mem[i].targets[s].status = "pending" /\ applied[<<i, s>>] = 0
  BY DEF Init, NoUndo
<1>2. u.pc # "restoring"
  BY <1>1
<1>3. ASSUME NEW i \in Ids, NEW s \in Subs
      PROVE  ~(applied[<<i, s>>] > 0) /\ mem[i].targets[s].status # "resetting"
  <2>1. applied[<<i, s>>] = 0 /\ mem[i].targets[s].status = "pending"
    BY <1>1
  <2> QED
    BY <2>1
<1>4. Overlap = FALSE => \A i, j \in busy : i = j
  BY <1>1
<1> QED
  BY <1>2, <1>3, <1>4 DEF SoloInv

\* Without those faults a reset is taken back once in every window, the daily
\* one too: an undo that was applied is marked, in memory even when its save
\* fails, and a marked target is refused (engine.go UndoTarget).
THEOREM TakenBackOnceWithoutFaults ==
  ASSUME Faultless
  PROVE  Spec => []UndoneOnce
<1>1. Spec => []LoopInv
  BY LoopInit, LoopKept, RollbackTypeCorrect, PTL DEF Spec
<1>2. TypeOK /\ LoopInv /\ SoloInv /\ [Next]_vars => SoloInv'
  BY SoloKept
<1>3. Spec => []SoloInv
  BY <1>1, <1>2, SoloInit, RollbackTypeCorrect, PTL DEF Spec
<1>4. TypeOK /\ SoloInv => UndoneOnce
  <2> SUFFICES ASSUME TypeOK, SoloInv, NEW i \in Ids, NEW s \in Subs PROVE applied[<<i, s>>] <= 1
    BY DEF UndoneOnce
  <2>1. applied[<<i, s>>] \in Nat
    BY StateParts
  <2> QED
    BY <2>1 DEF SoloInv
<1> QED
  BY <1>3, <1>4, RollbackTypeCorrect, PTL

\* Each request is owned by the event whose snapshot charges for it, or by none:
\* o gives its owner as a set.  A request is counted in the row while no reset
\* has taken it away.
Counts(s, o, t) == o[t] = {} \/ \E i \in Ids : o[t] = {i} /\ mem[i].targets[s].status = "resetting"
Current(s, o, lo) == {t \in spent[s] : lo <= t /\ Counts(s, o, t)}
Owned(s, o, i, lo) == {t \in spent[s] : lo <= t /\ o[t] = {i}}

\* The snapshot of a target that is worked on, or that may yet be taken back.
Snapshot(i, s, o) ==
  LET tg == mem[i].targets[s] IN
  \/ tg.status = "resetting"
  \/ tg.status = "succeeded" /\ "daily" \in mem[i].dims /\ applied[<<i, s>>] = 0
  => tg.before.use["daily"] <= Cardinality(Owned(s, o, i, tg.before.start["daily"]))

DailyOf(s, o) ==
  /\ row[s].start["daily"] <= now
  /\ row[s].use["daily"] <= Cardinality(Current(s, o, row[s].start["daily"]))
  /\ \A i \in Ids : Snapshot(i, s, o)

DailyInv == \A s \in Subs : \E o \in [Time -> SUBSET Ids] : DailyOf(s, o)

LEMMA DailyNumbers ==
  ASSUME TypeOK, "daily" \in Dims, NEW s \in Subs
  PROVE  /\ row[s].use["daily"] \in Nat /\ row[s].start["daily"] \in Nat /\ now \in Nat
         /\ spent[s] \subseteq Nat /\ spent[s] \subseteq Time
         /\ \A i \in Ids : /\ mem[i].targets[s].before.use["daily"] \in Nat
                           /\ mem[i].targets[s].before.start["daily"] \in Nat
<1>1. ASSUME NEW i \in Ids
      PROVE  /\ mem[i].targets[s].before.use["daily"] \in Nat
             /\ mem[i].targets[s].before.start["daily"] \in Nat
  <2>1. mem[i].targets[s] \in Target
    BY StateParts
  <2>2. mem[i].targets[s].before \in Row
    BY <2>1, TargetFields
  <2> QED
    BY <2>2, RowFields
<1>2. spent[s] \subseteq Nat /\ spent[s] \subseteq Time
  BY DEF TypeOK, Time
<1>3. row[s].use["daily"] \in Nat /\ row[s].start["daily"] \in Nat
  BY StateParts, RowFields
<1> QED
  BY <1>1, <1>2, <1>3, StateParts

\* What is counted in the row is never less when no request drops out of it.
LEMMA CurrentGrows ==
  ASSUME TypeOK, TypeOK', NEW s \in Subs, NEW o, NEW p, NEW lo,
         \A t \in spent[s] : t \in spent'[s] /\ (Counts(s, o, t) => Counts(s, p, t)')
  PROVE  /\ Cardinality(Current(s, o, lo)) <= Cardinality(Current(s, p, lo)')
         /\ Cardinality(Current(s, o, lo)) \in Nat /\ Cardinality(Current(s, p, lo)') \in Nat
<1> DEFINE S == Current(s, o, lo)
           T == {t \in spent'[s] : lo <= t /\ Counts(s, p, t)'}
<1>1. Current(s, p, lo)' = T
  BY DEF Current
<1>2. S \subseteq T
  BY DEF Current
<1>3. S \in SUBSET spent[s] /\ T \in SUBSET spent'[s]
  BY DEF Current
<1>4. IsFiniteSet(T) /\ Cardinality(T) \in Nat /\ Cardinality(S) \in Nat
  <2> HIDE DEF S, T
  <2>1. Cardinality(S) \in Nat
    BY <1>3, SpentFinite
  <2>2. IsFiniteSet(Time) /\ spent'[s] \subseteq Time
    <3>1. IsFiniteSet(Time)
      BY ConstantTypes, FS_Interval DEF Time
    <3>2. spent'[s] \subseteq Time
      BY DEF TypeOK
    <3> QED
      BY <3>1, <3>2
  <2>3. IsFiniteSet(T)
    <3>1. T \in SUBSET Time
      BY <1>3, <2>2
    <3> QED
      BY <2>2, <3>1, FS_Subset
  <2> QED
    BY <2>1, <2>3, FS_CardinalityType
<1> HIDE DEF S, T
<1>5. Cardinality(S) <= Cardinality(T)
  BY <1>2, <1>4, FS_Subset
<1> QED
  BY <1>1, <1>4, <1>5 DEF S

LEMMA OwnedGrows ==
  ASSUME TypeOK, TypeOK', NEW s \in Subs, NEW o, NEW p, NEW lo, NEW i \in Ids,
         \A t \in spent[s] : t \in spent'[s] /\ (o[t] = {i} => p[t] = {i})
  PROVE  /\ Cardinality(Owned(s, o, i, lo)) <= Cardinality(Owned(s, p, i, lo)')
         /\ Cardinality(Owned(s, o, i, lo)) \in Nat /\ Cardinality(Owned(s, p, i, lo)') \in Nat
<1> DEFINE S == Owned(s, o, i, lo)
           T == {t \in spent'[s] : lo <= t /\ p[t] = {i}}
<1>1. Owned(s, p, i, lo)' = T
  BY DEF Owned
<1>2. S \subseteq T
  BY DEF Owned
<1>3. S \in SUBSET spent[s] /\ T \in SUBSET spent'[s]
  BY DEF Owned
<1>4. IsFiniteSet(T) /\ Cardinality(T) \in Nat /\ Cardinality(S) \in Nat
  <2> HIDE DEF S, T
  <2>1. Cardinality(S) \in Nat
    BY <1>3, SpentFinite
  <2>2. IsFiniteSet(Time) /\ spent'[s] \subseteq Time
    <3>1. IsFiniteSet(Time)
      BY ConstantTypes, FS_Interval DEF Time
    <3>2. spent'[s] \subseteq Time
      BY DEF TypeOK
    <3> QED
      BY <3>1, <3>2
  <2>3. IsFiniteSet(T)
    <3>1. T \in SUBSET Time
      BY <1>3, <2>2
    <3> QED
      BY <2>2, <3>1, FS_Subset
  <2> QED
    BY <2>1, <2>3, FS_CardinalityType
<1> HIDE DEF S, T
<1>5. Cardinality(S) <= Cardinality(T)
  BY <1>2, <1>4, FS_Subset
<1> QED
  BY <1>1, <1>4, <1>5 DEF S

\* A snapshot keeps what it charges for.
LEMMA SnapshotStays ==
  ASSUME TypeOK, TypeOK', "daily" \in Dims, NEW s \in Subs, NEW o, NEW p, NEW i \in Ids,
         Snapshot(i, s, o), StillRecorded(i, s),
         applied'[<<i, s>>] = 0 => applied[<<i, s>>] = 0,
         \A t \in spent[s] : t \in spent'[s] /\ (o[t] = {i} => p[t] = {i})
  PROVE  Snapshot(i, s, p)'
<1>1. CASE mem'[i].targets[s] = mem[i].targets[s] /\ mem[i].targets[s].status = "pending"
  BY <1>1 DEF Snapshot
<1>2. CASE SameRecord(mem, mem', i, s)
  <2> DEFINE tg == mem[i].targets[s]
  <2>1. PICK lo \in Nat : lo = tg.before.start["daily"]
    BY DailyNumbers
  <2>2. /\ Cardinality(Owned(s, o, i, lo)) <= Cardinality(Owned(s, p, i, lo)')
        /\ Cardinality(Owned(s, o, i, lo)) \in Nat /\ Cardinality(Owned(s, p, i, lo)') \in Nat
    BY OwnedGrows
  <2>3. /\ \/ tg.status = "resetting"
           \/ tg.status = "succeeded" /\ "daily" \in mem[i].dims /\ applied[<<i, s>>] = 0
           => tg.before.use["daily"] <= Cardinality(Owned(s, o, i, lo))
    BY <2>1 DEF Snapshot
  <2>4. tg.before.use["daily"] \in Nat
    BY DailyNumbers
  <2>5. /\ mem'[i].dims = mem[i].dims /\ mem'[i].targets[s].status = tg.status
        /\ mem'[i].targets[s].before = tg.before
    BY <1>2 DEF SameRecord
  <2>6. Snapshot(i, s, p)' <=>
          (\/ tg.status = "resetting"
           \/ tg.status = "succeeded" /\ "daily" \in mem[i].dims /\ applied'[<<i, s>>] = 0
           => tg.before.use["daily"] <= Cardinality(Owned(s, p, i, lo)'))
    BY <2>1, <2>5 DEF Snapshot, Owned
  <2> HIDE DEF tg
  <2> QED
    BY <2>2, <2>3, <2>4, <2>6
<1> QED
  BY <1>1, <1>2 DEF StillRecorded

\* Steps that leave the records of s alone.
LEMMA DailySame ==
  ASSUME TypeOK, TypeOK', "daily" \in Dims, NEW s \in Subs, NEW o \in [Time -> SUBSET Ids],
         DailyOf(s, o), spent'[s] = spent[s], now <= now',
         \A k \in Ids : StillRecorded(k, s),
         \A k \in Ids : applied'[<<k, s>>] = 0 => applied[<<k, s>>] = 0,
         \/ row'[s].use["daily"] = row[s].use["daily"] /\ row'[s].start["daily"] = row[s].start["daily"]
         \/ row'[s].use["daily"] = 0 /\ row'[s].start["daily"] <= now'
  PROVE  DailyOf(s, o)'
<1>1. /\ row[s].start["daily"] <= now
      /\ row[s].use["daily"] <= Cardinality(Current(s, o, row[s].start["daily"]))
      /\ \A i \in Ids : Snapshot(i, s, o)
  BY DEF DailyOf
<1>2. \A k \in Ids : mem'[k].targets[s].status = mem[k].targets[s].status
  BY DEF StillRecorded, SameRecord
<1>3. \A t \in spent[s] : t \in spent'[s] /\ (Counts(s, o, t) => Counts(s, o, t)')
  BY <1>2 DEF Counts
<1>4. \A i \in Ids : Snapshot(i, s, o)'
  BY <1>1, SnapshotStays
<1>5. row'[s].start["daily"] <= now'
  <2>1. now' \in Nat
    BY DEF TypeOK, Time
  <2> QED
    BY <1>1, <2>1, DailyNumbers
<1>6. row'[s].use["daily"] <= Cardinality(Current(s, o, row[s].start["daily"])')
  <2>1. row'[s].start["daily"] \in Nat
    BY RowFields DEF TypeOK
  <2>2. PICK lo \in Nat : lo = row'[s].start["daily"]
    BY <2>1
  <2>3. /\ Cardinality(Current(s, o, lo)) <= Cardinality(Current(s, o, lo)')
        /\ Cardinality(Current(s, o, lo)) \in Nat /\ Cardinality(Current(s, o, lo)') \in Nat
    BY <1>3, CurrentGrows
  <2>4. Current(s, o, row[s].start["daily"])' = Current(s, o, lo)'
    BY <2>2 DEF Current
  <2> QED
    BY <1>1, <2>2, <2>3, <2>4, DailyNumbers
<1> QED
  BY <1>4, <1>5, <1>6 DEF DailyOf
\* The requests that a target of s no longer charges for are counted in the row.
LEMMA DailyDrop ==
  ASSUME TypeOK, TypeOK', "daily" \in Dims, NEW s \in Subs, NEW o \in [Time -> SUBSET Ids],
         DailyOf(s, o), NEW j \in Ids, spent' = spent, now' = now, applied' = applied,
         \A k \in Ids : k # j => mem'[k] = mem[k],
         mem'[j].targets[s].status # "resetting",
         mem'[j].targets[s].status = "succeeded" => "daily" \notin mem'[j].dims,
         row'[s].use["daily"] = row[s].use["daily"], row'[s].start["daily"] = row[s].start["daily"]
  PROVE  \E p \in [Time -> SUBSET Ids] : DailyOf(s, p)'
<1>1. /\ row[s].start["daily"] <= now
      /\ row[s].use["daily"] <= Cardinality(Current(s, o, row[s].start["daily"]))
      /\ \A i \in Ids : Snapshot(i, s, o)
  BY DEF DailyOf
<1>2. PICK p \in [Time -> SUBSET Ids] : \A t \in Time : p[t] = IF o[t] = {j} THEN {} ELSE o[t]
  <2> DEFINE f == [t \in Time |-> IF o[t] = {j} THEN {} ELSE o[t]]
  <2>1. f \in [Time -> SUBSET Ids] /\ \A t \in Time : f[t] = IF o[t] = {j} THEN {} ELSE o[t]
    OBVIOUS
  <2> HIDE DEF f
  <2> QED
    BY <2>1
<1>3. spent[s] \subseteq Time
  BY DailyNumbers
<1>4. \A t \in spent[s] : t \in spent'[s] /\ (Counts(s, o, t) => Counts(s, p, t)')
  <2> SUFFICES ASSUME NEW t \in spent[s], Counts(s, o, t) PROVE Counts(s, p, t)'
    OBVIOUS
  <2>1. p[t] = IF o[t] = {j} THEN {} ELSE o[t]
    BY <1>2, <1>3
  <2>2. CASE o[t] = {} \/ o[t] = {j}
    <3>1. p[t] = {}
      BY <2>1, <2>2
    <3> QED
      BY <3>1 DEF Counts
  <2>3. ASSUME NEW k \in Ids, k # j, o[t] = {k}, mem[k].targets[s].status = "resetting"
        PROVE  Counts(s, p, t)'
    <3>1. p[t] = {k} /\ mem'[k].targets[s].status = "resetting"
      BY <2>1, <2>3
    <3> QED
      BY <3>1 DEF Counts
  <2> QED
    BY <2>2, <2>3 DEF Counts
<1>5. ASSUME NEW k \in Ids PROVE Snapshot(k, s, p)'
  <2>1. CASE k = j
    BY <2>1 DEF Snapshot
  <2>2. CASE k # j
    <3>1. StillRecorded(k, s)
      BY <2>2 DEF StillRecorded, SameRecord
    <3>2. \A t \in spent[s] : t \in spent'[s] /\ (o[t] = {k} => p[t] = {k})
      BY <1>2, <1>3, <2>2
    <3> QED
      BY <1>1, <3>1, <3>2, SnapshotStays
  <2> QED
    BY <2>1, <2>2
<1>6. row'[s].use["daily"] <= Cardinality(Current(s, p, row[s].start["daily"])')
  <2>1. PICK lo \in Nat : lo = row[s].start["daily"]
    BY DailyNumbers
  <2>2. /\ Cardinality(Current(s, o, lo)) <= Cardinality(Current(s, p, lo)')
        /\ Cardinality(Current(s, o, lo)) \in Nat /\ Cardinality(Current(s, p, lo)') \in Nat
    BY <1>4, CurrentGrows
  <2>3. Current(s, p, row[s].start["daily"])' = Current(s, p, lo)'
    BY <2>1 DEF Current
  <2> QED
    BY <1>1, <2>1, <2>2, <2>3, DailyNumbers
<1>7. DailyOf(s, p)'
  BY <1>1, <1>5, <1>6 DEF DailyOf
<1> QED
  BY <1>7

\* What s consumes is counted in the row.
LEMMA DailySpend ==
  ASSUME TypeOK, TypeOK', "daily" \in Dims, NEW s \in Subs, NEW o \in [Time -> SUBSET Ids],
         DailyOf(s, o), Spend(s)
  PROVE  \E p \in [Time -> SUBSET Ids] : DailyOf(s, p)'
<1>1. /\ row[s].start["daily"] <= now
      /\ row[s].use["daily"] <= Cardinality(Current(s, o, row[s].start["daily"]))
      /\ \A i \in Ids : Snapshot(i, s, o)
  BY DEF DailyOf
<1>2. /\ now' = now /\ mem' = mem /\ applied' = applied /\ now \notin spent[s]
      /\ spent'[s] = spent[s] \cup {now} /\ now \in Time
  BY StateParts DEF Spend, events, TypeOK
<1>3. PICK lo \in Nat : lo = row[s].start["daily"]
  BY DailyNumbers
<1>4. row'[s].use["daily"] = row[s].use["daily"] + 1 /\ row'[s].start["daily"] = lo
  BY <1>3, SpendUse, SpendFields
<1>5. PICK p \in [Time -> SUBSET Ids] : p = [o EXCEPT ![now] = {}]
  BY <1>2
<1>6. p[now] = {} /\ \A t \in spent[s] : p[t] = o[t]
  BY <1>2, <1>5, DailyNumbers
<1>7. ASSUME NEW k \in Ids PROVE Snapshot(k, s, p)'
  <2>1. StillRecorded(k, s)
    BY <1>2 DEF StillRecorded, SameRecord
  <2> QED
    BY <1>1, <1>2, <1>6, <2>1, SnapshotStays
<1> DEFINE S == Current(s, o, lo)
           T == Current(s, p, lo)'
<1>8. T = S \cup {now} /\ now \notin S
  <2>1. \A t \in spent[s] : Counts(s, o, t) <=> Counts(s, p, t)'
    BY <1>2, <1>6 DEF Counts
  <2>2. Counts(s, p, now)'
    BY <1>2, <1>6 DEF Counts
  <2>3. lo <= now
    BY <1>1, <1>3
  <2>4. T = {t \in spent[s] \cup {now} : lo <= t /\ Counts(s, p, t)'}
    BY <1>2 DEF Current
  <2>5. S = {t \in spent[s] : lo <= t /\ Counts(s, o, t)}
    BY DEF Current
  <2> HIDE DEF S, T
  <2> QED
    BY <1>2, <2>1, <2>2, <2>3, <2>4, <2>5
<1>9. IsFiniteSet(S) /\ Cardinality(S) \in Nat
  <2>1. S \in SUBSET spent[s]
    BY DEF Current
  <2> QED
    BY <2>1, SpentFinite
<1>10. row'[s].use["daily"] <= Cardinality(T)
  <2>1. row[s].use["daily"] <= Cardinality(S)
    BY <1>1, <1>3
  <2> HIDE DEF S, T
  <2>2. Cardinality(T) = Cardinality(S) + 1
    BY <1>8, <1>9, FS_AddElement
  <2> QED
    BY <1>4, <1>9, <2>1, <2>2, DailyNumbers
<1>11. Current(s, p, row[s].start["daily"])' = T
  BY <1>4 DEF Current
<1>12. DailyOf(s, p)'
  <2> HIDE DEF T
  <2> QED
    BY <1>1, <1>2, <1>3, <1>4, <1>7, <1>10, <1>11 DEF DailyOf
<1> QED
  BY <1>12
\* A snapshot takes over the requests counted in the row, which no other target
\* that is worked on has.
LEMMA DailyCapture ==
  ASSUME TypeOK, TypeOK', "daily" \in Dims, NEW s \in Subs, NEW o \in [Time -> SUBSET Ids],
         DailyOf(s, o), NEW j \in Ids, Capture(j, s),
         \A k \in Ids : mem[k].targets[s].status # "resetting"
  PROVE  \E p \in [Time -> SUBSET Ids] : DailyOf(s, p)'
<1>1. /\ row[s].start["daily"] <= now
      /\ row[s].use["daily"] <= Cardinality(Current(s, o, row[s].start["daily"]))
      /\ \A i \in Ids : Snapshot(i, s, o)
  BY DEF DailyOf
<1>2. PICK p \in [Time -> SUBSET Ids] : \A t \in Time : p[t] = IF o[t] = {} THEN {j} ELSE o[t]
  <2> DEFINE f == [t \in Time |-> IF o[t] = {} THEN {j} ELSE o[t]]
  <2>1. f \in [Time -> SUBSET Ids] /\ \A t \in Time : f[t] = IF o[t] = {} THEN {j} ELSE o[t]
    OBVIOUS
  <2> HIDE DEF f
  <2> QED
    BY <2>1
<1>3. /\ mem'[j].targets[s].status = "resetting" /\ mem'[j].targets[s].before = row[s]
      /\ \A k \in Ids : k # j => mem'[k] = mem[k]
      /\ now' = now /\ row' = row /\ spent' = spent /\ applied' = applied
  <2>1. /\ OnlyTarget(mem, mem', j, s, mem'[j].targets[s])
        /\ mem'[j].targets[s].status = "resetting" /\ mem'[j].targets[s].before = row[s]
    BY CaptureFields
  <2>2. now' = now /\ row' = row /\ spent' = spent /\ applied' = applied
    BY DEF Capture
  <2> QED
    BY <2>1, <2>2 DEF OnlyTarget
<1>4. spent[s] \subseteq Time
  BY DailyNumbers
<1>5. \A t \in spent[s] : Counts(s, o, t) => p[t] = {j}
  BY <1>2, <1>4 DEF Counts
<1>6. \A t \in spent[s] : t \in spent'[s] /\ (Counts(s, o, t) => Counts(s, p, t)')
  <2> SUFFICES ASSUME NEW t \in spent[s], p[t] = {j} PROVE Counts(s, p, t)'
    BY <1>3, <1>5
  <2> QED
    BY <1>3 DEF Counts
<1>7. PICK lo \in Nat : lo = row[s].start["daily"]
  BY DailyNumbers
<1>8. row'[s].use["daily"] <= Cardinality(Current(s, p, row[s].start["daily"])')
  <2>1. /\ Cardinality(Current(s, o, lo)) <= Cardinality(Current(s, p, lo)')
        /\ Cardinality(Current(s, o, lo)) \in Nat /\ Cardinality(Current(s, p, lo)') \in Nat
    BY <1>6, CurrentGrows
  <2>2. Current(s, p, row[s].start["daily"])' = Current(s, p, lo)'
    BY <1>3, <1>7 DEF Current
  <2> QED
    BY <1>1, <1>3, <1>7, <2>1, <2>2, DailyNumbers
<1>9. row[s].use["daily"] <= Cardinality(Owned(s, p, j, lo)')
  <2> DEFINE S == Current(s, o, lo)
             T == {t \in spent[s] : lo <= t /\ p[t] = {j}}
  <2>1. Owned(s, p, j, lo)' = T
    BY <1>3 DEF Owned
  <2>2. S \subseteq T
    BY <1>5 DEF Current
  <2>3. S \in SUBSET spent[s] /\ T \in SUBSET spent[s]
    BY DEF Current
  <2>4. row[s].use["daily"] <= Cardinality(S)
    BY <1>1, <1>7
  <2> HIDE DEF S, T
  <2>5. IsFiniteSet(T) /\ Cardinality(T) \in Nat /\ Cardinality(S) \in Nat
    BY <2>3, SpentFinite
  <2>6. Cardinality(S) <= Cardinality(T)
    BY <2>2, <2>5, FS_Subset
  <2> QED
    BY <2>1, <2>4, <2>5, <2>6, DailyNumbers
<1>10. ASSUME NEW k \in Ids PROVE Snapshot(k, s, p)'
  <2>1. CASE k = j
    BY <1>3, <1>7, <1>9, <2>1 DEF Snapshot, Owned
  <2>2. CASE k # j
    <3>1. StillRecorded(k, s)
      BY <1>3, <2>2 DEF StillRecorded, SameRecord
    <3>2. \A t \in spent[s] : t \in spent'[s] /\ (o[t] = {k} => p[t] = {k})
      BY <1>2, <1>3, <1>4, <2>2
    <3> QED
      BY <1>1, <1>3, <3>1, <3>2, SnapshotStays
  <2> QED
    BY <2>1, <2>2
<1>11. DailyOf(s, p)'
  BY <1>1, <1>3, <1>8, <1>10 DEF DailyOf
<1> QED
  BY <1>11

\* A reset empties the row; what its snapshot charges for stays its own, or, if
\* the daily window was not reset, is counted in the row alone.
LEMMA DailyReset ==
  ASSUME TypeOK, TypeOK', "daily" \in Dims, NEW s \in Subs, NEW o \in [Time -> SUBSET Ids],
         DailyOf(s, o), NEW j \in Ids, ResetTarget(j, s)
  PROVE  \E p \in [Time -> SUBSET Ids] : DailyOf(s, p)'
<1> DEFINE D == mem[j].dims
<1>1. /\ mem[j].targets[s].status = "resetting" /\ mem'[j].targets[s].status = "succeeded"
      /\ mem'[j].targets[s].before = mem[j].targets[s].before /\ mem'[j].dims = D
      /\ row'[s] = ResetRow(row[s], D, now)
      /\ \A k \in Ids : k # j => mem'[k] = mem[k]
      /\ now' = now /\ spent' = spent /\ applied' = applied
  BY ResetFields DEF ResetTarget, OnlyTarget
<1>2. row[s] \in Row /\ now \in Time /\ now \in Nat
  BY StateParts
<1>3. /\ row'[s].start["daily"] = IF "daily" \in D THEN Start("daily", now)
                                  ELSE row[s].start["daily"]
      /\ row'[s].use["daily"] = IF "daily" \in D THEN 0 ELSE row[s].use["daily"]
  <2> HIDE DEF D
  <2> QED
    BY <1>1, <1>2, ResetRowType, ResetUse
<1>4. CASE "daily" \notin D
  <2> HIDE DEF D
  <2> QED
    BY <1>1, <1>3, <1>4, DailyDrop
<1>5. CASE "daily" \in D
  <2>1. row'[s].use["daily"] = 0 /\ row'[s].start["daily"] <= now
    BY <1>2, <1>3, <1>5, StartType
  <2>2. /\ row[s].start["daily"] <= now /\ \A i \in Ids : Snapshot(i, s, o)
    BY DEF DailyOf
  <2>3. row'[s].use["daily"] <= Cardinality(Current(s, o, row[s].start["daily"])')
    <3>1. PICK lo \in Nat : lo = row'[s].start["daily"]
      BY <2>1, RowFields DEF TypeOK
    <3> DEFINE T == {t \in spent[s] : lo <= t /\ Counts(s, o, t)'}
    <3>2. Current(s, o, row[s].start["daily"])' = T
      BY <1>1, <3>1 DEF Current
    <3>3. T \in SUBSET spent[s]
      OBVIOUS
    <3> HIDE DEF T
    <3>4. Cardinality(T) \in Nat
      BY <3>3, SpentFinite
    <3> QED
      BY <2>1, <3>2, <3>4
  <2>4. ASSUME NEW k \in Ids PROVE Snapshot(k, s, o)'
    <3>1. CASE k = j
      <4>1. mem[j].targets[s].before.use["daily"]
              <= Cardinality(Owned(s, o, j, mem[j].targets[s].before.start["daily"]))
        BY <1>1, <2>2 DEF Snapshot
      <4> QED
        BY <1>1, <3>1, <4>1 DEF Snapshot, Owned
    <3>2. CASE k # j
      <4>1. StillRecorded(k, s)
        BY <1>1, <3>2 DEF StillRecorded, SameRecord
      <4> QED
        BY <1>1, <2>2, <4>1, SnapshotStays
    <3> QED
      BY <3>1, <3>2
  <2>5. DailyOf(s, o)'
    BY <1>1, <2>1, <2>3, <2>4 DEF DailyOf
  <2> QED
    BY <2>5
<1> QED
  BY <1>4, <1>5

\* An undo of the daily window puts what its snapshot charges for back under
\* what the row counts; the two are different requests.
LEMMA DailyCommit ==
  ASSUME TypeOK, TypeOK', LoopInv, SoloInv, "daily" \in Dims, NEW s \in Subs,
         NEW o \in [Time -> SUBSET Ids], DailyOf(s, o), Commit, s = u.sub, NEW j \in Ids, j = u.id,
         RestoresDaily(row[s], mem[j].targets[s], mem[j].dims, u.at)
  PROVE  \E p \in [Time -> SUBSET Ids] : DailyOf(s, p)'
<1> DEFINE tg == mem[j].targets[s]
<1>1. /\ row[s].start["daily"] <= now
      /\ row[s].use["daily"] <= Cardinality(Current(s, o, row[s].start["daily"]))
      /\ \A i \in Ids : Snapshot(i, s, o)
  BY DEF DailyOf
<1>2. PICK p \in [Time -> SUBSET Ids] : \A t \in Time : p[t] = IF o[t] = {j} THEN {} ELSE o[t]
  <2> DEFINE f == [t \in Time |-> IF o[t] = {j} THEN {} ELSE o[t]]
  <2>1. f \in [Time -> SUBSET Ids] /\ \A t \in Time : f[t] = IF o[t] = {j} THEN {} ELSE o[t]
    OBVIOUS
  <2> HIDE DEF f
  <2> QED
    BY <2>1
<1>3. now' = now /\ spent' = spent /\ mem' = mem
  BY DEF Commit, events
<1>4. /\ tg.status = "succeeded" /\ "daily" \in mem[j].dims /\ applied[<<j, s>>] = 0
      /\ tg.before.start["daily"] = row[s].start["daily"] /\ applied'[<<j, s>>] = 1
      /\ \A k \in Ids : k # j => applied'[<<k, s>>] = applied[<<k, s>>]
  <2>1. /\ tg.status = "succeeded" /\ u.pc = "restoring"
        /\ applied'[<<j, s>>] = applied[<<j, s>>] + 1
        /\ \A c \in Ids \X Subs : c # <<j, s>> => applied'[c] = applied[c]
    BY CommitFields, UndoFields DEF LoopInv, Exclusive
  <2>2. applied[<<j, s>>] = 0
    BY <2>1 DEF SoloInv
  <2> QED
    BY <2>1, <2>2 DEF RestoresDaily
<1>5. PICK lo \in Nat : lo = row[s].start["daily"]
  BY DailyNumbers
<1>6. row'[s].use["daily"] = tg.before.use["daily"] + row[s].use["daily"]
      /\ row'[s].start["daily"] = lo
  <2> DEFINE P == Plan(row[s], tg, mem[j].dims, u.at)
  <2>1. row'[s] = Restored(row[s], tg, P) /\ row[s] \in Row /\ tg \in Target
    BY CommitFields, StateParts
  <2>2. "daily" \in P
    BY DEF Plan
  <2> HIDE DEF P, tg
  <2> QED
    BY <1>4, <1>5, <2>1, <2>2, RestoredType
<1>7. spent[s] \subseteq Time
  BY DailyNumbers
<1> DEFINE B == Owned(s, o, j, lo)
           F == Current(s, o, lo)
           G == {t \in spent[s] : lo <= t /\ Counts(s, p, t)'}
<1>8. Current(s, p, row[s].start["daily"])' = G
  BY <1>3, <1>6 DEF Current
<1>9. \A t \in spent[s] : /\ o[t] = {j} => ~Counts(s, o, t) /\ Counts(s, p, t)'
                          /\ Counts(s, o, t) => Counts(s, p, t)'
  <2> SUFFICES ASSUME NEW t \in spent[s]
               PROVE  /\ o[t] = {j} => ~Counts(s, o, t) /\ Counts(s, p, t)'
                      /\ Counts(s, o, t) => Counts(s, p, t)'
    OBVIOUS
  <2>1. p[t] = IF o[t] = {j} THEN {} ELSE o[t]
    BY <1>2, <1>7
  <2>2. CASE o[t] = {j}
    <3>1. p[t] = {}
      BY <2>1, <2>2
    <3>2. \A k \in Ids : o[t] = {k} => k = j
      BY <2>2
    <3>3. mem[j].targets[s].status # "resetting"
      BY <1>4
    <3>4. ~Counts(s, o, t)
      BY <2>2, <3>2, <3>3 DEF Counts
    <3> QED
      BY <3>1, <3>4 DEF Counts
  <2>3. CASE o[t] # {j}
    BY <1>3, <2>1, <2>3 DEF Counts
  <2> QED
    BY <2>2, <2>3
<1>10. B \subseteq G /\ F \subseteq G /\ B \cap F = {}
  BY <1>9 DEF Owned, Current
<1>11. /\ row[s].use["daily"] <= Cardinality(F) /\ tg.before.use["daily"] <= Cardinality(B)
       /\ row[s].use["daily"] \in Nat /\ tg.before.use["daily"] \in Nat
  BY <1>1, <1>4, <1>5, DailyNumbers DEF Snapshot
<1>12. row'[s].use["daily"] <= Cardinality(G)
  <2>1. B \in SUBSET spent[s] /\ F \in SUBSET spent[s] /\ G \in SUBSET spent[s]
    BY DEF Owned, Current
  <2> HIDE DEF B, F, G, tg
  <2>2. /\ IsFiniteSet(B) /\ IsFiniteSet(F) /\ IsFiniteSet(G)
        /\ Cardinality(B) \in Nat /\ Cardinality(F) \in Nat /\ Cardinality(G) \in Nat
    BY <2>1, SpentFinite
  <2>3. /\ IsFiniteSet(B \cup F)
        /\ Cardinality(B \cup F) = Cardinality(B) + Cardinality(F) - Cardinality(B \cap F)
    BY <2>2, FS_Union
  <2>4. Cardinality(B \cap F) = 0
    BY <1>10, FS_EmptySet
  <2>5. B \cup F \subseteq G
    BY <1>10
  <2>6. Cardinality(B \cup F) <= Cardinality(G)
    BY <2>2, <2>5, FS_Subset
  <2> QED
    BY <1>6, <1>11, <2>2, <2>3, <2>4, <2>6
<1>13. ASSUME NEW k \in Ids PROVE Snapshot(k, s, p)'
  <2>1. CASE k = j
    <3>1. mem'[k].targets[s].status = "succeeded" /\ applied'[<<k, s>>] = 1
      BY <1>3, <1>4, <2>1
    <3> QED
      BY <3>1 DEF Snapshot
  <2>2. CASE k # j
    <3>1. StillRecorded(k, s)
      BY <1>3 DEF StillRecorded, SameRecord
    <3>2. \A t \in spent[s] : t \in spent'[s] /\ (o[t] = {k} => p[t] = {k})
      BY <1>2, <1>3, <1>7, <2>2
    <3> QED
      BY <1>1, <1>4, <2>2, <3>1, <3>2, SnapshotStays
  <2> QED
    BY <2>1, <2>2
<1>14. DailyOf(s, p)'
  <2> HIDE DEF G
  <2> QED
    BY <1>1, <1>3, <1>5, <1>6, <1>8, <1>12, <1>13 DEF DailyOf
<1> QED
  BY <1>14
\* Every step: what concerns s in nothing but a window's end, and the rest.
LEMMA DailyKept ==
  ASSUME Overlap = FALSE, "daily" \in Dims
  PROVE  TypeOK /\ TypeOK' /\ LoopInv /\ SoloInv /\ DailyInv /\ [Next]_vars => DailyInv'
<1> SUFFICES ASSUME TypeOK, TypeOK', LoopInv, SoloInv, DailyInv, [Next]_vars, NEW s \in Subs
             PROVE  \E p \in [Time -> SUBSET Ids] : DailyOf(s, p)'
  BY DEF DailyInv
<1>1. PICK o \in [Time -> SUBSET Ids] : DailyOf(s, o)
  BY DEF DailyInv
<1>2. row[s] \in Row /\ now \in Time /\ now \in Nat
  BY StateParts
<1> DEFINE Kept == row'[s].use["daily"] = row[s].use["daily"]
                   /\ row'[s].start["daily"] = row[s].start["daily"]
           Afresh == row'[s].use["daily"] = 0 /\ row'[s].start["daily"] <= now'
<1>3. ASSUME spent'[s] = spent[s], now <= now', \A k \in Ids : StillRecorded(k, s),
             \A k \in Ids : applied'[<<k, s>>] = 0 => applied[<<k, s>>] = 0, Kept \/ Afresh
      PROVE  DailyOf(s, o)'
  BY <1>1, <1>3, DailySame
<1>4. mem' = mem => \A k \in Ids : StillRecorded(k, s)
  BY DEF StillRecorded, SameRecord
<1>5. ASSUME NEW D, NEW t \in Time, row'[s] = ResetRow(row[s], D, t), t = now'
      PROVE  Kept \/ Afresh
  <2>1. /\ row'[s].start["daily"] = IF "daily" \in D THEN Start("daily", t)
                                    ELSE row[s].start["daily"]
        /\ row'[s].use["daily"] = IF "daily" \in D THEN 0 ELSE row[s].use["daily"]
    BY <1>2, <1>5, ResetRowType, ResetUse
  <2>2. Start("daily", t) <= t
    BY StartType
  <2> QED
    BY <1>5, <2>1, <2>2
<1>6. CASE Quiet
  <2>1. mem' = mem /\ (applied' = applied \/ Commit)
    BY <1>6 DEF Quiet
  <2>2. CASE Tick
    <3>1. /\ now' = now + 1 /\ now' \in Time /\ row'[s] = ResetRow(row[s], Ended(row[s], now'), now')
          /\ spent' = spent /\ applied' = applied
      BY <2>2, TickFields DEF Tick
    <3> DEFINE D == Ended(row[s], now')
    <3>2. row'[s] = ResetRow(row[s], D, now')
      BY <3>1
    <3> HIDE DEF D
    <3>3. Kept \/ Afresh
      BY <1>5, <3>1, <3>2
    <3> QED
      BY <1>2, <1>3, <1>4, <2>1, <3>1, <3>3
  <2>3. CASE Commit
    <3>1. PICK j \in Ids : j = u.id
      BY <2>3, CommitFields, UndoFields
    <3> DEFINE tg == mem[j].targets[s]
    <3>2. CASE s = u.sub /\ RestoresDaily(row[s], tg, mem[j].dims, u.at)
      BY <1>1, <2>3, <3>1, <3>2, DailyCommit
    <3>3. CASE ~(s = u.sub /\ RestoresDaily(row[s], tg, mem[j].dims, u.at))
      <4>1. Kept
        <5>1. CASE s # u.sub
          <6>1. row'[s] = row[s]
            BY <2>3, <5>1, CommitFields
          <6> QED
            BY <6>1
        <5>2. CASE s = u.sub
          <6> DEFINE P == Plan(row[s], tg, mem[j].dims, u.at)
          <6>1. "daily" \notin P
            BY <3>3, <5>2 DEF Plan, Running
          <6>2. row'[s] = Restored(row[s], tg, P) /\ tg \in Target
            BY <2>3, <3>1, <5>2, CommitFields, StateParts
          <6> HIDE DEF P, tg
          <6> QED
            BY <1>2, <6>1, <6>2, RestoredType
        <5> QED
          BY <5>1, <5>2
      <4>2. now' = now /\ spent' = spent
        BY <2>3 DEF Commit
      <4>3. ASSUME NEW k \in Ids, applied'[<<k, s>>] = 0 PROVE applied[<<k, s>>] = 0
        <5>1. /\ applied'[<<u.id, u.sub>>] = applied[<<u.id, u.sub>>] + 1
              /\ \A c \in Ids \X Subs : c # <<u.id, u.sub>> => applied'[c] = applied[c]
              /\ u.id \in Ids /\ u.sub \in Subs
          BY <2>3, CommitFields, UndoFields
        <5>2. applied[<<u.id, u.sub>>] \in Nat
          BY <5>1, StateParts
        <5>3. <<k, s>> # <<u.id, u.sub>>
          BY <4>3, <5>1, <5>2
        <5> QED
          BY <4>3, <5>1, <5>3
      <4>4. now <= now'
        BY <1>2, <4>2
      <4> QED
        BY <1>3, <1>4, <2>1, <4>1, <4>2, <4>3, <4>4
    <3> QED
      BY <3>2, <3>3
  <2>4. CASE Spend(s)
    BY <1>1, <2>4, DailySpend
  <2>5. ASSUME NEW t \in Subs, Spend(t), t # s PROVE DailyOf(s, o)'
    <3>1. /\ row'[s] = row[s] /\ spent'[s] = spent[s] /\ now' = now /\ applied' = applied
      BY <2>5, StateParts DEF Spend, TypeOK
    <3>2. now <= now' /\ Kept
      BY <1>2, <3>1
    <3> QED
      BY <1>3, <1>4, <2>1, <3>1, <3>2
  <2>6. ASSUME NEW t \in Subs, OtherReset(t) PROVE DailyOf(s, o)'
    <3>1. now' = now /\ spent' = spent /\ applied' = applied
      BY <2>6 DEF OtherReset
    <3>2. Kept \/ Afresh
      <4>1. CASE t # s
        <5>1. row'[s] = row[s]
          BY <2>6, <4>1, OtherFields
        <5> QED
          BY <5>1
      <4>2. CASE t = s
        <5>1. PICK D \in SUBSET Dims : row'[s] = ResetRow(row[s], D, now)
          BY <2>6, <4>2, OtherFields
        <5> QED
          BY <1>2, <1>5, <3>1, <5>1
      <4> QED
        BY <4>1, <4>2
    <3>3. now <= now'
      BY <1>2, <3>1
    <3> QED
      BY <1>3, <1>4, <2>1, <3>1, <3>2, <3>3
  <2>7. CASE UNCHANGED <<now, row, spent>> /\ applied' = applied
    <3>1. now <= now' /\ Kept
      BY <1>2, <2>7
    <3> QED
      BY <1>3, <1>4, <2>1, <2>7, <3>1
  <2> QED
    BY <1>1, <1>6, <2>1, <2>2, <2>3, <2>4, <2>5, <2>6, <2>7 DEF Quiet
<1>7. ASSUME \A k \in Ids : StillRecorded(k, s), row'[s] = row[s],
             UNCHANGED <<now, spent, applied>>
      PROVE  DailyOf(s, o)'
  <2>1. now <= now' /\ Kept
    BY <1>2, <1>7
  <2> QED
    BY <1>3, <1>7, <2>1
<1>8. CASE Crash
  <2>1. /\ \A k \in Ids : SameRecord(mem, mem', k, s)
        /\ UNCHANGED <<now, row, spent, applied>>
    BY <1>8 DEF Crash, LoopInv, SameLoop, SameRecord
  <2> QED
    BY <1>7, <2>1 DEF StillRecorded
<1>9. ASSUME NEW j \in Ids, Detect(j) PROVE DailyOf(s, o)'
  <2>1. /\ mem[j].undo = "none" /\ \A k \in Ids : k # j => mem'[k] = mem[k]
        /\ mem'[j].targets = mem[j].targets
        /\ UNCHANGED <<now, row, spent, applied>>
    BY <1>9, DetectFields DEF Detect
  <2>2. mem[j].targets[s].status = "pending"
    BY <2>1 DEF LoopInv, Detected
  <2>3. \A k \in Ids : StillRecorded(k, s)
    BY <2>1, <2>2 DEF StillRecorded, SameRecord
  <2> QED
    BY <1>7, <2>1, <2>3
<1>10. ASSUME NEW j \in Ids, Done(j) PROVE DailyOf(s, o)'
  BY <1>4, <1>7, <1>10 DEF Done, events
<1>11. ASSUME NEW j \in Ids, NEW t \in Subs, LoopStep(j, t)
       PROVE  \E p \in [Time -> SUBSET Ids] : DailyOf(s, p)'
  <2>1. CASE t # s
    <3>1. \A k \in Ids : SameRecord(mem, mem', k, s)
      BY <1>11, <2>1 DEF LoopStep, OnlyTarget, SameRecord
    <3>2. row'[s] = row[s]
      <4>1. CASE Capture(j, t) \/ TargetFails(j, t)
        BY <4>1 DEF Capture, TargetFails
      <4>2. CASE ResetTarget(j, t)
        <5>1. \A r \in Subs : r # t => row'[r] = row[r]
          BY <4>2, ResetFields
        <5> QED
          BY <2>1, <5>1
      <4> QED
        BY <1>11, <4>1, <4>2 DEF LoopStep
    <3>3. spent' = spent /\ now' = now /\ applied' = applied
      BY <1>11 DEF LoopStep, Capture, ResetTarget, TargetFails
    <3> QED
      BY <1>7, <3>1, <3>2, <3>3 DEF StillRecorded
  <2>2. CASE t = s /\ Capture(j, s)
    <3>1. \A k \in Ids : mem[k].targets[s].status # "resetting"
      <4> SUFFICES ASSUME NEW k \in Ids, mem[k].targets[s].status = "resetting" PROVE FALSE
        OBVIOUS
      <4>1. k \in busy /\ j \in busy
        BY <2>2 DEF SoloInv, Capture
      <4>2. k = j
        BY <4>1 DEF SoloInv
      <4> QED
        BY <2>2, <4>2 DEF Capture
    <3> QED
      BY <1>1, <2>2, <3>1, DailyCapture
  <2>3. CASE t = s /\ ResetTarget(j, s)
    BY <1>1, <2>3, DailyReset
  <2>4. CASE t = s /\ TargetFails(j, s)
    <3>1. /\ mem'[j].targets[s].status = "failed" /\ \A k \in Ids : k # j => mem'[k] = mem[k]
      BY <2>4, FailsFields DEF OnlyTarget
    <3>2. now' = now /\ row' = row /\ spent' = spent /\ applied' = applied
      BY <2>4 DEF TargetFails
    <3> QED
      BY <1>1, <3>1, <3>2, DailyDrop
  <2> QED
    BY <1>11, <2>1, <2>2, <2>3, <2>4 DEF LoopStep
<1>12. ASSUME NEW j \in Ids, NEW t \in Subs, NEW v \in Undos, UndoMark(j, t, v)
       PROVE  DailyOf(s, o)'
  <2>1. SameReset(mem, mem', j) /\ UNCHANGED <<now, row, spent, applied>>
    BY <1>12 DEF UndoMark, MarkStep, MarkedIn
  <2>2. \A k \in Ids : SameRecord(mem, mem', k, s)
    BY <2>1 DEF SameReset, SameRecord
  <2> QED
    BY <1>7, <2>1, <2>2 DEF StillRecorded
<1> QED
  BY <1>6, <1>8, <1>9, <1>10, <1>11, <1>12, Steps DEF LoopInv
LEMMA DailyInit ==
  ASSUME "daily" \in Dims
  PROVE  Init => DailyInv
<1> SUFFICES ASSUME Init, NEW s \in Subs PROVE \E o \in [Time -> SUBSET Ids] : DailyOf(s, o)
  BY DEF DailyInv
<1>1. now = 0 /\ row[s] = Fresh /\ spent[s] = {}
      /\ \A i \in Ids : mem[i].targets[s].status = "pending"
  BY DEF Init
<1>2. Fresh.start["daily"] = 0 /\ Fresh.use["daily"] = 0
  BY DEF Fresh
<1>3. [t \in Time |-> {}] \in [Time -> SUBSET Ids]
  OBVIOUS
<1>4. PICK o \in [Time -> SUBSET Ids] : TRUE
  BY <1>3
<1>5. \A i \in Ids : Snapshot(i, s, o)
  BY <1>1 DEF Snapshot
<1>6. Current(s, o, row[s].start["daily"]) = {}
  BY <1>1 DEF Current
<1>7. row[s].use["daily"] <= Cardinality(Current(s, o, row[s].start["daily"]))
  <2>1. Cardinality(Current(s, o, row[s].start["daily"])) = 0
    BY <1>6, FS_EmptySet
  <2>2. row[s].use["daily"] = 0
    BY <1>1, <1>2
  <2> QED
    BY <2>1, <2>2
<1>8. row[s].start["daily"] <= now
  BY <1>1, <1>2
<1> QED
  BY <1>5, <1>7, <1>8 DEF DailyOf

LEMMA DailyBounds ==
  ASSUME TypeOK, DailyInv, "daily" \in Dims, NEW s \in Subs
  PROVE  row[s].use["daily"] <= Cardinality({t \in spent[s] : t >= row[s].start["daily"]})
<1>1. PICK o \in [Time -> SUBSET Ids] : DailyOf(s, o)
  BY DEF DailyInv
<1>2. PICK lo \in Nat : lo = row[s].start["daily"]
  BY DailyNumbers
<1> DEFINE F == Current(s, o, lo)
           G == {t \in spent[s] : t >= lo}
<1>3. F \subseteq G
  <2> SUFFICES ASSUME NEW t \in spent[s], lo <= t PROVE t >= lo
    BY DEF Current
  <2>1. t \in Nat
    BY DailyNumbers
  <2> QED
    BY <2>1
<1>4. F \in SUBSET spent[s] /\ G \in SUBSET spent[s]
  BY DEF Current
<1>5. row[s].use["daily"] <= Cardinality(F) /\ row[s].use["daily"] \in Nat
  BY <1>1, <1>2, DailyNumbers DEF DailyOf
<1> HIDE DEF F, G
<1>6. IsFiniteSet(G) /\ Cardinality(G) \in Nat /\ Cardinality(F) \in Nat
  BY <1>4, SpentFinite
<1>7. Cardinality(F) <= Cardinality(G)
  BY <1>3, <1>6, FS_Subset
<1>8. row[s].use["daily"] <= Cardinality(G)
  BY <1>5, <1>6, <1>7
<1> QED
  BY <1>2, <1>8 DEF G

\* Without those faults, and with one account's worker at a time, nobody is
\* charged for more than was consumed in the daily window either: the usage that
\* a snapshot takes over and the usage counted since are different requests, and
\* an undo joins them once (restore.go resolveRestoreWindows and Restore).
\* Two workers could snapshot the same daily usage, and a commit whose
\* acknowledgement is lost could be applied again.
THEOREM ChargedForRealWithoutFaults ==
  ASSUME Faultless, Overlap = FALSE
  PROVE  Spec => []UsageIsReal
<1>1. Spec => []LoopInv
  BY LoopInit, LoopKept, RollbackTypeCorrect, PTL DEF Spec
<1>2. TypeOK /\ LoopInv /\ SoloInv /\ [Next]_vars => SoloInv'
  BY SoloKept
<1>3. Spec => []SoloInv
  BY <1>1, <1>2, SoloInit, RollbackTypeCorrect, PTL DEF Spec
<1>4. CASE "daily" \notin Dims
  BY <1>4, ChargedForReal
<1>5. CASE "daily" \in Dims
  <2>1. Init => DailyInv
    BY <1>5, DailyInit
  <2>2. TypeOK /\ TypeOK' /\ LoopInv /\ SoloInv /\ DailyInv /\ [Next]_vars => DailyInv'
    BY <1>5, DailyKept
  <2>3. Spec => []DailyInv
    BY <1>1, <1>3, <2>1, <2>2, RollbackTypeCorrect, PTL DEF Spec
  <2>4. TypeOK /\ LongUsage /\ DailyInv => UsageIsReal
    <3> SUFFICES ASSUME TypeOK, LongUsage, DailyInv, NEW s \in Subs, NEW d \in Dims
                 PROVE  row[s].use[d] <= Cardinality({t \in spent[s] : t >= row[s].start[d]})
      BY DEF UsageIsReal
    <3>1. CASE d = "daily"
      BY <1>5, <3>1, DailyBounds
    <3>2. CASE d # "daily"
      BY <3>2 DEF LongUsage, Long
    <3> QED
      BY <3>1, <3>2
  <2> QED
    BY <2>3, <2>4, LongWindowsChargedForReal, RollbackTypeCorrect, PTL
<1> QED
  BY <1>4, <1>5

============================================================================
