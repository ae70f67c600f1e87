-------------------------- MODULE ResetEventProofs --------------------------
(***************************************************************************)
(* The event list in memory and on disk: proofs of OneEventPerWindow,      *)
(* SucceededMeansLanded, DiskVerdictFinal and SnapshotBeforeReset.         *)
(***************************************************************************)
EXTENDS ResetPipelineProofs, FiniteSetTheorems

InLoop == {"checking", "reading", "posting", "awaiting"}

\* Two versions of one event.
SameEvent(e, f) == e.id = f.id /\ e.src = f.src /\ e.win = f.win

\* One store on its own: its events are older than the next, have different
\* ids and windows, and are about windows its fuse has reached.
Listed(st) ==
  /\ \A e \in st.events : e.id < nextId /\ e.win <= st.fuse[e.src]
  /\ \A e, f \in st.events : e.id = f.id => e = f
  /\ \A e, f \in st.events : e.src = f.src /\ e.win = f.win => e.id = f.id

\* A success is only written when Sub2API has executed the call.
Landed(st) ==
  \A e \in st.events : \A t \in Subs :
    e.status[t] = "succeeded" => landed[[src |-> e.src, win |-> e.win, sub |-> t]] > 0

\* Memory follows the disk: an event in both is the same, and what the disk
\* calls final memory does not call otherwise.
Follows(st, old) ==
  \A e \in old.events, f \in st.events :
    e.id = f.id =>
      SameEvent(e, f) /\ \A t \in Subs : e.status[t] \in Final => f.status[t] = e.status[t]

\* A worker and its event: before it is recorded no store has one for the
\* window, afterwards the identifier is that event's only, and what the worker
\* has still to do is not final.
EventInv(s) ==
  /\ w[s].pc \in {"confirmed", "resolved"} =>
       \A st \in {mem, disk} : \A e \in st.events : ~(e.src = s /\ e.win = w[s].win)
  /\ w[s].pc \in Recorded =>
       /\ w[s].id < nextId
       /\ \A st \in {mem, disk} : \A e \in st.events :
            e.id = w[s].id => e.src = s /\ e.win = w[s].win
  /\ w[s].pc \in InLoop \/ (w[s].pc = "notifying" /\ w[s].acting # FALSE) =>
       \A e \in mem.events : e.id = w[s].id =>
         \A t \in w[s].todo : e.status[t] \notin Final

EventsInv ==
  /\ Listed(mem) /\ Listed(disk) /\ Landed(mem) /\ Landed(disk)
  /\ Follows(mem, disk) /\ \A s \in Sources : EventInv(s)

----------------------------------------------------------------------------
(* What a step may do to the stores.                                       *)

\* Everything but a crash: the file stays or takes the whole of memory, and
\* fuses, executed calls and identifiers only advance.
Grows ==
  /\ mem' \in Store
  /\ disk' = disk \/ disk' = mem'
  /\ \A s \in Sources : mem.fuse[s] <= mem'.fuse[s]
  /\ \A c \in Call : landed[c] > 0 => landed'[c] > 0
  /\ nextId' \in Nat /\ nextId <= nextId'

\* A worker's write: one target of its own event, still to do and afterwards
\* not to do any more or not final; a success only of an executed call.
Writes(s, t, v, snap) ==
  /\ w[s].pc \in InLoop /\ t \in w[s].todo
  /\ mem' = SetTarget(mem, w[s].id, t, v, snap)
  /\ v = "succeeded" => landed[[src |-> s, win |-> w[s].win, sub |-> t]] > 0
  /\ t \notin w'[s].todo \/ v \notin Final

\* How a worker goes on: it drops what it knows, or keeps its event and window
\* and adds nothing to what is to do.
GoesOn(s) ==
  \/ w'[s].pc \in {"sampling", "confirming", "done"}
  \/ /\ w[s].pc = "confirmed" /\ w'[s].pc = "resolved" /\ w'[s].win = w[s].win
  \/ /\ w[s].pc \in InLoop \/ (w[s].pc = "notifying" /\ w[s].acting # FALSE)
     /\ w'[s].pc \in InLoop \cup {"reporting"}
     /\ w'[s].id = w[s].id /\ w'[s].win = w[s].win /\ w'[s].todo \subseteq w[s].todo

Rewritten(e, i, t, v, snap) ==
  IF e.id = i THEN [e EXCEPT !.status[t] = v, !.before = @ \cup snap] ELSE e

\* The events after a write are the events before it, one of them rewritten.
LEMMA SetTargetEvents ==
  ASSUME NEW st \in Store, NEW i, NEW t, NEW v, NEW snap
  PROVE  SetTarget(st, i, t, v, snap).events = {Rewritten(e, i, t, v, snap) : e \in st.events}
BY DEF SetTarget, Rewritten, Store

LEMMA RewrittenEvent ==
  ASSUME NEW e \in Event, NEW i, NEW t, NEW v, NEW snap
  PROVE  /\ SameEvent(e, Rewritten(e, i, t, v, snap))
         /\ e.id # i => Rewritten(e, i, t, v, snap) = e
         /\ e.id = i => /\ \A u \in Subs : Rewritten(e, i, t, v, snap).status[u] = IF u = t THEN v ELSE e.status[u]
                        /\ e.before \subseteq Rewritten(e, i, t, v, snap).before
                        /\ snap \subseteq Rewritten(e, i, t, v, snap).before
<1>1. LET f == [e EXCEPT !.status[t] = v, !.before = @ \cup snap] IN
        /\ f.id = e.id /\ f.src = e.src /\ f.win = e.win
        /\ \A u \in Subs : f.status[u] = IF u = t THEN v ELSE e.status[u]
        /\ f.before = e.before \cup snap
  BY DEF Event
<1> QED
  BY <1>1 DEF Rewritten, SameEvent

LEMMA SaveGrows ==
  ASSUME IInv, NEW st \in Store, NEW ok, Save(st, ok),
         \A s \in Sources : mem.fuse[s] <= st.fuse[s],
         landed' = landed, nextId' = nextId \/ nextId' = nextId + 1
  PROVE  Grows
BY DEF IInv, TypeOK, Grows, Save, Store

LEMMA FuseRefl == ASSUME mem \in Store PROVE \A s \in Sources : mem.fuse[s] <= mem.fuse[s]
BY DEF Store

\* A verdict rewrites one target of the worker's event, or nothing.
LEMMA VerdictWrites ==
  ASSUME IInv, NEW i, NEW t \in Subs, NEW v \in Status, Verdict(i, t, v),
         UNCHANGED <<landed, nextId>>
  PROVE  Grows /\ (mem' = mem \/ mem' = SetTarget(mem, i, t, v, {}))
<1>0. mem \in Store /\ disk \in Store /\ nextId \in Nat /\ {} \in SUBSET Subs
  BY DEF IInv, TypeOK
<1>1. CASE UNCHANGED store
  BY <1>0, <1>1, FuseRefl DEF store, Grows
<1>2. CASE \E ok \in SaveOutcomes : Save(SetTarget(mem, i, t, v, {}), ok)
  <2>1. /\ SetTarget(mem, i, t, v, {}) \in Store
        /\ SetTarget(mem, i, t, v, {}).fuse = mem.fuse
    BY <1>0, SetTargetType
  <2>2. Grows
    BY <1>0, <1>2, <2>1, SaveGrows, FuseRefl
  <2> QED
    BY <1>2, <2>2 DEF Save
<1> QED
  BY <1>1, <1>2 DEF Verdict

LEMMA KeepGrows ==
  ASSUME IInv, UNCHANGED store \/ \E ok \in SaveOutcomes : Save(mem, ok),
         UNCHANGED <<landed, nextId>>
  PROVE  Grows /\ mem' = mem
<1>1. mem \in Store /\ disk \in Store /\ nextId \in Nat
  BY DEF IInv, TypeOK
<1>2. CASE UNCHANGED store
  BY <1>1, <1>2, FuseRefl DEF store, Grows
<1>3. CASE \E ok \in SaveOutcomes : Save(mem, ok)
  BY <1>1, <1>3, FuseRefl, SaveGrows DEF Save
<1> QED
  BY <1>2, <1>3

\* The turn of a target ends with its verdict and it leaves the list.
LEMMA TurnWrites ==
  ASSUME IInv, NEW s \in Sources, NextTarget(s), NEW v \in Status,
         w[s].pc \in {"reading", "posting", "awaiting"},
         Verdict(w[s].id, w[s].cur, v), UNCHANGED <<landed, nextId>>,
         v = "succeeded" => landed[CallOf(s)] > 0
  PROVE  /\ Grows /\ GoesOn(s)
         /\ \/ mem' = mem
            \/ \E t \in Subs, x \in Status, snap \in SUBSET Subs : Writes(s, t, x, snap)
<1>1. w[s].cur \in Subs /\ w[s].cur \in w[s].todo /\ w \in [Sources -> Worker]
  BY CurType DEF IInv, TypeOK
<1>2. Grows /\ (mem' = mem \/ mem' = SetTarget(mem, w[s].id, w[s].cur, v, {}))
  BY <1>1, VerdictWrites
<1>3. /\ w'[s].pc = "checking" /\ w'[s].id = w[s].id /\ w'[s].win = w[s].win
      /\ w'[s].todo = w[s].todo \ {w[s].cur}
  BY <1>1 DEF NextTarget, Worker
<1>4. GoesOn(s)
  BY <1>3 DEF GoesOn, InLoop
<1>5. mem' = SetTarget(mem, w[s].id, w[s].cur, v, {}) => Writes(s, w[s].cur, v, {})
  BY <1>1, <1>3 DEF Writes, InLoop, CallOf
<1>6. {} \in SUBSET Subs
  OBVIOUS
<1> QED
  BY <1>1, <1>2, <1>4, <1>5, <1>6

LEMMA PrepareWrites ==
  ASSUME IInv, NEW s \in Sources, NEW ok \in SaveOutcomes, Prepare(s, ok)
  PROVE  /\ Grows /\ GoesOn(s)
         /\ \/ mem' = mem
            \/ \E t \in Subs, x \in Status, snap \in SUBSET Subs : Writes(s, t, x, snap)
<1> DEFINE c == w[s].cur
<1>1. /\ c \in Subs /\ c \in w[s].todo /\ w \in [Sources -> Worker]
      /\ mem \in Store /\ w[s].pc = "reading" /\ UNCHANGED <<landed, nextId>>
  BY CurType DEF IInv, TypeOK, Prepare, At, world
<1>2. GoesOn(s)
  BY <1>1 DEF Prepare, NextTarget, Goto, GoesOn, InLoop, Worker
<1>3. CASE UNCHANGED store
  BY <1>1, <1>2, <1>3, KeepGrows
<1>4. CASE Save(SetTarget(mem, w[s].id, c, "resetting", {c}), ok)
  <2>1. "resetting" \in Status \ Final /\ {c} \in SUBSET Subs
    BY <1>1 DEF Status, Final
  <2>2. /\ SetTarget(mem, w[s].id, c, "resetting", {c}) \in Store
        /\ SetTarget(mem, w[s].id, c, "resetting", {c}).fuse = mem.fuse
    BY <1>1, <2>1, SetTargetType
  <2>3. Grows
    BY <1>1, <1>4, <2>2, SaveGrows, FuseRefl
  <2>4. mem' = SetTarget(mem, w[s].id, c, "resetting", {c})
    BY <1>4 DEF Save
  <2>5. Writes(s, c, "resetting", {c})
    BY <1>1, <2>1, <2>4 DEF Writes, InLoop
  <2> QED
    BY <1>1, <1>2, <2>1, <2>3, <2>5
<1> QED
  BY <1>3, <1>4 DEF Prepare

\* What one step of a worker does to the stores and to what it knows.
LEMMA WorkerStore ==
  ASSUME IInv, NEW s \in Sources, WorkerStep(s)
  PROVE  \/ ConfirmReset(s)
         \/ \E groupOK \in BOOLEAN, ok \in SaveOutcomes : RecordEvent(s, groupOK, ok)
         \/ /\ Grows /\ GoesOn(s) /\ (\E v : w' = [w EXCEPT ![s] = v])
            /\ nextId' = nextId
            /\ \/ mem'.events = mem.events
               \/ \E t \in Subs, v \in Status, snap \in SUBSET Subs : Writes(s, t, v, snap)
<1>1. /\ w \in [Sources -> Worker] /\ mem \in Store
  BY DEF IInv, TypeOK
<1>2. CASE Launch(s) \/ SampleCandidate(s) \/ NoMoreTargets(s)
  <2>1. UNCHANGED store /\ UNCHANGED <<landed, nextId>> /\ (\E v : w' = [w EXCEPT ![s] = v])
    BY <1>2 DEF Launch, SampleCandidate, NoMoreTargets, Goto, world
  <2>2. GoesOn(s)
    <3>1. CASE Launch(s) \/ SampleCandidate(s)
      <4>1. w'[s].pc \in {"sampling", "confirming"}
        BY <1>1, <3>1 DEF Launch, SampleCandidate, Goto, Worker
      <4> QED
        BY <4>1 DEF GoesOn
    <3>2. CASE NoMoreTargets(s)
      <4>1. /\ w[s].pc = "checking" /\ w'[s].pc = "reporting"
            /\ w'[s].id = w[s].id /\ w'[s].win = w[s].win /\ w'[s].todo = w[s].todo
        BY <1>1, <3>2 DEF NoMoreTargets, Goto, At, Worker
      <4> QED
        BY <4>1 DEF GoesOn, InLoop
    <3> QED
      BY <1>2, <3>1, <3>2
  <2> QED
    BY <2>1, <2>2, KeepGrows
<1>3. CASE Resolve(s)
  <2>1. UNCHANGED store /\ UNCHANGED <<landed, nextId>> /\ (\E v : w' = [w EXCEPT ![s] = v])
    BY <1>3 DEF Resolve, world
  <2>2. w[s].pc = "confirmed" /\ w'[s].pc = "resolved" /\ w'[s].win = w[s].win
    BY <1>1, <1>3 DEF Resolve, At, Worker
  <2> QED
    BY <2>1, <2>2, KeepGrows DEF GoesOn
<1>4. CASE LaunchCancelled(s) \/ SampleSettles(s) \/ NotifyReset(s) \/ NotifyDetection(s)
  <2>1. /\ UNCHANGED <<landed, nextId>> /\ (\E v : w' = [w EXCEPT ![s] = v])
        /\ (UNCHANGED store \/ \E ok \in SaveOutcomes : Save(mem, ok))
    BY <1>4 DEF LaunchCancelled, SampleSettles, NotifyReset, NotifyDetection, Finish, Goto,
       MayFlush, world, store
  <2>2. GoesOn(s)
    <3>1. CASE Finish(s)
      BY <1>1, <3>1 DEF Finish, NoWorker, GoesOn
    <3>2. CASE NotifyDetection(s) /\ w[s].acting
      <4>1. w[s].pc = "notifying" /\ Goto(s, "checking")
        BY <3>2 DEF NotifyDetection, At
      <4> QED
        BY <1>1, <3>2, <4>1 DEF Goto, GoesOn, InLoop, Worker
    <3>3. CASE NotifyDetection(s) /\ ~w[s].acting
      BY <3>1, <3>3 DEF NotifyDetection
    <3> QED
      BY <1>4, <3>1, <3>2, <3>3 DEF LaunchCancelled, SampleSettles, NotifyReset
  <2> QED
    BY <2>1, <2>2, KeepGrows
<1>5. CASE ConfirmRejected(s)
  <2>1. /\ UNCHANGED <<landed, nextId>> /\ Finish(s) /\ w[s].prev = mem.fuse[s]
        /\ \/ UNCHANGED store
           \/ \E ok \in SaveOutcomes : Save([mem EXCEPT !.fuse[s] = w[s].prev], ok)
    BY <1>5 DEF ConfirmRejected, world, IInv, WorkerInv
  <2>2. [mem EXCEPT !.fuse[s] = w[s].prev] = mem
    BY <1>1, <2>1 DEF Store
  <2>3. GoesOn(s) /\ (\E v : w' = [w EXCEPT ![s] = v])
    BY <1>1, <2>1 DEF Finish, NoWorker, GoesOn
  <2> QED
    BY <2>1, <2>2, <2>3, KeepGrows
<1>6. CASE \E t \in Subs : CheckTarget(s, t)
  <2>1. PICK t \in Subs : CheckTarget(s, t)
    BY <1>6
  <2>2. /\ UNCHANGED <<landed, nextId>> /\ (\E v : w' = [w EXCEPT ![s] = v])
        /\ w[s].pc = "checking" /\ t \in w[s].todo
    BY <2>1 DEF CheckTarget, world, At, IsNext
  <2>3. GoesOn(s)
    BY <1>1, <2>1 DEF CheckTarget, GoesOn, InLoop, At, Worker
  <2>4. CASE UNCHANGED store
    BY <2>2, <2>3, <2>4, KeepGrows
  <2>5. CASE w' = [w EXCEPT ![s].todo = @ \ {t}] /\ Verdict(w[s].id, t, "cancelled")
    <3>1. t \notin w'[s].todo /\ "cancelled" \in Status /\ {} \in SUBSET Subs
      BY <1>1, <2>5 DEF Status, Worker
    <3>2. Grows /\ (mem' = mem \/ mem' = SetTarget(mem, w[s].id, t, "cancelled", {}))
      BY <2>2, <2>5, <3>1, VerdictWrites
    <3>3. mem' = SetTarget(mem, w[s].id, t, "cancelled", {}) => Writes(s, t, "cancelled", {})
      BY <2>2, <3>1 DEF Writes, InLoop
    <3> QED
      BY <2>2, <2>3, <3>1, <3>2, <3>3
  <2> QED
    BY <2>1, <2>4, <2>5 DEF CheckTarget
<1>7. CASE ReadFails(s) \/ ResetFails(s) \/ ResetSucceeds(s)
  <2>1. /\ UNCHANGED <<landed, nextId>> /\ NextTarget(s)
        /\ w[s].pc \in {"reading", "posting", "awaiting"}
    BY <1>7 DEF ReadFails, ResetFails, ResetSucceeds, At, world
  <2>2. \E v \in Status : /\ Verdict(w[s].id, w[s].cur, v)
                          /\ v = "succeeded" => landed[CallOf(s)] > 0
    BY <1>7 DEF ReadFails, ResetFails, ResetSucceeds, Status
  <2>3. \E v : w' = [w EXCEPT ![s] = v]
    BY <2>1 DEF NextTarget
  <2> QED
    BY <2>1, <2>2, <2>3, TurnWrites
<1>8. CASE \E ok \in SaveOutcomes : Prepare(s, ok)
  <2>1. (\E v : w' = [w EXCEPT ![s] = v]) /\ nextId' = nextId
    BY <1>8 DEF Prepare, Goto, NextTarget, world
  <2> QED
    BY <1>8, <2>1, PrepareWrites
<1>9. CASE Post(s)
  <2>1. UNCHANGED store /\ UNCHANGED <<landed, nextId>> /\ Goto(s, "awaiting") /\ w[s].pc = "posting"
    BY <1>9 DEF Post, At
  <2>2. GoesOn(s) /\ (\E v : w' = [w EXCEPT ![s] = v])
    BY <1>1, <2>1 DEF Goto, GoesOn, InLoop, Worker
  <2> QED
    BY <2>1, <2>2, KeepGrows
<1> QED
  BY <1>2, <1>3, <1>4, <1>5, <1>6, <1>7, <1>8, <1>9 DEF WorkerStep

----------------------------------------------------------------------------
(* The stores after a step.                                                *)

Stores == Listed(mem) /\ Listed(disk) /\ Landed(mem) /\ Landed(disk) /\ Follows(mem, disk)

\* The stores after a step, and the file against what it was.
StoresKept == Stores' /\ Follows(disk', disk)
EventsKept == EventsInv' /\ Follows(disk', disk)

\* The file is what it was or the whole of memory, so what holds of memory
\* after the step holds of the file.
LEMMA DiskFollows ==
  ASSUME IInv, Stores, Grows, Listed(mem)', Landed(mem)', Follows(mem', disk)
  PROVE  StoresKept
<1>1. mem \in Store /\ disk \in Store /\ nextId \in Nat /\ nextId' \in Nat /\ nextId <= nextId'
  BY DEF IInv, TypeOK, Grows
<1>2. CASE disk' = disk
  <2>1. Listed(disk)'
    <3>1. ASSUME NEW e \in disk.events PROVE e.id < nextId'
      <4>1. e.id \in Nat /\ e.id < nextId
        BY <1>1 DEF Stores, Listed, Store, Event
      <4> QED
        BY <1>1, <4>1
    <3> QED
      BY <1>2, <3>1 DEF Stores, Listed
  <2>2. Landed(disk)'
    <3> SUFFICES ASSUME NEW e \in disk.events, NEW t \in Subs, e.status[t] = "succeeded"
                 PROVE  landed'[[src |-> e.src, win |-> e.win, sub |-> t]] > 0
      BY <1>2 DEF Landed
    <3>1. [src |-> e.src, win |-> e.win, sub |-> t] \in Call
      BY <1>1, CallType DEF Store, Event
    <3> QED
      BY <3>1 DEF Stores, Landed, Grows
  <2>3. Follows(disk', disk)
    BY <1>2 DEF Stores, Listed, Follows, SameEvent
  <2> QED
    BY <1>2, <2>1, <2>2, <2>3 DEF Stores, StoresKept
<1>3. CASE disk' = mem'
  <2>1. Listed(disk)' /\ Landed(disk)'
    BY <1>3 DEF Listed, Landed
  <2>2. Follows(mem, disk)'
    BY <1>3 DEF Listed, Follows, SameEvent
  <2> QED
    BY <1>3, <2>1, <2>2 DEF Stores, StoresKept
<1> QED
  BY <1>2, <1>3 DEF Grows

\* A step that rewrites events one by one, keeping what identifies them, what
\* is final, and writing no success of its own accord.
LEMMA RewriteStores ==
  ASSUME IInv, Stores, Grows, NEW F,
         mem'.events = {F[e] : e \in mem.events},
         \A e \in mem.events :
           /\ SameEvent(e, F[e])
           /\ \A t \in Subs :
                /\ e.status[t] \in Final => F[e].status[t] = e.status[t]
                /\ F[e].status[t] = "succeeded" =>
                     \/ e.status[t] = "succeeded"
                     \/ landed[[src |-> e.src, win |-> e.win, sub |-> t]] > 0
  PROVE  StoresKept
<1>1. mem \in Store /\ disk \in Store /\ nextId \in Nat /\ nextId' \in Nat /\ nextId <= nextId'
      /\ mem' \in Store
  BY DEF IInv, TypeOK, Grows
<1>2. \A f \in mem'.events : \E e \in mem.events : f = F[e] /\ SameEvent(e, f)
  OBVIOUS
<1>3. Listed(mem)'
  <2>1. ASSUME NEW f \in mem'.events PROVE f.id < nextId' /\ f.win <= mem'.fuse[f.src]
    <3>1. PICK e \in mem.events : SameEvent(e, f)
      BY <1>2
    <3>2. e.id \in Nat /\ e.id < nextId /\ e.win <= mem.fuse[e.src]
          /\ e.src \in Sources /\ e.win \in Nat
      BY <1>1 DEF Stores, Listed, Store, Event
    <3>3. mem.fuse[e.src] \in Nat /\ mem'.fuse[e.src] \in Nat
          /\ mem.fuse[e.src] <= mem'.fuse[e.src]
      BY <1>1, <3>2 DEF Store, Grows
    <3> QED
      BY <1>1, <3>1, <3>2, <3>3 DEF SameEvent
  <2>2. ASSUME NEW f \in mem'.events, NEW g \in mem'.events
        PROVE  /\ f.id = g.id => f = g
               /\ f.src = g.src /\ f.win = g.win => f.id = g.id
    <3>1. PICK e \in mem.events : f = F[e] /\ SameEvent(e, f)
      BY <1>2
    <3>2. PICK h \in mem.events : g = F[h] /\ SameEvent(h, g)
      BY <1>2
    <3>3. e.id = h.id => e = h
      BY DEF Stores, Listed
    <3>4. e.src = h.src /\ e.win = h.win => e.id = h.id
      BY DEF Stores, Listed
    <3> QED
      BY <3>1, <3>2, <3>3, <3>4 DEF SameEvent
  <2> QED
    BY <2>1, <2>2 DEF Listed
<1>4. Landed(mem)'
  <2> SUFFICES ASSUME NEW f \in mem'.events, NEW t \in Subs, f.status[t] = "succeeded"
               PROVE  landed'[[src |-> f.src, win |-> f.win, sub |-> t]] > 0
    BY DEF Landed
  <2>1. PICK e \in mem.events : f = F[e] /\ SameEvent(e, f)
    BY <1>2
  <2>2. landed[[src |-> e.src, win |-> e.win, sub |-> t]] > 0
    BY <2>1 DEF Stores, Landed
  <2>3. [src |-> e.src, win |-> e.win, sub |-> t] \in Call
    BY <1>1, CallType DEF Store, Event
  <2> QED
    BY <2>1, <2>2, <2>3 DEF Grows, SameEvent
<1>5. Follows(mem', disk)
  <2> SUFFICES ASSUME NEW e \in disk.events, NEW f \in mem'.events, e.id = f.id
               PROVE  /\ SameEvent(e, f)
                      /\ \A t \in Subs : e.status[t] \in Final => f.status[t] = e.status[t]
    BY DEF Follows
  <2>1. PICK h \in mem.events : f = F[h] /\ SameEvent(h, f)
    BY <1>2
  <2>2. SameEvent(e, h)
        /\ \A t \in Subs : e.status[t] \in Final => h.status[t] = e.status[t]
    BY <2>1 DEF Stores, Follows, SameEvent
  <2> QED
    BY <2>1, <2>2 DEF SameEvent
<1> QED
  BY <1>3, <1>4, <1>5, DiskFollows

LEMMA KeepStores ==
  ASSUME IInv, Stores, Grows, mem'.events = mem.events
  PROVE  StoresKept
<1> DEFINE F == [e \in mem.events |-> e]
<1>1. mem'.events = {F[e] : e \in mem.events}
  OBVIOUS
<1>2. \A e \in mem.events : SameEvent(e, F[e])
  BY DEF SameEvent
<1> QED
  BY <1>1, <1>2, RewriteStores

\* A worker writes only to its own event and to a target still to do, which is
\* therefore not final.
LEMMA WriteStores ==
  ASSUME IInv, EventsInv, Grows, NEW s \in Sources,
         NEW t \in Subs, NEW v \in Status, NEW snap \in SUBSET Subs, Writes(s, t, v, snap)
  PROVE  StoresKept
<1> DEFINE F == [e \in mem.events |-> Rewritten(e, w[s].id, t, v, snap)]
<1>1. mem \in Store /\ w[s] \in Worker
  BY DEF IInv, TypeOK
<1>2. mem'.events = {Rewritten(e, w[s].id, t, v, snap) : e \in mem.events}
  <2>1. mem' = SetTarget(mem, w[s].id, t, v, snap)
    BY DEF Writes
  <2> QED
    BY <1>1, <2>1, SetTargetEvents
<1>3. ASSUME NEW e \in mem.events, NEW f, f = Rewritten(e, w[s].id, t, v, snap)
      PROVE  /\ SameEvent(e, f) /\ (e.id # w[s].id => f = e)
             /\ e.id = w[s].id => \A u \in Subs : f.status[u] = IF u = t THEN v ELSE e.status[u]
  <2>1. e \in Event
    BY <1>1 DEF Store
  <2> DEFINE i == w[s].id
  <2>2. f = Rewritten(e, i, t, v, snap)
    BY <1>3
  <2> HIDE DEF i
  <2>3. /\ SameEvent(e, f) /\ (e.id # i => f = e)
        /\ e.id = i => \A u \in Subs : f.status[u] = IF u = t THEN v ELSE e.status[u]
    BY <2>1, <2>2, RewrittenEvent
  <2> QED
    BY <2>3 DEF i
<1>4. \A e \in mem.events : F[e] = Rewritten(e, w[s].id, t, v, snap)
  OBVIOUS
<1> HIDE DEF F
<1>5. mem'.events = {F[e] : e \in mem.events}
  BY <1>2, <1>4
<1>6. ASSUME NEW e \in mem.events
      PROVE  /\ SameEvent(e, F[e])
             /\ \A u \in Subs :
                  /\ e.status[u] \in Final => F[e].status[u] = e.status[u]
                  /\ F[e].status[u] = "succeeded" =>
                       \/ e.status[u] = "succeeded"
                       \/ landed[[src |-> e.src, win |-> e.win, sub |-> u]] > 0
  <2>1. /\ SameEvent(e, F[e]) /\ (e.id # w[s].id => F[e] = e)
        /\ e.id = w[s].id => \A u \in Subs : F[e].status[u] = IF u = t THEN v ELSE e.status[u]
    BY <1>3, <1>4
  <2>2. e \in Event
    BY <1>1 DEF Store
  <2>3. CASE e.id # w[s].id
    BY <2>1, <2>3
  <2>4. CASE e.id = w[s].id
    <3>1. w[s].pc \in Recorded /\ w[s].pc \in InLoop /\ t \in w[s].todo
      BY DEF Writes, InLoop, Recorded
    <3>2. e.src = s /\ e.win = w[s].win /\ e.status[t] \notin Final
      BY <2>4, <3>1 DEF EventsInv, EventInv
    <3>3. \A u \in Subs : F[e].status[u] = IF u = t THEN v ELSE e.status[u]
      BY <2>1, <2>2, <2>4 DEF Event
    <3>4. v = "succeeded" => landed[[src |-> e.src, win |-> e.win, sub |-> t]] > 0
      BY <3>2 DEF Writes
    <3> QED
      BY <2>1, <3>2, <3>3, <3>4
  <2> QED
    BY <2>3, <2>4
<1>7. Stores
  BY DEF EventsInv, Stores, EventsKept, StoresKept
<1> QED
  BY <1>6, <1>5, <1>7, RewriteStores

\* The event a worker records is the first of its window, and its identifier is new.
LEMMA RecordStores ==
  ASSUME IInv, EventsInv, NEW s \in Sources, NEW groupOK \in BOOLEAN,
         NEW ok \in SaveOutcomes, RecordEvent(s, groupOK, ok)
  PROVE  /\ StoresKept /\ Grows /\ nextId' = nextId + 1
         /\ \A f \in mem'.events :
              \/ f \in mem.events
              \/ /\ f.id = nextId /\ f.src = s /\ f.win = w[s].win
                 /\ (groupOK => \A t \in w[s].todo : f.status[t] \notin Final)
<1> DEFINE e == [id |-> nextId, src |-> s, win |-> w[s].win, before |-> {},
                 status |-> [t \in Subs |->
                    IF t \notin w[s].todo THEN "none"
                    ELSE IF groupOK THEN "pending" ELSE "skipped"]]
           st == [mem EXCEPT !.events = Newest(mem.events \cup {e})]
<1>1. /\ w[s] \in Worker /\ mem \in Store /\ disk \in Store /\ nextId \in Nat
      /\ w[s].pc = "resolved" /\ w[s].win = mem.fuse[s] /\ w[s].win \in 1..MaxWindow
  <2>1. w[s] \in Worker /\ w[s].pc = "resolved" /\ WorkerInv(s)
    BY DEF IInv, TypeOK, RecordEvent, At
  <2>2. w[s].win = mem.fuse[s] /\ w[s].win > 0 /\ w[s].win \in 0..MaxWindow
    BY <2>1 DEF WorkerInv, Acting, Worker
  <2> QED
    BY <2>1, <2>2 DEF IInv, TypeOK
<1>2. /\ e.id = nextId /\ e.src = s /\ e.win = w[s].win
      /\ \A t \in Subs : /\ e.status[t] \in Status /\ e.status[t] # "succeeded"
                         /\ groupOK /\ t \in w[s].todo => e.status[t] = "pending"
  BY DEF Status
<1>3. e \in Event
  BY <1>1 DEF Event, Status
<1>4. Save(st, ok) /\ nextId' = nextId + 1 /\ landed' = landed
  BY DEF RecordEvent
<1>5. st.events \subseteq mem.events \cup {e}
      /\ st.fuse = mem.fuse /\ st.cfg = mem.cfg /\ st \in Store
  <2>1. Newest(mem.events \cup {e}) \subseteq mem.events \cup {e}
    BY DEF Newest
  <2> DEFINE evs == Newest(mem.events \cup {e})
  <2>2. evs \subseteq Event /\ evs \subseteq mem.events \cup {e}
        /\ st = [mem EXCEPT !.events = evs]
    BY <1>1, <1>3, <2>1 DEF Store
  <2> HIDE DEF evs, e, st
  <2>3. st.events = evs /\ st.fuse = mem.fuse /\ st.cfg = mem.cfg /\ st \in Store
    BY <1>1, <2>2 DEF Store
  <2> QED
    BY <2>2, <2>3
<1> HIDE DEF e, st
<1>6. Grows
  BY <1>1, <1>4, <1>5, SaveGrows, FuseRefl
<1>7. mem' = st
  BY <1>4 DEF Save
<1>8. /\ \A f \in mem.events : f.id \in Nat /\ f.id < nextId /\ ~(f.src = s /\ f.win = w[s].win)
      /\ \A f \in disk.events : f.id \in Nat /\ f.id < nextId
  <2>1. Listed(mem) /\ Listed(disk) /\ EventInv(s)
    BY DEF EventsInv
  <2> QED
    BY <1>1, <2>1 DEF Listed, EventInv, Store, Event
<1>9. Listed(mem)'
  <2>1. ASSUME NEW f \in mem'.events PROVE f.id < nextId' /\ f.win <= mem'.fuse[f.src]
    <3>1. CASE f = e
      BY <1>1, <1>2, <1>4, <1>5, <1>7, <3>1
    <3>2. CASE f \in mem.events
      BY <1>1, <1>4, <1>5, <1>7, <1>8, <3>2 DEF EventsInv, Listed
    <3> QED
      BY <1>5, <1>7, <3>1, <3>2
  <2>2. ASSUME NEW f \in mem'.events, NEW g \in mem'.events
        PROVE  /\ f.id = g.id => f = g
               /\ f.src = g.src /\ f.win = g.win => f.id = g.id
    <3>1. f \in mem.events \cup {e} /\ g \in mem.events \cup {e}
      BY <1>5, <1>7
    <3>2. CASE f = e \/ g = e
      BY <1>1, <1>2, <1>8, <3>1, <3>2
    <3>3. CASE f \in mem.events /\ g \in mem.events
      BY <3>3 DEF EventsInv, Listed
    <3> QED
      BY <3>1, <3>2, <3>3
  <2> QED
    BY <2>1, <2>2 DEF Listed
<1>10. Landed(mem)'
  BY <1>2, <1>4, <1>5, <1>7 DEF EventsInv, Landed
<1>11. Follows(mem', disk)
  <2> SUFFICES ASSUME NEW d \in disk.events, NEW f \in mem'.events, d.id = f.id
               PROVE  /\ SameEvent(d, f)
                      /\ \A t \in Subs : d.status[t] \in Final => f.status[t] = d.status[t]
    BY DEF Follows
  <2>1. f \in mem.events
    BY <1>2, <1>5, <1>7, <1>8
  <2> QED
    BY <2>1 DEF EventsInv, Follows
<1>12. StoresKept
  BY <1>6, <1>9, <1>10, <1>11, DiskFollows DEF EventsInv, Stores, EventsKept, StoresKept
<1>13. groupOK => \A t \in w[s].todo : e.status[t] \notin Final
  BY <1>1, <1>2 DEF Final, Worker
<1> QED
  BY <1>2, <1>4, <1>5, <1>6, <1>7, <1>12, <1>13

----------------------------------------------------------------------------
(* The workers after a step.                                               *)

\* A worker that does not move: no event of another source or with another
\* identifier concerns it.
LEMMA OtherEventInv ==
  ASSUME IInv, EventsInv, Grows, NEW r \in Sources, w'[r] = w[r],
         \A f \in mem'.events : f.src = r => \E e \in mem.events : SameEvent(e, f),
         \A f \in mem'.events : w[r].pc \in Recorded /\ f.id = w[r].id => f \in mem.events
  PROVE  EventInv(r)'
<1>1. EventInv(r) /\ w[r] \in Worker /\ nextId \in Nat
  BY DEF IInv, TypeOK, EventsInv
<1>2. ASSUME w[r].pc \in {"confirmed", "resolved"}, NEW st \in {mem', disk'}, NEW f \in st.events,
             f.src = r, f.win = w[r].win
      PROVE  FALSE
  <2>1. \A g \in mem.events \cup disk.events : ~(g.src = r /\ g.win = w[r].win)
    BY <1>1, <1>2 DEF EventInv
  <2>2. CASE st = mem'
    BY <1>2, <2>1, <2>2 DEF SameEvent
  <2>3. CASE st = disk /\ disk' = disk
    BY <1>2, <2>1, <2>3
  <2> QED
    BY <1>2, <2>2, <2>3 DEF Grows
<1>3. ASSUME w[r].pc \in Recorded
      PROVE  /\ w[r].id < nextId'
             /\ \A st \in {mem', disk'} : \A f \in st.events :
                  f.id = w[r].id => f.src = r /\ f.win = w[r].win
  <2>1. w[r].id \in Nat /\ w[r].id < nextId /\ nextId' \in Nat /\ nextId <= nextId'
    BY <1>1, <1>3 DEF EventInv, Worker, Grows
  <2>2. \A f \in mem.events \cup disk.events : f.id = w[r].id => f.src = r /\ f.win = w[r].win
    BY <1>1, <1>3 DEF EventInv
  <2>3. disk' = disk \/ disk' = mem'
    BY DEF Grows
  <2> QED
    BY <1>1, <1>3, <2>1, <2>2, <2>3
<1>4. ASSUME w[r].pc \in InLoop \/ (w[r].pc = "notifying" /\ w[r].acting # FALSE),
             NEW f \in mem'.events, f.id = w[r].id, NEW t \in w[r].todo
      PROVE  f.status[t] \notin Final
  <2>1. w[r].pc \in Recorded
    BY <1>4 DEF InLoop, Recorded
  <2>2. f \in mem.events
    BY <1>4, <2>1
  <2> QED
    BY <1>1, <1>4, <2>2 DEF EventInv
<1> QED
  BY <1>2, <1>3, <1>4 DEF EventInv

\* A worker that goes on with its event.
LEMMA GoesOnInv ==
  ASSUME IInv, EventsInv, Grows, NEW s \in Sources, GoesOn(s),
         \A f \in mem'.events : \E e \in mem.events :
           /\ SameEvent(e, f)
           /\ e.id = w[s].id => \A t \in w'[s].todo : \/ f.status[t] \notin Final
                                                      \/ f.status[t] = e.status[t]
  PROVE  EventInv(s)'
<1>1. EventInv(s) /\ w[s] \in Worker /\ nextId \in Nat
  BY DEF IInv, TypeOK, EventsInv
<1>2. disk' = disk \/ disk' = mem'
  BY DEF Grows
<1>3. CASE w'[s].pc \in {"sampling", "confirming", "done"}
  BY <1>3 DEF EventInv, Recorded, InLoop
<1>4. CASE w[s].pc = "confirmed" /\ w'[s].pc = "resolved" /\ w'[s].win = w[s].win
  <2>1. \A f \in mem.events \cup disk.events : ~(f.src = s /\ f.win = w[s].win)
    BY <1>1, <1>4 DEF EventInv
  <2>2. \A f \in mem'.events \cup disk'.events : ~(f.src = s /\ f.win = w[s].win)
    BY <1>2, <2>1 DEF SameEvent
  <2> QED
    BY <1>4, <2>2 DEF EventInv, Recorded, InLoop
<1>5. CASE /\ w[s].pc \in InLoop \/ (w[s].pc = "notifying" /\ w[s].acting # FALSE)
           /\ w'[s].pc \in InLoop \cup {"reporting"}
           /\ w'[s].id = w[s].id /\ w'[s].win = w[s].win /\ w'[s].todo \subseteq w[s].todo
  <2>1. w[s].pc \in Recorded
    BY <1>5 DEF InLoop, Recorded
  <2>2. w[s].id \in Nat /\ w[s].id < nextId /\ nextId' \in Nat /\ nextId <= nextId'
    BY <1>1, <2>1 DEF EventInv, Worker, Grows
  <2>3. \A f \in mem.events \cup disk.events : f.id = w[s].id => f.src = s /\ f.win = w[s].win
    BY <1>1, <2>1 DEF EventInv
  <2>4. \A f \in mem'.events \cup disk'.events : f.id = w[s].id => f.src = s /\ f.win = w[s].win
    BY <1>2, <2>3 DEF SameEvent
  <2>5. \A f \in mem.events : f.id = w[s].id => \A t \in w[s].todo : f.status[t] \notin Final
    BY <1>1, <1>5 DEF EventInv
  <2>6. \A f \in mem'.events : f.id = w[s].id => \A t \in w'[s].todo : f.status[t] \notin Final
    BY <1>5, <2>5 DEF SameEvent
  <2>7. w'[s].pc \notin {"confirmed", "resolved"}
    BY <1>5 DEF InLoop
  <2>8. w'[s].id < nextId'
    <3>1. w'[s].id = w[s].id
      BY <1>5
    <3> QED
      BY <1>1, <2>2, <3>1
  <2>9. \A st \in {mem', disk'} : \A f \in st.events :
          f.id = w'[s].id => f.src = s /\ f.win = w'[s].win
    BY <1>5, <2>4
  <2>10. \A f \in mem'.events : f.id = w'[s].id => \A t \in w'[s].todo : f.status[t] \notin Final
    BY <1>5, <2>6
  <2> QED
    BY <2>7, <2>8, <2>9, <2>10 DEF EventInv
<1> QED
  BY <1>3, <1>4, <1>5 DEF GoesOn

\* A worker that goes on keeps the invariant, whether it writes or not.
LEMMA GoesOnEvents ==
  ASSUME IInv, IInv', EventsInv, Grows, NEW s \in Sources, GoesOn(s), nextId' = nextId,
         \E v : w' = [w EXCEPT ![s] = v],
         \/ mem'.events = mem.events
         \/ \E t \in Subs, v \in Status, snap \in SUBSET Subs : Writes(s, t, v, snap)
  PROVE  EventsKept
<1>1. w \in [Sources -> Worker] /\ mem \in Store /\ Stores
  BY DEF IInv, TypeOK, EventsInv, Stores
<1>2. \A r \in Sources : r # s => w'[r] = w[r]
  BY <1>1
<1>3. CASE mem'.events = mem.events
  <2>1. StoresKept
    BY <1>1, <1>3, KeepStores
  <2>2. EventInv(s)'
    <3>1. \A f \in mem'.events : \E e \in mem.events :
           /\ SameEvent(e, f)
           /\ e.id = w[s].id => \A t \in w'[s].todo : \/ f.status[t] \notin Final
                                                      \/ f.status[t] = e.status[t]
      BY <1>3 DEF SameEvent
    <3> QED
      BY <3>1, GoesOnInv
  <2>3. ASSUME NEW r \in Sources, r # s PROVE EventInv(r)'
    <3>1. \A f \in mem'.events : f.src = r => \E e \in mem.events : SameEvent(e, f)
      BY <1>3 DEF SameEvent
    <3> QED
      BY <1>2, <1>3, <2>3, <3>1, OtherEventInv
  <2> QED
    BY <2>1, <2>2, <2>3 DEF EventsInv, Stores, EventsKept, StoresKept
<1>4. ASSUME NEW t \in Subs, NEW v \in Status, NEW snap \in SUBSET Subs, Writes(s, t, v, snap)
      PROVE  EventsKept
  <2> DEFINE i == w[s].id
  <2>1. /\ mem' = SetTarget(mem, i, t, v, snap)
        /\ w[s].pc \in InLoop /\ t \in w[s].todo
        /\ t \notin w'[s].todo \/ v \notin Final
    BY <1>4 DEF Writes
  <2>2. w[s].pc \in Recorded /\ EventInv(s)
    BY <2>1 DEF InLoop, Recorded, EventsInv
  <2>3. \A e \in mem.events : e.id = i => e.src = s
    BY <2>2 DEF EventInv
  <2> HIDE DEF i
  <2>4. mem'.events = {Rewritten(e, i, t, v, snap) : e \in mem.events}
    BY <1>1, <2>1, SetTargetEvents
  <2>5. ASSUME NEW f \in mem'.events
        PROVE  \E e \in mem.events : /\ SameEvent(e, f) /\ (e.id # i => f = e)
                                     /\ e.id = i => \A u \in Subs : f.status[u] = IF u = t THEN v ELSE e.status[u]
    <3>1. PICK e \in mem.events : f = Rewritten(e, i, t, v, snap)
      BY <2>4
    <3>2. e \in Event
      BY <1>1 DEF Store
    <3>3. /\ SameEvent(e, f) /\ (e.id # i => f = e)
          /\ e.id = i => \A u \in Subs : f.status[u] = IF u = t THEN v ELSE e.status[u]
      BY <3>1, <3>2, RewrittenEvent
    <3> QED
      BY <3>3
  <2>6. StoresKept
    BY <1>4, WriteStores
  <2>7. EventInv(s)'
    <3>1. ASSUME NEW f \in mem'.events
          PROVE  \E e \in mem.events :
                   /\ SameEvent(e, f)
                   /\ e.id = i => \A u \in w'[s].todo : \/ f.status[u] \notin Final
                                                        \/ f.status[u] = e.status[u]
      <4>1. PICK e \in mem.events : /\ SameEvent(e, f) /\ (e.id # i => f = e)
                                    /\ e.id = i => \A u \in Subs : f.status[u] = IF u = t THEN v ELSE e.status[u]
        BY <2>5
      <4>2. e \in Event /\ w'[s].todo \subseteq Subs
        BY <1>1 DEF Store, IInv, TypeOK, Worker
      <4>3. ASSUME e.id = i, NEW u \in w'[s].todo
            PROVE  f.status[u] \notin Final \/ f.status[u] = e.status[u]
        <5>1. CASE u = t
          BY <2>1, <4>1, <4>2, <4>3, <5>1 DEF Event
        <5>2. CASE u # t
          BY <4>1, <4>2, <4>3, <5>2 DEF Event
        <5> QED
          BY <5>1, <5>2
      <4> QED
        BY <4>1, <4>3
    <3> QED
      BY <3>1, GoesOnInv DEF i
  <2>8. ASSUME NEW r \in Sources, r # s PROVE EventInv(r)'
    <3>1. \A f \in mem'.events : f.src = r => \E e \in mem.events : SameEvent(e, f)
      BY <2>5
    <3>2. ASSUME NEW f \in mem'.events, w[r].pc \in Recorded, f.id = w[r].id
          PROVE  f \in mem.events
      <4>1. PICK e \in mem.events : SameEvent(e, f) /\ (e.id # i => f = e)
        BY <2>5
      <4>2. e.src = r
        <5>1. \A g \in mem.events : g.id = w[r].id => g.src = r
          BY <3>2 DEF EventsInv, EventInv
        <5> QED
          BY <3>2, <4>1, <5>1 DEF SameEvent
      <4>3. e.id # i
        BY <2>3, <2>8, <4>2
      <4> QED
        BY <4>1, <4>3
    <3> QED
      BY <1>2, <2>8, <3>1, <3>2, OtherEventInv
  <2> QED
    BY <2>6, <2>7, <2>8 DEF EventsInv, Stores, EventsKept, StoresKept
<1> QED
  BY <1>3, <1>4

\* The confirmed window is ahead of the fuse, and every event behind it.
LEMMA ConfirmEvents ==
  ASSUME IInv, EventsInv, NEW s \in Sources, ConfirmReset(s)
  PROVE  EventsKept
<1> DEFINE st == [mem EXCEPT !.fuse[s] = win[s]]
<1>1. /\ w \in [Sources -> Worker] /\ mem \in Store /\ disk \in Store /\ win[s] \in 1..MaxWindow
      /\ nextId \in Nat /\ w[s].prev = mem.fuse[s] /\ w[s].prev # win[s] /\ Stores
  BY DEF IInv, TypeOK, WorkerInv, ConfirmReset, FuseOpen, EventsInv, Stores
<1>2. /\ \A r \in Sources : mem.fuse[r] \in Nat /\ disk.fuse[r] \in Nat
      /\ disk.fuse[s] <= mem.fuse[s] /\ mem.fuse[s] < win[s]
  <2>1. \A r \in Sources : mem.fuse[r] \in Nat /\ disk.fuse[r] \in Nat
    BY <1>1 DEF Store
  <2>2. disk.fuse[s] <= mem.fuse[s] /\ mem.fuse[s] <= win[s]
    BY DEF IInv, FuseOrder
  <2> QED
    BY <1>1, <2>1, <2>2
<1>3. st \in Store /\ st.events = mem.events /\ st.fuse = [mem.fuse EXCEPT ![s] = win[s]]
  BY <1>1 DEF Store
<1>4. /\ \E ok \in SaveOutcomes : Save(st, ok)
      /\ UNCHANGED <<landed, nextId>>
      /\ w' = [w EXCEPT ![s].pc = "confirmed", ![s].win = win[s]]
  BY DEF ConfirmReset, world
<1> HIDE DEF st
<1>5. \A r \in Sources : mem.fuse[r] <= st.fuse[r]
  BY <1>1, <1>2, <1>3 DEF Store
<1>6. Grows
  BY <1>3, <1>4, <1>5, SaveGrows
<1>7. mem'.events = mem.events /\ (disk' = disk \/ disk'.events = mem.events)
  BY <1>3, <1>4 DEF Save
<1>8. StoresKept
  BY <1>1, <1>6, <1>7, KeepStores
<1>9. EventInv(s)'
  <2>1. w'[s].pc = "confirmed" /\ w'[s].win = win[s]
    BY <1>1, <1>4 DEF Worker
  <2>2. \A e \in mem.events \cup disk.events : ~(e.src = s /\ e.win = win[s])
    <3> SUFFICES ASSUME NEW e \in mem.events \cup disk.events, e.src = s PROVE e.win < win[s]
      BY <1>1
    <3>1. e.win <= mem.fuse[s] \/ e.win <= disk.fuse[s]
      BY DEF EventsInv, Listed
    <3>2. e.win \in Nat /\ win[s] \in Nat
      BY <1>1 DEF Store, Event
    <3> QED
      BY <1>2, <3>1, <3>2
  <2>3. \A e \in mem'.events \cup disk'.events : ~(e.src = s /\ e.win = win[s])
    BY <1>7, <2>2
  <2> QED
    BY <2>1, <2>3 DEF EventInv, Recorded, InLoop
<1>10. ASSUME NEW r \in Sources, r # s PROVE EventInv(r)'
  <2>1. w'[r] = w[r]
    BY <1>1, <1>4, <1>10
  <2>2. \A f \in mem'.events : f.src = r => \E e \in mem.events : SameEvent(e, f)
    BY <1>7 DEF SameEvent
  <2> QED
    BY <1>6, <1>7, <2>1, <2>2, OtherEventInv
<1> QED
  BY <1>8, <1>9, <1>10 DEF EventsInv, Stores, EventsKept, StoresKept

LEMMA RecordEvents ==
  ASSUME IInv, EventsInv, NEW s \in Sources, NEW groupOK \in BOOLEAN,
         NEW ok \in SaveOutcomes, RecordEvent(s, groupOK, ok)
  PROVE  EventsKept
<1>1. /\ w \in [Sources -> Worker] /\ nextId \in Nat /\ mem \in Store /\ disk \in Store
      /\ StoresKept /\ Grows /\ nextId' = nextId + 1
  BY RecordStores DEF IInv, TypeOK
<1>2. \A f \in mem'.events :
        \/ f \in mem.events
        \/ /\ f.id = nextId /\ f.src = s /\ f.win = w[s].win
           /\ (groupOK => \A t \in w[s].todo : f.status[t] \notin Final)
  BY RecordStores
<1>3. \A f \in mem.events \cup disk.events : f.id \in Nat /\ f.id < nextId
  BY <1>1 DEF EventsInv, Listed, Store, Event
<1>4. ASSUME NEW r \in Sources, r # s PROVE EventInv(r)'
  <2>1. w'[r] = w[r]
    BY <1>1, <1>4 DEF RecordEvent, Finish
  <2>2. \A f \in mem'.events : f.src = r => \E e \in mem.events : SameEvent(e, f)
    BY <1>2, <1>4 DEF SameEvent
  <2>3. ASSUME NEW f \in mem'.events, w[r].pc \in Recorded, f.id = w[r].id
        PROVE  f \in mem.events
    <3>1. w[r].id < nextId /\ w[r].id \in Nat
      BY <1>1, <2>3 DEF EventsInv, EventInv, Worker
    <3>2. f.id # nextId
      BY <1>1, <2>3, <3>1
    <3> QED
      BY <1>2, <3>2
  <2> QED
    BY <1>1, <2>1, <2>2, <2>3, OtherEventInv
<1>5. EventInv(s)'
  <2>1. CASE ok
    <3>1. w' = [w EXCEPT ![s].pc = "notifying", ![s].id = nextId, ![s].acting = groupOK]
      BY <2>1 DEF RecordEvent
    <3>2. w'[s].pc = "notifying" /\ w'[s].id = nextId /\ w'[s].win = w[s].win
          /\ w'[s].todo = w[s].todo
      BY <1>1, <3>1 DEF Worker
    <3>3. w'[s].acting = groupOK
      BY <1>1, <3>1, Zenon DEF Worker
    <3>4. \A f \in mem'.events \cup disk'.events :
            f.id = nextId => f.src = s /\ f.win = w[s].win
      <4>1. disk' = disk \/ disk' = mem'
        BY <1>1 DEF Grows
      <4>2. \A f \in mem.events \cup disk.events : f.id # nextId
        BY <1>1, <1>3
      <4> QED
        BY <1>2, <4>1, <4>2
    <3>5. \A f \in mem'.events : f.id = nextId /\ groupOK =>
            \A t \in w[s].todo : f.status[t] \notin Final
      BY <1>1, <1>2, <1>3
    <3>6. nextId < nextId'
      BY <1>1
    <3>7. w'[s].acting # FALSE => groupOK
      BY <3>3
    <3>8. w'[s].pc \notin {"confirmed", "resolved"} \cup InLoop
      BY <3>2 DEF InLoop
    <3>9. w'[s].acting # FALSE =>
            \A f \in mem'.events : f.id = w'[s].id => \A t \in w'[s].todo : f.status[t] \notin Final
      BY <3>2, <3>5, <3>7
    <3>10. \A st \in {mem', disk'} : \A f \in st.events :
             f.id = w'[s].id => f.src = s /\ f.win = w'[s].win
      BY <3>2, <3>4
    <3>11. w'[s].id < nextId'
      BY <3>2, <3>6
    <3> QED
      BY <3>8, <3>9, <3>10, <3>11 DEF EventInv
  <2>2. CASE ~ok
    <3>1. w'[s].pc = "done"
      BY <1>1, <2>2 DEF RecordEvent, Finish, NoWorker
    <3> QED
      BY <3>1 DEF EventInv, Recorded, InLoop
  <2> QED
    BY <2>1, <2>2
<1> QED
  BY <1>1, <1>4, <1>5 DEF EventsInv, Stores, EventsKept, StoresKept

\* Whatever a worker does, the event list keeps its invariant.
LEMMA WorkerEvents ==
  ASSUME IInv, EventsInv, NEW s \in Sources, WorkerStep(s)
  PROVE  EventsKept
<1>1. IInv'
  BY WorkerStepKeeps
<1> QED
  BY <1>1, WorkerStore, ConfirmEvents, RecordEvents, GoesOnEvents

----------------------------------------------------------------------------
(* The steps around the workers.                                           *)

\* A step of the cycle, the administrator, the network or upstream leaves the
\* events in memory alone.
LEMMA QuietEvents ==
  ASSUME IInv, EventsInv, Grows, mem'.events = mem.events,
         \A s \in Sources : w'[s] = w[s] \/ w'[s].pc \in {"idle", "queued"}
  PROVE  EventsKept
<1>1. StoresKept
  BY KeepStores DEF EventsInv, Stores, EventsKept, StoresKept
<1>2. ASSUME NEW r \in Sources PROVE EventInv(r)'
  <2>1. CASE w'[r] = w[r]
    <3>1. \A f \in mem'.events : f.src = r => \E e \in mem.events : SameEvent(e, f)
      BY DEF SameEvent
    <3> QED
      BY <2>1, <3>1, OtherEventInv
  <2>2. CASE w'[r].pc \in {"idle", "queued"}
    BY <2>2 DEF EventInv, Recorded, InLoop
  <2> QED
    BY <2>1, <2>2
<1> QED
  BY <1>1, <1>2 DEF EventsInv, Stores, EventsKept, StoresKept

\* A restart finds the events on disk, each once; no worker is left.
LEMMA CrashEvents == ASSUME IInv, EventsInv, Crash PROVE EventsKept
<1>1. /\ mem' = disk /\ disk' = disk /\ UNCHANGED <<landed, nextId>>
      /\ \A s \in Sources : w'[s].pc = "idle"
  BY DEF Crash, world, NoWorker
<1>2. Listed(mem)' /\ Listed(disk)' /\ Landed(mem)' /\ Landed(disk)'
  BY <1>1 DEF EventsInv, Listed, Landed
<1>3. Follows(mem, disk)'
  BY <1>1 DEF EventsInv, Listed, Follows, SameEvent
<1>4. \A s \in Sources : EventInv(s)'
  BY <1>1 DEF EventInv, Recorded, InLoop
<1>5. Follows(disk', disk)
  BY <1>1 DEF EventsInv, Listed, Follows, SameEvent
<1> QED
  BY <1>2, <1>3, <1>4, <1>5 DEF EventsInv, EventsKept

\* Saving a configuration keeps fuses and events.
LEMMA SetConfigGrows ==
  ASSUME IInv, NEW c \in Configs, SetConfig(c)
  PROVE  Grows /\ mem'.events = mem.events /\ w' = w
<1> DEFINE st == [mem EXCEPT !.cfg = c]
<1>1. mem \in Store /\ UNCHANGED <<w, landed, nextId>> /\ (\E ok \in SaveOutcomes : Save(st, ok))
  BY DEF IInv, TypeOK, SetConfig
<1>2. st \in Store /\ st.fuse = mem.fuse /\ st.events = mem.events
  BY <1>1 DEF Store
<1> HIDE DEF st
<1> QED
  BY <1>1, <1>2, SaveGrows, FuseRefl DEF Save

LEMMA NextEvents == ASSUME IInv, EventsInv, [Next]_vars PROVE EventsKept
<1>0. mem \in Store /\ disk \in Store /\ nextId \in Nat /\ landed \in [Call -> Nat]
  BY DEF IInv, TypeOK
<1>1. CASE (\E force \in BOOLEAN : StartCycle(force)) \/ EndCycle
  <2>1. /\ UNCHANGED store \/ \E ok \in SaveOutcomes : Save(mem, ok)
        /\ UNCHANGED <<landed, nextId>>
    BY <1>1 DEF StartCycle, EndCycle, store, world
  <2>2. \A s \in Sources : w'[s].pc \in {"idle", "queued"}
    BY <1>1 DEF StartCycle, EndCycle, NoWorker
  <2> QED
    BY <2>1, <2>2, KeepGrows, QuietEvents
<1>2. CASE \E s \in Sources : WorkerStep(s)
  BY <1>2, WorkerEvents
<1>3. CASE \E c \in Configs : SetConfig(c)
  BY <1>3, SetConfigGrows, QuietEvents
<1>4. CASE Crash
  BY <1>4, CrashEvents
<1>5. CASE Deadline \/ UNCHANGED vars \/ \E s \in Sources : OfficialReset(s)
  <2>1. UNCHANGED store /\ UNCHANGED <<landed, nextId, w>>
    BY <1>5 DEF Deadline, vars, OfficialReset, store, cycle
  <2> QED
    BY <2>1, KeepGrows, QuietEvents
<1>6. CASE \E c \in wire : Land(c) \/ Lose(c)
  <2>1. UNCHANGED store /\ UNCHANGED <<nextId, w>>
        /\ \E c \in wire : landed' = landed \/ landed' = [landed EXCEPT ![c] = @ + 1]
    BY <1>6 DEF Land, Lose, store
  <2>2. \A c \in Call : landed[c] > 0 => landed'[c] > 0
    BY <1>0, <2>1
  <2>3. Grows /\ mem'.events = mem.events
    BY <1>0, <2>1, <2>2, FuseRefl DEF Grows, store
  <2> QED
    BY <2>1, <2>3, QuietEvents
<1> QED
  BY <1>1, <1>2, <1>3, <1>4, <1>5, <1>6 DEF Next

----------------------------------------------------------------------------
\* The inductive invariant of the event list: identifiers and windows are
\* each an event's own, on disk and in memory, and what a worker has still to
\* do is not final.
THEOREM EventInvariant == Spec => [](IInv /\ EventsInv)
<1>1. Init => IInv /\ EventsInv
  <2>1. ASSUME Init PROVE EventsInv
    <3>1. mem.events = {} /\ disk.events = {} /\ \A s \in Sources : w[s].pc = "idle"
      BY <2>1 DEF Init, NoWorker
    <3> QED
      BY <3>1 DEF EventsInv, Listed, Landed, Follows, EventInv, Recorded, InLoop
  <2> QED
    BY <2>1, InitInv
<1>2. (IInv /\ EventsInv) /\ [Next]_vars => (IInv /\ EventsInv)'
  BY NextInv, NextEvents DEF EventsKept
<1> QED
  BY <1>1, <1>2, PTL DEF Spec

\* One official reset is listed once, in memory and in the file, whatever
\* saves fail and wherever the process is restarted (the fuse, saved before
\* the event).
THEOREM OneEventEach == Spec => []OneEventPerWindow
<1>1. EventsInv => OneEventPerWindow
  BY DEF EventsInv, Listed, OneEventPerWindow
<1> QED
  BY <1>1, EventInvariant, PTL

\* A target recorded as succeeded was reset by Sub2API: the reply is the one
\* to this source's, window's and subscription's call.
THEOREM SuccessIsTrue == Spec => []SucceededMeansLanded
<1>1. EventsInv => SucceededMeansLanded
  BY DEF EventsInv, Landed, SucceededMeansLanded
<1> QED
  BY <1>1, EventInvariant, PTL

\* A verdict in the file does not change: what is saved over it comes from a
\* memory that holds the same verdict (UpdateTarget and CompleteTarget).
THEOREM VerdictStays == Spec => DiskVerdictFinal
<1>1. IInv /\ EventsInv /\ [Next]_vars =>
        [\A e \in disk.events, f \in disk'.events :
           e.id = f.id => \A t \in Subs : e.status[t] \in Final => f.status[t] = e.status[t]]_vars
  BY NextEvents DEF EventsKept, Follows
<1> QED
  BY <1>1, EventInvariant, PTL DEF Spec, DiskVerdictFinal

----------------------------------------------------------------------------
(* SnapshotBeforeReset: the event list drops its oldest events only when   *)
(* it is full, and is full from then on.                                   *)

Bounded(st) == IsFiniteSet(st.events) /\ Cardinality(st.events) <= MaxEvents
Snapped(st, c) ==
  \/ \E e \in st.events : e.src = c.src /\ e.win = c.win /\ c.sub \in e.before
  \/ Cardinality(st.events) = MaxEvents

\* A call on its way, or one its worker is about to send.
Committed(c) ==
  Sent(c) \/ \E s \in Sources : w[s].pc \in {"posting", "awaiting"} /\ c = CallOf(s)
SnapInv ==
  /\ Bounded(mem) /\ Bounded(disk)
  /\ \A c \in Call : Committed(c) => Snapped(mem, c) /\ Snapped(disk, c)

\* Finitely many events have an oldest one.
LEMMA Oldest ==
  ASSUME NEW E \in SUBSET Event, E # {}
  PROVE  \E e \in E : \A f \in E : e.id <= f.id
<1> DEFINE T == {e.id : e \in E}
           R == {ss \in Nat \X Nat : ss[1] < ss[2]}
<1>1. T \subseteq Nat /\ T # {}
  BY DEF Event
<1>2. IsWellFoundedOn(R, Nat)
  BY NatLessThanWellFounded DEF OpToRel
<1>3. \E n \in T : \A m \in T : ~(<<m, n>> \in R)
  <2> HIDE DEF T, R
  <2> QED
    BY <1>1, <1>2, WFMin
<1>4. PICK n \in T : \A m \in T : ~(<<m, n>> \in R)
  BY <1>3
<1>5. \A m \in T : n <= m
  <2> HIDE DEF T
  <2> SUFFICES ASSUME NEW m \in T, m < n PROVE FALSE
    BY <1>1, <1>4
  <2>1. m \in Nat /\ n \in Nat
    BY <1>1, <1>4
  <2>2. <<m, n>> \in R
    BY <2>1
  <2> QED
    BY <1>4, <2>2
<1> QED
  BY <1>4, <1>5

\* store.go's limit: below it nothing is dropped, at it the list stays full.
LEMMA NewestBounded ==
  ASSUME NEW E \in SUBSET Event, IsFiniteSet(E), Cardinality(E) <= MaxEvents,
         \A f, g \in E : f.id = g.id => f = g,
         NEW e \in Event, \A f \in E : f.id < e.id
  PROVE  /\ IsFiniteSet(Newest(E \cup {e})) /\ Cardinality(Newest(E \cup {e})) <= MaxEvents
         /\ \/ E \subseteq Newest(E \cup {e})
            \/ Cardinality(Newest(E \cup {e})) = MaxEvents
<1> DEFINE A == E \cup {e}
           Above(x) == {f \in A : f.id > x.id}
<1>1. MaxEvents \in Nat \ {0} /\ Cardinality(E) \in Nat
  BY BoundsAssumption, FS_CardinalityType
<1>2. /\ A \in SUBSET Event /\ A # {} /\ E \subseteq A
      /\ \A f \in A : f.id \in Nat
      /\ \A f, g \in A : f.id = g.id => f = g
  BY DEF Event
<1>3. IsFiniteSet(A) /\ Cardinality(A) = Cardinality(E) + 1
  <2>1. e \notin E
    BY DEF Event
  <2> QED
    BY <2>1, FS_AddElement
<1>4. Newest(A) = {x \in A : Cardinality(Above(x)) < MaxEvents}
  BY DEF Newest
<1>5. \A x, f : f \in Above(x) <=> f \in A /\ f.id > x.id
  OBVIOUS
<1> HIDE DEF A, Above
<1>6. ASSUME NEW x \in A
      PROVE  /\ Above(x) \subseteq A \ {x}
             /\ IsFiniteSet(A \ {x}) /\ Cardinality(A \ {x}) = Cardinality(E)
  <2>1. Above(x) \subseteq A \ {x}
    BY <1>2, <1>5
  <2>2. IsFiniteSet(A \ {x}) /\ Cardinality(A \ {x}) = Cardinality(A) - 1
    BY <1>3, FS_RemoveElement
  <2> QED
    BY <1>1, <1>3, <2>1, <2>2
<1> DEFINE N == Newest(A)
           Good == /\ IsFiniteSet(N) /\ Cardinality(N) <= MaxEvents
                   /\ E \subseteq N \/ Cardinality(N) = MaxEvents
<1>7. ASSUME Cardinality(E) < MaxEvents PROVE Good
  <2>1. ASSUME NEW x \in A PROVE Cardinality(Above(x)) < MaxEvents
    <3>1. Cardinality(Above(x)) <= Cardinality(E) /\ IsFiniteSet(Above(x))
      <4>1. Above(x) \in SUBSET (A \ {x})
        BY <1>6
      <4> QED
        BY <1>6, <4>1, FS_Subset
    <3>2. Cardinality(Above(x)) \in Nat
      BY <3>1, FS_CardinalityType
    <3> QED
      BY <1>1, <1>7, <3>1, <3>2
  <2>2. Newest(A) = A
    BY <1>4, <2>1
  <2> QED
    BY <1>1, <1>2, <1>3, <1>7, <2>2
<1>8. ASSUME Cardinality(E) = MaxEvents PROVE Good
  <2>1. PICK m \in A : \A f \in A : m.id <= f.id
    BY <1>2, Oldest
  <2>2. Above(m) = A \ {m}
    <3>1. \A f : f \in Above(m) <=> f \in A /\ f # m
      BY <1>2, <1>5, <2>1
    <3> QED
      BY <3>1
  <2>3. m \notin Newest(A)
    BY <1>1, <1>4, <1>6, <1>8, <2>2
  <2>4. ASSUME NEW x \in A, x # m PROVE x \in Newest(A)
    <3>1. Above(x) \subseteq (A \ {x}) \ {m}
      BY <1>2, <1>5, <1>6, <2>1
    <3>2. IsFiniteSet((A \ {x}) \ {m}) /\ Cardinality((A \ {x}) \ {m}) = MaxEvents - 1
      <4>1. m \in A \ {x} /\ IsFiniteSet(A \ {x}) /\ Cardinality(A \ {x}) = MaxEvents
        BY <1>6, <1>8, <2>1, <2>4
      <4> QED
        BY <4>1, FS_RemoveElement
    <3>3. IsFiniteSet(Above(x)) /\ Cardinality(Above(x)) <= MaxEvents - 1
      <4>1. Above(x) \in SUBSET ((A \ {x}) \ {m})
        BY <3>1
      <4> QED
        BY <3>2, <4>1, FS_Subset
    <3>4. Cardinality(Above(x)) \in Nat
      BY <3>3, FS_CardinalityType
    <3> QED
      BY <1>1, <1>4, <3>3, <3>4
  <2>5. Newest(A) = A \ {m}
    BY <1>4, <2>3, <2>4
  <2>6. IsFiniteSet(A \ {m}) /\ Cardinality(A \ {m}) = MaxEvents
    BY <1>6, <1>8, <2>1
  <2> QED
    BY <1>1, <2>5, <2>6
<1>9. Good
  BY <1>1, <1>7, <1>8
<1> QED
  BY <1>9 DEF A

\* Rewriting events one by one keeps their number.
LEMMA SetTargetBounded ==
  ASSUME NEW st \in Store, Bounded(st), \A e, f \in st.events : e.id = f.id => e = f,
         NEW i, NEW t, NEW v, NEW snap
  PROVE  /\ Bounded(SetTarget(st, i, t, v, snap))
         /\ Cardinality(SetTarget(st, i, t, v, snap).events) = Cardinality(st.events)
<1> DEFINE S == st.events
           T == {Rewritten(e, i, t, v, snap) : e \in S}
           F == [e \in S |-> Rewritten(e, i, t, v, snap)]
<1>1. SetTarget(st, i, t, v, snap).events = T
  BY SetTargetEvents
<1>2. \A e \in S : e \in Event
  BY DEF Store
<1>3. \A e, f \in S : F[e] = F[f] => e = f
  <2> SUFFICES ASSUME NEW e \in S, NEW f \in S, F[e] = F[f] PROVE e = f
    OBVIOUS
  <2>1. SameEvent(e, Rewritten(e, i, t, v, snap)) /\ SameEvent(f, Rewritten(f, i, t, v, snap))
    BY <1>2, RewrittenEvent
  <2>2. e.id = f.id
    BY <2>1 DEF SameEvent
  <2> QED
    BY <2>2
<1>4. F \in [S -> T] /\ \A y \in T : \E x \in S : F[x] = y
  OBVIOUS
<1> HIDE DEF F, T, S
<1>5. F \in Bijection(S, T)
  BY <1>3, <1>4 DEF Bijection, Injection, Surjection, IsInjective
<1>6. IsFiniteSet(T) /\ Cardinality(T) = Cardinality(S)
  <2>1. IsFiniteSet(S)
    BY DEF Bounded, S
  <2>2. ExistsBijection(S, T)
    BY <1>5 DEF ExistsBijection
  <2> QED
    BY <2>1, <2>2, FS_Bijection
<1> QED
  BY <1>1, <1>6 DEF Bounded, S

\* The call a worker is about to send has its snapshot in memory and on disk.
LEMMA PrepareSnapped ==
  ASSUME IInv, EventsInv, NEW s \in Sources, NEW ok \in SaveOutcomes, Prepare(s, ok),
         w'[s].pc = "posting"
  PROVE  disk' = mem' /\ Snapped(mem', CallOf(s)')
<1>1. /\ w \in [Sources -> Worker] /\ mem \in Store /\ w[s].pc = "reading"
      /\ w[s].pc \in Recorded /\ w[s].cur \in Subs
  BY CurType DEF IInv, TypeOK, Prepare, At, Recorded
<1>2. ~NextTarget(s)
  BY <1>1 DEF NextTarget, Worker
<1>3. HasEvent(mem, w[s].id) /\ ok
  BY <1>2 DEF Prepare
<1> DEFINE i == w[s].id
           c == w[s].cur
           d == {c}
           v == "resetting"
<1>4. mem' = SetTarget(mem, i, c, v, d) /\ disk' = mem' /\ Goto(s, "posting")
  BY <1>2, <1>3 DEF Prepare, Save
<1>5. w'[s].win = w[s].win /\ w'[s].cur = c
  BY <1>1, <1>4 DEF Goto, Worker
<1>6. PICK e \in mem.events : e.id = i
  BY <1>3 DEF HasEvent
<1>7. e.src = s /\ e.win = w[s].win /\ e \in Event
  BY <1>1, <1>6 DEF EventsInv, EventInv, Store
<1> HIDE DEF i, c, d, v
<1>8. Rewritten(e, i, c, v, d) \in mem'.events
  BY <1>1, <1>4, SetTargetEvents
<1>9. /\ SameEvent(e, Rewritten(e, i, c, v, d))
      /\ c \in Rewritten(e, i, c, v, d).before
  <2>1. e \in Event
    BY <1>7
  <2>2. /\ SameEvent(e, Rewritten(e, i, c, v, d))
        /\ e.id = i => d \subseteq Rewritten(e, i, c, v, d).before
    BY <2>1, RewrittenEvent
  <2> QED
    BY <1>6, <2>2 DEF d
<1>10. CallOf(s)' = [src |-> s, win |-> w[s].win, sub |-> c]
  BY <1>5 DEF CallOf
<1>11. \E f \in mem'.events : f.src = s /\ f.win = w[s].win /\ c \in f.before
  BY <1>7, <1>8, <1>9 DEF SameEvent
<1> QED
  BY <1>4, <1>10, <1>11 DEF Snapped

\* A worker's step commits no call but the one it prepares.
LEMMA CommitStep ==
  ASSUME IInv, NEW s \in Sources, WorkerStep(s), NEW c, Committed(c)'
  PROVE  \/ Committed(c)
         \/ /\ \E ok \in SaveOutcomes : Prepare(s, ok)
            /\ w'[s].pc = "posting" /\ c = CallOf(s)'
<1>1. w \in [Sources -> Worker]
  BY DEF IInv, TypeOK
<1>2. \A r \in Sources : r # s => w'[r] = w[r]
  BY <1>1 DEF WorkerStep, Launch, LaunchCancelled, SampleSettles, SampleCandidate,
     ConfirmRejected, ConfirmReset, Resolve, RecordEvent, NotifyDetection, CheckTarget,
     ReadFails, Prepare, Post, ResetFails, ResetSucceeds, NoMoreTargets, NotifyReset,
     Goto, Finish, NextTarget
<1>3. \/ Post(s)
      \/ \E ok \in SaveOutcomes : Prepare(s, ok)
      \/ w'[s].pc \notin {"posting", "awaiting"}
  <2>1. CASE \E groupOK \in BOOLEAN, ok \in SaveOutcomes : RecordEvent(s, groupOK, ok)
    <3>1. PICK groupOK \in BOOLEAN, ok \in SaveOutcomes : RecordEvent(s, groupOK, ok)
      BY <2>1
    <3>2. CASE ok
      <4> DEFINE v == [w[s] EXCEPT !.pc = "notifying", !.id = nextId, !.acting = groupOK]
      <4>1. w'[s] = v
        BY <1>1, <3>1, <3>2 DEF RecordEvent
      <4>2. v.pc = "notifying"
        BY <1>1 DEF Worker
      <4> QED
        BY <4>1, <4>2
    <3>3. CASE ~ok
      BY <1>1, <3>1, <3>3 DEF RecordEvent, Finish, NoWorker
    <3> QED
      BY <3>2, <3>3
  <2>2. CASE Resolve(s)
    <3> DEFINE v == [w[s] EXCEPT !.pc = "resolved", !.todo = ActionTargets(s),
                                 !.dims = ActionDims(s), !.acting = ActionAllowed(s)]
    <3>1. w'[s] = v
      BY <1>1, <2>2 DEF Resolve
    <3>2. v.pc = "resolved"
      BY <1>1 DEF Worker
    <3> QED
      BY <3>1, <3>2
  <2>3. CASE LaunchCancelled(s) \/ SampleSettles(s) \/ ConfirmRejected(s) \/ NotifyReset(s)
    BY <1>1, <2>3 DEF LaunchCancelled, SampleSettles, ConfirmRejected, NotifyReset, Finish, NoWorker
  <2>4. CASE \/ Launch(s) \/ SampleCandidate(s) \/ ConfirmReset(s) \/ NoMoreTargets(s)
             \/ ReadFails(s) \/ ResetFails(s) \/ ResetSucceeds(s)
    BY <1>1, <2>4 DEF Launch, SampleCandidate, ConfirmReset, NoMoreTargets, ReadFails,
       ResetFails, ResetSucceeds, Goto, NextTarget, Worker
  <2>5. CASE NotifyDetection(s)
    BY <1>1, <2>5 DEF NotifyDetection, Goto, Finish, NoWorker, Worker
  <2>6. CASE \E t \in Subs : CheckTarget(s, t)
    BY <1>1, <2>6 DEF CheckTarget, At, Worker
  <2> QED
    BY <2>1, <2>2, <2>3, <2>4, <2>5, <2>6 DEF WorkerStep
<1>4. CASE Sent(c)'
  <2>1. CASE Post(s)
    BY <1>4, <2>1 DEF Post, Committed, Sent, At
  <2>2. CASE ~Post(s)
    <3>1. UNCHANGED <<wire, landed>>
      BY <2>2 DEF WorkerStep, Launch, LaunchCancelled, SampleSettles, SampleCandidate,
         ConfirmRejected, ConfirmReset, Resolve, RecordEvent, NotifyDetection, CheckTarget,
         ReadFails, Prepare, ResetFails, ResetSucceeds, NoMoreTargets, NotifyReset, world
    <3> QED
      BY <1>4, <3>1 DEF Committed, Sent
  <2> QED
    BY <2>1, <2>2
<1>5. ASSUME NEW r \in Sources, w'[r].pc \in {"posting", "awaiting"}, c = CallOf(r)'
      PROVE  \/ Committed(c)
             \/ /\ \E ok \in SaveOutcomes : Prepare(s, ok)
                /\ w'[s].pc = "posting" /\ c = CallOf(s)'
  <2>1. CASE r # s
    <3>1. w'[r] = w[r]
      BY <1>2, <2>1
    <3> QED
      BY <1>5, <3>1 DEF Committed, CallOf
  <2>2. CASE r = s /\ Post(s)
    <3>1. w[s].pc = "posting" /\ w'[s].win = w[s].win /\ w'[s].cur = w[s].cur
      BY <1>1, <2>2 DEF Post, Goto, At, Worker
    <3> QED
      BY <1>5, <2>2, <3>1 DEF Committed, CallOf
  <2>3. CASE r = s /\ \E ok \in SaveOutcomes : Prepare(s, ok)
    <3>1. w'[s].pc \in {"checking", "posting"}
      BY <1>1, <2>3 DEF Prepare, Goto, NextTarget, Worker
    <3> QED
      BY <1>5, <2>3, <3>1
  <2> QED
    BY <1>3, <1>5, <2>1, <2>2, <2>3
<1> QED
  BY <1>4, <1>5 DEF Committed

\* A step retains the records: none is dropped unless the list is full.
Retains == Bounded(mem') /\ \A c \in Call : Snapped(mem, c) => Snapped(mem', c)

LEMMA KeepRetains ==
  ASSUME Bounded(mem), mem'.events = mem.events
  PROVE  Retains
BY DEF Retains, Bounded, Snapped

LEMMA WriteRetains ==
  ASSUME IInv, EventsInv, Bounded(mem), NEW s \in Sources,
         NEW t \in Subs, NEW v \in Status, NEW snap \in SUBSET Subs, Writes(s, t, v, snap)
  PROVE  Retains
<1> DEFINE i == w[s].id
<1>1. mem \in Store /\ mem' = SetTarget(mem, i, t, v, snap)
      /\ \A e, f \in mem.events : e.id = f.id => e = f
  BY DEF IInv, TypeOK, Writes, EventsInv, Listed
<1> HIDE DEF i
<1>2. Bounded(mem') /\ Cardinality(mem'.events) = Cardinality(mem.events)
  BY <1>1, SetTargetBounded
<1>3. mem'.events = {Rewritten(e, i, t, v, snap) : e \in mem.events}
  BY <1>1, SetTargetEvents
<1>4. ASSUME NEW e \in mem.events
      PROVE  LET f == Rewritten(e, i, t, v, snap) IN
             f \in mem'.events /\ SameEvent(e, f) /\ e.before \subseteq f.before
  <2>1. e \in Event
    BY <1>1 DEF Store
  <2>2. e.id = i \/ e.id # i
    OBVIOUS
  <2>3. SameEvent(e, Rewritten(e, i, t, v, snap))
        /\ e.before \subseteq Rewritten(e, i, t, v, snap).before
    BY <2>1, <2>2, RewrittenEvent
  <2> QED
    BY <1>3, <2>3
<1>5. ASSUME NEW c \in Call, Snapped(mem, c) PROVE Snapped(mem', c)
  <2>1. CASE Cardinality(mem.events) = MaxEvents
    BY <1>2, <2>1 DEF Snapped
  <2>2. ASSUME NEW e \in mem.events, e.src = c.src, e.win = c.win, c.sub \in e.before
        PROVE  Snapped(mem', c)
    BY <1>4, <2>2 DEF Snapped, SameEvent
  <2> QED
    BY <1>5, <2>1, <2>2 DEF Snapped
<1> QED
  BY <1>2, <1>5 DEF Retains

LEMMA RecordRetains ==
  ASSUME IInv, EventsInv, Bounded(mem), NEW s \in Sources, NEW groupOK \in BOOLEAN,
         NEW ok \in SaveOutcomes, RecordEvent(s, groupOK, ok)
  PROVE  Retains
<1> DEFINE e == [id |-> nextId, src |-> s, win |-> w[s].win, before |-> {},
                 status |-> [t \in Subs |->
                    IF t \notin w[s].todo THEN "none"
                    ELSE IF groupOK THEN "pending" ELSE "skipped"]]
           E == mem.events
           N == Newest(E \cup {e})
<1>1. /\ w[s] \in Worker /\ mem \in Store /\ nextId \in Nat
      /\ w[s].pc = "resolved" /\ w[s].win \in 1..MaxWindow
  <2>1. w[s] \in Worker /\ w[s].pc = "resolved" /\ WorkerInv(s)
    BY DEF IInv, TypeOK, RecordEvent, At
  <2>2. w[s].win > 0 /\ w[s].win \in 0..MaxWindow
    BY <2>1 DEF WorkerInv, Acting, Worker
  <2> QED
    BY <2>1, <2>2 DEF IInv, TypeOK
<1>2. e \in Event /\ e.id = nextId
  BY <1>1 DEF Event, Status
<1>3. mem'.events = N
  BY <1>1 DEF RecordEvent, Save, Store
<1>4. /\ E \in SUBSET Event /\ \A f \in E : f.id < nextId
      /\ \A f, g \in E : f.id = g.id => f = g
      /\ IsFiniteSet(E) /\ Cardinality(E) <= MaxEvents
  BY <1>1 DEF EventsInv, Listed, Bounded, Store
<1> HIDE DEF e, E
<1>5. /\ IsFiniteSet(N) /\ Cardinality(N) <= MaxEvents
      /\ E \subseteq N \/ Cardinality(N) = MaxEvents
  BY <1>2, <1>4, NewestBounded
<1> HIDE DEF N
<1>6. Cardinality(E) = MaxEvents /\ E \subseteq N => Cardinality(N) = MaxEvents
  <2> SUFFICES ASSUME Cardinality(E) = MaxEvents, E \subseteq N
               PROVE  Cardinality(N) = MaxEvents
    OBVIOUS
  <2>1. Cardinality(E) <= Cardinality(N) /\ Cardinality(N) \in Nat
    BY <1>5, FS_Subset, FS_CardinalityType
  <2> QED
    BY <1>5, <2>1, BoundsAssumption
<1>7. ASSUME NEW c \in Call, Snapped(mem, c) PROVE Snapped(mem', c)
  <2>1. CASE Cardinality(N) = MaxEvents
    BY <1>3, <2>1 DEF Snapped
  <2>2. CASE E \subseteq N /\ Cardinality(N) # MaxEvents
    BY <1>3, <1>6, <1>7, <2>2 DEF Snapped, E
  <2> QED
    BY <1>5, <2>1, <2>2
<1> QED
  BY <1>3, <1>5, <1>7 DEF Retains, Bounded

\* A call that a step commits is recorded by the same step, in the file too.
CommitsRecorded ==
  \A c \in Call : Committed(c)' => Committed(c) \/ (disk' = mem' /\ Snapped(mem', c))

\* What is committed stays recorded, and what a step commits it records.
LEMMA SnapStep ==
  ASSUME SnapInv, disk' = disk \/ disk' = mem', Retains, CommitsRecorded
  PROVE  SnapInv'
<1>1. Bounded(mem)' /\ Bounded(disk)'
  BY DEF SnapInv, Retains, Bounded
<1>2. ASSUME NEW c \in Call, Committed(c)' PROVE Snapped(mem', c) /\ Snapped(disk', c)
  BY <1>2 DEF SnapInv, Retains, CommitsRecorded
<1> QED
  BY <1>1, <1>2 DEF SnapInv, Snapped

LEMMA WorkerSnap ==
  ASSUME IInv, EventsInv, SnapInv, NEW s \in Sources, WorkerStep(s)
  PROVE  SnapInv'
<1>1. Bounded(mem) /\ mem \in Store
  BY DEF SnapInv, IInv, TypeOK
<1>2. (disk' = disk \/ disk' = mem') /\ Retains
  <2>1. CASE ConfirmReset(s)
    <3>1. \E ok \in SaveOutcomes : Save([mem EXCEPT !.fuse[s] = win[s]], ok)
      BY <2>1 DEF ConfirmReset
    <3>2. mem'.events = mem.events /\ (disk' = disk \/ disk' = mem')
      BY <1>1, <3>1 DEF Save, Store
    <3> QED
      BY <1>1, <3>2, KeepRetains
  <2>2. CASE \E groupOK \in BOOLEAN, ok \in SaveOutcomes : RecordEvent(s, groupOK, ok)
    BY <1>1, <2>2, RecordRetains, RecordStores DEF Grows
  <2>3. CASE /\ Grows
             /\ \/ mem'.events = mem.events
                \/ \E t \in Subs, v \in Status, snap \in SUBSET Subs : Writes(s, t, v, snap)
    BY <1>1, <2>3, KeepRetains, WriteRetains DEF Grows
  <2> QED
    BY <2>1, <2>2, <2>3, WorkerStore
<1>3. ASSUME NEW c \in Call, Committed(c)'
      PROVE  Committed(c) \/ (disk' = mem' /\ Snapped(mem', c))
  BY <1>3, CommitStep, PrepareSnapped
<1> QED
  BY <1>2, <1>3, SnapStep DEF CommitsRecorded

LEMMA NextSnap == ASSUME IInv, EventsInv, SnapInv, [Next]_vars PROVE SnapInv'
<1>0. mem \in Store /\ landed \in [Call -> Nat] /\ Bounded(mem)
  BY DEF IInv, TypeOK, SnapInv
<1>1. CASE (\E force \in BOOLEAN : StartCycle(force)) \/ EndCycle
  <2>1. /\ UNCHANGED store \/ \E ok \in SaveOutcomes : Save(mem, ok)
        /\ UNCHANGED <<wire, landed>>
        /\ \A s \in Sources : w'[s].pc \in {"idle", "queued"}
    BY <1>1 DEF StartCycle, EndCycle, store, world, NoWorker
  <2>2. mem' = mem /\ (disk' = disk \/ disk' = mem')
    BY <2>1 DEF store, Save
  <2>3. \A c : Committed(c)' => Committed(c)
    BY <2>1 DEF Committed, Sent
  <2>4. Retains
    BY <1>0, <2>2, KeepRetains
  <2> QED
    BY <2>2, <2>3, <2>4, SnapStep DEF CommitsRecorded
<1>2. CASE \E s \in Sources : WorkerStep(s)
  BY <1>2, WorkerSnap
<1>3. CASE \E c \in Configs : SetConfig(c)
  <2>1. PICK c \in Configs, ok \in SaveOutcomes :
          Save([mem EXCEPT !.cfg = c], ok) /\ UNCHANGED <<w, wire, landed>>
    BY <1>3 DEF SetConfig
  <2>2. mem'.events = mem.events /\ (disk' = disk \/ disk' = mem')
    BY <1>0, <2>1 DEF Save, Store
  <2>3. \A d : Committed(d)' => Committed(d)
    BY <2>1 DEF Committed, Sent, CallOf
  <2>4. Retains
    BY <1>0, <2>2, KeepRetains
  <2> QED
    BY <2>2, <2>3, <2>4, SnapStep DEF CommitsRecorded
<1>4. CASE Crash
  <2>1. /\ mem' = disk /\ disk' = disk /\ UNCHANGED <<wire, landed>>
        /\ \A s \in Sources : w'[s].pc = "idle"
    BY <1>4 DEF Crash, world, NoWorker
  <2>2. \A c : Committed(c)' => Committed(c)
    BY <2>1 DEF Committed, Sent
  <2> QED
    BY <2>1, <2>2 DEF SnapInv, Bounded, Snapped
<1>5. CASE \/ Deadline \/ UNCHANGED vars \/ \E s \in Sources : OfficialReset(s)
           \/ \E c \in wire : Land(c) \/ Lose(c)
  <2>1. UNCHANGED <<mem, disk, w>> /\ \A c \in Call : Sent(c)' => Sent(c)
    <3>1. CASE Deadline \/ UNCHANGED vars \/ \E s \in Sources : OfficialReset(s)
      BY <3>1 DEF Deadline, vars, OfficialReset, store, cycle, world, Sent
    <3>2. CASE \E c \in wire : Land(c) \/ Lose(c)
      BY <1>0, <3>2 DEF Land, Lose, store, Sent
    <3> QED
      BY <1>5, <3>1, <3>2
  <2>2. \A c \in Call : Committed(c)' => Committed(c)
    BY <2>1 DEF Committed, CallOf
  <2>3. Retains
    BY <1>0, <2>1, KeepRetains
  <2> QED
    BY <2>1, <2>2, <2>3, SnapStep DEF CommitsRecorded
<1> QED
  BY <1>1, <1>2, <1>3, <1>4, <1>5 DEF Next

\* A reset that has left the process is on record in the file with the
\* subscription's state before it, unless the list has reached its limit.
THEOREM SnapshotFirst == Spec => []SnapshotBeforeReset
<1>1. Init => SnapInv
  <2> SUFFICES ASSUME Init PROVE SnapInv
    OBVIOUS
  <2>1. /\ mem.events = {} /\ disk.events = {} /\ wire = {}
        /\ landed = [c \in Call |-> 0] /\ \A s \in Sources : w[s].pc = "idle"
    BY DEF Init, NoWorker
  <2>2. Bounded(mem) /\ Bounded(disk)
    BY <2>1, FS_EmptySet, BoundsAssumption DEF Bounded
  <2>3. \A c \in Call : ~Committed(c)
    BY <2>1 DEF Committed, Sent
  <2> QED
    BY <2>2, <2>3 DEF SnapInv
<1>2. IInv /\ EventsInv /\ SnapInv /\ [Next]_vars => SnapInv'
  BY NextSnap
<1>3. SnapInv => SnapshotBeforeReset
  BY DEF SnapInv, Committed, Sent, Snapped, SnapshotBeforeReset
<1> QED
  BY <1>1, <1>2, <1>3, EventInvariant, PTL DEF Spec

============================================================================
