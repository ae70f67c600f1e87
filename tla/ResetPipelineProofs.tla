------------------------ MODULE ResetPipelineProofs ------------------------
(***************************************************************************)
(* Proofs about ResetPipeline, for every set of sources, subscriptions and *)
(* configurations, with saves that may fail and a process that may crash.  *)
(***************************************************************************)
EXTENDS ResetPipeline, TLAPS

\* A save takes a well-formed state to memory and, at most, to the file.
LEMMA SaveType ==
  ASSUME mem \in Store, disk \in Store, NEW st \in Store, NEW ok, Save(st, ok)
  PROVE  mem' \in Store /\ disk' \in Store /\ mem' = st /\ (disk' = disk \/ disk' = st)
BY DEF Save

\* What a store operation that is not about the fuse does to the fuses: the
\* file's may only catch up with memory's.
FusesKept ==
  /\ mem' \in Store /\ disk' \in Store
  /\ mem'.fuse = mem.fuse /\ mem'.cfg = mem.cfg
  /\ disk'.fuse = disk.fuse \/ disk'.fuse = mem.fuse

\* Saving a state that differs from memory only in its events keeps fuses.
LEMMA SaveKeepsFuses ==
  ASSUME mem \in Store, disk \in Store, NEW ok,
         NEW st \in Store, st.fuse = mem.fuse, st.cfg = mem.cfg, Save(st, ok)
  PROVE  FusesKept
BY SaveType DEF FusesKept

\* Writing a target's status and snapshot keeps the state well formed and
\* touches nothing but the events (store.go, PrepareTarget, CompleteTarget).
LEMMA SetTargetType ==
  ASSUME NEW st \in Store, NEW i, NEW t \in Subs, NEW v \in Status,
         NEW snap \in SUBSET Subs
  PROVE  /\ SetTarget(st, i, t, v, snap) \in Store
         /\ SetTarget(st, i, t, v, snap).fuse = st.fuse
         /\ SetTarget(st, i, t, v, snap).cfg = st.cfg
<1> DEFINE evs == {IF e.id = i THEN [e EXCEPT !.status[t] = v, !.before = @ \cup snap]
                   ELSE e : e \in st.events}
<1>1. ASSUME NEW e \in Event
      PROVE  [e EXCEPT !.status[t] = v, !.before = @ \cup snap] \in Event
  BY <1>1 DEF Event
<1>2. evs \subseteq Event
  BY <1>1 DEF Store
<1>3. SetTarget(st, i, t, v, snap) = [st EXCEPT !.events = evs]
  BY DEF SetTarget
<1> HIDE DEF evs
<1> QED
  BY <1>2, <1>3 DEF Store

LEMMA VerdictKeepsFuses ==
  ASSUME mem \in Store, disk \in Store,
         NEW i, NEW t \in Subs, NEW v \in Status, Verdict(i, t, v)
  PROVE  FusesKept
<1>1. CASE UNCHANGED store
  BY <1>1 DEF store, FusesKept
<1>2. CASE \E ok \in SaveOutcomes : Save(SetTarget(mem, i, t, v, {}), ok)
  <2>1. PICK ok \in SaveOutcomes : Save(SetTarget(mem, i, t, v, {}), ok)
    BY <1>2
  <2>2. {} \in SUBSET Subs
    OBVIOUS
  <2> QED
    BY <2>1, <2>2, SetTargetType, SaveKeepsFuses
<1> QED
  BY <1>1, <1>2 DEF Verdict

LEMMA FlushKeepsFuses ==
  ASSUME mem \in Store, disk \in Store, NEW i, MayFlush(i)
  PROVE  FusesKept
<1>1. CASE UNCHANGED store
  BY <1>1 DEF store, FusesKept
<1>2. CASE \E ok \in SaveOutcomes : Save(mem, ok)
  BY <1>2, SaveKeepsFuses
<1> QED
  BY <1>1, <1>2 DEF MayFlush

\* The two calls of a source, window and subscription are the same call.
LEMMA CallType ==
  ASSUME NEW s \in Sources, NEW n \in 1..MaxWindow, NEW t \in Subs
  PROVE  [src |-> s, win |-> n, sub |-> t] \in Call
BY DEF Call

----------------------------------------------------------------------------
\* A worker that does not move keeps its invariant when the fuses are kept
\* and nothing is sent.
LEMMA OthersKeep ==
  ASSUME IInv, NEW r \in Sources, FusesKept,
         w'[r] = w[r], UNCHANGED <<wire, landed>>
  PROVE  WorkerInv(r)'
<1>1. /\ WorkerInv(r) /\ mem \in Store /\ disk \in Store
      /\ disk.fuse[r] <= mem.fuse[r] /\ w[r] \in Worker
  BY DEF IInv, FuseOrder, TypeOK
<1>2. mem'.fuse[r] = mem.fuse[r]
  BY DEF FusesKept
<1>3. w[r].pc \in Recorded => disk'.fuse[r] = w[r].win
  <2>1. w[r].pc \in Recorded => disk.fuse[r] = w[r].win /\ mem.fuse[r] = w[r].win
    BY <1>1 DEF WorkerInv, Acting
  <2> QED
    BY <2>1 DEF FusesKept
<1>4. \A c : Sent(c)' <=> Sent(c)
  BY DEF Sent
<1>5. ToSend(r)' = ToSend(r)
  BY DEF ToSend, At
<1> QED
  BY <1>1, <1>2, <1>3, <1>4, <1>5 DEF WorkerInv, At

\* Under kept fuses and an unchanged network the global parts of the
\* invariant hold again: the file's fuse only grows towards memory's.
LEMMA GlobalKeep ==
  ASSUME IInv, FusesKept, UNCHANGED <<wire, landed, win>>
  PROVE  FuseOrder' /\ WriteAhead' /\ CallOnce'
<1> USE DEF IInv, TypeOK
<1>1. \A s \in Sources : /\ disk.fuse[s] \in Nat /\ mem.fuse[s] \in Nat /\ win[s] \in Nat
                         /\ disk.fuse[s] <= mem.fuse[s] /\ mem.fuse[s] <= win[s]
  BY DEF Store, FuseOrder
<1>2. \A s \in Sources : /\ disk'.fuse[s] \in Nat /\ disk.fuse[s] <= disk'.fuse[s]
                         /\ disk'.fuse[s] <= mem'.fuse[s] /\ mem'.fuse[s] <= win[s]
  BY <1>1 DEF FusesKept
<1>3. FuseOrder'
  BY <1>2 DEF FuseOrder
<1>4. WriteAhead'
  <2> SUFFICES ASSUME NEW c \in Call, Sent(c)' PROVE c.win <= disk'.fuse[c.src]
    BY DEF WriteAhead
  <2>1. Sent(c) /\ c.src \in Sources /\ c.win \in Nat
    BY DEF Sent, Call
  <2>2. c.win <= disk.fuse[c.src]
    BY <2>1 DEF WriteAhead
  <2> QED
    BY <2>1, <2>2, <1>1, <1>2
<1> QED
  BY <1>3, <1>4 DEF CallOnce

\* A step of one worker that keeps the fuses and the network preserves the
\* invariant when the worker's own part holds afterwards.
LEMMA WorkerMoves ==
  ASSUME IInv, NEW s \in Sources, FusesKept,
         UNCHANGED <<polling, start, deadline, wire, landed, win, stray>>,
         nextId' \in Nat \ {0},
         NEW v \in Worker, w' = [w EXCEPT ![s] = v], WorkerInv(s)'
  PROVE  IInv'
<1>1. TypeOK'
  BY DEF IInv, TypeOK, FusesKept
<1>2. ASSUME NEW r \in Sources PROVE WorkerInv(r)'
  <2>1. CASE r = s
    BY <2>1
  <2>2. CASE r # s
    <3>1. w'[r] = w[r]
      BY <2>2
    <3> QED
      BY <3>1, OthersKeep
  <2> QED
    BY <2>1, <2>2
<1> QED
  BY <1>1, <1>2, GlobalKeep DEF IInv

\* A worker that has nothing to remember is outside the invariant's reach.
LEMMA WorkerLeaves ==
  ASSUME IInv, NEW s \in Sources, FusesKept,
         UNCHANGED <<polling, start, deadline, wire, landed, win, stray, nextId>>,
         NEW v \in Worker, v.pc \notin Acting \cup {"confirming"},
         w' = [w EXCEPT ![s] = v]
  PROVE  IInv'
<1>1. w'[s] = v /\ nextId' \in Nat \ {0}
  BY DEF IInv, TypeOK
<1>2. WorkerInv(s)'
  BY <1>1 DEF WorkerInv, At, Acting, Recorded
<1> QED
  BY <1>1, <1>2, WorkerMoves

\* A worker whose event is recorded stays on its window and sends nothing
\* that it had not still to send.
LEMMA WorkerAdvances ==
  ASSUME IInv, NEW s \in Sources, FusesKept,
         UNCHANGED <<polling, start, deadline, wire, landed, win, stray, nextId>>,
         NEW v \in Worker, w' = [w EXCEPT ![s] = v],
         w[s].pc \in Recorded, v.pc \in Recorded, v.win = w[s].win,
         v.pc # "awaiting",
         v.todo \subseteq ToSend(s),
         v.pc \in {"reading", "posting"} => v.cur \in v.todo
  PROVE  IInv'
<1>1. w'[s] = v /\ nextId' \in Nat \ {0} /\ mem \in Store /\ disk \in Store
  BY DEF IInv, TypeOK
<1>2. /\ w[s].win = mem.fuse[s] /\ w[s].win > 0 /\ w[s].win = disk.fuse[s]
      /\ \A t \in ToSend(s) : ~Sent([src |-> s, win |-> w[s].win, sub |-> t])
  BY DEF IInv, WorkerInv, Acting
<1>3. mem'.fuse[s] = v.win /\ disk'.fuse[s] = v.win
  BY <1>2 DEF FusesKept
<1>4. ToSend(s)' \subseteq ToSend(s)
  BY <1>1 DEF ToSend, At, Recorded
<1>5. \A c : Sent(c)' <=> Sent(c)
  BY DEF Sent
<1>6. v.pc # "confirming"
  BY DEF Recorded
<1>7. WorkerInv(s)'
  BY <1>1, <1>2, <1>3, <1>4, <1>5, <1>6 DEF WorkerInv, At
<1> QED
  BY <1>1, <1>7, WorkerMoves

----------------------------------------------------------------------------
(* One lemma per kind of worker step.                                      *)

LEMMA NoWorkerType == NoWorker \in Worker /\ [NoWorker EXCEPT !.pc = "done"] \in Worker
<1>1. 0 \in 0..MaxWindow
  BY BoundsAssumption
<1>2. NoWorker \in Worker
  BY <1>1 DEF NoWorker, Worker, Phase
<1>3. [NoWorker EXCEPT !.pc = "done"] \in Worker
  BY <1>2 DEF Worker, Phase
<1> QED
  BY <1>2, <1>3

LEMMA FinishStep ==
  ASSUME IInv, NEW s \in Sources, FusesKept, Finish(s),
         UNCHANGED <<polling, start, deadline, wire, landed, win, stray, nextId>>
  PROVE  IInv'
<1> DEFINE v == [NoWorker EXCEPT !.pc = "done"]
<1>1. v \in Worker /\ v.pc \notin Acting \cup {"confirming"}
  BY NoWorkerType DEF NoWorker, Acting, Recorded
<1>2. w' = [w EXCEPT ![s] = v]
  BY DEF Finish
<1> HIDE DEF v
<1> QED
  BY <1>1, <1>2, WorkerLeaves

LEMMA UnchangedStore ==
  ASSUME mem \in Store, disk \in Store, UNCHANGED store
  PROVE  FusesKept
BY DEF store, FusesKept

LEMMA LaunchStep == ASSUME IInv, NEW s \in Sources, Launch(s) PROVE IInv' /\ FusesKept
<1> DEFINE v == [w[s] EXCEPT !.pc = "sampling"]
<1>1. w[s] \in Worker /\ mem \in Store /\ disk \in Store
  BY DEF IInv, TypeOK
<1>2. v \in Worker /\ v.pc \notin Acting \cup {"confirming"}
  BY <1>1 DEF Worker, Phase, Acting, Recorded
<1>3. w' = [w EXCEPT ![s] = v] /\ UNCHANGED store
      /\ UNCHANGED <<polling, start, deadline, wire, landed, win, stray, nextId>>
  BY DEF Launch, Goto, cycle, world
<1> HIDE DEF v
<1>4. FusesKept
  BY <1>1, <1>3, UnchangedStore
<1> QED
  BY <1>2, <1>3, <1>4, WorkerLeaves

LEMMA SettleStep ==
  ASSUME IInv, NEW s \in Sources, LaunchCancelled(s) \/ SampleSettles(s) \/ NotifyReset(s)
  PROVE  IInv' /\ FusesKept
<1>1. mem \in Store /\ disk \in Store
  BY DEF IInv, TypeOK
<1>2. Finish(s) /\ UNCHANGED <<polling, start, deadline, wire, landed, win, stray, nextId>>
  BY DEF LaunchCancelled, SampleSettles, NotifyReset, cycle, world
<1>3. FusesKept
  <2>1. CASE UNCHANGED store
    BY <2>1, <1>1, UnchangedStore
  <2>2. CASE \E ok \in SaveOutcomes : Save(mem, ok)
    BY <2>2, <1>1, SaveKeepsFuses
  <2>3. CASE MayFlush(w[s].id)
    BY <2>3, <1>1, FlushKeepsFuses
  <2> QED
    BY <2>1, <2>2, <2>3 DEF LaunchCancelled, SampleSettles, NotifyReset
<1> QED
  BY <1>2, <1>3, FinishStep

LEMMA SampleCandidateStep ==
  ASSUME IInv, NEW s \in Sources, SampleCandidate(s) PROVE IInv' /\ FusesKept
<1> DEFINE v == [w[s] EXCEPT !.pc = "confirming", !.prev = mem.fuse[s]]
<1>1. w \in [Sources -> Worker] /\ mem \in Store /\ disk \in Store /\ nextId \in Nat \ {0}
  BY DEF IInv, TypeOK
<1>2. v \in Worker /\ v.pc = "confirming" /\ v.prev = mem.fuse[s]
  BY <1>1 DEF Worker, Phase, Store
<1>3. w' = [w EXCEPT ![s] = v] /\ UNCHANGED store
      /\ UNCHANGED <<polling, start, deadline, wire, landed, win, stray, nextId>>
  BY DEF SampleCandidate, cycle, world
<1> HIDE DEF v
<1>4. FusesKept
  BY <1>1, <1>3, UnchangedStore
<1>5. WorkerInv(s)'
  BY <1>1, <1>2, <1>3, <1>4 DEF WorkerInv, At, Acting, Recorded, FusesKept
<1> QED
  BY <1>1, <1>2, <1>3, <1>4, <1>5, WorkerMoves

LEMMA ConfirmRejectedStep ==
  ASSUME IInv, NEW s \in Sources, ConfirmRejected(s) PROVE IInv' /\ FusesKept
<1>1. w[s] \in Worker /\ mem \in Store /\ disk \in Store /\ w[s].prev = mem.fuse[s]
  BY DEF IInv, TypeOK, WorkerInv, ConfirmRejected
<1>2. Finish(s) /\ UNCHANGED <<polling, start, deadline, wire, landed, win, stray, nextId>>
  BY DEF ConfirmRejected, cycle, world
<1>3. FusesKept
  <2> DEFINE st == [mem EXCEPT !.fuse[s] = w[s].prev]
  <2>1. CASE UNCHANGED store
    BY <2>1, <1>1, UnchangedStore
  <2>2. CASE \E ok \in SaveOutcomes : Save(st, ok)
    <3>1. st \in Store /\ st.cfg = mem.cfg /\ st.fuse = mem.fuse
      BY <1>1 DEF Store
    <3> HIDE DEF st
    <3> QED
      BY <2>2, <3>1, <1>1, SaveKeepsFuses
  <2> QED
    BY <2>1, <2>2 DEF ConfirmRejected
<1> QED
  BY <1>2, <1>3, FinishStep

\* The confirmation of a new window: nothing was ever sent for it, because a
\* call sent is covered by the fuse on disk and the fuse has not reached it.
LEMMA ConfirmResetStep ==
  ASSUME IInv, NEW s \in Sources, ConfirmReset(s) PROVE IInv'
<1> DEFINE st == [mem EXCEPT !.fuse[s] = win[s]]
           v  == [w[s] EXCEPT !.pc = "confirmed", !.win = win[s]]
<1>1. /\ w \in [Sources -> Worker] /\ mem \in Store /\ disk \in Store
      /\ win \in [Sources -> 1..MaxWindow]
  BY DEF IInv, TypeOK
<1>2. /\ w[s].prev = mem.fuse[s] /\ w[s].prev # win[s]
      /\ UNCHANGED <<polling, start, deadline, wire, landed, win, stray, nextId>>
      /\ w' = [w EXCEPT ![s] = v]
  BY DEF ConfirmReset, IInv, WorkerInv, FuseOpen, cycle, world
<1>3. \A r \in Sources : /\ disk.fuse[r] \in Nat /\ mem.fuse[r] \in Nat /\ win[r] \in Nat
                         /\ disk.fuse[r] <= mem.fuse[r] /\ mem.fuse[r] <= win[r]
  BY <1>1 DEF IInv, FuseOrder, Store
<1>4. mem.fuse[s] < win[s]
  BY <1>2, <1>3
<1>5. st \in Store /\ st.cfg = mem.cfg /\ st.fuse = [mem.fuse EXCEPT ![s] = win[s]]
  BY <1>1 DEF Store
<1>6. v \in Worker /\ v.pc = "confirmed" /\ v.win = win[s] /\ w'[s] = v
  <2>1. win[s] \in 0..MaxWindow
    BY <1>1
  <2>2. v \in Worker /\ v.pc = "confirmed" /\ v.win = win[s]
    BY <1>1, <2>1 DEF Worker, Phase
  <2> QED
    BY <1>1, <1>2, <2>2
<1>7. \E ok : Save(st, ok)
  BY DEF ConfirmReset
<1> HIDE DEF st, v
<1>8. mem' = st /\ (disk' = disk \/ disk' = st) /\ disk' \in Store
  BY <1>1, <1>5, <1>7, SaveType
<1>9. TypeOK'
  BY <1>1, <1>2, <1>5, <1>6, <1>8 DEF IInv, TypeOK
<1>10. \A r \in Sources : /\ mem'.fuse[r] = IF r = s THEN win[s] ELSE mem.fuse[r]
                          /\ disk'.fuse[r] = disk.fuse[r] \/ disk'.fuse[r] = mem'.fuse[r]
  BY <1>1, <1>5, <1>8 DEF Store
<1>11. FuseOrder'
  BY <1>2, <1>3, <1>4, <1>10 DEF FuseOrder
<1>12. \A c : Sent(c)' <=> Sent(c)
  BY <1>2 DEF Sent
<1>13. \A r \in Sources : disk.fuse[r] <= disk'.fuse[r] /\ disk'.fuse[r] \in Nat
  BY <1>3, <1>4, <1>10
<1>14. WriteAhead'
  <2> SUFFICES ASSUME NEW c \in Call, Sent(c) PROVE c.win <= disk'.fuse[c.src]
    BY <1>12 DEF WriteAhead
  <2>1. c.src \in Sources /\ c.win \in Nat
    BY DEF Call
  <2>2. c.win <= disk.fuse[c.src]
    BY DEF IInv, WriteAhead
  <2> QED
    BY <2>1, <2>2, <1>3, <1>13
<1>15. CallOnce'
  BY <1>2 DEF IInv, CallOnce
<1>16. \A t \in Subs : ~Sent([src |-> s, win |-> win[s], sub |-> t])
  <2> SUFFICES ASSUME NEW t \in Subs, Sent([src |-> s, win |-> win[s], sub |-> t])
               PROVE FALSE
    OBVIOUS
  <2>1. [src |-> s, win |-> win[s], sub |-> t] \in Call
    BY <1>1, CallType
  <2>2. win[s] <= disk.fuse[s]
    BY <2>1 DEF IInv, WriteAhead
  <2> QED
    BY <2>2, <1>3, <1>4
<1>17. WorkerInv(s)'
  <2>1. ToSend(s)' = Subs
    BY <1>6 DEF ToSend, At
  <2>2. win[s] > 0 /\ mem'.fuse[s] = win[s]
    BY <1>1, <1>10
  <2> QED
    BY <2>1, <2>2, <1>6, <1>12, <1>16 DEF WorkerInv, At, Recorded
<1>18. ASSUME NEW r \in Sources, r # s PROVE WorkerInv(r)'
  <2>1. w'[r] = w[r] /\ mem'.fuse[r] = mem.fuse[r] /\ WorkerInv(r)
    BY <1>1, <1>2, <1>10, <1>18 DEF IInv
  <2>2. w[r].pc \in Recorded => disk'.fuse[r] = w[r].win
    BY <2>1, <1>10 DEF WorkerInv, Acting
  <2>3. ToSend(r)' = ToSend(r)
    BY <2>1 DEF ToSend, At
  <2> QED
    BY <2>1, <2>2, <2>3, <1>12 DEF WorkerInv, At
<1>19. \A r \in Sources : WorkerInv(r)'
  BY <1>17, <1>18
<1> QED
  BY <1>9, <1>11, <1>14, <1>15, <1>19 DEF IInv

LEMMA ResolveStep == ASSUME IInv, NEW s \in Sources, Resolve(s) PROVE IInv' /\ FusesKept
<1> DEFINE v == [w[s] EXCEPT !.pc = "resolved", !.todo = ActionTargets(s),
                             !.dims = ActionDims(s), !.acting = ActionAllowed(s)]
<1>1. /\ w \in [Sources -> Worker] /\ mem \in Store /\ disk \in Store
      /\ start \in Configs /\ nextId \in Nat \ {0} /\ WorkerInv(s)
  BY DEF IInv, TypeOK
<1>2. ActionTargets(s) \subseteq Subs /\ ActionDims(s) \subseteq Dims
  BY <1>1, ConfigsAssumption DEF ActionTargets, ActionDims, Store, Config
<1>3. ActionAllowed(s) \in BOOLEAN
  BY DEF ActionAllowed, BothActive
<1>4. /\ w' = [w EXCEPT ![s] = v] /\ UNCHANGED store
      /\ UNCHANGED <<polling, start, deadline, wire, landed, win, stray, nextId>>
      /\ w[s].pc = "confirmed"
  BY DEF Resolve, cycle, world, At
<1>5. v \in Worker /\ w'[s] = v
  BY <1>1, <1>2, <1>3, <1>4 DEF Worker, Phase
<1>6. v.pc = "resolved" /\ v.win = w[s].win /\ v.todo \subseteq Subs
  BY <1>1, <1>2 DEF Worker
<1> HIDE DEF v
<1>7. FusesKept
  BY <1>1, <1>4, UnchangedStore
<1>8. WorkerInv(s)'
  <2>1. ToSend(s)' = v.todo /\ ToSend(s) = Subs
    BY <1>4, <1>5, <1>6 DEF ToSend, At
  <2>2. w[s].win = mem.fuse[s] /\ w[s].win > 0
        /\ \A t \in Subs : ~Sent([src |-> s, win |-> w[s].win, sub |-> t])
    BY <1>1, <1>4, <2>1 DEF WorkerInv, Acting
  <2>3. \A c : Sent(c)' <=> Sent(c)
    BY <1>4 DEF Sent
  <2> QED
    BY <2>1, <2>2, <2>3, <1>5, <1>6, <1>7 DEF WorkerInv, At, Recorded, FusesKept
<1> QED
  BY <1>1, <1>4, <1>5, <1>7, <1>8, WorkerMoves

\* Recording the event writes the fuse to disk with it: a save is the whole
\* of memory.
LEMMA RecordEventStep ==
  ASSUME IInv, NEW s \in Sources, NEW groupOK \in BOOLEAN, NEW ok \in SaveOutcomes,
         RecordEvent(s, groupOK, ok)
  PROVE  IInv' /\ FusesKept
<1> DEFINE e == [id |-> nextId, src |-> s, win |-> w[s].win, before |-> {},
                 status |-> [t \in Subs |->
                    IF t \notin w[s].todo THEN "none"
                    ELSE IF groupOK THEN "pending" ELSE "skipped"]]
           st == [mem EXCEPT !.events = Newest(mem.events \cup {e})]
           v  == [w[s] EXCEPT !.pc = "notifying", !.id = nextId, !.acting = groupOK]
<1>1. /\ w \in [Sources -> Worker] /\ w[s] \in Worker /\ mem \in Store /\ disk \in Store
      /\ nextId \in Nat \ {0} /\ WorkerInv(s) /\ w[s].pc = "resolved"
  BY DEF IInv, TypeOK, RecordEvent, At
<1>2. w[s].win = mem.fuse[s] /\ w[s].win \in 1..MaxWindow
  <2>1. w[s].win = mem.fuse[s] /\ w[s].win > 0 /\ w[s].win \in 0..MaxWindow
    BY <1>1 DEF WorkerInv, Acting, Worker
  <2> QED
    BY <2>1
<1>3. e \in Event
  <2>1. \A t \in Subs : e.status[t] \in Status
    BY DEF Status
  <2> QED
    BY <2>1, <1>1, <1>2 DEF Event
<1>4. Newest(mem.events \cup {e}) \subseteq Event
  BY <1>1, <1>3 DEF Newest, Store
<1>5. Save(st, ok)
      /\ UNCHANGED <<polling, start, deadline, wire, landed, win, stray>>
      /\ nextId' = nextId + 1
      /\ (IF ok THEN w' = [w EXCEPT ![s] = v] ELSE Finish(s))
  BY DEF RecordEvent, cycle
<1>6. st \in Store /\ st.fuse = mem.fuse /\ st.cfg = mem.cfg
  BY <1>1, <1>4 DEF Store
<1>7. v \in Worker /\ v.pc = "notifying" /\ v.win = w[s].win /\ v.todo = w[s].todo
  BY <1>1 DEF Worker, Phase
<1> HIDE DEF e, st, v
<1>8. FusesKept
  BY <1>1, <1>5, <1>6, SaveKeepsFuses
<1>9. nextId' \in Nat \ {0}
  BY <1>1, <1>5
<1>10. ASSUME ok PROVE IInv'
  <2>1. w' = [w EXCEPT ![s] = v] /\ w'[s] = v
    BY <1>1, <1>5, <1>10
  <2>2. mem'.fuse[s] = v.win /\ disk'.fuse[s] = v.win
    BY <1>2, <1>5, <1>6, <1>7, <1>10 DEF Save
  <2>3. ToSend(s)' = ToSend(s)
    BY <1>1, <1>7, <2>1 DEF ToSend, At
  <2>4. \A c : Sent(c)' <=> Sent(c)
    BY <1>5 DEF Sent
  <2>5. /\ w[s].win > 0
        /\ \A t \in ToSend(s) : ~Sent([src |-> s, win |-> w[s].win, sub |-> t])
    BY <1>1 DEF WorkerInv, Acting
  <2>6. WorkerInv(s)'
    BY <1>7, <2>1, <2>2, <2>3, <2>4, <2>5 DEF WorkerInv, At
  <2> QED
    BY <1>5, <1>7, <1>8, <1>9, <2>1, <2>6, WorkerMoves
<1>11. ASSUME ~ok PROVE IInv'
  <2> DEFINE u == [NoWorker EXCEPT !.pc = "done"]
  <2>1. u \in Worker /\ u.pc = "done" /\ w' = [w EXCEPT ![s] = u]
    BY <1>5, <1>11, NoWorkerType DEF Finish, NoWorker
  <2> HIDE DEF u
  <2>2. w'[s] = u
    BY <1>1, <2>1
  <2>3. WorkerInv(s)'
    BY <2>1, <2>2 DEF WorkerInv, At, Acting, Recorded
  <2> QED
    BY <1>5, <1>8, <1>9, <2>1, <2>3, WorkerMoves
<1> QED
  BY <1>8, <1>10, <1>11, FaultsAssumption

LEMMA NotifyDetectionStep ==
  ASSUME IInv, NEW s \in Sources, NotifyDetection(s) PROVE IInv' /\ FusesKept
<1> DEFINE v == [w[s] EXCEPT !.pc = "checking"]
<1>1. /\ w \in [Sources -> Worker] /\ mem \in Store /\ disk \in Store
      /\ w[s].pc = "notifying"
  BY DEF IInv, TypeOK, NotifyDetection, At
<1>2. UNCHANGED <<polling, start, deadline, wire, landed, win, stray, nextId>>
      /\ MayFlush(w[s].id) /\ (Finish(s) \/ w' = [w EXCEPT ![s] = v])
  BY DEF NotifyDetection, Goto, cycle, world
<1>3. FusesKept
  BY <1>1, <1>2, FlushKeepsFuses
<1>4. v \in Worker /\ v.pc = "checking" /\ v.win = w[s].win /\ v.todo \subseteq ToSend(s)
  BY <1>1 DEF Worker, Phase, ToSend, At
<1> HIDE DEF v
<1>5. ASSUME Finish(s) PROVE IInv'
  BY <1>2, <1>3, <1>5, FinishStep
<1>6. ASSUME w' = [w EXCEPT ![s] = v] PROVE IInv'
  <2>1. w[s].pc \in Recorded /\ v.pc \in Recorded
    BY <1>1, <1>4 DEF Recorded
  <2> QED
    BY <1>2, <1>3, <1>4, <1>6, <2>1, WorkerAdvances
<1> QED
  BY <1>2, <1>3, <1>5, <1>6

\* Leaving the current target, whether or not its call was sent.
LEMMA NextTargetStep ==
  ASSUME IInv, NEW s \in Sources, FusesKept, NextTarget(s),
         w[s].pc \in {"reading", "posting", "awaiting"},
         UNCHANGED <<polling, start, deadline, wire, landed, win, stray, nextId>>
  PROVE  IInv'
<1> DEFINE v == [w[s] EXCEPT !.pc = "checking", !.todo = w[s].todo \ {w[s].cur},
                             !.cur = NoSub]
<1>1. w \in [Sources -> Worker]
  BY DEF IInv, TypeOK
<1>2. w' = [w EXCEPT ![s] = v]
  BY DEF NextTarget
<1>3. v \in Worker /\ v.pc = "checking" /\ v.win = w[s].win /\ v.todo \subseteq ToSend(s)
  BY <1>1 DEF Worker, Phase, ToSend, At
<1> HIDE DEF v
<1>4. w[s].pc \in Recorded /\ v.pc \in Recorded
  BY <1>3 DEF Recorded
<1> QED
  BY <1>2, <1>3, <1>4, WorkerAdvances

\* The current target of a worker is a subscription.
LEMMA CurType ==
  ASSUME IInv, NEW s \in Sources, w[s].pc \in {"reading", "posting", "awaiting"}
  PROVE  w[s].cur \in Subs /\ w[s].cur \in w[s].todo
BY DEF IInv, TypeOK, Worker, WorkerInv

LEMMA CheckTargetStep ==
  ASSUME IInv, NEW s \in Sources, NEW t \in Subs, CheckTarget(s, t) PROVE IInv' /\ FusesKept
<1> DEFINE v == [w[s] EXCEPT !.pc = "reading", !.cur = t]
           u == [w[s] EXCEPT !.todo = w[s].todo \ {t}]
<1>1. /\ w \in [Sources -> Worker] /\ mem \in Store /\ disk \in Store
      /\ w[s].pc = "checking" /\ t \in w[s].todo
  BY DEF IInv, TypeOK, CheckTarget, At, IsNext
<1>2. /\ UNCHANGED <<polling, start, deadline, wire, landed, win, stray, nextId>>
      /\ \/ w' = [w EXCEPT ![s] = v] /\ UNCHANGED store
         \/ w' = [w EXCEPT ![s] = u] /\ Verdict(w[s].id, t, "cancelled")
  BY DEF CheckTarget, cycle, world
<1>3. FusesKept
  BY <1>1, <1>2, UnchangedStore, VerdictKeepsFuses DEF Status
<1>4. /\ v \in Worker /\ v.pc = "reading" /\ v.win = w[s].win /\ v.todo \subseteq ToSend(s)
      /\ v.cur \in v.todo
  BY <1>1 DEF Worker, Phase, ToSend, At
<1>5. u \in Worker /\ u.pc = "checking" /\ u.win = w[s].win /\ u.todo \subseteq ToSend(s)
  BY <1>1 DEF Worker, Phase, ToSend, At
<1> HIDE DEF v, u
<1>6. w[s].pc \in Recorded /\ v.pc \in Recorded /\ u.pc \in Recorded
  BY <1>1, <1>4, <1>5 DEF Recorded
<1>7. ASSUME w' = [w EXCEPT ![s] = v] PROVE IInv'
  BY <1>2, <1>3, <1>4, <1>6, <1>7, WorkerAdvances
<1>8. ASSUME w' = [w EXCEPT ![s] = u] PROVE IInv'
  BY <1>2, <1>3, <1>5, <1>6, <1>8, WorkerAdvances
<1> QED
  BY <1>2, <1>3, <1>7, <1>8

\* The three ways a target's turn ends with a verdict.
LEMMA TurnEndsStep ==
  ASSUME IInv, NEW s \in Sources, ReadFails(s) \/ ResetFails(s) \/ ResetSucceeds(s)
  PROVE  IInv' /\ FusesKept
<1>1. /\ mem \in Store /\ disk \in Store
      /\ w[s].pc \in {"reading", "posting", "awaiting"} /\ NextTarget(s)
      /\ UNCHANGED <<polling, start, deadline, wire, landed, win, stray, nextId>>
  BY DEF IInv, TypeOK, ReadFails, ResetFails, ResetSucceeds, At, cycle, world
<1>2. \E v \in Status : Verdict(w[s].id, w[s].cur, v)
  BY DEF ReadFails, ResetFails, ResetSucceeds, Status
<1>3. FusesKept
  BY <1>1, <1>2, CurType, VerdictKeepsFuses
<1> QED
  BY <1>1, <1>3, NextTargetStep

LEMMA NoMoreTargetsStep ==
  ASSUME IInv, NEW s \in Sources, NoMoreTargets(s) PROVE IInv' /\ FusesKept
<1> DEFINE v == [w[s] EXCEPT !.pc = "reporting"]
<1>1. /\ w \in [Sources -> Worker] /\ mem \in Store /\ disk \in Store
      /\ w[s].pc = "checking"
  BY DEF IInv, TypeOK, NoMoreTargets, At
<1>2. /\ UNCHANGED <<polling, start, deadline, wire, landed, win, stray, nextId>>
      /\ w' = [w EXCEPT ![s] = v] /\ UNCHANGED store
  BY DEF NoMoreTargets, Goto, cycle, world
<1>3. v \in Worker /\ v.pc = "reporting" /\ v.win = w[s].win /\ v.todo \subseteq ToSend(s)
  BY <1>1 DEF Worker, Phase, ToSend, At
<1> HIDE DEF v
<1>4. w[s].pc \in Recorded /\ v.pc \in Recorded
  BY <1>1, <1>3 DEF Recorded
<1>5. FusesKept
  BY <1>1, <1>2, UnchangedStore
<1> QED
  BY <1>2, <1>3, <1>4, <1>5, WorkerAdvances

LEMMA PrepareStep ==
  ASSUME IInv, NEW s \in Sources, NEW ok \in SaveOutcomes, Prepare(s, ok) PROVE IInv' /\ FusesKept
<1> DEFINE st == SetTarget(mem, w[s].id, w[s].cur, "resetting", {w[s].cur})
           v  == [w[s] EXCEPT !.pc = "posting"]
<1>1. /\ w \in [Sources -> Worker] /\ mem \in Store /\ disk \in Store
      /\ w[s].pc = "reading" /\ w[s].cur \in Subs /\ w[s].cur \in w[s].todo
  BY CurType DEF IInv, TypeOK, Prepare, At
<1>2. /\ UNCHANGED <<polling, start, deadline, wire, landed, win, stray, nextId>>
      /\ w' = [w EXCEPT ![s] = v] \/ NextTarget(s)
      /\ Save(st, ok) \/ UNCHANGED store
  BY DEF Prepare, Goto, cycle, world
<1>3. st \in Store /\ st.fuse = mem.fuse /\ st.cfg = mem.cfg
  <2>1. {w[s].cur} \in SUBSET Subs
    BY <1>1
  <2>2. "resetting" \in Status
    BY DEF Status
  <2> QED
    BY <1>1, <2>1, <2>2, SetTargetType
<1>4. v \in Worker /\ v.pc = "posting" /\ v.win = w[s].win
      /\ v.todo \subseteq ToSend(s) /\ v.cur \in v.todo
  BY <1>1 DEF Worker, Phase, ToSend, At
<1> HIDE DEF st, v
<1>5. FusesKept
  BY <1>1, <1>2, <1>3, SaveKeepsFuses, UnchangedStore
<1>6. w[s].pc \in Recorded /\ v.pc \in Recorded
  BY <1>1, <1>4 DEF Recorded
<1>7. ASSUME w' = [w EXCEPT ![s] = v] PROVE IInv'
  BY <1>2, <1>4, <1>5, <1>6, <1>7, WorkerAdvances
<1>8. ASSUME NextTarget(s) PROVE IInv'
  BY <1>1, <1>2, <1>5, <1>8, NextTargetStep
<1> QED
  BY <1>2, <1>5, <1>7, <1>8

\* Sending: the call was not sent before, and the fuse on disk covers it.
LEMMA PostStep == ASSUME IInv, NEW s \in Sources, Post(s) PROVE IInv' /\ FusesKept
<1> DEFINE c == [src |-> s, win |-> w[s].win, sub |-> w[s].cur]
           v == [w[s] EXCEPT !.pc = "awaiting"]
<1>1. /\ w \in [Sources -> Worker] /\ mem \in Store /\ disk \in Store
      /\ wire \subseteq Call /\ landed \in [Call -> Nat] /\ stray \in [Sources -> Nat]
      /\ w[s].pc = "posting" /\ w[s].cur \in Subs /\ w[s].cur \in w[s].todo
      /\ WorkerInv(s)
  BY CurType DEF IInv, TypeOK, Post, At
<1>2. /\ UNCHANGED <<mem, disk, polling, start, deadline, landed, win, nextId>>
      /\ wire' = wire \cup {c} /\ w' = [w EXCEPT ![s] = v]
      /\ stray' = stray \/ stray' = [stray EXCEPT ![s] = @ + 1]
  BY DEF Post, Goto, CallOf, store, cycle
<1>3. w[s].pc \in Recorded /\ w[s].pc \in Acting
  BY <1>1 DEF Recorded, Acting
<1>4. /\ w[s].win = disk.fuse[s] /\ w[s].win = mem.fuse[s]
      /\ w[s].win \in 0..MaxWindow /\ w[s].win \in Nat /\ w[s].win > 0
      /\ \A t \in w[s].todo : ~Sent([src |-> s, win |-> w[s].win, sub |-> t])
  BY <1>1, <1>3 DEF WorkerInv, Worker, ToSend, At
<1>5. c \in Call
  <2>1. w[s].win \in 1..MaxWindow
    BY <1>4
  <2> QED
    BY <1>1, <2>1 DEF Call
<1>6. ~Sent(c)
  BY <1>1, <1>4
<1>7. /\ v \in Worker /\ v.pc = "awaiting" /\ v.win = w[s].win /\ v.todo = w[s].todo
      /\ v.cur = w[s].cur /\ v.todo \subseteq Subs
  BY <1>1 DEF Worker, Phase
<1>8. c.src = s /\ c.win = w[s].win /\ c.sub = w[s].cur
  OBVIOUS
<1>9. \A r \in Sources : \A n, t : c = [src |-> r, win |-> n, sub |-> t] => r = s /\ t = w[s].cur
  OBVIOUS
<1> HIDE DEF c, v
<1>10. w'[s] = v
  BY <1>1, <1>2
<1>11. TypeOK'
  BY <1>1, <1>2, <1>5, <1>7 DEF IInv, TypeOK
<1>12. \A d : Sent(d)' <=> Sent(d) \/ d = c
  BY <1>2 DEF Sent
<1>13. FuseOrder'
  BY <1>2 DEF IInv, FuseOrder
<1>14. WriteAhead'
  <2> SUFFICES ASSUME NEW d \in Call, Sent(d)' PROVE d.win <= disk.fuse[d.src]
    BY <1>2 DEF WriteAhead
  <2>1. CASE d = c
    <3>1. d.win = w[s].win /\ d.src = s
      BY <2>1, <1>8
    <3> QED
      BY <3>1, <1>4
  <2>2. CASE Sent(d)
    BY <2>2 DEF IInv, WriteAhead
  <2> QED
    BY <2>1, <2>2, <1>12
<1>15. CallOnce'
  BY <1>1, <1>2, <1>5, <1>6 DEF IInv, CallOnce, Sent
<1>16. WorkerInv(s)'
  <2>1. ToSend(s)' = v.todo \ {v.cur}
    BY <1>7, <1>10 DEF ToSend, At
  <2>2. \A t \in w[s].todo \ {w[s].cur} :
          LET d == [src |-> s, win |-> w[s].win, sub |-> t]
          IN  ~(d \in wire' \/ landed'[d] > 0)
    <3> SUFFICES ASSUME NEW t \in w[s].todo, t # w[s].cur,
                        NEW d, d = [src |-> s, win |-> w[s].win, sub |-> t]
                 PROVE  ~(d \in wire' \/ landed'[d] > 0)
      OBVIOUS
    <3>1. d # c /\ ~Sent(d)
      BY <1>4, <1>9
    <3> QED
      BY <3>1, <1>2 DEF Sent
  <2>3. w'[s].win = w[s].win /\ w'[s].pc = "awaiting" /\ w'[s].cur \in w'[s].todo
    BY <1>1, <1>7, <1>10
  <2>4. \A t \in ToSend(s)' : ~Sent([src |-> s, win |-> w[s].win, sub |-> t])'
    BY <1>7, <2>1, <2>2, <2>3 DEF Sent
  <2> QED
    BY <1>2, <1>4, <2>3, <2>4 DEF WorkerInv, At
<1>17. ASSUME NEW r \in Sources, r # s PROVE WorkerInv(r)'
  <2>1. w'[r] = w[r] /\ WorkerInv(r)
    BY <1>1, <1>2, <1>17 DEF IInv
  <2>2. ToSend(r)' = ToSend(r)
    BY <2>1 DEF ToSend, At
  <2>3. \A t : Sent([src |-> r, win |-> w[r].win, sub |-> t])'
                 <=> Sent([src |-> r, win |-> w[r].win, sub |-> t])
    BY <1>2, <1>9, <1>17 DEF Sent
  <2> QED
    BY <1>2, <2>1, <2>2, <2>3 DEF WorkerInv, At
<1>18. \A r \in Sources : WorkerInv(r)'
  BY <1>16, <1>17
<1>19. FusesKept
  BY <1>1, <1>2, UnchangedStore DEF store
<1> QED
  BY <1>11, <1>13, <1>14, <1>15, <1>18, <1>19 DEF IInv

LEMMA WorkerStepKeeps ==
  ASSUME IInv, NEW s \in Sources, WorkerStep(s)
  PROVE  IInv' /\ (FusesKept \/ ConfirmReset(s))
BY LaunchStep, SettleStep, SampleCandidateStep, ConfirmRejectedStep, ConfirmResetStep,
   ResolveStep, RecordEventStep, NotifyDetectionStep, CheckTargetStep, TurnEndsStep,
   PrepareStep, PostStep, NoMoreTargetsStep
   DEF WorkerStep

----------------------------------------------------------------------------
(* The steps around the workers.                                           *)

\* Workers that are all idle or queued have nothing to remember.
LEMMA IdleInv ==
  ASSUME NEW s \in Sources, w[s].pc \notin Acting \cup {"confirming"}
  PROVE  WorkerInv(s)
BY DEF WorkerInv, At, Acting, Recorded

LEMMA CycleBoundsStep ==
  ASSUME IInv, (\E force \in BOOLEAN : StartCycle(force)) \/ EndCycle
  PROVE  IInv' /\ FusesKept
<1>1. mem \in Store /\ disk \in Store
  BY DEF IInv, TypeOK
<1>2. /\ UNCHANGED <<wire, landed, win, stray, nextId>>
      /\ polling' \in BOOLEAN /\ deadline' \in BOOLEAN
      /\ start' = start \/ start' = mem.cfg
      /\ (UNCHANGED store \/ \E ok \in SaveOutcomes : Save(mem, ok))
  BY DEF StartCycle, EndCycle, store, world
<1>3. FusesKept
  BY <1>1, <1>2, SaveKeepsFuses, UnchangedStore
<1>4. w' \in [Sources -> Worker]
      /\ \A s \in Sources : w'[s].pc \in {"idle", "queued"}
  <2>1. [NoWorker EXCEPT !.pc = "queued"] \in Worker
        /\ [NoWorker EXCEPT !.pc = "queued"].pc = "queued" /\ NoWorker.pc = "idle"
    BY NoWorkerType DEF Worker, Phase, NoWorker
  <2> DEFINE queued == [NoWorker EXCEPT !.pc = "queued"]
  <2>2. \/ \E f \in BOOLEAN :
             w' = [s \in Sources |-> IF (mem.cfg.on \/ f) /\ s \in mem.cfg.enabled
                                     THEN queued ELSE NoWorker]
        \/ w' = [s \in Sources |-> NoWorker]
    BY DEF StartCycle, EndCycle
  <2>3. queued \in Worker /\ queued.pc = "queued" /\ NoWorker.pc = "idle" /\ NoWorker \in Worker
    BY <2>1, NoWorkerType
  <2> HIDE DEF queued
  <2> QED
    BY <2>2, <2>3
<1>5. TypeOK'
  BY <1>1, <1>2, <1>3, <1>4 DEF IInv, TypeOK, FusesKept, Store
<1>6. \A s \in Sources : WorkerInv(s)'
  BY <1>4 DEF WorkerInv, At, Acting, Recorded
<1> QED
  BY <1>2, <1>3, <1>5, <1>6, GlobalKeep DEF IInv
 
LEMMA DeadlineStep == ASSUME IInv, Deadline PROVE IInv' /\ FusesKept
<1>1. /\ UNCHANGED <<mem, disk, polling, start, w, wire, landed, win, stray, nextId>>
      /\ deadline' = TRUE /\ mem \in Store /\ disk \in Store
  BY DEF Deadline, IInv, TypeOK
<1>2. FusesKept
  BY <1>1, UnchangedStore DEF store
<1>3. \A s \in Sources : WorkerInv(s)'
  BY <1>1, <1>2, OthersKeep
<1>4. TypeOK'
  BY <1>1 DEF IInv, TypeOK
<1> QED
  BY <1>1, <1>2, <1>3, <1>4, GlobalKeep DEF IInv

\* A saved configuration keeps the fuses; only mem.cfg changes.
LEMMA SetConfigStep == ASSUME IInv, NEW c \in Configs, SetConfig(c) PROVE IInv'
<1> DEFINE st == [mem EXCEPT !.cfg = c]
<1>1. /\ UNCHANGED <<polling, start, deadline, w, wire, landed, win, nextId>>
      /\ mem \in Store /\ disk \in Store /\ (\E ok \in SaveOutcomes : Save(st, ok))
      /\ stray' = [s \in Sources |-> 0]
  BY DEF SetConfig, cycle, IInv, TypeOK
<1>2. st \in Store /\ st.fuse = mem.fuse
  BY <1>1 DEF Store
<1> HIDE DEF st
<1>3. /\ mem' \in Store /\ disk' \in Store /\ mem'.fuse = mem.fuse
      /\ disk'.fuse = disk.fuse \/ disk'.fuse = mem.fuse
  BY <1>1, <1>2, SaveType
<1>4. TypeOK'
  BY <1>1, <1>3 DEF IInv, TypeOK
<1>5. \A s \in Sources : /\ disk.fuse[s] \in Nat /\ mem.fuse[s] \in Nat
                         /\ disk.fuse[s] <= mem.fuse[s] /\ mem.fuse[s] <= win[s]
  BY <1>1 DEF Store, IInv, FuseOrder
<1>6. \A s \in Sources : disk.fuse[s] <= disk'.fuse[s] /\ disk'.fuse[s] <= mem.fuse[s]
                         /\ disk'.fuse[s] \in Nat
  BY <1>3, <1>5
<1>7. FuseOrder'
  BY <1>1, <1>3, <1>5, <1>6 DEF FuseOrder
<1>8. WriteAhead'
  <2> SUFFICES ASSUME NEW d \in Call, Sent(d) PROVE d.win <= disk'.fuse[d.src]
    BY <1>1 DEF WriteAhead, Sent
  <2>1. d.src \in Sources /\ d.win \in Nat
    BY DEF Call
  <2>2. d.win <= disk.fuse[d.src]
    BY DEF IInv, WriteAhead
  <2> QED
    BY <2>1, <2>2, <1>5, <1>6
<1>9. \A s \in Sources : WorkerInv(s)'
  <2> SUFFICES ASSUME NEW s \in Sources PROVE WorkerInv(s)'
    OBVIOUS
  <2>1. WorkerInv(s) /\ w'[s] = w[s] /\ mem'.fuse[s] = mem.fuse[s]
    BY <1>1, <1>3 DEF IInv
  <2>2. w[s].pc \in Recorded => disk'.fuse[s] = w[s].win
    BY <2>1, <1>3 DEF WorkerInv, Acting
  <2>3. ToSend(s)' = ToSend(s)
    BY <2>1 DEF ToSend, At
  <2>4. \A d : Sent(d)' <=> Sent(d)
    BY <1>1 DEF Sent
  <2> QED
    BY <2>1, <2>2, <2>3, <2>4 DEF WorkerInv, At
<1> QED
  BY <1>1, <1>4, <1>7, <1>8, <1>9 DEF IInv, CallOnce

\* A restart finds on disk a fuse that covers every call ever sent.
LEMMA CrashStep == ASSUME IInv, Crash PROVE IInv'
<1>1. /\ mem' = disk /\ disk' = disk /\ w' = [s \in Sources |-> NoWorker]
      /\ polling' = FALSE /\ deadline' = FALSE
      /\ UNCHANGED <<start, wire, landed, win, stray, nextId>>
      /\ mem \in Store /\ disk \in Store
  BY DEF Crash, world, IInv, TypeOK
<1>2. TypeOK'
  BY <1>1, NoWorkerType DEF IInv, TypeOK
<1>3. \A s \in Sources : /\ disk.fuse[s] \in Nat /\ mem.fuse[s] \in Nat /\ win[s] \in Nat
                         /\ disk.fuse[s] <= mem.fuse[s] /\ mem.fuse[s] <= win[s]
  BY DEF IInv, TypeOK, Store, FuseOrder
<1>4. FuseOrder' /\ WriteAhead' /\ CallOnce'
  BY <1>1, <1>3 DEF IInv, FuseOrder, WriteAhead, CallOnce, Sent
<1>5. ASSUME NEW s \in Sources PROVE WorkerInv(s)'
  <2>1. w'[s].pc = "idle"
    BY <1>1 DEF NoWorker
  <2> QED
    BY <2>1 DEF WorkerInv, At, Acting, Recorded
<1> QED
  BY <1>2, <1>4, <1>5 DEF IInv

LEMMA OfficialResetStep == ASSUME IInv, NEW s \in Sources, OfficialReset(s) PROVE IInv'
<1>1. /\ UNCHANGED <<mem, disk, polling, start, deadline, w, wire, landed, stray, nextId>>
      /\ win' = [win EXCEPT ![s] = @ + 1] /\ win[s] < MaxWindow
      /\ mem \in Store /\ disk \in Store /\ win \in [Sources -> 1..MaxWindow]
  BY DEF OfficialReset, store, cycle, IInv, TypeOK
<1>2. win' \in [Sources -> 1..MaxWindow]
  BY <1>1, BoundsAssumption
<1>3. TypeOK'
  BY <1>1, <1>2 DEF IInv, TypeOK
<1>4. FuseOrder'
  <2>1. \A r \in Sources : mem.fuse[r] \in Nat /\ win[r] \in Nat
                           /\ win'[r] = IF r = s THEN win[r] + 1 ELSE win[r]
    BY <1>1 DEF Store
  <2> QED
    BY <1>1, <2>1 DEF IInv, FuseOrder
<1>5. \A r \in Sources : WorkerInv(r)'
  <2> SUFFICES ASSUME NEW r \in Sources PROVE WorkerInv(r)'
    OBVIOUS
  <2>1. WorkerInv(r) /\ ToSend(r)' = ToSend(r) /\ (\A d : Sent(d)' <=> Sent(d))
    BY <1>1 DEF IInv, ToSend, At, Sent
  <2> QED
    BY <1>1, <2>1 DEF WorkerInv, At
<1> QED
  BY <1>1, <1>3, <1>4, <1>5 DEF IInv, WriteAhead, CallOnce, Sent

\* Executing a call moves it from the wire to the landed: no new call is sent. 
LEMMA NetworkStep ==
  ASSUME IInv, NEW c \in wire, Land(c) \/ Lose(c)
  PROVE  IInv'
<1>1. /\ UNCHANGED <<mem, disk, polling, start, deadline, w, win, stray, nextId>>
      /\ wire' = wire \ {c}
      /\ landed' = landed \/ landed' = [landed EXCEPT ![c] = @ + 1]
      /\ wire \subseteq Call /\ landed \in [Call -> Nat] /\ c \in Call /\ landed[c] = 0
  BY DEF Land, Lose, store, cycle, IInv, TypeOK, CallOnce
<1>2. TypeOK'
  BY <1>1 DEF IInv, TypeOK
<1>3. CallOnce'
  BY <1>1 DEF IInv, CallOnce
<1>4. \A d \in Call : Sent(d)' => Sent(d)
  BY <1>1 DEF Sent
<1>5. FuseOrder' /\ WriteAhead'
  BY <1>1, <1>4 DEF IInv, FuseOrder, WriteAhead
<1>6. \A r \in Sources : WorkerInv(r)'
  <2> SUFFICES ASSUME NEW r \in Sources PROVE WorkerInv(r)'
    OBVIOUS
  <2>1. WorkerInv(r) /\ ToSend(r)' = ToSend(r) /\ w[r] \in Worker
    BY <1>1 DEF IInv, TypeOK, ToSend, At
  <2>2. ASSUME w[r].pc \in Acting, NEW t \in ToSend(r)
        PROVE  ~Sent([src |-> r, win |-> w[r].win, sub |-> t])'
    <3>1. w[r].win \in 1..MaxWindow
      BY <2>1, <2>2 DEF WorkerInv, Worker
    <3>2. t \in Subs
      BY <2>1, <2>2 DEF ToSend, Worker
    <3> DEFINE d == [src |-> r, win |-> w[r].win, sub |-> t]
    <3>3. d \in Call
      BY <3>1, <3>2, CallType
    <3>4. ~Sent(d)
      BY <2>1, <2>2 DEF WorkerInv
    <3>5. d \notin wire /\ ~(landed[d] > 0)
      BY <3>4 DEF Sent
    <3>6. d # c
      BY <3>5
    <3>7. d \notin wire' /\ ~(landed'[d] > 0)
      BY <1>1, <3>3, <3>5, <3>6
    <3> QED
      BY <1>1, <3>7 DEF Sent
  <2> QED
    BY <1>1, <2>1, <2>2 DEF WorkerInv, At
<1> QED
  BY <1>2, <1>3, <1>5, <1>6 DEF IInv

----------------------------------------------------------------------------
LEMMA InitInv == ASSUME Init PROVE IInv
<1>1. PICK c \in Configs :
        mem = [cfg |-> c, fuse |-> [s \in Sources |-> 0], events |-> {}] /\ start = c
  BY DEF Init
<1>2. mem \in Store /\ disk = mem
  <2>1. 0 \in 0..MaxWindow
    BY BoundsAssumption
  <2> QED
    BY <1>1, <2>1 DEF Init, Store
<1>3. 1 \in 1..MaxWindow
  BY BoundsAssumption
<1>4. TypeOK
  <2>1. w \in [Sources -> Worker]
    BY NoWorkerType DEF Init
  <2>2. win \in [Sources -> 1..MaxWindow] /\ stray \in [Sources -> Nat]
    BY <1>3 DEF Init
  <2>3. wire \subseteq Call /\ landed \in [Call -> Nat] /\ nextId \in Nat \ {0}
    BY DEF Init
  <2>4. polling \in BOOLEAN /\ deadline \in BOOLEAN /\ start \in Configs
    BY <1>1 DEF Init
  <2> QED
    BY <1>2, <2>1, <2>2, <2>3, <2>4 DEF TypeOK
<1>5. FuseOrder /\ CallOnce /\ WriteAhead
  BY <1>1, <1>2 DEF Init, FuseOrder, CallOnce, WriteAhead, Sent
<1>6. ASSUME NEW s \in Sources PROVE WorkerInv(s)
  <2>1. w[s].pc = "idle"
    BY DEF Init, NoWorker
  <2> QED
    BY <2>1, IdleInv DEF Acting, Recorded
<1> QED
  BY <1>4, <1>5, <1>6 DEF IInv

LEMMA StutterInv == ASSUME IInv, UNCHANGED vars PROVE IInv'
<1>1. /\ UNCHANGED <<mem, disk, polling, start, deadline, w, wire, landed, win, stray, nextId>>
      /\ mem \in Store /\ disk \in Store
  BY DEF vars, IInv, TypeOK
<1>2. FusesKept
  BY <1>1, UnchangedStore DEF store
<1>3. \A s \in Sources : WorkerInv(s)'
  BY <1>1, <1>2, OthersKeep
<1>4. TypeOK'
  BY <1>1 DEF IInv, TypeOK
<1> QED
  BY <1>1, <1>2, <1>3, <1>4, GlobalKeep DEF IInv

LEMMA NextInv == ASSUME IInv, [Next]_vars PROVE IInv'
<1>1. CASE \E force \in BOOLEAN : StartCycle(force)
  BY <1>1, CycleBoundsStep
<1>2. CASE EndCycle
  BY <1>2, CycleBoundsStep
<1>3. CASE Deadline
  BY <1>3, DeadlineStep
<1>4. CASE \E s \in Sources : WorkerStep(s) \/ OfficialReset(s)
  BY <1>4, WorkerStepKeeps, OfficialResetStep
<1>5. CASE \E c \in Configs : SetConfig(c)
  BY <1>5, SetConfigStep
<1>6. CASE \E c \in wire : Land(c) \/ Lose(c)
  BY <1>6, NetworkStep
<1>7. CASE Crash
  BY <1>7, CrashStep
<1>8. CASE UNCHANGED vars
  BY <1>8, StutterInv
<1> QED
  BY <1>1, <1>2, <1>3, <1>4, <1>5, <1>6, <1>7, <1>8 DEF Next

\* The inductive invariant: the fuse on disk covers every call that left the
\* process, and no worker is about to send a call that was ever sent.
THEOREM PipelineInvariant == Spec => []IInv
<1>1. Init => IInv
  BY InitInv
<1>2. IInv /\ [Next]_vars => IInv'
  BY NextInv
<1> QED
  BY <1>1, <1>2, PTL DEF Spec

\* Every state of the pipeline is well formed.
THEOREM TypeCorrect == Spec => []TypeOK
<1>1. IInv => TypeOK
  BY DEF IInv
<1> QED
  BY <1>1, PipelineInvariant, PTL

\* A subscription is reset at most once for one official reset, for any
\* number of sources, targets, cycles, failed saves, lost replies and crashes.
THEOREM ResetOnce == Spec => []AtMostOnceReset
<1>1. IInv => AtMostOnceReset
  BY DEF IInv, CallOnce, AtMostOnceReset
<1> QED
  BY <1>1, PipelineInvariant, PTL

----------------------------------------------------------------------------
(* The fuse in the state file.                                             *)

\* Every step either keeps the file or copies a memory whose fuse is not
\* behind it.
LEMMA FuseStep ==
  ASSUME IInv, [Next]_vars
  PROVE  \A s \in Sources : disk.fuse[s] <= disk'.fuse[s]
<1>1. \A s \in Sources : /\ disk.fuse[s] \in Nat /\ mem.fuse[s] \in Nat
                         /\ disk.fuse[s] <= mem.fuse[s] /\ mem.fuse[s] <= win[s]
                         /\ win[s] \in Nat
  BY DEF IInv, TypeOK, Store, FuseOrder
<1>2. mem \in Store /\ disk \in Store
  BY DEF IInv, TypeOK
<1>3. CASE FusesKept
  BY <1>1, <1>3 DEF FusesKept
<1>4. CASE disk' = disk
  BY <1>1, <1>4
<1>5. CASE \E c \in Configs : SetConfig(c)
  <2>1. PICK c \in Configs, ok \in SaveOutcomes : Save([mem EXCEPT !.cfg = c], ok)
    BY <1>5 DEF SetConfig
  <2>2. disk'.fuse = disk.fuse \/ disk'.fuse = mem.fuse
    BY <2>1, <1>2 DEF Save, Store
  <2> QED
    BY <2>2, <1>1
<1>6. CASE \E s \in Sources : ConfirmReset(s)
  <2>1. PICK s \in Sources, ok \in SaveOutcomes : Save([mem EXCEPT !.fuse[s] = win[s]], ok)
    BY <1>6 DEF ConfirmReset
  <2>2. \A r \in Sources : \/ disk'.fuse[r] = disk.fuse[r]
                           \/ disk'.fuse[r] = mem.fuse[r]
                           \/ disk'.fuse[r] = win[r]
    BY <2>1, <1>2 DEF Save, Store
  <2> QED
    BY <2>2, <1>1
<1>7. CASE \E s \in Sources : WorkerStep(s)
  BY <1>3, <1>6, <1>7, WorkerStepKeeps
<1>8. CASE (\E force \in BOOLEAN : StartCycle(force)) \/ EndCycle \/ Deadline
  BY <1>3, <1>8, CycleBoundsStep, DeadlineStep
<1>9. CASE \/ Crash \/ UNCHANGED vars
            \/ \E s \in Sources : OfficialReset(s)
            \/ \E c \in wire : Land(c) \/ Lose(c)
  BY <1>4, <1>9 DEF Crash, vars, OfficialReset, Land, Lose, store
<1> QED
  BY <1>5, <1>7, <1>8, <1>9 DEF Next

\* The fuse on disk never falls back to an earlier window.
THEOREM FuseMonotone == Spec => FuseNeverBack
<1>1. IInv /\ [Next]_vars => [\A s \in Sources : disk.fuse[s] <= disk'.fuse[s]]_vars
  BY FuseStep
<1> QED
  BY <1>1, PipelineInvariant, PTL DEF Spec, FuseNeverBack

----------------------------------------------------------------------------
(* The pipeline implements ResetLedger.                                    *)

\* Only Sub2API executing a call changes what was reset.
LEMMA LedgerStep ==
  ASSUME IInv, [Next]_vars
  PROVE  [Ledger!Next]_<<win, landed>>
<1>1. CASE \E c \in wire : Land(c)
  <2>1. PICK c \in wire : Land(c)
    BY <1>1
  <2>2. c \in Call /\ landed \in [Call -> Nat] /\ landed[c] = 0
    BY DEF IInv, TypeOK, CallOnce
  <2>3. landed' = [landed EXCEPT ![c] = 1] /\ UNCHANGED win
    BY <2>1, <2>2 DEF Land
  <2>4. c.win <= win[c.src]
    <3>1. c.src \in Sources /\ c.win \in Nat
      BY <2>2 DEF Call
    <3>2. c.win <= disk.fuse[c.src]
      BY <2>2 DEF IInv, WriteAhead, Sent
    <3>3. disk.fuse[c.src] <= mem.fuse[c.src] /\ mem.fuse[c.src] <= win[c.src]
      BY <3>1 DEF IInv, FuseOrder
    <3>4. disk.fuse[c.src] \in Nat /\ mem.fuse[c.src] \in Nat /\ win[c.src] \in Nat
      BY <3>1 DEF IInv, TypeOK, Store
    <3> QED
      BY <3>1, <3>2, <3>3, <3>4
  <2>5. c \in Ledger!Right
    BY <2>2 DEF Call, Ledger!Right
  <2> QED
    BY <2>2, <2>3, <2>4, <2>5 DEF Ledger!Next, Ledger!Reset
<1>2. CASE \E s \in Sources : OfficialReset(s)
  BY <1>2 DEF OfficialReset, Ledger!Next, Ledger!OpenWindow
<1>3. CASE UNCHANGED <<win, landed>>
  BY <1>3
<1>4. ASSUME NEW s \in Sources, WorkerStep(s) PROVE UNCHANGED <<win, landed>>
  BY <1>4 DEF WorkerStep, Launch, LaunchCancelled, SampleSettles, SampleCandidate,
     ConfirmRejected, ConfirmReset, Resolve, RecordEvent, NotifyDetection, CheckTarget,
     ReadFails, Prepare, Post, ResetFails, ResetSucceeds, NoMoreTargets, NotifyReset, world
<1>5. CASE \/ \E force \in BOOLEAN : StartCycle(force)
           \/ Deadline \/ EndCycle \/ Crash \/ UNCHANGED vars
           \/ \E c \in Configs : SetConfig(c)
           \/ \E c \in wire : Lose(c)
  BY <1>3, <1>5 DEF StartCycle, Deadline, EndCycle, Crash, SetConfig, Lose, vars, world
<1> QED
  BY <1>1, <1>2, <1>3, <1>4, <1>5 DEF Next

\* The engine, its state file and the network implement the ledger: each
\* official reset entitles a subscription to one reset.
THEOREM ImplementsLedger == Spec => LedgerSpec
<1>1. Init => Ledger!Init
  BY DEF Init, Ledger!Init, Ledger!Right, Call
<1>2. IInv /\ [Next]_vars => [Ledger!Next]_<<win, landed>>
  BY LedgerStep
<1> QED
  BY <1>1, <1>2, PipelineInvariant, PTL DEF Spec, LedgerSpec, Ledger!Spec

============================================================================
