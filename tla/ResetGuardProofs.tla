-------------------------- MODULE ResetGuardProofs --------------------------
(***************************************************************************)
(* What a worker may still send when the configuration changes under it,   *)
(* and that it leaves nothing open: proofs of OneStraggler,                *)
(* OnlyStartedTargets and SettledWhenIdle.                                 *)
(***************************************************************************)
EXTENDS ResetEventProofs

\* The target a worker has checked is allowed by the configuration in force,
\* or no call has been sent against that configuration yet.
Checked(s) ==
  w[s].pc \in {"reading", "posting"} =>
    TargetStillAllowed(mem.cfg, s, w[s].cur, w[s].dims) \/ stray[s] = 0
StrayInv == \A s \in Sources : stray[s] <= 1 /\ Checked(s)

\* What a worker may come to send is within the configuration its cycle read.
Started(s) ==
  /\ ActiveIn(start, s) /\ w[s].todo \subseteq start.targets[s]
  /\ w[s].dims \subseteq start.dims[s] /\ w[s].dims # {}
StartInv(s) ==
  /\ w[s].pc \in {"resolved", "notifying"} => w[s].acting = FALSE \/ Started(s)
  /\ w[s].pc \in InLoop => Started(s)

----------------------------------------------------------------------------
\* A worker's step moves that worker alone, and changes no configuration.
LEMMA WorkerFrame ==
  ASSUME IInv, NEW s \in Sources, WorkerStep(s)
  PROVE  /\ mem'.cfg = mem.cfg /\ start' = start
         /\ \E v : w' = [w EXCEPT ![s] = v]
         /\ Post(s) \/ stray' = stray
<1>1. mem'.cfg = mem.cfg
  <2>1. CASE FusesKept
    BY <2>1 DEF FusesKept
  <2>2. CASE ConfirmReset(s)
    <3>1. PICK ok \in SaveOutcomes : Save([mem EXCEPT !.fuse[s] = win[s]], ok)
      BY <2>2 DEF ConfirmReset
    <3> QED
      BY <3>1 DEF Save, IInv, TypeOK, Store
  <2> QED
    BY <2>1, <2>2, WorkerStepKeeps
<1>2. start' = start /\ (Post(s) \/ stray' = stray)
  BY DEF WorkerStep, Launch, LaunchCancelled, SampleSettles, SampleCandidate,
     ConfirmRejected, ConfirmReset, Resolve, RecordEvent, NotifyDetection, CheckTarget,
     ReadFails, Prepare, Post, ResetFails, ResetSucceeds, NoMoreTargets, NotifyReset,
     cycle, world
<1>3. \E v : w' = [w EXCEPT ![s] = v]
  BY DEF WorkerStep, Launch, LaunchCancelled, SampleSettles, SampleCandidate,
     ConfirmRejected, ConfirmReset, Resolve, RecordEvent, NotifyDetection, CheckTarget,
     ReadFails, Prepare, Post, ResetFails, ResetSucceeds, NoMoreTargets, NotifyReset,
     Goto, Finish, NextTarget
<1> QED
  BY <1>1, <1>2, <1>3

\* Where a step may take a worker, and what it remembers on the way: outside
\* the loop it forgets; inside, its target comes from CheckTarget.
LEMMA WorkerMove ==
  ASSUME IInv, NEW s \in Sources, WorkerStep(s)
  PROVE  \/ w'[s].pc \notin InLoop \cup {"resolved", "notifying"}
         \/ Resolve(s)
         \/ \E groupOK \in BOOLEAN, ok \in SaveOutcomes :
              RecordEvent(s, groupOK, ok) /\ w'[s].acting = groupOK
              /\ (groupOK => w[s].acting) /\ w[s].pc = "resolved"
              /\ w'[s].pc = "notifying" /\ w'[s].todo = w[s].todo
              /\ w'[s].dims = w[s].dims
         \/ /\ w[s].pc = "notifying" /\ w[s].acting /\ w'[s].pc = "checking"
            /\ w'[s].todo = w[s].todo /\ w'[s].dims = w[s].dims
         \/ /\ w[s].pc \in InLoop /\ w'[s].pc = "checking"
            /\ w'[s].todo \subseteq w[s].todo /\ w'[s].dims = w[s].dims
         \/ /\ w[s].pc = "checking" /\ w'[s].pc = "reading"
            /\ w'[s].todo = w[s].todo /\ w'[s].dims = w[s].dims
            /\ TargetStillAllowed(mem.cfg, s, w'[s].cur, w'[s].dims)
         \/ /\ w[s].pc = "reading" /\ w'[s].pc = "posting"
            /\ w'[s].todo = w[s].todo /\ w'[s].dims = w[s].dims /\ w'[s].cur = w[s].cur
         \/ /\ Post(s) /\ w[s].pc = "posting" /\ w'[s].pc = "awaiting"
            /\ w'[s].todo = w[s].todo /\ w'[s].dims = w[s].dims /\ w'[s].cur = w[s].cur
<1> USE DEF InLoop
<1>0. w \in [Sources -> Worker]
  BY DEF IInv, TypeOK
<1>1. CASE Launch(s) \/ LaunchCancelled(s) \/ SampleSettles(s) \/ SampleCandidate(s)
           \/ ConfirmRejected(s) \/ ConfirmReset(s) \/ NoMoreTargets(s) \/ NotifyReset(s)
  BY <1>0, <1>1 DEF Launch, LaunchCancelled, SampleSettles, SampleCandidate, ConfirmRejected,
     ConfirmReset, NoMoreTargets, NotifyReset, Goto, Finish, NoWorker, Worker
<1>2. CASE Resolve(s)
  BY <1>2
<1>3. ASSUME NEW groupOK \in BOOLEAN, NEW ok \in SaveOutcomes, RecordEvent(s, groupOK, ok)
      PROVE  \/ w'[s].pc = "done"
             \/ /\ w'[s].acting = groupOK /\ (groupOK => w[s].acting)
                /\ w[s].pc = "resolved" /\ w'[s].pc = "notifying"
                /\ w'[s].todo = w[s].todo /\ w'[s].dims = w[s].dims
  <2>1. w[s].pc = "resolved" /\ (groupOK => w[s].acting)
    BY <1>3 DEF RecordEvent, At
  <2>2. CASE ok
    <3>1. w' = [w EXCEPT ![s].pc = "notifying", ![s].id = nextId, ![s].acting = groupOK]
      BY <1>3, <2>2 DEF RecordEvent
    <3>2. w'[s] = [w[s] EXCEPT !.pc = "notifying", !.id = nextId, !.acting = groupOK]
      BY <3>1, <1>0
    <3>3. w'[s].pc = "notifying" /\ w'[s].todo = w[s].todo /\ w'[s].dims = w[s].dims
      BY <3>2, <1>0 DEF Worker
    <3>4. w'[s].acting = groupOK
      BY <3>2, <1>0, Zenon DEF Worker
    <3> QED
      BY <2>1, <3>3, <3>4
  <2>3. CASE ~ok
    BY <1>0, <1>3, <2>3 DEF RecordEvent, Finish, NoWorker
  <2> QED
    BY <2>2, <2>3
<1>4. CASE NotifyDetection(s)
  <2>1. w[s].pc = "notifying"
    BY <1>4 DEF NotifyDetection, At
  <2>2. CASE w[s].acting
    <3>1. Goto(s, "checking")
      BY <1>4, <2>2 DEF NotifyDetection
    <3> QED
      BY <1>0, <2>1, <2>2, <3>1 DEF Goto, Worker
  <2>3. CASE ~w[s].acting
    BY <1>0, <1>4, <2>3 DEF NotifyDetection, Finish, NoWorker
  <2> QED
    BY <2>2, <2>3
<1>5. CASE \E t \in Subs : CheckTarget(s, t)
  BY <1>0, <1>5 DEF CheckTarget, At, Worker
<1>6. CASE ReadFails(s) \/ ResetFails(s) \/ ResetSucceeds(s)
  BY <1>0, <1>6 DEF ReadFails, ResetFails, ResetSucceeds, NextTarget, At, Worker
<1>7. CASE \E ok \in SaveOutcomes : Prepare(s, ok)
  BY <1>0, <1>7 DEF Prepare, NextTarget, Goto, At, Worker
<1>8. CASE Post(s)
  BY <1>0, <1>8 DEF Post, Goto, At, Worker
<1>9. CASE \E groupOK \in BOOLEAN, ok \in SaveOutcomes : RecordEvent(s, groupOK, ok)
  BY <1>3, <1>9
<1> QED
  BY <1>1, <1>2, <1>4, <1>5, <1>6, <1>7, <1>8, <1>9 DEF WorkerStep

----------------------------------------------------------------------------
(* OneStraggler.                                                           *)

\* A call is sent against a configuration that forbids it only by the worker
\* that had checked it before, and that worker checks the next one again.
LEMMA WorkerStray ==
  ASSUME IInv, StrayInv, NEW s \in Sources, WorkerStep(s)
  PROVE  StrayInv'
<1>1. w \in [Sources -> Worker] /\ stray \in [Sources -> Nat]
  BY DEF IInv, TypeOK
<1>2. mem'.cfg = mem.cfg /\ (\E v : w' = [w EXCEPT ![s] = v]) /\ (Post(s) \/ stray' = stray)
  BY WorkerFrame
<1>3. stray' = stray \/ stray' = [stray EXCEPT ![s] = @ + 1]
  BY <1>2 DEF Post
<1>4. ASSUME NEW r \in Sources, r # s PROVE stray'[r] <= 1 /\ Checked(r)'
  <2>1. w'[r] = w[r] /\ stray'[r] = stray[r]
    BY <1>1, <1>2, <1>3, <1>4
  <2> QED
    BY <1>2, <2>1 DEF StrayInv, Checked, TargetStillAllowed, ActiveIn
<1>5. stray'[s] <= 1 /\ Checked(s)'
  <2>1. CASE Post(s)
    <3>1. w[s].pc = "posting" /\ w'[s].pc = "awaiting"
      BY <1>1, <2>1 DEF Post, Goto, At
    <3>2. stray'[s] <= 1
      BY <1>1, <2>1, <3>1 DEF Post, StrayInv, Checked
    <3> QED
      BY <3>1, <3>2 DEF Checked
  <2>2. CASE stray' = stray /\ ~Post(s)
    <3>1. stray'[s] <= 1 /\ Checked(s)
      BY <2>2 DEF StrayInv
    <3>2. CASE w'[s].pc \notin {"reading", "posting"}
      BY <3>1, <3>2 DEF Checked
    <3>3. CASE /\ w[s].pc = "checking" /\ w'[s].pc = "reading"
               /\ TargetStillAllowed(mem.cfg, s, w'[s].cur, w'[s].dims)
      BY <1>2, <3>1, <3>3 DEF Checked, TargetStillAllowed, ActiveIn
    <3>4. CASE /\ w[s].pc = "reading" /\ w'[s].pc = "posting"
               /\ w'[s].dims = w[s].dims /\ w'[s].cur = w[s].cur
      BY <1>2, <2>2, <3>1, <3>4 DEF Checked, TargetStillAllowed, ActiveIn
    <3>5. Resolve(s) => w'[s].pc = "resolved"
      BY <1>1 DEF Resolve
    <3> QED
      BY <2>2, <3>2, <3>3, <3>4, <3>5, WorkerMove DEF InLoop
  <2> QED
    BY <1>2, <2>1, <2>2
<1> QED
  BY <1>4, <1>5 DEF StrayInv

\* Around the workers: a saved configuration starts a new count, and a new
\* cycle or process has no worker in its loop.
LEMMA NextStray == ASSUME IInv, StrayInv, [Next]_vars PROVE StrayInv'
<1>1. CASE (\E force \in BOOLEAN : StartCycle(force)) \/ EndCycle \/ Crash
  <2>1. stray' = stray
    BY <1>1 DEF StartCycle, EndCycle, Crash, world
  <2>2. \A s \in Sources : w'[s].pc \in {"idle", "queued"}
    BY <1>1 DEF StartCycle, EndCycle, Crash, NoWorker
  <2> QED
    BY <2>1, <2>2 DEF StrayInv, Checked
<1>2. CASE \E c \in Configs : SetConfig(c)
  <2>1. \A s \in Sources : stray'[s] = 0
    BY <1>2 DEF SetConfig
  <2> QED
    BY <2>1 DEF StrayInv, Checked
<1>3. CASE \E s \in Sources : WorkerStep(s)
  BY <1>3, WorkerStray
<1>4. CASE \/ Deadline \/ UNCHANGED vars
           \/ \E s \in Sources : OfficialReset(s)
           \/ \E c \in wire : Land(c) \/ Lose(c)
  <2>1. UNCHANGED <<mem, w, stray>>
    BY <1>4 DEF Deadline, vars, OfficialReset, Land, Lose, store, cycle
  <2> QED
    BY <2>1 DEF StrayInv, Checked, TargetStillAllowed, ActiveIn
<1> QED
  BY <1>1, <1>2, <1>3, <1>4 DEF Next

\* After a configuration that forbids it is saved, a running worker sends at
\* most the one call it had already checked, whatever else happens: the next
\* target is checked against the new one (processSource's loop).
THEOREM StragglerBound == Spec => []OneStraggler
<1>1. Init => IInv /\ StrayInv
  <2>1. Init => StrayInv
    BY DEF Init, StrayInv, Checked, NoWorker
  <2> QED
    BY <2>1, InitInv
<1>2. IInv /\ StrayInv /\ [Next]_vars => IInv' /\ StrayInv'
  BY NextInv, NextStray
<1>3. StrayInv => OneStraggler
  BY DEF StrayInv, OneStraggler
<1> QED
  BY <1>1, <1>2, <1>3, PTL DEF Spec

----------------------------------------------------------------------------
(* OnlyStartedTargets.                                                     *)

\* What is resolved for action is wanted by both configurations; what is not
\* for action never enters the loop.
LEMMA WorkerStart ==
  ASSUME IInv, \A r \in Sources : StartInv(r), NEW s \in Sources, WorkerStep(s)
  PROVE  \A r \in Sources : StartInv(r)'
<1>1. w \in [Sources -> Worker]
  BY DEF IInv, TypeOK
<1>2. start' = start /\ (\E v : w' = [w EXCEPT ![s] = v])
  BY WorkerFrame
<1>3. ASSUME NEW r \in Sources, r # s PROVE StartInv(r)'
  <2>1. w'[r] = w[r]
    BY <1>1, <1>2, <1>3
  <2>2. Started(r)' <=> Started(r)
    BY <1>2, <2>1 DEF Started, ActiveIn
  <2>3. StartInv(r)
    OBVIOUS
  <2> QED
    BY <2>1, <2>2, <2>3 DEF StartInv
<1>4. StartInv(s)'
  <2>1. StartInv(s)
    OBVIOUS
  <2>2. CASE w'[s].pc \notin InLoop \cup {"resolved", "notifying"}
    BY <2>2 DEF StartInv
  <2>3. CASE Resolve(s)
    <3>1. /\ w'[s].pc = "resolved" /\ w'[s].todo = ActionTargets(s)
          /\ w'[s].dims = ActionDims(s)
      BY <1>1, <2>3 DEF Resolve, Worker
    <3>2. w'[s].acting = ActionAllowed(s)
      BY <1>1, <2>3, Zenon DEF Resolve, Worker
    <3>3. ActionAllowed(s) => Started(s)'
      BY <1>2, <3>1 DEF Started, ActionAllowed, BothActive, ActionTargets, ActionDims, ActiveIn
    <3>4. ActionAllowed(s) \in BOOLEAN
      BY DEF ActionAllowed, BothActive
    <3> QED
      BY <3>1, <3>2, <3>3, <3>4 DEF StartInv, InLoop
  <2>4. ASSUME NEW groupOK \in BOOLEAN, w'[s].acting = groupOK, groupOK => w[s].acting,
               w[s].pc = "resolved", w'[s].pc = "notifying",
               w'[s].todo = w[s].todo, w'[s].dims = w[s].dims
        PROVE  StartInv(s)'
    <3>1. Started(s)' <=> Started(s)
      BY <1>2, <2>4 DEF Started, ActiveIn
    <3>2. w'[s].acting = FALSE \/ Started(s)
      BY <2>1, <2>4 DEF StartInv
    <3> QED
      BY <2>4, <3>1, <3>2 DEF StartInv, InLoop
  <2>5. ASSUME \/ w[s].pc = "notifying" /\ w[s].acting
               \/ w[s].pc \in InLoop,
               w'[s].pc \in InLoop, w'[s].todo \subseteq w[s].todo, w'[s].dims = w[s].dims
        PROVE  StartInv(s)'
    <3>1. Started(s)
      BY <2>1, <2>5 DEF StartInv
    <3>2. Started(s)'
      BY <1>2, <2>5, <3>1 DEF Started, ActiveIn
    <3> QED
      BY <2>5, <3>2 DEF StartInv, InLoop
  <2> QED
    BY <2>2, <2>3, <2>4, <2>5, WorkerMove DEF InLoop
<1> QED
  BY <1>3, <1>4

\* A new start is read only when no worker runs.
LEMMA NextStart ==
  ASSUME IInv, \A s \in Sources : StartInv(s), [Next]_vars
  PROVE  \A s \in Sources : StartInv(s)'
<1>1. CASE (\E force \in BOOLEAN : StartCycle(force)) \/ EndCycle \/ Crash
  <2>1. \A s \in Sources : w'[s].pc \in {"idle", "queued"}
    BY <1>1 DEF StartCycle, EndCycle, Crash, NoWorker
  <2> QED
    BY <2>1 DEF StartInv, InLoop
<1>2. CASE \E s \in Sources : WorkerStep(s)
  BY <1>2, WorkerStart
<1>3. CASE \/ Deadline \/ UNCHANGED vars
           \/ \E c \in Configs : SetConfig(c)
           \/ \E s \in Sources : OfficialReset(s)
           \/ \E c \in wire : Land(c) \/ Lose(c)
  <2>1. UNCHANGED <<start, w>>
    BY <1>3 DEF Deadline, vars, SetConfig, OfficialReset, Land, Lose, store, cycle
  <2> QED
    BY <2>1 DEF StartInv, Started, ActiveIn
<1> QED
  BY <1>1, <1>2, <1>3 DEF Next

\* What is sent was wanted by the configuration the cycle started with, even
\* when it is widened while the cycle runs; a manual check with monitoring
\* off sends nothing (resolveActionSource).
THEOREM SentWasStarted == Spec => []OnlyStartedTargets
<1> DEFINE J == IInv /\ \A s \in Sources : StartInv(s)
<1>1. Init => J
  <2>1. Init => \A s \in Sources : StartInv(s)
    BY DEF Init, StartInv, InLoop, NoWorker
  <2> QED
    BY <2>1, InitInv
<1>2. J /\ [Next]_vars => J'
  BY NextInv, NextStart
<1>3. J => OnlyStartedTargets
  <2> SUFFICES ASSUME J, NEW s \in Sources, At(s, "awaiting")
               PROVE  TargetStillAllowed(start, s, w[s].cur, w[s].dims) /\ w[s].dims # {}
    BY DEF OnlyStartedTargets
  <2>1. w[s].cur \in w[s].todo
    BY CurType DEF At
  <2>2. Started(s)
    BY DEF StartInv, InLoop, At
  <2> QED
    BY <2>1, <2>2 DEF Started, TargetStillAllowed
<1> HIDE DEF J
<1> QED
  BY <1>1, <1>2, <1>3, PTL DEF Spec

----------------------------------------------------------------------------
(* SettledWhenIdle, where saves succeed and the process survives.          *)

Open  == {"pending", "resetting"}
Busy(s) == w[s].pc \in InLoop \/ (w[s].pc = "notifying" /\ w[s].acting # FALSE)

\* An open target is on the list of the worker that opened it, and outside a
\* cycle no worker exists.
SettledInv ==
  /\ polling \/ \A s \in Sources : w[s].pc = "idle"
  /\ \A e \in mem.events : \A t \in Subs :
       e.status[t] \in Open => Busy(e.src) /\ w[e.src].id = e.id /\ t \in w[e.src].todo

\* The ways a worker's step concerns its open targets: it has none, it keeps
\* them on its list, it opens them, or it closes the one it takes off.
LEMMA VerdictSaved ==
  ASSUME NEW i, NEW t, NEW v, Verdict(i, t, v)
  PROVE  \/ mem' = mem /\ ~HasEvent(mem, i)
         \/ mem' = SetTarget(mem, i, t, v, {})
BY DEF Verdict, Save, store

LEMMA LoopMove ==
  ASSUME IInv, NEW s \in Sources, WorkerStep(s), SaveOutcomes = {TRUE}
  PROVE  \/ /\ mem'.events = mem.events
            /\ ~Busy(s) \/ w[s].todo = {} \/ ~HasEvent(mem, w[s].id)
         \/ /\ mem'.events = mem.events /\ Busy(s)' /\ w'[s].id = w[s].id
            /\ w[s].todo \subseteq w'[s].todo
         \/ \E groupOK \in BOOLEAN : RecordEvent(s, groupOK, TRUE)
         \/ \E t \in Subs, v \in Status, snap \in SUBSET Subs :
              /\ mem' = SetTarget(mem, w[s].id, t, v, snap)
              /\ w[s].pc \in InLoop /\ Busy(s)' /\ w'[s].id = w[s].id
              /\ w[s].todo \ {t} \subseteq w'[s].todo
              /\ v \in Final \/ t \in w'[s].todo
<1>1. w \in [Sources -> Worker] /\ mem \in Store
  BY DEF IInv, TypeOK
<1>2. CASE \/ Launch(s) \/ LaunchCancelled(s) \/ SampleSettles(s) \/ SampleCandidate(s)
           \/ ConfirmRejected(s) \/ ConfirmReset(s) \/ Resolve(s) \/ NotifyReset(s)
  <2>1. w[s].pc \notin InLoop \cup {"notifying"}
    BY <1>2 DEF Launch, LaunchCancelled, SampleSettles, SampleCandidate,
       ConfirmRejected, ConfirmReset, Resolve, NotifyReset, At, InLoop
  <2>2. mem'.events = mem.events
    BY <1>1, <1>2 DEF Launch, LaunchCancelled, SampleSettles, SampleCandidate,
       ConfirmRejected, ConfirmReset, Resolve, NotifyReset, MayFlush, Save, store, Store
  <2> QED
    BY <2>1, <2>2 DEF Busy
<1>3. CASE NotifyDetection(s)
  <2>1. mem'.events = mem.events /\ w[s].pc = "notifying"
    BY <1>3 DEF NotifyDetection, MayFlush, Save, store, At
  <2>2. CASE w[s].acting
    <3>1. Goto(s, "checking")
      BY <1>3, <2>2 DEF NotifyDetection
    <3>2. w'[s].pc = "checking" /\ w'[s].id = w[s].id /\ w'[s].todo = w[s].todo
      BY <1>1, <3>1 DEF Goto, Worker
    <3> QED
      BY <2>1, <3>2 DEF Busy, InLoop
  <2>3. CASE ~w[s].acting
    <3>1. w[s].acting = FALSE
      BY <1>1, <2>3, Zenon DEF Worker
    <3>2. ~Busy(s)
      BY <2>1, <3>1 DEF Busy, InLoop
    <3> QED
      BY <2>1, <3>2
  <2> QED
    BY <2>2, <2>3
<1>4. CASE NoMoreTargets(s)
  BY <1>4 DEF NoMoreTargets, store
<1>5. CASE \E groupOK \in BOOLEAN, ok \in SaveOutcomes : RecordEvent(s, groupOK, ok)
  BY <1>5
<1>6. CASE Post(s)
  <2>1. w'[s].pc = "awaiting" /\ w'[s].id = w[s].id /\ w'[s].todo = w[s].todo
    BY <1>1, <1>6 DEF Post, Goto, Worker
  <2>2. mem' = mem
    BY <1>6 DEF Post, store
  <2> QED
    BY <2>1, <2>2 DEF Busy, InLoop
<1>7. CASE \E t \in Subs : CheckTarget(s, t)
  <2>1. PICK t \in Subs : CheckTarget(s, t)
    BY <1>7
  <2>2. CASE w' = [w EXCEPT ![s].pc = "reading", ![s].cur = t] /\ UNCHANGED store
    <3>1. w'[s].pc = "reading" /\ w'[s].id = w[s].id /\ w'[s].todo = w[s].todo
      BY <1>1, <2>2 DEF Worker
    <3> QED
      BY <2>2, <3>1 DEF Busy, InLoop, store
  <2>3. CASE w' = [w EXCEPT ![s].todo = @ \ {t}] /\ Verdict(w[s].id, t, "cancelled")
    <3>1. w'[s].pc = "checking" /\ w'[s].id = w[s].id /\ w'[s].todo = w[s].todo \ {t}
      BY <1>1, <2>1, <2>3 DEF CheckTarget, At, Worker
    <3>2. w[s].pc \in InLoop /\ Busy(s)' /\ "cancelled" \in Status /\ "cancelled" \in Final
          /\ {} \in SUBSET Subs
      BY <2>1, <3>1 DEF Busy, InLoop, Status, Final, CheckTarget, At
    <3> QED
      BY <2>3, <3>1, <3>2, VerdictSaved
  <2> QED
    BY <2>1, <2>2, <2>3 DEF CheckTarget
<1>8. CASE ReadFails(s) \/ ResetFails(s) \/ ResetSucceeds(s)
  <2>1. /\ NextTarget(s) /\ w[s].pc \in {"reading", "posting", "awaiting"}
        /\ \E v \in Status \cap Final : Verdict(w[s].id, w[s].cur, v)
    BY <1>8 DEF ReadFails, ResetFails, ResetSucceeds, At, Status, Final
  <2>2. w'[s].pc = "checking" /\ w'[s].id = w[s].id /\ w'[s].todo = w[s].todo \ {w[s].cur}
    BY <1>1, <2>1 DEF NextTarget, Worker
  <2>3. w[s].pc \in InLoop /\ Busy(s)' /\ w[s].cur \in Subs /\ {} \in SUBSET Subs
    BY <2>1, <2>2, CurType DEF Busy, InLoop
  <2> DEFINE c == w[s].cur
  <2>4. PICK v \in Status \cap Final : Verdict(w[s].id, c, v)
    BY <2>1
  <2> HIDE DEF c
  <2>5. CASE mem' = mem /\ ~HasEvent(mem, w[s].id)
    BY <2>5
  <2>6. CASE mem' = SetTarget(mem, w[s].id, c, v, {})
    <3>1. /\ c \in Subs /\ v \in Status /\ v \in Final
          /\ w[s].todo \ {c} \subseteq w'[s].todo
      BY <2>2, <2>3, <2>4 DEF c
    <3> QED
      BY <2>2, <2>3, <2>6, <3>1
  <2> QED
    BY <2>4, <2>5, <2>6, VerdictSaved
<1>9. CASE \E ok \in SaveOutcomes : Prepare(s, ok)
  <2>1. Prepare(s, TRUE) /\ w[s].cur \in Subs /\ w[s].cur \in w[s].todo
    BY <1>9, CurType DEF Prepare, At
  <2>2. CASE HasEvent(mem, w[s].id)
    <3> DEFINE c == w[s].cur
    <3>1. mem' = SetTarget(mem, w[s].id, c, "resetting", {c}) /\ Goto(s, "posting")
      BY <2>1, <2>2 DEF Prepare, Save
    <3>2. w'[s].pc = "posting" /\ w'[s].id = w[s].id /\ w'[s].todo = w[s].todo
      BY <1>1, <3>1 DEF Goto, Worker
    <3>3. w[s].pc \in InLoop /\ Busy(s)' /\ "resetting" \in Status /\ {c} \in SUBSET Subs
          /\ c \in w'[s].todo
      BY <2>1, <3>2 DEF Busy, InLoop, Status, Prepare, At
    <3> HIDE DEF c
    <3> QED
      BY <2>1, <3>1, <3>2, <3>3 DEF c
  <2>3. CASE ~HasEvent(mem, w[s].id)
    BY <2>1, <2>3 DEF Prepare, store
  <2> QED
    BY <2>2, <2>3
<1> QED
  BY <1>2, <1>3, <1>4, <1>5, <1>6, <1>7, <1>8, <1>9 DEF WorkerStep

\* A worker that steps is in a cycle, and the cycle goes on.
LEMMA WorkerPolls ==
  ASSUME NEW s \in Sources, WorkerStep(s)
  PROVE  w[s].pc # "idle" /\ polling' = polling
BY DEF WorkerStep, Launch, LaunchCancelled, SampleSettles, SampleCandidate,
   ConfirmRejected, ConfirmReset, Resolve, RecordEvent, NotifyDetection, CheckTarget,
   ReadFails, Prepare, Post, ResetFails, ResetSucceeds, NoMoreTargets, NotifyReset,
   At, cycle

LEMMA WorkerSettled ==
  ASSUME IInv, EventsInv, SettledInv, NEW s \in Sources, WorkerStep(s), SaveOutcomes = {TRUE}
  PROVE  SettledInv'
<1>1. w \in [Sources -> Worker] /\ mem \in Store
  BY DEF IInv, TypeOK
<1>2. \A r \in Sources : r # s => w'[r] = w[r]
  BY <1>1, WorkerFrame
<1>3. polling /\ polling'
  BY WorkerPolls DEF SettledInv
<1>4. \A e \in mem.events : e \in Event
  BY <1>1 DEF Store
<1> SUFFICES ASSUME NEW f \in mem'.events, NEW u \in Subs, f.status[u] \in Open
             PROVE  Busy(f.src)' /\ w'[f.src].id = f.id /\ u \in w'[f.src].todo
  BY <1>3 DEF SettledInv
<1>5. ASSUME f \in mem.events PROVE Busy(f.src) /\ w[f.src].id = f.id /\ u \in w[f.src].todo
  BY <1>5 DEF SettledInv
<1>6. ASSUME f \in mem.events, f.src # s
      PROVE  Busy(f.src)' /\ w'[f.src].id = f.id /\ u \in w'[f.src].todo
  <2>1. f.src \in Sources
    BY <1>4, <1>6 DEF Event
  <2>2. w'[f.src] = w[f.src]
    BY <1>2, <1>6, <2>1
  <2> QED
    BY <1>5, <1>6, <2>2 DEF Busy
<1>7. CASE /\ mem'.events = mem.events
           /\ ~Busy(s) \/ w[s].todo = {} \/ ~HasEvent(mem, w[s].id)
  BY <1>5, <1>6, <1>7 DEF HasEvent
<1>8. CASE /\ mem'.events = mem.events /\ Busy(s)' /\ w'[s].id = w[s].id
           /\ w[s].todo \subseteq w'[s].todo
  BY <1>5, <1>6, <1>8
<1>9. CASE \E groupOK \in BOOLEAN : RecordEvent(s, groupOK, TRUE)
  <2>1. PICK groupOK \in BOOLEAN : RecordEvent(s, groupOK, TRUE)
    BY <1>9
  <2> DEFINE e == [id |-> nextId, src |-> s, win |-> w[s].win, before |-> {},
                   status |-> [t \in Subs |->
                      IF t \notin w[s].todo THEN "none"
                      ELSE IF groupOK THEN "pending" ELSE "skipped"]]
  <2>2. mem' = [mem EXCEPT !.events = Newest(mem.events \cup {e})] /\ w[s].pc = "resolved"
    BY <2>1 DEF RecordEvent, Save, At
  <2>3. w' = [w EXCEPT ![s].pc = "notifying", ![s].id = nextId, ![s].acting = groupOK]
    BY <2>1 DEF RecordEvent
  <2>4. w'[s] = [w[s] EXCEPT !.pc = "notifying", !.id = nextId, !.acting = groupOK]
    BY <1>1, <2>3
  <2>5. w'[s].pc = "notifying" /\ w'[s].id = nextId /\ w'[s].todo = w[s].todo
    BY <1>1, <2>4 DEF Worker
  <2>6. w'[s].acting = groupOK
    BY <1>1, <2>4, Zenon DEF Worker
  <2>7. f \in mem.events \/ f = e
    BY <1>1, <2>2 DEF Newest, Store
  <2>8. CASE f \in mem.events
    <3>1. ~Busy(s)
      BY <2>2 DEF Busy, InLoop
    <3> QED
      BY <1>5, <1>6, <2>8, <3>1
  <2>9. CASE f = e
    <3>1. f.src = s /\ f.id = nextId
      BY <2>9
    <3>2. f.status[u] = IF u \notin w[s].todo THEN "none"
                        ELSE IF groupOK THEN "pending" ELSE "skipped"
      BY <2>9
    <3>3. u \in w[s].todo /\ groupOK
      BY <3>2 DEF Open
    <3>4. w'[s].acting # FALSE
      BY <2>6, <3>3
    <3> QED
      BY <2>5, <3>1, <3>3, <3>4 DEF Busy
  <2> QED
    BY <2>7, <2>8, <2>9
<1>10. CASE \E t \in Subs, v \in Status, snap \in SUBSET Subs :
              /\ mem' = SetTarget(mem, w[s].id, t, v, snap)
              /\ w[s].pc \in InLoop /\ Busy(s)' /\ w'[s].id = w[s].id
              /\ w[s].todo \ {t} \subseteq w'[s].todo
              /\ v \in Final \/ t \in w'[s].todo
  <2>1. PICK t \in Subs, v \in Status, snap \in SUBSET Subs :
              /\ mem' = SetTarget(mem, w[s].id, t, v, snap)
              /\ w[s].pc \in InLoop /\ Busy(s)' /\ w'[s].id = w[s].id
              /\ w[s].todo \ {t} \subseteq w'[s].todo
              /\ v \in Final \/ t \in w'[s].todo
    BY <1>10
  <2> DEFINE i == w[s].id
  <2> HIDE DEF i
  <2>2. mem'.events = {Rewritten(e, i, t, v, snap) : e \in mem.events}
    BY <1>1, <2>1, SetTargetEvents DEF i
  <2>3. PICK e \in mem.events : f = Rewritten(e, i, t, v, snap)
    BY <2>2
  <2>4. CASE e.id # i
    <3>1. f = e
      BY <2>3, <2>4 DEF Rewritten
    <3> QED
      BY <1>5, <1>6, <2>4, <3>1 DEF i
  <2>5. CASE e.id = i
    <3>1. /\ f.id = i /\ f.src = e.src
          /\ f.status[u] = IF u = t THEN v ELSE e.status[u]
      BY <1>4, <2>3, <2>5, RewrittenEvent DEF SameEvent
    <3>2. e.src = s
      BY <2>1, <2>5 DEF i, EventsInv, EventInv, Recorded, InLoop
    <3>3. CASE u = t
      BY <2>1, <3>1, <3>2, <3>3 DEF i, Open, Final
    <3>4. CASE u # t
      <4>1. u \in w[s].todo
        BY <3>1, <3>2, <3>4 DEF SettledInv
      <4> QED
        BY <2>1, <3>1, <3>2, <3>4, <4>1 DEF i
    <3> QED
      BY <3>3, <3>4
  <2> QED
    BY <2>4, <2>5
<1> QED
  BY <1>7, <1>8, <1>9, <1>10, LoopMove

\* A cycle starts and ends with no worker in its loop, so that nothing is open.
LEMMA NextSettled ==
  ASSUME IInv, EventsInv, SettledInv, [Next]_vars, SaveOutcomes = {TRUE}, MayCrash = FALSE
  PROVE  SettledInv'
<1>1. CASE (\E force \in BOOLEAN : StartCycle(force)) \/ EndCycle
  <2>1. /\ \A s \in Sources : w[s].pc \in {"idle", "done"}
        /\ mem' = mem
    BY <1>1 DEF StartCycle, EndCycle, SettledInv, Save, store
  <2>2. polling' \/ \A s \in Sources : w'[s].pc = "idle"
    <3>1. CASE \E force \in BOOLEAN : StartCycle(force)
      <4>1. polling' = TRUE
        BY <3>1 DEF StartCycle
      <4> QED
        BY <4>1
    <3>2. CASE EndCycle
      <4>1. \A s \in Sources : w'[s].pc = "idle"
        BY <3>2 DEF EndCycle, NoWorker
      <4> QED
        BY <4>1
    <3> QED
      BY <1>1, <3>1, <3>2
  <2>3. \A e \in mem.events : e.src \in Sources
    BY DEF IInv, TypeOK, Store, Event
  <2>4. \A e \in mem.events : \A t \in Subs : e.status[t] \notin Open
    BY <2>1, <2>3 DEF SettledInv, Busy, InLoop
  <2> QED
    BY <2>1, <2>2, <2>4 DEF SettledInv
<1>2. CASE \E s \in Sources : WorkerStep(s)
  BY <1>2, WorkerSettled
<1>3. CASE \/ Deadline \/ UNCHANGED vars
           \/ \E c \in Configs : SetConfig(c)
           \/ \E s \in Sources : OfficialReset(s)
           \/ \E c \in wire : Land(c) \/ Lose(c)
  <2>1. mem'.events = mem.events
    BY <1>3, SetConfigGrows DEF Deadline, vars, OfficialReset, Land, Lose, store, cycle
  <2>2. UNCHANGED <<polling, w>>
    BY <1>3 DEF Deadline, vars, SetConfig, OfficialReset, Land, Lose, store, cycle
  <2> QED
    BY <2>1, <2>2 DEF SettledInv, Busy
<1>4. ~Crash
  BY DEF Crash
<1> QED
  BY <1>1, <1>2, <1>3, <1>4 DEF Next

\* Where saves succeed and the process survives, a finished cycle leaves no
\* target pending or resetting, wherever its deadline passed: the worker that
\* opened a target holds it on its list until it has written the verdict.
THEOREM SettledWithoutFaults ==
  ASSUME SaveOutcomes = {TRUE}, MayCrash = FALSE
  PROVE  Spec => []SettledWhenIdle
<1>1. Init => SettledInv
  BY DEF Init, SettledInv, NoWorker
<1>2. IInv /\ EventsInv /\ SettledInv /\ [Next]_vars => SettledInv'
  BY NextSettled
<1>3. IInv /\ SettledInv => SettledWhenIdle
  <2>1. IInv => \A e \in mem.events : e.src \in Sources
    BY DEF IInv, TypeOK, Store, Event
  <2> QED
    BY <2>1 DEF SettledInv, SettledWhenIdle, Busy, InLoop, Open
<1>4. Spec => [](IInv /\ EventsInv)
  BY EventInvariant
<1> QED
  BY <1>1, <1>2, <1>3, <1>4, PTL DEF Spec

============================================================================
