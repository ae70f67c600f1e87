--------------------------- MODULE ResetPipeline ---------------------------
(***************************************************************************)
(* The engine's reaction to an official reset of an upstream account: one  *)
(* polling cycle fans out one worker per enabled source, a worker samples  *)
(* the account, confirms a candidate, writes the fuse and the event, and   *)
(* then resets the mapped subscriptions one by one in Sub2API              *)
(* (engine.go, cycle and processSource).  Around it: the state file        *)
(* (store.go), whose memory copy may run ahead of the disk copy, crashes   *)
(* and restarts, saved configurations, and a network that delays, drops or *)
(* answers too late.                                                       *)
(*                                                                         *)
(* What a sample says about the account is abstracted here to the official *)
(* window it shows; Detection.tla models how a sample is classified.       *)
(***************************************************************************)
EXTENDS Naturals, FiniteSets

CONSTANTS
  Sources,       \* upstream OAuth accounts
  Subs,          \* ids of downstream subscriptions, visited in increasing order
  Dims,          \* reset dimensions: daily, weekly, monthly
  Configs,       \* configurations an administrator may save
  NoSub,         \* "no subscription"
  MaxEvents,     \* length of the event list (100 in store.go)
  SemSize,       \* workers running at once (4 in engine.go)
  MaxWindow,     \* bound: official windows per source
  MaxIds,        \* bound: events recorded in a behaviour
  SaveOutcomes,  \* {TRUE} when saving the state file cannot fail, else {TRUE, FALSE}
  MayCrash       \* whether the process may crash and restart

Config == [on : BOOLEAN, enabled : SUBSET Sources,
           targets : [Sources -> SUBSET Subs], dims : [Sources -> SUBSET Dims]]

\* validateConfig: an enabled source with targets resets some dimension.
ValidConfig(c) == \A s \in c.enabled : c.targets[s] # {} => c.dims[s] # {}

ASSUME ConfigsAssumption ==
  Configs # {} /\ Configs \subseteq Config /\ \A c \in Configs : ValidConfig(c)
ASSUME SubsAssumption == Subs \subseteq Nat /\ NoSub \notin Subs
ASSUME BoundsAssumption ==
  /\ MaxEvents \in Nat \ {0} /\ SemSize \in Nat \ {0}
  /\ MaxWindow \in Nat \ {0} /\ MaxIds \in Nat
ASSUME FaultsAssumption ==
  TRUE \in SaveOutcomes /\ SaveOutcomes \subseteq BOOLEAN /\ MayCrash \in BOOLEAN

Status == {"none", "pending", "skipped", "cancelled", "resetting",
           "succeeded", "failed"}
Event == [id : Nat, src : Sources, win : 1..MaxWindow,
          status : [Subs -> Status], before : SUBSET Subs]
Store == [cfg : Configs, fuse : [Sources -> 0..MaxWindow], events : SUBSET Event]
Call  == [src : Sources, win : 1..MaxWindow, sub : Subs]

Phase == {"idle", "queued", "sampling", "confirming", "confirmed", "resolved",
          "notifying", "checking", "reading", "posting", "awaiting",
          "reporting", "done"}
Worker == [pc : Phase, prev : 0..MaxWindow, win : 0..MaxWindow, id : Nat,
           todo : SUBSET Subs, cur : Subs \cup {NoSub}, dims : SUBSET Dims,
           acting : BOOLEAN]
NoWorker == [pc |-> "idle", prev |-> 0, win |-> 0, id |-> 0, todo |-> {},
             cur |-> NoSub, dims |-> {}, acting |-> FALSE]

VARIABLES
  mem,       \* Store.data: the state every handler reads and writes
  disk,      \* the state file: what a restart finds
  polling,   \* a cycle holds pollMu
  start,     \* the configuration the cycle read when it started
  deadline,  \* the cycle's context has expired
  w,         \* the worker of each source
  wire,      \* reset calls sent and not yet executed or lost
  landed,    \* how often Sub2API executed each reset call
  win,       \* the official window of each upstream account
  stray,     \* calls sent since the last saved configuration that it forbids
  nextId     \* the next event is the nextId-th of the behaviour

store == <<mem, disk>>
cycle == <<polling, start, deadline>>
world == <<wire, landed, win, stray, nextId>>
vars  == <<mem, disk, polling, start, deadline, w, wire, landed, win, stray, nextId>>

----------------------------------------------------------------------------
(* The state file.  Memory always takes the new state; the file takes the  *)
(* whole of memory or keeps what it had (temporary file and rename), and   *)
(* with it whatever earlier failed saves left out.                         *)

Save(st, ok) == mem' = st /\ disk' = IF ok THEN st ELSE disk

Newest(evs) == {e \in evs : Cardinality({f \in evs : f.id > e.id}) < MaxEvents}

HasEvent(st, i) == \E e \in st.events : e.id = i

\* Mutant: the verdict is written to every target of the event.
SetTarget_AllTargets(st, i, t, v, snap) ==
  [st EXCEPT !.events =
     {IF e.id = i THEN [e EXCEPT !.status = [u \in Subs |-> v], !.before = @ \cup snap]
                  ELSE e : e \in st.events}]

SetTarget(st, i, t, v, snap) ==
  [st EXCEPT !.events =
     {IF e.id = i THEN [e EXCEPT !.status[t] = v, !.before = @ \cup snap]
                  ELSE e : e \in st.events}]

\* UpdateTarget and CompleteTarget: nothing is written for an evicted event,
\* and the engine ignores their error.
Verdict(i, t, v) ==
  \/ ~HasEvent(mem, i) /\ UNCHANGED store
  \/ HasEvent(mem, i) /\ \E ok \in SaveOutcomes : Save(SetTarget(mem, i, t, v, {}), ok)

\* UpdateEventNotification when a channel is configured, else nothing; the
\* notification fields themselves are left out, the save is not.
MayFlush(i) ==
  \/ UNCHANGED store
  \/ HasEvent(mem, i) /\ \E ok \in SaveOutcomes : Save(mem, ok)

----------------------------------------------------------------------------
(* What the configuration allows.                                          *)

ActiveIn(c, s) == c.on /\ s \in c.enabled

\* resolveActionSource: only what both the cycle's and the latest
\* configuration want; a target list or dimension set left empty blocks.
BothActive(s)    == ActiveIn(start, s) /\ ActiveIn(mem.cfg, s)
\* Mutant: the targets are taken from the latest configuration alone.
ActionTargets_Latest(s) == IF BothActive(s) THEN mem.cfg.targets[s] ELSE {}

ActionTargets(s) == IF BothActive(s) THEN start.targets[s] \cap mem.cfg.targets[s] ELSE {}
ActionDims(s)    == IF BothActive(s) THEN start.dims[s] \cap mem.cfg.dims[s] ELSE start.dims[s]
ActionAllowed(s) == BothActive(s) /\ ActionTargets(s) # {} /\ ActionDims(s) # {}

TargetStillAllowed(c, s, t, ds) ==
  ActiveIn(c, s) /\ ds \subseteq c.dims[s] /\ t \in c.targets[s]

----------------------------------------------------------------------------
Init ==
  /\ \E c \in Configs :
       /\ mem = [cfg |-> c, fuse |-> [s \in Sources |-> 0], events |-> {}]
       /\ start = c
  /\ disk = mem
  /\ polling = FALSE /\ deadline = FALSE
  /\ w = [s \in Sources |-> NoWorker]
  /\ wire = {} /\ landed = [c \in Call |-> 0]
  /\ win = [s \in Sources |-> 1]
  /\ stray = [s \in Sources |-> 0]
  /\ nextId = 1

At(s, p)  == w[s].pc = p
Goto(s, p) == w' = [w EXCEPT ![s].pc = p]
Finish(s) == w' = [w EXCEPT ![s] = [NoWorker EXCEPT !.pc = "done"]]
Running(s) == w[s].pc \notin {"idle", "queued", "done"}

(* The cycle.                                                              *)

\* PollAsync and PollNow take pollMu or give up; cycle snapshots the
\* configuration, and runs no source when monitoring is off and not forced.
StartCycle(force) ==
  /\ ~polling
  /\ polling' = TRUE /\ deadline' = FALSE /\ start' = mem.cfg
  /\ w' = [s \in Sources |->
             IF (mem.cfg.on \/ force) /\ s \in mem.cfg.enabled
             THEN [NoWorker EXCEPT !.pc = "queued"] ELSE NoWorker]
  /\ UNCHANGED <<mem, disk, wire, landed, win, stray, nextId>>

\* The cycle's context: three minutes, or 170 s for a manual check.
Deadline ==
  /\ polling /\ ~deadline
  /\ deadline' = TRUE
  /\ UNCHANGED <<mem, disk, polling, start, w, wire, landed, win, stray, nextId>>

Launch(s) ==
  /\ At(s, "queued") /\ Cardinality({r \in Sources : Running(r)}) < SemSize
  /\ Goto(s, "sampling")
  /\ UNCHANGED <<store, cycle, world>>

LaunchCancelled(s) ==
  /\ At(s, "queued") /\ deadline
  /\ Finish(s)
  /\ UNCHANGED <<store, cycle, world>>

\* wg.Wait, then AddPollResult saves when any source was polled.
EndCycle ==
  /\ polling /\ \A s \in Sources : w[s].pc \in {"idle", "done"}
  /\ polling' = FALSE /\ deadline' = FALSE
  /\ IF \A s \in Sources : At(s, "idle") THEN UNCHANGED store
     ELSE \E ok \in SaveOutcomes : Save(mem, ok)
  /\ w' = [s \in Sources |-> NoWorker]
  /\ UNCHANGED <<start, world>>

----------------------------------------------------------------------------
(* processSource up to the confirmation.                                   *)

\* Mutant: saveSample does not carry LastConfirmedResetAt over.
SampleSettles_Forgets(s) ==
  /\ At(s, "sampling")
  /\ Finish(s)
  /\ \E ok \in SaveOutcomes : Save([mem EXCEPT !.fuse[s] = 0], ok)
  /\ UNCHANGED <<cycle, world>>

\* The first sample fails, is discarded as out of order, or is saved with
\* the fuse read before it: nothing but the saved baseline changes.
SampleSettles(s) ==
  /\ At(s, "sampling")
  /\ Finish(s)
  /\ \/ UNCHANGED store
     \/ \E ok \in SaveOutcomes : Save(mem, ok)
  /\ UNCHANGED <<cycle, world>>

\* Mutant: classify has lost its idempotency fuse.
FuseOpen_Always(f, s) == TRUE

\* classify's last guard: the window sampled is not the one last confirmed.
FuseOpen(f, s) == f # win[s]

\* A usage drop outside the window the fuse remembers.  prev is the account
\* state read here, and still used when the confirmation comes back.
SampleCandidate(s) ==
  /\ At(s, "sampling") /\ ~deadline
  /\ FuseOpen(mem.fuse[s], s) /\ nextId <= MaxIds
  /\ w' = [w EXCEPT ![s].pc = "confirming", ![s].prev = mem.fuse[s]]
  /\ UNCHANGED <<store, cycle, world>>

\* The confirmation is cut off by the deadline, fails, is out of order, or
\* is classified as something else and saved over prev.
ConfirmRejected(s) ==
  /\ At(s, "confirming")
  /\ Finish(s)
  /\ \/ UNCHANGED store
     \/ \E ok \in SaveOutcomes : Save([mem EXCEPT !.fuse[s] = w[s].prev], ok)
  /\ UNCHANGED <<cycle, world>>

\* Mutant: the confirmed window is not remembered.
ConfirmReset_NoFuse(s) ==
  /\ At(s, "confirming") /\ ~deadline
  /\ FuseOpen(w[s].prev, s)
  /\ \E ok \in SaveOutcomes : Save(mem, ok)
  /\ w' = [w EXCEPT ![s].pc = "confirmed", ![s].win = win[s]]
  /\ UNCHANGED <<cycle, world>>

\* Mutant: the fuse is set to the window after the confirmed one.
ConfirmReset_NextWindow(s) ==
  /\ At(s, "confirming") /\ ~deadline
  /\ FuseOpen(w[s].prev, s)
  /\ \E ok \in SaveOutcomes : Save([mem EXCEPT !.fuse[s] = win[s] + 1], ok)
  /\ w' = [w EXCEPT ![s].pc = "confirmed", ![s].win = win[s]]
  /\ UNCHANGED <<cycle, world>>

\* Confirmed: the fuse is saved with the new baseline before anything else.
\* A save that fails is only logged and the worker goes on.
ConfirmReset(s) ==
  /\ At(s, "confirming") /\ ~deadline
  /\ FuseOpen(w[s].prev, s)
  /\ \E ok \in SaveOutcomes : Save([mem EXCEPT !.fuse[s] = win[s]], ok)
  /\ w' = [w EXCEPT ![s].pc = "confirmed", ![s].win = win[s]]
  /\ UNCHANGED <<cycle, world>>

\* store.Config and resolveActionSource.
Resolve(s) ==
  /\ At(s, "confirmed")
  /\ w' = [w EXCEPT ![s].pc = "resolved", ![s].todo = ActionTargets(s),
                    ![s].dims = ActionDims(s), ![s].acting = ActionAllowed(s)]
  /\ UNCHANGED <<store, cycle, world>>

\* The account's groups are checked when there is something to do (groupOK),
\* then the event is recorded.  Without a saved event nothing is reset, and
\* the event stays in memory.
RecordEvent(s, groupOK, ok) ==
  /\ At(s, "resolved")
  /\ groupOK => w[s].acting /\ ~deadline
  /\ LET e == [id |-> nextId, src |-> s, win |-> w[s].win, before |-> {},
               status |-> [t \in Subs |->
                  IF t \notin w[s].todo THEN "none"
                  ELSE IF groupOK THEN "pending" ELSE "skipped"]]
     IN Save([mem EXCEPT !.events = Newest(@ \cup {e})], ok)
  /\ nextId' = nextId + 1
  /\ IF ok
     THEN w' = [w EXCEPT ![s].pc = "notifying", ![s].id = nextId, ![s].acting = groupOK]
     ELSE Finish(s)
  /\ UNCHANGED <<cycle, wire, landed, win, stray>>

NotifyDetection(s) ==
  /\ At(s, "notifying")
  /\ MayFlush(w[s].id)
  /\ IF w[s].acting THEN Goto(s, "checking") ELSE Finish(s)
  /\ UNCHANGED <<cycle, world>>

----------------------------------------------------------------------------
(* processSource's loop over the event's targets.                          *)

\* The targets are sorted by id.
IsNext(s, t) == t \in w[s].todo /\ \A u \in w[s].todo : t <= u
\* Mutant: a handled target stays in the list.
NextTarget_Keeps(s) == w' = [w EXCEPT ![s].pc = "checking", ![s].cur = NoSub]

NextTarget(s) ==
  w' = [w EXCEPT ![s].pc = "checking", ![s].todo = @ \ {w[s].cur}, ![s].cur = NoSub]

\* Mutant: targets are checked against the configuration of the cycle's start.
CheckTarget_Start(s, t) ==
  /\ At(s, "checking") /\ IsNext(s, t)
  /\ IF TargetStillAllowed(start, s, t, w[s].dims)
     THEN /\ w' = [w EXCEPT ![s].pc = "reading", ![s].cur = t]
          /\ UNCHANGED store
     ELSE /\ w' = [w EXCEPT ![s].todo = @ \ {t}]
          /\ Verdict(w[s].id, t, "cancelled")
  /\ UNCHANGED <<cycle, world>>

\* Mutant: a forbidden target is passed over without a verdict.
CheckTarget_Silent(s, t) ==
  /\ At(s, "checking") /\ IsNext(s, t)
  /\ IF TargetStillAllowed(mem.cfg, s, t, w[s].dims)
     THEN w' = [w EXCEPT ![s].pc = "reading", ![s].cur = t]
     ELSE w' = [w EXCEPT ![s].todo = @ \ {t}]
  /\ UNCHANGED <<store, cycle, world>>

CheckTarget(s, t) ==
  /\ At(s, "checking") /\ IsNext(s, t)
  /\ IF TargetStillAllowed(mem.cfg, s, t, w[s].dims)
     THEN /\ w' = [w EXCEPT ![s].pc = "reading", ![s].cur = t]
          /\ UNCHANGED store
     ELSE /\ w' = [w EXCEPT ![s].todo = @ \ {t}]
          /\ Verdict(w[s].id, t, "cancelled")
  /\ UNCHANGED <<cycle, world>>

\* Mutant: a target that cannot be read is tried again.
ReadFails_Retries(s) ==
  /\ At(s, "reading")
  /\ Goto(s, "checking")
  /\ Verdict(w[s].id, w[s].cur, "failed")
  /\ UNCHANGED <<cycle, world>>

\* GetSubscription fails, or shows a group the account does not serve.
ReadFails(s) ==
  /\ At(s, "reading")
  /\ NextTarget(s)
  /\ \/ Verdict(w[s].id, w[s].cur, "failed")
     \/ ~deadline /\ Verdict(w[s].id, w[s].cur, "cancelled")
  /\ UNCHANGED <<cycle, world>>

\* Mutant: the call is made although the snapshot was not saved.
Prepare_Unsaved(s, ok) ==
  /\ At(s, "reading") /\ ~deadline
  /\ HasEvent(mem, w[s].id)
  /\ Save(SetTarget(mem, w[s].id, w[s].cur, "resetting", {w[s].cur}), ok)
  /\ Goto(s, "posting")
  /\ UNCHANGED <<cycle, world>>

\* PrepareTarget: the snapshot and "resetting" must be on disk before the
\* call is made, else the target is skipped as it stands.
Prepare(s, ok) ==
  /\ At(s, "reading") /\ ~deadline
  /\ IF HasEvent(mem, w[s].id)
     THEN /\ Save(SetTarget(mem, w[s].id, w[s].cur, "resetting", {w[s].cur}), ok)
          /\ IF ok THEN Goto(s, "posting") ELSE NextTarget(s)
     ELSE NextTarget(s) /\ UNCHANGED store
  /\ UNCHANGED <<cycle, world>>

CallOf(s) == [src |-> s, win |-> w[s].win, sub |-> w[s].cur]

\* client.ResetSubscription sends the request.
Post(s) ==
  /\ At(s, "posting") /\ ~deadline
  /\ wire' = wire \cup {CallOf(s)}
  /\ stray' = IF TargetStillAllowed(mem.cfg, s, w[s].cur, w[s].dims) THEN stray
              ELSE [stray EXCEPT ![s] = @ + 1]
  /\ Goto(s, "awaiting")
  /\ UNCHANGED <<store, cycle, landed, win, nextId>>

\* Mutant: an error of the call is taken for success.
ResetFails_Ignored(s) ==
  /\ (At(s, "posting") /\ deadline) \/ At(s, "awaiting")
  /\ Verdict(w[s].id, w[s].cur, "succeeded")
  /\ NextTarget(s)
  /\ UNCHANGED <<cycle, world>>

\* The context has expired before the call, or the call fails: an error
\* reply, a timeout, or a reply lost after Sub2API executed the reset.
ResetFails(s) ==
  /\ (At(s, "posting") /\ deadline) \/ At(s, "awaiting")
  /\ Verdict(w[s].id, w[s].cur, "failed")
  /\ NextTarget(s)
  /\ UNCHANGED <<cycle, world>>

ResetSucceeds(s) ==
  /\ At(s, "awaiting") /\ ~deadline
  /\ CallOf(s) \notin wire /\ landed[CallOf(s)] > 0
  /\ Verdict(w[s].id, w[s].cur, "succeeded")
  /\ NextTarget(s)
  /\ UNCHANGED <<cycle, world>>

NoMoreTargets(s) ==
  /\ At(s, "checking") /\ w[s].todo = {}
  /\ Goto(s, "reporting")
  /\ UNCHANGED <<store, cycle, world>>

NotifyReset(s) ==
  /\ At(s, "reporting")
  /\ MayFlush(w[s].id)
  /\ Finish(s)
  /\ UNCHANGED <<cycle, world>>

WorkerStep(s) ==
  \/ Launch(s) \/ LaunchCancelled(s)
  \/ SampleSettles(s) \/ SampleCandidate(s)
  \/ ConfirmRejected(s) \/ ConfirmReset(s) \/ Resolve(s)
  \/ \E groupOK \in BOOLEAN, ok \in SaveOutcomes : RecordEvent(s, groupOK, ok)
  \/ NotifyDetection(s)
  \/ \E t \in Subs : CheckTarget(s, t)
  \/ ReadFails(s)
  \/ \E ok \in SaveOutcomes : Prepare(s, ok)
  \/ Post(s) \/ ResetFails(s) \/ ResetSucceeds(s)
  \/ NoMoreTargets(s) \/ NotifyReset(s)

----------------------------------------------------------------------------
(* Around the cycle.                                                       *)

\* updateConfig stores a validated configuration at any time; memory keeps it
\* even when the save fails and the administrator is told it did.
SetConfig(c) ==
  /\ c # mem.cfg
  /\ \E ok \in SaveOutcomes : Save([mem EXCEPT !.cfg = c], ok)
  /\ stray' = [s \in Sources |-> 0]
  /\ UNCHANGED <<cycle, w, wire, landed, win, nextId>>

\* Mutant: the restarted process does not load the fuses.
Crash_ForgetsFuse ==
  /\ MayCrash
  /\ mem' = [disk EXCEPT !.fuse = [s \in Sources |-> 0]] /\ disk' = disk
  /\ polling' = FALSE /\ deadline' = FALSE
  /\ w' = [s \in Sources |-> NoWorker]
  /\ UNCHANGED <<start, world>>

\* The process dies and main starts over from the file; calls already sent
\* are out of its hands.
Crash ==
  /\ MayCrash
  /\ mem' = disk /\ disk' = disk
  /\ polling' = FALSE /\ deadline' = FALSE
  /\ w' = [s \in Sources |-> NoWorker]
  /\ UNCHANGED <<start, world>>

\* Upstream staff reset the account (or its window ends): a new window.
OfficialReset(s) ==
  /\ win[s] < MaxWindow
  /\ win' = [win EXCEPT ![s] = @ + 1]
  /\ UNCHANGED <<store, cycle, w, wire, landed, stray, nextId>>

\* Sub2API executes a reset call, or the network loses it.
Land(c) ==
  /\ c \in wire
  /\ wire' = wire \ {c}
  /\ landed' = [landed EXCEPT ![c] = @ + 1]
  /\ UNCHANGED <<store, cycle, w, win, stray, nextId>>

Lose(c) ==
  /\ c \in wire
  /\ wire' = wire \ {c}
  /\ UNCHANGED <<store, cycle, w, landed, win, stray, nextId>>

Next ==
  \/ \E force \in BOOLEAN : StartCycle(force)
  \/ Deadline \/ EndCycle
  \/ \E s \in Sources : WorkerStep(s) \/ OfficialReset(s)
  \/ \E c \in Configs : SetConfig(c)
  \/ \E c \in wire : Land(c) \/ Lose(c)
  \/ Crash

Spec == Init /\ [][Next]_vars

\* Every await of a worker ends: upstream and Sub2API requests carry the
\* cycle's context, notifications their own 15 s limit, saves are local.
Fairness == WF_vars(EndCycle) /\ \A s \in Sources : WF_vars(WorkerStep(s))
FairSpec == Spec /\ Fairness

----------------------------------------------------------------------------
(* Properties.                                                             *)

TypeOK ==
  /\ mem \in Store /\ disk \in Store
  /\ polling \in BOOLEAN /\ deadline \in BOOLEAN /\ start \in Configs
  /\ w \in [Sources -> Worker]
  /\ wire \subseteq Call /\ landed \in [Call -> Nat]
  /\ win \in [Sources -> 1..MaxWindow]
  /\ stray \in [Sources -> Nat] /\ nextId \in Nat \ {0}

\* One official reset resets a subscription at most once, whatever fails:
\* lost replies, failed saves, crashes and restarts, repeated candidates and
\* overlapping configurations (the write-ahead of processSource and the fuse
\* of classify).
AtMostOnceReset == \A c \in Call : landed[c] <= 1

\* A call that has left the process has its before-snapshot in the state
\* file, so that a crash or a lost reply cannot leave a reset without its
\* record (PrepareTarget before ResetSubscription); only the event list's
\* own limit may have dropped the record since.
SnapshotBeforeReset ==
  \A c \in Call : c \in wire \/ landed[c] > 0 =>
    \/ \E e \in disk.events : e.src = c.src /\ e.win = c.win /\ c.sub \in e.before
    \/ Cardinality(disk.events) = MaxEvents

\* A target recorded as succeeded, in memory or on disk, was executed by
\* Sub2API: a reply is never attributed to another target, window or event.
SucceededMeansLanded ==
  \A st \in {mem, disk} : \A e \in st.events : \A t \in Subs :
    e.status[t] = "succeeded" => landed[[src |-> e.src, win |-> e.win, sub |-> t]] > 0

\* Two events in one state are never about the same official window, so that
\* an administrator sees one confirmed reset once, and it is never undone
\* under two records (the fuse, saved before the event).
OneEventPerWindow ==
  \A st \in {mem, disk} : \A e, f \in st.events :
    e.src = f.src /\ e.win = f.win => e.id = f.id

\* After a saved configuration that forbids it, an account's running worker
\* sends at most the one call it had already checked (targetStillAllowed
\* before every target).
OneStraggler == \A s \in Sources : stray[s] <= 1

\* What is sent was wanted by the configuration the cycle started with, even
\* when the administrator widens it while the cycle runs: a manual check
\* with monitoring off never resets anyone (resolveActionSource).
OnlyStartedTargets ==
  \A s \in Sources : At(s, "awaiting") =>
    TargetStillAllowed(start, s, w[s].cur, w[s].dims) /\ w[s].dims # {}

\* Where saves succeed and the process survives, a finished cycle leaves no
\* target waiting: each is succeeded, failed, cancelled or skipped, though
\* the deadline may pass anywhere in the loop.
SettledWhenIdle ==
  ~polling => \A e \in mem.events : \A t \in Subs :
    e.status[t] \notin {"pending", "resetting"}

\* The fuse on disk never goes back to an earlier window: no late save, no
\* stale copy of the account and no restart reopens a window already acted on.
FuseNeverBack == [][\A s \in Sources : disk.fuse[s] <= disk'.fuse[s]]_vars

\* A verdict in the state file is final as long as the event is listed.
Final == {"succeeded", "failed", "cancelled", "skipped"}
DiskVerdictFinal ==
  [][\A e \in disk.events, f \in disk'.events :
       e.id = f.id => \A t \in Subs : e.status[t] \in Final => f.status[t] = e.status[t]]_vars

\* Why a reset happens once: the inductive invariant of the proofs.  A call
\* that left the process is covered by the fuse on disk, which no candidate
\* passes after a restart; and what a worker has still to send was never sent.
Recorded == {"notifying", "checking", "reading", "posting", "awaiting", "reporting"}
Acting   == {"confirmed", "resolved"} \cup Recorded
Sent(c)  == c \in wire \/ landed[c] > 0
ToSend(s) == IF At(s, "confirmed") THEN Subs
             ELSE IF At(s, "awaiting") THEN w[s].todo \ {w[s].cur} ELSE w[s].todo

FuseOrder  == \A s \in Sources : disk.fuse[s] <= mem.fuse[s] /\ mem.fuse[s] <= win[s]
WriteAhead == \A c \in Call : Sent(c) => c.win <= disk.fuse[c.src]
CallOnce   == \A c \in Call : landed[c] <= 1 /\ (c \in wire => landed[c] = 0)
WorkerInv(s) ==
  /\ At(s, "confirming") => w[s].prev = mem.fuse[s]
  /\ w[s].pc \in Acting => w[s].win = mem.fuse[s] /\ w[s].win > 0
  /\ w[s].pc \in Recorded => w[s].win = disk.fuse[s]
  /\ w[s].pc \in {"reading", "posting", "awaiting"} => w[s].cur \in w[s].todo
  /\ w[s].pc \in Acting =>
       \A t \in ToSend(s) : ~Sent([src |-> s, win |-> w[s].win, sub |-> t])
IInv == TypeOK /\ FuseOrder /\ WriteAhead /\ CallOnce /\ \A s \in Sources : WorkerInv(s)

\* The pipeline implements the ledger: Sub2API executing a call is the ledger's
\* reset, an official reset its new window, and every step of the engine,
\* the network's losses and a crash are invisible to it.
Ledger == INSTANCE ResetLedger WITH official <- win, resets <- landed
LedgerSpec == Ledger!Spec

\* A cycle ends whatever fails in it, and pollMu becomes free again for the
\* next poll, a manual check or an undo.
CycleEnds == polling ~> ~polling

============================================================================
