----------------------------- MODULE Scheduler -----------------------------
(***************************************************************************)
(* When the service polls (engine.go): the loop that waits for the next    *)
(* automatic poll, the wake channel by which a saved configuration         *)
(* interrupts the wait, and pollMu, for which automatic cycles, manual     *)
(* checks and undos compete without waiting.  What a cycle does is in      *)
(* ResetPipeline.tla, what an undo does in Rollback.tla.                   *)
(*                                                                         *)
(* Time is a countdown to the next poll.  Nothing happens at a given tick: *)
(* any number of steps fit between two ticks, and any number of ticks      *)
(* between two steps.                                                      *)
(***************************************************************************)
EXTENDS Naturals

CONSTANTS
  Configs,       \* configurations an administrator may save
  JitterDivisor, JitterMax, OffsetMax,    \* automaticPollJitterDivisor and so on
  StaggerMax, ManualStagger, ManualStaggerMax,
  SaveOutcomes,  \* as in ResetPipeline
  MaxSaving      \* bound: handlers between their save and their notification

Config == [on : BOOLEAN, interval : Nat \ {0}]

ASSUME SchedulerAssumption ==
  /\ Configs # {} /\ Configs \subseteq Config
  /\ JitterDivisor \in Nat \ {0} /\ JitterMax \in Nat /\ OffsetMax \in Nat
  /\ {StaggerMax, ManualStagger, ManualStaggerMax} \subseteq Nat
  /\ TRUE \in SaveOutcomes /\ SaveOutcomes \subseteq BOOLEAN
  /\ MaxSaving \in Nat \ {0}

VARIABLES
  cfg,      \* the stored configuration
  saving,   \* handlers that have saved and not yet notified
  wake,     \* the wake channel holds its one message
  loop,     \* the loop: where it is, the configuration it read, the time left
  lock,     \* who holds pollMu, and how far its cycle is
  silent,   \* ghost: a failed save changed cfg since the loop last read it
  floor     \* ghost: ticks until the interval of the last attempt is over

vars == <<cfg, saving, wake, loop, lock, silent, floor>>

----------------------------------------------------------------------------
(* Random delays: the set of values each may take.                         *)

AtMost(n, max) == IF n > max THEN max ELSE n

\* randomDurationBelow; zero when there is nothing to draw from.
Below(n) == IF n = 0 THEN {0} ELSE 0..(n - 1)

\* Mutant: the jitter is spread around the interval.
JitteredPollDelay_Around(interval) ==
  LET j == AtMost(interval \div JitterDivisor, JitterMax)
  IN {interval - j + r : r \in Below(2 * j)}

JitteredPollDelay(interval) ==
  {interval + r : r \in Below(AtMost(interval \div JitterDivisor, JitterMax))}

InitialPollOffset(interval) == Below(AtMost(interval \div JitterDivisor, OffsetMax))

\* sourceLaunchSchedule: the time over which n accounts are spread, the slot of
\* one of them, and when the i-th (from 0) may start.
LaunchSpan(n, interval, manual) ==
  LET span == IF manual THEN AtMost(n * ManualStagger, ManualStaggerMax)
              ELSE AtMost(interval \div 2, StaggerMax)
  IN IF span = 0 THEN n ELSE span

LaunchSlot(n, span) == IF span \div n = 0 THEN 1 ELSE span \div n

\* Mutant: the random part of a delay spans two slots.
LaunchDelays_TwoSlots(i, n, span) ==
  {i * LaunchSlot(n, span) + r : r \in Below(LaunchSlot(n, span) * 2)}

\* A single account starts at once.
LaunchDelays(i, n, span) ==
  {i * LaunchSlot(n, span) + r : r \in IF n = 1 THEN {0} ELSE Below(LaunchSlot(n, span) \div 2)}

----------------------------------------------------------------------------
Free == [by |-> "nobody", phase |-> "none"]

Init ==
  /\ cfg \in Configs /\ saving = 0 /\ wake = FALSE
  /\ loop = [pc |-> "read", seen |-> cfg, armed |-> FALSE, left |-> 0]
  /\ lock = Free
  /\ silent = FALSE /\ floor = 0

At(p) == loop.pc = p

(* A handler saves a configuration (memory takes it either way) and then   *)
(* notifies the loop, or gives up because the save failed.                 *)

SaveConfig(c) ==
  /\ cfg' = c
  /\ \/ saving < MaxSaving /\ saving' = saving + 1 /\ UNCHANGED silent
     \/ FALSE \in SaveOutcomes /\ silent' = TRUE /\ UNCHANGED saving
  /\ UNCHANGED <<wake, loop, lock, floor>>

\* Mutant: the channel has no room, and nobody waits outside the selects.
NotifyConfigChanged_Unbuffered ==
  /\ saving > 0 /\ saving' = saving - 1
  /\ wake' = (loop.pc \in {"off", "wait"})
  /\ UNCHANGED <<cfg, loop, lock, silent, floor>>

NotifyConfigChanged ==
  /\ saving > 0 /\ saving' = saving - 1
  /\ wake' = TRUE
  /\ UNCHANGED <<cfg, loop, lock, silent, floor>>

(* Run.                                                                    *)

ReadConfig ==
  /\ At("read")
  /\ loop' = [loop EXCEPT !.pc = "decide", !.seen = cfg]
  /\ silent' = FALSE
  /\ UNCHANGED <<cfg, saving, wake, lock, floor>>

\* Switched off: no next poll, and a select with a timer of a second.
DecideOff ==
  /\ At("decide") /\ ~loop.seen.on
  /\ loop' = [loop EXCEPT !.pc = "off", !.armed = FALSE, !.left = 0]
  /\ floor' = 0
  /\ UNCHANGED <<cfg, saving, wake, lock, silent>>

\* Switched on: the next poll, drawn anew when there is none, is waited for.
DecideOn ==
  /\ At("decide") /\ loop.seen.on
  /\ \E left \in IF loop.armed THEN {loop.left} ELSE InitialPollOffset(loop.seen.interval) :
       loop' = [loop EXCEPT !.pc = IF left > 0 THEN "wait" ELSE "due",
                            !.armed = TRUE, !.left = left]
  /\ UNCHANGED <<cfg, saving, wake, lock, silent, floor>>

\* A select that has both a message and a timer takes either.
WakeUp ==
  /\ loop.pc \in {"off", "wait"} /\ wake /\ wake' = FALSE
  /\ loop' = [loop EXCEPT !.pc = "read", !.armed = FALSE, !.left = 0]
  /\ floor' = 0
  /\ UNCHANGED <<cfg, saving, lock, silent>>

\* Mutant: a service that is off waits for a message alone.
OffTimer_Never == FALSE /\ UNCHANGED vars

OffTimer ==
  /\ At("off") /\ loop' = [loop EXCEPT !.pc = "read"]
  /\ UNCHANGED <<cfg, saving, wake, lock, silent, floor>>

PollTimer ==
  /\ At("wait") /\ loop.left = 0
  /\ loop' = [loop EXCEPT !.pc = "due"]
  /\ UNCHANGED <<cfg, saving, wake, lock, silent, floor>>

\* PollAsync starts a cycle or, with pollMu taken, leaves it at that; the next
\* attempt is an interval away in either case.
Attempt ==
  /\ At("due")
  /\ lock' = IF lock = Free THEN [by |-> "auto", phase |-> "starting"] ELSE lock
  /\ \E left \in JitteredPollDelay(loop.seen.interval) :
       loop' = [loop EXCEPT !.pc = "read", !.left = left]
  /\ floor' = loop.seen.interval
  /\ UNCHANGED <<cfg, saving, wake, silent>>

LoopStep == ReadConfig \/ DecideOff \/ DecideOn \/ WakeUp \/ OffTimer \/ PollTimer \/ Attempt

(* pollMu.                                                                 *)

\* PollNow and UndoTarget take pollMu if it is free, else refuse.
TryLock(who) ==
  /\ who \in {"manual", "undo"} /\ lock = Free
  /\ lock' = [by |-> who, phase |-> "starting"]
  /\ UNCHANGED <<cfg, saving, wake, loop, silent, floor>>

Locked(p) == lock.phase = p /\ UNCHANGED <<cfg, saving, wake, loop, silent, floor>>

\* cycle reads the configuration for itself; an automatic one with monitoring
\* off is over.
CycleStarts ==
  /\ Locked("starting") /\ (lock.by = "auto" => cfg.on)
  /\ lock' = [lock EXCEPT !.phase = "running"]

\* Mutant: the early return leaves the cycle marked as started.
CycleDisabled_Marked ==
  /\ Locked("starting") /\ lock.by = "auto" /\ ~cfg.on
  /\ lock' = [lock EXCEPT !.by = "nobody"]

CycleDisabled ==
  /\ Locked("starting") /\ lock.by = "auto" /\ ~cfg.on
  /\ lock' = Free

\* Mutant: an automatic cycle keeps the mutex.
Unlock_Keeps ==
  /\ Locked("running") /\ lock.by # "auto"
  /\ lock' = Free

Unlock == Locked("running") /\ lock' = Free

LockStep == CycleStarts \/ CycleDisabled \/ Unlock

Tick ==
  /\ loop.left > 0 \/ floor > 0
  /\ loop' = [loop EXCEPT !.left = IF @ > 0 THEN @ - 1 ELSE 0]
  /\ floor' = IF floor > 0 THEN floor - 1 ELSE 0
  /\ UNCHANGED <<cfg, saving, wake, lock, silent>>

Next ==
  \/ Tick \/ NotifyConfigChanged \/ LoopStep \/ LockStep
  \/ \E c \in Configs : SaveConfig(c)
  \/ \E who \in {"manual", "undo"} : TryLock(who)

Spec == Init /\ [][Next]_vars

\* The clock, the loop, the handlers, and every holder of pollMu go on: a cycle
\* ends (CycleEnds of ResetPipeline) and an undo has its context.  Saves and
\* manual checks need not happen.
FairSpec ==
  /\ Spec /\ WF_vars(Tick) /\ WF_vars(LoopStep) /\ WF_vars(LockStep)
  /\ WF_vars(NotifyConfigChanged)

----------------------------------------------------------------------------
(* Properties.                                                             *)

\* The loop's delay is bounded by what the interval and its jitter allow, and
\* without a next poll nothing is left of one.
TypeOK ==
  /\ cfg \in Configs /\ saving \in 0..MaxSaving
  /\ wake \in BOOLEAN /\ silent \in BOOLEAN /\ floor \in Nat
  /\ loop \in [pc : {"read", "decide", "off", "wait", "due"}, seen : Configs,
               armed : BOOLEAN, left : Nat]
  /\ lock \in [by : {"nobody", "auto", "manual", "undo"},
               phase : {"none", "starting", "running"}]
  /\ lock.by = "nobody" <=> lock.phase = "none"
  /\ ~loop.armed => loop.left = 0

\* A saved configuration is never missed: whenever the loop goes by another
\* one, a message is in the channel or a handler is about to send one, unless
\* the save failed (Run, NotifyConfigChanged).
NoLostWake == At("read") \/ loop.seen = cfg \/ wake \/ saving > 0 \/ silent

\* "The configured interval remains the minimum delay" (jitteredPollDelay):
\* attempts are an interval apart unless a save or a switch came between.
IntervalKept == At("due") => floor = 0

\* The accounts of a cycle start one after the other, each in its own slot and
\* all within the span, or n units when the span has fewer ("keeping every
\* launch distinct", sourceLaunchSchedule).
LaunchesSpread ==
  \A n \in 1..5, manual \in BOOLEAN :
    LET span == LaunchSpan(n, cfg.interval, manual)
    IN \A i \in 0..(n - 1) : \A a \in LaunchDelays(i, n, span) :
         /\ a < n \/ a < span
         /\ \A j \in 0..(i - 1) : \A b \in LaunchDelays(j, n, span) : b < a

\* With monitoring on for good, no saves and no manual checks or undos, there
\* is always another automatic poll, whatever happened before.
PollsResume ==
  <>[](cfg.on /\ ~wake /\ saving = 0 /\ lock.by \notin {"manual", "undo"})
    => []<>(lock = [by |-> "auto", phase |-> "starting"])

\* Once nothing is saved any more the loop goes by what is stored, even when
\* the last save failed and woke nobody, and whoever holds pollMu.
LoopCatchesUp == \A c \in Configs : <>[](cfg = c) => <>[](loop.seen = c)

============================================================================
