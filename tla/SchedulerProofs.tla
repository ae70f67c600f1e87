-------------------------- MODULE SchedulerProofs --------------------------
(***************************************************************************)
(* Proofs about Scheduler, for every set of configurations, every length   *)
(* of the random delays and any number of handlers at once.                *)
(***************************************************************************)
EXTENDS Scheduler, Integers, TLAPS

(* Random delays.                                                          *)

LEMMA AtMostType ==
  ASSUME NEW n \in Nat, NEW max \in Nat
  PROVE  AtMost(n, max) \in Nat /\ AtMost(n, max) <= max /\ AtMost(n, max) <= n
BY DEF AtMost

\* A value below n is a natural number below n, or zero when there is none.
LEMMA BelowType ==
  ASSUME NEW n \in Nat, NEW r \in Below(n)
  PROVE  r \in Nat /\ (r = 0 \/ r < n)
BY DEF Below

LEMMA DivType ==
  ASSUME NEW n \in Nat, NEW d \in Nat \ {0}
  PROVE  n \div d \in Nat /\ d * (n \div d) <= n
OBVIOUS

LEMMA MulMono ==
  ASSUME NEW a \in Nat, NEW b \in Nat, NEW k \in Nat, a < b
  PROVE  a * k \in Nat /\ b * k \in Nat /\ a * k + k <= b * k
OBVIOUS

LEMMA IntervalType ==
  ASSUME NEW c \in Configs
  PROVE  c.on \in BOOLEAN /\ c.interval \in Nat \ {0}
BY SchedulerAssumption DEF Config

\* The configured interval is the minimum of a jittered delay.
LEMMA JitterAfter ==
  ASSUME NEW interval \in Nat, NEW d \in JitteredPollDelay(interval)
  PROVE  d \in Nat /\ interval <= d
<1>1. interval \div JitterDivisor \in Nat
  BY SchedulerAssumption, DivType
<1>2. AtMost(interval \div JitterDivisor, JitterMax) \in Nat
  BY <1>1, SchedulerAssumption, AtMostType
<1>3. PICK r \in Below(AtMost(interval \div JitterDivisor, JitterMax)) : d = interval + r
  BY DEF JitteredPollDelay
<1>4. r \in Nat
  BY <1>2, <1>3, BelowType
<1> QED
  BY <1>3, <1>4

LEMMA OffsetType ==
  ASSUME NEW interval \in Nat, NEW d \in InitialPollOffset(interval)
  PROVE  d \in Nat
<1>1. interval \div JitterDivisor \in Nat
  BY SchedulerAssumption, DivType
<1>2. AtMost(interval \div JitterDivisor, OffsetMax) \in Nat
  BY <1>1, SchedulerAssumption, AtMostType
<1> QED
  BY <1>2, BelowType DEF InitialPollOffset

----------------------------------------------------------------------------
(* Launches.                                                               *)

LEMMA LaunchSpanType ==
  ASSUME NEW n \in Nat \ {0}, NEW interval \in Nat, NEW manual \in BOOLEAN
  PROVE  LaunchSpan(n, interval, manual) \in Nat \ {0}
<1> DEFINE span == IF manual THEN AtMost(n * ManualStagger, ManualStaggerMax)
                   ELSE AtMost(interval \div 2, StaggerMax)
<1>1. n * ManualStagger \in Nat /\ interval \div 2 \in Nat
  BY SchedulerAssumption, DivType
<1>2. span \in Nat
  BY <1>1, SchedulerAssumption, AtMostType
<1>3. LaunchSpan(n, interval, manual) = IF span = 0 THEN n ELSE span
  BY DEF LaunchSpan
<1> HIDE DEF span
<1> QED
  BY <1>2, <1>3

\* A slot is at least one unit, and n slots of more than one fit the span.
LEMMA LaunchSlotType ==
  ASSUME NEW n \in Nat \ {0}, NEW span \in Nat
  PROVE  /\ LaunchSlot(n, span) \in Nat \ {0}
         /\ LaunchSlot(n, span) = 1 \/ n * LaunchSlot(n, span) <= span
BY DivType DEF LaunchSlot

\* A launch falls into its own slot.
LEMMA LaunchInSlot ==
  ASSUME NEW n \in Nat \ {0}, NEW span \in Nat, NEW i \in Nat,
         NEW a \in LaunchDelays(i, n, span)
  PROVE  /\ a \in Nat /\ i * LaunchSlot(n, span) <= a
         /\ a < i * LaunchSlot(n, span) + LaunchSlot(n, span)
<1> DEFINE slot == LaunchSlot(n, span)
<1>1. slot \in Nat \ {0}
  BY LaunchSlotType
<1>2. PICK r \in {0} \cup Below(slot \div 2) : a = i * slot + r
  BY DEF LaunchDelays
<1> HIDE DEF slot
<1>3. slot \div 2 \in Nat /\ 2 * (slot \div 2) <= slot
  BY <1>1, DivType
<1>4. r \in Nat /\ r < slot
  BY <1>1, <1>2, <1>3, BelowType
<1>5. i * slot \in Nat
  BY <1>1
<1> QED
  BY <1>1, <1>2, <1>4, <1>5 DEF slot

\* Any number of launches is spread, on any span: each within the span (or n
\* units), each after the one before.
LEMMA LaunchesOrdered ==
  ASSUME NEW n \in Nat \ {0}, NEW span \in Nat,
         NEW i \in 0..(n - 1), NEW a \in LaunchDelays(i, n, span)
  PROVE  /\ a < n \/ a < span
         /\ \A j \in 0..(i - 1) : \A b \in LaunchDelays(j, n, span) : b < a
<1> DEFINE slot == LaunchSlot(n, span)
<1>1. i \in Nat /\ i < n /\ slot \in Nat \ {0} /\ (slot = 1 \/ n * slot <= span)
  BY LaunchSlotType
<1>2. a \in Nat /\ i * slot <= a /\ a < i * slot + slot
  BY <1>1, LaunchInSlot
<1>3. ASSUME NEW j \in 0..(i - 1), NEW b \in LaunchDelays(j, n, span) PROVE b < a
  <2>1. j \in Nat /\ j < i
    BY <1>1
  <2>2. b \in Nat /\ b < j * slot + slot
    BY <2>1, LaunchInSlot
  <2> HIDE DEF slot
  <2>3. j * slot \in Nat /\ i * slot \in Nat /\ j * slot + slot <= i * slot
    BY <1>1, <2>1, MulMono
  <2> QED
    BY <1>1, <1>2, <2>2, <2>3
<1> HIDE DEF slot
<1>4. i * slot \in Nat /\ n * slot \in Nat /\ i * slot + slot <= n * slot
  BY <1>1, MulMono
<1>5. slot = 1 => n * slot = n
  BY <1>1
<1>6. a < n * slot
  BY <1>1, <1>2, <1>4
<1> QED
  BY <1>1, <1>2, <1>3, <1>4, <1>5, <1>6

----------------------------------------------------------------------------
(* The loop.                                                               *)

\* The inductive invariant: a next poll exists exactly while it is waited for,
\* and is never earlier than the interval of the last attempt allows.
LoopInv ==
  /\ TypeOK
  /\ loop.pc \in {"wait", "due"} => loop.armed
  /\ loop.pc = "due" => loop.left = 0
  /\ floor <= loop.left

\* What the loop's record may hold.
Loop == [pc : {"read", "decide", "off", "wait", "due"}, seen : Configs,
         armed : BOOLEAN, left : Nat]

\* A step of the loop, which leaves it with l, keeps the invariant when l keeps
\* the loop's part of it.
LEMMA LoopMoves ==
  ASSUME LoopInv, NEW l \in Loop, loop' = l,
         UNCHANGED <<cfg, saving, lock>>, wake' \in BOOLEAN, silent' \in BOOLEAN,
         l.pc \in {"wait", "due"} => l.armed = TRUE,
         l.pc = "due" => l.left = 0,
         l.armed = FALSE => l.left = 0,
         floor' \in Nat, floor' <= l.left
  PROVE  LoopInv'
BY DEF LoopInv, TypeOK, Loop

LEMMA InitLoop == ASSUME Init PROVE LoopInv /\ NoLostWake
<1>1. cfg \in Configs /\ loop = [pc |-> "read", seen |-> cfg, armed |-> FALSE, left |-> 0]
      /\ saving = 0 /\ wake = FALSE /\ lock = Free /\ silent = FALSE /\ floor = 0
  BY DEF Init
<1>2. lock.by = "nobody" /\ lock.phase = "none"
  BY <1>1 DEF Free
<1>3. wake \in BOOLEAN /\ silent \in BOOLEAN
  BY <1>1
<1>4. lock \in [by : {"nobody", "auto", "manual", "undo"},
               phase : {"none", "starting", "running"}]
  BY <1>1 DEF Free
<1>5. loop \in Loop /\ loop.left = 0 /\ loop.pc = "read"
  BY <1>1 DEF Loop
<1>6. saving \in 0..MaxSaving
  BY <1>1, SchedulerAssumption
<1>7. TypeOK
  BY <1>1, <1>2, <1>3, <1>4, <1>5, <1>6 DEF TypeOK, Loop
<1> QED
  BY <1>1, <1>5, <1>7 DEF LoopInv, NoLostWake, At

LEMMA SaveConfigStep ==
  ASSUME LoopInv, NEW c \in Configs, SaveConfig(c) PROVE LoopInv'
<1>1. cfg' = c /\ UNCHANGED <<wake, loop, lock, floor>>
  BY DEF SaveConfig
<1>2. saving' \in 0..MaxSaving
  <2>1. saving' = saving \/ (saving < MaxSaving /\ saving' = saving + 1)
    BY DEF SaveConfig
  <2> QED
    BY <2>1, SchedulerAssumption DEF LoopInv, TypeOK
<1>3. silent' \in BOOLEAN
  <2>1. silent' = silent \/ silent' = TRUE
    BY DEF SaveConfig
  <2> QED
    BY <2>1 DEF LoopInv, TypeOK
<1> QED
  BY <1>1, <1>2, <1>3 DEF LoopInv, TypeOK

LEMMA NotifyStep ==
  ASSUME LoopInv, NotifyConfigChanged PROVE LoopInv'
<1>1. saving' \in 0..MaxSaving
  BY SchedulerAssumption DEF NotifyConfigChanged, LoopInv, TypeOK
<1>2. wake' \in BOOLEAN /\ UNCHANGED <<cfg, loop, lock, silent, floor>>
  BY DEF NotifyConfigChanged
<1> QED
  BY <1>1, <1>2 DEF LoopInv, TypeOK

LEMMA DecideOnStep ==
  ASSUME LoopInv, DecideOn PROVE LoopInv'
<1>1. loop \in Loop /\ loop.seen.interval \in Nat
  BY IntervalType DEF LoopInv, TypeOK, Loop
<1>2. PICK left \in IF loop.armed THEN {loop.left} ELSE InitialPollOffset(loop.seen.interval) :
        loop' = [loop EXCEPT !.pc = IF left > 0 THEN "wait" ELSE "due",
                             !.armed = TRUE, !.left = left]
  BY DEF DecideOn
<1>3. left \in Nat /\ floor <= left /\ floor \in Nat
  BY <1>1, <1>2, OffsetType DEF LoopInv, TypeOK
<1>4. UNCHANGED <<cfg, saving, wake, lock, silent, floor>>
  BY DEF DecideOn
<1> DEFINE l == [loop EXCEPT !.pc = IF left > 0 THEN "wait" ELSE "due",
                             !.armed = TRUE, !.left = left]
<1>5. l \in Loop /\ l.armed = TRUE /\ l.left = left /\ (l.pc = "due" => left = 0)
  <2>1. CASE left > 0
    BY <1>1, <1>3, <2>1 DEF Loop
  <2>2. CASE left = 0
    BY <1>1, <1>3, <2>2 DEF Loop
  <2> QED
    BY <1>3, <2>1, <2>2
<1> HIDE DEF l
<1>6. wake' \in BOOLEAN /\ silent' \in BOOLEAN
  BY <1>4 DEF LoopInv, TypeOK
<1> QED
  BY <1>2, <1>3, <1>4, <1>5, <1>6, LoopMoves DEF l

LEMMA AttemptStep ==
  ASSUME LoopInv, Attempt PROVE LoopInv'
<1>1. loop \in Loop /\ loop.seen.interval \in Nat
  BY IntervalType DEF LoopInv, TypeOK, Loop
<1>2. PICK left \in JitteredPollDelay(loop.seen.interval) :
        loop' = [loop EXCEPT !.pc = "read", !.left = left]
  BY DEF Attempt
<1>3. left \in Nat /\ loop.seen.interval <= left
  BY <1>1, <1>2, JitterAfter
<1>4. floor' = loop.seen.interval /\ UNCHANGED <<cfg, saving, wake, silent>>
      /\ loop.pc = "due" /\ loop.armed
      /\ lock' = IF lock = Free THEN [by |-> "auto", phase |-> "starting"] ELSE lock
  BY DEF Attempt, At, LoopInv
<1> QED
  BY <1>1, <1>2, <1>3, <1>4 DEF LoopInv, TypeOK, Loop

\* The steps of the loop that draw no delay.
LEMMA PlainLoopStep ==
  ASSUME LoopInv, ReadConfig \/ DecideOff \/ WakeUp \/ OffTimer \/ PollTimer
  PROVE  LoopInv'
<1> USE DEF Loop
<1>1. loop \in Loop /\ wake \in BOOLEAN /\ silent \in BOOLEAN /\ floor \in Nat
      /\ cfg \in Configs /\ floor <= loop.left
  BY DEF LoopInv, TypeOK
<1>2. CASE ReadConfig
  BY <1>2 DEF LoopInv, TypeOK, ReadConfig, At
<1>3. CASE DecideOff
  <2> DEFINE l == [loop EXCEPT !.pc = "off", !.armed = FALSE, !.left = 0]
  <2>1. l \in Loop /\ l.pc = "off" /\ l.left = 0
    BY <1>1
  <2>2. loop' = l /\ floor' = 0 /\ UNCHANGED <<cfg, saving, wake, lock, silent>>
    BY <1>3 DEF DecideOff
  <2> HIDE DEF l
  <2>3. UNCHANGED <<cfg, saving, lock>> /\ wake' \in BOOLEAN /\ silent' \in BOOLEAN
    BY <1>1, <2>2
  <2>4. floor' \in Nat /\ floor' <= l.left
    BY <2>1, <2>2
  <2> QED
    BY <2>1, <2>2, <2>3, <2>4, LoopMoves
<1>4. CASE WakeUp
  <2> DEFINE l == [loop EXCEPT !.pc = "read", !.armed = FALSE, !.left = 0]
  <2>1. l \in Loop /\ l.pc = "read" /\ l.left = 0
    BY <1>1
  <2>2. loop' = l /\ floor' = 0 /\ wake' = FALSE /\ UNCHANGED <<cfg, saving, lock, silent>>
    BY <1>4 DEF WakeUp
  <2> HIDE DEF l
  <2>3. UNCHANGED <<cfg, saving, lock>> /\ wake' \in BOOLEAN /\ silent' \in BOOLEAN
    BY <1>1, <2>2
  <2>4. floor' \in Nat /\ floor' <= l.left
    BY <2>1, <2>2
  <2> QED
    BY <2>1, <2>2, <2>3, <2>4, LoopMoves
<1>5. CASE OffTimer
  BY <1>5 DEF LoopInv, TypeOK, OffTimer, At
<1>6. CASE PollTimer
  BY <1>6 DEF LoopInv, TypeOK, PollTimer, At
<1> QED
  BY <1>2, <1>3, <1>4, <1>5, <1>6

LEMMA LockHolderStep ==
  ASSUME LoopInv, LockStep \/ \E who \in {"manual", "undo"} : TryLock(who)
  PROVE  LoopInv' /\ UNCHANGED <<cfg, saving, wake, loop, silent, floor>>
<1>1. CASE \E who \in {"manual", "undo"} : TryLock(who)
  BY <1>1 DEF LoopInv, TypeOK, TryLock, Free
<1>2. CASE CycleStarts
  BY <1>2 DEF LoopInv, TypeOK, CycleStarts, Locked
<1>3. CASE CycleDisabled \/ Unlock
  BY <1>3 DEF LoopInv, TypeOK, CycleDisabled, Unlock, Locked, Free
<1> QED
  BY <1>1, <1>2, <1>3 DEF LockStep

LEMMA TickStep ==
  ASSUME LoopInv, Tick PROVE LoopInv'
BY DEF LoopInv, TypeOK, Tick

LEMMA LoopStepKeeps == ASSUME LoopInv, [Next]_vars PROVE LoopInv'
<1>1. CASE LoopStep
  BY <1>1, PlainLoopStep, DecideOnStep, AttemptStep DEF LoopStep
<1>2. CASE UNCHANGED vars
  BY <1>2 DEF LoopInv, TypeOK, vars
<1> QED
  BY <1>1, <1>2, TickStep, NotifyStep, LockHolderStep, SaveConfigStep DEF Next

\* The loop's delays are well formed and without a next poll none is left.
THEOREM SchedulerTypeCorrect == Spec => []TypeOK
<1>1. Init => LoopInv
  BY InitLoop
<1>2. LoopInv /\ [Next]_vars => LoopInv'
  BY LoopStepKeeps
<1>3. LoopInv => TypeOK
  BY DEF LoopInv
<1> QED
  BY <1>1, <1>2, <1>3, PTL DEF Spec

\* Automatic polls are at least the configured interval apart, whatever the
\* jitter, as long as no save and no switch comes between.
THEOREM IntervalIsMinimum == Spec => []IntervalKept
<1>1. Init => LoopInv
  BY InitLoop
<1>2. LoopInv /\ [Next]_vars => LoopInv'
  BY LoopStepKeeps
<1>3. LoopInv => IntervalKept
  BY DEF LoopInv, TypeOK, IntervalKept, At
<1> QED
  BY <1>1, <1>2, <1>3, PTL DEF Spec

----------------------------------------------------------------------------
(* The wake channel.                                                       *)

\* A handler that has saved is counted until it has sent, and a message sent
\* stays until the loop takes it, which then reads the configuration.
LEMMA NoLostWakeStep ==
  ASSUME LoopInv, NoLostWake, [Next]_vars PROVE NoLostWake'
<1> USE DEF NoLostWake
<1>1. ASSUME NEW c \in Configs, SaveConfig(c) PROVE NoLostWake'
  <2>1. CASE saving' = saving + 1
    BY <2>1 DEF LoopInv, TypeOK
  <2>2. CASE silent' = TRUE
    BY <2>2
  <2> QED
    BY <1>1, <2>1, <2>2 DEF SaveConfig
<1>2. CASE NotifyConfigChanged
  BY <1>2 DEF NotifyConfigChanged
<1>3. CASE ReadConfig
  BY <1>3 DEF ReadConfig, LoopInv, TypeOK
<1>4. CASE DecideOff
  BY <1>4 DEF DecideOff, At, LoopInv, TypeOK
<1>5. CASE DecideOn
  <2>1. loop'.seen = loop.seen
    BY <1>5 DEF DecideOn, LoopInv, TypeOK
  <2> QED
    BY <1>5, <2>1 DEF DecideOn, At
<1>6. CASE WakeUp \/ OffTimer \/ Attempt
  <2>1. loop'.pc = "read"
    BY <1>6 DEF WakeUp, OffTimer, Attempt, LoopInv, TypeOK
  <2> QED
    BY <2>1 DEF At
<1>7. CASE PollTimer
  BY <1>7 DEF PollTimer, At, LoopInv, TypeOK
<1>8. CASE LockStep \/ \E who \in {"manual", "undo"} : TryLock(who)
  BY <1>8, LockHolderStep DEF At
<1>9. CASE Tick
  BY <1>9 DEF Tick, At, LoopInv, TypeOK
<1>10. CASE UNCHANGED vars
  BY <1>10 DEF vars, At
<1> QED
  BY <1>1, <1>2, <1>3, <1>4, <1>5, <1>6, <1>7, <1>8, <1>9, <1>10 DEF Next, LoopStep

\* A saved configuration is never missed: as long as the loop goes by another
\* one, somebody is about to wake it.
THEOREM WakeNeverLost == Spec => []NoLostWake
<1>1. Init => LoopInv /\ NoLostWake
  BY InitLoop
<1>2. (LoopInv /\ NoLostWake) /\ [Next]_vars => (LoopInv /\ NoLostWake)'
  BY LoopStepKeeps, NoLostWakeStep
<1> QED
  BY <1>1, <1>2, PTL DEF Spec

\* The launches of a cycle keep their order and their span in every state; the
\* lemma LaunchesOrdered says it for any number of accounts.
THEOREM LaunchesInSlots == Spec => []LaunchesSpread
<1>1. TypeOK => LaunchesSpread
  <2> SUFFICES ASSUME TypeOK, NEW n \in 1..5, NEW manual \in BOOLEAN
               PROVE  LET span == LaunchSpan(n, cfg.interval, manual)
                      IN \A i \in 0..(n - 1) : \A a \in LaunchDelays(i, n, span) :
                           /\ a < n \/ a < span
                           /\ \A j \in 0..(i - 1) : \A b \in LaunchDelays(j, n, span) : b < a
    BY DEF LaunchesSpread
  <2>1. cfg.interval \in Nat /\ n \in Nat \ {0}
    BY IntervalType DEF TypeOK
  <2>2. LaunchSpan(n, cfg.interval, manual) \in Nat
    BY <2>1, LaunchSpanType
  <2> QED
    BY <2>1, <2>2, LaunchesOrdered
<1> QED
  BY <1>1, SchedulerTypeCorrect, PTL

=============================================================================
