----------------------------- MODULE Detection -----------------------------
(***************************************************************************)
(* How one upstream account is watched: Sub2API keeps a timestamped        *)
(* snapshot of the account's weekly window, a cache of its reset cards and *)
(* a log of its usage; the engine samples the three at different moments,  *)
(* stabilises the window boundary, classifies the sample against the       *)
(* saved account state and confirms a candidate with a second, forced      *)
(* observation (client.go PersistedWeeklyMetadata, engine.go               *)
(* readWeeklySample, stabilizeNativeWindow, classify, processSource).      *)
(*                                                                         *)
(* Time is counted in ticks of any length.  A request is one log entry and *)
(* the usage totals are the number of entries since the window's start.    *)
(* Fields that only the properties read are marked ghost.                  *)
(***************************************************************************)
EXTENDS Integers, FiniteSets

CONSTANTS
  Cards,       \* reset cards, identified by their expiry
  MaxIdent,    \* ChatGPT accounts, and plans, in order of use
  MayMiss,     \* fields of the credentials that may be missing when they are read
  Window,      \* length of the weekly window
  Tolerance,   \* nativeWindowDriftTolerance
  Grace,       \* NaturalGraceSeconds
  Reuse,       \* a younger snapshot is reused: the poll interval, at most MaxAge
  MaxAge,      \* MaxSampleAgeSeconds
  Delay,       \* ConfirmDelaySeconds
  Drift,       \* how far a reported reset time may be off
  MayGrant,    \* new cards may be granted
  MayPurge,    \* usage logs may be deleted
  MaxTime, MaxLogs,  \* bounds: the clock, the log
  MaxStaff, MaxTurns \* bounds: the official resets; cards used and accounts replaced

ASSUME DetectionAssumption ==
  /\ {Window, Tolerance, Grace, Reuse, MaxAge, Delay, Drift, MaxIdent,
      MaxTime, MaxLogs, MaxStaff, MaxTurns} \subseteq Nat
  /\ MayMiss \subseteq {"account", "plan"}
  /\ MayGrant \in BOOLEAN /\ MayPurge \in BOOLEAN
  /\ Window > 0 /\ MaxIdent > 0 /\ MaxTime > 0

Time == 1..MaxTime

\* What tells upstream accounts apart: chatgpt_account_id and plan_type.
Fields == {"account", "plan"}
Idents == [Fields -> 1..MaxIdent]

\* The window a snapshot shows, and (ghosts) the account's cards and identity
\* when it was taken.
Snapshot == [fetched : Time, resetAt : Int, begin : Time,
             cards : SUBSET Cards, ident : Idents]

\* The cache of cards: a count and details that agree, or not known.
Credits == [known : BOOLEAN, set : SUBSET Cards]
Unknown == [known |-> FALSE, set |-> {}]
Known(cs) == [known |-> TRUE, set |-> cs]

\* missing are the fields of ident that are read as empty.  Ghosts are begin, and
\* torn: the cards or the credentials are not those of the snapshot's moment.
Sample == [fetched : Time, resetAt : Int, usage : Nat, credits : Credits,
           ident : Idents, missing : SUBSET Fields, begin : Time, torn : BOOLEAN]

\* AccountState, of the sample saved last; fuse is LastConfirmedResetAt.
Account == [init : BOOLEAN, fetched : Nat, expected : Int, usage : Nat,
            credits : Credits, ident : Idents, missing : SUBSET Fields,
            fuse : Int, begin : Nat, torn : BOOLEAN]

VARIABLES
  now, begin,  \* the clock, and when the account's current window began
  staff,       \* when upstream staff reset the account
  turns,       \* ghost: when else a window was begun before its time
  logs,        \* when requests were logged
  blind,       \* ghost: when an entry was last deleted or a card granted, or 0
  cards, cache,\* the account's reset cards, and Sub2API's cache of them
  ident,       \* the upstream account behind the OAuth credentials
  snap,        \* the persisted weekly snapshot
  acct,        \* AccountState: the saved baseline and the fuse
  w,           \* the worker polling this account
  events       \* ghost: what was confirmed

upstream == <<begin, staff, turns, cards, ident>>
sub2api  == <<logs, blind, cache, snap>>
vars == <<now, begin, staff, turns, logs, blind, cards, cache, ident, snap, acct, w, events>>

----------------------------------------------------------------------------
(* Pure parts of a poll.                                                   *)

\* ReadAccountWindowTotals: everything logged since the window's start.
Totals(start) == Cardinality({t \in logs : t >= start})

Apart(a, b) == IF a >= b THEN a - b ELSE b - a

\* A field that either side does not have is taken as the same.
SameSource(prev, s) ==
  \A f \in Fields \ (prev.missing \cup s.missing) : prev.ident[f] = s.ident[f]

SameWindowIdentity(prev, s) == prev.init /\ SameSource(prev, s)

\* Mutant: the boundary is put back but the usage is not read again.
Stabilize_KeepsUsage(prev, s) ==
  IF SameWindowIdentity(prev, s) /\ s.resetAt # prev.expected
     /\ Apart(s.resetAt, prev.expected) <= Tolerance
  THEN [s EXCEPT !.resetAt = prev.expected, !.begin = prev.begin]
  ELSE s

\* stabilizeNativeWindow: a boundary that moved a little is the old boundary,
\* and the usage is read again from there.
Stabilize(prev, s) ==
  IF SameWindowIdentity(prev, s) /\ s.resetAt # prev.expected
     /\ Apart(s.resetAt, prev.expected) <= Tolerance
  THEN [s EXCEPT !.resetAt = prev.expected, !.usage = Totals(prev.expected - Window),
                 !.begin = prev.begin]
  ELSE s

\* Mutant: the cards are not compared.
CreditsKept_Any(old, new) == TRUE

\* creditExpirationsRetained and the count: no card seen before is missing.
CreditsKept(old, new) == old.set \subseteq new.set

\* Mutant: the expected natural reset is not excluded.
Classify_NoNatural(prev, s) ==
  IF ~prev.init THEN "baseline"
  ELSE IF s.fetched <= prev.fetched THEN "out_of_order"
  ELSE IF ~SameSource(prev, s) THEN "source_changed"
  ELSE IF s.usage >= prev.usage THEN "steady"
  ELSE IF ~(prev.credits.known /\ s.credits.known) THEN "credit_unknown"
  ELSE IF ~CreditsKept(prev.credits, s.credits) THEN "credit_changed"
  ELSE IF prev.fuse # 0 /\ Apart(prev.fuse, s.resetAt) <= Tolerance THEN "duplicate_reset"
  ELSE "candidate"

\* Mutant: the fuse is not consulted.
Classify_NoFuse(prev, s) ==
  IF ~prev.init THEN "baseline"
  ELSE IF s.fetched <= prev.fetched THEN "out_of_order"
  ELSE IF ~SameSource(prev, s) THEN "source_changed"
  ELSE IF s.fetched >= prev.expected - Grace THEN "natural_reset"
  ELSE IF s.usage >= prev.usage THEN "steady"
  ELSE IF ~(prev.credits.known /\ s.credits.known) THEN "credit_unknown"
  ELSE IF ~CreditsKept(prev.credits, s.credits) THEN "credit_changed"
  ELSE "candidate"

\* classify, in its order.
Classify(prev, s) ==
  IF ~prev.init THEN "baseline"
  ELSE IF s.fetched <= prev.fetched THEN "out_of_order"
  ELSE IF ~SameSource(prev, s) THEN "source_changed"
  ELSE IF s.fetched >= prev.expected - Grace THEN "natural_reset"
  ELSE IF s.usage >= prev.usage THEN "steady"
  ELSE IF ~(prev.credits.known /\ s.credits.known) THEN "credit_unknown"
  ELSE IF ~CreditsKept(prev.credits, s.credits) THEN "credit_changed"
  ELSE IF prev.fuse # 0 /\ Apart(prev.fuse, s.resetAt) <= Tolerance THEN "duplicate_reset"
  ELSE "candidate"

\* Mutant: the baseline is saved without marking it as one.
Saved_KeepsInit(prev, s) ==
  [init |-> prev.init, fetched |-> s.fetched, expected |-> s.resetAt, usage |-> s.usage,
   credits |-> s.credits, ident |-> s.ident, missing |-> s.missing,
   fuse |-> prev.fuse, begin |-> s.begin, torn |-> s.torn]

\* saveSample.
Saved(prev, s) ==
  [init |-> TRUE, fetched |-> s.fetched, expected |-> s.resetAt, usage |-> s.usage,
   credits |-> s.credits, ident |-> s.ident, missing |-> s.missing,
   fuse |-> prev.fuse, begin |-> s.begin, torn |-> s.torn]

----------------------------------------------------------------------------
NoWork == [pc |-> "idle"]

\* What a query of the account at this moment reports: its reset time, off
\* by the drift.
Report(d) == [fetched |-> now, resetAt |-> begin + Window + d, begin |-> begin,
              cards |-> cards, ident |-> ident]

Init ==
  /\ now = 1 /\ begin = 1 /\ staff = {} /\ turns = {} /\ logs = {} /\ blind = 0
  /\ cards \in SUBSET Cards /\ cache \in {Known(cards), Unknown}
  /\ ident = [f \in Fields |-> 1]
  /\ snap = Report(0)
  /\ acct = [init |-> FALSE, fetched |-> 0, expected |-> 0, usage |-> 0,
             credits |-> Unknown, ident |-> ident, missing |-> Fields,
             fuse |-> 0, begin |-> 0, torn |-> FALSE]
  /\ w = NoWork /\ events = {}

(* Upstream and Sub2API.                                                   *)

\* A step of the clock; a window that has run its length is followed by the
\* next one.
Tick ==
  /\ now < MaxTime /\ now' = now + 1
  /\ begin' = IF now' = begin + Window THEN now' ELSE begin
  /\ UNCHANGED <<staff, turns, logs, blind, cards, cache, ident, snap, acct, w, events>>

Request ==
  /\ now \notin logs /\ Cardinality(logs) < MaxLogs
  /\ logs' = logs \cup {now}
  /\ UNCHANGED <<now, begin, staff, turns, blind, cards, cache, ident, snap, acct, w, events>>

\* A retention job deletes the oldest entry.
Purge ==
  /\ MayPurge
  /\ \E t \in logs : (\A u \in logs : t <= u) /\ logs' = logs \ {t}
  /\ blind' = now
  /\ UNCHANGED <<now, begin, staff, turns, cards, cache, ident, snap, acct, w, events>>

\* Sub2API stores a new snapshot: after the forced query of a poll, or with
\* the account's own traffic.
Refresh ==
  /\ now > snap.fetched
  /\ \E d \in (0 - Drift)..Drift : snap' = Report(d)
  /\ UNCHANGED <<now, begin, staff, turns, logs, blind, cards, cache, ident, acct, w, events>>

OfficialReset ==
  /\ now > begin /\ Cardinality(staff) < MaxStaff
  /\ begin' = now /\ staff' = staff \cup {now}
  /\ UNCHANGED <<now, turns, logs, blind, cards, cache, ident, snap, acct, w, events>>

UseCard(c) ==
  /\ c \in cards /\ now > begin /\ Cardinality(turns) < MaxTurns
  /\ begin' = now /\ turns' = turns \cup {now} /\ cards' = cards \ {c}
  /\ UNCHANGED <<now, staff, sub2api, ident, acct, w, events>>

GrantCard(c) ==
  /\ MayGrant /\ c \notin cards
  /\ cards' = cards \cup {c}
  /\ blind' = now
  /\ UNCHANGED <<now, begin, staff, turns, ident, logs, cache, snap, acct, w, events>>

\* The administrator clicks the card counter: Sub2API saves the cards.
SaveCards ==
  /\ cache # Known(cards) /\ cache' = Known(cards)
  /\ UNCHANGED <<now, begin, staff, turns, logs, blind, cards, ident, snap, acct, w, events>>

\* The OAuth credentials are replaced, or the plan changes: another window.
\* A value that was left does not come back.
ChangeAccount ==
  /\ now > begin /\ Cardinality(turns) < MaxTurns
  /\ \E fs \in (SUBSET Fields) \ {{}} :
       /\ \A f \in fs : ident[f] < MaxIdent
       /\ ident' = [f \in Fields |-> IF f \in fs THEN ident[f] + 1 ELSE ident[f]]
  /\ begin' = now /\ turns' = turns \cup {now}
  /\ UNCHANGED <<now, staff, sub2api, cards, acct, w, events>>

----------------------------------------------------------------------------
(* The poll.  second is TRUE in the confirmation.                          *)

\* What is read of the account: the window of the snapshot's moment, with the
\* cards and the credentials, some of their fields missing, of this one.
Reading(miss) ==
  [fetched |-> snap.fetched, resetAt |-> snap.resetAt, usage |-> 0,
   credits |-> cache, ident |-> ident, missing |-> miss,
   begin |-> snap.begin, torn |-> cache.set # snap.cards \/ ident # snap.ident]

\* A snapshot young enough to be used as it is (usageSnapshotFresh).
Fresh == now - snap.fetched < Reuse

\* Mutant: the confirmation reuses a fresh snapshot too.
Ask_Cached(second, first) ==
  IF Fresh
  THEN \E miss \in SUBSET MayMiss :
         w' = [pc |-> "read", second |-> second, first |-> first, meta |-> Reading(miss)]
  ELSE w' = [pc |-> "asked", second |-> second, first |-> first, after |-> snap.fetched]

\* PersistedWeeklyMetadata: one read of the account settles it, or an upstream
\* query is forced.
Ask(second, first) ==
  IF ~second /\ Fresh
  THEN \E miss \in SUBSET MayMiss :
         w' = [pc |-> "read", second |-> second, first |-> first, meta |-> Reading(miss)]
  ELSE w' = [pc |-> "asked", second |-> second, first |-> first, after |-> snap.fetched]

Poll ==
  /\ w.pc = "idle" /\ now < MaxTime
  /\ Ask(FALSE, 0)
  /\ UNCHANGED <<now, upstream, sub2api, acct, events>>

\* A forced query must be seen to have been persisted: a snapshot newer than
\* the one found before (waitForPersistedUsageSnapshot).
ReadMetadata ==
  /\ w.pc = "asked" /\ snap.fetched > w.after
  /\ \E miss \in SUBSET MayMiss :
       w' = [pc |-> "read", second |-> w.second, first |-> w.first, meta |-> Reading(miss)]
  /\ UNCHANGED <<now, upstream, sub2api, acct, events>>

\* The sample of the metadata read and the usage logged by now.
CurrentSample ==
  Stabilize(acct, [w.meta EXCEPT !.usage = Totals(w.meta.resetAt - Window)])
SampleFresh == now - w.meta.fetched <= MaxAge

\* A sample that is no candidate becomes the new baseline, unless it is older
\* than the one saved.
Settle ==
  /\ w.pc = "read" /\ SampleFresh
  /\ LET d == Classify(acct, CurrentSample) IN
     /\ d # "candidate"
     /\ acct' = IF d = "out_of_order" THEN acct ELSE Saved(acct, CurrentSample)
  /\ w' = NoWork
  /\ UNCHANGED <<now, upstream, sub2api, events>>

Candidate ==
  /\ w.pc = "read" /\ ~w.second /\ SampleFresh
  /\ Classify(acct, CurrentSample) = "candidate"
  /\ w' = [pc |-> "waiting", since |-> now, first |-> w.meta.fetched]
  /\ UNCHANGED <<now, upstream, sub2api, acct, events>>

AskAgain ==
  /\ w.pc = "waiting" /\ now >= w.since + Delay
  /\ Ask(TRUE, w.first)
  /\ UNCHANGED <<now, upstream, sub2api, acct, events>>

\* The confirmed window goes into the fuse and the baseline together.
Confirm ==
  /\ w.pc = "read" /\ w.second /\ SampleFresh
  /\ Classify(acct, CurrentSample) = "candidate"
  /\ acct' = Saved([acct EXCEPT !.fuse = CurrentSample.resetAt], CurrentSample)
  /\ events' = events \cup
       {[base |-> acct.fetched, origin |-> acct.begin, first |-> w.first,
         at |-> w.meta.fetched, begin |-> CurrentSample.begin,
         torn |-> acct.torn \/ w.meta.torn,
         hidden |-> \E f \in acct.missing \cup w.meta.missing :
                      acct.ident[f] # w.meta.ident[f]]}
  /\ w' = NoWork
  /\ UNCHANGED <<now, upstream, sub2api>>

\* A query fails, the snapshot does not advance in time, the sample is too
\* old, or the cycle's deadline passes: recordSourceError keeps the baseline.
Fail ==
  /\ w.pc # "idle"
  /\ w' = NoWork
  /\ UNCHANGED <<now, upstream, sub2api, acct, events>>

Next ==
  \/ Tick \/ Request \/ Purge \/ Refresh \/ OfficialReset \/ SaveCards \/ ChangeAccount
  \/ \E c \in Cards : UseCard(c) \/ GrantCard(c)
  \/ Poll \/ ReadMetadata \/ Settle \/ Candidate \/ AskAgain \/ Confirm \/ Fail

Spec == Init /\ [][Next]_vars

----------------------------------------------------------------------------
(* Properties.                                                             *)

\* Every state is well formed; an account is initialised by its first sample.
TypeOK ==
  /\ now \in Time /\ begin \in Time
  /\ staff \subseteq Time /\ turns \subseteq Time /\ logs \subseteq Time
  /\ blind \in 0..MaxTime
  /\ cards \subseteq Cards /\ cache \in Credits /\ ident \in Idents
  /\ snap \in Snapshot
  /\ acct \in Account /\ (acct.init <=> acct.fetched > 0)
  /\ w.pc \in {"idle", "asked", "read", "waiting"}
  /\ w.pc = "read" => w.meta \in Sample

\* A confirmed event has an official reset behind it: upstream staff reset
\* the account after the window of the baseline began and before the
\* confirming observation.  Natural resets, used cards, changed accounts and
\* boundary drift never confirm.  Excepted are events
\*   since whose baseline a log entry was deleted or a card granted: usage falls
\*     with the log, and a card may be granted and used between two samples;
\*   with a torn sample: a cache of the cards, or a snapshot, older than what the
\*     rest of the sample shows;
\*   over an account replaced while the field that tells was missing on one side;
\*   soon after whose baseline's window began a card was used or the account
\*     replaced: near enough for the new boundary to be taken for the old one.
EventHasOfficialReset ==
  \A e \in events :
    \/ \E b \in staff : e.origin < b /\ b <= e.at
    \/ blind >= e.base \/ e.torn \/ e.hidden
    \/ \E b \in turns : e.origin < b /\ b <= e.origin + Tolerance + 2 * Drift

\* One window is confirmed at most once, even when logs disappear and the
\* usage of the same window drops again (the fuse in classify).
OneEventPerWindow ==
  \A e, f \in events : e.begin = f.begin => e = f

\* The comment on the confirmation: it is a distinct upstream observation,
\* later than the candidate's, which is later than the baseline's.
ConfirmDistinct == \A e \in events : e.base < e.first /\ e.first < e.at

\* Within one window the saved usage never decreases and its boundary never
\* moves, however the reported reset time drifts (stabilizeNativeWindow).
WindowUsageGrows ==
  [][acct.init /\ acct'.begin = acct.begin /\ SameSource(acct, acct') =>
       acct'.usage >= acct.usage /\ acct'.expected = acct.expected]_vars

============================================================================
