-------------------------- MODULE DetectionProofs --------------------------
(***************************************************************************)
(* Proofs about Detection, for every length of the window and of the       *)
(* delays, any number of cards, identities and log entries.                *)
(***************************************************************************)
EXTENDS Detection, FiniteSetTheorems, TLAPS

(* The parts of the invariant.                                             *)

\* What each stage of the worker holds.
WorkerOK ==
  \/ w = NoWork
  \/ w \in [pc : {"asked"}, second : BOOLEAN, first : Nat, after : Time]
  \/ w \in [pc : {"read"}, second : BOOLEAN, first : Nat, meta : Sample]
  \/ w \in [pc : {"waiting"}, since : Time, first : Nat]

EventType == [base : Nat, origin : Nat, first : Nat, at : Nat, begin : Nat,
              torn : BOOLEAN, hidden : BOOLEAN]

StateOK == TypeOK /\ WorkerOK /\ events \subseteq EventType

\* A boundary reported for the window that began at b.
Near(x, b) == Apart(x, b + Window) <= Drift

\* One identity is no later than another.
Older(i, j) == \A f \in Fields : i[f] <= j[f]

\* A record of the account (a baseline or a reading) is not ahead of the
\* snapshot.
Behind(p) == p.fetched <= snap.fetched /\ p.begin <= snap.begin /\ Older(p.ident, ident)

\* Windows and readings in the order they were seen: window, snapshot,
\* reading, baseline.
OrderInv ==
  /\ begin <= now /\ snap.fetched <= now /\ snap.begin <= begin
  /\ snap.begin <= snap.fetched /\ Older(snap.ident, ident)
  /\ Near(snap.resetAt, snap.begin)
  /\ Behind(acct) /\ (acct.init => Near(acct.expected, acct.begin))
  /\ w.pc = "read" => /\ Behind(w.meta) /\ Near(w.meta.resetAt, w.meta.begin)
                      /\ acct.begin <= w.meta.begin

\* A poll in its confirmation started from an observation newer than the
\* baseline, and what it reads is newer again.
StageInv ==
  /\ w.pc = "waiting" => acct.fetched < w.first /\ w.first <= snap.fetched
  /\ w.pc = "asked" /\ w.second => acct.fetched < w.first /\ w.first <= w.after
  /\ w.pc = "read" /\ w.second => acct.fetched < w.first /\ w.first < w.meta.fetched

\* The baseline's usage is still in the log.
UsageInv == (~MayPurge \/ blind < acct.fetched) => acct.usage <= Totals(acct.expected - Window)

\* The fuse is the boundary of a window no earlier than any confirmed one.
FuseInv ==
  events # {} => /\ acct.fuse # 0 /\ acct.init
                 /\ \E b \in 0..acct.begin : /\ Near(acct.fuse, b)
                                             /\ \A e \in events : e.begin <= b

\* A window that began at b, after one that began at a, began with a reset, a
\* card or another account, or when the earlier one had run out.
Begun(a, b) == b > a => b \in staff \cup turns \/ b >= a + Window

\* After the record p of an account, which shows its cards, what is seen at t of
\* the same account in a window that began later, before p's window runs out,
\* has a reset by staff since, or a card less, or one of the moments tn early in
\* p's window.
Explained(p, tn, bl, st, b, c, i, t) ==
  (/\ p.ident = i /\ bl < p.fetched /\ ~p.torn /\ p.credits.known
   /\ t < p.begin + Window /\ b > p.begin)
    => \/ \E x \in st : p.begin < x /\ x <= t
       \/ \E x \in tn : p.begin < x /\ x <= p.begin + Tolerance + 2 * Drift
       \/ ~(p.credits.set \subseteq c)

\* While no card is granted none is added to those p shows.
NoNewCards(p, bl, c) == bl < p.fetched /\ ~p.torn /\ p.credits.known => c \subseteq p.credits.set

\* The record p explains the account as it is, and the snapshot.
Explains(p, tn) ==
  /\ Explained(p, tn, blind, staff, begin, cards, ident, now)
  /\ Explained(p, tn, blind, staff, snap.begin, snap.cards, snap.ident, snap.fetched)
  /\ NoNewCards(p, blind, cards)

\* The snapshot as such a record.
Shown == [fetched |-> snap.fetched, begin |-> snap.begin, ident |-> snap.ident,
          credits |-> Known(snap.cards), torn |-> FALSE]

WindowsInv ==
  /\ Begun(snap.begin, begin)
  /\ acct.init => Begun(acct.begin, begin) /\ Begun(acct.begin, snap.begin)
  /\ w.pc = "read" =>
       /\ Begun(w.meta.begin, begin) /\ Begun(w.meta.begin, snap.begin)
       /\ acct.init => Begun(acct.begin, w.meta.begin)

ResetInv ==
  /\ blind <= now /\ WindowsInv
  /\ Explains(Shown, {})
  /\ acct.init => Explains(acct, turns)
  /\ w.pc = "read" =>
       /\ Explains(w.meta, {})
       /\ acct.init /\ ~w.meta.torn =>
            Explained(acct, turns, blind, staff, w.meta.begin, w.meta.credits.set,
                      w.meta.ident, w.meta.fetched)
----------------------------------------------------------------------------
(* Types.                                                                  *)

LEMMA ConstantTypes ==
  /\ Window \in Nat /\ Window > 0 /\ Tolerance \in Nat /\ Grace \in Nat /\ Drift \in Nat
  /\ MaxIdent \in Nat /\ MaxIdent > 0 /\ MaxTime \in Nat /\ MaxTime > 0 /\ MaxAge \in Nat /\ Reuse \in Nat /\ Delay \in Nat
BY DetectionAssumption

LEMMA ApartInt ==
  ASSUME NEW a \in Int, NEW b \in Int
  PROVE  Apart(a, b) \in Nat /\ Apart(a, b) = Apart(b, a)
BY DEF Apart

\* Counting log entries gives a number, and with more entries no smaller one.
LEMMA TotalsType ==
  ASSUME logs \subseteq Time, NEW x \in Int
  PROVE  Totals(x) \in Nat /\ IsFiniteSet({t \in logs : t >= x})
<1>1. IsFiniteSet(Time)
  BY ConstantTypes, FS_Interval DEF Time
<1>2. {t \in logs : t >= x} \subseteq Time
  OBVIOUS
<1>3. IsFiniteSet({t \in logs : t >= x})
  BY <1>1, <1>2, FS_Subset
<1> QED
  BY <1>3, FS_CardinalityType DEF Totals

LEMMA TotalsGrow ==
  ASSUME logs' \subseteq Time, logs \subseteq logs', NEW x \in Int
  PROVE  Totals(x) <= Totals(x)' /\ Totals(x) \in Nat /\ Totals(x)' \in Nat
<1>1. IsFiniteSet(Time)
  BY ConstantTypes, FS_Interval DEF Time
<1>2. {t \in logs : t >= x} \subseteq {t \in logs' : t >= x} /\ {t \in logs' : t >= x} \subseteq Time
  OBVIOUS
<1>3. IsFiniteSet({t \in logs' : t >= x})
  BY <1>1, <1>2, FS_Subset
<1>4. IsFiniteSet({t \in logs : t >= x})
  BY <1>2, <1>3, FS_Subset
<1>5. Cardinality({t \in logs : t >= x}) <= Cardinality({t \in logs' : t >= x})
  BY <1>2, <1>3, FS_Subset
<1> QED
  BY <1>3, <1>4, <1>5, FS_CardinalityType DEF Totals

LEMMA ReportType ==
  ASSUME TypeOK, NEW d \in (0 - Drift)..Drift
  PROVE  /\ Report(d) \in Snapshot
         /\ Report(d).fetched = now /\ Report(d).begin = begin
         /\ Report(d).cards = cards /\ Report(d).ident = ident
         /\ Near(Report(d).resetAt, begin)
<1>1. d \in Int /\ begin \in Int /\ begin + Window + d \in Int /\ begin + Window \in Int
  BY ConstantTypes DEF TypeOK, Time
<1>2. Report(d) = [fetched |-> now, resetAt |-> begin + Window + d, begin |-> begin,
                   cards |-> cards, ident |-> ident]
  BY DEF Report
<1>3. Apart(begin + Window + d, begin + Window) <= Drift
  BY <1>1, ConstantTypes DEF Apart
<1> QED
  BY <1>1, <1>2, <1>3 DEF TypeOK, Snapshot, Near

LEMMA ReadingType ==
  ASSUME TypeOK, NEW miss \in SUBSET Fields
  PROVE  /\ Reading(miss) \in Sample
         /\ Reading(miss).fetched = snap.fetched /\ Reading(miss).resetAt = snap.resetAt
         /\ Reading(miss).begin = snap.begin /\ Reading(miss).ident = ident
         /\ Reading(miss).credits = cache
         /\ ~Reading(miss).torn => cache.set = snap.cards /\ ident = snap.ident
<1> DEFINE b == cache.set # snap.cards \/ ident # snap.ident
<1>1. b \in BOOLEAN
  OBVIOUS
<1>4. Reading(miss).torn = b
  BY Zenon DEF Reading
<1>2. ~b => cache.set = snap.cards /\ ident = snap.ident
  OBVIOUS
<1>3. Reading(miss) = [fetched |-> snap.fetched, resetAt |-> snap.resetAt, usage |-> 0,
                       credits |-> cache, ident |-> ident, missing |-> miss,
                       begin |-> snap.begin, torn |-> b]
  BY DEF Reading
<1> HIDE DEF b
<1>5. Reading(miss) \in Sample
  BY <1>1, <1>3 DEF TypeOK, Sample, Snapshot
<1> QED
  BY <1>2, <1>3, <1>4, <1>5

\* The two shapes of the sample that is classified.
LEMMA CurrentSampleCases ==
  ASSUME TypeOK, w.meta \in Sample
  PROVE  /\ CurrentSample.usage \in Nat /\ CurrentSample.resetAt \in Int
         /\ CurrentSample.begin \in Nat
         /\ CurrentSample.fetched = w.meta.fetched /\ CurrentSample.ident = w.meta.ident
         /\ CurrentSample.credits = w.meta.credits /\ CurrentSample.missing = w.meta.missing
         /\ CurrentSample.torn = w.meta.torn
         /\ \/ /\ acct.init /\ SameSource(acct, w.meta)
               /\ w.meta.resetAt # acct.expected
               /\ Apart(w.meta.resetAt, acct.expected) <= Tolerance
               /\ CurrentSample.resetAt = acct.expected
               /\ CurrentSample.usage = Totals(acct.expected - Window)
               /\ CurrentSample.begin = acct.begin
            \/ /\ ~(/\ acct.init /\ SameSource(acct, w.meta)
                    /\ w.meta.resetAt # acct.expected
                    /\ Apart(w.meta.resetAt, acct.expected) <= Tolerance)
               /\ CurrentSample.resetAt = w.meta.resetAt
               /\ CurrentSample.usage = Totals(w.meta.resetAt - Window)
               /\ CurrentSample.begin = w.meta.begin
<1> DEFINE m == w.meta
           s == [m EXCEPT !.usage = Totals(m.resetAt - Window)]
           still == SameWindowIdentity(acct, s) /\ s.resetAt # acct.expected
                    /\ Apart(s.resetAt, acct.expected) <= Tolerance
<1>1. m \in Sample /\ m.resetAt \in Int /\ m.fetched \in Time /\ m.ident \in Idents
      /\ m.begin \in Time /\ m.credits \in Credits /\ m.missing \in SUBSET Fields
  BY DEF Sample
<1>2. acct.expected \in Int /\ acct.begin \in Nat
  BY DEF TypeOK, Account
<1>3. Totals(m.resetAt - Window) \in Nat /\ Totals(acct.expected - Window) \in Nat
  <2>1. m.resetAt - Window \in Int /\ acct.expected - Window \in Int
    BY <1>1, <1>2, ConstantTypes
  <2>2. logs \subseteq Time
    BY DEF TypeOK
  <2> HIDE DEF m
  <2> QED
    BY <2>1, <2>2, TotalsType
<1>4. s \in Sample /\ s.fetched = m.fetched /\ s.ident = m.ident /\ s.resetAt = m.resetAt
      /\ s.credits = m.credits /\ s.usage = Totals(m.resetAt - Window) /\ s.begin = m.begin
      /\ s.missing = m.missing
  BY <1>1, <1>3 DEF Sample
<1>11. s.torn = m.torn
  BY <1>1, Zenon DEF Sample
<1>5. CurrentSample = IF still THEN [s EXCEPT !.resetAt = acct.expected,
                                       !.usage = Totals(acct.expected - Window),
                                       !.begin = acct.begin] ELSE s
  BY DEF CurrentSample, Stabilize
<1>6. still <=> (acct.init /\ SameSource(acct, m) /\ m.resetAt # acct.expected
                 /\ Apart(m.resetAt, acct.expected) <= Tolerance)
  BY <1>4 DEF SameWindowIdentity, SameSource
<1>7. m.begin \in Nat /\ {s.resetAt, acct.expected} \subseteq Int
  BY <1>1, <1>2, <1>4 DEF Time
<1>8. still => LET r == [s EXCEPT !.resetAt = acct.expected,
                          !.usage = Totals(acct.expected - Window), !.begin = acct.begin]
               IN /\ r.fetched = s.fetched /\ r.ident = s.ident /\ r.credits = s.credits
                  /\ r.resetAt = acct.expected /\ r.begin = acct.begin
                  /\ r.missing = s.missing /\ r.torn = s.torn
                  /\ r.usage = Totals(acct.expected - Window)
  <2> DEFINE r == [s EXCEPT !.resetAt = acct.expected,
                       !.usage = Totals(acct.expected - Window), !.begin = acct.begin]
  <2> HIDE DEF still, s
  <2>1. /\ r.fetched = s.fetched /\ r.ident = s.ident /\ r.credits = s.credits
        /\ r.resetAt = acct.expected /\ r.begin = acct.begin /\ r.missing = s.missing
        /\ r.usage = Totals(acct.expected - Window)
    BY <1>4 DEF Sample
  <2>2. r.torn = s.torn
    BY <1>4, Zenon DEF Sample
  <2> QED
    BY <2>1, <2>2
<1>12. SameSource(acct, m) <=> SameSource(acct, w.meta)
  OBVIOUS
<1> HIDE DEF s, still
<1>13. CurrentSample.torn = w.meta.torn
  <2>1. CASE still
    BY <1>5, <1>8, <1>11, <2>1, Zenon
  <2>2. CASE ~still
    BY <1>5, <1>11, <2>2, Zenon
  <2> QED
    BY <2>1, <2>2
<1>9. CASE still
  BY <1>13, <1>1, <1>2, <1>3, <1>4, <1>5, <1>6, <1>7, <1>8, <1>9
<1>10. CASE ~still
  BY <1>13, <1>1, <1>2, <1>3, <1>4, <1>5, <1>6, <1>7, <1>10
<1> QED
  BY <1>9, <1>10
----------------------------------------------------------------------------
(* Steps of the account and of Sub2API, and steps of the poll.             *)

EnvStep ==
  \/ Tick \/ Request \/ Purge \/ Refresh \/ OfficialReset \/ SaveCards \/ ChangeAccount
  \/ \E c \in Cards : UseCard(c) \/ GrantCard(c)

PollStep == Poll \/ ReadMetadata \/ Settle \/ Candidate \/ AskAgain \/ Confirm \/ Fail

LEMMA NextSplit ==
  ASSUME [Next]_vars
  PROVE  EnvStep \/ PollStep \/ UNCHANGED vars
BY DEF Next, EnvStep, PollStep

LEMMA EnvFrame ==
  ASSUME EnvStep
  PROVE  UNCHANGED <<acct, w, events>>
BY DEF EnvStep, Tick, Request, Purge, Refresh, OfficialReset, SaveCards, ChangeAccount,
       UseCard, GrantCard, sub2api, upstream

LEMMA PollFrame ==
  ASSUME PollStep
  PROVE  UNCHANGED <<now, begin, staff, turns, logs, blind, cards, cache, ident, snap>>
BY DEF PollStep, Poll, ReadMetadata, Settle, Candidate, AskAgain, Confirm, Fail,
       sub2api, upstream

LEMMA EnvType ==
  ASSUME TypeOK, EnvStep
  PROVE  /\ now' \in Time /\ begin' \in Time /\ staff' \subseteq Time /\ turns' \subseteq Time
         /\ logs' \subseteq Time /\ blind' \in 0..MaxTime /\ cards' \subseteq Cards /\ cache' \in Credits
         /\ ident' \in Idents /\ snap' \in Snapshot
<1> USE DEF TypeOK
<1>1. now \in Time /\ now \in 0..MaxTime
  BY DEF Time
<1>2. CASE Tick
  BY <1>2, ConstantTypes DEF Tick, Time
<1>3. CASE Request
  BY <1>3 DEF Request
<1>4. CASE Purge
  BY <1>1, <1>4 DEF Purge
<1>5. CASE Refresh
  <2>1. PICK d \in (0 - Drift)..Drift : snap' = Report(d)
    BY <1>5 DEF Refresh
  <2>2. snap' \in Snapshot
    BY <2>1, ReportType
  <2> QED
    BY <2>2, <1>5 DEF Refresh
<1>6. CASE OfficialReset
  BY <1>1, <1>6 DEF OfficialReset
<1>7. CASE SaveCards
  <2>1. Known(cards) \in Credits
    BY DEF Known, Credits
  <2> QED
    BY <2>1, <1>7 DEF SaveCards
<1>8. CASE ChangeAccount
  <2>1. PICK fs \in SUBSET Fields :
          /\ \A f \in fs : ident[f] < MaxIdent
          /\ ident' = [f \in Fields |-> IF f \in fs THEN ident[f] + 1 ELSE ident[f]]
    BY <1>8 DEF ChangeAccount
  <2>2. \A f \in Fields : ident[f] \in 1..MaxIdent
    BY DEF Idents
  <2>3. \A f \in Fields : (IF f \in fs THEN ident[f] + 1 ELSE ident[f]) \in 1..MaxIdent
    BY <2>1, <2>2, ConstantTypes
  <2>4. ident' \in Idents
    BY <2>1, <2>3 DEF Idents
  <2>5. /\ begin' = now /\ turns' = turns \cup {now}
        /\ UNCHANGED <<now, staff, logs, blind, cache, snap, cards>>
    BY <1>8 DEF ChangeAccount, sub2api
  <2> QED
    BY <2>4, <2>5, <1>1
<1>9. ASSUME NEW c \in Cards, UseCard(c)
      PROVE  /\ now' \in Time /\ begin' \in Time /\ staff' \subseteq Time /\ turns' \subseteq Time
             /\ logs' \subseteq Time /\ blind' \in 0..MaxTime /\ cards' \subseteq Cards /\ cache' \in Credits
             /\ ident' \in Idents /\ snap' \in Snapshot
  <2>1. cards' \subseteq Cards
    BY <1>9 DEF UseCard
  <2> QED
    BY <2>1, <1>1, <1>9 DEF UseCard, sub2api
<1>10. ASSUME NEW c \in Cards, GrantCard(c)
       PROVE  /\ now' \in Time /\ begin' \in Time /\ staff' \subseteq Time /\ turns' \subseteq Time
              /\ logs' \subseteq Time /\ blind' \in 0..MaxTime /\ cards' \subseteq Cards /\ cache' \in Credits
              /\ ident' \in Idents /\ snap' \in Snapshot
  <2>1. cards' \subseteq Cards
    BY <1>10 DEF GrantCard
  <2> QED
    BY <2>1, <1>1, <1>10 DEF GrantCard
<1> QED
  BY <1>2, <1>3, <1>4, <1>5, <1>6, <1>7, <1>8, <1>9, <1>10 DEF EnvStep

LEMMA StageShape ==
  ASSUME WorkerOK
  PROVE  /\ w.pc = "read" => w.second \in BOOLEAN /\ w.first \in Nat /\ w.meta \in Sample
         /\ w.pc = "asked" => w.second \in BOOLEAN /\ w.first \in Nat /\ w.after \in Time
         /\ w.pc = "waiting" => w.since \in Time /\ w.first \in Nat
BY DEF WorkerOK, NoWork

\* An observation that was read, or asked for.
AsRead(second, first, miss) ==
  [pc |-> "read", second |-> second, first |-> first, meta |-> Reading(miss)]
AsAsked(second, first) == [pc |-> "asked", second |-> second, first |-> first,
                           after |-> snap.fetched]
Reads(second, first) == \E miss \in SUBSET Fields : w' = AsRead(second, first, miss)

LEMMA AskCases ==
  ASSUME NEW second \in BOOLEAN, NEW first, Ask(second, first)
  PROVE  (~second /\ Reads(second, first)) \/ w' = AsAsked(second, first)
BY DetectionAssumption DEF Ask, AsRead, AsAsked, Reads, Fields

LEMMA ReadWorker ==
  ASSUME TypeOK, NEW second \in BOOLEAN, NEW first \in Nat, NEW miss \in SUBSET Fields
  PROVE  AsRead(second, first, miss)
           \in [pc : {"read"}, second : BOOLEAN, first : Nat, meta : Sample]
BY ReadingType DEF AsRead

LEMMA AskedWorker ==
  ASSUME TypeOK, NEW second \in BOOLEAN, NEW first \in Nat
  PROVE  AsAsked(second, first) \in [pc : {"asked"}, second : BOOLEAN, first : Nat, after : Time]
<1>1. snap.fetched \in Time
  BY DEF TypeOK, Snapshot
<1> QED
  BY <1>1 DEF AsAsked

\* What is saved of a sample.
LEMMA SavedFields ==
  ASSUME TypeOK, w.meta \in Sample
  PROVE  LET a == Saved(acct, CurrentSample) IN
         /\ a \in Account /\ a.init /\ a.fetched = w.meta.fetched
         /\ a.expected = CurrentSample.resetAt /\ a.usage = CurrentSample.usage
         /\ a.credits = w.meta.credits /\ a.ident = w.meta.ident
         /\ a.missing = w.meta.missing /\ a.torn = w.meta.torn
         /\ a.begin = CurrentSample.begin /\ a.fuse = acct.fuse
<1>1. /\ CurrentSample.usage \in Nat /\ CurrentSample.resetAt \in Int
      /\ CurrentSample.begin \in Nat
      /\ CurrentSample.fetched = w.meta.fetched /\ CurrentSample.ident = w.meta.ident
      /\ CurrentSample.credits = w.meta.credits /\ CurrentSample.missing = w.meta.missing
  BY CurrentSampleCases
<1>7. CurrentSample.torn = w.meta.torn
  BY CurrentSampleCases
<1>2. w.meta.fetched \in Nat /\ w.meta.ident \in Idents /\ w.meta.credits \in Credits
      /\ w.meta.missing \in SUBSET Fields
  BY DEF Sample, Time
<1>8. w.meta.torn \in BOOLEAN
  BY DEF Sample
<1>3. acct.fuse \in Int
  BY DEF TypeOK, Account
<1> DEFINE a == Saved(acct, CurrentSample)
<1>4. a = [init |-> TRUE, fetched |-> w.meta.fetched, expected |-> CurrentSample.resetAt,
           usage |-> CurrentSample.usage, credits |-> w.meta.credits, ident |-> w.meta.ident,
           missing |-> w.meta.missing, fuse |-> acct.fuse, begin |-> CurrentSample.begin,
           torn |-> w.meta.torn]
  BY <1>1, <1>7 DEF Saved
<1> HIDE DEF a
<1>5. a \in Account
  BY <1>1, <1>2, <1>3, <1>4, <1>8 DEF Account
<1>6. a.init
  BY <1>4
<1>9. a.torn = w.meta.torn
  BY <1>4, Zenon
<1> QED
  BY <1>4, <1>5, <1>6, <1>9 DEF a

LEMMA ConfirmedFields ==
  ASSUME TypeOK, w.meta \in Sample
  PROVE  LET a == Saved([acct EXCEPT !.fuse = CurrentSample.resetAt], CurrentSample) IN
         /\ a \in Account /\ a.init /\ a.fetched = w.meta.fetched
         /\ a.expected = CurrentSample.resetAt /\ a.usage = CurrentSample.usage
         /\ a.credits = w.meta.credits /\ a.ident = w.meta.ident
         /\ a.missing = w.meta.missing /\ a.torn = w.meta.torn
         /\ a.begin = CurrentSample.begin /\ a.fuse = CurrentSample.resetAt
<1>1. /\ CurrentSample.usage \in Nat /\ CurrentSample.resetAt \in Int
      /\ CurrentSample.begin \in Nat
      /\ CurrentSample.fetched = w.meta.fetched /\ CurrentSample.ident = w.meta.ident
      /\ CurrentSample.credits = w.meta.credits /\ CurrentSample.missing = w.meta.missing
  BY CurrentSampleCases
<1>7. CurrentSample.torn = w.meta.torn
  BY CurrentSampleCases
<1>2. w.meta.fetched \in Nat /\ w.meta.ident \in Idents /\ w.meta.credits \in Credits
      /\ w.meta.missing \in SUBSET Fields
  BY DEF Sample, Time
<1>8. w.meta.torn \in BOOLEAN
  BY DEF Sample
<1> DEFINE p == [acct EXCEPT !.fuse = CurrentSample.resetAt]
<1>3. p.fuse = CurrentSample.resetAt
  BY DEF TypeOK, Account
<1> HIDE DEF p
<1> DEFINE a == Saved(p, CurrentSample)
<1>4. a = [init |-> TRUE, fetched |-> w.meta.fetched, expected |-> CurrentSample.resetAt,
           usage |-> CurrentSample.usage, credits |-> w.meta.credits, ident |-> w.meta.ident,
           missing |-> w.meta.missing, fuse |-> CurrentSample.resetAt,
           begin |-> CurrentSample.begin, torn |-> w.meta.torn]
  BY <1>1, <1>3, <1>7 DEF Saved
<1> HIDE DEF a
<1>5. a \in Account
  BY <1>1, <1>2, <1>4, <1>8 DEF Account
<1>6. a.init
  BY <1>4
<1>9. a.torn = w.meta.torn
  BY <1>4, Zenon
<1> QED
  BY <1>4, <1>5, <1>6, <1>9 DEF a, p

\* A step of the poll: where the worker goes, and what becomes of the
\* baseline.
LEMMA PollCases ==
  ASSUME TypeOK, WorkerOK, PollStep
  PROVE  \/ /\ w.pc = "idle" /\ UNCHANGED <<acct, events>>
            /\ (Reads(FALSE, 0) \/ w' = AsAsked(FALSE, 0))
         \/ /\ w.pc = "asked" /\ snap.fetched > w.after /\ UNCHANGED <<acct, events>>
            /\ Reads(w.second, w.first)
         \/ /\ w.pc = "read" /\ w' = NoWork /\ UNCHANGED events
            /\ Classify(acct, CurrentSample) # "candidate"
            /\ \/ UNCHANGED acct
               \/ Classify(acct, CurrentSample) # "out_of_order" /\
                  acct' = Saved(acct, CurrentSample)
         \/ /\ w.pc = "read" /\ UNCHANGED <<acct, events>>
            /\ Classify(acct, CurrentSample) = "candidate"
            /\ w' = [pc |-> "waiting", since |-> now, first |-> w.meta.fetched]
         \/ /\ w.pc = "waiting" /\ UNCHANGED <<acct, events>> /\ w' = AsAsked(TRUE, w.first)
         \/ Confirm
         \/ w' = NoWork /\ UNCHANGED <<acct, events>>
<1>1. CASE Poll
  BY <1>1, AskCases DEF Poll
<1>2. CASE ReadMetadata
  BY <1>2, DetectionAssumption DEF ReadMetadata, AsRead, Reads, Fields
<1>3. CASE Settle
  BY <1>3 DEF Settle
<1>4. CASE Candidate
  BY <1>4 DEF Candidate
<1>5. CASE AskAgain
  <2>1. Ask(TRUE, w.first)
    BY <1>5 DEF AskAgain
  <2>2. w' = AsAsked(TRUE, w.first)
    BY <2>1, AskCases
  <2> QED
    BY <2>2, <1>5 DEF AskAgain
<1>6. CASE Confirm
  BY <1>6
<1>7. CASE Fail
  BY <1>7 DEF Fail
<1> QED
  BY <1>1, <1>2, <1>3, <1>4, <1>5, <1>6, <1>7 DEF PollStep

\* What the classification has excluded when it answers.
LEMMA CandidateMeans ==
  ASSUME NEW p, NEW s, Classify(p, s) = "candidate"
  PROVE  /\ p.init /\ ~(s.fetched <= p.fetched) /\ SameSource(p, s)
         /\ ~(s.fetched >= p.expected - Grace) /\ ~(s.usage >= p.usage)
         /\ p.credits.known /\ s.credits.known /\ CreditsKept(p.credits, s.credits)
         /\ ~(p.fuse # 0 /\ Apart(p.fuse, s.resetAt) <= Tolerance)
<1>1. p.init
  BY DEF Classify
<1>2. ~(s.fetched <= p.fetched)
  BY <1>1 DEF Classify
<1>3. SameSource(p, s)
  BY <1>1, <1>2 DEF Classify
<1>4. ~(s.fetched >= p.expected - Grace)
  BY <1>1, <1>2, <1>3 DEF Classify
<1>5. ~(s.usage >= p.usage)
  BY <1>1, <1>2, <1>3, <1>4 DEF Classify
<1>6. p.credits.known /\ s.credits.known
  BY <1>1, <1>2, <1>3, <1>4, <1>5 DEF Classify
<1>7. CreditsKept(p.credits, s.credits)
  BY <1>1, <1>2, <1>3, <1>4, <1>5, <1>6 DEF Classify
<1>8. ~(p.fuse # 0 /\ Apart(p.fuse, s.resetAt) <= Tolerance)
  BY <1>1, <1>2, <1>3, <1>4, <1>5, <1>6, <1>7 DEF Classify
<1> QED
  BY <1>1, <1>2, <1>3, <1>4, <1>5, <1>6, <1>7, <1>8

LEMMA InOrderMeans ==
  ASSUME NEW p, NEW s, Classify(p, s) # "out_of_order", p.init
  PROVE  ~(s.fetched <= p.fetched)
BY DEF Classify

\* The confirmed event.
Hidden == \E f \in acct.missing \cup w.meta.missing : acct.ident[f] # w.meta.ident[f]
Confirmed == [base |-> acct.fetched, origin |-> acct.begin, first |-> w.first,
              at |-> w.meta.fetched, begin |-> CurrentSample.begin,
              torn |-> acct.torn \/ w.meta.torn, hidden |-> Hidden]

LEMMA ConfirmCases ==
  ASSUME Confirm
  PROVE  /\ w.pc = "read" /\ w.second /\ Classify(acct, CurrentSample) = "candidate"
         /\ acct' = Saved([acct EXCEPT !.fuse = CurrentSample.resetAt], CurrentSample)
         /\ events' = events \cup {Confirmed} /\ w' = NoWork
BY DEF Confirm, Confirmed, Hidden

----------------------------------------------------------------------------
(* Type correctness.                                                       *)

LEMMA InitType == Init => StateOK
<1> SUFFICES ASSUME Init PROVE StateOK
  OBVIOUS
<1> USE DEF Init
<1>1. cache \in Credits
  <2>1. cards \in SUBSET Cards
    OBVIOUS
  <2>2. Known(cards) \in Credits /\ Unknown \in Credits
    BY <2>1 DEF Known, Unknown, Credits
  <2> QED
    BY <2>2
<1>2. acct \in Account
  <2>1. Unknown \in Credits /\ ident \in Idents
    BY ConstantTypes DEF Unknown, Credits, Idents
  <2> QED
    BY <2>1 DEF Account
<1>3. acct.init <=> acct.fetched > 0
  BY SMT
<1>4. snap \in Snapshot /\ 1 \in Time /\ 0 \in 0..MaxTime /\ ident \in Idents
  BY ConstantTypes DEF Report, Snapshot, Time, Idents
<1>5. w.pc = "idle"
  BY DEF NoWork
<1> QED
  BY <1>1, <1>2, <1>3, <1>4, <1>5 DEF StateOK, TypeOK, WorkerOK

LEMMA NextType ==
  ASSUME StateOK, [Next]_vars
  PROVE  StateOK'
<1> USE DEF StateOK
<1>1. CASE UNCHANGED vars
  BY <1>1 DEF vars, TypeOK, WorkerOK
<1>2. CASE EnvStep
  BY <1>2, EnvType, EnvFrame DEF TypeOK, WorkerOK
<1>3. CASE PollStep
  <2>1. UNCHANGED <<now, begin, staff, turns, logs, blind, cards, cache, ident, snap>>
    BY <1>3, PollFrame
  <2>2. SUFFICES /\ acct' \in Account /\ (acct'.init <=> acct'.fetched > 0)
                 /\ WorkerOK' /\ events' \subseteq EventType
    <3>1. WorkerOK' => /\ w'.pc \in {"idle", "asked", "read", "waiting"}
                       /\ w'.pc = "read" => w'.meta \in Sample
      BY DEF WorkerOK, NoWork
    <3> QED
      BY <2>1, <2>2, <3>1 DEF TypeOK
  <2>3. w' = NoWork => WorkerOK'
    BY DEF WorkerOK
  <2>4. ASSUME NEW s \in BOOLEAN, NEW f \in Nat, Reads(s, f) \/ w' = AsAsked(s, f)
        PROVE  WorkerOK'
    <3>1. CASE Reads(s, f)
      <4>1. w' \in [pc : {"read"}, second : BOOLEAN, first : Nat, meta : Sample]
        BY <3>1, ReadWorker DEF Reads
      <4> QED
        BY <4>1 DEF WorkerOK
    <3>2. CASE w' = AsAsked(s, f)
      <4>1. w' \in [pc : {"asked"}, second : BOOLEAN, first : Nat, after : Time]
        BY <3>2, AskedWorker
      <4> QED
        BY <4>1 DEF WorkerOK
    <3> QED
      BY <2>4, <3>1, <3>2
  <2>5. acct \in Account /\ (acct.init <=> acct.fetched > 0) /\ acct.fetched \in Nat
        /\ acct.begin \in Nat
    BY DEF TypeOK, Account
  <2>6. CASE w.pc = "read"
    <3>1. w.second \in BOOLEAN /\ w.first \in Nat /\ w.meta \in Sample
      BY <2>6, StageShape
    <3>2. w.meta.fetched \in Nat /\ w.meta.fetched > 0 /\ CurrentSample.begin \in Nat
      BY <3>1, CurrentSampleCases DEF Sample, Time
    <3>3. acct' = Saved(acct, CurrentSample) =>
            acct' \in Account /\ (acct'.init <=> acct'.fetched > 0)
      BY <3>1, <3>2, SavedFields
    <3>4. CASE Confirm
      <4>1. acct' \in Account /\ (acct'.init <=> acct'.fetched > 0)
        BY <3>1, <3>2, <3>4, ConfirmCases, ConfirmedFields
      <4>2. Confirmed \in EventType
        <5> DEFINE b == acct.torn \/ w.meta.torn
        <5>1. b \in BOOLEAN /\ Hidden \in BOOLEAN
          BY DEF Hidden
        <5>2. Confirmed = [base |-> acct.fetched, origin |-> acct.begin, first |-> w.first,
                           at |-> w.meta.fetched, begin |-> CurrentSample.begin,
                           torn |-> b, hidden |-> Hidden]
          BY DEF Confirmed
        <5> HIDE DEF b
        <5> QED
          BY <2>5, <3>1, <3>2, <5>1, <5>2 DEF EventType
      <4> QED
        BY <4>1, <4>2, <2>3, <3>4, ConfirmCases
    <3>5. w' = [pc |-> "waiting", since |-> now, first |-> w.meta.fetched] => WorkerOK'
      BY <3>2 DEF WorkerOK, TypeOK
    <3> QED
      BY <2>3, <2>5, <2>6, <3>3, <3>4, <3>5, <1>3, PollCases
  <2>7. CASE w.pc # "read"
    <3>1. /\ UNCHANGED <<acct, events>>
          /\ \/ Reads(FALSE, 0) \/ w' = AsAsked(FALSE, 0) \/ w' = NoWork
             \/ w.pc = "asked" /\ Reads(w.second, w.first)
             \/ w.pc = "waiting" /\ w' = AsAsked(TRUE, w.first)
      BY <1>3, <2>7, PollCases, ConfirmCases
    <3>2. WorkerOK'
      <4>1. w.pc = "asked" => w.second \in BOOLEAN /\ w.first \in Nat
        BY StageShape
      <4>2. w.pc = "waiting" => w.first \in Nat
        BY StageShape
      <4> QED
        BY <2>3, <2>4, <3>1, <4>1, <4>2
    <3> QED
      BY <2>5, <3>1, <3>2
  <2> QED
    BY <2>6, <2>7
<1> QED
  BY <1>1, <1>2, <1>3, NextSplit

\* Every state is well formed, whatever the account reports and whenever the
\* poll is interrupted; an account is initialised by its first sample.
THEOREM DetectionTypeCorrect == Spec => []TypeOK
<1>1. Init => StateOK
  BY InitType
<1>2. StateOK /\ [Next]_vars => StateOK'
  BY NextType
<1>3. StateOK => TypeOK
  BY DEF StateOK
<1> QED
  BY <1>1, <1>2, <1>3, PTL DEF Spec
----------------------------------------------------------------------------
(* The order of windows, snapshots, readings and baselines.                *)

SnapOrder ==
  /\ begin <= now /\ snap.fetched <= now /\ snap.begin <= begin
  /\ snap.begin <= snap.fetched /\ Older(snap.ident, ident)
  /\ Near(snap.resetAt, snap.begin)

LEMMA OlderTransitive ==
  ASSUME NEW i \in Idents, NEW j \in Idents, NEW k \in Idents, Older(i, j), Older(j, k)
  PROVE  Older(i, k)
<1> SUFFICES ASSUME NEW f \in Fields PROVE i[f] <= k[f]
  BY DEF Older
<1>1. i[f] \in Int /\ j[f] \in Int /\ k[f] \in Int
  BY ConstantTypes DEF Idents
<1>2. i[f] <= j[f] /\ j[f] <= k[f]
  BY DEF Older
<1> QED
  BY <1>1, <1>2

LEMMA OlderReflexive == ASSUME NEW i \in Idents PROVE Older(i, i)
BY ConstantTypes DEF Older, Idents

\* An account that is replaced has a later identity.
LEMMA ChangeOlder ==
  ASSUME TypeOK, ChangeAccount
  PROVE  Older(ident, ident') /\ \A i \in Idents : Older(i, ident) => i # ident'
<1>1. PICK fs \in (SUBSET Fields) \ {{}} :
        ident' = [f \in Fields |-> IF f \in fs THEN ident[f] + 1 ELSE ident[f]]
  BY DEF ChangeAccount
<1>2. \A i \in Idents : \A f \in Fields : i[f] \in Int
  BY ConstantTypes DEF Idents
<1>3. ident \in Idents
  BY DEF TypeOK
<1>4. Older(ident, ident')
  BY <1>1, <1>2, <1>3 DEF Older
<1>5. PICK f \in Fields : f \in fs
  OBVIOUS
<1>6. ident'[f] = ident[f] + 1
  BY <1>1, <1>5
<1>7. ASSUME NEW i \in Idents, Older(i, ident) PROVE i # ident'
  <2>1. i[f] <= ident[f] /\ i[f] \in Int /\ ident[f] \in Int
    BY <1>2, <1>3, <1>7 DEF Older
  <2> QED
    BY <1>6, <2>1
<1> QED
  BY <1>4, <1>7

LEMMA EnvOrder ==
  ASSUME TypeOK, SnapOrder, EnvStep
  PROVE  /\ SnapOrder'
         /\ snap.fetched <= snap'.fetched /\ snap.begin <= snap'.begin /\ Older(ident, ident')
         /\ now <= now'
<1>1. /\ now \in Int /\ begin \in Int /\ snap.fetched \in Int /\ snap.begin \in Int
      /\ ident \in Idents /\ snap.ident \in Idents
  BY DEF TypeOK, Snapshot, Time
<1>2. now' \in Int /\ begin' \in Int /\ ident' \in Idents
  BY EnvType DEF Time
<1>3. Older(ident, ident)
  BY <1>1, OlderReflexive
<1> DEFINE Q == /\ begin' <= now' /\ snap'.fetched <= now' /\ snap'.begin <= begin'
                /\ snap'.begin <= snap'.fetched /\ Older(snap'.ident, ident')
                /\ Near(snap'.resetAt, snap'.begin)
                /\ snap.fetched <= snap'.fetched /\ snap.begin <= snap'.begin
                /\ Older(ident, ident') /\ now <= now'
<1>4. ASSUME snap' = snap, now <= now', begin <= begin', begin' <= now', Older(ident, ident')
      PROVE  Q
  <2>1. Older(snap'.ident, ident')
    BY <1>1, <1>2, <1>4, OlderTransitive DEF SnapOrder
  <2> QED
    BY <1>1, <1>2, <1>4, <2>1 DEF SnapOrder
<1> SUFFICES Q
  BY DEF Q, SnapOrder
<1> HIDE DEF Q
<1>6. CASE Tick
  <2>1. ident' = ident /\ snap' = snap /\ now' = now + 1
        /\ (begin' = begin \/ begin' = now')
    BY <1>6 DEF Tick
  <2> QED
    BY <1>1, <1>3, <1>4, <2>1 DEF SnapOrder
<1>7. CASE Request \/ Purge \/ SaveCards
  <2>1. UNCHANGED <<now, begin, ident, snap>>
    BY <1>7 DEF Request, Purge, SaveCards
  <2> QED
    BY <1>1, <1>3, <1>4, <2>1 DEF SnapOrder
<1>8. CASE Refresh
  <2>1. PICK d \in (0 - Drift)..Drift : snap' = Report(d)
    BY <1>8 DEF Refresh
  <2>2. now' = now /\ begin' = begin /\ ident' = ident
    BY <1>8 DEF Refresh
  <2>3. /\ snap'.fetched = now /\ snap'.begin = begin /\ snap'.ident = ident
        /\ Near(snap'.resetAt, begin)
    BY <2>1, ReportType
  <2> QED
    BY <1>1, <1>3, <2>2, <2>3 DEF Q, SnapOrder
<1>9. CASE OfficialReset
  <2>1. now > begin /\ begin' = now /\ now' = now /\ ident' = ident /\ snap' = snap
    BY <1>9 DEF OfficialReset
  <2>2. now <= now' /\ begin <= begin' /\ begin' <= now' /\ Older(ident, ident')
    BY <2>1, <1>1, <1>3
  <2> QED
    BY <2>1, <2>2, <1>4
<1>10. CASE ChangeAccount
  <2>1. now > begin /\ begin' = now /\ now' = now /\ snap' = snap
    BY <1>10 DEF ChangeAccount, sub2api
  <2>2. Older(ident, ident')
    BY <1>10, ChangeOlder
  <2> QED
    BY <1>1, <1>4, <2>1, <2>2
<1>11. ASSUME NEW c \in Cards, UseCard(c) PROVE Q
  <2>1. now > begin /\ begin' = now /\ now' = now /\ snap' = snap /\ ident' = ident
    BY <1>11 DEF UseCard, sub2api
  <2> QED
    BY <1>1, <1>3, <1>4, <2>1
<1>12. ASSUME NEW c \in Cards, GrantCard(c) PROVE Q
  <2>1. UNCHANGED <<now, begin, ident, snap>>
    BY <1>12 DEF GrantCard
  <2> QED
    BY <1>1, <1>3, <1>4, <2>1 DEF SnapOrder
<1>13. CASE \E c \in Cards : UseCard(c) \/ GrantCard(c)
  BY <1>11, <1>12, <1>13, Zenon
<1> QED
  BY <1>6, <1>7, <1>8, <1>9, <1>10, <1>13, Zenon DEF EnvStep

\* A saved sample: no newer than the reading, no older than the baseline, and
\* its boundary belongs to its window.
LEMMA SampleOrder ==
  ASSUME StateOK, OrderInv, w.pc = "read"
  PROVE  /\ acct.begin <= CurrentSample.begin /\ CurrentSample.begin <= snap.begin
         /\ Near(CurrentSample.resetAt, CurrentSample.begin)
         /\ CurrentSample.begin \in Nat /\ CurrentSample.begin <= w.meta.begin
<1>1. w.meta \in Sample
  BY StageShape DEF StateOK
<1>2. acct.begin \in Nat /\ w.meta.begin \in Nat /\ snap.begin \in Nat
  BY <1>1 DEF StateOK, TypeOK, Account, Sample, Snapshot, Time
<1>3. Behind(w.meta) /\ Near(w.meta.resetAt, w.meta.begin) /\ acct.begin <= w.meta.begin
      /\ Behind(acct) /\ (acct.init => Near(acct.expected, acct.begin))
  BY DEF OrderInv
<1>4. \/ CurrentSample.resetAt = w.meta.resetAt /\ CurrentSample.begin = w.meta.begin
      \/ acct.init /\ CurrentSample.resetAt = acct.expected /\ CurrentSample.begin = acct.begin
  <2>1. TypeOK
    BY DEF StateOK
  <2> QED
    BY <2>1, <1>1, CurrentSampleCases, Zenon
<1>5. CASE CurrentSample.resetAt = w.meta.resetAt /\ CurrentSample.begin = w.meta.begin
  BY <1>2, <1>3, <1>5 DEF Behind
<1>6. CASE acct.init /\ CurrentSample.resetAt = acct.expected
           /\ CurrentSample.begin = acct.begin
  BY <1>2, <1>3, <1>6 DEF Behind
<1> QED
  BY <1>4, <1>5, <1>6

LEMMA InitOrder == Init => OrderInv
<1> SUFFICES ASSUME Init PROVE OrderInv
  OBVIOUS
<1>1. Apart(1 + Window, 1 + Window) <= Drift
  BY ConstantTypes DEF Apart
<1>2. ~acct.init
  BY DEF Init
<1>3. /\ now = 1 /\ begin = 1 /\ snap.fetched = 1 /\ snap.begin = 1
      /\ snap.resetAt = 1 + Window /\ snap.ident = ident /\ acct.ident = ident
      /\ acct.fetched = 0 /\ acct.begin = 0 /\ w.pc = "idle"
  BY ConstantTypes DEF Init, Report, NoWork
<1>4. Older(ident, ident)
  BY InitType, OlderReflexive DEF StateOK, TypeOK
<1> QED
  BY <1>1, <1>2, <1>3, <1>4 DEF OrderInv, Near, Behind

LEMMA NextOrder ==
  ASSUME StateOK, OrderInv, [Next]_vars
  PROVE  OrderInv'
<1>1. CASE UNCHANGED vars
  BY <1>1 DEF vars, OrderInv, Behind, Near
<1>2. CASE EnvStep
  <2>1. UNCHANGED <<acct, w, events>>
    BY <1>2, EnvFrame
  <2>2. /\ SnapOrder'
        /\ snap.fetched <= snap'.fetched /\ snap.begin <= snap'.begin /\ Older(ident, ident')
    BY <1>2, EnvOrder DEF StateOK, OrderInv, SnapOrder
  <2>3. /\ snap.fetched \in Int /\ snap.begin \in Int /\ ident \in Idents
        /\ acct.fetched \in Int /\ acct.begin \in Int /\ acct.ident \in Idents
    BY DEF StateOK, TypeOK, Snapshot, Account, Time
  <2>4. snap'.fetched \in Int /\ snap'.begin \in Int /\ ident' \in Idents
    BY <1>2, EnvType DEF StateOK, Snapshot, Time
  <2>5. w.pc = "read" => w.meta.fetched \in Int /\ w.meta.begin \in Int /\ w.meta.ident \in Idents
    BY StageShape DEF StateOK, Sample, Time
  <2>6. acct.fetched <= snap'.fetched /\ acct.begin <= snap'.begin /\ Older(acct.ident, ident')
    BY <2>2, <2>3, <2>4, OlderTransitive DEF OrderInv, Behind
  <2>7. w.pc = "read" =>
          /\ w.meta.fetched <= snap'.fetched /\ w.meta.begin <= snap'.begin
          /\ Older(w.meta.ident, ident')
    BY <2>2, <2>3, <2>4, <2>5, OlderTransitive DEF OrderInv, Behind
  <2> QED
    BY <2>1, <2>2, <2>6, <2>7 DEF OrderInv, Behind, SnapOrder, Near, Older
<1>3. CASE PollStep
  <2>1. UNCHANGED <<now, begin, staff, turns, logs, blind, cards, cache, ident, snap>>
    BY <1>3, PollFrame
  <2>2. UNCHANGED acct \/ /\ w.pc = "read" /\ w' = NoWork
                          /\ \/ acct' = Saved(acct, CurrentSample)
                             \/ acct' = Saved([acct EXCEPT !.fuse = CurrentSample.resetAt],
                                              CurrentSample)
    BY <1>3, PollCases, ConfirmCases DEF StateOK
  <2>3. w'.pc = "read" => Reads(FALSE, 0) \/ Reads(w.second, w.first)
    <3>1. NoWork.pc = "idle" /\ \A a, f : AsAsked(a, f).pc = "asked"
      BY DEF NoWork, AsAsked
    <3>2. \A f : [pc |-> "waiting", since |-> now, first |-> f].pc = "waiting"
      OBVIOUS
    <3> QED
      BY <1>3, <3>1, <3>2, PollCases, ConfirmCases DEF StateOK
  <2>4. SnapOrder'
    BY <2>1 DEF SnapOrder, OrderInv, Near, Older
  <2>5. Behind(acct)' /\ (acct.init => Near(acct.expected, acct.begin))'
    <3>1. CASE UNCHANGED acct
      BY <2>1, <3>1 DEF OrderInv, Behind, Near, Older
    <3>2. CASE w.pc = "read" /\ ~UNCHANGED acct
      <4>1. w.meta \in Sample
        BY <3>2, StageShape DEF StateOK
      <4>2. /\ acct'.fetched = w.meta.fetched /\ acct'.expected = CurrentSample.resetAt
            /\ acct'.ident = w.meta.ident /\ acct'.begin = CurrentSample.begin
        BY <2>2, <3>2, <4>1, SavedFields, ConfirmedFields DEF StateOK
      <4>3. CurrentSample.begin <= snap.begin
            /\ Near(CurrentSample.resetAt, CurrentSample.begin)
        BY <3>2, SampleOrder
      <4> QED
        BY <2>1, <3>2, <4>2, <4>3 DEF OrderInv, Behind, Near, Older
    <3> QED
      BY <2>2, <3>1, <3>2
  <2>6. ASSUME w'.pc = "read"
        PROVE  Behind(w.meta)' /\ Near(w.meta.resetAt, w.meta.begin)' /\ acct'.begin <= w'.meta.begin
    <3>1. PICK miss \in SUBSET Fields : w'.meta = Reading(miss)
      BY <2>3, <2>6 DEF Reads, AsRead
    <3>2. acct' = acct
      BY <2>2, <2>6 DEF NoWork
    <3>3. snap.fetched \in Int /\ snap.begin \in Int /\ Older(ident, ident)
      BY OlderReflexive DEF StateOK, TypeOK, Snapshot, Time
    <3> QED
      BY <2>1, <3>1, <3>2, <3>3, ReadingType DEF StateOK, OrderInv, Behind, Near, Older
  <2> QED
    BY <2>4, <2>5, <2>6 DEF OrderInv, SnapOrder
<1> QED
  BY <1>1, <1>2, <1>3, NextSplit
----------------------------------------------------------------------------
(* Two observations.                                                       *)

LEMMA StageFields ==
  ASSUME NEW second, NEW first, NEW miss
  PROVE  /\ AsRead(second, first, miss).pc = "read"
         /\ AsRead(second, first, miss).second = second
         /\ AsRead(second, first, miss).first = first
         /\ AsRead(second, first, miss).meta = Reading(miss)
         /\ AsAsked(second, first).pc = "asked" /\ AsAsked(second, first).second = second
         /\ AsAsked(second, first).first = first
         /\ AsAsked(second, first).after = snap.fetched
         /\ NoWork.pc = "idle"
BY DEF AsRead, AsAsked, NoWork

LEMMA NextStage ==
  ASSUME StateOK, OrderInv, StageInv, [Next]_vars
  PROVE  StageInv'
<1>1. snap.fetched \in Int /\ acct.fetched \in Int
  BY DEF StateOK, TypeOK, Snapshot, Account, Time
<1>2. CASE UNCHANGED vars
  BY <1>2 DEF vars, StageInv
<1>3. CASE EnvStep
  <2>1. UNCHANGED <<acct, w, events>>
    BY <1>3, EnvFrame
  <2>2. snap.fetched <= snap'.fetched /\ snap'.fetched \in Int
    BY <1>3, EnvOrder, EnvType DEF StateOK, OrderInv, SnapOrder, Snapshot, Time
  <2>3. w.pc = "waiting" => w.first \in Int
    BY StageShape DEF StateOK
  <2> QED
    BY <1>1, <2>1, <2>2, <2>3 DEF StageInv
<1>4. CASE PollStep
  <2>1. snap' = snap
    BY <1>4, PollFrame
  <2>2. CASE w' = NoWork
    BY <2>2, StageFields DEF StageInv
  <2>3. CASE Reads(FALSE, 0) \/ w' = AsAsked(FALSE, 0)
    <3>1. w'.pc # "waiting"
      BY <2>3 DEF Reads, AsRead, AsAsked
    <3>2. ~w'.second
      <4>1. \A miss : AsRead(FALSE, 0, miss).second = FALSE
        BY Zenon DEF AsRead
      <4>2. AsAsked(FALSE, 0).second = FALSE
        BY Zenon DEF AsAsked
      <4> QED
        BY <2>3, <4>1, <4>2, Zenon DEF Reads
    <3> QED
      BY <3>1, <3>2 DEF StageInv
  <2>4. CASE w.pc = "asked" /\ snap.fetched > w.after /\ UNCHANGED <<acct, events>>
             /\ Reads(w.second, w.first)
    <3>1. w'.pc = "read" /\ w'.second = w.second /\ w'.first = w.first
          /\ w'.meta.fetched = snap.fetched
      <4>1. PICK miss \in SUBSET Fields : w' = AsRead(w.second, w.first, miss)
        BY <2>4 DEF Reads
      <4> QED
        BY <4>1, StageFields, ReadingType DEF StateOK
    <3>2. w.first \in Int /\ w.after \in Int
      BY <2>4, StageShape DEF StateOK, Time
    <3>3. w.second => acct.fetched < w.first /\ w.first <= w.after
      BY <2>4 DEF StageInv
    <3>4. w.second => acct.fetched < w.first /\ w.first < snap.fetched
      BY <1>1, <2>4, <3>2, <3>3
    <3>5. acct' = acct
      BY <2>4
    <3> QED
      BY <3>1, <3>4, <3>5 DEF StageInv
  <2>5. CASE w.pc = "read" /\ UNCHANGED <<acct, events>>
             /\ Classify(acct, CurrentSample) = "candidate"
             /\ w' = [pc |-> "waiting", since |-> now, first |-> w.meta.fetched]
    <3>1. w.meta \in Sample
      BY <2>5, StageShape DEF StateOK
    <3>2. w.meta.fetched \in Int /\ CurrentSample.fetched = w.meta.fetched
      BY <3>1, CurrentSampleCases DEF StateOK, Sample, Time
    <3>3. ~(CurrentSample.fetched <= acct.fetched)
      BY <2>5, CandidateMeans
    <3>4. w.meta.fetched <= snap.fetched
      BY <2>5 DEF OrderInv, Behind
    <3>5. w'.pc = "waiting" /\ w'.first = w.meta.fetched
      BY <2>5
    <3> QED
      BY <1>1, <2>1, <2>5, <3>2, <3>3, <3>4, <3>5 DEF StageInv
  <2>6. CASE w.pc = "waiting" /\ UNCHANGED <<acct, events>> /\ w' = AsAsked(TRUE, w.first)
    <3>1. w'.pc = "asked" /\ w'.first = w.first /\ w'.after = snap.fetched
      BY <2>6 DEF AsAsked
    <3>2. acct.fetched < w.first /\ w.first <= snap.fetched
      BY <2>6 DEF StageInv
    <3> QED
      BY <2>6, <3>1, <3>2 DEF StageInv
  <2> QED
    BY <1>4, <2>2, <2>3, <2>4, <2>5, <2>6, PollCases, ConfirmCases DEF StateOK
<1> QED
  BY <1>2, <1>3, <1>4, NextSplit

LEMMA NextDistinct ==
  ASSUME StateOK, OrderInv, StageInv, ConfirmDistinct, [Next]_vars
  PROVE  ConfirmDistinct'
<1>1. CASE UNCHANGED events
  BY <1>1 DEF ConfirmDistinct
<1>2. CASE Confirm
  <2>1. acct.fetched < w.first /\ w.first < w.meta.fetched
    BY <1>2, ConfirmCases DEF StageInv
  <2>2. events' = events \cup {Confirmed}
    BY <1>2, ConfirmCases
  <2> QED
    BY <2>1, <2>2 DEF ConfirmDistinct, Confirmed
<1> QED
  BY <1>1, <1>2, NextSplit, PollCases, EnvFrame DEF StateOK, vars

\* The confirmation is a distinct upstream observation: whatever is refreshed,
\* cached or interrupted in between, it is later than the candidate's, which is
\* later than the baseline's (the forced query of PersistedWeeklyMetadata, and
\* classify's check of FetchedAt).
THEOREM ConfirmedTwice == Spec => []ConfirmDistinct
<1> DEFINE IInv == StateOK /\ OrderInv /\ StageInv /\ ConfirmDistinct
<1>1. Init => IInv
  <2>1. Init => StageInv /\ ConfirmDistinct
    BY DEF Init, StageInv, ConfirmDistinct, NoWork
  <2> QED
    BY <2>1, InitType, InitOrder
<1>2. IInv /\ [Next]_vars => IInv'
  BY NextType, NextOrder, NextStage, NextDistinct
<1>3. IInv => ConfirmDistinct
  OBVIOUS
<1> QED
  BY <1>1, <1>2, <1>3, PTL DEF Spec

----------------------------------------------------------------------------
(* Usage.                                                                  *)

\* A sample's usage is what is logged since its boundary.
LEMMA SampleUsage ==
  ASSUME StateOK, w.pc = "read"
  PROVE  CurrentSample.usage = Totals(CurrentSample.resetAt - Window)
<1>1. w.meta \in Sample /\ TypeOK
  BY StageShape DEF StateOK
<1> QED
  BY <1>1, CurrentSampleCases

\* Entries are only added to the log, unless one is purged.
LEMMA LogGrows ==
  ASSUME TypeOK, [Next]_vars
  PROVE  (~Purge => logs \subseteq logs') /\ logs' \subseteq Time
<1>1. CASE EnvStep
  BY <1>1, EnvType DEF EnvStep, Tick, Request, Refresh, OfficialReset, SaveCards,
     ChangeAccount, UseCard, GrantCard, sub2api
<1>2. CASE PollStep \/ UNCHANGED vars
  BY <1>2, PollFrame DEF vars, TypeOK
<1> QED
  BY <1>1, <1>2, NextSplit

\* The ghost of deletions and grants only moves forward.
LEMMA BlindGrows ==
  ASSUME TypeOK, SnapOrder, [Next]_vars
  PROVE  blind' = blind \/ blind' = now
BY PollFrame, NextSplit DEF EnvStep, Tick, Request, Refresh, OfficialReset, SaveCards,
   ChangeAccount, UseCard, GrantCard, Purge, sub2api, vars

LEMMA NextUsage ==
  ASSUME StateOK, OrderInv, UsageInv, [Next]_vars
  PROVE  UsageInv'
<1>1. acct.expected - Window \in Int /\ acct.usage \in Int /\ acct.fetched \in Int
      /\ now \in Int /\ snap.fetched \in Int /\ blind \in Int
  BY ConstantTypes DEF StateOK, TypeOK, Account, Time, Snapshot
<1>2. logs' \subseteq Time /\ (~Purge => logs \subseteq logs')
  BY LogGrows DEF StateOK
<1>3. CASE acct' = acct /\ ~Purge
  <2>1. Totals(acct.expected - Window) <= Totals(acct.expected - Window)'
        /\ Totals(acct.expected - Window) \in Int /\ Totals(acct.expected - Window)' \in Int
    <3>1. ASSUME NEW x \in Int
          PROVE  Totals(x) <= Totals(x)' /\ Totals(x) \in Int /\ Totals(x)' \in Int
      BY <1>2, <1>3, TotalsGrow
    <3> QED
      BY <1>1, <1>3, <3>1 DEF Totals
  <2>2. blind' < acct.fetched => blind < acct.fetched
    <3>1. blind' = blind \/ blind' = now
      BY BlindGrows DEF StateOK, OrderInv, SnapOrder
    <3>2. acct.fetched <= now
      BY <1>1 DEF OrderInv, Behind
    <3> QED
      BY <1>1, <3>1, <3>2
  <2> QED
    BY <1>1, <1>3, <2>1, <2>2 DEF UsageInv
<1>4. CASE Purge
  <2>1. MayPurge /\ blind' = now /\ acct' = acct
    BY <1>4 DEF Purge
  <2>2. acct.fetched <= now
    BY <1>1 DEF OrderInv, Behind
  <2> QED
    BY <1>1, <2>1, <2>2 DEF UsageInv
<1>5. CASE acct' # acct
  <2>1. PollStep
    BY <1>5, NextSplit, EnvFrame DEF vars
  <2>2. /\ w.pc = "read"
        /\ \/ acct' = Saved(acct, CurrentSample)
           \/ acct' = Saved([acct EXCEPT !.fuse = CurrentSample.resetAt], CurrentSample)
    BY <1>5, <2>1, PollCases, ConfirmCases DEF StateOK
  <2>3. w.meta \in Sample /\ TypeOK
    BY <2>2, StageShape DEF StateOK
  <2>4. acct'.expected = CurrentSample.resetAt /\ acct'.usage = CurrentSample.usage
    BY <2>2, <2>3, SavedFields, ConfirmedFields
  <2>5. logs' = logs
    BY <2>1, PollFrame
  <2>6. acct'.usage = Totals(acct.expected - Window)'
    BY <2>2, <2>4, <2>5, SampleUsage DEF Totals
  <2>7. acct'.usage \in Int
    BY <2>3, <2>4, CurrentSampleCases
  <2> QED
    BY <2>6, <2>7 DEF UsageInv
<1> QED
  BY <1>3, <1>4, <1>5
LEMMA InitUsage == Init => UsageInv
<1> SUFFICES ASSUME Init PROVE UsageInv
  OBVIOUS
<1>1. acct.usage = 0 /\ acct.expected - Window \in Int /\ logs \subseteq Time
  BY ConstantTypes DEF Init
<1>2. Totals(acct.expected - Window) \in Nat
  BY <1>1, TotalsType
<1> QED
  BY <1>1, <1>2 DEF UsageInv

\* Two reports of one window are as close as the drift allows.
LEMMA NearTogether ==
  ASSUME 2 * Drift <= Tolerance, NEW x \in Int, NEW y \in Int, NEW b \in Int,
         Near(x, b), Near(y, b)
  PROVE  Apart(x, y) <= Tolerance
BY ConstantTypes DEF Near, Apart

\* A sample put back on the baseline's boundary, or reporting it again, has no
\* less usage than the baseline.
LEMMA SameBoundary ==
  ASSUME StateOK, UsageInv, w.pc = "read", CurrentSample.resetAt = acct.expected,
         ~MayPurge \/ blind < acct.fetched
  PROVE  CurrentSample.usage >= acct.usage
<1>1. CurrentSample.usage = Totals(acct.expected - Window)
  BY SampleUsage
<1>2. acct.usage <= Totals(acct.expected - Window)
  BY DEF UsageInv
<1> QED
  BY <1>1, <1>2

\* A sample of the baseline's window is on its boundary.
LEMMA SameWindow ==
  ASSUME 2 * Drift <= Tolerance, StateOK, OrderInv, w.pc = "read", acct.init,
         SameSource(acct, w.meta), CurrentSample.begin = acct.begin
  PROVE  CurrentSample.resetAt = acct.expected
<1>1. w.meta \in Sample /\ TypeOK
  BY StageShape DEF StateOK
<1>2. CASE CurrentSample.resetAt # acct.expected
  <2>1. /\ ~(w.meta.resetAt # acct.expected
             /\ Apart(w.meta.resetAt, acct.expected) <= Tolerance)
        /\ CurrentSample.resetAt = w.meta.resetAt /\ CurrentSample.begin = w.meta.begin
    BY <1>1, <1>2, CurrentSampleCases
  <2>2. Near(w.meta.resetAt, acct.begin) /\ Near(acct.expected, acct.begin)
    BY <2>1 DEF OrderInv
  <2>3. w.meta.resetAt \in Int /\ acct.expected \in Int /\ acct.begin \in Int
    BY <1>1 DEF Sample, TypeOK, Account
  <2>4. Apart(w.meta.resetAt, acct.expected) <= Tolerance
    BY <2>2, <2>3, NearTogether
  <2> QED
    BY <1>2, <2>1, <2>4
<1> QED
  BY <1>2

\* A step that changes the baseline saves a sample.
LEMMA BaselineStep ==
  ASSUME StateOK, [Next]_vars, acct' # acct
  PROVE  /\ PollStep /\ w.pc = "read" /\ w' = NoWork /\ w.meta \in Sample
         /\ acct' \in Account /\ acct'.init /\ acct'.fetched = w.meta.fetched
         /\ acct'.expected = CurrentSample.resetAt /\ acct'.usage = CurrentSample.usage
         /\ acct'.credits = w.meta.credits /\ acct'.ident = w.meta.ident
         /\ acct'.missing = w.meta.missing /\ acct'.torn = w.meta.torn
         /\ acct'.begin = CurrentSample.begin
         /\ \/ Confirm
            \/ UNCHANGED events /\ acct'.fuse = acct.fuse
               /\ Classify(acct, CurrentSample) # "out_of_order"
<1>1. PollStep
  BY NextSplit, EnvFrame DEF vars
<1>2. \/ Confirm
      \/ /\ w.pc = "read" /\ w' = NoWork /\ UNCHANGED events
         /\ Classify(acct, CurrentSample) # "out_of_order"
         /\ acct' = Saved(acct, CurrentSample)
  BY <1>1, PollCases DEF StateOK
<1>3. w.pc = "read" /\ w' = NoWork
  BY <1>2, ConfirmCases
<1>4. w.meta \in Sample /\ TypeOK
  BY <1>3, StageShape DEF StateOK
<1>5. CASE Confirm
  BY <1>1, <1>3, <1>4, <1>5, ConfirmCases, ConfirmedFields
<1>6. CASE ~Confirm
  BY <1>1, <1>2, <1>3, <1>4, <1>6, SavedFields
<1> QED
  BY <1>5, <1>6

LEMMA UsageStep ==
  ASSUME MayPurge = FALSE, 2 * Drift <= Tolerance, StateOK, OrderInv, UsageInv, [Next]_vars,
         acct.init, acct'.begin = acct.begin, SameSource(acct, acct')
  PROVE  acct'.usage >= acct.usage /\ acct'.expected = acct.expected
<1>1. acct.usage \in Int
  BY DEF StateOK, TypeOK, Account
<1>2. CASE acct' = acct
  BY <1>1, <1>2
<1>3. CASE acct' # acct
  <2>1. /\ w.pc = "read" /\ SameSource(acct, w.meta) /\ CurrentSample.begin = acct.begin
        /\ acct'.expected = CurrentSample.resetAt /\ acct'.usage = CurrentSample.usage
    BY <1>3, BaselineStep DEF SameSource
  <2>2. CurrentSample.resetAt = acct.expected
    BY <2>1, SameWindow
  <2> QED
    BY <2>1, <2>2, SameBoundary
<1> QED
  BY <1>2, <1>3

LEMMA DetectionInvariant == Spec => [](StateOK /\ OrderInv /\ UsageInv)
<1> DEFINE IInv == StateOK /\ OrderInv /\ UsageInv
<1>1. Init => IInv
  BY InitType, InitOrder, InitUsage
<1>2. IInv /\ [Next]_vars => IInv'
  BY NextType, NextOrder, NextUsage
<1> QED
  BY <1>1, <1>2, PTL DEF Spec

\* Within one window the saved usage never decreases and its boundary never
\* moves, as long as two reports of the window differ by no more than
\* nativeWindowDriftTolerance and logs are kept: stabilizeNativeWindow puts the
\* sample on the baseline's boundary before the usage is counted.
THEOREM UsageNeverFalls ==
  ASSUME MayPurge = FALSE, 2 * Drift <= Tolerance
  PROVE  Spec => WindowUsageGrows
<1>1. StateOK /\ OrderInv /\ UsageInv /\ [Next]_vars =>
        [acct.init /\ acct'.begin = acct.begin /\ SameSource(acct, acct') =>
           acct'.usage >= acct.usage /\ acct'.expected = acct.expected]_vars
  BY UsageStep
<1>2. Spec => [](StateOK /\ OrderInv /\ UsageInv)
  BY DetectionInvariant
<1> QED
  BY <1>1, <1>2, PTL DEF Spec, WindowUsageGrows
----------------------------------------------------------------------------
(* The fuse.                                                               *)

\* A confirmed window is no earlier than the baseline's, and its boundary is
\* away from zero.
LEMMA ConfirmFacts ==
  ASSUME StateOK, OrderInv, Confirm
  PROVE  /\ w.pc = "read" /\ w.meta \in Sample
         /\ CurrentSample.begin \in Nat /\ CurrentSample.resetAt \in Int
         /\ acct.begin \in Nat /\ acct.begin <= CurrentSample.begin
         /\ Near(CurrentSample.resetAt, CurrentSample.begin)
         /\ acct'.init /\ acct'.fuse = CurrentSample.resetAt
         /\ acct'.begin = CurrentSample.begin
         /\ Confirmed.begin = CurrentSample.begin
         /\ events' = events \cup {Confirmed}
<1>1. w.pc = "read" /\ w.meta \in Sample /\ TypeOK
  BY ConfirmCases, StageShape DEF StateOK
<1>2. CurrentSample.resetAt \in Int /\ acct.begin \in Nat
  BY <1>1, CurrentSampleCases DEF TypeOK, Account
<1>3. /\ acct'.init /\ acct'.fuse = CurrentSample.resetAt
      /\ acct'.begin = CurrentSample.begin
  BY <1>1, ConfirmCases, ConfirmedFields
<1> QED
  BY <1>1, <1>2, <1>3, SampleOrder, ConfirmCases DEF Confirmed

LEMMA NextFuse ==
  ASSUME Drift < Window, StateOK, OrderInv, FuseInv, [Next]_vars
  PROVE  FuseInv'
<1>0. events \subseteq EventType /\ acct.begin \in Nat
  BY DEF StateOK, TypeOK, Account
<1>1. CASE Confirm
  <2> DEFINE n == CurrentSample.begin
  <2>1. /\ n \in Nat /\ acct.begin <= n /\ Near(CurrentSample.resetAt, n)
        /\ CurrentSample.resetAt \in Int
        /\ acct'.init /\ acct'.fuse = CurrentSample.resetAt /\ acct'.begin = n
        /\ Confirmed.begin = n /\ events' = events \cup {Confirmed}
    BY <1>1, ConfirmFacts
  <2> HIDE DEF n
  <2>2. acct'.fuse # 0
    BY <2>1, ConstantTypes DEF Near, Apart
  <2>3. \A e \in events : e.begin <= n
    <3> SUFFICES ASSUME NEW e \in events PROVE e.begin <= n
      OBVIOUS
    <3>1. PICK b \in 0..acct.begin : \A x \in events : x.begin <= b
      BY DEF FuseInv
    <3>2. e.begin \in Nat
      BY <1>0 DEF EventType
    <3> QED
      BY <1>0, <2>1, <3>1, <3>2
  <2>4. \A e \in events' : e.begin <= n
    BY <2>1, <2>3
  <2>5. Near(acct'.fuse, n) /\ n \in 0..acct'.begin
    BY <2>1
  <2>6. \E b \in 0..acct'.begin : Near(acct'.fuse, b) /\ \A e \in events' : e.begin <= b
    BY <2>4, <2>5
  <2> QED
    BY <2>1, <2>2, <2>6 DEF FuseInv, Near
<1>2. CASE ~Confirm
  <2>1. UNCHANGED events
    BY <1>2, NextSplit, EnvFrame, PollCases DEF StateOK, vars
  <2>2. acct'.fuse = acct.fuse /\ acct'.begin \in Nat /\ acct.begin <= acct'.begin
        /\ (acct.init => acct'.init)
    <3>1. CASE acct' = acct
      BY <1>0, <3>1
    <3>2. CASE acct' # acct
      <4>1. w.pc = "read" /\ acct'.begin = CurrentSample.begin /\ acct'.init
            /\ acct'.fuse = acct.fuse
        BY <1>2, <3>2, BaselineStep
      <4> QED
        BY <4>1, SampleOrder
    <3> QED
      BY <3>1, <3>2
  <2>3. CASE events = {}
    BY <2>1, <2>3 DEF FuseInv
  <2>4. CASE events # {}
    <3>1. acct.fuse # 0 /\ acct.init
      BY <2>4 DEF FuseInv
    <3>2. PICK b \in 0..acct.begin : Near(acct.fuse, b) /\ \A e \in events : e.begin <= b
      BY <2>4 DEF FuseInv
    <3>3. b \in 0..acct'.begin
      BY <1>0, <2>2
    <3>4. Near(acct.fuse, b)'
      BY <2>2, <3>2 DEF Near
    <3> QED
      BY <2>1, <2>2, <3>1, <3>2, <3>3, <3>4 DEF FuseInv
  <2> QED
    BY <2>3, <2>4
<1> QED
  BY <1>1, <1>2

LEMMA NextOnce ==
  ASSUME 2 * Drift <= Tolerance, StateOK, OrderInv, FuseInv, OneEventPerWindow, [Next]_vars
  PROVE  OneEventPerWindow'
<1>1. CASE Confirm
  <2>1. ASSUME NEW e \in events, e.begin = CurrentSample.begin
        PROVE  FALSE
    <3>1. PICK b \in 0..acct.begin : Near(acct.fuse, b) /\ \A x \in events : x.begin <= b
      BY DEF FuseInv
    <3>2. e.begin <= b
      BY <3>1
    <3>3. acct.begin \in Nat /\ CurrentSample.begin \in Nat /\ acct.begin <= CurrentSample.begin
          /\ Near(CurrentSample.resetAt, CurrentSample.begin) /\ CurrentSample.resetAt \in Int
      BY <1>1, ConfirmFacts
    <3>4. b = CurrentSample.begin
      BY <2>1, <3>2, <3>3
    <3>5. acct.fuse \in Int /\ acct.fuse # 0
      BY DEF StateOK, TypeOK, Account, FuseInv
    <3>6. Apart(acct.fuse, CurrentSample.resetAt) <= Tolerance
      BY <3>1, <3>3, <3>4, <3>5, NearTogether
    <3>7. Classify(acct, CurrentSample) = "candidate"
      BY <1>1, ConfirmCases
    <3> QED
      BY <3>5, <3>6, <3>7, CandidateMeans
  <2>2. events' = events \cup {Confirmed} /\ Confirmed.begin = CurrentSample.begin
    BY <1>1, ConfirmFacts
  <2> QED
    BY <2>1, <2>2 DEF OneEventPerWindow
<1>2. CASE ~Confirm
  <2>1. UNCHANGED events
    BY <1>2, NextSplit, EnvFrame, PollCases DEF StateOK, vars
  <2> QED
    BY <2>1 DEF OneEventPerWindow
<1> QED
  BY <1>1, <1>2

\* One window is confirmed at most once, however often its usage falls: cards
\* used, logs deleted, accounts exchanged.  The fuse keeps only the last
\* boundary; that is enough because baselines never go back to an earlier
\* window.  Reports of a window are within nativeWindowDriftTolerance.
THEOREM WindowConfirmedOnce ==
  ASSUME 2 * Drift <= Tolerance, Drift < Window
  PROVE  Spec => []OneEventPerWindow
<1> DEFINE IInv == StateOK /\ OrderInv /\ FuseInv /\ OneEventPerWindow
<1>1. Init => IInv
  <2>1. Init => FuseInv /\ OneEventPerWindow
    BY DEF Init, FuseInv, OneEventPerWindow
  <2> QED
    BY <2>1, InitType, InitOrder
<1>2. IInv /\ [Next]_vars => IInv'
  BY NextType, NextOrder, NextFuse, NextOnce
<1>3. IInv => OneEventPerWindow
  OBVIOUS
<1> QED
  BY <1>1, <1>2, <1>3, PTL DEF Spec
----------------------------------------------------------------------------
(* Resets by staff.                                                        *)

\* What explains a record explains it later, with more resets and moments and
\* fewer cards.
LEMMA ExplainedLater ==
  ASSUME NEW p, NEW tn, NEW tn2, NEW bl, NEW bl2, NEW st, NEW st2, NEW b, NEW c, NEW c2, NEW i,
         NEW t \in Int, NEW t2 \in Int, p.begin \in Int,
         Explained(p, tn, bl, st, b, c, i, t),
         tn \subseteq tn2, st \subseteq st2, st2 \subseteq Time, t <= t2, c2 \subseteq c,
         bl2 = bl \/ ~(bl2 < p.fetched)
  PROVE  Explained(p, tn2, bl2, st2, b, c2, i, t2)
<1> SUFFICES ASSUME p.ident = i, bl2 < p.fetched, ~p.torn, p.credits.known,
                    t2 < p.begin + Window, b > p.begin,
                    ~(\E x \in st2 : p.begin < x /\ x <= t2),
                    p.credits.set \subseteq c2
             PROVE  \E x \in tn2 : p.begin < x /\ x <= p.begin + Tolerance + 2 * Drift
  BY DEF Explained
<1>1. bl < p.fetched
  OBVIOUS
<1>2. t < p.begin + Window
  BY ConstantTypes
<1>3. ~(\E x \in st : p.begin < x /\ x <= t)
  BY DEF Time
<1>4. p.credits.set \subseteq c
  OBVIOUS
<1>5. \E x \in tn : p.begin < x /\ x <= p.begin + Tolerance + 2 * Drift
  BY <1>1, <1>2, <1>3, <1>4 DEF Explained
<1> QED
  BY <1>5

\* Nothing is claimed once a card was granted or a log entry deleted.
LEMMA ExplainedBlind ==
  ASSUME NEW p, NEW tn, NEW bl, NEW st, NEW b, NEW c, NEW i, NEW t, ~(bl < p.fetched)
  PROVE  Explained(p, tn, bl, st, b, c, i, t) /\ NoNewCards(p, bl, c)
BY DEF Explained, NoNewCards

\* Resets are never forgotten.
LEMMA ResetsGrow ==
  ASSUME TypeOK, [Next]_vars
  PROVE  staff \subseteq staff' /\ turns \subseteq turns' /\ staff' \subseteq Time
<1>1. CASE EnvStep
  <2>1. staff' \subseteq Time
    BY <1>1, EnvType
  <2> QED
    BY <1>1, <2>1 DEF EnvStep, Tick, Request, Purge, Refresh, OfficialReset, SaveCards,
       ChangeAccount, UseCard, GrantCard
<1>2. CASE PollStep \/ UNCHANGED vars
  BY <1>2, PollFrame DEF vars, TypeOK
<1> QED
  BY <1>1, <1>2, NextSplit

\* A record of the account keeps explaining it, whatever the account does.
LEMMA EnvExplains ==
  ASSUME TypeOK, SnapOrder, EnvStep,
         NEW p, NEW tn, p.fetched \in Int, p.begin \in Int, p.ident \in Idents,
         Behind(p), Explains(p, tn)
  PROVE  /\ Explained(p, tn, blind', staff', begin', cards', ident', now')
         /\ Explained(p, tn, blind', staff', snap'.begin, snap'.cards, snap'.ident, snap'.fetched)
         /\ NoNewCards(p, blind', cards')
<1>1. /\ now \in Int /\ begin \in Int /\ snap.begin \in Int /\ snap.fetched \in Int
      /\ ident \in Idents /\ snap.ident \in Idents /\ now \in Time /\ staff \subseteq Time
  BY DEF TypeOK, Snapshot, Time
<1>2. /\ now' \in Int /\ staff' \subseteq Time
  BY EnvType DEF Time
<1>3. /\ p.fetched <= now /\ p.begin <= begin /\ Older(p.ident, ident)
      /\ p.fetched <= snap.fetched
  BY <1>1 DEF Behind, SnapOrder
<1>4. /\ Explained(p, tn, blind, staff, begin, cards, ident, now)
      /\ Explained(p, tn, blind, staff, snap.begin, snap.cards, snap.ident, snap.fetched)
      /\ NoNewCards(p, blind, cards)
  BY DEF Explains
<1> DEFINE Q == /\ Explained(p, tn, blind', staff', begin', cards', ident', now')
                /\ Explained(p, tn, blind', staff', snap'.begin, snap'.cards, snap'.ident,
                             snap'.fetched)
                /\ NoNewCards(p, blind', cards')
<1>5. ASSUME begin' = begin, ident' = ident, staff' = staff, cards' = cards, blind' = blind,
             snap' = snap, now <= now'
      PROVE  Q
  <2>1. Explained(p, tn, blind, staff, begin, cards, ident, now')
    BY <1>1, <1>2, <1>4, <1>5, ExplainedLater
  <2> QED
    BY <1>4, <1>5, <2>1
<1>6. ASSUME blind' = now PROVE Q
  <2>1. ~(blind' < p.fetched)
    BY <1>1, <1>3, <1>6
  <2> QED
    BY <2>1, ExplainedBlind
<1> SUFFICES Q
  OBVIOUS
<1>7. CASE Tick
  <2>1. now' = now + 1 /\ UNCHANGED <<staff, blind, cards, ident, snap>>
        /\ (begin' = begin \/ (now' = begin + Window /\ begin' = now'))
    BY <1>7 DEF Tick
  <2>2. CASE begin' = begin
    BY <1>1, <1>5, <2>1, <2>2
  <2>3. CASE now' = begin + Window /\ begin' = now'
    <3>1. ~(now' < p.begin + Window)
      BY <1>1, <1>2, <1>3, <2>3, ConstantTypes
    <3>2. Explained(p, tn, blind', staff', begin', cards', ident', now')
      BY <3>1 DEF Explained
    <3> QED
      BY <1>4, <2>1, <3>2
  <2> QED
    BY <2>1, <2>2, <2>3
<1>8. CASE Request \/ SaveCards
  <2>1. UNCHANGED <<now, begin, staff, blind, cards, ident, snap>> /\ now <= now
    BY <1>1, <1>8 DEF Request, SaveCards
  <2> QED
    BY <1>5, <2>1
<1>9. CASE Purge
  BY <1>6, <1>9 DEF Purge
<1>10. CASE Refresh
  <2>1. PICK d \in (0 - Drift)..Drift : snap' = Report(d)
    BY <1>10 DEF Refresh
  <2>2. /\ snap'.begin = begin /\ snap'.fetched = now /\ snap'.cards = cards
        /\ snap'.ident = ident
    BY <2>1, ReportType
  <2>3. UNCHANGED <<now, begin, staff, blind, cards, ident>>
    BY <1>10 DEF Refresh
  <2> QED
    BY <1>4, <2>2, <2>3
<1>11. CASE OfficialReset
  <2>1. now > begin /\ begin' = now /\ staff' = staff \cup {now}
        /\ UNCHANGED <<now, snap, blind, cards, ident>>
    BY <1>11 DEF OfficialReset
  <2>2. now \in staff' /\ p.begin < now /\ now <= now
    BY <1>1, <1>3, <2>1
  <2>3. Explained(p, tn, blind', staff', begin', cards', ident', now')
    BY <2>1, <2>2 DEF Explained
  <2>4. staff \subseteq staff' /\ snap.fetched <= snap.fetched
    BY <1>1, <2>1
  <2>5. Explained(p, tn, blind, staff', snap.begin, snap.cards, snap.ident, snap.fetched)
    BY <1>1, <1>2, <1>4, <2>4, ExplainedLater
  <2> QED
    BY <1>4, <2>1, <2>3, <2>5
<1>12. CASE ChangeAccount
  <2>1. UNCHANGED <<staff, blind, cards, snap>>
    BY <1>12 DEF ChangeAccount, sub2api
  <2>2. p.ident # ident'
    BY <1>3, <1>12, ChangeOlder
  <2>3. Explained(p, tn, blind', staff', begin', cards', ident', now')
    BY <2>2 DEF Explained
  <2> QED
    BY <1>4, <2>1, <2>3
<1>13. ASSUME NEW c \in Cards, UseCard(c) PROVE Q
  <2>1. /\ c \in cards /\ begin' = now /\ cards' = cards \ {c}
        /\ UNCHANGED <<now, staff, blind, ident, snap>>
    BY <1>13 DEF UseCard, sub2api
  <2>2. Explained(p, tn, blind, staff, now, cards', ident, now)
    <3> SUFFICES ASSUME blind < p.fetched, ~p.torn, p.credits.known
                 PROVE  ~(p.credits.set \subseteq cards')
      BY DEF Explained
    <3>1. cards \subseteq p.credits.set
      BY <1>4 DEF NoNewCards
    <3> QED
      BY <2>1, <3>1
  <2>3. NoNewCards(p, blind, cards')
    BY <1>4, <2>1 DEF NoNewCards
  <2> QED
    BY <1>4, <2>1, <2>2, <2>3
<1>14. ASSUME NEW c \in Cards, GrantCard(c) PROVE Q
  BY <1>6, <1>14 DEF GrantCard
<1>15. CASE \E c \in Cards : UseCard(c) \/ GrantCard(c)
  BY <1>13, <1>14, <1>15, Zenon
<1> HIDE DEF Q
<1> QED
  BY <1>7, <1>8, <1>9, <1>10, <1>11, <1>12, <1>15, Zenon DEF EnvStep

\* A reading is taken with the baseline as it is.
LEMMA ReadStep ==
  ASSUME StateOK, PollStep, w'.pc = "read"
  PROVE  acct' = acct /\ \E miss \in SUBSET Fields : w'.meta = Reading(miss)
<1>1. NoWork.pc = "idle" /\ (\A a, f : AsAsked(a, f).pc = "asked")
  BY DEF NoWork, AsAsked
<1>2. \A f : [pc |-> "waiting", since |-> now, first |-> f].pc = "waiting"
  OBVIOUS
<1>3. acct' = acct
  <2>1. [Next]_vars
    BY DEF PollStep, Next
  <2> QED
    BY <1>1, <2>1, BaselineStep
<1>4. Reads(FALSE, 0) \/ Reads(w.second, w.first)
  BY <1>1, <1>2, PollCases, ConfirmCases DEF StateOK
<1>5. \E miss \in SUBSET Fields : w'.meta = Reading(miss)
  BY <1>4 DEF Reads, AsRead
<1> QED
  BY <1>3, <1>5

\* The windows of the records begin as windows do.
LEMMA NextWindows ==
  ASSUME StateOK, OrderInv, WindowsInv, [Next]_vars
  PROVE  WindowsInv'
<1> DEFINE B(a, b, st, tn) == b > a => b \in st \cup tn \/ b >= a + Window
<1>1. \A a, b : Begun(a, b) <=> B(a, b, staff, turns)
  BY DEF Begun
<1>2. WindowsInv' =
        (/\ B(snap'.begin, begin', staff', turns')
         /\ acct'.init => /\ B(acct'.begin, begin', staff', turns')
                          /\ B(acct'.begin, snap'.begin, staff', turns')
         /\ w'.pc = "read" =>
              /\ B(w'.meta.begin, begin', staff', turns')
              /\ B(w'.meta.begin, snap'.begin, staff', turns')
              /\ acct'.init => B(acct'.begin, w'.meta.begin, staff', turns'))
  BY DEF WindowsInv, Begun
<1>3. /\ TypeOK /\ SnapOrder /\ staff \subseteq staff' /\ turns \subseteq turns'
  BY ResetsGrow DEF StateOK, OrderInv, SnapOrder
<1>4. \A a, b : B(a, b, staff, turns) => B(a, b, staff', turns')
  BY <1>3
<1>5. \A a, st, tn : a \in Int => B(a, a, st, tn)
  OBVIOUS
<1>6. /\ begin \in Int /\ snap.begin \in Int /\ acct.begin \in Int
      /\ (w.pc = "read" => w.meta.begin \in Int)
  BY <1>3, StageShape DEF StateOK, TypeOK, Time, Snapshot, Account, Sample
<1>7. /\ B(snap.begin, begin, staff, turns)
      /\ acct.init => /\ B(acct.begin, begin, staff, turns)
                      /\ B(acct.begin, snap.begin, staff, turns)
      /\ w.pc = "read" =>
           /\ B(w.meta.begin, begin, staff, turns)
           /\ B(w.meta.begin, snap.begin, staff, turns)
           /\ acct.init => B(acct.begin, w.meta.begin, staff, turns)
  BY <1>1 DEF WindowsInv
<1>8. CASE UNCHANGED vars
  BY <1>2, <1>7, <1>8 DEF vars
<1>9. CASE EnvStep
  <2>1. UNCHANGED <<acct, w>>
    BY <1>9, EnvFrame
\* The account's window begins anew with a reset, a card or another account, or
\* when it has run out.
  <2>2. ASSUME NEW a \in Int, a <= begin, B(a, begin, staff, turns)
        PROVE  B(a, begin', staff', turns')
    <3>1. CASE begin' = begin
      BY <1>4, <2>2, <3>1
    <3>2. CASE begin' # begin
      <4>1. begin' \in staff' \cup turns' \/ begin' = begin + Window
        BY <1>9, <3>2 DEF EnvStep, Tick, Request, Purge, Refresh, OfficialReset, SaveCards,
           ChangeAccount, UseCard, GrantCard
      <4> QED
        BY <1>6, <2>2, <4>1, ConstantTypes
    <3> QED
      BY <3>1, <3>2
  <2>3. snap' = snap \/ (snap'.begin = begin /\ begin' = begin)
    <3>1. CASE Refresh
      <4>1. PICK d \in (0 - Drift)..Drift : snap' = Report(d)
        BY <3>1 DEF Refresh
      <4> QED
        BY <1>3, <3>1, <4>1, ReportType DEF Refresh
    <3>2. CASE ~Refresh
      BY <1>9, <3>2 DEF EnvStep, Tick, Request, Purge, OfficialReset, SaveCards,
         ChangeAccount, UseCard, GrantCard, sub2api
    <3> QED
      BY <3>1, <3>2
  <2>4. ASSUME NEW a \in Int, B(a, begin, staff, turns), B(a, snap.begin, staff, turns)
        PROVE  B(a, snap'.begin, staff', turns')
    <3>1. B(a, begin, staff', turns') /\ B(a, snap.begin, staff', turns')
      BY <1>4, <2>4
    <3> HIDE DEF B
    <3> QED
      BY <2>3, <3>1
  <2>5. /\ snap.begin <= begin /\ acct.begin <= begin
        /\ (w.pc = "read" => w.meta.begin <= begin)
    BY <1>6 DEF OrderInv, Behind
  <2> HIDE DEF B
  <2>6. B(snap'.begin, begin', staff', turns')
    BY <1>5, <1>6, <1>7, <2>2, <2>3, <2>5
  <2>7. acct.init => /\ B(acct.begin, begin', staff', turns')
                     /\ B(acct.begin, snap'.begin, staff', turns')
    BY <1>6, <1>7, <2>2, <2>4, <2>5
  <2>8. w.pc = "read" => /\ B(w.meta.begin, begin', staff', turns')
                         /\ B(w.meta.begin, snap'.begin, staff', turns')
                         /\ acct.init => B(acct.begin, w.meta.begin, staff', turns')
    BY <1>4, <1>6, <1>7, <2>2, <2>4, <2>5
  <2> QED
    BY <1>2, <2>1, <2>6, <2>7, <2>8
<1>10. CASE PollStep
  <2>1. UNCHANGED <<begin, staff, turns, snap>>
    BY <1>10, PollFrame
  <2>2. acct'.init => /\ B(acct'.begin, begin, staff, turns)
                      /\ B(acct'.begin, snap.begin, staff, turns)
    <3>1. CASE acct' = acct
      BY <1>7, <3>1
    <3>2. CASE acct' # acct
      <4>1. w.pc = "read" /\ acct'.begin = CurrentSample.begin
        BY <3>2, BaselineStep
      <4>2. w.meta \in Sample
        BY <4>1, StageShape DEF StateOK
      <4>3. CurrentSample.begin = w.meta.begin \/ (acct.init /\ CurrentSample.begin = acct.begin)
        BY <1>3, <4>2, CurrentSampleCases
      <4> HIDE DEF B
      <4> QED
        BY <1>7, <4>1, <4>3
    <3> QED
      BY <3>1, <3>2
  <2>3. w'.pc = "read" => acct' = acct /\ w'.meta.begin = snap.begin
    BY <1>3, <1>10, ReadStep, ReadingType
  <2> HIDE DEF B
  <2> QED
    BY <1>2, <1>5, <1>6, <1>7, <2>1, <2>2, <2>3
<1> QED
  BY <1>8, <1>9, <1>10, NextSplit

\* What was read explains what comes after it, unless it is torn.
LEMMA ReadingExplains ==
  ASSUME TypeOK, Explains(Shown, {}), NEW miss \in SUBSET Fields
  PROVE  Explains(Reading(miss), {})
<1> DEFINE r == Reading(miss)
<1>1. /\ r.fetched = snap.fetched /\ r.begin = snap.begin /\ r.ident = ident /\ r.credits = cache
      /\ (~r.torn => cache.set = snap.cards /\ ident = snap.ident)
  BY ReadingType
<1>2. /\ Shown.fetched = snap.fetched /\ Shown.begin = snap.begin /\ Shown.ident = snap.ident
      /\ Shown.credits.set = snap.cards
  BY DEF Shown, Known
<1>3. ~Shown.torn /\ Shown.credits.known
  BY Zenon DEF Shown, Known
<1> SUFFICES Explains(r, {})
  OBVIOUS
<1> HIDE DEF r
<1>4. CASE r.torn
  BY <1>4 DEF Explains, Explained, NoNewCards
<1>5. CASE ~r.torn
  <2>1. /\ r.ident = Shown.ident /\ r.credits.set = Shown.credits.set
        /\ r.fetched = Shown.fetched /\ r.begin = Shown.begin
    BY <1>1, <1>2, <1>5
  <2>2. ASSUME NEW b, NEW c, NEW i, NEW t, Explained(Shown, {}, blind, staff, b, c, i, t)
        PROVE  Explained(r, {}, blind, staff, b, c, i, t)
    BY <1>3, <2>1, <2>2 DEF Explained
  <2>3. NoNewCards(Shown, blind, cards) => NoNewCards(r, blind, cards)
    BY <1>3, <2>1 DEF NoNewCards
  <2> QED
    BY <2>2, <2>3 DEF Explains
<1> QED
  BY <1>4, <1>5

\* A baseline that is saved explains what comes after it.  If it is put back on
\* the boundary of the old one, the window that was read began with a reset by
\* staff, or with a card or another account so early that the two boundaries are
\* within the tolerance.
LEMMA SavedExplains ==
  ASSUME StateOK, OrderInv, ResetInv, w.pc = "read",
         NEW a, a.fetched = w.meta.fetched, a.ident = w.meta.ident,
         a.credits = w.meta.credits, a.torn = w.meta.torn, a.begin = CurrentSample.begin
  PROVE  Explains(a, turns)
<1> DEFINE m == w.meta
<1>1. m \in Sample /\ TypeOK
  BY StageShape DEF StateOK
<1>2. Explains(m, {}) /\ WindowsInv
  BY DEF ResetInv
<1>3. /\ m.resetAt \in Int /\ acct.expected \in Int /\ acct.begin \in Int
      /\ m.begin \in Int /\ now \in Int /\ snap.fetched \in Int /\ staff \subseteq Time
      /\ snap.begin \in Int
  BY <1>1 DEF Sample, TypeOK, Account, Time, Snapshot
<1>4. m.begin <= snap.fetched /\ snap.fetched <= now /\ acct.begin <= m.begin
  BY <1>3 DEF OrderInv, Behind
<1>5. NoNewCards(a, blind, cards)
  BY <1>2 DEF Explains, NoNewCards
<1>6. CASE a.begin = m.begin
  <2>1. ASSUME NEW b, NEW c, NEW i, NEW t, Explained(m, {}, blind, staff, b, c, i, t)
        PROVE  Explained(a, turns, blind, staff, b, c, i, t)
    BY <1>6, <2>1 DEF Explained
  <2> QED
    BY <1>2, <1>5, <2>1 DEF Explains
<1>7. CASE a.begin # m.begin
  <2>1. /\ acct.init /\ a.begin = acct.begin /\ Apart(m.resetAt, acct.expected) <= Tolerance
    BY <1>1, <1>7, CurrentSampleCases
  <2>2. m.begin > acct.begin
    BY <1>3, <1>4, <1>7, <2>1
  <2>3. m.begin \in staff \cup turns \/ m.begin >= acct.begin + Window
    BY <1>2, <2>1, <2>2 DEF WindowsInv, Begun
  <2>4. m.begin <= acct.begin + Tolerance + 2 * Drift
    <3>1. Near(m.resetAt, m.begin) /\ Near(acct.expected, acct.begin)
      BY <2>1 DEF OrderInv
    <3> QED
      BY <1>3, <2>1, <3>1, ConstantTypes DEF Near, Apart
  <2>5. ASSUME NEW b, NEW c, NEW i, NEW t \in Int, snap.fetched <= t
        PROVE  Explained(a, turns, blind, staff, b, c, i, t)
    <3> SUFFICES ASSUME t < a.begin + Window
                 PROVE  \/ \E x \in staff : a.begin < x /\ x <= t
                        \/ \E x \in turns : a.begin < x
                                            /\ x <= a.begin + Tolerance + 2 * Drift
      BY DEF Explained
    <3>1. m.begin \in staff \/ m.begin \in turns
      BY <1>3, <1>4, <2>1, <2>3, <2>5, ConstantTypes
    <3>2. a.begin < m.begin /\ m.begin <= t
      BY <1>3, <1>4, <2>1, <2>2, <2>5
    <3> QED
      BY <2>1, <2>4, <3>1, <3>2
  <2>6. snap.fetched <= snap.fetched
    BY <1>3
  <2> QED
    BY <1>3, <1>4, <1>5, <2>5, <2>6 DEF Explains
<1> QED
  BY <1>6, <1>7

LEMMA NextReset ==
  ASSUME StateOK, OrderInv, ResetInv, [Next]_vars
  PROVE  ResetInv'
<1>0. TypeOK /\ SnapOrder
  BY DEF StateOK, OrderInv, SnapOrder
<1>1. CASE UNCHANGED vars
  BY <1>1 DEF vars, ResetInv, WindowsInv, Begun, Explains, Shown
<1>2. WindowsInv'
  BY NextWindows DEF ResetInv
<1>3. blind' <= now'
  <2>1. blind' = blind \/ blind' = now
    BY <1>0, BlindGrows
  <2>2. now \in Int /\ blind \in Int
    BY <1>0 DEF TypeOK, Time
  <2>3. now <= now'
    <3>1. CASE EnvStep
      BY <1>0, <3>1, EnvOrder
    <3>2. CASE PollStep \/ UNCHANGED vars
      BY <2>2, <3>2, PollFrame DEF vars
    <3> QED
      BY <3>1, <3>2, NextSplit
  <2>4. blind <= now /\ (now' \in Int)
    <3>1. CASE EnvStep
      BY <1>0, <3>1, EnvType DEF ResetInv, Time
    <3>2. CASE PollStep \/ UNCHANGED vars
      BY <2>2, <3>2, PollFrame DEF vars, ResetInv
    <3> QED
      BY <3>1, <3>2, NextSplit
  <2> QED
    BY <2>1, <2>2, <2>3, <2>4
<1>4. CASE EnvStep
  <2>1. UNCHANGED <<acct, w>>
    BY <1>4, EnvFrame
  <2>2. ASSUME NEW p, NEW tn, p.fetched \in Int, p.begin \in Int, p.ident \in Idents,
               Behind(p), Explains(p, tn)
        PROVE  /\ Explained(p, tn, blind', staff', begin', cards', ident', now')
               /\ Explained(p, tn, blind', staff', snap'.begin, snap'.cards, snap'.ident,
                            snap'.fetched)
               /\ NoNewCards(p, blind', cards')
    BY <1>0, <1>4, <2>2, EnvExplains
  <2>3. Explains(Shown, {})'
    <3>1. CASE snap' = snap
      <4>1. /\ Shown.fetched = snap.fetched /\ Shown.begin = snap.begin /\ Shown.ident = snap.ident
        BY DEF Shown
      <4>2. Shown.fetched \in Int /\ Shown.begin \in Int /\ Shown.ident \in Idents
        BY <1>0, <4>1 DEF TypeOK, Snapshot, Time
      <4>3. Behind(Shown) /\ Explains(Shown, {}) /\ Shown' = Shown
        BY <1>0, <3>1, <4>1, <4>2 DEF Behind, ResetInv, SnapOrder, Shown
      <4> QED
        BY <2>2, <4>2, <4>3 DEF Explains
    <3>2. CASE snap' # snap
      <4>1. Refresh
        BY <1>4, <3>2 DEF EnvStep, Tick, Request, Purge, OfficialReset, SaveCards,
           ChangeAccount, UseCard, GrantCard, sub2api
      <4>2. PICK d \in (0 - Drift)..Drift : snap' = Report(d)
        BY <4>1 DEF Refresh
      <4>3. /\ snap'.begin = begin /\ snap'.cards = cards /\ UNCHANGED <<begin, cards>>
        BY <1>0, <4>1, <4>2, ReportType DEF Refresh
      <4>4. Shown'.begin = begin' /\ Shown'.credits.set = cards'
        BY <4>3 DEF Shown, Known
      <4>5. begin' \in Int /\ snap'.begin = begin'
        BY <1>4, <1>0, <4>3, EnvType DEF Time
      <4> QED
        BY <4>4, <4>5 DEF Explains, Explained, NoNewCards
    <3> QED
      BY <3>1, <3>2
  <2>4. acct.init => Explains(acct, turns)'
    <3>1. acct.fetched \in Int /\ acct.begin \in Int /\ acct.ident \in Idents /\ Behind(acct)
      BY <1>0 DEF TypeOK, Account, OrderInv
    <3>2. ASSUME acct.init
          PROVE  /\ Explained(acct, turns, blind', staff', begin', cards', ident', now')
                 /\ Explained(acct, turns, blind', staff', snap'.begin, snap'.cards, snap'.ident,
                              snap'.fetched)
                 /\ NoNewCards(acct, blind', cards')
      BY <2>2, <3>1, <3>2 DEF ResetInv
    <3>3. turns \subseteq turns'
      BY <1>0, ResetsGrow
    <3>4. ASSUME NEW bl, NEW st, NEW b, NEW c, NEW i, NEW t,
                 Explained(acct, turns, bl, st, b, c, i, t)
          PROVE  Explained(acct, turns', bl, st, b, c, i, t)
      BY <3>3, <3>4 DEF Explained
    <3> QED
      BY <2>1, <3>2, <3>4 DEF Explains
  <2>5. ASSUME w.pc = "read"
        PROVE  /\ Explains(w.meta, {})'
               /\ acct.init /\ ~w.meta.torn =>
                    Explained(acct, turns', blind', staff', w.meta.begin, w.meta.credits.set,
                              w.meta.ident, w.meta.fetched)
    <3>1. w.meta \in Sample
      BY <2>5, StageShape DEF StateOK
    <3>2. w.meta.fetched \in Int /\ w.meta.begin \in Int /\ w.meta.ident \in Idents
          /\ Behind(w.meta) /\ Explains(w.meta, {})
      BY <3>1, <2>5 DEF Sample, Time, OrderInv, ResetInv
    <3>3. /\ Explained(w.meta, {}, blind', staff', begin', cards', ident', now')
          /\ Explained(w.meta, {}, blind', staff', snap'.begin, snap'.cards, snap'.ident,
                       snap'.fetched)
          /\ NoNewCards(w.meta, blind', cards')
      BY <2>2, <3>2
    <3>4. ASSUME acct.init, ~w.meta.torn
          PROVE  Explained(acct, turns', blind', staff', w.meta.begin, w.meta.credits.set,
                           w.meta.ident, w.meta.fetched)
      <4>1. Explained(acct, turns, blind, staff, w.meta.begin, w.meta.credits.set,
                      w.meta.ident, w.meta.fetched)
        BY <2>5, <3>4 DEF ResetInv
      <4>2. blind' = blind \/ blind' = now
        BY <1>0, BlindGrows
      <4>3. now \in Int /\ acct.fetched \in Int /\ acct.begin \in Int /\ snap.fetched \in Int
        BY <1>0 DEF TypeOK, Account, Time, Snapshot
      <4>4. acct.fetched <= now
        BY <4>3 DEF OrderInv, Behind
      <4>5. blind' = blind \/ ~(blind' < acct.fetched)
        BY <4>2, <4>3, <4>4
      <4>6. staff \subseteq staff' /\ staff' \subseteq Time /\ turns \subseteq turns'
        BY <1>0, ResetsGrow
      <4>7. w.meta.fetched <= w.meta.fetched /\ w.meta.credits.set \subseteq w.meta.credits.set
        BY <3>2
      <4> QED
        BY <3>2, <4>1, <4>3, <4>5, <4>6, <4>7, ExplainedLater
    <3> QED
      BY <2>1, <3>3, <3>4 DEF Explains
  <2> QED
    BY <1>2, <1>3, <2>1, <2>3, <2>4, <2>5 DEF ResetInv
<1>5. CASE PollStep
  <2>1. UNCHANGED <<now, begin, staff, turns, blind, cards, ident, snap>>
    BY <1>5, PollFrame
  <2>2. Explains(Shown, {})'
    BY <2>1 DEF ResetInv, Explains, Shown
  <2>3. acct'.init => Explains(acct, turns)'
    <3>1. CASE acct' = acct
      BY <2>1, <3>1 DEF ResetInv, Explains
    <3>2. CASE acct' # acct
      <4>1. w.pc = "read" /\ acct'.fetched = w.meta.fetched /\ acct'.ident = w.meta.ident
            /\ acct'.credits = w.meta.credits /\ acct'.torn = w.meta.torn
            /\ acct'.begin = CurrentSample.begin
        BY <3>2, BaselineStep
      <4>2. Explains(acct', turns)
        BY <4>1, SavedExplains
      <4> QED
        BY <2>1, <4>2 DEF Explains
    <3> QED
      BY <3>1, <3>2
  <2>4. ASSUME w'.pc = "read"
        PROVE  /\ Explains(w.meta, {})'
               /\ acct'.init /\ ~w'.meta.torn =>
                     Explained(acct', turns, blind, staff, w'.meta.begin, w'.meta.credits.set,
                               w'.meta.ident, w'.meta.fetched)
    <3>1. PICK miss \in SUBSET Fields : w'.meta = Reading(miss)
      BY <1>5, <2>4, ReadStep
    <3>2. acct' = acct
      BY <1>5, <2>4, ReadStep
    <3>3. Explains(Reading(miss), {})
      BY <1>0, ReadingExplains DEF ResetInv
    <3>4. Explains(w.meta, {})'
      BY <2>1, <3>1, <3>3 DEF Explains
    <3>5. /\ Reading(miss).begin = snap.begin /\ Reading(miss).ident = ident
          /\ Reading(miss).fetched = snap.fetched /\ Reading(miss).credits = cache
          /\ ~Reading(miss).torn => cache.set = snap.cards /\ ident = snap.ident
      BY <1>0, ReadingType
    <3>6. acct.init =>
            Explained(acct, turns, blind, staff, snap.begin, snap.cards, snap.ident, snap.fetched)
      BY DEF ResetInv, Explains
    <3> QED
      BY <3>1, <3>2, <3>4, <3>5, <3>6
  <2> QED
    BY <1>2, <1>3, <2>1, <2>2, <2>3, <2>4 DEF ResetInv
<1> QED
  BY <1>1, <1>4, <1>5, NextSplit

\* A confirmed sample is in another window than the baseline, whose window had
\* not run out, and of the same account with the same cards.
LEMMA ConfirmedReset ==
  ASSUME 2 * Drift <= Tolerance, Drift <= Grace,
         StateOK, OrderInv, UsageInv, ResetInv, Confirm,
         blind < acct.fetched, ~acct.torn, ~w.meta.torn, ~Hidden
  PROVE  \/ \E b \in staff : acct.begin < b /\ b <= w.meta.fetched
         \/ \E b \in turns : acct.begin < b /\ b <= acct.begin + Tolerance + 2 * Drift
<1>1. w.pc = "read" /\ w.meta \in Sample /\ TypeOK
  BY ConfirmCases, StageShape DEF StateOK
<1>2. /\ CurrentSample.fetched = w.meta.fetched /\ CurrentSample.ident = w.meta.ident
      /\ CurrentSample.credits = w.meta.credits /\ CurrentSample.missing = w.meta.missing
  BY <1>1, CurrentSampleCases
<1>3. Classify(acct, CurrentSample) = "candidate"
  BY ConfirmCases
<1>4. /\ acct.init /\ SameSource(acct, w.meta)
      /\ ~(w.meta.fetched >= acct.expected - Grace)
      /\ ~(CurrentSample.usage >= acct.usage)
      /\ w.meta.credits.known /\ acct.credits.known
      /\ acct.credits.set \subseteq w.meta.credits.set
  BY <1>2, <1>3, CandidateMeans DEF CreditsKept, SameSource
<1>5. acct.ident = w.meta.ident
  <2>1. acct.ident \in Idents /\ w.meta.ident \in Idents
    BY <1>1 DEF TypeOK, Account, Sample
  <2>2. \A f \in Fields : acct.ident[f] = w.meta.ident[f]
    BY <1>4 DEF SameSource, Hidden
  <2> QED
    BY <2>1, <2>2 DEF Idents
<1>6. CurrentSample.begin # acct.begin
  BY <1>1, <1>4, SameWindow, SameBoundary
<1>7. w.meta.begin > acct.begin
  <2>1. CurrentSample.begin = w.meta.begin
    BY <1>1, <1>6, CurrentSampleCases
  <2>2. acct.begin \in Int /\ w.meta.begin \in Int /\ acct.begin <= w.meta.begin
    BY <1>1 DEF TypeOK, Account, Sample, Time, OrderInv
  <2> QED
    BY <1>6, <2>1, <2>2
<1>8. w.meta.fetched < acct.begin + Window
  <2>1. Near(acct.expected, acct.begin)
    BY <1>4 DEF OrderInv
  <2>2. acct.expected \in Int /\ acct.begin \in Int /\ w.meta.fetched \in Int
    BY <1>1 DEF TypeOK, Account, Sample, Time
  <2> QED
    BY <1>4, <2>1, <2>2, ConstantTypes DEF Near, Apart
<1>9. Explained(acct, turns, blind, staff, w.meta.begin, w.meta.credits.set, w.meta.ident,
                w.meta.fetched)
  BY <1>1, <1>4 DEF ResetInv
<1> QED
  BY <1>4, <1>5, <1>7, <1>8, <1>9 DEF Explained

LEMMA NextOfficial ==
  ASSUME 2 * Drift <= Tolerance, Drift <= Grace,
         StateOK, OrderInv, UsageInv, ResetInv, EventHasOfficialReset, [Next]_vars
  PROVE  EventHasOfficialReset'
<1> DEFINE Ok(e, bl, st, tn) ==
             \/ \E b \in st : e.origin < b /\ b <= e.at
             \/ bl >= e.base \/ e.torn \/ e.hidden
             \/ \E b \in tn : e.origin < b /\ b <= e.origin + Tolerance + 2 * Drift
<1>1. staff \subseteq staff' /\ turns \subseteq turns'
      /\ (blind' = blind \/ blind' = now) /\ blind <= now
  BY BlindGrows, ResetsGrow DEF StateOK, OrderInv, SnapOrder, ResetInv
<1>2. blind \in Int /\ now \in Int /\ events \subseteq EventType /\ acct.fetched \in Int
  BY DEF StateOK, TypeOK, Time, Account
<1>3. \A e \in events : Ok(e, blind, staff, turns)
  BY DEF EventHasOfficialReset
<1>4. EventHasOfficialReset' = \A e \in events' : Ok(e, blind', staff', turns')
  BY DEF EventHasOfficialReset
<1>5. ASSUME NEW e \in events
      PROVE  Ok(e, blind', staff', turns')
  <2>1. e.base \in Int
    BY <1>2 DEF EventType
  <2>2. Ok(e, blind, staff, turns)
    BY <1>3
  <2>3. blind >= e.base => blind' >= e.base
    BY <1>1, <1>2, <2>1
  <2> QED
    BY <1>1, <2>2, <2>3
<1>6. CASE Confirm
  <2>1. Confirmed.base = acct.fetched /\ Confirmed.origin = acct.begin
        /\ Confirmed.at = w.meta.fetched /\ events' = events \cup {Confirmed}
    BY <1>6, ConfirmCases DEF Confirmed
  <2>2. /\ Confirmed.torn = (acct.torn \/ w.meta.torn)
        /\ Confirmed.hidden = Hidden
    BY Zenon DEF Confirmed
  <2>3. blind' = blind /\ staff' = staff /\ turns' = turns
    BY <1>6 DEF Confirm, sub2api, upstream
  <2>4. Ok(Confirmed, blind', staff', turns')
    <3>1. Ok(Confirmed, blind, staff, turns)
      <4>1. ASSUME ~(blind < acct.fetched) PROVE Ok(Confirmed, blind, staff, turns)
        BY <1>2, <2>1, <4>1
      <4>2. ASSUME acct.torn \/ w.meta.torn \/ Hidden PROVE Ok(Confirmed, blind, staff, turns)
        <5>1. Confirmed.torn \/ Confirmed.hidden
          BY <2>2, <4>2, Zenon
        <5> QED
          BY <5>1
      <4>3. ASSUME blind < acct.fetched, ~(acct.torn \/ w.meta.torn \/ Hidden)
            PROVE  Ok(Confirmed, blind, staff, turns)
        <5>1. ~acct.torn /\ ~w.meta.torn /\ ~Hidden
          BY <4>3
        <5>2. \/ \E b \in staff : acct.begin < b /\ b <= w.meta.fetched
              \/ \E b \in turns : acct.begin < b /\ b <= acct.begin + Tolerance + 2 * Drift
          BY <1>6, <4>3, <5>1, ConfirmedReset
        <5> QED
          BY <2>1, <5>2
      <4> QED
        BY <4>1, <4>2, <4>3
    <3> QED
      BY <2>3, <3>1
  <2> HIDE DEF Ok
  <2> QED
    BY <1>4, <1>5, <2>1, <2>4
<1>7. CASE ~Confirm
  <2>1. UNCHANGED events
    BY <1>7, NextSplit, EnvFrame, PollCases DEF StateOK, vars
  <2> HIDE DEF Ok
  <2> QED
    BY <1>4, <1>5, <2>1
<1> QED
  BY <1>6, <1>7

\* A confirmed event has an official reset behind it, whatever natural resets,
\* used cards, replaced accounts, late snapshots and drifting reports came in
\* between; the events it leaves out are those its definition excepts.  Reports
\* drift no further than the grace, two of them no further apart than
\* nativeWindowDriftTolerance.
THEOREM ConfirmedIsOfficial ==
  ASSUME 2 * Drift <= Tolerance, Drift <= Grace
  PROVE  Spec => []EventHasOfficialReset
<1> DEFINE IInv == StateOK /\ OrderInv /\ UsageInv /\ ResetInv /\ EventHasOfficialReset
<1>1. Init => IInv
  <2> SUFFICES ASSUME Init PROVE ResetInv /\ EventHasOfficialReset
    BY InitType, InitOrder, InitUsage
  <2>1. ~acct.init /\ w.pc # "read"
    BY DEF Init, NoWork
  <2>2. blind = 0 /\ now = 1 /\ begin = 1 /\ snap.begin = begin /\ snap.cards = cards
    BY DEF Init, Report
  <2>3. Shown.begin = begin /\ Shown.credits.set = cards
    BY <2>2 DEF Shown, Known
  <2>4. Explains(Shown, {})
    BY <2>2, <2>3 DEF Explains, Explained, NoNewCards
  <2>5. WindowsInv
    BY <2>1, <2>2 DEF WindowsInv, Begun
  <2> QED
    BY <2>1, <2>2, <2>4, <2>5 DEF ResetInv, EventHasOfficialReset, Init
<1>2. IInv /\ [Next]_vars => IInv'
  BY NextType, NextOrder, NextUsage, NextReset, NextOfficial
<1>3. IInv => EventHasOfficialReset
  OBVIOUS
<1> QED
  BY <1>1, <1>2, <1>3, PTL DEF Spec

============================================================================
