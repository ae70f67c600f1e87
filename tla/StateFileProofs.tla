-------------------------- MODULE StateFileProofs --------------------------
(***************************************************************************)
(* The state file across starts and upgrades: proofs of StateFile.tla's    *)
(* properties, for any accounts, windows, file versions and list length.   *)
(***************************************************************************)
EXTENDS StateFile, FiniteSetTheorems, SequenceTheorems, TLAPS

File == [version : Nat, cfg : Config, acc : [Accounts -> Account], events : Seq(Event)]

TypeInv ==
  /\ up \in BOOLEAN /\ mem \in File /\ disk \in File
  /\ win \in [Accounts -> Windows] /\ paid \in [Accounts \X Windows -> Nat]

\* What a file of the present version holds: no setting is missing, samples
\* are native, undo lasts a day, and no fuse is ahead of its account.
Current(f) ==
  /\ f.version = stateVersion
  /\ f.cfg.grace # "absent" /\ f.cfg.body # "absent"
  /\ \A a \in Accounts : f.acc[a].init => f.acc[a].native
  /\ \A k \in DOMAIN f.events : f.events[k].status = "succeeded" => f.events[k].life = "day"
  /\ \A a \in Accounts : f.acc[a].fuse <= win[a]

\* A window that reset somebody is not ahead of its account's fuse.
Covered(f) ==
  \A a \in Accounts : \A n \in Windows : paid[<<a, n>>] > 0 => n <= f.acc[a].fuse

\* A file of an older release has an event for every window that reset somebody.
Old(f) ==
  IF f.version = 0 THEN \A c \in Accounts \X Windows : paid[c] = 0
  ELSE /\ Older(f.version, f)
       /\ \A a \in Accounts : \A n \in Windows :
            paid[<<a, n>>] > 0 => \E k \in Effective(f.events, a) : f.events[k].win = n

\* The file's version decides what its content is worth; memory, in a process
\* that runs, is of the present version and ahead of the file.
StateInv ==
  /\ TypeInv /\ NoReplay
  /\ disk.version < stateVersion => Old(disk)
  /\ disk.version = stateVersion => Current(disk) /\ Covered(disk)
  /\ up => /\ disk.version = stateVersion /\ Current(mem)
           /\ \A a \in Accounts : disk.acc[a].fuse <= mem.acc[a].fuse

----------------------------------------------------------------------------
(* OpenStore's steps.                                                      *)

LEMMA LeastNatural ==
  ASSUME NEW T \in SUBSET Nat, T # {}
  PROVE  Min(T) \in T /\ \A b \in T : Min(T) <= b
<1> DEFINE R == {ss \in Nat \X Nat : ss[1] < ss[2]}
<1>1. IsWellFoundedOn(R, Nat)
  BY NatLessThanWellFounded DEF OpToRel
<1>2. \E a \in T : \A b \in T : ~(<<b, a>> \in R)
  <2> HIDE DEF R
  <2> QED
    BY <1>1, WFMin
<1>3. PICK a \in T : \A b \in T : ~(<<b, a>> \in R)
  BY <1>2
<1>4. \A b \in T : a <= b
  <2> SUFFICES ASSUME NEW b \in T, b < a PROVE FALSE
    BY <1>3
  <2> QED
    BY <1>3
<1> QED
  BY <1>4 DEF Min

LEMMA NewStateType ==
  NewState \in File /\ [NewState EXCEPT !.version = 0] \in File
<1>1. [grace |-> "default", body |-> "default"] \in Config
  BY DEF Config, Value
<1>2. [init |-> FALSE, native |-> FALSE, fuse |-> 0] \in Account
  BY StateFileAssumption DEF Account
<1>3. <<>> \in Seq(Event)
  OBVIOUS
<1> QED
  BY <1>1, <1>2, <1>3 DEF NewState, Empty, File, stateVersion

\* Below version 4 nothing counts as initialised; from 4 on every sample is
\* native (store.go, the first migration).
LEMMA RebaselinedFacts ==
  ASSUME NEW f \in File
  PROVE  /\ Rebaselined(f) \in File
         /\ Rebaselined(f).version = f.version /\ Rebaselined(f).events = f.events
         /\ Rebaselined(f).cfg = f.cfg
         /\ \A a \in Accounts :
              /\ Rebaselined(f).acc[a].fuse = f.acc[a].fuse
              /\ f.version > 3 => Rebaselined(f).acc[a] = f.acc[a]
              /\ f.version <= 3 => Rebaselined(f).acc[a].init = FALSE
<1>1. CASE f.version > 3
  BY <1>1 DEF Rebaselined, File
<1>2. CASE ~(f.version > 3)
  <2> DEFINE B == [a \in Accounts |-> [f.acc[a] EXCEPT !.init = FALSE]]
  <2>1. \A a \in Accounts : [f.acc[a] EXCEPT !.init = FALSE] \in Account
    BY DEF File, Account
  <2>2. \A a \in Accounts : B[a].fuse = f.acc[a].fuse
    BY DEF File, Account
  <2>3. \A a \in Accounts : B[a].init = FALSE
    BY Zenon DEF File, Account
  <2>4. B \in [Accounts -> Account]
    BY <2>1
  <2>5. Rebaselined(f) = [f EXCEPT !.acc = B]
    BY <1>2 DEF Rebaselined, File
  <2> HIDE DEF B
  <2>6. /\ Rebaselined(f) \in File /\ Rebaselined(f).acc = B
        /\ Rebaselined(f).version = f.version /\ Rebaselined(f).events = f.events
        /\ Rebaselined(f).cfg = f.cfg
    BY <2>4, <2>5 DEF File
  <2> QED
    BY <1>2, <2>2, <2>3, <2>6
<1> QED
  BY <1>1, <1>2

\* Version 5: what may be undone, may be for a day, and events stay what they
\* were about.
LEMMA UndoWindowFacts ==
  ASSUME NEW f \in File
  PROVE  /\ WithUndoWindow(f) \in File
         /\ WithUndoWindow(f).version = f.version /\ WithUndoWindow(f).acc = f.acc
         /\ WithUndoWindow(f).cfg = f.cfg
         /\ DOMAIN WithUndoWindow(f).events = DOMAIN f.events
         /\ \A k \in DOMAIN f.events :
              /\ WithUndoWindow(f).events[k].src = f.events[k].src
              /\ WithUndoWindow(f).events[k].win = f.events[k].win
              /\ WithUndoWindow(f).events[k].status = f.events[k].status
              /\ f.version > 4 => WithUndoWindow(f).events[k] = f.events[k]
              /\ f.version <= 4 /\ f.events[k].status = "succeeded" =>
                   WithUndoWindow(f).events[k].life = "day"
<1>1. CASE f.version > 4
  BY <1>1 DEF WithUndoWindow, File
<1>2. CASE ~(f.version > 4)
  <2> DEFINE E(k) == IF f.events[k].status = "succeeded"
                     THEN [f.events[k] EXCEPT !.life = "day"] ELSE f.events[k]
             B == [k \in DOMAIN f.events |-> E(k)]
  <2>0. f.events \in Seq(Event) /\ f.version \in Nat
    BY DEF File
  <2>1. ASSUME NEW k \in DOMAIN f.events
        PROVE  /\ E(k) \in Event /\ E(k).src = f.events[k].src /\ E(k).win = f.events[k].win
               /\ E(k).status = f.events[k].status
               /\ f.events[k].status = "succeeded" => E(k).life = "day"
    <3>1. f.events[k] \in Event
      BY <2>0
    <3> QED
      BY <3>1 DEF Event
  <2>2. B \in Seq(Event) /\ DOMAIN B = DOMAIN f.events
    <3>1. DOMAIN f.events = 1..Len(f.events) /\ Len(f.events) \in Nat
      BY <2>0
    <3> HIDE DEF E
    <3>2. B \in [1..Len(f.events) -> Event]
      BY <2>1, <3>1
    <3> QED
      BY <3>1, <3>2
  <2>3. WithUndoWindow(f) = [f EXCEPT !.events = B]
    BY <1>2 DEF WithUndoWindow, File
  <2>4. \A k \in DOMAIN f.events : B[k] = E(k)
    OBVIOUS
  <2> HIDE DEF B, E
  <2>5. /\ WithUndoWindow(f) \in File /\ WithUndoWindow(f).events = B
        /\ WithUndoWindow(f).version = f.version /\ WithUndoWindow(f).acc = f.acc
        /\ WithUndoWindow(f).cfg = f.cfg
    BY <2>2, <2>3 DEF File
  <2> QED
    BY <1>2, <2>0, <2>1, <2>2, <2>4, <2>5
<1> QED
  BY <1>1, <1>2

\* Version 6: where an event reset somebody, the fuse is of the newest of them;
\* as an older release's windows went up, none is after it.
LEMMA SeededFacts ==
  ASSUME NEW f \in File
  PROVE  /\ Seeded(f) \in File
         /\ Seeded(f).version = f.version /\ Seeded(f).events = f.events
         /\ Seeded(f).cfg = f.cfg
         /\ \A a \in Accounts :
              /\ f.version > 5 => Seeded(f).acc[a] = f.acc[a]
              /\ Seeded(f).acc[a].init = f.acc[a].init
              /\ Seeded(f).acc[a].native = f.acc[a].native
              /\ f.version <= 5 =>
                   /\ Effective(f.events, a) = {} => Seeded(f).acc[a].fuse = f.acc[a].fuse
                   /\ Effective(f.events, a) # {} =>
                        \E k \in Effective(f.events, a) :
                          /\ Seeded(f).acc[a].fuse = f.events[k].win
                          /\ \A j \in Effective(f.events, a) : k <= j
<1>0. f.events \in Seq(Event) /\ f.version \in Nat
  BY DEF File
<1>1. CASE f.version > 5
  BY <1>0, <1>1 DEF Seeded, File
<1>2. CASE ~(f.version > 5)
  <2> DEFINE first(a) == Min(Effective(f.events, a))
             S(a) == IF Effective(f.events, a) = {} THEN f.acc[a]
                     ELSE [f.acc[a] EXCEPT !.fuse = f.events[first(a)].win]
             B == [a \in Accounts |-> S(a)]
  <2>1. ASSUME NEW a \in Accounts, Effective(f.events, a) # {}
        PROVE  /\ first(a) \in Effective(f.events, a)
               /\ \A j \in Effective(f.events, a) : first(a) <= j
               /\ f.events[first(a)].win \in Windows
    <3>1. DOMAIN f.events \subseteq Nat /\ Effective(f.events, a) \subseteq DOMAIN f.events
      BY <1>0 DEF Effective
    <3>2. /\ first(a) \in Effective(f.events, a)
          /\ \A j \in Effective(f.events, a) : first(a) <= j
      BY <2>1, <3>1, LeastNatural
    <3> HIDE DEF first
    <3>3. f.events[first(a)] \in Event
      BY <1>0, <3>1, <3>2
    <3> QED
      BY <3>2, <3>3 DEF Event
  <2>2. ASSUME NEW a \in Accounts, Effective(f.events, a) # {}
        PROVE  S(a).fuse = f.events[first(a)].win /\ S(a) \in Account
    <3> DEFINE g == f.events[first(a)].win
    <3>1. g \in 0..MaxWindow /\ f.acc[a] \in Account
      BY <2>1, <2>2, StateFileAssumption DEF Windows, File
    <3>2. S(a) = [f.acc[a] EXCEPT !.fuse = g]
      BY <2>2
    <3> HIDE DEF g, S
    <3>3. S(a) \in Account /\ S(a).fuse = g
      BY <3>1, <3>2 DEF Account
    <3> QED
      BY <3>3 DEF g
  <2>3. ASSUME NEW a \in Accounts
        PROVE  S(a).init = f.acc[a].init /\ S(a).native = f.acc[a].native
    BY Zenon DEF File, Account
  <2>4. \A a \in Accounts : Effective(f.events, a) = {} => S(a) = f.acc[a]
    OBVIOUS
  <2>5. \A a \in Accounts : f.acc[a] \in Account
    BY DEF File
  <2>6. Seeded(f) = [f EXCEPT !.acc = B] /\ \A a \in Accounts : B[a] = S(a)
    BY <1>2 DEF Seeded, File
  <2> HIDE DEF S, first
  <2>7. B \in [Accounts -> Account]
    BY <2>2, <2>4, <2>5
  <2> HIDE DEF B
  <2>8. /\ Seeded(f) \in File /\ Seeded(f).acc = B
        /\ Seeded(f).version = f.version /\ Seeded(f).events = f.events
        /\ Seeded(f).cfg = f.cfg
    BY <2>6, <2>7 DEF File
  <2>9. ASSUME NEW a \in Accounts, Effective(f.events, a) # {}
        PROVE  \E k \in Effective(f.events, a) :
                 /\ B[a].fuse = f.events[k].win
                 /\ \A j \in Effective(f.events, a) : k <= j
    BY <2>1, <2>2, <2>6, <2>9
  <2>10. \A a \in Accounts : Effective(f.events, a) = {} => B[a] = f.acc[a]
    BY <2>4, <2>6
  <2>11. \A a \in Accounts : B[a].init = f.acc[a].init /\ B[a].native = f.acc[a].native
    BY <2>3, <2>6
  <2> QED
    BY <1>0, <1>2, <2>8, <2>9, <2>10, <2>11
<1> QED
  BY <1>1, <1>2

LEMMA WithDefaultsFacts ==
  ASSUME NEW c \in Config
  PROVE  /\ WithDefaults(c) \in Config
         /\ WithDefaults(c).grace # "absent" /\ WithDefaults(c).body # "absent"
BY DEF WithDefaults, Config, Value

\* The steps together, as far as accounts and events go.
Migrated(f) == Seeded(WithUndoWindow(Rebaselined(f)))

LEMMA LoadParts ==
  ASSUME NEW f \in File, f.version # 0
  PROVE  /\ Migrated(f) \in File /\ Load(f) \in File
         /\ Load(f).version = stateVersion /\ Load(f).cfg = WithDefaults(f.cfg)
         /\ Load(f).acc = Migrated(f).acc /\ Load(f).events = Migrated(f).events
<1> DEFINE g == Migrated(f)
<1>1. g \in File /\ g.cfg = f.cfg
  <2> DEFINE r == Rebaselined(f)
             u == WithUndoWindow(r)
  <2>1. r \in File /\ r.cfg = f.cfg
    BY RebaselinedFacts
  <2> HIDE DEF r
  <2>2. u \in File /\ u.cfg = f.cfg
    BY <2>1, UndoWindowFacts
  <2> HIDE DEF u
  <2>3. Seeded(u) \in File /\ Seeded(u).cfg = f.cfg
    BY <2>2, SeededFacts
  <2> QED
    BY <2>3 DEF Migrated, u, r
<1>2. Load(f) = [g EXCEPT !.cfg = WithDefaults(@), !.version = stateVersion]
  BY DEF Load, Migrated
<1>3. WithDefaults(g.cfg) \in Config /\ stateVersion \in Nat
  BY <1>1, WithDefaultsFacts DEF File, stateVersion
<1> HIDE DEF g
<1>4. /\ Load(f) \in File /\ Load(f).version = stateVersion
      /\ Load(f).cfg = WithDefaults(g.cfg)
      /\ Load(f).acc = g.acc /\ Load(f).events = g.events
  BY <1>1, <1>2, <1>3 DEF File
<1> QED
  BY <1>1, <1>4 DEF g

\* A file of the present version is used as it is.
LEMMA LoadPresent ==
  ASSUME NEW f \in File, f.version = stateVersion
  PROVE  Load(f).acc = f.acc /\ Load(f).events = f.events
<1>1. f.version > 3 /\ f.version > 4 /\ f.version > 5 /\ f.version # 0
  BY DEF stateVersion
<1>2. Migrated(f) = f
  BY <1>1 DEF Migrated, Seeded, WithUndoWindow, Rebaselined
<1> QED
  BY <1>1, <1>2, LoadParts

LEMMA LoadNew ==
  ASSUME NEW f \in File, f.version = 0, TypeInv, Old(f)
  PROVE  Load(f) \in File /\ Current(Load(f)) /\ Covered(Load(f))
<1>1. Load(f) = NewState /\ NewState \in File
  BY NewStateType DEF Load
<1>2. Current(NewState)
  <2>1. /\ NewState.version = stateVersion
        /\ NewState.cfg.grace # "absent" /\ NewState.cfg.body # "absent"
        /\ DOMAIN NewState.events = {} /\ \A a \in Accounts : NewState.acc[a].fuse = 0
    BY DEF NewState, Empty
  <2>2. \A a \in Accounts : NewState.acc[a].init = FALSE
    BY Zenon DEF NewState, Empty
  <2>3. \A a \in Accounts : 0 <= win[a]
    BY DEF TypeInv, Windows
  <2> QED
    BY <2>1, <2>2, <2>3 DEF Current
<1>3. \A c \in Accounts \X Windows : paid[c] = 0
  BY DEF Old
<1>4. \A a \in Accounts : \A n \in Windows : ~(paid[<<a, n>>] > 0)
  BY <1>3
<1> QED
  BY <1>1, <1>2, <1>4 DEF Covered

\* A file of an older release becomes one of the present version.
LEMMA LoadOld ==
  ASSUME NEW f \in File, f.version # 0, f.version < stateVersion, TypeInv, Old(f)
  PROVE  Load(f) \in File /\ Current(Load(f)) /\ Covered(Load(f))
<1> DEFINE r == Rebaselined(f)
           u == WithUndoWindow(r)
           g == Seeded(u)
<1>1. f.version \in Nat /\ f.version <= 5 /\ f.version > 0 /\ f.events \in Seq(Event)
  BY DEF File, stateVersion
<1>2. /\ r \in File /\ r.version = f.version /\ r.events = f.events
      /\ \A a \in Accounts : /\ r.acc[a].fuse = f.acc[a].fuse
                             /\ f.version > 3 => r.acc[a] = f.acc[a]
                             /\ f.version <= 3 => r.acc[a].init = FALSE
  BY RebaselinedFacts
<1> HIDE DEF r
<1>3. /\ u \in File /\ u.version = f.version /\ u.acc = r.acc
      /\ DOMAIN u.events = DOMAIN f.events
      /\ \A k \in DOMAIN f.events :
           /\ u.events[k].src = f.events[k].src /\ u.events[k].win = f.events[k].win
           /\ u.events[k].status = f.events[k].status
           /\ f.version > 4 => u.events[k] = f.events[k]
           /\ f.version <= 4 /\ f.events[k].status = "succeeded" => u.events[k].life = "day"
  BY <1>2, UndoWindowFacts
<1> HIDE DEF u
<1>4. /\ g \in File /\ g.events = u.events
      /\ \A a \in Accounts :
           /\ g.acc[a].init = u.acc[a].init /\ g.acc[a].native = u.acc[a].native
           /\ Effective(u.events, a) = {} => g.acc[a].fuse = u.acc[a].fuse
           /\ Effective(u.events, a) # {} =>
                \E k \in Effective(u.events, a) :
                  /\ g.acc[a].fuse = u.events[k].win
                  /\ \A j \in Effective(u.events, a) : k <= j
  BY <1>1, <1>3, SeededFacts
<1> HIDE DEF g
<1>5. /\ Load(f) \in File /\ Load(f).version = stateVersion
      /\ Load(f).cfg = WithDefaults(f.cfg) /\ Load(f).acc = g.acc /\ Load(f).events = g.events
  BY LoadParts DEF Migrated, g, u, r
<1>6. /\ \A a \in Accounts : f.acc[a].native = (f.version >= 4) /\ f.acc[a].fuse = 0
      /\ \A k \in DOMAIN f.events :
           /\ f.events[k].win <= win[f.events[k].src]
           /\ f.events[k].life = "day" \/ (f.version <= 4 /\ f.events[k].status # "failed")
           /\ \A j \in 1..(k - 1) : f.events[j].src = f.events[k].src
                                      => f.events[j].win >= f.events[k].win
  BY DEF Old, Older
<1>7. \A a \in Accounts : Effective(u.events, a) = Effective(f.events, a)
  BY <1>3 DEF Effective
<1>8. Load(f).cfg.grace # "absent" /\ Load(f).cfg.body # "absent"
  BY <1>5, WithDefaultsFacts DEF File
<1>9. ASSUME NEW a \in Accounts PROVE g.acc[a].init => g.acc[a].native
  <2>1. CASE f.version <= 3
    BY <1>2, <1>3, <1>4, <2>1
  <2>2. CASE f.version > 3
    <3>1. f.version >= 4
      BY <1>1, <2>2
    <3>2. f.acc[a].native = TRUE
      BY <1>6, <3>1
    <3>3. g.acc[a].native = f.acc[a].native
      BY <1>2, <1>3, <1>4, <2>2
    <3> QED
      BY <3>2, <3>3
  <2> QED
    BY <1>1, <2>1, <2>2
<1>10. ASSUME NEW k \in DOMAIN g.events, g.events[k].status = "succeeded"
       PROVE  g.events[k].life = "day"
  BY <1>1, <1>3, <1>4, <1>6, <1>10
<1>11. ASSUME NEW a \in Accounts PROVE g.acc[a].fuse <= win[a]
  <2>1. win[a] \in Nat
    BY DEF TypeInv, Windows
  <2>2. CASE Effective(u.events, a) = {}
    BY <1>2, <1>3, <1>4, <1>6, <2>1, <2>2
  <2>3. CASE Effective(u.events, a) # {}
    <3>1. PICK k \in Effective(u.events, a) : g.acc[a].fuse = u.events[k].win
      BY <1>4, <2>3
    <3>2. k \in DOMAIN f.events /\ f.events[k].src = a
      BY <1>3, <3>1 DEF Effective
    <3> QED
      BY <1>3, <1>6, <3>1, <3>2
  <2> QED
    BY <2>2, <2>3
<1>12. ASSUME NEW a \in Accounts, NEW n \in Windows, paid[<<a, n>>] > 0
       PROVE  n <= g.acc[a].fuse
  <2>1. PICK k \in Effective(f.events, a) : f.events[k].win = n
    BY <1>1, <1>12 DEF Old
  <2>2. PICK m \in Effective(u.events, a) :
          g.acc[a].fuse = u.events[m].win /\ \A j \in Effective(u.events, a) : m <= j
    BY <1>4, <1>7, <2>1
  <2>3. /\ m \in DOMAIN f.events /\ k \in DOMAIN f.events /\ m <= k
        /\ f.events[m].src = a /\ f.events[k].src = a /\ u.events[m].win = f.events[m].win
    BY <1>3, <1>7, <2>1, <2>2 DEF Effective
  <2>4. m \in Nat /\ k \in Nat /\ m >= 1 /\ n \in Nat
    BY <1>1, <2>3 DEF Windows
  <2>5. CASE m = k
    BY <2>1, <2>2, <2>3, <2>4, <2>5
  <2>6. CASE m # k
    <3>1. m \in 1..(k - 1)
      BY <2>3, <2>4, <2>6
    <3>2. f.events[m].win >= f.events[k].win
      BY <1>6, <2>3, <3>1
    <3> QED
      BY <2>1, <2>2, <2>3, <3>2
  <2> QED
    BY <2>5, <2>6
<1> QED
  BY <1>5, <1>8, <1>9, <1>10, <1>11, <1>12 DEF Current, Covered

----------------------------------------------------------------------------
(* The steps.                                                              *)

LEMMA InitState == Init => StateInv
<1> SUFFICES ASSUME Init PROVE StateInv
  OBVIOUS
<1>1. PICK v \in Versions :
        \/ v = 0 /\ disk = [NewState EXCEPT !.version = 0]
        \/ /\ v > 0
           /\ disk \in [version : {v}, cfg : OldConfigs,
                        acc : [Accounts -> [init : BOOLEAN, native : {v >= 4}, fuse : {0}]],
                        events : UNION {[1..m -> Event] : m \in 0..MaxEvents}]
           /\ Older(v, disk)
  BY DEF Init
<1>2. /\ up = FALSE /\ win \in [Accounts -> Windows] /\ mem = disk /\ v \in Nat \ {6}
      /\ paid = [c \in Accounts \X Windows |->
           IF \E k \in Effective(disk.events, c[1]) : disk.events[k].win = c[2] THEN 1 ELSE 0]
  BY StateFileAssumption DEF Init
<1>3. disk \in File /\ disk.version = v
  <2>1. CASE v = 0 /\ disk = [NewState EXCEPT !.version = 0]
    <3>1. disk.version = 0
      BY <2>1 DEF NewState, Empty
    <3> QED
      BY <2>1, <3>1, NewStateType
  <2>2. CASE disk \in [version : {v}, cfg : OldConfigs,
                       acc : [Accounts -> [init : BOOLEAN, native : {v >= 4}, fuse : {0}]],
                       events : UNION {[1..m -> Event] : m \in 0..MaxEvents}]
    <3>1. OldConfigs \subseteq Config
      BY DEF OldConfigs, Config, Value
    <3>2. [init : BOOLEAN, native : {v >= 4}, fuse : {0}] \subseteq Account
      <4>1. (v >= 4) \in BOOLEAN /\ 0 \in 0..MaxWindow
        BY StateFileAssumption
      <4> QED
        BY <4>1 DEF Account
    <3>3. ASSUME NEW m \in 0..MaxEvents PROVE [1..m -> Event] \subseteq Seq(Event)
      <4>1. m \in Nat
        BY StateFileAssumption
      <4> QED
        BY <4>1
    <3>4. disk.version = v /\ disk.cfg \in Config /\ disk.events \in Seq(Event)
      BY <2>2, <3>1, <3>3
    <3>5. disk.acc \in [Accounts -> Account]
      BY <2>2, <3>2
    <3> QED
      BY <1>2, <2>2, <3>4, <3>5 DEF File
  <2> QED
    BY <1>1, <2>1, <2>2
<1>4. ASSUME NEW c \in Accounts \X Windows
      PROVE  /\ paid[c] \in Nat /\ paid[c] <= 1
             /\ paid[c] > 0 => \E k \in Effective(disk.events, c[1]) : disk.events[k].win = c[2]
  BY <1>2
<1>5. TypeInv
  BY <1>2, <1>3, <1>4 DEF TypeInv
<1>6. Old(disk)
  <2>1. CASE v = 0
    <3>1. disk.events = <<>>
      BY <1>1, <2>1 DEF NewState, Empty
    <3>2. \A c \in Accounts \X Windows : Effective(disk.events, c[1]) = {}
      BY <3>1 DEF Effective
    <3>3. \A c \in Accounts \X Windows : paid[c] = 0
      BY <1>4, <3>2
    <3> QED
      BY <1>3, <2>1, <3>3 DEF Old
  <2>2. CASE v # 0
    <3>1. Older(disk.version, disk)
      BY <1>1, <1>3, <2>2
    <3>2. ASSUME NEW a \in Accounts, NEW n \in Windows, paid[<<a, n>>] > 0
          PROVE  \E k \in Effective(disk.events, a) : disk.events[k].win = n
      <4> DEFINE c == <<a, n>>
      <4>1. c \in Accounts \X Windows /\ c[1] = a /\ c[2] = n
        OBVIOUS
      <4> HIDE DEF c
      <4>2. paid[c] > 0
        BY <3>2 DEF c
      <4> QED
        BY <1>4, <4>1, <4>2
    <3> QED
      BY <1>3, <2>2, <3>1, <3>2 DEF Old
  <2> QED
    BY <2>1, <2>2
<1> QED
  BY <1>2, <1>3, <1>4, <1>5, <1>6 DEF StateInv, NoReplay, stateVersion

\* A step in a running process: the whole of a present memory is saved or not.
LEMMA SaveState ==
  ASSUME StateInv, up, UNCHANGED <<up, win, paid>>, NEW f \in File, Current(f), Save(f),
         \A a \in Accounts : f.acc[a].fuse = mem.acc[a].fuse
  PROVE  StateInv'
<1>1. mem' = f /\ (disk' = f \/ disk' = disk)
  BY DEF Save
<1>2. /\ disk.version = stateVersion /\ Covered(disk) /\ Current(disk)
      /\ \A a \in Accounts : /\ disk.acc[a].fuse <= mem.acc[a].fuse
                             /\ disk.acc[a].fuse \in Nat /\ mem.acc[a].fuse \in Nat
  BY DEF StateInv, TypeInv, File, Account
<1>3. Covered(f)
  BY <1>2 DEF Covered, Windows
<1>4. TypeInv' /\ NoReplay'
  BY <1>1 DEF StateInv, TypeInv, NoReplay
<1>5. f.version = stateVersion
  BY DEF Current
<1> QED
  BY <1>1, <1>2, <1>3, <1>4, <1>5 DEF StateInv, Current, Covered, stateVersion

LEMMA StartState == ASSUME StateInv, Start PROVE StateInv'
<1> DEFINE f == Load(disk)
<1>1. /\ disk \in File /\ disk.version \in Nat /\ disk.version <= stateVersion
      /\ up' = TRUE /\ mem' = f /\ UNCHANGED <<win, paid>>
      /\ \/ disk.version = stateVersion /\ disk' = disk
         \/ disk.version < stateVersion /\ disk' = f
  BY DEF Start, StateInv, TypeInv, File
<1>2. f \in File /\ f.version = stateVersion /\ Current(f) /\ Covered(f)
  <2>1. CASE disk.version < stateVersion
    BY <1>1, <2>1, LoadNew, LoadOld DEF StateInv, Current
  <2>2. CASE disk.version = stateVersion
    <3>1. disk.version # 0 /\ Current(disk) /\ Covered(disk)
      BY <2>2 DEF stateVersion, StateInv
    <3>2. /\ f \in File /\ f.version = stateVersion /\ f.cfg = WithDefaults(disk.cfg)
          /\ f.acc = disk.acc /\ f.events = disk.events
      BY <1>1, <2>2, <3>1, LoadParts, LoadPresent
    <3> HIDE DEF f
    <3>3. f.cfg.grace # "absent" /\ f.cfg.body # "absent"
      BY <1>1, <3>2, WithDefaultsFacts DEF File
    <3> QED
      BY <3>1, <3>2, <3>3 DEF Current, Covered
  <2> QED
    BY <1>1, <2>1, <2>2 DEF stateVersion
<1>3. CASE disk.version = stateVersion /\ disk' = disk
  <2>1. \A a \in Accounts : disk.acc[a].fuse <= f.acc[a].fuse
    <3>1. f.acc = disk.acc
      BY <1>1, <1>3, LoadPresent
    <3> QED
      BY <1>1, <3>1 DEF File, Account
  <2>2. Current(disk) /\ Covered(disk)
    BY <1>3 DEF StateInv
  <2> HIDE DEF f
  <2> QED
    BY <1>1, <1>2, <1>3, <2>1, <2>2 DEF StateInv, TypeInv, NoReplay, Current, Covered, stateVersion
<1>4. CASE disk' = f
  <2>1. \A a \in Accounts : f.acc[a].fuse <= f.acc[a].fuse
    BY <1>2 DEF File, Account
  <2> HIDE DEF f
  <2> QED
    BY <1>1, <1>2, <1>4, <2>1 DEF StateInv, TypeInv, NoReplay, Current, Covered, stateVersion
<1> QED
  BY <1>1, <1>3, <1>4

LEMMA SettleState ==
  ASSUME StateInv, (\E c \in Config : SetConfig(c)) \/ \E a \in Accounts : PollSettles(a)
  PROVE  StateInv'
<1>1. mem \in File /\ (up => Current(mem))
  BY DEF StateInv, TypeInv
<1>2. ASSUME NEW c \in Config, SetConfig(c) PROVE StateInv'
  <2> DEFINE f == [mem EXCEPT !.cfg = c]
  <2>1. /\ up /\ UNCHANGED <<up, win, paid>> /\ Save(f)
        /\ c.grace # "absent" /\ c.body # "absent"
    BY <1>2 DEF SetConfig
  <2>2. /\ f \in File /\ f.version = mem.version /\ f.acc = mem.acc
        /\ f.events = mem.events /\ f.cfg = c
    BY <1>1 DEF File
  <2> HIDE DEF f
  <2>3. Current(f)
    BY <1>1, <2>1, <2>2 DEF Current
  <2> QED
    BY <2>1, <2>2, <2>3, SaveState
<1>3. ASSUME NEW a \in Accounts, PollSettles(a) PROVE StateInv'
  <2> DEFINE s == [mem.acc[a] EXCEPT !.init = TRUE, !.native = TRUE]
             B == [mem.acc EXCEPT ![a] = s]
             f == [mem EXCEPT !.acc = B]
  <2>0. mem.acc \in [Accounts -> Account] /\ mem.acc[a] \in Account
    BY <1>1 DEF File
  <2>1. up /\ UNCHANGED <<up, win, paid>> /\ Save(f)
    BY <1>3 DEF PollSettles
  <2>2. s \in Account /\ s.fuse = mem.acc[a].fuse
    BY <2>0 DEF Account
  <2>3. s.native = TRUE
    BY <2>0, Zenon DEF Account
  <2> HIDE DEF s
  <2>4. /\ B \in [Accounts -> Account] /\ B[a] = s
        /\ \A b \in Accounts : b # a => B[b] = mem.acc[b]
    BY <2>0, <2>2
  <2> HIDE DEF B
  <2>5. /\ f \in File /\ f.version = mem.version /\ f.acc = B
        /\ f.events = mem.events /\ f.cfg = mem.cfg
    BY <1>1, <2>4 DEF File
  <2> HIDE DEF f
  <2>6. \A b \in Accounts : f.acc[b].fuse = mem.acc[b].fuse
    BY <2>2, <2>4, <2>5
  <2>7. \A b \in Accounts : f.acc[b].init => f.acc[b].native
    <3> SUFFICES ASSUME NEW b \in Accounts PROVE f.acc[b].init => f.acc[b].native
      OBVIOUS
    <3>1. CASE b = a
      BY <2>3, <2>4, <2>5, <3>1
    <3>2. CASE b # a
      BY <1>1, <2>1, <2>4, <2>5, <3>2 DEF Current
    <3> QED
      BY <3>1, <3>2
  <2>8. Current(f)
    BY <1>1, <2>1, <2>5, <2>6, <2>7 DEF Current
  <2> QED
    BY <2>1, <2>5, <2>6, <2>8, SaveState
<1> QED
  BY <1>2, <1>3

\* The event list after an event is put in front and the oldest dropped.
Prepended(q, e) ==
  <<e>> \o (IF Len(q) < MaxEvents THEN q ELSE SubSeq(q, 1, MaxEvents - 1))

LEMMA PrependedEvents ==
  ASSUME NEW q \in Seq(Event), NEW e \in Event
  PROVE  /\ Prepended(q, e) \in Seq(Event)
         /\ \A k \in DOMAIN Prepended(q, e) :
              \/ Prepended(q, e)[k] = e
              \/ \E j \in DOMAIN q : Prepended(q, e)[k] = q[j]
<1> DEFINE kept == IF Len(q) < MaxEvents THEN q ELSE SubSeq(q, 1, MaxEvents - 1)
<1>1. kept \in Seq(Event) /\ \A j \in DOMAIN kept : j \in DOMAIN q /\ kept[j] = q[j]
  <2>1. CASE Len(q) < MaxEvents
    BY <2>1
  <2>2. CASE ~(Len(q) < MaxEvents)
    <3> DEFINE m == MaxEvents - 1
    <3>1. m \in Nat /\ m <= Len(q) /\ Len(q) \in Nat
      BY <2>2, StateFileAssumption
    <3> HIDE DEF m
    <3>2. kept = SubSeq(q, 1, m)
      BY <2>2 DEF m
    <3>3. \A j \in 1..m : j \in DOMAIN q /\ q[j] \in Event
      BY <3>1
    <3>4. m \in 0..Len(q)
      BY <3>1
    <3>5. kept = Restrict(q, 1..m)
      BY <3>2, <3>4, SubSeqRestrict
    <3>6. kept = [j \in 1..m |-> q[j]]
      BY <3>5 DEF Restrict
    <3>7. kept \in Seq(Event) /\ DOMAIN kept = 1..m /\ \A j \in 1..m : kept[j] = q[j]
      <4>1. kept \in [1..m -> Event] /\ \A j \in 1..m : kept[j] = q[j]
        BY <3>3, <3>6
      <4>2. m \in Nat
        BY <3>1
      <4>3. [1..m -> Event] \subseteq Seq(Event)
        BY <4>2
      <4> QED
        BY <4>1, <4>3
    <3> QED
      BY <3>3, <3>7
  <2> QED
    BY <2>1, <2>2
<1> HIDE DEF kept
<1>2. <<e>> \o kept \in Seq(Event) /\ Len(<<e>> \o kept) = 1 + Len(kept) /\ Len(kept) \in Nat
  BY <1>1
<1>3. ASSUME NEW k \in 1..(1 + Len(kept))
      PROVE  \/ (<<e>> \o kept)[k] = e
             \/ \E j \in DOMAIN q : (<<e>> \o kept)[k] = q[j]
  <2>1. CASE k = 1
    BY <1>1, <2>1
  <2>2. CASE k # 1
    <3>1. k - 1 \in DOMAIN kept /\ (<<e>> \o kept)[k] = kept[k - 1]
      BY <1>1, <1>2, <2>2
    <3> QED
      BY <1>1, <3>1
  <2> QED
    BY <2>1, <2>2
<1>4. Prepended(q, e) = <<e>> \o kept
  BY DEF Prepended, kept
<1> QED
  BY <1>2, <1>3, <1>4

\* A confirmed window: the fuse was behind, so that nobody was reset for it.
LEMMA ConfirmState == ASSUME StateInv, NEW a \in Accounts, Confirm(a) PROVE StateInv'
<1> DEFINE s     == [mem.acc[a] EXCEPT !.fuse = win[a]]
           B     == [mem.acc EXCEPT ![a] = s]
           fused == [mem EXCEPT !.acc = B]
           e(st) == [src |-> a, win |-> win[a], status |-> st, life |-> "day"]
           both(st) == [fused EXCEPT !.events = Prepended(mem.events, e(st))]
<1>0. /\ mem \in File /\ disk \in File /\ mem.acc \in [Accounts -> Account]
      /\ mem.acc[a] \in Account /\ mem.events \in Seq(Event) /\ disk.version = stateVersion
      /\ win \in [Accounts -> Windows] /\ win[a] \in Windows
      /\ paid \in [Accounts \X Windows -> Nat] /\ up /\ Current(mem)
      /\ Covered(disk) /\ Current(disk) /\ NoReplay
      /\ \A b \in Accounts : /\ disk.acc[b].fuse <= mem.acc[b].fuse
                             /\ disk.acc[b].fuse \in Nat /\ mem.acc[b].fuse \in Nat
                             /\ win[b] \in Nat
  BY DEF Confirm, StateInv, TypeInv, File, Account, Windows
<1>1. PICK st \in {"failed", "succeeded"} :
        /\ mem' = both(st)
        /\ \/ /\ disk' = both(st)
              /\ paid' = IF st = "succeeded" THEN [paid EXCEPT ![<<a, win[a]>>] = @ + 1] ELSE paid
           \/ disk' \in {fused, disk} /\ paid' = paid
  BY DEF Confirm, Prepended
<1>2. mem.acc[a].fuse # win[a] /\ up' = up /\ win' = win
  BY DEF Confirm
<1>3. s \in Account /\ s.fuse = win[a]
  <2>1. win[a] \in 0..MaxWindow
    BY <1>0, StateFileAssumption DEF Windows
  <2> QED
    BY <1>0, <2>1 DEF Account
<1>4. s.init = mem.acc[a].init /\ s.native = mem.acc[a].native
  BY <1>0, Zenon DEF Account
<1> HIDE DEF s
<1>5. B \in [Accounts -> Account] /\ B[a] = s /\ \A b \in Accounts : b # a => B[b] = mem.acc[b]
  BY <1>0, <1>3
<1> HIDE DEF B
<1>6. /\ fused \in File /\ fused.version = mem.version /\ fused.cfg = mem.cfg
      /\ fused.acc = B /\ fused.events = mem.events
  BY <1>0, <1>5 DEF File
<1> HIDE DEF fused
<1>7. e(st) \in Event /\ e(st).life = "day"
  BY <1>0 DEF Event
<1> HIDE DEF e
<1>8. /\ Prepended(mem.events, e(st)) \in Seq(Event)
      /\ \A k \in DOMAIN Prepended(mem.events, e(st)) :
           \/ Prepended(mem.events, e(st))[k] = e(st)
           \/ \E j \in DOMAIN mem.events : Prepended(mem.events, e(st))[k] = mem.events[j]
  BY <1>0, <1>7, PrependedEvents
<1> DEFINE q == Prepended(mem.events, e(st))
<1> HIDE DEF q
<1>9. /\ both(st) \in File /\ both(st).version = mem.version /\ both(st).cfg = mem.cfg
      /\ both(st).acc = B /\ both(st).events = q
  BY <1>6, <1>8 DEF File, q
<1> HIDE DEF both
<1>10. \A b \in Accounts : /\ B[b].fuse <= win[b] /\ mem.acc[b].fuse <= B[b].fuse
                           /\ B[b].fuse \in Nat
  <2> SUFFICES ASSUME NEW b \in Accounts
               PROVE  B[b].fuse <= win[b] /\ mem.acc[b].fuse <= B[b].fuse /\ B[b].fuse \in Nat
    OBVIOUS
  <2>1. /\ mem.acc[b].fuse <= win[b] /\ win[b] \in Nat /\ mem.acc[b].fuse \in Nat
    BY <1>0 DEF Current
  <2>2. B[b].fuse = IF b = a THEN win[b] ELSE mem.acc[b].fuse
    BY <1>3, <1>5
  <2> QED
    BY <2>1, <2>2
<1>11. \A b \in Accounts : B[b].init => B[b].native
  <2> SUFFICES ASSUME NEW b \in Accounts PROVE B[b].init => B[b].native
    OBVIOUS
  <2>1. mem.acc[b].init => mem.acc[b].native
    BY <1>0 DEF Current
  <2>2. CASE b = a
    BY <1>4, <1>5, <2>1, <2>2
  <2>3. CASE b # a
    BY <1>5, <2>1, <2>3
  <2> QED
    BY <2>2, <2>3
<1>12. Current(fused) /\ Current(both(st))
  <2>1. \A k \in DOMAIN mem.events :
          mem.events[k].status = "succeeded" => mem.events[k].life = "day"
    BY <1>0 DEF Current
  <2>2. \A k \in DOMAIN q : q[k].status = "succeeded" => q[k].life = "day"
    BY <1>7, <1>8, <2>1 DEF q
  <2>3. /\ mem.version = stateVersion /\ mem.cfg.grace # "absent" /\ mem.cfg.body # "absent"
    BY <1>0 DEF Current
  <2>4. Current(fused)
    BY <1>6, <1>10, <1>11, <2>1, <2>3 DEF Current
  <2>5. Current(both(st))
    BY <1>9, <1>10, <1>11, <2>2, <2>3 DEF Current
  <2> QED
    BY <2>4, <2>5
<1>13. \A b \in Accounts : /\ disk.acc[b].fuse <= disk'.acc[b].fuse
                           /\ disk'.acc[b].fuse <= B[b].fuse
                           /\ disk.acc[b].fuse \in Nat /\ disk'.acc[b].fuse \in Nat
  <2> SUFFICES ASSUME NEW b \in Accounts
               PROVE  /\ disk.acc[b].fuse <= disk'.acc[b].fuse
                      /\ disk'.acc[b].fuse <= B[b].fuse
                      /\ disk.acc[b].fuse \in Nat /\ disk'.acc[b].fuse \in Nat
    OBVIOUS
  <2>1. disk'.acc = B \/ disk' = disk
    BY <1>1, <1>6, <1>9
  <2>2. /\ disk.acc[b].fuse <= mem.acc[b].fuse /\ mem.acc[b].fuse <= B[b].fuse
        /\ disk.acc[b].fuse \in Nat /\ mem.acc[b].fuse \in Nat /\ B[b].fuse \in Nat
    BY <1>0, <1>10
  <2>3. disk'.acc[b] = B[b] \/ disk'.acc[b] = disk.acc[b]
    BY <2>1
  <2> QED
    BY <2>2, <2>3
<1>14. ASSUME NEW b \in Accounts, NEW n \in Windows, paid[<<b, n>>] > 0
       PROVE  n <= disk.acc[b].fuse
  BY <1>0, <1>14 DEF Covered
<1>15. paid[<<a, win[a]>>] = 0
  <2>1. disk.acc[a].fuse < win[a]
    <3>1. mem.acc[a].fuse <= win[a]
      BY <1>0 DEF Current
    <3> QED
      BY <1>0, <1>2, <3>1
  <2>2. ~(paid[<<a, win[a]>>] > 0)
    BY <1>0, <1>14, <2>1
  <2>3. <<a, win[a]>> \in Accounts \X Windows
    BY <1>0
  <2>4. paid[<<a, win[a]>>] \in Nat
    BY <1>0, <2>3
  <2> QED
    BY <2>2, <2>4
<1>16. paid' \in [Accounts \X Windows -> Nat] /\ NoReplay'
  <2>1. CASE paid' = paid
    BY <1>0, <2>1 DEF NoReplay
  <2>2. CASE paid' = [paid EXCEPT ![<<a, win[a]>>] = @ + 1]
    BY <1>0, <1>15, <2>2 DEF NoReplay
  <2> QED
    BY <1>1, <2>1, <2>2
<1>17. Covered(disk)'
  <2> SUFFICES ASSUME NEW b \in Accounts, NEW n \in Windows, paid'[<<b, n>>] > 0
               PROVE  n <= disk'.acc[b].fuse
    BY DEF Covered
  <2>1. n \in Nat /\ <<b, n>> \in Accounts \X Windows
    BY DEF Windows
  <2>2. CASE paid[<<b, n>>] > 0
    BY <1>13, <1>14, <2>1, <2>2
  <2>3. CASE ~(paid[<<b, n>>] > 0)
    <3>1. /\ disk' = both(st) /\ paid' = [paid EXCEPT ![<<a, win[a]>>] = @ + 1]
      BY <1>1, <2>3
    <3>2. <<b, n>> = <<a, win[a]>>
      BY <1>0, <2>1, <2>3, <3>1
    <3>3. b = a /\ n = win[a]
      BY <3>2
    <3> QED
      BY <1>0, <1>3, <1>5, <1>9, <3>1, <3>3
  <2> QED
    BY <2>2, <2>3
<1>18. disk' \in File /\ disk'.version = stateVersion /\ Current(disk)'
  BY <1>0, <1>1, <1>2, <1>6, <1>9, <1>12 DEF Current
<1>19. mem' \in File /\ Current(mem)' /\ \A b \in Accounts : disk'.acc[b].fuse <= mem'.acc[b].fuse
  <2>1. mem' \in File /\ mem'.acc = B /\ Current(mem)'
    BY <1>1, <1>2, <1>9, <1>12 DEF Current
  <2>2. \A b \in Accounts : disk'.acc[b].fuse <= mem'.acc[b].fuse
    BY <1>13, <2>1
  <2> QED
    BY <2>1, <2>2
<1> QED
  BY <1>0, <1>2, <1>16, <1>17, <1>18, <1>19 DEF StateInv, TypeInv, stateVersion

\* An official reset only moves an account ahead of what is recorded of it.
LEMMA OfficialState == ASSUME StateInv, NEW a \in Accounts, OfficialReset(a) PROVE StateInv'
<1>1. /\ UNCHANGED <<up, mem, disk, paid>> /\ win \in [Accounts -> Windows]
      /\ win' = [win EXCEPT ![a] = @ + 1] /\ win[a] < MaxWindow
      /\ disk \in File /\ mem \in File
  BY DEF OfficialReset, StateInv, TypeInv
<1>2. \A b \in Accounts : win[b] \in Nat /\ win'[b] \in Nat /\ win[b] <= win'[b]
  BY <1>1 DEF Windows
<1>3. win' \in [Accounts -> Windows]
  <2>1. win[a] + 1 \in Windows
    BY <1>1, StateFileAssumption DEF Windows
  <2> QED
    BY <1>1, <2>1
<1>4. TypeInv' /\ NoReplay'
  BY <1>1, <1>3 DEF StateInv, TypeInv, NoReplay
<1>5. ASSUME NEW f \in File, Current(f)
      PROVE  /\ f.version = stateVersion
             /\ f.cfg.grace # "absent" /\ f.cfg.body # "absent"
             /\ \A b \in Accounts : f.acc[b].init => f.acc[b].native
             /\ \A k \in DOMAIN f.events :
                  f.events[k].status = "succeeded" => f.events[k].life = "day"
             /\ \A b \in Accounts : f.acc[b].fuse <= win'[b]
  <2>1. \A b \in Accounts : f.acc[b].fuse \in Nat /\ f.acc[b].fuse <= win[b]
    BY <1>5 DEF Current, File, Account
  <2>2. \A b \in Accounts : f.acc[b].fuse <= win'[b]
    BY <1>2, <2>1
  <2> QED
    BY <1>5, <2>2 DEF Current
<1>6. Current(disk) => Current(disk)'
  BY <1>1, <1>5 DEF Current
<1>7. Current(mem) => Current(mem)'
  BY <1>1, <1>5 DEF Current
<1>8. Old(disk) => Old(disk)'
  <2> SUFFICES ASSUME Old(disk), disk.version # 0 PROVE Old(disk)'
    BY <1>1 DEF Old
  <2>1. disk.events \in Seq(Event)
    BY <1>1 DEF File
  <2>2. \A k \in DOMAIN disk.events : disk.events[k].src \in Accounts /\ disk.events[k].win \in Nat
    <3>1. \A k \in DOMAIN disk.events : disk.events[k] \in Event
      BY <2>1
    <3> QED
      BY <3>1 DEF Event, Windows
  <2>3. \A k \in DOMAIN disk.events : disk.events[k].win <= win[disk.events[k].src]
    BY DEF Old, Older
  <2>4. \A k \in DOMAIN disk.events : disk.events[k].win <= win'[disk.events[k].src]
    BY <1>2, <2>2, <2>3
  <2>5. Older(disk.version, disk)'
    BY <1>1, <2>4 DEF Old, Older
  <2> QED
    BY <1>1, <2>5 DEF Old, Effective
<1>9. Covered(disk) => Covered(disk)'
  BY <1>1 DEF Covered
<1> QED
  BY <1>1, <1>4, <1>6, <1>7, <1>8, <1>9 DEF StateInv, stateVersion

LEMMA NextState == ASSUME StateInv, [Next]_vars PROVE StateInv'
<1>1. CASE Crash
  <2>1. up' = FALSE /\ mem' = disk /\ UNCHANGED <<disk, win, paid>>
    BY <1>1 DEF Crash
  <2>2. TypeInv' /\ NoReplay'
    BY <2>1 DEF StateInv, TypeInv, NoReplay
  <2>3. /\ Old(disk)' <=> Old(disk)
        /\ Current(disk)' <=> Current(disk)
        /\ Covered(disk)' <=> Covered(disk)
    BY <2>1 DEF Old, Older, Effective, Current, Covered
  <2> QED
    BY <2>1, <2>2, <2>3 DEF StateInv
<1>2. CASE UNCHANGED vars
  BY <1>2 DEF vars, StateInv, TypeInv, NoReplay, Old, Older, Effective, Current, Covered,
     stateVersion
<1> QED
  BY <1>1, <1>2, StartState, SettleState, ConfirmState, OfficialState DEF Next

LEMMA StateInvariant == Spec => []StateInv
BY InitState, NextState, PTL DEF Spec

----------------------------------------------------------------------------

\* "Restarting after an upgrade cannot replay the same reset against downstream
\* users" (store.go:99): no window is confirmed and acted on twice, whatever
\* an older release's file holds and wherever saves fail.
THEOREM UpgradeReplaysNothing == Spec => []NoReplay
BY StateInvariant, PTL DEF StateInv

\* In a running process a sample of another kind never counts as a baseline
\* (store.go:68).
THEOREM BaselinesNative == Spec => []BaselineIsNative
<1>1. StateInv => BaselineIsNative
  BY DEF StateInv, Current, BaselineIsNative
<1> QED
  BY <1>1, StateInvariant, PTL

\* What a running process lets the administrator undo, it does for a day
\* (store.go:77).
THEOREM UndoForADay == Spec => []UndoWindowFixed
<1>1. StateInv => UndoWindowFixed
  BY DEF StateInv, Current, UndoWindowFixed
<1> QED
  BY <1>1, StateInvariant, PTL

\* A restart finds the accounts and events of the file, and its settings but
\* for those OpenStore takes for missing.
THEOREM RestartFindsTheFile == Spec => []RestartIsSame
<1>1. StateInv => RestartIsSame
  <2> SUFFICES ASSUME StateInv, up PROVE LET f == Load(disk)
        IN /\ f.acc = disk.acc /\ f.events = disk.events
           /\ \A s \in DOMAIN f.cfg :
                f.cfg[s] = disk.cfg[s] \/ disk.cfg[s] \in {"empty", "legacy"}
    BY DEF RestartIsSame
  <2>1. disk \in File /\ disk.version = stateVersion /\ disk.version # 0 /\ Current(disk)
    BY DEF StateInv, TypeInv, stateVersion
  <2>2. /\ Load(disk).acc = disk.acc /\ Load(disk).events = disk.events
        /\ Load(disk).cfg = WithDefaults(disk.cfg)
    BY <2>1, LoadParts, LoadPresent
  <2>3. disk.cfg.grace # "absent" /\ disk.cfg.body # "absent"
    BY <2>1 DEF Current
  <2>4. \A s \in DOMAIN WithDefaults(disk.cfg) :
          WithDefaults(disk.cfg)[s] = disk.cfg[s] \/ disk.cfg[s] \in {"empty", "legacy"}
    BY <2>3 DEF WithDefaults
  <2> QED
    BY <2>2, <2>4
<1> QED
  BY <1>1, StateInvariant, PTL

============================================================================
