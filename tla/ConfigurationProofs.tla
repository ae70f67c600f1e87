------------------------ MODULE ConfigurationProofs ------------------------
(***************************************************************************)
(* Saving the configuration: proofs of Configuration.tla's properties, for *)
(* any sets of handlers and subscriptions, page length and faults.         *)
(***************************************************************************)
EXTENDS Configuration, FiniteSetTheorems, TLAPS

\* A configuration on its way to the store has been validated.
Validated(x) == h[x].pc \in {"listing", "saving"} => ValidConfig(h[x].cfg)
TypeInv == TypeOK /\ \A x \in Handlers : Validated(x)

----------------------------------------------------------------------------
(* The merge.                                                              *)

LEMMA SecretTypes ==
  ASSUME NEW i \in Serial
  PROVE  Typed(i) \in Secret /\ Empty(i) \in Secret /\ Empty(0) \in Secret
BY ConfigurationAssumption DEF Typed, Empty, Secret, Serial

LEMMA MergedSecretType ==
  ASSUME NEW c \in Config, NEW r \in Request, NEW i \in Serial
  PROVE  MergedSecret(c, r, i) \in Secret
BY SecretTypes DEF MergedSecret, Config, Request

LEMMA MergeTypes ==
  ASSUME NEW c \in Config, NEW r \in Request, NEW i \in Serial
  PROVE  /\ MergeOverview(c, r, i) \in Config
         /\ MergeMapping(c, r, i) \in Config
         /\ MergeNotifications(c, r, i) \in Config
         /\ MergeAll(c, r, i) \in Config
<1>1. /\ Typed(i) \in Secret /\ Empty(i) \in Secret
      /\ MergedSecret(c, r, i) \in Secret
  BY SecretTypes, MergedSecretType
<1>2. MergeOverview(c, r, i) \in Config
  BY <1>1 DEF MergeOverview, Config
<1>3. MergeMapping(c, r, i) \in Config
  BY DEF MergeMapping, Config, Request
<1>4. ASSUME NEW d \in Config PROVE MergeNotifications(d, r, i) \in Config
  <2> DEFINE b == r.on /\ r.secret # "clear"
  <2>1. MergedSecret(d, r, i) \in Secret /\ b \in BOOLEAN
    BY MergedSecretType
  <2> HIDE DEF b
  <2>2. [d EXCEPT !.notifications = i, !.secret = MergedSecret(d, r, i), !.on = b] \in Config
    BY <2>1 DEF Config
  <2> QED
    BY <2>2 DEF MergeNotifications, b
<1>5. MergeAll(c, r, i) \in Config
  <2> DEFINE d == MergeNotifications(MergeMapping(c, r, i), r, i)
  <2>1. d \in Config
    BY <1>3, <1>4
  <2> HIDE DEF d
  <2>2. [d EXCEPT !.overview = i, !.key = IF r.key = "typed" THEN Typed(i) ELSE Empty(i)] \in Config
    BY <1>1, <2>1 DEF Config
  <2> QED
    BY <2>2 DEF MergeAll, d
<1> QED
  BY <1>2, <1>3, <1>4, <1>5

LEMMA MergeType ==
  ASSUME NEW c \in Config, NEW r \in Request, NEW i \in Serial
  PROVE  MergeScopedConfig(c, r, i) \in Config
BY MergeTypes DEF MergeScopedConfig

\* What the start adds leaves the file's settings as they were.
LEMMA StartedType ==
  ASSUME NEW c \in Config
  PROVE  /\ Started(c) \in Config
         /\ ValidConfig(Started(c)) <=> ValidConfig(c)
BY DEF Started, Config, Secret, ValidConfig

LEMMA SerialType ==
  ASSUME NEW c \in Config, NEW f \in Fields PROVE SerialOf(c, f) \in Serial
BY DEF SerialOf, Fields, Config, Secret

LEMMA IdleType == Idle \in Handler /\ Fresh \in Config /\ ValidConfig(Fresh)
<1>1. Empty(0) \in Secret /\ 0 \in Serial
  BY ConfigurationAssumption DEF Empty, Secret, Serial
<1>2. Fresh \in Config
  BY <1>1 DEF Fresh, Config
<1>3. NoRequest \in Request
  BY DEF NoRequest, Request, AllScopes
<1>4. Idle \in Handler
  BY <1>1, <1>2, <1>3 DEF Idle, Handler, Phase
<1> QED
  BY <1>2, <1>4 DEF Fresh, ValidConfig

----------------------------------------------------------------------------
(* Types.                                                                  *)

LEMMA InitType == Init => TypeInv
<1> SUFFICES ASSUME Init PROVE TypeInv
  OBVIOUS
<1>1. mem \in Config /\ disk \in Config /\ ValidConfig(mem) /\ ValidConfig(disk)
  BY IdleType, StartedType DEF Init
<1>2. clientKey \in Secret
  BY <1>1 DEF Init, Config
<1>3. h \in [Handlers -> Handler] /\ \A x \in Handlers : h[x].pc = "idle"
  BY IdleType DEF Init, Idle
<1>4. /\ active \subseteq Subs /\ n \in Serial
      /\ saved \in [Fields -> Serial] /\ refused \subseteq Serial
  BY ConfigurationAssumption DEF Init, Serial
<1> QED
  BY <1>1, <1>2, <1>3, <1>4 DEF TypeInv, TypeOK, Validated

\* A step of one handler that leaves the stores as they are or stores what it
\* has validated.
LEMMA HandlerType ==
  ASSUME TypeInv, NEW x \in Handlers, NEW v \in Handler, h' = [h EXCEPT ![x] = v],
         v.pc \in {"listing", "saving"} => ValidConfig(v.cfg),
         mem' = mem \/ (h[x].pc = "saving" /\ mem' = h[x].cfg),
         disk' = disk \/ (h[x].pc = "saving" /\ disk' = h[x].cfg),
         clientKey' \in Secret, active' \subseteq Subs, n' \in Serial,
         saved' \in [Fields -> Serial], refused' \subseteq Serial
  PROVE  TypeInv'
<1>1. h \in [Handlers -> Handler] /\ h[x] \in Handler /\ h[x].cfg \in Config
  BY DEF TypeInv, TypeOK, Handler
<1>2. h' \in [Handlers -> Handler]
  BY <1>1
<1>3. \A y \in Handlers : Validated(y)'
  BY <1>1 DEF TypeInv, Validated
<1>4. mem' \in Config /\ disk' \in Config /\ ValidConfig(mem') /\ ValidConfig(disk')
  BY <1>1 DEF TypeInv, TypeOK, Validated
<1> QED
  BY <1>2, <1>3, <1>4 DEF TypeInv, TypeOK, ValidConfig

LEMMA SubmitType ==
  ASSUME TypeInv, NEW x \in Handlers, NEW r \in Request, Submit(x, r) PROVE TypeInv'
<1> DEFINE c == MergeScopedConfig(mem, r, n')
           p == IF NeedsLists(r) THEN "listing" ELSE "saving"
           v == [Idle EXCEPT !.pc = p, !.ask = r, !.req = n', !.cfg = c,
                             !.page = 1, !.gone = Subs \ active']
<1>1. /\ h' = [h EXCEPT ![x] = v] /\ ValidConfig(c)
      /\ UNCHANGED <<mem, disk, clientKey, saved, refused>>
  BY DEF Submit, store
<1>2. n' \in Serial /\ active' \subseteq Subs
  <2>1. n' \in Serial
    BY ConfigurationAssumption DEF Submit, TypeInv, TypeOK, Serial
  <2>2. active' \subseteq Subs
    BY DEF Submit, TypeInv, TypeOK
  <2> QED
    BY <2>1, <2>2
<1>3. c \in Config /\ p \in {"listing", "saving"}
  BY <1>2, MergeType DEF TypeInv, TypeOK
<1> HIDE DEF c, p
<1>4. v \in Handler /\ v.cfg = c
  BY <1>2, <1>3, IdleType DEF Handler, Phase
<1> HIDE DEF v
<1> QED
  BY <1>1, <1>2, <1>4, HandlerType DEF TypeInv, TypeOK

LEMMA PageInSubs == ASSUME TypeInv, NEW p PROVE Page(p) \subseteq Subs
BY DEF Page, TypeInv, TypeOK

LEMMA ListingType ==
  ASSUME TypeInv, NEW x \in Handlers, ReadPage(x) \/ ReadLastPage(x) \/ ListFails(x)
  PROVE  TypeInv'
<1> DEFINE got == h[x].got \cup Page(h[x].page)
           fit == Reconciled(h[x].cfg.targets, got)
<1>0. /\ h[x] \in Handler /\ h \in [Handlers -> Handler] /\ got \subseteq Subs
      /\ h[x].pc = "listing"
  BY PageInSubs DEF TypeInv, TypeOK, Handler, ReadPage, ReadLastPage, ListFails, At
<1>1. /\ UNCHANGED <<mem, disk, clientKey, active, n, saved, refused>>
      /\ clientKey \in Secret /\ active \subseteq Subs /\ n \in Serial
      /\ saved \in [Fields -> Serial] /\ refused \subseteq Serial /\ ValidConfig(h[x].cfg)
  BY <1>0 DEF ReadPage, ReadLastPage, ListFails, store, TypeInv, TypeOK, Validated
<1>2. CASE ReadPage(x)
  <2> DEFINE q == h[x].page + 1
             v == [h[x] EXCEPT !.got = got, !.page = q]
  <2>1. h' = [h EXCEPT ![x] = v]
    BY <1>0, <1>2 DEF ReadPage
  <2>2. q \in Nat
    BY <1>0 DEF Handler
  <2> HIDE DEF q, got
  <2>3. v \in Handler /\ v.cfg = h[x].cfg
    BY <1>0, <2>2 DEF Handler
  <2> HIDE DEF v
  <2> QED
    BY <1>1, <2>1, <2>2, <2>3, HandlerType
<1>3. CASE ReadLastPage(x)
  <2> DEFINE c == [h[x].cfg EXCEPT !.targets = fit]
             v == [h[x] EXCEPT !.got = got, !.pc = "saving", !.cfg = c]
  <2>1. h' = [h EXCEPT ![x] = v]
    BY <1>0, <1>3 DEF ReadLastPage
  <2>2. c \in Config /\ ValidConfig(c)
    BY <1>0, <1>1 DEF Handler, Config, Reconciled, ValidConfig
  <2> HIDE DEF c
  <2>3. v \in Handler /\ v.cfg = c
    BY <1>0, <2>2 DEF Handler, Phase
  <2> HIDE DEF v
  <2> QED
    BY <1>1, <2>1, <2>2, <2>3, HandlerType
<1>4. CASE ListFails(x)
  <2>1. h' = [h EXCEPT ![x] = Idle] /\ Idle.pc = "idle"
    BY <1>4 DEF ListFails, Idle
  <2> QED
    BY <1>1, <2>1, IdleType, HandlerType
<1> QED
  BY <1>2, <1>3, <1>4

LEMMA SaveType ==
  ASSUME TypeInv, NEW x \in Handlers, SaveConfig(x) PROVE TypeInv'
<1> DEFINE v == [Idle EXCEPT !.pc = "saved", !.ask = h[x].ask, !.req = h[x].req,
                             !.cfg = h[x].cfg]
<1>1. /\ h[x] \in Handler /\ h[x].pc = "saving" /\ UNCHANGED <<clientKey, active, n>>
      /\ clientKey \in Secret /\ active \subseteq Subs /\ n \in Serial
      /\ saved \in [Fields -> Serial] /\ mem' = h[x].cfg
  BY DEF SaveConfig, At, TypeInv, TypeOK
<1>2. v \in Handler /\ v.pc = "saved" /\ Idle.pc = "idle"
  BY <1>1, IdleType DEF Handler, Phase, Idle
<1>3. saved' \in [Fields -> Serial] /\ refused' \subseteq Serial
  <2>1. h[x].req \in Serial /\ h[x].cfg \in Config /\ refused \subseteq Serial
    BY <1>1 DEF Handler, TypeInv, TypeOK
  <2>2. \A f \in Fields : Reached(h[x].cfg, f) \in Serial
    BY <1>1, <2>1, SerialType DEF Reached
  <2>3. refused' = {} \/ refused' = refused \cup {h[x].req}
    BY DEF SaveConfig
  <2>4. \/ saved' = saved
        \/ saved' = [f \in Fields |-> IF f \in Touched(h[x].ask) THEN h[x].req
                                      ELSE Reached(h[x].cfg, f)]
    BY DEF SaveConfig
  <2> QED
    BY <1>1, <2>1, <2>2, <2>3, <2>4
<1>4. \/ disk' = h[x].cfg /\ h' = [h EXCEPT ![x] = v]
      \/ disk' = disk /\ h' = [h EXCEPT ![x] = Idle]
  BY DEF SaveConfig
<1> HIDE DEF v
<1> QED
  BY <1>1, <1>2, <1>3, <1>4, IdleType, HandlerType

LEMMA AnswerType ==
  ASSUME TypeInv, NEW x \in Handlers, ReadBack(x) \/ SwitchKey(x) PROVE TypeInv'
<1>1. /\ h[x] \in Handler /\ h \in [Handlers -> Handler]
      /\ UNCHANGED <<mem, disk, active, n, saved, refused>>
      /\ active \subseteq Subs /\ n \in Serial /\ saved \in [Fields -> Serial]
      /\ refused \subseteq Serial
  BY DEF ReadBack, SwitchKey, store, TypeInv, TypeOK
<1>2. clientKey' \in Secret
  BY <1>1 DEF ReadBack, SwitchKey, Handler, Config, TypeInv, TypeOK
<1>3. CASE ReadBack(x)
  <2> DEFINE b == mem.key.val # "none"
             v == [h[x] EXCEPT !.pc = "switching", !.configured = b]
  <2>1. h' = [h EXCEPT ![x] = v]
    BY <1>1, <1>3 DEF ReadBack
  <2>2. b \in BOOLEAN
    OBVIOUS
  <2> HIDE DEF b
  <2>3. v \in Handler /\ v.pc = "switching"
    BY <1>1, <2>2 DEF Handler, Phase
  <2> HIDE DEF v
  <2> QED
    BY <1>1, <1>2, <2>1, <2>3, HandlerType
<1>4. CASE SwitchKey(x)
  <2>1. h' = [h EXCEPT ![x] = Idle] /\ Idle.pc = "idle"
    BY <1>4 DEF SwitchKey, Idle
  <2> QED
    BY <1>1, <1>2, <2>1, IdleType, HandlerType
<1> QED
  BY <1>3, <1>4

LEMMA LeaveType == ASSUME TypeInv, NEW s \in Subs, Leave(s) PROVE TypeInv'
<1>1. h \in [Handlers -> Handler] /\ s \in Subs /\ UNCHANGED <<mem, disk, clientKey, n, saved, refused>>
  BY DEF Leave, store, TypeInv, TypeOK
<1>2. \A x \in Handlers : [h[x] EXCEPT !.gone = @ \cup {s}, !.left = TRUE] \in Handler
  BY <1>1 DEF Handler
<1>3. \A x \in Handlers : h'[x].pc = h[x].pc /\ h'[x].cfg = h[x].cfg
  BY <1>1 DEF Leave, Handler
<1>4. h' \in [Handlers -> Handler]
  BY <1>1, <1>2 DEF Leave
<1>5. active' \subseteq Subs
  BY DEF Leave, TypeInv, TypeOK
<1> QED
  BY <1>1, <1>3, <1>4, <1>5 DEF TypeInv, TypeOK, Validated, ValidConfig

LEMMA CrashType == ASSUME TypeInv, Crash PROVE TypeInv'
<1>1. mem' \in Config /\ disk' = mem' /\ ValidConfig(mem')
  BY StartedType DEF Crash, TypeInv, TypeOK
<1>2. clientKey' \in Secret
  BY <1>1 DEF Crash, Config
<1>3. h' \in [Handlers -> Handler] /\ \A x \in Handlers : h'[x].pc = "idle"
  BY IdleType DEF Crash, Idle
<1> QED
  BY <1>1, <1>2, <1>3 DEF Crash, TypeInv, TypeOK, Validated, ValidConfig

LEMMA OtherType == ASSUME TypeInv, OtherSetter PROVE TypeInv'
<1>1. /\ disk' = mem /\ mem \in Config /\ saved' = [f \in Fields |-> Reached(mem, f)]
      /\ UNCHANGED <<mem, clientKey, h, active, n, refused>> /\ saved \in [Fields -> Serial]
  BY DEF OtherSetter, TypeInv, TypeOK
<1>2. \A f \in Fields : Reached(mem, f) \in Serial
  BY <1>1, SerialType DEF Reached
<1>3. saved' \in [Fields -> Serial]
  BY <1>1, <1>2
<1> QED
  BY <1>1, <1>3 DEF TypeInv, TypeOK, Validated, ValidConfig

LEMMA NextType == ASSUME TypeInv, [Next]_vars PROVE TypeInv'
<1>1. ASSUME NEW s \in Subs, Join(s) PROVE TypeInv'
  BY <1>1 DEF Join, store, TypeInv, TypeOK, Validated, ValidConfig
<1>2. CASE UNCHANGED vars
  BY <1>2 DEF vars, TypeInv, TypeOK, Validated, ValidConfig
<1> QED
  BY <1>1, <1>2, CrashType, OtherType, LeaveType, ListingType, SaveType, AnswerType, SubmitType DEF Next

\* Every configuration stored, in memory and in the file, is well formed and
\* valid, so that the next save of another tab is not refused for it.
THEOREM StoredIsValid == Spec => []TypeOK
<1>1. TypeInv => TypeOK
  BY DEF TypeInv
<1> QED
  BY <1>1, InitType, NextType, PTL DEF Spec

----------------------------------------------------------------------------
(* NoSaveForgotten and KeyFollows, for one request at a time: two that     *)
(* overlap are each merged into what they found (see ConfigurationRace).   *)

OneAtATime == \A x, y \in Handlers : x = y

\* What is stored, and what a request is about to store, is for every setting
\* at least as recent as the file's last save of it; where the request sets
\* it, it is the request's own.  What a request is about to store is also no
\* older than memory, which another setter may put into the file first.
SavedInv ==
  \A f \in Fields :
    /\ saved[f] <= n /\ saved[f] <= SerialOf(mem, f) /\ saved[f] <= SerialOf(disk, f)
    /\ SerialOf(mem, f) <= n /\ SerialOf(disk, f) <= n
    /\ \A x \in Handlers : h[x].pc \in {"listing", "saving"} =>
         /\ SerialOf(mem, f) <= SerialOf(h[x].cfg, f) /\ SerialOf(h[x].cfg, f) <= n
         /\ h[x].req <= n
         /\ f \in Touched(h[x].ask) => SerialOf(h[x].cfg, f) = h[x].req

\* A key that is the client's, or none, or one whose save has failed.
Follows(k) == k \in {clientKey, Empty(k.by)} \/ k.by \in refused

\* The key of the file, and that of memory, which any setter may store, fail to
\* follow only while a request that has stored its configuration has not
\* answered yet.  What a request is about to store has the key of memory or its
\* own; once it is stored, memory and the file are what the request made.
KeyInv ==
  /\ (\A x \in Handlers : h[x].pc \in {"idle", "listing", "saving"}) =>
       Follows(disk.key) /\ Follows(mem.key)
  /\ \A x \in Handlers :
       /\ h[x].pc \in {"listing", "saving"} =>
            h[x].cfg.key = mem.key \/ h[x].cfg.key.by = h[x].req
       /\ h[x].pc \in {"saved", "switching"} => mem = h[x].cfg /\ disk = h[x].cfg
       /\ h[x].pc = "switching" => h[x].configured \/ h[x].cfg.key.val = "none"

LEMMA InitSaved == Init => SavedInv /\ KeyInv
<1> SUFFICES ASSUME Init PROVE SavedInv /\ KeyInv
  OBVIOUS
<1>1. \A x \in Handlers : h[x].pc = "idle"
  BY DEF Init, Idle
<1>2. \A f \in Fields : saved[f] = 0 /\ SerialOf(mem, f) = 0 /\ disk = mem /\ n = 0
  BY DEF Init, Started, Fresh, Empty, SerialOf, Fields
<1>3. Follows(disk.key) /\ Follows(mem.key)
  BY DEF Init, Follows
<1> QED
  BY <1>1, <1>2, <1>3 DEF SavedInv, KeyInv

\* The numbers of a merged configuration: the request's own where it sets
\* something, else the request's or what was there.
LEMMA MergeSerials ==
  ASSUME NEW c \in Config, NEW r \in Request, NEW i \in Serial, NEW f \in Fields
  PROVE  LET d == MergeScopedConfig(c, r, i)
         IN /\ SerialOf(d, f) \in {i, SerialOf(c, f)}
            /\ f \in Touched(r) => SerialOf(d, f) = i
<1>1. MergedSecret(c, r, i).by = IF r.secret = "blank" THEN c.secret.by ELSE i
  BY DEF MergedSecret, Request, Typed, Empty
<1>2. Typed(i).by = i /\ Empty(i).by = i
  BY DEF Typed, Empty
<1>3. CASE r.scope = "overview"
  BY <1>2, <1>3 DEF MergeScopedConfig, MergeOverview, SerialOf, Fields, Touched, Config
<1>4. CASE r.scope = "mapping"
  BY <1>4 DEF MergeScopedConfig, MergeMapping, SerialOf, Fields, Touched, Config
<1>5. CASE r.scope = "notifications"
  BY <1>1, <1>5 DEF MergeScopedConfig, MergeNotifications, SerialOf, Fields, Touched, Config
<1>6. CASE r.scope = "all"
  <2> DEFINE d == MergeScopedConfig(c, r, i)
  <2>1. /\ d.overview = i /\ d.mapping = i /\ d.notifications = i
        /\ d.key = IF r.key = "typed" THEN Typed(i) ELSE Empty(i)
        /\ d.secret = MergedSecret(c, r, i)
    <3> DEFINE a == MergeMapping(c, r, i)
               b == MergeNotifications(a, r, i)
               k == IF r.key = "typed" THEN Typed(i) ELSE Empty(i)
    <3>1. a \in Config /\ a.mapping = i /\ a.secret = c.secret
      BY MergeTypes DEF MergeMapping, Config
    <3>2. MergedSecret(a, r, i) = MergedSecret(c, r, i)
      BY <3>1 DEF MergedSecret
    <3> HIDE DEF a
    <3>3. /\ b \in Config /\ b.notifications = i /\ b.mapping = i
          /\ b.secret = MergedSecret(c, r, i)
      BY <3>1, <3>2, MergeTypes DEF MergeNotifications, Config
    <3>4. d = [b EXCEPT !.overview = i, !.key = k]
      BY <1>6 DEF MergeScopedConfig, MergeAll, a
    <3> HIDE DEF b, k
    <3>5. /\ d.overview = i /\ d.mapping = i /\ d.notifications = i
          /\ d.key = k /\ d.secret = MergedSecret(c, r, i)
      BY <3>3, <3>4 DEF Config
    <3> QED
      BY <3>5 DEF k
  <2>2. d.key.by = i /\ d.secret.by = IF r.secret = "blank" THEN c.secret.by ELSE i
    BY <1>1, <1>2, <2>1
  <2> HIDE DEF d
  <2>3. SerialOf(d, f) \in {i, SerialOf(c, f)} /\ (f \in Touched(r) => SerialOf(d, f) = i)
    BY <1>6, <2>1, <2>2 DEF SerialOf, Fields, Touched
  <2> QED
    BY <2>3 DEF d
<1> QED
  BY <1>3, <1>4, <1>5, <1>6 DEF Request, AllScopes

LEMMA StartedSerial ==
  ASSUME NEW c \in Config, NEW f \in Fields PROVE SerialOf(Started(c), f) = SerialOf(c, f)
BY DEF Started, SerialOf, Fields, Config, Secret

LEMMA SubmitSaved ==
  ASSUME TypeInv, SavedInv, OneAtATime, NEW x \in Handlers, NEW r \in Request, Submit(x, r)
  PROVE  SavedInv'
<1> DEFINE c == MergeScopedConfig(mem, r, n')
<1>1. /\ n' = n + 1 /\ n' \in Serial /\ n \in Nat /\ UNCHANGED <<mem, disk, saved>>
      /\ mem \in Config /\ disk \in Config /\ h \in [Handlers -> Handler]
  BY ConfigurationAssumption DEF Submit, store, TypeInv, TypeOK, Serial
<1>2. \A y \in Handlers : y = x
  BY DEF OneAtATime
<1>3. h'[x].ask = r /\ h'[x].req = n' /\ h'[x].cfg = c
  BY <1>1 DEF Submit, Idle
<1>4. c \in Config
  BY <1>1, MergeType
<1> SUFFICES ASSUME NEW f \in Fields
             PROVE  /\ saved[f] <= n' /\ saved[f] <= SerialOf(mem, f)
                    /\ saved[f] <= SerialOf(disk, f)
                    /\ SerialOf(mem, f) <= n' /\ SerialOf(disk, f) <= n'
                    /\ SerialOf(mem, f) <= SerialOf(c, f) /\ SerialOf(c, f) <= n'
                    /\ f \in Touched(r) => SerialOf(c, f) = n'
  <2> HIDE DEF c
  <2> QED
    BY <1>1, <1>2, <1>3 DEF SavedInv, SerialOf
<1>5. SerialOf(c, f) \in {n', SerialOf(mem, f)} /\ (f \in Touched(r) => SerialOf(c, f) = n')
  BY <1>1, MergeSerials
<1>6. /\ saved[f] \in Nat /\ saved[f] <= n
      /\ saved[f] <= SerialOf(mem, f) /\ saved[f] <= SerialOf(disk, f)
      /\ SerialOf(mem, f) <= n /\ SerialOf(disk, f) <= n
      /\ SerialOf(mem, f) \in Nat /\ SerialOf(disk, f) \in Nat
  BY <1>1, SerialType DEF SavedInv, TypeInv, TypeOK, Serial
<1> QED
  <2> HIDE DEF c
  <2> QED
    BY <1>1, <1>5, <1>6

LEMMA SaveSaved ==
  ASSUME TypeInv, SavedInv, OneAtATime, NEW x \in Handlers, SaveConfig(x)
  PROVE  SavedInv'
<1>1. /\ h[x].pc = "saving" /\ mem' = h[x].cfg /\ n' = n
      /\ h \in [Handlers -> Handler] /\ h[x] \in Handler
  BY DEF SaveConfig, At, TypeInv, TypeOK
<1>2. \A y \in Handlers : h'[y].pc \in {"idle", "saved"}
  <2>1. \/ h' = [h EXCEPT ![x] = Idle]
        \/ h' = [h EXCEPT ![x] = [Idle EXCEPT !.pc = "saved", !.ask = h[x].ask,
                                              !.req = h[x].req, !.cfg = h[x].cfg]]
    BY DEF SaveConfig
  <2>2. h'[x].pc \in {"idle", "saved"}
    <3>1. [Idle EXCEPT !.pc = "saved", !.ask = h[x].ask, !.req = h[x].req,
                       !.cfg = h[x].cfg].pc = "saved" /\ Idle.pc = "idle"
      BY DEF Idle
    <3> QED
      BY <1>1, <2>1, <3>1
  <2> QED
    BY <2>2 DEF OneAtATime
<1>3. \/ disk' = disk /\ saved' = saved
      \/ /\ disk' = h[x].cfg
         /\ saved' = [f \in Fields |-> IF f \in Touched(h[x].ask) THEN h[x].req
                                       ELSE Reached(h[x].cfg, f)]
  BY DEF SaveConfig
<1> SUFFICES ASSUME NEW f \in Fields
             PROVE  /\ saved'[f] <= n /\ saved'[f] <= SerialOf(mem', f)
                    /\ saved'[f] <= SerialOf(disk', f)
                    /\ SerialOf(mem', f) <= n /\ SerialOf(disk', f) <= n
  BY <1>1, <1>2 DEF SavedInv, SerialOf
<1>4. /\ saved[f] <= n /\ h[x].req <= n /\ saved[f] <= SerialOf(mem, f)
      /\ SerialOf(mem, f) <= SerialOf(h[x].cfg, f) /\ SerialOf(h[x].cfg, f) <= n
      /\ saved[f] <= SerialOf(disk, f) /\ SerialOf(disk, f) <= n
      /\ f \in Touched(h[x].ask) => SerialOf(h[x].cfg, f) = h[x].req
  BY <1>1 DEF SavedInv
<1>5. /\ h[x].req \in Nat /\ saved[f] \in Nat /\ n \in Nat
      /\ SerialOf(mem, f) \in Nat /\ SerialOf(disk, f) \in Nat /\ SerialOf(h[x].cfg, f) \in Nat
  BY <1>1, SerialType DEF Handler, Serial, TypeInv, TypeOK
<1>6. Reached(h[x].cfg, f) = SerialOf(h[x].cfg, f)
  BY <1>4, <1>5 DEF Reached
<1>7. \/ saved'[f] = saved[f] /\ disk' = disk
      \/ saved'[f] = SerialOf(h[x].cfg, f) /\ disk' = h[x].cfg
  BY <1>3, <1>4, <1>6
<1> QED
  BY <1>1, <1>4, <1>5, <1>7

LEMMA NextSaved == ASSUME TypeInv, SavedInv, OneAtATime, [Next]_vars PROVE SavedInv'
<1>1. ASSUME NEW s \in Subs, Leave(s) PROVE SavedInv'
  <2>1. \A x \in Handlers : /\ h'[x].pc = h[x].pc /\ h'[x].cfg = h[x].cfg
                            /\ h'[x].ask = h[x].ask /\ h'[x].req = h[x].req
    BY <1>1 DEF Leave, TypeInv, TypeOK, Handler
  <2>2. UNCHANGED <<mem, disk, n, saved>>
    BY <1>1 DEF Leave, store
  <2> QED
    BY <2>1, <2>2 DEF SavedInv, SerialOf
<1>2. ASSUME NEW s \in Subs, Join(s) PROVE SavedInv'
  BY <1>2 DEF Join, store, SavedInv, SerialOf
<1>3. CASE UNCHANGED vars
  BY <1>3 DEF vars, SavedInv, SerialOf
<1>4. CASE Crash
  <2>1. \A x \in Handlers : h'[x].pc = "idle"
    BY <1>4 DEF Crash, Idle
  <2>2. mem' = Started(disk) /\ disk' = mem' /\ UNCHANGED <<n, saved>> /\ disk \in Config
    BY <1>4 DEF Crash, TypeInv, TypeOK
  <2>3. \A f \in Fields : SerialOf(mem', f) = SerialOf(disk, f)
    BY <2>2, StartedSerial
  <2> QED
    BY <2>1, <2>2, <2>3 DEF SavedInv, SerialOf
<1>5. ASSUME NEW x \in Handlers, ReadPage(x) PROVE SavedInv'
  <2>1. UNCHANGED <<mem, disk, n, saved>> /\ h[x].pc = "listing"
    BY <1>5 DEF ReadPage, store, At
  <2>2. /\ h'[x].pc = h[x].pc /\ h'[x].cfg = h[x].cfg
        /\ h'[x].ask = h[x].ask /\ h'[x].req = h[x].req
    BY <1>5 DEF ReadPage, TypeInv, TypeOK, Handler
  <2> QED
    BY <2>1, <2>2 DEF OneAtATime, SavedInv, SerialOf
<1>6. ASSUME NEW x \in Handlers, ReadLastPage(x) PROVE SavedInv'
  <2>1. UNCHANGED <<mem, disk, n, saved>> /\ h[x].pc = "listing"
    BY <1>6 DEF ReadLastPage, store, At
  <2>2. h'[x].ask = h[x].ask /\ h'[x].req = h[x].req
    BY <1>6 DEF ReadLastPage, TypeInv, TypeOK, Handler
  <2>3. PICK ts : h'[x].cfg = [h[x].cfg EXCEPT !.targets = ts]
    BY <1>6 DEF ReadLastPage, TypeInv, TypeOK, Handler
  <2>4. h[x].cfg \in Config
    BY DEF TypeInv, TypeOK, Handler
  <2>5. \A f \in Fields : SerialOf(h'[x].cfg, f) = SerialOf(h[x].cfg, f)
    BY <2>3, <2>4 DEF SerialOf, Fields, Config
  <2> QED
    BY <2>1, <2>2, <2>5 DEF OneAtATime, SavedInv, SerialOf
<1>7. ASSUME NEW x \in Handlers, ListFails(x) \/ SwitchKey(x) PROVE SavedInv'
  <2>1. UNCHANGED <<mem, disk, n, saved>> /\ h'[x].pc = "idle"
    BY <1>7 DEF ListFails, SwitchKey, store, TypeInv, TypeOK, Idle
  <2> QED
    BY <2>1 DEF OneAtATime, SavedInv, SerialOf
<1>8. ASSUME NEW x \in Handlers, ReadBack(x) PROVE SavedInv'
  <2>1. UNCHANGED <<mem, disk, n, saved>>
    BY <1>8 DEF ReadBack, store
  <2>2. h'[x].pc = "switching"
    BY <1>8 DEF ReadBack, TypeInv, TypeOK, Handler
  <2> QED
    BY <2>1, <2>2 DEF OneAtATime, SavedInv, SerialOf
<1>9. CASE OtherSetter
  <2>1. /\ disk' = mem /\ saved' = [f \in Fields |-> Reached(mem, f)]
        /\ UNCHANGED <<mem, h, n>> /\ saved \in [Fields -> Serial] /\ mem \in Config
    BY <1>9 DEF OtherSetter, TypeInv, TypeOK
  <2>2. ASSUME NEW f \in Fields PROVE saved'[f] = SerialOf(mem, f) /\ SerialOf(mem, f) \in Nat
    <3>1. saved[f] \in Nat /\ SerialOf(mem, f) \in Nat /\ saved[f] <= SerialOf(mem, f)
      BY <2>1, SerialType DEF SavedInv, Serial
    <3> QED
      BY <2>1, <3>1 DEF Reached
  <2> QED
    BY <2>1, <2>2 DEF SavedInv, SerialOf
<1> QED
  BY <1>1, <1>2, <1>3, <1>4, <1>5, <1>6, <1>7, <1>8, <1>9, SubmitSaved, SaveSaved DEF Next

\* A setting stored in the file is never lost to an older one: each request is
\* merged into all that was saved before it (mergeScopedConfig), when requests
\* do not overlap.
THEOREM NothingForgotten == ASSUME OneAtATime PROVE Spec => []NoSaveForgotten
<1>1. TypeInv /\ SavedInv => NoSaveForgotten
  <2> SUFFICES ASSUME TypeInv, SavedInv, NEW f \in Fields PROVE SerialOf(disk, f) >= saved[f]
    BY DEF NoSaveForgotten
  <2>1. SerialOf(disk, f) \in Nat /\ saved[f] \in Nat /\ saved[f] <= SerialOf(disk, f)
    BY SerialType DEF TypeInv, TypeOK, SavedInv, Serial
  <2> QED
    BY <2>1
<1>2. TypeInv /\ SavedInv /\ [Next]_vars => TypeInv' /\ SavedInv'
  BY NextType, NextSaved
<1>3. Init => TypeInv /\ SavedInv
  BY InitType, InitSaved
<1> QED
  BY <1>1, <1>2, <1>3, PTL DEF Spec

----------------------------------------------------------------------------

\* The key of a merged configuration is what was there or the request's.
LEMMA MergeKey ==
  ASSUME NEW c \in Config, NEW r \in Request, NEW i \in Serial
  PROVE  LET d == MergeScopedConfig(c, r, i) IN d.key = c.key \/ d.key.by = i
<1>1. Typed(i).by = i /\ Empty(i).by = i
  BY DEF Typed, Empty
<1>2. CASE r.scope = "overview"
  BY <1>1, <1>2 DEF MergeScopedConfig, MergeOverview, Config
<1>3. CASE r.scope = "mapping"
  BY <1>3 DEF MergeScopedConfig, MergeMapping, Config
<1>4. CASE r.scope = "notifications"
  BY <1>4 DEF MergeScopedConfig, MergeNotifications, Config
<1>5. CASE r.scope = "all"
  <2> DEFINE b == MergeNotifications(MergeMapping(c, r, i), r, i)
             k == IF r.key = "typed" THEN Typed(i) ELSE Empty(i)
  <2>1. b \in Config /\ k.by = i
    <3>1. MergeMapping(c, r, i) \in Config
      BY MergeTypes
    <3> QED
      BY <1>1, <3>1, MergeTypes
  <2>2. MergeScopedConfig(c, r, i) = [b EXCEPT !.overview = i, !.key = k]
    BY <1>5 DEF MergeScopedConfig, MergeAll
  <2> HIDE DEF b, k
  <2> QED
    BY <2>1, <2>2 DEF Config
<1> QED
  BY <1>2, <1>3, <1>4, <1>5 DEF Request, AllScopes

LEMMA SaveKey ==
  ASSUME TypeInv, KeyInv, OneAtATime, NEW x \in Handlers, SaveConfig(x) PROVE KeyInv'
<1> DEFINE v == [Idle EXCEPT !.pc = "saved", !.ask = h[x].ask,
                             !.req = h[x].req, !.cfg = h[x].cfg]
<1>1. v.pc = "saved" /\ v.cfg = h[x].cfg /\ Idle.pc = "idle"
  BY DEF Idle
<1>2. /\ h[x].pc = "saving" /\ mem' = h[x].cfg /\ clientKey' = clientKey
      /\ h \in [Handlers -> Handler]
  BY DEF SaveConfig, At, TypeInv, TypeOK
<1>3. \/ disk' = h[x].cfg /\ h' = [h EXCEPT ![x] = v]
      \/ disk' = disk /\ h' = [h EXCEPT ![x] = Idle] /\ refused' = refused \cup {h[x].req}
  BY DEF SaveConfig
<1> HIDE DEF v
<1>4. CASE disk' = h[x].cfg /\ h' = [h EXCEPT ![x] = v]
  <2>1. h'[x] = v
    BY <1>2, <1>4
  <2>2. \A y \in Handlers : y = x /\ h'[y].pc = "saved" /\ h'[y].cfg = h[x].cfg
    BY <1>1, <2>1 DEF OneAtATime
  <2> QED
    BY <1>2, <1>4, <2>2 DEF KeyInv
<1>5. CASE disk' = disk /\ h' = [h EXCEPT ![x] = Idle] /\ refused' = refused \cup {h[x].req}
  <2>1. \A y \in Handlers : y = x /\ h'[y].pc = "idle"
    BY <1>1, <1>2, <1>5 DEF OneAtATime
  <2>2. Follows(disk.key) /\ Follows(mem.key)
    BY <1>2, <2>1 DEF KeyInv
  <2>3. h[x].cfg.key = mem.key \/ h[x].cfg.key.by = h[x].req
    BY <1>2 DEF KeyInv
  <2>4. Follows(disk.key)'
    BY <1>2, <1>5, <2>2 DEF Follows, Empty
  <2>5. Follows(mem.key)'
    BY <1>2, <1>5, <2>2, <2>3 DEF Follows, Empty
  <2> QED
    BY <2>1, <2>4, <2>5 DEF KeyInv
<1> QED
  BY <1>3, <1>4, <1>5

LEMMA NextKey == ASSUME TypeInv, KeyInv, OneAtATime, [Next]_vars PROVE KeyInv'
<1>0. h \in [Handlers -> Handler] /\ mem \in Config /\ disk \in Config
  BY DEF TypeInv, TypeOK
<1>1. ASSUME UNCHANGED <<mem, disk, clientKey, refused>>,
             \A x \in Handlers :
               /\ h'[x].pc \in {"idle", "listing", "saving"}
               /\ h[x].pc \in {"idle", "listing", "saving"}
               /\ h'[x].pc # "idle" => h'[x].cfg.key = mem.key \/ h'[x].cfg.key.by = h'[x].req
      PROVE  KeyInv'
  <2>1. Follows(disk.key) /\ Follows(mem.key)
    BY <1>1 DEF KeyInv
  <2>2. Follows(disk.key)' /\ Follows(mem.key)'
    BY <1>1, <2>1 DEF Follows, Empty
  <2> QED
    BY <1>1, <2>2 DEF KeyInv
<1>2. ASSUME NEW s \in Subs, Leave(s) PROVE KeyInv'
  <2>1. \A x \in Handlers : /\ h'[x].pc = h[x].pc /\ h'[x].cfg = h[x].cfg
                            /\ h'[x].req = h[x].req
                            /\ h[x].pc = "switching" => h'[x].configured = h[x].configured
    BY <1>0, <1>2 DEF Leave, Handler, At
  <2>2. UNCHANGED <<mem, disk, clientKey, refused>>
    BY <1>2 DEF Leave, store
  <2> QED
    BY <2>1, <2>2 DEF KeyInv, Follows, Empty
<1>3. ASSUME NEW s \in Subs, Join(s) PROVE KeyInv'
  BY <1>3 DEF Join, store, KeyInv, Follows, Empty
<1>4. CASE UNCHANGED vars
  BY <1>4 DEF vars, KeyInv, Follows, Empty
<1>5. CASE Crash
  <2>1. \A x \in Handlers : h'[x].pc = "idle"
    BY <1>5 DEF Crash, Idle
  <2>2. clientKey' = disk'.key /\ mem' = disk'
    BY <1>5 DEF Crash
  <2> QED
    BY <2>1, <2>2 DEF KeyInv, Follows
<1>6. ASSUME NEW x \in Handlers, NEW r \in Request, Submit(x, r) PROVE KeyInv'
  <2> DEFINE c == MergeScopedConfig(mem, r, n')
  <2>1. UNCHANGED <<mem, disk, clientKey, refused>> /\ h[x].pc = "idle"
    BY <1>6 DEF Submit, store, At
  <2>2. h'[x].pc \in {"listing", "saving"} /\ h'[x].cfg = c /\ h'[x].req = n'
    BY <1>0, <1>6 DEF Submit, Idle
  <2>3. n' \in Serial
    BY <1>6, ConfigurationAssumption DEF Submit, TypeInv, TypeOK, Serial
  <2>4. c.key = mem.key \/ c.key.by = n'
    BY <1>0, <2>3, MergeKey
  <2> HIDE DEF c
  <2> QED
    BY <1>1, <2>1, <2>2, <2>4 DEF OneAtATime
<1>7. ASSUME NEW x \in Handlers, ReadPage(x) \/ ReadLastPage(x) \/ ListFails(x) PROVE KeyInv'
  <2>1. UNCHANGED <<mem, disk, clientKey, refused>> /\ h[x].pc = "listing"
    BY <1>7 DEF ReadPage, ReadLastPage, ListFails, store, At
  <2>2. h'[x].pc \in {"idle", "listing", "saving"}
    BY <1>0, <1>7, <2>1 DEF ReadPage, ReadLastPage, ListFails, Idle, Handler
  <2>3. h[x].cfg.key = mem.key \/ h[x].cfg.key.by = h[x].req
    BY <2>1 DEF KeyInv
  <2>4. h'[x].pc # "idle" => h'[x].cfg.key = h[x].cfg.key /\ h'[x].req = h[x].req
    <3>1. CASE ReadPage(x)
      BY <1>0, <3>1 DEF ReadPage, Handler
    <3>2. CASE ReadLastPage(x)
      BY <1>0, <3>2 DEF ReadLastPage, Handler, Config
    <3>3. CASE ListFails(x)
      BY <1>0, <3>3 DEF ListFails, Idle
    <3> QED
      BY <1>7, <3>1, <3>2, <3>3
  <2> QED
    BY <1>1, <2>1, <2>2, <2>3, <2>4 DEF OneAtATime
<1>8. ASSUME NEW x \in Handlers, ReadBack(x) PROVE KeyInv'
  <2> DEFINE b == mem.key.val # "none"
  <2>1. UNCHANGED <<mem, disk, clientKey>> /\ h[x].pc = "saved"
    BY <1>8 DEF ReadBack, store, At
  <2>2. h'[x] = [h[x] EXCEPT !.pc = "switching", !.configured = b]
    BY <1>0, <1>8 DEF ReadBack
  <2>3. h'[x].pc = "switching" /\ h'[x].cfg = h[x].cfg
    BY <1>0, <2>2 DEF Handler
  <2>4. h'[x].configured = b
    BY <1>0, <2>2, Zenon DEF Handler
  <2>5. h'[x].configured \/ h'[x].cfg.key.val = "none"
    BY <2>1, <2>3, <2>4 DEF KeyInv
  <2> QED
    BY <2>1, <2>3, <2>5 DEF KeyInv, OneAtATime
<1>9. ASSUME NEW x \in Handlers, SwitchKey(x) PROVE KeyInv'
  <2>1. UNCHANGED <<mem, disk>> /\ disk = h[x].cfg /\ mem = disk
        /\ (h[x].configured \/ h[x].cfg.key.val = "none")
        /\ clientKey' = IF h[x].configured THEN h[x].cfg.key ELSE clientKey
    BY <1>9 DEF SwitchKey, store, At, KeyInv
  <2>2. \A y \in Handlers : h'[y].pc = "idle"
    BY <1>0, <1>9 DEF SwitchKey, Idle, OneAtATime
  <2>3. disk.key = clientKey' \/ disk.key = Empty(disk.key.by)
    BY <1>0, <2>1 DEF Empty, Config, Secret
  <2> QED
    BY <2>1, <2>2, <2>3 DEF KeyInv, Follows, Empty
<1>10. CASE OtherSetter
  <2>1. disk' = mem /\ mem # disk /\ UNCHANGED <<mem, clientKey, h, refused>>
    BY <1>10 DEF OtherSetter
  <2>2. \A x \in Handlers : h[x].pc \notin {"saved", "switching"}
    BY <2>1 DEF KeyInv
  <2> QED
    BY <2>1, <2>2 DEF KeyInv, Follows, Empty
<1> QED
  BY <1>2, <1>3, <1>4, <1>5, <1>6, <1>7, <1>8, <1>9, <1>10, SaveKey DEF Next

\* Between requests the client has the key of the file, or the file none, or one
\* whose own save failed and that another setter stored, whatever saves fail,
\* whoever else saves and however often the process starts anew.
THEOREM KeyOfTheFile == ASSUME OneAtATime PROVE Spec => []KeyFollows
<1>1. TypeInv /\ KeyInv => KeyFollows
  BY DEF KeyInv, KeyFollows, Follows, At
<1>2. TypeInv /\ KeyInv /\ [Next]_vars => TypeInv' /\ KeyInv'
  BY NextType, NextKey
<1>3. Init => TypeInv /\ KeyInv
  BY InitType, InitSaved
<1> QED
  BY <1>1, <1>2, <1>3, PTL DEF Spec

----------------------------------------------------------------------------
(* MappingReconciled.                                                      *)

\* Where a reader of the list is: whoever is active is read, was away at some
\* moment, or is still on a page to come.  It lasts until someone leaves.
ReadInv(x) ==
  /\ h[x].pc = "listing" =>
       /\ NeedsLists(h[x].ask) /\ h[x].page >= 1 /\ h[x].cfg.targets = h[x].ask.targets
       /\ Subs \ active \subseteq h[x].gone
       /\ \/ h[x].left
          \/ \A s \in active : \/ s \in h[x].got \cup h[x].gone
                               \/ Newer(s) \div PageSize >= h[x].page - 1
  /\ h[x].pc = "saving" /\ NeedsLists(h[x].ask) =>
       LET fit == h[x].ask.targets \cap InGroup
       IN /\ h[x].cfg.targets \subseteq fit
          /\ h[x].left \/ fit \ h[x].cfg.targets \subseteq h[x].gone

ReadsInv == \A x \in Handlers : ReadInv(x)

\* Division is monotone, and knows where a page begins.
LEMMA DivLess ==
  ASSUME NEW a \in Nat, NEW d \in Nat \ {0}, NEW q \in Nat
  PROVE  a \div d \in Nat /\ (a \div d < q <=> a < d * q)
<1> DEFINE y == a \div d
<1>1. y \in Nat /\ d * y <= a /\ a < d * y + d
  OBVIOUS
<1> HIDE DEF y
<1>2. CASE y < q
  <2> DEFINE k == q - (y + 1)
  <2>1. k \in Nat /\ q = y + 1 + k
    BY <1>1, <1>2
  <2> HIDE DEF k
  <2>2. d * q = d * y + d + d * k /\ d * k \in Nat /\ d * y \in Nat
    BY <1>1, <2>1
  <2> QED
    BY <1>1, <1>2, <2>2 DEF y
<1>3. CASE q <= y
  <2> DEFINE k == y - q
  <2>1. k \in Nat /\ y = q + k
    BY <1>1, <1>3
  <2> HIDE DEF k
  <2>2. d * y = d * q + d * k /\ d * k \in Nat /\ d * q \in Nat
    BY <2>1
  <2> QED
    BY <1>1, <1>3, <2>2 DEF y
<1> QED
  BY <1>1, <1>2, <1>3 DEF y

LEMMA DivMonotone ==
  ASSUME NEW a \in Nat, NEW b \in Nat, a <= b, NEW d \in Nat \ {0}
  PROVE  a \div d <= b \div d
<1> DEFINE q == b \div d + 1
<1>1. q \in Nat /\ a \div d \in Nat /\ b \div d \in Nat /\ b \div d < q
  BY DivLess
<1> HIDE DEF q
<1>2. b < d * q /\ d * q \in Nat
  BY <1>1, DivLess
<1>3. a \div d < q
  BY <1>1, <1>2, DivLess
<1> QED
  BY <1>1, <1>3 DEF q

LEMMA LeastNatural ==
  ASSUME NEW T \in SUBSET Nat, T # {}
  PROVE  \E a \in T : \A b \in T : a <= b
<1> DEFINE R == {ss \in Nat \X Nat : ss[1] < ss[2]}
<1>1. IsWellFoundedOn(R, Nat)
  BY NatLessThanWellFounded DEF OpToRel
<1>2. \E a \in T : \A b \in T : ~(<<b, a>> \in R)
  <2> HIDE DEF R
  <2> QED
    BY <1>1, WFMin
<1>3. PICK a \in T : \A b \in T : ~(<<b, a>> \in R)
  BY <1>2
<1> SUFFICES ASSUME NEW b \in T, b < a PROVE FALSE
  BY <1>3
<1> QED
  BY <1>3

\* Where a subscription stands in the list.
LEMMA NewerFacts ==
  ASSUME active \subseteq Subs, NEW s \in active
  PROVE  /\ IsFiniteSet(active) /\ s \in Nat
         /\ Newer(s) \in Nat /\ Newer(s) < Cardinality(active)
         /\ Newer(s) = 0 => \A t \in active : ~(t > s)
<1> DEFINE A == {t \in active : t > s}
<1>1. IsFiniteSet(active) /\ active \subseteq Nat
  BY ConfigurationAssumption, FS_Subset
<1>2. /\ IsFiniteSet(active \ {s}) /\ Cardinality(active) \in Nat
      /\ Cardinality(active \ {s}) = Cardinality(active) - 1
  BY <1>1, FS_RemoveElement, FS_CardinalityType
<1>3. A \subseteq active \ {s}
  BY <1>1
<1>4. IsFiniteSet(A) /\ Cardinality(A) \in Nat /\ Cardinality(A) <= Cardinality(active) - 1
  BY <1>2, <1>3, FS_Subset, FS_CardinalityType
<1>5. Cardinality(A) = 0 => A = {}
  BY <1>4, FS_EmptySet
<1> QED
  BY <1>1, <1>2, <1>4, <1>5 DEF Newer

\* The list has no gaps: before a subscription comes one in the place before.
LEMMA NextNewer ==
  ASSUME active \subseteq Subs, NEW t \in active, Newer(t) # 0
  PROVE  \E u \in active : Newer(u) = Newer(t) - 1
<1> DEFINE N == {v \in active : v > t}
<1>1. /\ IsFiniteSet(active) /\ active \subseteq Nat /\ N \subseteq Nat /\ IsFiniteSet(N)
  BY ConfigurationAssumption, FS_Subset
<1>2. N # {}
  BY FS_EmptySet DEF Newer
<1>3. PICK u \in N : \A v \in N : u <= v
  <2> HIDE DEF N
  <2> QED
    BY <1>1, <1>2, LeastNatural
<1>4. {v \in active : v > u} = N \ {u}
  <2>1. \A v \in active : v \in Nat /\ u \in Nat /\ t \in Nat /\ u > t
    BY <1>1, <1>3
  <2>2. ASSUME NEW v \in active PROVE v > u <=> v \in N \ {u}
    BY <1>3, <2>1
  <2>3. N \subseteq active
    OBVIOUS
  <2> HIDE DEF N
  <2> QED
    BY <2>2, <2>3
<1>5. Cardinality(N \ {u}) = Cardinality(N) - 1
  <2> HIDE DEF N
  <2> QED
    BY <1>1, <1>3, FS_RemoveElement
<1> QED
  BY <1>3, <1>4, <1>5 DEF Newer

\* What the last page ends: no active subscription is on a later page, neither
\* when the pages are counted nor when a page comes back empty.
LEMMA LastPageCovers ==
  ASSUME active \subseteq Subs, NEW p \in Nat \ {0}, LastPage(p),
         NEW s \in active, Newer(s) \div PageSize >= p - 1
  PROVE  s \in Page(p)
<1> DEFINE size == PageSize
<1>1. size \in Nat \ {0} /\ \A t \in active : Newer(t) \in Nat
  BY ConfigurationAssumption, NewerFacts
<1>2. \A t \in active : Newer(t) \div size \in Nat
  BY <1>1, DivLess
<1> SUFFICES ASSUME Newer(s) \div size >= p PROVE FALSE
  BY <1>2 DEF Page
<1>3. CASE Pages <= p
  <2> DEFINE k == Cardinality(active)
  <2>1. k \in Nat /\ Newer(s) < k
    BY NewerFacts, FS_CardinalityType
  <2>2. size * p \in Nat /\ ~(Newer(s) < size * p)
    BY <1>1, <1>2, DivLess
  <2>3. size * (p + 1) = size * p + size
    BY <1>1
  <2>4. Pages = (k + size - 1) \div size /\ k + size - 1 \in Nat
    BY <1>1, <2>1 DEF Pages
  <2> HIDE DEF k, size
  <2>5. ~(k + size - 1 < size * (p + 1))
    BY <1>1, <2>1, <2>2, <2>3
  <2>6. (k + size - 1) \div size \in Nat /\ ~((k + size - 1) \div size < p + 1)
    BY <1>1, <2>4, <2>5, DivLess
  <2> QED
    BY <1>3, <2>4, <2>6
<1>4. CASE Page(p) = {}
  <2> DEFINE T == {Newer(t) : t \in {u \in active : size * (p - 1) <= Newer(u)}}
  <2>1. size * p \in Nat /\ size * (p - 1) \in Nat /\ size * p = size * (p - 1) + size
    BY <1>1
  <2>2. ~(Newer(s) < size * p)
    BY <1>1, <1>2, DivLess
  <2>3. size * (p - 1) <= Newer(s)
    BY <1>1, <2>1, <2>2
  <2>4. T \subseteq Nat /\ T # {}
    BY <1>1, <2>3
  <2>5. PICK m \in T : \A a \in T : m <= a
    <3> HIDE DEF T
    <3> QED
      BY <2>4, LeastNatural
  <2>6. PICK t \in active : m = Newer(t) /\ size * (p - 1) <= Newer(t)
    OBVIOUS
  <2>7. size * p <= Newer(t)
    <3> SUFFICES ASSUME Newer(t) < size * p PROVE FALSE
      BY <1>1, <2>1
    <3>1. Newer(t) \div size < p
      BY <1>1, DivLess
    <3>2. ~(Newer(t) \div size < p - 1)
      <4>1. p - 1 \in Nat /\ ~(Newer(t) < size * (p - 1))
        BY <1>1, <2>1, <2>6
      <4> HIDE DEF size
      <4> QED
        BY <1>1, <4>1, DivLess
    <3>3. t \in Page(p)
      BY <1>2, <3>1, <3>2 DEF Page
    <3> QED
      BY <1>4, <3>3
  <2>8. Newer(t) \in Nat /\ Newer(t) # 0
    BY <1>1, <2>1, <2>7
  <2>9. PICK u \in active : Newer(u) = Newer(t) - 1
    BY <2>8, NextNewer
  <2>10. size * (p - 1) <= Newer(u) /\ Newer(u) < m
    BY <1>1, <2>1, <2>6, <2>7, <2>8, <2>9
  <2>11. Newer(u) \in T /\ m \in Nat /\ Newer(u) \in Nat
    BY <1>1, <2>6, <2>10
  <2> HIDE DEF T
  <2>12. m <= Newer(u)
    BY <2>5, <2>11
  <2> QED
    BY <2>10, <2>11, <2>12
<1> QED
  BY <1>3, <1>4 DEF LastPage

\* A handler that another one's step leaves alone, while the list is the same
\* or nobody reads it.
LEMMA OtherReads ==
  ASSUME NEW y \in Handlers, ReadInv(y), h'[y] = h[y],
         active' = active \/ h[y].pc # "listing"
  PROVE  ReadInv(y)'
<1>1. CASE active' = active
  <2>1. \A s : Newer(s)' = Newer(s)
    BY <1>1 DEF Newer
  <2> QED
    BY <1>1, <2>1 DEF ReadInv
<1>2. CASE h[y].pc # "listing"
  BY <1>2 DEF ReadInv
<1> QED
  BY <1>1, <1>2

LEMMA ReadPageReads ==
  ASSUME TypeInv, ReadsInv, NEW x \in Handlers, ReadPage(x) PROVE ReadInv(x)'
<1> DEFINE p == h[x].page
<1>1. /\ h[x] \in Handler /\ p \in Nat /\ h[x].pc = "listing" /\ active' = active
      /\ active \subseteq Subs
  BY DEF ReadPage, At, TypeInv, TypeOK, Handler
<1>2. /\ h'[x].pc = "listing" /\ h'[x].got = h[x].got \cup Page(p) /\ h'[x].page = p + 1
      /\ h'[x].cfg = h[x].cfg /\ h'[x].ask = h[x].ask /\ h'[x].gone = h[x].gone
  BY <1>1 DEF ReadPage, TypeInv, TypeOK, Handler
<1>3. h'[x].left = h[x].left
  BY <1>1, Zenon DEF ReadPage, TypeInv, TypeOK, Handler
<1>4. ReadInv(x)
  BY DEF ReadsInv
<1>5. \A s \in active : Newer(s)' = Newer(s) /\ Newer(s) \div PageSize \in Nat
  BY <1>1, NewerFacts, DivLess, ConfigurationAssumption DEF Newer
<1>6. ASSUME NEW s \in active, Newer(s) \div PageSize >= p - 1
      PROVE  s \in Page(p) \/ Newer(s) \div PageSize >= p
  BY <1>1, <1>5, <1>6 DEF Page
<1>7. \/ h'[x].left
      \/ \A s \in active' : \/ s \in h'[x].got \cup h'[x].gone
                            \/ Newer(s)' \div PageSize >= h'[x].page - 1
  <2>1. CASE h[x].left
    BY <1>3, <2>1
  <2>2. ASSUME NEW s \in active, \/ s \in h[x].got \cup h[x].gone
                                 \/ Newer(s) \div PageSize >= p - 1
        PROVE  \/ s \in h'[x].got \cup h'[x].gone
               \/ Newer(s)' \div PageSize >= h'[x].page - 1
    BY <1>1, <1>2, <1>5, <1>6, <2>2
  <2> QED
    BY <1>1, <1>4, <2>1, <2>2 DEF ReadInv
<1>8. /\ NeedsLists(h[x].ask) /\ p >= 1 /\ h[x].cfg.targets = h[x].ask.targets
      /\ Subs \ active \subseteq h[x].gone
  BY <1>1, <1>4 DEF ReadInv
<1> QED
  BY <1>1, <1>2, <1>7, <1>8 DEF ReadInv

LEMMA ReadLastPageReads ==
  ASSUME TypeInv, ReadsInv, NEW x \in Handlers, ReadLastPage(x) PROVE ReadInv(x)'
<1> DEFINE p == h[x].page
           got == h[x].got \cup Page(p)
           kept == Reconciled(h[x].cfg.targets, got)
<1>1. /\ h[x] \in Handler /\ p \in Nat /\ h[x].pc = "listing" /\ LastPage(p)
      /\ active \subseteq Subs /\ h[x].cfg \in Config /\ h[x].ask.targets \subseteq Subs
  BY DEF ReadLastPage, At, TypeInv, TypeOK, Handler, Request
<1>2. /\ h'[x].pc = "saving" /\ h'[x].ask = h[x].ask /\ h'[x].gone = h[x].gone
      /\ h'[x].cfg.targets = kept
  BY <1>1 DEF ReadLastPage, TypeInv, TypeOK, Handler, Config
<1>3. h'[x].left = h[x].left
  BY <1>1, Zenon DEF ReadLastPage, TypeInv, TypeOK, Handler
<1>4. /\ h[x].cfg.targets = h[x].ask.targets /\ p >= 1 /\ Subs \ active \subseteq h[x].gone
      /\ \/ h[x].left
         \/ \A s \in active : \/ s \in h[x].got \cup h[x].gone
                              \/ Newer(s) \div PageSize >= p - 1
  BY <1>1 DEF ReadsInv, ReadInv
<1>5. kept = h[x].ask.targets \cap got \cap InGroup
  BY <1>4 DEF Reconciled
<1>6. ASSUME NEW t \in (h[x].ask.targets \cap InGroup) \ kept, ~h[x].left
      PROVE  t \in h[x].gone
  <2>1. t \in Subs /\ t \notin got
    BY <1>1, <1>5
  <2>2. CASE t \notin active
    BY <1>4, <2>1, <2>2
  <2>3. CASE t \in active
    <3>1. Newer(t) \div PageSize >= p - 1 => t \in Page(p)
      BY <1>1, <1>4, <2>3, LastPageCovers
    <3>2. t \in h[x].got \cup h[x].gone \/ Newer(t) \div PageSize >= p - 1
      BY <1>4, <1>6, <2>3
    <3> QED
      BY <2>1, <3>1, <3>2
  <2> QED
    BY <2>2, <2>3
<1> HIDE DEF kept, got
<1>7. kept \subseteq h[x].ask.targets \cap InGroup
  BY <1>5
<1> QED
  BY <1>2, <1>3, <1>6, <1>7 DEF ReadInv

\* Someone joins: nobody comes closer to the front of the list.
LEMMA JoinReads ==
  ASSUME TypeInv, ReadsInv, NEW s \in Subs, Join(s), NEW x \in Handlers PROVE ReadInv(x)'
<1>1. /\ h' = h /\ active' = active \cup {s} /\ s \in Subs \ active
      /\ active \subseteq Subs /\ active' \subseteq Subs /\ h[x] \in Handler
  BY DEF Join, TypeInv, TypeOK
<1>2. ASSUME NEW t \in active PROVE Newer(t) \div PageSize <= Newer(t)' \div PageSize
  <2>1. {u \in active : u > t} \subseteq {u \in active' : u > t}
    BY <1>1
  <2>2. IsFiniteSet(active') /\ IsFiniteSet({u \in active' : u > t})
    BY <1>1, ConfigurationAssumption, FS_Subset
  <2>3. Newer(t) <= Newer(t)' /\ Newer(t) \in Nat /\ Newer(t)' \in Nat
    BY <2>1, <2>2, FS_Subset, FS_CardinalityType DEF Newer
  <2> QED
    BY <2>3, DivMonotone, ConfigurationAssumption
<1>3. ASSUME NEW t \in active
      PROVE  Newer(t) \div PageSize \in Nat /\ Newer(t)' \div PageSize \in Nat
  <2>1. Newer(t) \in Nat
    BY <1>1, NewerFacts
  <2>2. Newer(t)' \in Nat
    <3>1. IsFiniteSet({u \in active' : u > t})
      BY <1>1, ConfigurationAssumption, FS_Subset
    <3> QED
      BY <3>1, FS_CardinalityType DEF Newer
  <2> QED
    BY <2>1, <2>2, DivLess, ConfigurationAssumption
<1>4. CASE h[x].pc = "listing"
  <2>1. /\ NeedsLists(h[x].ask) /\ h[x].page >= 1 /\ h[x].cfg.targets = h[x].ask.targets
        /\ Subs \ active \subseteq h[x].gone
        /\ \/ h[x].left
           \/ \A t \in active : \/ t \in h[x].got \cup h[x].gone
                                \/ Newer(t) \div PageSize >= h[x].page - 1
    BY <1>4 DEF ReadsInv, ReadInv
  <2>2. s \in h[x].gone /\ Subs \ active' \subseteq h[x].gone /\ h[x].page \in Nat
    BY <1>1, <2>1 DEF Handler
  <2>3. ASSUME NEW t \in active', ~h[x].left
        PROVE  t \in h[x].got \cup h[x].gone \/ Newer(t)' \div PageSize >= h[x].page - 1
    BY <1>1, <1>2, <1>3, <2>1, <2>2, <2>3
  <2> QED
    BY <1>1, <1>4, <2>1, <2>2, <2>3 DEF ReadInv
<1>5. CASE h[x].pc # "listing"
  BY <1>1, <1>5, OtherReads DEF ReadsInv
<1> QED
  BY <1>4, <1>5

LEMMA NextReads == ASSUME TypeInv, ReadsInv, [Next]_vars PROVE ReadsInv'
<1>0. h \in [Handlers -> Handler]
  BY DEF TypeInv, TypeOK
<1>1. CASE Crash
  BY <1>1 DEF Crash, ReadsInv, ReadInv, Idle
<1>2. ASSUME NEW s \in Subs, Leave(s) PROVE ReadsInv'
  <2> SUFFICES ASSUME NEW x \in Handlers PROVE ReadInv(x)'
    BY DEF ReadsInv
  <2>1. CASE h[x].pc = "listing"
    <3>1. h'[x] = [h[x] EXCEPT !.gone = h[x].gone \cup {s}, !.left = TRUE]
      BY <1>0, <1>2, <2>1 DEF Leave, At
    <3>2. h'[x].left = TRUE
      BY <1>0, <3>1, Zenon DEF Handler
    <3>3. /\ h'[x].pc = "listing" /\ h'[x].ask = h[x].ask /\ h'[x].cfg = h[x].cfg
          /\ h'[x].page = h[x].page /\ h'[x].gone = h[x].gone \cup {s}
      BY <1>0, <2>1, <3>1 DEF Handler
    <3>4. /\ NeedsLists(h[x].ask) /\ h[x].page >= 1 /\ h[x].cfg.targets = h[x].ask.targets
          /\ Subs \ active \subseteq h[x].gone
      BY <2>1 DEF ReadsInv, ReadInv
    <3>5. Subs \ active' \subseteq h'[x].gone
      BY <1>2, <3>3, <3>4 DEF Leave
    <3> QED
      BY <3>2, <3>3, <3>4, <3>5 DEF ReadInv
  <2>2. CASE h[x].pc # "listing"
    <3>1. h'[x] = h[x]
      BY <1>0, <1>2, <2>2 DEF Leave, At
    <3> QED
      BY <2>2, <3>1, OtherReads DEF ReadsInv
  <2> QED
    BY <2>1, <2>2
<1>3. ASSUME NEW s \in Subs, Join(s) PROVE ReadsInv'
  BY <1>3, JoinReads DEF ReadsInv
<1>4. ASSUME NEW x \in Handlers, NEW r \in Request, Submit(x, r) PROVE ReadsInv'
  <2>1. \A y \in Handlers : y # x => h'[y] = h[y]
    BY <1>0, <1>4 DEF Submit
  <2>2. active' = active \/ \A y \in Handlers : h[y].pc # "listing"
    BY <1>4 DEF Submit, Listing, At
  <2>3. ReadInv(x)'
    <3> DEFINE c == MergeScopedConfig(mem, r, n')
               p == IF NeedsLists(r) THEN "listing" ELSE "saving"
               v == [Idle EXCEPT !.pc = p, !.ask = r, !.req = n', !.cfg = c,
                                 !.page = 1, !.gone = Subs \ active']
    <3>1. h'[x] = v
      BY <1>0, <1>4 DEF Submit
    <3>2. NeedsLists(r) => c.targets = r.targets
      <4>1. n' \in Serial /\ mem \in Config
        BY <1>4, ConfigurationAssumption DEF Submit, TypeInv, TypeOK, Serial
      <4>2. r.scope = "mapping" => c.targets = r.targets
        BY <4>1 DEF MergeScopedConfig, MergeMapping, Config
      <4>3. r.scope = "all" => c.targets = r.targets
        <5> DEFINE a == MergeMapping(mem, r, n')
                   b == MergeNotifications(a, r, n')
                   k == IF r.key = "typed" THEN Typed(n') ELSE Empty(n')
        <5>1. a \in Config /\ a.targets = r.targets
          BY <4>1, MergeTypes DEF MergeMapping, Config
        <5> HIDE DEF a
        <5>2. b \in Config /\ b.targets = r.targets
          BY <4>1, <5>1, MergeTypes DEF MergeNotifications, Config
        <5>3. r.scope = "all" => c = [b EXCEPT !.overview = n', !.key = k]
          BY DEF MergeScopedConfig, MergeAll, a
        <5> HIDE DEF b, k, c
        <5> QED
          BY <5>2, <5>3 DEF Config
      <4> QED
        BY <4>2, <4>3 DEF NeedsLists
    <3> HIDE DEF c, p
    <3>3. /\ v.pc = p /\ v.ask = r /\ v.cfg = c /\ v.page = 1 /\ v.gone = Subs \ active'
      BY DEF Idle
    <3>5. ASSUME NEW s \in active' PROVE Newer(s)' \div PageSize >= 0
      <4>1. active' \subseteq Subs
        BY <1>4 DEF Submit, TypeInv, TypeOK
      <4>2. IsFiniteSet({u \in active' : u > s})
        BY <4>1, ConfigurationAssumption, FS_Subset
      <4>3. Newer(s)' \in Nat
        BY <4>2, FS_CardinalityType DEF Newer
      <4> QED
        BY <4>3, DivLess, ConfigurationAssumption
    <3>6. p \in {"listing", "saving"} /\ (p = "listing" <=> NeedsLists(r))
      BY DEF p
    <3> HIDE DEF v
    <3> QED
      BY <3>1, <3>2, <3>3, <3>5, <3>6 DEF ReadInv
  <2> QED
    BY <2>1, <2>2, <2>3, OtherReads DEF ReadsInv
<1>5. ASSUME NEW x \in Handlers, ReadPage(x) \/ ReadLastPage(x) PROVE ReadsInv'
  <2>1. active' = active /\ \A y \in Handlers : y # x => h'[y] = h[y]
    BY <1>0, <1>5 DEF ReadPage, ReadLastPage
  <2> QED
    BY <1>5, <2>1, OtherReads, ReadPageReads, ReadLastPageReads DEF ReadsInv
<1>6. ASSUME NEW x \in Handlers,
             ListFails(x) \/ SaveConfig(x) \/ ReadBack(x) \/ SwitchKey(x)
      PROVE  ReadsInv'
  <2>1. active' = active /\ \A y \in Handlers : y # x => h'[y] = h[y]
    BY <1>0, <1>6 DEF ListFails, SaveConfig, ReadBack, SwitchKey
  <2>2. h'[x].pc \in {"idle", "saved", "switching"}
    <3>1. CASE ReadBack(x)
      BY <1>0, <3>1 DEF ReadBack, Handler
    <3>2. CASE ListFails(x) \/ SwitchKey(x)
      BY <1>0, <3>2 DEF ListFails, SwitchKey, Idle
    <3>3. CASE SaveConfig(x)
      <4>1. [Idle EXCEPT !.pc = "saved", !.ask = h[x].ask, !.req = h[x].req,
                         !.cfg = h[x].cfg].pc = "saved" /\ Idle.pc = "idle"
        BY DEF Idle
      <4>2. \/ h' = [h EXCEPT ![x] = Idle]
            \/ h' = [h EXCEPT ![x] = [Idle EXCEPT !.pc = "saved", !.ask = h[x].ask,
                                                  !.req = h[x].req, !.cfg = h[x].cfg]]
        BY <3>3 DEF SaveConfig
      <4> QED
        BY <1>0, <4>1, <4>2
    <3> QED
      BY <1>6, <3>1, <3>2, <3>3
  <2>3. ReadInv(x)'
    BY <2>2 DEF ReadInv
  <2> QED
    BY <2>1, <2>3, OtherReads DEF ReadsInv
<1>7. CASE UNCHANGED vars
  BY <1>7, OtherReads DEF vars, ReadsInv
<1>8. CASE OtherSetter
  <2>1. \A y \in Handlers : h'[y] = h[y]
    BY <1>8 DEF OtherSetter
  <2>2. active' = active
    BY <1>8 DEF OtherSetter
  <2> QED
    BY <2>1, <2>2, OtherReads DEF ReadsInv
<1> QED
  BY <1>1, <1>2, <1>3, <1>4, <1>5, <1>6, <1>7, <1>8 DEF Next

\* A mapping request stores what was asked for and fits, and leaves out only
\* what does not, or what was away for a moment, unless the list moved under
\* the reader (reconcileSourceMappings, ListActiveSubscriptions).
THEOREM MappingKept == Spec => []MappingReconciled
<1>1. Init => ReadsInv
  BY DEF Init, ReadsInv, ReadInv, Idle
<1>2. ReadsInv => MappingReconciled
  BY DEF ReadsInv, ReadInv, MappingReconciled, At
<1> QED
  BY <1>1, <1>2, InitType, NextType, NextReads, PTL DEF Spec

============================================================================
