--------------------------- MODULE Configuration ---------------------------
(***************************************************************************)
(* Saving the configuration (main.go updateConfig): a request carries the  *)
(* settings of one tab of the page, or of all, is merged into the stored   *)
(* configuration, reconciled with two lists read from Sub2API, and stored  *)
(* as a whole; then the client takes the administrator key over.  Around   *)
(* it: saves that fail, other parts of the program that save the whole     *)
(* memory, crashes and restarts, the key's secret file, and subscriptions  *)
(* that come and go while the list is read page by page.                   *)
(*                                                                         *)
(* Settings are told apart by the number of the request that set them.     *)
(* What the scheduler makes of a saved configuration is in Scheduler.tla,  *)
(* what running workers make of it in ResetPipeline.tla.                   *)
(***************************************************************************)
EXTENDS Naturals, FiniteSets

CONSTANTS
  Handlers,      \* requests that may be handled at the same time
  Scopes,        \* which of "overview", "mapping", "notifications", "all" are used
  Subs,          \* subscriptions, numbered in the order of their creation
  InGroup,       \* those in a group of the watched account
  PageSize,      \* length of a page of the list (1000 in client.go)
  SecretFile,    \* whether the secret file holds an administrator key
  MaxRequests,   \* bound: requests in a behaviour
  MaxWhole,      \* bound: only the first so many may be of scope "all"
  SaveOutcomes, MayCrash   \* as in ResetPipeline

AllScopes == {"overview", "mapping", "notifications", "all"}

ASSUME ConfigurationAssumption ==
  /\ Scopes \subseteq AllScopes
  /\ Subs \subseteq Nat /\ IsFiniteSet(Subs) /\ InGroup \subseteq Subs
  /\ PageSize \in Nat \ {0} /\ {MaxRequests, MaxWhole} \subseteq Nat
  /\ TRUE \in SaveOutcomes /\ SaveOutcomes \subseteq BOOLEAN
  /\ SecretFile \in BOOLEAN /\ MayCrash \in BOOLEAN

Serial == 0..MaxRequests
\* The administrator key, and the secret of a notification channel.
Secret == [by : Serial, val : {"none", "file", "typed"}]
Config == [overview : Serial, mapping : Serial, notifications : Serial,
           key : Secret, secret : Secret, on : BOOLEAN,
           watch : BOOLEAN, targets : SUBSET Subs]
Request == [scope : AllScopes, key : {"blank", "typed"},
            secret : {"blank", "typed", "clear"}, on : BOOLEAN,
            watch : BOOLEAN, targets : SUBSET Subs]
Phase == {"idle", "listing", "saving", "saved", "switching"}

VARIABLES
  mem, disk,  \* Config in memory and in the state file
  clientKey,  \* the key the client sends
  h,          \* the requests being handled
  active,     \* Sub2API: the active subscriptions
  n,          \* requests so far
  saved,      \* ghost: per setting, the latest request whose value reached the file
  refused     \* ghost: requests whose save failed since the last that did not

store == <<mem, disk>>
vars  == <<mem, disk, clientKey, h, active, n, saved, refused>>

----------------------------------------------------------------------------
(* mergeScopedConfig and validateConfig.                                   *)

Typed(i) == [by |-> i, val |-> "typed"]
Empty(i) == [by |-> i, val |-> "none"]

\* Mutant: a blank field overwrites the stored secret.
MergedSecret_Blank(c, r, i) == IF r.secret = "typed" THEN Typed(i) ELSE Empty(0)

\* A blank field keeps the secret, a cleared one removes it.
MergedSecret(c, r, i) ==
  CASE r.secret = "typed" -> Typed(i)
    [] r.secret = "clear" -> Empty(i)
    [] OTHER              -> c.secret

MergeOverview(c, r, i) ==
  [c EXCEPT !.overview = i, !.key = IF r.key = "typed" THEN Typed(i) ELSE @]

MergeMapping(c, r, i) ==
  [c EXCEPT !.mapping = i, !.watch = r.watch, !.targets = r.targets]

\* A cleared secret switches its channel off.
MergeNotifications(c, r, i) ==
  [c EXCEPT !.notifications = i, !.secret = MergedSecret(c, r, i),
            !.on = r.on /\ r.secret # "clear"]

\* The whole configuration is the request's, its administrator key included.
MergeAll(c, r, i) ==
  [MergeNotifications(MergeMapping(c, r, i), r, i)
     EXCEPT !.overview = i, !.key = IF r.key = "typed" THEN Typed(i) ELSE Empty(i)]

\* Mutant: the other tabs' settings are not carried over.
MergeScopedConfig_Fresh(c, r, i) ==
  LET empty == [c EXCEPT !.overview = 0, !.mapping = 0, !.notifications = 0]
  IN CASE r.scope = "overview"      -> MergeOverview(empty, r, i)
       [] r.scope = "mapping"       -> MergeMapping(empty, r, i)
       [] r.scope = "notifications" -> MergeNotifications(empty, r, i)
       [] OTHER                     -> MergeAll(empty, r, i)

MergeScopedConfig(c, r, i) ==
  CASE r.scope = "overview"      -> MergeOverview(c, r, i)
    [] r.scope = "mapping"       -> MergeMapping(c, r, i)
    [] r.scope = "notifications" -> MergeNotifications(c, r, i)
    [] OTHER                     -> MergeAll(c, r, i)

\* A channel that is on has its secret.
ValidConfig(c) == c.on => c.secret.val # "none"

NeedsLists(r) == r.scope \in {"all", "mapping"} /\ r.watch

----------------------------------------------------------------------------
(* Start: an administrator key missing from the file is taken from the     *)
(* secret file and stored.                                                 *)

Started(c) ==
  IF c.key.val = "none" /\ SecretFile THEN [c EXCEPT !.key.val = "file"] ELSE c

Fresh == [overview |-> 0, mapping |-> 0, notifications |-> 0, key |-> Empty(0),
          secret |-> Empty(0), on |-> FALSE, watch |-> FALSE, targets |-> {}]

NoRequest == [scope |-> "overview", key |-> "blank", secret |-> "blank",
              on |-> FALSE, watch |-> FALSE, targets |-> {}]

\* What a handler has: the request and its number, the configuration it will
\* store, how far the list is read and (ghosts) what has left it, the answer.
Idle == [pc |-> "idle", ask |-> NoRequest, req |-> 0, cfg |-> Fresh,
         page |-> 0, got |-> {}, gone |-> {}, left |-> FALSE, configured |-> FALSE]

Fields == {"overview", "mapping", "notifications", "key", "secret"}

Init ==
  /\ mem = Started(Fresh) /\ disk = mem /\ clientKey = mem.key
  /\ h = [x \in Handlers |-> Idle]
  /\ active = Subs /\ n = 0
  /\ saved = [f \in Fields |-> 0] /\ refused = {}

At(x, p) == h[x].pc = p
Listing == \E x \in Handlers : At(x, "listing")

----------------------------------------------------------------------------
(* A request.                                                              *)

\* The requests of the page; a tab sends no other tab's settings.
Asks(r) ==
  /\ r.scope \in Scopes /\ (r.scope = "all" => n < MaxWhole)
  /\ r.scope \in {"mapping", "notifications"} => r.key = "blank"
  /\ r.scope \in {"overview", "mapping"} => r.secret = "blank" /\ ~r.on
  /\ r.scope \in {"overview", "notifications"} => ~r.watch
  /\ ~r.watch => r.targets = {}

\* The settings a request sets, as its sender sees it.
Touched(r) ==
  CASE r.scope = "overview"      -> {"overview"} \cup (IF r.key = "typed" THEN {"key"} ELSE {})
    [] r.scope = "mapping"       -> {"mapping"}
    [] r.scope = "notifications" -> {"notifications"} \cup (IF r.secret # "blank" THEN {"secret"} ELSE {})
    [] OTHER -> {"overview", "mapping", "notifications", "key"}
                  \cup (IF r.secret # "blank" THEN {"secret"} ELSE {})

\* Mutant: the merged configuration is not validated.
Submit_Unchecked(x, r) ==
  /\ At(x, "idle") /\ n < MaxRequests /\ Asks(r)
  /\ n' = n + 1
  /\ active' \in IF NeedsLists(r) /\ ~Listing THEN SUBSET Subs ELSE {active}
  /\ h' = [h EXCEPT ![x] = [Idle EXCEPT
             !.pc = IF NeedsLists(r) THEN "listing" ELSE "saving",
             !.ask = r, !.req = n', !.cfg = MergeScopedConfig(mem, r, n'),
             !.page = 1, !.gone = Subs \ active']]
  /\ UNCHANGED <<store, clientKey, saved, refused>>

\* The request is merged into the configuration of this moment; an invalid one
\* is refused and leaves nothing.  What became of the subscriptions while no
\* list was read shows when the first one is read again.
Submit(x, r) ==
  /\ At(x, "idle") /\ n < MaxRequests /\ Asks(r)
  /\ n' = n + 1
  /\ LET c == MergeScopedConfig(mem, r, n')
     IN /\ ValidConfig(c)
        /\ active' \in IF NeedsLists(r) /\ ~Listing THEN SUBSET Subs ELSE {active}
        /\ h' = [h EXCEPT ![x] = [Idle EXCEPT
                   !.pc = IF NeedsLists(r) THEN "listing" ELSE "saving",
                   !.ask = r, !.req = n', !.cfg = c,
                   !.page = 1, !.gone = Subs \ active']]
  /\ UNCHANGED <<store, clientKey, saved, refused>>

\* ListActiveSubscriptions: newest first, by offset in the list of this moment.
Newer(s) == Cardinality({t \in active : t > s})
Page(p)  == {s \in active : Newer(s) \div PageSize = p - 1}
Pages    == (Cardinality(active) + PageSize - 1) \div PageSize

\* Mutant: the last page is thought to be one earlier.
LastPage_Early(p) == Pages <= p + 1 \/ Page(p) = {}

LastPage(p) == Pages <= p \/ Page(p) = {}

ReadPage(x) ==
  /\ At(x, "listing") /\ ~LastPage(h[x].page)
  /\ h' = [h EXCEPT ![x].got = @ \cup Page(h[x].page), ![x].page = @ + 1]
  /\ UNCHANGED <<store, clientKey, active, n, saved, refused>>

\* Mutant: the group of a target is not looked at.
Reconciled_AnyGroup(wanted, got) == wanted \cap got

\* reconcileSourceMappings: what is not active or not of the group is dropped.
Reconciled(wanted, got) == wanted \cap got \cap InGroup

ReadLastPage(x) ==
  /\ At(x, "listing") /\ LastPage(h[x].page)
  /\ LET got == h[x].got \cup Page(h[x].page)
     IN h' = [h EXCEPT ![x].got = got, ![x].pc = "saving",
                       ![x].cfg.targets = Reconciled(@, got)]
  /\ UNCHANGED <<store, clientKey, active, n, saved, refused>>

\* A list fails, or the watched account is not among the accounts.
ListFails(x) ==
  /\ At(x, "listing") /\ h' = [h EXCEPT ![x] = Idle]
  /\ UNCHANGED <<store, clientKey, active, n, saved, refused>>

SerialOf(c, f) == IF f \in {"key", "secret"} THEN c[f].by ELSE c[f]

\* The ghost when c reaches the file.
Reached(c, f) == IF SerialOf(c, f) > saved[f] THEN SerialOf(c, f) ELSE saved[f]

\* SetConfig: memory takes the configuration, the file too or the save fails.
SaveConfig(x) ==
  /\ At(x, "saving") /\ mem' = h[x].cfg
  /\ \/ /\ disk' = h[x].cfg
        /\ h' = [h EXCEPT ![x] = [Idle EXCEPT !.pc = "saved", !.ask = h[x].ask,
                                             !.req = h[x].req, !.cfg = h[x].cfg]]
        /\ saved' = [f \in Fields |->
                       IF f \in Touched(h[x].ask) THEN h[x].req ELSE Reached(h[x].cfg, f)]
        /\ refused' = {}
     \/ /\ FALSE \in SaveOutcomes /\ disk' = disk
        /\ h' = [h EXCEPT ![x] = Idle] /\ UNCHANGED saved
        /\ refused' = refused \cup {h[x].req}
  /\ UNCHANGED <<clientKey, active, n>>

\* The stored configuration is read once more, for the answer.
ReadBack(x) ==
  /\ At(x, "saved")
  /\ h' = [h EXCEPT ![x].pc = "switching", ![x].configured = mem.key.val # "none"]
  /\ UNCHANGED <<store, clientKey, active, n, saved, refused>>

\* Mutant: the client keeps the key it was made with.
SwitchKey_Never(x) ==
  /\ At(x, "switching")
  /\ h' = [h EXCEPT ![x] = Idle]
  /\ UNCHANGED <<store, clientKey, active, n, saved, refused>>

\* SetAPIKey with the request's own configuration, and the answer.
SwitchKey(x) ==
  /\ At(x, "switching")
  /\ clientKey' = IF h[x].configured THEN h[x].cfg.key ELSE clientKey
  /\ h' = [h EXCEPT ![x] = Idle]
  /\ UNCHANGED <<store, active, n, saved, refused>>

----------------------------------------------------------------------------
(* The surroundings.                                                       *)

\* A poll, an event or an undo is saved (SetAccount, AddPollResult, AddEvent
\* and the other setters), and memory with it as a whole: a configuration whose
\* own save has failed reaches the file, and nobody tells the client.
OtherSetter ==
  /\ mem # disk /\ disk' = mem
  /\ saved' = [f \in Fields |-> Reached(mem, f)]
  /\ UNCHANGED <<mem, clientKey, h, active, n, refused>>

\* A subscription ends, or is active again; only while a list is read does it
\* matter when.
Leave(s) ==
  /\ Listing /\ s \in active /\ active' = active \ {s}
  /\ h' = [x \in Handlers |->
             IF At(x, "listing") THEN [h[x] EXCEPT !.gone = @ \cup {s}, !.left = TRUE]
             ELSE h[x]]
  /\ UNCHANGED <<store, clientKey, n, saved, refused>>

Join(s) ==
  /\ Listing /\ s \in Subs \ active /\ active' = active \cup {s}
  /\ UNCHANGED <<store, clientKey, h, n, saved, refused>>

\* Mutant: the client starts with the secret file's key.
Crash_SecretFirst ==
  /\ MayCrash
  /\ mem' = Started(disk) /\ disk' = mem'
  /\ clientKey' = IF SecretFile THEN [disk.key EXCEPT !.val = "file"] ELSE disk.key
  /\ h' = [x \in Handlers |-> Idle] /\ refused' = {}
  /\ UNCHANGED <<active, n, saved>>

\* The process dies and starts over from the file.
Crash ==
  /\ MayCrash
  /\ mem' = Started(disk) /\ disk' = mem' /\ clientKey' = mem'.key
  /\ h' = [x \in Handlers |-> Idle] /\ refused' = {}
  /\ UNCHANGED <<active, n, saved>>

Next ==
  \/ Crash \/ OtherSetter
  \/ \E s \in Subs : Leave(s) \/ Join(s)
  \/ \E x \in Handlers :
       \/ ReadPage(x) \/ ReadLastPage(x) \/ ListFails(x)
       \/ SaveConfig(x) \/ ReadBack(x) \/ SwitchKey(x)
       \/ \E r \in Request : Submit(x, r)

Spec == Init /\ [][Next]_vars

----------------------------------------------------------------------------
(* Properties.                                                             *)

Handler == [pc : Phase, ask : Request, req : Serial, cfg : Config, page : Nat,
            got : SUBSET Subs, gone : SUBSET Subs, left : BOOLEAN, configured : BOOLEAN]

\* Stored configurations are valid ones, so that the next save of another tab,
\* which is merged into them, is not refused for what it did not send.
TypeOK ==
  /\ mem \in Config /\ disk \in Config /\ ValidConfig(mem) /\ ValidConfig(disk)
  /\ clientKey \in Secret /\ h \in [Handlers -> Handler]
  /\ active \subseteq Subs /\ n \in Serial
  /\ saved \in [Fields -> Serial] /\ refused \subseteq Serial

\* "Each tab saves only its own settings" (README.md:382): the file never falls
\* back from a setting stored in it to an older one, except by a request that
\* sets it, whatever other tabs save, blank fields, failed saves, the saves of
\* others and restarts included.
NoSaveForgotten == \A f \in Fields : SerialOf(disk, f) >= saved[f]

\* Between requests the client calls Sub2API with the key of the state file, if
\* there is one (SetAPIKey, main).  They differ only by the key of a request
\* whose save failed, stored later by another setter, and only until the next
\* request is saved or the process starts anew.
KeyFollows ==
  (\A x \in Handlers : At(x, "idle")) =>
    disk.key \in {clientKey, Empty(disk.key.by)} \/ disk.key.by \in refused

\* What a mapping request is about to store was asked for and is of the group,
\* and a target is left out only when it is not of the group, was not active at
\* some moment, or another subscription left the list while its pages were read.
MappingReconciled ==
  \A x \in Handlers : At(x, "saving") /\ NeedsLists(h[x].ask) =>
    LET fit == h[x].ask.targets \cap InGroup
    IN /\ h[x].cfg.targets \subseteq fit
       /\ h[x].left \/ fit \ h[x].cfg.targets \subseteq h[x].gone

============================================================================
