-------------------------- MODULE ConfigLockProofs --------------------------
(***************************************************************************)
(* What ConfigLock promises, proved for any number of requests in flight,  *)
(* any URLs and any faults of the disk: the configuration file follows the *)
(* configuration behind the mutex, and on Umbrel the indexer client        *)
(* follows it too, as long as no reconnect is under way.  The argument     *)
(* rests on the mutex itself: who holds it is inside a handler, or is a    *)
(* save that has come to its reconnect, and that save never gets out.      *)
(***************************************************************************)
EXTENDS ConfigLock, FiniteSetTheorems, TLAPS

-----------------------------------------------------------------------------
(* The inductive invariant.                                                *)

\* A task that has asked for the mutex knows what for, and one that has read
\* the URL has one.
RequestsKnown ==
    \A p \in Task :
        /\ task[p].pc \in {"lock", "body"} =>
              task[p].req \in Request /\ (p = Retry => task[p].req.op = "retry")
        /\ task[p].pc \in {"resolve", "back", "client"} => task[p].url \in Url

\* A save holds the mutex at its reconnect.
Hung(p) ==
    owner = p /\ p \in Caller /\ task[p].pc = "url" /\ task[p].req \in SaveRequest

\* Whoever is in a handler's body holds the mutex; whoever holds it is there,
\* or is a save that hangs.
GuardsHeld ==
    \A p \in Task :
        /\ task[p].pc = "body" => owner = p
        /\ owner = p => task[p].pc = "body" \/ Hung(p)

\* The settings are in the file, until a write fails.
SettingsSaved == ~failed => disk.set = cfg.set

\* On Umbrel no indexer is the user's own.
NoneManual == env.umbrel => ~cfg.manual /\ ~disk.manual

\* One reconnect at most is under way, and what it has read is still so.
OneReconnects ==
    /\ \A p, q \in Task :
          task[p].pc \in Reconnecting /\ task[q].pc \in Reconnecting => p = q
    /\ \A p \in Task :
          /\ task[p].pc \in Reconnecting => cfg.url # NULL
          /\ task[p].pc \in {"url", "resolve", "back"} => disk.url = cfg.url
          /\ task[p].pc \in {"resolve", "client"} => task[p].url = cfg.url
          /\ task[p].pc = "back" => task[p].url \in Variants[cfg.url]

\* The file names the indexer of the configuration, or the one whose transport
\* a reconnect has changed.
FileNamesIndexer ==
    \/ disk.url = cfg.url
    \/ disk.url # NULL /\ cfg.url # NULL /\ cfg.url \in Variants[disk.url]

\* Without a failed write, a save that drops the indexer or one that hangs, an
\* Umbrel gets its indexer once, and connects to it once.
Undisturbed ==
    env.umbrel /\ ~failed /\ ~cleared /\ (\A p \in Caller : ~Hung(p))

FollowsConfig ==
    Undisturbed =>
        /\ OneReconnects
        /\ FileNamesIndexer
        /\ (\A p \in Task : task[p].pc \notin Reconnecting) => client = cfg.url

IInv == /\ TypeOK /\ RequestsKnown /\ GuardsHeld
        /\ SettingsSaved /\ NoneManual /\ FollowsConfig

-----------------------------------------------------------------------------
(* What the handlers do to the configuration.                              *)

\* An indexer chosen, and one given up, leave the settings as they are.
LEMMA ChosenIs ==
    ASSUME NEW c \in Config, NEW u \in Url \cup {NULL}, NEW m \in BOOLEAN
    PROVE  /\ Chosen(c, u, m) \in Config
           /\ Chosen(c, u, m).url = u
           /\ Chosen(c, u, m).manual = m
           /\ Chosen(c, u, m).set = c.set
  BY DEF Chosen, Config

\* And one whose indexer has been forgotten.
LEMMA NoIndexerIs ==
    ASSUME NEW c \in Config
    PROVE  /\ NoIndexer(c) \in Config
           /\ NoIndexer(c).url = NULL
           /\ ~NoIndexer(c).manual
           /\ NoIndexer(c).set = c.set
  BY DEF NoIndexer, Config

\* sanitize_umbrel_indexer_config leaves a configuration of an Umbrel alone
\* whose indexer is not the user's, and never touches the settings.
LEMMA SanitizedIs ==
    ASSUME NEW c \in Config, env.umbrel \in BOOLEAN
    PROVE  /\ Sanitized(c) \in Config
           /\ Sanitized(c).set = c.set
           /\ env.umbrel => ~Sanitized(c).manual
           /\ env.umbrel /\ ~c.manual => Sanitized(c) = c
  BY DEF Sanitized, NoIndexer, Config

\* discover_umbrel_if_needed keeps the settings, and on Umbrel finds an indexer
\* only where there was none.
LEMMA UmbrelDiscovery ==
    ASSUME NEW c \in Config, env.umbrel \in BOOLEAN,
           NEW o \in DiscoveredOnUmbrel(c)
    PROVE  /\ o.cfg \in Config /\ o.changed \in BOOLEAN
           /\ o.cfg.set = c.set
           /\ env.umbrel /\ ~c.manual =>
                /\ ~o.cfg.manual
                /\ \/ ~o.changed /\ o.cfg = c
                   \/ o.changed /\ c.url = NULL /\ o.cfg.url \in Url
  <1>1. PICK s \in Config : s = Sanitized(c)
    BY SanitizedIs
  <1>2. /\ s.set = c.set
        /\ env.umbrel => ~s.manual
        /\ env.umbrel /\ ~c.manual => s = c
    BY <1>1, SanitizedIs
  <1>3. CASE \E u \in Found : /\ s.url = NULL
                              /\ o = [cfg |-> Chosen(c, u, FALSE), changed |-> TRUE]
    <2>1. PICK u \in Found : /\ s.url = NULL
                             /\ o = [cfg |-> Chosen(c, u, FALSE), changed |-> TRUE]
      BY <1>3
    <2>2. u \in Url
      BY <2>1, ConfigAssumption
    <2> DEFINE n == Chosen(c, u, FALSE)
    <2>3. n \in Config /\ n.url = u /\ n.manual = FALSE /\ n.set = c.set
      BY <2>2, ChosenIs
    <2>4. o.cfg = n /\ o.changed = TRUE
      BY <2>1
    <2>5. env.umbrel /\ ~c.manual => c.url = NULL
      BY <1>2, <2>1
    <2> HIDE DEF n
    <2>6. QED BY <2>2, <2>3, <2>4, <2>5
  <1>4. CASE o = [cfg |-> s, changed |-> s # c]
    BY <1>2, <1>4 DEF Config
  <1>5. QED
    BY <1>1, <1>3, <1>4 DEF DiscoveredOnUmbrel

\* apply_indexer_discovery keeps the settings.
LEMMA LanDiscovery ==
    ASSUME NEW c \in Config, NEW o \in DiscoveredOnLan(c)
    PROVE  o.cfg \in Config /\ o.changed \in BOOLEAN /\ o.cfg.set = c.set
  <1>1. CASE \E u \in IF c.url = NULL THEN {} ELSE Variants[c.url] \cup {c.url} :
                o = [cfg |-> Chosen(c, u, c.manual), changed |-> TRUE]
    <2>1. PICK u \in Url : o = [cfg |-> Chosen(c, u, c.manual), changed |-> TRUE]
      BY <1>1, ConfigAssumption DEF Config
    <2>2. c.manual \in BOOLEAN
      BY DEF Config
    <2>3. QED BY <2>1, <2>2, ChosenIs
  <1>2. CASE \E u \in Found : o = [cfg |-> Chosen(c, u, FALSE), changed |-> TRUE]
    <2>1. PICK u \in Url : o = [cfg |-> Chosen(c, u, FALSE), changed |-> TRUE]
      BY <1>2, ConfigAssumption
    <2>2. QED BY <2>1, ChosenIs
  <1>3. CASE o = [cfg |-> c, changed |-> FALSE]
    BY <1>3
  <1>4. QED
    BY <1>1, <1>2, <1>3 DEF DiscoveredOnLan

\* What a request may name instead of an indexer is not a URL.
LEMMA SaveArms ==
    NETWORK \notin Url /\ EMPTY \notin Url /\ ABSENT \notin Url
  <1> DEFINE One == {} \cup {ABSENT}
             Two == One \cup {EMPTY}
             All == Two \cup {NETWORK}
  <1>1. IsFiniteSet({}) /\ Cardinality({}) = 0
    BY FS_EmptySet
  <1>2. IsFiniteSet(One) /\ Cardinality(One) = 1
    BY <1>1, FS_AddElement
  <1>3. IsFiniteSet(Two) /\ Cardinality(Two) \in {1, 2}
    BY <1>2, FS_AddElement
  <1>4. IsFiniteSet(All) /\ Cardinality(All) \in 1 .. 3
    BY <1>3, FS_AddElement
  <1>5. All = {ABSENT, EMPTY, NETWORK}
    OBVIOUS
  <1> HIDE DEF All
  <1>6. (All \ Url) \in SUBSET All /\ Cardinality(All \ Url) = 3
    BY <1>5, ConfigAssumption
  <1>7. Cardinality(All \ Url) <= Cardinality(All)
    BY <1>4, <1>6, FS_Subset
  <1>8. Cardinality(All) = 3
    BY <1>4, <1>6, <1>7
  <1>9. All = All \ Url
    BY <1>4, <1>6, <1>8, FS_Subset
  <1>10. QED
    BY <1>5, <1>9

\* The indexer part of save_config keeps the settings.  On Umbrel it leaves the
\* indexer alone or drops it, unless it says that it changed it.
LEMMA SaveChoosesIndexer ==
    ASSUME NEW c \in Config, NEW req \in SaveRequest,
           env \in [umbrel : BOOLEAN, tcp : {Electrs, NULL}],
           NEW o \in SavedIndexer(c, req)
    PROVE  /\ o.cfg \in Config /\ o.changed \in BOOLEAN
           /\ o.cfg.set = c.set
           /\ env.umbrel /\ ~c.manual =>
                /\ ~o.cfg.manual
                /\ o.changed \/ o.cfg.url \in {c.url, NULL}
  <1>1. CASE env.umbrel /\ req.url = EMPTY /\ env.tcp # NULL
    <2>1. o = [cfg |-> Chosen(c, env.tcp, FALSE), changed |-> TRUE]
      BY <1>1 DEF SavedIndexer
    <2>2. env.tcp \in Url
      BY <1>1, ConfigAssumption
    <2>3. QED BY <2>1, <2>2, ChosenIs, ConfigAssumption
  <1>2. CASE env.umbrel /\ req.url = EMPTY /\ env.tcp = NULL
    <2>1. o \in DiscoveredOnUmbrel(NoIndexer(c))
      BY <1>2 DEF SavedIndexer
    <2>2. PICK n \in Config : n = NoIndexer(c) /\ n.set = c.set /\ ~n.manual /\ n.url = NULL
      BY NoIndexerIs
    <2>3. QED BY <2>1, <2>2, UmbrelDiscovery
  <1>3. CASE ~env.umbrel /\ req.url = NETWORK
    <2>1. SavedIndexer(c, req) = DiscoveredOnLan(c)
      BY <1>3, SaveArms DEF SavedIndexer
    <2>2. QED BY <2>1, <1>3, LanDiscovery
  <1>4. CASE ~env.umbrel /\ req.url \in Url /\ req.url # NETWORK
    <2>1. o \in {[cfg |-> Chosen(c, u, TRUE), changed |-> TRUE] :
                    u \in Variants[req.url] \cup {req.url}}
      BY <1>4 DEF SavedIndexer
    <2>2. PICK u \in Url : o = [cfg |-> Chosen(c, u, TRUE), changed |-> TRUE]
      BY <2>1, <1>4, ConfigAssumption
    <2> DEFINE n == Chosen(c, u, TRUE)
    <2>3. n \in Config /\ n.set = c.set
      BY ChosenIs
    <2>4. o.cfg = n /\ o.changed = TRUE
      BY <2>2
    <2> HIDE DEF n
    <2>5. QED BY <2>3, <2>4, <1>4
  <1>5. CASE /\ ~(env.umbrel /\ req.url = EMPTY /\ env.tcp # NULL)
             /\ ~(env.umbrel /\ req.url = EMPTY /\ env.tcp = NULL)
             /\ ~(~env.umbrel /\ req.url = NETWORK)
             /\ ~(~env.umbrel /\ req.url \in Url)
    <2>1. SavedIndexer(c, req) = {[cfg |-> c, changed |-> FALSE]}
      BY <1>5 DEF SavedIndexer
    <2>2. o.cfg = c /\ o.changed = FALSE
      BY <2>1
    <2>3. QED BY <2>2
  <1>6. QED
    BY <1>1, <1>2, <1>3, <1>4, <1>5

\* Discovered is one of the two discoveries.
LEMMA DiscoveryKeeps ==
    ASSUME NEW c \in Config, env.umbrel \in BOOLEAN, NEW o \in Discovered(c)
    PROVE  /\ o.cfg \in Config /\ o.changed \in BOOLEAN
           /\ o.cfg.set = c.set
           /\ env.umbrel /\ ~c.manual =>
                /\ ~o.cfg.manual
                /\ \/ ~o.changed /\ o.cfg = c
                   \/ o.changed /\ c.url = NULL /\ o.cfg.url \in Url
  <1>1. CASE env.umbrel
    BY <1>1, UmbrelDiscovery DEF Discovered
  <1>2. CASE ~env.umbrel
    <2>1. /\ [c EXCEPT !.manual = FALSE] \in Config
          /\ [c EXCEPT !.manual = FALSE].set = c.set
      BY DEF Config
    <2>2. QED BY <1>2, <2>1, LanDiscovery DEF Discovered
  <1>3. QED BY <1>1, <1>2

-----------------------------------------------------------------------------
(* The tasks.                                                              *)

Places == {"none", "lock", "body", "done"} \cup Reconnecting

TaskRecord == [pc : Places, req : Request \cup {NULL}, url : Url \cup {NULL}]

\* Goto moves one task, which forgets its request and its URL when it ends.
LEMMA GotoIs ==
    ASSUME task \in [Task -> TaskRecord], NEW p \in Task, NEW pc \in Places,
           Goto(p, pc)
    PROVE  /\ task' \in [Task -> TaskRecord]
           /\ \A q \in Task : q # p => task'[q] = task[q]
           /\ task'[p].pc = pc
           /\ pc \notin {"none", "done"} =>
                task'[p].req = task[p].req /\ task'[p].url = task[p].url
           /\ pc \in {"none", "done"} => task'[p].req = NULL /\ task'[p].url = NULL
  <1>1. task[p] \in TaskRecord
    OBVIOUS
  <1>2. CASE pc \in {"none", "done"}
    <2> DEFINE r == [task[p] EXCEPT !.pc = pc, !.req = NULL, !.url = NULL]
    <2>1. task' = [task EXCEPT ![p] = r]
      BY <1>2 DEF Goto
    <2>2. r \in TaskRecord /\ r.pc = pc /\ r.req = NULL /\ r.url = NULL
      BY <1>1 DEF TaskRecord
    <2> HIDE DEF r
    <2>3. QED BY <1>2, <2>1, <2>2
  <1>3. CASE pc \notin {"none", "done"}
    <2> DEFINE r == [task[p] EXCEPT !.pc = pc]
    <2>1. r \in TaskRecord /\ r.pc = pc /\ r.req = task[p].req /\ r.url = task[p].url
      BY <1>1 DEF TaskRecord
    <2>2. task' = [task EXCEPT ![p] = r]
      BY <1>3, <1>1 DEF Goto, TaskRecord
    <2> HIDE DEF r
    <2>3. QED BY <1>3, <2>1, <2>2
  <1>4. QED
    BY <1>2, <1>3

\* One task moves; the others stay where they are.
Moves(p, pc) ==
    /\ task' \in [Task -> TaskRecord]
    /\ \A q \in Task : q # p => task'[q] = task[q]
    /\ task'[p].pc = pc

-----------------------------------------------------------------------------
(* Every action keeps the invariant.                                       *)

\* The record of a task, by its name.
LEMMA TaskTyped ==
    TypeOK => task \in [Task -> TaskRecord]
  BY DEF TypeOK, TaskRecord, Places

\* While nobody begins or ends a reconnect and the configuration, the file and
\* the client stay, they go on agreeing.
LEMMA StillFollows ==
    ASSUME FollowsConfig, UNCHANGED <<cfg, disk, client>>,
           Undisturbed' => Undisturbed,
           \A q \in Task :
               task'[q].pc \in Reconnecting \/ task[q].pc \in Reconnecting =>
                   task'[q].pc = task[q].pc /\ task'[q].url = task[q].url
    PROVE  FollowsConfig'
  <1> SUFFICES ASSUME Undisturbed'
               PROVE  /\ OneReconnects'
                      /\ FileNamesIndexer'
                      /\ (\A p \in Task : task'[p].pc \notin Reconnecting) => client' = cfg'.url
    BY DEF FollowsConfig
  <1>1. OneReconnects'
    BY DEF FollowsConfig, OneReconnects, Reconnecting
  <1>2. FileNamesIndexer'
    BY DEF FollowsConfig, FileNamesIndexer
  <1>3. (\A p \in Task : task'[p].pc \notin Reconnecting) => client' = cfg'.url
    BY DEF FollowsConfig
  <1>4. QED
    BY <1>1, <1>2, <1>3

\* A request that comes in, and a background attempt that is due, only wait.
LEMMA WaitingKeeps ==
    ASSUME IInv, NEW p \in Task, NEW req \in Request,
           task[p].pc = "none", p = Retry => req.op = "retry",
           task' = [task EXCEPT ![p].pc = "lock", ![p].req = req],
           tries' \in Nat,
           UNCHANGED <<env, owner, cfg, disk, client, beat, failed, cleared>>
    PROVE  IInv'
  <1> USE DEF IInv
  <1>1. task \in [Task -> TaskRecord]
    BY TaskTyped
  <1> DEFINE r == [task[p] EXCEPT !.pc = "lock", !.req = req]
  <1>2. r \in TaskRecord /\ r.pc = "lock" /\ r.req = req
    BY <1>1 DEF TaskRecord, Places
  <1>3. task' = [task EXCEPT ![p] = r]
    OBVIOUS
  <1> HIDE DEF r
  <1>4. Moves(p, "lock") /\ task'[p].req = req
    BY <1>1, <1>2, <1>3 DEF Moves
  <1>5. TypeOK'
    BY <1>4 DEF TypeOK, Moves, TaskRecord, Places
  <1>6. RequestsKnown'
    BY <1>4 DEF RequestsKnown, Moves
  <1>7. GuardsHeld'
    BY <1>4 DEF GuardsHeld, Hung, Moves
  <1>8. SettingsSaved' /\ NoneManual'
    BY DEF SettingsSaved, NoneManual
  <1>9. FollowsConfig'
    <2>1. Undisturbed' => Undisturbed
      BY <1>4 DEF Undisturbed, Hung, Moves, Task
    <2>2. \A q \in Task : q # p => task'[q] = task[q]
      BY <1>4 DEF Moves
    <2>3. task'[p].pc \notin Reconnecting /\ task[p].pc \notin Reconnecting
      BY <1>4 DEF Moves, Reconnecting
    <2>4. QED
      BY <2>1, <2>2, <2>3, StillFollows
  <1>10. QED
    BY <1>5, <1>6, <1>7, <1>8, <1>9

\* The mutex is given to one that waits for it (config.lock()).
LEMMA LockKeeps ==
    ASSUME IInv, NEW p \in Task, Lock(p)
    PROVE  IInv'
  <1> USE DEF IInv
  <1>1. Moves(p, "body") /\ task'[p].req = task[p].req
    BY TaskTyped, GotoIs DEF Lock, Moves, Places
  <1>2. /\ task[p].pc = "lock" /\ owner = NULL /\ owner' = p
        /\ UNCHANGED <<env, cfg, disk, client, tries, beat, failed, cleared>>
    BY DEF Lock
  <1>3. TypeOK'
    BY <1>1, <1>2 DEF TypeOK, Moves, TaskRecord, Places
  <1>4. RequestsKnown'
    BY <1>1, <1>2 DEF RequestsKnown, Moves
  <1>5. GuardsHeld'
    BY <1>1, <1>2, ConfigAssumption DEF GuardsHeld, Hung, Moves, Task
  <1>6. SettingsSaved' /\ NoneManual'
    BY <1>2 DEF SettingsSaved, NoneManual
  <1>7. FollowsConfig'
    <2>1. Undisturbed' => Undisturbed
      BY <1>1, <1>2, ConfigAssumption DEF Undisturbed, Hung, Moves, Task
    <2>2. \A q \in Task : q # p => task'[q] = task[q]
      BY <1>1 DEF Moves
    <2>3. task'[p].pc \notin Reconnecting /\ task[p].pc \notin Reconnecting
      BY <1>1, <1>2 DEF Moves, Reconnecting
    <2>4. QED
      BY <1>2, <2>1, <2>2, <2>3, StillFollows
  <1>8. QED
    BY <1>3, <1>4, <1>5, <1>6, <1>7

\* Who is in a handler's body has the mutex, so no save hangs.
LEMMA NoneHangs ==
    ASSUME GuardsHeld, NEW p \in Task, task[p].pc = "body"
    PROVE  owner = p /\ \A q \in Task : ~Hung(q)
  BY DEF GuardsHeld, Hung

\* A handler outside the reconnect that is through: what it may do.
LEMMA HandlerKeeps ==
    ASSUME IInv, NEW p \in Task, NEW pc \in {"none", "done", "url"},
           task[p].pc = "body", Goto(p, pc),
           cfg' \in Config, disk' \in Config, disk' \in {disk, cfg'},
           owner' = NULL \/ Hung(p)',
           owner' \in Task \cup {NULL},
           failed' \in BOOLEAN, cleared' \in BOOLEAN, failed => failed',
           cfg'.set # cfg.set => disk' = cfg' \/ failed',
           env.umbrel => ~cfg'.manual,
           UNCHANGED <<env, client, tries, beat>>,
           Undisturbed' =>
               \/ /\ pc # "url" /\ cfg'.url = cfg.url /\ ~cleared
               \/ /\ pc = "url" /\ cfg.url = NULL /\ cfg'.url # NULL /\ ~cleared
                  /\ disk' = cfg'
    PROVE  IInv'
  <1> USE DEF IInv
  <1>1. /\ Moves(p, pc)
        /\ pc = "url" => task'[p].req = task[p].req
        /\ pc # "url" => task'[p].req = NULL
    BY TaskTyped, GotoIs DEF Moves, Places, Reconnecting
  <1>2. owner = p /\ \A q \in Task : ~Hung(q)
    BY NoneHangs
  <1>3. TypeOK'
    BY <1>1 DEF TypeOK, Moves, TaskRecord, Places
  <1>4. RequestsKnown'
    BY <1>1 DEF RequestsKnown, Moves
  <1>5. GuardsHeld'
    BY <1>1, <1>2, ConfigAssumption DEF GuardsHeld, Hung, Moves, Task
  <1>6. SettingsSaved' /\ NoneManual'
    BY DEF SettingsSaved, NoneManual
  <1>7. FollowsConfig'
    <2> SUFFICES ASSUME Undisturbed'
                 PROVE  /\ OneReconnects'
                        /\ FileNamesIndexer'
                        /\ (\A q \in Task : task'[q].pc \notin Reconnecting) => client' = cfg'.url
      BY DEF FollowsConfig
    <2>1. Undisturbed
      BY <1>2 DEF Undisturbed, Task, TypeOK
    <2>2. /\ OneReconnects
          /\ FileNamesIndexer
          /\ (\A q \in Task : task[q].pc \notin Reconnecting) => client = cfg.url
      BY <2>1 DEF FollowsConfig
    <2>3. \A q \in Task : q # p => task'[q] = task[q]
      BY <1>1 DEF Moves
    <2>4. task[p].pc \notin Reconnecting
      BY DEF Reconnecting
    <2>5. CASE pc # "url" /\ cfg'.url = cfg.url
      <3>1. task'[p].pc \notin Reconnecting
        BY <1>1, <2>5 DEF Moves, Reconnecting
      <3>2. disk'.url \in {disk.url, cfg.url}
        BY <2>5
      <3>3. OneReconnects'
        BY <2>2, <2>3, <2>5, <3>1, <3>2 DEF OneReconnects, Reconnecting
      <3>4. FileNamesIndexer'
        BY <2>2, <2>5, <3>2 DEF FileNamesIndexer
      <3>5. QED
        BY <2>2, <2>3, <2>4, <2>5, <3>1, <3>3, <3>4
    <2>6. CASE pc = "url" /\ cfg.url = NULL /\ cfg'.url # NULL /\ disk' = cfg'
      <3>1. \A q \in Task : task[q].pc \notin Reconnecting
        BY <2>2, <2>6 DEF OneReconnects
      <3>2. \A q \in Task : q # p => task'[q].pc \notin Reconnecting
        BY <2>3, <3>1
      <3>3. task'[p].pc = "url" /\ task'[p].pc \in Reconnecting
        BY <1>1, <2>6 DEF Moves, Reconnecting
      <3>4. OneReconnects'
        BY <2>6, <3>2, <3>3 DEF OneReconnects, Reconnecting
      <3>5. FileNamesIndexer'
        BY <2>6 DEF FileNamesIndexer
      <3>6. QED
        BY <3>3, <3>4, <3>5
    <2>7. QED
      BY <2>5, <2>6
  <1>8. QED
    BY <1>3, <1>4, <1>5, <1>6, <1>7

\* get_config and get_status: on Umbrel they change nothing here.
LEMMA GetKeeps ==
    ASSUME IInv, NEW p \in Task, GetConfig(p)
    PROVE  IInv'
  <1> USE DEF IInv
  <1>1. task[p].pc = "body" /\ cfg \in Config /\ env.umbrel \in BOOLEAN
    BY DEF GetConfig, InBody, TypeOK
  <1>2. /\ cfg' \in Config /\ cfg'.set = cfg.set
        /\ env.umbrel => ~cfg'.manual
        /\ env.umbrel => cfg' = cfg
    BY <1>1, SanitizedIs DEF GetConfig, NoneManual
  <1>3. PICK pc \in {"none", "done", "url"} :
          Goto(p, pc) /\ (pc = "url" => cfg' # cfg)
    BY DEF GetConfig, Ended
  <1>4. /\ disk' \in {disk, cfg'} /\ failed' \in BOOLEAN /\ (failed => failed')
        /\ owner' = NULL /\ cleared' = cleared
        /\ UNCHANGED <<env, client, tries, beat>>
    BY DEF GetConfig, Written, TypeOK
  <1>5. Undisturbed' => pc # "url" /\ cfg'.url = cfg.url /\ ~cleared
    BY <1>2, <1>3, <1>4 DEF Undisturbed
  <1>6. disk' \in Config /\ cleared' \in BOOLEAN
    BY <1>2, <1>4 DEF TypeOK
  <1>7. QED
    BY <1>1, <1>2, <1>3, <1>4, <1>5, <1>6, HandlerKeeps

\* save_config: a new indexer that is saved leaves it hanging.
LEMMA SaveKeeps ==
    ASSUME IInv, NEW p \in Task, SaveConfig(p)
    PROVE  IInv'
  <1> USE DEF IInv
  <1> DEFINE req == task[p].req
  <1>1. /\ task[p].pc = "body" /\ cfg \in Config /\ disk \in Config
        /\ env \in [umbrel : BOOLEAN, tcp : {Electrs, NULL}]
        /\ env.umbrel => ~cfg.manual
        /\ UNCHANGED <<env, client, tries, beat>>
        /\ failed \in BOOLEAN /\ cleared \in BOOLEAN
    BY DEF SaveConfig, InBody, TypeOK, NoneManual
  <1>2. req \in SaveRequest /\ p \in Caller
    BY DEF SaveConfig, InBody, RequestsKnown, Request, SaveRequest, Task
  <1>3. Ended(p) = "done"
    BY <1>2, ConfigAssumption DEF Ended
  <1>4. CASE Refused(req)
    <2>1. Goto(p, "done") /\ owner' = NULL /\ UNCHANGED <<cfg, disk, failed, cleared>>
      BY <1>3, <1>4 DEF SaveConfig
    <2>2. Undisturbed' => ~cleared
      BY <2>1 DEF Undisturbed
    <2>3. QED
      BY <1>1, <2>1, <2>2, HandlerKeeps
  <1>5. CASE ~Refused(req)
    <2>1. PICK o \in SavedIndexer(cfg, req) :
            /\ cfg' = [o.cfg EXCEPT !.set = req.set]
            /\ cleared' = (cleared \/ (cfg.url # NULL /\ o.cfg.url = NULL))
            /\ \/ /\ disk' = cfg' /\ UNCHANGED failed
                  /\ IF o.changed
                     THEN Goto(p, "url") /\ UNCHANGED owner
                     ELSE Goto(p, "done") /\ owner' = NULL
               \/ /\ failed' = TRUE /\ UNCHANGED disk
                  /\ Goto(p, "done") /\ owner' = NULL
      BY <1>3, <1>5 DEF SaveConfig
    <2>2. /\ o.cfg \in Config /\ o.changed \in BOOLEAN
          /\ env.umbrel =>
               ~o.cfg.manual /\ (o.changed \/ o.cfg.url \in {cfg.url, NULL})
      BY <1>1, <1>2, SaveChoosesIndexer
    <2>3. req.set \in Setting
      BY <1>2 DEF SaveRequest
    <2>4. cfg' \in Config /\ cfg'.url = o.cfg.url /\ cfg'.manual = o.cfg.manual
      BY <2>1, <2>2, <2>3 DEF Config
    <2>5. cleared' \in BOOLEAN
      BY <1>1, <2>1
    <2>6. CASE o.changed /\ disk' = cfg' /\ UNCHANGED failed /\ Goto(p, "url") /\ UNCHANGED owner
      <3>1. owner = p
        BY <1>1, NoneHangs
      <3>2. Moves(p, "url") /\ task'[p].req = req
        BY <2>6, TaskTyped, GotoIs DEF Moves, Places, Reconnecting
      <3>3. Hung(p)'
        BY <1>2, <2>6, <3>1, <3>2 DEF Hung, Moves
      <3>4. ~Undisturbed'
        BY <1>2, <3>3 DEF Undisturbed
      <3>5. owner' \in Task \cup {NULL}
        BY <2>6, <3>1
      <3>6. QED
        BY <1>1, <2>2, <2>4, <2>5, <2>6, <3>3, <3>4, <3>5, HandlerKeeps
    <2>7. CASE ~o.changed /\ disk' = cfg' /\ UNCHANGED failed /\ Goto(p, "done") /\ owner' = NULL
      <3>1. Undisturbed' => ~cleared /\ cfg'.url = cfg.url
        BY <1>1, <2>1, <2>2, <2>4, <2>7 DEF Undisturbed
      <3>2. QED
        BY <1>1, <2>2, <2>4, <2>5, <2>7, <3>1, HandlerKeeps
    <2>8. CASE failed' = TRUE /\ UNCHANGED disk /\ Goto(p, "done") /\ owner' = NULL
      <3>1. ~Undisturbed'
        BY <2>8 DEF Undisturbed
      <3>2. QED
        BY <1>1, <2>2, <2>4, <2>5, <2>8, <3>1, HandlerKeeps
    <2>9. QED
      BY <2>1, <2>6, <2>7, <2>8
  <1>6. QED
    BY <1>4, <1>5

\* discover_indexer drops the guard first; on Umbrel it finds one indexer.
LEMMA DiscoverKeeps ==
    ASSUME IInv, NEW p \in Task, DiscoverIndexer(p)
    PROVE  IInv'
  <1> USE DEF IInv
  <1>1. /\ task[p].pc = "body" /\ cfg \in Config /\ disk \in Config
        /\ env.umbrel \in BOOLEAN
        /\ env.umbrel => ~cfg.manual
        /\ owner' = NULL
        /\ UNCHANGED <<env, client, tries, beat, cleared>>
        /\ failed \in BOOLEAN /\ cleared \in BOOLEAN
    BY DEF DiscoverIndexer, InBody, TypeOK, NoneManual
  <1>2. PICK o \in Discovered(cfg) :
          /\ cfg' = o.cfg
          /\ \/ /\ disk' = cfg' /\ UNCHANGED failed
                /\ Goto(p, IF o.changed /\ cfg'.url # NULL THEN "url" ELSE Ended(p))
             \/ /\ failed' = TRUE /\ UNCHANGED disk
                /\ Goto(p, Ended(p))
    BY DEF DiscoverIndexer
  <1>3. /\ o.cfg \in Config /\ o.changed \in BOOLEAN
        /\ o.cfg.set = cfg.set
        /\ env.umbrel =>
             /\ ~o.cfg.manual
             /\ \/ ~o.changed /\ o.cfg = cfg
                \/ o.changed /\ cfg.url = NULL /\ o.cfg.url \in Url
    BY <1>1, DiscoveryKeeps
  <1>4. PICK pc \in {"none", "done", "url"} :
          /\ Goto(p, pc)
          /\ \/ /\ disk' = cfg' /\ UNCHANGED failed
                /\ pc = "url" <=> o.changed /\ cfg'.url # NULL
             \/ failed' = TRUE /\ UNCHANGED disk
    BY <1>2 DEF Ended
  <1>5. Undisturbed' =>
          \/ pc # "url" /\ cfg'.url = cfg.url /\ ~cleared
          \/ /\ pc = "url" /\ cfg.url = NULL /\ cfg'.url # NULL /\ ~cleared
             /\ disk' = cfg'
    BY <1>1, <1>2, <1>3, <1>4, ConfigAssumption DEF Undisturbed
  <1>6. /\ cfg' \in Config /\ cfg'.set = cfg.set
        /\ env.umbrel => ~cfg'.manual
    BY <1>1, <1>2, <1>3
  <1>7. disk' \in Config /\ disk' \in {disk, cfg'}
    BY <1>1, <1>4, <1>6
  <1>8. failed' \in BOOLEAN /\ (failed => failed') /\ cleared' \in BOOLEAN
    <2>1. failed' = TRUE \/ failed' = failed
      BY <1>4
    <2>2. cleared' = cleared
      BY <1>1
    <2>3. QED
      BY <1>1, <2>1, <2>2
  <1>9. QED
    BY <1>1, <1>4, <1>5, <1>6, <1>7, <1>8, HandlerKeeps

\* An attempt of the background discovery.
LEMMA RetryKeeps ==
    ASSUME IInv, RetryDiscover
    PROVE  IInv'
  <1> USE DEF IInv
  <1>1. /\ task[Retry].pc = "body" /\ cfg \in Config /\ disk \in Config
        /\ env.umbrel \in BOOLEAN
        /\ env.umbrel => ~cfg.manual
        /\ owner' = NULL
        /\ UNCHANGED <<env, client, tries, beat, cleared>>
        /\ failed \in BOOLEAN /\ cleared \in BOOLEAN
        /\ Retry \in Task
    BY DEF RetryDiscover, InBody, TypeOK, NoneManual, Task
  <1>2. CASE cfg.url # NULL /\ Goto(Retry, "none") /\ UNCHANGED <<cfg, disk, failed>>
    <2>1. Undisturbed' => ~cleared
      BY <1>1 DEF Undisturbed
    <2>2. QED
      BY <1>1, <1>2, <2>1, HandlerKeeps
  <1>3. CASE /\ cfg.url = NULL
             /\ \E o \in DiscoveredOnUmbrel(cfg) :
                   /\ cfg' = o.cfg
                   /\ IF o.changed THEN Written(cfg') ELSE UNCHANGED <<disk, failed>>
                   /\ Goto(Retry, IF o.changed THEN "url" ELSE "none")
    <2>1. PICK o \in DiscoveredOnUmbrel(cfg) :
            /\ cfg' = o.cfg
            /\ IF o.changed THEN Written(cfg') ELSE UNCHANGED <<disk, failed>>
            /\ Goto(Retry, IF o.changed THEN "url" ELSE "none")
      BY <1>3
    <2>2. /\ o.cfg \in Config /\ o.changed \in BOOLEAN
          /\ o.cfg.set = cfg.set
          /\ env.umbrel =>
               /\ ~o.cfg.manual
               /\ \/ ~o.changed /\ o.cfg = cfg
                  \/ o.changed /\ cfg.url = NULL /\ o.cfg.url \in Url
      BY <1>1, UmbrelDiscovery
    <2>3. PICK pc \in {"none", "done", "url"} :
            Goto(Retry, pc) /\ (pc = "url" <=> o.changed)
      BY <2>1
    <2>4. /\ disk' \in {disk, cfg'} /\ failed' \in BOOLEAN /\ (failed => failed')
          /\ o.changed => disk' = cfg' \/ failed'
      BY <1>1, <2>1 DEF Written
    <2>5. Undisturbed' =>
            \/ pc # "url" /\ cfg'.url = cfg.url /\ ~cleared
            \/ /\ pc = "url" /\ cfg.url = NULL /\ cfg'.url # NULL /\ ~cleared
               /\ disk' = cfg'
      BY <1>1, <2>1, <2>2, <2>3, <2>4, ConfigAssumption DEF Undisturbed
    <2>6. QED
      BY <1>1, <2>1, <2>2, <2>3, <2>4, <2>5, HandlerKeeps
  <1>4. QED
    BY <1>2, <1>3 DEF RetryDiscover

-----------------------------------------------------------------------------
(* The reconnect.                                                          *)

\* A task that is at its reconnect has not the mutex, unless it hangs.
LEMMA ReconnectUnlocked ==
    ASSUME GuardsHeld, NEW p \in Task, task[p].pc \in Reconnecting, ~Hung(p)
    PROVE  owner # p
  BY DEF GuardsHeld, Reconnecting

\* What keeps, when a task at its reconnect moves and nothing but the
\* configuration and the client change.
LEMMA ReconnectKeeps ==
    ASSUME IInv, NEW p \in Task, NEW pc \in Places,
           task[p].pc \in Reconnecting, owner # p,
           Moves(p, pc),
           pc \notin {"lock", "body"},
           pc \in {"resolve", "back", "client"} => task'[p].url \in Url,
           cfg' \in Config, cfg'.set = cfg.set, cfg'.manual = cfg.manual,
           client' \in Url \cup {NULL},
           UNCHANGED <<env, owner, disk, tries, beat, failed, cleared>>,
           FollowsConfig'
    PROVE  IInv'
  <1> USE DEF IInv
  <1>1. TypeOK'
    BY DEF TypeOK, Moves, TaskRecord, Places
  <1>2. RequestsKnown'
    BY DEF RequestsKnown, Moves
  <1>3. GuardsHeld'
    BY DEF GuardsHeld, Hung, Moves, Reconnecting
  <1>4. SettingsSaved' /\ NoneManual'
    BY DEF SettingsSaved, NoneManual
  <1>5. QED
    BY <1>1, <1>2, <1>3, <1>4

\* The one that moves is the only one that reconnects.
LEMMA OnlyReconnect ==
    ASSUME IInv, NEW p \in Task, task[p].pc \in Reconnecting, owner # p,
           \A q \in Task : q # p => task'[q] = task[q],
           UNCHANGED <<env, owner, failed, cleared>>,
           Undisturbed'
    PROVE  /\ cfg.url # NULL
           /\ FileNamesIndexer
           /\ task[p].pc \in {"url", "resolve", "back"} => disk.url = cfg.url
           /\ task[p].pc \in {"resolve", "client"} => task[p].url = cfg.url
           /\ task[p].pc = "back" => task[p].url \in Variants[cfg.url]
           /\ \A q \in Task : q # p => task'[q].pc \notin Reconnecting
  <1>1. Undisturbed
    BY DEF Undisturbed, Hung, Task
  <1>2. OneReconnects /\ FileNamesIndexer
    BY <1>1 DEF IInv, FollowsConfig
  <1>3. QED
    BY <1>2 DEF OneReconnects

\* get_indexer_url.
LEMMA UrlKeeps ==
    ASSUME IInv, NEW p \in Task, ReconnectUrl(p)
    PROVE  IInv'
  <1> USE DEF IInv
  <1>1. /\ task[p].pc = "url" /\ task[p].pc \in Reconnecting /\ owner = NULL
        /\ UNCHANGED <<env, owner, cfg, disk, client, tries, beat, failed, cleared>>
        /\ task \in [Task -> TaskRecord]
        /\ cfg \in Config /\ client \in Url \cup {NULL}
        /\ owner # p
    BY TaskTyped, ConfigAssumption DEF ReconnectUrl, Reconnecting, TypeOK, Task
  <1>2. CASE cfg.url = NULL
    <2>1. PICK pc \in {"none", "done"} : Goto(p, pc)
      BY <1>2 DEF ReconnectUrl, Ended
    <2>2. Moves(p, pc)
      BY <1>1, <2>1, GotoIs DEF Moves, Places
    <2>3. ~Undisturbed'
      BY <1>1, <1>2, <2>2, OnlyReconnect DEF Moves
    <2>4. FollowsConfig'
      BY <2>3 DEF FollowsConfig
    <2>5. QED
      BY <1>1, <2>1, <2>2, <2>4, ReconnectKeeps DEF Places
  <1>3. CASE cfg.url # NULL
    <2> DEFINE r == [task[p] EXCEPT !.url = cfg.url, !.pc = "resolve"]
    <2>1. r \in TaskRecord /\ r.pc = "resolve" /\ r.url = cfg.url
      BY <1>1 DEF TaskRecord, Places, Reconnecting, Config
    <2>2. task' = [task EXCEPT ![p] = r]
      BY <1>3, <1>1 DEF ReconnectUrl, TaskRecord
    <2> HIDE DEF r
    <2>3. Moves(p, "resolve") /\ task'[p].url = cfg.url
      BY <1>1, <2>1, <2>2 DEF Moves
    <2>4. cfg.url \in Url
      BY <1>1, <1>3 DEF Config
    <2>5. FollowsConfig'
      <3> SUFFICES ASSUME Undisturbed'
                   PROVE  OneReconnects' /\ FileNamesIndexer' /\ task'[p].pc \in Reconnecting
        BY DEF FollowsConfig
      <3>1. /\ FileNamesIndexer /\ disk.url = cfg.url
            /\ \A q \in Task : q # p => task'[q].pc \notin Reconnecting
        BY <1>1, <2>3, OnlyReconnect DEF Moves
      <3>2. QED
        BY <1>1, <1>3, <2>3, <3>1 DEF OneReconnects, FileNamesIndexer, Moves, Reconnecting
    <2>6. QED
      BY <1>1, <2>3, <2>4, <2>5, ReconnectKeeps DEF Places, Reconnecting
  <1>4. QED
    BY <1>2, <1>3

\* resolve_working_indexer_url, with the mutex free.
LEMMA ResolveKeeps ==
    ASSUME IInv, NEW p \in Task, ReconnectResolve(p)
    PROVE  IInv'
  <1> USE DEF IInv
  <1>1. /\ task[p].pc = "resolve" /\ task[p].pc \in Reconnecting /\ owner = NULL
        /\ UNCHANGED <<env, owner, cfg, disk, client, tries, beat, failed, cleared>>
        /\ task \in [Task -> TaskRecord]
        /\ cfg \in Config /\ client \in Url \cup {NULL}
        /\ owner # p
        /\ task[p].url \in Url
    BY TaskTyped, ConfigAssumption DEF ReconnectResolve, Reconnecting, TypeOK, Task, RequestsKnown
  <1>2. PICK working \in Variants[task[p].url] \cup {task[p].url} :
          task' = [task EXCEPT ![p].url = working,
                               ![p].pc = IF working # task[p].url THEN "back" ELSE "client"]
    BY DEF ReconnectResolve
  <1>3. working \in Url
    BY <1>1, <1>2, ConfigAssumption
  <1>4. PICK pc \in {"back", "client"} :
          pc = IF working # task[p].url THEN "back" ELSE "client"
    OBVIOUS
  <1> DEFINE r == [task[p] EXCEPT !.url = working, !.pc = pc]
  <1>5. r \in TaskRecord /\ r.pc = pc /\ r.url = working
    BY <1>1, <1>3, <1>4 DEF TaskRecord, Places, Reconnecting
  <1>6. task' = [task EXCEPT ![p] = r]
    BY <1>1, <1>2, <1>4 DEF TaskRecord
  <1> HIDE DEF r
  <1>7. Moves(p, pc) /\ task'[p].url = working
    BY <1>1, <1>5, <1>6 DEF Moves
  <1>8. FollowsConfig'
    <2> SUFFICES ASSUME Undisturbed'
                 PROVE  OneReconnects' /\ FileNamesIndexer' /\ task'[p].pc \in Reconnecting
      BY DEF FollowsConfig
    <2>1. /\ FileNamesIndexer /\ disk.url = cfg.url /\ task[p].url = cfg.url
          /\ cfg.url # NULL
          /\ \A q \in Task : q # p => task'[q].pc \notin Reconnecting
      BY <1>1, <1>7, OnlyReconnect DEF Moves
    <2>2. QED
      BY <1>1, <1>2, <1>4, <1>7, <2>1 DEF OneReconnects, FileNamesIndexer, Moves, Reconnecting
  <1>9. QED
    BY <1>1, <1>3, <1>7, <1>8, ReconnectKeeps DEF Places, Reconnecting

\* The URL that works goes back to the configuration.
LEMMA BackKeeps ==
    ASSUME IInv, NEW p \in Task, ReconnectBack(p)
    PROVE  IInv'
  <1> USE DEF IInv
  <1>1. /\ task[p].pc = "back" /\ task[p].pc \in Reconnecting /\ owner = NULL
        /\ UNCHANGED <<env, owner, disk, client, tries, beat, failed, cleared>>
        /\ task \in [Task -> TaskRecord]
        /\ cfg \in Config /\ client \in Url \cup {NULL}
        /\ owner # p
        /\ task[p].url \in Url
    BY TaskTyped, ConfigAssumption DEF ReconnectBack, Reconnecting, TypeOK, Task, RequestsKnown
  <1>2. /\ cfg' \in Config /\ cfg'.url = task[p].url
        /\ cfg'.manual = cfg.manual /\ cfg'.set = cfg.set
    <2>1. cfg.manual \in BOOLEAN
      BY <1>1 DEF Config
    <2>2. cfg' = Chosen(cfg, task[p].url, cfg.manual)
      BY DEF ReconnectBack
    <2>3. QED
      BY <1>1, <2>1, <2>2, ChosenIs
  <1>3. Moves(p, "client") /\ task'[p].url = task[p].url
    BY <1>1, GotoIs DEF ReconnectBack, Moves, Places, Reconnecting
  <1>4. FollowsConfig'
    <2> SUFFICES ASSUME Undisturbed'
                 PROVE  OneReconnects' /\ FileNamesIndexer' /\ task'[p].pc \in Reconnecting
      BY DEF FollowsConfig
    <2>1. /\ disk.url = cfg.url /\ task[p].url \in Variants[cfg.url]
          /\ cfg.url # NULL
          /\ \A q \in Task : q # p => task'[q].pc \notin Reconnecting
      BY <1>1, <1>3, OnlyReconnect DEF Moves
    <2>2. QED
      BY <1>1, <1>2, <1>3, <2>1, ConfigAssumption
      DEF OneReconnects, FileNamesIndexer, Moves, Reconnecting
  <1>5. QED
    BY <1>1, <1>2, <1>3, <1>4, ReconnectKeeps DEF Places, Reconnecting

\* set_indexer connects to what the configuration names.
LEMMA ClientKeeps ==
    ASSUME IInv, NEW p \in Task, ReconnectClient(p)
    PROVE  IInv'
  <1> USE DEF IInv
  <1>1. /\ task[p].pc = "client" /\ task[p].pc \in Reconnecting
        /\ UNCHANGED <<env, cfg, disk, tries, beat, failed, cleared>>
        /\ client' = task[p].url
        /\ task \in [Task -> TaskRecord]
        /\ cfg \in Config
        /\ owner # p
        /\ task[p].url \in Url
    BY TaskTyped, ReconnectUnlocked
    DEF ReconnectClient, Reconnecting, TypeOK, RequestsKnown, Hung
  <1>2. UNCHANGED owner
    BY <1>1 DEF ReconnectClient
  <1>3. PICK pc \in {"none", "done"} : Goto(p, pc)
    BY DEF ReconnectClient, Ended
  <1>4. Moves(p, pc)
    BY <1>1, <1>3, GotoIs DEF Moves, Places
  <1>5. FollowsConfig'
    <2> SUFFICES ASSUME Undisturbed'
                 PROVE  OneReconnects' /\ FileNamesIndexer' /\ client' = cfg'.url
      BY DEF FollowsConfig
    <2>1. /\ FileNamesIndexer /\ task[p].url = cfg.url
          /\ \A q \in Task : q # p => task'[q].pc \notin Reconnecting
      BY <1>1, <1>2, <1>4, OnlyReconnect DEF Moves
    <2>2. QED
      BY <1>1, <1>4, <2>1 DEF OneReconnects, FileNamesIndexer, Moves, Reconnecting
  <1>6. QED
    BY <1>1, <1>2, <1>3, <1>4, <1>5, ReconnectKeeps DEF Places

-----------------------------------------------------------------------------
(* The theorems.                                                           *)

\* At start the file and the client are what discovery has made of them.
LEMMA InitKeeps ==
    Init => IInv
  <1> SUFFICES ASSUME Init PROVE IInv
    OBVIOUS
  <1> USE DEF Init
  <1>1. \A p \in Task : task[p] = [pc |-> "none", req |-> NULL, url |-> NULL]
    OBVIOUS
  <1>2. TypeOK
    <2>1. task \in [Task -> TaskRecord]
      BY DEF TaskRecord, Places
    <2>2. client \in Url \cup {NULL} /\ tries \in Nat
      BY ConfigAssumption DEF Config
    <2>3. QED
      BY <2>1, <2>2 DEF TypeOK, TaskRecord, Places
  <1>3. RequestsKnown
    BY <1>1 DEF RequestsKnown
  <1>4. GuardsHeld
    BY <1>1, ConfigAssumption DEF GuardsHeld, Task
  <1>5. SettingsSaved /\ NoneManual
    BY DEF SettingsSaved, NoneManual
  <1>6. FollowsConfig
    BY <1>1 DEF FollowsConfig, OneReconnects, FileNamesIndexer, Reconnecting
  <1>7. QED
    BY <1>2, <1>3, <1>4, <1>5, <1>6 DEF IInv

\* Every step keeps the invariant.
LEMMA NextKeeps ==
    IInv /\ [Next]_vars => IInv'
  <1> SUFFICES ASSUME IInv, [Next]_vars PROVE IInv'
    OBVIOUS
  <1>1. ASSUME NEW p \in Caller, NEW req \in Request, req.op # "retry", Begin(p, req)
        PROVE  IInv'
    <2>1. p \in Task /\ p # Retry
      BY ConfigAssumption DEF Task
    <2>2. QED
      BY <1>1, <2>1, WaitingKeeps DEF Begin, IInv, TypeOK
  <1>2. ASSUME RetrySleep
        PROVE  IInv'
    <2>1. [op |-> "retry"] \in Request /\ [op |-> "retry"].op = "retry"
      BY DEF Request
    <2>2. tries' \in Nat /\ Retry \in Task
      BY <1>2 DEF RetrySleep, IInv, TypeOK, Task
    <2>3. QED
      BY <1>2, <2>1, <2>2, WaitingKeeps DEF RetrySleep
  <1>3. ASSUME NEW p \in Task, TaskStep(p)
        PROVE  IInv'
    BY <1>2, <1>3, LockKeeps, UrlKeeps, ResolveKeeps, BackKeeps, ClientKeeps,
       GetKeeps, SaveKeeps, DiscoverKeeps, RetryKeeps
    DEF TaskStep, Reconnect
  <1>4. ASSUME UNCHANGED <<env, owner, cfg, disk, client, task, tries, failed, cleared>>,
               beat' \in BOOLEAN
        PROVE  IInv'
    <2>1. TypeOK' /\ RequestsKnown'
      BY <1>4 DEF IInv, TypeOK, RequestsKnown
    <2>2. GuardsHeld' /\ SettingsSaved' /\ NoneManual'
      BY <1>4 DEF IInv, GuardsHeld, Hung, SettingsSaved, NoneManual
    <2>3. FollowsConfig'
      BY <1>4 DEF IInv, FollowsConfig, Undisturbed, Hung, OneReconnects, FileNamesIndexer
    <2>4. QED
      BY <2>1, <2>2, <2>3 DEF IInv
  <1>5. LoopPass => IInv'
    BY <1>4 DEF LoopPass
  <1>6. UNCHANGED vars => IInv'
    BY <1>4 DEF vars, IInv, TypeOK
  <1>7. QED
    BY <1>1, <1>3, <1>5, <1>6 DEF Next

\* The invariant holds throughout.
LEMMA AlwaysIInv ==
    Spec => []IInv
  BY InitKeeps, NextKeeps, PTL DEF Spec

\* Every variable of the daemon's configuration keeps its type: a request, a URL
\* that a reconnect works with, the owner of the mutex.
THEOREM AlwaysTypeOK ==
    Spec => []TypeOK
  <1>1. IInv => TypeOK
    BY DEF IInv
  <1>2. QED
    BY <1>1, AlwaysIInv, PTL

\* On Umbrel the indexer client is the one that the configuration names when no
\* reconnect is under way (reconnect_indexer_from_config), however the requests
\* and the background discovery interleave, and whatever URLs a reconnect tries.
THEOREM AlwaysClientIsConfigured ==
    Spec => []ClientIsConfigured
  <1>1. IInv => ClientIsConfigured
    <2> SUFFICES ASSUME IInv, env.umbrel, ~failed, ~cleared,
                        \A p \in Task : task[p].pc \notin Reconnecting
                 PROVE  client = cfg.url
      BY DEF ClientIsConfigured
    <2>1. Undisturbed
      BY DEF Undisturbed, Hung, Reconnecting, Task
    <2>2. QED
      BY <2>1 DEF IInv, FollowsConfig
  <1>2. QED
    BY <1>1, AlwaysIInv, PTL

\* With the mutex free, a restart reads what the daemon works with (the saves of
\* save_config, discover_indexer, get_config and the background discovery).
THEOREM AlwaysFileIsCurrent ==
    Spec => []FileIsCurrent
  <1>1. IInv => FileIsCurrent
    <2> SUFFICES ASSUME IInv, owner = NULL, ~failed
                 PROVE  /\ disk.set = cfg.set
                        /\ env.umbrel /\ ~cleared =>
                             \/ disk.url = cfg.url
                             \/ disk.url # NULL /\ cfg.url \in Variants[disk.url]
      BY DEF FileIsCurrent
    <2>1. disk.set = cfg.set
      BY DEF IInv, SettingsSaved
    <2>2. ASSUME env.umbrel, ~cleared
          PROVE  FileNamesIndexer
      <3>1. Undisturbed
        BY <2>2, ConfigAssumption DEF Undisturbed, Hung
      <3>2. QED
        BY <3>1 DEF IInv, FollowsConfig
    <2>3. QED
      BY <2>1, <2>2 DEF FileNamesIndexer
  <1>2. QED
    BY <1>1, AlwaysIInv, PTL

\* The guard of save_config outlives its use only at the reconnect: whoever holds
\* the mutex is inside a handler's body, which ends without waiting, or is a save
\* that has changed the indexer.
THEOREM AlwaysGuarded ==
    Spec => [](\A p \in Task : owner = p => task[p].pc = "body" \/ SaveReconnects)
  <1>1. IInv => \A p \in Task : owner = p => task[p].pc = "body" \/ SaveReconnects
    BY DEF IInv, GuardsHeld, Hung, SaveReconnects, SaveRequest, Reconnecting
  <1>2. QED
    BY <1>1, AlwaysIInv, PTL

\* A save that comes to its reconnect with the mutex in hand never gets out of it:
\* reconnect_indexer_from_config locks the mutex again, and nobody ever has it after.
THEOREM HungForEver ==
    Spec => [][\A p \in Caller : Hung(p) => Hung(p)' /\ UNCHANGED <<owner, cfg, disk>>]_vars
  <1>1. ASSUME IInv, [Next]_vars, NEW h \in Caller, Hung(h)
        PROVE  Hung(h)' /\ UNCHANGED <<owner, cfg, disk>>
    <2> USE DEF IInv
    <2>1. /\ owner = h /\ owner # NULL /\ task[h].pc = "url" /\ task[h].req \in SaveRequest
          /\ h \in Task /\ h # Retry
          /\ \A q \in Task : task[q].pc # "body"
      BY <1>1, ConfigAssumption DEF Hung, GuardsHeld, Task
    <2>2. task \in [Task -> TaskRecord]
      BY <1>1, TaskTyped
    <2>3. ASSUME NEW p \in Task, p # h, \A q \in Task : q # p => task'[q] = task[q],
                 UNCHANGED <<owner, cfg, disk>>
          PROVE  Hung(h)' /\ UNCHANGED <<owner, cfg, disk>>
      BY <2>1, <2>3 DEF Hung
    <2>4. ASSUME NEW p \in Caller, NEW req \in Request, Begin(p, req)
          PROVE  Hung(h)' /\ UNCHANGED <<owner, cfg, disk>>
      BY <2>1, <2>2, <2>3, <2>4 DEF Begin, Task
    <2>5. ASSUME RetrySleep
          PROVE  Hung(h)' /\ UNCHANGED <<owner, cfg, disk>>
      BY <2>1, <2>2, <2>3, <2>5 DEF RetrySleep, Task
    <2>6. ASSUME NEW p \in Task, ReconnectClient(p)
          PROVE  Hung(h)' /\ UNCHANGED <<owner, cfg, disk>>
      <3>1. p # h /\ UNCHANGED <<owner, cfg, disk>>
        BY <2>1, <2>6 DEF ReconnectClient
      <3>2. PICK pc \in Places : Goto(p, pc)
        BY <2>6 DEF ReconnectClient, Ended, Places
      <3>3. QED
        BY <2>2, <2>3, <3>1, <3>2, GotoIs
    <2>7. ASSUME NEW p \in Task, TaskStep(p)
          PROVE  Hung(h)' /\ UNCHANGED <<owner, cfg, disk>>
      BY <2>1, <2>5, <2>6, <2>7
      DEF TaskStep, Lock, Reconnect, ReconnectUrl, ReconnectResolve, ReconnectBack,
          GetConfig, SaveConfig, DiscoverIndexer, RetryDiscover, InBody
    <2>8. LoopPass => Hung(h)' /\ UNCHANGED <<owner, cfg, disk>>
      BY <1>1 DEF LoopPass, Hung
    <2>9. UNCHANGED vars => Hung(h)' /\ UNCHANGED <<owner, cfg, disk>>
      BY <1>1 DEF vars, Hung
    <2>10. QED
      BY <1>1, <2>4, <2>7, <2>8, <2>9 DEF Next
  <1>2. IInv /\ [Next]_vars =>
          [\A p \in Caller : Hung(p) => Hung(p)' /\ UNCHANGED <<owner, cfg, disk>>]_vars
    BY <1>1
  <1>3. QED
    BY <1>2, AlwaysIInv, PTL DEF Spec

===============================================================================
