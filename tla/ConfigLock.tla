----------------------------- MODULE ConfigLock -----------------------------
(***************************************************************************)
(* The configuration of the daemon: one mutex that the handlers of the web *)
(* API, the scheduler's loops, the Electrum sessions and the background    *)
(* discovery of Umbrel all lock (api/mod.rs, discovery.rs, main.rs), the   *)
(* file it is saved to, and the indexer client made from it                *)
(* (reconnect_indexer_from_config in pool/manager.rs).                     *)
(*                                                                         *)
(* A task is one API request, or the background discovery.  The mutex is a *)
(* std::sync::Mutex: it is not re-entrant, so a thread that locks it twice *)
(* waits for itself.  Of the configuration the model keeps the indexer and *)
(* one value for all that the settings page edits, the network included.   *)
(* What a scan of the network finds is up to the environment.              *)
(***************************************************************************)
EXTENDS Naturals, FiniteSets

CONSTANTS
    Caller,       \* the API requests that may be in flight at once
    Retry,        \* the background discovery, spawned at start on Umbrel
    Url,          \* indexer URLs
    Found,        \* those a discovery may return
    Electrs,      \* the one of the node's electrs, where Umbrel names it
    Typed,        \* those a user may type in
    Variants,     \* per URL, what resolve_working_indexer_url may make of it
    Setting,      \* values of the settings
    Faults,       \* what may fail, a subset of {"disk"}
    MaxTries,     \* attempts of the background discovery (40 in the code)
    ABSENT, EMPTY,\* an indexer_url that is missing, or blank
    NETWORK,      \* another network: indexer_url is not looked at
    NULL          \* None

ASSUME ConfigAssumption ==
    /\ Retry \notin Caller
    /\ Found \subseteq Url /\ Typed \subseteq Url /\ Electrs \in Found
    /\ Variants \in [Url -> SUBSET Url]
    /\ Faults \subseteq {"disk"}
    /\ MaxTries \in Nat
    /\ NULL \notin Url \cup Caller \cup {Retry}
    /\ Cardinality({ABSENT, EMPTY, NETWORK} \ Url) = 3

VARIABLES
    env,      \* the environment of the process: Umbrel mode, and its electrs
    owner,    \* the task that holds the mutex, or NULL
    cfg,      \* the configuration behind the mutex
    disk,     \* the configuration file
    client,   \* the URL of PoolManager's indexer client, or NULL
    task,     \* every task: where it is, its request, its local URL
    tries,    \* attempts the background discovery has left
    beat,     \* history: changes with every pass of a loop
    failed,   \* history: the file could not be written once
    cleared   \* history: a save has left the daemon without an indexer

vars == <<env, owner, cfg, disk, client, task, tries, beat, failed,
          cleared>>

Task == Caller \cup {Retry}

Config == [url : Url \cup {NULL}, manual : BOOLEAN, set : Setting]

SaveRequest == [op : {"save"}, url : Typed \cup {ABSENT, EMPTY, NETWORK},
                set : Setting]
Request == SaveRequest \cup [op : {"get", "discover", "retry"}]

Reconnecting == {"url", "resolve", "back", "client"}

TypeOK ==
    /\ env \in [umbrel : BOOLEAN, tcp : {Electrs, NULL}]
    /\ owner \in Task \cup {NULL}
    /\ cfg \in Config /\ disk \in Config
    /\ client \in Url \cup {NULL}
    /\ task \in [Task -> [pc  : {"none", "lock", "body", "done"} \cup Reconnecting,
                          req : Request \cup {NULL},
                          url : Url \cup {NULL}]]
    /\ tries \in Nat
    /\ beat \in BOOLEAN /\ failed \in BOOLEAN /\ cleared \in BOOLEAN

\* start: discovery has healed the configuration and saved it, and the client
\* is made from it.  The background discovery runs on Umbrel when none was
\* found.
Init ==
    /\ env \in [umbrel : BOOLEAN, tcp : {Electrs, NULL}]
    /\ env.tcp # NULL => env.umbrel
    /\ cfg \in Config
    /\ cfg.url = NULL => ~cfg.manual
    /\ env.umbrel => cfg.url \in Found \cup {NULL} /\ ~cfg.manual
    /\ disk = cfg
    /\ client = cfg.url
    /\ owner = NULL
    /\ task = [p \in Task |-> [pc |-> "none", req |-> NULL, url |-> NULL]]
    /\ tries = IF env.umbrel /\ cfg.url = NULL THEN MaxTries ELSE 0
    /\ beat = FALSE /\ failed = FALSE /\ cleared = FALSE

-----------------------------------------------------------------------------
(* What the handlers do to the configuration, as sets of outcomes.         *)

NoIndexer(c) == [c EXCEPT !.url = NULL, !.manual = FALSE]

Chosen(c, u, manual) == [c EXCEPT !.url = u, !.manual = manual]

\* sanitize_umbrel_indexer_config.  An address of the home network, which it
\* takes out too, does not get past start.
Sanitized(c) == IF env.umbrel /\ c.manual THEN NoIndexer(c) ELSE c

\* Mutant: discovers even though there is an indexer.
Bug_DiscoveredOnUmbrel(c) ==
    {[cfg |-> Chosen(Sanitized(c), u, FALSE), changed |-> TRUE] : u \in Found}
    \cup {[cfg |-> Sanitized(c), changed |-> Sanitized(c) # c]}

\* discover_umbrel_if_needed, forced: nothing is looked for while there is an
\* indexer.
DiscoveredOnUmbrel(c) ==
    {[cfg |-> Chosen(c, u, FALSE), changed |-> TRUE] :
        u \in IF Sanitized(c).url = NULL THEN Found ELSE {}}
    \cup {[cfg |-> Sanitized(c), changed |-> Sanitized(c) # c]}

\* apply_indexer_discovery outside Umbrel: the present indexer validated, or
\* another one found, or nothing.
DiscoveredOnLan(c) ==
    {[cfg |-> Chosen(c, u, c.manual), changed |-> TRUE] :
        u \in IF c.url = NULL THEN {} ELSE Variants[c.url] \cup {c.url}}
    \cup {[cfg |-> Chosen(c, u, FALSE), changed |-> TRUE] : u \in Found}
    \cup {[cfg |-> c, changed |-> FALSE]}

\* save_config, the indexer: "changed" is its indexer_updated.
SavedIndexer(c, req) ==
    CASE env.umbrel /\ req.url = EMPTY /\ env.tcp # NULL ->
             {[cfg |-> Chosen(c, env.tcp, FALSE), changed |-> TRUE]}
      [] env.umbrel /\ req.url = EMPTY /\ env.tcp = NULL ->
             DiscoveredOnUmbrel(NoIndexer(c))
      [] ~env.umbrel /\ req.url = NETWORK -> DiscoveredOnLan(c)
      [] ~env.umbrel /\ req.url \in Url ->
             {[cfg |-> Chosen(c, u, TRUE), changed |-> TRUE] :
                 u \in Variants[req.url] \cup {req.url}}
      [] OTHER -> {[cfg |-> c, changed |-> FALSE]}

\* save_config answers 400 before it has changed anything.
Refused(req) == env.umbrel /\ req.url \in Url

\* Writing the file: done, or not.
Written(c) ==
    \/ disk' = c /\ UNCHANGED failed
    \/ "disk" \in Faults /\ failed' = TRUE /\ UNCHANGED disk

-----------------------------------------------------------------------------
(* Tasks.                                                                  *)

Goto(p, pc) ==
    task' = [task EXCEPT ![p].pc = pc,
                         ![p].req = IF pc \in {"none", "done"} THEN NULL ELSE @,
                         ![p].url = IF pc \in {"none", "done"} THEN NULL ELSE @]

\* A request comes in.
Begin(p, req) ==
    /\ p \in Caller /\ task[p].pc = "none"
    /\ task' = [task EXCEPT ![p].pc = "lock", ![p].req = req]
    /\ UNCHANGED <<env, owner, cfg, disk, client, tries, beat, failed, cleared>>

\* Mutant: one attempt too many.
Bug_RetrySleep ==
    /\ env.umbrel /\ task[Retry].pc = "none" /\ client = NULL
    /\ task' = [task EXCEPT ![Retry].pc = "lock", ![Retry].req = [op |-> "retry"]]
    /\ tries' = tries - 1
    /\ UNCHANGED <<env, owner, cfg, disk, client, beat, failed, cleared>>

\* Every 15 s, until there is a client or the attempts are used up.
RetrySleep ==
    /\ tries > 0 /\ task[Retry].pc = "none" /\ client = NULL
    /\ task' = [task EXCEPT ![Retry].pc = "lock", ![Retry].req = [op |-> "retry"]]
    /\ tries' = tries - 1
    /\ UNCHANGED <<env, owner, cfg, disk, client, beat, failed, cleared>>

Lock(p) ==
    /\ task[p].pc = "lock" /\ owner = NULL
    /\ owner' = p
    /\ Goto(p, "body")
    /\ UNCHANGED <<env, cfg, disk, client, tries, beat, failed, cleared>>

\* Where a task goes when it has nothing more to do.
Ended(p) == IF p = Retry THEN "none" ELSE "done"

InBody(p, op) == task[p].pc = "body" /\ task[p].req.op = op

\* get_config, and the first part of get_status.  The write may fail unseen.
GetConfig(p) ==
    /\ InBody(p, "get")
    /\ cfg' = Sanitized(cfg)
    /\ IF cfg' # cfg THEN Written(cfg') ELSE UNCHANGED <<disk, failed>>
    /\ owner' = NULL
    /\ Goto(p, IF cfg' # cfg THEN "url" ELSE Ended(p))
    /\ UNCHANGED <<env, client, tries, beat, cleared>>

\* Mutant: the file is written before the settings are taken over.
Bug_SaveConfig(p) ==
    /\ InBody(p, "save")
    /\ IF Refused(task[p].req)
       THEN /\ owner' = NULL /\ Goto(p, Ended(p))
            /\ UNCHANGED <<cfg, disk, failed, cleared>>
       ELSE \E o \in SavedIndexer(cfg, task[p].req) :
              /\ cfg' = [o.cfg EXCEPT !.set = task[p].req.set]
              /\ cleared' = (cleared \/ (cfg.url # NULL /\ o.cfg.url = NULL))
              /\ Written(o.cfg)
              /\ IF o.changed /\ failed' = failed
                 THEN Goto(p, "url") /\ UNCHANGED owner
                 ELSE Goto(p, Ended(p)) /\ owner' = NULL
    /\ UNCHANGED <<env, client, tries, beat>>

\* save_config.  With a new indexer the guard is still held at the reconnect;
\* a failed write answers 500 and leaves the configuration changed.
SaveConfig(p) ==
    /\ InBody(p, "save")
    /\ IF Refused(task[p].req)
       THEN /\ owner' = NULL /\ Goto(p, Ended(p))
            /\ UNCHANGED <<cfg, disk, failed, cleared>>
       ELSE \E o \in SavedIndexer(cfg, task[p].req) :
              /\ cfg' = [o.cfg EXCEPT !.set = task[p].req.set]
              /\ cleared' = (cleared \/ (cfg.url # NULL /\ o.cfg.url = NULL))
              /\ \/ /\ disk' = cfg' /\ UNCHANGED failed
                    /\ IF o.changed
                       THEN Goto(p, "url") /\ UNCHANGED owner
                       ELSE Goto(p, Ended(p)) /\ owner' = NULL
                 \/ /\ "disk" \in Faults /\ failed' = TRUE /\ UNCHANGED disk
                    /\ Goto(p, Ended(p)) /\ owner' = NULL
    /\ UNCHANGED <<env, client, tries, beat>>

\* discover_indexer: an indexer outside Umbrel is no longer the user's, then
\* a discovery.  The guard is dropped before the reconnect.
Discovered(c) ==
    IF env.umbrel THEN DiscoveredOnUmbrel(c)
                  ELSE DiscoveredOnLan([c EXCEPT !.manual = FALSE])

\* Mutant: the guard is still held at the reconnect.
Bug_DiscoverIndexer(p) ==
    /\ InBody(p, "discover")
    /\ \E o \in Discovered(cfg) :
          /\ cfg' = o.cfg
          /\ \/ /\ disk' = cfg' /\ UNCHANGED failed
                /\ IF o.changed /\ cfg'.url # NULL
                   THEN Goto(p, "url") /\ UNCHANGED owner
                   ELSE Goto(p, Ended(p)) /\ owner' = NULL
             \/ /\ "disk" \in Faults /\ failed' = TRUE /\ UNCHANGED disk
                /\ Goto(p, Ended(p)) /\ owner' = NULL
    /\ UNCHANGED <<env, client, tries, beat, cleared>>

DiscoverIndexer(p) ==
    /\ InBody(p, "discover")
    /\ \E o \in Discovered(cfg) :
          /\ cfg' = o.cfg
          /\ \/ /\ disk' = cfg' /\ UNCHANGED failed
                /\ Goto(p, IF o.changed /\ cfg'.url # NULL THEN "url" ELSE Ended(p))
             \/ /\ "disk" \in Faults /\ failed' = TRUE /\ UNCHANGED disk
                /\ Goto(p, Ended(p))
    /\ owner' = NULL
    /\ UNCHANGED <<env, client, tries, beat, cleared>>

\* Mutant: the guard that discovers is still alive at the reconnect.
Bug_RetryDiscover ==
    /\ InBody(Retry, "retry")
    /\ \/ /\ cfg.url # NULL
          /\ Goto(Retry, "none")
          /\ owner' = NULL
          /\ UNCHANGED <<cfg, disk, failed>>
       \/ /\ cfg.url = NULL
          /\ \E o \in DiscoveredOnUmbrel(cfg) :
                /\ cfg' = o.cfg
                /\ IF o.changed
                   THEN Written(cfg') /\ Goto(Retry, "url") /\ UNCHANGED owner
                   ELSE Goto(Retry, "none") /\ owner' = NULL /\ UNCHANGED <<disk, failed>>
    /\ UNCHANGED <<env, client, tries, beat, cleared>>

\* An attempt of the background discovery.  An indexer that someone else has
\* chosen meanwhile is left alone, connected or not.
RetryDiscover ==
    /\ InBody(Retry, "retry")
    /\ \/ /\ cfg.url # NULL
          /\ Goto(Retry, "none")
          /\ UNCHANGED <<cfg, disk, failed>>
       \/ /\ cfg.url = NULL
          /\ \E o \in DiscoveredOnUmbrel(cfg) :
                /\ cfg' = o.cfg
                /\ IF o.changed THEN Written(cfg') ELSE UNCHANGED <<disk, failed>>
                /\ Goto(Retry, IF o.changed THEN "url" ELSE "none")
    /\ owner' = NULL
    /\ UNCHANGED <<env, client, tries, beat, cleared>>

-----------------------------------------------------------------------------
(* reconnect_indexer_from_config: the mutex is taken anew for every look.  *)

\* get_indexer_url: without an indexer there is nothing to connect to.
ReconnectUrl(p) ==
    /\ task[p].pc = "url" /\ owner = NULL
    /\ IF cfg.url = NULL
       THEN Goto(p, Ended(p))
       ELSE task' = [task EXCEPT ![p].url = cfg.url, ![p].pc = "resolve"]
    /\ UNCHANGED <<env, owner, cfg, disk, client, tries, beat, failed, cleared>>

\* The network is read, the mutex released, and the URL tried.
ReconnectResolve(p) ==
    /\ task[p].pc = "resolve" /\ owner = NULL
    /\ \E working \in Variants[task[p].url] \cup {task[p].url} :
          task' = [task EXCEPT ![p].url = working,
                               ![p].pc = IF working # task[p].url THEN "back" ELSE "client"]
    /\ UNCHANGED <<env, owner, cfg, disk, client, tries, beat, failed, cleared>>

\* A URL that had to be changed goes back to the configuration in memory,
\* over whatever indexer is there by now.
ReconnectBack(p) ==
    /\ task[p].pc = "back" /\ owner = NULL
    /\ cfg' = Chosen(cfg, task[p].url, cfg.manual)
    /\ Goto(p, "client")
    /\ UNCHANGED <<env, owner, disk, client, tries, beat, failed, cleared>>

\* set_indexer; the guard of a save is dropped on return.
ReconnectClient(p) ==
    /\ task[p].pc = "client"
    /\ client' = task[p].url
    /\ owner' = IF owner = p THEN NULL ELSE owner
    /\ Goto(p, Ended(p))
    /\ UNCHANGED <<env, cfg, disk, tries, beat, failed, cleared>>

-----------------------------------------------------------------------------
\* A pass of a scheduler loop, an Electrum line or any other handler begins
\* with a look at the configuration.
LoopPass ==
    /\ owner = NULL
    /\ beat' = ~beat
    /\ UNCHANGED <<env, owner, cfg, disk, client, task, tries, failed, cleared>>

Reconnect(p) ==
    ReconnectUrl(p) \/ ReconnectResolve(p) \/ ReconnectBack(p) \/ ReconnectClient(p)

TaskStep(p) ==
    \/ Lock(p) \/ Reconnect(p)
    \/ GetConfig(p) \/ SaveConfig(p) \/ DiscoverIndexer(p)
    \/ p = Retry /\ (RetrySleep \/ RetryDiscover)

Next ==
    \/ \E p \in Caller, req \in Request : req.op # "retry" /\ Begin(p, req)
    \/ \E p \in Task : TaskStep(p)
    \/ LoopPass

Spec == Init /\ [][Next]_vars

\* Threads that are not blocked run, scans and connection attempts time out,
\* and a free mutex is in the end given to a thread that waits for it.
FairSpec == Spec /\ (\A p \in Task : WF_vars(TaskStep(p))) /\ WF_vars(LoopPass)

-----------------------------------------------------------------------------
(* Properties.                                                             *)

\* A save is at its reconnect: the only place where a guard outlives its use.
SaveReconnects ==
    \E p \in Caller : /\ owner = p /\ task[p].pc \in Reconnecting
                     /\ task[p].req.op = "save"

\* On Umbrel, when no reconnect is under way the client is the one that the
\* configuration names, or a save has the lock: concurrent discoveries, the
\* background one included, do not leave the client of one and the URL of
\* another.  A discovery whose file cannot be written connects nothing.
ClientIsConfigured ==
    env.umbrel /\ ~failed /\ ~cleared /\ (\A p \in Task : task[p].pc \notin Reconnecting)
        => client = cfg.url

\* With the lock free, a restart would read what the daemon works with: the
\* settings, and on Umbrel the indexer up to the transport a reconnect chose.
FileIsCurrent ==
    owner = NULL /\ ~failed =>
        /\ disk.set = cfg.set
        /\ env.umbrel /\ ~cleared => \/ disk.url = cfg.url
                                     \/ disk.url # NULL /\ cfg.url \in Variants[disk.url]

\* Every request is answered, unless some save changes the indexer.
AnsweredUnlessSaved ==
    \A p \in Caller :
        (task[p].pc = "lock") ~> (task[p].pc = "done" \/ SaveReconnects)

\* The loops go on for ever, unless some save changes the indexer.
LoopsUnlessSaved == <>SaveReconnects \/ ([]<>beat /\ []<>~beat)

\* Every request is answered.
RequestAnswered ==
    \A p \in Caller : (task[p].pc = "lock") ~> (task[p].pc = "done")
=============================================================================
