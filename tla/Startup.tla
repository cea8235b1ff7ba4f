------------------------------- MODULE Startup -------------------------------
(***************************************************************************)
(* How a process starts (main.rs) and what it does to the two files that   *)
(* outlive it: the database, whose broadcast_pool table it migrates        *)
(* (db/mod.rs, db/schema.rs), and the configuration file, which it reads,  *)
(* revises by discovery and writes back (config.rs, discovery.rs).         *)
(*                                                                         *)
(* The daemon and every run of the command line start in this way, also at *)
(* the same time.  SQLite runs one statement at a time, but a migration of *)
(* several statements is no transaction; fs::write truncates the file and  *)
(* then writes it.  A process may die between any two of these steps.      *)
(*                                                                         *)
(* The mode outside Umbrel is modelled, in which a user may configure an   *)
(* indexer; rows, sessions and loops are those of the other modules.       *)
(***************************************************************************)
EXTENDS Integers, Sequences, FiniteSets

CONSTANTS
    Process,    \* processes that may run at the same time
    Daemon,     \* the one that serves; the others are command lines
    Faults,     \* what may fail, a subset of {"crash", "disk", "db"}
    MaxSaves,   \* bound on the settings the user saves
    MaxFaults,  \* bound on the faults of a behaviour
    NULL,       \* no table, no file
    TORN        \* a file that does not parse

ASSUME StartupAssumption ==
    /\ Daemon \in Process
    /\ Faults \subseteq {"crash", "disk", "db"}
    /\ MaxSaves \in Nat /\ MaxFaults \in Nat
    /\ NULL # TORN

\* MIGRATION_002, 004, 005 and 006: the columns each adds, one ALTER each.
Migrations ==
    << <<"nlocktime">>,
       <<"broadcast_mode">>,
       <<"broadcast_missed_at", "original_scheduled_time", "defer_until">>,
       <<"schedule_trigger", "target_price", "price_currency",
         "price_condition">> >>

Migration  == DOMAIN Migrations
ColumnsOf(m) == {Migrations[m][i] : i \in DOMAIN Migrations[m]}
Column     == UNION {ColumnsOf(m) : m \in Migration}

\* MIGRATION_001: what CREATE TABLE IF NOT EXISTS gives a table of today.
FirstColumns == {"nlocktime", "broadcast_mode"}

\* Mutant: a column is named that no migration adds.
Bug_BROADCAST_SELECT == Column \cup {"price_source"}

\* BROADCAST_SELECT: what every query of the table names.
BROADCAST_SELECT == Column

VARIABLES
    cols,      \* the columns of the table beyond the first version's
    file,      \* the configuration file: settings, NULL or TORN
    proc,      \* the processes
    manualUp,  \* the indexer the user configured answers
    faults,
    \* --- history ---
    cut,       \* migrations that were cut short after their first statement
    cutFile,   \* a write of the configuration file was cut short
    saved,     \* the settings the user last saved, or a first start wrote
    excused    \* a start missed the user's indexer, or overlapped a save

vars == <<cols, file, proc, manualUp, faults, cut, cutFile, saved, excused>>

Indexer  == {"none", "auto", "manual"}
Settings == [ver : 0 .. MaxSaves, indexer : Indexer]
Default  == [ver |-> 0, indexer |-> "none"]

ASSUME ValueAssumption ==
    /\ \A columns \in SUBSET Column : columns # NULL
    /\ \A settings \in Settings : settings # NULL /\ settings # TORN

ProcessRecord ==
    [pc      : {"off", "load", "refused", "open", "migrate", "discover",
                "persist", "write", "rehydrate", "run", "save"},
     mig     : Migration,
     stmt    : Nat,
     cfg     : Settings,
     refused : SUBSET Migration,  \* history: migrations an error kept it from
     met     : BOOLEAN,           \* history: it met another in a migration
     loaded  : {"no", "yes", "no_indexer"}]  \* load_pending_from_db

TypeOK ==
    /\ cols \in (SUBSET Column) \cup {NULL}
    /\ file \in Settings \cup {NULL, TORN}
    /\ proc \in [Process -> ProcessRecord]
    /\ \A p \in Process : proc[p].stmt \in DOMAIN Migrations[proc[p].mig]
    /\ manualUp \in BOOLEAN /\ excused \in BOOLEAN /\ cutFile \in BOOLEAN
    /\ faults \in 0 .. MaxFaults
    /\ cut \subseteq Migration
    /\ saved \in Settings

Off == [pc |-> "off", mig |-> 1, stmt |-> 1, cfg |-> Default, refused |-> {},
        met |-> FALSE, loaded |-> "no"]

\* No database yet, or one left by any earlier version.
Init ==
    /\ cols \in {NULL} \cup {UNION {ColumnsOf(m) : m \in 1 .. k} :
                                k \in 0 .. Len(Migrations)}
    /\ file = NULL
    /\ proc = [p \in Process |-> Off]
    /\ manualUp = TRUE /\ faults = 0
    /\ cut = {} /\ cutFile = FALSE /\ saved = Default /\ excused = FALSE

Fault(kind) ==
    /\ kind \in Faults
    /\ faults < MaxFaults
    /\ faults' = faults + 1

Goes(p, pc) == proc' = [proc EXCEPT ![p].pc = pc]

-----------------------------------------------------------------------------
(* The start of a process: main.                                           *)

Start(p) ==
    /\ proc[p].pc = "off"
    /\ proc' = [proc EXCEPT ![p] = [Off EXCEPT !.pc = "load"]]
    /\ UNCHANGED <<cols, file, manualUp, faults, cut, cutFile, saved, excused>>

\* Mutant: a missing file is an error.
Bug_Load(p) ==
    /\ proc[p].pc = "load"
    /\ proc' = [proc EXCEPT ![p].pc = IF file \in {TORN, NULL}
                                      THEN "refused" ELSE "open",
                            ![p].cfg = IF file \in Settings THEN file ELSE @]
    /\ UNCHANGED <<cols, file, manualUp, faults, cut, cutFile, saved, excused>>

\* Config::load: a file that does not parse ends the process.
Load(p) ==
    /\ proc[p].pc = "load"
    /\ proc' = [proc EXCEPT ![p].pc = IF file = TORN THEN "refused" ELSE "open",
                            ![p].cfg = IF file \in Settings THEN file ELSE @]
    /\ UNCHANGED <<cols, file, manualUp, faults, cut, cutFile, saved, excused>>

\* The file is there and cannot be read.
LoadFails(p) ==
    /\ proc[p].pc = "load" /\ file # NULL /\ Fault("disk")
    /\ Goes(p, "refused")
    /\ UNCHANGED <<cols, file, manualUp, cut, cutFile, saved, excused>>

\* MIGRATION_001: the table is created if there is none.
Created == IF cols = NULL THEN FirstColumns ELSE cols

\* Database::open.
Open(p) ==
    /\ proc[p].pc = "open"
    /\ cols' = Created
    /\ Goes(p, "migrate")
    /\ UNCHANGED <<file, manualUp, faults, cut, cutFile, saved, excused>>

\* The directory cannot be made, the database cannot be opened or set to WAL, or
\* a statement of MIGRATION_001 fails, the table being created before it or not:
\* each ends the process.
OpenFails(p) ==
    /\ proc[p].pc = "open" /\ \E kind \in {"disk", "db"} : Fault(kind)
    /\ cols' \in {cols, Created}
    /\ Goes(p, "refused")
    /\ UNCHANGED <<file, manualUp, cut, cutFile, saved, excused>>

\* Migration m of process q has run its first statement and is not at its end.
InMigration(q, m) ==
    proc[q].pc = "migrate" /\ proc[q].mig = m /\ proc[q].stmt > 1

NextMigration(r) ==
    IF r.mig = Len(Migrations)
    THEN [r EXCEPT !.pc = "discover", !.stmt = 1]
    ELSE [r EXCEPT !.mig = @ + 1, !.stmt = 1]

\* Mutant: one statement too many.
Bug_NextStatement(r) ==
    IF r.stmt > Len(Migrations[r.mig]) THEN NextMigration(r)
    ELSE [r EXCEPT !.stmt = @ + 1]

NextStatement(r) ==
    IF r.stmt = Len(Migrations[r.mig]) THEN NextMigration(r)
    ELSE [r EXCEPT !.stmt = @ + 1]

\* Mutant: a duplicate column ends the migrations.
Bug_AfterDuplicate(r) == [r EXCEPT !.pc = "discover", !.stmt = 1]

\* Mutant: the migration is tried again.
Bug_RetryDuplicate(r) == [r EXCEPT !.stmt = 1]

\* The error of a duplicate column is logged, and the next migration begins.
AfterDuplicate(r) == NextMigration(r)

\* run_migrations: one ALTER TABLE.  A duplicate column is an error, and
\* execute_batch stops at its first error: the rest of the batch is skipped.
Alter(p) ==
    LET r == proc[p]
        c == Migrations[r.mig][r.stmt]
    IN  /\ r.pc = "migrate"
        /\ IF c \in cols
           THEN /\ proc' = [proc EXCEPT ![p] =
                      [AfterDuplicate(r) EXCEPT !.met =
                          @ \/ \E q \in Process : InMigration(q, r.mig)]]
                /\ UNCHANGED cols
           ELSE /\ proc' = [proc EXCEPT ![p] = NextStatement(r)]
                /\ cols' = cols \cup {c}
        /\ UNCHANGED <<file, manualUp, faults, cut, cutFile, saved, excused>>

\* Another error (the database stays locked): logged, and the rest skipped.
AlterRefused(p) ==
    /\ proc[p].pc = "migrate" /\ Fault("db")
    /\ proc' = [proc EXCEPT ![p] =
                   [NextMigration(proc[p]) EXCEPT !.refused = @ \cup {proc[p].mig}]]
    /\ cut' = cut \cup {m \in Migration : InMigration(p, m)}
    /\ UNCHANGED <<cols, file, manualUp, cutFile, saved, excused>>

\* Mutant: discovery is tried before the user's indexer.
Bug_Discovered(p) == {[proc[p].cfg EXCEPT !.indexer = "auto"], proc[p].cfg}

\* apply_indexer_discovery: the settings it leaves.  An indexer of the user's
\* that answers is kept; otherwise the first that is found takes its place, and
\* the override is no more.
Discovered(p) ==
    IF proc[p].cfg.indexer = "manual" /\ manualUp
    THEN {proc[p].cfg}
    ELSE {[proc[p].cfg EXCEPT !.indexer = "auto"], proc[p].cfg}

\* A configuration is written back if an indexer that answers was found, be it
\* the user's, the one of the last start or another.
AfterDiscovery(p, found) ==
    IF found # proc[p].cfg THEN {"persist"}
    ELSE CASE found.indexer = "none"   -> {"rehydrate"}
           [] found.indexer = "auto"   -> {"persist", "rehydrate"}
           [] found.indexer = "manual" -> IF manualUp THEN {"persist"}
                                          ELSE {"rehydrate"}

Discover(p) ==
    /\ proc[p].pc = "discover"
    /\ \E found \in Discovered(p) : \E pc \in AfterDiscovery(p, found) :
          proc' = [proc EXCEPT ![p].pc = pc, ![p].cfg = found]
    /\ excused' = (excused \/ (proc[p].cfg.indexer = "manual" /\ ~manualUp))
    /\ UNCHANGED <<cols, file, manualUp, faults, cut, cutFile, saved>>

\* save_config_to_disk, fs::write: truncated ...
Truncate(p) ==
    /\ proc[p].pc = "persist"
    /\ file' = TORN
    /\ Goes(p, "write")
    /\ UNCHANGED <<cols, manualUp, faults, cut, cutFile, saved, excused>>

\* ... and written.  What discovery found becomes part of the settings, as far
\* as the user's own are not concerned.
WriteBack(p) ==
    /\ proc[p].pc = "write"
    /\ file' = proc[p].cfg
    /\ saved' = IF proc[p].cfg.ver = saved.ver /\ saved.indexer # "manual"
                THEN proc[p].cfg ELSE saved
    /\ Goes(p, "rehydrate")
    /\ UNCHANGED <<cols, manualUp, faults, cut, cutFile, excused>>

\* The disk is full: a warning, and the file stays truncated.
WriteFails(p) ==
    /\ proc[p].pc = "write" /\ Fault("disk")
    /\ Goes(p, "rehydrate")
    /\ cutFile' = TRUE
    /\ UNCHANGED <<cols, file, manualUp, cut, saved, excused>>

\* load_pending_from_db: without an indexer there is an error at once, and a
\* query that names a missing column fails; both are only logged.
LoadPendingFromDb(p) ==
    IF proc[p].cfg.indexer = "none" THEN "no_indexer"
    ELSE IF BROADCAST_SELECT \subseteq cols THEN "yes" ELSE "no"

Rehydrate(p) ==
    /\ proc[p].pc = "rehydrate"
    /\ proc' = [proc EXCEPT ![p].pc = "run", ![p].loaded = LoadPendingFromDb(p)]
    /\ UNCHANGED <<cols, file, manualUp, faults, cut, cutFile, saved, excused>>

StartStep(p) ==
    \/ Load(p) \/ Open(p) \/ Alter(p) \/ Discover(p) \/ Truncate(p)
    \/ WriteBack(p) \/ Rehydrate(p)

-----------------------------------------------------------------------------
(* The daemon serves; a command ends.                                      *)

\* Processes that have read the file and not written it back.
Starting == {p \in Process : proc[p].pc \in {"open", "migrate", "discover",
                                             "persist", "write"}}

\* save_config changes the settings in memory and truncates the file ...
SaveConfig(indexer) ==
    /\ proc[Daemon].pc = "run" /\ proc[Daemon].cfg.ver < MaxSaves
    /\ indexer \in {proc[Daemon].cfg.indexer, "manual"}
    /\ proc' = [proc EXCEPT ![Daemon].pc = "save",
                            ![Daemon].cfg.ver = @ + 1,
                            ![Daemon].cfg.indexer = indexer]
    /\ file' = TORN
    /\ UNCHANGED <<cols, manualUp, faults, cut, cutFile, saved, excused>>

\* ... and writes it.
SaveWrite ==
    /\ proc[Daemon].pc = "save"
    /\ file' = proc[Daemon].cfg
    /\ saved' = proc[Daemon].cfg
    /\ excused' = (excused \/ Starting # {})
    /\ Goes(Daemon, "run")
    /\ UNCHANGED <<cols, manualUp, faults, cut, cutFile>>

SaveFails ==
    /\ proc[Daemon].pc = "save" /\ Fault("disk")
    /\ cutFile' = TRUE
    /\ Goes(Daemon, "run")
    /\ UNCHANGED <<cols, file, manualUp, cut, saved, excused>>

\* A command is done, the daemon is stopped, or a refused process is gone.
Exit(p) ==
    /\ proc[p].pc \in {"run", "refused"}
    /\ proc' = [proc EXCEPT ![p] = Off]
    /\ UNCHANGED <<cols, file, manualUp, faults, cut, cutFile, saved, excused>>

Crash(p) ==
    /\ proc[p].pc \notin {"off", "refused"} /\ Fault("crash")
    /\ proc' = [proc EXCEPT ![p] = Off]
    /\ cut' = cut \cup {m \in Migration : InMigration(p, m)}
    /\ cutFile' = (cutFile \/ proc[p].pc \in {"write", "save"})
    /\ UNCHANGED <<cols, file, manualUp, saved, excused>>

\* External: the indexer the user configured goes down, or comes back.
ManualToggles ==
    /\ manualUp' = ~manualUp
    /\ UNCHANGED <<cols, file, proc, faults, cut, cutFile, saved, excused>>

Next ==
    \/ \E p \in Process :
        \/ Start(p) \/ StartStep(p)
        \/ LoadFails(p) \/ OpenFails(p) \/ AlterRefused(p) \/ WriteFails(p)
        \/ Exit(p) \/ Crash(p)
    \/ \E indexer \in Indexer : SaveConfig(indexer)
    \/ SaveWrite \/ SaveFails \/ ManualToggles

\* A process that has begun to start is run until it serves.
Spec == Init /\ [][Next]_vars /\ \A p \in Process : WF_vars(StartStep(p))

-----------------------------------------------------------------------------
(* Properties.                                                             *)

Serving(p) == proc[p].pc \in {"run", "save"}

\* Once a process is past the migrations every column is there, whichever
\* version left the table and whoever else is starting: the error of one
\* migration keeps no other from being applied.  The exceptions are a migration
\* that an error kept this process from, one that was once cut short (no later
\* start completes it), and one that another process is in the middle of.
SchemaWhole ==
    \A p \in Process :
        proc[p].pc \in {"discover", "persist", "write", "rehydrate", "run", "save"}
        => \A m \in Migration :
              \/ ColumnsOf(m) \subseteq cols
              \/ m \in proc[p].refused \cup cut
              \/ \E q \in Process : InMigration(q, m)

\* A process that had an indexer when it started, and serves, has read the
\* waiting transactions of the table into its virtual mempool, with the same
\* exceptions at the time it started.
ServesRehydrated ==
    \A p \in Process :
        Serving(p) => \/ proc[p].loaded # "no"
                      \/ proc[p].refused # {} \/ proc[p].met \/ cut # {}

\* A process is refused its start by an error of the very step it is at, or by
\* a configuration file whose write is under way or was cut short.  Nothing else
\* that earlier starts left behind refuses one: not that there is no file yet,
\* nor a schema in which migrations failed or stopped half-way.
RefusedForCause ==
    [][\A p \in Process :
          proc[p].pc # "refused" /\ proc'[p].pc = "refused"
          => \/ faults' > faults
             \/ proc[p].pc = "load" /\ cutFile
             \/ /\ proc[p].pc = "load"
                /\ \E q \in Process : proc[q].pc \in {"write", "save"}]_vars

\* What the user saved is what the file says, through any number of starts that
\* write it back, unless a start found the user's indexer down or overlapped a
\* save, or a write is under way or was cut short.
SettingsKept ==
    \/ file = saved \/ file = NULL
    \/ excused \/ cutFile
    \/ \E p \in Process : proc[p].pc \in {"write", "save"}

\* A start comes to an end: the process serves, or is gone.
StartEnds ==
    \A p \in Process :
        (proc[p].pc = "load") ~> (Serving(p) \/ proc[p].pc \in {"off", "refused"})
=============================================================================
