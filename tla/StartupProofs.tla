---------------------------- MODULE StartupProofs -----------------------------
(***************************************************************************)
(* What Startup promises about the two files, for any number of processes  *)
(* that start, die and restart at the same time: the inductive invariant,  *)
(* and the theorems that follow from it.  The schema and the configuration *)
(* file are invariants of their own (no step of the one reads the other),  *)
(* and are proved apart, each from the types alone.                        *)
(***************************************************************************)
EXTENDS Startup, TLAPS

-----------------------------------------------------------------------------
(* The migrations.                                                         *)

\* The columns of migration m are all there.
Whole(m) == ColumnsOf(m) \subseteq cols

\* Process p has left migration m behind.
Past(p, m) ==
    \/ proc[p].pc \in {"discover", "persist", "write", "rehydrate", "run", "save"}
    \/ proc[p].pc = "migrate" /\ proc[p].mig > m

\* There is a table once a process has opened the database.
Opened ==
    \A p \in Process :
        proc[p].pc \notin {"off", "load", "refused", "open"} => cols # NULL

\* The columns of a migration come in their order: without the first there is
\* none of the others.
InOrder ==
    cols # NULL => \A m \in Migration :
        Migrations[m][1] \notin cols => ColumnsOf(m) \cap cols = {}

\* Only the process whose statement added a column goes on to the next one, so
\* what is there is what it has added.
Underway ==
    \A q \in Process : \A m \in Migration : InMigration(q, m) =>
        \A i \in DOMAIN Migrations[m] :
            Migrations[m][i] \in cols <=> i < proc[q].stmt

\* No two processes are in the middle of one migration.
Alone ==
    \A q1, q2 \in Process : \A m \in Migration :
        InMigration(q1, m) /\ InMigration(q2, m) => q1 = q2

\* A migration that was begun is whole, was cut short, or has its process.
Accounted ==
    cols # NULL => \A m \in Migration :
        Migrations[m][1] \in cols =>
            \/ Whole(m) \/ m \in cut
            \/ \E q \in Process : InMigration(q, m)

\* What a process that is past a migration knows of it.
PastKnows ==
    \A p \in Process : \A m \in Migration : Past(p, m) =>
        \/ Whole(m)
        \/ m \in proc[p].refused \cup cut
        \/ proc[p].met /\ \E q \in Process : InMigration(q, m)

\* What loading the waiting transactions found.
LoadedKnows ==
    \A p \in Process : Serving(p) =>
        \/ proc[p].loaded # "no"
        \/ proc[p].refused # {} \/ proc[p].met \/ cut # {}

\* A process that has not opened the database is before the first migration.
Before ==
    \A p \in Process : proc[p].pc \in {"off", "load", "refused", "open"} =>
        proc[p].mig = 1 /\ proc[p].stmt = 1

SchemaInv ==
    /\ InOrder /\ Underway /\ Alone /\ Accounted
    /\ Before /\ PastKnows /\ LoadedKnows

-----------------------------------------------------------------------------
(* The configuration file.                                                 *)

\* A file that does not parse is being written, or its write was cut short.
TornHasReason ==
    file = TORN => \/ cutFile
                   \/ \E q \in Process : proc[q].pc \in {"write", "save"}

\* What the user saved and a starting process holds agree, but for what
\* discovery is free to change.
SameUser(c, d) ==
    c.ver = d.ver /\ (c.indexer = "manual" <=> d.indexer = "manual")

FileIsSaved ==
    excused \/ cutFile \/ file \in {saved, NULL, TORN}

NoFileYet == file = NULL => saved = Default

StartersAgree ==
    excused \/ cutFile \/ \A p \in Starting : SameUser(proc[p].cfg, saved)

\* What a process holds before it has read the file.
Unread == \A p \in Process : proc[p].pc \in {"off", "load"} => proc[p].cfg = Default

FileInv ==
    TornHasReason /\ FileIsSaved /\ NoFileYet /\ StartersAgree /\ Unread

-----------------------------------------------------------------------------
(* Types.                                                                  *)

\* The four migrations as the proofs use them: each has a first statement.
LEMMA MigrationShape ==
    /\ Migration = 1 .. 4 /\ Len(Migrations) = 4
    /\ \A m \in Migration :
          /\ Len(Migrations[m]) \in Nat \ {0}
          /\ DOMAIN Migrations[m] = 1 .. Len(Migrations[m])
  <1>1. Migration = 1 .. 4 /\ Len(Migrations) = 4
    BY DEF Migration, Migrations
  <1>2. \A m \in 1 .. 4 : /\ Len(Migrations[m]) \in Nat \ {0}
                          /\ DOMAIN Migrations[m] = 1 .. Len(Migrations[m])
    BY DEF Migrations
  <1> QED BY <1>1, <1>2

\* What they add are columns, and no column is added by two statements.
LEMMA ColumnsDiffer ==
    \A m \in Migration : \A i \in DOMAIN Migrations[m] :
        /\ Migrations[m][i] \in Column
        /\ \A n \in Migration : \A j \in DOMAIN Migrations[n] :
              Migrations[m][i] = Migrations[n][j] => m = n /\ i = j
  <1>1. \A m \in 1 .. 4 : \A i \in DOMAIN Migrations[m] : Migrations[m][i] \in Column
    BY MigrationShape DEF Column, ColumnsOf
  <1>2. /\ DOMAIN Migrations[1] = {1} /\ DOMAIN Migrations[2] = {1}
        /\ DOMAIN Migrations[3] = {1, 2, 3} /\ DOMAIN Migrations[4] = {1, 2, 3, 4}
    BY DEF Migrations
  <1>3. ASSUME NEW m \in 1 .. 4, NEW i \in DOMAIN Migrations[m],
               NEW n \in 1 .. 4, NEW j \in DOMAIN Migrations[n],
               Migrations[m][i] = Migrations[n][j]
        PROVE  m = n /\ i = j
    BY <1>2, <1>3 DEF Migrations
  <1> QED BY <1>1, <1>3, MigrationShape

\* A first table has the columns of the first two migrations.
LEMMA FirstTable == FirstColumns = ColumnsOf(1) \cup ColumnsOf(2)
  <1>1. ColumnsOf(1) = {"nlocktime"} /\ ColumnsOf(2) = {"broadcast_mode"}
    BY DEF ColumnsOf, Migrations
  <1> QED BY <1>1 DEF FirstColumns

\* A process as it may be: at a statement of its migration.
AtStatement(r) == r \in ProcessRecord /\ r.stmt \in DOMAIN Migrations[r.mig]

\* The migrations advance from a statement to one that exists.
LEMMA NextAtStatement ==
    ASSUME NEW r, AtStatement(r)
    PROVE  AtStatement(NextMigration(r)) /\ AtStatement(NextStatement(r))
  <1> r \in ProcessRecord
    BY DEF AtStatement
  <1>1. NextMigration(r) \in ProcessRecord /\ NextMigration(r).stmt = 1
    <2>1. CASE r.mig = Len(Migrations)
      BY <2>1 DEF NextMigration, ProcessRecord
    <2>2. CASE r.mig # Len(Migrations)
      <3>1. r.mig \in 1 .. 4 /\ r.mig # 4
        BY <2>2, MigrationShape DEF ProcessRecord
      <3>2. r.mig + 1 \in Migration
        BY <3>1, MigrationShape
      <3>3. \A m \in Migration :
               /\ [r EXCEPT !.mig = m, !.stmt = 1] \in ProcessRecord
               /\ [r EXCEPT !.mig = m, !.stmt = 1].stmt = 1
        BY DEF ProcessRecord
      <3>4. NextMigration(r) = [r EXCEPT !.mig = r.mig + 1, !.stmt = 1]
        BY <2>2 DEF NextMigration
      <3> QED BY <3>1, <3>2, <3>3, <3>4
    <2> QED BY <2>1, <2>2
  <1>2. \A m \in Migration : 1 \in DOMAIN Migrations[m]
    BY MigrationShape
  <1>3. NextMigration(r).mig \in Migration
    BY <1>1 DEF ProcessRecord
  <1>4. AtStatement(NextMigration(r))
    BY <1>1, <1>2, <1>3 DEF AtStatement
  <1>5. CASE r.stmt # Len(Migrations[r.mig])
    <2>1. r.mig \in Migration
      BY DEF ProcessRecord
    <2>2. r.stmt \in 1 .. Len(Migrations[r.mig]) /\ Len(Migrations[r.mig]) \in Nat
      BY <2>1, MigrationShape DEF AtStatement
    <2>3. r.stmt + 1 \in 1 .. Len(Migrations[r.mig])
      BY <1>5, <2>2
    <2>4. r.stmt + 1 \in DOMAIN Migrations[r.mig] /\ r.stmt + 1 \in Nat
      BY <2>1, <2>2, <2>3, MigrationShape
    <2>5. NextStatement(r) = [r EXCEPT !.stmt = r.stmt + 1]
      BY <1>5 DEF NextStatement
    <2>6. NextStatement(r) \in ProcessRecord
      BY <2>4, <2>5 DEF ProcessRecord
    <2>7. NextStatement(r).mig = r.mig /\ NextStatement(r).stmt = r.stmt + 1
      BY <2>5 DEF ProcessRecord
    <2> QED BY <1>4, <2>4, <2>6, <2>7 DEF AtStatement
  <1> QED BY <1>4, <1>5 DEF NextStatement

\* Nothing else of a process moves its statement.
LEMMA FieldsAtStatement ==
    ASSUME NEW r, AtStatement(r)
    PROVE  /\ \A pc \in {"off", "load", "refused", "open", "migrate", "discover",
                         "persist", "write", "rehydrate", "run", "save"} :
                 /\ AtStatement([r EXCEPT !.pc = pc])
                 /\ \A cfg \in Settings :
                       AtStatement([r EXCEPT !.pc = pc, !.cfg = cfg])
                 /\ \A found \in {"no", "yes", "no_indexer"} :
                       AtStatement([r EXCEPT !.pc = pc, !.loaded = found])
           /\ \A refused \in SUBSET Migration : AtStatement([r EXCEPT !.refused = refused])
           /\ \A met \in BOOLEAN : AtStatement([r EXCEPT !.met = met])
  <1>1. ASSUME NEW pc \in {"off", "load", "refused", "open", "migrate", "discover",
                           "persist", "write", "rehydrate", "run", "save"}
        PROVE  /\ AtStatement([r EXCEPT !.pc = pc])
               /\ \A cfg \in Settings : AtStatement([r EXCEPT !.pc = pc, !.cfg = cfg])
               /\ \A found \in {"no", "yes", "no_indexer"} :
                     AtStatement([r EXCEPT !.pc = pc, !.loaded = found])
    <2>1. AtStatement([r EXCEPT !.pc = pc])
      BY DEF AtStatement, ProcessRecord
    <2>2. \A cfg \in Settings : AtStatement([r EXCEPT !.pc = pc, !.cfg = cfg])
      BY DEF AtStatement, ProcessRecord
    <2>3. \A found \in {"no", "yes", "no_indexer"} :
             AtStatement([r EXCEPT !.pc = pc, !.loaded = found])
      BY DEF AtStatement, ProcessRecord
    <2> QED BY <2>1, <2>2, <2>3
  <1>2. \A refused \in SUBSET Migration : AtStatement([r EXCEPT !.refused = refused])
    BY DEF AtStatement, ProcessRecord
  <1>3. \A met \in BOOLEAN : AtStatement([r EXCEPT !.met = met])
    BY DEF AtStatement, ProcessRecord
  <1> QED BY <1>1, <1>2, <1>3

\* A process that has not begun.
LEMMA OffAtStatement == AtStatement(Off) /\ AtStatement([Off EXCEPT !.pc = "load"])
  <1>1. 1 \in Migration /\ 1 \in DOMAIN Migrations[1]
    BY MigrationShape
  <1>2. Off \in ProcessRecord
    BY <1>1, StartupAssumption DEF Off, ProcessRecord, Settings, Default, Indexer
  <1>3. Off.stmt = 1 /\ Off.mig = 1
    BY DEF Off
  <1>4. AtStatement(Off)
    BY <1>1, <1>2, <1>3 DEF AtStatement
  <1> QED BY <1>4, FieldsAtStatement

\* The processes as they may be.
ProcOK == proc \in [Process -> ProcessRecord] /\ \A p \in Process : AtStatement(proc[p])

\* One process moves; one that has opened the database has found a table.
LEMMA OneMoves ==
    ASSUME ProcOK, Opened, NEW p \in Process, NEW r, AtStatement(r),
           proc' = [proc EXCEPT ![p] = r],
           cols # NULL => cols' # NULL,
           r.pc \in {"off", "load", "refused", "open"} \/ cols' # NULL
    PROVE  ProcOK' /\ Opened'
  <1>1. proc' \in [Process -> ProcessRecord]
    BY DEF ProcOK, AtStatement
  <1>2. \A q \in Process : AtStatement(proc'[q])
    BY DEF ProcOK
  <1>3. \A q \in Process : AtStatement(proc[q])'
    BY <1>2 DEF AtStatement
  <1>4. Opened'
    BY DEF Opened, ProcOK
  <1> QED BY <1>1, <1>3, <1>4 DEF ProcOK

\* What is left of the types.
FilesOK ==
    /\ cols \in (SUBSET Column) \cup {NULL}
    /\ file \in Settings \cup {NULL, TORN}
    /\ manualUp \in BOOLEAN /\ excused \in BOOLEAN /\ cutFile \in BOOLEAN
    /\ faults \in 0 .. MaxFaults
    /\ cut \subseteq Migration
    /\ saved \in Settings

\* The types of the processes, and of the files and what is known of them.
LEMMA TypeParts == TypeOK <=> ProcOK /\ FilesOK
  BY DEF TypeOK, ProcOK, FilesOK, AtStatement

\* The types alone are not inductive: ALTER TABLE needs a table.
TypeInv == ProcOK /\ FilesOK /\ Opened

\* The settings of a first start, and what a save makes of others.
LEMMA SettingsTyped ==
    /\ Default \in Settings
    /\ \A c \in Settings : \A indexer \in Indexer : c.ver < MaxSaves =>
          [c EXCEPT !.ver = @ + 1, !.indexer = indexer] \in Settings
  <1>1. Default \in Settings
    BY StartupAssumption DEF Default, Settings, Indexer
  <1>2. ASSUME NEW c \in Settings, NEW indexer \in Indexer, c.ver < MaxSaves
        PROVE  [c EXCEPT !.ver = @ + 1, !.indexer = indexer] \in Settings
    <2>1. c.ver + 1 \in 0 .. MaxSaves
      BY <1>2, StartupAssumption DEF Settings
    <2>2. \A v \in 0 .. MaxSaves : [c EXCEPT !.ver = v, !.indexer = indexer] \in Settings
      BY DEF Settings
    <2> QED BY <2>1, <2>2
  <1> QED BY <1>1, <1>2

\* Faults are bounded.
LEMMA FaultTyped ==
    ASSUME FilesOK, NEW kind, Fault(kind)
    PROVE  faults' \in 0 .. MaxFaults
  BY StartupAssumption DEF FilesOK, Fault

\* Nothing started yet, whatever table an earlier version left.
LEMMA InitTyped == Init => TypeInv
  <1>1. \A k \in 0 .. Len(Migrations) :
            UNION {ColumnsOf(m) : m \in 1 .. k} \in SUBSET Column
    BY MigrationShape DEF Column
  <1>2. 0 \in 0 .. MaxFaults
    BY StartupAssumption
  <1>3. Init => FilesOK
    BY <1>1, <1>2, SettingsTyped DEF Init, FilesOK
  <1>4. ASSUME Init PROVE ProcOK /\ Opened
    <2>1. proc = [p \in Process |-> Off]
      BY <1>4 DEF Init
    <2>2. Off.pc = "off"
      BY DEF Off
    <2> QED BY <2>1, <2>2, OffAtStatement DEF ProcOK, AtStatement, Opened
  <1> QED BY <1>3, <1>4 DEF TypeInv

\* What discovery leaves is a configuration, and the start goes on.
LEMMA DiscoverTyped ==
    ASSUME NEW p \in Process, AtStatement(proc[p]), Discover(p)
    PROVE  \E found \in Settings : \E pc \in {"persist", "rehydrate"} :
             /\ found \in Discovered(p) /\ pc \in AfterDiscovery(p, found)
             /\ proc' = [proc EXCEPT ![p] = [proc[p] EXCEPT !.pc = pc, !.cfg = found]]
  <1>1. PICK found \in Discovered(p) : \E pc \in AfterDiscovery(p, found) :
           proc' = [proc EXCEPT ![p].pc = pc, ![p].cfg = found]
    BY DEF Discover
  <1>2. PICK pc \in AfterDiscovery(p, found) :
           proc' = [proc EXCEPT ![p].pc = pc, ![p].cfg = found]
    BY <1>1
  <1>3. proc[p].cfg \in Settings
    BY DEF AtStatement, ProcessRecord
  <1>4. found \in Settings
    BY <1>3 DEF Discovered, Settings, Indexer
  <1>5. pc \in {"persist", "rehydrate"}
    BY <1>4 DEF AfterDiscovery, Settings, Indexer
  <1> QED BY <1>2, <1>4, <1>5

\* The statement a process is at names a column.
LEMMA StatementColumn ==
    ASSUME NEW r, AtStatement(r)
    PROVE  r.mig \in Migration /\ Migrations[r.mig][r.stmt] \in Column
  BY ColumnsDiffer DEF AtStatement, ProcessRecord

\* What the next-state relation needs of the fields it reads.
LEMMA FieldTypes ==
    ASSUME NEW r, AtStatement(r)
    PROVE  /\ r.cfg \in Settings /\ r.met \in BOOLEAN /\ r.refused \in SUBSET Migration
           /\ \A pc : [r EXCEPT !.pc = pc].pc = pc
           /\ \A pc, cfg : [r EXCEPT !.pc = pc, !.cfg = cfg].pc = pc
           /\ \A pc, found : [r EXCEPT !.pc = pc, !.loaded = found].pc = pc
  BY DEF AtStatement, ProcessRecord

\* A save of the user's is of other settings.
LEMMA SaveTyped ==
    ASSUME ProcOK, NEW indexer \in Indexer, SaveConfig(indexer)
    PROVE  /\ Daemon \in Process /\ proc[Daemon].pc = "run"
           /\ \E cfg \in Settings :
                 proc' = [proc EXCEPT ![Daemon] =
                             [proc[Daemon] EXCEPT !.pc = "save", !.cfg = cfg]]
  <1> DEFINE cfg == [proc[Daemon].cfg EXCEPT !.ver = @ + 1, !.indexer = indexer]
  <1>1. Daemon \in Process /\ proc[Daemon].cfg \in Settings /\ proc[Daemon].pc = "run"
    BY StartupAssumption, FieldTypes DEF ProcOK, SaveConfig
  <1>2. cfg \in Settings
    BY <1>1, SettingsTyped DEF SaveConfig
  <1>3. proc' = [proc EXCEPT ![Daemon] = [proc[Daemon] EXCEPT !.pc = "save", !.cfg = cfg]]
    BY <1>1 DEF SaveConfig, ProcOK, ProcessRecord
  <1> HIDE DEF cfg
  <1> QED BY <1>1, <1>2, <1>3

\* Every step keeps the types.
LEMMA NextTyped == TypeInv /\ [Next]_vars => TypeInv'
  <1> SUFFICES ASSUME TypeInv, [Next]_vars PROVE TypeInv'
    OBVIOUS
  <1> USE DEF Goes, TypeInv
  <1>0. \A p \in Process : AtStatement(proc[p]) /\ proc[p].cfg \in Settings
    BY FieldTypes DEF ProcOK
  <1>1. \A p \in Process :
           proc[p].pc \notin {"off", "load", "refused", "open"} => cols # NULL
    BY DEF Opened
  <1>2. ASSUME NEW p \in Process, Start(p) PROVE TypeInv'
    BY <1>0, <1>2, OffAtStatement, OneMoves DEF Start, FilesOK, Off
  <1>3. ASSUME NEW p \in Process, Load(p) PROVE TypeInv'
    <2> DEFINE pc == IF file = TORN THEN "refused" ELSE "open"
               cfg == IF file \in Settings THEN file ELSE proc[p].cfg
    <2>1. cfg \in Settings
      BY <1>0
    <2>2. proc' = [proc EXCEPT ![p] = [proc[p] EXCEPT !.pc = pc, !.cfg = cfg]]
      BY <1>3 DEF Load
    <2>3. cols' = cols /\ FilesOK'
      BY <1>3 DEF Load, FilesOK
    <2>4. pc \in {"refused", "open"}
      OBVIOUS
    <2> HIDE DEF pc, cfg
    <2> DEFINE r == [proc[p] EXCEPT !.pc = pc, !.cfg = cfg]
    <2>5. r.pc = pc
      BY <1>0, FieldTypes
    <2>6. AtStatement(r)
      BY <1>0, <2>1, <2>4, FieldsAtStatement
    <2>7. proc' = [proc EXCEPT ![p] = r]
      BY <2>2
    <2> HIDE DEF r
    <2> QED BY <2>3, <2>4, <2>5, <2>6, <2>7, OneMoves
  <1>4. ASSUME NEW p \in Process, Open(p) PROVE TypeInv'
    <2>1. FirstColumns \in SUBSET Column
      BY FirstTable, MigrationShape DEF Column
    <2>2. cols' # NULL /\ FilesOK'
      BY <1>4, <2>1, ValueAssumption DEF Open, Created, FilesOK
    <2>3. proc' = [proc EXCEPT ![p] = [proc[p] EXCEPT !.pc = "migrate"]]
      BY <1>4 DEF Open
    <2> QED BY <1>0, <2>2, <2>3, FieldsAtStatement, OneMoves
  <1>19. ASSUME NEW p \in Process, LoadFails(p) PROVE TypeInv'
    <2>1. proc' = [proc EXCEPT ![p] = [proc[p] EXCEPT !.pc = "refused"]] /\ cols' = cols
      BY <1>19 DEF LoadFails
    <2>2. FilesOK'
      BY <1>19, FaultTyped DEF LoadFails, FilesOK
    <2>3. [proc[p] EXCEPT !.pc = "refused"].pc = "refused"
      BY <1>0, FieldTypes
    <2> QED BY <1>0, <2>1, <2>2, <2>3, FieldsAtStatement, OneMoves
  <1>20. ASSUME NEW p \in Process, OpenFails(p) PROVE TypeInv'
    <2>1. FirstColumns \in SUBSET Column
      BY FirstTable, MigrationShape DEF Column
    <2>2. cols # NULL => cols' # NULL
      BY <1>20, <2>1, ValueAssumption DEF OpenFails, Created
    <2>3. cols' \in (SUBSET Column) \cup {NULL}
      BY <1>20, <2>1 DEF OpenFails, Created, FilesOK
    <2>4. FilesOK'
      BY <1>20, <2>3, FaultTyped DEF OpenFails, FilesOK
    <2>5. proc' = [proc EXCEPT ![p] = [proc[p] EXCEPT !.pc = "refused"]]
      BY <1>20 DEF OpenFails
    <2>6. [proc[p] EXCEPT !.pc = "refused"].pc = "refused"
      BY <1>0, FieldTypes
    <2> QED BY <1>0, <2>2, <2>4, <2>5, <2>6, FieldsAtStatement, OneMoves
  <1>5. ASSUME NEW p \in Process, Alter(p) PROVE TypeInv'
    <2>0. cols # NULL
      BY <1>1, <1>5 DEF Alter
    <2>1. CASE Migrations[proc[p].mig][proc[p].stmt] \in cols
      <3> DEFINE r == AfterDuplicate(proc[p])
                 met == r.met \/ \E q \in Process : InMigration(q, proc[p].mig)
      <3>1. AtStatement(r)
        BY <1>0, NextAtStatement DEF AfterDuplicate
      <3>2. met \in BOOLEAN
        BY <3>1, FieldTypes
      <3>3. /\ proc' = [proc EXCEPT ![p] = [r EXCEPT !.met = met]]
            /\ UNCHANGED <<cols, file, manualUp, faults, cut, cutFile, saved, excused>>
        BY <1>5, <2>1 DEF Alter
      <3> HIDE DEF r, met
      <3>4. ProcOK' /\ Opened'
        BY <2>0, <3>1, <3>2, <3>3, FieldsAtStatement, OneMoves
      <3> QED BY <3>3, <3>4 DEF FilesOK
    <2>2. CASE Migrations[proc[p].mig][proc[p].stmt] \notin cols
      <3>1. /\ proc' = [proc EXCEPT ![p] = NextStatement(proc[p])]
            /\ cols' = cols \cup {Migrations[proc[p].mig][proc[p].stmt]}
            /\ UNCHANGED <<file, manualUp, faults, cut, cutFile, saved, excused>>
        BY <1>5, <2>2 DEF Alter
      <3>2. cols \in SUBSET Column /\ cols' \in SUBSET Column
        BY <1>0, <2>0, <3>1, StatementColumn DEF FilesOK
      <3>3. cols' # NULL
        BY <3>2, ValueAssumption
      <3>4. ProcOK' /\ Opened'
        BY <1>0, <3>1, <3>3, NextAtStatement, OneMoves
      <3> QED BY <3>1, <3>2, <3>4 DEF FilesOK
    <2> QED BY <2>1, <2>2
  <1>6. ASSUME NEW p \in Process, AlterRefused(p) PROVE TypeInv'
    <2> DEFINE r == NextMigration(proc[p])
               refused == r.refused \cup {proc[p].mig}
    <2>1. AtStatement(r)
      BY <1>0, NextAtStatement
    <2>2. refused \in SUBSET Migration
      BY <1>0, <2>1, StatementColumn, FieldTypes
    <2>3. proc' = [proc EXCEPT ![p] = [r EXCEPT !.refused = refused]]
      BY <1>6 DEF AlterRefused
    <2>4. cols' = cols /\ cols # NULL
      BY <1>1, <1>6 DEF AlterRefused
    <2> HIDE DEF r, refused
    <2>5. ProcOK' /\ Opened'
      BY <2>1, <2>2, <2>3, <2>4, FieldsAtStatement, OneMoves
    <2> QED BY <1>6, <2>5, FaultTyped DEF AlterRefused, FilesOK
  <1>7. ASSUME NEW p \in Process, Discover(p) PROVE TypeInv'
    <2>1. PICK found \in Settings : \E pc \in {"persist", "rehydrate"} :
             proc' = [proc EXCEPT ![p] = [proc[p] EXCEPT !.pc = pc, !.cfg = found]]
      BY <1>0, <1>7, DiscoverTyped
    <2>2. PICK pc \in {"persist", "rehydrate"} :
             proc' = [proc EXCEPT ![p] = [proc[p] EXCEPT !.pc = pc, !.cfg = found]]
      BY <2>1
    <2>3. cols' = cols /\ cols # NULL /\ FilesOK'
      BY <1>1, <1>7 DEF Discover, FilesOK
    <2> QED BY <1>0, <2>2, <2>3, FieldsAtStatement, OneMoves
  <1>8. ASSUME NEW p \in Process, Truncate(p) PROVE TypeInv'
    BY <1>0, <1>1, <1>8, FieldsAtStatement, OneMoves DEF Truncate, FilesOK
  <1>9. ASSUME NEW p \in Process, WriteBack(p) PROVE TypeInv'
    BY <1>0, <1>1, <1>9, FieldsAtStatement, OneMoves DEF WriteBack, FilesOK
  <1>10. ASSUME NEW p \in Process, WriteFails(p) PROVE TypeInv'
    BY <1>0, <1>1, <1>10, FieldsAtStatement, OneMoves, FaultTyped DEF WriteFails, FilesOK
  <1>11. ASSUME NEW p \in Process, Rehydrate(p) PROVE TypeInv'
    <2> DEFINE found == LoadPendingFromDb(p)
    <2>1. proc' = [proc EXCEPT ![p] = [proc[p] EXCEPT !.pc = "run", !.loaded = found]]
      BY <1>11 DEF Rehydrate
    <2>2. found \in {"no", "yes", "no_indexer"}
      BY DEF LoadPendingFromDb
    <2>3. cols' = cols /\ cols # NULL /\ FilesOK'
      BY <1>1, <1>11 DEF Rehydrate, FilesOK
    <2> HIDE DEF found
    <2> QED BY <1>0, <2>1, <2>2, <2>3, FieldsAtStatement, OneMoves
  <1>12. ASSUME NEW indexer \in Indexer, SaveConfig(indexer) PROVE TypeInv'
    <2>1. PICK cfg \in Settings :
             proc' = [proc EXCEPT ![Daemon] = [proc[Daemon] EXCEPT !.pc = "save", !.cfg = cfg]]
      BY <1>12, SaveTyped
    <2>2. Daemon \in Process /\ cols' = cols /\ cols # NULL /\ FilesOK'
      BY <1>1, <1>12, SaveTyped DEF SaveConfig, FilesOK
    <2> QED BY <1>0, <2>1, <2>2, FieldsAtStatement, OneMoves
  <1>13. ASSUME SaveWrite PROVE TypeInv'
    BY <1>0, <1>1, <1>13, StartupAssumption, FieldsAtStatement, OneMoves
       DEF SaveWrite, FilesOK
  <1>14. ASSUME SaveFails PROVE TypeInv'
    BY <1>0, <1>1, <1>14, StartupAssumption, FieldsAtStatement, OneMoves, FaultTyped
       DEF SaveFails, FilesOK
  <1>15. ASSUME NEW p \in Process, Exit(p) PROVE TypeInv'
    BY <1>15, OffAtStatement, OneMoves DEF Exit, FilesOK, Off
  <1>16. ASSUME NEW p \in Process, Crash(p) PROVE TypeInv'
    BY <1>16, OffAtStatement, OneMoves, FaultTyped DEF Crash, FilesOK, Off
  <1>17. ASSUME ManualToggles PROVE TypeInv'
    BY <1>17 DEF ManualToggles, FilesOK, ProcOK, AtStatement, Opened
  <1>18. CASE UNCHANGED vars
    BY <1>18 DEF vars, FilesOK, ProcOK, AtStatement, Opened
  <1> QED
    BY <1>2, <1>3, <1>4, <1>5, <1>6, <1>7, <1>8, <1>9, <1>10, <1>11, <1>12, <1>13,
       <1>14, <1>15, <1>16, <1>17, <1>18, <1>19, <1>20 DEF Next, StartStep

\* Processes and files are typed throughout, and a start past its first statement
\* has a table.
LEMMA AlwaysTyped == Spec => []TypeInv
  BY InitTyped, NextTyped, PTL DEF Spec

\* The files, the processes and what is known of them have their types in every
\* state the code reaches.
THEOREM AlwaysTypeOK == Spec => []TypeOK
  <1>1. TypeInv => TypeOK
    BY TypeParts DEF TypeInv
  <1> QED BY <1>1, AlwaysTyped, PTL

-----------------------------------------------------------------------------
(* The schema.                                                             *)

PastMigrations == {"discover", "persist", "write", "rehydrate", "run", "save"}

\* A table of an earlier version has some migrations whole and nothing of the
\* others.
LEMMA InitSchema == Init => SchemaInv
  <1> SUFFICES ASSUME Init PROVE SchemaInv
    OBVIOUS
  <1>1. \A p \in Process : proc[p].pc = "off" /\ proc[p].mig = 1 /\ proc[p].stmt = 1
    BY DEF Init, Off
  <1>2. Underway /\ Alone /\ Before /\ PastKnows /\ LoadedKnows
    BY <1>1 DEF Underway, Alone, Before, PastKnows, LoadedKnows, InMigration, Past,
                Serving
  <1>3. \A m \in Migration : cols # NULL => Whole(m) \/ ColumnsOf(m) \cap cols = {}
    <2> SUFFICES ASSUME NEW m \in Migration, cols # NULL
                 PROVE  Whole(m) \/ ColumnsOf(m) \cap cols = {}
      OBVIOUS
    <2>1. PICK k \in 0 .. Len(Migrations) : cols = UNION {ColumnsOf(n) : n \in 1 .. k}
      BY DEF Init
    <2>2. CASE m \in 1 .. k
      BY <2>1, <2>2 DEF Whole
    <2>3. CASE m \notin 1 .. k
      <3>1. \A n \in 1 .. k : n \in Migration /\ n # m
        BY <2>3, MigrationShape
      <3> QED BY <2>1, <3>1, ColumnsDiffer DEF ColumnsOf
    <2> QED BY <2>2, <2>3
  <1>4. \A m \in Migration : Migrations[m][1] \in ColumnsOf(m)
    BY MigrationShape DEF ColumnsOf
  <1>5. InOrder /\ Accounted
    BY <1>3, <1>4 DEF InOrder, Accounted, Whole
  <1> QED BY <1>2, <1>5 DEF SchemaInv

\* A process that moves outside the migrations.
LEMMA MoveKeepsSchema ==
    ASSUME TypeInv, SchemaInv, NEW p \in Process, NEW r, AtStatement(r),
           proc' = [proc EXCEPT ![p] = r], UNCHANGED <<cols, cut>>,
           proc[p].pc # "migrate", r.pc # "migrate",
           r.pc \in {"off", "load", "refused", "open"} => r.mig = 1 /\ r.stmt = 1,
           r.pc \in PastMigrations =>
               /\ proc[p].pc \in PastMigrations
               /\ r.refused = proc[p].refused /\ r.met = proc[p].met,
           r.pc \in {"run", "save"} =>
               r.loaded # "no" \/ r.refused # {} \/ r.met \/ cut # {}
    PROVE  SchemaInv'
  <1>1. proc'[p] = r /\ \A q \in Process : q # p => proc'[q] = proc[q]
    BY DEF TypeInv, ProcOK
  <1>2. \A q \in Process, m \in Migration : InMigration(q, m)' <=> InMigration(q, m)
    BY <1>1 DEF InMigration
  <1>3. \A m \in Migration : Whole(m)' <=> Whole(m)
    BY DEF Whole
  <1>4. InOrder'
    BY DEF SchemaInv, InOrder
  <1>5. Underway'
    BY <1>1, <1>2 DEF SchemaInv, Underway, InMigration
  <1>6. Alone'
    BY <1>2 DEF SchemaInv, Alone
  <1>7. Accounted'
    BY <1>2, <1>3 DEF SchemaInv, Accounted
  <1>8. Before'
    BY <1>1 DEF SchemaInv, Before
  <1>9. PastKnows'
    <2>1. ASSUME NEW q \in Process, NEW m \in Migration, Past(q, m)'
          PROVE  /\ Past(q, m)
                 /\ proc'[q].refused = proc[q].refused /\ proc'[q].met = proc[q].met
      BY <1>1, <2>1 DEF Past, PastMigrations
    <2> QED BY <1>2, <1>3, <2>1 DEF SchemaInv, PastKnows
  <1>10. LoadedKnows'
    BY <1>1 DEF SchemaInv, LoadedKnows, Serving
  <1> QED BY <1>4, <1>5, <1>6, <1>7, <1>8, <1>9, <1>10 DEF SchemaInv

\* The first table has the columns of the first two migrations, and none of the
\* others; a process that fails to open the database has created it or not.
LEMMA OpenKeepsSchema ==
    ASSUME TypeInv, SchemaInv, NEW p \in Process, Open(p) \/ OpenFails(p)
    PROVE  SchemaInv'
  <1>0. /\ proc[p].pc = "open" /\ cols' \in {cols, Created} /\ UNCHANGED cut
        /\ \E pc \in {"migrate", "refused"} :
              proc' = [proc EXCEPT ![p] = [proc[p] EXCEPT !.pc = pc]]
        /\ proc \in [Process -> ProcessRecord]
    BY DEF Open, OpenFails, Goes, TypeInv, ProcOK
  <1>1. /\ \A q \in Process : q # p => proc'[q] = proc[q]
        /\ proc'[p].pc \in {"migrate", "refused"}
        /\ proc'[p].mig = 1 /\ proc'[p].stmt = 1
    BY <1>0 DEF SchemaInv, Before, ProcessRecord
  <1>2. \A q \in Process, m \in Migration : InMigration(q, m)' <=> InMigration(q, m)
    BY <1>0, <1>1 DEF InMigration
  <1>3. \A q \in Process, m \in Migration : Past(q, m)' => q # p /\ Past(q, m)
    <2>1. \A m \in Migration : ~ 1 > m
      BY MigrationShape
    <2> QED BY <1>1, <2>1 DEF Past
  <1>4. \A q \in Process, m \in Migration :
           InMigration(q, m) \/ Past(q, m) => cols # NULL
    BY DEF InMigration, Past, TypeInv, Opened
  <1>5. UNCHANGED cut
    BY <1>0
  <1>6. cols = NULL /\ cols' # NULL => \A m \in Migration :
           ColumnsOf(m) \subseteq cols' \/ ColumnsOf(m) \cap cols' = {}
    <2> SUFFICES ASSUME cols = NULL, cols' # NULL, NEW m \in Migration
                 PROVE  ColumnsOf(m) \subseteq cols' \/ ColumnsOf(m) \cap cols' = {}
      OBVIOUS
    <2>1. cols' = ColumnsOf(1) \cup ColumnsOf(2)
      BY <1>0, FirstTable DEF Created
    <2>2. m # 1 /\ m # 2 => ColumnsOf(m) \cap cols' = {}
      <3>1. 1 \in Migration /\ 2 \in Migration
        BY MigrationShape
      <3> QED BY <2>1, <3>1, ColumnsDiffer DEF ColumnsOf
    <2> QED BY <2>1, <2>2
  <1>7. \A m \in Migration : Migrations[m][1] \in ColumnsOf(m)
    BY MigrationShape DEF ColumnsOf
  <1>8. cols # NULL => cols' = cols
    BY <1>0 DEF Created
  <1>9. InOrder' /\ Accounted'
    BY <1>2, <1>5, <1>6, <1>7, <1>8 DEF SchemaInv, InOrder, Accounted, Whole
  <1>10. Underway' /\ Alone'
    BY <1>1, <1>2, <1>4, <1>8 DEF SchemaInv, Underway, Alone, InMigration
  <1>11. PastKnows'
    BY <1>1, <1>2, <1>3, <1>4, <1>5, <1>8 DEF SchemaInv, PastKnows, Whole
  <1>12. Before' /\ LoadedKnows'
    BY <1>1, <1>5 DEF SchemaInv, Before, LoadedKnows, Serving
  <1> QED BY <1>9, <1>10, <1>11, <1>12 DEF SchemaInv

\* What a process is when it goes on to the next migration.
LEMMA NextMigrationIs ==
    ASSUME NEW r, AtStatement(r), r.pc = "migrate"
    PROVE  LET n == NextMigration(r) IN
           /\ n.stmt = 1 /\ n.refused = r.refused /\ n.met = r.met
           /\ \/ n.pc = "discover" /\ r.mig = 4
              \/ n.pc = "migrate" /\ n.mig = r.mig + 1
  BY MigrationShape DEF NextMigration, AtStatement, ProcessRecord

\* A process that goes on to the next migration, having added no column: it is
\* past its own now, and knows of it what it must.
LEMMA LeaveKeepsSchema ==
    ASSUME TypeInv, SchemaInv, NEW p \in Process, NEW r,
           proc[p].pc = "migrate",
           proc' = [proc EXCEPT ![p] = r], UNCHANGED cols,
           r.pc = NextMigration(proc[p]).pc, r.mig = NextMigration(proc[p]).mig,
           r.stmt = 1,
           proc[p].refused \subseteq r.refused, proc[p].met => r.met,
           cut' = cut \cup {m \in Migration : InMigration(p, m)},
           \/ Whole(proc[p].mig) \/ proc[p].mig \in r.refused \cup cut
           \/ r.met /\ \E q \in Process : InMigration(q, proc[p].mig) /\ q # p
    PROVE  SchemaInv'
  <1> DEFINE M == proc[p].mig
  <1>0. proc'[p] = r /\ \A q \in Process : q # p => proc'[q] = proc[q]
    BY DEF TypeInv, ProcOK
  <1>1. AtStatement(proc[p]) /\ M \in Migration
    BY StatementColumn DEF TypeInv, ProcOK
  <1>2. \/ r.pc = "discover" /\ M = 4
        \/ r.pc = "migrate" /\ r.mig = M + 1
    BY <1>1, NextMigrationIs
  <1>3. \A m \in Migration : InMigration(p, m)' = FALSE
    BY <1>0 DEF InMigration
  <1>4. \A q \in Process, m \in Migration :
           q # p => (InMigration(q, m)' <=> InMigration(q, m))
    BY <1>0 DEF InMigration
  <1>5. \A m \in Migration : InMigration(p, m) => m \in cut'
    OBVIOUS
  <1>6. \A m \in Migration : Whole(m)' <=> Whole(m)
    BY DEF Whole
  <1>7. cut \subseteq cut'
    OBVIOUS
  <1>8. InOrder'
    BY DEF SchemaInv, InOrder
  <1>9. Underway'
    BY <1>0, <1>3, <1>4 DEF SchemaInv, Underway
  <1>10. Alone'
    BY <1>3, <1>4 DEF SchemaInv, Alone
  <1>11. Accounted'
    BY <1>4, <1>5, <1>6, <1>7 DEF SchemaInv, Accounted
  <1>12. Before'
    BY <1>0, <1>2 DEF SchemaInv, Before
  <1>13. \A m \in Migration : Past(p, m)' => m = M \/ Past(p, m)
    BY <1>0, <1>1, <1>2, MigrationShape DEF Past
  <1>14. PastKnows'
    <2>1. ASSUME NEW m \in Migration, Past(p, m)'
          PROVE  \/ Whole(m)'
                 \/ m \in r.refused \cup cut'
                 \/ r.met /\ \E q \in Process : InMigration(q, m)'
      <3>1. CASE m = M
        BY <1>4, <1>6, <1>7, <3>1
      <3>2. CASE m # M
        <4>1. Past(p, m)
          BY <1>13, <2>1, <3>2
        <4>2. \/ Whole(m)
              \/ m \in proc[p].refused \cup cut
              \/ proc[p].met /\ \E q \in Process : InMigration(q, m)
          BY <4>1 DEF SchemaInv, PastKnows
        <4> QED BY <1>4, <1>5, <1>6, <1>7, <4>2
      <3> QED BY <3>1, <3>2
    <2>2. ASSUME NEW q \in Process, q # p, NEW m \in Migration, Past(q, m)'
          PROVE  \/ Whole(m)'
                 \/ m \in proc'[q].refused \cup cut'
                 \/ proc'[q].met /\ \E q1 \in Process : InMigration(q1, m)'
      <3>1. Past(q, m) /\ proc'[q] = proc[q]
        BY <1>0, <2>2 DEF Past
      <3>2. \/ Whole(m)
            \/ m \in proc[q].refused \cup cut
            \/ proc[q].met /\ \E q1 \in Process : InMigration(q1, m)
        BY <3>1 DEF SchemaInv, PastKnows
      <3> QED BY <1>4, <1>5, <1>6, <1>7, <3>1, <3>2
    <2> QED BY <1>0, <2>1, <2>2 DEF PastKnows
  <1>15. LoadedKnows'
    BY <1>0, <1>2, <1>7 DEF SchemaInv, LoadedKnows, Serving
  <1> QED BY <1>8, <1>9, <1>10, <1>11, <1>12, <1>14, <1>15 DEF SchemaInv

\* A duplicate column: the migration is whole, was cut short, or the process
\* meets the one that is in the middle of it.
LEMMA DuplicateKeepsSchema ==
    ASSUME TypeInv, SchemaInv, NEW p \in Process, Alter(p),
           Migrations[proc[p].mig][proc[p].stmt] \in cols
    PROVE  SchemaInv'
  <1> DEFINE M == proc[p].mig
             n == AfterDuplicate(proc[p])
             met == n.met \/ \E q \in Process : InMigration(q, M)
             r == [n EXCEPT !.met = met]
  <1>1. /\ AtStatement(proc[p]) /\ M \in Migration /\ cols # NULL
        /\ proc[p].pc = "migrate"
    BY StatementColumn DEF TypeInv, ProcOK, Alter, Opened
  <1>2. proc' = [proc EXCEPT ![p] = r] /\ UNCHANGED <<cols, cut>>
    BY DEF Alter
  <1>3. n.stmt = 1 /\ n.refused = proc[p].refused /\ n.met = proc[p].met
    BY <1>1, NextMigrationIs DEF AfterDuplicate
  <1>4. AtStatement(n) /\ n \in ProcessRecord
    BY <1>1, NextAtStatement DEF AfterDuplicate, AtStatement
  <1>5. met \in BOOLEAN
    BY <1>4, FieldTypes
  <1>6. /\ r.pc = n.pc /\ r.mig = n.mig /\ r.stmt = n.stmt
        /\ r.refused = n.refused /\ r.met = met
    BY <1>4 DEF ProcessRecord
  <1>7. \A m \in Migration : ~InMigration(p, m)
    <2> SUFFICES ASSUME InMigration(p, M) PROVE FALSE
      BY DEF InMigration
    <2>1. proc[p].stmt \in DOMAIN Migrations[M]
      BY <1>1 DEF AtStatement
    <2>2. proc[p].stmt < proc[p].stmt
      BY <1>1, <2>1 DEF SchemaInv, Underway
    <2>3. proc[p].stmt \in Nat
      BY <1>1 DEF AtStatement, ProcessRecord
    <2> QED BY <2>2, <2>3
  <1>8. proc[p].stmt = 1
    <2>1. proc[p].stmt \in 1 .. Len(Migrations[M]) /\ Len(Migrations[M]) \in Nat
      BY <1>1, MigrationShape DEF AtStatement
    <2>2. ~ proc[p].stmt > 1
      BY <1>1, <1>7 DEF InMigration
    <2> QED BY <2>1, <2>2
  <1>9. \/ Whole(M) \/ M \in cut
        \/ \E q \in Process : InMigration(q, M) /\ q # p
    BY <1>1, <1>7, <1>8 DEF SchemaInv, Accounted
  <1>10. cut' = cut \cup {m \in Migration : InMigration(p, m)}
    BY <1>2, <1>7
  <1>11. n = NextMigration(proc[p])
    BY DEF AfterDuplicate
  <1>12. proc[p].met => met
    BY <1>3
  <1>13. (\E q \in Process : InMigration(q, M) /\ q # p) => met
    OBVIOUS
  <1> HIDE DEF n, met, r
  <1>14. /\ r.pc = NextMigration(proc[p]).pc /\ r.mig = NextMigration(proc[p]).mig
         /\ r.stmt = 1 /\ proc[p].refused \subseteq r.refused
         /\ proc[p].met => r.met
    BY <1>3, <1>6, <1>11, <1>12
  <1>15. \/ Whole(M) \/ M \in r.refused \cup cut
         \/ r.met /\ \E q \in Process : InMigration(q, M) /\ q # p
    BY <1>6, <1>9, <1>13
  <1> QED BY <1>1, <1>2, <1>10, <1>14, <1>15, LeaveKeepsSchema

\* Another error: the process knows that it was kept from the migration.
LEMMA RefusedKeepsSchema ==
    ASSUME TypeInv, SchemaInv, NEW p \in Process, AlterRefused(p)
    PROVE  SchemaInv'
  <1> DEFINE n == NextMigration(proc[p])
             r == [n EXCEPT !.refused = @ \cup {proc[p].mig}]
  <1>1. AtStatement(proc[p]) /\ proc[p].pc = "migrate"
    BY DEF TypeInv, ProcOK, AlterRefused
  <1>2. n.stmt = 1 /\ n.refused = proc[p].refused /\ n.met = proc[p].met
    BY <1>1, NextMigrationIs
  <1>3. n \in ProcessRecord
    BY <1>1, NextAtStatement DEF AtStatement
  <1>4. /\ r.pc = n.pc /\ r.mig = n.mig /\ r.stmt = n.stmt /\ r.met = n.met
        /\ r.refused = n.refused \cup {proc[p].mig}
    BY <1>3 DEF ProcessRecord
  <1>5. /\ proc' = [proc EXCEPT ![p] = r] /\ UNCHANGED cols
        /\ cut' = cut \cup {m \in Migration : InMigration(p, m)}
    BY DEF AlterRefused
  <1> HIDE DEF r
  <1> QED BY <1>1, <1>2, <1>4, <1>5, LeaveKeepsSchema

\* A column is added: the process alone is in its migration, and has added what
\* comes before.
LEMMA AddKeepsSchema ==
    ASSUME TypeInv, SchemaInv, NEW p \in Process, Alter(p),
           Migrations[proc[p].mig][proc[p].stmt] \notin cols
    PROVE  SchemaInv'
  <1>0. PICK M \in Migration : M = proc[p].mig
    BY StatementColumn DEF TypeInv, ProcOK
  <1> DEFINE s == proc[p].stmt
             c == Migrations[M][s]
             r == NextStatement(proc[p])
  <1>1. /\ AtStatement(proc[p]) /\ M = proc[p].mig /\ M \in Migration
        /\ cols # NULL /\ proc[p].pc = "migrate"
    BY <1>0 DEF TypeInv, ProcOK, Alter, Opened
  <1>2. /\ proc' = [proc EXCEPT ![p] = r] /\ cols' = cols \cup {c}
        /\ UNCHANGED cut
    BY <1>0 DEF Alter
  <1>3. proc'[p] = r /\ \A q \in Process : q # p => proc'[q] = proc[q]
    BY <1>2 DEF TypeInv, ProcOK
  <1>4. /\ Len(Migrations[M]) \in Nat /\ DOMAIN Migrations[M] = 1 .. Len(Migrations[M])
        /\ s \in 1 .. Len(Migrations[M])
    BY <1>1, MigrationShape DEF AtStatement
  <1>5. \A i \in DOMAIN Migrations[M] : Migrations[M][i] \in cols <=> i < s
    <2>1. CASE s > 1
      BY <1>1, <2>1 DEF SchemaInv, Underway, InMigration
    <2>2. CASE ~ s > 1
      <3>1. s = 1
        BY <1>4, <2>2
      <3>2. ColumnsOf(M) \cap cols = {}
        BY <1>1, <3>1 DEF SchemaInv, InOrder
      <3>3. \A i \in DOMAIN Migrations[M] : Migrations[M][i] \notin cols
        BY <3>2 DEF ColumnsOf
      <3> QED BY <1>4, <3>1, <3>3
    <2> QED BY <2>1, <2>2
  <1>6. \A i \in DOMAIN Migrations[M] : Migrations[M][i] \in cols' <=> i < s + 1
    <2>1. \A i \in DOMAIN Migrations[M] : Migrations[M][i] = c => i = s
      BY <1>1, <1>4, ColumnsDiffer
    <2> HIDE DEF c
    <2>2. \A i \in DOMAIN Migrations[M] :
             Migrations[M][i] \in cols' <=> i < s \/ Migrations[M][i] = c
      BY <1>2, <1>5
    <2>3. \A i \in DOMAIN Migrations[M] : i = s => Migrations[M][i] = c
      BY DEF c
    <2>4. \A i \in 1 .. Len(Migrations[M]) : i < s + 1 <=> i < s \/ i = s
      BY <1>4
    <2> QED BY <1>4, <2>1, <2>2, <2>3, <2>4
  <1>7. \A m \in Migration : m # M => \A i \in DOMAIN Migrations[m] :
           Migrations[m][i] \in cols' <=> Migrations[m][i] \in cols
    BY <1>1, <1>2, <1>4, ColumnsDiffer
  <1>8. \A q \in Process : InMigration(q, M) => q = p
    <2> SUFFICES ASSUME NEW q \in Process, InMigration(q, M) PROVE q = p
      OBVIOUS
    <2>1. 1 \in DOMAIN Migrations[M] /\ 1 < proc[q].stmt
      BY <1>4 DEF InMigration
    <2>2. Migrations[M][1] \in cols
      BY <1>1, <2>1 DEF SchemaInv, Underway
    <2>3. InMigration(p, M)
      BY <1>1, <1>5, <2>1, <2>2 DEF InMigration
    <2> QED BY <1>1, <2>3 DEF SchemaInv, Alone
  <1>9. \A m \in Migration : Whole(m) => Whole(m)'
    BY <1>2 DEF Whole
  <1>10. \A q \in Process, m \in Migration :
            q # p => (InMigration(q, m)' <=> InMigration(q, m))
    BY <1>3 DEF InMigration
  <1>11. \A m \in Migration : m # M => ~InMigration(p, m)
    BY <1>0 DEF InMigration
  <1>12. \A m \in Migration : 1 \in DOMAIN Migrations[m]
    BY MigrationShape
  \* either the process is in the middle of its migration, or that is whole
  <1>13. \/ /\ s # Len(Migrations[M])
            /\ r.pc = "migrate" /\ r.mig = M /\ r.stmt = s + 1
            /\ r.refused = proc[p].refused /\ r.met = proc[p].met
         \/ /\ Whole(M)'
            /\ r.stmt = 1
            /\ r.refused = proc[p].refused /\ r.met = proc[p].met
            /\ \/ r.pc = "discover" /\ M = 4
               \/ r.pc = "migrate" /\ r.mig = M + 1
    <2>1. CASE s = Len(Migrations[M])
      <3>1. r = NextMigration(proc[p])
        BY <1>0, <2>1 DEF NextStatement
      <3>2. \A i \in DOMAIN Migrations[M] : Migrations[M][i] \in cols'
        BY <1>4, <1>6, <2>1
      <3>3. Whole(M)'
        BY <3>2 DEF Whole, ColumnsOf
      <3> QED BY <1>1, <3>1, <3>3, NextMigrationIs
    <2>2. CASE s # Len(Migrations[M])
      <3>1. r = [proc[p] EXCEPT !.stmt = s + 1]
        BY <1>0, <2>2 DEF NextStatement
      <3> QED BY <1>1, <2>2, <3>1 DEF AtStatement, ProcessRecord
    <2> QED BY <2>1, <2>2
  <1> HIDE DEF r
  <1>14. InOrder'
    <2> SUFFICES ASSUME NEW m \in Migration, Migrations[m][1] \notin cols'
                 PROVE  ColumnsOf(m) \cap cols' = {}
      BY DEF InOrder
    <2>1. Migrations[M][1] \in cols'
      BY <1>1, <1>4, <1>6, <1>12
    <2>2. m # M /\ Migrations[m][1] \notin cols
      BY <1>2, <2>1
    <2>3. ColumnsOf(m) \cap cols = {}
      BY <1>1, <2>2 DEF SchemaInv, InOrder
    <2> QED BY <1>7, <2>2, <2>3 DEF ColumnsOf
  <1>15. \A m \in Migration : InMigration(p, m)' =>
            m = M /\ r.stmt = s + 1 /\ s # Len(Migrations[M])
    BY <1>3, <1>13 DEF InMigration
  <1>16. Underway'
    <2> SUFFICES ASSUME NEW q \in Process, NEW m \in Migration, InMigration(q, m)',
                        NEW i \in DOMAIN Migrations[m]
                 PROVE  Migrations[m][i] \in cols' <=> i < proc'[q].stmt
      BY DEF Underway
    <2>1. CASE q = p
      BY <1>3, <1>6, <1>15, <2>1
    <2>2. CASE q # p
      <3>1. InMigration(q, m) /\ m # M /\ proc'[q] = proc[q]
        BY <1>3, <1>8, <1>10, <2>2
      <3> QED BY <1>7, <3>1 DEF SchemaInv, Underway
    <2> QED BY <2>1, <2>2
  <1>17. Alone'
    BY <1>8, <1>10, <1>15 DEF SchemaInv, Alone
  <1>18. (\E q \in Process : InMigration(q, M)') \/ Whole(M)'
    <2>1. CASE r.pc = "migrate" /\ r.mig = M /\ r.stmt = s + 1
      <3>1. s + 1 > 1
        BY <1>4
      <3> QED BY <1>3, <2>1, <3>1 DEF InMigration
    <2> QED BY <1>13, <2>1
  <1>19. \A m \in Migration : (\E q \in Process : InMigration(q, m)) =>
            Whole(m)' \/ \E q \in Process : InMigration(q, m)'
    BY <1>10, <1>11, <1>18
  <1>20. Accounted'
    BY <1>2, <1>1, <1>7, <1>9, <1>12, <1>18, <1>19 DEF SchemaInv, Accounted
  <1>21. Before'
    BY <1>3, <1>13 DEF SchemaInv, Before
  <1>22. \A q \in Process, m \in Migration : Past(q, m)' =>
            \/ Past(q, m) /\ proc'[q].refused = proc[q].refused
                          /\ proc'[q].met = proc[q].met
            \/ Whole(m)'
    <2> SUFFICES ASSUME NEW m \in Migration, Past(p, m)', ~Whole(m)'
                 PROVE  /\ Past(p, m) /\ r.refused = proc[p].refused
                        /\ r.met = proc[p].met
      BY <1>3 DEF Past
    <2>0. Whole(M)' => m # M
      OBVIOUS
    <2>1. \/ r.pc = "migrate" /\ r.mig = M
          \/ /\ m # M
             /\ \/ r.pc = "discover" /\ M = 4
                \/ r.pc = "migrate" /\ r.mig = M + 1
      BY <1>13, <2>0
    <2>2. M > m
      BY <1>1, <1>3, <2>1, MigrationShape DEF Past
    <2> QED BY <1>1, <1>13, <2>2 DEF Past
  <1>23. PastKnows'
    BY <1>2, <1>9, <1>19, <1>22 DEF SchemaInv, PastKnows
  <1>24. LoadedKnows'
    BY <1>2, <1>3, <1>13 DEF SchemaInv, LoadedKnows, Serving
  <1> QED BY <1>14, <1>16, <1>17, <1>20, <1>21, <1>23, <1>24 DEF SchemaInv

\* A crash: a migration in its middle is cut short.
LEMMA CrashKeepsSchema ==
    ASSUME TypeInv, SchemaInv, NEW p \in Process, Crash(p)
    PROVE  SchemaInv'
  <1>1. /\ proc'[p] = Off /\ \A q \in Process : q # p => proc'[q] = proc[q]
        /\ cols' = cols /\ cut' = cut \cup {m \in Migration : InMigration(p, m)}
    BY DEF Crash, TypeInv, ProcOK
  <1>2. Off.pc = "off" /\ Off.mig = 1 /\ Off.stmt = 1
    BY DEF Off
  <1>3. \A m \in Migration : InMigration(p, m)' = FALSE /\ Past(p, m)' = FALSE
    BY <1>1, <1>2 DEF InMigration, Past
  <1>4. \A q \in Process, m \in Migration : q # p =>
           (InMigration(q, m)' <=> InMigration(q, m)) /\ (Past(q, m)' <=> Past(q, m))
    BY <1>1 DEF InMigration, Past
  <1>5. \A m \in Migration : InMigration(p, m) => m \in cut'
    BY <1>1
  <1>6. \A m \in Migration : Whole(m)' <=> Whole(m)
    BY <1>1 DEF Whole
  <1>7. InOrder'
    BY <1>1 DEF SchemaInv, InOrder
  <1>8. Underway'
    BY <1>1, <1>3, <1>4 DEF SchemaInv, Underway
  <1>9. Alone'
    BY <1>3, <1>4 DEF SchemaInv, Alone
  <1>10. Accounted'
    BY <1>1, <1>4, <1>5, <1>6 DEF SchemaInv, Accounted
  <1>11. Before'
    BY <1>1, <1>2 DEF SchemaInv, Before
  <1>12. PastKnows'
    BY <1>1, <1>3, <1>4, <1>5, <1>6 DEF SchemaInv, PastKnows
  <1>13. LoadedKnows'
    BY <1>1, <1>2 DEF SchemaInv, LoadedKnows, Serving
  <1> QED BY <1>7, <1>8, <1>9, <1>10, <1>11, <1>12, <1>13 DEF SchemaInv

\* Every step keeps the schema accounted for.
LEMMA NextSchema == TypeInv /\ SchemaInv /\ [Next]_vars => SchemaInv'
  <1> SUFFICES ASSUME TypeInv, SchemaInv, [Next]_vars PROVE SchemaInv'
    OBVIOUS
  <1> USE DEF Goes
  <1>0. \A p \in Process : AtStatement(proc[p]) /\ proc[p] \in ProcessRecord
    BY DEF TypeInv, ProcOK, AtStatement
  <1>1. ASSUME NEW p \in Process, NEW pc \in {"refused", "open"} \cup PastMigrations,
               NEW cfg \in Settings, UNCHANGED <<cols, cut>>,
               proc' = [proc EXCEPT ![p] = [proc[p] EXCEPT !.pc = pc, !.cfg = cfg]],
               \/ proc[p].pc \in {"load", "open"} /\ pc \in {"refused", "open"}
               \/ /\ proc[p].pc \in PastMigrations /\ pc \in PastMigrations
                  /\ pc \in {"run", "save"} => proc[p].pc \in {"run", "save"}
        PROVE  SchemaInv'
    <2> DEFINE r == [proc[p] EXCEPT !.pc = pc, !.cfg = cfg]
    <2>1. AtStatement(r)
      BY <1>0, FieldsAtStatement DEF PastMigrations
    <2>2. /\ r.pc = pc /\ r.mig = proc[p].mig /\ r.stmt = proc[p].stmt
          /\ r.refused = proc[p].refused /\ r.met = proc[p].met
          /\ r.loaded = proc[p].loaded
      BY <1>0 DEF ProcessRecord
    <2>3. proc' = [proc EXCEPT ![p] = r]
      BY <1>1
    <2> HIDE DEF r
    <2>4. r.pc \in {"off", "load", "refused", "open"} => r.mig = 1 /\ r.stmt = 1
      BY <1>1, <2>2 DEF SchemaInv, Before, PastMigrations
    <2>5. r.pc \in {"run", "save"} =>
             r.loaded # "no" \/ r.refused # {} \/ r.met \/ cut # {}
      BY <1>1, <2>2 DEF SchemaInv, LoadedKnows, Serving
    <2>6. proc[p].pc # "migrate" /\ r.pc # "migrate"
      BY <1>1, <2>2 DEF PastMigrations
    <2> QED BY <1>1, <2>1, <2>2, <2>3, <2>4, <2>5, <2>6, MoveKeepsSchema
               DEF PastMigrations
  <1>2. \A p \in Process : \A pc :
           [proc[p] EXCEPT !.pc = pc] = [proc[p] EXCEPT !.pc = pc, !.cfg = proc[p].cfg]
    BY <1>0 DEF ProcessRecord
  <1>3. \A p \in Process : proc[p].cfg \in Settings
    BY <1>0, FieldTypes
  <1>20. ASSUME NEW p \in Process, NEW pc \in PastMigrations,
                proc[p].pc \in PastMigrations,
                pc \in {"run", "save"} => proc[p].pc \in {"run", "save"},
                Goes(p, pc), UNCHANGED <<cols, cut>>
         PROVE  SchemaInv'
    <2>1. proc' = [proc EXCEPT ![p] = [proc[p] EXCEPT !.pc = pc, !.cfg = proc[p].cfg]]
      BY <1>2, <1>20
    <2>2. PICK cfg \in Settings : cfg = proc[p].cfg
      BY <1>3
    <2>3. proc' = [proc EXCEPT ![p] = [proc[p] EXCEPT !.pc = pc, !.cfg = cfg]]
      BY <2>1, <2>2
    <2>4. pc \in {"refused", "open"} \cup PastMigrations
      OBVIOUS
    <2>5. /\ proc[p].pc \in PastMigrations /\ pc \in PastMigrations
          /\ pc \in {"run", "save"} => proc[p].pc \in {"run", "save"}
      BY <1>20
    <2>6. UNCHANGED <<cols, cut>>
      BY <1>20
    <2> QED BY <1>1, <2>3, <2>4, <2>5, <2>6
  <1>4. ASSUME NEW p \in Process, Start(p) PROVE SchemaInv'
    <2>1. LET r == [Off EXCEPT !.pc = "load"] IN
             r.pc = "load" /\ r.mig = 1 /\ r.stmt = 1
      BY DEF Off
    <2> QED BY <1>4, <2>1, OffAtStatement, MoveKeepsSchema DEF Start, PastMigrations
  <1>5. ASSUME NEW p \in Process, Load(p) PROVE SchemaInv'
    <2> DEFINE pc == IF file = TORN THEN "refused" ELSE "open"
               cfg == IF file \in Settings THEN file ELSE proc[p].cfg
    <2>1. cfg \in Settings /\ pc \in {"refused", "open"}
      BY <1>3
    <2>2. /\ proc' = [proc EXCEPT ![p] = [proc[p] EXCEPT !.pc = pc, !.cfg = cfg]]
          /\ proc[p].pc = "load" /\ UNCHANGED <<cols, cut>>
      BY <1>5 DEF Load
    <2> HIDE DEF pc, cfg
    <2> QED BY <1>1, <2>1, <2>2
  <1>6. ASSUME NEW p \in Process, Open(p) \/ OpenFails(p) PROVE SchemaInv'
    BY <1>6, OpenKeepsSchema
  <1>21. ASSUME NEW p \in Process, LoadFails(p) PROVE SchemaInv'
    <2>1. proc' = [proc EXCEPT ![p] = [proc[p] EXCEPT !.pc = "refused", !.cfg = proc[p].cfg]]
      BY <1>2, <1>21 DEF LoadFails
    <2>2. PICK cfg \in Settings : cfg = proc[p].cfg
      BY <1>3
    <2>3. proc' = [proc EXCEPT ![p] = [proc[p] EXCEPT !.pc = "refused", !.cfg = cfg]]
      BY <2>1, <2>2
    <2>4. proc[p].pc = "load" /\ UNCHANGED <<cols, cut>>
      BY <1>21 DEF LoadFails
    <2> QED BY <1>1, <2>3, <2>4
  <1>7. ASSUME NEW p \in Process, Alter(p) PROVE SchemaInv'
    BY <1>7, DuplicateKeepsSchema, AddKeepsSchema
  <1>8. ASSUME NEW p \in Process, AlterRefused(p) PROVE SchemaInv'
    BY <1>8, RefusedKeepsSchema
  <1>9. ASSUME NEW p \in Process, Discover(p) PROVE SchemaInv'
    <2>1. PICK found \in Settings : \E pc \in {"persist", "rehydrate"} :
             proc' = [proc EXCEPT ![p] = [proc[p] EXCEPT !.pc = pc, !.cfg = found]]
      BY <1>0, <1>9, DiscoverTyped
    <2>2. PICK pc \in {"persist", "rehydrate"} :
             proc' = [proc EXCEPT ![p] = [proc[p] EXCEPT !.pc = pc, !.cfg = found]]
      BY <2>1
    <2>3. proc[p].pc = "discover" /\ UNCHANGED <<cols, cut>>
      BY <1>9 DEF Discover
    <2> QED BY <1>1, <2>2, <2>3 DEF PastMigrations
  <1>10. ASSUME NEW p \in Process, Truncate(p) PROVE SchemaInv'
    BY <1>20, <1>10 DEF Truncate, PastMigrations
  <1>11. ASSUME NEW p \in Process, WriteBack(p) PROVE SchemaInv'
    BY <1>20, <1>11 DEF WriteBack, PastMigrations
  <1>12. ASSUME NEW p \in Process, WriteFails(p) PROVE SchemaInv'
    BY <1>20, <1>12 DEF WriteFails, PastMigrations
  <1>13. ASSUME NEW p \in Process, Rehydrate(p) PROVE SchemaInv'
    <2> DEFINE found == LoadPendingFromDb(p)
               r == [proc[p] EXCEPT !.pc = "run", !.loaded = found]
    <2>1. /\ proc' = [proc EXCEPT ![p] = r] /\ UNCHANGED <<cols, cut>>
          /\ proc[p].pc = "rehydrate"
      BY <1>13 DEF Rehydrate
    <2>2. found \in {"no", "yes", "no_indexer"}
      BY DEF LoadPendingFromDb
    <2>3. found = "no" => \/ proc[p].refused # {} \/ proc[p].met \/ cut # {}
      <3> SUFFICES ASSUME found = "no"
                   PROVE  proc[p].refused # {} \/ proc[p].met \/ cut # {}
        OBVIOUS
      <3>1. ~ Column \subseteq cols
        BY DEF LoadPendingFromDb, BROADCAST_SELECT
      <3>2. PICK m \in Migration : ~Whole(m)
        BY <3>1 DEF Column, Whole
      <3>3. Past(p, m)
        BY <2>1 DEF Past
      <3> QED BY <3>2, <3>3 DEF SchemaInv, PastKnows
    <2> HIDE DEF found
    <2>4. AtStatement(r)
      BY <1>0, <2>2, FieldsAtStatement
    <2>5. /\ r.pc = "run" /\ r.refused = proc[p].refused /\ r.met = proc[p].met
          /\ r.loaded = found
      BY <1>0 DEF ProcessRecord
    <2> HIDE DEF r
    <2> QED BY <2>1, <2>3, <2>4, <2>5, MoveKeepsSchema DEF PastMigrations
  <1>14. ASSUME NEW indexer \in Indexer, SaveConfig(indexer) PROVE SchemaInv'
    <2>1. PICK cfg \in Settings :
             proc' = [proc EXCEPT ![Daemon] = [proc[Daemon] EXCEPT !.pc = "save", !.cfg = cfg]]
      BY <1>14, SaveTyped DEF TypeInv
    <2>2. /\ Daemon \in Process /\ proc[Daemon].pc = "run"
          /\ UNCHANGED <<cols, cut>>
      BY <1>14, SaveTyped DEF TypeInv, SaveConfig
    <2> QED BY <1>1, <2>1, <2>2 DEF PastMigrations
  <1>15. ASSUME SaveWrite PROVE SchemaInv'
    BY <1>20, <1>15, StartupAssumption DEF SaveWrite, PastMigrations
  <1>16. ASSUME SaveFails PROVE SchemaInv'
    BY <1>20, <1>16, StartupAssumption DEF SaveFails, PastMigrations
  <1>17. ASSUME NEW p \in Process, Exit(p) PROVE SchemaInv'
    <2>1. Off.pc = "off" /\ Off.mig = 1 /\ Off.stmt = 1
      BY DEF Off
    <2> QED BY <1>17, <2>1, OffAtStatement, MoveKeepsSchema DEF Exit, PastMigrations
  <1>18. ASSUME NEW p \in Process, Crash(p) PROVE SchemaInv'
    BY <1>18, CrashKeepsSchema
  <1>19. CASE UNCHANGED <<proc, cols, cut>>
    BY <1>19 DEF SchemaInv, InOrder, Underway, Alone, Accounted, Before, PastKnows,
                 LoadedKnows, Whole, Past, InMigration, Serving
  <1> QED
    BY <1>4, <1>5, <1>6, <1>7, <1>8, <1>9, <1>10, <1>11, <1>12, <1>13, <1>14, <1>15,
       <1>16, <1>17, <1>18, <1>19, <1>21 DEF Next, StartStep, ManualToggles, vars

\* So is where each process is in its migrations.
LEMMA AlwaysSchema == Spec => []SchemaInv
  BY InitSchema, NextSchema, AlwaysTyped, PTL DEF Spec

\* However many processes start, die and migrate at the same time, and whichever
\* version left the table: past the migrations every column is there, but for
\* what an error, a migration cut short or one under way explains.
THEOREM AlwaysSchemaWhole == Spec => []SchemaWhole
  <1>1. SchemaInv => SchemaWhole
    BY DEF SchemaInv, PastKnows, SchemaWhole, Past, Whole
  <1> QED BY <1>1, AlwaysSchema, PTL

\* A process that serves has loaded the waiting transactions, with the same
\* exceptions.
THEOREM AlwaysServesRehydrated == Spec => []ServesRehydrated
  <1>1. SchemaInv => ServesRehydrated
    BY DEF SchemaInv, LoadedKnows, ServesRehydrated
  <1> QED BY <1>1, AlwaysSchema, PTL

-----------------------------------------------------------------------------
(* The configuration file.                                                 *)

\* A process that begins has no file, and no process is in its way.
LEMMA InitFile == Init => FileInv
  BY StartupAssumption DEF Init, FileInv, TornHasReason, FileIsSaved, NoFileYet,
                           StartersAgree, Unread, Starting, Off

\* A process that moves without touching the file: it ends no write but one that
\* is cut short, and what it holds from then on agrees with what was saved.
LEMMA MoveKeepsFile ==
    ASSUME TypeInv, FileInv, NEW p \in Process, NEW r,
           proc' = [proc EXCEPT ![p] = r], UNCHANGED <<file, saved>>,
           excused => excused', cutFile => cutFile',
           proc[p].pc \in {"write", "save"} => cutFile' \/ r.pc \in {"write", "save"},
           r.pc \in {"open", "migrate", "discover", "persist", "write"} =>
               excused' \/ cutFile' \/ SameUser(r.cfg, saved),
           r.pc \in {"off", "load"} => r.cfg = Default
    PROVE  FileInv'
  <1>1. proc'[p] = r /\ \A q \in Process : q # p => proc'[q] = proc[q]
    BY DEF TypeInv, ProcOK
  <1>2. TornHasReason'
    BY <1>1 DEF FileInv, TornHasReason
  <1>3. FileIsSaved' /\ NoFileYet'
    BY DEF FileInv, FileIsSaved, NoFileYet
  <1>4. StartersAgree'
    BY <1>1 DEF FileInv, StartersAgree, Starting, SameUser
  <1>5. Unread'
    BY <1>1 DEF FileInv, Unread
  <1> QED BY <1>2, <1>3, <1>4, <1>5 DEF FileInv

\* What a start reads agrees with what was saved.
LEMMA LoadKeepsFile ==
    ASSUME TypeInv, FileInv, NEW p \in Process, Load(p)
    PROVE  FileInv'
  <1> DEFINE cfg == IF file \in Settings THEN file ELSE proc[p].cfg
             pc == IF file = TORN THEN "refused" ELSE "open"
             r == [proc[p] EXCEPT !.pc = pc, !.cfg = cfg]
  <1>1. /\ proc' = [proc EXCEPT ![p] = r] /\ proc[p].pc = "load"
        /\ UNCHANGED <<file, saved, excused, cutFile>>
    BY DEF Load
  <1>2. r.pc = pc /\ r.cfg = cfg
    BY DEF TypeInv, ProcOK, ProcessRecord
  <1>3. pc = "open" => excused \/ cutFile \/ SameUser(cfg, saved)
    <2> SUFFICES ASSUME file # TORN, ~excused, ~cutFile PROVE SameUser(cfg, saved)
      OBVIOUS
    <2>1. file = saved \/ file = NULL
      BY DEF FileInv, FileIsSaved
    <2>2. file = saved => cfg = saved
      BY DEF TypeInv, FilesOK
    <2>3. file = NULL => cfg = Default /\ saved = Default
      BY <1>1, ValueAssumption DEF FileInv, Unread, NoFileYet
    <2> QED BY <2>1, <2>2, <2>3 DEF SameUser
  <1>4. pc \in {"refused", "open"}
    OBVIOUS
  <1> HIDE DEF r, pc, cfg
  <1> QED BY <1>1, <1>2, <1>3, <1>4, MoveKeepsFile

\* Discovery keeps the user's indexer, unless it is down.
LEMMA DiscoverKeepsFile ==
    ASSUME TypeInv, FileInv, NEW p \in Process, Discover(p)
    PROVE  FileInv'
  <1>1. AtStatement(proc[p]) /\ proc[p].cfg \in Settings /\ proc[p].pc = "discover"
    BY FieldTypes DEF TypeInv, ProcOK, Discover
  <1>2. PICK found \in Settings : \E pc \in {"persist", "rehydrate"} :
           /\ found \in Discovered(p)
           /\ proc' = [proc EXCEPT ![p] = [proc[p] EXCEPT !.pc = pc, !.cfg = found]]
    BY <1>1, DiscoverTyped
  <1>3. PICK pc \in {"persist", "rehydrate"} :
           proc' = [proc EXCEPT ![p] = [proc[p] EXCEPT !.pc = pc, !.cfg = found]]
    BY <1>2
  <1> DEFINE r == [proc[p] EXCEPT !.pc = pc, !.cfg = found]
  <1>4. /\ UNCHANGED <<file, saved, cutFile>>
        /\ excused' = (excused \/ (proc[p].cfg.indexer = "manual" /\ ~manualUp))
    BY DEF Discover
  <1>5. r.pc = pc /\ r.cfg = found
    BY <1>1 DEF AtStatement, ProcessRecord
  <1>6. excused \/ cutFile \/ SameUser(proc[p].cfg, saved)
    BY <1>1 DEF FileInv, StartersAgree, Starting
  <1>7. excused' \/ SameUser(found, proc[p].cfg)
    <2>1. CASE proc[p].cfg.indexer = "manual" /\ manualUp
      BY <1>2, <2>1 DEF Discovered, SameUser
    <2>2. CASE proc[p].cfg.indexer = "manual" /\ ~manualUp
      BY <1>4, <2>2
    <2>3. CASE proc[p].cfg.indexer # "manual"
      BY <1>1, <1>2, <2>3 DEF Discovered, SameUser, Settings
    <2> QED BY <2>1, <2>2, <2>3
  <1>8. excused' \/ cutFile' \/ SameUser(found, saved)
    BY <1>4, <1>6, <1>7 DEF SameUser
  <1>9. excused => excused'
    BY <1>4
  <1>10. proc' = [proc EXCEPT ![p] = r]
    BY <1>3
  <1> HIDE DEF r
  <1> QED BY <1>1, <1>4, <1>5, <1>8, <1>9, <1>10, MoveKeepsFile

\* What a start writes back is what was saved, but for an indexer it found.
LEMMA WriteBackKeepsFile ==
    ASSUME TypeInv, FileInv, NEW p \in Process, WriteBack(p)
    PROVE  FileInv'
  <1> DEFINE cfg == proc[p].cfg
  <1>1. /\ file' = cfg /\ proc[p].pc = "write"
        /\ saved' = IF cfg.ver = saved.ver /\ saved.indexer # "manual"
                    THEN cfg ELSE saved
        /\ UNCHANGED <<excused, cutFile>>
    BY DEF WriteBack
  <1>2. /\ \A q \in Process : q # p => proc'[q] = proc[q]
        /\ proc'[p].pc = "rehydrate"
    BY DEF WriteBack, Goes, TypeInv, ProcOK, ProcessRecord
  <1>3. cfg \in Settings /\ saved \in Settings
    BY FieldTypes DEF TypeInv, ProcOK, FilesOK
  <1>4. excused \/ cutFile \/ SameUser(cfg, saved)
    BY <1>1 DEF FileInv, StartersAgree, Starting
  <1>5. SameUser(cfg, saved) => saved' = cfg
    <2>1. SameUser(cfg, saved) /\ saved.indexer = "manual" => cfg = saved
      BY <1>3 DEF SameUser, Settings
    <2> QED BY <1>1, <2>1 DEF SameUser
  <1>6. excused \/ cutFile \/ SameUser(saved', saved)
    BY <1>1, <1>4, <1>5 DEF SameUser
  <1>7. TornHasReason' /\ NoFileYet'
    BY <1>1, <1>3, ValueAssumption DEF TornHasReason, NoFileYet
  <1>8. FileIsSaved'
    BY <1>1, <1>4, <1>5 DEF FileIsSaved
  <1>9. StartersAgree'
    BY <1>1, <1>2, <1>6 DEF FileInv, StartersAgree, Starting, SameUser
  <1>10. Unread'
    BY <1>2 DEF FileInv, Unread
  <1> QED BY <1>7, <1>8, <1>9, <1>10 DEF FileInv

\* A save of the user's: what starts meanwhile is excused.
LEMMA SaveKeepsFile ==
    ASSUME TypeInv, FileInv,
           SaveWrite \/ \E indexer \in Indexer : SaveConfig(indexer)
    PROVE  FileInv'
  <1>0. Daemon \in Process /\ proc \in [Process -> ProcessRecord]
    BY StartupAssumption DEF TypeInv, ProcOK
  <1>1. CASE SaveWrite
    <2>1. /\ file' = proc[Daemon].cfg /\ saved' = proc[Daemon].cfg
          /\ excused' = (excused \/ Starting # {}) /\ UNCHANGED cutFile
          /\ proc' = [proc EXCEPT ![Daemon].pc = "run"]
      BY <1>1 DEF SaveWrite, Goes
    <2>2. /\ \A q \in Process : q # Daemon => proc'[q] = proc[q]
          /\ proc'[Daemon].pc = "run"
      BY <1>0, <2>1 DEF ProcessRecord
    <2>3. proc[Daemon].cfg \in Settings
      BY <1>0 DEF ProcessRecord
    <2>4. TornHasReason' /\ NoFileYet'
      BY <2>1, <2>3, ValueAssumption DEF TornHasReason, NoFileYet
    <2>5. FileIsSaved'
      BY <2>1 DEF FileIsSaved
    <2>6. StartersAgree'
      BY <2>1, <2>2 DEF StartersAgree, Starting
    <2>7. Unread'
      BY <2>2 DEF FileInv, Unread
    <2> QED BY <2>4, <2>5, <2>6, <2>7 DEF FileInv
  <1>2. ASSUME NEW indexer \in Indexer, SaveConfig(indexer) PROVE FileInv'
    <2>1. /\ \A q \in Process : q # Daemon => proc'[q] = proc[q]
          /\ proc'[Daemon].pc = "save"
      <3>1. PICK cfg \in Settings :
               proc' = [proc EXCEPT ![Daemon] =
                           [proc[Daemon] EXCEPT !.pc = "save", !.cfg = cfg]]
        BY <1>2, SaveTyped DEF TypeInv
      <3>2. [proc[Daemon] EXCEPT !.pc = "save", !.cfg = cfg].pc = "save"
        BY <1>0, FieldTypes DEF TypeInv, ProcOK
      <3> QED BY <1>0, <3>1, <3>2
    <2>2. file' = TORN /\ UNCHANGED <<saved, excused, cutFile>>
      BY <1>2 DEF SaveConfig
    <2>3. TornHasReason'
      BY <1>0, <2>1 DEF TornHasReason
    <2>4. NoFileYet' /\ FileIsSaved'
      BY <2>2, StartupAssumption DEF NoFileYet, FileIsSaved
    <2>5. StartersAgree' /\ Unread'
      BY <2>1, <2>2 DEF FileInv, StartersAgree, Starting, SameUser, Unread
    <2> QED BY <2>3, <2>4, <2>5 DEF FileInv
  <1> QED BY <1>1, <1>2

\* Every step keeps the file accounted for.
LEMMA NextFile == TypeInv /\ FileInv /\ [Next]_vars => FileInv'
  <1> SUFFICES ASSUME TypeInv, FileInv, [Next]_vars PROVE FileInv'
    OBVIOUS
  <1> USE DEF Goes
  <1>0. \A p \in Process : AtStatement(proc[p]) /\ proc[p] \in ProcessRecord
    BY DEF TypeInv, ProcOK, AtStatement
  <1>1. /\ Off.pc = "off" /\ Off.cfg = Default
        /\ [Off EXCEPT !.pc = "load"].pc = "load"
        /\ [Off EXCEPT !.pc = "load"].cfg = Default
    BY DEF Off
  <1>2. \A p \in Process : proc[p].pc \in {"open", "migrate", "discover", "persist", "write"}
           => excused \/ cutFile \/ SameUser(proc[p].cfg, saved)
    BY DEF FileInv, StartersAgree, Starting
  <1>3. \A p \in Process : \A pc : LET r == [proc[p] EXCEPT !.pc = pc] IN
           r.pc = pc /\ r.cfg = proc[p].cfg
    BY <1>0 DEF ProcessRecord
  <1>4. \A r : AtStatement(r) /\ r.pc = "migrate" =>
           /\ NextMigration(r).cfg = r.cfg
           /\ NextMigration(r).pc \in {"migrate", "discover"}
           /\ NextStatement(r).cfg = r.cfg
           /\ NextStatement(r).pc \in {"migrate", "discover"}
    BY DEF NextMigration, NextStatement, AtStatement, ProcessRecord
  <1>5. ASSUME NEW p \in Process, Start(p) PROVE FileInv'
    BY <1>1, <1>5, MoveKeepsFile DEF Start
  <1>6. ASSUME NEW p \in Process, Open(p) PROVE FileInv'
    <2> DEFINE r == [proc[p] EXCEPT !.pc = "migrate"]
    <2>1. /\ proc' = [proc EXCEPT ![p] = r] /\ proc[p].pc = "open"
          /\ UNCHANGED <<file, saved, excused, cutFile>>
      BY <1>6 DEF Open
    <2>2. r.pc = "migrate" /\ r.cfg = proc[p].cfg
      BY <1>3
    <2> HIDE DEF r
    <2> QED BY <1>2, <2>1, <2>2, MoveKeepsFile
  <1>16. ASSUME NEW p \in Process, LoadFails(p) \/ OpenFails(p) PROVE FileInv'
    <2> DEFINE r == [proc[p] EXCEPT !.pc = "refused"]
    <2>1. /\ proc' = [proc EXCEPT ![p] = r] /\ proc[p].pc \in {"load", "open"}
          /\ UNCHANGED <<file, saved, excused, cutFile>>
      BY <1>16 DEF LoadFails, OpenFails
    <2>2. r.pc = "refused"
      BY <1>3
    <2> HIDE DEF r
    <2> QED BY <2>1, <2>2, MoveKeepsFile
  <1>7. ASSUME NEW p \in Process, Alter(p) PROVE FileInv'
    <2>1. /\ proc[p].pc = "migrate"
          /\ UNCHANGED <<file, saved, excused, cutFile>>
      BY <1>7 DEF Alter
    <2>2. PICK r : /\ proc' = [proc EXCEPT ![p] = r]
                   /\ r.cfg = proc[p].cfg /\ r.pc \in {"migrate", "discover"}
      <3>1. CASE Migrations[proc[p].mig][proc[p].stmt] \in cols
        <4> DEFINE n == NextMigration(proc[p])
                   met == n.met \/ \E q \in Process : InMigration(q, proc[p].mig)
                   r == [n EXCEPT !.met = met]
        <4>1. proc' = [proc EXCEPT ![p] = r]
          BY <1>7, <3>1 DEF Alter, AfterDuplicate
        <4>2. n \in ProcessRecord
          BY <1>0, NextAtStatement DEF AtStatement
        <4>3. r.cfg = n.cfg /\ r.pc = n.pc
          BY <4>2 DEF ProcessRecord
        <4> HIDE DEF r
        <4> QED BY <1>0, <1>4, <2>1, <4>1, <4>3
      <3>2. CASE Migrations[proc[p].mig][proc[p].stmt] \notin cols
        BY <1>0, <1>4, <1>7, <2>1, <3>2 DEF Alter
      <3> QED BY <3>1, <3>2
    <2> QED BY <1>2, <2>1, <2>2, MoveKeepsFile
  <1>8. ASSUME NEW p \in Process, AlterRefused(p) PROVE FileInv'
    <2> DEFINE n == NextMigration(proc[p])
               r == [n EXCEPT !.refused = @ \cup {proc[p].mig}]
    <2>1. /\ proc' = [proc EXCEPT ![p] = r] /\ proc[p].pc = "migrate"
          /\ UNCHANGED <<file, saved, excused, cutFile>>
      BY <1>8 DEF AlterRefused
    <2>2. n \in ProcessRecord
      BY <1>0, NextAtStatement DEF AtStatement
    <2>3. r.cfg = proc[p].cfg /\ r.pc \in {"migrate", "discover"}
      BY <1>0, <1>4, <2>1, <2>2 DEF ProcessRecord
    <2> HIDE DEF r
    <2> QED BY <1>2, <2>1, <2>3, MoveKeepsFile
  <1>9. ASSUME NEW p \in Process, Truncate(p) PROVE FileInv'
    <2>1. /\ \A q \in Process : q # p => proc'[q] = proc[q]
          /\ proc'[p].pc = "write" /\ proc'[p].cfg = proc[p].cfg
          /\ proc[p].pc = "persist"
      BY <1>3, <1>9 DEF Truncate, TypeInv, ProcOK
    <2>2. file' = TORN /\ UNCHANGED <<saved, excused, cutFile>>
      BY <1>9 DEF Truncate
    <2>3. TornHasReason'
      BY <2>1 DEF TornHasReason
    <2>4. NoFileYet' /\ FileIsSaved'
      BY <2>2, StartupAssumption DEF NoFileYet, FileIsSaved
    <2>5. StartersAgree' /\ Unread'
      BY <2>1, <2>2 DEF FileInv, StartersAgree, Starting, SameUser, Unread
    <2> QED BY <2>3, <2>4, <2>5 DEF FileInv
  <1>10. ASSUME NEW p \in Process, WriteFails(p) PROVE FileInv'
    <2> DEFINE r == [proc[p] EXCEPT !.pc = "rehydrate"]
    <2>1. /\ proc' = [proc EXCEPT ![p] = r] /\ cutFile'
          /\ UNCHANGED <<file, saved, excused>>
      BY <1>10 DEF WriteFails
    <2>2. r.pc = "rehydrate"
      BY <1>3
    <2> HIDE DEF r
    <2> QED BY <2>1, <2>2, MoveKeepsFile
  <1>11. ASSUME NEW p \in Process, Rehydrate(p) PROVE FileInv'
    <2> DEFINE r == [proc[p] EXCEPT !.pc = "run", !.loaded = LoadPendingFromDb(p)]
    <2>1. /\ proc' = [proc EXCEPT ![p] = r] /\ proc[p].pc = "rehydrate"
          /\ UNCHANGED <<file, saved, excused, cutFile>>
      BY <1>11 DEF Rehydrate
    <2>2. r.pc = "run"
      BY <1>0 DEF ProcessRecord
    <2> HIDE DEF r
    <2> QED BY <2>1, <2>2, MoveKeepsFile
  <1>12. ASSUME SaveFails PROVE FileInv'
    <2> DEFINE r == [proc[Daemon] EXCEPT !.pc = "run"]
    <2>1. /\ proc' = [proc EXCEPT ![Daemon] = r] /\ cutFile'
          /\ UNCHANGED <<file, saved, excused>>
      BY <1>12 DEF SaveFails
    <2>2. r.pc = "run" /\ Daemon \in Process
      BY <1>3, StartupAssumption
    <2> HIDE DEF r
    <2> QED BY <2>1, <2>2, MoveKeepsFile
  <1>13. ASSUME NEW p \in Process, Exit(p) PROVE FileInv'
    BY <1>1, <1>13, MoveKeepsFile DEF Exit
  <1>14. ASSUME NEW p \in Process, Crash(p) PROVE FileInv'
    BY <1>1, <1>14, MoveKeepsFile DEF Crash
  <1>15. CASE UNCHANGED <<proc, file, saved, excused, cutFile>>
    BY <1>15 DEF FileInv, TornHasReason, FileIsSaved, NoFileYet, StartersAgree, Unread,
                 Starting, SameUser
  <1> QED
    BY <1>5, <1>6, <1>7, <1>8, <1>9, <1>10, <1>11, <1>12, <1>13, <1>14, <1>15, <1>16,
       LoadKeepsFile, DiscoverKeepsFile, WriteBackKeepsFile, SaveKeepsFile
       DEF Next, StartStep, ManualToggles, vars

\* So is what the file and the starting processes hold of the settings.
LEMMA AlwaysFile == Spec => []FileInv
  BY InitFile, NextFile, AlwaysTyped, PTL DEF Spec

\* The file says what the user saved, however many starts have written it back,
\* but for a start that was excused, a write under way or one cut short.
THEOREM AlwaysSettingsKept == Spec => []SettingsKept
  <1>1. FileInv => SettingsKept
    BY DEF FileInv, FileIsSaved, TornHasReason, SettingsKept
  <1> QED BY <1>1, AlwaysFile, PTL

\* However many processes start, die and migrate at the same time: a start is
\* refused by an error of its own, or for a configuration file that is being
\* written or was cut short, and never for what earlier starts did otherwise.
THEOREM NeverRefusedOtherwise == Spec => RefusedForCause
  <1>1. TypeInv /\ FileInv /\ [Next]_vars
        => [\A p \in Process :
               proc[p].pc # "refused" /\ proc'[p].pc = "refused"
               => \/ faults' > faults
                  \/ proc[p].pc = "load" /\ cutFile
                  \/ /\ proc[p].pc = "load"
                     /\ \E q \in Process : proc[q].pc \in {"write", "save"}]_vars
    <2> SUFFICES ASSUME TypeInv, FileInv, Next, NEW p \in Process,
                        proc[p].pc # "refused", proc'[p].pc = "refused"
                 PROVE  faults' > faults \/ (proc[p].pc = "load" /\ file = TORN)
      BY DEF FileInv, TornHasReason
    <2>1. \A q \in Process : \A r : proc' = [proc EXCEPT ![q] = r] => q = p /\ r.pc = "refused"
      BY DEF TypeInv, ProcOK
    <2>2. Off.pc = "off" /\ [Off EXCEPT !.pc = "load"].pc = "load"
      BY DEF Off
    <2>3. ASSUME NEW q \in Process, Start(q) \/ Exit(q) \/ Crash(q) PROVE FALSE
      BY <2>1, <2>2, <2>3 DEF Start, Exit, Crash
    <2>4. ASSUME NEW q \in Process, Load(q) PROVE proc[p].pc = "load" /\ file = TORN
      <3> DEFINE pc == IF file = TORN THEN "refused" ELSE "open"
                 cfg == IF file \in Settings THEN file ELSE proc[q].cfg
      <3>1. proc' = [proc EXCEPT ![q] = [proc[q] EXCEPT !.pc = pc, !.cfg = cfg]]
        BY <2>4 DEF Load
      <3> HIDE DEF cfg
      <3>2. [proc[q] EXCEPT !.pc = pc, !.cfg = cfg].pc = pc
        BY DEF TypeInv, ProcOK, ProcessRecord
      <3>3. proc[q].pc = "load"
        BY <2>4 DEF Load
      <3> QED BY <2>1, <3>1, <3>2, <3>3
    <2>5. ASSUME NEW q \in Process, LoadFails(q) \/ OpenFails(q) PROVE faults' > faults
      BY <2>5 DEF LoadFails, OpenFails, Fault, TypeInv, FilesOK
    <2>6. ASSUME NEW q \in Process,
                 \/ Open(q) \/ Truncate(q) \/ WriteBack(q) \/ WriteFails(q)
          PROVE  FALSE
      <3>1. \E pc \in {"migrate", "write", "rehydrate"} :
               proc' = [proc EXCEPT ![q] = [proc[q] EXCEPT !.pc = pc]]
        BY <2>6 DEF Open, Truncate, WriteBack, WriteFails, Goes
      <3>2. \A pc : [proc[q] EXCEPT !.pc = pc].pc = pc
        BY DEF TypeInv, ProcOK, ProcessRecord
      <3> QED BY <2>1, <3>1, <3>2
    <2>7. ASSUME NEW q \in Process, Alter(q) \/ AlterRefused(q) PROVE FALSE
      <3>1. proc[q].pc = "migrate" /\ AtStatement(proc[q])
        BY <2>7 DEF Alter, AlterRefused, TypeInv, ProcOK
      <3>2. \A r : AtStatement(r) => \A x :
               /\ [r EXCEPT !.met = x].pc = r.pc
               /\ [r EXCEPT !.refused = x].pc = r.pc
        BY DEF AtStatement, ProcessRecord
      <3>3. /\ AtStatement(NextMigration(proc[q]))
            /\ NextMigration(proc[q]).pc \in {"migrate", "discover"}
            /\ NextStatement(proc[q]).pc \in {"migrate", "discover"}
        BY <3>1, NextAtStatement DEF NextMigration, NextStatement, AtStatement,
                                     ProcessRecord
      <3>4. \E r : proc' = [proc EXCEPT ![q] = r] /\ r.pc \in {"migrate", "discover"}
        <4>1. CASE Alter(q)
          <5>1. CASE Migrations[proc[q].mig][proc[q].stmt] \in cols
            <6>1. \E x : proc' = [proc EXCEPT ![q] = [NextMigration(proc[q]) EXCEPT !.met = x]]
              BY <4>1, <5>1 DEF Alter, AfterDuplicate
            <6> QED BY <3>2, <3>3, <6>1
          <5>2. CASE Migrations[proc[q].mig][proc[q].stmt] \notin cols
            BY <3>3, <4>1, <5>2 DEF Alter
          <5> QED BY <5>1, <5>2
        <4>2. CASE AlterRefused(q)
          <5>1. \E x : proc' = [proc EXCEPT ![q] = [NextMigration(proc[q]) EXCEPT !.refused = x]]
            BY <4>2 DEF AlterRefused
          <5> QED BY <3>2, <3>3, <5>1
        <4> QED BY <2>7, <4>1, <4>2
      <3> QED BY <2>1, <3>4
    <2>8. ASSUME NEW q \in Process, Discover(q) \/ Rehydrate(q) PROVE FALSE
      <3>1. AtStatement(proc[q])
        BY DEF TypeInv, ProcOK
      <3>2. CASE Discover(q)
        <4>1. \E cfg : \E pc \in {"persist", "rehydrate"} :
                 proc' = [proc EXCEPT ![q] = [proc[q] EXCEPT !.pc = pc, !.cfg = cfg]]
          BY <3>1, <3>2, DiscoverTyped
        <4> QED BY <2>1, <3>1, <4>1, FieldTypes
      <3>3. CASE Rehydrate(q)
        <4>1. \E found : proc' = [proc EXCEPT ![q] =
                                     [proc[q] EXCEPT !.pc = "run", !.loaded = found]]
          BY <3>3 DEF Rehydrate
        <4> QED BY <2>1, <3>1, <4>1, FieldTypes
      <3> QED BY <2>8, <3>2, <3>3
    <2>9. ASSUME \E indexer \in Indexer : SaveConfig(indexer) PROVE FALSE
      <3>1. Daemon \in Process /\ AtStatement(proc[Daemon])
        BY StartupAssumption DEF TypeInv, ProcOK
      <3>2. \E cfg : proc' = [proc EXCEPT ![Daemon] =
                                  [proc[Daemon] EXCEPT !.pc = "save", !.cfg = cfg]]
        BY <2>9, SaveTyped DEF TypeInv
      <3> QED BY <2>1, <3>1, <3>2, FieldTypes
    <2>10. ASSUME SaveWrite \/ SaveFails PROVE FALSE
      <3>1. Daemon \in Process /\ AtStatement(proc[Daemon])
        BY StartupAssumption DEF TypeInv, ProcOK
      <3>2. proc' = [proc EXCEPT ![Daemon] = [proc[Daemon] EXCEPT !.pc = "run"]]
        BY <2>10 DEF SaveWrite, SaveFails, Goes
      <3> QED BY <2>1, <3>1, <3>2, FieldTypes
    <2>11. ~ManualToggles
      BY DEF ManualToggles
    <2> QED
      BY <2>3, <2>4, <2>5, <2>6, <2>7, <2>8, <2>9, <2>10, <2>11 DEF Next, StartStep
  <1> QED BY <1>1, AlwaysTyped, AlwaysFile, PTL DEF Spec, RefusedForCause

===============================================================================
