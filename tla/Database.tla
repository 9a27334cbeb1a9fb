------------------------------ MODULE Database ------------------------------
(***************************************************************************)
(* Opening one SQLite file: the version loop of Store.init, the fresh      *)
(* schema, the migration from version 1, the registration of the           *)
(* configured targets, and the app runs written after that.                *)
(*                                                                         *)
(* Several StatLite processes may open the same file: a second instance    *)
(* opens and registers before its Listen fails, and one started with       *)
(* another listen address keeps running.  Another program may create its   *)
(* tables in the file.  A transaction is one action, which commits or      *)
(* changes nothing (SQLite's promise); the reads Store.init makes outside  *)
(* a transaction are actions of their own.                                 *)
(*                                                                         *)
(* Rows of app_runs that agree in target, start and type are one element.  *)
(***************************************************************************)
EXTENDS Integers

CONSTANTS
  Processes,  \* StatLite processes over the file's life
  Names,      \* target names
  Types,      \* canonical target types
  NoType,     \* NULL in a target_type column
  Starts,     \* process start times an application may report
  FirstFiles, \* the files the first process may find
  MaxBoots    \* how often each process is started

Columns == {"targets.target_type", "app_runs.target_type", "polls.metrics_source"}

\* A file as Store.init may find it: nothing yet, another program's, one of
\* version 1 (recorded as 0 or 1) sound or not, a finished or a broken
\* version 2, one from a newer StatLite, one with a negative version.
Files ==
  {f \in [version : {-1, 0, 1, 2, 3}, tables : SUBSET {"statlite", "foreign"},
          added : SUBSET Columns, sound : BOOLEAN] :
     "statlite" \notin f.tables => f.added = {} /\ f.sound}

ASSUME NoTypeAssumption == NoType \notin Types
ASSUME StartsAssumption == Starts \subseteq Nat \ {0}
ASSUME FirstFilesAssumption == FirstFiles \subseteq Files

VARIABLES
  file,      \* version: user_version; tables: whose tables the file holds;
             \* added: the version 2 columns present; sound: whether the rows'
             \* references are intact
  targets,   \* table targets: name -> target_type
  runs,      \* table app_runs: [target, start, type]
  pc,        \* where each process is between main and its monitors
  config,    \* each process's configured targets: name -> type
  boots,     \* how often each process was started
  accepted,  \* history: the configurations registered so far
  disturbed  \* history: processes whose file another actor changed meanwhile

vars == <<file, targets, runs, pc, config, boots, accepted, disturbed>>
rows == <<targets, runs>>

CurrentVersion == 2
Anonymous == 0

\* Every way to configure some of the names; config.Load refuses no target,
\* an empty name and a repeated one.
Configs == UNION {[S -> Types] : S \in SUBSET Names \ {{}}}

LegacyRuns == [target : Names, start : Starts, type : {NoType}]

Init ==
  /\ file \in FirstFiles
  /\ targets \in UNION {[S -> {NoType}] : S \in SUBSET Names}
  /\ runs \in SUBSET {r \in LegacyRuns : r.target \in DOMAIN targets}
  /\ "statlite" \notin file.tables => DOMAIN targets = {}
  /\ pc = [p \in Processes |-> "down"]
  /\ config = [p \in Processes |-> <<>>]
  /\ boots = [p \in Processes |-> 0]
  /\ accepted = {}
  /\ disturbed = {}

-----------------------------------------------------------------------------
(* Store.init.                                                             *)

Goto(p, step) == pc' = [pc EXCEPT ![p] = step]

\* runMonitor up to storage.Open.
Boot(p) ==
  /\ pc[p] \in {"down", "refused"}
  /\ boots[p] < MaxBoots
  /\ boots' = [boots EXCEPT ![p] = @ + 1]
  /\ \E c \in Configs : config' = [config EXCEPT ![p] = c]
  /\ disturbed' = disturbed \ {p}
  /\ Goto(p, "version")
  /\ UNCHANGED <<file, rows, accepted>>

\* PRAGMA user_version and the switch on it.
ReadVersion(p) ==
  /\ pc[p] = "version"
  /\ Goto(p, CASE file.version = 0 -> "objects"
               [] file.version = 1 -> "migrate"
               [] file.version = CurrentVersion -> "check"
               [] OTHER -> "refused")
  /\ UNCHANGED <<file, rows, config, boots, accepted, disturbed>>

\* SELECT COUNT(*) FROM sqlite_master
CountObjects(p) ==
  /\ pc[p] = "objects"
  /\ Goto(p, IF file.tables = {} THEN "fresh" ELSE "migrate")
  /\ UNCHANGED <<file, rows, config, boots, accepted, disturbed>>

\* Everyone else who is between Open and the end of registration.
Disturbs(p) ==
  disturbed' = disturbed \cup {q \in Processes \ {p} : pc[q] \notin {"down", "refused"}}

\* Mutant: the transaction trusts what was read before it.
FreshUnchecked == TRUE

\* What initializeFreshSchema reads again inside its transaction.
StillFresh == file.version = 0 /\ file.tables = {}

InitializeFreshSchema(p) ==
  /\ pc[p] = "fresh"
  /\ \/ /\ StillFresh
        /\ file' = [file EXCEPT !.version = CurrentVersion, !.added = Columns,
                                !.tables = @ \cup {"statlite"}]
        /\ Disturbs(p)
        /\ Goto(p, "version")
     \/ /\ ~StillFresh
        /\ Goto(p, "refused")
        /\ UNCHANGED <<file, disturbed>>
  /\ UNCHANGED <<rows, config, boots, accepted>>

\* Mutant: files from before explicit versioning are forgotten.
MigratableIfVersioned ==
  /\ file.version = 1
  /\ "statlite" \in file.tables /\ file.added = {}
  /\ file.sound

\* The exact columns and foreign keys of version 1, and no row that breaks a
\* reference or names a run of another target.
Migratable ==
  /\ file.version \in {0, 1}
  /\ "statlite" \in file.tables /\ file.added = {}
  /\ file.sound

Migrated == [file EXCEPT !.added = Columns, !.version = CurrentVersion]

MigrateV1ToV2(p) ==
  /\ pc[p] = "migrate"
  /\ \/ /\ Migratable
        /\ file' = Migrated
        /\ Disturbs(p)
        /\ Goto(p, "version")
     \/ /\ ~Migratable
        /\ Goto(p, "refused")
        /\ UNCHANGED <<file, disturbed>>
  /\ UNCHANGED <<rows, config, boots, accepted>>

\* Mutant: a version 2 file is taken at its word.
TrustV2Columns(p) ==
  /\ pc[p] = "check"
  /\ Goto(p, "register")
  /\ UNCHANGED <<file, rows, config, boots, accepted, disturbed>>

CheckV2Columns(p) ==
  /\ pc[p] = "check"
  /\ Goto(p, IF file.added = Columns THEN "register" ELSE "refused")
  /\ UNCHANGED <<file, rows, config, boots, accepted, disturbed>>

-----------------------------------------------------------------------------
(* Target identities and app runs.                                         *)

Bound(name) == name \in DOMAIN targets /\ targets[name] # NoType

\* Mutant: a name changes its type with the configuration.
NeverConflicts(c) == FALSE

Conflicts(c) == \E name \in DOMAIN c : Bound(name) /\ targets[name] # c[name]

\* For the mutant below: names without a conflict are registered.
BindCompatible(c) ==
  [name \in DOMAIN targets \cup DOMAIN c |->
     IF name \in DOMAIN c /\ ~Bound(name) THEN c[name] ELSE targets[name]]

Bind(c) ==
  [name \in DOMAIN targets \cup DOMAIN c |->
     IF name \in DOMAIN c THEN c[name] ELSE targets[name]]

\* Mutant: a conflict leaves the loop, but the transaction is committed.
RefuseLate(p) == targets' = BindCompatible(config[p])

\* A refused registration rolls its transaction back.
Refuse(p) == UNCHANGED targets

RegisterTargets(p) ==
  /\ pc[p] = "register"
  /\ \/ /\ ~Conflicts(config[p])
        /\ targets' = Bind(config[p])
        /\ accepted' = accepted \cup {config[p]}
        /\ Goto(p, "ready")
     \/ /\ Conflicts(config[p])
        /\ Refuse(p)
        /\ Goto(p, "refused")
        /\ UNCHANGED accepted
  /\ UNCHANGED <<file, runs, config, boots, disturbed>>

\* Mutant: the conflict clause of the upsert sets target_type too.
UpsertRunAndType(name, start) ==
  runs' = {r \in runs : <<r.target, r.start>> # <<name, start>>}
            \cup {[target |-> name, start |-> start, type |-> targets[name]]}

\* upsertAppRun finds the row of a known start and leaves its type alone;
\* insertAnonymousAppRun always inserts.
UpsertRun(name, start) ==
  runs' = IF start # Anonymous
               /\ \E r \in runs : r.target = name /\ r.start = start
          THEN runs
          ELSE runs \cup {[target |-> name, start |-> start, type |-> targets[name]]}

\* A monitor's EnsureAppRun: nothing is written for a name without a type.
EnsureAppRun(p) ==
  /\ pc[p] = "ready"
  /\ \E name \in DOMAIN config[p], start \in Starts \cup {Anonymous} :
       /\ Bound(name)
       /\ UpsertRun(name, start)
  /\ UNCHANGED <<file, targets, pc, config, boots, accepted, disturbed>>

-----------------------------------------------------------------------------
(* Failure, and the rest of the world.                                     *)

\* A crash, a lock held by another connection, a full disk, a listen address
\* in use: an open transaction is rolled back.
Exit(p) ==
  /\ pc[p] \notin {"down", "refused"}
  /\ Goto(p, "down")
  /\ UNCHANGED <<file, rows, config, boots, accepted, disturbed>>

\* Another program creates its tables.
ForeignTables ==
  /\ "foreign" \notin file.tables
  /\ file' = [file EXCEPT !.tables = @ \cup {"foreign"}]
  /\ disturbed' = disturbed \cup {p \in Processes : pc[p] \notin {"down", "refused"}}
  /\ UNCHANGED <<rows, pc, config, boots, accepted>>

Step(p) ==
  \/ Boot(p) \/ ReadVersion(p) \/ CountObjects(p) \/ InitializeFreshSchema(p)
  \/ MigrateV1ToV2(p) \/ CheckV2Columns(p) \/ RegisterTargets(p)
  \/ EnsureAppRun(p) \/ Exit(p)

Next == ForeignTables \/ \E p \in Processes : Step(p)

Spec == Init /\ [][Next]_vars

-----------------------------------------------------------------------------
(* Properties.                                                             *)

\* The files StatLite may take for its own.
Supported(f) ==
  \/ f.version = 0 /\ f.tables = {}
  \/ f.version \in {0, 1} /\ "statlite" \in f.tables /\ f.added = {} /\ f.sound
  \/ f.version = CurrentVersion /\ f.added = Columns

\* Whatever happens between the reads of Store.init and its transaction, a
\* write takes a supported file to a supported one: what is unsupported,
\* another program's file among it, is left as it was found, rows included.
WritesAreSupported ==
  [][/\ \/ file' \in {file, [file EXCEPT !.tables = @ \cup {"foreign"}]}
        \/ Supported(file) /\ Supported(file')
     /\ ~Supported(file) => UNCHANGED rows]_vars

\* Once a process monitors, the file has every column its queries name,
\* although other processes and programs have been at it.
ReadyMeansUsable ==
  \A p \in Processes : pc[p] = "ready" =>
    /\ file.version = CurrentVersion /\ file.added = Columns
    /\ "statlite" \in file.tables

\* The configuration of a monitoring process is what the file says of its
\* targets, however many processes registered theirs after it.
ReadyMeansRegistered ==
  \A p \in Processes : pc[p] = "ready" =>
    \A name \in DOMAIN config[p] :
      name \in DOMAIN targets /\ targets[name] = config[p][name]

\* An app run that carries a type carries its target's.
RunTypesAgree ==
  \A r \in runs : r.target \in DOMAIN targets
                  /\ (r.type # NoType => targets[r.target] = r.type)

\* A bound name keeps its type and a run of history its (missing) type,
\* through every reopening and every configuration.
HistoryKept ==
  [][/\ \A name \in DOMAIN targets :
          /\ name \in DOMAIN targets'
          /\ Bound(name) => targets'[name] = targets[name]
     /\ runs \subseteq runs']_vars

\* Every bound type comes from a configuration that was accepted as a whole.
BoundByAcceptedConfigs ==
  \A name \in DOMAIN targets : Bound(name) =>
    \E c \in accepted : name \in DOMAIN c /\ c[name] = targets[name]

\* A refusal has a reason that is still there: an unsupported file, a name
\* bound to another type, or somebody else at work on the file meanwhile.
RefusalHasCause ==
  \A p \in Processes : pc[p] = "refused" =>
    \/ ~Supported(file)
    \/ Conflicts(config[p])
    \/ p \in disturbed

=============================================================================
