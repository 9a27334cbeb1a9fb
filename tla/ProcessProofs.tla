---------------------------- MODULE ProcessProofs ----------------------------
(***************************************************************************)
(* Proofs about the processes of StatLite.  The first part is about        *)
(* Database, for any number of processes, names, types and starts: what a  *)
(* monitoring process relies on survives every other process that opens    *)
(* the same file.  The second is about Lifecycle, one process from the     *)
(* opening of its store to its exit, for any number of requests.           *)
(***************************************************************************)
EXTENDS Database, Lifecycle, TLAPS


\* A process past the version check found version 2, and no process changes
\* a version 2 file: this is what the later reads of Store.init rest on.
Progress ==
  /\ \A p \in Processes : pc[p] \in {"check", "register", "ready"} =>
       file.version = CurrentVersion
  /\ \A p \in Processes : pc[p] \in {"register", "ready"} => file.added = Columns

Steps == {"down", "version", "objects", "fresh", "migrate", "check",
          "register", "ready", "refused"}

\* The domain and range facts the proofs need.
Shape ==
  /\ file \in Files
  /\ targets = [name \in DOMAIN targets |-> targets[name]]
  /\ \A name \in DOMAIN targets : targets[name] \in Types \cup {NoType}
  /\ pc \in [Processes -> Steps]
  /\ DOMAIN config = Processes
  /\ \A p \in Processes : pc[p] \notin {"down", "refused"} =>
       \A name \in DOMAIN config[p] : config[p][name] \in Types

\* The inductive invariant: what the runs check of registered names, and what
\* the version loop has established on the way there.
IInv ==
  /\ Shape /\ Progress
  /\ ReadyMeansRegistered /\ RunTypesAgree /\ BoundByAcceptedConfigs

-----------------------------------------------------------------------------
\* A configuration gives every name it has a type, which is never NULL.
LEMMA ConfigTypes ==
  ASSUME NEW c \in Configs, NEW name \in DOMAIN c
  PROVE  c[name] \in Types /\ c[name] # NoType
<1>1. PICK S \in SUBSET Names \ {{}} : c \in [S -> Types]  BY DEF Configs
<1>2. DOMAIN c = S /\ c[name] \in Types  BY <1>1
<1> QED  BY <1>2, NoTypeAssumption

\* Registering a configuration without a conflict binds its names and keeps
\* every binding there was.
LEMMA BindKeeps ==
  ASSUME NEW c, ~Conflicts(c), targets' = Bind(c),
         \A name \in DOMAIN c : c[name] \in Types
  PROVE  /\ DOMAIN targets' = DOMAIN targets \cup DOMAIN c
         /\ targets' = [name \in DOMAIN targets' |-> targets'[name]]
         /\ \A name \in DOMAIN c : targets'[name] = c[name]
         /\ \A name \in DOMAIN targets \ DOMAIN c : targets'[name] = targets[name]
         /\ \A name \in DOMAIN targets : Bound(name) => targets'[name] = targets[name]
<1>1. /\ DOMAIN targets' = DOMAIN targets \cup DOMAIN c
      /\ targets' = [name \in DOMAIN targets' |-> targets'[name]]
      /\ \A name \in DOMAIN c : targets'[name] = c[name]
      /\ \A name \in DOMAIN targets \ DOMAIN c : targets'[name] = targets[name]
  BY DEF Bind
<1>2. ASSUME NEW name \in DOMAIN targets, Bound(name)
      PROVE  targets'[name] = targets[name]
  <2>1. CASE name \in DOMAIN c  BY <2>1, <1>1, <1>2 DEF Conflicts
  <2>2. CASE name \notin DOMAIN c  BY <2>2, <1>1
  <2> QED  BY <2>1, <2>2
<1> QED  BY <1>1, <1>2

\* The first file and the legacy rows satisfy the invariant.
LEMMA InitIInv == Init => IInv
<1> SUFFICES ASSUME Init PROVE IInv  OBVIOUS
<1>1. \A p \in Processes : pc[p] = "down"  BY DEF Init
<1>2. PICK S \in SUBSET Names : targets \in [S -> {NoType}]  BY DEF Init
<1>3. Shape
  <2>1. file \in Files  BY FirstFilesAssumption DEF Init
  <2> QED  BY <1>1, <1>2, <2>1 DEF Init, Shape, Steps
<1>4. Progress /\ ReadyMeansRegistered
  BY <1>1 DEF Progress, ReadyMeansRegistered
<1>5. RunTypesAgree  BY DEF Init, RunTypesAgree, LegacyRuns
<1>6. BoundByAcceptedConfigs  BY <1>2 DEF BoundByAcceptedConfigs, Bound
<1> QED  BY <1>3, <1>4, <1>5, <1>6 DEF IInv

-----------------------------------------------------------------------------
\* Steps that leave the rows alone: what is left to show is where the process
\* got to and what it knows of the file there.
LEMMA RowsUnchanged ==
  ASSUME IInv, UNCHANGED <<rows, accepted>>,
         Shape', Progress',
         \A p \in Processes : pc'[p] = "ready" =>
           pc[p] = "ready" /\ config'[p] = config[p]
  PROVE  IInv'
<1>1. ReadyMeansRegistered'
  BY DEF IInv, ReadyMeansRegistered, rows
<1>2. RunTypesAgree'  BY DEF IInv, RunTypesAgree, rows
<1>3. BoundByAcceptedConfigs'
  BY DEF IInv, BoundByAcceptedConfigs, Bound, rows
<1> QED  BY <1>1, <1>2, <1>3 DEF IInv

\* No step of Store.init, of another program or of an exit takes from anyone
\* what the file gave it.
LEMMA OpeningIInv ==
  ASSUME IInv, NEW p \in Processes,
         \/ Boot(p) \/ ReadVersion(p) \/ CountObjects(p)
         \/ InitializeFreshSchema(p) \/ MigrateV1ToV2(p) \/ CheckV2Columns(p)
         \/ Exit(p)
  PROVE  IInv'
<1> USE DEF CurrentVersion, Goto
<1>0. Shape /\ Progress  BY DEF IInv
<1>1. CASE Boot(p)
  <2>1. PICK c \in Configs : config' = [config EXCEPT ![p] = c]
    BY <1>1 DEF Boot
  <2>2. \A name \in DOMAIN c : c[name] \in Types  BY ConfigTypes
  <2>3. Shape'
    BY <1>0, <1>1, <2>1, <2>2 DEF Boot, Shape, Steps, rows
  <2>4. Progress'  BY <1>0, <1>1 DEF Boot, Progress, Shape
  <2>5. \A q \in Processes : pc'[q] = "ready" =>
          pc[q] = "ready" /\ config'[q] = config[q]
    BY <1>0, <1>1, <2>1 DEF Boot, Shape
  <2> QED  BY <1>1, <2>3, <2>4, <2>5, RowsUnchanged DEF Boot
<1>2. CASE ReadVersion(p) \/ CountObjects(p) \/ CheckV2Columns(p) \/ Exit(p)
  <2>1. UNCHANGED <<file, rows, config, accepted>>
    BY <1>2 DEF ReadVersion, CountObjects, CheckV2Columns, Exit
  <2>2. Shape'
    BY <1>0, <1>2 DEF ReadVersion, CountObjects, CheckV2Columns, Exit, Shape, Steps, rows
  <2>3. Progress'
    <3>1. CASE ReadVersion(p)  BY <1>0, <3>1 DEF ReadVersion, Shape, Progress
    <3>2. CASE CountObjects(p)  BY <1>0, <3>2 DEF CountObjects, Shape, Progress
    <3>3. CASE CheckV2Columns(p)  BY <1>0, <3>3 DEF CheckV2Columns, Shape, Progress
    <3>4. CASE Exit(p)  BY <1>0, <3>4 DEF Exit, Shape, Progress
    <3> QED  BY <1>2, <3>1, <3>2, <3>3, <3>4
  <2>4. \A q \in Processes : pc'[q] = "ready" => pc[q] = "ready"
    BY <1>0, <1>2 DEF ReadVersion, CountObjects, CheckV2Columns, Exit, Shape
  <2> QED  BY <2>1, <2>2, <2>3, <2>4, RowsUnchanged
<1>3. CASE InitializeFreshSchema(p) \/ MigrateV1ToV2(p)
  <2>1. UNCHANGED <<rows, config, accepted>>
    BY <1>3 DEF InitializeFreshSchema, MigrateV1ToV2
  <2>2. \/ file' = file
        \/ /\ file.version \in {0, 1}
           /\ file'.version = 2 /\ file'.added = Columns /\ file' \in Files
    <3>1. CASE InitializeFreshSchema(p)
      <4>1. CASE file' = file  BY <4>1
      <4>2. CASE file' # file
        <5>1. /\ file.version = 0
              /\ file' = [file EXCEPT !.version = 2, !.added = Columns,
                                      !.tables = @ \cup {"statlite"}]
          BY <3>1, <4>2 DEF InitializeFreshSchema, StillFresh
        <5>2. file \in [version : {-1, 0, 1, 2, 3}, tables : SUBSET {"statlite", "foreign"},
                        added : SUBSET Columns, sound : BOOLEAN]
          BY <1>0 DEF Shape, Files
        <5>3. file'.version = 2 /\ file'.added = Columns /\ "statlite" \in file'.tables
          BY <5>1, <5>2
        <5>4. file' \in [version : {-1, 0, 1, 2, 3}, tables : SUBSET {"statlite", "foreign"},
                         added : SUBSET Columns, sound : BOOLEAN]
          BY <5>1, <5>2
        <5> QED  BY <5>1, <5>3, <5>4 DEF Files
      <4> QED  BY <4>1, <4>2
    <3>2. CASE MigrateV1ToV2(p)
      BY <1>0, <3>2 DEF MigrateV1ToV2, Migratable, Migrated, Shape, Files
    <3> QED  BY <1>3, <3>1, <3>2
  <2>3. pc' = [pc EXCEPT ![p] = "version"] \/ pc' = [pc EXCEPT ![p] = "refused"]
    BY <1>3 DEF InitializeFreshSchema, MigrateV1ToV2
  <2>4. pc[p] \notin {"down", "refused"}
    BY <1>3 DEF InitializeFreshSchema, MigrateV1ToV2
  <2>5. Shape'
    BY <1>0, <2>1, <2>2, <2>3, <2>4 DEF Shape, Steps, rows
  <2>6. Progress'
    BY <1>0, <2>2, <2>3 DEF Shape, Progress
  <2>7. \A q \in Processes : pc'[q] = "ready" => pc[q] = "ready"
    BY <1>0, <2>3 DEF Shape
  <2> QED  BY <2>1, <2>5, <2>6, <2>7, RowsUnchanged
<1> QED  BY <1>1, <1>2, <1>3

\* Another program's tables change nothing StatLite relies on.
LEMMA ForeignIInv ==
  ASSUME IInv, ForeignTables
  PROVE  IInv'
<1>0. Shape /\ Progress  BY DEF IInv
<1>1. file'.version = file.version /\ file'.added = file.added /\ file' \in Files
  BY <1>0 DEF ForeignTables, Shape, Files
<1>2. Shape'  BY <1>0, <1>1 DEF ForeignTables, Shape, rows
<1>3. Progress'  BY <1>0, <1>1 DEF ForeignTables, Progress
<1> QED  BY <1>2, <1>3, RowsUnchanged DEF ForeignTables

\* Registering binds what is not bound and contradicts nobody.
LEMMA RegisterIInv ==
  ASSUME IInv, NEW p \in Processes, RegisterTargets(p)
  PROVE  IInv'
<1> USE DEF Goto
<1> DEFINE c == config[p]
<1>0. Shape /\ Progress  BY DEF IInv
<1>1. \A name \in DOMAIN c : c[name] \in Types
  BY <1>0 DEF RegisterTargets, Shape
<1>2. CASE Conflicts(c)
  <2>1. UNCHANGED <<file, rows, config, accepted>> /\ pc' = [pc EXCEPT ![p] = "refused"]
    BY <1>2 DEF RegisterTargets, Refuse, rows
  <2>2. Shape'  BY <1>0, <2>1 DEF Shape, Steps, rows
  <2>3. Progress'  BY <1>0, <2>1 DEF Shape, Progress
  <2>4. \A q \in Processes : pc'[q] = "ready" => pc[q] = "ready"
    BY <1>0, <2>1 DEF Shape
  <2> QED  BY <2>1, <2>2, <2>3, <2>4, RowsUnchanged
<1>3. CASE ~Conflicts(c)
  <2>1. /\ targets' = Bind(c) /\ accepted' = accepted \cup {c}
        /\ pc[p] = "register" /\ pc' = [pc EXCEPT ![p] = "ready"]
        /\ UNCHANGED <<file, runs, config>>
    BY <1>3 DEF RegisterTargets
  <2>2. /\ DOMAIN targets' = DOMAIN targets \cup DOMAIN c
        /\ targets' = [name \in DOMAIN targets' |-> targets'[name]]
        /\ \A name \in DOMAIN c : targets'[name] = c[name]
        /\ \A name \in DOMAIN targets \ DOMAIN c : targets'[name] = targets[name]
        /\ \A name \in DOMAIN targets : Bound(name) => targets'[name] = targets[name]
    BY <1>1, <1>3, <2>1, BindKeeps
  <2>3. Shape'
    <3>1. \A name \in DOMAIN targets' : targets'[name] \in Types \cup {NoType}
      BY <1>0, <1>1, <2>2 DEF Shape
    <3>2. \A q \in Processes : pc'[q] \notin {"down", "refused"} =>
            \A name \in DOMAIN config'[q] : config'[q][name] \in Types
      BY <1>0, <1>1, <2>1 DEF Shape
    <3> QED  BY <1>0, <2>1, <2>2, <3>1, <3>2 DEF Shape, Steps
  <2>4. Progress'  BY <1>0, <2>1 DEF Shape, Progress
  <2>5. ReadyMeansRegistered'
    <3> SUFFICES ASSUME NEW q \in Processes, pc'[q] = "ready",
                        NEW name \in DOMAIN config[q]
                 PROVE  name \in DOMAIN targets' /\ targets'[name] = config[q][name]
      BY <2>1 DEF ReadyMeansRegistered
    <3>1. CASE q = p  BY <3>1, <2>2
    <3>2. CASE q # p
      <4>1. pc[q] = "ready"  BY <1>0, <2>1, <3>2 DEF Shape
      <4>2. name \in DOMAIN targets /\ targets[name] = config[q][name]
        BY <4>1 DEF IInv, ReadyMeansRegistered
      <4>3. config[q][name] \in Types  BY <1>0, <4>1 DEF Shape
      <4>4. Bound(name)  BY <4>2, <4>3, NoTypeAssumption DEF Bound
      <4> QED  BY <4>2, <4>4, <2>2
    <3> QED  BY <3>1, <3>2
  <2>6. RunTypesAgree'
    <3> SUFFICES ASSUME NEW r \in runs
                 PROVE  /\ r.target \in DOMAIN targets'
                        /\ r.type # NoType => targets'[r.target] = r.type
      BY <2>1 DEF RunTypesAgree
    <3>1. /\ r.target \in DOMAIN targets
          /\ r.type # NoType => targets[r.target] = r.type
      BY DEF IInv, RunTypesAgree
    <3> QED  BY <3>1, <2>2 DEF Bound
  <2>7. BoundByAcceptedConfigs'
    <3> SUFFICES ASSUME NEW name \in DOMAIN targets', targets'[name] # NoType
                 PROVE  \E d \in accepted' : name \in DOMAIN d /\ d[name] = targets'[name]
      BY DEF BoundByAcceptedConfigs, Bound
    <3>1. CASE name \in DOMAIN c  BY <3>1, <2>1, <2>2
    <3>2. CASE name \notin DOMAIN c
      <4>1. name \in DOMAIN targets /\ targets'[name] = targets[name]
        BY <3>2, <2>2
      <4>2. Bound(name)  BY <4>1 DEF Bound
      <4> QED  BY <4>1, <4>2, <2>1 DEF IInv, BoundByAcceptedConfigs
    <3> QED  BY <3>1, <3>2
  <2> QED  BY <2>3, <2>4, <2>5, <2>6, <2>7 DEF IInv
<1> QED  BY <1>2, <1>3

\* A new app run takes its target's type.
LEMMA EnsureAppRunIInv ==
  ASSUME IInv, NEW p \in Processes, EnsureAppRun(p)
  PROVE  IInv'
<1>1. UNCHANGED <<file, targets, pc, config, accepted>>  BY DEF EnsureAppRun
<1>2. Shape' /\ Progress'  BY <1>1 DEF IInv, Shape, Progress
<1>3. ReadyMeansRegistered' /\ BoundByAcceptedConfigs'
  BY <1>1 DEF IInv, ReadyMeansRegistered, BoundByAcceptedConfigs, Bound
<1>4. RunTypesAgree'
  <2>1. PICK name \in DOMAIN config[p], start \in Starts \cup {Anonymous} :
          Bound(name) /\ UpsertRun(name, start)
    BY DEF EnsureAppRun
  <2>2. \A r \in runs' : r \in runs
          \/ r = [target |-> name, start |-> start, type |-> targets[name]]
    BY <2>1 DEF UpsertRun
  <2>3. \A r \in runs : r.target \in DOMAIN targets
                        /\ (r.type # NoType => targets[r.target] = r.type)
    BY DEF IInv, RunTypesAgree
  <2>4. \A r \in runs' : r.target \in DOMAIN targets
                         /\ (r.type # NoType => targets[r.target] = r.type)
    BY <2>1, <2>2, <2>3 DEF Bound
  <2> QED  BY <1>1, <2>4 DEF RunTypesAgree
<1> QED  BY <1>2, <1>3, <1>4 DEF IInv

\* IInv is inductive.
LEMMA NextIInv == IInv /\ [Next]_vars => IInv'
<1> SUFFICES ASSUME IInv, [Next]_vars PROVE IInv'  OBVIOUS
<1>1. CASE UNCHANGED vars
  BY <1>1 DEF vars, rows, IInv, Shape, Progress, ReadyMeansRegistered, RunTypesAgree,
     BoundByAcceptedConfigs, Bound
<1>2. CASE ForeignTables  BY <1>2, ForeignIInv
<1>3. ASSUME NEW p \in Processes, Step(p) PROVE IInv'
  BY <1>3, OpeningIInv, RegisterIInv, EnsureAppRunIInv DEF Step
<1> QED  BY <1>1, <1>2, <1>3 DEF Next

\* The invariant holds of every behaviour.
LEMMA SpecIInv == Spec => []IInv
<1> QED  BY InitIInv, NextIInv, PTL DEF Spec

-----------------------------------------------------------------------------
\* A monitoring process finds its configuration in the file, whatever other
\* processes register (target_identity.go:19).
THEOREM ReadyMeansRegisteredThm == Spec => []ReadyMeansRegistered
<1>1. IInv => ReadyMeansRegistered  BY DEF IInv
<1> QED  BY <1>1, SpecIInv, PTL

\* A typed app run has the type of its target (write.go:137).
THEOREM RunTypesAgreeThm == Spec => []RunTypesAgree
<1>1. IInv => RunTypesAgree  BY DEF IInv
<1> QED  BY <1>1, SpecIInv, PTL

\* No binding stems from a refused configuration (target_identity.go:19).
THEOREM BoundByAcceptedConfigsThm == Spec => []BoundByAcceptedConfigs
<1>1. IInv => BoundByAcceptedConfigs  BY DEF IInv
<1> QED  BY <1>1, SpecIInv, PTL

\* A monitoring process has the whole version 2 schema (storage.go:77).
THEOREM ReadyMeansUsableThm == Spec => []ReadyMeansUsable
<1>1. IInv => ReadyMeansUsable
  <2> SUFFICES ASSUME IInv, NEW p \in Processes, pc[p] = "ready"
               PROVE  /\ file.version = CurrentVersion /\ file.added = Columns
                      /\ "statlite" \in file.tables
    BY DEF ReadyMeansUsable
  <2>1. file.version = CurrentVersion /\ file.added = Columns
    BY DEF IInv, Progress
  <2>2. file \in Files  BY DEF IInv, Shape
  <2>3. Columns # {}  BY DEF Columns
  <2> QED  BY <2>1, <2>2, <2>3 DEF Files
<1> QED  BY <1>1, SpecIInv, PTL

\* Bound names keep their types, and runs stay.
Kept ==
  /\ \A name \in DOMAIN targets :
       /\ name \in DOMAIN targets'
       /\ Bound(name) => targets'[name] = targets[name]
  /\ runs \subseteq runs'

\* Every step keeps them.
LEMMA KeptStep == IInv /\ [Next]_vars => [Kept]_vars
<1> USE DEF Kept
<1> SUFFICES ASSUME IInv, Next PROVE Kept  OBVIOUS
<1>1. CASE UNCHANGED rows  BY <1>1 DEF rows
<1>2. ASSUME NEW p \in Processes, RegisterTargets(p) PROVE Kept
  <2>1. CASE Conflicts(config[p])
    BY <1>2, <2>1 DEF RegisterTargets, Refuse
  <2>2. CASE ~Conflicts(config[p])
    <3>1. \A name \in DOMAIN config[p] : config[p][name] \in Types
      BY <1>2 DEF RegisterTargets, IInv, Shape
    <3>2. targets' = Bind(config[p]) /\ runs' = runs
      BY <1>2, <2>2 DEF RegisterTargets
    <3> QED  BY <2>2, <3>1, <3>2, BindKeeps
  <2> QED  BY <2>1, <2>2
<1>3. ASSUME NEW p \in Processes, EnsureAppRun(p) PROVE Kept
  BY <1>3 DEF EnsureAppRun, UpsertRun
<1>4. ASSUME NEW p \in Processes, Step(p), ~RegisterTargets(p), ~EnsureAppRun(p)
      PROVE  UNCHANGED rows
  BY <1>4 DEF Step, Boot, ReadVersion, CountObjects, InitializeFreshSchema,
     MigrateV1ToV2, CheckV2Columns, Exit
<1>5. ForeignTables => UNCHANGED rows  BY DEF ForeignTables
<1> QED  BY <1>1, <1>2, <1>3, <1>4, <1>5 DEF Next

\* Bindings and runs are never rewritten (target_identity.go:17).
THEOREM HistoryKeptThm == Spec => HistoryKept
<1>1. Spec => [][Kept]_vars  BY KeptStep, SpecIInv, PTL DEF Spec
<1> QED  BY <1>1 DEF HistoryKept, Kept

\* Only supported files are written.
Careful ==
  /\ \/ file' \in {file, [file EXCEPT !.tables = @ \cup {"foreign"}]}
     \/ Supported(file) /\ Supported(file')
  /\ ~Supported(file) => UNCHANGED rows

\* No step writes a file it does not support.
LEMMA CarefulStep == IInv /\ [Next]_vars => [Careful]_vars
<1> USE DEF Careful
<1> SUFFICES ASSUME IInv, Next PROVE Careful  OBVIOUS
<1>1. CASE ForeignTables  BY <1>1 DEF ForeignTables
<1>2. ASSUME NEW p \in Processes, Step(p), pc[p] \notin {"fresh", "migrate"}
      PROVE  Careful
  <2>1. UNCHANGED file
    BY <1>2 DEF Step, Boot, ReadVersion, CountObjects, InitializeFreshSchema,
       MigrateV1ToV2, CheckV2Columns, RegisterTargets, EnsureAppRun, Exit
  <2>2. UNCHANGED rows \/ pc[p] \in {"register", "ready"}
    BY <1>2 DEF Step, Boot, ReadVersion, CountObjects, InitializeFreshSchema,
       MigrateV1ToV2, CheckV2Columns, RegisterTargets, EnsureAppRun, Exit
  <2>3. pc[p] \in {"register", "ready"} => Supported(file)
    BY DEF IInv, Progress, Supported
  <2> QED  BY <2>1, <2>2, <2>3
<1>3. ASSUME NEW p \in Processes, InitializeFreshSchema(p) PROVE Careful
  <2>1. UNCHANGED rows  BY <1>3 DEF InitializeFreshSchema
  <2>2. CASE StillFresh
    <3>1. /\ file.version = 0 /\ file.tables = {}
          /\ file' = [file EXCEPT !.version = 2, !.added = Columns,
                                  !.tables = @ \cup {"statlite"}]
      BY <1>3, <2>2 DEF InitializeFreshSchema, StillFresh, CurrentVersion
    <3>2. file'.version = 2 /\ file'.added = Columns
      BY <3>1 DEF IInv, Shape, Files
    <3> QED  BY <2>1, <3>1, <3>2 DEF Supported, CurrentVersion
  <2>3. CASE ~StillFresh  BY <1>3, <2>1, <2>3 DEF InitializeFreshSchema
  <2> QED  BY <2>2, <2>3
<1>4. ASSUME NEW p \in Processes, MigrateV1ToV2(p) PROVE Careful
  <2>1. UNCHANGED rows  BY <1>4 DEF MigrateV1ToV2
  <2>2. CASE Migratable
    <3>1. file' = [file EXCEPT !.added = Columns, !.version = 2]
      BY <1>4, <2>2 DEF MigrateV1ToV2, Migrated, CurrentVersion
    <3>2. file'.version = 2 /\ file'.added = Columns
      BY <3>1 DEF IInv, Shape, Files
    <3> QED  BY <2>1, <2>2, <3>2 DEF Supported, Migratable, CurrentVersion
  <2>3. CASE ~Migratable  BY <1>4, <2>1, <2>3 DEF MigrateV1ToV2
  <2> QED  BY <2>2, <2>3
<1>5. ASSUME NEW p \in Processes, Step(p), pc[p] \in {"fresh", "migrate"},
             ~InitializeFreshSchema(p), ~MigrateV1ToV2(p)
      PROVE  Careful
  BY <1>5 DEF Step, Boot, ReadVersion, CountObjects, CheckV2Columns,
     RegisterTargets, EnsureAppRun, Exit
<1> QED  BY <1>1, <1>2, <1>3, <1>4, <1>5 DEF Next

\* StatLite writes only files it supports, and leaves them supported
\* (storage.go:77, migration_v1.go:11): the transactions read again what the
\* loop read before them.
THEOREM WritesAreSupportedThm == Spec => WritesAreSupported
<1>1. Spec => [][Careful]_vars  BY CarefulStep, SpecIInv, PTL DEF Spec
<1> QED  BY <1>1 DEF WritesAreSupported, Careful

\* What a process on its way knows of the file, if nobody else has been at it.
Knows(p) ==
  /\ pc[p] = "objects" => file.version = 0
  /\ pc[p] = "fresh" => StillFresh
  /\ pc[p] = "migrate" => \/ file.version = 1
                          \/ file.version = 0 /\ file.tables # {}
  /\ pc[p] = "refused" => ~Supported(file) \/ Conflicts(config[p])

KnowsWhatItRead == \A p \in Processes : p \in disturbed \/ Knows(p)

\* What a process was refused for stays, whatever the others do.
LEMMA CausesStay ==
  ASSUME IInv, Next, NEW p \in Processes, UNCHANGED <<pc[p], config[p]>>
  PROVE  ~Supported(file) \/ Conflicts(config[p])
           => ~Supported(file)' \/ Conflicts(config[p])'
<1>1. CASE ~Supported(file)
  <2>1. file' \in {file, [file EXCEPT !.tables = @ \cup {"foreign"}]}
    BY <1>1, CarefulStep DEF Careful, vars
  <2>2. file \in Files  BY DEF IInv, Shape
  <2>3. CASE file' = file  BY <1>1, <2>3 DEF Supported
  <2>4. CASE file' = [file EXCEPT !.tables = @ \cup {"foreign"}]
    <3>1. /\ file'.version = file.version /\ file'.added = file.added
          /\ file'.sound = file.sound
          /\ file'.tables = file.tables \cup {"foreign"}
      BY <2>2, <2>4 DEF Files
    <3> QED  BY <1>1, <3>1 DEF Supported
  <2> QED  BY <2>1, <2>3, <2>4
<1>2. CASE Conflicts(config[p])
  <2>1. Kept  BY KeptStep, <1>2 DEF Kept, vars
  <2> QED  BY <1>2, <2>1 DEF Kept, Conflicts, Bound
<1> QED  BY <1>1, <1>2

\* Another actor's step leaves what p knows, or disturbs p.
LEMMA OthersStep ==
  ASSUME IInv, Next, NEW p \in Processes, UNCHANGED <<pc[p], config[p]>>,
         p \in disturbed \/ Knows(p),
         p \in disturbed => p \in disturbed',
         UNCHANGED file \/ pc[p] \in {"down", "refused"} \/ p \in disturbed'
  PROVE  p \in disturbed' \/ Knows(p)'
<1> SUFFICES ASSUME p \notin disturbed' PROVE Knows(p)'  OBVIOUS
<1>1. Knows(p)  OBVIOUS
<1>2. CASE pc[p] = "refused"  BY <1>1, <1>2, CausesStay DEF Knows
<1>3. CASE pc[p] = "down"  BY <1>3 DEF Knows
<1>4. CASE pc[p] # "refused" /\ UNCHANGED file
  BY <1>1, <1>4 DEF Knows, StillFresh
<1> QED  BY <1>2, <1>3, <1>4

\* A process's own step: it goes on with what it just read.
LEMMA OwnStep ==
  ASSUME IInv, NEW p \in Processes, Step(p), p \in disturbed \/ Knows(p)
  PROVE  p \in disturbed' \/ Knows(p)'
<1>0. Shape /\ Progress  BY DEF IInv
<1> SUFFICES ASSUME p \notin disturbed' PROVE Knows(p)'  OBVIOUS
<1>1. CASE Boot(p)  BY <1>0, <1>1 DEF Boot, Goto, Shape, Knows
<1>2. CASE ReadVersion(p)
  <2>1. file' = file /\ pc'[p] \in {"objects", "migrate", "check", "refused"}
    BY <1>0, <1>2 DEF ReadVersion, Goto, Shape
  <2>2. /\ pc'[p] = "objects" => file.version = 0
        /\ pc'[p] = "migrate" => file.version = 1
        /\ pc'[p] = "refused" => file.version \notin {0, 1, CurrentVersion}
    BY <1>0, <1>2 DEF ReadVersion, Goto, Shape, CurrentVersion
  <2> QED  BY <2>1, <2>2 DEF Knows, Supported
<1>3. CASE CountObjects(p)
  <2>1. Knows(p)  BY <1>3 DEF CountObjects
  <2>2. file.version = 0 /\ file' = file  BY <1>3, <2>1 DEF Knows, CountObjects
  <2>3. pc'[p] = IF file.tables = {} THEN "fresh" ELSE "migrate"
    BY <1>0, <1>3 DEF CountObjects, Goto, Shape
  <2> QED  BY <2>2, <2>3 DEF Knows, StillFresh
<1>4. CASE InitializeFreshSchema(p)
  <2>1. CASE StillFresh
    BY <1>0, <1>4, <2>1 DEF InitializeFreshSchema, Goto, Shape, Knows
  <2>2. CASE ~StillFresh
    <3>1. Knows(p)  BY <1>4, <2>2 DEF InitializeFreshSchema
    <3> QED  BY <1>4, <2>2, <3>1 DEF InitializeFreshSchema, Knows
  <2> QED  BY <2>1, <2>2
<1>5. CASE MigrateV1ToV2(p)
  <2>1. CASE Migratable
    BY <1>0, <1>5, <2>1 DEF MigrateV1ToV2, Goto, Shape, Knows
  <2>2. CASE ~Migratable
    <3>1. Knows(p)  BY <1>5, <2>2 DEF MigrateV1ToV2
    <3>2. pc'[p] = "refused" /\ file' = file
      BY <1>0, <1>5, <2>2 DEF MigrateV1ToV2, Goto, Shape
    <3>3. pc[p] = "migrate"  BY <1>5 DEF MigrateV1ToV2
    <3>4. \/ file.version = 1
          \/ file.version = 0 /\ file.tables # {}
      BY <3>1, <3>3 DEF Knows
    <3>5. ~Supported(file)
      BY <2>2, <3>4 DEF Supported, Migratable, CurrentVersion
    <3> QED  BY <3>2, <3>5 DEF Knows, Supported
  <2> QED  BY <2>1, <2>2
<1>6. CASE CheckV2Columns(p)
  <2>1. file.version = 2 /\ file' = file
    BY <1>0, <1>6 DEF CheckV2Columns, Progress, CurrentVersion
  <2>2. pc'[p] = IF file.added = Columns THEN "register" ELSE "refused"
    BY <1>0, <1>6 DEF CheckV2Columns, Goto, Shape
  <2> QED  BY <2>1, <2>2 DEF Knows, Supported, CurrentVersion
<1>7. CASE RegisterTargets(p)
  <2>1. CASE Conflicts(config[p])
    <3>1. Conflicts(config[p])' /\ pc'[p] = "refused"
      BY <1>0, <1>7, <2>1 DEF RegisterTargets, Refuse, Goto, Shape, Conflicts, Bound
    <3> QED  BY <3>1 DEF Knows
  <2>2. CASE ~Conflicts(config[p])
    BY <1>0, <1>7, <2>2 DEF RegisterTargets, Goto, Shape, Knows
  <2> QED  BY <2>1, <2>2
<1>8. CASE EnsureAppRun(p)  BY <1>0, <1>8 DEF EnsureAppRun, Knows
<1>9. CASE Exit(p)  BY <1>0, <1>9 DEF Exit, Goto, Shape, Knows
<1> QED  BY <1>1, <1>2, <1>3, <1>4, <1>5, <1>6, <1>7, <1>8, <1>9 DEF Step

\* Every step keeps it.
LEMMA KnowsStep ==
  ASSUME IInv, KnowsWhatItRead, Next
  PROVE  KnowsWhatItRead'
<1> SUFFICES ASSUME NEW p \in Processes PROVE p \in disturbed' \/ Knows(p)'
  BY DEF KnowsWhatItRead
<1>0. Shape  BY DEF IInv
<1>1. p \in disturbed \/ Knows(p)  BY DEF KnowsWhatItRead
<1>2. CASE ForeignTables
  <2>1. /\ UNCHANGED <<pc[p], config[p]>>
        /\ p \in disturbed => p \in disturbed'
        /\ pc[p] \in {"down", "refused"} \/ p \in disturbed'
    BY <1>2 DEF ForeignTables
  <2> QED  BY <1>1, <2>1, OthersStep
<1>3. ASSUME NEW q \in Processes \ {p}, Step(q) PROVE p \in disturbed' \/ Knows(p)'
  <2>1. UNCHANGED <<pc[p], config[p]>>
    BY <1>0, <1>3 DEF Step, Boot, ReadVersion, CountObjects, InitializeFreshSchema,
       MigrateV1ToV2, CheckV2Columns, RegisterTargets, EnsureAppRun, Exit, Goto, Shape
  <2>2. /\ p \in disturbed => p \in disturbed'
        /\ UNCHANGED file \/ pc[p] \in {"down", "refused"} \/ p \in disturbed'
    BY <1>3 DEF Step, Boot, ReadVersion, CountObjects, InitializeFreshSchema,
       MigrateV1ToV2, CheckV2Columns, RegisterTargets, EnsureAppRun, Exit, Disturbs
  <2> QED  BY <1>1, <2>1, <2>2, OthersStep
<1>4. CASE Step(p)  BY <1>1, <1>4, OwnStep
<1> QED  BY <1>2, <1>3, <1>4 DEF Next

\* A refused process has a reason that is still there (storage.go:77,
\* target_identity.go:17), unless somebody else has been at the file meanwhile.
THEOREM RefusalHasCauseThm == Spec => []RefusalHasCause
<1>1. Init => KnowsWhatItRead  BY DEF Init, KnowsWhatItRead, Knows
<1>2. IInv /\ KnowsWhatItRead /\ [Next]_vars => KnowsWhatItRead'
  <2>1. CASE Next  BY <2>1, KnowsStep
  <2>2. CASE UNCHANGED vars
    BY <2>2 DEF vars, rows, KnowsWhatItRead, Knows, StillFresh, Supported,
       Conflicts, Bound
  <2> QED  BY <2>1, <2>2
<1>3. KnowsWhatItRead => RefusalHasCause
  BY DEF KnowsWhatItRead, Knows, RefusalHasCause
<1> QED  BY <1>1, <1>2, <1>3, SpecIInv, PTL DEF Spec

-----------------------------------------------------------------------------
(* Lifecycle: NoUnknownAnswer and ChecksStopped, for any number of requests. *)

Told == {"none", "accepted", "available", "ok", "error"}

\* A verdict that may be published has been reached, and from the first one on
\* there is a verdict to read; requests come later still.
VerdictKnown ==
  /\ request \in [Requests -> Told]
  /\ verdict \in {"unknown", "ok", "error"}
  /\ storageHealth \in {"unknown", "ok", "error"}
  /\ serving = "first_verdict" \/ checker = "publish" => verdict # "unknown"
  /\ serving \in {"none", "start", "first_check", "first_verdict"} =>
       /\ checker = "none"
       /\ \A r \in Requests : request[r] = "none"
  /\ serving \notin {"none", "start", "first_check", "first_verdict"} =>
       storageHealth # "unknown"

\* The function that cancels the checks is held by the server, then by one
\* goroutine, and then it has been called.
CancelHeld ==
  /\ main \in {"open", "prepare"} => serving = "none"
  /\ serving \in {"none", "start"} => ~cancelSet /\ toCancel = {}
  /\ serving \notin {"none", "start"} =>
       cancelSet \/ toCancel # {} \/ checks = "cancelled"
  /\ cancelSet \in BOOLEAN
  /\ toCancel \subseteq {"serve", "shutdown"}
  /\ serving \in {"cancel_checks", "report", "done"} => ~cancelSet

ProcessIInv == VerdictKnown /\ CancelHeld

\* The initial states satisfy the invariant.
LEMMA InitProcessIInv == ProcessInit => ProcessIInv
<1> SUFFICES ASSUME ProcessInit PROVE ProcessIInv
  OBVIOUS
<1>1. VerdictKnown
  BY DEF ProcessInit, VerdictKnown, Told
<1>2. CancelHeld
  BY DEF ProcessInit, CancelHeld
<1>3. QED
  BY <1>1, <1>2 DEF ProcessIInv

\* A step that changes nothing of the checks, of Serve and of the requests.
LEMMA Elsewhere ==
  ASSUME ProcessIInv, UNCHANGED <<healthChecks, serving, request>>,
         main' = main \/ main' \notin {"open", "prepare"} \/ main = "open"
  PROVE  ProcessIInv'
  BY SMT DEF ProcessIInv, VerdictKnown, CancelHeld, Told, healthChecks

\* A request that reads the verdict does so after the first one.
LEMMA Requested ==
  ASSUME ProcessIInv, NEW r \in Requests,
         AcceptRequest(r) \/ CheckAvailable(r) \/ ReadVerdict(r)
  PROVE  ProcessIInv'
<1>1. UNCHANGED <<main, serving, healthChecks>>
  BY DEF AcceptRequest, CheckAvailable, ReadVerdict, Answer, http, boot
<1>2. CancelHeld'
  BY <1>1, SMT DEF ProcessIInv, CancelHeld, healthChecks
<1>3. \E what \in Told : request' = [request EXCEPT ![r] = what]
  <2>1. CASE AcceptRequest(r)
    BY <2>1 DEF AcceptRequest, Answer, Told
  <2>2. CASE CheckAvailable(r)
    BY <2>2 DEF CheckAvailable, Answer, Told
  <2>3. CASE ReadVerdict(r)
    <3>1. storageHealth \in {"ok", "error"}
      BY <2>3, SMT DEF ReadVerdict, ProcessIInv, VerdictKnown
    <3>2. QED
      BY <2>3, <3>1 DEF ReadVerdict, Answer, Told
  <2>4. QED
    BY <2>1, <2>2, <2>3
<1>4. serving \notin {"none", "start", "first_check", "first_verdict"}
  BY SMT DEF ProcessIInv, VerdictKnown, AcceptRequest, CheckAvailable, ReadVerdict
<1>5. VerdictKnown'
  BY <1>1, <1>3, <1>4, SMT DEF ProcessIInv, VerdictKnown, Told, healthChecks
<1>6. QED
  BY <1>2, <1>5 DEF ProcessIInv

\* Whoever takes the function holds it, unless it was taken before.
LEMMA Taken ==
  ASSUME NEW g \in {"serve", "shutdown"}, CancelHeld, TakeCancel(g)
  PROVE  /\ checks' = checks /\ cancelSet' = FALSE
         /\ toCancel' \subseteq {"serve", "shutdown"}
         /\ cancelSet \/ toCancel # {} => toCancel' # {}
         /\ ~cancelSet => toCancel' = toCancel
<1>1. CASE cancelSet
  BY <1>1 DEF TakeCancel, CancelHeld
<1>2. CASE ~cancelSet
  BY <1>2 DEF TakeCancel, CancelHeld
<1>3. QED
  BY <1>1, <1>2

\* Every step keeps the invariant.
LEMMA NextProcessIInv == ProcessIInv /\ [ProcessNext]_processVars => ProcessIInv'
<1> SUFFICES ASSUME ProcessIInv, [ProcessNext]_processVars PROVE ProcessIInv'
  OBVIOUS
<1> USE DEF ProcessIInv, VerdictKnown, CancelHeld
<1>1. CASE Signal
  BY <1>1, Elsewhere DEF Signal, http, boot
<1>2. CASE OpenStore
  BY <1>2, Elsewhere DEF OpenStore, http, boot
<1>3. CASE Prepare
  BY <1>3, SMT DEF Prepare, healthChecks, boot
<1>4. CASE ReceiveServeErr
  BY <1>4, Elsewhere DEF ReceiveServeErr, http, boot
<1>5. CASE CloseStore
  BY <1>5, Elsewhere DEF CloseStore, http, boot
<1>6. CASE StopAndExit
  BY <1>6, Elsewhere DEF StopAndExit, http, boot
<1>7. CASE Tick
  BY <1>7, SMT DEF Tick, Ping, http, boot
<1>8. CASE PublishTick
  BY <1>8, SMT DEF PublishTick, Publish, http, boot
<1>9. CASE ChecksDone
  BY <1>9, SMT DEF ChecksDone, http, boot
<1>10. CASE StartChecks
  BY <1>10, SMT DEF StartChecks, ServeGoto, boot
<1>11. CASE FirstCheck
  BY <1>11, SMT DEF FirstCheck, Ping, ServeGoto, boot
<1>12. CASE FirstVerdict
  BY <1>12, SMT DEF FirstVerdict, LaunchChecker, Publish, ServeGoto, boot
<1>13. CASE ServeReturns
  BY <1>13, SMT DEF ServeReturns, ServeGoto, healthChecks, boot
<1>14. CASE ServeStopsChecks
  <2>1. TakeCancel("serve")
    BY <1>14 DEF ServeStopsChecks, ServeTakesCancel
  <2>2. UNCHANGED <<main, request, checker, verdict, storageHealth>>
    BY <1>14, <2>1 DEF ServeStopsChecks, ServeTakesCancel, ServeGoto, TakeCancel, boot
  <2>3. VerdictKnown'
    BY <1>14, <2>2, SMT DEF ServeStopsChecks, ServeTakesCancel, ServeGoto
  <2>4. CancelHeld'
    <3>1. /\ checks' = checks /\ cancelSet' = FALSE
          /\ toCancel' \subseteq {"serve", "shutdown"}
          /\ cancelSet \/ toCancel # {} => toCancel' # {}
          /\ ~cancelSet => toCancel' = toCancel
      BY <2>1, Taken
    <3>2. serving' \notin {"none", "start"} =>
            cancelSet' \/ toCancel' # {} \/ checks' = "cancelled"
      BY <1>14, <3>1 DEF ServeStopsChecks, ServeTakesCancel, ServeGoto
    <3>3. serving' \in {"none", "start"} => ~cancelSet' /\ toCancel' = {}
      BY <1>14, <3>1 DEF ServeStopsChecks, ServeTakesCancel, ServeGoto
    <3>4. main' \in {"open", "prepare"} => serving' = "none"
      BY <1>14, <2>2 DEF ServeStopsChecks, ServeTakesCancel, ServeGoto
    <3>5. QED
      BY <3>1, <3>2, <3>3, <3>4
  <2>5. QED
    BY <2>3, <2>4
<1>15. CASE ServeCancelsChecks
  BY <1>15, SMT DEF ServeCancelsChecks, CallCancel, ServeGoto, boot
<1>16. CASE Report
  BY <1>16, SMT DEF Report, ServeGoto, healthChecks, boot
<1>17. CASE ShutdownStopsChecks
  <2>1. TakeCancel("shutdown")
    BY <1>17 DEF ShutdownStopsChecks
  <2>2. UNCHANGED <<main, request, checker, verdict, storageHealth>>
    BY <1>17, <2>1 DEF ShutdownStopsChecks, ShutdownGoto, TakeCancel, boot
  <2>3. VerdictKnown'
    BY <1>17, <2>2, SMT DEF ShutdownStopsChecks, ShutdownGoto
  <2>4. CancelHeld'
    <3>1. /\ checks' = checks /\ cancelSet' = FALSE
          /\ toCancel' \subseteq {"serve", "shutdown"}
          /\ cancelSet \/ toCancel # {} => toCancel' # {}
          /\ ~cancelSet => toCancel' = toCancel
      BY <2>1, Taken
    <3>2. serving' \notin {"none", "start"} =>
            cancelSet' \/ toCancel' # {} \/ checks' = "cancelled"
      BY <1>17, <3>1 DEF ShutdownStopsChecks, ShutdownGoto
    <3>3. serving' \in {"none", "start"} => ~cancelSet' /\ toCancel' = {}
      BY <1>17, <3>1 DEF ShutdownStopsChecks, ShutdownGoto
    <3>4. main' \in {"open", "prepare"} => serving' = "none"
      BY <1>17, <2>2 DEF ShutdownStopsChecks, ShutdownGoto
    <3>5. QED
      BY <3>1, <3>2, <3>3, <3>4
  <2>5. QED
    BY <2>3, <2>4
<1>18. CASE ShutdownCancelsChecks
  BY <1>18, SMT DEF ShutdownCancelsChecks, CallCancel, ShutdownGoto, boot
<1>19. CASE ShutdownHTTP
  BY <1>19, Elsewhere DEF ShutdownHTTP, ShutdownGoto, boot
<1>20. CASE \E r \in Requests : AcceptRequest(r) \/ CheckAvailable(r) \/ ReadVerdict(r)
  BY <1>20, Requested
<1>21. CASE UNCHANGED processVars
  BY <1>21, Elsewhere DEF processVars, healthChecks, boot
<1>22. QED
  BY <1>1, <1>2, <1>3, <1>4, <1>5, <1>6, <1>7, <1>8, <1>9, <1>10, <1>11, <1>12,
     <1>13, <1>14, <1>15, <1>16, <1>17, <1>18, <1>19, <1>20, <1>21 DEF ProcessNext

\* The invariant holds for ever.
LEMMA AlwaysIInv == ProcessSpec => []ProcessIInv
  BY InitProcessIInv, NextProcessIInv, PTL DEF ProcessSpec

\* /healthz never answers with the verdict of a check that was not made.
THEOREM NoUnknownAnswerThm == ProcessSpec => []NoUnknownAnswer
<1>1. ProcessIInv => NoUnknownAnswer
  <2> SUFFICES ASSUME ProcessIInv, NEW r \in Requests PROVE request[r] # "unknown"
    BY DEF NoUnknownAnswer
  <2>1. request[r] \in Told
    BY DEF ProcessIInv, VerdictKnown
  <2>2. QED
    BY <2>1 DEF Told
<1>2. QED
  BY <1>1, AlwaysIInv, PTL

\* Storage checks end with Serve, whichever of Serve and Shutdown came first.
THEOREM ChecksStoppedThm == ProcessSpec => []ChecksStopped
<1>1. ProcessIInv => ChecksStopped
  BY SMT DEF ProcessIInv, CancelHeld, ChecksStopped
<1>2. QED
  BY <1>1, AlwaysIInv, PTL
=============================================================================
