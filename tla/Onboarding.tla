------------------------------ MODULE Onboarding ------------------------------
(***************************************************************************)
(* `statlite inspect` at work: processes that probe an application one     *)
(* request at a time while it may be deployed anew or stopped, and then    *)
(* create a configuration file or append to one that other such processes, *)
(* a user's editor and StatLite share.  No lock guards the file; each      *)
(* system call is a step.                                                  *)
(*                                                                         *)
(* Probing only reads the application, so that one process at a time is    *)
(* between its first and its last request; what it found may lie around    *)
(* as long as others take.                                                 *)
(***************************************************************************)
EXTENDS Inspection

CONSTANTS
  Inspectors,    \* processes running inspect
  Requests,      \* command lines: [type, url, name, mode]
  Applications,  \* what the application may serve: base -> suffix -> answer
  Files,         \* what the user may write into the configuration file
  OddFiles,      \* files that are only loaded
  MaxChanges     \* bound on deployments and on edits

CommandLine ==
  [type : {"", "spring", "quarkus", "micronaut"}, url : URL, name : Text,
   mode : {"print", "create", "add"}]

\* The path given to an untyped inspection is a base, whatever it is.
ASSUME InputsAssumption ==
  /\ Requests \subseteq CommandLine /\ Files \cup OddFiles \subseteq ConfigFile
  /\ \A request \in Requests : request.type = "" => request.url.suffix = ""

VARIABLES
  app,        \* what the application serves
  file,       \* the configuration file
  sound,      \* history: the file loaded when its author left it, and each later
              \* step appended to what it had read
  confirmed,  \* targets reported as written since the user's last edit
  insp,       \* each process
  changes     \* deployments and edits so far

vars == <<app, file, sound, confirmed, insp, changes>>

NoAnswers == [health |-> "", statlite |-> "", quarkus |-> ""]

\* "steady" and "late" are history: the application stayed as it was since the
\* first request, and the deadline of the inspection passed.
Idle ==
  [pc |-> "idle", request |-> [type |-> "", url |-> NoURL, name |-> "", mode |-> ""],
   seen |-> NoAnswers, result |-> NoSuggestion, steady |-> FALSE, late |-> FALSE, read |-> NoFile]

Off == [Idle EXCEPT !.pc = "off"]

ProbeLabels == {"health", "statlite", "quarkus", "prometheus", "index", "direct", "exact", "fallback"}
Probing == {i \in Inspectors : insp[i].pc \in ProbeLabels}
Creating == {i \in Inspectors : insp[i].pc \in {"write", "remove"}}

Goto(i, pc) == insp' = [insp EXCEPT ![i].pc = pc]
Exit(i) == insp' = [insp EXCEPT ![i] = Off]

-----------------------------------------------------------------------------
(* Probing.                                                                *)

\* The deadline is the inspection's, not a request's.
Answer(i, url) == IF insp[i].late THEN "slow" ELSE app[url.base][url.suffix]

Base(i) == insp[i].request.url.base
Exact(i) == Endpoints(insp[i].request.type, insp[i].request.url)

\* Typed inspection of Spring is refused without a request.
Run(i, request) ==
  /\ insp[i].pc = "idle" /\ Probing = {}
  /\ insp' = [insp EXCEPT ![i] =
                IF request.type = "spring" THEN Off
                ELSE [Idle EXCEPT !.pc = IF request.type = "" THEN "health" ELSE "exact",
                                  !.request = request, !.steady = TRUE]]
  /\ UNCHANGED <<app, file, sound, confirmed, changes>>

DeadlinePasses(i) ==
  /\ i \in Probing /\ ~insp[i].late
  /\ insp' = [insp EXCEPT ![i].late = TRUE]
  /\ UNCHANGED <<app, file, sound, confirmed, changes>>

\* The target suggested: by default it is named after its type, host and port,
\* of which there is one host and port here.
Name(i) == IF insp[i].request.name = "" THEN insp[i].result.type ELSE insp[i].request.name
NewTarget(i) == Target(insp[i].result.type, Name(i), insp[i].result.url)

Find(i, result) ==
  insp' = [insp EXCEPT ![i].pc = "found", ![i].result = result, ![i].seen = NoAnswers]

ProbeHealth(i) ==
  /\ insp[i].pc = "health"
  /\ insp' = [insp EXCEPT ![i].pc = "statlite",
                          ![i].seen.health = Answer(i, At(Base(i), "actuator/health"))]
  /\ UNCHANGED <<app, file, sound, confirmed, changes>>

ProbeStatlite(i) ==
  /\ insp[i].pc = "statlite"
  /\ insp' = [insp EXCEPT ![i].pc = "quarkus",
                          ![i].seen.statlite = Answer(i, At(Base(i), "statlite/metrics"))]
  /\ UNCHANGED <<app, file, sound, confirmed, changes>>

ProbeQuarkus(i) ==
  /\ insp[i].pc = "quarkus"
  /\ LET seen == [insp[i].seen EXCEPT !.quarkus = Answer(i, At(Base(i), "q/metrics"))]
     IN  CASE Verdict(seen) = "none" -> Goto(i, "direct")
           [] Verdict(seen) = "one" /\ Matches(seen) = {"spring"} ->
                insp' = [insp EXCEPT ![i].pc = "prometheus", ![i].seen = seen]
           [] Verdict(seen) = "one" /\ Matches(seen) # {"spring"} ->
                Find(i, Suggested(Base(i), seen))
           [] OTHER -> Exit(i)
  /\ UNCHANGED <<app, file, sound, confirmed, changes>>

ProbePrometheus(i) ==
  /\ insp[i].pc = "prometheus"
  /\ LET answer == Answer(i, At(Base(i), "actuator/prometheus"))
     IN  IF AsksIndex(answer) THEN Goto(i, "index")
         ELSE Find(i, Suggestion("spring", At(Base(i), "actuator"), Compatible(answer)))
  /\ UNCHANGED <<app, file, sound, confirmed, changes>>

ProbeIndex(i) ==
  /\ insp[i].pc = "index"
  /\ Find(i, Suggestion("spring", At(Base(i), "actuator"),
                        Answer(i, At(Base(i), "actuator/metrics")) = "index"))
  /\ UNCHANGED <<app, file, sound, confirmed, changes>>

\* The URL itself may be a StatLite metrics endpoint.
ProbeDirect(i) ==
  /\ insp[i].pc = "direct"
  /\ LET answer == Answer(i, insp[i].request.url)
     IN  IF IsStatlite(answer)
         THEN Find(i, Suggestion("statlite-metrics", insp[i].request.url, answer = "statlite"))
         ELSE Exit(i)
  /\ UNCHANGED <<app, file, sound, confirmed, changes>>

\* A typed inspection scrapes the first endpoint and, after a conclusive miss,
\* the second one.
Scrape(i) ==
  /\ insp[i].pc \in {"exact", "fallback"}
  /\ LET type     == insp[i].request.type
         endpoint == Exact(i)[IF insp[i].pc = "exact" THEN 1 ELSE 2]
         answer   == Answer(i, endpoint)
     IN  IF Compatible(answer) THEN Find(i, Suggestion(type, endpoint, TRUE))
         ELSE IF insp[i].pc = "exact" /\ Len(Exact(i)) = 2 /\ ConclusiveMiss(type, answer)
         THEN Goto(i, "fallback")
         ELSE Exit(i)
  /\ UNCHANGED <<app, file, sound, confirmed, changes>>

-----------------------------------------------------------------------------
(* The configuration file.                                                 *)

\* The suggestion is validated as a configuration of its own and then printed,
\* or written as the command line asks.
Suggest(i) ==
  /\ insp[i].pc = "found"
  /\ IF Validate(<<NewTarget(i)>>).accepted
     THEN Goto(i, insp[i].request.mode)
     ELSE Exit(i)
  /\ UNCHANGED <<app, file, sound, confirmed, changes>>

Show(i) ==
  /\ insp[i].pc = "print"
  /\ Exit(i)
  /\ UNCHANGED <<app, file, sound, confirmed, changes>>

Confirmation(i, raced) == [target |-> NewTarget(i), raced |-> raced]

\* What a write that fails half-way leaves of an entry: text that no longer
\* parses, an entry without its URL, or one whose URL is cut.
CutEntries(t) == {[t EXCEPT !.url = NoURL], [t EXCEPT !.url.suffix = "cut"]}

CutFiles(f, t) ==
  {[f EXCEPT !.parses = FALSE]} \cup {[f EXCEPT !.targets = Append(@, e)] : e \in CutEntries(t)}

\* Mutant: without O_EXCL.
OpenTruncating(i) ==
  /\ insp[i].pc = "create"
  /\ file' = [File(<<>>) EXCEPT !.complete = FALSE, !.layout = FALSE] /\ sound' = FALSE
  /\ Goto(i, "write")
  /\ UNCHANGED <<app, confirmed, changes>>

\* os.OpenFile with O_CREATE and O_EXCL.
Open(i) ==
  /\ insp[i].pc = "create"
  /\ IF file.exists
     THEN Exit(i) /\ UNCHANGED <<file, sound>>
     ELSE /\ file' = [File(<<>>) EXCEPT !.complete = FALSE, !.layout = FALSE] /\ sound' = FALSE
          /\ Goto(i, "write")
  /\ UNCHANGED <<app, confirmed, changes>>

Write(i) ==
  /\ insp[i].pc = "write"
  /\ \/ /\ file' = File(<<NewTarget(i)>>) /\ sound' = TRUE
        /\ confirmed' = confirmed \cup {Confirmation(i, FALSE)}
        /\ Exit(i)
     \/ /\ file' \in CutFiles(File(<<>>), NewTarget(i)) \cup {file}
        /\ Goto(i, "remove")
        /\ UNCHANGED <<sound, confirmed>>
  /\ UNCHANGED <<app, changes>>

Remove(i) ==
  /\ insp[i].pc = "remove"
  /\ file' = NoFile /\ sound' = FALSE
  /\ Exit(i)
  /\ UNCHANGED <<app, confirmed, changes>>

Read(i) ==
  /\ insp[i].pc = "add"
  /\ IF Appendable(file, NewTarget(i))
     THEN insp' = [insp EXCEPT ![i].pc = "append", ![i].read = file]
     ELSE Exit(i)
  /\ UNCHANGED <<app, file, sound, confirmed, changes>>

\* The file now ends with an entry cut short, perhaps within a line, and the line
\* feed that the new entry would need before it was decided from what was read.
EndsCut(i) ==
  /\ file # insp[i].read /\ file.targets # <<>>
  /\ LET last == file.targets[Len(file.targets)]
     IN  last.url = NoURL \/ last.url.suffix = "cut"

\* O_APPEND: the entry goes to the end of what is there by then, indented as the
\* list that was read.
AppendEntry(i) ==
  /\ insp[i].pc = "append"
  /\ \/ /\ file.exists
        /\ \E parses \in {file.parses} \cup (IF EndsCut(i) THEN {FALSE} ELSE {}) :
             file' = IF file.layout
                     THEN [file EXCEPT !.targets = Append(@, NewTarget(i)), !.parses = parses]
                     ELSE [file EXCEPT !.parses = FALSE]
        /\ sound' = (sound /\ file = insp[i].read)
        /\ confirmed' = confirmed \cup {Confirmation(i, Creating # {} \/ ~file.layout)}
     \/ /\ file.exists
        /\ file' \in CutFiles(file, NewTarget(i)) /\ sound' = FALSE
        /\ UNCHANGED confirmed
     \/ ~file.exists /\ UNCHANGED <<file, sound, confirmed>>
  /\ Exit(i)
  /\ UNCHANGED <<app, changes>>

\* The process is killed; what it wrote stays.
Interrupt(i) ==
  /\ insp[i].pc \in {"write", "remove", "append"}
  /\ Exit(i)
  /\ UNCHANGED <<app, file, sound, confirmed, changes>>

-----------------------------------------------------------------------------
(* Others.                                                                 *)

\* The application is deployed anew, or stopped.
Deploy ==
  /\ changes < MaxChanges /\ Probing # {}
  /\ app' \in Applications \ {app}
  /\ insp' = [i \in Inspectors |-> [insp[i] EXCEPT !.steady = FALSE]]
  /\ changes' = changes + 1
  /\ UNCHANGED <<file, sound, confirmed>>

\* The user replaces the file, not under a process that is creating it.
Edit ==
  /\ changes < MaxChanges /\ Probing = {} /\ Creating = {}
  /\ \E i \in Inspectors : insp[i].pc # "off"
  /\ file' \in Files \ {file} /\ sound' = Load(file').accepted
  /\ confirmed' = {}
  /\ changes' = changes + 1
  /\ UNCHANGED <<app, insp>>

Init ==
  /\ \/ /\ file \in Files /\ app \in Applications
        /\ insp = [i \in Inspectors |-> Idle]
     \/ /\ app = CHOOSE served \in Applications : TRUE
        /\ file \in OddFiles
        /\ insp = [i \in Inspectors |-> Off]
  /\ sound = Load(file).accepted
  /\ confirmed = {} /\ changes = 0

Probe(i) ==
  \/ DeadlinePasses(i)
  \/ ProbeHealth(i) \/ ProbeStatlite(i) \/ ProbeQuarkus(i)
  \/ ProbePrometheus(i) \/ ProbeIndex(i) \/ ProbeDirect(i) \/ Scrape(i)

Store(i) ==
  \/ Suggest(i) \/ Show(i)
  \/ Open(i) \/ Write(i) \/ Remove(i) \/ Read(i) \/ AppendEntry(i) \/ Interrupt(i)

Next ==
  \/ \E i \in Inspectors :
       \/ \E request \in Requests : Run(i, request)
       \/ Probe(i) \/ Store(i)
  \/ Deploy \/ Edit

Spec == Init /\ [][Next]_vars

-----------------------------------------------------------------------------
(* The file.                                                               *)

Written == {file.targets[k] : k \in DOMAIN file.targets}

\* A target reported as written is in the file until the user edits it, whatever
\* other processes create, append or fail to do; but for one appended to a file
\* that was just being created, which goes if its creator fails.
ConfirmedTargetsStay ==
  \A c \in confirmed : ~c.raced => file.exists /\ c.target \in Written

\* A file StatLite accepts stays one when targets are added, as long as every
\* process appends to what it read, no write is cut short, and the environment
\* changes no name and no URL: then the checks made on the text of the file agree
\* with those Load makes after the upgrade of retired formats and the trimming of
\* names.
SoundFilesLoad ==
  sound /\ (\A t \in Written : Literal(t)) => Load(file).accepted

\* internal/config/config.go:142, "It is also used to validate generated onboarding
\* snippets": the same without regard to the environment, which Validate of a
\* snippet does not expand.
WrittenFilesLoad == sound => Load(file).accepted

\* What Load accepts, StatLite can be started with: every collector is built and
\* its clients take the URLs they are given, credentials included; and the
\* upgrade settles: accepted targets are accepted again as they are.
AcceptedFilesBuild ==
  LET loaded == Load(file)
  IN  loaded.accepted =>
        /\ \A k \in DOMAIN loaded.targets : Builds(loaded.targets[k])
        /\ Validate(loaded.targets) = loaded

-----------------------------------------------------------------------------
(* The suggestion.                                                         *)

\* What an undisturbed inspection of an application that stayed the same found.
Undisturbed(i) == insp[i].pc \notin ProbeLabels \cup {"idle", "off"} /\ insp[i].steady /\ ~insp[i].late

Obtains(t) == FirstCollection(Normalize(Upgrade(Expand(t))), app)

\* The collector that the suggested target selects collects from it, and obtains
\* metrics just when inspection said they are available; but for a URL that
\* refers to the environment, which is another one when it is loaded.
Collectable(i) ==
  Literal(NewTarget(i)) =>
    Obtains(NewTarget(i)) = IF insp[i].result.metrics THEN "metrics" ELSE "bare"

\* An untyped inspection suggests the one integration there is.
Unambiguous(i) ==
  insp[i].request.type = "" =>
    LET served == app[Base(i)]
    IN  Cardinality(Matches([health   |-> served["actuator/health"],
                             statlite |-> served["statlite/metrics"],
                             quarkus  |-> served["q/metrics"]])) <= 1

\* A typed inspection leaves the URL it was given only for one below it, where
\* the URL itself serves nothing compatible.
ExactFirst(i) ==
  insp[i].request.type # "" /\ insp[i].result.url # Exact(i)[1] =>
    LET url == insp[i].request.url IN ~Compatible(app[url.base][url.suffix])

\* A suggestion is right about an application that does not change meanwhile.
SuggestionsHold ==
  \A i \in Inspectors :
    Undisturbed(i) => Collectable(i) /\ Unambiguous(i) /\ ExactFirst(i)

\* docs/configuration.md:118, "Duplicate target names or endpoint URLs are
\* rejected": no other target of the loaded file is of the type and at the
\* endpoint of an added one.
Endpoint(t) == [type |-> t.type, base |-> t.url.base, suffix |-> t.url.suffix]

EndpointsConfiguredOnce ==
  LET loaded == Load(file).targets
  IN  \A k, l \in DOMAIN loaded :
        /\ \E c \in confirmed : ~c.raced /\ c.target = file.targets[l]
        /\ k < l
        => Endpoint(loaded[k]) # Endpoint(loaded[l])
=============================================================================
