---------------------------- MODULE Configuration ----------------------------
(***************************************************************************)
(* The configuration file: what config.Load makes of its targets, which of *)
(* them it accepts, what newCollector builds from an accepted one, and     *)
(* when `inspect --add-to-config` may append to it.                        *)
(*                                                                         *)
(* A value is its kind: a URL is where it points to and the parts a check  *)
(* looks at.  A file holds text; Load expands the environment in it before *)
(* anything else, `inspect` compares it as it is written.                  *)
(***************************************************************************)
EXTENDS Naturals, Sequences, FiniteSets

CONSTANTS
  Text,         \* what names, hosts, types, settings and the parts of paths are made of
  Environment,  \* what expandEnvironmentVariables makes of each
  References    \* those in which inspect sees a reference to the environment

Keywords ==
  {"", "absent", "spring", "statlite", "statlite-metrics", "quarkus", "micronaut",
   "auto", "actuator", "prometheus", "health", "statlite/metrics", "q/metrics",
   "q/health", "cut", "none"}

ASSUME TextAssumption == Keywords \subseteq Text

\* Words without a dollar sign are left as they are.  inspect looks for the
\* references that configEnvReference matches, and os.ExpandEnv replaces more: "$-".
ASSUME EnvironmentAssumption ==
  /\ Environment \in [Text -> Text] /\ References \subseteq Text
  /\ \A word \in Keywords : Environment[word] = word /\ word \notin References

\* kind: "absent" from the file, "empty", "bad" (not an absolute HTTP URL),
\* "padded" (one with blanks around it) or "http".  base and suffix are the
\* path, slash a trailing one.
NoURL ==
  [kind |-> "absent", base |-> "", suffix |-> "", slash |-> FALSE, user |-> FALSE,
   query |-> FALSE, fragment |-> FALSE]

URL ==
  [kind : {"absent", "empty", "bad", "padded", "http"}, base : Text, suffix : Text,
   slash : BOOLEAN, user : BOOLEAN, query : BOOLEAN, fragment : BOOLEAN]

At(base, suffix) == [NoURL EXCEPT !.kind = "http", !.base = base, !.suffix = suffix]

Given(url) == url.kind \notin {"absent", "empty"}

\* A target as it is written.  "Set" fields of TargetConfig: a value other than
\* "absent" was in the file.  The legacy flags are set by the upgrade.
Target(type, name, url) ==
  [type |-> type, name |-> name, padded |-> FALSE, url |-> url,
   actuator |-> NoURL, host |-> "absent", health |-> NoURL, source |-> "absent",
   hostMetrics |-> "absent", auth |-> "none", legacyUser |-> FALSE, legacyStatlite |-> FALSE]

TargetConfig ==
  [type : Text, name : Text, padded : BOOLEAN, url : URL,
   actuator : URL, host : Text, health : URL, source : Text, hostMetrics : Text,
   auth : Text, legacyUser : BOOLEAN, legacyStatlite : BOOLEAN]

\* "complete" stands for the server, storage and polling sections, which validate
\* checks before the targets; "layout" for everything that inspectionTargetAppend
\* asks of the YAML: one document, targets: last, one plain list.
ConfigFile ==
  [exists : BOOLEAN, parses : BOOLEAN, complete : BOOLEAN, layout : BOOLEAN,
   targets : Seq(TargetConfig)]

NoFile == [exists |-> FALSE, parses |-> FALSE, complete |-> FALSE, layout |-> FALSE, targets |-> <<>>]
File(targets) == [exists |-> TRUE, parses |-> TRUE, complete |-> TRUE, layout |-> TRUE, targets |-> targets]

-----------------------------------------------------------------------------
(* Load: expand the environment, upgrade, then validate.                   *)

ExpandURL(url) == [url EXCEPT !.base = Environment[@], !.suffix = Environment[@]]

Expand(t) ==
  [t EXCEPT !.type = Environment[@], !.name = Environment[@], !.host = Environment[@],
            !.source = Environment[@], !.hostMetrics = Environment[@], !.auth = Environment[@],
            !.url = ExpandURL(@), !.actuator = ExpandURL(@), !.health = ExpandURL(@)]

\* The environment changes nothing of a target that inspect compares.
Literal(t) ==
  /\ Environment[t.name] = t.name
  /\ ExpandURL(t.url) = t.url /\ ExpandURL(t.actuator) = t.actuator

\* The path of a retired statlite target is replaced, whatever it was.
StatliteMetricsURL(url) ==
  IF url.kind \notin {"http", "padded"} THEN [url EXCEPT !.kind = "bad"]
  ELSE [url EXCEPT !.kind = "http", !.base = "", !.suffix = "statlite/metrics", !.slash = FALSE]

Upgrade(t) ==
  CASE t.type \in {"", "spring"} /\ Given(t.actuator) /\ ~Given(t.url) ->
         [t EXCEPT !.type = "spring", !.url = t.actuator, !.actuator.kind = "empty",
                   !.legacyUser = t.actuator.kind = "http" /\ t.actuator.user]
    [] t.type = "statlite" ->
         [t EXCEPT !.type = "statlite-metrics", !.url = StatliteMetricsURL(t.url),
                   !.legacyStatlite = TRUE]
    [] t.type = "" -> [t EXCEPT !.type = "spring"]
    [] OTHER -> t

ValidURL(url, rejectUser, rejectQuery) ==
  /\ url.kind = "http" /\ ~url.fragment
  /\ ~(rejectUser /\ url.user) /\ ~(rejectQuery /\ url.query)

\* Mutant: embedded credentials are accepted wherever they come from.
ValidSpringWithUser(t) ==
  /\ ValidURL(t.url, FALSE, ~t.legacyUser)
  /\ ~Given(t.actuator)
  /\ t.source \in {"absent", "", "auto", "prometheus", "actuator"}
  /\ t.legacyUser => t.auth = "none" /\ t.source # "prometheus"

ValidSpring(t) ==
  /\ ValidURL(t.url, ~t.legacyUser, ~t.legacyUser)
  /\ ~Given(t.actuator)
  /\ t.source \in {"absent", "", "auto", "prometheus", "actuator"}
  /\ t.legacyUser => t.auth = "none" /\ t.source # "prometheus"

OnlySpringFields(t) ==
  t.actuator.kind = "absent" /\ t.source = "absent" /\ t.hostMetrics = "absent"

ValidMicrometer(t) ==
  /\ ValidURL(t.url, TRUE, FALSE)
  /\ Given(t.health) => ValidURL(t.health, TRUE, FALSE)

ValidTarget(t) ==
  /\ t.name # ""
  /\ t.type # "caddy" => t.host = "absent"
  /\ CASE t.type = "spring"           -> ValidSpring(t)
       [] t.type \in {"quarkus", "micronaut"} -> ValidMicrometer(t)
       [] t.type = "statlite-metrics" -> ValidURL(t.url, ~t.legacyStatlite, FALSE)
       [] t.type = "caddy"            -> ValidURL(t.url, TRUE, FALSE) /\ t.host \notin {"absent", "", "bad"}
       [] OTHER                       -> FALSE
  /\ t.type # "spring" => OnlySpringFields(t)
  /\ t.auth \in {"none", "basic"} /\ (t.type = "statlite-metrics" => t.auth = "none")
  /\ t.type \notin {"quarkus", "micronaut"} => t.health.kind = "absent"

\* What validation changes: names are trimmed, defaults filled in, and a target
\* with embedded credentials is read through Actuator.
Normalize(t) ==
  [t EXCEPT !.padded = FALSE,
            !.source = IF t.type # "spring" THEN @
                       ELSE IF t.legacyUser THEN "actuator"
                       ELSE IF @ \in {"absent", ""} THEN "auto" ELSE @]

\* No two Caddy targets select the same host of the same endpoint.
Selection(t) ==
  [url  |-> [t.url EXCEPT !.slash = @ \/ (t.url.base = "" /\ t.url.suffix = "")],
   host |-> t.host]

Validate(targets) ==
  LET upgraded == [i \in DOMAIN targets |-> Upgrade(targets[i])]
  IN  [accepted |->
         /\ targets # <<>>
         /\ \A i \in DOMAIN targets :
              /\ targets[i].type = "statlite" => ~targets[i].url.fragment
              /\ ValidTarget(upgraded[i])
              /\ \A j \in DOMAIN targets \ {i} :
                   /\ upgraded[i].name # upgraded[j].name
                   /\ upgraded[i].type = "caddy" /\ upgraded[j].type = "caddy"
                        => Selection(upgraded[i]) # Selection(upgraded[j]),
       targets |-> [i \in DOMAIN targets |-> Normalize(upgraded[i])]]

Expanded(targets) == [i \in DOMAIN targets |-> Expand(targets[i])]

Load(file) ==
  IF file.exists /\ file.parses /\ file.complete THEN Validate(Expanded(file.targets))
  ELSE [accepted |-> FALSE, targets |-> <<>>]

-----------------------------------------------------------------------------
(* newCollector.                                                           *)

\* The clients a collector asks for: an HTTP client that takes the credentials
\* out of its URL ("actuator"), one that leaves them to net/http ("statlite"),
\* or the Prometheus client, which refuses a URL with credentials.
Clients(t) ==
  CASE t.type = "spring"           -> {"actuator"} \cup (IF t.source = "actuator" \/ t.legacyUser THEN {} ELSE {"prometheus"})
    [] t.type = "statlite-metrics" -> {"statlite"}
    [] t.type \in {"quarkus", "micronaut", "caddy"} -> {"prometheus"}
    [] OTHER                       -> {}

\* The endpoint health is asked at, without configuration the conventional one
\* beside a conventional metrics endpoint.
HealthEndpoint(t) ==
  LET conventional == [quarkus |-> "q/metrics", micronaut |-> "prometheus"]
  IN  IF Given(t.health) THEN t.health
      ELSE IF t.url.suffix = conventional[t.type]
      THEN [t.url EXCEPT !.suffix = IF t.type = "quarkus" THEN "q/health" ELSE "health",
                         !.slash = FALSE, !.query = FALSE]
      ELSE NoURL

\* newCollector returns a collector whose every request is one its clients make.
Builds(t) ==
  /\ Clients(t) # {}
  /\ t.url.kind = "http" /\ ("prometheus" \in Clients(t) => ~t.url.user)
  /\ t.type = "caddy" => t.host \notin {"absent", ""}
  /\ t.type \in {"quarkus", "micronaut"} =>
       LET health == HealthEndpoint(t)
       IN  Given(health) => health.kind = "http" /\ ~health.user /\ ~health.fragment

-----------------------------------------------------------------------------
(* inspect --add-to-config.                                                *)

\* sameEndpoint: scheme, host and port are normalized, the path is not.
SameEndpoint(u, v) == u = v

UsesEnvironment(t) ==
  {t.name, t.url.base, t.url.suffix, t.actuator.base, t.actuator.suffix} \cap References # {}

\* Mutant: names are compared as they are written.
AppendableAsWritten(file, target) ==
  /\ file.exists /\ file.parses /\ file.layout /\ file.targets # <<>>
  /\ \A i \in DOMAIN file.targets :
       LET t == file.targets[i]
       IN  /\ ~UsesEnvironment(t)
           /\ t.name # target.name \/ t.padded
           /\ \A u \in {t.url, t.actuator} : Given(u) => ~SameEndpoint(u, target.url)

\* inspectionTargetAppend accepts the file as it was read.  It looks for
\* references in the targets that are there, not in the one to append.
Appendable(file, target) ==
  /\ file.exists /\ file.parses /\ file.layout /\ file.targets # <<>>
  /\ \A i \in DOMAIN file.targets :
       LET t == file.targets[i]
       IN  /\ ~UsesEnvironment(t)
           /\ t.name # target.name
           /\ \A u \in {t.url, t.actuator} : Given(u) => ~SameEndpoint(u, target.url)
=============================================================================
