--------------------------- MODULE OnboardingProofs ---------------------------
(***************************************************************************)
(* Proofs about Onboarding, for any number of processes, any command       *)
(* lines, applications and files: first of the file that processes write,  *)
(* then of the answers on which their suggestions rest.                    *)
(***************************************************************************)
EXTENDS Onboarding, FiniteSetTheorems, TLAPS

-----------------------------------------------------------------------------
(* What Load makes of targets.                                             *)

\* The types inspection suggests.
Suggestable == {"spring", "statlite-metrics", "quarkus", "micronaut"}

\* What suggestedInspectionTarget writes: a type, a name and a URL.
Plain(t) ==
  /\ t \in TargetConfig /\ t.type \in Suggestable
  /\ t.actuator = NoURL /\ t.health = NoURL
  /\ t.host = "absent" /\ t.source = "absent" /\ t.hostMetrics = "absent" /\ t.auth = "none"

LEMMA WordsAreText ==
  {"", "absent", "spring", "statlite", "statlite-metrics", "quarkus", "micronaut",
   "auto", "actuator", "prometheus", "health", "statlite/metrics", "q/metrics",
   "q/health", "cut", "none"} \subseteq Text
BY TextAssumption DEF Keywords

LEMMA NoURLTyped == NoURL \in URL /\ ~Given(NoURL)
BY WordsAreText DEF NoURL, URL, Given

\* The upgrade leaves the name of a target.
LEMMA UpgradeKeepsName ==
  ASSUME NEW t \in TargetConfig
  PROVE  Upgrade(t).name = t.name
BY DEF Upgrade, TargetConfig, URL

\* A suggested target is not in a retired format.
LEMMA PlainIsCurrent ==
  ASSUME NEW t, Plain(t)
  PROVE  Upgrade(t) = t
<1>1. ~Given(t.actuator)
  <2>1. NoURL.kind = "absent"
    BY DEF NoURL
  <2> QED  BY <2>1 DEF Plain, Given
<1>2. t.type # "statlite" /\ t.type # ""
  BY DEF Plain, Suggestable
<1> QED  BY <1>1, <1>2 DEF Upgrade

\* Validate decides target by target and pair by pair.
LEMMA ValidateParts ==
  ASSUME NEW ts \in Seq(TargetConfig)
  PROVE  Validate(ts).accepted <=>
           /\ ts # <<>>
           /\ \A i \in DOMAIN ts :
                /\ ts[i].type = "statlite" => ~ts[i].url.fragment
                /\ ValidTarget(Upgrade(ts[i]))
                /\ \A j \in DOMAIN ts \ {i} :
                     /\ ts[i].name # ts[j].name
                     /\ Upgrade(ts[i]).type = "caddy" /\ Upgrade(ts[j]).type = "caddy"
                          => Selection(Upgrade(ts[i])) # Selection(Upgrade(ts[j]))
<1>1. \A i \in DOMAIN ts : Upgrade(ts[i]).name = ts[i].name
  BY UpgradeKeepsName
<1> QED  BY <1>1 DEF Validate

\* The environment makes a URL of a URL, and leaves its kind and flags.
LEMMA ExpandURLTyped ==
  ASSUME NEW url \in URL
  PROVE  ExpandURL(url) \in URL /\ ExpandURL(url).kind = url.kind
BY EnvironmentAssumption DEF ExpandURL, URL

LEMMA ExpandNoURL == ExpandURL(NoURL) = NoURL
<1>1. Environment[""] = ""
  BY EnvironmentAssumption DEF Keywords
<1>2. NoURL.base = "" /\ NoURL.suffix = ""
  BY DEF NoURL
<1>3. \A url \in URL : [url EXCEPT !.base = url.base, !.suffix = url.suffix] = url
  BY DEF URL
<1> QED  BY <1>1, <1>2, <1>3, NoURLTyped DEF ExpandURL

LEMMA ExpandTyped ==
  ASSUME NEW t \in TargetConfig
  PROVE  Expand(t) \in TargetConfig /\ Expand(t).name = Environment[t.name]
<1>1. /\ Environment[t.type] \in Text /\ Environment[t.name] \in Text
      /\ Environment[t.host] \in Text /\ Environment[t.source] \in Text
      /\ Environment[t.hostMetrics] \in Text /\ Environment[t.auth] \in Text
  BY EnvironmentAssumption DEF TargetConfig
<1>2. /\ ExpandURL(t.url) \in URL /\ ExpandURL(t.actuator) \in URL
      /\ ExpandURL(t.health) \in URL
  BY ExpandURLTyped DEF TargetConfig
<1> QED  BY <1>1, <1>2 DEF Expand, TargetConfig

\* A target as long as the file, entry by entry.
LEMMA ExpandedTyped ==
  ASSUME NEW ts \in Seq(TargetConfig)
  PROVE  /\ Expanded(ts) \in Seq(TargetConfig)
         /\ DOMAIN Expanded(ts) = 1..Len(ts) /\ Len(ts) \in Nat
         /\ (Expanded(ts) = <<>> <=> ts = <<>>)
         /\ \A i \in 1..Len(ts) : Expanded(ts)[i] = Expand(ts[i])
<1>1. \A i \in 1..Len(ts) : Expand(ts[i]) \in TargetConfig
  BY ExpandTyped
<1>2. Expanded(ts) = [i \in 1..Len(ts) |-> Expand(ts[i])]
  BY DEF Expanded
<1> QED  BY <1>1, <1>2

\* Of a suggested target the environment changes the name and the URL alone.
LEMMA ExpandPlain ==
  ASSUME NEW t, Plain(t)
  PROVE  /\ Plain(Expand(t)) /\ Expand(t).type = t.type
         /\ Expand(t) = [t EXCEPT !.name = Environment[@], !.url = ExpandURL(@)]
<1>1. /\ Environment[t.type] = t.type /\ Environment["absent"] = "absent"
      /\ Environment["none"] = "none"
  BY EnvironmentAssumption DEF Keywords, Plain, Suggestable
<1>2. Expand(t) = [t EXCEPT !.name = Environment[@], !.url = ExpandURL(@)]
  BY <1>1, ExpandNoURL DEF Expand, Plain, TargetConfig
<1>3. Expand(t) \in TargetConfig
  BY ExpandTyped DEF Plain
<1> QED  BY <1>2, <1>3 DEF Plain, TargetConfig

LEMMA ExpandLiteral ==
  ASSUME NEW t, Plain(t), Literal(t)
  PROVE  Expand(t) = t
<1>1. t \in TargetConfig /\ Environment[t.name] = t.name /\ ExpandURL(t.url) = t.url
  BY DEF Literal, Plain
<1>2. Expand(t) = [t EXCEPT !.name = t.name, !.url = t.url]
  BY <1>1, ExpandPlain
<1>3. [t EXCEPT !.name = t.name, !.url = t.url] = t
  BY <1>1 DEF TargetConfig
<1> QED  BY <1>2, <1>3

\* What validation asks of a target, its name aside, is asked again of the same.
LEMMA ValidRenamed ==
  ASSUME NEW t \in TargetConfig, NEW name \in Text, ValidTarget(t)
  PROVE  ValidTarget([t EXCEPT !.name = name]) <=> name # ""
<1> DEFINE u == [t EXCEPT !.name = name]
<1>1. /\ u.name = name /\ u.type = t.type /\ u.url = t.url /\ u.actuator = t.actuator
      /\ u.host = t.host /\ u.health = t.health /\ u.source = t.source
      /\ u.hostMetrics = t.hostMetrics /\ u.auth = t.auth
      /\ u.legacyUser = t.legacyUser /\ u.legacyStatlite = t.legacyStatlite
  BY DEF TargetConfig
<1> HIDE DEF u
<1>2. /\ ValidSpring(u) <=> ValidSpring(t)
      /\ ValidMicrometer(u) <=> ValidMicrometer(t)
      /\ OnlySpringFields(u) <=> OnlySpringFields(t)
  BY <1>1 DEF ValidSpring, ValidMicrometer, OnlySpringFields
<1>3. ValidTarget(u) <=> name # ""
  BY <1>1, <1>2 DEF ValidTarget
<1> QED  BY <1>3 DEF u

\* The one thing that keeps a file from loading once a validated suggestion is
\* appended to it, whose URL the environment leaves alone, is the name: what the
\* environment makes of it is empty or the name of another target.
THEOREM AppendedLoads ==
  ASSUME NEW f \in ConfigFile, NEW t, Plain(t), ExpandURL(t.url) = t.url,
         Load(f).accepted, Validate(<<t>>).accepted
  PROVE  Load([f EXCEPT !.targets = Append(@, t)]).accepted <=>
           /\ Environment[t.name] # ""
           /\ \A i \in DOMAIN f.targets : Environment[f.targets[i].name] # Environment[t.name]
<1> DEFINE ts == f.targets
           all == Append(ts, t)
           last == Len(ts) + 1
           u == Expand(t)
           es == Expanded(ts)
           ea == Expanded(all)
<1>1. /\ ts \in Seq(TargetConfig) /\ t \in TargetConfig
      /\ u \in TargetConfig /\ Plain(u) /\ u.type = t.type
      /\ u = [t EXCEPT !.name = Environment[t.name]] /\ u.name = Environment[t.name]
      /\ Upgrade(u) = u /\ u.type # "caddy" /\ u.type # "statlite"
  <2>1. u = [t EXCEPT !.name = Environment[@], !.url = ExpandURL(@)] /\ Plain(u) /\ u.type = t.type
    BY ExpandPlain
  <2>2. u = [t EXCEPT !.name = Environment[t.name]]
    BY <2>1 DEF Plain, TargetConfig
  <2>3. ts \in Seq(TargetConfig) /\ t \in TargetConfig
    BY DEF Plain, ConfigFile
  <2> HIDE DEF u
  <2>4. Upgrade(u) = u /\ u \in TargetConfig /\ u.type # "caddy" /\ u.type # "statlite"
    BY <2>1, PlainIsCurrent DEF Plain, Suggestable
  <2>5. u.name = Environment[t.name]
    BY <2>2, <2>3 DEF TargetConfig
  <2> QED  BY <2>1, <2>2, <2>3, <2>4, <2>5
<1>2. /\ all \in Seq(TargetConfig) /\ Len(all) = last /\ Len(ts) \in Nat
      /\ all[last] = t /\ all # <<>>
      /\ \A i \in 1..Len(ts) : all[i] = ts[i]
  BY <1>1
<1>3. /\ ea \in Seq(TargetConfig) /\ ea # <<>> /\ DOMAIN ea = 1..last
      /\ es \in Seq(TargetConfig) /\ DOMAIN es = 1..Len(ts)
      /\ ea[last] = u
      /\ \A i \in 1..Len(ts) : ea[i] = es[i] /\ es[i].name = Environment[ts[i].name]
  <2>1. /\ ea \in Seq(TargetConfig) /\ ea # <<>> /\ DOMAIN ea = 1..last
        /\ \A i \in 1..last : ea[i] = Expand(all[i])
    <3> HIDE DEF ea, all, u
    <3> QED  BY <1>2, ExpandedTyped DEF ea
  <2>2. /\ es \in Seq(TargetConfig) /\ DOMAIN es = 1..Len(ts)
        /\ \A i \in 1..Len(ts) : es[i] = Expand(ts[i]) /\ ts[i] \in TargetConfig
    <3> HIDE DEF es
    <3> QED  BY <1>1, ExpandedTyped DEF es
  <2>3. \A i \in 1..Len(ts) : es[i].name = Environment[ts[i].name]
    <3> HIDE DEF es
    <3> QED  BY <2>2, ExpandTyped
  <2>4. last \in 1..last /\ \A i \in 1..Len(ts) : i \in 1..last
    BY <1>2
  <2>5. ea[last] = u
    <3> HIDE DEF ea, all
    <3> QED  BY <1>2, <2>1, <2>4
  <2>6. \A i \in 1..Len(ts) : ea[i] = es[i]
    <3> HIDE DEF ea, all, es
    <3> QED  BY <1>2, <2>1, <2>2, <2>4
  <2> HIDE DEF ea, all, es, u
  <2> QED  BY <2>1, <2>2, <2>3, <2>5, <2>6
<1>4. f.exists /\ f.parses /\ f.complete /\ Validate(es).accepted
  BY DEF Load
<1>5. ValidTarget(t)
  <2>1. <<t>> \in Seq(TargetConfig) /\ 1 \in DOMAIN <<t>> /\ <<t>>[1] = t
    BY <1>1
  <2>2. ValidTarget(Upgrade(<<t>>[1]))
    BY <2>1, ValidateParts
  <2> QED  BY <2>1, <2>2, PlainIsCurrent
<1>6. ValidTarget(u) <=> Environment[t.name] # ""
  <2>1. Environment[t.name] \in Text
    BY <1>1, EnvironmentAssumption DEF TargetConfig
  <2> QED  BY <1>1, <1>5, <2>1, ValidRenamed
<1> DEFINE fresh == /\ Environment[t.name] # ""
                    /\ \A i \in DOMAIN ts : Environment[ts[i].name] # Environment[t.name]
<1>7. DOMAIN ts = 1..Len(ts)
  BY <1>1
<1>8. ASSUME Validate(ea).accepted PROVE fresh
  <2> HIDE DEF ea, es, u, all
  <2>1. last \in DOMAIN ea /\ \A i \in 1..Len(ts) : i \in DOMAIN ea /\ last \in DOMAIN ea \ {i}
    BY <1>2, <1>3
  <2>2. ValidTarget(Upgrade(ea[last]))
    BY <1>3, <1>8, <2>1, ValidateParts
  <2>3. \A i \in 1..Len(ts) : ea[i].name # ea[last].name
    BY <1>3, <1>8, <2>1, ValidateParts
  <2>4. Environment[t.name] # ""
    BY <1>1, <1>3, <1>6, <2>2
  <2>5. \A i \in DOMAIN ts : Environment[ts[i].name] # Environment[t.name]
    <3> SUFFICES ASSUME NEW i \in 1..Len(ts) PROVE Environment[ts[i].name] # Environment[t.name]
      BY <1>7
    <3>1. ea[i].name = Environment[ts[i].name] /\ ea[last].name = Environment[t.name]
      BY <1>1, <1>3
    <3> QED  BY <2>3, <3>1
  <2> QED  BY <2>4, <2>5
<1>9. ASSUME fresh PROVE Validate(ea).accepted
  <2> HIDE DEF ea, es, u, all
  <2>1. ASSUME NEW i \in DOMAIN ea
        PROVE  /\ ea[i].type = "statlite" => ~ea[i].url.fragment
               /\ ValidTarget(Upgrade(ea[i]))
    <3>1. CASE i = last  BY <3>1, <1>1, <1>3, <1>6, <1>9
    <3>2. CASE i \in 1..Len(ts)  BY <3>2, <1>3, <1>4, ValidateParts
    <3> QED  BY <3>1, <3>2, <1>2, <1>3
  <2>2. /\ Upgrade(ea[last]).type # "caddy"
        /\ \A k \in 1..Len(ts) : ea[k].name # ea[last].name
    <3>1. \A k \in 1..Len(ts) : Environment[ts[k].name] # Environment[t.name]
      BY <1>7, <1>9
    <3>2. \A k \in 1..Len(ts) : ea[k].name = Environment[ts[k].name]
      BY <1>3
    <3>3. ea[last].name = Environment[t.name] /\ Upgrade(ea[last]).type # "caddy"
      BY <1>1, <1>3
    <3> QED  BY <3>1, <3>2, <3>3
  <2>3. ASSUME NEW i \in DOMAIN ea, NEW j \in DOMAIN ea \ {i}
        PROVE  /\ ea[i].name # ea[j].name
               /\ Upgrade(ea[i]).type = "caddy" /\ Upgrade(ea[j]).type = "caddy"
                    => Selection(Upgrade(ea[i])) # Selection(Upgrade(ea[j]))
    <3>1. CASE i = last
      <4>1. j \in 1..Len(ts)
        BY <3>1, <1>2, <1>3
      <4> QED  BY <3>1, <4>1, <2>2
    <3>2. CASE j = last
      <4>1. i \in 1..Len(ts)
        BY <3>2, <1>2, <1>3
      <4> QED  BY <3>2, <4>1, <2>2
    <3>3. CASE i \in 1..Len(ts) /\ j \in 1..Len(ts)  BY <3>3, <1>3, <1>4, ValidateParts
    <3> QED  BY <3>1, <3>2, <3>3, <1>2, <1>3
  <2> QED  BY <2>1, <2>3, <1>3, ValidateParts
<1>10. Load([f EXCEPT !.targets = Append(@, t)]).accepted <=> Validate(ea).accepted
  BY <1>4 DEF Load, ConfigFile
<1> QED  BY <1>8, <1>9, <1>10

\* The checks inspectionTargetAppend makes on the text suffice where the
\* environment changes no name and no URL: a file that loads still loads with the
\* target appended.
THEOREM AppendStaysAccepted ==
  ASSUME NEW f \in ConfigFile, NEW t, Plain(t),
         Literal(t), \A i \in DOMAIN f.targets : Literal(f.targets[i]),
         Load(f).accepted, Appendable(f, t), Validate(<<t>>).accepted
  PROVE  Load([f EXCEPT !.targets = Append(@, t)]).accepted
<1>1. Environment[t.name] = t.name /\ ExpandURL(t.url) = t.url
  BY DEF Literal
<1>2. \A i \in DOMAIN f.targets : Environment[f.targets[i].name] # Environment[t.name]
  BY <1>1 DEF Literal, Appendable
<1>3. t.name # ""
  <2>1. <<t>> \in Seq(TargetConfig) /\ 1 \in DOMAIN <<t>> /\ <<t>>[1] = t
    BY DEF Plain
  <2>2. ValidTarget(Upgrade(<<t>>[1]))
    BY <2>1, ValidateParts
  <2>3. ValidTarget(t)
    BY <2>1, <2>2, PlainIsCurrent
  <2> QED  BY <2>3 DEF ValidTarget
<1> QED  BY <1>1, <1>2, <1>3, AppendedLoads

\* A configuration created for a suggestion that the environment leaves alone loads.
LEMMA CreatedLoads ==
  ASSUME NEW t, Plain(t), Literal(t), Validate(<<t>>).accepted
  PROVE  Load(File(<<t>>)).accepted
<1>1. Expand(t) = t /\ t \in TargetConfig
  BY ExpandLiteral DEF Plain
<1>2. Expanded(<<t>>) = <<t>>
  BY <1>1 DEF Expanded
<1> QED  BY <1>2 DEF Load, File

-----------------------------------------------------------------------------
(* What is built from the targets Load accepts.                            *)

LoadedTypes == {"spring", "statlite-metrics", "quarkus", "micronaut", "caddy"}

LEMMA UpgradeTyped ==
  ASSUME NEW t \in TargetConfig
  PROVE  Upgrade(t) \in TargetConfig
<1>1. /\ t.url \in URL /\ t.actuator \in URL /\ StatliteMetricsURL(t.url) \in URL
      /\ [t.actuator EXCEPT !.kind = "empty"] \in URL
  BY WordsAreText DEF StatliteMetricsURL, TargetConfig, URL
<1>2. /\ [t EXCEPT !.type = "spring"] \in TargetConfig
      /\ [t EXCEPT !.type = "statlite-metrics", !.url = StatliteMetricsURL(t.url),
                   !.legacyStatlite = TRUE] \in TargetConfig
  BY <1>1, WordsAreText DEF TargetConfig
<1>3. [t EXCEPT !.type = "spring", !.url = t.actuator, !.actuator.kind = "empty",
                !.legacyUser = t.actuator.kind = "http" /\ t.actuator.user] \in TargetConfig
  BY <1>1, WordsAreText DEF TargetConfig
<1> QED  BY <1>2, <1>3 DEF Upgrade

LEMMA ValidType ==
  ASSUME NEW u \in TargetConfig, ValidTarget(u)
  PROVE  u.type \in LoadedTypes
BY DEF ValidTarget, LoadedTypes

\* What validation changes of a target, and what it leaves.
LEMMA NormalFields ==
  ASSUME NEW u \in TargetConfig
  PROVE  LET n == Normalize(u)
         IN  /\ n \in TargetConfig
             /\ n.type = u.type /\ n.name = u.name /\ n.url = u.url
             /\ n.actuator = u.actuator /\ n.host = u.host /\ n.health = u.health
             /\ n.hostMetrics = u.hostMetrics /\ n.auth = u.auth
             /\ n.legacyUser = u.legacyUser /\ n.legacyStatlite = u.legacyStatlite
             /\ n.padded = FALSE
             /\ n.source = IF u.type # "spring" THEN u.source
                           ELSE IF u.legacyUser THEN "actuator"
                           ELSE IF u.source \in {"absent", ""} THEN "auto" ELSE u.source
<1> DEFINE source == IF u.type # "spring" THEN u.source
                     ELSE IF u.legacyUser THEN "actuator"
                     ELSE IF u.source \in {"absent", ""} THEN "auto" ELSE u.source
<1>1. source \in Text
  BY WordsAreText DEF TargetConfig
<1>2. Normalize(u) = [u EXCEPT !.padded = FALSE, !.source = source]
  BY DEF Normalize, TargetConfig
<1>3. \A s \in Text :
        LET n == [u EXCEPT !.padded = FALSE, !.source = s]
        IN  /\ n \in TargetConfig
            /\ n.type = u.type /\ n.name = u.name /\ n.url = u.url
            /\ n.actuator = u.actuator /\ n.host = u.host /\ n.health = u.health
            /\ n.hostMetrics = u.hostMetrics /\ n.auth = u.auth
            /\ n.legacyUser = u.legacyUser /\ n.legacyStatlite = u.legacyStatlite
            /\ n.padded = FALSE /\ n.source = s
  BY DEF TargetConfig
<1>4. LET n == [u EXCEPT !.padded = FALSE, !.source = source]
      IN  /\ n \in TargetConfig
          /\ n.type = u.type /\ n.name = u.name /\ n.url = u.url
          /\ n.actuator = u.actuator /\ n.host = u.host /\ n.health = u.health
          /\ n.hostMetrics = u.hostMetrics /\ n.auth = u.auth
          /\ n.legacyUser = u.legacyUser /\ n.legacyStatlite = u.legacyStatlite
          /\ n.padded = FALSE /\ n.source = source
  <2> HIDE DEF source
  <2> QED  BY <1>1, <1>3
<1> QED  BY <1>2, <1>4

\* A collector is built from every valid target, and its clients take its URLs.
LEMMA ValidBuilds ==
  ASSUME NEW u \in TargetConfig, ValidTarget(u)
  PROVE  Builds(Normalize(u))
<1> DEFINE n == Normalize(u)
<1>1. CASE u.type = "spring"
  BY <1>1, NormalFields DEF Builds, Clients, ValidTarget, ValidSpring, ValidURL
<1>2. CASE u.type = "statlite-metrics"
  BY <1>2, NormalFields DEF Builds, Clients, ValidTarget, ValidURL
<1>3. CASE u.type = "caddy"
  BY <1>3, NormalFields DEF Builds, Clients, ValidTarget, ValidURL
<1>4. CASE u.type \in {"quarkus", "micronaut"}
  <2>1. /\ ValidURL(n.url, TRUE, FALSE)
        /\ Given(n.health) => ValidURL(n.health, TRUE, FALSE)
    BY <1>4, NormalFields DEF ValidTarget, ValidMicrometer
  <2>2. LET health == HealthEndpoint(n)
        IN  Given(health) => health.kind = "http" /\ ~health.user /\ ~health.fragment
    BY <1>4, <2>1, NormalFields DEF HealthEndpoint, ValidURL, Given, NoURL, URL, TargetConfig
  <2> QED  BY <1>4, <2>1, <2>2, NormalFields DEF Builds, Clients, ValidURL
<1> QED  BY <1>1, <1>2, <1>3, <1>4, ValidType DEF LoadedTypes

\* A valid target is valid as it was changed, and changed no further.
LEMMA NormalSettles ==
  ASSUME NEW u \in TargetConfig, ValidTarget(u)
  PROVE  LET n == Normalize(u)
         IN  Upgrade(n) = n /\ ValidTarget(n) /\ Normalize(n) = n /\ Selection(n) = Selection(u)
<1> DEFINE n == Normalize(u)
<1>1. n.type \in LoadedTypes /\ (n.type = "spring" => ~Given(n.actuator))
  BY ValidType, NormalFields DEF ValidTarget, ValidSpring, LoadedTypes
<1>2. Upgrade(n) = n
  BY <1>1 DEF Upgrade, LoadedTypes
<1>3. ValidTarget(n)
  <2>1. /\ n.type = u.type /\ n.name = u.name /\ n.url = u.url /\ n.actuator = u.actuator
        /\ n.host = u.host /\ n.health = u.health /\ n.hostMetrics = u.hostMetrics
        /\ n.auth = u.auth /\ n.legacyUser = u.legacyUser
        /\ n.legacyStatlite = u.legacyStatlite
        /\ n.source = IF u.type # "spring" THEN u.source
                      ELSE IF u.legacyUser THEN "actuator"
                      ELSE IF u.source \in {"absent", ""} THEN "auto" ELSE u.source
    BY NormalFields
  <2> HIDE DEF n
  <2>2. CASE u.type = "spring"
    <3>1. ValidSpring(n)
      BY <2>1, <2>2 DEF ValidTarget, ValidSpring
    <3> QED  BY <2>1, <2>2, <3>1 DEF ValidTarget
  <2>3. CASE u.type # "spring"
    <3>1. n.source = u.source
      BY <2>1, <2>3
    <3> QED  BY <2>1, <2>3, <3>1 DEF ValidTarget, ValidMicrometer, OnlySpringFields
  <2> QED  BY <2>2, <2>3
<1>4. Normalize(n) = n
  <2>1. n \in TargetConfig /\ n.padded = FALSE
    BY NormalFields
  <2>2. n.source = IF n.type # "spring" THEN n.source
                   ELSE IF n.legacyUser THEN "actuator"
                   ELSE IF n.source \in {"absent", ""} THEN "auto" ELSE n.source
    <3>1. /\ n.type = u.type /\ n.legacyUser = u.legacyUser
          /\ n.source = IF u.type # "spring" THEN u.source
                        ELSE IF u.legacyUser THEN "actuator"
                        ELSE IF u.source \in {"absent", ""} THEN "auto" ELSE u.source
      BY NormalFields
    <3> HIDE DEF n
    <3> QED  BY <3>1
  <2>3. Normalize(n) = [n EXCEPT !.padded = n.padded, !.source = n.source]
    BY <2>1, <2>2 DEF Normalize, TargetConfig
  <2> QED  BY <2>1, <2>3 DEF TargetConfig
<1>5. Selection(n) = Selection(u)
  BY NormalFields DEF Selection
<1> QED  BY <1>2, <1>3, <1>4, <1>5

\* Nothing that Load accepts fails later, and it is accepted again as it is.
THEOREM AcceptedBuild ==
  ASSUME NEW f \in ConfigFile, Load(f).accepted
  PROVE  /\ \A k \in DOMAIN Load(f).targets : Builds(Load(f).targets[k])
         /\ Validate(Load(f).targets) = Load(f)
<1> DEFINE ts == Expanded(f.targets)
           ns == [k \in DOMAIN ts |-> Normalize(Upgrade(ts[k]))]
<1>1. ts \in Seq(TargetConfig) /\ Validate(ts).accepted /\ Load(f) = Validate(ts)
  BY ExpandedTyped DEF Load, ConfigFile
<1> HIDE DEF ts
<1>2. Load(f) = [accepted |-> TRUE, targets |-> ns]
  <2>1. Validate(ts) = [accepted |-> Validate(ts).accepted, targets |-> Validate(ts).targets]
    BY DEF Validate
  <2>2. Validate(ts).targets = ns
    BY DEF Validate
  <2>3. Validate(ts).accepted \in BOOLEAN
    BY DEF Validate
  <2> QED  BY <1>1, <2>1, <2>2, <2>3
<1>3. \A k \in DOMAIN ts :
        Upgrade(ts[k]) \in TargetConfig /\ ValidTarget(Upgrade(ts[k])) /\ ts[k] \in TargetConfig
  BY <1>1, UpgradeTyped, ValidateParts
<1>4. ns \in Seq(TargetConfig) /\ DOMAIN ns = DOMAIN ts
  <2>1. \A k \in DOMAIN ts : Normalize(Upgrade(ts[k])) \in TargetConfig
    BY <1>3, NormalFields
  <2>2. DOMAIN ts = 1..Len(ts) /\ Len(ts) \in Nat
    BY <1>1
  <2> QED  BY <2>1, <2>2
<1>5. \A k \in DOMAIN ts : Builds(ns[k])
  BY <1>3, ValidBuilds
<1>6. \A k \in DOMAIN ts :
        /\ Upgrade(ns[k]) = ns[k] /\ ValidTarget(ns[k]) /\ Normalize(ns[k]) = ns[k]
        /\ Selection(ns[k]) = Selection(Upgrade(ts[k]))
        /\ ns[k].name = ts[k].name /\ ns[k].type = Upgrade(ts[k]).type
        /\ ns[k].type \in LoadedTypes
  BY <1>3, NormalSettles, NormalFields, UpgradeKeepsName, ValidType
<1>7. Validate(ns).accepted
  <2> HIDE DEF ns
  <2>1. ns # <<>>
    <3>1. ts # <<>>  BY <1>1, ValidateParts
    <3> QED  BY <3>1, <1>1, <1>4
  <2>2. \A i \in DOMAIN ts :
          /\ ns[i].type # "statlite"
          /\ ValidTarget(Upgrade(ns[i]))
          /\ \A j \in DOMAIN ts \ {i} :
               /\ ns[i].name # ns[j].name
               /\ Upgrade(ns[i]).type = "caddy" /\ Upgrade(ns[j]).type = "caddy"
                    => Selection(Upgrade(ns[i])) # Selection(Upgrade(ns[j]))
    BY <1>1, <1>6, ValidateParts DEF LoadedTypes
  <2> QED  BY <1>4, <2>1, <2>2, ValidateParts
<1>8. Validate(ns) = [accepted |-> TRUE, targets |-> ns]
  <2>1. [k \in DOMAIN ns |-> Normalize(Upgrade(ns[k]))] = ns
    BY <1>4, <1>6
  <2>2. Validate(ns).accepted = TRUE
    BY <1>7 DEF Validate
  <2>3. Validate(ns) = [accepted |-> Validate(ns).accepted,
                        targets |-> [k \in DOMAIN ns |-> Normalize(Upgrade(ns[k]))]]
    BY DEF Validate
  <2> QED  BY <2>1, <2>2, <2>3
<1> QED  BY <1>2, <1>5, <1>8

-----------------------------------------------------------------------------
(* The invariant of the processes and the file.                            *)

Labels ==
  ProbeLabels \cup
  {"idle", "off", "found", "print", "create", "write", "remove", "add", "append"}

\* From here on a process has a suggestion, and from there a validated one.
Suggesting == {"found", "print", "create", "write", "remove", "add", "append"}
Validated == Suggesting \ {"found"}

TargetOf(p) ==
  Target(p.result.type, IF p.request.name = "" THEN p.result.type ELSE p.request.name, p.result.url)

EndpointsOf(p) == Endpoints(p.request.type, p.request.url)

\* The fields of a process; what it has seen may be anything.
Typed(p) ==
  p \in [pc      : Labels,
         request : [type : {"", "spring", "quarkus", "micronaut"}, url : URL, name : Text,
                    mode : {"", "print", "create", "add"}],
         seen    : {p.seen},
         result  : [type : Text, url : URL, metrics : BOOLEAN],
         steady  : BOOLEAN,
         late    : BOOLEAN,
         read    : ConfigFile]

Process(p) ==
  /\ Typed(p)
  /\ p.pc \in {"exact", "fallback"} => p.request.type \in {"quarkus", "micronaut"}
  /\ p.pc = "fallback" => Len(EndpointsOf(p)) = 2
  /\ p.pc \notin {"idle", "off"} => p.request.mode # ""
  /\ p.pc \in Suggesting => p.result.type \in Suggestable
  /\ p.pc \in Validated => Validate(<<TargetOf(p)>>).accepted
  /\ p.pc = "append" => Appendable(p.read, TargetOf(p))

\* One process at most creates the file, and until it is done the file is of
\* its making and no confirmation counts.
OneCreator ==
  /\ \A i, j \in Creating : i = j
  /\ Creating # {} => file.exists /\ ~sound /\ \A c \in confirmed : c.raced

OnboardingInvariant ==
  /\ file \in ConfigFile /\ sound \in BOOLEAN
  /\ insp = [i \in Inspectors |-> insp[i]]
  /\ \A i \in Inspectors : Process(insp[i])
  /\ OneCreator
  /\ ConfirmedTargetsStay
  /\ SoundFilesLoad
-----------------------------------------------------------------------------
(* Steps of one process.                                                   *)

LEMMA AtTyped ==
  ASSUME NEW base \in Text, NEW suffix \in Text
  PROVE  At(base, suffix) \in URL
BY NoURLTyped DEF At, NoURL, URL

LEMMA TargetTyped ==
  ASSUME NEW p, Typed(p)
  PROVE  LET t == TargetOf(p)
         IN  /\ t \in TargetConfig /\ t.actuator = NoURL /\ t.health = NoURL
             /\ t.host = "absent" /\ t.source = "absent" /\ t.hostMetrics = "absent"
             /\ t.auth = "none"
<1>1. /\ p.result.type \in Text /\ p.result.url \in URL /\ p.request.name \in Text
  BY DEF Typed
<1>2. "absent" \in Text /\ "none" \in Text
  BY WordsAreText
<1> QED  BY <1>1, <1>2, NoURLTyped DEF TargetOf, Target, TargetConfig

LEMMA PlainTarget ==
  ASSUME NEW p, Typed(p), p.result.type \in Suggestable
  PROVE  Plain(TargetOf(p))
<1>1. TargetOf(p).type = p.result.type
  BY DEF TargetOf, Target
<1> QED  BY <1>1, TargetTyped DEF Plain

LEMMA IdleProcess ==
  Process(Idle) /\ Process(Off) /\ Off.pc = "off" /\ Idle.pc = "idle"
<1>1. NoFile \in ConfigFile
  BY DEF NoFile, ConfigFile
<1>2. Typed(Idle) /\ Typed(Off) /\ Off.pc = "off" /\ Idle.pc = "idle"
  BY <1>1, NoURLTyped, WordsAreText
     DEF Typed, Idle, Off, NoSuggestion, Suggestion, Labels
<1> QED  BY <1>2 DEF Process, Suggesting, Validated

\* A process goes to another label.
LEMMA GotoLabel ==
  ASSUME NEW p, Process(p), NEW label \in Labels
  PROVE  LET q == [p EXCEPT !.pc = label]
         IN  Typed(q) /\ q.pc = label /\ q.request = p.request /\ q.result = p.result /\ q.read = p.read
BY DEF Process, Typed

LEMMA GotoTarget ==
  ASSUME NEW p, NEW q, q.request = p.request, q.result = p.result
  PROVE  TargetOf(q) = TargetOf(p) /\ EndpointsOf(q) = EndpointsOf(p)
BY DEF TargetOf, EndpointsOf

\* A process finds a target.
LEMMA FindsSuggestion ==
  ASSUME NEW p, Process(p), p.pc \notin {"idle", "off"},
         NEW r \in [type : Text, url : URL, metrics : BOOLEAN], r.type \in Suggestable
  PROVE  LET q == [p EXCEPT !.pc = "found", !.result = r, !.seen = NoAnswers]
         IN  Process(q) /\ q.pc = "found"
<1> DEFINE q == [p EXCEPT !.pc = "found", !.result = r, !.seen = NoAnswers]
<1>1. Typed(q) /\ q.pc = "found" /\ q.request = p.request /\ q.result = r
  BY DEF Process, Typed, Labels
<1>2. Process(q)
  <2> HIDE DEF q
  <2> QED  BY <1>1 DEF Process, Suggesting, Validated
<1> QED  BY <1>1, <1>2

\* The invariant only depends on the process that takes the step.
LEMMA ProcessStep ==
  ASSUME OnboardingInvariant, NEW i \in Inspectors,
         insp' = [insp EXCEPT ![i] = insp'[i]],
         Process(insp'[i]), insp'[i].pc \notin {"write", "remove"},
         UNCHANGED <<file, sound, confirmed>>
  PROVE  OnboardingInvariant'
<1>1. /\ insp' = [j \in Inspectors |-> insp'[j]]
      /\ \A j \in Inspectors \ {i} : insp'[j] = insp[j]
  BY DEF OnboardingInvariant
<1>2. \A j \in Inspectors : Process(insp'[j])
  BY <1>1 DEF OnboardingInvariant
<1>3. Creating' \subseteq Creating
  BY <1>1 DEF Creating
<1>4. OneCreator'
  BY <1>3 DEF OnboardingInvariant, OneCreator
<1>5. ConfirmedTargetsStay' /\ SoundFilesLoad'
  BY DEF OnboardingInvariant, ConfirmedTargetsStay, SoundFilesLoad, Written
<1> QED  BY <1>1, <1>2, <1>4, <1>5 DEF OnboardingInvariant

\* Probing on keeps what is known of the process.
LEMMA ProbesOn ==
  ASSUME NEW p, Process(p), p.pc \notin {"idle", "off"},
         NEW q, Typed(q), q.request = p.request,
         q.pc \in ProbeLabels \ {"exact", "fallback"}
  PROVE  Process(q)
BY DEF Process, ProbeLabels, Suggesting, Validated

\* What a step that changes one process makes of it.
LEMMA Updated ==
  ASSUME OnboardingInvariant, NEW i \in Inspectors, NEW q, insp' = [insp EXCEPT ![i] = q]
  PROVE  insp'[i] = q /\ insp' = [insp EXCEPT ![i] = insp'[i]]
BY DEF OnboardingInvariant

LEMMA ExitStep ==
  ASSUME OnboardingInvariant, NEW i \in Inspectors, Exit(i), UNCHANGED <<file, sound, confirmed>>
  PROVE  OnboardingInvariant'
<1>1. insp'[i] = Off /\ insp' = [insp EXCEPT ![i] = insp'[i]]
  BY Updated DEF Exit
<1> QED  BY <1>1, IdleProcess, ProcessStep

LEMMA RunStep ==
  ASSUME OnboardingInvariant, NEW i \in Inspectors, NEW request \in Requests, Run(i, request)
  PROVE  OnboardingInvariant'
<1>1. request \in CommandLine /\ UNCHANGED <<file, sound, confirmed>>
  BY InputsAssumption DEF Run
<1>2. CASE request.type = "spring"
  BY <1>1, <1>2, ExitStep DEF Run, Exit
<1>3. CASE request.type # "spring"
  <2> DEFINE label == IF request.type = "" THEN "health" ELSE "exact"
             q == [Idle EXCEPT !.pc = label, !.request = request, !.steady = TRUE]
  <2>1. insp'[i] = q /\ insp' = [insp EXCEPT ![i] = insp'[i]]
    <3>1. insp' = [insp EXCEPT ![i] = q]
      BY <1>3 DEF Run
    <3> HIDE DEF q
    <3> QED  BY <3>1, Updated
  <2>2. Typed(q) /\ q.pc = label /\ q.request = request
    BY <1>1, IdleProcess DEF Process, Typed, Idle, CommandLine, Labels, ProbeLabels
  <2>3. Process(q)
    <3> HIDE DEF q
    <3> QED  BY <2>2, <1>1, <1>3 DEF Process, CommandLine, Suggesting, Validated
  <2>4. label \notin {"write", "remove"}
    OBVIOUS
  <2> HIDE DEF q, label
  <2> QED  BY <1>1, <2>1, <2>2, <2>3, <2>4, ProcessStep
<1> QED  BY <1>2, <1>3

\* A step of a process that probes on.
LEMMA ProbingStep ==
  ASSUME OnboardingInvariant, NEW i \in Inspectors, UNCHANGED <<file, sound, confirmed>>,
         insp[i].pc \in ProbeLabels,
         insp' = [insp EXCEPT ![i] = insp'[i]],
         Typed(insp'[i]), insp'[i].request = insp[i].request,
         insp'[i].pc \in ProbeLabels \ {"exact", "fallback"}
  PROVE  OnboardingInvariant'
<1>1. Process(insp[i]) /\ insp[i].pc \notin {"idle", "off"}
  BY DEF OnboardingInvariant, ProbeLabels
<1>2. Process(insp'[i])
  BY <1>1, ProbesOn
<1> QED  BY <1>2, ProcessStep DEF ProbeLabels

LEMMA GotoProbe ==
  ASSUME OnboardingInvariant, NEW i \in Inspectors, UNCHANGED <<file, sound, confirmed>>,
         NEW label \in ProbeLabels \ {"exact", "fallback"},
         insp[i].pc \in ProbeLabels, Goto(i, label)
  PROVE  OnboardingInvariant'
<1> DEFINE q == [insp[i] EXCEPT !.pc = label]
<1>1. insp'[i] = q /\ insp' = [insp EXCEPT ![i] = insp'[i]] /\ Process(insp[i])
  BY DEF OnboardingInvariant, Goto
<1>2. Typed(q) /\ q.pc = label /\ q.request = insp[i].request
  BY <1>1 DEF Process, Typed, Labels
<1>3. Process(q)
  <2> HIDE DEF q
  <2> QED  BY <1>1, <1>2, ProbesOn DEF ProbeLabels
<1> QED  BY <1>1, <1>2, <1>3, ProcessStep DEF ProbeLabels

LEMMA FindStep ==
  ASSUME OnboardingInvariant, NEW i \in Inspectors, UNCHANGED <<file, sound, confirmed>>,
         insp[i].pc \in ProbeLabels,
         NEW r \in [type : Text, url : URL, metrics : BOOLEAN], r.type \in Suggestable,
         Find(i, r)
  PROVE  OnboardingInvariant'
<1> DEFINE q == [insp[i] EXCEPT !.pc = "found", !.result = r, !.seen = NoAnswers]
<1>1. insp'[i] = q /\ insp' = [insp EXCEPT ![i] = insp'[i]] /\ Process(insp[i])
  BY DEF OnboardingInvariant, Find
<1>2. Process(q) /\ q.pc = "found"
  BY <1>1, FindsSuggestion DEF ProbeLabels
<1> QED  BY <1>1, <1>2, ProcessStep

\* The suggestions are targets.
LEMMA SuggestionTyped ==
  ASSUME NEW type \in Suggestable, NEW url \in URL, NEW metrics \in BOOLEAN
  PROVE  /\ Suggestion(type, url, metrics) \in [type : Text, url : URL, metrics : BOOLEAN]
         /\ Suggestion(type, url, metrics).type \in Suggestable
BY WordsAreText DEF Suggestion, Suggestable
LEMMA ProbeHealthStep ==
  ASSUME OnboardingInvariant, NEW i \in Inspectors, ProbeHealth(i)
  PROVE  OnboardingInvariant'
<1>1. Process(insp[i]) /\ insp[i].pc \in ProbeLabels
  BY DEF OnboardingInvariant, ProbeHealth, ProbeLabels
<1>2. /\ insp' = [insp EXCEPT ![i] = insp'[i]]
      /\ Typed(insp'[i]) /\ insp'[i].request = insp[i].request /\ insp'[i].pc = "statlite"
  BY <1>1 DEF OnboardingInvariant, ProbeHealth, Process, Typed, Labels, ProbeLabels
<1> QED  BY <1>1, <1>2, ProbingStep DEF ProbeHealth, ProbeLabels

LEMMA ProbeStatliteStep ==
  ASSUME OnboardingInvariant, NEW i \in Inspectors, ProbeStatlite(i)
  PROVE  OnboardingInvariant'
<1>1. Process(insp[i]) /\ insp[i].pc \in ProbeLabels
  BY DEF OnboardingInvariant, ProbeStatlite, ProbeLabels
<1>2. /\ insp' = [insp EXCEPT ![i] = insp'[i]]
      /\ Typed(insp'[i]) /\ insp'[i].request = insp[i].request /\ insp'[i].pc = "quarkus"
  BY <1>1 DEF OnboardingInvariant, ProbeStatlite, Process, Typed, Labels, ProbeLabels
<1> QED  BY <1>1, <1>2, ProbingStep DEF ProbeStatlite, ProbeLabels

\* The three requests match nothing, or what they show is one integration.
LEMMA VerdictMatches ==
  ASSUME NEW seen
  PROVE  /\ (Verdict(seen) = "none" => Matches(seen) = {})
         /\ (Verdict(seen) = "one" =>
               \/ Matches(seen) = {"spring"} \/ Matches(seen) = {"statlite-metrics"}
               \/ Matches(seen) = {"quarkus"})
<1>1. IsFiniteSet(Matches(seen))
  <2>1. IsFiniteSet({"spring", "statlite-metrics", "quarkus"})
    <3>1. IsFiniteSet(({} \cup {"spring"}) \cup {"statlite-metrics"})
      BY FS_EmptySet, FS_AddElement
    <3>2. IsFiniteSet((({} \cup {"spring"}) \cup {"statlite-metrics"}) \cup {"quarkus"})
      BY <3>1, FS_AddElement
    <3>3. (({} \cup {"spring"}) \cup {"statlite-metrics"}) \cup {"quarkus"}
            = {"spring", "statlite-metrics", "quarkus"}
      OBVIOUS
    <3> QED  BY <3>2, <3>3
  <2> QED  BY <2>1, FS_Subset DEF Matches
<1>2. Cardinality(Matches(seen)) \in Nat
  BY <1>1, FS_CardinalityType
<1>3. ASSUME Verdict(seen) = "none"
      PROVE  Matches(seen) = {}
  <2>1. ~(Cardinality(Matches(seen)) > 1) /\ Cardinality(Matches(seen)) # 1
    BY <1>3 DEF Verdict
  <2>2. Cardinality(Matches(seen)) = 0
    BY <1>2, <2>1
  <2> QED  BY <1>1, <2>2, FS_EmptySet
<1>4. ASSUME Verdict(seen) = "one"
      PROVE  \/ Matches(seen) = {"spring"} \/ Matches(seen) = {"statlite-metrics"}
             \/ Matches(seen) = {"quarkus"}
  <2>1. Cardinality(Matches(seen)) = 1
    BY <1>4 DEF Verdict, RecognitionFailure, ScrapeFailure
  <2>2. PICK type : Matches(seen) = {type}
    BY <1>1, <2>1, FS_Singleton
  <2>3. type \in {"spring", "statlite-metrics", "quarkus"}
    BY <2>2 DEF Matches
  <2> QED  BY <2>2, <2>3
<1> QED  BY <1>3, <1>4

\* Three probes match one integration just when they suggest it.
LEMMA SuggestedTyped ==
  ASSUME NEW base \in Text, NEW seen, Verdict(seen) = "one", Matches(seen) # {"spring"}
  PROVE  /\ Suggested(base, seen) \in [type : Text, url : URL, metrics : BOOLEAN]
         /\ Suggested(base, seen).type \in Suggestable
<1>3. Matches(seen) = {"statlite-metrics"} \/ Matches(seen) = {"quarkus"}
  BY VerdictMatches
<1>4. At(base, "statlite/metrics") \in URL /\ At(base, "q/metrics") \in URL
  BY AtTyped, WordsAreText
<1>5. {"statlite-metrics"} # {"quarkus"} /\ {"statlite-metrics"} # {"spring"} /\ {"quarkus"} # {"spring"}
  OBVIOUS
<1>6. CASE Matches(seen) = {"statlite-metrics"}
  <2>1. Suggested(base, seen) =
          Suggestion("statlite-metrics", At(base, "statlite/metrics"), seen.statlite = "statlite")
    BY <1>5, <1>6 DEF Suggested
  <2>2. "statlite-metrics" \in Suggestable /\ (seen.statlite = "statlite") \in BOOLEAN
    BY DEF Suggestable
  <2> QED  BY <2>1, <2>2, <1>4, SuggestionTyped
<1>7. CASE Matches(seen) = {"quarkus"}
  <2>1. Suggested(base, seen) = Suggestion("quarkus", At(base, "q/metrics"), TRUE)
    BY <1>5, <1>7 DEF Suggested
  <2>2. "quarkus" \in Suggestable
    BY DEF Suggestable
  <2> QED  BY <2>1, <2>2, <1>4, SuggestionTyped
<1> QED  BY <1>3, <1>6, <1>7

LEMMA BaseTyped ==
  ASSUME OnboardingInvariant, NEW i \in Inspectors
  PROVE  /\ Base(i) \in Text /\ insp[i].request.url \in URL
         /\ insp[i].request.type \in {"", "spring", "quarkus", "micronaut"}
BY DEF OnboardingInvariant, Process, Typed, Base, URL

LEMMA ProbeQuarkusStep ==
  ASSUME OnboardingInvariant, NEW i \in Inspectors, ProbeQuarkus(i)
  PROVE  OnboardingInvariant'
<1> DEFINE seen == [insp[i].seen EXCEPT !.quarkus = Answer(i, At(Base(i), "q/metrics"))]
<1>1. insp[i].pc \in ProbeLabels /\ UNCHANGED <<file, sound, confirmed>>
  BY DEF ProbeQuarkus, ProbeLabels
<1>2. \/ Goto(i, "direct")
      \/ insp' = [insp EXCEPT ![i].pc = "prometheus", ![i].seen = seen]
      \/ Verdict(seen) = "one" /\ Matches(seen) # {"spring"} /\ Find(i, Suggested(Base(i), seen))
      \/ Exit(i)
  BY DEF ProbeQuarkus
<1>3. CASE Goto(i, "direct")
  BY <1>1, <1>3, GotoProbe DEF ProbeLabels
<1>4. CASE insp' = [insp EXCEPT ![i].pc = "prometheus", ![i].seen = seen]
  <2>1. /\ insp' = [insp EXCEPT ![i] = insp'[i]]
        /\ Typed(insp'[i]) /\ insp'[i].request = insp[i].request /\ insp'[i].pc = "prometheus"
    <3> DEFINE q == [insp[i] EXCEPT !.pc = "prometheus", !.seen = seen]
    <3> HIDE DEF seen
    <3>1. insp'[i] = q /\ insp' = [insp EXCEPT ![i] = insp'[i]]
      BY <1>4 DEF OnboardingInvariant
    <3>2. Typed(insp[i])
      BY DEF OnboardingInvariant, Process
    <3>3. Typed(q) /\ q.request = insp[i].request /\ q.pc = "prometheus"
      BY <3>2 DEF Typed, Labels, ProbeLabels
    <3> HIDE DEF q
    <3> QED  BY <3>1, <3>3
  <2> QED  BY <1>1, <2>1, ProbingStep DEF ProbeLabels
<1>5. CASE Verdict(seen) = "one" /\ Matches(seen) # {"spring"} /\ Find(i, Suggested(Base(i), seen))
  <2> HIDE DEF seen
  <2> QED  BY <1>1, <1>5, BaseTyped, SuggestedTyped, FindStep
<1>6. CASE Exit(i)
  BY <1>1, <1>6, ExitStep
<1> QED  BY <1>2, <1>3, <1>4, <1>5, <1>6

LEMMA ProbePrometheusStep ==
  ASSUME OnboardingInvariant, NEW i \in Inspectors, ProbePrometheus(i)
  PROVE  OnboardingInvariant'
<1> DEFINE answer == Answer(i, At(Base(i), "actuator/prometheus"))
           r == Suggestion("spring", At(Base(i), "actuator"), Compatible(answer))
<1>1. insp[i].pc \in ProbeLabels /\ UNCHANGED <<file, sound, confirmed>>
  BY DEF ProbePrometheus, ProbeLabels
<1>2. Goto(i, "index") \/ Find(i, r)
  BY DEF ProbePrometheus
<1>3. r \in [type : Text, url : URL, metrics : BOOLEAN] /\ r.type \in Suggestable
  <2>1. "spring" \in Suggestable /\ Compatible(answer) \in BOOLEAN
    BY DEF Suggestable, Compatible
  <2>2. At(Base(i), "actuator") \in URL
    BY BaseTyped, AtTyped, WordsAreText
  <2> QED  BY <2>1, <2>2, SuggestionTyped
<1>4. CASE Goto(i, "index")
  BY <1>1, <1>4, GotoProbe DEF ProbeLabels
<1>5. CASE Find(i, r)
  BY <1>1, <1>3, <1>5, FindStep
<1> QED  BY <1>2, <1>4, <1>5

LEMMA ProbeIndexStep ==
  ASSUME OnboardingInvariant, NEW i \in Inspectors, ProbeIndex(i)
  PROVE  OnboardingInvariant'
<1> DEFINE r == Suggestion("spring", At(Base(i), "actuator"),
                           Answer(i, At(Base(i), "actuator/metrics")) = "index")
<1>1. r \in [type : Text, url : URL, metrics : BOOLEAN] /\ r.type \in Suggestable
  BY BaseTyped, AtTyped, WordsAreText, SuggestionTyped DEF Suggestable
<1> QED  BY <1>1, FindStep DEF ProbeIndex, ProbeLabels

LEMMA ProbeDirectStep ==
  ASSUME OnboardingInvariant, NEW i \in Inspectors, ProbeDirect(i)
  PROVE  OnboardingInvariant'
<1> DEFINE r == Suggestion("statlite-metrics", insp[i].request.url,
                           Answer(i, insp[i].request.url) = "statlite")
<1>1. r \in [type : Text, url : URL, metrics : BOOLEAN] /\ r.type \in Suggestable
  BY BaseTyped, SuggestionTyped DEF Suggestable
<1>2. insp[i].pc \in ProbeLabels /\ UNCHANGED <<file, sound, confirmed>>
  BY DEF ProbeDirect, ProbeLabels
<1>3. Find(i, r) \/ Exit(i)
  BY DEF ProbeDirect
<1> QED  BY <1>1, <1>2, <1>3, FindStep, ExitStep

LEMMA EndpointsTyped ==
  ASSUME NEW type, NEW url \in URL
  PROVE  Endpoints(type, url) \in Seq(URL) /\ Len(Endpoints(type, url)) \in {1, 2}
<1> DEFINE conventional == [url EXCEPT !.suffix = Conventional(type), !.slash = FALSE]
<1>1. Conventional(type) \in Text
  BY WordsAreText DEF Conventional
<1>2. conventional \in URL
  BY <1>1 DEF URL
<1>3. Endpoints(type, url) \in {<<url>>, <<conventional>>, <<url, conventional>>}
  BY DEF Endpoints
<1>4. \A u, v \in URL : /\ <<u>> \in Seq(URL) /\ Len(<<u>>) = 1
                        /\ <<u, v>> \in Seq(URL) /\ Len(<<u, v>>) = 2
  OBVIOUS
<1> HIDE DEF conventional
<1> QED  BY <1>2, <1>3, <1>4

\* The endpoint a typed inspection scrapes is one of its two.
LEMMA ScrapedTyped ==
  ASSUME NEW p, Process(p), p.pc \in {"exact", "fallback"}
  PROVE  EndpointsOf(p)[IF p.pc = "exact" THEN 1 ELSE 2] \in URL
<1> DEFINE k == IF p.pc = "exact" THEN 1 ELSE 2
<1>1. EndpointsOf(p) \in Seq(URL) /\ Len(EndpointsOf(p)) \in {1, 2}
  BY EndpointsTyped DEF Process, Typed, EndpointsOf
<1>2. k \in 1..Len(EndpointsOf(p))
  <2>1. CASE p.pc = "exact"  BY <1>1, <2>1
  <2>2. CASE p.pc = "fallback"
    <3>1. k = 2 /\ Len(EndpointsOf(p)) = 2  BY <2>2 DEF Process
    <3> HIDE DEF k
    <3> QED  BY <3>1
  <2> QED  BY <2>1, <2>2
<1> HIDE DEF k
<1>3. EndpointsOf(p)[k] \in URL
  BY <1>1, <1>2
<1> QED  BY <1>3 DEF k

LEMMA ScrapeStep ==
  ASSUME OnboardingInvariant, NEW i \in Inspectors, Scrape(i)
  PROVE  OnboardingInvariant'
<1> DEFINE p == insp[i]
           type == p.request.type
           k == IF p.pc = "exact" THEN 1 ELSE 2
           endpoint == Exact(i)[k]
<1>1. /\ Process(p) /\ Typed(p) /\ p.pc \in {"exact", "fallback"} /\ p.pc \in ProbeLabels
      /\ UNCHANGED <<file, sound, confirmed>>
  BY DEF OnboardingInvariant, Process, Scrape, ProbeLabels
<1>2. type \in {"quarkus", "micronaut"} /\ type \in Suggestable
  BY <1>1 DEF Process, Suggestable
<1>3. Exact(i) = EndpointsOf(p) /\ (p.pc = "fallback" => Len(Exact(i)) = 2)
  BY <1>1 DEF Exact, EndpointsOf, Process
<1>4. endpoint \in URL
  BY <1>1, <1>3, ScrapedTyped
<1>5. Suggestion(type, endpoint, TRUE) \in [type : Text, url : URL, metrics : BOOLEAN]
      /\ Suggestion(type, endpoint, TRUE).type \in Suggestable
  <2> HIDE DEF endpoint, type
  <2> QED  BY <1>2, <1>4, SuggestionTyped
<1>6. \/ Find(i, Suggestion(type, endpoint, TRUE))
      \/ Len(Exact(i)) = 2 /\ Goto(i, "fallback")
      \/ Exit(i)
  BY DEF Scrape
<1>7. CASE Find(i, Suggestion(type, endpoint, TRUE))
  <2> HIDE DEF endpoint, type
  <2> QED  BY <1>1, <1>5, <1>7, FindStep
<1>8. CASE Len(Exact(i)) = 2 /\ Goto(i, "fallback")
  <2> DEFINE q == [p EXCEPT !.pc = "fallback"]
  <2>1. insp'[i] = q /\ insp' = [insp EXCEPT ![i] = insp'[i]]
    BY <1>8 DEF OnboardingInvariant, Goto
  <2>2. Typed(q) /\ q.pc = "fallback" /\ q.request = p.request
    BY <1>1 DEF Typed, Labels, ProbeLabels
  <2>3. Process(q)
    <3>1. EndpointsOf(q) = EndpointsOf(p)
      BY <2>2 DEF EndpointsOf
    <3> HIDE DEF q, p
    <3> QED  BY <1>1, <1>2, <1>3, <1>8, <2>2, <3>1 DEF Process, Suggesting, Validated
  <2> HIDE DEF q
  <2> QED  BY <1>1, <2>1, <2>2, <2>3, ProcessStep
<1>9. CASE Exit(i)
  BY <1>1, <1>9, ExitStep
<1> QED  BY <1>6, <1>7, <1>8, <1>9

LEMMA DeadlineStep ==
  ASSUME OnboardingInvariant, NEW i \in Inspectors, DeadlinePasses(i)
  PROVE  OnboardingInvariant'
<1> DEFINE p == insp[i]
           q == [p EXCEPT !.late = TRUE]
<1>1. Process(p) /\ Typed(p) /\ p.pc \in ProbeLabels /\ UNCHANGED <<file, sound, confirmed>>
  BY DEF OnboardingInvariant, Process, DeadlinePasses, Probing
<1>2. insp'[i] = q /\ insp' = [insp EXCEPT ![i] = insp'[i]]
  BY DEF OnboardingInvariant, DeadlinePasses
<1>3. Typed(q) /\ q.pc = p.pc /\ q.request = p.request
  BY <1>1 DEF Typed
<1>4. Process(q)
  <2>1. EndpointsOf(q) = EndpointsOf(p)
    BY <1>3 DEF EndpointsOf
  <2> HIDE DEF q, p
  <2> QED  BY <1>1, <1>3, <2>1 DEF Process, ProbeLabels, Suggesting, Validated
<1> HIDE DEF q
<1> QED  BY <1>1, <1>2, <1>3, <1>4, ProcessStep DEF ProbeLabels

-----------------------------------------------------------------------------
(* Steps at the file.                                                      *)

\* What a process with a suggestion keeps when it goes on.
LEMMA GoesOn ==
  ASSUME NEW p, Process(p), p.pc \in Suggesting,
         NEW label \in Validated, label # "append",
         Validate(<<TargetOf(p)>>).accepted
  PROVE  LET q == [p EXCEPT !.pc = label] IN Process(q) /\ q.pc = label
<1> DEFINE q == [p EXCEPT !.pc = label]
<1>1. label \in Labels
  BY DEF Labels, Validated, Suggesting
<1>2. Typed(q) /\ q.pc = label /\ q.request = p.request /\ q.result = p.result
  BY <1>1, GotoLabel
<1>3. TargetOf(q) = TargetOf(p)
  BY <1>2, GotoTarget
<1>4. Process(q)
  <2> HIDE DEF q
  <2> QED  BY <1>2, <1>3 DEF Process, Suggesting, Validated
<1> QED  BY <1>2, <1>4

LEMMA SuggestStep ==
  ASSUME OnboardingInvariant, NEW i \in Inspectors, Suggest(i)
  PROVE  OnboardingInvariant'
<1> DEFINE p == insp[i]
           mode == p.request.mode
           q == [p EXCEPT !.pc = mode]
<1>1. Process(p) /\ p.pc = "found" /\ UNCHANGED <<file, sound, confirmed>>
  BY DEF OnboardingInvariant, Suggest
<1>2. mode \in {"print", "create", "add"}
  BY <1>1 DEF Process, Typed
<1>3. NewTarget(i) = TargetOf(p)
  BY DEF NewTarget, Name, TargetOf
<1>4. CASE Exit(i)
  BY <1>1, <1>4, ExitStep
<1>5. CASE Validate(<<TargetOf(p)>>).accepted /\ Goto(i, mode)
  <2>1. insp'[i] = q /\ insp' = [insp EXCEPT ![i] = insp'[i]]
    BY <1>5 DEF OnboardingInvariant, Goto
  <2>2. Process(q) /\ q.pc = mode
    <3>1. mode \in Validated /\ mode # "append" /\ p.pc \in Suggesting
      BY <1>1, <1>2 DEF Validated, Suggesting
    <3> HIDE DEF p, mode
    <3> QED  BY <1>1, <1>5, <3>1, GoesOn
  <2> HIDE DEF q, mode
  <2> QED  BY <1>1, <1>2, <2>1, <2>2, ProcessStep
<1> QED  BY <1>3, <1>4, <1>5 DEF Suggest

\* The rest of the invariant is about the process that takes a step at the file,
\* the file and the confirmations.
LEMMA FileStep ==
  ASSUME OnboardingInvariant, NEW i \in Inspectors,
         insp' = [insp EXCEPT ![i] = insp'[i]], Process(insp'[i]),
         file' \in ConfigFile, sound' \in BOOLEAN,
         OneCreator', ConfirmedTargetsStay', SoundFilesLoad'
  PROVE  OnboardingInvariant'
<1>1. /\ insp' = [j \in Inspectors |-> insp'[j]]
      /\ \A j \in Inspectors : Process(insp'[j])
  BY DEF OnboardingInvariant
<1> QED  BY <1>1 DEF OnboardingInvariant

\* Who creates the file after a process went on.
LEMMA CreatingAfter ==
  ASSUME OnboardingInvariant, NEW i \in Inspectors, insp' = [insp EXCEPT ![i] = insp'[i]]
  PROVE  /\ insp'[i].pc \in {"write", "remove"} => Creating' = Creating \cup {i}
         /\ insp'[i].pc \notin {"write", "remove"} => Creating' = Creating \ {i}
BY DEF OnboardingInvariant, Creating

\* The target a process adds.
LEMMA NewTargetPlain ==
  ASSUME OnboardingInvariant, NEW i \in Inspectors, insp[i].pc \in Validated
  PROVE  /\ NewTarget(i) = TargetOf(insp[i]) /\ Plain(NewTarget(i))
         /\ Validate(<<NewTarget(i)>>).accepted
<1>1. Process(insp[i]) /\ Typed(insp[i]) /\ insp[i].pc \in Suggesting
  BY DEF OnboardingInvariant, Process, Validated
<1>2. NewTarget(i) = TargetOf(insp[i])
  BY DEF NewTarget, Name, TargetOf
<1>3. Plain(TargetOf(insp[i]))
  BY <1>1, PlainTarget DEF Process
<1> QED  BY <1>1, <1>2, <1>3 DEF Process

LEMMA ShowStep ==
  ASSUME OnboardingInvariant, NEW i \in Inspectors, Show(i)
  PROVE  OnboardingInvariant'
BY ExitStep DEF Show

LEMMA InterruptStep ==
  ASSUME OnboardingInvariant, NEW i \in Inspectors, Interrupt(i)
  PROVE  OnboardingInvariant'
BY ExitStep DEF Interrupt

LEMMA ReadStep ==
  ASSUME OnboardingInvariant, NEW i \in Inspectors, Read(i)
  PROVE  OnboardingInvariant'
<1> DEFINE p == insp[i]
           q == [p EXCEPT !.pc = "append", !.read = file]
<1>1. /\ Process(p) /\ Typed(p) /\ p.pc = "add" /\ UNCHANGED <<file, sound, confirmed>>
      /\ file \in ConfigFile
  BY DEF OnboardingInvariant, Process, Read
<1>2. CASE Exit(i)
  BY <1>1, <1>2, ExitStep
<1>3. CASE Appendable(file, NewTarget(i)) /\ insp' = [insp EXCEPT ![i].pc = "append", ![i].read = file]
  <2>1. insp'[i] = q /\ insp' = [insp EXCEPT ![i] = insp'[i]]
    BY <1>3 DEF OnboardingInvariant
  <2>2. /\ Typed(q) /\ q.pc = "append" /\ q.request = p.request /\ q.result = p.result
        /\ q.read = file
    BY <1>1 DEF Typed, Labels
  <2>3. TargetOf(q) = TargetOf(p) /\ NewTarget(i) = TargetOf(p) /\ Validate(<<TargetOf(p)>>).accepted
    BY <1>1, <2>2, GotoTarget, NewTargetPlain DEF Validated, Suggesting
  <2>4. Process(q)
    <3> HIDE DEF q, p
    <3> QED  BY <1>1, <1>3, <2>2, <2>3 DEF Process, Validated, Suggesting
  <2> HIDE DEF q
  <2> QED  BY <1>1, <2>1, <2>2, <2>4, ProcessStep
<1> QED  BY <1>2, <1>3 DEF Read

LEMMA OpenStep ==
  ASSUME OnboardingInvariant, NEW i \in Inspectors, Open(i)
  PROVE  OnboardingInvariant'
<1> DEFINE p == insp[i]
           q == [p EXCEPT !.pc = "write"]
<1>1. Process(p) /\ p.pc = "create" /\ p.pc \in Suggesting /\ confirmed' = confirmed
  BY DEF OnboardingInvariant, Open, Suggesting
<1>2. CASE file.exists
  BY <1>1, <1>2, ExitStep DEF Open
<1>3. CASE ~file.exists
  <2>1. /\ file' = [File(<<>>) EXCEPT !.complete = FALSE, !.layout = FALSE] /\ sound' = FALSE
        /\ Goto(i, "write")
    BY <1>3 DEF Open
  <2>2. file' \in ConfigFile /\ file'.exists
    <3>1. File(<<>>) \in ConfigFile /\ File(<<>>).exists
      <4>1. <<>> \in Seq(TargetConfig)  OBVIOUS
      <4> QED  BY <4>1 DEF File, ConfigFile
    <3> QED  BY <2>1, <3>1 DEF ConfigFile
  <2>3. insp'[i] = q /\ insp' = [insp EXCEPT ![i] = insp'[i]]
    BY <2>1 DEF OnboardingInvariant, Goto
  <2>4. Process(q) /\ q.pc = "write"
    <3>1. Validate(<<TargetOf(p)>>).accepted
      BY <1>1, NewTargetPlain DEF Validated, Suggesting
    <3>2. "write" \in Validated
      BY DEF Validated, Suggesting
    <3> HIDE DEF p
    <3> QED  BY <1>1, <3>1, <3>2, GoesOn
  <2>5. \A c \in confirmed : c.raced
    BY <1>3 DEF OnboardingInvariant, ConfirmedTargetsStay
  <2>6. Creating = {} /\ Creating' = {i}
    <3>1. Creating = {}
      BY <1>3 DEF OnboardingInvariant, OneCreator
    <3> HIDE DEF q
    <3> QED  BY <2>3, <2>4, <3>1, CreatingAfter
  <2>7. OneCreator'
    BY <1>1, <2>1, <2>2, <2>5, <2>6 DEF OneCreator
  <2>8. ConfirmedTargetsStay' /\ SoundFilesLoad' /\ sound' \in BOOLEAN
    BY <1>1, <2>1, <2>5 DEF ConfirmedTargetsStay, SoundFilesLoad
  <2> HIDE DEF q
  <2> QED  BY <2>2, <2>3, <2>4, <2>7, <2>8, FileStep
<1> QED  BY <1>2, <1>3

\* What is left of a write that failed is a file.
LEMMA CutTyped ==
  ASSUME NEW f \in ConfigFile, NEW t \in TargetConfig, NEW g \in CutFiles(f, t)
  PROVE  /\ g \in ConfigFile /\ g.exists = f.exists
         /\ \A k \in DOMAIN f.targets : k \in DOMAIN g.targets /\ g.targets[k] = f.targets[k]
<1>1. CutEntries(t) \subseteq TargetConfig
  <2>1. [t EXCEPT !.url = NoURL] \in TargetConfig
    BY NoURLTyped DEF TargetConfig
  <2>2. [t EXCEPT !.url.suffix = "cut"] \in TargetConfig
    <3>1. [t.url EXCEPT !.suffix = "cut"] \in URL
      BY WordsAreText DEF TargetConfig, URL
    <3> QED  BY <3>1 DEF TargetConfig
  <2> QED  BY <2>1, <2>2 DEF CutEntries
<1>2. CASE g = [f EXCEPT !.parses = FALSE]
  BY <1>2 DEF ConfigFile
<1>3. CASE \E e \in CutEntries(t) : g = [f EXCEPT !.targets = Append(@, e)]
  <2>1. PICK e \in TargetConfig : g = [f EXCEPT !.targets = Append(@, e)]
    BY <1>1, <1>3
  <2>2. /\ Append(f.targets, e) \in Seq(TargetConfig)
        /\ \A k \in DOMAIN f.targets :
             k \in DOMAIN Append(f.targets, e) /\ Append(f.targets, e)[k] = f.targets[k]
    BY DEF ConfigFile
  <2>3. g.targets = Append(f.targets, e) /\ g.exists = f.exists
    BY <2>1 DEF ConfigFile
  <2>4. g \in ConfigFile
    BY <2>1, <2>2 DEF ConfigFile
  <2> QED  BY <2>2, <2>3, <2>4
<1> QED  BY <1>2, <1>3 DEF CutFiles

LEMMA WriteStep ==
  ASSUME OnboardingInvariant, NEW i \in Inspectors, Write(i)
  PROVE  OnboardingInvariant'
<1> DEFINE p == insp[i]
           t == NewTarget(i)
           q == [p EXCEPT !.pc = "remove"]
<1>1. Process(p) /\ p.pc = "write" /\ p.pc \in Suggesting /\ i \in Creating
  BY DEF OnboardingInvariant, Write, Suggesting, Creating
<1>2. t = TargetOf(p) /\ Plain(t) /\ t \in TargetConfig /\ Validate(<<t>>).accepted
  BY <1>1, NewTargetPlain DEF Validated, Suggesting, Plain
<1>3. Creating = {i} /\ ~sound /\ file.exists /\ \A c \in confirmed : c.raced
  BY <1>1 DEF OnboardingInvariant, OneCreator
<1>4. CASE /\ file' = File(<<t>>) /\ sound' = TRUE
           /\ confirmed' = confirmed \cup {Confirmation(i, FALSE)}
           /\ Exit(i)
  <2>1. insp'[i] = Off /\ insp' = [insp EXCEPT ![i] = insp'[i]]
    BY <1>4, Updated DEF Exit
  <2>2. Creating' = {}
    BY <1>3, <2>1, IdleProcess, CreatingAfter
  <2>3. file' \in ConfigFile /\ file'.exists /\ file'.targets = <<t>>
    <3>1. <<t>> \in Seq(TargetConfig)
      BY <1>2
    <3> HIDE DEF t
    <3> QED  BY <1>2, <1>4, <3>1 DEF File, ConfigFile
  <2>4. \A c \in confirmed' : ~c.raced => c.target = t
    BY <1>3, <1>4 DEF Confirmation
  <2>5. t \in Written'
    <3> HIDE DEF t
    <3> QED  BY <2>3 DEF Written
  <2>6. ConfirmedTargetsStay'
    <3> HIDE DEF t
    <3> QED  BY <2>3, <2>4, <2>5 DEF ConfirmedTargetsStay
  <2>7. SoundFilesLoad' /\ sound' \in BOOLEAN /\ OneCreator'
    <3>1. Literal(t) => Load(file').accepted
      <4> HIDE DEF t
      <4> QED  BY <1>2, <1>4, CreatedLoads
    <3> HIDE DEF t
    <3> QED  BY <1>4, <2>2, <2>3, <2>5, <3>1 DEF SoundFilesLoad, OneCreator
  <2> QED  BY <2>1, <2>3, <2>6, <2>7, IdleProcess, FileStep
<1>5. CASE /\ file' \in CutFiles(File(<<>>), t) \cup {file}
           /\ Goto(i, "remove")
           /\ UNCHANGED <<sound, confirmed>>
  <2>1. insp'[i] = q /\ insp' = [insp EXCEPT ![i] = insp'[i]]
    BY <1>5 DEF OnboardingInvariant, Goto
  <2>2. Process(q) /\ q.pc = "remove"
    <3>1. "remove" \in Validated
      BY DEF Validated, Suggesting
    <3> HIDE DEF p
    <3> QED  BY <1>1, <1>2, <3>1, GoesOn
  <2>3. Creating' = {i}
    <3> HIDE DEF q
    <3> QED  BY <1>3, <2>1, <2>2, CreatingAfter
  <2>4. file' \in ConfigFile /\ file'.exists
    <3>1. File(<<>>) \in ConfigFile /\ File(<<>>).exists
      <4>1. <<>> \in Seq(TargetConfig)  OBVIOUS
      <4> QED  BY <4>1 DEF File, ConfigFile
    <3>2. file \in ConfigFile
      BY DEF OnboardingInvariant
    <3> HIDE DEF t
    <3> QED  BY <1>2, <1>3, <1>5, <3>1, <3>2, CutTyped
  <2>5. OneCreator' /\ ConfirmedTargetsStay' /\ SoundFilesLoad' /\ sound' \in BOOLEAN
    BY <1>3, <1>5, <2>3, <2>4 DEF OneCreator, ConfirmedTargetsStay, SoundFilesLoad, OnboardingInvariant
  <2> HIDE DEF q
  <2> QED  BY <2>1, <2>2, <2>4, <2>5, FileStep
<1> QED  BY <1>4, <1>5 DEF Write

LEMMA RemoveStep ==
  ASSUME OnboardingInvariant, NEW i \in Inspectors, Remove(i)
  PROVE  OnboardingInvariant'
<1>1. Creating = {i} /\ \A c \in confirmed : c.raced
  BY DEF OnboardingInvariant, OneCreator, Creating, Remove
<1>2. insp'[i] = Off /\ insp' = [insp EXCEPT ![i] = insp'[i]]
  BY Updated DEF Exit, Remove
<1>3. Creating' = {}
  BY <1>1, <1>2, IdleProcess, CreatingAfter
<1>4. file' \in ConfigFile /\ sound' = FALSE /\ confirmed' = confirmed
  <2>1. <<>> \in Seq(TargetConfig)  OBVIOUS
  <2> QED  BY <2>1 DEF Remove, NoFile, ConfigFile
<1>5. OneCreator' /\ ConfirmedTargetsStay' /\ SoundFilesLoad'
  BY <1>1, <1>3, <1>4 DEF OneCreator, ConfirmedTargetsStay, SoundFilesLoad
<1> QED  BY <1>2, <1>4, <1>5, IdleProcess, FileStep

AppendedFiles(f, t) == {[f EXCEPT !.targets = Append(@, t), !.parses = parses] : parses \in BOOLEAN}

\* An entry at the end of the file leaves what was there.
LEMMA AppendTyped ==
  ASSUME NEW f \in ConfigFile, NEW t \in TargetConfig, NEW g \in AppendedFiles(f, t)
  PROVE  /\ g \in ConfigFile /\ g.exists = f.exists
         /\ \A k \in DOMAIN f.targets : k \in DOMAIN g.targets /\ g.targets[k] = f.targets[k]
         /\ \E k \in DOMAIN g.targets : g.targets[k] = t
<1>1. f.targets \in Seq(TargetConfig)
  BY DEF ConfigFile
<1>2. /\ Append(f.targets, t) \in Seq(TargetConfig)
      /\ \A k \in DOMAIN f.targets :
           k \in DOMAIN Append(f.targets, t) /\ Append(f.targets, t)[k] = f.targets[k]
      /\ Len(f.targets) + 1 \in DOMAIN Append(f.targets, t)
      /\ Append(f.targets, t)[Len(f.targets) + 1] = t
  BY <1>1
<1>3. g.targets = Append(f.targets, t) /\ g.exists = f.exists
  BY DEF ConfigFile, AppendedFiles
<1>4. g \in ConfigFile
  BY <1>2 DEF ConfigFile, AppendedFiles
<1> QED  BY <1>2, <1>3, <1>4

\* A file that keeps the targets of another keeps its confirmations.
LEMMA KeepsConfirmed ==
  ASSUME ConfirmedTargetsStay, file'.exists = file.exists,
         \A k \in DOMAIN file.targets : k \in DOMAIN file'.targets /\ file'.targets[k] = file.targets[k],
         NEW c \in confirmed, ~c.raced
  PROVE  file'.exists /\ c.target \in Written'
<1>1. file.exists /\ c.target \in Written
  BY DEF ConfirmedTargetsStay
<1>2. PICK k \in DOMAIN file.targets : c.target = file.targets[k]
  BY <1>1 DEF Written
<1>3. k \in DOMAIN file'.targets /\ file'.targets[k] = c.target
  BY <1>2
<1> QED  BY <1>1, <1>3 DEF Written

LEMMA AppendStep ==
  ASSUME OnboardingInvariant, NEW i \in Inspectors, AppendEntry(i)
  PROVE  OnboardingInvariant'
<1> DEFINE p == insp[i]
           t == NewTarget(i)
<1>1. /\ Process(p) /\ p.pc = "append" /\ Typed(p)
      /\ file \in ConfigFile /\ sound \in BOOLEAN /\ OneCreator
      /\ ConfirmedTargetsStay /\ SoundFilesLoad /\ i \notin Creating
  BY DEF OnboardingInvariant, AppendEntry, Process, Creating
<1>2. /\ t = TargetOf(p) /\ Plain(t) /\ t \in TargetConfig /\ Validate(<<t>>).accepted
      /\ p.read \in ConfigFile /\ Appendable(p.read, t)
  BY <1>1, NewTargetPlain DEF Validated, Suggesting, Plain, Process, Typed
<1>3. insp'[i] = Off /\ insp' = [insp EXCEPT ![i] = insp'[i]]
  BY Updated DEF Exit, AppendEntry
<1>4. Creating' = Creating
  BY <1>1, <1>3, IdleProcess, CreatingAfter
<1>5. CASE /\ file.exists
           /\ \E parses \in {file.parses} \cup (IF EndsCut(i) THEN {FALSE} ELSE {}) :
                file' = IF file.layout
                        THEN [file EXCEPT !.targets = Append(@, t), !.parses = parses]
                        ELSE [file EXCEPT !.parses = FALSE]
           /\ sound' = (sound /\ file = p.read)
           /\ confirmed' = confirmed \cup {Confirmation(i, Creating # {} \/ ~file.layout)}
  <2> DEFINE new == Confirmation(i, Creating # {} \/ ~file.layout)
  <2>1. new.target = t /\ new.raced = (Creating # {} \/ ~file.layout)
    BY DEF Confirmation
  <2>2. /\ file' \in ConfigFile /\ file'.exists = file.exists
        /\ \A k \in DOMAIN file.targets : k \in DOMAIN file'.targets /\ file'.targets[k] = file.targets[k]
        /\ file.layout => t \in Written'
    <3>1. CASE file.layout
      <4> HIDE DEF t
      <4>1. file' \in AppendedFiles(file, t)
        <5>1. file.parses \in BOOLEAN
          BY <1>1 DEF ConfigFile
        <5> QED  BY <1>5, <3>1, <5>1 DEF AppendedFiles
      <4>2. /\ file' \in ConfigFile /\ file'.exists = file.exists
            /\ \A k \in DOMAIN file.targets :
                 k \in DOMAIN file'.targets /\ file'.targets[k] = file.targets[k]
            /\ \E k \in DOMAIN file'.targets : file'.targets[k] = t
        <5>1. file \in ConfigFile /\ t \in TargetConfig
          BY <1>1, <1>2
        <5> HIDE DEF new, p
        <5> QED  BY <4>1, <5>1, AppendTyped
      <4>3. t \in {file'.targets[k] : k \in DOMAIN file'.targets}
        BY <4>2
      <4> QED  BY <4>2, <4>3 DEF Written
    <3>2. CASE ~file.layout
      BY <1>1, <1>5, <3>2 DEF ConfigFile
    <3> QED  BY <3>1, <3>2
  <2>3. OneCreator'
    <3>1. CASE Creating = {}
      BY <3>1, <1>4 DEF OneCreator
    <3>2. CASE Creating # {}
      <4>1. new.raced
        BY <2>1, <3>2
      <4> HIDE DEF new
      <4> QED  BY <1>1, <1>4, <1>5, <2>2, <3>2, <4>1 DEF OneCreator, new
    <3> QED  BY <3>1, <3>2
  <2>4. ConfirmedTargetsStay'
    <3> SUFFICES ASSUME NEW c \in confirmed', ~c.raced
                 PROVE  file'.exists /\ c.target \in Written'
      BY DEF ConfirmedTargetsStay
    <3>1. CASE c \in confirmed
      BY <1>1, <2>2, <3>1, KeepsConfirmed
    <3>2. CASE c = new
      BY <1>5, <2>1, <2>2, <3>2
    <3> QED  BY <1>5, <3>1, <3>2
  <2>5. SoundFilesLoad' /\ sound' \in BOOLEAN
    <3>1. ASSUME sound', \A u \in Written' : Literal(u)
          PROVE  Load(file').accepted
      <4>1. sound /\ file = p.read /\ Appendable(file, t) /\ file.layout
        <5>1. sound /\ file = p.read
          BY <1>5, <3>1
        <5>2. Appendable(file, t)
          BY <1>2, <5>1
        <5> HIDE DEF new, p, t
        <5> QED  BY <5>1, <5>2 DEF Appendable
      <4>2. Literal(t) /\ \A k \in DOMAIN file.targets : Literal(file.targets[k])
        <5> HIDE DEF t
        <5> QED  BY <2>2, <3>1, <4>1 DEF Written
      <4>3. Load(file).accepted
        BY <1>1, <4>1, <4>2 DEF SoundFilesLoad, Written
      <4>4. file' = [file EXCEPT !.targets = Append(@, t)]
        <5>1. ~EndsCut(i)
          BY <4>1 DEF EndsCut
        <5> HIDE DEF t, p
        <5>2. file' = [file EXCEPT !.targets = Append(@, t), !.parses = file.parses]
          BY <1>5, <4>1, <5>1
        <5> QED  BY <1>1, <5>2 DEF ConfigFile
      <4> HIDE DEF t
      <4> QED  BY <1>1, <1>2, <4>2, <4>3, <4>4, <4>1, AppendStaysAccepted
    <3> QED  BY <1>5, <3>1 DEF SoundFilesLoad
  <2> QED  BY <1>3, <2>2, <2>3, <2>4, <2>5, IdleProcess, FileStep
<1>6. CASE file.exists /\ file' \in CutFiles(file, t) /\ sound' = FALSE /\ UNCHANGED confirmed
  <2>1. /\ file' \in ConfigFile /\ file'.exists = file.exists
        /\ \A k \in DOMAIN file.targets : k \in DOMAIN file'.targets /\ file'.targets[k] = file.targets[k]
    <3> HIDE DEF t
    <3> QED  BY <1>1, <1>2, <1>6, CutTyped
  <2>2. ConfirmedTargetsStay'
    BY <1>1, <1>6, <2>1, KeepsConfirmed DEF ConfirmedTargetsStay
  <2>3. OneCreator' /\ SoundFilesLoad' /\ sound' \in BOOLEAN
    BY <1>1, <1>4, <1>6, <2>1 DEF OneCreator, SoundFilesLoad
  <2> QED  BY <1>3, <2>1, <2>2, <2>3, IdleProcess, FileStep
<1>7. CASE UNCHANGED <<file, sound, confirmed>>
  BY <1>3, <1>7, IdleProcess, ProcessStep
<1> QED  BY <1>5, <1>6, <1>7 DEF AppendEntry

-----------------------------------------------------------------------------
(* Steps of others.                                                        *)

LEMMA DeployStep ==
  ASSUME OnboardingInvariant, Deploy
  PROVE  OnboardingInvariant'
<1>1. insp' = [i \in Inspectors |-> [insp[i] EXCEPT !.steady = FALSE]]
      /\ UNCHANGED <<file, sound, confirmed>>
  BY DEF Deploy
<1>2. ASSUME NEW i \in Inspectors
      PROVE  Process(insp'[i]) /\ insp'[i].pc = insp[i].pc
  <2> DEFINE p == insp[i]
             q == [p EXCEPT !.steady = FALSE]
  <2>1. Process(p) /\ insp'[i] = q
    BY <1>1 DEF OnboardingInvariant
  <2>2. /\ Typed(q) /\ q.pc = p.pc /\ q.request = p.request /\ q.result = p.result
        /\ q.read = p.read
    BY <2>1 DEF Process, Typed
  <2>3. TargetOf(q) = TargetOf(p) /\ EndpointsOf(q) = EndpointsOf(p)
    BY <2>2, GotoTarget
  <2>4. Process(q)
    <3> HIDE DEF p, q
    <3> QED  BY <2>1, <2>2, <2>3 DEF Process
  <2> QED  BY <2>1, <2>2, <2>4
<1>3. Creating' = Creating
  BY <1>2 DEF Creating
<1>4. OneCreator' /\ ConfirmedTargetsStay' /\ SoundFilesLoad'
  BY <1>1, <1>3 DEF OnboardingInvariant, OneCreator, ConfirmedTargetsStay, SoundFilesLoad, Written
<1>5. insp' = [i \in Inspectors |-> insp'[i]]
  BY <1>1
<1> QED  BY <1>1, <1>2, <1>4, <1>5 DEF OnboardingInvariant

LEMMA EditStep ==
  ASSUME OnboardingInvariant, Edit
  PROVE  OnboardingInvariant'
<1>1. file' \in ConfigFile /\ UNCHANGED insp /\ Creating = {} /\ confirmed' = {}
      /\ sound' = Load(file').accepted
  BY InputsAssumption DEF Edit
<1>2. sound' \in BOOLEAN
  BY <1>1 DEF Load, Validate
<1>3. Creating' = {}
  BY <1>1 DEF Creating
<1> QED  BY <1>1, <1>2, <1>3
         DEF OnboardingInvariant, OneCreator, ConfirmedTargetsStay, SoundFilesLoad

-----------------------------------------------------------------------------
(* The theorems.                                                           *)

LEMMA InitInvariant == Init => OnboardingInvariant
<1> SUFFICES ASSUME Init PROVE OnboardingInvariant
  OBVIOUS
<1>1. file \in ConfigFile /\ sound = Load(file).accepted /\ confirmed = {}
  BY InputsAssumption DEF Init
<1>2. sound \in BOOLEAN
  BY <1>1 DEF Load, Validate
<1>3. /\ insp = [i \in Inspectors |-> insp[i]]
      /\ \A i \in Inspectors : insp[i] \in {Idle, Off}
  BY DEF Init
<1>4. Creating = {} /\ \A i \in Inspectors : Process(insp[i])
  BY <1>3, IdleProcess DEF Creating
<1> QED  BY <1>1, <1>2, <1>3, <1>4
         DEF OnboardingInvariant, OneCreator, ConfirmedTargetsStay, SoundFilesLoad

LEMMA StepInvariant == OnboardingInvariant /\ [Next]_vars => OnboardingInvariant'
<1> SUFFICES ASSUME OnboardingInvariant, [Next]_vars PROVE OnboardingInvariant'
  OBVIOUS
<1>1. ASSUME NEW i \in Inspectors, Probe(i) PROVE OnboardingInvariant'
  BY <1>1, DeadlineStep, ProbeHealthStep, ProbeStatliteStep, ProbeQuarkusStep,
     ProbePrometheusStep, ProbeIndexStep, ProbeDirectStep, ScrapeStep DEF Probe
<1>2. ASSUME NEW i \in Inspectors, Store(i) PROVE OnboardingInvariant'
  BY <1>2, SuggestStep, ShowStep, OpenStep, WriteStep, RemoveStep, ReadStep, AppendStep,
     InterruptStep DEF Store
<1>3. CASE UNCHANGED vars
  BY <1>3 DEF vars, OnboardingInvariant, OneCreator, Creating, ConfirmedTargetsStay,
              SoundFilesLoad, Written
<1> QED  BY <1>1, <1>2, <1>3, RunStep, DeployStep, EditStep DEF Next

THEOREM OnboardingSafe == Spec => []OnboardingInvariant
BY InitInvariant, StepInvariant, PTL DEF Spec

\* A target reported as written stays in the file until the user edits it.
THEOREM ConfirmedStay == Spec => []ConfirmedTargetsStay
<1>1. OnboardingInvariant => ConfirmedTargetsStay
  BY DEF OnboardingInvariant
<1> QED  BY <1>1, OnboardingSafe, PTL

\* A file that loads still does after targets were added to what was read.
THEOREM SoundLoad == Spec => []SoundFilesLoad
<1>1. OnboardingInvariant => SoundFilesLoad
  BY DEF OnboardingInvariant
<1> QED  BY <1>1, OnboardingSafe, PTL

\* Whatever has become of the file, what is loaded of it is built and settled.
THEOREM AcceptedBuilds == Spec => []AcceptedFilesBuild
<1>1. OnboardingInvariant => AcceptedFilesBuild
  BY AcceptedBuild DEF OnboardingInvariant, AcceptedFilesBuild
<1> QED  BY <1>1, OnboardingSafe, PTL

-----------------------------------------------------------------------------
(* What an inspection knows of an application that stayed the same.        *)

\* What the three requests of an untyped inspection are answered.
Shown(here) ==
  [health |-> here["actuator/health"], statlite |-> here["statlite/metrics"],
   quarkus |-> here["q/metrics"]]

\* The suggestion of process p holds for an application that serves "served".
RightOf(p, served) ==
  /\ FirstCollection(Normalize(Upgrade(TargetOf(p))), served)
       = IF p.result.metrics THEN "metrics" ELSE "bare"
  /\ (p.request.type = "" => Cardinality(Matches(Shown(served[p.request.url.base]))) <= 1)
  /\ (p.request.type # "" /\ p.result.url # EndpointsOf(p)[1]
        => ~Compatible(served[p.request.url.base][p.request.url.suffix]))

UntypedLabels == {"health", "statlite", "quarkus", "prometheus", "index", "direct"}

\* What the answers so far tell, at every step.
Knows(p, served) ==
  LET here == served[p.request.url.base]
  IN  /\ (p.pc \in UntypedLabels => p.request.type = "")
      /\ (p.pc \in {"health", "statlite", "quarkus"} =>
            p.seen = [health |-> p.seen.health, statlite |-> p.seen.statlite,
                      quarkus |-> p.seen.quarkus])
      /\ (p.pc \in {"statlite", "quarkus"} => p.seen.health = here["actuator/health"])
      /\ (p.pc = "quarkus" => p.seen.statlite = here["statlite/metrics"])
      /\ (p.pc \in {"prometheus", "index"} => Matches(Shown(here)) = {"spring"})
      /\ (p.pc = "index" => AsksIndex(here["actuator/prometheus"]))
      /\ (p.pc = "direct" => Matches(Shown(here)) = {})
      /\ (p.pc = "fallback" => ~Compatible(here[p.request.url.suffix]))
      /\ (p.pc \in Suggesting => RightOf(p, served))

AnswersHold ==
  \A i \in Inspectors : insp[i].steady /\ ~insp[i].late => Knows(insp[i], app)

-----------------------------------------------------------------------------
(* What a collector obtains of a suggested target.                         *)

LEMMA AtFields ==
  ASSUME NEW base, NEW suffix
  PROVE  At(base, suffix).base = base /\ At(base, suffix).suffix = suffix
BY DEF At, NoURL

\* A suggested target is loaded as it is, its source selected automatically.
LEMMA SuggestedLoads ==
  ASSUME NEW p, Typed(p), p.result.type \in Suggestable
  PROVE  LET t == Normalize(Upgrade(TargetOf(p)))
         IN  /\ t.type = p.result.type /\ t.url = p.result.url
             /\ (t.type = "spring" => t.source = "auto")
<1> DEFINE u == TargetOf(p)
<1>1. u \in TargetConfig /\ u.type = p.result.type /\ Plain(u)
  <2>1. u.type = p.result.type
    BY DEF TargetOf, Target
  <2> QED  BY <2>1, PlainTarget DEF Plain
<1>2. u.url = p.result.url /\ u.source = "absent" /\ u.legacyUser = FALSE
  BY DEF TargetOf, Target
<1>3. Upgrade(u) = u
  BY <1>1, PlainIsCurrent
<1> HIDE DEF u
<1>4. LET n == Normalize(u)
      IN  /\ n.type = u.type /\ n.url = u.url
          /\ n.source = IF u.type # "spring" THEN u.source
                        ELSE IF u.legacyUser THEN "actuator"
                        ELSE IF u.source \in {"absent", ""} THEN "auto" ELSE u.source
  BY <1>1, NormalFields
<1>5. Normalize(Upgrade(u)) = Normalize(u)
  BY <1>3
<1> QED  BY <1>1, <1>2, <1>4, <1>5 DEF u

\* The first collection of a loaded Spring target asks what inspection asks.
LEMMA SpringCollects ==
  ASSUME NEW t, NEW served, t.type = "spring", t.source = "auto"
  PROVE  LET here == served[t.url.base]
         IN  FirstCollection(t, served) =
               IF Compatible(here["actuator/prometheus"]) THEN "metrics"
               ELSE IF AsksIndex(here["actuator/prometheus"])
               THEN IF here["actuator/metrics"] = "index" THEN "metrics" ELSE "bare"
               ELSE "bare"
BY DEF FirstCollection, AsksIndex, FallsBack

LEMMA StatliteCollects ==
  ASSUME NEW t, NEW served, t.type = "statlite-metrics",
         IsStatlite(served[t.url.base][t.url.suffix])
  PROVE  FirstCollection(t, served) =
           IF served[t.url.base][t.url.suffix] = "statlite" THEN "metrics" ELSE "bare"
BY DEF FirstCollection, IsStatlite

LEMMA ScrapeCollects ==
  ASSUME NEW t, NEW served, t.type \in {"quarkus", "micronaut"},
         Compatible(served[t.url.base][t.url.suffix])
  PROVE  FirstCollection(t, served) = "metrics"
BY DEF FirstCollection

\* None or one integration is at most one.
LEMMA AtMostOne ==
  ASSUME NEW seen, NEW type, Matches(seen) = {} \/ Matches(seen) = {type}
  PROVE  Cardinality(Matches(seen)) <= 1
<1>1. Cardinality({}) = 0
  BY FS_EmptySet
<1>2. Cardinality({type}) = 1
  BY FS_Singleton
<1> QED  BY <1>1, <1>2

-----------------------------------------------------------------------------
(* The answers hold after every step.                                      *)

\* Only the process that takes a step knows something else after it.
LEMMA KnowsStep ==
  ASSUME OnboardingInvariant, AnswersHold, NEW i \in Inspectors, UNCHANGED app,
         insp' = [insp EXCEPT ![i] = insp'[i]],
         insp'[i].steady /\ ~insp'[i].late => Knows(insp'[i], app)
  PROVE  AnswersHold'
<1>1. ASSUME NEW j \in Inspectors, insp'[j].steady, ~insp'[j].late
      PROVE  Knows(insp'[j], app')
  <2>1. CASE j = i
    BY <1>1, <2>1
  <2>2. CASE j # i
    <3>1. insp'[j] = insp[j]
      BY <2>2 DEF OnboardingInvariant
    <3> QED  BY <1>1, <3>1 DEF AnswersHold
  <2> QED  BY <2>1, <2>2
<1> QED  BY <1>1 DEF AnswersHold

LEMMA KnowsExit ==
  ASSUME OnboardingInvariant, AnswersHold, NEW i \in Inspectors, UNCHANGED app, Exit(i)
  PROVE  AnswersHold'
<1>1. insp'[i] = Off /\ insp' = [insp EXCEPT ![i] = insp'[i]]
  BY Updated DEF Exit
<1>2. ~Off.steady
  BY DEF Off, Idle
<1> QED  BY <1>1, <1>2, KnowsStep

\* A step that leaves what was asked and found.
LEMMA KnowsOn ==
  ASSUME NEW p, NEW q, NEW served, Knows(p, served),
         q.request = p.request, q.result = p.result,
         p.pc \in Suggesting, q.pc \in Suggesting
  PROVE  Knows(q, served)
<1>1. TargetOf(q) = TargetOf(p) /\ EndpointsOf(q) = EndpointsOf(p)
  BY GotoTarget
<1>2. RightOf(q, served)
  <2>1. RightOf(p, served)
    BY DEF Knows
  <2> QED  BY <1>1, <2>1 DEF RightOf
<1>3. q.pc \notin UntypedLabels \cup {"fallback"}
  BY DEF Suggesting, UntypedLabels
<1> QED  BY <1>2, <1>3 DEF Knows, UntypedLabels

LEMMA KnowsGoes ==
  ASSUME OnboardingInvariant, AnswersHold, NEW i \in Inspectors, UNCHANGED app,
         insp[i].pc \in Suggesting, NEW label \in Suggesting, Goto(i, label)
  PROVE  AnswersHold'
<1> DEFINE p == insp[i]
           q == [p EXCEPT !.pc = label]
<1>1. Typed(p)
  BY DEF OnboardingInvariant, Process
<1>2. insp'[i] = q /\ insp' = [insp EXCEPT ![i] = insp'[i]]
  BY DEF OnboardingInvariant, Goto
<1>3. /\ q.pc = label /\ q.request = p.request /\ q.result = p.result
      /\ q.steady = p.steady /\ q.late = p.late
  BY <1>1 DEF Typed
<1>4. ASSUME q.steady, ~q.late PROVE Knows(q, app)
  <2>1. Knows(p, app)
    BY <1>3, <1>4 DEF AnswersHold
  <2> HIDE DEF p, q
  <2> QED  BY <1>3, <2>1, KnowsOn DEF p
<1> HIDE DEF q
<1> QED  BY <1>2, <1>4, KnowsStep

\* A process that found what is right.
LEMMA KnowsFound ==
  ASSUME OnboardingInvariant, AnswersHold, NEW i \in Inspectors, UNCHANGED app,
         NEW r, Find(i, r),
         ASSUME NEW q, Typed(q), q.request = insp[i].request, q.result = r,
                insp[i].steady, ~insp[i].late, Knows(insp[i], app)
         PROVE  RightOf(q, app),
         r \in [type : Text, url : URL, metrics : BOOLEAN]
  PROVE  AnswersHold'
<1> DEFINE p == insp[i]
           q == [p EXCEPT !.pc = "found", !.result = r, !.seen = NoAnswers]
<1>1. Typed(p)
  BY DEF OnboardingInvariant, Process
<1>2. insp'[i] = q /\ insp' = [insp EXCEPT ![i] = insp'[i]]
  BY DEF OnboardingInvariant, Find
<1>3. /\ q.pc = "found" /\ q.request = p.request /\ q.result = r /\ Typed(q)
      /\ q.steady = p.steady /\ q.late = p.late
  BY <1>1 DEF Typed, Labels
<1>4. ASSUME q.steady, ~q.late PROVE Knows(q, app)
  <2>1. Knows(p, app) /\ p.steady /\ ~p.late
    BY <1>3, <1>4 DEF AnswersHold
  <2> HIDE DEF q
  <2>2. RightOf(q, app)
    BY <1>3, <2>1
  <2> HIDE DEF p
  <2> QED  BY <1>3, <2>2 DEF Knows, UntypedLabels
<1> HIDE DEF q
<1> QED  BY <1>2, <1>4, KnowsStep

LEMMA RunKnows ==
  ASSUME OnboardingInvariant, AnswersHold, NEW i \in Inspectors,
         NEW request \in Requests, Run(i, request)
  PROVE  AnswersHold'
<1>1. request \in CommandLine /\ UNCHANGED app
  BY InputsAssumption DEF Run
<1>2. CASE request.type = "spring"
  BY <1>1, <1>2, KnowsExit DEF Run, Exit
<1>3. CASE request.type # "spring"
  <2> DEFINE label == IF request.type = "" THEN "health" ELSE "exact"
             q == [Idle EXCEPT !.pc = label, !.request = request, !.steady = TRUE]
  <2>1. insp'[i] = q /\ insp' = [insp EXCEPT ![i] = insp'[i]]
    <3>1. insp' = [insp EXCEPT ![i] = q]
      BY <1>3 DEF Run
    <3> HIDE DEF q
    <3> QED  BY <3>1, Updated
  <2>2. q.pc = label /\ q.request = request /\ q.seen = NoAnswers
    BY DEF Idle
  <2>3. NoAnswers = [health |-> NoAnswers.health, statlite |-> NoAnswers.statlite,
                     quarkus |-> NoAnswers.quarkus]
    BY DEF NoAnswers
  <2>4. Knows(q, app)
    <3>1. CASE label = "health" /\ request.type = ""
      <4> HIDE DEF q, label
      <4> QED  BY <2>2, <2>3, <3>1 DEF Knows, UntypedLabels, Suggesting
    <3>2. CASE label = "exact"
      <4> HIDE DEF q, label
      <4> QED  BY <2>2, <2>3, <3>2 DEF Knows, UntypedLabels, Suggesting
    <3> QED  BY <3>1, <3>2
  <2> HIDE DEF q
  <2> QED  BY <1>1, <2>1, <2>4, KnowsStep
<1> QED  BY <1>2, <1>3

LEMMA DeadlineKnows ==
  ASSUME OnboardingInvariant, AnswersHold, NEW i \in Inspectors, DeadlinePasses(i)
  PROVE  AnswersHold'
<1> DEFINE q == [insp[i] EXCEPT !.late = TRUE]
<1>1. Typed(insp[i]) /\ UNCHANGED app
  BY DEF OnboardingInvariant, Process, DeadlinePasses
<1>2. insp'[i] = q /\ insp' = [insp EXCEPT ![i] = insp'[i]]
  BY DEF OnboardingInvariant, DeadlinePasses
<1>3. q.late
  BY <1>1 DEF Typed
<1> HIDE DEF q
<1> QED  BY <1>1, <1>2, <1>3, KnowsStep

\* An answer in time is what the application serves.
LEMMA AnswerInTime ==
  ASSUME NEW i \in Inspectors, ~insp[i].late
  PROVE  /\ \A url : Answer(i, url) = app[url.base][url.suffix]
         /\ \A suffix : Answer(i, At(Base(i), suffix)) = app[insp[i].request.url.base][suffix]
BY AtFields DEF Answer, Base

\* Another answer leaves those there were.
LEMMA SeenUpdated ==
  ASSUME NEW seen, NEW answer,
         seen = [health |-> seen.health, statlite |-> seen.statlite, quarkus |-> seen.quarkus]
  PROVE  /\ [seen EXCEPT !.health = answer]
              = [health |-> answer, statlite |-> seen.statlite, quarkus |-> seen.quarkus]
         /\ [seen EXCEPT !.statlite = answer]
              = [health |-> seen.health, statlite |-> answer, quarkus |-> seen.quarkus]
         /\ [seen EXCEPT !.quarkus = answer]
              = [health |-> seen.health, statlite |-> seen.statlite, quarkus |-> answer]
<1>1. PICK h, s, q : seen = [health |-> h, statlite |-> s, quarkus |-> q]
  OBVIOUS
<1>2. seen.health = h /\ seen.statlite = s /\ seen.quarkus = q
  BY <1>1
<1>3. /\ [seen EXCEPT !.health = answer] = [health |-> answer, statlite |-> s, quarkus |-> q]
      /\ [seen EXCEPT !.statlite = answer] = [health |-> h, statlite |-> answer, quarkus |-> q]
      /\ [seen EXCEPT !.quarkus = answer] = [health |-> h, statlite |-> s, quarkus |-> answer]
  <2> HIDE <1>2
  <2> QED  BY <1>1
<1> QED  BY <1>2, <1>3

LEMMA ProbeHealthKnows ==
  ASSUME OnboardingInvariant, AnswersHold, NEW i \in Inspectors, ProbeHealth(i)
  PROVE  AnswersHold'
<1> DEFINE p == insp[i]
           answer == Answer(i, At(Base(i), "actuator/health"))
           seen == [p.seen EXCEPT !.health = answer]
           q == [p EXCEPT !.pc = "statlite", !.seen = seen]
<1>1. Typed(p) /\ UNCHANGED app /\ p.pc = "health"
  BY DEF OnboardingInvariant, Process, ProbeHealth
<1>2. insp'[i] = q /\ insp' = [insp EXCEPT ![i] = insp'[i]]
  BY DEF OnboardingInvariant, ProbeHealth
<1>3. /\ q.pc = "statlite" /\ q.request = p.request /\ q.seen = seen
      /\ q.steady = p.steady /\ q.late = p.late
  BY <1>1 DEF Typed
<1>4. ASSUME q.steady, ~q.late PROVE Knows(q, app)
  <2>1. Knows(p, app) /\ ~p.late
    BY <1>3, <1>4 DEF AnswersHold
  <2>2. p.request.type = "" /\ p.seen = [health |-> p.seen.health, statlite |-> p.seen.statlite,
                                         quarkus |-> p.seen.quarkus]
    BY <1>1, <2>1 DEF Knows, UntypedLabels
  <2>3. answer = app[p.request.url.base]["actuator/health"]
    BY <2>1, AnswerInTime
  <2> HIDE DEF p, answer
  <2>4. seen = [health |-> answer, statlite |-> p.seen.statlite, quarkus |-> p.seen.quarkus]
    BY <2>2, SeenUpdated
  <2>5. /\ seen.health = answer
        /\ seen = [health |-> seen.health, statlite |-> seen.statlite, quarkus |-> seen.quarkus]
    BY <2>4
  <2> HIDE DEF seen, q
  <2> QED  BY <1>3, <2>2, <2>3, <2>5 DEF Knows, UntypedLabels, Suggesting
<1> HIDE DEF q
<1> QED  BY <1>1, <1>2, <1>4, KnowsStep

LEMMA ProbeStatliteKnows ==
  ASSUME OnboardingInvariant, AnswersHold, NEW i \in Inspectors, ProbeStatlite(i)
  PROVE  AnswersHold'
<1> DEFINE p == insp[i]
           answer == Answer(i, At(Base(i), "statlite/metrics"))
           seen == [p.seen EXCEPT !.statlite = answer]
           q == [p EXCEPT !.pc = "quarkus", !.seen = seen]
<1>1. Typed(p) /\ UNCHANGED app /\ p.pc = "statlite"
  BY DEF OnboardingInvariant, Process, ProbeStatlite
<1>2. insp'[i] = q /\ insp' = [insp EXCEPT ![i] = insp'[i]]
  BY DEF OnboardingInvariant, ProbeStatlite
<1>3. /\ q.pc = "quarkus" /\ q.request = p.request /\ q.seen = seen
      /\ q.steady = p.steady /\ q.late = p.late
  BY <1>1 DEF Typed
<1>4. ASSUME q.steady, ~q.late PROVE Knows(q, app)
  <2>1. Knows(p, app) /\ ~p.late
    BY <1>3, <1>4 DEF AnswersHold
  <2>2. /\ p.request.type = ""
        /\ p.seen = [health |-> p.seen.health, statlite |-> p.seen.statlite,
                     quarkus |-> p.seen.quarkus]
        /\ p.seen.health = app[p.request.url.base]["actuator/health"]
    BY <1>1, <2>1 DEF Knows, UntypedLabels
  <2>3. answer = app[p.request.url.base]["statlite/metrics"]
    BY <2>1, AnswerInTime
  <2> HIDE DEF p, answer
  <2>4. seen = [health |-> p.seen.health, statlite |-> answer, quarkus |-> p.seen.quarkus]
    BY <2>2, SeenUpdated
  <2>5. /\ seen.health = p.seen.health /\ seen.statlite = answer
        /\ seen = [health |-> seen.health, statlite |-> seen.statlite, quarkus |-> seen.quarkus]
    BY <2>4
  <2> HIDE DEF seen, q
  <2> QED  BY <1>3, <2>2, <2>3, <2>5 DEF Knows, UntypedLabels, Suggesting
<1> HIDE DEF q
<1> QED  BY <1>1, <1>2, <1>4, KnowsStep

LEMMA ProbeQuarkusKnows ==
  ASSUME OnboardingInvariant, AnswersHold, NEW i \in Inspectors, ProbeQuarkus(i)
  PROVE  AnswersHold'
<1> DEFINE p == insp[i]
           answer == Answer(i, At(Base(i), "q/metrics"))
           seen == [p.seen EXCEPT !.quarkus = answer]
           here == app[p.request.url.base]
<1>1. Typed(p) /\ UNCHANGED app /\ p.pc = "quarkus"
  BY DEF OnboardingInvariant, Process, ProbeQuarkus
<1>2. ASSUME p.steady, ~p.late
      PROVE  /\ Knows(p, app) /\ p.request.type = "" /\ seen = Shown(here)
             /\ answer = here["q/metrics"]
  <2>1. Knows(p, app)
    BY <1>2 DEF AnswersHold
  <2>2. /\ p.request.type = ""
        /\ p.seen = [health |-> p.seen.health, statlite |-> p.seen.statlite,
                     quarkus |-> p.seen.quarkus]
        /\ p.seen.health = here["actuator/health"]
        /\ p.seen.statlite = here["statlite/metrics"]
    BY <1>1, <2>1 DEF Knows, UntypedLabels
  <2>3. answer = here["q/metrics"]
    BY <1>2, AnswerInTime
  <2>4. seen = Shown(here)
    <3> HIDE DEF p, answer, here
    <3>1. seen = [health |-> p.seen.health, statlite |-> p.seen.statlite, quarkus |-> answer]
      BY <2>2, SeenUpdated
    <3> QED  BY <2>2, <2>3, <3>1 DEF Shown
  <2> HIDE DEF p, answer, here, seen
  <2> QED  BY <2>1, <2>2, <2>3, <2>4
<1>3. \/ Verdict(seen) = "none" /\ Goto(i, "direct")
      \/ /\ Verdict(seen) = "one" /\ Matches(seen) = {"spring"}
         /\ insp' = [insp EXCEPT ![i].pc = "prometheus", ![i].seen = seen]
      \/ Verdict(seen) = "one" /\ Matches(seen) # {"spring"} /\ Find(i, Suggested(Base(i), seen))
      \/ Exit(i)
  BY DEF ProbeQuarkus
<1>4. CASE Verdict(seen) = "none" /\ Goto(i, "direct")
  <2> DEFINE q == [p EXCEPT !.pc = "direct"]
  <2>1. insp'[i] = q /\ insp' = [insp EXCEPT ![i] = insp'[i]]
    BY <1>4 DEF OnboardingInvariant, Goto
  <2>2. q.pc = "direct" /\ q.request = p.request /\ q.steady = p.steady /\ q.late = p.late
    BY <1>1 DEF Typed
  <2>3. Matches(seen) = {}
    <3> HIDE DEF seen
    <3> QED  BY <1>4, VerdictMatches
  <2>4. ASSUME q.steady, ~q.late PROVE Knows(q, app)
    <3>1. p.request.type = "" /\ seen = Shown(here)
      BY <1>2, <2>2, <2>4
    <3> HIDE DEF p, q, seen
    <3> QED  BY <2>2, <2>3, <3>1 DEF Knows, UntypedLabels, Suggesting
  <2> HIDE DEF q
  <2> QED  BY <1>1, <2>1, <2>4, KnowsStep
<1>5. CASE /\ Verdict(seen) = "one" /\ Matches(seen) = {"spring"}
           /\ insp' = [insp EXCEPT ![i].pc = "prometheus", ![i].seen = seen]
  <2> DEFINE q == [p EXCEPT !.pc = "prometheus", !.seen = seen]
  <2>1. insp'[i] = q /\ insp' = [insp EXCEPT ![i] = insp'[i]]
    BY <1>5 DEF OnboardingInvariant
  <2>2. q.pc = "prometheus" /\ q.request = p.request /\ q.steady = p.steady /\ q.late = p.late
    BY <1>1 DEF Typed
  <2>3. ASSUME q.steady, ~q.late PROVE Knows(q, app)
    <3>1. p.request.type = "" /\ seen = Shown(here)
      BY <1>2, <2>2, <2>3
    <3> HIDE DEF p, q, seen
    <3> QED  BY <1>5, <2>2, <3>1 DEF Knows, UntypedLabels, Suggesting
  <2> HIDE DEF q
  <2> QED  BY <1>1, <2>1, <2>3, KnowsStep
<1>6. CASE Verdict(seen) = "one" /\ Matches(seen) # {"spring"} /\ Find(i, Suggested(Base(i), seen))
  <2> DEFINE r == Suggested(Base(i), seen)
  <2>1. r \in [type : Text, url : URL, metrics : BOOLEAN]
    <3> HIDE DEF seen
    <3> QED  BY <1>6, BaseTyped, SuggestedTyped
  <2>2. ASSUME NEW q, Typed(q), q.request = insp[i].request, q.result = r,
               insp[i].steady, ~insp[i].late, Knows(insp[i], app)
        PROVE  RightOf(q, app)
    <3>1. q.request.type = "" /\ seen = Shown(here) /\ answer = here["q/metrics"]
      BY <1>2, <2>2
    <3>2. q.request = p.request /\ Base(i) = p.request.url.base
      BY <2>2 DEF Base
    <3>3. Matches(seen) = {"statlite-metrics"} \/ Matches(seen) = {"quarkus"}
      <4> HIDE DEF seen
      <4> QED  BY <1>6, VerdictMatches
    <3> HIDE DEF p, here, seen, answer
    <3>4. Cardinality(Matches(seen)) <= 1
      BY <3>3, AtMostOne
    <3>5. CASE Matches(seen) = {"statlite-metrics"}
      <4>1. r = Suggestion("statlite-metrics", At(Base(i), "statlite/metrics"),
                           seen.statlite = "statlite")
        BY <3>5, <1>6 DEF Suggested
      <4>2. q.result.type = "statlite-metrics" /\ q.result.url = At(Base(i), "statlite/metrics")
            /\ q.result.metrics = (seen.statlite = "statlite")
        BY <2>2, <4>1 DEF Suggestion
      <4>3. IsStatlite(seen.statlite) /\ seen.statlite = here["statlite/metrics"]
        <5>1. "statlite-metrics" \in Matches(seen)
          BY <3>5
        <5>2. IsStatlite(seen.statlite)
          BY <5>1 DEF Matches
        <5> QED  BY <3>1, <5>2 DEF Shown
      <4> DEFINE t == Normalize(Upgrade(TargetOf(q)))
      <4>4. t.type = "statlite-metrics" /\ t.url = At(Base(i), "statlite/metrics")
        BY <2>2, <4>2, SuggestedLoads DEF Suggestable
      <4>5. app[t.url.base][t.url.suffix] = here["statlite/metrics"]
        BY <3>2, <4>4, AtFields DEF here
      <4> HIDE DEF t
      <4>6. FirstCollection(t, app) = IF q.result.metrics THEN "metrics" ELSE "bare"
        <5> HIDE DEF r
        <5>1. FirstCollection(t, app) =
                IF here["statlite/metrics"] = "statlite" THEN "metrics" ELSE "bare"
          BY <4>3, <4>4, <4>5, StatliteCollects
        <5> QED  BY <4>2, <4>3, <5>1
      <4> QED  BY <3>1, <3>2, <3>4, <4>6 DEF RightOf, t, here
    <3>6. CASE Matches(seen) = {"quarkus"}
      <4>1. r = Suggestion("quarkus", At(Base(i), "q/metrics"), TRUE)
        BY <3>6, <1>6 DEF Suggested
      <4>2. q.result.type = "quarkus" /\ q.result.url = At(Base(i), "q/metrics")
            /\ q.result.metrics = TRUE
        BY <2>2, <4>1 DEF Suggestion
      <4>3. Compatible(here["q/metrics"])
        <5>1. "quarkus" \in Matches(seen)
          BY <3>6
        <5>2. Compatible(seen.quarkus)
          BY <5>1 DEF Matches
        <5> QED  BY <3>1, <5>2 DEF Shown
      <4> DEFINE t == Normalize(Upgrade(TargetOf(q)))
      <4>4. t.type = "quarkus" /\ t.url = At(Base(i), "q/metrics")
        BY <2>2, <4>2, SuggestedLoads DEF Suggestable
      <4>5. app[t.url.base][t.url.suffix] = here["q/metrics"]
        BY <3>2, <4>4, AtFields DEF here
      <4> HIDE DEF t
      <4>6. FirstCollection(t, app) = "metrics"
        BY <4>3, <4>4, <4>5, ScrapeCollects
      <4> QED  BY <3>1, <3>2, <3>4, <4>2, <4>6 DEF RightOf, t, here
    <3> QED  BY <3>3, <3>5, <3>6
  <2>3. Find(i, r)
    BY <1>6
  <2> HIDE DEF r, p
  <2> QED  BY <1>1, <2>1, <2>2, <2>3, KnowsFound
<1>7. CASE Exit(i)
  BY <1>1, <1>7, KnowsExit
<1> QED  BY <1>3, <1>4, <1>5, <1>6, <1>7

\* A Spring suggestion is right if its metrics are what the collector obtains.
LEMMA SpringRight ==
  ASSUME NEW q, Typed(q), NEW served, NEW base,
         q.request.type = "", q.request.url.base = base,
         q.result.type = "spring", q.result.url.base = base,
         Matches(Shown(served[base])) = {"spring"},
         AsksIndex(served[base]["actuator/prometheus"]) =>
           (q.result.metrics <=> served[base]["actuator/metrics"] = "index"),
         ~AsksIndex(served[base]["actuator/prometheus"]) =>
           (q.result.metrics <=> Compatible(served[base]["actuator/prometheus"]))
  PROVE  RightOf(q, served)
<1> DEFINE t == Normalize(Upgrade(TargetOf(q)))
           exposition == served[base]["actuator/prometheus"]
<1>1. t.type = "spring" /\ t.url = q.result.url /\ t.source = "auto"
  BY SuggestedLoads DEF Suggestable
<1> HIDE DEF t
<1>2. t.url.base = base
  BY <1>1
<1>3. FirstCollection(t, served) =
        IF Compatible(exposition) THEN "metrics"
        ELSE IF AsksIndex(exposition)
        THEN IF served[base]["actuator/metrics"] = "index" THEN "metrics" ELSE "bare"
        ELSE "bare"
  BY <1>1, <1>2, SpringCollects
<1>4. AsksIndex(exposition) => ~Compatible(exposition)
  BY DEF AsksIndex
<1>5. FirstCollection(t, served) = IF q.result.metrics THEN "metrics" ELSE "bare"
  BY <1>3, <1>4
<1>6. Cardinality(Matches(Shown(served[base]))) <= 1
  BY AtMostOne
<1> QED  BY <1>5, <1>6 DEF RightOf, t

LEMMA ProbePrometheusKnows ==
  ASSUME OnboardingInvariant, AnswersHold, NEW i \in Inspectors, ProbePrometheus(i)
  PROVE  AnswersHold'
<1> DEFINE p == insp[i]
           answer == Answer(i, At(Base(i), "actuator/prometheus"))
           r == Suggestion("spring", At(Base(i), "actuator"), Compatible(answer))
           here == app[p.request.url.base]
<1>1. Typed(p) /\ UNCHANGED app /\ p.pc = "prometheus"
  BY DEF OnboardingInvariant, Process, ProbePrometheus
<1>2. ASSUME p.steady, ~p.late
      PROVE  /\ p.request.type = "" /\ Matches(Shown(here)) = {"spring"}
             /\ answer = here["actuator/prometheus"]
  <2>1. Knows(p, app)
    BY <1>2 DEF AnswersHold
  <2>2. answer = here["actuator/prometheus"]
    BY <1>2, AnswerInTime
  <2> HIDE DEF answer
  <2> QED  BY <1>1, <2>1, <2>2 DEF Knows, UntypedLabels
<1>3. \/ AsksIndex(answer) /\ Goto(i, "index")
      \/ ~AsksIndex(answer) /\ Find(i, r)
  BY DEF ProbePrometheus
<1>4. CASE AsksIndex(answer) /\ Goto(i, "index")
  <2> DEFINE q == [p EXCEPT !.pc = "index"]
  <2>1. insp'[i] = q /\ insp' = [insp EXCEPT ![i] = insp'[i]]
    BY <1>4 DEF OnboardingInvariant, Goto
  <2>2. q.pc = "index" /\ q.request = p.request /\ q.steady = p.steady /\ q.late = p.late
    BY <1>1 DEF Typed
  <2>3. ASSUME q.steady, ~q.late PROVE Knows(q, app)
    <3>1. /\ p.request.type = "" /\ Matches(Shown(here)) = {"spring"}
          /\ answer = here["actuator/prometheus"]
      BY <1>2, <2>2, <2>3
    <3> HIDE DEF p, q, answer
    <3> QED  BY <1>4, <2>2, <3>1 DEF Knows, UntypedLabels, Suggesting
  <2> HIDE DEF q
  <2> QED  BY <1>1, <2>1, <2>3, KnowsStep
<1>5. CASE ~AsksIndex(answer) /\ Find(i, r)
  <2>1. r \in [type : Text, url : URL, metrics : BOOLEAN]
    <3>1. "spring" \in Suggestable /\ Compatible(answer) \in BOOLEAN
      BY DEF Suggestable, Compatible
    <3>2. At(Base(i), "actuator") \in URL
      BY BaseTyped, AtTyped, WordsAreText
    <3> QED  BY <3>1, <3>2, SuggestionTyped
  <2>2. ASSUME NEW q, Typed(q), q.request = insp[i].request, q.result = r,
               insp[i].steady, ~insp[i].late, Knows(insp[i], app)
        PROVE  RightOf(q, app)
    <3>1. /\ p.request.type = "" /\ Matches(Shown(here)) = {"spring"}
          /\ answer = here["actuator/prometheus"]
      BY <1>2, <2>2
    <3>2. q.request = p.request /\ Base(i) = p.request.url.base
      BY <2>2 DEF Base
    <3>3. q.result.type = "spring" /\ q.result.url = At(Base(i), "actuator")
          /\ q.result.metrics = Compatible(answer)
      BY <2>2 DEF Suggestion
    <3>4. ~AsksIndex(answer)
      BY <1>5
    <3>5. q.result.url.base = Base(i)
      BY <3>3, AtFields
    <3> HIDE DEF p, answer, r
    <3> QED  BY <2>2, <3>1, <3>2, <3>3, <3>4, <3>5, SpringRight
  <2> HIDE DEF r, p
  <2> QED  BY <1>1, <1>5, <2>1, <2>2, KnowsFound
<1> QED  BY <1>3, <1>4, <1>5

LEMMA ProbeIndexKnows ==
  ASSUME OnboardingInvariant, AnswersHold, NEW i \in Inspectors, ProbeIndex(i)
  PROVE  AnswersHold'
<1> DEFINE p == insp[i]
           answer == Answer(i, At(Base(i), "actuator/metrics"))
           r == Suggestion("spring", At(Base(i), "actuator"), answer = "index")
           here == app[p.request.url.base]
<1>1. Typed(p) /\ UNCHANGED app /\ p.pc = "index" /\ Find(i, r)
  BY DEF OnboardingInvariant, Process, ProbeIndex
<1>2. r \in [type : Text, url : URL, metrics : BOOLEAN]
  BY BaseTyped, AtTyped, WordsAreText, SuggestionTyped DEF Suggestable
<1>3. ASSUME NEW q, Typed(q), q.request = insp[i].request, q.result = r,
             insp[i].steady, ~insp[i].late, Knows(insp[i], app)
      PROVE  RightOf(q, app)
  <2>1. /\ p.request.type = "" /\ Matches(Shown(here)) = {"spring"}
        /\ AsksIndex(here["actuator/prometheus"])
    BY <1>1, <1>3 DEF Knows, UntypedLabels
  <2>2. answer = here["actuator/metrics"]
    BY <1>3, AnswerInTime
  <2>3. q.request = p.request /\ Base(i) = p.request.url.base
    BY <1>3 DEF Base
  <2>4. q.result.type = "spring" /\ q.result.url = At(Base(i), "actuator")
        /\ q.result.metrics = (answer = "index")
    BY <1>3 DEF Suggestion
  <2>5. q.result.url.base = Base(i)
    BY <2>4, AtFields
  <2> HIDE DEF p, answer, r
  <2> QED  BY <1>3, <2>1, <2>2, <2>3, <2>4, <2>5, SpringRight
<1> HIDE DEF r, p
<1> QED  BY <1>1, <1>2, <1>3, KnowsFound

LEMMA ProbeDirectKnows ==
  ASSUME OnboardingInvariant, AnswersHold, NEW i \in Inspectors, ProbeDirect(i)
  PROVE  AnswersHold'
<1> DEFINE p == insp[i]
           answer == Answer(i, p.request.url)
           r == Suggestion("statlite-metrics", p.request.url, answer = "statlite")
<1>1. Typed(p) /\ UNCHANGED app /\ p.pc = "direct"
  BY DEF OnboardingInvariant, Process, ProbeDirect
<1>2. (IsStatlite(answer) /\ Find(i, r)) \/ Exit(i)
  BY DEF ProbeDirect
<1>3. r \in [type : Text, url : URL, metrics : BOOLEAN]
  BY BaseTyped, SuggestionTyped DEF Suggestable
<1>4. CASE IsStatlite(answer) /\ Find(i, r)
  <2>1. ASSUME NEW q, Typed(q), q.request = insp[i].request, q.result = r,
               insp[i].steady, ~insp[i].late, Knows(insp[i], app)
        PROVE  RightOf(q, app)
    <3>1. p.request.type = "" /\ Matches(Shown(app[p.request.url.base])) = {}
      BY <1>1, <2>1 DEF Knows, UntypedLabels
    <3>2. answer = app[p.request.url.base][p.request.url.suffix]
      BY <2>1, AnswerInTime
    <3>3. q.request = p.request
      BY <2>1
    <3> DEFINE t == Normalize(Upgrade(TargetOf(q)))
    <3> HIDE DEF p, answer
    <3>4. q.result.type = "statlite-metrics" /\ q.result.url = p.request.url
          /\ q.result.metrics = (answer = "statlite")
      BY <2>1 DEF Suggestion
    <3>5. t.type = "statlite-metrics" /\ t.url = p.request.url
      BY <2>1, <3>4, SuggestedLoads DEF Suggestable
    <3> HIDE DEF t
    <3>6. FirstCollection(t, app) = IF q.result.metrics THEN "metrics" ELSE "bare"
      <4>1. IsStatlite(answer)
        BY <1>4
      <4>2. app[t.url.base][t.url.suffix] = answer
        BY <3>2, <3>5
      <4> HIDE DEF r
      <4>3. FirstCollection(t, app) = IF answer = "statlite" THEN "metrics" ELSE "bare"
        BY <3>5, <4>1, <4>2, StatliteCollects
      <4> QED  BY <3>4, <4>3
    <3>7. Cardinality(Matches(Shown(app[p.request.url.base]))) <= 1
      BY <3>1, AtMostOne
    <3> QED  BY <3>1, <3>3, <3>6, <3>7 DEF RightOf, t
  <2>2. Find(i, r)
    BY <1>4
  <2> HIDE DEF r, p
  <2> QED  BY <1>1, <1>3, <2>1, <2>2, KnowsFound
<1>5. CASE Exit(i)
  BY <1>1, <1>5, KnowsExit
<1> QED  BY <1>2, <1>4, <1>5

\* The first of two endpoints is the URL as it was given.
LEMMA FirstEndpoint ==
  ASSUME NEW type, NEW url, Len(Endpoints(type, url)) = 2
  PROVE  Endpoints(type, url)[1] = url
<1> DEFINE conventional == [url EXCEPT !.suffix = Conventional(type), !.slash = FALSE]
<1>1. Endpoints(type, url) \in {<<url>>, <<conventional>>, <<url, conventional>>}
  BY DEF Endpoints
<1>2. Len(<<url>>) = 1 /\ Len(<<conventional>>) = 1
  OBVIOUS
<1> HIDE DEF conventional
<1> QED  BY <1>1, <1>2

LEMMA ScrapeKnows ==
  ASSUME OnboardingInvariant, AnswersHold, NEW i \in Inspectors, Scrape(i)
  PROVE  AnswersHold'
<1> DEFINE p == insp[i]
           type == p.request.type
           k == IF p.pc = "exact" THEN 1 ELSE 2
           endpoint == Exact(i)[k]
           answer == Answer(i, endpoint)
           r == Suggestion(type, endpoint, TRUE)
<1>1. /\ Process(p) /\ Typed(p) /\ p.pc \in {"exact", "fallback"} /\ UNCHANGED app
      /\ type \in {"quarkus", "micronaut"} /\ type \in Suggestable
  BY DEF OnboardingInvariant, Process, Scrape, Suggestable
<1>2. Exact(i) = EndpointsOf(p)
  BY DEF Exact, EndpointsOf
<1>3. \/ Compatible(answer) /\ Find(i, r)
      \/ p.pc = "exact" /\ ~Compatible(answer) /\ Len(Exact(i)) = 2 /\ Goto(i, "fallback")
      \/ Exit(i)
  BY DEF Scrape
<1>4. CASE Compatible(answer) /\ Find(i, r)
  <2>1. r \in [type : Text, url : URL, metrics : BOOLEAN]
    <3>1. endpoint \in URL
      BY <1>1, <1>2, ScrapedTyped
    <3> HIDE DEF endpoint, type
    <3> QED  BY <1>1, <3>1, SuggestionTyped
  <2>2. ASSUME NEW q, Typed(q), q.request = insp[i].request, q.result = r,
               insp[i].steady, ~insp[i].late, Knows(insp[i], app)
        PROVE  RightOf(q, app)
    <3>1. answer = app[endpoint.base][endpoint.suffix]
      BY <2>2, AnswerInTime
    <3>2. p.pc = "fallback" => ~Compatible(app[p.request.url.base][p.request.url.suffix])
      BY <2>2 DEF Knows
    <3>3. q.request = p.request /\ EndpointsOf(q) = Exact(i)
      BY <1>2, <2>2 DEF EndpointsOf
    <3>4. p.pc = "exact" => endpoint = Exact(i)[1]
      OBVIOUS
    <3> DEFINE t == Normalize(Upgrade(TargetOf(q)))
    <3> HIDE DEF p, answer, endpoint
    <3>5. q.result.type = type /\ q.result.url = endpoint /\ q.result.metrics = TRUE
      BY <2>2 DEF Suggestion
    <3>6. t.type = type /\ t.url = endpoint
      BY <1>1, <2>2, <3>5, SuggestedLoads
    <3> HIDE DEF t
    <3>7. FirstCollection(t, app) = "metrics"
      BY <1>1, <1>4, <3>1, <3>6, ScrapeCollects
    <3> QED  BY <1>1, <3>2, <3>3, <3>4, <3>5, <3>7 DEF RightOf, t
  <2>3. Find(i, r)
    BY <1>4
  <2> HIDE DEF r, p
  <2> QED  BY <1>1, <2>1, <2>2, <2>3, KnowsFound
<1>5. CASE p.pc = "exact" /\ ~Compatible(answer) /\ Len(Exact(i)) = 2 /\ Goto(i, "fallback")
  <2> DEFINE q == [p EXCEPT !.pc = "fallback"]
  <2>1. insp'[i] = q /\ insp' = [insp EXCEPT ![i] = insp'[i]]
    BY <1>5 DEF OnboardingInvariant, Goto
  <2>2. q.pc = "fallback" /\ q.request = p.request /\ q.steady = p.steady /\ q.late = p.late
    BY <1>1 DEF Typed
  <2>3. ASSUME q.steady, ~q.late PROVE Knows(q, app)
    <3>1. endpoint = p.request.url
      <4>1. endpoint = Exact(i)[1]
        BY <1>5
      <4>2. Exact(i)[1] = p.request.url
        BY <1>5, FirstEndpoint DEF Exact
      <4> HIDE DEF endpoint
      <4> QED  BY <4>1, <4>2
    <3>2. answer = app[endpoint.base][endpoint.suffix]
      BY <2>2, <2>3, AnswerInTime
    <3>3. ~Compatible(app[p.request.url.base][p.request.url.suffix])
      <4> HIDE DEF p, answer, endpoint
      <4> QED  BY <1>5, <3>1, <3>2
    <3> HIDE DEF p, q, answer
    <3> QED  BY <2>2, <3>3 DEF Knows, UntypedLabels, Suggesting
  <2> HIDE DEF q
  <2> QED  BY <1>1, <2>1, <2>3, KnowsStep
<1>6. CASE Exit(i)
  BY <1>1, <1>6, KnowsExit
<1> QED  BY <1>3, <1>4, <1>5, <1>6

LEMMA StoreKnows ==
  ASSUME OnboardingInvariant, AnswersHold, NEW i \in Inspectors, Store(i)
  PROVE  AnswersHold'
<1>1. UNCHANGED app
  BY DEF Store, Suggest, Show, Open, Write, Remove, Read, AppendEntry, Interrupt
<1>2. CASE Exit(i)
  BY <1>1, <1>2, KnowsExit
<1>3. CASE Suggest(i)
  <2>1. Exit(i) \/ Goto(i, insp[i].request.mode)
    BY <1>3 DEF Suggest
  <2>2. insp[i].pc \in Suggesting /\ insp[i].request.mode \in Suggesting
    BY <1>3 DEF Suggest, OnboardingInvariant, Process, Typed, Suggesting
  <2> QED  BY <1>1, <1>2, <2>1, <2>2, KnowsGoes
<1>4. CASE Open(i) \/ Write(i)
  <2>1. Exit(i) \/ Goto(i, "write") \/ Goto(i, "remove")
    BY <1>4 DEF Open, Write
  <2>2. insp[i].pc \in Suggesting /\ "write" \in Suggesting /\ "remove" \in Suggesting
    BY <1>4 DEF Open, Write, Suggesting
  <2> QED  BY <1>1, <1>2, <2>1, <2>2, KnowsGoes
<1>5. CASE Read(i) /\ insp' = [insp EXCEPT ![i].pc = "append", ![i].read = file]
  <2> DEFINE p == insp[i]
             q == [p EXCEPT !.pc = "append", !.read = file]
  <2>1. Typed(p) /\ p.pc \in Suggesting
    BY <1>5 DEF OnboardingInvariant, Process, Read, Suggesting
  <2>2. insp'[i] = q /\ insp' = [insp EXCEPT ![i] = insp'[i]]
    BY <1>5 DEF OnboardingInvariant
  <2>3. /\ q.pc = "append" /\ q.request = p.request /\ q.result = p.result
        /\ q.steady = p.steady /\ q.late = p.late
    BY <2>1 DEF Typed
  <2>4. q.pc \in Suggesting
    BY <2>3 DEF Suggesting
  <2>5. ASSUME q.steady, ~q.late PROVE Knows(q, app)
    <3>1. Knows(p, app)
      BY <2>3, <2>5 DEF AnswersHold
    <3> HIDE DEF p, q
    <3> QED  BY <2>1, <2>3, <2>4, <3>1, KnowsOn
  <2> HIDE DEF q
  <2> QED  BY <1>1, <2>2, <2>5, KnowsStep
<1>6. Suggest(i) \/ Open(i) \/ Write(i) \/ Exit(i)
      \/ (Read(i) /\ insp' = [insp EXCEPT ![i].pc = "append", ![i].read = file])
  BY DEF Store, Show, Remove, Read, AppendEntry, Interrupt
<1> QED  BY <1>2, <1>3, <1>4, <1>5, <1>6

LEMMA DeployKnows ==
  ASSUME OnboardingInvariant, Deploy
  PROVE  AnswersHold'
<1>1. ASSUME NEW i \in Inspectors
      PROVE  ~insp'[i].steady
  <2>1. insp'[i] = [insp[i] EXCEPT !.steady = FALSE]
    BY DEF Deploy
  <2>2. Typed(insp[i])
    BY DEF OnboardingInvariant, Process
  <2> QED  BY <2>1, <2>2 DEF Typed
<1> QED  BY <1>1 DEF AnswersHold

LEMMA EditKnows ==
  ASSUME AnswersHold, Edit
  PROVE  AnswersHold'
BY DEF Edit, AnswersHold

LEMMA InitKnows == Init => AnswersHold
<1>1. ~Idle.steady /\ ~Off.steady
  BY DEF Idle, Off
<1> QED  BY <1>1 DEF Init, AnswersHold

LEMMA StepKnows == OnboardingInvariant /\ AnswersHold /\ [Next]_vars => AnswersHold'
<1> SUFFICES ASSUME OnboardingInvariant, AnswersHold, [Next]_vars PROVE AnswersHold'
  OBVIOUS
<1>1. ASSUME NEW i \in Inspectors, Probe(i) PROVE AnswersHold'
  BY <1>1, DeadlineKnows, ProbeHealthKnows, ProbeStatliteKnows, ProbeQuarkusKnows,
     ProbePrometheusKnows, ProbeIndexKnows, ProbeDirectKnows, ScrapeKnows DEF Probe
<1>2. CASE UNCHANGED vars
  BY <1>2 DEF vars, AnswersHold
<1> QED  BY <1>1, <1>2, RunKnows, StoreKnows, DeployKnows, EditKnows DEF Next

\* What an inspection suggests, of an application that stayed as it was and
\* before the deadline, is what a collector of the suggested target obtains.
THEOREM SuggestionsRight == Spec => []SuggestionsHold
<1>1. OnboardingInvariant /\ AnswersHold => SuggestionsHold
  <2> SUFFICES ASSUME OnboardingInvariant, AnswersHold, NEW i \in Inspectors, Undisturbed(i)
               PROVE  Collectable(i) /\ Unambiguous(i) /\ ExactFirst(i)
    BY DEF SuggestionsHold
  <2>1. insp[i].pc \in Suggesting /\ insp[i].steady /\ ~insp[i].late
    BY DEF Undisturbed, OnboardingInvariant, Process, Typed, Labels, Suggesting
  <2>2. RightOf(insp[i], app)
    BY <2>1 DEF AnswersHold, Knows
  <2>3. NewTarget(i) = TargetOf(insp[i]) /\ Exact(i) = EndpointsOf(insp[i])
    BY DEF NewTarget, Name, TargetOf, Exact, EndpointsOf
  <2>4. Literal(NewTarget(i)) => Expand(NewTarget(i)) = NewTarget(i)
    <3>1. Plain(NewTarget(i))
      BY <2>1, PlainTarget DEF OnboardingInvariant, Process, NewTarget, Name, TargetOf
    <3> QED  BY <3>1, ExpandLiteral
  <2> QED  BY <2>2, <2>3, <2>4
           DEF RightOf, Collectable, Obtains, Unambiguous, ExactFirst, Base, Shown
<1>2. Spec => []AnswersHold
  BY InitKnows, StepKnows, OnboardingSafe, PTL DEF Spec
<1> QED  BY <1>1, <1>2, OnboardingSafe, PTL
=============================================================================
