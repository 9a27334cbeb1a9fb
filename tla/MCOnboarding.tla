----------------------------- MODULE MCOnboarding -----------------------------
(* The values TLC gives the constants of Onboarding.                       *)
EXTENDS Onboarding, TLC

Suffixes ==
  {"", "actuator/health", "actuator/prometheus", "actuator/metrics",
   "statlite/metrics", "q/metrics", "prometheus", "cut"}

\* Every piece of text in the values below.
Texts ==
  Suffixes \cup
  {"absent", "spring", "statlite", "statlite-metrics", "quarkus", "micronaut", "caddy",
   "other", "auto", "actuator", "health", "q/health", "metrics", "/app", "shop", "blog",
   "old", "shop.example", "bad", "FALSE", "TRUE", "none", "basic",
   "$SHOP", "$UNSET", "$HOST", "$OLD", "old$-", "/$APP"}

\* One variable is not set; inspect takes no notice of "$-".
Expansion ==
  "$SHOP" :> "shop" @@ "$UNSET" :> "" @@ "$HOST" :> "shop.example" @@ "$OLD" :> "statlite" @@
  "old$-" :> "old" @@ "/$APP" :> "/app" @@ [text \in Texts |-> text]

Variables == {"$SHOP", "$UNSET", "$HOST", "$OLD", "/$APP"}

\* An application that serves "below" under each base and answers everything
\* else alike.
Serving(below, else) ==
  [base \in {"", "/app", "/$APP"} |->
     [suffix \in Suffixes |->
        IF base \in DOMAIN below /\ suffix \in DOMAIN below[base]
        THEN below[base][suffix] ELSE else]]

Root(f) == "" :> f
App(f) == "/app" :> f
Dollar(f) == "/$APP" :> f
Spring(exposition, index) ==
  "actuator/health" :> "health" @@ "actuator/prometheus" :> exposition @@
  "actuator/metrics" :> index

Deployed ==
  {Serving(Root(Spring(exposition, index)), "missing") :
     exposition \in {"metrics", "foreign", "missing", "error"}, index \in {"index", "denied"}}
  \cup {Serving(Root("statlite/metrics" :> a), "missing") : a \in {"statlite", "statlite_bare"}}
  \cup {Serving(Root("" :> "statlite"), "page"),
        Serving(Root("q/metrics" :> "metrics"), "page"),
        Serving(Root("q/metrics" :> "cut"), "missing"),
        Serving(Root(Spring("metrics", "index") @@ "q/metrics" :> "partial"), "missing"),
        Serving(Root("prometheus" :> "partial") @@ App("prometheus" :> "metrics"), "missing"),
        Serving(App("" :> "metrics" @@ "prometheus" :> "metrics" @@ "q/metrics" :> "metrics"), "missing"),
        Serving(App("" :> "foreign" @@ "prometheus" :> "metrics" @@ "q/metrics" :> "metrics"), "denied"),
        Serving(App("" :> "cut" @@ "prometheus" :> "metrics" @@ "q/metrics" :> "metrics"), "error"),
        Serving(Dollar("q/metrics" :> "metrics"), "missing"),
        Serving(<<>>, "denied"), Serving(<<>>, "refused"), Serving(<<>>, "loop")}

Request(type, url, name, mode) == [type |-> type, url |-> url, name |-> name, mode |-> mode]

\* Every way to ask for each target, a name that collides, one that does not and
\* ones that do once they are expanded or are empty then, and every mode.
CommandLines ==
  {Request("", At("", ""), "", "create"), Request("", At("", ""), "", "add"),
   Request("quarkus", At("/app", ""), "$UNSET", "create"), Request("quarkus", At("/$APP", ""), "$SHOP", "add"),
   Request("quarkus", [At("/app", "") EXCEPT !.query = TRUE], "", "add"),
   Request("quarkus", At("", ""), "", "print"),
   Request("micronaut", At("/app", ""), "shop", "add"),
   Request("micronaut", At("", "prometheus"), "old", "add"),
   Request("spring", At("", ""), "", "print")}

Shop == Target("caddy", "shop", At("", "metrics"))
Layouts ==
  {NoFile,
   File(<<[Shop EXCEPT !.host = "shop.example"]>>),
   File(<<[Target("spring", "shop", At("", "actuator")) EXCEPT !.padded = TRUE]>>),
   File(<<Target("spring", "blog", At("/app", "actuator")), Target("statlite", "old", At("", ""))>>),
   File(<<[Target("", "old", NoURL) EXCEPT !.actuator = At("", "actuator")]>>),
   File(<<Target("quarkus", "$SHOP", At("", "q/metrics"))>>),
   File(<<Target("$OLD", "old$-", At("/app", ""))>>),
   [File(<<Target("quarkus", "shop", At("", "q/metrics"))>>) EXCEPT !.layout = FALSE],
   [File(<<Target("quarkus", "shop", At("", "q/metrics"))>>) EXCEPT !.complete = FALSE]}

\* URLs of every kind.
URLs(suffix) ==
  {NoURL, [NoURL EXCEPT !.kind = "empty"]} \cup
  [kind : {"http", "bad", "padded"}, base : {""}, suffix : {suffix}, slash : {FALSE},
   user : BOOLEAN, query : BOOLEAN, fragment : BOOLEAN]

Types == {"", "spring", "quarkus", "micronaut", "statlite-metrics", "statlite", "caddy", "other"}
Hosts == {"absent", "", "bad", "shop.example"}

\* Targets whose fields take the given values together, the others their usual one.
Targets(urls, actuators, hosts, healths, sources, settings, auths) ==
  [type : Types, name : {"shop"}, padded : BOOLEAN, url : urls,
   actuator : actuators, host : hosts, health : healths, source : sources,
   hostMetrics : settings, auth : auths, legacyUser : {FALSE}, legacyStatlite : {FALSE}]

Usual == At("", "q/metrics")
Absent == {"absent"}

Odd ==
  {File(<<t>>) : t \in
     Targets(URLs("q/metrics"), URLs("actuator"), Absent, {NoURL}, Absent, Absent, {"none"})
     \cup Targets({Usual, At("/app", "prometheus")}, {NoURL}, Hosts, URLs("q/health"), Absent, Absent, {"none"})
     \cup Targets({NoURL, Usual},
                  {NoURL, [NoURL EXCEPT !.kind = "empty"], [At("", "actuator") EXCEPT !.user = TRUE]},
                  {"absent", "shop.example"}, {NoURL},
                  {"absent", "", "auto", "prometheus", "actuator", "other"},
                  {"absent", "FALSE", "TRUE"}, {"none", "basic", "bad"})}
  \cup {File(<<t, Target("caddy", "shop", Usual)>>) : t \in
          Targets({Usual}, {NoURL}, Hosts, {NoURL}, Absent, Absent, {"none"})}
  \cup {File(<<[t EXCEPT !.name = "blog"], [Target("caddy", "shop", Usual) EXCEPT !.host = "shop.example"]>>) :
          t \in Targets({Usual, At("/app", "")}, {NoURL}, Hosts, {NoURL}, Absent, Absent, {"none"})}
  \cup {File(<<[t EXCEPT !.name = name], [Target("$OLD", "shop", At("/$APP", "")) EXCEPT !.type = type]>>) :
          t \in Targets({Usual}, {NoURL}, {"$HOST"}, {NoURL}, Absent, Absent, {"none"}),
          name \in {"$SHOP", "$UNSET", "blog"}, type \in {"$OLD", "$UNSET"}}
  \cup {File(<<>>)}

Symmetry == Permutations(Inspectors)

\* Documents that only one inspection, one file and one name are needed for.
Twice ==
  {File(<<[Target("spring", "blog", At("", "actuator")) EXCEPT !.url.slash = TRUE]>>),
   File(<<Target("statlite", "old", At("", ""))>>)}

\* A name for which the environment is expanded when the file is loaded.
Named == {Request("quarkus", At("", ""), name, mode) : name \in {"$SHOP", "$UNSET"}, mode \in {"create", "add"}}
Once == {NoFile, File(<<Target("quarkus", "shop", At("/app", "q/metrics"))>>)}
=============================================================================
