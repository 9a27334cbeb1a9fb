--------------------------- MODULE StatliteMetrics ---------------------------
(***************************************************************************)
(* What the StatLite Metrics v1 collector makes of one response.           *)
(*                                                                         *)
(* A number of a JSON document is a fraction; json.Number takes it in      *)
(* quotes too.  "text" stands for every other value that is not a number,  *)
(* null among them, and "huge" for a number no float holds.                *)
(***************************************************************************)
EXTENDS Integers

Fraction(num, den) == [kind |-> "number", num |-> num, den |-> den]

NonNegative ==
  {"requests_total", "responses_404_total", "responses_4xx_total", "responses_5xx_total",
   "request_duration_seconds_total", "runtime_heap_used_bytes", "host_cpu_usage",
   "host_memory_used_bytes", "host_memory_total_bytes",
   "host_disk_used_bytes", "host_disk_total_bytes"}

\* request_duration_seconds_max is decoded and ignored.
Fields == NonNegative \cup {"process_cpu_usage", "uptime_seconds"}

Pairs == {[used |-> "host_memory_used_bytes", total |-> "host_memory_total_bytes"],
          [used |-> "host_disk_used_bytes", total |-> "host_disk_total_bytes"]}

\* ParseStatliteMetricsResponse, after Fetch found a body of status 2xx that is
\* not too large: JSON of the right shape, the schema, and a status.
Usable(response) ==
  /\ response.fetched /\ response.decodes
  /\ response.schema = "statlite-metrics/v1"
  /\ response.status # ""

\* collectStatliteMetricsSample
Readable(metrics) ==
  {f \in DOMAIN metrics \cap Fields :
     /\ metrics[f].kind = "number"
     /\ f \in NonNegative => metrics[f].num >= 0
     /\ f = "host_cpu_usage" => metrics[f].num <= metrics[f].den}

Exceeds(a, b) == a.num * b.den > b.num * a.den

\* validateStatliteMetricsPair: both of a pair that cannot be are dropped.
Mismatched(metrics) ==
  LET found == Readable(metrics)
      wrong == {p \in Pairs : /\ {p.used, p.total} \subseteq found
                              /\ Exceeds(metrics[p.used], metrics[p.total])}
  IN  {p.used : p \in wrong} \cup {p.total : p \in wrong}

Collected(metrics) ==
  [f \in Readable(metrics) \ Mismatched(metrics) |-> metrics[f]]

InvalidMetrics(metrics) ==
  ((DOMAIN metrics \cap Fields) \ Readable(metrics)) \cup Mismatched(metrics)

\* Optional text: absent, good, or a value of another type or form.
InvalidText(response) ==
  {f \in {"database_status", "started_at"} : response[f] = "invalid"}

\* Collect.  A missing start time is warned of, a missing metric is not.
Collect(response) ==
  IF Usable(response)
  THEN [ok       |-> TRUE,
        health   |-> response.status,
        started  |-> response.started_at = "given",
        samples  |-> Collected(response.metrics),
        warnings |-> InvalidMetrics(response.metrics) \cup InvalidText(response)
                       \cup {f \in {"started_at"} : response[f] = "absent"}]
  ELSE [ok |-> FALSE]
=============================================================================
