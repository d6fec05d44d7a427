------------------------------- MODULE Metrics -------------------------------
(***************************************************************************)
(* net::instrument::prometheus: a counter or gauge, a histogram and the    *)
(* registry, used by several threads while another writes them out.  The   *)
(* values are whole numbers.  The buckets of a histogram are updated with  *)
(* std::atomic_ref, as they are where the library has it.                  *)
(***************************************************************************)
EXTENDS Integers, FiniteSets, SequencesExt

CONSTANTS
    Threads,
    Amounts,        \* the values that are added or observed
    MaxUpdates,     \* bound on the updates
    MetricNames

VARIABLES
    metric,         \* "counter", "gauge" or "histogram": what the threads update; or "registry"
    value,          \* value of the counter or gauge, sum of the histogram
    count,
    buckets,        \* the upper bounds of the histogram
    bucket_values,
    update,         \* thread -> its update: [pc, v, current, i]
    seen,           \* history: the amounts of the updates begun
    overlapped,     \* history: two updates ran at the same time
    encoding,       \* encode_self(): [pc, buckets, sum, count, quiet]
    metrics,        \* registry::metrics: [name, type]
    recording,      \* record_all(): [pc, i, size, written]
    moved           \* history: the deque grew under record_all()

histogramVars == <<count, buckets, bucket_values>>
registryVars == <<metrics, recording, moved>>
metricVars == <<metric, value, histogramVars, update, seen, overlapped, encoding, registryVars>>

infinity == 1000
NoUpdate == [pc |-> "idle", v |-> 0, current |-> 0, i |-> 0]
NotEncoding == [pc |-> "idle", buckets |-> <<>>, sum |-> 0, count |-> 0, quiet |-> TRUE]
NotRecording == [pc |-> "idle", i |-> 0, size |-> 0, written |-> <<>>]

\* linear_buckets() and exponential_buckets(), of at least one bucket: count - 1
\* wraps around below that.
RECURSIVE Bounds(_, _, _)
Bounds(next_upper_bound, Step(_), n) ==
    IF n = 1 THEN <<infinity>> ELSE <<next_upper_bound>> \o Bounds(Step(next_upper_bound), Step, n - 1)
linear_buckets(start, width, n) == LET Add(b) == b + width IN Bounds(start, Add, n)
exponential_buckets(start, factor, n) == LET Times(b) == b * factor IN Bounds(start, Times, n)

\* The constructor of the histogram makes sure there is a bucket for everything.
WithInfinity(b) == IF Last(b) = infinity THEN b ELSE Append(b, infinity)

MetricsInit ==
    /\ metric \in {"counter", "gauge", "histogram", "registry"}
    /\ value = 0 /\ count = 0
    /\ buckets \in {WithInfinity(linear_buckets(1, 1, 3))}
         \cup (IF metric = "histogram" THEN {WithInfinity(Front(exponential_buckets(1, 3, 3)))} ELSE {})
    /\ bucket_values = [i \in DOMAIN buckets |-> 0]
    /\ update = [t \in Threads |-> NoUpdate]
    /\ seen = <<>> /\ overlapped = FALSE /\ encoding = NotEncoding
    /\ metrics = <<>> /\ recording = NotRecording /\ moved = FALSE

Idle == \A t \in Threads : update[t].pc = "idle"

\* value.load(), the first step of increment() and decrement(), and of observe()
\* with its sum.
Load(t, v) ==
    /\ metric # "registry" /\ update[t].pc = "idle" /\ Len(seen) < MaxUpdates
    /\ metric # "gauge" => v > 0
    /\ update' = [update EXCEPT ![t] = [pc |-> "store", v |-> v, current |-> value, i |-> 0]]
    /\ seen' = Append(seen, v)
    /\ overlapped' = (overlapped \/ ~Idle)
    /\ encoding' = [encoding EXCEPT !.quiet = FALSE]
    /\ UNCHANGED <<metric, value, histogramVars, registryVars>>

\* value.store().
Store(t) ==
    /\ update[t].pc = "store"
    /\ value' = update[t].current + update[t].v
    /\ update' = [update EXCEPT ![t] = IF metric = "histogram" THEN [@ EXCEPT !.pc = "count"] ELSE NoUpdate]
    /\ UNCHANGED <<metric, histogramVars, seen, overlapped, encoding, registryVars>>

\* gauge::operator=.
SetGauge(t, v) ==
    /\ metric = "gauge" /\ update[t].pc = "idle" /\ Len(seen) < MaxUpdates
    /\ value' = v
    /\ seen' = <<v>>
    /\ overlapped' = (overlapped \/ ~Idle)
    /\ UNCHANGED <<metric, histogramVars, update, encoding, registryVars>>

\* The first bucket the value is not greater than.
FirstBucket(v) == Min({i \in DOMAIN buckets : v =< buckets[i]})

\* The rest of observe(): count, and then every bucket from that one on, of which
\* the first may end the loop at once.
Count(t) ==
    /\ update[t].pc = "count"
    /\ count' = count + 1
    /\ update' = [update EXCEPT ![t].pc = "buckets", ![t].i = FirstBucket(update[t].v)]
    /\ UNCHANGED <<metric, value, buckets, bucket_values, seen, overlapped, encoding, registryVars>>

AddToBucket(t) ==
    LET u == update[t]
    IN /\ u.pc = "buckets"
       /\ IF u.i =< Len(buckets) /\ u.v < buckets[u.i]
          THEN /\ bucket_values' = [bucket_values EXCEPT ![u.i] = @ + 1]
               /\ update' = [update EXCEPT ![t].i = @ + 1]
          ELSE update' = [update EXCEPT ![t] = NoUpdate] /\ UNCHANGED bucket_values
       /\ UNCHANGED <<metric, value, count, buckets, seen, overlapped, encoding, registryVars>>

\* encode_self() reads the buckets one after another, then the sum, then the count.
\* Its lambdas are temporaries of a function that has returned when the task runs
\* them (histogram.cpp:124): with what they captured gone, anything may be read.
EncodeBegins ==
    /\ metric = "histogram" /\ encoding.pc = "idle"
    /\ encoding' \in {[NotEncoding EXCEPT !.pc = pc, !.quiet = Idle] : pc \in {"buckets", "undefined"}}
    /\ UNCHANGED <<metric, value, histogramVars, update, seen, overlapped, registryVars>>

\* Mutant of EncodeStep: the count goes first.
EncodeCountFirst ==
    /\ encoding' = CASE encoding.pc = "buckets" /\ encoding.buckets = <<>> ->
                          [encoding EXCEPT !.buckets = Append(@, bucket_values[1]), !.count = count]
                     [] encoding.pc = "buckets" /\ Len(encoding.buckets) \in 1..Len(buckets) - 1 ->
                          [encoding EXCEPT !.buckets = Append(@, bucket_values[Len(@) + 1])]
                     [] encoding.pc = "buckets" /\ Len(encoding.buckets) = Len(buckets) ->
                          [encoding EXCEPT !.sum = value, !.pc = "count"]
                     [] encoding.pc = "count" -> [encoding EXCEPT !.pc = "done"]
    /\ UNCHANGED <<metric, value, histogramVars, update, seen, overlapped, registryVars>>

EncodeStep ==
    /\ encoding' = CASE encoding.pc = "buckets" /\ Len(encoding.buckets) < Len(buckets) ->
                          [encoding EXCEPT !.buckets = Append(@, bucket_values[Len(@) + 1])]
                     [] encoding.pc = "buckets" /\ Len(encoding.buckets) = Len(buckets) ->
                          [encoding EXCEPT !.sum = value, !.pc = "count"]
                     [] encoding.pc = "count" -> [encoding EXCEPT !.count = count, !.pc = "done"]
    /\ UNCHANGED <<metric, value, histogramVars, update, seen, overlapped, registryVars>>

-----------------------------------------------------------------------------
(* registry.                                                               *)

Registered(name) == {i \in DOMAIN metrics : metrics[i].name = name}

\* register_metric(), under the lock: what is there under the name is returned, or
\* throws when it is of another type.
RegisterMetric(name, type) ==
    /\ Registered(name) = {}
    /\ metrics' = Append(metrics, [name |-> name, type |-> type])
    /\ moved' = (moved \/ recording.pc = "running")
    /\ UNCHANGED <<metric, value, histogramVars, update, seen, overlapped, encoding, recording>>

\* record() releases its lock when it returns the task; record_all() runs later.
RecordBegins ==
    /\ recording.pc = "idle"
    /\ recording' = [pc |-> "running", i |-> 1, size |-> Len(metrics), written |-> <<>>]
    /\ UNCHANGED <<metric, value, histogramVars, update, seen, overlapped, encoding, metrics, moved>>

\* One metric is written, or the writer fails.
RecordStep ==
    /\ recording.pc = "running" /\ ~moved
    /\ recording' \in IF recording.i =< recording.size
                      THEN {[recording EXCEPT !.i = @ + 1, !.written = Append(@, metrics[recording.i].name)],
                            [recording EXCEPT !.pc = "failed"]}
                      ELSE {[recording EXCEPT !.pc = "done"]}
    /\ UNCHANGED <<metric, value, histogramVars, update, seen, overlapped, encoding, metrics, moved>>

MetricsNext ==
    \/ \E t \in Threads :
         \/ \E v \in Amounts : Load(t, v) \/ SetGauge(t, v)
         \/ Store(t) \/ Count(t) \/ AddToBucket(t)
    \/ EncodeBegins
    \/ encoding.pc \in {"buckets", "count"} /\ EncodeStep
    \/ metric = "registry" /\ \E name \in MetricNames, type \in {"counter", "gauge"} : RegisterMetric(name, type)
    \/ metric = "registry" /\ (RecordBegins \/ RecordStep)

-----------------------------------------------------------------------------

Total == FoldLeft(LAMBDA a, b : a + b, 0, seen)

\* A value equal to a bound is in no bucket (histogram.cpp:108).
In(i) == {k \in DOMAIN seen : seen[k] < buckets[i] /\ seen[k] \notin ToSet(buckets)}

\* Updates that do not overlap are all there, and with those that do a counter is
\* never more than what was added (counter.hpp:33).  The buckets and the count of a
\* histogram lose nothing whatever overlaps.  What encode_self() reads has no bucket
\* greater than the count, even in the middle of updates, and when there were none
\* meanwhile the buckets grow and agree with the count.  A name stands for one
\* metric, and record() writes each of them once, in order.
MetricsExact ==
    /\ Idle /\ ~overlapped => value = Total
    /\ metric # "gauge" => value =< Total
    /\ Idle /\ metric = "histogram" =>
         count = Len(seen) /\ \A i \in DOMAIN buckets : bucket_values[i] = Cardinality(In(i))
    /\ encoding.pc = "done" =>
         /\ \A i \in DOMAIN encoding.buckets : encoding.buckets[i] =< encoding.count
         /\ encoding.quiet =>
              /\ \A i \in 1..Len(buckets) - 1 : encoding.buckets[i] =< encoding.buckets[i + 1]
              /\ Last(encoding.buckets) = encoding.count - Cardinality({k \in DOMAIN seen : seen[k] \in ToSet(buckets)})
    /\ \A name \in MetricNames : Cardinality(Registered(name)) =< 1
    /\ recording.pc = "done" => \A i \in 1..recording.size : recording.written[i] = metrics[i].name

=============================================================================
