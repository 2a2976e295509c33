------------------------------- MODULE Metrics ------------------------------
(***************************************************************************)
(* worker::Metrics and its histograms (metrics.i.h), and how they are sent *)
(* (Connection::SendMetrics): as arrays of C structures, the buckets of    *)
(* all histograms in one.  What is received is external.  Values are       *)
(* integers here, and Infinity is greater than all of them; a Map is a     *)
(* function.                                                               *)
(***************************************************************************)
EXTENDS Integers, Sequences, FiniteSets, SequencesExt

CONSTANTS
  Boundaries,      \* for each key of a histogram its list of boundaries
  Gauges,          \* keys of the worker's gauges
  BuiltInGauges,   \* keys of those that SpatialOS's library reports
  Values,          \* values observed, and of gauges
  Infinity,
  MaxObservations, \* bound: observations of each histogram
  MaxSends         \* bound: calls of SendMetrics

ASSUME MetricsAssumption ==
  /\ IsFiniteSet(DOMAIN Boundaries)
  /\ Values \subseteq Int /\ Infinity \in Int
  /\ \A v \in Values : v < Infinity
  /\ \A k \in DOMAIN Boundaries : Boundaries[k] \in Seq(Int)
  /\ MaxObservations \in Nat /\ MaxSends \in Nat

VARIABLES
  metrics,   \* the Metrics object of the worker
  latest,    \* the load and the gauges as they were last set or reported
  recorded,  \* for each histogram the values it ever observed
  received,  \* the last that was received, histograms added up
  sends      \* how often metrics were sent

metricsVars == << metrics, latest, recorded, received, sends >>

(* A histogram, with a bucket for infinity in any case.                    *)
HistogramMetric(bucket_boundaries) ==
  LET bounds == IF Infinity \in ToSet(bucket_boundaries) THEN bucket_boundaries
                ELSE Append(bucket_boundaries, Infinity)
  IN  [ buckets |-> [ i \in DOMAIN bounds |-> [ UpperBound |-> bounds[i], Samples |-> 0 ] ],
        sum |-> 0 ]

RecordObservation(histogram, value) ==
  [ buckets |-> [ i \in DOMAIN histogram.buckets |->
                    IF value <= histogram.buckets[i].UpperBound
                    THEN [ histogram.buckets[i] EXCEPT !.Samples = @ + 1 ]
                    ELSE histogram.buckets[i] ],
    sum |-> histogram.sum + value ]

ClearObservations(histogram) ==
  [ buckets |-> [ i \in DOMAIN histogram.buckets |->
                    [ histogram.buckets[i] EXCEPT !.Samples = 0 ] ],
    sum |-> 0 ]

(* One map with another's pairs assigned to it.                            *)
Assigned(map, other) ==
  [ k \in DOMAIN map \cup DOMAIN other |->
      IF k \in DOMAIN other THEN other[k] ELSE map[k] ]

(* Metrics::Merge: an absent load and absent keys leave what is there; a   *)
(* histogram replaces the one there was, with all it observed.             *)
Merge(ours, other) ==
  [ Load |-> IF other.Load = << >> THEN ours.Load ELSE other.Load,
    GaugeMetrics |-> Assigned(ours.GaugeMetrics, other.GaugeMetrics),
    HistogramMetrics |-> Assigned(ours.HistogramMetrics, other.HistogramMetrics) ]

(* The array of all buckets, once those of n histograms are in it.         *)
BucketData(buckets, n) ==
  LET data[i \in 0 .. n] == IF i = 0 THEN << >> ELSE data[i - 1] \o buckets[i]
  IN  data[n]

(* Fault: the buckets of every histogram begin at the start of the array.  *)
FirstBucket(buckets, i) == 0

(* Where the buckets of the i-th histogram begin in the array.             *)
Bucket(buckets, i) == Len(BucketData(buckets, i - 1))

(* The C structure: for each histogram where its buckets begin in the      *)
(* array, and how many there are.                                          *)
ProtocolMetrics(m) ==
  LET keys == SetToSeq(DOMAIN m.HistogramMetrics)
      histograms == [ i \in DOMAIN keys |-> m.HistogramMetrics[keys[i]] ]
      buckets == [ i \in DOMAIN keys |-> histograms[i].buckets ]
  IN  [ Load |-> m.Load,
        GaugeMetric |-> m.GaugeMetrics,
        HistogramMetric |->
          [ i \in DOMAIN keys |->
              [ Key |-> keys[i], Sum |-> histograms[i].sum,
                BucketCount |-> Len(buckets[i]),
                Bucket |-> Bucket(buckets, i) ] ],
        HistogramMetricBucket |-> BucketData(buckets, Len(keys)) ]

(* Who receives it adds to what he had of each histogram.                  *)
Add(had, p) ==
  [ Load |-> p.Load,
    GaugeMetrics |-> p.GaugeMetric,
    HistogramMetrics |->
      [ k \in DOMAIN had.HistogramMetrics |->
          LET h == CHOOSE x \in ToSet(p.HistogramMetric) : x.Key = k
              bucket == SubSeq(p.HistogramMetricBucket, h.Bucket + 1, h.Bucket + h.BucketCount)
          IN  [ buckets |-> [ i \in 1 .. h.BucketCount |->
                  [ UpperBound |-> bucket[i].UpperBound,
                    Samples |-> had.HistogramMetrics[k].buckets[i].Samples + bucket[i].Samples ] ],
                sum |-> had.HistogramMetrics[k].sum + h.Sum ] ] ]

-----------------------------------------------------------------------------
MetricsInit ==
  LET new == [ Load |-> << >>, GaugeMetrics |-> << >>,
               HistogramMetrics |->
                 [ k \in DOMAIN Boundaries |-> HistogramMetric(Boundaries[k]) ] ]
  IN  /\ metrics = new
      /\ latest = [ Load |-> << >>, GaugeMetrics |-> << >> ]
      /\ recorded = [ k \in DOMAIN Boundaries |-> << >> ]
      /\ received = new
      /\ sends = 0

(* The worker sets a gauge or its load, and records an observation.        *)
SetGauge(gauge, value) ==
  /\ metrics' = [ metrics EXCEPT !.GaugeMetrics = Assigned(@, [ g \in {gauge} |-> value ]) ]
  /\ latest' = [ latest EXCEPT !.GaugeMetrics = Assigned(@, [ g \in {gauge} |-> value ]) ]
  /\ UNCHANGED << recorded, received, sends >>

SetLoad(value) ==
  /\ metrics' = [ metrics EXCEPT !.Load = << value >> ]
  /\ latest' = [ latest EXCEPT !.Load = << value >> ]
  /\ UNCHANGED << recorded, received, sends >>

Record(key, value) ==
  /\ Len(recorded[key]) < MaxObservations
  /\ metrics' = [ metrics EXCEPT !.HistogramMetrics[key] = RecordObservation(@, value) ]
  /\ recorded' = [ recorded EXCEPT ![key] = Append(@, value) ]
  /\ UNCHANGED << latest, received, sends >>

(* A MetricsOp with built-in gauges, which the callback merges "into the   *)
(* Metrics parameter": HandleMetrics makes of it an object of its own, and *)
(* takes no histograms.                                                    *)
HandleMetrics(gauges) ==
  LET wrapper == [ Load |-> << >>, GaugeMetrics |-> gauges, HistogramMetrics |-> << >> ]
  IN  /\ metrics' = Merge(metrics, wrapper)
      /\ latest' = [ latest EXCEPT !.GaugeMetrics = Assigned(@, gauges) ]
      /\ UNCHANGED << recorded, received, sends >>

(* Connection::SendMetrics: what was sent of the histograms is cleared.    *)
SendMetrics ==
  /\ sends < MaxSends
  /\ received' = Add(received, ProtocolMetrics(metrics))
  /\ metrics' = [ metrics EXCEPT !.HistogramMetrics =
                    [ k \in DOMAIN @ |-> ClearObservations(@[k]) ] ]
  /\ sends' = sends + 1
  /\ UNCHANGED << latest, recorded >>

MetricsStep ==
  \/ \E g \in Gauges, v \in Values : SetGauge(g, v)
  \/ \E v \in Values : SetLoad(v)
  \/ \E k \in DOMAIN Boundaries, v \in Values : Record(k, v)
  \/ \E gauges \in UNION { [ G -> Values ] : G \in SUBSET BuiltInGauges } : HandleMetrics(gauges)
  \/ SendMetrics

-----------------------------------------------------------------------------
UpTo(values, bound) == Cardinality({ i \in DOMAIN values : values[i] <= bound })

Total(values) ==
  LET sum[i \in 0 .. Len(values)] == IF i = 0 THEN 0 ELSE sum[i - 1] + values[i]
  IN  sum[Len(values)]

(* Histograms are sent as differences: what was received of each, bucket   *)
(* by bucket, and what is not sent yet make up what was ever recorded, no  *)
(* observation lost or counted twice, however many histograms share the    *)
(* array and whatever gauges SpatialOS reports in between, which is all    *)
(* that is merged here (HandleMetrics).  Gauges and the load stay as they  *)
(* were set last.                                                          *)
ObservationsCountOnce ==
  /\ \A k \in DOMAIN Boundaries :
       LET held == metrics.HistogramMetrics[k]
           sent == received.HistogramMetrics[k]
       IN  /\ \A i \in DOMAIN held.buckets :
                /\ held.buckets[i].UpperBound = sent.buckets[i].UpperBound
                /\ held.buckets[i].Samples + sent.buckets[i].Samples =
                     UpTo(recorded[k], held.buckets[i].UpperBound)
           /\ \E i \in DOMAIN held.buckets : held.buckets[i].UpperBound = Infinity
           /\ held.sum + sent.sum = Total(recorded[k])
  /\ latest = [ Load |-> metrics.Load, GaugeMetrics |-> metrics.GaugeMetrics ]
=============================================================================
