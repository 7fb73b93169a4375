------------------------------ MODULE Traffic ------------------------------
(***************************************************************************)
(* The traffic of an interface, from the counters of the device to the     *)
(* live chart of dashboard.js: QueryInterfaces walks the columns one after *)
(* the other, CreateInterfaceSnapshot and InterfaceRateCalculator make a   *)
(* rate of two samples, refreshDashboard fetches the snapshot and          *)
(* appendHistory adds a point to the chart, which is drawn to its scale.   *)
(*                                                                         *)
(* One interface of one device; a point sums up the rates of all of them.  *)
(* Between any two steps octets pass, or the device restarts.  A rate is   *)
(* in octets, not in megabits, per second.                                 *)
(***************************************************************************)
EXTENDS Integers, Sequences

CONSTANTS
  Wrap,        \* a counter counts modulo Wrap: 2^64 for the device's
  Absent,      \* a value, a sample or a snapshot that is not there
  MaxOctets,   \* bound on the octets that pass, both ways
  MaxTime,     \* bound on the time
  MaxPolls,    \* bound on polls
  MaxPoints,   \* maxHistoryPoints
  Unit,        \* the scale of the chart counts in 1/Unit of a bit per second
  Magnitudes   \* powers of ten, in this unit

ASSUME TrafficAssumption ==
  /\ Wrap \in Nat \ {0} /\ MaxPoints \in Nat \ {0}
  /\ {MaxOctets, MaxTime, MaxPolls} \subseteq Nat

\* The unit is fine enough for one octet in the longest time, and the powers go
\* up to those of the fastest rate.
ASSUME MagnitudesAssumption ==
  /\ Unit \in Nat \ {0} /\ 100 * (MaxTime + 1) <= 112 * 8 * Unit
  /\ Magnitudes \subseteq Nat \ {0} /\ 1 \in Magnitudes
  /\ \A m \in Magnitudes : 10 * m \in Magnitudes \/ 112 * 8 * Unit * Wrap <= 1000 * m

VARIABLES
  counters,   \* of the device, by direction
  passed,     \* observer: octets that have passed
  walk,       \* the poll in progress: the columns it has read
  previous,   \* _previousCounters
  published,  \* the current snapshot
  polls,      \* number of polls
  answer,     \* to the page's request
  points      \* liveHistory; the last one has lastHistoryTimestamp

device == <<counters, passed>>
poller == <<walk, previous, published, polls>>
page == <<answer, points>>
trafficVars == <<device, poller, page>>

Directions == {"in", "out"}
Zero == [d \in Directions |-> 0]
Octets == 0..MaxOctets
Times == 0..MaxTime

\* What a column says, and the octets that had passed by then.
Value == [count : 0..Wrap - 1, passed : Octets]
Sample == [in : Value, out : Value, at : Times]
NotWalking == [pc |-> "idle", in |-> Absent, out |-> Absent]

\* Observers in a rate: its time and the octets that passed between the samples.
Rate == [measuring : BOOLEAN, octets : [Directions -> 0..Wrap - 1], seconds : 0..MaxTime + 1,
         passed : [Directions -> Nat]]
Measuring == [measuring |-> TRUE, octets |-> Zero, seconds |-> 1, passed |-> Zero]

\* `poll` is an observer: the number of the poll.
Published == [connected : BOOLEAN, rate : Rate, lastUpdated : Times, poll : Nat]

ASSUME AbsentAssumption == Absent \notin Published

-----------------------------------------------------------------------------
(* The device *)

\* An octet passes.
Transfer(d) ==
  /\ passed["in"] + passed["out"] < MaxOctets
  /\ passed' = [passed EXCEPT ![d] = @ + 1]
  /\ counters' = [counters EXCEPT ![d] = IF @ = Wrap - 1 THEN 0 ELSE @ + 1]
  /\ UNCHANGED <<poller, page>>

RestartDevice ==
  /\ counters # Zero
  /\ counters' = Zero
  /\ UNCHANGED <<passed, poller, page>>

-----------------------------------------------------------------------------
(* A poll *)

\* A column cannot be read, or does not have the interface.
ReadColumn(d) ==
  \E value \in {[count |-> counters[d], passed |-> passed[d]], Absent} :
    walk' = [walk EXCEPT ![d] = value, !.pc = IF d = "in" THEN "in" ELSE "out"]

\* The columns of the octets are the last two.
WalkIn ==
  /\ walk.pc = "idle" /\ polls < MaxPolls
  /\ polls' = polls + 1
  /\ ReadColumn("in")
  /\ UNCHANGED <<device, previous, published, page>>

WalkOut ==
  /\ walk.pc = "in"
  /\ ReadColumn("out")
  /\ UNCHANGED <<device, previous, published, polls, page>>

\* The difference of two counters, of unsigned numbers.
Difference(sample, before, d) == (sample[d].count - before[d].count) % Wrap

RateOf(sample, before) ==
  [measuring |-> FALSE, seconds |-> sample.at - before.at,
   octets |-> [d \in Directions |-> Difference(sample, before, d)],
   passed |-> [d \in Directions |-> sample[d].passed - before[d].passed]]

\* Mutant of Calculate: a counter of one direction is looked at.
CalculateByIncoming(sample, before) ==
  IF before = Absent THEN Measuring
  ELSE IF sample.at <= before.at \/ sample.in.count < before.in.count THEN Measuring
  ELSE RateOf(sample, before)

\* A counter that is lower than before, or no time in between, gives no rate.
Calculate(sample, before) ==
  IF before = Absent THEN Measuring
  ELSE IF sample.at <= before.at \/ \E d \in Directions : sample[d].count < before[d].count
       THEN Measuring
  ELSE RateOf(sample, before)

\* The time is the server's, whose clock may have been set, back as well.
Publish(rate, now) ==
  published' = [connected |-> TRUE, rate |-> rate, lastUpdated |-> now, poll |-> polls]

\* CreateInterfaceSnapshot: the sample replaces the one before.
TakeSample(now) ==
  LET sample == [in |-> walk.in, out |-> walk.out, at |-> now]
  IN  /\ walk.pc = "out" /\ walk.in # Absent /\ walk.out # Absent
      /\ Publish(Calculate(sample, previous), now)
      /\ previous' = sample
      /\ walk' = NotWalking
      /\ UNCHANGED <<device, polls, page>>

\* Without both counters there is no rate, and the sample before stays; unless
\* no column has the interface.
LackSample(now) ==
  /\ walk.pc = "out" /\ Absent \in {walk.in, walk.out}
  /\ Publish(Measuring, now)
  /\ IF walk.in = Absent /\ walk.out = Absent THEN previous' \in {previous, Absent}
                                              ELSE previous' = previous
  /\ walk' = NotWalking
  /\ UNCHANGED <<device, polls, page>>

\* The device does not answer; the last snapshot stays, as disconnected.
DoesNotAnswer ==
  /\ walk.pc = "idle" /\ published # Absent
  /\ published' = [published EXCEPT !.connected = FALSE]
  /\ UNCHANGED <<device, walk, previous, polls, page>>

-----------------------------------------------------------------------------
(* The page *)

\* One request at a time; its answer is used later, or lost.
Fetch ==
  /\ answer = Absent /\ published # Absent
  /\ answer' = published
  /\ UNCHANGED <<device, poller, points>>

LoseAnswer ==
  /\ answer # Absent
  /\ answer' = Absent
  /\ UNCHANGED <<device, poller, points>>

\* Mutant of IsNew: what has been appended is not recognised.
IsNewAlways(data) == data.connected

IsNew(data) ==
  data.connected /\ (points = <<>> \/ data.lastUpdated # points[Len(points)].time)

\* createHistoryPoint
PointOf(data) == [time |-> data.lastUpdated, rate |-> data.rate, poll |-> data.poll]

\* The oldest point makes room.
Trimmed(series) ==
  IF Len(series) > MaxPoints THEN SubSeq(series, Len(series) - MaxPoints + 1, Len(series)) ELSE series

\* appendHistory, in updateDashboard.
AppendHistory ==
  /\ answer # Absent
  /\ points' = IF IsNew(answer) THEN Trimmed(Append(points, PointOf(answer))) ELSE points
  /\ answer' = Absent
  /\ UNCHANGED <<device, poller>>

-----------------------------------------------------------------------------
TrafficInit ==
  /\ counters = Zero /\ passed = Zero
  /\ walk = NotWalking /\ previous = Absent /\ published = Absent /\ polls = 0
  /\ answer = Absent /\ points = <<>>

TrafficNext ==
  \/ (\E d \in Directions : Transfer(d)) \/ RestartDevice
  \/ WalkIn \/ WalkOut \/ DoesNotAnswer
  \/ \E now \in Times : TakeSample(now) \/ LackSample(now)
  \/ Fetch \/ LoseAnswer \/ AppendHistory

TrafficSpec == TrafficInit /\ [][TrafficNext]_trafficVars
-----------------------------------------------------------------------------
(* The scale of the chart *)

\* Mutant of NiceMaximum: the steps are taken downwards.
NiceMaximumBelow(p, q) ==
  LET magnitude == CHOOSE m \in Magnitudes : m * q <= p /\ p < 10 * m * q
      below == {n * magnitude : n \in {k \in {1, 2, 5, 10} : p >= k * magnitude * q}}
  IN  CHOOSE m \in below : \A n \in below : n <= m

\* getNiceMaximum of p/q: 1, 2, 5 or 10 of its order of magnitude.
NiceMaximum(p, q) ==
  LET magnitude == CHOOSE m \in Magnitudes : m * q <= p /\ p < 10 * m * q
      above == {n * magnitude : n \in {k \in {1, 2, 5, 10} : p <= k * magnitude * q}}
  IN  CHOOSE m \in above : \A n \in above : m <= n

\* The values on the chart: octets and the seconds they took.
Rates == {[octets |-> points[i].rate.octets[d], seconds |-> points[i].rate.seconds] :
            i \in DOMAIN points, d \in Directions}
Highest == CHOOSE r \in Rates : \A s \in Rates : s.octets * r.seconds <= r.octets * s.seconds

\* getChartScale: 12 percent are left above the highest value; a chart without
\* traffic goes up to 1 Kbps.
ChartMaximum ==
  IF \A r \in Rates : r.octets = 0 THEN 1000 * Unit
  ELSE NiceMaximum(112 * 8 * Unit * Highest.octets, 100 * Highest.seconds)

-----------------------------------------------------------------------------
(* Properties *)

Point == [time : Times, rate : Rate, poll : 1..MaxPolls]

\* The types of the variables.
TrafficTypeOK ==
  /\ counters \in [Directions -> 0..Wrap - 1] /\ passed \in [Directions -> Octets]
  /\ walk.pc \in {"idle", "in", "out"} /\ walk.in \in Value \cup {Absent} /\ walk.out \in Value \cup {Absent}
  /\ previous \in Sample \cup {Absent}
  /\ {published, answer} \subseteq Published \cup {Absent}
  /\ polls \in 0..MaxPolls
  /\ points \in Seq(Point)

\* A rate is of octets that have passed between its two samples, and of a time
\* above zero, whether the device has restarted, a counter has wrapped, a column
\* could not be read or the clock was set; what is measured anew has no rate.
IsOfItsSamples(rate) ==
  /\ rate.seconds > 0
  /\ \A d \in Directions : rate.octets[d] <= rate.passed[d]
  /\ rate.measuring => rate.octets = Zero

\* It holds of what is published and of every point of the chart.
RateIsNeverTooHigh ==
  /\ published # Absent => IsOfItsSamples(published.rate)
  /\ \A i \in DOMAIN points : IsOfItsSamples(points[i].rate)

\* The points of the live chart are of different polls, in their order, though
\* the page fetches a snapshot often, seldom or late, and however the clock says.
LivePointsInOrder ==
  /\ Len(points) <= MaxPoints
  /\ \A i, j \in DOMAIN points : i < j => points[i].poll < points[j].poll

\* The chart is as high as its highest point and not much higher.
ChartContainsEveryPoint ==
  /\ \A r \in Rates : 8 * Unit * r.octets <= ChartMaximum * r.seconds
  /\ (\E r \in Rates : r.octets > 0) =>
       \E r \in Rates : 100 * ChartMaximum * r.seconds <= 280 * 8 * Unit * r.octets
=============================================================================
