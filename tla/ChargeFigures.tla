---------------------------- MODULE ChargeFigures ----------------------------
(***************************************************************************)
(* What is computed from the samples of one charge, and never stored as a  *)
(* list: the running energy totals of the open charge, the facts the cost  *)
(* rules read, and the efficiency figure, which the store reads back in    *)
(* pages (src/runtime/lifecycle, storage/db/projection_helpers.rs).        *)
(*                                                                         *)
(* Powers are whole kW, times are ticks and the energy counter counts      *)
(* kW ticks, so the trapezoid of two samples is held doubled.  A per-phase *)
(* voltage and current enter only as their product `vi'.                   *)
(***************************************************************************)
EXTENDS Integers, Sequences, FiniteSets, FiniteSetsExt, SequencesExt, TLC

CONSTANTS SampleForms,  \* what a sample may report
          Presets,      \* baselines a charge may open with
          IntervalMax,  \* K_INT_MAX_MS
          CounterDip,   \* K_COUNTER_DIP_KWH
          PreSampleMax, \* K_PRE_SAMPLE_KWH
          RatioMin,     \* K_RATIO_MIN_KWH
          AcMaxPower,   \* K_AC_MAX_KW
          WindowLevel,  \* K_EFF_MAX_LEVEL
          WindowSpan,   \* K_EFF_MIN_SPAN
          SamplePage,   \* K_EFF_SAMPLE_PAGE
          MaxSamples    \* bound: samples of one charge

VARIABLES samples,  \* the charge's samples, in the order they were folded; the index is the id
          preset,   \* the counter baseline the charge opened with
          running   \* the energy fields of the open charge

uvars == <<samples, preset, running>>

Unknown == -1
Known(x) == x # Unknown
Larger(a, b) == IF a < b THEN b ELSE a
Distant(a, b) == IF a < b THEN b - a ELSE a - b

(***************************************************************************)
(* One sample.                                                             *)
(***************************************************************************)
FastChargerKind(name) ==
  CASE name = "Supercharger" -> "supercharger"
    [] name \in {"CHAdeMO", "GB", "Combo"} -> "other_dc"
    [] name \in {"ACSingleWireCAN", "MCSingleWireCAN"} -> "tesla_ac"
    [] name \in {"", "<invalid>", "Unknown", "SNA", "Other", "Tesla"} -> "none"
    [] OTHER -> "unrecognised"

SampleBrand(name) ==
  CASE name = "Tesla" -> "tesla"
    [] name \in {"", "<invalid>", "Unknown", "SNA"} -> "none"
    [] OTHER -> "other"

PhaseConsistencySet(s) == {n \in 1..3 : 10 * Distant(n * s.vi, s.power) <= 10 + n * s.vi}

OnlyPhase(s) == Known(s.power) /\ Known(s.vi) /\ Cardinality(PhaseConsistencySet(s)) = 1

SampleKindEvidence(s) ==
  LET kind == FastChargerKind(s.type)
      dc == \/ kind \in {"supercharger", "other_dc"}
            \/ s.present = "yes" /\ kind # "tesla_ac"
            \/ s.power > AcMaxPower
      flow == s.power >= 1
      ac == kind = "tesla_ac" \/ (flow /\ (s.present = "no" \/ OnlyPhase(s)))
  IN  IF dc THEN "dc" ELSE IF ac THEN "ac" ELSE "unknown"

SessionKindAfter(kind, evidence) ==
  IF "dc" \in {kind, evidence} THEN "dc" ELSE IF kind = "unknown" THEN evidence ELSE kind

SessionChargerTypeAfter(type, s) ==
  IF type # "" \/ FastChargerKind(s.type) = "none" THEN type ELSE s.type

\* The power of a sample and the phase count the sample itself fixed.
SampleGridPower(s, kind, phases) ==
  LET reported == [power |-> s.power, phases |-> Unknown]
      agree == IF Known(s.power) THEN PhaseConsistencySet(s) ELSE 1..3
      with(n, fixed) == [power |-> n * s.vi, phases |-> IF fixed THEN n ELSE Unknown]
  IN  CASE kind = "dc" \/ ~Known(s.vi) -> reported
        [] kind # "dc" /\ Known(s.vi) ->
             CASE Cardinality(agree) = 1 -> with(CHOOSE n \in agree : TRUE, TRUE)
               [] Cardinality(agree) # 1 /\ s.label \in agree -> with(s.label, TRUE)
               [] Cardinality(agree) # 1 /\ s.label \notin agree /\ phases \in agree -> with(phases, FALSE)
               [] OTHER -> reported

(***************************************************************************)
(* The running energy of the open charge.                                  *)
(***************************************************************************)
NewRunning(base) ==
  [count |-> 0, at |-> Unknown, power |-> Unknown, phases |-> Unknown, kind |-> "unknown", type |-> "",
   base |-> base, top |-> Unknown, last |-> Unknown, previous |-> Unknown, carry |-> 0, pre |-> Unknown,
   whole |-> FALSE, integral |-> Unknown, ratioUsed |-> 0, ratioAdded |-> 0]

Restarted(before, now) == before - now > CounterDip

\* Mutant: a dip counts as a restart once it is below the segment's maximum.
FoldCounterAgainstTop(r, c) ==
  LET base == Larger(r.base, 0)
      moved == CASE ~Known(r.top) /\ Restarted(base, c) -> [r EXCEPT !.base = 0, !.top = c]
                 [] ~Known(r.top) /\ ~Restarted(base, c) -> [r EXCEPT !.base = base, !.top = Larger(base, c)]
                 [] Known(r.top) /\ c >= r.top -> [r EXCEPT !.top = c]
                 [] Known(r.top) /\ Restarted(r.top, c) ->
                      [r EXCEPT !.carry = @ + r.top - base, !.base = 0, !.top = c]
                 [] OTHER -> r
  IN  [moved EXCEPT !.last = c]

FoldCounter(r, c) ==
  LET base == Larger(r.base, 0)
      first == ~Known(r.top)
      restart == Restarted(IF first THEN base ELSE IF Known(r.last) THEN r.last ELSE r.top, c)
      moved == CASE first /\ restart -> [r EXCEPT !.base = 0, !.top = c]
                 [] first /\ ~restart -> [r EXCEPT !.base = base, !.top = Larger(base, c)]
                 [] ~first /\ c >= r.top -> [r EXCEPT !.base = base, !.top = c]
                 [] ~first /\ c < r.top /\ restart ->
                      [r EXCEPT !.carry = @ + r.top - base, !.base = 0, !.top = c]
                 [] OTHER -> r
  IN  [moved EXCEPT !.last = c]

FoldInterval(r, dt, power, c) ==
  LET used == (r.power + power) * dt
      counted == Known(r.previous) /\ Known(c) /\ ~Restarted(r.previous, c)
  IN  CASE dt <= 0 -> r
        [] dt > 0 /\ (dt > IntervalMax \/ ~Known(r.power) \/ ~Known(power)) -> [r EXCEPT !.whole = FALSE]
        [] OTHER -> [r EXCEPT !.integral = Larger(@, 0) + used,
                              !.ratioUsed = IF counted THEN @ + used ELSE @,
                              !.ratioAdded = IF counted THEN @ + c - r.previous ELSE @]

Observe(r, s) ==
  LET folded == IF Known(s.counter) THEN FoldCounter(r, s.counter) ELSE r
      kind == SessionKindAfter(r.kind, SampleKindEvidence(s))
      grid == SampleGridPower(s, kind, r.phases)
      timed == IF r.count = 0
               THEN [folded EXCEPT !.integral = 0, !.whole = TRUE,
                       !.pre = IF Known(s.counter) THEN folded.top - Larger(folded.base, 0) ELSE Unknown]
               ELSE FoldInterval(folded, s.at - r.at, grid.power, s.counter)
  IN  [timed EXCEPT !.kind = kind, !.type = SessionChargerTypeAfter(r.type, s), !.previous = s.counter,
                    !.power = grid.power, !.at = s.at, !.count = @ + 1,
                    !.phases = IF Known(grid.phases) THEN grid.phases ELSE @]

ChargeEnergyAdded(r) == IF Known(r.top) THEN r.carry + r.top - Larger(r.base, 0) ELSE Unknown

NetEnergy(r) == r.carry + (IF Known(r.last) THEN r.last ELSE r.top) - Larger(r.base, 0)

\* Energy used, doubled, before the plausibility floor.
MeasuredEnergy(r) ==
  LET added == ChargeEnergyAdded(r)
  IN  CASE added <= 0 /\ Known(added) /\ r.count <= 1 -> 0
        [] (added <= 0 /\ Known(added) /\ r.count > 1) \/ ~Known(added) ->
             IF r.whole /\ r.count >= 2 THEN r.integral ELSE Unknown
        [] OTHER ->
             CASE r.whole /\ r.count >= 2 /\ Known(r.pre) /\ r.pre <= PreSampleMax -> r.integral + 2 * r.pre
               [] ~(r.whole /\ r.count >= 2 /\ Known(r.pre) /\ r.pre <= PreSampleMax)
                    /\ r.ratioAdded >= RatioMin /\ NetEnergy(r) > 0 ->
                    (NetEnergy(r) * r.ratioUsed) \div r.ratioAdded
               [] OTHER -> Unknown

ChargeEnergyUsed(r) ==
  LET used == MeasuredEnergy(r)
      added == ChargeEnergyAdded(r)
  IN  IF r.kind = "ac" /\ added >= RatioMin /\ 20 * used < 38 * added THEN Unknown ELSE used

(***************************************************************************)
(* The facts the cost rules read, folded in whatever order rows come.      *)
(***************************************************************************)
NoKey == <<Unknown, 0>>
Before(k, l) == k[1] < l[1] \/ (k[1] = l[1] /\ k[2] < l[2])

NoFacts == [first |-> NoKey, previous |-> NoKey, last |-> NoKey, top |-> Unknown, brands |-> {}]

ObserveFact(f, s) ==
  LET key == <<s.at, s.id>>
  IN  [first |-> IF f.first = NoKey \/ Before(key, f.first) THEN key ELSE f.first,
       previous |-> CASE f.last = NoKey -> NoKey
                      [] f.last # NoKey /\ Before(f.last, key) -> f.last
                      [] f.last # NoKey /\ ~Before(f.last, key) ->
                           IF f.previous = NoKey \/ Before(f.previous, key) THEN key ELSE f.previous,
       last |-> IF f.last = NoKey \/ Before(f.last, key) THEN key ELSE f.last,
       top |-> Larger(f.top, s.counter),
       brands |-> f.brands \cup ({SampleBrand(s.brand)} \ {"none"})]

BrandIsTesla(f) == f.brands = {"tesla"}

FoldFacts(seq) == FoldLeft(ObserveFact, NoFacts, seq)

SpanObserved(start, end, f) ==
  f.first # NoKey =>
    /\ f.first[1] - start <= IntervalMax
    /\ f.previous # NoKey => f.last[1] - f.previous[1] <= IntervalMax
    /\ end - f.last[1] <= IntervalMax

ContinuesPlugIn(added, f) == Known(added) /\ Known(f.top) /\ f.top > added

(***************************************************************************)
(* The efficiency figure of a session.                                     *)
(***************************************************************************)
NoEfficiency == [first |-> <<>>, last |-> <<>>, heater |-> FALSE, rejected |-> FALSE]

WindowPoint(s) ==
  IF Known(s.level) /\ s.level <= WindowLevel /\ Known(s.counter) /\ Known(s.range)
  THEN <<[level |-> s.level, counter |-> s.counter, range |-> s.range]>> ELSE <<>>

ObserveEfficiency(f, s) ==
  LET point == WindowPoint(s)
      heater == f.heater \/ s.heater
      before == IF f.last = <<>> THEN f.first ELSE f.last
  IN  CASE f.first = <<>> /\ point = <<>> -> f
        [] f.first = <<>> /\ point # <<>> -> [f EXCEPT !.first = point, !.heater = s.heater]
        [] f.first # <<>> /\ point = <<>> -> [f EXCEPT !.heater = heater]
        [] OTHER -> [f EXCEPT !.heater = heater, !.last = point,
                              !.rejected = @ \/ heater \/ point[1].counter < before[1].counter]

\* The figure as energy over range, both raised from the first window sample to the last.
FinishEfficiency(f) ==
  IF f.rejected \/ f.first = <<>> \/ f.last = <<>> THEN <<>>
  ELSE LET a == f.first[1]
           b == f.last[1]
       IN  IF b.level - a.level >= WindowSpan /\ b.counter > a.counter /\ b.range > a.range
           THEN <<b.counter - a.counter, b.range - a.range>> ELSE <<>>

\* One page of a charge's stored samples: the next ones after the keyset, in sample order.
EfficiencyPage(rows, keyset) ==
  LET after == {s \in rows : Before(keyset, <<s.at, s.id>>)}
      rank(s) == Cardinality({o \in after : Before(<<o.at, o.id>>, <<s.at, s.id>>)})
  IN  [i \in 1..(IF Cardinality(after) < SamplePage THEN Cardinality(after) ELSE SamplePage) |->
         CHOOSE s \in after : rank(s) = i - 1]

\* The pages of one session, each folded before the next is read; a row that does not decode ends
\* the reading and leaves no figure.
ReadSessionEfficiency(rows) ==
  LET from == [fold |-> NoEfficiency, keyset |-> NoKey, seen |-> 0, torn |-> FALSE, done |-> FALSE]
      row(r, s) == IF r.torn \/ s.torn THEN [r EXCEPT !.torn = TRUE]
                   ELSE [r EXCEPT !.fold = ObserveEfficiency(@, s), !.keyset = <<s.at, s.id>>, !.seen = @ + 1]
      read[n \in 0..(Cardinality(rows) + 1)] ==
        IF n = 0 THEN from
        ELSE IF read[n - 1].done THEN read[n - 1]
        ELSE LET page == EfficiencyPage(rows, read[n - 1].keyset)
                 r == FoldLeft(row, read[n - 1], page)
             IN  [r EXCEPT !.done = r.torn \/ Len(page) < SamplePage]
      end == read[Cardinality(rows) + 1]
  IN  IF end.torn \/ end.seen # Cardinality(rows) THEN <<>> ELSE FinishEfficiency(end.fold)

(***************************************************************************)
(* A charge takes samples; live ones never go back in time, and may share  *)
(* one.                                                                    *)
(***************************************************************************)
UStart == samples = <<>> /\ running = NewRunning(preset)

UInit == preset \in Presets /\ UStart

TakeSample(form, dt) ==
  /\ Len(samples) < MaxSamples
  /\ samples = <<>> => dt = 0
  /\ LET at == (IF samples = <<>> THEN 0 ELSE Last(samples).at) + dt
         s == form @@ [at |-> at, id |-> Len(samples) + 1]
     IN  /\ samples' = Append(samples, s)
         /\ running' = Observe(running, s)
  /\ UNCHANGED preset

UNext == \E form \in SampleForms, dt \in 0..(IntervalMax + 1) : TakeSample(form, dt)

USpec == UInit /\ [][UNext]_uvars

(***************************************************************************)
(* The same figures, said of the whole list of samples.                    *)
(***************************************************************************)
KindOf(n) ==
  LET said == {SampleKindEvidence(samples[i]) : i \in 1..n}
  IN  IF "dc" \in said THEN "dc" ELSE IF "ac" \in said THEN "ac" ELSE "unknown"

FixedPhases(i) == SampleGridPower(samples[i], KindOf(i), Unknown).phases

PowerOf(i) ==
  LET fixing == {j \in 1..(i - 1) : Known(FixedPhases(j))}
  IN  SampleGridPower(samples[i], KindOf(i), IF fixing = {} THEN Unknown ELSE FixedPhases(Max(fixing))).power

Intervals == {i \in 2..Len(samples) : samples[i].at > samples[i - 1].at}

Powered == {i \in Intervals : /\ samples[i].at - samples[i - 1].at <= IntervalMax
                              /\ Known(PowerOf(i - 1)) /\ Known(PowerOf(i))}

Trapezoid(i) == (PowerOf(i - 1) + PowerOf(i)) * (samples[i].at - samples[i - 1].at)

CountedSteps == {i \in Powered : /\ Known(samples[i - 1].counter) /\ Known(samples[i].counter)
                            /\ ~Restarted(samples[i - 1].counter, samples[i].counter)}

Readings == SelectSeq(<<Larger(preset, 0)>> \o [i \in 1..Len(samples) |-> samples[i].counter], Known)

\* Where the counter starts again, and what each stretch between two starts added.
Starts == {1} \cup {k \in 2..Len(Readings) : Restarted(Readings[k - 1], Readings[k])}

Rise(k) ==
  LET upTo == IF \E j \in Starts : j > k THEN Min({j \in Starts : j > k}) - 1 ELSE Len(Readings)
  IN  Max({Readings[j] : j \in k..upTo}) - (IF k = 1 THEN Readings[1] ELSE 0)

\* The running totals equal what the whole list of samples says (fold_energy_counter,
\* fold_charge_interval, charge_energy_totals): energy added is the sum of what each stretch of the
\* counter added, so a dip adds nothing and a restart loses nothing; energy used is the trapezoid sum,
\* with the little that came before the first sample, when no interval was missed, and otherwise the
\* session's own ratio over the intervals that were counted, applied to the counter's net change;
\* and an AC session never used less than it stored, within the stated allowance.
TotalsAreMeasured ==
  LET added == ChargeEnergyAdded(running)
      used == ChargeEnergyUsed(running)
      sum(f(_), set) == FoldSet(LAMBDA i, t : t + f(i), 0, set)
      final == Max(Starts)
      net == sum(Rise, Starts \ {final}) + Last(Readings) - (IF final = 1 THEN Readings[1] ELSE 0)
      gained == sum(LAMBDA i : samples[i].counter - samples[i - 1].counter, CountedSteps)
      early == IF 2 \in Starts THEN Readings[2] ELSE Larger(Readings[2] - Readings[1], 0)
      known == samples # <<>> /\ Known(samples[1].counter) /\ early <= PreSampleMax
  IN  /\ added = IF Len(Readings) = 1 THEN Unknown ELSE sum(Rise, Starts)
      /\ Known(used) /\ added > 0 =>
           used = IF Powered = Intervals /\ Len(samples) > 1 /\ known
                  THEN sum(Trapezoid, Powered) + 2 * early
                  ELSE (net * sum(Trapezoid, CountedSteps)) \div gained
      /\ Known(used) /\ added <= 0 /\ Len(samples) > 1 =>
           Powered = Intervals /\ used = sum(Trapezoid, Powered)
      /\ Known(used) /\ KindOf(Len(samples)) = "ac" /\ added >= RatioMin => 20 * used >= 38 * added

\* What is read back from the stored samples does not depend on how it is read: the facts of the cost
\* rules are the first, the last two and the largest counter of the sorted samples whatever order the
\* rows come in (ChargeSampleFacts::observe), and the efficiency read page by page is the figure of the
\* whole session, or none when a row does not decode (read_session_efficiency, EfficiencyFold).
ReadingsAgree ==
  LET rows == {samples[i] : i \in 1..Len(samples)}
      n == Len(samples)
      facts == [first |-> IF n = 0 THEN NoKey ELSE <<samples[1].at, 1>>,
                previous |-> IF n < 2 THEN NoKey ELSE <<samples[n - 1].at, n - 1>>,
                last |-> IF n = 0 THEN NoKey ELSE <<samples[n].at, n>>,
                top |-> Max({Unknown} \cup {s.counter : s \in rows}),
                brands |-> {SampleBrand(s.brand) : s \in rows} \ {"none"}]
      window == {i \in 1..n : WindowPoint(samples[i]) # <<>>}
      a == Min(window)
      b == Max(window)
      steady == /\ \A i \in a..b : ~samples[i].heater
                /\ \A i, j \in window : i < j => samples[i].counter <= samples[j].counter
  IN  /\ \A order \in {p \in [1..n -> 1..n] : \A i, j \in 1..n : p[i] = p[j] => i = j} :
           FoldFacts([i \in 1..n |-> samples[order[i]]]) = facts
      /\ ReadSessionEfficiency(rows) =
           IF /\ \A s \in rows : ~s.torn
              /\ Cardinality(window) > 1
              /\ steady
              /\ samples[b].level - samples[a].level >= WindowSpan
              /\ samples[b].counter > samples[a].counter /\ samples[b].range > samples[a].range
           THEN <<samples[b].counter - samples[a].counter, samples[b].range - samples[a].range>> ELSE <<>>

\* Nothing that is computed sample by sample or page by page differs from what the whole list of
\* samples says: neither the energy totals nor the facts and the efficiency read back.
FiguresAreOfTheList == TotalsAreMeasured /\ ReadingsAgree
=============================================================================
