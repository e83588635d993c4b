------------------------------ MODULE ChargeBook ------------------------------
(***************************************************************************)
(* The closed charges of one vehicle and what is decided about them after  *)
(* the fold: the geofence that labels a row, the tariff copied from it,    *)
(* the cost, and the car's efficiency (src/storage/db and the cost rules   *)
(* of src/runtime/lifecycle/models.rs).  The owner edits fences, settings  *)
(* and costs while charges close, and an import brings fences of its own.  *)
(*                                                                         *)
(* Places lie on a line.  A session is what the lifecycle fold hands over  *)
(* when a charge closes: its energies, kind, times, start place and        *)
(* samples; `figure' is what read_session_efficiency makes of them.        *)
(***************************************************************************)
EXTENDS ChargeFigures

CONSTANTS BookSessions,   \* what the vehicle's charges may turn out to be: functions of the charge id
          FenceForms,     \* what the owner or an import may say of a fence
          FenceIds,       \* source_geofence_id
          NumCharges,     \* charges of the vehicle, closed in the order of their ids
          CostLimit,      \* COST_E2_LIMIT
          EffFigures,     \* K_EFF_MIN_FIGURES
          EffCandidates,  \* K_EFF_CANDIDATES
          MaxBookEdits    \* bound: edits by the owner and imports

VARIABLES session,    \* charge id -> the session it is
          importedTo, \* W(V): charges up to this id came from an import
          geofences,  \* geofences
          freeToUse,  \* car_settings.free_supercharging
          book,       \* materialised_charges: charge id -> <<row>> or <<>>
          trip,       \* materialised_drives: one closed drive, <<row>> or <<>>
          efficiency, \* materialised_cars.efficiency, <<>> while unknown
          priced,     \* ghost: how each charge came to its cost, and the cost the rules give
          relabelled, \* ghost: no import touched the fences since the last relabelling
          bookEdits

bookVars == <<session, importedTo, geofences, freeToUse, book, trip, efficiency, priced, relabelled, bookEdits>>

ChargeIds == 1..NumCharges

FromImport(c) == c <= importedTo

(***************************************************************************)
(* The one geofence rule, and a fence's tariff.                            *)
(***************************************************************************)
Around(f, place) == f.radius > 0 /\ Distant(f.at, place) <= f.radius

Nearer(all, i, j, place) ==
  LET key(k) == <<all[k].radius, Distant(all[k].at, place), k>>
  IN  \/ key(i)[1] < key(j)[1]
      \/ key(i)[1] = key(j)[1] /\ key(i)[2] < key(j)[2]
      \/ key(i)[1] = key(j)[1] /\ key(i)[2] = key(j)[2] /\ i < j

MatchGeofence(all, place) ==
  LET inside == {i \in DOMAIN all : Known(place) /\ Around(all[i], place)}
  IN  {i \in inside : \A j \in inside \ {i} : Nearer(all, i, j, place)}

LabelOf(all, place) == IF MatchGeofence(all, place) = {} THEN "" ELSE all[CHOOSE i \in MatchGeofence(all, place) : TRUE].name

NoTariff == [bill |-> "", rate |-> Unknown, fee |-> Unknown]

TariffOfFence(f) == IF f.bill # "" /\ Known(f.rate) THEN [bill |-> f.bill, rate |-> f.rate, fee |-> f.fee] ELSE NoTariff

WaiveFee(t) == [t EXCEPT !.fee = IF Known(@) THEN 0 ELSE @]

(***************************************************************************)
(* The cost of a closed charge.                                            *)
(***************************************************************************)
FreeSite(s, tesla) ==
  LET kind == FastChargerKind(s.type)
  IN  kind = "supercharger" \/ (s.kind = "dc" /\ tesla /\ kind = "other_dc")

BilledUnits(s, bill, observed) ==
  CASE bill = "kwh" -> IF s.kind = "dc" THEN s.added ELSE s.used
    [] bill = "minute" -> IF s.end >= s.start /\ observed THEN s.end - s.start ELSE Unknown

CalculateChargeCost(s, tariff, free, tesla, observed) ==
  IF free /\ FreeSite(s, tesla) THEN 0
  ELSE IF tariff.bill = "" \/ ~Known(tariff.rate) \/ ~Known(BilledUnits(s, tariff.bill, observed)) THEN Unknown
  ELSE LET cost == BilledUnits(s, tariff.bill, observed) * tariff.rate + Larger(tariff.fee, 0)
       IN  IF cost <= CostLimit THEN cost ELSE Unknown

PricedBy(s, tariff, f) ==
  CalculateChargeCost(s, tariff, freeToUse, BrandIsTesla(f), SpanObserved(s.start, s.end, f))

\* Mutant: a stored sample that the delta carries again is offered twice.
FoldChargeSamplesTwice(s, carried, stored) ==
  LET ids(set) == SelectSeq([i \in 1..Len(s.samples) |-> s.samples[i]], LAMBDA x : x.id \in set)
  IN  FoldFacts(ids(carried) \o ids(stored))

\* The facts of a charge whose delta carries the samples `carried' and whose other samples are
\* stored open rows: each sample is offered once, the delta's first.
FoldChargeSamples(s, carried, stored) ==
  LET ids(set) == SelectSeq([i \in 1..Len(s.samples) |-> s.samples[i]], LAMBDA x : x.id \in set)
  IN  FoldFacts(ids(carried) \o ids(stored \ carried))

SampleIds(s) == {s.samples[i].id : i \in 1..Len(s.samples)}

(***************************************************************************)
(* The car's efficiency: the median figure of its newest AC charges.       *)
(***************************************************************************)
Median(values) ==
  LET n == Len(values)
      sorted == SortSeq(values, <)
  IN  IF n % 2 = 1 THEN sorted[(n + 1) \div 2] ELSE (sorted[n \div 2] + sorted[n \div 2 + 1]) \div 2

RecomputeEfficiency(rows) ==
  LET newest == SelectSeq([i \in 1..NumCharges |-> NumCharges + 1 - i],
                          LAMBDA c : rows[c] # <<>> /\ ~FromImport(c) /\ session[c].kind = "ac")
      candidates == SubSeq(newest, 1, IF Len(newest) < EffCandidates THEN Len(newest) ELSE EffCandidates)
      figures == SelectSeq([i \in 1..Len(candidates) |-> session[candidates[i]].figure], LAMBDA f : f # <<>>)
      values == [i \in 1..Len(figures) |-> (1000 * figures[i][1]) \div figures[i][2]]
  IN  IF Len(values) < EffFigures THEN efficiency ELSE <<Median(values)>>

(***************************************************************************)
(* Every row of the vehicle is labelled again after the owner edits a      *)
(* fence; a row without coordinates keeps its label.                       *)
(***************************************************************************)
Relabel(all, row, place) == IF Known(place) THEN [row EXCEPT !.label = LabelOf(all, place)] ELSE row

RelabelLocations(all) ==
  /\ geofences' = all
  /\ book' = [c \in ChargeIds |-> IF book[c] = <<>> THEN <<>> ELSE <<Relabel(all, book[c][1], session[c].at)>>]
  /\ trip' = IF trip = <<>> THEN <<>> ELSE <<Relabel(all, trip[1], trip[1].at)>>
  /\ relabelled' = TRUE

BookEdit == bookEdits < MaxBookEdits /\ bookEdits' = bookEdits + 1

SaveGeofence(id, form) ==
  /\ BookEdit /\ form.bill # "" /\ form.radius > 0
  /\ RelabelLocations((id :> form) @@ geofences)
  /\ UNCHANGED <<session, importedTo, freeToUse, efficiency, priced>>

DeleteGeofence(id) ==
  /\ BookEdit /\ id \in DOMAIN geofences
  /\ RelabelLocations([i \in DOMAIN geofences \ {id} |-> geofences[i]])
  /\ UNCHANGED <<session, importedTo, freeToUse, efficiency, priced>>

\* An import brings geometry and name, and only the parts of a tariff it knows; it labels no row.
UpsertGeofence(id, form) ==
  LET old == IF id \in DOMAIN geofences THEN geofences[id] ELSE form
  IN  /\ BookEdit
      /\ geofences' = (id :> [form EXCEPT !.bill = IF @ = "" THEN old.bill ELSE @,
                                       !.rate = IF Known(@) THEN @ ELSE old.rate,
                                       !.fee = IF Known(@) THEN @ ELSE old.fee]) @@ geofences
      /\ relabelled' = FALSE
      /\ UNCHANGED <<session, importedTo, freeToUse, book, trip, efficiency, priced>>

ReplaceCarSettings ==
  /\ BookEdit /\ freeToUse' = ~freeToUse
  /\ UNCHANGED <<session, importedTo, geofences, book, trip, efficiency, priced, relabelled>>

(***************************************************************************)
(* What the rules give for a charge, said of its whole list of samples.    *)
(***************************************************************************)
RulePrice(c, all) ==
  LET s == session[c]
      rows == {s.samples[i] : i \in 1..Len(s.samples)}
      tesla == {SampleBrand(r.brand) : r \in rows} \ {"none"} = {"tesla"}
      later(r) == {o \in rows : Before(<<r.at, r.id>>, <<o.at, o.id>>)}
      observed == /\ \E r \in rows : r.at - s.start <= IntervalMax
                  /\ \A r \in rows : later(r) = {} => s.end - r.at <= IntervalMax
                  /\ \A r, o \in rows : later(o) = {} /\ later(r) = {o} => o.at - r.at <= IntervalMax
      again == Known(s.added) /\ \E r \in rows : r.counter > s.added
      here == MatchGeofence(all, s.at)
      tariff == IF here = {} THEN NoTariff ELSE TariffOfFence(all[CHOOSE i \in here : TRUE])
      units == IF tariff.bill = "" THEN Unknown ELSE BilledUnits(s, tariff.bill, observed \/ rows = {})
      cost == units * tariff.rate + (IF again THEN 0 ELSE Larger(tariff.fee, 0))
  IN  CASE freeToUse /\ FreeSite(s, tesla) -> [how |-> "free", cost |-> 0]
        [] ~(freeToUse /\ FreeSite(s, tesla)) /\ Known(units) /\ cost <= CostLimit -> [how |-> "rule", cost |-> cost]
        [] OTHER -> [how |-> "none", cost |-> Unknown]

BlankRow == [label |-> "", bill |-> "", rate |-> Unknown, fee |-> Unknown, cost |-> Unknown]

WithTariff(row, t) == [row EXCEPT !.bill = t.bill, !.rate = t.rate, !.fee = t.fee]

(***************************************************************************)
(* A charge closes; the commit may be repeated, and then every sample is   *)
(* carried by the delta.                                                   *)
(***************************************************************************)
ClosedRow(c, carried, stored) ==
  LET s == session[c]
      f == FoldChargeSamples(s, carried, stored)
      here == MatchGeofence(geofences, s.at)
      tariff == IF here = {} THEN NoTariff ELSE TariffOfFence(geofences[CHOOSE i \in here : TRUE])
      copied == IF ContinuesPlugIn(s.added, f) THEN WaiveFee(tariff) ELSE tariff
      fresh == WithTariff([BlankRow EXCEPT !.label = LabelOf(geofences, s.at)], copied)
      kept == IF book[c] = <<>> THEN BlankRow ELSE book[c][1]
  IN  IF Known(kept.cost) THEN [kept EXCEPT !.label = fresh.label]
      ELSE [fresh EXCEPT !.cost = PricedBy(s, copied, f)]

CloseCharge(c, carried, stored) ==
  /\ \A d \in 1..(c - 1) : book[d] # <<>>
  /\ book[c] = <<>> \/ carried = SampleIds(session[c])
  /\ \E row \in {ClosedRow(c, carried, stored)} : book' = [book EXCEPT ![c] = <<row>>]
  /\ \E figure \in {RecomputeEfficiency(book')} : efficiency' = figure
  /\ priced' = [priced EXCEPT ![c] = IF Known(@.cost) THEN @ ELSE RulePrice(c, geofences)]
  /\ UNCHANGED <<session, importedTo, geofences, freeToUse, trip, relabelled, bookEdits>>

CloseTrip(place) ==
  /\ trip = <<>>
  /\ trip' = <<[at |-> place, label |-> LabelOf(geofences, place)]>>
  /\ UNCHANGED <<session, importedTo, geofences, freeToUse, book, efficiency, priced, relabelled, bookEdits>>

\* The owner asks for the missing costs of one fence to be filled.
FilledRow(c, id) ==
  LET s == session[c]
      row == book[c][1]
      f == FoldChargeSamples(s, {}, SampleIds(s))
      tariff == TariffOfFence(geofences[id])
      copied == IF ContinuesPlugIn(s.added, f) THEN WaiveFee(tariff) ELSE tariff
      cost == PricedBy(s, copied, f)
  IN  IF Known(row.cost) \/ FromImport(c) \/ MatchGeofence(geofences, s.at) # {id} \/ ~Known(cost) THEN row
      ELSE [WithTariff(row, copied) EXCEPT !.cost = cost]

RecalculateMissingChargeCosts(id) ==
  /\ BookEdit /\ id \in DOMAIN geofences /\ TariffOfFence(geofences[id]) # NoTariff
  /\ book' = [c \in ChargeIds |-> IF book[c] = <<>> THEN <<>> ELSE <<FilledRow(c, id)>>]
  /\ priced' = [c \in ChargeIds |->
                  IF book[c] = <<>> \/ Known(priced[c].cost) \/ FromImport(c) \/ MatchGeofence(geofences, session[c].at) # {id}
                  THEN priced[c] ELSE RulePrice(c, geofences)]
  /\ UNCHANGED <<session, importedTo, geofences, freeToUse, trip, efficiency, relabelled>>

\* The owner enters a total, or a rate, which is then the complete price.
SetChargeTotal(c, total) ==
  /\ BookEdit /\ book[c] # <<>> /\ total <= CostLimit
  /\ book' = [book EXCEPT ![c][1].cost = total]
  /\ priced' = [priced EXCEPT ![c] = [how |-> "total", cost |-> total]]
  /\ UNCHANGED <<session, importedTo, geofences, freeToUse, trip, efficiency, relabelled>>

SetChargeRate(c, bill, rate) ==
  LET s == session[c]
      entered == [bill |-> bill, rate |-> rate, fee |-> Unknown]
      f == FoldChargeSamples(s, {}, SampleIds(s))
      cost == CalculateChargeCost(s, entered, FALSE, FALSE, bill = "kwh" \/ SpanObserved(s.start, s.end, f))
  IN  /\ BookEdit /\ book[c] # <<>> /\ Known(cost)
      /\ book' = [book EXCEPT ![c] = <<[WithTariff(@[1], entered) EXCEPT !.cost = cost]>>]
      /\ priced' = [priced EXCEPT ![c] = [how |-> "rule", cost |-> cost]]
      /\ UNCHANGED <<session, importedTo, geofences, freeToUse, trip, efficiency, relabelled>>

BookStart ==
  /\ importedTo = 0 /\ geofences = <<>> /\ freeToUse = FALSE
  /\ book = [c \in ChargeIds |-> <<>>] /\ trip = <<>> /\ efficiency = <<>>
  /\ priced = [c \in ChargeIds |-> [how |-> "none", cost |-> Unknown]]
  /\ relabelled = TRUE /\ bookEdits = 0

BookInit ==
  /\ session \in BookSessions
  /\ importedTo \in 0..1 /\ geofences \in {<<>>} \cup {1 :> form : form \in FenceForms} /\ freeToUse = FALSE
  /\ book = [c \in ChargeIds |-> <<>>] /\ trip = <<>> /\ efficiency = <<>>
  /\ priced = [c \in ChargeIds |-> [how |-> "none", cost |-> Unknown]]
  /\ relabelled = TRUE /\ bookEdits = 0

BookNext ==
  \/ \E id \in FenceIds : \/ DeleteGeofence(id) \/ RecalculateMissingChargeCosts(id)
                          \/ \E form \in FenceForms : SaveGeofence(id, form) \/ UpsertGeofence(id, form)
  \/ ReplaceCarSettings
  \/ \E c \in ChargeIds :
       \/ \E carried \in SUBSET SampleIds(session[c]) :
            \E stored \in {SampleIds(session[c]), SampleIds(session[c]) \ carried} : CloseCharge(c, carried, stored)
       \/ SetChargeTotal(c, 5)
       \/ \E bill \in {"kwh", "minute"} : SetChargeRate(c, bill, 2)
  \/ CloseTrip(1)

BookSpec == BookInit /\ [][BookNext]_bookVars

(***************************************************************************)
(* Properties                                                              *)
(***************************************************************************)
\* A known cost stands until the owner enters another one, and it is what the rules give over the whole
\* list of samples at the moment it was first known, whichever of the close, a repeated close and the
\* owner's request to fill missing costs found it (close_charges_in_transaction,
\* fill_missing_charge_costs_in_transaction); and unless the charge was free or the owner entered a
\* total, the row's own tariff copy explains its cost.
CostStands ==
  \A c \in ChargeIds : book[c] # <<>> =>
    LET row == book[c][1]
    IN  /\ row.cost = priced[c].cost
        /\ priced[c].how = "rule" =>
             row.cost = BilledUnits(session[c], row.bill, TRUE) * row.rate + Larger(row.fee, 0)

\* Once the owner has edited a fence, every row with a place carries the name of the fence the one rule
\* picks for it now, or no name, until an import brings fences (relabel_materialised_locations,
\* apply_geofence_labels): the smallest of the fences around it, then the nearest, then the oldest.
LabelsFollowFences ==
  LET right(row, place) ==
        \/ row.label = "" /\ \A i \in DOMAIN geofences : Distant(geofences[i].at, place) > geofences[i].radius
        \/ \E i \in DOMAIN geofences :
             /\ row.label = geofences[i].name /\ Distant(geofences[i].at, place) <= geofences[i].radius
             /\ \A j \in DOMAIN geofences : Distant(geofences[j].at, place) <= geofences[j].radius =>
                  \/ geofences[i].radius < geofences[j].radius
                  \/ /\ geofences[i].radius = geofences[j].radius
                     /\ Distant(geofences[i].at, place) <= Distant(geofences[j].at, place)
  IN  relabelled =>
        /\ \A c \in ChargeIds : book[c] # <<>> /\ Known(session[c].at) => right(book[c][1], session[c].at)
        /\ trip # <<>> /\ Known(trip[1].at) => right(trip[1], trip[1].at)

\* A row of the book is what the rules make of its session and of the fences: its cost and its label.
BookFollowsRules == CostStands /\ LabelsFollowFences
=============================================================================
