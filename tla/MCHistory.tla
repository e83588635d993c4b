------------------------------ MODULE MCHistory ------------------------------
(***************************************************************************)
(* The credential unit, and the components of the history that are checked *)
(* for safety only and share no state with it. A behaviour is one of the   *)
(* component `part' names, so that the state spaces add up; the others     *)
(* keep one initial state.                                                 *)
(***************************************************************************)
EXTENDS MCLegacyRefresh, Lifecycle, ChargeBook, Enrichment, TerrainTiles

CONSTANT Parts

VARIABLE part

(***************************************************************************)
(* What a charge sample may report, the charges of the book, its fences.   *)
(***************************************************************************)
PlainSample ==
  [counter |-> 0, power |-> 3, vi |-> 3, label |-> 1, present |-> "no", type |-> "", brand |-> "",
   level |-> 10, range |-> 20, heater |-> FALSE, torn |-> FALSE]

FigureForms ==
  { PlainSample,
    [PlainSample EXCEPT !.counter = 3, !.level = 30, !.range = 30, !.power = -1],
    [PlainSample EXCEPT !.counter = 8, !.level = 30, !.range = 40, !.power = 6, !.label = 3],
    [PlainSample EXCEPT !.counter = 7, !.power = 11, !.vi = 4, !.label = 2, !.present = "none", !.brand = "Tesla"],
    [PlainSample EXCEPT !.counter = -1, !.power = 60, !.type = "Combo", !.brand = "Ionity", !.level = 95],
    [PlainSample EXCEPT !.counter = 6, !.vi = -1, !.power = -1, !.heater = TRUE],
    [PlainSample EXCEPT !.counter = 2, !.type = "ACSingleWireCAN", !.power = 1, !.torn = TRUE] }

FirstSample == [PlainSample EXCEPT !.counter = 4] @@ [at |-> 0, id |-> 1]
SecondSample == [FirstSample EXCEPT !.id = 2, !.at = 1, !.counter = 7, !.level = 30, !.range = 26]

AcCharge ==
  [kind |-> "ac", figure |-> <<3, 6>>, type |-> "", added |-> 3, used |-> 4, start |-> 0, end |-> 2, at |-> 1,
   samples |-> <<FirstSample, SecondSample>>]
DcCharge ==
  [AcCharge EXCEPT !.figure = <<>>, !.kind = "dc", !.type = "Combo", !.used = -1, !.at = 2, !.end = 5,
     !.samples = <<[FirstSample EXCEPT !.brand = "Tesla", !.counter = 1],
                   [SecondSample EXCEPT !.at = 4, !.counter = 3],
                   [SecondSample EXCEPT !.id = 3, !.at = 3, !.counter = 2]>>]
PlacelessCharge ==
  [AcCharge EXCEPT !.at = -1, !.used = -1, !.samples = <<FirstSample, [SecondSample EXCEPT !.counter = 6]>>]
GappedCharge ==
  [AcCharge EXCEPT !.figure = <<3, 4>>, !.end = 3,
     !.samples = <<FirstSample, [SecondSample EXCEPT !.at = 3, !.counter = 3, !.range = 24]>>]

MCBookSessions == {<<AcCharge, DcCharge>>, <<GappedCharge, PlacelessCharge>>, <<DcCharge, GappedCharge>>}

HomeFence == [name |-> "home", at |-> 1, radius |-> 2, bill |-> "kwh", rate |-> 2, fee |-> 3]
MCFenceForms ==
  { HomeFence, [HomeFence EXCEPT !.name = "garage", !.at = 2, !.radius = 1, !.bill = "minute", !.fee = -1],
    [HomeFence EXCEPT !.name = "street", !.bill = "", !.rate = -1] }

(***************************************************************************)
(* Two drives over known ground.                                           *)
(***************************************************************************)
MCGround == <<5, 9, -1, 3>>
MCDriveOf == <<1, 1, 2, 2>>
MCDateOf == <<2, 1, 3, 4>>
MCPlaceOf == <<7, 7>>

HistoryInit ==
  /\ part \in Parts
  /\ Init /\ (part # "unit" => row = [gen |-> CHOOSE g \in Gens : TRUE, bound |-> FALSE, img |-> Import])
  /\ IF part = "lifecycle" THEN YInit ELSE outing = "road" /\ YStart
  /\ IF part = "figures" THEN UInit ELSE preset = 0 /\ UStart
  /\ IF part = "book" THEN BookInit ELSE session = <<AcCharge, DcCharge>> /\ BookStart
  /\ EInit /\ (part # "enrichment" => language = "en" /\ setup = {"terrain"})
  /\ TileInit

HistoryNext ==
  \/ part = "unit" /\ Next /\ UNCHANGED <<part, yvars, uvars, bookVars, evars, tileVars>>
  \/ part = "lifecycle" /\ YNext /\ UNCHANGED <<part, vars, uvars, bookVars, evars, tileVars>>
  \/ part = "figures" /\ UNext /\ UNCHANGED <<part, vars, yvars, bookVars, evars, tileVars>>
  \/ part = "book" /\ BookNext /\ UNCHANGED <<part, vars, yvars, uvars, evars, tileVars>>
  \/ part = "enrichment" /\ ENext /\ UNCHANGED <<part, vars, yvars, uvars, bookVars, tileVars>>
  \/ part = "tiles" /\ TileNext /\ UNCHANGED <<part, vars, yvars, uvars, bookVars, evars>>

HistorySpec == HistoryInit /\ [][HistoryNext]_<<part, vars, yvars, uvars, bookVars, evars, tileVars>>

=============================================================================
