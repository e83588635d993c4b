------------------------------ MODULE Lifecycle ------------------------------
(***************************************************************************)
(* The lifecycle projection: stored observations of one car are folded, in *)
(* the order of their ids, into an open-session document and into closed   *)
(* drives, charges, positions, state intervals and update rows             *)
(* (src/runtime/lifecycle), and the transaction that stores the result     *)
(* (storage/db).  The car itself is modelled beside it: it drives, parks,  *)
(* plugs in and charges, and the Hub only ever sees some of that, some of  *)
(* it late, from sources that carry different parts of it.                 *)
(*                                                                         *)
(* Times are ticks; a reading of the odometer is also the car's place; the *)
(* counter is Tesla's per-session energy counter.  Absent stands for an    *)
(* absent value, and lies below every reading.                             *)
(***************************************************************************)
EXTENDS Integers, Sequences, FiniteSets, FiniteSetsExt, SequencesExt

CONSTANTS GapTicks,     \* T_gap, the longest silence inside one session
          LeadCopies,   \* K_LEAD_CHECKPOINTS
          DMin,         \* K_DMIN_KM, the shortest drive that is kept
          DipSize,      \* K_COUNTER_DIP_KWH
          ParkTicks,    \* K_PARK_INTERVAL
          MaxSeen,      \* bound: observations stored
          Outings       \* which stories of the car are told: see Offers

VARIABLES blob,     \* vehicle_lifecycle_state: the open-session document
          queue,    \* raw observations after the cursor
          openRows, \* lifecycle_open_rows: children of the open drive
          rows,     \* the materialised history
          single,   \* ghost: the same fold, each observation committed alone
          car, was, \* the car now and one tick ago
          outing,  \* which story is told
          intake    \* current_observations, stream_watermarks, and how many were stored

yvars == <<blob, queue, openRows, rows, single, car, was, outing, intake>>

Absent == -1
OrElse(a, b) == IF a = Absent THEN b ELSE a
MaxOf(a, b) == IF a > b THEN a ELSE b

FactFamilies == {"motion", "position", "battery", "charge", "odometer", "status"}
VehicleData == {"full", "sparse", "stream"}

(***************************************************************************)
(* The open-session document.                                              *)
(***************************************************************************)
NewBlob ==
  [cursor |-> 0, marks |-> [f \in FactFamilies |-> Absent], seen |-> Absent, reach |-> "none",
   drive |-> <<>>, charge |-> <<>>, snap |-> <<>>, service |-> FALSE, refused |-> FALSE,
   version |-> Absent, versionAt |-> Absent, install |-> <<>>, interval |-> <<>>, phase |-> "unknown",
   stood |-> [at |-> Absent, place |-> Absent],
   imported |-> [drive |-> Absent, charge |-> Absent, state |-> Absent, open |-> 0],
   next |-> [drive |-> 1, position |-> 1, charge |-> 1, state |-> 1, update |-> 1]]

EmptyDrive(id, start) ==
  [id |-> id, start |-> start, first |-> Absent, last |-> Absent, coarse |-> FALSE, home |-> Absent,
   strayed |-> 0, folded |-> Absent, moved |-> Absent, stored |-> Absent, place |-> Absent,
   counter |-> Absent, level |-> Absent, still |-> <<>>, leads |-> <<>>, dropped |-> FALSE, folds |-> {}]

EmptyCharge(id, start) ==
  [id |-> id, start |-> start, sampled |-> Absent, base |-> Absent, top |-> Absent, counter |-> Absent,
   carry |-> 0, odometer |-> Absent, coarse |-> TRUE, level |-> Absent, place |-> Absent]

EmptyDelta == [drives |-> <<>>, gone |-> {}, positions |-> <<>>, children |-> <<>>,
               charges |-> <<>>, states |-> <<>>, updates |-> <<>>]

(***************************************************************************)
(* What one observation says.                                              *)
(***************************************************************************)
FactTime(o, f) == CASE f \in {"motion", "position"} -> o.driveAt
                    [] f \in {"battery", "charge"} -> o.chargeAt
                    [] OTHER -> o.vehicleAt

Mark(s, f) == CASE f = "position" -> OrElse(s.marks.position, s.marks.motion)
                [] f = "battery" -> OrElse(s.marks.battery, s.marks.charge)
                [] f = "odometer" -> OrElse(s.marks.odometer, s.marks.status)
                [] OTHER -> s.marks[f]

ImportGate(s, f) == CASE f \in {"motion", "position"} -> s.imported.drive
                      [] f = "charge" -> s.imported.charge
                      [] OTHER -> Absent

FreshFamilies(s, o) ==
  {f \in o.carries : FactTime(o, f) > ImportGate(s, f) /\ FactTime(o, f) > Mark(s, f)}

AcceptedReach(s, o, fresh) ==
  IF o.kind = "event" \/ o.at < s.seen \/ o.at <= s.imported.state THEN "none"
  ELSE IF o.kind \in VehicleData /\ fresh # {} THEN "online"
  ELSE o.envelope

ClassifyDrive(o, fresh) ==
  IF "motion" \notin fresh THEN "noinfo"
  ELSE CASE o.gear = "P" -> "park"
         [] o.gear = "D" -> "motion"
         [] o.gear \notin {"P", "D"} /\ o.speed > 0 -> "motion"
         [] o.gear = "null" /\ o.kind = "full" /\ o.speed = 0 -> "park"
         [] OTHER -> "noinfo"

ClassifyCharge(o, fresh) ==
  IF "charge" \notin fresh THEN "none"
  ELSE CASE o.charging = "Charging" -> "active"
         [] o.charging = "Stopped" -> "hold"
         [] o.charging = "Complete" -> "complete"
         [] o.charging = "Disconnected" -> "disconnected"
         [] OTHER -> "none"

Plugged(class) == class \in {"active", "hold", "complete"}

\* The evidence of one observation after conflicts between its groups are resolved.
ResolveConflicts(o, fresh, drive, charge) ==
  LET clash == drive = "motion" /\ Plugged(charge)
      kept == IF clash /\ o.driveAt < o.chargeAt THEN "noinfo" ELSE drive
      status == IF "status" \in fresh /\ o.kind \in VehicleData THEN o.update ELSE "noinfo"
  IN [drive |-> kept,
      charge |-> IF clash /\ o.driveAt >= o.chargeAt THEN "none" ELSE charge,
      status |-> IF status = "installing" /\ kept = "motion" THEN "noinfo" ELSE status]

Evidence(s, o) ==
  LET fresh == FreshFamilies(s, o)
  IN [fresh |-> fresh, reach |-> AcceptedReach(s, o, fresh)]
       @@ ResolveConflicts(o, fresh, ClassifyDrive(o, fresh), ClassifyCharge(o, fresh)) @@ o

(***************************************************************************)
(* Step 3: vehicle facts.  A step maps a pair of document and delta.       *)
(***************************************************************************)
ServiceMode(p, e) ==
  LET fresh == "status" \in e.fresh /\ e.kind \in VehicleData
      set(on, refused) == [p EXCEPT !.s.service = on, !.s.refused = refused]
  IN CASE e.event = "service_refused" -> set(TRUE, TRUE)
       [] fresh /\ e.service # "absent" -> set(e.service = "on", FALSE)
       [] fresh /\ e.service = "absent" /\ e.kind = "full" -> set(FALSE, FALSE)
       [] ~fresh /\ p.s.refused /\ e.kind = "full" /\ e.fresh # {} -> set(FALSE, FALSE)
       [] OTHER -> p

VersionFacts(p, e) ==
  LET s == p.s
      learn == [s EXCEPT !.version = e.version, !.versionAt = e.vehicleAt]
      id == IF s.install = <<>> THEN s.next.update ELSE s.install[1].id
      begun == IF s.install = <<>> THEN s.versionAt ELSE s.install[1].start
  IN IF e.kind # "full" \/ "status" \notin e.fresh \/ e.version = Absent \/ e.version < s.version THEN p
     ELSE IF s.version \in {Absent, e.version} THEN [p EXCEPT !.s = learn]
     ELSE [s |-> [learn EXCEPT !.install = <<>>, !.next.update = IF s.install = <<>> THEN id + 1 ELSE @],
           d |-> [p.d EXCEPT !.updates = Append(@, [id |-> id, start |-> Min({begun, e.vehicleAt}),
                                                    end |-> e.vehicleAt, version |-> e.version])]]

(***************************************************************************)
(* Drives: the fold of a point, the checkpoints, the close.                *)
(***************************************************************************)
DrivePoint(e) ==
  LET of(f, v) == IF f \in e.fresh THEN v ELSE Absent
  IN [t |-> e.driveAt, n |-> e.id, place |-> of("position", e.place), odometer |-> of("odometer", e.odometer),
      coarse |-> e.kind # "full", counter |-> of("charge", e.counter), level |-> of("battery", e.level),
      evidence |-> e.drive]

\* position_from_sample: a row of its own, under a drive or (0) standing alone.
PositionFromSample(id, drive, e) == [id |-> id, drive |-> drive, t |-> e.driveAt, place |-> e.place]

LastFolded(d) == OrElse(d.folded, OrElse(d.stored, d.start))
LastMotion(d) == OrElse(d.moved, OrElse(d.stored, d.start))
DetachedCopy(d) == [d EXCEPT !.still = <<>>, !.leads = <<>>]

\* A motion fact ends a standstill; the first point without drive information keeps a copy of it.
TrackStill(f, pt, trackStill) ==
  CASE pt.evidence = "motion" -> [f EXCEPT !.moved = pt.t, !.still = <<>>]
    [] pt.evidence = "noinfo" /\ trackStill /\ f.still = <<>> -> [f EXCEPT !.still = <<DetachedCopy(f)>>]
    [] OTHER -> f

FoldDrivePoint(d, pt, emitted, trackStill) ==
  LET home == OrElse(d.home, pt.place)
      first == OrElse(d.first, pt.odometer)
  IN TrackStill([d EXCEPT !.folded = MaxOf(@, pt.t),
                          !.stored = IF emitted THEN pt.t ELSE @,
                          !.place = IF emitted THEN pt.place ELSE @,
                          !.home = home,
                          !.strayed = IF pt.place = Absent THEN @ ELSE Max({@, pt.place - home, home - pt.place}),
                          !.first = first,
                          !.last = IF pt.odometer = Absent THEN @ ELSE Max({@, pt.odometer, first}),
                          !.coarse = @ \/ (pt.odometer # Absent /\ pt.coarse),
                          !.counter = OrElse(pt.counter, @),
                          !.level = OrElse(pt.level, @),
                          !.folds = @ \union {[t |-> pt.t, n |-> pt.n]}],
                pt, trackStill)

\* The copies a fold keeps: a fresh motion fact drops the cuts it passes, a position ahead of the
\* motion facts adds a copy of the drive as it stood.
LeadCheckpoints(d, e, lead) ==
  LET t == e.driveAt
      ahead == IF "motion" \in e.fresh THEN SelectSeq(d.leads, LAMBDA l : l.cut > t) ELSE d.leads
      room == IF lead /\ Len(ahead) >= LeadCopies THEN Tail(ahead) ELSE ahead
  IN IF ~lead THEN ahead
     ELSE SelectSeq(room, LAMBDA l : l.cut <= t) \o <<[cut |-> t, drive |-> DetachedCopy(d)]>>
            \o SelectSeq(room, LAMBDA l : l.cut > t)

\* The copies cut after the point fold it too.
FoldIntoLeads(leads, pt) ==
  [i \in DOMAIN leads |->
     IF leads[i].cut > pt.t THEN [leads[i] EXCEPT !.drive = FoldDrivePoint(@, pt, FALSE, FALSE)] ELSE leads[i]]

FoldIntoOpenDrive(s, e) ==
  LET d == s.drive[1]
      t == e.driveAt
      pt == DrivePoint(e)
      stores == "position" \in e.fresh /\ t > d.stored
      lead == "position" \in e.fresh /\ "motion" \notin e.fresh /\ t > s.marks.motion
      folded == [FoldDrivePoint([d EXCEPT !.leads = <<>>], pt, stores, TRUE) EXCEPT
                   !.leads = FoldIntoLeads(LeadCheckpoints(d, e, lead), pt),
                   !.dropped = @ \/ (lead /\ Len(d.leads) >= LeadCopies)]
  IN [s |-> [s EXCEPT !.drive = <<folded>>, !.next.position = IF stores THEN @ + 1 ELSE @],
      row |-> IF stores THEN <<PositionFromSample(s.next.position, d.id, e)>> ELSE <<>>]

SnapshotAfterDrive(d) ==
  [at |-> LastFolded(d), seen |-> LastFolded(d), level |-> d.level, odometer |-> d.last, coarse |-> d.coarse,
   place |-> OrElse(d.place, d.home), counter |-> d.counter, afterDrive |-> TRUE, unplugged |-> FALSE]

EndSourceOpen(d, loe, end) == IF loe /\ d.still # <<>> THEN d.still[1] ELSE d

\* The drive the row is made of: the still copy for a close without evidence, the first copy cut
\* after an explicit end, else the open drive.
EndSource(d, loe, end) ==
  LET above == SelectSeq(d.leads, LAMBDA l : l.cut > end)
  IN CASE loe /\ d.still # <<>> -> d.still[1]
       [] ~loe /\ above # <<>> -> above[1].drive
       [] OTHER -> d

Distance(d) == IF d.first = Absent \/ d.last = Absent THEN Absent ELSE MaxOf(d.last - d.first, 0)

FinalizeDrive(src, end) ==
  [id |-> src.id, start |-> src.start, end |-> Max({end, LastFolded(src), src.start}),
   distance |-> Distance(src), folds |-> src.folds]

KeptDrive(src, imported) ==
  \/ imported
  \/ Distance(src) >= DMin
  \/ (Distance(src) = Absent \/ src.coarse) /\ src.strayed >= DMin

RecordDriveCloseReferences(s, d) ==
  [s EXCEPT !.stood = IF d.stored # Absent THEN [at |-> d.stored, place |-> d.place] ELSE @,
            !.snap = <<SnapshotAfterDrive(d)>>]

CloseOpenDrive(p, loe, closing, end) ==
  LET d == p.s.drive[1]
      src == EndSource(d, loe, end)
      row == FinalizeDrive(src, end) @@ [facts |-> d.folds, asked |-> IF loe \/ d.dropped THEN Absent ELSE end]
      s == RecordDriveCloseReferences([p.s EXCEPT !.drive = <<>>], d)
  IN IF KeptDrive(src, d.id = p.s.imported.open)
     THEN [s |-> s, d |-> [p.d EXCEPT !.drives = Append(@, row), !.children = @ \o closing]]
     ELSE [s |-> s, d |-> [p.d EXCEPT !.gone = @ \union {d.id},
                             !.positions = @ \o [i \in DOMAIN closing |-> [closing[i] EXCEPT !.drive = 0]]]]

DriveFacts(e) == e.fresh \cap {"motion", "position"} # {}

CloseAtFold(p, f, end) == CloseOpenDrive([p EXCEPT !.s = f.s], FALSE, f.row, end)

DriveCloseStep(p, e) ==
  LET d == p.s.drive[1]
      loe == \/ e.reach = "asleep"
             \/ p.s.service
             \/ (IF DriveFacts(e) THEN e.driveAt ELSE e.at) - LastFolded(d) > GapTicks
             \/ e.event = "no_data"
             \/ DriveFacts(e) /\ e.drive = "noinfo" /\ e.driveAt - LastMotion(d) > GapTicks
      endsHere == "motion" \in e.fresh \/ ("position" \in e.fresh /\ e.driveAt >= LastFolded(d))
  IN IF p.s.drive = <<>> \/ (~loe /\ e.drive # "park" /\ ~Plugged(e.charge)) THEN p
     ELSE IF loe \/ ~endsHere THEN CloseOpenDrive(p, TRUE, <<>>, Absent)
     ELSE CloseAtFold(p, FoldIntoOpenDrive(p.s, e), e.driveAt)

DriveOpenStep(p, e) ==
  LET s == p.s
      closed == {r.end : r \in ToSet(p.d.drives) \union ToSet(p.d.charges)}
      snap == s.snap[1]
      new == EmptyDrive(s.next.drive, Max(closed \union {e.driveAt}))
      led == [new EXCEPT !.first = snap.odometer, !.last = snap.odometer,
                         !.coarse = snap.odometer # Absent /\ snap.coarse, !.home = snap.place]
  IN IF e.drive # "motion" \/ s.drive # <<>> \/ s.service THEN p
     ELSE [p EXCEPT !.s.drive = <<IF s.snap # <<>> /\ e.driveAt - snap.seen <= GapTicks THEN led ELSE new>>,
                    !.s.snap = <<>>, !.s.next.drive = @ + 1]

KeepFold(p, f) == [s |-> f.s, d |-> [p.d EXCEPT !.children = @ \o f.row]]

DriveFoldStep(p, e) ==
  IF p.s.drive = <<>> \/ ~DriveFacts(e) THEN p ELSE KeepFold(p, FoldIntoOpenDrive(p.s, e))

(***************************************************************************)
(* Charges: the counter, the baseline, the samples, the close.             *)
(***************************************************************************)
CounterRestarted(previous, now) == previous - now > DipSize

Movement(earlier, later) ==
  IF Absent \in {earlier, later} THEN "unknown" ELSE IF later - earlier >= DMin THEN "moved" ELSE "unmoved"

AnchorsSample(s, e) ==
  /\ "charge" \in e.fresh /\ (e.charging # "absent" \/ e.counter # Absent)
  /\ e.chargeAt > s.imported.charge
  /\ s.charge = <<>> \/ e.chargeAt > s.charge[1].sampled

LastEvidence(c) == MaxOf(OrElse(c.sampled, c.start), c.start)

ContinuesAcrossGap(c, e) ==
  /\ e.charge # "none"
  /\ Absent \notin {e.counter, c.counter} /\ ~CounterRestarted(c.counter, e.counter)
  /\ Movement(c.odometer, e.odometer) = "unmoved"

EnergyAdded(c) == IF c.top = Absent THEN Absent ELSE c.carry + (c.top - c.base)

SnapshotAfterCharge(c, end, unplugged) ==
  [at |-> end, seen |-> end, level |-> c.level, odometer |-> c.odometer, coarse |-> c.coarse,
   place |-> c.place, counter |-> c.counter, afterDrive |-> FALSE, unplugged |-> unplugged]

FinalizeCharge(c, end) == [id |-> c.id, start |-> c.start, end |-> end, added |-> EnergyAdded(c)]

CloseOpenCharge(p, at, unplugged) ==
  LET c == p.s.charge[1]
      end == MaxOf(at, c.start)
  IN [s |-> [p.s EXCEPT !.charge = <<>>, !.snap = <<SnapshotAfterCharge(c, end, unplugged)>>],
      d |-> [p.d EXCEPT !.charges = Append(@, FinalizeCharge(c, end))]]

ChargeCloseStep(p, e) ==
  LET c == p.s.charge[1]
      lost == e.reach = "asleep" \/ p.s.service \/ e.drive = "motion"
      fell == Absent \notin {e.counter, c.counter} /\ CounterRestarted(c.counter, e.counter)
      gap == e.chargeAt - LastEvidence(c) > GapTicks
      broken == AnchorsSample(p.s, e) /\ (fell \/ (gap /\ ~ContinuesAcrossGap(c, e)))
  IN IF p.s.charge # <<>> /\ (lost \/ broken) THEN CloseOpenCharge(p, LastEvidence(c), FALSE) ELSE p

EnergyBaselineZero(s, e) == 0

\* The counter value from which a charge that opens now counts.
EnergyBaseline(s, e) ==
  LET snap == s.snap[1]
      fresh == \/ e.counter # Absent /\ CounterRestarted(snap.counter, e.counter)
               \/ snap.afterDrive
               \/ snap.unplugged
               \/ Movement(snap.odometer, e.odometer) = "moved"
  IN IF s.snap = <<>> \/ snap.counter = Absent \/ fresh THEN 0 ELSE snap.counter

\* A held or ended charge nobody saw: the counter rose or restarted, and the battery is fuller.
AfterGapCharge(s, e) ==
  LET snap == s.snap[1]
      fits == \/ e.charge \in {"hold", "complete"}
              \/ e.charge = "disconnected" /\ Movement(snap.odometer, e.odometer) = "unmoved"
      new == \/ CounterRestarted(e.counter, snap.counter)
             \/ CounterRestarted(snap.counter, e.counter)
  IN /\ s.snap # <<>> /\ snap.at # Absent /\ snap.counter # Absent
     /\ fits /\ e.counter > 0 /\ new
     /\ Absent \notin {e.level, snap.level} /\ e.level > snap.level

ChargeOpenStep(p, e) ==
  LET s == p.s
      closed == {r.end : r \in ToSet(p.d.drives) \union ToSet(p.d.charges)}
      unmoved == s.snap # <<>> /\ Movement(s.snap[1].odometer, e.odometer) = "unmoved"
      start == IF e.charge = "active" THEN e.chargeAt ELSE Min({s.snap[1].at, e.chargeAt})
      new == [EmptyCharge(s.next.charge, Max(closed \union {start})) EXCEPT
                !.base = EnergyBaseline(s, e), !.odometer = e.odometer, !.coarse = e.kind # "full",
                !.place = IF e.place # Absent THEN e.place ELSE IF unmoved THEN s.snap[1].place ELSE Absent]
  IN IF \/ s.charge # <<>> \/ s.drive # <<>> \/ s.service \/ ~AnchorsSample(s, e)
        \/ e.charge = "none" \/ (e.charge # "active" /\ ~AfterGapCharge(s, e))
     THEN p ELSE [p EXCEPT !.s.charge = <<new>>, !.s.next.charge = @ + 1]

FoldEnergyCounter(c, n) ==
  LET started == CounterRestarted(OrElse(c.counter, c.top), n)
      f == CASE c.top = Absent /\ CounterRestarted(c.base, n) -> [c EXCEPT !.base = 0, !.top = n]
             [] c.top = Absent /\ ~CounterRestarted(c.base, n) -> [c EXCEPT !.top = MaxOf(c.base, n)]
             [] c.top # Absent /\ n >= c.top -> [c EXCEPT !.top = n]
             [] c.top # Absent /\ n < c.top /\ started ->
                  [c EXCEPT !.carry = @ + (c.top - c.base), !.base = 0, !.top = n]
             [] OTHER -> c
  IN [f EXCEPT !.counter = n]

ObserveChargeSample(c, e) ==
  LET counted == IF e.counter # Absent THEN FoldEnergyCounter(c, e.counter) ELSE c
  IN [counted EXCEPT !.sampled = e.chargeAt, !.level = OrElse(e.level, @)]

ChargeSampleStep(p, e) ==
  LET c == p.s.charge[1]
      anchors == AnchorsSample(p.s, e)
      sampled == IF anchors THEN ObserveChargeSample(c, e) ELSE c
      read == IF "odometer" \in e.fresh THEN [sampled EXCEPT !.odometer = e.odometer, !.coarse = e.kind # "full"]
                                        ELSE sampled
      q == [p EXCEPT !.s.charge = <<read>>]
  IN IF p.s.charge = <<>> THEN p
     ELSE IF anchors /\ e.charge \in {"complete", "disconnected"}
          THEN CloseOpenCharge(q, e.chargeAt, e.charge = "disconnected")
     ELSE q

(***************************************************************************)
(* Updates, parked values, phase, state interval, watermarks.              *)
(***************************************************************************)
UpdateStatus(p, e) ==
  LET s == p.s
  IN CASE e.drive = "motion" /\ s.install # <<>> -> [p EXCEPT !.s.install = <<>>]
       [] e.drive # "motion" /\ e.status = "installing" /\ s.install = <<>> /\ s.drive = <<>> ->
            [p EXCEPT !.s.install = <<[id |-> s.next.update, start |-> e.vehicleAt]>>, !.s.next.update = @ + 1]
       [] e.status = "idle" -> [p EXCEPT !.s.install = <<>>]
       [] OTHER -> p

StandalonePositionStep(p, e) ==
  LET s == p.s
      t == e.driveAt
      due == \/ s.stood.at = Absent \/ t - s.stood.at >= ParkTicks
             \/ s.stood.place # Absent /\ (e.place - s.stood.place >= DMin \/ s.stood.place - e.place >= DMin)
             \/ s.service /\ e.drive = "motion"
  IN IF s.drive # <<>> \/ "position" \notin e.fresh \/ t <= s.stood.at \/ t <= s.imported.drive \/ ~due THEN p
     ELSE [s |-> [s EXCEPT !.stood = [at |-> t, place |-> e.place], !.next.position = @ + 1],
           d |-> [p.d EXCEPT !.positions = Append(@, PositionFromSample(s.next.position, 0, e))]]

ParkedSnapshotStep(p, e) ==
  LET s == p.s
      told == e.fresh \cap {"battery", "charge", "odometer", "position"}
      anchors == "charge" \in e.fresh /\ (e.charging # "absent" \/ e.counter # Absent)
      old == IF s.snap # <<>> THEN s.snap[1]
             ELSE [at |-> Absent, seen |-> Absent, level |-> Absent, odometer |-> Absent, coarse |-> FALSE,
                   place |-> Absent, counter |-> Absent, afterDrive |-> FALSE, unplugged |-> FALSE]
      new == [old EXCEPT
                !.seen = Max({@} \union {FactTime(e, f) : f \in told}),
                !.level = IF "battery" \in e.fresh THEN OrElse(e.level, @) ELSE @,
                !.odometer = IF "odometer" \in e.fresh THEN e.odometer ELSE @,
                !.coarse = IF "odometer" \in e.fresh THEN e.kind # "full" ELSE @,
                !.place = IF "position" \in e.fresh THEN e.place ELSE @,
                !.counter = IF "charge" \in e.fresh THEN OrElse(e.counter, @) ELSE @,
                !.unplugged = @ \/ e.charge = "disconnected",
                !.at = IF anchors THEN MaxOf(@, e.chargeAt) ELSE @]
  IN IF s.drive # <<>> \/ s.charge # <<>> \/ told = {} THEN p ELSE [p EXCEPT !.s.snap = <<new>>]

DerivePhase(s, e) ==
  LET reach == IF e.reach # "none" THEN e.reach ELSE s.reach
  IN CASE reach \in {"asleep", "offline"} -> reach
       [] reach \notin {"asleep", "offline"} /\ s.drive # <<>> -> "driving"
       [] reach \notin {"asleep", "offline"} /\ s.drive = <<>> /\ s.install # <<>> -> "updating"
       [] reach \notin {"asleep", "offline"} /\ s.drive = <<>> /\ s.install = <<>> /\ s.charge # <<>> -> "charging"
       [] OTHER -> IF reach = "online" THEN "online" ELSE s.phase

LogicalState(phase) == IF phase \in {"asleep", "offline", "unknown"} THEN phase ELSE "online"

StateInterval(p, e) ==
  LET s == p.s
      target == LogicalState(s.phase)
      open == s.interval[1]
      new == [id |-> s.next.state, state |-> target, start |-> e.at, end |-> Absent]
      ended == IF s.interval = <<>> THEN <<>> ELSE <<[open EXCEPT !.end = MaxOf(e.at, open.start)]>>
  IN IF e.reach = "none" \/ target = "unknown" \/ (s.interval # <<>> /\ open.state = target) THEN p
     ELSE [s |-> [s EXCEPT !.interval = <<new>>, !.next.state = @ + 1],
           d |-> [p.d EXCEPT !.states = @ \o ended \o <<new>>]]

AdvanceWatermarks(s, e) ==
  [s EXCEPT !.marks = [f \in FactFamilies |-> IF f \in e.fresh THEN MaxOf(Mark(s, f), FactTime(e, f)) ELSE @[f]],
            !.seen = IF e.kind = "event" THEN @ ELSE MaxOf(@, e.at),
            !.reach = IF e.reach = "none" THEN @ ELSE e.reach,
            !.cursor = e.id]

(***************************************************************************)
(* One observation, in the order of the code: closes before opens.         *)
(***************************************************************************)
PhaseStep(p, e) == StateInterval([p EXCEPT !.s.phase = DerivePhase(p.s, e)], e)
WatermarkStep(p, e) == [p EXCEPT !.s = AdvanceWatermarks(p.s, e)]
FactStep(p, e) == VersionFacts(ServiceMode(p, e), e)
CloseStep(p, e) == ChargeCloseStep(DriveCloseStep(p, e), e)
OpenStep(p, e) == ChargeOpenStep(DriveOpenStep(UpdateStatus(p, e), e), e)
FoldStep(p, e) == ChargeSampleStep(DriveFoldStep(p, e), e)
ParkStep(p, e) == ParkedSnapshotStep(StandalonePositionStep(p, e), e)

ApplySteps(s, e) ==
  WatermarkStep(PhaseStep(ParkStep(FoldStep(OpenStep(CloseStep(FactStep([s |-> s, d |-> EmptyDelta], e), e), e), e), e), e), e)

ApplySample(s, o) ==
  CASE o.id <= s.cursor -> [s |-> s, d |-> EmptyDelta]
    [] o.id > s.cursor /\ (o.kind \in {"broken", "unknown"} \/ o.event = "other") ->
         [s |-> [s EXCEPT !.cursor = o.id], d |-> EmptyDelta]
    [] OTHER -> ApplySteps(s, Evidence(s, o))

MergeLastDiscard(total, step) ==
  LET all == total.children \o step.children
      ends == ToSet(step.drives)
      leaves(r) == r.drive \in step.gone \/ \E d \in ends : d.id = r.drive /\ r.t > d.end
      moved == SelectSeq(all, leaves)
  IN [drives |-> total.drives \o step.drives, gone |-> step.gone,
      positions |-> total.positions \o [i \in DOMAIN moved |-> [moved[i] EXCEPT !.drive = 0]] \o step.positions,
      children |-> SelectSeq(all, LAMBDA r : ~leaves(r)),
      charges |-> total.charges \o step.charges, states |-> total.states \o step.states,
      updates |-> total.updates \o step.updates]

MergeStepDelta(total, step) ==
  LET all == total.children \o step.children
      ends == ToSet(step.drives)
      leaves(r) == r.drive \in step.gone \/ \E d \in ends : d.id = r.drive /\ r.t > d.end
      moved == SelectSeq(all, leaves)
  IN [drives |-> total.drives \o step.drives, gone |-> total.gone \union step.gone,
      positions |-> total.positions \o [i \in DOMAIN moved |-> [moved[i] EXCEPT !.drive = 0]] \o step.positions,
      children |-> SelectSeq(all, LAMBDA r : ~leaves(r)),
      charges |-> total.charges \o step.charges, states |-> total.states \o step.states,
      updates |-> total.updates \o step.updates]

MergeStep(total, step) == [s |-> step.s, d |-> MergeStepDelta(total, step.d)]

Fold(s, observations) ==
  LET after[n \in 0 .. Len(observations)] ==
        IF n = 0 THEN [s |-> s, d |-> EmptyDelta]
        ELSE MergeStep(after[n - 1].d, ApplySample(after[n - 1].s, observations[n]))
  IN after[Len(observations)]

(***************************************************************************)
(* The commit: one transaction stores the document, the closed rows and    *)
(* the children of what closed, and prunes what was folded.                *)
(***************************************************************************)
EmptyRows == [drives |-> {}, positions |-> {}, charges |-> {}, states |-> {}, updates |-> {}]

Upsert(table, written) ==
  {r \in table : \A w \in ToSet(written) : w.id # r.id}
    \union {written[i] : i \in {j \in DOMAIN written : \A k \in DOMAIN written : k > j => written[k].id # written[j].id}}

\* Children of a closed drive are materialised under it up to its end; later ones, and those of a
\* discarded drive, stand alone.
PlacedChildren(open, d) ==
  LET end(id) == CHOOSE e \in {r.end : r \in {q \in ToSet(d.drives) : q.id = id}} : TRUE
      closed == {r.id : r \in ToSet(d.drives)}
  IN {IF r.drive \in d.gone \/ r.t > end(r.drive) THEN [r EXCEPT !.drive = 0] ELSE r :
        r \in {q \in open : q.drive \in closed \union d.gone}}

Commit(stored, open, p) ==
  LET d == p.d
      children == open \union ToSet(d.children)
      left == {r \in children : r.drive \notin d.gone \union {q.id : q \in ToSet(d.drives)}}
  IN [s |-> p.s, open |-> left,
      rows |-> [drives |-> Upsert(stored.drives, d.drives),
                positions |-> stored.positions \union ToSet(d.positions) \union PlacedChildren(children, d),
                charges |-> Upsert(stored.charges, d.charges),
                states |-> Upsert(stored.states, d.states),
                updates |-> Upsert(stored.updates, d.updates)]]

(***************************************************************************)
(* Intake.                                                                 *)
(***************************************************************************)
RecordTypes == {"vehicle", "stream", "discovery"}
RecordType(o) == IF o.kind \in {"full", "sparse", "broken"} THEN "vehicle" ELSE o.kind

NextObservationId ==
  1 + Max({blob.cursor} \union {o.id : o \in ToSet(queue)}
            \union {o.id : o \in UNION {ToSet(intake.current[t]) : t \in RecordTypes}})

SameContent(o, q) == [q EXCEPT !.id = o.id] = o

\* append_observation_in_transaction: a record type keeps its newest observation, and the same
\* content is not stored twice.
Appends(o) ==
  /\ RecordType(o) \in RecordTypes =>
       \A q \in ToSet(intake.current[RecordType(o)]) : q.at < o.at \/ (q.at = o.at /\ ~SameContent(o, q))
  /\ \A q \in ToSet(queue) : ~SameContent(o, q)

StreamTimestampIsNewer(o) == o.at > intake.streamMark

Stored(o) ==
  [intake EXCEPT !.seen = @ + 1,
                 !.current = IF RecordType(o) \in RecordTypes THEN [@ EXCEPT ![RecordType(o)] = <<o>>] ELSE @]

\* Ghost: the same observation folded and committed by itself, and whether a motion fact came in
\* that is older than the newest charge fact.
FoldedAlone(o) ==
  \E c \in {Commit(single.rows, single.open, Fold(single.s, <<o>>))} :
     single' = c @@ [late |-> single.late \/ ("motion" \in o.carries /\ o.driveAt < single.s.marks.charge)]

Materialised(observations) ==
  \E c \in {Commit(rows, openRows, Fold(blob, observations))} :
     blob' = c.s /\ rows' = c.rows /\ openRows' = c.open /\ queue' = <<>>

\* Append and fold in one transaction: the Owner and Fleet pollers, and the telemetry receiver.
AcceptOwner(o) ==
  LET n == [o EXCEPT !.id = NextObservationId]
  IN /\ intake.seen < MaxSeen /\ o.kind # "stream" /\ Appends(o)
     /\ Materialised(Append(queue, n))
     /\ intake' = Stored(n) /\ FoldedAlone(n)
     /\ UNCHANGED <<car, was, outing>>

\* The same for a stream frame, which moves the stream's own watermark.
AcceptStream(o) ==
  LET n == [o EXCEPT !.id = NextObservationId]
  IN /\ intake.seen < MaxSeen /\ o.kind = "stream" /\ StreamTimestampIsNewer(o) /\ Appends(o)
     /\ Materialised(Append(queue, n))
     /\ intake' = [Stored(n) EXCEPT !.streamMark = o.at] /\ FoldedAlone(n)
     /\ UNCHANGED <<car, was, outing>>

\* append_observation: the fold is left to a later materialisation.
AppendOnly(o) ==
  LET n == [o EXCEPT !.id = NextObservationId]
  IN /\ intake.seen < MaxSeen /\ o.kind # "stream" /\ Appends(o)
     /\ queue' = Append(queue, n)
     /\ intake' = Stored(n) /\ FoldedAlone(n)
     /\ UNCHANGED <<blob, rows, openRows, car, was, outing>>

Materialise ==
  /\ queue # <<>> /\ Materialised(queue)
  /\ UNCHANGED <<single, intake, car, was, outing>>

(***************************************************************************)
(* The car, and what each source says of it.                               *)
(***************************************************************************)
NewCar == [time |-> 1, gear |-> "P", speed |-> 0, odometer |-> 0, plug |-> "Disconnected",
           counter |-> 0, sent |-> 0, version |-> 1, install |-> "idle", service |-> "off"]

Move(c, m) ==
  CASE m = "drive" -> [c EXCEPT !.gear = "D", !.speed = 1, !.odometer = @ + 1]
    [] m = "halt" -> [c EXCEPT !.gear = "D", !.speed = 0]
    [] m = "park" -> [c EXCEPT !.gear = "P", !.speed = 0]
    [] m = "plug" -> [c EXCEPT !.plug = "Charging", !.counter = 0]
    [] m = "charge" -> [c EXCEPT !.plug = "Charging", !.counter = @ + 2, !.sent = @ + 2]
    [] m \in {"Stopped", "Complete", "Disconnected"} -> [c EXCEPT !.plug = m]
    [] m = "install" -> [c EXCEPT !.install = "installing"]
    [] m = "updated" -> [c EXCEPT !.install = "idle", !.version = @ + 1]
    [] m = "service" -> [c EXCEPT !.service = "on"]
    [] m = "served" -> [c EXCEPT !.service = "off"]
    [] OTHER -> c

\* What the car does tick by tick in each story.
Plan ==
  [road |-> <<"drive", "drive", "halt", "park", "stay">>,
   imported |-> <<"drive", "halt", "park", "stay", "drive">>,
   topup |-> <<"plug", "charge", "Complete", "charge", "Disconnected", "drive">>,
   replug |-> <<"charge", "Stopped", "Disconnected", "drive", "park", "plug", "charge">>,
   upkeep |-> <<"install", "updated", "service", "drive", "park", "served">>]

\* One observation of the given kind: which families it carries, and the car as each group saw it.
AnyFrame(kind, carries, drive, charge, vehicle) ==
  [id |-> 0, kind |-> kind, carries |-> carries, at |-> Max({drive.time, charge.time, vehicle.time}),
   driveAt |-> drive.time, chargeAt |-> charge.time, vehicleAt |-> vehicle.time,
   gear |-> IF "motion" \in carries THEN drive.gear ELSE "absent", speed |-> drive.speed,
   place |-> IF "position" \in carries THEN drive.odometer ELSE Absent,
   odometer |-> IF "odometer" \in carries THEN vehicle.odometer ELSE Absent,
   charging |-> IF "charge" \in carries THEN charge.plug ELSE "absent",
   counter |-> IF "charge" \in carries THEN charge.counter ELSE Absent,
   level |-> IF "battery" \in carries THEN 10 + charge.sent - charge.odometer ELSE Absent,
   envelope |-> "online", event |-> "none", service |-> IF kind = "full" THEN vehicle.service ELSE "absent",
   version |-> IF kind = "full" THEN vehicle.version ELSE Absent,
   update |-> IF "status" \in carries THEN vehicle.install ELSE "noinfo"]

FullFrame(d, c, v) == AnyFrame("full", FactFamilies, d, c, v)
StreamFrame(c) == AnyFrame("stream", {"motion", "position", "battery", "odometer"}, c, c, c)
SparseFrame(c, carries) == AnyFrame("sparse", carries, c, c, c)
Discovery(reach) == [AnyFrame("discovery", {}, car, car, car) EXCEPT !.envelope = reach]
Event(name) == [AnyFrame("event", {}, car, car, car) EXCEPT !.event = name]

Offers ==
  CASE outing = "road" ->
         {FullFrame(car, car, car), StreamFrame(was), SparseFrame(car, {"position"}), Discovery("asleep"),
          Event("no_data")}
    [] outing = "imported" -> {FullFrame(car, car, car), StreamFrame(was), SparseFrame(car, {"position"})}
    [] outing = "topup" ->
         {FullFrame(car, car, car), FullFrame(car, was, car), FullFrame(was, car, car), StreamFrame(was)}
    [] outing = "replug" ->
         {FullFrame(car, car, car), StreamFrame(was), SparseFrame(car, {"charge", "battery"})}
    [] OTHER ->
         {FullFrame(car, car, was), Event("service_refused"), Discovery("offline"),
          [FullFrame(car, car, car) EXCEPT !.kind = "broken"]}

\* A restart finds the open drive a TeslaMate import left: its points, its cursors, its watermarks.
Imported ==
  [NewBlob EXCEPT !.drive = <<[EmptyDrive(1, 0) EXCEPT !.first = 0, !.last = 0, !.coarse = TRUE, !.home = 0,
                                                       !.folded = 1, !.stored = 1, !.place = 0]>>,
                  !.imported = [drive |-> 1, charge |-> Absent, state |-> 0, open |-> 1],
                  !.seen = 1, !.phase = "driving", !.next.drive = 2, !.next.position = 2]

YStart ==
  /\ car = NewCar /\ was = NewCar
  /\ blob = IF outing = "imported" THEN Imported ELSE NewBlob
  /\ openRows = IF outing = "imported" THEN {[id |-> 1, drive |-> 1, t |-> 1, place |-> 0]} ELSE {}
  /\ queue = <<>> /\ rows = EmptyRows
  /\ single = [s |-> blob, rows |-> EmptyRows, open |-> openRows, late |-> FALSE]
  /\ intake = [current |-> [t \in RecordTypes |-> <<>>], streamMark |-> Absent, seen |-> 0]

YInit == outing \in Outings /\ YStart

TickCar ==
  /\ car.time <= Len(Plan[outing])
  /\ car' = [Move(car, Plan[outing][car.time]) EXCEPT !.time = @ + 1]
  /\ was' = car
  /\ UNCHANGED <<blob, queue, openRows, rows, single, outing, intake>>

YNext ==
  \/ TickCar
  \/ \E o \in Offers : AcceptOwner(o)
  \/ \E o \in Offers : AcceptStream(o)
  \/ \E o \in Offers : AppendOnly(o)
  \/ Materialise

YSpec == YInit /\ [][YNext]_yvars

(***************************************************************************)
(* Properties.                                                             *)
(***************************************************************************)
\* How observations are cut into transactions does not show in the history: once nothing is
\* pending, the document, the rows and the open children are those of folding and committing each
\* observation by itself.  materialise_vehicle_lifecycle_with folds whatever accumulated while the
\* intake loops fold one by one, and both merge deltas with merge_step_delta.
SplitAgrees ==
  queue = <<>> => blob = single.s /\ rows = single.rows /\ openRows = single.open

\* A drive that evidence ended (Park, or a cable) ends at that evidence and is made of exactly the
\* facts dated up to it, although positions dated later may have been folded before the evidence
\* came: fold_into_open_drive keeps a copy of the drive before each such lead, and close_open_drive
\* takes the first copy cut after the end (unless more leads came than copies are kept).
DriveRowIsExact ==
  \A d \in rows.drives :
    d.asked # Absent => d.end = MaxOf(d.asked, d.start) /\ d.folds = {f \in d.facts : f.t <= d.end}

\* Every position ever numbered is stored exactly once, under the drive it belongs to or standing
\* alone, whatever closes, is discarded or cut: a child waits in lifecycle_open_rows only while its
\* drive is open, and no closed drive holds a position dated after its end.
PositionsLossless ==
  LET all == rows.positions \union openRows
  IN /\ {p.id : p \in all} = 1 .. blob.next.position - 1
     /\ Cardinality(all) = blob.next.position - 1
     /\ \A p \in openRows : blob.drive # <<>> /\ p.drive = blob.drive[1].id
     /\ \A p \in rows.positions : p.drive # 0 => \E d \in rows.drives : d.id = p.drive /\ p.t <= d.end

\* Drives and positions fit together: a drive is made of exactly its facts, and every position is kept
\* once, where the drives say.
DrivesKeepPositions == DriveRowIsExact /\ PositionsLossless

\* No energy is counted twice: the recorded charges and the open one never add up to more than the
\* car took in, over lost frames, cached charge groups, top-ups, unplugging and restarts of Tesla's
\* counter.  A motion fact delivered after a newer charge fact is set apart: charge_close_step takes
\* it for a drive, whose snapshot resets charge_energy_baseline.
EnergyCountedOnce ==
  LET known == {c \in rows.charges : c.added # Absent}
      closed == FoldSet(LAMBDA c, n : n + c.added, 0, known)
      open == IF blob.charge = <<>> \/ blob.charge[1].top = Absent THEN 0 ELSE EnergyAdded(blob.charge[1])
  IN single.late \/ closed + open <= car.sent
=============================================================================
