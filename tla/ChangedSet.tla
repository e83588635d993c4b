----------------------------- MODULE ChangedSet -----------------------------
(***************************************************************************)
(* The changed set between two physical snapshots of one car               *)
(* (src/import/teslamate/physical_delta_compare.rs, physical_delta_pack.rs,*)
(* sync/hub_pack/physical_row_scan.rs): which raw rows changed, which rows *)
(* of the App's public projection they affect, and which raw target rows   *)
(* travel along so that the App can recompute these without the snapshot.  *)
(*                                                                         *)
(* A snapshot is a function from row keys <<table, id>> to rows            *)
(*   [v |-> content, to |-> the keys it refers to, closed |-> BOOLEAN]     *)
(* (closed matters for drives only). source is the live database, shown    *)
(* the last published snapshot, local and view the App's raw rows and its  *)
(* projection, edits counts the changes of the source.                     *)
(***************************************************************************)
EXTENDS Naturals, FiniteSets

CONSTANTS RowIds, MaxEdits, MaxDeltaRows, MaxAbsent

VARIABLES source, shown, local, view, edits

xvars == <<source, shown, local, view, edits>>

Car == <<"cars", 1>>
Keys ==
  {Car} \cup ({"drives", "charging_processes", "charges", "addresses"} \X {1})
        \cup ({"positions", "updates"} \X RowIds)

\* edge_columns: the tables a row may refer to (a geofence is referred to like
\* an address; settings, states and the month columns are left out).
Edges(k) ==
  CASE k[1] = "drives" -> {"positions", "addresses"}
    [] k[1] = "positions" -> {"drives"}
    [] k[1] = "charging_processes" -> {"positions", "addresses"}
    [] k[1] = "charges" -> {"charging_processes"}
    [] OTHER -> {}

-----------------------------------------------------------------------------
(* The comparison of snapshot b with its successor t *)

Removed(b, t) == DOMAIN b \ DOMAIN t

\* derive_changes, changed_raw: rows that differ by digest, came or went.
ChangedRaw(b, t) ==
  Removed(b, t) \cup {k \in DOMAIN t : k \notin DOMAIN b \/ t[k] # b[k]}

\* edges joins both sides: k refers to l in either snapshot.
RefersTo(b, t, k, l) ==
  \/ k \in DOMAIN b /\ l \in b[k].to
  \/ k \in DOMAIN t /\ l \in t[k].to

\* The projected table a raw row is the root of.
ProjectedAs ==
  [drives |-> "drives", positions |-> "positions", charging_processes |-> "charges",
   charges |-> "charge_samples", updates |-> "car_updates"]
Projected(k) == <<ProjectedAs[k[1]], k[2]>>

\* Faulty variant: a drive is affected by its own row and its ends only.
AffectedWithoutChildren(b, t) ==
  LET raw == ChangedRaw(b, t)
      either == DOMAIN b \cup DOMAIN t
  IN {Projected(k) : k \in {r \in raw : r[1] \notin {"cars", "addresses"}}}
     \cup {Projected(k) : k \in {r \in either :
             /\ r[1] \in {"drives", "charging_processes"}
             /\ \E l \in raw : l[1] \in {"positions", "addresses"} /\ RefersTo(b, t, r, l)}}
     \cup (IF \E r \in raw : r[1] \in {"cars", "updates"} THEN {Car} ELSE {})

\* derive_changes, affected_projected: the projected row of each changed raw
\* row, the roots that refer to a changed end or place, the rows attached to a
\* changed parent, the parents of a changed child, and the car for its updates.
Affected(b, t) ==
  LET raw == ChangedRaw(b, t)
      either == DOMAIN b \cup DOMAIN t
      childOf == {<<"positions", "drives">>, <<"charges", "charging_processes">>}
  IN AffectedWithoutChildren(b, t)
     \cup {Projected(k) : k \in {c \in either : \E p \in raw :
             <<c[1], p[1]>> \in childOf /\ RefersTo(b, t, c, p)}}
     \cup {Projected(p) : p \in {q \in Keys : \E c \in raw :
             <<c[1], q[1]>> \in childOf /\ RefersTo(b, t, c, q)}}

\* prepare_wire_scope, affected_projected: the ends of a changed drive and the
\* target samples of an affected charge are recomputed too.
WireAffected(b, t) ==
  LET a == Affected(b, t)
  IN a \cup {l \in Keys : l[1] = "positions" /\
              \E k \in ChangedRaw(b, t) : k[1] = "drives" /\ RefersTo(b, t, k, l)}
       \cup {<<"charge_samples", k[2]>> : k \in {c \in DOMAIN t :
              c[1] = "charges" /\ \E l \in t[c].to : <<"charges", l[2]>> \in a}}

\* The raw root a projected row is computed from.
RootOf(p) ==
  CASE p[1] = "charges" -> <<"charging_processes", p[2]>>
    [] p[1] = "charge_samples" -> <<"charges", p[2]>>
    [] p[1] = "car_updates" -> <<"updates", p[2]>>
    [] OTHER -> p

\* The latest update by start (its content here), then by id.
LatestUpdate(t) ==
  LET us == {k \in DOMAIN t : k[1] = "updates"}
  IN {k \in us : \A l \in us : t[k].v > t[l].v \/ (t[k].v = t[l].v /\ k[2] >= l[2])}

\* derive_changes and prepare_wire_scope, target_context before the fixed
\* point: changed rows that survive, the roots of affected rows, the children
\* of affected roots, the car, and the latest update of an affected car.
ContextSeed(b, t) ==
  LET a == WireAffected(b, t)
  IN ( ChangedRaw(b, t) \cup {RootOf(p) : p \in a}
       \cup {k \in DOMAIN t :
               \/ k[1] = "positions" /\ \E d \in t[k].to : d \in a
               \/ k[1] = "charges" /\ \E c \in t[k].to : Projected(c) \in a}
       \cup (IF a # {} THEN {Car} ELSE {})
       \cup (IF Car \in a THEN LatestUpdate(t) ELSE {}) ) \cap DOMAIN t

\* Faulty variant: the rows referred to are not followed.
ContextUnfollowed(b, t) == ContextSeed(b, t)

\* prepare_wire_scope: references are followed in the target to a fixed point.
Context(b, t) ==
  LET follow[n \in 0..Cardinality(Keys)] ==
        IF n = 0 THEN ContextSeed(b, t)
        ELSE LET c == follow[n - 1]
             IN c \cup ((UNION {t[k].to : k \in c}) \cap DOMAIN t)
  IN follow[Cardinality(Keys)]

\* prepare_changed_set: tombstones, the affected rows with their effect (a row
\* whose root is gone is deleted, any other recomputed) and the context rows
\* with their role; no set when there is nothing or too much to send.
DeltaRows(b, t) == Cardinality(Context(b, t)) + Cardinality(Removed(b, t))
HasDelta(b, t) == DeltaRows(b, t) \in 1..MaxDeltaRows

Delta(b, t) ==
  [tombstones |-> Removed(b, t),
   rows |-> [k \in Context(b, t) |-> t[k]],
   changed |-> ChangedRaw(b, t) \ Removed(b, t),
   deleted |-> {p \in WireAffected(b, t) : RootOf(p) \notin DOMAIN t},
   recompute |-> {p \in WireAffected(b, t) : RootOf(p) \in DOMAIN t}]

-----------------------------------------------------------------------------
(* The App (outside this repository) *)

RowsOf(db, S) == {<<k, db[k]>> : k \in S \cap DOMAIN db}
Children(db, p, table) == {k \in DOMAIN db : k[1] = table /\ p \in db[k].to}

\* The public projection of one row: an open drive is hidden and its positions
\* are detached; otherwise a row is shown with all that its root refers to and
\* all that is attached to the root.
ViewOf(db, p) ==
  LET k == RootOf(p)
  IN CASE p[1] = "positions" ->
            <<db[k], {d \in db[k].to \cap DOMAIN db : db[d].closed}>>
       [] p[1] = "drives" ->
            IF ~db[k].closed THEN <<>>
            ELSE <<db[k], RowsOf(db, db[k].to), RowsOf(db, Children(db, k, "positions"))>>
       [] p[1] = "charges" ->
            <<db[k], RowsOf(db, db[k].to), RowsOf(db, Children(db, k, "charges"))>>
       [] p[1] = "charge_samples" -> <<db[k], RowsOf(db, db[k].to)>>
       [] p[1] = "cars" -> <<db[k], RowsOf(db, LatestUpdate(db))>>
       [] OTHER -> <<db[k]>>

ProjectedKeys(db) == {Car} \cup {Projected(k) : k \in {r \in DOMAIN db : r[1] \notin {"cars", "addresses"}}}

FullView(db) == [p \in ProjectedKeys(db) |-> ViewOf(db, p)]

\* Applying a changed set: raw rows, and the affected rows of the projection
\* from the rows that came with it.
ApplyRaw(db, d) ==
  [k \in (DOMAIN db \ d.tombstones) \cup d.changed |-> IF k \in d.changed THEN d.rows[k] ELSE db[k]]
ApplyView(old, d) ==
  [p \in (DOMAIN old \ d.deleted) \cup d.recompute |->
     IF p \in d.recompute THEN ViewOf(d.rows, p) ELSE old[p]]

-----------------------------------------------------------------------------
(* Steps *)

PlainRow == [v |-> 0, to |-> {}, closed |-> FALSE]
With(db, k, row) == [l \in DOMAIN db \cup {k} |-> IF l = k THEN row ELSE db[l]]

\* TeslaMate adds, removes or edits one row, in content, state or reference.
Edit ==
  /\ edits < MaxEdits /\ edits' = edits + 1
  /\ \E k \in Keys :
       \/ k \notin DOMAIN source /\ source' = With(source, k, PlainRow)
       \/ k \in DOMAIN source \ {Car} /\ source' = [l \in DOMAIN source \ {k} |-> source[l]]
       \/ k \in DOMAIN source /\ source' = [source EXCEPT ![k].v = 1 - @]
       \/ k \in DOMAIN source /\ k[1] = "drives" /\ source' = [source EXCEPT ![k].closed = ~@]
       \/ k \in DOMAIN source
          /\ \E l \in {j \in Keys : j[1] \in Edges(k)} :
               source' = [source EXCEPT ![k].to = IF l \in @ THEN @ \ {l} ELSE @ \cup {l}]
  /\ UNCHANGED <<shown, local, view>>

\* The source is published and the App takes the changed set, or the snapshot
\* when there is none.
PublishDelta ==
  /\ source # shown
  /\ shown' = source
  /\ IF HasDelta(shown, source)
     THEN LET d == Delta(shown, source)
          IN local' = ApplyRaw(local, d) /\ view' = ApplyView(view, d)
     ELSE local' = source /\ view' = FullView(source)
  /\ UNCHANGED <<source, edits>>

\* A drive with its positions at an address, a charge at one of them.
Refs(k) ==
  CASE k[1] = "drives" -> {<<"positions", 1>>, <<"addresses", 1>>}
    [] k[1] = "positions" -> {<<"drives", 1>>}
    [] k[1] = "charging_processes" -> {<<"positions", 1>>, <<"addresses", 1>>}
    [] k[1] = "charges" -> {<<"charging_processes", 1>>}
    [] OTHER -> {}

XStart == shown = source /\ local = source /\ view = FullView(source) /\ edits = 0

XInit ==
  /\ \E K \in {S \in SUBSET Keys : Car \in S /\ Cardinality(Keys \ S) <= MaxAbsent}, ended \in BOOLEAN :
       source = [k \in K |-> [v |-> 0, to |-> Refs(k), closed |-> ended /\ k[1] = "drives"]]
  /\ XStart

XNext == Edit \/ PublishDelta

-----------------------------------------------------------------------------
\* An App that follows the changed sets holds exactly what one that takes the
\* full snapshot holds: the same raw rows, and the same projection although it
\* recomputed only the affected rows, from the context rows alone.
DeltaEqualsSnapshot == local = shown /\ view = FullView(shown)
=============================================================================
