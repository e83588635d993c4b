------------------------------ MODULE Chunking ------------------------------
(***************************************************************************)
(* Cutting one sealed physical stage into packs                            *)
(* (src/import/teslamate/physical_fragments.rs). Drives, positions,        *)
(* charging processes with their charges, states and updates are streamed  *)
(* in this order into an accumulator that starts with the three root rows; *)
(* it is flushed into a pack when the next group does not fit.             *)
(*                                                                         *)
(* A stage is a sequence of items: [kind |-> "drive" or "process", rels |->*)
(* the addresses and geofences it refers to, charges |-> their number], or *)
(* kind "row" for positions, states and updates. Only row counts are kept: *)
(* the byte target has the same shape and is left out.                     *)
(*                                                                         *)
(* stage and rowLimit are inputs; item is the item streamed next and       *)
(* charge the number of its charges already streamed; acc the rows in the  *)
(* accumulator; cut the packs written; emitted the relations that have     *)
(* an owner; cutting is how the run stands.                                *)
(***************************************************************************)
EXTENDS Naturals, Sequences, FiniteSets

CONSTANTS Relations, MaxItems, MaxCharges, RowLimits, MaxChunkCount

VARIABLES stage, rowLimit, item, charge, acc, cut, emitted, cutting

cvars == <<stage, rowLimit, item, charge, acc, cut, emitted, cutting>>

Roots == 3

Item == stage[item]
Row(i) == <<"row", i, 0>>
Charge(i, k) == <<"charge", i, k>>
Relation(r) == <<"relation", r, 0>>

\* needs_flush, group_needs_flush, parent_child_needs_flush: n more rows beside
\* the roots. A group too large for an empty accumulator is refused; it is
\* never added to a flushed one unchecked, since a row already fitted there.
NeedsFlush(n) == acc # {} /\ Cardinality(acc) + Roots + n > rowLimit
Fits(n) == Roots + n <= rowLimit

\* collect_owned_relations: a relation is owned by the first row that names it.
OwnedRelations == Item.rels \ emitted

Parent == {Row(item)} \cup {Relation(r) : r \in OwnedRelations}

\* Every error removes the packs written so far (cleanup_chunks).
FailCut ==
  /\ cutting' = "failed" /\ cut' = <<>> /\ acc' = {}
  /\ UNCHANGED <<stage, rowLimit, item, charge, emitted>>

\* flush_chunk: the packs in flushed are written, unless they are too many, and
\* the accumulator holds rows.
Flushed(flushed, rows) ==
  IF Len(cut \o flushed) <= MaxChunkCount
  THEN cut' = cut \o flushed /\ acc' = rows /\ UNCHANGED cutting
  ELSE cut' = <<>> /\ acc' = {} /\ cutting' = "failed"

\* One group of rows enters the accumulator, flushed before if need be.
Place(group) ==
  IF NeedsFlush(Cardinality(group)) THEN Flushed(<<acc>>, group)
  ELSE Flushed(<<>>, acc \cup group)

-----------------------------------------------------------------------------
(* The streams *)

\* preflight_relations: every staged relation is named by some row.
PreflightRelations ==
  /\ cutting = "preflight"
  /\ cutting' = IF Relations \subseteq UNION {stage[i].rels : i \in 1..Len(stage)}
                THEN "streaming" ELSE "failed"
  /\ UNCHANGED <<stage, rowLimit, item, charge, acc, cut, emitted>>

\* stream_drives, and the pages of positions, states and updates.
StreamRow ==
  /\ cutting = "streaming" /\ item <= Len(stage) /\ Item.kind # "process"
  /\ IF Fits(Cardinality(Parent))
     THEN /\ Place(Parent) /\ emitted' = emitted \cup Item.rels /\ item' = item + 1
          /\ UNCHANGED <<stage, rowLimit, charge>>
     ELSE FailCut

\* The process with its relations and the first charge or, when these do not
\* fit one pack, the process with its relations in a pack of their own and the
\* process again with the charge in the next.
FirstCharge ==
  /\ cutting = "streaming" /\ item <= Len(stage)
  /\ Item.kind = "process" /\ charge = 0 /\ Item.charges > 0
  /\ LET group == Parent \cup {Charge(item, 1)}
         split == (IF acc = {} THEN <<>> ELSE <<acc>>) \o <<Parent>>
     IN IF ~Fits(Cardinality(Parent)) \/ (~Fits(Cardinality(group)) /\ OwnedRelations = {})
        THEN FailCut
        ELSE /\ IF Fits(Cardinality(group)) THEN Place(group)
                ELSE Flushed(split, {Row(item), Charge(item, 1)})
             /\ charge' = 1 /\ emitted' = emitted \cup Item.rels
             /\ UNCHANGED <<stage, rowLimit, item>>

\* Faulty variant: the next pack starts with the charge alone.
NextPackAlone == {Charge(item, charge + 1)}

\* A charge that does not fit starts the next pack, after its process again.
NextPack == {Row(item), Charge(item, charge + 1)}

LaterCharge ==
  /\ cutting = "streaming" /\ item <= Len(stage)
  /\ Item.kind = "process" /\ charge > 0 /\ charge < Item.charges
  /\ IF NeedsFlush(1) THEN Flushed(<<acc>>, NextPack)
     ELSE Flushed(<<>>, acc \cup {Charge(item, charge + 1)})
  /\ charge' = charge + 1
  /\ UNCHANGED <<stage, rowLimit, item, emitted>>

\* The end of a process, which enters with its relations alone without charges.
EndProcess ==
  /\ cutting = "streaming" /\ item <= Len(stage)
  /\ Item.kind = "process" /\ charge = Item.charges
  /\ IF charge = 0 /\ ~Fits(Cardinality(Parent)) THEN FailCut
     ELSE /\ IF charge = 0 THEN Place(Parent) ELSE UNCHANGED <<acc, cut, cutting>>
          /\ emitted' = emitted \cup Item.rels /\ item' = item + 1 /\ charge' = 0
          /\ UNCHANGED <<stage, rowLimit>>

\* The last pack (the only one of an empty stage), then one manifest over all.
FinishCut ==
  /\ cutting = "streaming" /\ item > Len(stage)
  /\ LET last == IF acc # {} \/ cut = <<>> THEN <<acc>> ELSE <<>>
     IN IF emitted # Relations \/ Len(cut \o last) > MaxChunkCount THEN FailCut
        ELSE /\ cut' = cut \o last /\ acc' = {} /\ cutting' = "signed"
             /\ UNCHANGED <<stage, rowLimit, item, charge, emitted>>

-----------------------------------------------------------------------------
Items ==
  [kind : {"drive", "process"}, rels : SUBSET Relations, charges : 0..MaxCharges]
    \cup [kind : {"row"}, rels : {{}}, charges : {0}]

\* Drives come before processes.
InOrder(s) == \A i, j \in 1..Len(s) : i < j /\ s[j].kind = "drive" => s[i].kind = "drive"

CStart ==
  /\ item = 1 /\ charge = 0 /\ acc = {} /\ cut = <<>> /\ emitted = {}
  /\ cutting = "preflight"

CInit ==
  /\ \E n \in 0..MaxItems : stage \in [1..n -> Items]
  /\ InOrder(stage)
  /\ \A i \in 1..Len(stage) : stage[i].kind = "drive" => stage[i].charges = 0
  /\ rowLimit \in RowLimits
  /\ CStart

CNext ==
  \/ PreflightRelations \/ StreamRow \/ FirstCharge \/ LaterCharge
  \/ EndProcess \/ FinishCut

-----------------------------------------------------------------------------
\* A signed candidate is complete and every pack of it stands alone: each row
\* of the stage is in a pack, no pack exceeds the row limit, a charge is
\* packed with its process, and a relation is emitted exactly once, beside the
\* first row that names it (the same-pack boundary the V3 reader demands).
PacksStandAlone ==
  cutting = "signed" =>
    /\ \A i \in 1..Len(stage) : \E p \in 1..Len(cut) : Row(i) \in cut[p]
    /\ \A i \in 1..Len(stage), k \in 1..MaxCharges :
         k <= stage[i].charges => \E p \in 1..Len(cut) : Charge(i, k) \in cut[p]
    /\ \A p \in 1..Len(cut) :
         /\ Cardinality(cut[p]) + Roots <= rowLimit
         /\ \A i \in 1..Len(stage), k \in 1..MaxCharges : Charge(i, k) \in cut[p] => Row(i) \in cut[p]
    /\ \A r \in Relations :
         /\ Cardinality({p \in 1..Len(cut) : Relation(r) \in cut[p]}) = 1
         /\ \E p \in 1..Len(cut), i \in 1..Len(stage) :
              /\ Relation(r) \in cut[p] /\ Row(i) \in cut[p] /\ r \in stage[i].rels
              /\ \A j \in 1..(i - 1) : r \notin stage[j].rels
=============================================================================
