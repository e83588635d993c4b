------------------------------ MODULE Lineage -------------------------------
(***************************************************************************)
(* What the publication of a history promises its clients, without the     *)
(* rows: the packs of the current lineage, the retired lineages a client   *)
(* may still be downloading, the pack files, and the clean-up of both.     *)
(*   src/storage/db/{live_sync,import_finalization,lineage_verification,   *)
(*   catalogue_maintenance,geofences_and_terrain}.rs                       *)
(*                                                                         *)
(*   chain    the packs of the active lineage, the base first              *)
(*   kept     sync_retired_lineages and sync_retired_packs: the chain that *)
(*            was current, the packs the retirement keeps, and its age     *)
(*   disk     the pack files under packs/sha256                            *)
(*   doomed   the retirements a running repair has decided to forget       *)
(*                                                                         *)
(* LiveSync implements this module; Delivery adds the clients.             *)
(***************************************************************************)
EXTENDS Naturals, Sequences

CONSTANTS PackIds,   \* content digests
          KeepFor,   \* RETIRED_LINEAGE_PACK_RETENTION_MS, in ticks
          DeleteLag  \* RETIRED_LINEAGE_PACK_DELETE_GRACE_MS, in ticks

ASSUME LineageAssumption == KeepFor \in Nat /\ DeleteLag \in Nat

VARIABLES chain, kept, disk, doomed

kvars == <<chain, kept, disk, doomed>>

Elems(s) == {s[i] : i \in 1..Len(s)}

OldAge == KeepFor + DeleteLag

Lapsed(x) == x.age >= KeepFor

\* What the retirements xs keep.
OwnOf(xs) == UNION {x.own : x \in xs}

\* pack_for_digest_in_scope, retired_pack_for_digest_at.
Offered == Elems(chain) \cup OwnOf({x \in kept : ~Lapsed(x)})

\* referenced_pack_rows_at, with the retirements in gone forgotten.
Pinned(gone) == Elems(chain) \cup OwnOf(kept \ gone)

-----------------------------------------------------------------------------
\* A writer stores a pack nothing refers to yet.
StorePack(p) ==
  /\ p \notin disk \cup Pinned({})
  /\ disk' = disk \cup {p}
  /\ UNCHANGED <<chain, kept, doomed>>

\* remove_unretained_pack: a failed publication takes back its pack.
DiscardPack(p) ==
  /\ p \in disk /\ p \notin Pinned({})
  /\ disk' = disk \ {p}
  /\ UNCHANGED <<chain, kept, doomed>>

\* commit_v2_delta_claim, the delta successors of an import, the first base.
Extend(p) ==
  /\ p \in disk \ Pinned({})
  /\ chain' = Append(chain, p)
  /\ UNCHANGED <<kept, disk, doomed>>

\* Faulty variant: the retirement keeps the base's pack in place of its own.
RetiredPrefix(n) ==
  [man |-> chain, own |-> Elems(SubSeq(chain, 1, n)), age |-> 0]

\* The head, with the packs from position n + 1 on as its own.
RetiredFrom(n) ==
  [man |-> chain, own |-> Elems(SubSeq(chain, n + 1, Len(chain))), age |-> 0]

\* commit_live_delta_compaction: one pack replaces those after position n.
\* The retirements whose delete lag is over are forgotten with it.
CompactFrom(n, p) ==
  /\ n \in 1..Len(chain) /\ n + 1 < Len(chain)
  /\ p \in disk \ Pinned({})
  /\ chain' = Append(SubSeq(chain, 1, n), p)
  /\ kept' = {x \in kept : x.age < OldAge} \cup {RetiredFrom(n)}
  /\ UNCHANGED <<disk, doomed>>

\* An import that does not fit replaces the whole lineage by a new base.
ReplaceBase(p) ==
  /\ chain # <<>>
  /\ p \in disk \ Pinned({})
  /\ chain' = <<p>>
  /\ kept' = kept \cup {RetiredFrom(0)}
  /\ UNCHANGED <<disk, doomed>>

-----------------------------------------------------------------------------
(* repair_at: the files first, then the rows that were old when it started *)

SweepFiles ==
  /\ Pinned({x \in kept : x.age >= OldAge}) \subseteq disk
  /\ doomed' = {x \in kept : x.age >= OldAge}
  /\ disk' = disk \cap Pinned(doomed')
  /\ UNCHANGED <<chain, kept>>

SweptRows == kept \ doomed

SweepRows ==
  /\ kept' = SweptRows
  /\ doomed' = {}
  /\ UNCHANGED <<chain, disk>>

\* The process dies between the two: the rows stay.
SweepCut ==
  /\ doomed # {} /\ doomed' = {}
  /\ UNCHANGED <<chain, kept, disk>>

Aged(x) == [x EXCEPT !.age = IF @ < OldAge THEN @ + 1 ELSE @]

\* The wall clock moves on; it is taken not to be set back.
Clock ==
  /\ kept' = {Aged(x) : x \in kept}
  /\ doomed' = {Aged(x) : x \in doomed}
  /\ UNCHANGED <<chain, disk>>

-----------------------------------------------------------------------------
KInit == chain = <<>> /\ kept = {} /\ disk = {} /\ doomed = {}

KNext ==
  \/ \E p \in PackIds : StorePack(p) \/ DiscardPack(p) \/ Extend(p)
                        \/ ReplaceBase(p)
  \/ \E p \in PackIds, n \in 1..Len(chain) : CompactFrom(n, p)
  \/ SweepFiles \/ SweepRows \/ SweepCut \/ Clock

KSpec == KInit /\ [][KNext]_kvars

-----------------------------------------------------------------------------
KTypeOK ==
  /\ chain \in Seq(PackIds)
  /\ disk \subseteq PackIds
  /\ kept \subseteq [man : Seq(PackIds), own : SUBSET PackIds, age : 0..OldAge]
  /\ doomed \subseteq [man : Seq(PackIds), own : SUBSET PackIds, age : 0..OldAge]

\* A client that was given a manifest can fetch all of it until the retention
\* is over: the packs of the chain, and of each retired chain that has not
\* lapsed, are offered by the catalogue and lie on disk, whatever compactions,
\* replacements and repairs came since.
PromiseKept ==
  \A m \in {chain} \cup {x.man : x \in {y \in kept : ~Lapsed(y)}} :
     Elems(m) \subseteq Offered \cap disk

\* A pack that was looked up just before its retirement lapsed can still be
\* opened: the packs of a retirement stay on disk through the delete lag.
LagKept == \A x \in kept : x.age < OldAge => x.own \subseteq disk

\* The inductive strengthening: a chain that was current consists of packs of
\* the chain and of what younger (or equally old) retirements keep; only
\* retirements past the delete lag are doomed.
KInv ==
  /\ \A x \in doomed : x.age >= OldAge
  /\ \A x \in kept : x.age < OldAge =>
       Elems(x.man) \subseteq Elems(chain) \cup OwnOf({y \in kept : y.age <= x.age})
  /\ Elems(chain) \subseteq disk
  /\ LagKept

=============================================================================
