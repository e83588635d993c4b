---------------------------- MODULE PhysicalHead ----------------------------
(***************************************************************************)
(* The complete physical snapshot of one vehicle as clients of the 1.3 and *)
(* 1.4 profiles see it: one head, the heads it replaced while their        *)
(* receipts are retained, the changed set that leads from the last one to  *)
(* the head, and the prepared map months computed from the head's stage    *)
(* (src/storage/db/physical_v3_admission.rs, src/import/teslamate/         *)
(* physical_publication.rs and prepared_map.rs).                           *)
(*                                                                         *)
(* A receipt is <<sn, seq>>: the sealed content and the head sequence.     *)
(* phead is the pending row; pold the retained rows; plink the changed-set *)
(* rows; pmonths the prepared rows, with TRUE for those an older algorithm *)
(* signed; pfiles the content-addressed packs; ppub the publisher, which    *)
(* holds the publication gate unless it is idle; sweep is TRUE between the *)
(* two halves of a repair; pcl a client; phist, a history of the public    *)
(* heads with the time each was replaced.                                  *)
(***************************************************************************)
EXTENDS Naturals, Sequences, FiniteSets

CONSTANTS
  Contents,    \* what a sealed stage may hold
  RetainFor,   \* RETIRED_LINEAGE_PACK_RETENTION_MS, in ticks
  DeleteGrace, \* RETIRED_LINEAGE_PACK_DELETE_GRACE_MS, in ticks
  MaxPSeq,     \* bound: head sequences
  MaxPTime,    \* bound: ticks
  MaxPFaults   \* bound: crashes and failed steps

VARIABLES phead, pold, plink, pmonths, pfiles, ppub, sweep, pcl, ptime, phist, pfault

pvars == <<phead, pold, plink, pmonths, pfiles, ppub, sweep, pcl, ptime, phist, pfault>>

NoReceipt == <<0, 0>>
Receipts == Contents \X (1..MaxPSeq)
NoPHead == [rc |-> NoReceipt, st |-> "none"]

Full(rc) == <<"full", rc>>
Changed(from, to) == <<"changed", to, from>>
Month(rc) == <<"month", rc>>

IdlePublisher == [at |-> "idle", sn |-> 0, cand |-> NoReceipt, now |-> 0, made |-> {}, delta |-> FALSE]

NoAnswer == [kind |-> "none", from |-> NoReceipt, to |-> NoReceipt]

Fault == pfault < MaxPFaults /\ pfault' = pfault + 1

-----------------------------------------------------------------------------
(* What the catalogue refers to *)

Unexpired(at) == {r \in pold : r.until > at}

IsPublic == phead.st = "public"

\* retained_physical_v3_pack_rows, physical_delta_pack_rows,
\* prepared_map_pack_rows and the pending packs: what a cut-off keeps.
RetainedPacks(at) == {Full(r.rc) : r \in Unexpired(at)}

PendingPacks == IF phead.st = "none" THEN {} ELSE {Full(phead.rc)}

DeltaPacks(at) ==
  {Changed(l.from, l.to) : l \in {k \in plink : k.to = phead.rc
                                    /\ \E r \in Unexpired(at) : r.rc = k.from}}

\* A month belongs to the public head or to a retained receipt.
MonthKept(m, at) == (IsPublic /\ m.rc = phead.rc) \/ \E r \in Unexpired(at) : r.rc = m.rc

MonthPacks(at) == {Month(m.rc) : m \in {k \in pmonths : MonthKept(k, at)}}

ReferencedAt(at) ==
  PendingPacks \cup RetainedPacks(at) \cup DeltaPacks(at) \cup MonthPacks(at)


\* repair_at: what lapsed within the grace is still kept on disk.
Cutoff(now) == IF now > DeleteGrace THEN now - DeleteGrace ELSE 0

-----------------------------------------------------------------------------
(* The publication state, read and verified (files included) *)

HeadVerifies == phead.st = "none" \/ Full(phead.rc) \in pfiles

\* The direct predecessor of a head: the latest retained sequence below it.
Immediate ==
  {r \in pold : r.rc[2] < phead.rc[2] /\ \A q \in pold : q.rc[2] < phead.rc[2] => q.rc[2] <= r.rc[2]}

\* physical_v3_publication_state_for_vehicle_at: a blocked successor needs its
\* direct predecessor, unexpired and on disk.
PublicationState(now) ==
  CASE ~HeadVerifies -> "conflict"
    [] phead.st = "none" -> "empty"
    [] IsPublic -> "public"
    [] OTHER -> IF \E r \in Immediate : r.until > now /\ Full(r.rc) \in pfiles
                THEN "blocked" ELSE "conflict"

\* activate_pending_physical_v3_rotation_at: the successor becomes public.
Activated == [phead EXCEPT !.st = "public"]

\* The next sequence of a head that the stage does not repeat.
Candidate(sn, head) == <<sn, head.rc[2] + 1>>

\* publish_sealed_physical_v3_stage_inner up to the candidate: the first head,
\* the same head again (its month is tried again), or the next.
Decide(sn, head) ==
  /\ phead' = head
  /\ phist' = IF head = phead THEN phist
              ELSE Append(phist, [rc |-> head.rc, left |-> MaxPTime + 1])
  /\ IF head.rc[1] = sn
     THEN ppub' = [IdlePublisher EXCEPT !.at = "month", !.cand = head.rc, !.now = ptime]
     ELSE /\ head.rc[2] < MaxPSeq
          /\ ppub' = [IdlePublisher EXCEPT !.at = "write", !.sn = sn, !.now = ptime,
                                 !.cand = Candidate(sn, head)]

\* The importer holds the gate and hands over a sealed stage.
BeginPublish(sn) ==
  /\ ppub.at = "idle" /\ ~sweep
  /\ \/ PublicationState(ptime) \in {"empty", "public"} /\ Decide(sn, phead) /\ UNCHANGED pfault
     \/ PublicationState(ptime) = "blocked" /\ Decide(sn, Activated) /\ UNCHANGED pfault
  /\ UNCHANGED <<pold, plink, pmonths, pfiles, sweep, pcl, ptime>>

-----------------------------------------------------------------------------
(* The candidate, the changed set and the commit *)

\* write_staged_physical_updates_snapshot_v3: the packs, created or already
\* there; a failure removes what it created.
WriteCandidate ==
  /\ ppub.at = "write"
  /\ \/ /\ pfiles' = pfiles \cup {Full(ppub.cand)}
        /\ ppub' = [ppub EXCEPT !.at = IF phead.st = "none" THEN "commit" ELSE "delta",
                              !.made = {Full(ppub.cand)} \ pfiles]
        /\ UNCHANGED pfault
     \/ Fault /\ ppub' = IdlePublisher /\ UNCHANGED pfiles
  /\ UNCHANGED <<phead, pold, plink, pmonths, sweep, pcl, ptime, phist>>

\* prepare_changed_set: from the head to the candidate, or nothing when a
\* limit is met; the publication goes on either way.
PrepareDelta ==
  /\ ppub.at = "delta"
  /\ \/ LET file == Changed(phead.rc, ppub.cand)
        IN /\ pfiles' = pfiles \cup {file}
           /\ ppub' = [ppub EXCEPT !.at = "commit", !.delta = TRUE,
                                 !.made = @ \cup ({file} \ pfiles)]
     \/ ppub' = [ppub EXCEPT !.at = "commit"] /\ UNCHANGED pfiles
  /\ UNCHANGED <<phead, pold, plink, pmonths, sweep, pcl, ptime, phist, pfault>>

\* The rows a rotation leaves: the replaced head joins the retained ones.
Rotated == pold \cup {[rc |-> phead.rc, until |-> ppub.now + RetainFor]}

\* The one transaction of rotate_and_activate (or of the first head): the head
\* is replaced and public at once. Deleting the old head's row drops its
\* changed set with it (ON DELETE CASCADE).
Admit ==
  /\ phead' = [rc |-> ppub.cand, st |-> "public"]
  /\ pold' = IF phead.st = "none" THEN pold ELSE Rotated
  /\ plink' = IF ppub.delta THEN {[from |-> phead.rc, to |-> ppub.cand]} ELSE {}
  /\ phist' = (IF phead.st = "none" THEN phist ELSE [phist EXCEPT ![Len(phist)].left = ppub.now])
                \o <<[rc |-> ppub.cand, left |-> MaxPTime + 1]>>

\* remove_unretained_pack: what the candidate created goes unless the
\* catalogue still refers to it.
CleanUp(at) == {f \in ppub.made : f[1] = "full"} \ ReferencedAt(Cutoff(at))

\* Dropping the changed set removes what it created, unasked.
DropDelta == {f \in ppub.made : f[1] = "changed"}

\* A commit that reports an error is settled by reading the rows back: exact
\* means done, absent means failed (that this read fails too is left out).
CommitAdmission ==
  /\ ppub.at = "commit"
  /\ \/ /\ Admit /\ ppub' = [ppub EXCEPT !.at = "month", !.made = {}]
        /\ UNCHANGED <<pfiles, pfault>>
     \/ /\ Fault /\ ppub' = IdlePublisher
        /\ pfiles' = pfiles \ (CleanUp(ptime) \cup DropDelta)
        /\ UNCHANGED <<phead, pold, plink, phist>>
  /\ UNCHANGED <<pmonths, sweep, pcl, ptime>>

-----------------------------------------------------------------------------
(* The prepared month *)

\* prune_obsolete_prepared_receipts and the deletion that follows it.
PrunedMonths(now) == {m \in pmonths : ~m.stale /\ MonthKept(m, now)}

\* verified_cached_month: the row of this head whose pack is still there.
CachedMonth == \E m \in pmonths : m.rc = ppub.cand /\ ~m.stale /\ Month(m.rc) \in pfiles

\* publish_selected_month_with_policy. Its failure is only logged; the pack it
\* wrote stays until a repair.
PublishMonth ==
  /\ ppub.at = "month" /\ ppub' = IdlePublisher
  /\ \/ /\ pmonths' = PrunedMonths(ppub.now) \cup {[rc |-> ppub.cand, stale |-> FALSE]}
        /\ pfiles' = IF CachedMonth THEN pfiles ELSE pfiles \cup {Month(ppub.cand)}
        /\ UNCHANGED pfault
     \/ /\ Fault /\ ~CachedMonth
        /\ pmonths' = PrunedMonths(ppub.now)
        /\ pfiles' \in {pfiles, pfiles \cup {Month(ppub.cand)}}
  /\ UNCHANGED <<phead, pold, plink, sweep, pcl, ptime, phist>>

\* The process dies: files stay, nothing is cleaned up.
PublisherDies ==
  /\ ppub.at # "idle" /\ Fault /\ ppub' = IdlePublisher
  /\ UNCHANGED <<phead, pold, plink, pmonths, pfiles, sweep, pcl, ptime, phist>>

-----------------------------------------------------------------------------
(* Repair, in the two halves a crash may come between *)

\* Every referenced pack must be there; what the cut-off no longer keeps goes.
SweepPacks ==
  /\ ppub.at = "idle" /\ ~sweep /\ sweep' = TRUE
  /\ ReferencedAt(ptime) \subseteq pfiles
  /\ pfiles \ ReferencedAt(Cutoff(ptime)) # {} \/ pold \ Unexpired(Cutoff(ptime)) # {}
  /\ pfiles' = pfiles \cap ReferencedAt(Cutoff(ptime))
  /\ UNCHANGED <<phead, pold, plink, pmonths, ppub, pcl, ptime, phist, pfault>>

\* The rows, last: months, retained receipts and, by cascade, changed sets.
SweepCatalogue ==
  /\ sweep /\ sweep' = FALSE
  /\ \/ /\ pmonths' = {m \in pmonths : MonthKept(m, Cutoff(ptime))}
        /\ pold' = Unexpired(Cutoff(ptime))
        /\ plink' = {l \in plink : \E r \in Unexpired(Cutoff(ptime)) : r.rc = l.from}
        /\ UNCHANGED pfault
     \/ Fault /\ UNCHANGED <<pmonths, pold, plink>>
  /\ UNCHANGED <<phead, pfiles, ppub, pcl, ptime, phist>>

PTick ==
  /\ ptime < MaxPTime /\ ptime' = ptime + 1 /\ ~sweep
  /\ UNCHANGED <<phead, pold, plink, pmonths, pfiles, ppub, sweep, pcl, phist, pfault>>
-----------------------------------------------------------------------------
(* A client of the physical profiles *)

\* bootstrap: the signed manifest of the public head.
AskFirst ==
  IF IsPublic /\ HeadVerifies THEN [kind |-> "full", from |-> NoReceipt, to |-> phead.rc]
  ELSE NoAnswer

\* Faulty variant: any retained receipt may follow the changed set.
ChangedSetAny(rc) == \E l \in plink : l.to = phead.rc

\* physical_v3_delta_receipt_for_base_at: exactly from this receipt to the
\* head, while the base is unexpired.
ChangedSet(rc) ==
  /\ rc[2] + 1 = phead.rc[2]
  /\ \E l \in plink : l.from = rc /\ l.to = phead.rc
  /\ \E r \in Unexpired(ptime) : r.rc = rc

\* retained_physical_v3_admission_for_receipt_at
RetainedFor(rc) == \E r \in Unexpired(ptime) : r.rc = rc

\* serve_physical_changes_since (13) and serve_physical_changes_since_14.
Changes13(rc) ==
  CASE ~IsPublic \/ ~HeadVerifies -> NoAnswer
    [] IsPublic /\ HeadVerifies /\ rc = phead.rc -> [kind |-> "no_op", from |-> rc, to |-> rc]
    [] IsPublic /\ HeadVerifies /\ rc # phead.rc /\ ~RetainedFor(rc) ->
         [kind |-> "unknown", from |-> rc, to |-> NoReceipt]
    [] OTHER -> IF Full(rc) \in pfiles THEN [kind |-> "full", from |-> rc, to |-> phead.rc]
                ELSE NoAnswer

Changes14(rc) ==
  LET ans == Changes13(rc)
  IN IF ans.kind = "full" /\ ChangedSet(rc) THEN [ans EXCEPT !.kind = "changed"] ELSE ans

AskChanges ==
  /\ pcl.ans = NoAnswer
  /\ pcl' \in {[pcl EXCEPT !.ans = a] :
                a \in IF pcl.rc = NoReceipt THEN {AskFirst}
                      ELSE {Changes13(pcl.rc), Changes14(pcl.rc)}}
  /\ UNCHANGED <<phead, pold, plink, pmonths, pfiles, ppub, sweep, ptime, phist, pfault>>

\* pending_physical_v3_pack_for_digest: only the packs of the public head.
HeadPack(ans) == IsPublic /\ phead.rc = ans.to /\ Full(ans.to) \in pfiles

\* physical_v3_delta_pack_for_digest_at: only of the changed set to the head.
ChangedPack(ans) ==
  /\ IsPublic /\ phead.rc = ans.to
  /\ ChangedSet(ans.from) /\ Changed(ans.from, ans.to) \in pfiles

Served(ans) == IF ans.kind = "full" THEN HeadPack(ans) ELSE ChangedPack(ans)

\* The client fetches what it was told to, applies it and acknowledges; what is
\* not served any more makes it ask again, and an unknown receipt makes it
\* start over.
FetchAnswer ==
  /\ pcl.ans # NoAnswer
  /\ pcl' = CASE pcl.ans.kind = "unknown" -> [rc |-> NoReceipt, ans |-> NoAnswer]
              [] pcl.ans.kind = "no_op" -> [pcl EXCEPT !.ans = NoAnswer]
              [] OTHER -> [rc |-> IF Served(pcl.ans) THEN pcl.ans.to ELSE pcl.rc,
                           ans |-> NoAnswer]
  /\ UNCHANGED <<phead, pold, plink, pmonths, pfiles, ppub, sweep, ptime, phist, pfault>>

-----------------------------------------------------------------------------
PStart == plink = {} /\ ppub = IdlePublisher /\ sweep = FALSE /\ ptime = 0 /\ pfault = 0

PEmpty == phead = NoPHead /\ pold = {} /\ pmonths = {} /\ pfiles = {} /\ phist = <<>>

\* An empty catalogue, a first head with a month an older release signed, or a
\* rotation an older release left blocked.
PInit ==
  /\ \/ PEmpty
     \/ \E c \in Contents, d \in Contents :
       \/ /\ phead = [rc |-> <<c, 1>>, st |-> "public"] /\ pold = {} /\ d = c
          /\ pmonths = {[rc |-> <<c, 1>>, stale |-> TRUE]}
          /\ pfiles = {Full(<<c, 1>>), Month(<<c, 1>>)}
          /\ phist = <<[rc |-> <<c, 1>>, left |-> MaxPTime + 1]>>
       \/ /\ c # d
          /\ phead = [rc |-> <<d, 2>>, st |-> "blocked"]
          /\ pold = {[rc |-> <<c, 1>>, until |-> RetainFor]} /\ pmonths = {}
          /\ pfiles = {Full(<<c, 1>>), Full(<<d, 2>>)}
          /\ phist = <<[rc |-> <<c, 1>>, left |-> 0]>>
  /\ PStart
  /\ pcl \in {[rc |-> rc, ans |-> NoAnswer] :
               rc \in {NoReceipt} \cup (IF phist = <<>> THEN {} ELSE {phist[1].rc})}

PublisherStep == WriteCandidate \/ PrepareDelta \/ CommitAdmission \/ PublishMonth

PNext ==
  \/ \E sn \in Contents : BeginPublish(sn)
  \/ WriteCandidate \/ PrepareDelta \/ CommitAdmission \/ PublishMonth \/ PublisherDies
  \/ SweepPacks \/ SweepCatalogue \/ PTick
  \/ AskChanges \/ FetchAnswer

-----------------------------------------------------------------------------
\* What the catalogue promises is on disk: the packs of the head, of every
\* unexpired retained receipt, of the changed set to the head and of its
\* prepared months, through failed and ambiguous commits, the clean-up after
\* them, crashes and repairs. (The state lookup fails closed on a missing
\* pack, so one lost file stops publication and repair.)
AdmittedOnDisk == ReferencedAt(ptime) \subseteq pfiles

\* Once publications have ceased the client comes to hold the public head,
\* unless a blocked rotation whose predecessor lapsed keeps the head closed.
ClientCatchesUp == <>[](IsPublic => pcl.rc = phead.rc)

\* A client is told that its receipt is unknown only when the head it names was
\* replaced a whole retention ago, however many heads came after it
\* (serve_physical_changes_since; the retained rows of a rotation).
KnownReceiptAnswered ==
  pcl.ans.kind = "unknown" =>
    \E i \in 1..Len(phist) : phist[i].rc = pcl.rc /\ ptime >= phist[i].left + RetainFor

\* One sequence was public with one content only: a retry after a failed or an
\* ambiguous commit never gives a sequence that clients saw to other content.
SequenceNamesContent ==
  \A i, j \in 1..Len(phist) : phist[i].rc[2] = phist[j].rc[2] => i = j

=============================================================================
