------------------------------ MODULE Delivery ------------------------------
(***************************************************************************)
(* A client follows a lineage: it bootstraps, walks from receipt to        *)
(* receipt, fetches packs, and is sent back to the base when its receipt   *)
(* was compacted away.                                                     *)
(*   src/api/server.rs (manifest, pack, stream_pack),                      *)
(*   src/api/server/hub_sync_v1.rs (bootstrap, changes-since),             *)
(*   src/storage/db/lineage_verification.rs                                *)
(*                                                                         *)
(*   born     packs written so far; a digest is never used twice           *)
(*   past     (history) every chain a receipt may stand for                *)
(*   req      the server's work on the client's request: what it has read  *)
(*   at       the client's receipt: the chain it has applied               *)
(*   todo     the packs of the last answer still to fetch, goal the        *)
(*            receipt it leads to                                          *)
(*   get      the pack request in hand: looked up, not yet opened          *)
(***************************************************************************)
EXTENDS Lineage, SequencesExt

CONSTANTS MaxPacks,   \* packs in a behaviour
          MaxRepairs  \* repairs and crashes of one

VARIABLES born, past, req, at, todo, goal, get, sweeps

dvars == <<chain, kept, disk, doomed, born, past, req, at, todo, goal, get,
           sweeps>>
client == <<req, at, todo, goal, get>>

NoReq == [op |-> "none", base |-> 0, deltas |-> <<>>, head |-> <<>>]
NoGet == [pack |-> 0, age |-> 0]

-----------------------------------------------------------------------------
(* The publisher, as Lineage has it, with fresh digests *)

Advance == past' = past \cup {SubSeq(chain', 1, i) : i \in 1..Len(chain')}

\* The publication gate: one pack at a time is written and catalogued; a pack
\* a failed publication left behind goes with the next repair.
NewPack ==
  /\ disk \subseteq Pinned({})
  /\ born < MaxPacks /\ born' = born + 1
  /\ StorePack(born + 1)
  /\ UNCHANGED <<past, sweeps, client>>

PublishPack ==
  /\ \E p \in disk \ Pinned({}) :
       \/ Extend(p) \/ ReplaceBase(p)
       \/ \E n \in 1..Len(chain) : CompactFrom(n, p)
  /\ Advance
  /\ UNCHANGED <<born, sweeps, client>>

Repair ==
  /\ sweeps < MaxRepairs /\ doomed = {} /\ sweeps' = sweeps + 1
  /\ SweepFiles
  /\ UNCHANGED <<born, past, client>>

RepairEnds ==
  /\ doomed # {} /\ (SweepRows \/ SweepCut)
  /\ UNCHANGED <<born, past, sweeps, client>>

\* A request never takes longer than the delete lag between the lookup of a
\* pack and the opening of its file.
Time ==
  /\ \E x \in kept : Aged(x) # x
  /\ Clock
  /\ get.pack # 0 => get.age < DeleteLag
  /\ get' = IF get.pack # 0 THEN [get EXCEPT !.age = @ + 1] ELSE get
  /\ UNCHANGED <<born, past, sweeps, req, at, todo, goal>>

-----------------------------------------------------------------------------
(* lineage_manifest_for_vehicle reads the base, the deltas and the head in   *)
(* three statements                                                          *)

Idle == req.op = "none" /\ todo = <<>> /\ get = NoGet

\* bootstrap (no receipt), the lineage manifest, changes-since a receipt.
Ask(op) ==
  /\ Idle
  /\ op \in IF at = <<>> THEN {"bootstrap", "manifest"} ELSE {"changes"}
  /\ chain # <<>>
  /\ req' = [NoReq EXCEPT !.op = op, !.base = chain[1]]
  /\ UNCHANGED <<chain, kept, disk, doomed, born, past, at, todo, goal,
                 get, sweeps>>

\* Each delta row names its predecessor's chain digest: it stands for the chain
\* up to it.
ReadDeltas ==
  /\ req.op # "none" /\ req.deltas = <<>>
  /\ req' = [req EXCEPT !.deltas = chain]
  /\ UNCHANGED <<chain, kept, disk, doomed, born, past, at, todo, goal,
                 get, sweeps>>

ReadHead ==
  /\ req.op # "none" /\ req.deltas # <<>> /\ req.head = <<>>
  /\ req' = [req EXCEPT !.head = chain]
  /\ UNCHANGED <<chain, kept, disk, doomed, born, past, at, todo, goal,
                 get, sweeps>>

\* Faulty variant: the deltas need not start at the base that was read.
LineageValidUnlinked == TRUE

\* LineageManifestV2::validate: the deltas start at the base and end at the
\* head; a torn read is refused.
LineageValid == req.deltas[1] = req.base /\ req.deltas = req.head

\* The chain as the three reads have it.
ReadChain == <<req.base>> \o Tail(req.deltas)

Answer(packs, to) ==
  /\ todo' = packs /\ goal' = to
  /\ req' = NoReq
  /\ UNCHANGED <<chain, kept, disk, doomed, born, past, at, get, sweeps>>

Unavailable ==
  /\ req.head # <<>> /\ ~LineageValid
  /\ Answer(<<>>, at)

Bootstrap ==
  /\ req.op = "bootstrap" /\ req.head # <<>> /\ LineageValid
  /\ Answer(<<ReadChain[1]>>, <<ReadChain[1]>>)

WholeManifest ==
  /\ req.op = "manifest" /\ req.head # <<>> /\ LineageValid
  /\ Answer(ReadChain, ReadChain)

\* Faulty variant: the receipt's position alone is compared.
IsCheckpointByLength(r, m) == r # <<>> /\ Len(r) <= Len(m)

\* A receipt pairs a chain digest with its sequence.
IsCheckpoint(r, m) == r # <<>> /\ IsPrefix(r, m)

\* resolve_current_checkpoint: the next delta, or nothing new.
Changes ==
  /\ req.op = "changes" /\ req.head # <<>> /\ LineageValid
  /\ IsCheckpoint(at, ReadChain)
  /\ IF Len(at) = Len(ReadChain) THEN Answer(<<>>, at)
     ELSE Answer(<<ReadChain[Len(at) + 1]>>,
                 SubSeq(ReadChain, 1, Len(at) + 1))

\* retired_lineage_contains_checkpoint.
RetiredHas == \E x \in kept : ~Lapsed(x) /\ IsCheckpoint(at, x.man)

Rebase ==
  /\ req.op = "changes" /\ req.head # <<>> /\ LineageValid
  /\ ~IsCheckpoint(at, ReadChain) /\ RetiredHas
  /\ Answer(<<ReadChain[1]>>, <<ReadChain[1]>>)

\* The client has nothing left to stand on and bootstraps.
UnknownReceipt ==
  /\ req.op = "changes" /\ req.head # <<>> /\ LineageValid
  /\ ~IsCheckpoint(at, ReadChain) /\ ~RetiredHas
  /\ todo' = <<>> /\ goal' = <<>> /\ req' = NoReq /\ at' = <<>>
  /\ UNCHANGED <<chain, kept, disk, doomed, born, past, get, sweeps>>

-----------------------------------------------------------------------------
(* Packs *)

\* pack: the catalogue first.
Lookup ==
  /\ todo # <<>> /\ get = NoGet
  /\ IF Head(todo) \in Offered
     THEN /\ get' = [pack |-> Head(todo), age |-> 0]
          /\ UNCHANGED <<todo, goal>>
     ELSE /\ todo' = <<>> /\ goal' = at
          /\ UNCHANGED get
  /\ UNCHANGED <<chain, kept, disk, doomed, born, past, req, at, sweeps>>

\* stream_pack: then the file. The last pack of an answer makes its receipt.
Open ==
  /\ get # NoGet
  /\ get' = NoGet
  /\ IF get.pack \in disk
     THEN /\ todo' = Tail(todo)
          /\ at' = IF Len(todo) = 1 THEN goal ELSE at
          /\ UNCHANGED goal
     ELSE /\ todo' = <<>> /\ goal' = at
          /\ UNCHANGED at
  /\ UNCHANGED <<chain, kept, disk, doomed, born, past, req, sweeps>>

-----------------------------------------------------------------------------
DInit ==
  /\ KInit
  /\ born = 0 /\ past = {} /\ req = NoReq
  /\ at = <<>> /\ todo = <<>> /\ goal = <<>>
  /\ get = NoGet /\ sweeps = 0

ClientStep ==
  \/ \E op \in {"bootstrap", "manifest", "changes"} : Ask(op)
  \/ ReadDeltas \/ ReadHead \/ Unavailable
  \/ Bootstrap \/ WholeManifest \/ Changes \/ Rebase \/ UnknownReceipt
  \/ Lookup \/ Open

DNext == NewPack \/ PublishPack \/ Repair \/ RepairEnds \/ Time \/ ClientStep

DSpec == DInit /\ [][DNext]_dvars

-----------------------------------------------------------------------------
DTypeOK ==
  /\ chain \in Seq(1..MaxPacks) /\ disk \subseteq 1..MaxPacks
  /\ born \in 0..MaxPacks
  /\ req.op \in {"none", "bootstrap", "manifest", "changes"}
  /\ get.pack \in 0..MaxPacks /\ get.age \in 0..DeleteLag
  /\ \A c \in {chain, at, goal} : Cardinality(Elems(c)) = Len(c)

\* The client never holds a history that never was: its receipt, and the one it
\* is walking to, stand for a chain that was current, though the server reads a
\* lineage in three statements while publishers replace it.
ReceiptWasReal ==
  /\ at # <<>> => at \in past
  /\ goal # <<>> => goal \in past

\* A client that keeps asking arrives at the head, whatever was compacted or
\* replaced on its way.
ReachesHead == <>[](chain # <<>> => at = chain)

\* An answer can be acted on: as long as the chain it came from is current or
\* its retirement has not lapsed, every pack it names is offered and lies on
\* disk, and a pack that was looked up is still there when it is opened (pack,
\* stream_pack against compaction, replacement and repair).
AnswerFetchable ==
  /\ (\/ IsPrefix(goal, chain)
      \/ \E x \in kept : ~Lapsed(x) /\ IsPrefix(goal, x.man))
        => Elems(todo) \subseteq Offered \cap disk
  /\ get # NoGet => get.pack \in disk

\* An answer stands while the client reads it: its receipt was real and its packs can be fetched.
AnswersStand == ReceiptWasReal /\ AnswerFetchable
=============================================================================
