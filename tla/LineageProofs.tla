--------------------------- MODULE LineageProofs ----------------------------
(***************************************************************************)
(* Lineage keeps its promise for every set of packs, every retention and   *)
(* every delete lag: the proof follows the packs of a retired chain to the *)
(* younger retirements that keep them.                                     *)
(***************************************************************************)
EXTENDS Lineage, TLAPS

Retirements == [man : Seq(PackIds), own : SUBSET PackIds, age : 0..OldAge]

\* Appending a pack adds that pack (the head after a delta).
LEMMA ElemsAppend ==
  ASSUME NEW s \in Seq(PackIds), NEW p \in PackIds
  PROVE  /\ Append(s, p) \in Seq(PackIds)
         /\ Elems(Append(s, p)) = Elems(s) \cup {p}
<1> DEFINE t == Append(s, p)
<1>1. /\ t \in Seq(PackIds) /\ Len(t) = Len(s) + 1 /\ Len(s) \in Nat
      /\ t[Len(t)] = p
      /\ \A i \in 1..Len(s) : t[i] = s[i]
  OBVIOUS
<1> HIDE DEF t
<1>2. Elems(t) = Elems(s) \cup {p}
  BY <1>1 DEF Elems
<1> QED BY <1>1, <1>2 DEF t

\* Cutting a chain loses no pack: each is before or after the cut (the plan of
\* a compaction).
LEMMA ElemsCut ==
  ASSUME NEW s \in Seq(PackIds), NEW n \in 0..Len(s)
  PROVE  /\ SubSeq(s, 1, n) \in Seq(PackIds)
         /\ Elems(SubSeq(s, n + 1, Len(s))) \subseteq PackIds
         /\ Elems(SubSeq(s, 1, n)) \subseteq Elems(s)
         /\ Elems(SubSeq(s, n + 1, Len(s))) \subseteq Elems(s)
         /\ Elems(s) \subseteq Elems(SubSeq(s, 1, n))
                                 \cup Elems(SubSeq(s, n + 1, Len(s)))
<1> DEFINE a == SubSeq(s, 1, n)
           b == SubSeq(s, n + 1, Len(s))
<1>1. /\ a \in Seq(PackIds) /\ b \in Seq(PackIds)
      /\ Len(a) = n /\ Len(b) = Len(s) - n
      /\ \A i \in 1..n : a[i] = s[i]
      /\ \A i \in 1..(Len(s) - n) : b[i] = s[n + i]
  OBVIOUS
<1> HIDE DEF a, b
<1>2. Elems(a) \subseteq Elems(s)
  BY <1>1 DEF Elems
<1>3. Elems(b) \subseteq Elems(s) /\ Elems(b) \subseteq PackIds
  BY <1>1 DEF Elems
<1>4. ASSUME NEW i \in 1..Len(s) PROVE s[i] \in Elems(a) \cup Elems(b)
  <2>1. CASE i <= n
    BY <2>1, <1>1 DEF Elems
  <2>2. CASE i > n
    <3>1. i - n \in 1..Len(b) /\ b[i - n] = s[i]
      BY <2>2, <1>1
    <3> QED BY <3>1, <1>1 DEF Elems
  <2> QED BY <2>1, <2>2
<1>5. Elems(s) \subseteq Elems(a) \cup Elems(b)
  BY <1>4 DEF Elems
<1> QED BY <1>1, <1>2, <1>3, <1>5 DEF a, b

\* The retirement a compaction or a replacement writes is well formed.
LEMMA RetiredTyped ==
  ASSUME NEW n \in 0..Len(chain), chain \in Seq(PackIds)
  PROVE  RetiredFrom(n) \in Retirements
  BY ElemsCut, LineageAssumption DEF RetiredFrom, Retirements, OldAge

\* One tick leaves a retirement well formed, keeps its packs, and keeps the
\* order of two ages.
LEMMA AgedTyped ==
  ASSUME NEW x \in Retirements
  PROVE  /\ Aged(x) \in Retirements
         /\ Aged(x).man = x.man /\ Aged(x).own = x.own
         /\ Aged(x).age >= x.age
         /\ x.age >= OldAge => Aged(x).age >= OldAge
         /\ \A y \in Retirements : y.age <= x.age => Aged(y).age <= Aged(x).age
<1>1. OldAge \in Nat
  BY LineageAssumption DEF OldAge
<1> QED BY <1>1 DEF Aged, Retirements

\* Every field of the catalogue stays in its set.
THEOREM LineageTyped == KSpec => []KTypeOK
<1>1. KInit => KTypeOK
  BY DEF KInit, KTypeOK
<1>2. KTypeOK /\ [KNext]_kvars => KTypeOK'
  <2> SUFFICES ASSUME KTypeOK, [KNext]_kvars PROVE KTypeOK'
    OBVIOUS
  <2> USE DEF KTypeOK
  <2>1. ASSUME NEW p \in PackIds, StorePack(p) PROVE KTypeOK'
    BY <2>1 DEF StorePack
  <2>2. ASSUME NEW p \in PackIds, DiscardPack(p) PROVE KTypeOK'
    BY <2>2 DEF DiscardPack
  <2>3. ASSUME NEW p \in PackIds, Extend(p) PROVE KTypeOK'
    BY <2>3, ElemsAppend DEF Extend
  <2>4. ASSUME NEW p \in PackIds, ReplaceBase(p) PROVE KTypeOK'
    <3>1. RetiredFrom(0) \in Retirements
      BY RetiredTyped
    <3>2. <<p>> \in Seq(PackIds)
      OBVIOUS
    <3> QED BY <2>4, <3>1, <3>2 DEF ReplaceBase, Retirements
  <2>5. ASSUME NEW p \in PackIds, NEW n \in 1..Len(chain), CompactFrom(n, p)
        PROVE  KTypeOK'
    <3>1. RetiredFrom(n) \in Retirements
      BY RetiredTyped
    <3>2. Append(SubSeq(chain, 1, n), p) \in Seq(PackIds)
      BY ElemsCut, ElemsAppend
    <3> QED BY <2>5, <3>1, <3>2 DEF CompactFrom, Retirements
  <2>6. CASE SweepFiles
    BY <2>6 DEF SweepFiles
  <2>7. CASE SweepRows
    BY <2>7 DEF SweepRows, SweptRows
  <2>8. CASE SweepCut
    BY <2>8 DEF SweepCut
  <2>9. CASE Clock
    BY <2>9, AgedTyped DEF Clock, Retirements
  <2>10. CASE UNCHANGED kvars
    BY <2>10 DEF kvars
  <2> QED
    BY <2>1, <2>2, <2>3, <2>4, <2>5, <2>6, <2>7, <2>8, <2>9, <2>10 DEF KNext
<1> QED
  BY <1>1, <1>2, PTL DEF KSpec

\* The packs of every retired chain are found in the chain or with a younger
\* retirement, and nothing younger than the delete lag leaves the disk.
THEOREM LineageInductive == KSpec => []KInv
<1>1. KInit => KInv
  BY DEF KInit, KInv, LagKept, Elems
<1>2. KTypeOK /\ KInv /\ [KNext]_kvars => KInv'
  <2> SUFFICES ASSUME KTypeOK, KInv, [KNext]_kvars PROVE KInv'
    OBVIOUS
  <2>0. OldAge \in Nat /\ OldAge >= 0
    BY LineageAssumption DEF OldAge
  <2>1. ASSUME NEW p \in PackIds, StorePack(p) PROVE KInv'
    BY <2>1 DEF StorePack, KInv, LagKept, OwnOf
  <2>2. ASSUME NEW p \in PackIds, DiscardPack(p) PROVE KInv'
    <3>1. \A x \in kept : p \notin x.own
      BY <2>2 DEF DiscardPack, Pinned, OwnOf
    <3>2. p \notin Elems(chain)
      BY <2>2 DEF DiscardPack, Pinned
    <3> QED BY <2>2, <3>1, <3>2 DEF DiscardPack, KInv, LagKept, OwnOf
  <2>3. ASSUME NEW p \in PackIds, Extend(p) PROVE KInv'
    <3>1. Elems(chain') = Elems(chain) \cup {p}
      BY <2>3, ElemsAppend DEF Extend, KTypeOK
    <3> QED BY <2>3, <3>1 DEF Extend, KInv, LagKept, OwnOf
  <2>4. ASSUME NEW p \in PackIds, NEW n \in 0..Len(chain),
               Elems(chain) \subseteq Elems(chain') \cup RetiredFrom(n).own,
               Elems(chain') \subseteq disk,
               \/ kept' = kept \cup {RetiredFrom(n)}
               \/ kept' = {x \in kept : x.age < OldAge} \cup {RetiredFrom(n)},
               UNCHANGED <<disk, doomed>>
        PROVE  KInv'
    <3> DEFINE z == RetiredFrom(n)
    <3>1. /\ z \in kept' /\ z.age = 0 /\ z.man = chain
          /\ z.own \subseteq Elems(chain)
      BY <2>4, ElemsCut DEF RetiredFrom, KTypeOK
    <3>2. \A x \in kept' : x \in kept \/ x = z
      BY <2>4
    <3>3. \A x \in kept : x.age < OldAge => x \in kept'
      BY <2>4
    <3>4. \A x \in kept : x.age \in Nat
      BY <2>0 DEF KTypeOK
    <3>5. ASSUME NEW x \in kept', x.age < OldAge
          PROVE  Elems(x.man) \subseteq
                   Elems(chain') \cup OwnOf({y \in kept' : y.age <= x.age})
      <4>1. CASE x = z
        BY <4>1, <3>1, <2>4 DEF OwnOf
      <4>2. CASE x \in kept
        <5>1. Elems(x.man) \subseteq
                Elems(chain) \cup OwnOf({y \in kept : y.age <= x.age})
          BY <4>2, <3>5 DEF KInv
        <5>2. OwnOf({y \in kept : y.age <= x.age}) \subseteq
                OwnOf({y \in kept' : y.age <= x.age})
          BY <3>3, <3>4, <3>5, <4>2, <2>0 DEF OwnOf
        <5>3. z.own \subseteq OwnOf({y \in kept' : y.age <= x.age})
          BY <3>1, <3>4, <4>2 DEF OwnOf
        <5> QED BY <5>1, <5>2, <5>3, <2>4
      <4> QED BY <3>2, <4>1, <4>2
    <3>6. \A x \in kept' : x.age < OldAge => x.own \subseteq disk
      BY <3>1, <3>2 DEF KInv, LagKept
    <3> QED BY <2>4, <3>5, <3>6 DEF KInv, LagKept
  <2>5. ASSUME NEW p \in PackIds, ReplaceBase(p) PROVE KInv'
    <3>1. /\ Elems(chain) \subseteq Elems(chain') \cup RetiredFrom(0).own
          /\ Elems(chain') = {p}
      <4>1. chain' = <<p>> /\ SubSeq(chain, 0 + 1, Len(chain)) = chain
        BY <2>5 DEF ReplaceBase, KTypeOK
      <4>2. Elems(<<p>>) = {p}
        BY DEF Elems
      <4> QED BY <4>1, <4>2 DEF RetiredFrom
    <3> QED BY <2>4, <2>5, <3>1 DEF ReplaceBase, KTypeOK
  <2>6. ASSUME NEW p \in PackIds, NEW n \in 1..Len(chain), CompactFrom(n, p)
        PROVE  KInv'
    <3>1. n \in 0..Len(chain) /\ chain \in Seq(PackIds)
      BY DEF KTypeOK
    <3>2. Elems(chain') = Elems(SubSeq(chain, 1, n)) \cup {p}
      BY <2>6, <3>1, ElemsCut, ElemsAppend DEF CompactFrom
    <3>3. /\ Elems(chain) \subseteq Elems(chain') \cup RetiredFrom(n).own
          /\ Elems(chain') \subseteq disk
      BY <2>6, <3>1, <3>2, ElemsCut DEF CompactFrom, RetiredFrom, KInv
    <3> QED BY <2>4, <2>6, <3>1, <3>3 DEF CompactFrom
  <2>7. CASE SweepFiles
    <3>1. \A x \in kept : x.age < OldAge => x \in kept \ doomed'
      BY <2>7, <2>0 DEF SweepFiles, KTypeOK
    <3>2. \A x \in kept : x.age < OldAge => x.own \subseteq Pinned(doomed')
      BY <3>1 DEF Pinned, OwnOf
    <3>3. Elems(chain) \subseteq disk'
      BY <2>7 DEF SweepFiles, Pinned, KInv
    <3>4. LagKept'
      BY <2>7, <3>2 DEF SweepFiles, LagKept, KInv
    <3> QED BY <2>7, <3>3, <3>4 DEF SweepFiles, KInv
  <2>8. CASE SweepRows
    <3>1. \A x \in kept : x.age < OldAge => x \in kept'
      BY <2>8, <2>0 DEF SweepRows, SweptRows, KInv, KTypeOK
    <3>2. ASSUME NEW x \in kept', x.age < OldAge
          PROVE  Elems(x.man) \subseteq
                   Elems(chain) \cup OwnOf({y \in kept' : y.age <= x.age})
      <4>1. x \in kept
        BY <2>8 DEF SweepRows, SweptRows
      <4>2. \A y \in kept : y.age \in Nat
        BY <2>0 DEF KTypeOK
      <4>3. \A y \in kept : y.age <= x.age => y \in kept'
        BY <3>1, <3>2, <4>1, <4>2, <2>0
      <4> QED BY <4>1, <4>3, <3>2 DEF KInv, OwnOf
    <3> QED BY <2>8, <3>2 DEF SweepRows, SweptRows, KInv, LagKept
  <2>9. CASE SweepCut
    BY <2>9 DEF SweepCut, KInv, LagKept
  <2>10. CASE Clock
    <3>0. kept \subseteq Retirements /\ doomed \subseteq Retirements
      BY DEF KTypeOK, Retirements
    <3>00. \A x \in Retirements : x.age \in Nat
      BY <2>0 DEF Retirements
    <3>1. \A x \in doomed' : x.age >= OldAge
      BY <2>10, <3>0, AgedTyped DEF Clock, KInv
    <3>2. ASSUME NEW x \in kept', x.age < OldAge
          PROVE  /\ Elems(x.man) \subseteq
                      Elems(chain) \cup OwnOf({y \in kept' : y.age <= x.age})
                 /\ x.own \subseteq disk
      <4>1. PICK w \in kept : x = Aged(w)
        BY <2>10 DEF Clock
      <4>2. /\ w \in Retirements /\ w.age < OldAge
            /\ x.man = w.man /\ x.own = w.own
        BY <4>1, <3>0, <3>00, <3>2, <2>0, AgedTyped
      <4>3. \A y \in kept : y.age <= w.age =>
              /\ Aged(y) \in kept' /\ Aged(y).own = y.own
              /\ Aged(y).age <= x.age
        BY <4>1, <4>2, <3>0, <2>10, AgedTyped DEF Clock
      <4>4. OwnOf({y \in kept : y.age <= w.age}) \subseteq
              OwnOf({y \in kept' : y.age <= x.age})
        BY <4>3 DEF OwnOf
      <4> QED BY <4>2, <4>4 DEF KInv, LagKept
    <3> QED BY <2>10, <3>1, <3>2 DEF Clock, KInv, LagKept
  <2>11. CASE UNCHANGED kvars
    BY <2>11 DEF kvars, KInv, LagKept
  <2> QED
    BY <2>1, <2>2, <2>3, <2>5, <2>6, <2>7, <2>8, <2>9, <2>10, <2>11 DEF KNext
<1> QED
  BY <1>1, <1>2, LineageTyped, PTL DEF KSpec

\* What a client was given it can fetch until the retention is over.
THEOREM PromiseHolds == KSpec => []PromiseKept
<1>1. KTypeOK /\ KInv => PromiseKept
  <2> SUFFICES ASSUME KTypeOK, KInv PROVE PromiseKept
    OBVIOUS
  <2>0. KeepFor \in Nat /\ OldAge \in Nat /\ KeepFor <= OldAge
    BY LineageAssumption DEF OldAge
  <2>1. \A x \in kept : x.age \in Nat
    BY <2>0 DEF KTypeOK
  <2>2. Elems(chain) \subseteq Offered \cap disk
    BY DEF Offered, KInv
  <2>3. ASSUME NEW x \in kept, ~Lapsed(x)
        PROVE  Elems(x.man) \subseteq Offered \cap disk
    <3>1. x.age < KeepFor /\ x.age < OldAge
      BY <2>0, <2>1, <2>3 DEF Lapsed
    <3>2. \A y \in kept : y.age <= x.age => ~Lapsed(y) /\ y.own \subseteq disk
      BY <3>1, <2>0, <2>1 DEF Lapsed, KInv, LagKept
    <3>3. OwnOf({y \in kept : y.age <= x.age}) \subseteq Offered \cap disk
      BY <3>2 DEF OwnOf, Offered
    <3> QED BY <3>1, <3>3, <2>2 DEF KInv
  <2> QED BY <2>2, <2>3 DEF PromiseKept
<1> QED
  BY <1>1, LineageTyped, LineageInductive, PTL

\* What was looked up in time can be opened.
THEOREM LagHolds == KSpec => []LagKept
<1>1. KInv => LagKept
  BY DEF KInv
<1> QED
  BY <1>1, LineageInductive, PTL

=============================================================================
