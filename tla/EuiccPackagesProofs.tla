------------------------- MODULE EuiccPackagesProofs -------------------------
(***************************************************************************)
(* Lemmas about EuiccPackages for every set of eIMs, ICCIDs and packages:  *)
(* what executing a package does to slots, associations and counters.      *)
(***************************************************************************)
EXTENDS EuiccPackages, NatSetInduction, TLAPS

\* No two associations of one eIM.
Unique(assocs) ==
  \A k, l \in DOMAIN assocs : assocs[k].eim_id = assocs[l].eim_id => k = l

Known(assocs, e) == \E k \in DOMAIN assocs : assocs[k].eim_id = e

----------------------------------------------------------------------------
(* Associations.                                                           *)

\* The association that is looked up is there, is the eIM's, and with no second
\* one it is the only one.
LEMMA FirstIs ==
  ASSUME NEW assocs \in Seq(EimAssociation), NEW e, Known(assocs, e)
  PROVE  /\ First(assocs, e) \in 1..Len(assocs)
         /\ assocs[First(assocs, e)].eim_id = e
         /\ Unique(assocs) => \A k \in DOMAIN assocs :
                                assocs[k].eim_id = e => k = First(assocs, e)
<1> DEFINE A == Associated(assocs, e)
<1>1. A \subseteq Nat /\ A # {} /\ A \subseteq 1..Len(assocs)
  BY DEF Associated, Known
<1>2. PICK k \in A : \A j \in A : ~ (<<j, k>> \in OpToRel(<, Nat))
  <2> HIDE DEF A
  <2> QED  BY <1>1, WFMin, NatLessThanWellFounded
<1>3. \A j \in A : k <= j
  <2> HIDE DEF A
  <2>1. SUFFICES ASSUME NEW j \in A, j < k PROVE FALSE
    BY <1>1
  <2>2. <<j, k>> \in OpToRel(<, Nat)
    BY <1>1, <2>1 DEF OpToRel
  <2> QED  BY <1>2, <2>2
<1>4. First(assocs, e) \in A
  BY <1>3 DEF First
<1> QED  BY <1>1, <1>4 DEF Associated, Unique

LEMMA CounterTaken ==
  ASSUME NEW assocs \in Seq(EimAssociation), NEW e, Known(assocs, e),
         NEW c \in 0..MaxCounter
  PROVE  LET new == WithCounter(assocs, e, c) IN
         /\ new \in Seq(EimAssociation) /\ Len(new) = Len(assocs)
         /\ \A k \in 1..Len(assocs) : new[k].eim_id = assocs[k].eim_id
         /\ \A k \in 1..Len(assocs) :
              new[k].counter_value = IF k = First(assocs, e) THEN c
                                     ELSE assocs[k].counter_value
<1> DEFINE f == First(assocs, e)
           new == [assocs EXCEPT ![f].counter_value = c]
<1>1. f \in 1..Len(assocs)
  BY FirstIs
<1> HIDE DEF f
<1>2. \A k \in 1..Len(assocs) : assocs[k] \in EimAssociation
  OBVIOUS
<1>3. [assocs[f] EXCEPT !.counter_value = c] \in EimAssociation
  BY <1>1, <1>2 DEF EimAssociation
<1>4. new \in Seq(EimAssociation) /\ Len(new) = Len(assocs)
  BY <1>1, <1>3
<1>5. \A k \in 1..Len(assocs) : new[k] = IF k = f THEN [assocs[f] EXCEPT !.counter_value = c]
                                         ELSE assocs[k]
  BY <1>1
<1>6. \A k \in 1..Len(assocs) :
        /\ new[k].eim_id = assocs[k].eim_id
        /\ new[k].counter_value = IF k = f THEN c ELSE assocs[k].counter_value
  BY <1>1, <1>2, <1>5 DEF EimAssociation
<1> QED  BY <1>4, <1>6 DEF WithCounter, f

LEMMA Removed ==
  ASSUME NEW assocs \in Seq(EimAssociation), NEW e, Known(assocs, e)
  PROVE  LET new == Without(assocs, e)
             f   == First(assocs, e) IN
         /\ new \in Seq(EimAssociation) /\ Len(new) = Len(assocs) - 1
         /\ \A k \in 1..(Len(assocs) - 1) :
              new[k] = IF k < f THEN assocs[k] ELSE assocs[k + 1]
<1> DEFINE f == First(assocs, e)
           L == Len(assocs)
           A == SubSeq(assocs, 1, f - 1)
           B == SubSeq(assocs, f + 1, L)
<1>1. f \in 1..L /\ L \in Nat
  BY FirstIs
<1> HIDE DEF f
<1>2. /\ A \in Seq(EimAssociation) /\ Len(A) = f - 1
      /\ \A m \in 1..(f - 1) : A[m] = assocs[m]
  BY <1>1
<1>3. /\ B \in Seq(EimAssociation) /\ Len(B) = L - f
      /\ \A m \in 1..(L - f) : B[m] = assocs[m + f]
  BY <1>1
<1> HIDE DEF A, B
<1>4. /\ A \o B \in Seq(EimAssociation) /\ Len(A \o B) = L - 1
      /\ \A k \in 1..(L - 1) : (A \o B)[k] = IF k < f THEN assocs[k] ELSE assocs[k + 1]
  <2>1. A \o B \in Seq(EimAssociation) /\ Len(A \o B) = L - 1
    <3>1. A \o B \in Seq(EimAssociation)
      BY <1>2, <1>3
    <3>2. Len(A \o B) = Len(A) + Len(B)
      BY <1>2, <1>3
    <3> QED  BY <1>1, <1>2, <1>3, <3>1, <3>2
  <2>2. ASSUME NEW k \in 1..(L - 1)
        PROVE  (A \o B)[k] = IF k < f THEN assocs[k] ELSE assocs[k + 1]
    <3>1. CASE k < f
      <4>1. k \in 1..(f - 1) /\ k <= Len(A)
        BY <1>1, <1>2, <3>1
      <4>2. (A \o B)[k] = A[k]
        BY <1>1, <1>2, <1>3, <4>1
      <4> QED  BY <1>2, <3>1, <4>1, <4>2
    <3>2. CASE ~ (k < f)
      <4>1. k - (f - 1) \in 1..(L - f) /\ ~ (k <= Len(A)) /\ k \in 1..(Len(A) + Len(B))
            /\ (k - (f - 1)) + f = k + 1
        BY <1>1, <1>2, <1>3, <3>2
      <4>2. (A \o B)[k] = B[k - (f - 1)]
        BY <1>1, <1>2, <1>3, <4>1
      <4>3. B[k - (f - 1)] = assocs[(k - (f - 1)) + f]
        BY <1>3, <4>1
      <4> QED  BY <3>2, <4>1, <4>2, <4>3
    <3> QED  BY <3>1, <3>2
  <2> QED  BY <2>1, <2>2
<1>5. Without(assocs, e) = A \o B
  BY DEF Without, A, B, f
<1> QED  BY <1>4, <1>5 DEF f

----------------------------------------------------------------------------
(* Configuration operations.                                               *)

Ecos == UNION {{p.ecoList[k] : k \in DOMAIN p.ecoList} : p \in Packages}

Added ==
  {a.eim_id : a \in Addable} \cup {o.eimId : o \in {o \in Ecos : o.action = "addEim"}}

Deleted ==
  Deletable \cup {o.eimId : o \in {o \in Ecos : o.action = "deleteEim"}}

\* No eIM is both added and deleted, and no counter is set back by an update.
AssociationsLast ==
  /\ Added \cap Deleted = {}
  /\ \A o \in Ecos : o.action = "updateEim" => o.counterValue = NoCounter

\* An operation that occurs when associations last.
Lasting(eco) ==
  /\ AssociationsLast
  /\ eco.action = "addEim" => eco.eimId \in Added
  /\ eco.action = "deleteEim" => eco.eimId \in Deleted
  /\ eco.action = "updateEim" => eco.counterValue = NoCounter

\* The associations are ahead of the packages in D, and there unless deleted.
Settled(assocs, D) ==
  /\ \A p \in D, k \in DOMAIN assocs :
       assocs[k].eim_id = p.eimId => p.counterValue <= assocs[k].counter_value
  /\ \A p \in D : p.eimId \notin Deleted => Known(assocs, p.eimId)

LEMMA EcoEffect ==
  ASSUME NEW assocs \in Seq(EimAssociation), Unique(assocs), NEW eco \in Eco,
         EcoSucceeds(eco, assocs), NEW D
  PROVE  /\ AssociationsAfter(eco, assocs) \in Seq(EimAssociation)
         /\ Unique(AssociationsAfter(eco, assocs))
         /\ assocs # <<>> => AssociationsAfter(eco, assocs) # <<>>
         /\ Lasting(eco) /\ Settled(assocs, D) => Settled(AssociationsAfter(eco, assocs), D)
<1> DEFINE new == AssociationsAfter(eco, assocs)
           L == Len(assocs)
<1>1. /\ L \in Nat /\ DOMAIN assocs = 1..L /\ \A k \in 1..L : assocs[k] \in EimAssociation
      /\ eco.eimId \in EimIds /\ eco.counterValue \in {NoCounter} \cup 0..MaxCounter
      /\ eco.action \in {"addEim", "deleteEim", "updateEim", "listEim"}
  BY DEF Eco
<1>2. CASE eco.action = "addEim"
  <2> DEFINE a == [eim_id        |-> eco.eimId,
                   counter_value |-> IF eco.counterValue = NoCounter THEN 0
                                     ELSE eco.counterValue]
  <2>1. a \in EimAssociation /\ a.eim_id = eco.eimId
    BY <1>1, PackagesAssumption DEF EimAssociation
  <2>2. new = Append(assocs, a)
    BY <1>2 DEF AssociationsAfter
  <2>3. ~ Known(assocs, eco.eimId)
    BY <1>2 DEF EcoSucceeds, Associated, Known
  <2> HIDE DEF a, new
  <2>4. /\ new \in Seq(EimAssociation) /\ Len(new) = L + 1 /\ DOMAIN new = 1..(L + 1)
        /\ \A k \in 1..L : new[k] = assocs[k]
        /\ new[L + 1] = a
    BY <1>1, <2>1, <2>2
  <2>5. Unique(new)
    <3>1. \A k \in 1..(L + 1) : k \in 1..L \/ k = L + 1
      BY <1>1
    <3>2. \A k \in 1..L : new[k].eim_id # eco.eimId
      BY <1>1, <2>3, <2>4 DEF Known
    <3> QED  BY <1>1, <2>1, <2>4, <3>1, <3>2 DEF Unique
  <2>6. new # <<>>
    BY <1>1, <2>4
  <2>7. ASSUME Lasting(eco), Settled(assocs, D) PROVE Settled(new, D)
    <3>1. \A p \in D : p.eimId # eco.eimId
      BY <1>2, <2>3, <2>7 DEF Lasting, Settled, AssociationsLast
    <3>2. \A k \in 1..(L + 1) : k \in 1..L \/ k = L + 1
      BY <1>1
    <3>3. \A p \in D, k \in 1..(L + 1) :
            new[k].eim_id = p.eimId => p.counterValue <= new[k].counter_value
      BY <1>1, <2>1, <2>4, <2>7, <3>1, <3>2 DEF Settled
    <3>4. \A e : Known(assocs, e) => Known(new, e)
      BY <1>1, <2>4 DEF Known
    <3> QED  BY <2>4, <2>7, <3>3, <3>4 DEF Settled
  <2> QED  BY <2>4, <2>5, <2>6, <2>7 DEF new
<1>3. CASE eco.action = "deleteEim"
  <2> DEFINE f == First(assocs, eco.eimId)
  <2>1. new = Without(assocs, eco.eimId)
    BY <1>3 DEF AssociationsAfter
  <2>2. Known(assocs, eco.eimId) /\ L > 1
    BY <1>3 DEF EcoSucceeds, Associated, Known
  <2>3. f \in 1..L /\ assocs[f].eim_id = eco.eimId
    BY <2>2, FirstIs
  <2>4. /\ new \in Seq(EimAssociation) /\ Len(new) = L - 1
        /\ \A k \in 1..(L - 1) : new[k] = IF k < f THEN assocs[k] ELSE assocs[k + 1]
    BY <2>1, <2>2, Removed
  <2> HIDE DEF f, new
  <2> DEFINE From(k) == IF k < f THEN k ELSE k + 1
  <2>5. DOMAIN new = 1..(L - 1) /\ L - 1 \in Nat /\ L - 1 > 0
    BY <1>1, <2>2, <2>4
  <2>6. /\ \A k \in 1..(L - 1) : From(k) \in 1..L /\ new[k] = assocs[From(k)]
        /\ \A k, l \in 1..(L - 1) : From(k) = From(l) => k = l
        /\ \A j \in 1..L : j # f => \E k \in 1..(L - 1) : From(k) = j
    <3>1. \A k \in 1..(L - 1) : From(k) \in 1..L
      BY <1>1, <2>3
    <3>2. \A k \in 1..(L - 1) : new[k] = assocs[From(k)]
      BY <2>4
    <3>3. \A k, l \in 1..(L - 1) : From(k) = From(l) => k = l
      BY <1>1, <2>3
    <3>4. ASSUME NEW j \in 1..L, j # f PROVE \E k \in 1..(L - 1) : From(k) = j
      <4>1. CASE j < f
        <5>1. j \in 1..(L - 1) /\ From(j) = j  BY <1>1, <2>3, <4>1
        <5> QED  BY <5>1
      <4>2. CASE ~ (j < f)
        <5>1. j - 1 \in 1..(L - 1) /\ ~ (j - 1 < f) /\ (j - 1) + 1 = j
          BY <1>1, <2>3, <3>4, <4>2
        <5> QED  BY <5>1
      <4> QED  BY <4>1, <4>2
    <3> QED  BY <3>1, <3>2, <3>3, <3>4
  <2> HIDE DEF From
  <2>7. Unique(new)
    BY <1>1, <2>5, <2>6 DEF Unique
  <2>8. new # <<>>
    BY <2>4, <2>5
  <2>9. ASSUME Lasting(eco), Settled(assocs, D) PROVE Settled(new, D)
    <3>1. \A p \in D, k \in 1..(L - 1) :
            new[k].eim_id = p.eimId => p.counterValue <= new[k].counter_value
      BY <1>1, <2>6, <2>9 DEF Settled
    <3>2. ASSUME NEW p \in D, p.eimId \notin Deleted PROVE Known(new, p.eimId)
      <4>1. PICK j \in 1..L : assocs[j].eim_id = p.eimId
        BY <1>1, <2>9, <3>2 DEF Settled, Known
      <4>2. j # f
        BY <1>3, <2>3, <2>9, <3>2, <4>1 DEF Lasting
      <4>3. PICK k \in 1..(L - 1) : From(k) = j
        BY <2>6, <4>2
      <4> QED  BY <2>5, <2>6, <4>1, <4>3 DEF Known
    <3> QED  BY <2>5, <3>1, <3>2 DEF Settled
  <2> QED  BY <2>4, <2>7, <2>8, <2>9 DEF new
<1>4. CASE eco.action = "updateEim" /\ eco.counterValue # NoCounter
  <2>1. new = WithCounter(assocs, eco.eimId, eco.counterValue)
    BY <1>4 DEF AssociationsAfter
  <2>2. Known(assocs, eco.eimId) /\ eco.counterValue \in 0..MaxCounter
    BY <1>1, <1>4 DEF EcoSucceeds, Associated, Known
  <2>3. /\ new \in Seq(EimAssociation) /\ Len(new) = L
        /\ \A k \in 1..L : new[k].eim_id = assocs[k].eim_id
    BY <2>1, <2>2, CounterTaken
  <2> HIDE DEF new
  <2>4. Unique(new)
    BY <1>1, <2>3 DEF Unique
  <2>5. assocs # <<>> => new # <<>>
    BY <1>1, <2>3
  <2>6. ~ Lasting(eco)
    BY <1>4 DEF Lasting
  <2> QED  BY <2>3, <2>4, <2>5, <2>6 DEF new
<1>5. CASE \/ eco.action = "listEim"
           \/ eco.action = "updateEim" /\ eco.counterValue = NoCounter
  <2>1. new = assocs
    BY <1>5 DEF AssociationsAfter
  <2> QED  BY <2>1
<1>6. eco.action \in {"addEim", "deleteEim", "updateEim", "listEim"}
  BY DEF Eco
<1>7. \/ eco.action = "addEim" \/ eco.action = "deleteEim"
      \/ eco.action = "updateEim" /\ eco.counterValue # NoCounter
      \/ eco.action = "listEim"
      \/ eco.action = "updateEim" /\ eco.counterValue = NoCounter
  BY <1>6
<1> QED  BY <1>2, <1>3, <1>4, <1>5, <1>7, Zenon

----------------------------------------------------------------------------
(* Profile state operations.                                               *)

LEMMA PsmoEffect ==
  ASSUME NEW s \in [Iccids -> SlotState], AtMostOneIn(s), NEW psmo \in Psmo,
         PsmoSucceeds(psmo, s)
  PROVE  SlotsAfter(psmo, s) \in [Iccids -> SlotState] /\ AtMostOneIn(SlotsAfter(psmo, s))
<1>1. psmo.iccid \in Iccids
  BY DEF Psmo
<1>2. CASE psmo.action = "enable"
  <2>1. SlotsAfter(psmo, s) = [i \in Iccids |-> IF i = psmo.iccid THEN "enabled"
                                 ELSE IF s[i] = "enabled" THEN "disabled" ELSE s[i]]
    BY <1>2 DEF SlotsAfter
  <2> QED  BY <1>1, <2>1 DEF AtMostOneIn, SlotState
<1>3. CASE psmo.action \in {"disable", "delete"}
  <2>1. PICK t \in {"disabled", "absent"} : SlotsAfter(psmo, s) = [s EXCEPT ![psmo.iccid] = t]
    BY <1>3 DEF SlotsAfter
  <2> QED  BY <1>1, <2>1 DEF AtMostOneIn, SlotState
<1>4. CASE psmo.action \notin {"enable", "disable", "delete"}
  <2>1. SlotsAfter(psmo, s) = s
    BY <1>4 DEF SlotsAfter
  <2> QED  BY <2>1
<1> QED  BY <1>2, <1>3, <1>4

Card ==
  [slots : [Iccids -> SlotState], assocs : Seq(EimAssociation), results : Seq(OpResult)]

\* What holds of a card between two operations.
CardOK(card) ==
  card \in Card /\ AtMostOneIn(card.slots) /\ Unique(card.assocs)

LEMMA OnePsmo ==
  ASSUME NEW card, CardOK(card), NEW psmo \in Psmo
  PROVE  CardOK(ExecutePsmo(card, psmo)) /\ ExecutePsmo(card, psmo).assocs = card.assocs
<1>1. card \in Card /\ AtMostOneIn(card.slots) /\ Unique(card.assocs)
  BY DEF CardOK
<1>2. /\ card.slots \in [Iccids -> SlotState] /\ card.assocs \in Seq(EimAssociation)
      /\ card.results \in Seq(OpResult)
  BY <1>1 DEF Card
<1>3. CASE PsmoSucceeds(psmo, card.slots)
  <2> DEFINE new == [card EXCEPT !.slots = SlotsAfter(psmo, card.slots),
                                 !.results = Append(card.results, "ok")]
  <2>1. ExecutePsmo(card, psmo) = new
    BY <1>3 DEF ExecutePsmo
  <2>2. Append(card.results, "ok") \in Seq(OpResult)
    BY <1>2 DEF OpResult
  <2>3. /\ SlotsAfter(psmo, card.slots) \in [Iccids -> SlotState]
        /\ AtMostOneIn(SlotsAfter(psmo, card.slots))
    BY <1>1, <1>2, <1>3, PsmoEffect
  <2>4. /\ new.slots = SlotsAfter(psmo, card.slots) /\ new.assocs = card.assocs
        /\ new \in Card
    BY <1>1, <2>2, <2>3 DEF Card
  <2> HIDE DEF new
  <2> QED  BY <1>1, <2>1, <2>3, <2>4 DEF CardOK
<1>4. CASE ~ PsmoSucceeds(psmo, card.slots)
  <2>1. PICK r \in OpResult : ExecutePsmo(card, psmo) =
                                [card EXCEPT !.results = Append(card.results, r)]
    BY <1>4 DEF ExecutePsmo, OpResult
  <2> DEFINE new == [card EXCEPT !.results = Append(card.results, r)]
  <2>2. Append(card.results, r) \in Seq(OpResult)
    BY <1>2
  <2>3. new.slots = card.slots /\ new.assocs = card.assocs /\ new \in Card
    BY <1>1, <2>2 DEF Card
  <2> HIDE DEF new
  <2> QED  BY <1>1, <2>1, <2>3 DEF CardOK, new
<1> QED  BY <1>3, <1>4

LEMMA OneEco ==
  ASSUME NEW card, CardOK(card), NEW eco \in Eco, NEW D
  PROVE  LET new == ExecuteEco(card, eco) IN
         /\ CardOK(new) /\ new.slots = card.slots
         /\ card.assocs # <<>> => new.assocs # <<>>
         /\ Lasting(eco) /\ Settled(card.assocs, D) => Settled(new.assocs, D)
<1>1. card \in Card /\ AtMostOneIn(card.slots) /\ Unique(card.assocs)
  BY DEF CardOK
<1>2. /\ card.slots \in [Iccids -> SlotState] /\ card.assocs \in Seq(EimAssociation)
      /\ card.results \in Seq(OpResult)
  BY <1>1 DEF Card
<1>3. CASE EcoSucceeds(eco, card.assocs)
  <2> DEFINE after == AssociationsAfter(eco, card.assocs)
             new == [card EXCEPT !.assocs = after, !.results = Append(card.results, "ok")]
  <2>1. ExecuteEco(card, eco) = new
    BY <1>3 DEF ExecuteEco
  <2>2. Append(card.results, "ok") \in Seq(OpResult)
    BY <1>2 DEF OpResult
  <2>3. /\ after \in Seq(EimAssociation) /\ Unique(after)
        /\ card.assocs # <<>> => after # <<>>
        /\ Lasting(eco) /\ Settled(card.assocs, D) => Settled(after, D)
    BY <1>1, <1>2, <1>3, EcoEffect
  <2> HIDE DEF after
  <2>4. new.slots = card.slots /\ new.assocs = after /\ new \in Card
    BY <1>1, <2>2, <2>3 DEF Card
  <2> HIDE DEF new
  <2> QED  BY <1>1, <2>1, <2>3, <2>4 DEF CardOK
<1>4. CASE ~ EcoSucceeds(eco, card.assocs)
  <2> DEFINE new == [card EXCEPT !.results = Append(card.results, "error")]
  <2>1. ExecuteEco(card, eco) = new
    BY <1>4 DEF ExecuteEco
  <2>2. Append(card.results, "error") \in Seq(OpResult)
    BY <1>2 DEF OpResult
  <2>3. new.slots = card.slots /\ new.assocs = card.assocs /\ new \in Card
    BY <1>1, <2>2 DEF Card
  <2> HIDE DEF new
  <2> QED  BY <1>1, <2>1, <2>3 DEF CardOK
<1> QED  BY <1>3, <1>4

----------------------------------------------------------------------------
(* Packages.                                                               *)

\* The PSMOs of a package leave the associations to its eCOs.
LEMMA PsmosEffect ==
  ASSUME NEW card, CardOK(card), NEW psmos \in Seq(Psmo)
  PROVE  CardOK(ExecutePsmos(card, psmos)) /\ ExecutePsmos(card, psmos).assocs = card.assocs
<1> DEFINE n == Len(psmos)
           X == {c \in Card : CardOK(c) /\ c.assocs = card.assocs}
           G == [y \in (1..n) \X X |-> ExecutePsmo(y[2], psmos[y[1]])]
           Step(h) == [k \in 0..n |-> IF k = 0 THEN card ELSE ExecutePsmo(h[k - 1], psmos[k])]
           After == CHOOSE h : h = Step(h)
<1>1. n \in Nat /\ card \in X /\ \A k \in 1..n : psmos[k] \in Psmo
  BY DEF CardOK
<1>2. \A c \in X, k \in 1..n : ExecutePsmo(c, psmos[k]) \in X
  <2> TAKE c \in X, k \in 1..n
  <2>1. CardOK(c) /\ c.assocs = card.assocs /\ psmos[k] \in Psmo
    BY <1>1
  <2>2. /\ CardOK(ExecutePsmo(c, psmos[k]))
        /\ ExecutePsmo(c, psmos[k]).assocs = card.assocs
    BY <2>1, OnePsmo
  <2> QED  BY <2>2 DEF CardOK
<1> HIDE DEF X
<1>3. /\ G \in [(1..n) \X X -> X]
      /\ \A k \in 1..n, c \in X : G[<<k, c>>] = ExecutePsmo(c, psmos[k])
  BY <1>2
<1> HIDE DEF G, n
<1>4. n \in Nat /\ card \in X /\ G \in [(1..n) \X X -> X]
  BY <1>1, <1>3
<1>5. /\ \E g \in [0..n -> X] : Iterates(g, card, n, G, X)
      /\ \A h : Iterates(h, card, n, G, X) => \A k \in 0..n : h[k] \in X
  BY <1>4, Iteration
<1>6. PICK g \in [0..n -> X] : Iterates(g, card, n, G, X)
  BY <1>5
<1>7. g = Step(g)
  <2>1. \A k \in 1..n : g[k - 1] \in X
    BY <1>1
  <2>2. g[0] = card /\ \A k \in 1..n : g[k] = ExecutePsmo(g[k - 1], psmos[k])
    BY <1>3, <1>6, <2>1 DEF Iterates
  <2> QED  BY <1>1, <1>6, <2>2
<1>8. After = Step(After)
  BY <1>7
<1> HIDE DEF After
<1>9. After[0] = card /\ \A k \in 1..n : After[k] = ExecutePsmo(After[k - 1], psmos[k])
  BY <1>1, <1>8
<1>10. Iterates(After, card, n, G, X)
  BY <1>3, <1>9 DEF Iterates
<1>11. After[n] \in X
  <2>1. \A k \in 0..n : After[k] \in X
    BY <1>5, <1>10
  <2> QED  BY <1>1, <2>1
<1>12. ExecutePsmos(card, psmos) = After[n]
  BY DEF ExecutePsmos, After, n
<1> QED  BY <1>11, <1>12 DEF X

\* The eCOs of a package leave the slots, never the last association, and, when
\* associations last, those that are ahead of the packages in D.
LEMMA EcosEffect ==
  ASSUME NEW card, CardOK(card), NEW ecos \in Seq(Eco), NEW D
  PROVE  LET new == ExecuteEcos(card, ecos) IN
         /\ CardOK(new) /\ new.slots = card.slots
         /\ card.assocs # <<>> => new.assocs # <<>>
         /\ (\A k \in 1..Len(ecos) : Lasting(ecos[k])) /\ Settled(card.assocs, D)
              => Settled(new.assocs, D)
<1> DEFINE n == Len(ecos)
           Last == (\A k \in 1..Len(ecos) : Lasting(ecos[k])) /\ Settled(card.assocs, D)
           Keeps(c) == /\ CardOK(c) /\ c.slots = card.slots
                       /\ card.assocs # <<>> => c.assocs # <<>>
                       /\ Last => Settled(c.assocs, D)
           X == {c \in Card : Keeps(c)}
           G == [y \in (1..n) \X X |-> ExecuteEco(y[2], ecos[y[1]])]
           Step(h) == [k \in 0..n |-> IF k = 0 THEN card ELSE ExecuteEco(h[k - 1], ecos[k])]
           After == CHOOSE h : h = Step(h)
<1>1. n \in Nat /\ card \in X /\ \A k \in 1..n : ecos[k] \in Eco
  BY DEF CardOK
<1>2. \A c \in X, k \in 1..n : ExecuteEco(c, ecos[k]) \in X
  <2> TAKE c \in X, k \in 1..n
  <2>1. /\ CardOK(c) /\ c.slots = card.slots /\ ecos[k] \in Eco
        /\ card.assocs # <<>> => c.assocs # <<>>
        /\ Last => Settled(c.assocs, D) /\ Lasting(ecos[k])
    BY <1>1
  <2> HIDE DEF Last
  <2> DEFINE new == ExecuteEco(c, ecos[k])
  <2>2. /\ CardOK(new) /\ new.slots = c.slots
        /\ c.assocs # <<>> => new.assocs # <<>>
        /\ Lasting(ecos[k]) /\ Settled(c.assocs, D) => Settled(new.assocs, D)
    BY <2>1, OneEco
  <2> HIDE DEF new
  <2>3. Keeps(new)
    BY <2>1, <2>2
  <2> QED  BY <2>3 DEF CardOK, new
<1> HIDE DEF X
<1>3. /\ G \in [(1..n) \X X -> X]
      /\ \A k \in 1..n, c \in X : G[<<k, c>>] = ExecuteEco(c, ecos[k])
  BY <1>2
<1> HIDE DEF G, n
<1>4. n \in Nat /\ card \in X /\ G \in [(1..n) \X X -> X]
  BY <1>1, <1>3
<1>5. /\ \E g \in [0..n -> X] : Iterates(g, card, n, G, X)
      /\ \A h : Iterates(h, card, n, G, X) => \A k \in 0..n : h[k] \in X
  BY <1>4, Iteration
<1>6. PICK g \in [0..n -> X] : Iterates(g, card, n, G, X)
  BY <1>5
<1>7. g = Step(g)
  <2>1. \A k \in 1..n : g[k - 1] \in X
    BY <1>1
  <2>2. g[0] = card /\ \A k \in 1..n : g[k] = ExecuteEco(g[k - 1], ecos[k])
    BY <1>3, <1>6, <2>1 DEF Iterates
  <2> QED  BY <1>1, <1>6, <2>2
<1>8. After = Step(After)
  BY <1>7
<1> HIDE DEF After
<1>9. After[0] = card /\ \A k \in 1..n : After[k] = ExecuteEco(After[k - 1], ecos[k])
  BY <1>1, <1>8
<1>10. Iterates(After, card, n, G, X)
  BY <1>3, <1>9 DEF Iterates
<1>11. After[n] \in X
  <2>1. \A k \in 0..n : After[k] \in X
    BY <1>5, <1>10
  <2> QED  BY <1>1, <2>1
<1>12. ExecuteEcos(card, ecos) = After[n]
  BY DEF ExecuteEcos, After, n
<1>13. Keeps(After[n])
  BY <1>11 DEF X
<1> HIDE DEF After
<1> QED  BY <1>12, <1>13

Done == {executed[k].package : k \in DOMAIN executed}

\* The associations that are there are ahead of everything executed.
Ahead == ExecutedInOrder /\ Settled(eim_associations, Done)

\* The slots are as the last package has left them.
LastSlots ==
  IF executed = <<>> THEN slots \in InitialSlots
  ELSE slots = executed[Len(executed)].slots

EuiccInv == EuiccTypeOK /\ OneOfEach /\ LastSlots

LEMMA EntryTyped ==
  ASSUME EuiccTypeOK, NEW k \in DOMAIN executed
  PROVE  executed[k].package \in Packages /\ executed[k].results \in Seq(OpResult)
<1> DEFINE Entry == [package : Packages, results : Seq(OpResult), slots : [Iccids -> SlotState]]
<1>1. executed \in Seq(Entry)
  BY DEF EuiccTypeOK
<1>2. \A e \in Entry : e.package \in Packages /\ e.results \in Seq(OpResult)
  OBVIOUS
<1> HIDE DEF Entry
<1>3. executed[k] \in Entry
  BY <1>1
<1> QED  BY <1>2, <1>3

LEMMA InitEuicc ==
  EuiccInit => EuiccInv /\ Ahead /\ executed = <<>>
<1> SUFFICES ASSUME EuiccInit PROVE EuiccInv /\ Ahead /\ executed = <<>>
  OBVIOUS
<1> DEFINE first == [k \in DOMAIN InitialEims |->
                       [eim_id |-> InitialEims[k], counter_value |-> 0]]
<1>1. eim_associations = first /\ slots \in InitialSlots /\ executed = <<>>
  BY DEF EuiccInit
<1>2. InitialEims \in Seq(EimIds) /\ DOMAIN InitialEims = 1..Len(InitialEims)
      /\ Len(InitialEims) \in Nat
  BY AssociationsAssumption
<1>3. \A k \in DOMAIN InitialEims :
        [eim_id |-> InitialEims[k], counter_value |-> 0] \in EimAssociation
  BY <1>2, PackagesAssumption DEF EimAssociation
<1>4. first \in Seq(EimAssociation)
  BY <1>2, <1>3
<1>5. \A k, l \in DOMAIN first : first[k].eim_id = first[l].eim_id => k = l
  BY AssociationsAssumption
<1>6. slots \in [Iccids -> SlotState] /\ AtMostOneIn(slots)
  BY <1>1, SlotsAssumption
<1>7. EuiccInv
  <2> HIDE DEF first
  <2> QED  BY <1>1, <1>4, <1>5, <1>6 DEF EuiccInv, EuiccTypeOK, OneOfEach, LastSlots
<1>8. Done = {}
  BY <1>1 DEF Done
<1> QED  BY <1>1, <1>7, <1>8 DEF Ahead, ExecutedInOrder, Settled

\* A package that is executed: its counter is taken over before anything else.
LEMMA ExecutedEffect ==
  ASSUME EuiccInv, NEW p \in Packages, Accepts(p), NEW D \in SUBSET Packages
  PROVE  /\ CardOK(Effect(p)) /\ Effect(p).assocs # <<>>
         /\ AssociationsLast /\ Settled(eim_associations, D) =>
              Settled(Effect(p).assocs, D \cup {p})
<1> DEFINE f     == First(eim_associations, p.eimId)
           with  == WithCounter(eim_associations, p.eimId, p.counterValue)
           start == [slots |-> slots, assocs |-> with, results |-> <<>>]
           mid   == ExecutePsmos(start, p.psmoList)
           L     == Len(eim_associations)
<1>1. /\ p.eimId \in EimIds /\ p.counterValue \in 0..MaxCounter
      /\ p.psmoList \in Seq(Psmo) /\ p.ecoList \in Seq(Eco)
  BY PackagesAssumption DEF Package
<1>2. /\ eim_associations \in Seq(EimAssociation) /\ Unique(eim_associations)
      /\ slots \in [Iccids -> SlotState] /\ AtMostOneIn(slots)
      /\ L \in Nat /\ DOMAIN eim_associations = 1..L
  BY DEF EuiccInv, EuiccTypeOK, OneOfEach, Unique
<1>3. Known(eim_associations, p.eimId) /\ p.counterValue > eim_associations[f].counter_value
  BY DEF Accepts, Associated, Known
<1>4. /\ f \in 1..L
      /\ \A k \in 1..L : eim_associations[k].eim_id = p.eimId <=> k = f
  BY <1>2, <1>3, FirstIs
<1>5. /\ with \in Seq(EimAssociation) /\ Len(with) = L
      /\ \A k \in 1..L : with[k].eim_id = eim_associations[k].eim_id
      /\ \A k \in 1..L : with[k].counter_value = IF k = f THEN p.counterValue
                                                ELSE eim_associations[k].counter_value
  BY <1>1, <1>2, <1>3, CounterTaken
<1> HIDE DEF f, with
<1>6. DOMAIN with = 1..L /\ with # <<>>
  BY <1>2, <1>4, <1>5
<1>7. Unique(with)
  BY <1>2, <1>5, <1>6 DEF Unique
<1>8. CardOK(start) /\ start.assocs = with
  BY <1>2, <1>5, <1>7 DEF CardOK, Card
<1> HIDE DEF start
<1>9. CardOK(mid) /\ mid.assocs = with
  BY <1>1, <1>8, PsmosEffect
<1> HIDE DEF mid
<1>10. Effect(p) = ExecuteEcos(mid, p.ecoList)
  BY DEF Effect, mid, start, with
<1>11. ASSUME AssociationsLast, Settled(eim_associations, D)
       PROVE  Settled(with, D \cup {p}) /\ \A k \in 1..Len(p.ecoList) : Lasting(p.ecoList[k])
  <2>1. \A k \in 1..Len(p.ecoList) : p.ecoList[k] \in Ecos
    BY <1>1 DEF Ecos
  <2>2. \A k \in 1..Len(p.ecoList) : Lasting(p.ecoList[k])
    BY <1>11, <2>1 DEF Lasting, AssociationsLast, Added, Deleted
  <2>3. \A k \in 1..L : eim_associations[k].counter_value \in 0..MaxCounter
    <3>1. \A k \in 1..L : eim_associations[k] \in EimAssociation
      BY <1>2
    <3> QED  BY <3>1 DEF EimAssociation
  <2>4. ASSUME NEW q \in D \cup {p}, NEW k \in 1..L, with[k].eim_id = q.eimId
        PROVE  q.counterValue <= with[k].counter_value
    <3>1. CASE q = p
      BY <1>1, <1>4, <1>5, <2>4, <3>1
    <3>2. CASE q \in D
      <4>1. q.counterValue <= eim_associations[k].counter_value
        BY <1>2, <1>5, <1>11, <2>4, <3>2 DEF Settled
      <4>2. CASE k = f
        <5>1. with[k].counter_value = p.counterValue
              /\ eim_associations[k].counter_value < p.counterValue
          BY <1>3, <1>5, <4>2, <1>1, <2>3
        <5>2. q.counterValue \in 0..MaxCounter /\ MaxCounter \in Nat
          BY <3>2, PackagesAssumption DEF Package
        <5>3. eim_associations[k].counter_value \in 0..MaxCounter
          BY <2>3
        <5> QED  BY <1>1, <4>1, <5>1, <5>2, <5>3
      <4>3. CASE k # f
        BY <1>5, <4>1, <4>3
      <4> QED  BY <4>2, <4>3
    <3> QED  BY <3>1, <3>2
  <2>5. \A e : Known(eim_associations, e) => Known(with, e)
    BY <1>2, <1>5, <1>6 DEF Known
  <2>6. \A q \in D \cup {p} : q.eimId \notin Deleted => Known(with, q.eimId)
    BY <1>3, <1>11, <2>5 DEF Settled
  <2> QED  BY <1>6, <2>2, <2>4, <2>6 DEF Settled
<1>12. /\ CardOK(ExecuteEcos(mid, p.ecoList))
       /\ with # <<>> => ExecuteEcos(mid, p.ecoList).assocs # <<>>
       /\ (\A k \in 1..Len(p.ecoList) : Lasting(p.ecoList[k])) /\ Settled(with, D \cup {p})
            => Settled(ExecuteEcos(mid, p.ecoList).assocs, D \cup {p})
  BY <1>1, <1>9, EcosEffect
<1> QED  BY <1>6, <1>10, <1>11, <1>12

\* LoadEuiccPackage keeps the eUICC's state typed and in order.
LEMMA LoadEffect ==
  ASSUME EuiccInv, NEW p \in Packages, load_euicc_package(p)
  PROVE  /\ EuiccInv'
         /\ eim_associations # <<>> => eim_associations' # <<>>
         /\ AssociationsLast /\ Ahead => Ahead'
         /\ \A k \in DOMAIN executed : k \in DOMAIN executed' /\ executed'[k] = executed[k]
         /\ Accepts(p) => \E k \in DOMAIN executed' :
              executed'[k].package = p /\ executed'[k].results = Effect(p).results
<1>1. CASE Accepts(p)
  <2> DEFINE card == Effect(p)
             entry == [package |-> p, results |-> card.results, slots |-> card.slots]
             n == Len(executed)
  <2>0. Done \in SUBSET Packages
    <3>1. \A k \in DOMAIN executed : executed[k].package \in Packages
      BY EntryTyped DEF EuiccInv
    <3> QED  BY <3>1 DEF Done
  <2>1. CardOK(card) /\ card.assocs # <<>>
        /\ (AssociationsLast /\ Settled(eim_associations, Done) =>
              Settled(card.assocs, Done \cup {p}))
    BY <1>1, <2>0, ExecutedEffect
  <2>2. /\ slots' = card.slots /\ eim_associations' = card.assocs
        /\ executed' = Append(executed, entry)
    BY <1>1 DEF load_euicc_package
  <2> HIDE DEF card
  <2>3. entry \in [package : Packages, results : Seq(OpResult), slots : [Iccids -> SlotState]]
    BY <2>1 DEF CardOK, Card
  <2>4. executed \in Seq([package : Packages, results : Seq(OpResult),
                         slots : [Iccids -> SlotState]])
    BY DEF EuiccInv, EuiccTypeOK
  <2>5. entry.package = p /\ entry.results = card.results /\ entry.slots = card.slots
    OBVIOUS
  <2> HIDE DEF entry
  <2>6. /\ n \in Nat /\ DOMAIN executed = 1..n /\ DOMAIN executed' = 1..(n + 1)
        /\ \A k \in 1..n : executed'[k] = executed[k]
        /\ executed'[n + 1] = entry
    BY <2>2, <2>4
  <2>7. executed' \in Seq([package : Packages, results : Seq(OpResult),
                          slots : [Iccids -> SlotState]])
    BY <2>2, <2>3, <2>4
  <2>8. EuiccInv'
    <3>1. Len(executed') = n + 1 /\ executed' # <<>>
      BY <2>2, <2>4, <2>6
    <3>2. LastSlots'
      BY <2>2, <2>5, <2>6, <3>1 DEF LastSlots
    <3> QED  BY <2>1, <2>2, <2>7, <3>2 DEF EuiccInv, EuiccTypeOK, OneOfEach, CardOK, Card, Unique
  <2>9. ASSUME AssociationsLast, Ahead PROVE Ahead'
    <3>1. Done' = Done \cup {p}
      <4>1. Done' = {executed'[k].package : k \in 1..(n + 1)}
        BY <2>6 DEF Done
      <4>2. 1..(n + 1) = 1..n \cup {n + 1}
        BY <2>6
      <4>3. {executed'[k].package : k \in 1..n} = Done
        BY <2>6 DEF Done
      <4> QED  BY <2>5, <2>6, <4>1, <4>2, <4>3
    <3>2. Settled(eim_associations, Done)' 
      BY <2>1, <2>2, <2>9, <3>1 DEF Ahead, Settled
    <3>3. ExecutedInOrder'
      <4>1. \A k \in 1..n : executed[k].package.eimId = p.eimId =>
                             executed[k].package.counterValue < p.counterValue
        <5> TAKE k \in 1..n
        <5> HAVE executed[k].package.eimId = p.eimId
        <5> DEFINE q == executed[k].package
                   f == First(eim_associations, p.eimId)
        <5>1. q \in Done /\ q \in Packages
          <6>1. k \in DOMAIN executed
            BY <2>6
          <6> QED  BY <6>1, EntryTyped DEF Done, EuiccInv
        <5>2. Known(eim_associations, p.eimId) /\ p.counterValue > eim_associations[f].counter_value
          BY <1>1 DEF Accepts, Associated, Known
        <5>3. eim_associations \in Seq(EimAssociation)
          BY DEF EuiccInv, EuiccTypeOK
        <5>4. f \in DOMAIN eim_associations /\ eim_associations[f].eim_id = p.eimId
          BY <5>2, <5>3, FirstIs
        <5>5. q.counterValue <= eim_associations[f].counter_value
          BY <2>9, <5>1, <5>4 DEF Ahead, Settled
        <5>6. /\ q.counterValue \in 0..MaxCounter /\ p.counterValue \in 0..MaxCounter
              /\ eim_associations[f].counter_value \in 0..MaxCounter
          <6>1. p \in Package /\ q \in Package
            BY <5>1, PackagesAssumption
          <6>2. eim_associations[f] \in EimAssociation
            BY <5>3, <5>4
          <6> QED  BY <6>1, <6>2 DEF Package, EimAssociation
        <5>7. MaxCounter \in Nat
          BY PackagesAssumption
        <5> QED  BY <5>2, <5>5, <5>6, <5>7
      <4>2. \A k \in 1..(n + 1) : k \in 1..n \/ k = n + 1
        BY <2>6
      <4>3. \A i, j \in 1..(n + 1) :
              i < j /\ executed'[i].package.eimId = executed'[j].package.eimId =>
                executed'[i].package.counterValue < executed'[j].package.counterValue
        <5> TAKE i, j \in 1..(n + 1)
        <5> HAVE i < j /\ executed'[i].package.eimId = executed'[j].package.eimId
        <5>1. i \in 1..n
          BY <2>6
        <5>2. CASE j = n + 1
          BY <2>5, <2>6, <4>1, <5>1, <5>2
        <5>3. CASE j \in 1..n
          BY <2>6, <2>9, <5>1, <5>3 DEF Ahead, ExecutedInOrder
        <5> QED  BY <4>2, <5>2, <5>3
      <4> QED  BY <2>6, <4>3 DEF ExecutedInOrder
    <3> QED  BY <3>2, <3>3 DEF Ahead
  <2>10. \E k \in DOMAIN executed' :
           executed'[k].package = p /\ executed'[k].results = card.results
    BY <2>5, <2>6
  <2> QED  BY <2>1, <2>2, <2>6, <2>8, <2>9, <2>10 DEF card
<1>2. CASE ~ Accepts(p)
  <2>1. UNCHANGED euiccVars
    BY <1>2 DEF load_euicc_package
  <2>2. eim_associations' = eim_associations /\ slots' = slots /\ executed' = executed
    BY <2>1 DEF euiccVars
  <2>3. EuiccInv'
    BY <2>2 DEF EuiccInv, EuiccTypeOK, OneOfEach, AtMostOneIn, LastSlots
  <2>4. Ahead => Ahead'
    BY <2>2 DEF Ahead, ExecutedInOrder, Settled, Done, Known
  <2> QED  BY <1>2, <2>2, <2>3, <2>4
<1> QED  BY <1>1, <1>2

\* The routes do as well.
LEMMA MaintenanceEffect ==
  ASSUME EuiccInv, Maintenance
  PROVE  /\ EuiccInv'
         /\ eim_associations # <<>> => eim_associations' # <<>>
         /\ AssociationsLast /\ Ahead => Ahead'
         /\ executed' = executed
<1>1. PICK eco \in Eco : /\ EcoSucceeds(eco, eim_associations)
                         /\ eim_associations' = AssociationsAfter(eco, eim_associations)
                         /\ UNCHANGED <<slots, executed>>
                         /\ AssociationsLast => Lasting(eco)
  <2>1. ASSUME NEW a \in Addable, add_eim(a)
        PROVE  \E eco \in Eco : /\ EcoSucceeds(eco, eim_associations)
                                /\ eim_associations' = AssociationsAfter(eco, eim_associations)
                                /\ UNCHANGED <<slots, executed>>
                                /\ AssociationsLast => Lasting(eco)
    <3> DEFINE eco == [action |-> "addEim", eimId |-> a.eim_id, counterValue |-> a.counter_value]
    <3>1. a.eim_id \in EimIds /\ a.counter_value \in 0..MaxCounter
      BY AssociationsAssumption
    <3>2. eco \in Eco /\ eco.action = "addEim" /\ eco.eimId \in Added
      BY <3>1 DEF Eco, Added
    <3>3. AssociationsLast => Lasting(eco)
      BY DEF Lasting, Added
    <3>4. /\ EcoSucceeds(eco, eim_associations)
          /\ eim_associations' = AssociationsAfter(eco, eim_associations)
          /\ UNCHANGED <<slots, executed>>
      BY <2>1 DEF add_eim
    <3> HIDE DEF eco
    <3> QED  BY <3>2, <3>3, <3>4
  <2>2. ASSUME NEW e \in Deletable, delete_eim(e)
        PROVE  \E eco \in Eco : /\ EcoSucceeds(eco, eim_associations)
                                /\ eim_associations' = AssociationsAfter(eco, eim_associations)
                                /\ UNCHANGED <<slots, executed>>
                                /\ AssociationsLast => Lasting(eco)
    <3> DEFINE eco == [action |-> "deleteEim", eimId |-> e, counterValue |-> NoCounter]
    <3>1. e \in EimIds
      BY AssociationsAssumption
    <3>2. eco \in Eco
      BY <3>1 DEF Eco
    <3>3. AssociationsLast => Lasting(eco)
      BY DEF Lasting, Deleted
    <3>4. /\ EcoSucceeds(eco, eim_associations)
          /\ eim_associations' = AssociationsAfter(eco, eim_associations)
          /\ UNCHANGED <<slots, executed>>
      BY <2>2 DEF delete_eim
    <3> HIDE DEF eco
    <3> QED  BY <3>2, <3>3, <3>4
  <2> QED  BY <2>1, <2>2 DEF Maintenance
<1>2. eim_associations \in Seq(EimAssociation) /\ Unique(eim_associations)
  BY DEF EuiccInv, EuiccTypeOK, OneOfEach, Unique
<1>3. /\ eim_associations' \in Seq(EimAssociation) /\ Unique(eim_associations)'
      /\ eim_associations # <<>> => eim_associations' # <<>>
      /\ Lasting(eco) /\ Settled(eim_associations, Done) => Settled(eim_associations', Done)
  <2>1. /\ AssociationsAfter(eco, eim_associations) \in Seq(EimAssociation)
        /\ Unique(AssociationsAfter(eco, eim_associations))
        /\ eim_associations # <<>> => AssociationsAfter(eco, eim_associations) # <<>>
        /\ Lasting(eco) /\ Settled(eim_associations, Done) =>
             Settled(AssociationsAfter(eco, eim_associations), Done)
    BY <1>1, <1>2, EcoEffect
  <2> QED  BY <1>1, <2>1 DEF Unique
<1>4. Done' = Done
  BY <1>1 DEF Done
<1>5. EuiccInv'
  BY <1>1, <1>3 DEF EuiccInv, EuiccTypeOK, OneOfEach, Unique, AtMostOneIn, LastSlots
<1>6. AssociationsLast /\ Ahead => Ahead'
  BY <1>1, <1>3, <1>4 DEF Ahead, ExecutedInOrder, Settled, Known
<1> QED  BY <1>1, <1>3, <1>5, <1>6
============================================================================
