-------------------------- MODULE EuiccStoreProofs --------------------------
(***************************************************************************)
(* Proofs about EuiccStore for every number of eUICCs, devices and eIMs,   *)
(* and for every number of restarts.                                       *)
(*                                                                         *)
(* NothingForgotten looks at the first association of an eIM only.  What   *)
(* is inductive is that no eIM has two of them, that each is ahead of what *)
(* is remembered of its eIM and that nothing is remembered of an eIM that  *)
(* has none (Remembers), for the eUICCs in memory and for those saved      *)
(* alike, and that the rows are those of the eUICCs saved.                 *)
(***************************************************************************)
EXTENDS EuiccStore, NatSetInduction, FiniteSetTheorems, TLAPS

Unique(assocs) ==
  \A k, l \in DOMAIN assocs : assocs[k].eim_id = assocs[l].eim_id => k = l

Remembers(euicc) ==
  /\ \A n \in euicc.numbers : n <= euicc.notification_seq
  /\ \A p \in euicc.packages, k \in DOMAIN euicc.eim_associations :
       euicc.eim_associations[k].eim_id = p[1] =>
         p[2] <= euicc.eim_associations[k].counter_value
  /\ \A p \in euicc.packages :
       \E k \in DOMAIN euicc.eim_associations : euicc.eim_associations[k].eim_id = p[1]

Sound == {x \in EuiccState : Unique(x.eim_associations) /\ Remembers(x)}

\* Sound eUICCs, some EID each.
Pool == UNION {[D -> Sound] : D \in SUBSET Eids}

\* g has the eUICCs of f, as they were.
Keeps(f, g) == \A e \in DOMAIN f : e \in DOMAIN g /\ g[e] = f[e]

Inv ==
  /\ running \in BOOLEAN
  /\ instances \in Pool /\ saved \in Pool
  /\ ByEid(devices, Device)
  /\ database = [e \in DOMAIN saved |-> Row(saved[e])]

----------------------------------------------------------------------------
(* Creation.                                                               *)

LEMMA PoolIs ==
  ASSUME NEW f \in Pool
  PROVE  /\ DOMAIN f \subseteq Eids
         /\ f = [e \in DOMAIN f |-> f[e]]
         /\ \A e \in DOMAIN f : f[e] \in Sound
BY DEF Pool

LEMMA InPool ==
  ASSUME NEW f, DOMAIN f \subseteq Eids, f = [e \in DOMAIN f |-> f[e]],
         \A e \in DOMAIN f : f[e] \in Sound
  PROVE  f \in Pool
<1>1. f \in [DOMAIN f -> Sound]
  <2> HIDE DEF Sound
  <2> QED  OBVIOUS
<1> QED  BY <1>1 DEF Pool

LEMMA EmptyPool == Empty \in Pool
<1>1. DOMAIN Empty = {}
  BY DEF Empty
<1>2. Empty = [e \in DOMAIN Empty |-> Empty[e]]
  BY DEF Empty
<1> QED  BY <1>1, <1>2, InPool

LEMMA WithPool ==
  ASSUME NEW f \in Pool, NEW e \in Eids, NEW x \in Sound
  PROVE  /\ With(f, e, x) \in Pool
         /\ DOMAIN With(f, e, x) = DOMAIN f \cup {e}
         /\ With(f, e, x)[e] = x
         /\ \A d \in DOMAIN f : d # e => With(f, e, x)[d] = f[d]
<1> DEFINE g == With(f, e, x)
<1>1. /\ DOMAIN f \subseteq Eids
      /\ \A d \in DOMAIN f : f[d] \in Sound
  BY PoolIs
<1>2. /\ DOMAIN g = DOMAIN f \cup {e}
      /\ g[e] = x
      /\ \A d \in DOMAIN f : d # e => g[d] = f[d]
      /\ g = [d \in DOMAIN g |-> g[d]]
  BY DEF With
<1> HIDE DEF g
<1>3. g \in Pool
  BY <1>1, <1>2, InPool
<1> QED  BY <1>2, <1>3 DEF g

LEMMA NewSound ==
  ASSUME NEW eims \in Seq(Eims), NoneTwice(eims), NEW preloads \in SUBSET Iccids
  PROVE  /\ NewAssociations(eims) \in Seq(EimAssociation)
         /\ Len(NewAssociations(eims)) = Len(eims)
         /\ Unique(NewAssociations(eims))
         /\ NewEuicc(eims, preloads) \in Sound
<1> DEFINE new == NewAssociations(eims)
<1>1. \A k \in 1..Len(eims) : [eim_id |-> eims[k], counter_value |-> 0] \in EimAssociation
  BY DevicesAssumption DEF EimAssociation
<1>2. /\ new \in Seq(EimAssociation) /\ Len(new) = Len(eims)
      /\ \A k \in 1..Len(eims) : new[k].eim_id = eims[k]
  BY <1>1 DEF NewAssociations
<1>3. Unique(new)
  BY <1>2 DEF Unique, NoneTwice
<1> HIDE DEF new
<1> DEFINE x == NewEuicc(eims, preloads)
<1>4. /\ x = [eim_associations |-> new, profiles |-> preloads,
              notifications |-> {}, notification_seq |-> 0, packages |-> {}, numbers |-> {}]
  BY DEF NewEuicc, new
<1>5. x \in EuiccState
  BY <1>2, <1>4, DevicesAssumption DEF EuiccState
<1>6. Unique(x.eim_associations) /\ Remembers(x)
  BY <1>3, <1>4 DEF Remembers
<1> QED  BY <1>2, <1>3, <1>5, <1>6 DEF Sound, new

\* Creating an eUICC changes no other, nor one that exists.
LEMMA CreatePool ==
  ASSUME NEW f \in Pool, NEW e \in Eids, NEW eims \in Seq(Eims), NoneTwice(eims),
         NEW preloads \in SUBSET Iccids
  PROVE  /\ create_euicc(f, e, eims, preloads) \in Pool
         /\ DOMAIN create_euicc(f, e, eims, preloads) = DOMAIN f \cup {e}
         /\ Keeps(f, create_euicc(f, e, eims, preloads))
         /\ e \notin DOMAIN f =>
              create_euicc(f, e, eims, preloads)[e] = NewEuicc(eims, preloads)
<1>1. NewEuicc(eims, preloads) \in Sound
  BY NewSound
<1>2. CASE e \in DOMAIN f
  BY <1>2 DEF create_euicc, Keeps
<1>3. CASE e \notin DOMAIN f
  <2>1. create_euicc(f, e, eims, preloads) = With(f, e, NewEuicc(eims, preloads))
    BY <1>3 DEF create_euicc
  <2> DEFINE x == NewEuicc(eims, preloads)
             g == With(f, e, x)
  <2>2. x \in Sound
    BY <1>1
  <2> HIDE DEF x
  <2>3. /\ g \in Pool /\ DOMAIN g = DOMAIN f \cup {e} /\ g[e] = x
        /\ \A d \in DOMAIN f : d # e => g[d] = f[d]
    BY <2>2, WithPool
  <2> HIDE DEF g
  <2>4. Keeps(f, g)
    BY <1>3, <2>3 DEF Keeps
  <2> QED  BY <2>1, <2>3, <2>4 DEF g, x
<1> QED  BY <1>2, <1>3

LEMMA TestPool ==
  ASSUME NEW f \in Pool
  PROVE  create_test_euiccs(f) \in Pool /\ Keeps(f, create_test_euiccs(f))
<1> DEFINE g == create_test_euiccs(f)
<1>1. /\ DOMAIN g = DOMAIN f \cup DOMAIN TestDevices
      /\ g = [e \in DOMAIN g |-> g[e]]
      /\ \A e \in DOMAIN f : g[e] = f[e]
      /\ \A e \in DOMAIN TestDevices : e \notin DOMAIN f =>
           g[e] = NewEuicc(TestDevices[e].eims, TestDevices[e].preloads)
  BY DEF create_test_euiccs
<1> HIDE DEF g
<1>2. \A e \in DOMAIN TestDevices :
        NewEuicc(TestDevices[e].eims, TestDevices[e].preloads) \in Sound
  <2> TAKE e \in DOMAIN TestDevices
  <2>1. /\ TestDevices[e].eims \in Seq(Eims) /\ NoneTwice(TestDevices[e].eims)
        /\ TestDevices[e].preloads \in SUBSET Iccids
    BY DevicesAssumption
  <2> QED  BY <2>1, NewSound
<1>3. DOMAIN g \subseteq Eids /\ \A e \in DOMAIN g : g[e] \in Sound
  BY <1>1, <1>2, PoolIs, DevicesAssumption
<1>4. g \in Pool
  BY <1>1, <1>3, InPool
<1> QED  BY <1>1, <1>4 DEF Keeps, g

----------------------------------------------------------------------------
(* Starting.                                                               *)

\* A new eUICC without associations gets those of the list.
LEMMA ListedSound ==
  ASSUME NEW base \in EuiccState, Len(base.eim_associations) = 0,
         base.packages = {}, base.numbers = {},
         NEW more \in Seq(EimAssociation), Unique(more)
  PROVE  [base EXCEPT !.eim_associations = @ \o more] \in Sound
<1> DEFINE all == base.eim_associations \o more
           x   == [base EXCEPT !.eim_associations = all]
<1>1. base.eim_associations \in Seq(EimAssociation)
  BY DEF EuiccState
<1>2. all = more
  BY <1>1
<1> HIDE DEF all
<1>3. /\ x \in EuiccState /\ x.eim_associations = more
      /\ x.packages = {} /\ x.numbers = {}
  BY <1>2 DEF EuiccState
<1> HIDE DEF x
<1>4. Unique(x.eim_associations) /\ Remembers(x)
  BY <1>3 DEF Remembers
<1>5. x \in Sound
  BY <1>3, <1>4 DEF Sound
<1> QED  BY <1>5 DEF x, all

LEMMA FreshPool ==
  ASSUME NEW f \in Pool, NEW e \in Eids, e \notin DOMAIN f,
         NEW eims \in Seq(Eims), NoneTwice(eims), NEW preloads \in SUBSET Iccids
  PROVE  LET created == create_euicc(f, e, <<>>, preloads)
             new     == With(created, e, [created[e] EXCEPT !.eim_associations =
                                            @ \o NewAssociations(eims)])
         IN  new \in Pool /\ Keeps(f, new)
<1> DEFINE base    == NewEuicc(<<>>, preloads)
           created == create_euicc(f, e, <<>>, preloads)
           more    == NewAssociations(eims)
           euicc   == [base EXCEPT !.eim_associations = @ \o more]
           new     == With(created, e, euicc)
<1>1. PICK none : none = <<>>
  OBVIOUS
<1>2. none \in Seq(Eims) /\ NoneTwice(none) /\ Len(none) = 0
  BY <1>1 DEF NoneTwice
<1>3. /\ created \in Pool /\ DOMAIN created = DOMAIN f \cup {e}
      /\ Keeps(f, created) /\ created[e] = base
  <2>1. create_euicc(f, e, none, preloads) \in Pool
    BY <1>2, CreatePool
  <2>2. Keeps(f, create_euicc(f, e, none, preloads))
    BY <1>2, CreatePool
  <2>3. DOMAIN create_euicc(f, e, none, preloads) = DOMAIN f \cup {e}
    BY <1>2, CreatePool
  <2>4. create_euicc(f, e, none, preloads)[e] = NewEuicc(none, preloads)
    BY DEF create_euicc, With
  <2> QED  BY <1>1, <2>1, <2>2, <2>3, <2>4
<1>4. more \in Seq(EimAssociation) /\ Unique(more)
  BY NewSound
<1>5. /\ base \in EuiccState /\ Len(base.eim_associations) = 0
      /\ base.packages = {} /\ base.numbers = {}
  <2> DEFINE b == NewEuicc(none, preloads)
  <2>1. b \in Sound /\ Len(NewAssociations(none)) = 0
    BY <1>2, NewSound
  <2>2. b \in EuiccState
    BY <2>1 DEF Sound
  <2>3. Len(b.eim_associations) = 0 /\ b.packages = {} /\ b.numbers = {}
    BY <2>1 DEF NewEuicc
  <2> QED  BY <1>1, <2>2, <2>3
<1> HIDE DEF base, more, created
<1>6. euicc \in Sound
  BY <1>4, <1>5, ListedSound
<1> HIDE DEF euicc
<1>7. /\ new \in Pool /\ DOMAIN new = DOMAIN created \cup {e}
      /\ \A d \in DOMAIN created : d # e => new[d] = created[d]
  BY <1>3, <1>6, WithPool
<1> HIDE DEF new
<1>8. Keeps(f, new)
  BY <1>3, <1>7 DEF Keeps
<1>9. new = With(created, e, [created[e] EXCEPT !.eim_associations = @ \o more])
  BY <1>3 DEF new, euicc
<1> QED  BY <1>7, <1>8, <1>9 DEF created, more

\* A device that users may list is created once, with its associations, and
\* left alone if it is known.
LEMMA HydratePool ==
  ASSUME ByEid(devices, Device), NEW f \in Pool, NEW e \in DOMAIN devices, Upper[e] = e
  PROVE  Hydrate(f, e) \in Pool /\ Keeps(f, Hydrate(f, e))
<1>1. CASE e \in DOMAIN f
  <2>1. Hydrate(f, e) = f
    BY <1>1 DEF Hydrate
  <2> QED  BY <2>1 DEF Keeps
<1>2. CASE e \notin DOMAIN f
  <2>1. devices[e] \in Device /\ e \in Eids
    BY DEF ByEid
  <2>2. PICK eims, preloads : eims = devices[e].eims /\ preloads = devices[e].preloads
    OBVIOUS
  <2>3. eims \in EimLists /\ preloads \in PreloadSets
    BY <2>1, <2>2 DEF Device
  <2>4. eims \in Seq(Eims) /\ NoneTwice(eims) /\ preloads \in SUBSET Iccids
    BY <2>3, DevicesAssumption
  <2> DEFINE created == create_euicc(f, e, <<>>, preloads)
             new     == With(created, e, [created[e] EXCEPT !.eim_associations =
                                            @ \o NewAssociations(eims)])
  <2>5. Hydrate(f, e) = new
    BY <1>2, <2>2 DEF Hydrate
  <2>6. new \in Pool /\ Keeps(f, new)
    <3> HIDE DEF new, created
    <3>1. \A d \in Eids : d = e => (LET c == create_euicc(f, d, <<>>, preloads)
             n     == With(c, d, [c[d] EXCEPT !.eim_associations =
                                            @ \o NewAssociations(eims)])
         IN  n \in Pool /\ Keeps(f, n))
      BY <1>2, <2>4, FreshPool
    <3> QED  BY <2>1, <3>1 DEF new, created
  <2> QED  BY <2>5, <2>6
<1> QED  BY <1>1, <1>2

\* The whole list, in whatever order: a fold of HydratePool.
LEMMA ReseedPool ==
  ASSUME ByEid(devices, Device), NEW f \in Pool, NEW n \in Nat, NEW list,
         list \in [1..n -> {e \in DOMAIN devices : Upper[e] = e}]
  PROVE  reseed_from_laravel(f, list) \in Pool /\ Keeps(f, reseed_from_laravel(f, list))
<1> DEFINE X == {g \in Pool : Keeps(f, g)}
           G == [y \in (1..n) \X X |-> Hydrate(y[2], list[y[1]])]
           Step(h) == [k \in 0..Len(list) |-> IF k = 0 THEN f ELSE Hydrate(h[k - 1], list[k])]
           after == CHOOSE h : h = Step(h)
<1>1. f \in X
  BY DEF Keeps
<1>2. Len(list) = n
  OBVIOUS
<1>3. \A g \in X, k \in 1..n : Hydrate(g, list[k]) \in X
  <2> TAKE g \in X, k \in 1..n
  <2>1. list[k] \in DOMAIN devices /\ Upper[list[k]] = list[k] /\ g \in Pool
    OBVIOUS
  <2>2. Hydrate(g, list[k]) \in Pool /\ Keeps(g, Hydrate(g, list[k]))
    BY <2>1, HydratePool
  <2> QED  BY <2>2 DEF Keeps
<1> HIDE DEF X
<1>4. /\ G \in [(1..n) \X X -> X]
      /\ \A k \in 1..n, g \in X : G[<<k, g>>] = Hydrate(g, list[k])
  BY <1>3
<1> HIDE DEF G
<1>5. /\ \E g \in [0..n -> X] : Iterates(g, f, n, G, X)
      /\ \A h : Iterates(h, f, n, G, X) => \A k \in 0..n : h[k] \in X
  BY <1>1, <1>4, Iteration
<1>6. PICK g \in [0..n -> X] : Iterates(g, f, n, G, X)
  BY <1>5
<1>7. g = Step(g)
  <2>1. \A k \in 1..n : g[k - 1] \in X
    OBVIOUS
  <2>2. g[0] = f /\ \A k \in 1..n : g[k] = Hydrate(g[k - 1], list[k])
    BY <1>4, <1>6, <2>1 DEF Iterates
  <2> QED  BY <1>2, <1>6, <2>2
<1>8. after = Step(after)
  BY <1>7
<1> HIDE DEF after
<1>9. after[0] = f /\ \A k \in 1..n : after[k] = Hydrate(after[k - 1], list[k])
  BY <1>2, <1>8
<1>10. Iterates(after, f, n, G, X)
  BY <1>4, <1>9 DEF Iterates
<1>11. after[n] \in X
  <2>1. \A k \in 0..n : after[k] \in X
    BY <1>5, <1>10
  <2> QED  BY <2>1
<1>12. reseed_from_laravel(f, list) = after[n]
  BY <1>2 DEF reseed_from_laravel, after
<1> QED  BY <1>11, <1>12 DEF X

\* What is loaded is what was saved, except the notification queue.
LEMMA LoadedPool ==
  ASSUME Inv
  PROVE  /\ load_persisted_euiccs \in Pool
         /\ DOMAIN load_persisted_euiccs = DOMAIN saved
         /\ \A e \in DOMAIN saved : Row(load_persisted_euiccs[e]) = Row(saved[e])
<1>1. /\ DOMAIN database = DOMAIN saved
      /\ \A e \in DOMAIN saved : database[e] = Row(saved[e])
  BY DEF Inv
<1>2. /\ load_persisted_euiccs = [e \in DOMAIN saved |-> Loaded(e)]
      /\ DOMAIN load_persisted_euiccs = DOMAIN saved
      /\ \A e \in DOMAIN saved : load_persisted_euiccs[e] = Loaded(e)
  BY <1>1 DEF load_persisted_euiccs
<1>3. DOMAIN saved \subseteq Eids /\ \A e \in DOMAIN saved : saved[e] \in Sound
  BY PoolIs DEF Inv
<1>4. ASSUME NEW e \in DOMAIN saved
      PROVE  Loaded(e) \in Sound /\ Row(Loaded(e)) = Row(saved[e])
  <2> DEFINE x == saved[e]
  <2>1. /\ x \in EuiccState /\ Unique(x.eim_associations) /\ Remembers(x)
    BY <1>3, <1>4 DEF Sound
  <2>2. /\ database[e].eim_associations = x.eim_associations
        /\ database[e].profiles = x.profiles
        /\ database[e].notification_seq = x.notification_seq
    BY <1>1, <1>4 DEF Row
  <2> DEFINE y == Loaded(e)
  <2>3. y = [eim_associations |-> x.eim_associations, profiles |-> x.profiles,
             notifications |-> {}, notification_seq |-> x.notification_seq,
             packages |-> x.packages, numbers |-> x.numbers]
    BY <2>2 DEF Loaded
  <2> HIDE DEF x, y
  <2>4. y \in EuiccState
    BY <2>1, <2>3 DEF EuiccState
  <2>5. Unique(y.eim_associations) /\ Remembers(y)
    BY <2>1, <2>3 DEF Remembers
  <2>6. Row(y) = Row(x)
    BY <2>3 DEF Row
  <2> QED  BY <2>4, <2>5, <2>6 DEF Sound, x, y
<1>5. load_persisted_euiccs \in Pool
  <2> DEFINE g == load_persisted_euiccs
  <2>1. /\ DOMAIN g = DOMAIN saved /\ g = [e \in DOMAIN g |-> g[e]]
        /\ \A e \in DOMAIN g : g[e] \in Sound
    BY <1>2, <1>4
  <2> HIDE DEF g
  <2>2. g \in Pool
    BY <1>3, <2>1, InPool
  <2> QED  BY <2>2 DEF g
<1> QED  BY <1>2, <1>4, <1>5

\* A start keeps what it loads: neither the list nor the test data touches it.
LEMMA StartPool ==
  ASSUME Inv, ClonesEdited, lifespan_start
  PROVE  instances' \in Pool /\ Keeps(load_persisted_euiccs, instances')
<1> DEFINE loaded == load_persisted_euiccs
<1>1. loaded \in Pool
  BY LoadedPool
<1>2. ByEid(devices, Device) /\ DOMAIN devices \subseteq Eids
  BY DEF Inv, ByEid
<1>3. Listed \subseteq {e \in DOMAIN devices : Upper[e] = e}
  BY DEF lifespan_start, Listed, Usable
<1>4. PICK list \in Orders(Listed) \cup {<<>>} :
        LET known == reseed_from_laravel(loaded, list)
        IN  instances' = IF CreateTestData /\ known = Empty
                         THEN create_test_euiccs(known) ELSE known
  BY DEF lifespan_start
<1>5. PICK n \in Nat : list \in [1..n -> {e \in DOMAIN devices : Upper[e] = e}]
  <2>1. CASE list = <<>>
    <3>1. list \in [1..0 -> {e \in DOMAIN devices : Upper[e] = e}]
      BY <2>1
    <3> QED  BY <3>1
  <2>2. CASE list \in Orders(Listed)
    <3>1. Listed \subseteq Eids
      BY <1>2 DEF Listed
    <3>2. IsFiniteSet(Listed)
      BY <3>1, EidsAssumption, FS_Subset
    <3>3. Cardinality(Listed) \in Nat
      BY <3>2, FS_CardinalityType
    <3>4. list \in [1..Cardinality(Listed) -> Listed]
      BY <2>2 DEF Orders
    <3>5. list \in [1..Cardinality(Listed) -> {e \in DOMAIN devices : Upper[e] = e}]
      BY <1>3, <3>4
    <3> QED  BY <3>3, <3>5
  <2> QED  BY <1>4, <2>1, <2>2
<1> DEFINE known == reseed_from_laravel(loaded, list)
<1> HIDE DEF loaded
<1>6. known \in Pool /\ Keeps(loaded, known)
  BY <1>1, <1>2, <1>5, ReseedPool
<1>7. instances' = known \/ instances' = create_test_euiccs(known)
  BY <1>4
<1> HIDE DEF known
<1>8. create_test_euiccs(known) \in Pool /\ Keeps(known, create_test_euiccs(known))
  BY <1>6, TestPool
<1>9. instances' \in Pool
  BY <1>6, <1>7, <1>8
<1>10. Keeps(loaded, instances')
  BY <1>6, <1>7, <1>8 DEF Keeps
<1> QED  BY <1>9, <1>10 DEF loaded

----------------------------------------------------------------------------
(* The eUICCs at work.                                                     *)

\* A package that is accepted raises the only association of its eIM.
LEMMA PackageSound ==
  ASSUME NEW x \in Sound, NEW m \in Eims, NEW c \in 1..MaxCounter,
         NEW k \in FirstOf(x, m), c > x.eim_associations[k].counter_value
  PROVE  [x EXCEPT !.eim_associations[k].counter_value = c,
                   !.packages = @ \cup {<<m, c>>}] \in Sound
<1> DEFINE assocs == x.eim_associations
           L      == Len(assocs)
           new    == [assocs EXCEPT ![k].counter_value = c]
           added  == x.packages \cup {<<m, c>>}
           y      == [x EXCEPT !.eim_associations = new, !.packages = added]
<1>1. /\ x \in EuiccState /\ Unique(assocs) /\ Remembers(x)
  BY DEF Sound
<1>2. assocs \in Seq(EimAssociation) /\ L \in Nat /\ MaxCounter \in Nat
  BY <1>1, DevicesAssumption DEF EuiccState
<1>3. k \in 1..L /\ assocs[k].eim_id = m
  BY <1>2 DEF FirstOf
<1>4. \A j \in 1..L : assocs[j] \in EimAssociation
  BY <1>2
<1>5. y = [x EXCEPT !.eim_associations[k].counter_value = c,
                    !.packages = @ \cup {<<m, c>>}]
  OBVIOUS
<1> HIDE DEF assocs
<1>6. [assocs[k] EXCEPT !.counter_value = c] \in EimAssociation
  BY <1>2, <1>3, <1>4 DEF EimAssociation
<1>7. /\ new \in Seq(EimAssociation) /\ Len(new) = L
      /\ \A j \in 1..L : new[j] = IF j = k THEN [assocs[k] EXCEPT !.counter_value = c]
                                   ELSE assocs[j]
  BY <1>2, <1>3, <1>6
<1> HIDE DEF new
<1>8. \A j \in 1..L : /\ new[j].eim_id = assocs[j].eim_id
                      /\ new[j].counter_value = IF j = k THEN c ELSE assocs[j].counter_value
  BY <1>3, <1>4, <1>7 DEF EimAssociation
<1>9. /\ y \in EuiccState /\ y.eim_associations = new /\ y.packages = added
      /\ y.notification_seq = x.notification_seq /\ y.numbers = x.numbers
  <2>1. added \in SUBSET (Eims \X (0..MaxCounter))
    BY <1>1, <1>2 DEF EuiccState
  <2> HIDE DEF added
  <2> QED  BY <1>1, <1>7, <2>1 DEF EuiccState
<1> HIDE DEF y
<1>10. Unique(y.eim_associations)
  BY <1>1, <1>2, <1>7, <1>8, <1>9 DEF Unique
<1>11. Remembers(y)
  <2>1. \A n \in y.numbers : n <= y.notification_seq
    BY <1>1, <1>9 DEF Remembers
  <2>2. ASSUME NEW p \in y.packages, NEW j \in 1..L, new[j].eim_id = p[1]
        PROVE  p[2] <= new[j].counter_value
    <3>1. CASE p = <<m, c>>
      <4>1. assocs[j].eim_id = assocs[k].eim_id
        BY <1>3, <1>8, <2>2, <3>1
      <4>2. j = k
        BY <1>1, <1>2, <1>3, <4>1 DEF Unique
      <4> QED  BY <1>8, <3>1, <4>2
    <3>2. CASE p \in x.packages
      <4>1. p[2] <= assocs[j].counter_value
        BY <1>1, <1>2, <1>8, <2>2, <3>2 DEF Remembers, assocs
      <4>2. p[2] \in Int /\ assocs[j].counter_value \in Int /\ assocs[k].counter_value < c
        <5>1. p[2] \in 0..MaxCounter
          BY <1>1, <3>2 DEF EuiccState
        <5>2. assocs[j].counter_value \in 0..MaxCounter /\ assocs[k].counter_value \in 0..MaxCounter
          BY <1>3, <1>4 DEF EimAssociation
        <5> QED  BY <5>1, <5>2, <1>2 DEF assocs
      <4>3. assocs[k].counter_value \in Int
        BY <1>2, <1>3, <1>4 DEF EimAssociation
      <4> QED  BY <1>8, <4>1, <4>2, <4>3
    <3> QED  BY <1>9, <2>2, <3>1, <3>2
  <2>3. y.eim_associations = new /\ DOMAIN new = 1..L
    BY <1>2, <1>7, <1>9
  <2>4. \A p \in y.packages : \E j \in 1..L : new[j].eim_id = p[1]
    <3> SUFFICES ASSUME NEW p \in y.packages PROVE \E j \in 1..L : new[j].eim_id = p[1]
      OBVIOUS
    <3>1. CASE p = <<m, c>>
      BY <1>3, <1>8, <3>1
    <3>2. CASE p \in x.packages
      <4>1. \E j \in 1..L : assocs[j].eim_id = p[1]
        BY <1>1, <1>2, <3>2 DEF Remembers, assocs
      <4> QED  BY <1>8, <4>1
    <3> QED  BY <1>9, <3>1, <3>2
  <2> QED  BY <2>1, <2>2, <2>3, <2>4 DEF Remembers
<1>12. y \in Sound
  BY <1>9, <1>10, <1>11 DEF Sound
<1> QED  BY <1>5, <1>12

----------------------------------------------------------------------------
(* The eCOs.                                                               *)

\* The association that is looked up for an eIM is there and is the eIM's.
LEMMA FirstIs ==
  ASSUME NEW assocs \in Seq(EimAssociation), NEW m, Esep!Associated(assocs, m) # {}
  PROVE  /\ Esep!First(assocs, m) \in 1..Len(assocs)
         /\ assocs[Esep!First(assocs, m)].eim_id = m
<1> DEFINE A == Esep!Associated(assocs, m)
<1>1. A \subseteq Nat /\ A # {} /\ A \subseteq 1..Len(assocs)
  BY DEF Esep!Associated
<1>2. PICK k \in A : \A j \in A : ~ (<<j, k>> \in OpToRel(<, Nat))
  <2> HIDE DEF A
  <2> QED  BY <1>1, WFMin, NatLessThanWellFounded
<1>3. \A j \in A : k <= j
  <2> HIDE DEF A
  <2>1. SUFFICES ASSUME NEW j \in A, j < k PROVE FALSE
    BY <1>1
  <2>2. <<j, k>> \in OpToRel(<, Nat)
    BY <1>1, <2>1 DEF OpToRel
  <2> QED  BY <1>2, <2>2
<1>4. Esep!First(assocs, m) \in A
  BY <1>3 DEF Esep!First
<1> QED  BY <1>1, <1>4 DEF Esep!Associated

\* A new association is its eIM's only one, and nothing is remembered of that eIM.
LEMMA AddedSound ==
  ASSUME NEW x \in Sound, NEW a \in EimAssociation, NEW kept \in SUBSET x.packages,
         Esep!Associated(x.eim_associations, a.eim_id) = {}
  PROVE  [x EXCEPT !.eim_associations = Append(x.eim_associations, a), !.packages = kept]
           \in Sound
<1> DEFINE assocs == x.eim_associations
           L      == Len(assocs)
           new    == Append(assocs, a)
           y      == [x EXCEPT !.eim_associations = new, !.packages = kept]
<1>1. x \in EuiccState /\ Unique(assocs) /\ Remembers(x)
  BY DEF Sound
<1>2. assocs \in Seq(EimAssociation) /\ L \in Nat /\ DOMAIN assocs = 1..L
  BY <1>1 DEF EuiccState
<1>3. \A j \in 1..L : assocs[j].eim_id # a.eim_id
  BY <1>2 DEF Esep!Associated
<1>4. \A p \in x.packages :
        /\ \E j \in 1..L : assocs[j].eim_id = p[1]
        /\ \A j \in 1..L : assocs[j].eim_id = p[1] => p[2] <= assocs[j].counter_value
  BY <1>1, <1>2 DEF Remembers
<1>5. \A i \in x.numbers : i <= x.notification_seq
  BY <1>1 DEF Remembers
<1> HIDE DEF assocs
<1>6. /\ new \in Seq(EimAssociation) /\ DOMAIN new = 1..(L + 1)
      /\ \A j \in 1..L : new[j] = assocs[j]
      /\ new[L + 1] = a
  BY <1>2
<1> HIDE DEF new
<1>7. /\ y \in EuiccState /\ y.eim_associations = new /\ y.packages = kept
      /\ y.notification_seq = x.notification_seq /\ y.numbers = x.numbers
  BY <1>1, <1>6 DEF EuiccState
<1> HIDE DEF y, L
<1>8. Unique(new)
  <2> SUFFICES ASSUME NEW i \in 1..(L + 1), NEW j \in 1..(L + 1), new[i].eim_id = new[j].eim_id
               PROVE  i = j
    BY <1>6 DEF Unique
  <2>1. CASE i \in 1..L /\ j \in 1..L
    BY <1>1, <1>2, <1>6, <2>1 DEF Unique, L
  <2>2. CASE i = L + 1 \/ j = L + 1
    BY <1>2, <1>3, <1>6, <2>2
  <2> QED  BY <1>2, <2>1, <2>2
<1>9. \A p \in kept : /\ \E j \in DOMAIN new : new[j].eim_id = p[1]
                      /\ \A j \in DOMAIN new : new[j].eim_id = p[1] => p[2] <= new[j].counter_value
  <2> TAKE p \in kept
  <2>1. PICK i \in 1..L : assocs[i].eim_id = p[1]
    BY <1>4
  <2>2. i \in DOMAIN new /\ new[i].eim_id = p[1]
    BY <1>2, <1>6, <2>1
  <2>3. ASSUME NEW j \in DOMAIN new, new[j].eim_id = p[1] PROVE p[2] <= new[j].counter_value
    <3>1. j \in 1..L
      BY <1>2, <1>3, <1>6, <2>1, <2>3
    <3> QED  BY <1>4, <1>6, <2>3, <3>1
  <2> QED  BY <2>2, <2>3
<1>10. Remembers(y)
  BY <1>5, <1>7, <1>9 DEF Remembers
<1>11. y \in Sound
  BY <1>7, <1>8, <1>10 DEF Sound
<1> QED  BY <1>11 DEF y, new, assocs

\* An association that is removed leaves the others as they were.
LEMMA RemovedSound ==
  ASSUME NEW x \in Sound, NEW k \in 1..Len(x.eim_associations), NEW new,
         new = SubSeq(x.eim_associations, 1, k - 1)
               \o SubSeq(x.eim_associations, k + 1, Len(x.eim_associations)),
         NEW kept \in SUBSET x.packages,
         \A p \in kept : p[1] = x.eim_associations[k].eim_id =>
                           Esep!Associated(new, p[1]) # {}
  PROVE  [x EXCEPT !.eim_associations = new, !.packages = kept] \in Sound
<1> DEFINE assocs == x.eim_associations
           L == Len(assocs)
           A == SubSeq(assocs, 1, k - 1)
           B == SubSeq(assocs, k + 1, L)
           cut == A \o B
           y == [x EXCEPT !.eim_associations = new, !.packages = kept]
<1>1. new = cut
  OBVIOUS
<1>2. /\ x \in EuiccState /\ Unique(assocs) /\ Remembers(x)
  BY DEF Sound
<1>3. \A p \in kept : p[1] = assocs[k].eim_id => Esep!Associated(new, p[1]) # {}
  OBVIOUS
<1>4. assocs \in Seq(EimAssociation) /\ L \in Nat /\ k \in 1..L
  BY <1>2 DEF EuiccState
<1> HIDE DEF assocs
<1>5. /\ A \in Seq(EimAssociation) /\ Len(A) = k - 1
      /\ \A j \in 1..(k - 1) : A[j] = assocs[j]
  BY <1>4
<1>6. /\ B \in Seq(EimAssociation) /\ Len(B) = L - k
      /\ \A j \in 1..(L - k) : B[j] = assocs[j + k]
  BY <1>4
<1> HIDE DEF A, B
<1>7. cut \in Seq(EimAssociation) /\ Len(cut) = L - 1
  <2>1. A \o B \in Seq(EimAssociation)
    BY <1>5, <1>6
  <2>2. Len(A \o B) = Len(A) + Len(B)
    <3>1. \A a, b \in Seq(EimAssociation) : Len(a \o b) = Len(a) + Len(b)
      OBVIOUS
    <3>2. A \in Seq(EimAssociation) /\ B \in Seq(EimAssociation)
      BY <1>5, <1>6
    <3> QED  BY <3>1, <3>2
  <2> QED  BY <1>4, <1>5, <1>6, <2>1, <2>2
<1>8. ASSUME NEW j \in 1..(L - 1)
      PROVE  cut[j] = IF j < k THEN assocs[j] ELSE assocs[j + 1]
  <2>1. CASE j < k
    <3>1. j \in 1..(k - 1) /\ j <= Len(A)
      BY <1>4, <1>5, <2>1
    <3>2. cut[j] = A[j]
      BY <1>4, <1>5, <1>6, <3>1
    <3> QED  BY <1>5, <2>1, <3>1, <3>2
  <2>2. CASE ~ (j < k)
    <3>1. /\ j - (k - 1) \in 1..(L - k) /\ ~ (j <= Len(A)) /\ j \in 1..(Len(A) + Len(B))
          /\ (j - (k - 1)) + k = j + 1
      BY <1>4, <1>5, <1>6, <2>2
    <3>2. cut[j] = B[j - (k - 1)]
      BY <1>4, <1>5, <1>6, <3>1
    <3>3. B[j - (k - 1)] = assocs[(j - (k - 1)) + k]
      BY <1>6, <3>1
    <3> QED  BY <2>2, <3>1, <3>2, <3>3
  <2> QED  BY <2>1, <2>2
<1> HIDE DEF cut
<1>9. /\ new \in Seq(EimAssociation) /\ Len(new) = L - 1 /\ DOMAIN new = 1..(L - 1)
       /\ DOMAIN assocs = 1..L
  <2>1. new \in Seq(EimAssociation) /\ Len(new) = L - 1
    BY <1>1, <1>7
  <2>2. \A t \in Seq(EimAssociation) : DOMAIN t = 1..Len(t)
    OBVIOUS
  <2>3. DOMAIN new = 1..(L - 1) /\ DOMAIN assocs = 1..L
    BY <1>4, <2>1, <2>2
  <2> QED  BY <2>1, <2>3
<1>10. /\ y.eim_associations = new /\ y.notification_seq = x.notification_seq
      /\ y.packages = kept /\ y.numbers = x.numbers
  BY <1>2 DEF EuiccState
<1>11. y \in EuiccState
  BY <1>2, <1>9 DEF EuiccState
<1> HIDE DEF y
<1>12. \A j \in 1..(L - 1) : j \in 1..L /\ j + 1 \in 1..L
  BY <1>4
<1>13. Unique(new)
  <2> SUFFICES ASSUME NEW i \in 1..(L - 1), NEW j \in 1..(L - 1), new[i].eim_id = new[j].eim_id
               PROVE  i = j
    BY <1>9 DEF Unique
  <2> DEFINE i1 == IF i < k THEN i ELSE i + 1
             j1 == IF j < k THEN j ELSE j + 1
  <2>1. new[i] = assocs[i1] /\ new[j] = assocs[j1] /\ i1 \in 1..L /\ j1 \in 1..L
    BY <1>1, <1>8, <1>12
  <2>2. i1 = j1
    <3> HIDE DEF i1, j1
    <3> QED  BY <1>2, <1>9, <2>1 DEF Unique
  <2> QED  BY <1>4, <2>2
<1>14. Remembers(y)
  <2>1. \A n \in y.numbers : n <= y.notification_seq
    BY <1>2, <1>10 DEF Remembers
  <2>2. \A p \in kept, j \in 1..(L - 1) :
          new[j].eim_id = p[1] => p[2] <= new[j].counter_value
    <3> TAKE p \in kept, j \in 1..(L - 1)
    <3>1. PICK i \in 1..L : new[j] = assocs[i]
      BY <1>1, <1>8, <1>12
    <3> QED  BY <1>2, <1>9, <3>1 DEF Remembers, assocs
  <2>3. \A p \in kept : \E j \in 1..(L - 1) : new[j].eim_id = p[1]
    <3> TAKE p \in kept
    <3>1. PICK i \in 1..L : assocs[i].eim_id = p[1]
      BY <1>2, <1>9 DEF Remembers, assocs
    <3>2. CASE i = k
      <4>1. Esep!Associated(new, p[1]) # {}
        BY <1>3, <3>1, <3>2
      <4> QED  BY <1>9, <4>1 DEF Esep!Associated
    <3>3. CASE i < k
      <4>1. i \in 1..(L - 1) /\ new[i] = assocs[i]
        <5>1. i \in 1..(L - 1)
          BY <1>4, <3>3
        <5>2. cut[i] = IF i < k THEN assocs[i] ELSE assocs[i + 1]
          BY <1>8, <5>1
        <5> QED  BY <1>1, <3>3, <5>1, <5>2
      <4> QED  BY <3>1, <4>1
    <3>4. CASE i > k
      <4>1. i - 1 \in 1..(L - 1) /\ ~ (i - 1 < k) /\ (i - 1) + 1 = i
        BY <1>4, <3>4
      <4>2. new[i - 1] = assocs[i]
        BY <1>1, <1>8, <4>1
      <4> QED  BY <3>1, <4>1, <4>2
    <3>5. i < k \/ i = k \/ i > k
      BY <1>4
    <3> QED  BY <3>2, <3>3, <3>4, <3>5
  <2> QED  BY <1>10, <1>9, <2>1, <2>2, <2>3 DEF Remembers
<1>15. y \in Sound
  BY <1>10, <1>11, <1>13, <1>14 DEF Sound
<1> QED  BY <1>15 DEF y

\* A counter that is set is ahead of what is still remembered.
LEMMA CounterSetSound ==
  ASSUME NEW x \in Sound, NEW m \in Eims, NEW c \in 0..MaxCounter,
         Esep!Associated(x.eim_associations, m) # {},
         NEW kept \in SUBSET x.packages, \A p \in kept : p[1] = m => p[2] <= c
  PROVE  [x EXCEPT !.eim_associations = Esep!WithCounter(x.eim_associations, m, c),
                   !.packages = kept] \in Sound
<1> DEFINE assocs == x.eim_associations
           L      == Len(assocs)
           f      == Esep!First(assocs, m)
           new    == [assocs EXCEPT ![f].counter_value = c]
           y      == [x EXCEPT !.eim_associations = new, !.packages = kept]
<1>1. /\ x \in EuiccState /\ Unique(assocs) /\ Remembers(x)
  BY DEF Sound
<1>2. assocs \in Seq(EimAssociation) /\ L \in Nat /\ DOMAIN assocs = 1..L
  BY <1>1 DEF EuiccState
<1>3. f \in 1..L /\ assocs[f].eim_id = m
  BY <1>2, FirstIs
<1>4. \A p \in x.packages :
        /\ \E j \in 1..L : assocs[j].eim_id = p[1]
        /\ \A j \in 1..L : assocs[j].eim_id = p[1] => p[2] <= assocs[j].counter_value
  BY <1>1, <1>2 DEF Remembers
<1>5. \A i \in x.numbers : i <= x.notification_seq
  BY <1>1 DEF Remembers
<1>6. y = [x EXCEPT !.eim_associations = Esep!WithCounter(x.eim_associations, m, c),
                    !.packages = kept]
  BY DEF Esep!WithCounter
<1> HIDE DEF assocs, f
<1>7. \A j \in 1..L : assocs[j] \in EimAssociation
  BY <1>2
<1>8. [assocs[f] EXCEPT !.counter_value = c] \in EimAssociation
  BY <1>3, <1>7 DEF EimAssociation
<1>9. /\ new \in Seq(EimAssociation) /\ DOMAIN new = 1..L
      /\ \A j \in 1..L : new[j] = IF j = f THEN [assocs[f] EXCEPT !.counter_value = c]
                                   ELSE assocs[j]
  BY <1>2, <1>3, <1>8
<1> HIDE DEF new
<1>10. \A j \in 1..L : /\ new[j].eim_id = assocs[j].eim_id
                       /\ new[j].counter_value = IF j = f THEN c ELSE assocs[j].counter_value
  BY <1>3, <1>7, <1>9 DEF EimAssociation
<1>11. /\ y \in EuiccState /\ y.eim_associations = new /\ y.packages = kept
       /\ y.notification_seq = x.notification_seq /\ y.numbers = x.numbers
  BY <1>1, <1>9 DEF EuiccState
<1> HIDE DEF y
<1>12. Unique(new)
  BY <1>1, <1>2, <1>9, <1>10 DEF Unique
<1>13. \A p \in kept : /\ \E j \in DOMAIN new : new[j].eim_id = p[1]
                       /\ \A j \in DOMAIN new : new[j].eim_id = p[1] => p[2] <= new[j].counter_value
  BY <1>3, <1>4, <1>9, <1>10
<1>14. Remembers(y)
  BY <1>5, <1>11, <1>13 DEF Remembers
<1>15. y \in Sound
  BY <1>11, <1>12, <1>14 DEF Sound
<1> QED  BY <1>6, <1>15

LEMMA EcoSound ==
  ASSUME NEW x \in Sound, NEW eco \in Esep!Eco
  PROVE  ExecuteEco(x, eco) \in Sound
<1> DEFINE assocs == Esep!AssociationsAfter(eco, x.eim_associations)
           kept   == Remembered(x.packages, eco, assocs)
           y      == [x EXCEPT !.eim_associations = assocs, !.packages = kept]
           m      == eco.eimId
<1>1. /\ x \in EuiccState /\ x.eim_associations \in Seq(EimAssociation)
      /\ MaxCounter \in Nat /\ m \in Eims
      /\ eco.counterValue = Esep!NoCounter \/ eco.counterValue \in 0..MaxCounter
  BY DevicesAssumption DEF Sound, EuiccState, Esep!Eco
<1>2. /\ kept \in SUBSET x.packages
      /\ \A p \in kept : p[1] = m => Esep!Associated(assocs, p[1]) # {}
      /\ eco.action = "updateEim" /\ eco.counterValue # Esep!NoCounter =>
           \A p \in kept : p[1] = m => p[2] <= eco.counterValue
  BY DEF Remembered
<1>3. CASE ~ Esep!EcoSucceeds(eco, x.eim_associations)
  BY <1>3 DEF ExecuteEco
<1>4. CASE Esep!EcoSucceeds(eco, x.eim_associations)
  <2>1. ExecuteEco(x, eco) = y
    BY <1>1, <1>4 DEF ExecuteEco, EuiccState
  <2> HIDE DEF kept
  <2>2. CASE eco.action = "addEim"
    <3> DEFINE a == [eim_id        |-> m,
                     counter_value |-> IF eco.counterValue = Esep!NoCounter THEN 0
                                       ELSE eco.counterValue]
    <3>1. a \in EimAssociation /\ a.eim_id = m
      BY <1>1 DEF EimAssociation
    <3>2. Esep!Associated(x.eim_associations, m) = {}
      BY <1>4, <2>2 DEF Esep!EcoSucceeds
    <3>3. assocs = Append(x.eim_associations, a)
      BY <2>2 DEF Esep!AssociationsAfter
    <3> HIDE DEF a, assocs, m
    <3>4. [x EXCEPT !.eim_associations = Append(x.eim_associations, a), !.packages = kept] \in Sound
      BY <1>2, <3>1, <3>2, AddedSound
    <3> QED  BY <2>1, <3>3, <3>4
  <2>3. CASE eco.action = "deleteEim"
    <3> DEFINE k == Esep!First(x.eim_associations, m)
    <3>1. Esep!Associated(x.eim_associations, m) # {}
      BY <1>4, <2>3 DEF Esep!EcoSucceeds
    <3>2. k \in 1..Len(x.eim_associations) /\ x.eim_associations[k].eim_id = m
      BY <1>1, <3>1, FirstIs
    <3>3. assocs = SubSeq(x.eim_associations, 1, k - 1)
                   \o SubSeq(x.eim_associations, k + 1, Len(x.eim_associations))
      BY <2>3 DEF Esep!AssociationsAfter, Esep!Without
    <3> HIDE DEF k, assocs, m
    <3>4. y \in Sound
      BY <1>2, <3>2, <3>3, RemovedSound
    <3> QED  BY <2>1, <3>4
  <2>4. CASE eco.action = "updateEim" /\ eco.counterValue # Esep!NoCounter
    <3>1. Esep!Associated(x.eim_associations, m) # {}
      BY <1>4, <2>4 DEF Esep!EcoSucceeds
    <3>2. assocs = Esep!WithCounter(x.eim_associations, m, eco.counterValue)
      BY <2>4 DEF Esep!AssociationsAfter
    <3>3. eco.counterValue \in 0..MaxCounter
      BY <1>1, <2>4
    <3>4. \A p \in kept : p[1] = m => p[2] <= eco.counterValue
      BY <1>2, <2>4
    <3> HIDE DEF m, assocs
    <3>5. [x EXCEPT !.eim_associations = Esep!WithCounter(x.eim_associations, m, eco.counterValue),
                    !.packages = kept] \in Sound
      BY <1>1, <1>2, <3>1, <3>3, <3>4, CounterSetSound
    <3> QED  BY <2>1, <3>2, <3>5
  <2>5. CASE /\ eco.action # "addEim" /\ eco.action # "deleteEim"
             /\ ~ (eco.action = "updateEim" /\ eco.counterValue # Esep!NoCounter)
    <3>1. assocs = x.eim_associations
      BY <2>5 DEF Esep!AssociationsAfter
    <3> HIDE DEF assocs
    <3>2. /\ y \in EuiccState /\ y.eim_associations = x.eim_associations
          /\ y.packages = kept /\ y.notification_seq = x.notification_seq
          /\ y.numbers = x.numbers
      BY <1>1, <1>2, <3>1 DEF EuiccState
    <3>3. Unique(x.eim_associations) /\ Remembers(x)
      BY DEF Sound
    <3> HIDE DEF y
    <3>4. Remembers(y)
      BY <1>2, <3>2, <3>3 DEF Remembers
    <3>5. y \in Sound
      BY <3>2, <3>3, <3>4 DEF Sound
    <3> QED  BY <2>1, <3>5
  <2> QED  BY <2>2, <2>3, <2>4, <2>5
<1> QED  BY <1>3, <1>4

\* A package's eCOs one after the other: a fold of EcoSound.
LEMMA EcosSound ==
  ASSUME NEW x \in Sound, NEW ecos \in EcoLists
  PROVE  ExecuteEcos(x, ecos) \in Sound
<1> DEFINE n == Len(ecos)
           G == [y \in (1..n) \X Sound |-> ExecuteEco(y[2], ecos[y[1]])]
           Step(h) == [k \in 0..Len(ecos) |-> IF k = 0 THEN x ELSE ExecuteEco(h[k - 1], ecos[k])]
           after == CHOOSE h : h = Step(h)
<1>1. n \in Nat /\ \A k \in 1..n : ecos[k] \in Esep!Eco
  <2>1. ecos \in Seq(Esep!Eco)
    BY EcosAssumption
  <2> QED  BY <2>1
<1>2. \A k \in 1..n, z \in Sound : ExecuteEco(z, ecos[k]) \in Sound
  BY <1>1, EcoSound
<1>3. /\ G \in [(1..n) \X Sound -> Sound]
      /\ \A k \in 1..n, z \in Sound : G[<<k, z>>] = ExecuteEco(z, ecos[k])
  <2> HIDE DEF Sound
  <2> QED  BY <1>2
<1> HIDE DEF G, Sound
<1>4. /\ \E g \in [0..n -> Sound] : Iterates(g, x, n, G, Sound)
      /\ \A h : Iterates(h, x, n, G, Sound) => \A k \in 0..n : h[k] \in Sound
  BY <1>1, <1>3, Iteration
<1>5. PICK g \in [0..n -> Sound] : Iterates(g, x, n, G, Sound)
  BY <1>4
<1>6. g = Step(g)
  <2>1. \A k \in 1..n : g[k - 1] \in Sound
    BY <1>1
  <2>2. g[0] = x /\ \A k \in 1..n : g[k] = ExecuteEco(g[k - 1], ecos[k])
    BY <1>3, <1>5, <2>1 DEF Iterates
  <2> QED  BY <1>1, <1>5, <2>2
<1>7. after = Step(after)
  BY <1>6
<1> HIDE DEF after
<1>8. after[0] = x /\ \A k \in 1..n : after[k] = ExecuteEco(after[k - 1], ecos[k])
  BY <1>1, <1>7
<1>9. Iterates(after, x, n, G, Sound)
  BY <1>3, <1>8 DEF Iterates
<1>10. after[n] \in Sound
  <2>1. \A k \in 0..n : after[k] \in Sound
    BY <1>4, <1>9
  <2> QED  BY <1>1, <2>1
<1>11. ExecuteEcos(x, ecos) = after[n]
  BY DEF ExecuteEcos, after
<1> QED  BY <1>10, <1>11

\* An eUICC whose queue gains the next number, or loses one.
LEMMA NotifiedSound ==
  ASSUME NEW x \in Sound, x.notification_seq < MaxSeq, NEW profiles \in SUBSET Iccids
  PROVE  [add_notification(x) EXCEPT !.profiles = profiles] \in Sound
<1> DEFINE n     == x.notification_seq + 1
           queue == x.notifications \cup {n}
           given == x.numbers \cup {n}
           y     == [x EXCEPT !.notification_seq = n, !.notifications = queue,
                              !.numbers = given, !.profiles = profiles]
<1>1. x \in EuiccState /\ Unique(x.eim_associations) /\ Remembers(x)
  BY DEF Sound
<1>2. /\ x.notification_seq \in 0..MaxSeq /\ MaxSeq \in Nat
      /\ x.notifications \in SUBSET (1..MaxSeq) /\ x.numbers \in SUBSET (1..MaxSeq)
  BY <1>1, DevicesAssumption DEF EuiccState
<1>3. /\ n \in 0..MaxSeq /\ queue \in SUBSET (1..MaxSeq) /\ given \in SUBSET (1..MaxSeq)
      /\ \A i \in given : i <= n
  BY <1>1, <1>2 DEF Remembers
<1>4. [add_notification(x) EXCEPT !.profiles = profiles] = y
  BY <1>1 DEF add_notification, EuiccState
<1> HIDE DEF n, queue, given
<1>5. /\ y \in EuiccState /\ y.eim_associations = x.eim_associations
      /\ y.packages = x.packages /\ y.notification_seq = n /\ y.numbers = given
  BY <1>1, <1>3 DEF EuiccState
<1> HIDE DEF y
<1>6. Remembers(y)
  BY <1>1, <1>3, <1>5 DEF Remembers
<1> QED  BY <1>1, <1>4, <1>5, <1>6 DEF Sound

LEMMA DrainedSound ==
  ASSUME NEW x \in Sound, NEW n
  PROVE  [x EXCEPT !.notifications = @ \ {n}] \in Sound
<1> DEFINE y == [x EXCEPT !.notifications = @ \ {n}]
<1>1. x \in EuiccState /\ Unique(x.eim_associations) /\ Remembers(x)
  BY DEF Sound
<1>2. /\ y \in EuiccState /\ y.eim_associations = x.eim_associations
      /\ y.packages = x.packages /\ y.notification_seq = x.notification_seq
      /\ y.numbers = x.numbers
  BY <1>1 DEF EuiccState
<1> HIDE DEF y
<1>3. Remembers(y)
  BY <1>1, <1>2 DEF Remembers
<1>4. y \in Sound
  BY <1>1, <1>2, <1>3 DEF Sound
<1> QED  BY <1>4 DEF y

LEMMA UpdateInv ==
  ASSUME Inv, NEW e \in DOMAIN instances, NEW x \in Sound, Update(e, x)
  PROVE  Inv'
<1>1. /\ DOMAIN instances \subseteq Eids /\ \A d \in DOMAIN instances : instances[d] \in Sound
  BY PoolIs DEF Inv
<1>2. /\ DOMAIN instances' = DOMAIN instances
      /\ instances' = [d \in DOMAIN instances' |-> instances'[d]]
      /\ \A d \in DOMAIN instances' : instances'[d] \in Sound
  BY <1>1 DEF Update
<1>3. instances' \in Pool
  BY <1>1, <1>2, InPool
<1> QED  BY <1>3 DEF Inv, Update, ByEid

LEMMA EuiccInv ==
  ASSUME Inv, NEW e \in DOMAIN instances, EuiccNext(e)
  PROVE  Inv'
<1> DEFINE x == instances[e]
<1>1. DOMAIN instances \subseteq Eids /\ \A d \in DOMAIN instances : instances[d] \in Sound
  BY PoolIs DEF Inv
<1>2. x \in Sound /\ x.profiles \in SUBSET Iccids
  BY <1>1 DEF Sound, EuiccState
<1>3. CASE delete_euicc(e)
  <2>1. /\ DOMAIN instances' = DOMAIN instances \ {e}
        /\ instances' = [d \in DOMAIN instances' |-> instances'[d]]
        /\ \A d \in DOMAIN instances' : instances'[d] = instances[d]
    BY <1>3 DEF delete_euicc, Without
  <2>2. DOMAIN instances' \subseteq Eids /\ \A d \in DOMAIN instances' : instances'[d] \in Sound
    BY <1>1, <2>1
  <2>3. instances' \in Pool
    BY <2>1, <2>2, InPool
  <2> QED  BY <1>3, <2>3 DEF delete_euicc, Inv, ByEid
<1>4. CASE (\E a \in Added : add_eim(e, a)) \/ (\E m \in Eims : delete_eim(e, m))
  <2>1. PICK eco \in Esep!Eco : Update(e, ExecuteEco(x, eco))
    <3>1. ASSUME NEW a \in Added, add_eim(e, a)
          PROVE  \E eco \in Esep!Eco : Update(e, ExecuteEco(x, eco))
      <4> DEFINE eco == [action |-> "addEim", eimId |-> a.eim_id,
                         counterValue |-> a.counter_value]
      <4>1. eco \in Esep!Eco
        BY EcosAssumption DEF Esep!Eco, Esep!EimAssociation
      <4> QED  BY <3>1, <4>1 DEF add_eim
    <3>2. ASSUME NEW m \in Eims, delete_eim(e, m)
          PROVE  \E eco \in Esep!Eco : Update(e, ExecuteEco(x, eco))
      <4> DEFINE eco == [action |-> "deleteEim", eimId |-> m, counterValue |-> Esep!NoCounter]
      <4>1. eco \in Esep!Eco
        BY DEF Esep!Eco
      <4> QED  BY <3>2, <4>1 DEF delete_eim
    <3> QED  BY <1>4, <3>1, <3>2
  <2> HIDE DEF x
  <2>2. ExecuteEco(x, eco) \in Sound
    BY <1>2, EcoSound
  <2> QED  BY <2>1, <2>2, UpdateInv
<1>5. CASE \E m \in Eims, c \in 1..MaxCounter, ecos \in EcoLists :
             load_euicc_package(e, m, c, ecos)
  <2>1. PICK m \in Eims, c \in 1..MaxCounter, ecos \in EcoLists :
          load_euicc_package(e, m, c, ecos)
    BY <1>5
  <2>2. PICK k \in FirstOf(x, m) :
          /\ c > x.eim_associations[k].counter_value
          /\ Update(e, ExecuteEcos([x EXCEPT !.eim_associations[k].counter_value = c,
                                             !.packages = @ \cup {<<m, c>>}], ecos))
    BY <2>1 DEF load_euicc_package
  <2> DEFINE taken == [x EXCEPT !.eim_associations[k].counter_value = c,
                                !.packages = @ \cup {<<m, c>>}]
  <2> HIDE DEF x
  <2>3. taken \in Sound
    BY <1>2, <2>2, PackageSound
  <2> HIDE DEF taken
  <2>4. ExecuteEcos(taken, ecos) \in Sound
    BY <2>3, EcosSound
  <2> QED  BY <2>2, <2>4, UpdateInv DEF taken
<1>6. CASE \E i \in Iccids : install_profile(e, i) \/ delete_profile(e, i)
  <2>1. PICK i \in Iccids : install_profile(e, i) \/ delete_profile(e, i)
    BY <1>6
  <2>2. /\ x.notification_seq < MaxSeq
        /\ \/ Update(e, [add_notification(x) EXCEPT !.profiles = @ \cup {i}])
           \/ Update(e, [add_notification(x) EXCEPT !.profiles = @ \ {i}])
    BY <2>1 DEF install_profile, delete_profile
  <2>3. add_notification(x).profiles = x.profiles
    BY <1>2 DEF add_notification, Sound, EuiccState
  <2> DEFINE more  == x.profiles \cup {i}
             fewer == x.profiles \ {i}
  <2>4. /\ more \in SUBSET Iccids /\ fewer \in SUBSET Iccids
        /\ \/ Update(e, [add_notification(x) EXCEPT !.profiles = more])
           \/ Update(e, [add_notification(x) EXCEPT !.profiles = fewer])
    BY <1>2, <2>2, <2>3
  <2> HIDE DEF x, more, fewer
  <2>5. /\ [add_notification(x) EXCEPT !.profiles = more] \in Sound
        /\ [add_notification(x) EXCEPT !.profiles = fewer] \in Sound
    BY <1>2, <2>2, <2>4, NotifiedSound
  <2> QED  BY <2>4, <2>5, UpdateInv
<1>7. CASE \E n \in 1..MaxSeq : remove_notification(e, n)
  <2>1. PICK n : Update(e, [x EXCEPT !.notifications = @ \ {n}])
    BY <1>7 DEF remove_notification
  <2> HIDE DEF x
  <2>2. [x EXCEPT !.notifications = @ \ {n}] \in Sound
    BY <1>2, DrainedSound
  <2> QED  BY <2>1, <2>2, UpdateInv
<1> QED  BY <1>3, <1>4, <1>5, <1>6, <1>7 DEF EuiccNext

----------------------------------------------------------------------------
(* Shutdowns, management and the dashboard.                                *)

LEMMA StopInv ==
  ASSUME Inv, lifespan_stop
  PROVE  Inv'
<1>1. /\ DOMAIN instances \subseteq Eids /\ \A d \in DOMAIN instances : instances[d] \in Sound
      /\ DOMAIN saved \subseteq Eids /\ \A d \in DOMAIN saved : saved[d] \in Sound
  BY PoolIs DEF Inv
<1>2. /\ running' \in BOOLEAN /\ instances' \in Pool /\ ByEid(devices', Device)
  BY EmptyPool DEF Inv, lifespan_stop
<1>3. CASE UNCHANGED <<database, saved>>
  BY <1>2, <1>3 DEF Inv
<1>4. CASE /\ persist_euiccs
           /\ saved' = [e \in DOMAIN saved \cup DOMAIN instances |->
                          IF e \in DOMAIN instances THEN instances[e] ELSE saved[e]]
  <2>1. /\ DOMAIN saved' = DOMAIN saved \cup DOMAIN instances
        /\ saved' = [d \in DOMAIN saved' |-> saved'[d]]
        /\ \A d \in DOMAIN saved' :
             saved'[d] = IF d \in DOMAIN instances THEN instances[d] ELSE saved[d]
    BY <1>4
  <2>2. DOMAIN saved' \subseteq Eids /\ \A d \in DOMAIN saved' : saved'[d] \in Sound
    BY <1>1, <2>1
  <2>3. saved' \in Pool
    BY <2>1, <2>2, InPool
  <2>4. /\ DOMAIN database = DOMAIN saved
        /\ \A d \in DOMAIN saved : database[d] = Row(saved[d])
    BY DEF Inv
  <2>5. database' = [d \in DOMAIN saved' |-> Row(saved'[d])]
    BY <1>4, <2>1, <2>4 DEF persist_euiccs
  <2> QED  BY <1>2, <2>3, <2>5 DEF Inv
<1> QED  BY <1>3, <1>4 DEF lifespan_stop

LEMMA PushInv ==
  ASSUME Inv, NEW e \in DOMAIN devices, push_device(e)
  PROVE  Inv'
<1> DEFINE eims     == SubSeq(devices[e].eims, 1, IF devices[e].eims = <<>> THEN 0 ELSE 1)
           preloads == devices[e].preloads
<1>1. devices[e] \in Device /\ e \in Eids
  BY DEF Inv, ByEid
<1>2. devices[e].eims \in EimLists /\ preloads \in PreloadSets
  BY <1>1 DEF Device
<1>3. devices[e].eims \in Seq(Eims) /\ preloads \in SUBSET Iccids
  BY <1>2, DevicesAssumption
<1>4. eims \in Seq(Eims) /\ NoneTwice(eims)
  <2>1. CASE devices[e].eims = <<>>
    <3>1. eims \in Seq(Eims) /\ Len(eims) = 0
      BY <1>3, <2>1
    <3>2. DOMAIN eims = {}
      <4> HIDE DEF eims
      <4> QED  BY <3>1
    <3> HIDE DEF eims
    <3> QED  BY <3>1, <3>2 DEF NoneTwice
  <2>2. CASE devices[e].eims # <<>>
    <3>1. Len(devices[e].eims) \in Nat /\ Len(devices[e].eims) # 0
      BY <1>3, <2>2
    <3>2. eims \in Seq(Eims) /\ Len(eims) = 1
      BY <1>3, <2>2, <3>1
    <3>3. DOMAIN eims = {1}
      <4> HIDE DEF eims
      <4> QED  BY <3>2
    <3> HIDE DEF eims
    <3> QED  BY <3>2, <3>3 DEF NoneTwice
  <2> QED  BY <2>1, <2>2
<1>5. instances' = create_euicc(instances, e, eims, preloads)
  BY DEF push_device
<1>6. instances \in Pool
  BY DEF Inv
<1> HIDE DEF eims, preloads
<1>7. create_euicc(instances, e, eims, preloads) \in Pool
  BY <1>1, <1>3, <1>4, <1>6, CreatePool
<1> QED  BY <1>5, <1>7 DEF push_device, Inv, ByEid

LEMMA DashboardInv ==
  ASSUME Inv, DashboardNext
  PROVE  Inv'
<1>1. DOMAIN devices \subseteq Eids /\ devices \in [DOMAIN devices -> Device]
  BY DEF Inv, ByEid
<1>2. ASSUME NEW e \in DOMAIN devices, push_device(e) PROVE Inv'
  BY <1>2, PushInv
<1>3. ASSUME DeviceChange, ByEid(devices', Device) PROVE Inv'
  BY <1>3 DEF DeviceChange, Inv
<1>4. ASSUME NEW old \in {{}} \cup {{d} : d \in DOMAIN devices}, NEW e \in FormEids,
             NEW device \in Device, save_device(old, Upper[e], device)
      PROVE  Inv'
  <2>1. Upper[e] \in Eids
    BY EidsAssumption
  <2>2. ByEid(devices', Device)
    BY <1>1, <1>4, <2>1 DEF save_device, ByEid
  <2> QED  BY <1>3, <1>4, <2>2 DEF save_device
<1>5. ASSUME NEW e \in DOMAIN devices, toggleEnabled(e) PROVE Inv'
  <2>1. [devices[e] EXCEPT !.enabled = ~ @] \in Device
    BY <1>1 DEF Device
  <2>2. ByEid(devices', Device)
    BY <1>1, <1>5, <2>1 DEF toggleEnabled, ByEid
  <2> QED  BY <1>3, <1>5, <2>2 DEF toggleEnabled
<1>6. ASSUME NEW e \in DOMAIN devices, delete_device(e) PROVE Inv'
  <2>1. ByEid(devices', Device)
    BY <1>1, <1>6 DEF delete_device, ByEid, Without
  <2> QED  BY <1>3, <1>6, <2>1 DEF delete_device
<1>7. ASSUME NEW e \in DOMAIN devices, NEW new \in Eids, clone(e, new) PROVE Inv'
  <2>1. ByEid(devices', Device)
    BY <1>1, <1>7 DEF clone, ByEid, With
  <2> QED  BY <1>3, <1>7, <2>1 DEF clone
<1> QED  BY <1>2, <1>4, <1>5, <1>6, <1>7 DEF DashboardNext

----------------------------------------------------------------------------
(* The invariant and its consequences.                                     *)

LEMMA InitInv == Init => Inv
<1> SUFFICES ASSUME Init PROVE Inv
  OBVIOUS
<1>1. DOMAIN Empty = {}
  BY DEF Empty
<1>2. ByEid(devices, Device)
  BY <1>1 DEF Init, ByEid, Empty
<1>3. database = [e \in DOMAIN saved |-> Row(saved[e])]
  BY DEF Init, Empty
<1> QED  BY <1>2, <1>3, EmptyPool DEF Init, Inv

LEMMA NextInv == ClonesEdited => (Inv /\ [Next]_vars => Inv')
<1> SUFFICES ASSUME ClonesEdited, Inv, [Next]_vars PROVE Inv'
  OBVIOUS
<1>1. CASE lifespan_start
  <2>1. instances' \in Pool
    BY <1>1, StartPool
  <2> QED  BY <1>1, <2>1 DEF lifespan_start, Inv, ByEid
<1>2. CASE lifespan_stop
  BY <1>2, StopInv
<1>3. CASE Crash
  BY <1>3, EmptyPool DEF Crash, Inv, ByEid
<1>4. CASE push_test_data
  <2>1. instances \in Pool
    BY DEF Inv
  <2>2. create_test_euiccs(instances) \in Pool
    BY <2>1, TestPool
  <2> QED  BY <1>4, <2>2 DEF push_test_data, Inv, ByEid
<1>5. CASE \E e \in DOMAIN instances : EuiccNext(e)
  BY <1>5, EuiccInv
<1>6. CASE DashboardNext
  BY <1>6, DashboardInv
<1>7. CASE UNCHANGED vars
  BY <1>7 DEF vars, Inv, ByEid
<1> QED  BY <1>1, <1>2, <1>3, <1>4, <1>5, <1>6, <1>7 DEF Next

LEMMA Invariance == ClonesEdited => (Spec => []Inv)
<1> SUFFICES ASSUME ClonesEdited PROVE Spec => []Inv
  OBVIOUS
<1>1. Init => Inv
  BY InitInv
<1>2. Inv /\ [Next]_vars => Inv'
  BY NextInv
<1> QED  BY <1>1, <1>2, PTL DEF Spec

\* eUICCs, rows and devices keep their types through any number of restarts, for
\* every dashboard whose users edit a clone before they use it.
THEOREM StoreTyped == ClonesEdited => (Spec => []TypeOK)
<1>1. Inv => TypeOK
  <2> SUFFICES ASSUME Inv PROVE TypeOK
    OBVIOUS
  <2>1. /\ DOMAIN instances \subseteq Eids /\ instances = [d \in DOMAIN instances |-> instances[d]]
        /\ \A d \in DOMAIN instances : instances[d] \in EuiccState
    BY PoolIs DEF Inv, Sound
  <2>2. /\ DOMAIN saved \subseteq Eids /\ saved = [d \in DOMAIN saved |-> saved[d]]
        /\ \A d \in DOMAIN saved : saved[d] \in EuiccState
    BY PoolIs DEF Inv, Sound
  <2>3. /\ DOMAIN database = DOMAIN saved /\ database = [d \in DOMAIN database |-> database[d]]
        /\ \A d \in DOMAIN database : database[d] \in DbEuicc
    BY <2>2 DEF Inv, Row, EuiccState, DbEuicc
  <2>4. ByEid(instances, EuiccState)
    BY <2>1 DEF ByEid
  <2>5. ByEid(saved, EuiccState)
    BY <2>2 DEF ByEid
  <2>6. ByEid(database, DbEuicc)
    BY <2>2, <2>3 DEF ByEid
  <2> QED  BY <2>4, <2>5, <2>6 DEF Inv, TypeOK
<1>2. ClonesEdited => (Spec => []Inv)
  BY Invariance
<1> QED  BY <1>1, <1>2, PTL

\* However often an eUICC is saved, killed, deleted and brought back: it accepts no
\* package and gives out no notification number that it remembers.  Only an eCO or
\* route that leaves an eIM without an association, and an eCO that sets a counter,
\* make it forget packages.
THEOREM NothingIsForgotten == ClonesEdited => (Spec => []NothingForgotten)
<1>1. Inv => NothingForgotten
  <2> SUFFICES ASSUME Inv, NEW e \in DOMAIN instances
               PROVE  /\ \A n \in instances[e].numbers : n <= instances[e].notification_seq
                      /\ \A p \in instances[e].packages :
                           \A k \in FirstOf(instances[e], p[1]) :
                             p[2] <= instances[e].eim_associations[k].counter_value
    BY DEF NothingForgotten
  <2>1. Remembers(instances[e])
    BY PoolIs DEF Inv, Sound
  <2> QED  BY <2>1 DEF Remembers, FirstOf
<1>2. ClonesEdited => (Spec => []Inv)
  BY Invariance
<1> QED  BY <1>1, <1>2, PTL

\* A start brings every eUICC back as it was last saved, whatever the dashboard's
\* list, its order and the test data are.
THEOREM RestartsKeep == ClonesEdited => (Spec => RestartKeeps)
<1> SUFFICES ASSUME ClonesEdited PROVE Spec => RestartKeeps
  OBVIOUS
<1>1. ASSUME Inv, [Next]_vars
      PROVE  [running' /\ ~ running =>
                \A e \in DOMAIN saved :
                  e \in DOMAIN instances' /\ Row(instances'[e]) = Row(saved[e])]_vars
  <2> SUFFICES ASSUME running', ~ running
               PROVE  \A e \in DOMAIN saved :
                        e \in DOMAIN instances' /\ Row(instances'[e]) = Row(saved[e])
    OBVIOUS
  <2>1. lifespan_start
    BY <1>1 DEF Next, vars, lifespan_stop, Crash, push_test_data, EuiccNext, delete_euicc,
                add_eim, delete_eim, load_euicc_package, install_profile, delete_profile,
                remove_notification, Update, DashboardNext, save_device, toggleEnabled,
                delete_device, push_device, clone, DeviceChange
  <2> DEFINE loaded == load_persisted_euiccs
  <2>2. /\ DOMAIN loaded = DOMAIN saved
        /\ \A e \in DOMAIN saved : Row(loaded[e]) = Row(saved[e])
    BY <1>1, LoadedPool
  <2>3. Keeps(loaded, instances')
    BY <1>1, <2>1, StartPool
  <2> HIDE DEF loaded
  <2> QED  BY <2>2, <2>3 DEF Keeps
<1>2. ClonesEdited => (Spec => []Inv)
  BY Invariance
<1> QED  BY <1>1, <1>2, PTL DEF Spec, RestartKeeps
=============================================================================
