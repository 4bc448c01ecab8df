------------------------ MODULE EuiccProfilesProofs ------------------------
(***************************************************************************)
(* Proofs about EuiccProfiles for every set of ICCIDs, every memory size   *)
(* and every bound.                                                        *)
(***************************************************************************)
EXTENDS EuiccProfiles, NatSetInduction, FiniteSetTheorems, TLAPS

----------------------------------------------------------------------------
(* What the slots are charged.                                             *)

\* A list of slots whose sizes are naturals.
Sized(p) == Len(p) \in Nat /\ \A k \in 1..Len(p) : p[k].size \in Nat

\* The recursive definition of ChargedUpTo is well founded.
LEMMA ChargedUpToDef ==
  ASSUME NEW p, Sized(p)
  PROVE  /\ ChargedUpTo(p) \in [0..Len(p) -> Nat]
         /\ ChargedUpTo(p)[0] = 0
         /\ \A k \in 1..Len(p) :
              ChargedUpTo(p)[k] = ChargedUpTo(p)[k - 1] + p[k].size
<1> DEFINE Good(g, n) == /\ g \in [0..n -> Nat]
                         /\ g[0] = 0
                         /\ \A k \in 1..n : g[k] = g[k - 1] + p[k].size
           S == {n \in Nat : n <= Len(p) => \E g : Good(g, n)}
<1> USE DEF Sized
<1>1. 0 \in S
  <2>1. Good([k \in 0..0 |-> 0], 0)
    OBVIOUS
  <2> QED  BY <2>1
<1>2. ASSUME NEW n \in Nat, n \in S PROVE n + 1 \in S
  <2>1. SUFFICES ASSUME n + 1 <= Len(p) PROVE \E g : Good(g, n + 1)
    <3> HIDE DEF Good
    <3> QED  OBVIOUS
  <2>2. PICK g : Good(g, n)
    <3> HIDE DEF Good
    <3>1. n <= Len(p)  BY <2>1
    <3> QED  BY <1>2, <3>1
  <2> DEFINE h == [k \in 0..(n + 1) |-> IF k = n + 1 THEN g[n] + p[n + 1].size
                                        ELSE g[k]]
  <2>3. g[n] \in Nat /\ p[n + 1].size \in Nat
    BY <2>1, <2>2
  <2>4. h \in [0..(n + 1) -> Nat]
    BY <2>2, <2>3
  <2>5. h[0] = 0
    BY <2>2
  <2>6. \A k \in 1..(n + 1) : h[k] = h[k - 1] + p[k].size
    BY <2>2
  <2>7. Good(h, n + 1)
    BY <2>4, <2>5, <2>6
  <2> QED  BY <2>7
<1>3. Nat \subseteq S
  <2> HIDE DEF S
  <2> QED  BY <1>1, <1>2, SetInduction
<1>4. PICK g : Good(g, Len(p))
  BY <1>3
<1> DEFINE Step(h) == [k \in 0..Len(p) |-> IF k = 0 THEN 0 ELSE h[k - 1] + p[k].size]
<1>5. g = Step(g)
  BY <1>4
<1>6. ChargedUpTo(p) = Step(ChargedUpTo(p))
  <2>1. ChargedUpTo(p) = CHOOSE h : h = Step(h)
    BY DEF ChargedUpTo
  <2> QED  BY <1>5, <2>1
<1> DEFINE C == ChargedUpTo(p)
<1> HIDE DEF C
<1>7. C = Step(C)
  BY <1>6 DEF C
<1>8. C[0] = 0 /\ \A k \in 1..Len(p) : C[k] = C[k - 1] + p[k].size
  BY <1>7
<1> DEFINE R == {n \in Nat : n <= Len(p) => C[n] \in Nat}
<1>9. 0 \in R
  BY <1>8
<1>10. ASSUME NEW n \in Nat, n \in R PROVE n + 1 \in R
  BY <1>8, <1>10
<1>11. Nat \subseteq R
  <2> HIDE DEF R
  <2> QED  BY <1>9, <1>10, SetInduction
<1>12. C \in [0..Len(p) -> Nat]
  BY <1>7, <1>11
<1> QED  BY <1>8, <1>12 DEF C

\* P adds up the n numbers of s.
IsTally(P, s, n) ==
  /\ P \in [0..n -> Nat]
  /\ P[0] = 0
  /\ \A k \in 1..n : P[k] = P[k - 1] + s[k]

IsAscending(f, n) == \A a, b \in 1..n : a < b => f[a] < f[b]

\* Adding up the sizes s of the positions f[1] < f[2] < ... < f[n] of 1..L gives
\* Q; adding up all of them gives P.  Then Q ends at most at P's end, and by the
\* size of any position left out below it.
LEMMA PartialCharge ==
  ASSUME NEW L \in Nat, NEW n \in Nat,
         NEW s \in [1..L -> Nat],
         NEW f \in [1..n -> 1..L],
         NEW P, NEW Q,
         IsAscending(f, n),
         IsTally(P, s, L),
         IsTally(Q, [m \in 1..n |-> s[f[m]]], n)
  PROVE  /\ Q[n] <= P[L]
         /\ \A k \in 1..L : (\A m \in 1..n : f[m] # k) => Q[n] + s[k] <= P[L]
<1> DEFINE Out(k) == \A m \in 1..n : f[m] # k
           Below(m, x) == m = 0 \/ f[m] <= x
           Good(m, x) == /\ Q[m] <= P[x]
                         /\ \A k \in 1..x : Out(k) => Q[m] + s[k] <= P[x]
           S == {x \in Nat : x <= L => \A m \in 0..n : Below(m, x) => Good(m, x)}
<1>1. 0 \in S
  <2>1. \A m \in 1..n : ~(f[m] <= 0)
    OBVIOUS
  <2>2. Good(0, 0)  BY DEF IsTally
  <2> QED  BY <2>1, <2>2
<1>2. ASSUME NEW x \in Nat, x \in S PROVE x + 1 \in S
  <2>1. SUFFICES ASSUME x + 1 <= L, NEW m \in 0..n, Below(m, x + 1)
                 PROVE  Good(m, x + 1)
    <3> HIDE DEF Below, Good
    <3> QED  OBVIOUS
  <2>2. /\ P[x + 1] = P[x] + s[x + 1] /\ x \in 0..L /\ x + 1 \in 1..L
        /\ P[x] \in Nat /\ P[x + 1] \in Nat /\ s[x + 1] \in Nat /\ Q[m] \in Nat
    BY <2>1 DEF IsTally
  <2>3. \A j \in 0..n : Below(j, x) => Good(j, x)
    <3> HIDE DEF Below, Good
    <3> QED  BY <1>2, <2>2
  <2>4. CASE Below(m, x)
    <3>1. Q[m] <= P[x] /\ \A k \in 1..x : Out(k) => Q[m] + s[k] <= P[x]
      BY <2>3, <2>4
    <3>2. Q[m] <= P[x + 1]
      BY <2>2, <3>1
    <3>3. ASSUME NEW k \in 1..(x + 1), Out(k) PROVE Q[m] + s[k] <= P[x + 1]
      <4>1. s[k] \in Nat  BY <2>1
      <4>2. CASE k = x + 1  BY <2>2, <3>1, <4>2
      <4>3. CASE k \in 1..x
        <5>1. Q[m] + s[k] <= P[x]  BY <3>1, <3>3, <4>3
        <5> QED  BY <2>2, <4>1, <5>1
      <4> QED  BY <4>2, <4>3
    <3> QED  BY <3>2, <3>3
  <2>5. CASE ~Below(m, x)
    <3>1. m \in 1..n /\ m - 1 \in 0..n /\ f[m] = x + 1
      <4>1. m # 0 /\ ~(f[m] <= x)  BY <2>5
      <4>2. m \in 1..n /\ m - 1 \in 0..n  BY <4>1
      <4>3. f[m] \in 1..L /\ f[m] <= x + 1  BY <2>1, <4>1, <4>2
      <4> QED  BY <4>1, <4>2, <4>3
    <3>2. Q[m] = Q[m - 1] + s[x + 1] /\ Q[m - 1] \in Nat
      BY <3>1 DEF IsTally
    <3>3. Below(m - 1, x)
      <4>1. CASE m = 1  BY <4>1
      <4>2. CASE m # 1
        <5>1. m - 1 \in 1..n /\ m - 1 < m  BY <3>1, <4>2
        <5>2. f[m - 1] < f[m] /\ f[m - 1] \in 1..L  BY <3>1, <5>1 DEF IsAscending
        <5> QED  BY <3>1, <5>2
      <4> QED  BY <4>1, <4>2
    <3>4. /\ Q[m - 1] <= P[x]
          /\ \A k \in 1..x : Out(k) => Q[m - 1] + s[k] <= P[x]
      BY <2>3, <3>1, <3>3
    <3>5. Q[m] <= P[x + 1]
      BY <2>2, <3>2, <3>4
    <3>6. ASSUME NEW k \in 1..(x + 1), Out(k) PROVE Q[m] + s[k] <= P[x + 1]
      <4>1. k # x + 1  BY <3>1, <3>6
      <4>2. k \in 1..x /\ s[k] \in Nat  BY <2>1, <4>1
      <4>3. Q[m - 1] + s[k] <= P[x]  BY <3>4, <3>6, <4>2
      <4>4. Q[m - 1] + s[x + 1] + s[k] <= P[x] + s[x + 1]
        <5>1. \A a, b, c, d \in Nat : a + b <= c => a + d + b <= c + d
          OBVIOUS
        <5> HIDE DEF Out, Below, Good, S
        <5> QED  BY <2>2, <3>2, <4>2, <4>3, <5>1
      <4> QED  BY <2>2, <3>2, <4>2, <4>4
    <3> QED  BY <3>5, <3>6
  <2> QED  BY <2>4, <2>5
<1>3. Nat \subseteq S
  <2> HIDE DEF S
  <2> QED  BY <1>1, <1>2, SetInduction
<1>4. Below(n, L)
  OBVIOUS
<1>5. Good(n, L)
  <2> HIDE DEF Below, Good
  <2> QED  BY <1>3, <1>4
<1> QED  BY <1>5

\* Keeping the slots K of p, in their order, charges at most what p was charged,
\* and at least the size of any slot left out less.
LEMMA RetainCharge ==
  ASSUME NEW p, Sized(p), NEW K \in SUBSET (1..Len(p)), NEW f \in Ascending(K),
         NEW q, q = [a \in DOMAIN f |-> p[f[a]]]
  PROVE  /\ Cardinality(K) \in Nat
         /\ Len(q) = Cardinality(K)
         /\ Sized(q)
         /\ UsedBy(q) <= UsedBy(p)
         /\ \A k \in (1..Len(p)) \ K : UsedBy(q) + p[k].size <= UsedBy(p)
<1> DEFINE n == Cardinality(K)
           s == [k \in 1..Len(p) |-> p[k].size]
           P == ChargedUpTo(p)
           Q == ChargedUpTo(q)
<1>1. Len(p) \in Nat /\ \A k \in 1..Len(p) : p[k].size \in Nat
  BY DEF Sized
<1>2. n \in Nat
  <2>1. IsFiniteSet(1..Len(p))  BY <1>1, FS_Interval
  <2> QED  BY <2>1, FS_Subset, FS_CardinalityType
<1> HIDE DEF n
<1>3. /\ f \in [1..n -> K]
      /\ \A a, b \in 1..n : a < b => f[a] < f[b]
  BY DEF Ascending, n
<1>4. q = [a \in 1..n |-> p[f[a]]] /\ f \in [1..n -> 1..Len(p)]
  BY <1>3
<1>5. q \in Seq({p[k] : k \in K}) /\ Len(q) = n
  BY <1>2, <1>3, <1>4
<1>6. \A m \in 1..n : q[m].size = s[f[m]] /\ q[m].size \in Nat
  BY <1>1, <1>4
<1>7. Sized(q)
  BY <1>2, <1>5, <1>6 DEF Sized
<1>8. /\ P \in [0..Len(p) -> Nat] /\ P[0] = 0
      /\ \A k \in 1..Len(p) : P[k] = P[k - 1] + p[k].size
  BY ChargedUpToDef
<1>9. /\ Q \in [0..n -> Nat] /\ Q[0] = 0
      /\ \A m \in 1..n : Q[m] = Q[m - 1] + q[m].size
  BY <1>5, <1>7, ChargedUpToDef
<1>10. UsedBy(p) = P[Len(p)] /\ UsedBy(q) = Q[n]
  BY <1>5 DEF UsedBy
<1>11. s \in [1..Len(p) -> Nat]
  BY <1>1
<1> HIDE DEF P, Q
<1>12. /\ IsTally(P, s, Len(p))
       /\ IsTally(Q, [m \in 1..n |-> s[f[m]]], n)
       /\ IsAscending(f, n)
  BY <1>3, <1>6, <1>8, <1>9 DEF IsTally, IsAscending
<1>13. /\ Q[n] <= P[Len(p)]
       /\ \A k \in 1..Len(p) :
            (\A m \in 1..n : f[m] # k) => Q[n] + s[k] <= P[Len(p)]
  <2> HIDE DEF s
  <2> QED  BY <1>1, <1>2, <1>4, <1>11, <1>12, PartialCharge
<1>14. \A k \in (1..Len(p)) \ K : \A m \in 1..n : f[m] # k
  BY <1>3
<1> QED  BY <1>2, <1>5, <1>7, <1>10, <1>13, <1>14 DEF n

\* Lists that agree on the sizes of their first n slots are charged the same
\* for them.
LEMMA PrefixCharge ==
  ASSUME NEW p, NEW q, Sized(p), Sized(q),
         NEW n \in Nat, n <= Len(p), n <= Len(q),
         \A k \in 1..n : p[k].size = q[k].size
  PROVE  ChargedUpTo(p)[n] = ChargedUpTo(q)[n]
<1> DEFINE P == ChargedUpTo(p)
           Q == ChargedUpTo(q)
           S == {x \in Nat : x <= n => P[x] = Q[x]}
<1>1. /\ P[0] = 0 /\ \A k \in 1..Len(p) : P[k] = P[k - 1] + p[k].size
      /\ Q[0] = 0 /\ \A k \in 1..Len(q) : Q[k] = Q[k - 1] + q[k].size
  BY ChargedUpToDef
<1> HIDE DEF P, Q
<1>2. 0 \in S
  BY <1>1
<1>3. ASSUME NEW x \in Nat, x \in S PROVE x + 1 \in S
  <2>1. SUFFICES ASSUME x + 1 <= n PROVE P[x + 1] = Q[x + 1]
    OBVIOUS
  <2>2. x + 1 \in 1..Len(p) /\ x + 1 \in 1..Len(q) /\ x + 1 \in 1..n
    BY <2>1 DEF Sized
  <2>3. P[x + 1] = P[x] + p[x + 1].size /\ Q[x + 1] = Q[x] + q[x + 1].size
    BY <1>1, <2>2
  <2>4. P[x] = Q[x]
    BY <1>3, <2>1
  <2> QED  BY <2>2, <2>3, <2>4
<1>4. Nat \subseteq S
  <2> HIDE DEF S
  <2> QED  BY <1>2, <1>3, SetInduction
<1> QED  BY <1>4 DEF P, Q

LEMMA SameCharge ==
  ASSUME NEW p, NEW q, Sized(p), Len(q) = Len(p),
         \A k \in 1..Len(p) : q[k].size = p[k].size
  PROVE  Sized(q) /\ UsedBy(q) = UsedBy(p)
<1>1. Sized(q)
  BY DEF Sized
<1>2. Len(p) \in Nat /\ Len(p) <= Len(p) /\ Len(p) <= Len(q)
  BY DEF Sized
<1>3. \A k \in 1..Len(p) : p[k].size = q[k].size
  OBVIOUS
<1>4. ChargedUpTo(p)[Len(p)] = ChargedUpTo(q)[Len(p)]
  BY <1>1, <1>2, <1>3, PrefixCharge
<1> QED  BY <1>1, <1>4 DEF UsedBy

LEMMA AppendCharge ==
  ASSUME NEW p, NEW q, Sized(p), Sized(q), Len(q) = Len(p) + 1,
         \A k \in 1..Len(p) : q[k].size = p[k].size
  PROVE  UsedBy(q) = UsedBy(p) + q[Len(p) + 1].size
<1>1. ChargedUpTo(p)[Len(p)] = ChargedUpTo(q)[Len(p)]
  <2>1. Len(p) \in Nat /\ Len(p) <= Len(p) /\ Len(p) <= Len(q)
    BY DEF Sized
  <2>2. \A k \in 1..Len(p) : p[k].size = q[k].size
    OBVIOUS
  <2> QED  BY <2>1, <2>2, PrefixCharge
<1>2. Len(q) \in 1..Len(q) /\ Len(q) - 1 = Len(p)
  BY DEF Sized
<1>3. ChargedUpTo(q)[Len(q)] = ChargedUpTo(q)[Len(q) - 1] + q[Len(q)].size
  BY <1>2, ChargedUpToDef
<1> QED  BY <1>1, <1>2, <1>3 DEF UsedBy

\* A list of profiles without data is charged the default for each.
LEMMA DefaultCharge ==
  ASSUME NEW p, Sized(p), \A k \in 1..Len(p) : p[k].size = DefaultSize
  PROVE  UsedBy(p) = Len(p) * DefaultSize
<1> DEFINE P == ChargedUpTo(p)
           S == {x \in Nat : x <= Len(p) => P[x] = x * DefaultSize}
<1>1. P[0] = 0 /\ \A k \in 1..Len(p) : P[k] = P[k - 1] + p[k].size
  BY ChargedUpToDef
<1>2. DefaultSize \in Nat /\ Len(p) \in Nat
  BY SizesAssumption DEF Sized
<1> HIDE DEF P
<1>3. 0 \in S
  BY <1>1, <1>2
<1>4. ASSUME NEW x \in Nat, x \in S PROVE x + 1 \in S
  <2>1. SUFFICES ASSUME x + 1 <= Len(p) PROVE P[x + 1] = (x + 1) * DefaultSize
    OBVIOUS
  <2>2. P[x + 1] = P[x] + DefaultSize
    BY <1>1, <1>2, <2>1
  <2>3. P[x] = x * DefaultSize
    BY <1>2, <1>4, <2>1
  <2>4. (x + 1) * DefaultSize = x * DefaultSize + DefaultSize
    BY <1>2
  <2> QED  BY <2>2, <2>3, <2>4
<1>5. Nat \subseteq S
  <2> HIDE DEF S
  <2> QED  BY <1>3, <1>4, SetInduction
<1> QED  BY <1>2, <1>5 DEF UsedBy, P

LEMMA UsedByType ==
  ASSUME NEW p, Sized(p)
  PROVE  UsedBy(p) \in Nat
BY ChargedUpToDef DEF UsedBy, Sized

----------------------------------------------------------------------------
(* Effect of the updates the handlers share.                               *)

LEMMA SlotsSized ==
  ASSUME TypeOK
  PROVE  /\ Len(profiles) \in Nat
         /\ Slots = 1..Len(profiles)
         /\ \A k \in Slots : profiles[k] \in ProfileSlot
         /\ \A k \in Slots : profiles[k].size \in Nat
         /\ Sized(profiles)
<1>1. Len(profiles) \in Nat /\ Slots = 1..Len(profiles)
  BY DEF TypeOK, Slots
<1>2. \A k \in Slots : profiles[k] \in ProfileSlot
  BY <1>1 DEF TypeOK
<1>3. \A k \in Slots : profiles[k].size \in Nat
  BY <1>2, SizesAssumption DEF ProfileSlot
<1> QED  BY <1>1, <1>2, <1>3 DEF Sized

LEMMA EnabledSlots ==
  ASSUME TypeOK, AtMostOneEnabled
  PROVE  get_enabled_profile = {k \in Slots : profiles[k].state = "enabled"}
BY SlotsSized DEF get_enabled_profile, FirstAmong, AtMostOneEnabled

\* profiles' differs from profiles in states only.
SameSlots ==
  /\ profiles' \in Seq(ProfileSlot)
  /\ Len(profiles') = Len(profiles)
  /\ \A j \in Slots : profiles'[j].iccid = profiles[j].iccid
                     /\ profiles'[j].size = profiles[j].size

LEMMA SwitchToEffect ==
  ASSUME TypeOK, AtMostOneEnabled, NEW k \in Slots, SwitchTo(k)
  PROVE  /\ SameSlots
         /\ \A j \in Slots : profiles'[j].state = "enabled" <=> j = k
<1>1. /\ Len(profiles) \in Nat /\ Slots = 1..Len(profiles)
      /\ \A j \in Slots : profiles[j] \in ProfileSlot
  BY SlotsSized
<1>2. \A j \in Slots, t \in States :
        /\ SetState(j, t) \in ProfileSlot
        /\ SetState(j, t).state = t
        /\ SetState(j, t).iccid = profiles[j].iccid
        /\ SetState(j, t).size = profiles[j].size
  BY <1>1 DEF SetState, ProfileSlot
<1>3. "enabled" \in States /\ "disabled" \in States
  BY DEF States
<1>4. profiles' = [j \in 1..Len(profiles) |->
                     IF j = k THEN SetState(j, "enabled")
                     ELSE IF j \in get_enabled_profile THEN SetState(j, "disabled")
                     ELSE profiles[j]]
  BY <1>1 DEF SwitchTo
<1>5. \A j \in 1..Len(profiles) : profiles'[j] \in ProfileSlot
  BY <1>1, <1>2, <1>3, <1>4
<1>6. profiles' \in Seq(ProfileSlot) /\ Len(profiles') = Len(profiles)
  BY <1>1, <1>4, <1>5
<1>7. \A j \in Slots : profiles'[j].state = "enabled" <=> j = k
  BY <1>1, <1>2, <1>3, <1>4, EnabledSlots
<1> QED  BY <1>1, <1>2, <1>3, <1>4, <1>6, <1>7 DEF SameSlots

LEMMA DisableEffect ==
  ASSUME TypeOK, NEW k \in Slots, Disable(k)
  PROVE  /\ SameSlots
         /\ \A j \in Slots : profiles'[j].state = "enabled" <=>
                              profiles[j].state = "enabled" /\ j # k
<1>1. /\ Len(profiles) \in Nat /\ Slots = 1..Len(profiles)
      /\ profiles \in Seq(ProfileSlot)
      /\ \A j \in Slots : profiles[j] \in ProfileSlot
  BY SlotsSized DEF TypeOK
<1>2. /\ SetState(k, "disabled") \in ProfileSlot
      /\ SetState(k, "disabled").state = "disabled"
      /\ SetState(k, "disabled").iccid = profiles[k].iccid
      /\ SetState(k, "disabled").size = profiles[k].size
  BY <1>1 DEF SetState, ProfileSlot, States
<1>3. profiles' = [profiles EXCEPT ![k] = SetState(k, "disabled")]
  BY DEF Disable
<1>4. profiles' \in Seq(ProfileSlot) /\ Len(profiles') = Len(profiles)
  BY <1>1, <1>2, <1>3
<1>5. \A j \in Slots : profiles'[j] = IF j = k THEN SetState(k, "disabled")
                                      ELSE profiles[j]
  BY <1>1, <1>3
<1> QED  BY <1>1, <1>2, <1>4, <1>5 DEF SameSlots

LEMMA RetainEffect ==
  ASSUME TypeOK, NEW K \in SUBSET Slots, RetainOnly(K)
  PROVE  /\ profiles' \in Seq(ProfileSlot)
         /\ Len(profiles') <= Len(profiles)
         /\ Sized(profiles')
         /\ UsedBy(profiles') <= UsedBy(profiles)
         /\ \A k \in Slots \ K : UsedBy(profiles') + profiles[k].size <= UsedBy(profiles)
         /\ \E f \in Ascending(K) : /\ DOMAIN f = DOMAIN profiles'
                                   /\ \A a \in DOMAIN f : profiles'[a] = profiles[f[a]]
<1>1. /\ Len(profiles) \in Nat /\ Slots = 1..Len(profiles)
      /\ \A j \in Slots : profiles[j] \in ProfileSlot
      /\ Sized(profiles)
  BY SlotsSized
<1>2. PICK f \in Ascending(K) : profiles' = [a \in DOMAIN f |-> profiles[f[a]]]
  BY DEF RetainOnly
<1>3. /\ Cardinality(K) \in Nat /\ Len(profiles') = Cardinality(K)
      /\ Sized(profiles') /\ UsedBy(profiles') <= UsedBy(profiles)
      /\ \A k \in (1..Len(profiles)) \ K :
           UsedBy(profiles') + profiles[k].size <= UsedBy(profiles)
  BY <1>1, <1>2, RetainCharge
<1>4. f \in [1..Cardinality(K) -> K]
  BY DEF Ascending
<1>5. profiles' \in Seq(ProfileSlot)
  <2>1. profiles' \in [1..Cardinality(K) -> ProfileSlot]
    BY <1>1, <1>2, <1>4
  <2> QED  BY <1>3, <2>1
<1>6. Cardinality(K) <= Len(profiles)
  <2>1. IsFiniteSet(1..Len(profiles)) /\ Cardinality(1..Len(profiles)) = Len(profiles)
    <3>1. 1 \in Int /\ Len(profiles) \in Int  BY <1>1
    <3>2. /\ IsFiniteSet(1..Len(profiles))
          /\ Cardinality(1..Len(profiles)) =
               IF 1 > Len(profiles) THEN 0 ELSE Len(profiles) - 1 + 1
      BY <3>1, FS_Interval
    <3> QED  BY <1>1, <3>2
  <2> QED  BY <1>1, <2>1, FS_Subset
<1> QED  BY <1>1, <1>2, <1>3, <1>5, <1>6

QueueOK ==
  /\ notifications \in Seq(Notification)
  /\ notification_seq \in Nat
  /\ NotificationsOrdered

\* New entries are numbered above every number spent so far.
LEMMA AddNotificationsEffect ==
  ASSUME QueueOK, NEW ops \in Seq(Operations \X Iccids), add_notifications(ops)
  PROVE  QueueOK'
<1> DEFINE L == Len(notifications)
           new == [n \in 1..Len(ops) |-> [seq       |-> notification_seq + n,
                                          operation |-> ops[n][1],
                                          iccid     |-> ops[n][2]]]
<1>1. L \in Nat /\ Len(ops) \in Nat /\ notification_seq \in Nat
  BY DEF QueueOK
<1>2. \A n \in 1..Len(ops) : new[n] \in Notification /\ new[n].seq = notification_seq + n
  <2>1. \A n \in 1..Len(ops) : ops[n] \in Operations \X Iccids
    OBVIOUS
  <2> QED  BY <1>1, <2>1 DEF Notification
<1>3. new \in Seq(Notification) /\ Len(new) = Len(ops)
  <2> HIDE DEF new
  <2>1. new \in [1..Len(ops) -> Notification]  BY <1>2 DEF new
  <2> QED  BY <1>1, <2>1
<1>4. /\ notifications' = notifications \o new
      /\ notification_seq' = notification_seq + Len(ops)
  BY DEF add_notifications
<1> HIDE DEF new
<1>5. /\ notifications' \in Seq(Notification)
      /\ Len(notifications') = L + Len(ops)
      /\ \A n \in 1..(L + Len(ops)) :
           notifications'[n] = IF n <= L THEN notifications[n] ELSE new[n - L]
  <2>1. notifications \in Seq(Notification)
    BY DEF QueueOK
  <2>2. Len(notifications \o new) = L + Len(ops)
    BY <1>1, <1>3, <2>1
  <2> QED  BY <1>1, <1>3, <1>4, <2>1, <2>2
<1>6. \A n \in 1..L : notifications[n].seq \in Nat /\ notifications[n].seq <= notification_seq
  <2>1. \A n \in 1..L : notifications[n] \in Notification
    BY DEF QueueOK
  <2>2. \A n \in 1..L : notifications[n].seq <= notification_seq
    BY DEF QueueOK, NotificationsOrdered
  <2> QED  BY <2>1, <2>2 DEF Notification
<1>7. \A n \in DOMAIN notifications' : n \in 1..(L + Len(ops))
  BY <1>5
<1>8. ASSUME NEW n \in DOMAIN notifications'
      PROVE  notifications'[n].seq <= notification_seq'
  <2>1. CASE n <= L
    BY <1>1, <1>4, <1>5, <1>6, <1>7, <2>1
  <2>2. CASE n > L
    <3>1. n - L \in 1..Len(ops)  BY <1>1, <1>7, <2>2
    <3>2. notifications'[n] = new[n - L]
      BY <1>1, <1>5, <1>7, <2>2
    <3>3. notifications'[n].seq = notification_seq + (n - L)
      BY <1>2, <3>1, <3>2
    <3> QED  BY <1>1, <1>4, <3>1, <3>3
  <2> QED  BY <1>1, <1>7, <2>1, <2>2
<1>9. ASSUME NEW m \in DOMAIN notifications', NEW n \in DOMAIN notifications', m < n
      PROVE  notifications'[m].seq < notifications'[n].seq
  <2>1. m \in 1..(L + Len(ops)) /\ n \in 1..(L + Len(ops))
    BY <1>7
  <2>2. CASE n <= L
    <3>1. m \in 1..L /\ n \in 1..L  BY <1>1, <1>9, <2>1, <2>2
    <3>2. notifications[m].seq < notifications[n].seq
      BY <1>9, <3>1 DEF QueueOK, NotificationsOrdered
    <3> QED  BY <1>5, <2>1, <3>1, <3>2
  <2>3. CASE n > L
    <3>1. n - L \in 1..Len(ops)  BY <1>1, <2>1, <2>3
    <3>2. notifications'[n].seq = notification_seq + (n - L)
      <4>1. notifications'[n] = new[n - L]  BY <1>1, <1>5, <2>1, <2>3
      <4> QED  BY <1>2, <3>1, <4>1
    <3>3. CASE m <= L
      <4>1. m \in 1..L /\ notifications'[m] = notifications[m]
        BY <1>1, <1>5, <2>1, <3>3
      <4> QED  BY <1>1, <1>6, <3>1, <3>2, <4>1
    <3>4. CASE m > L
      <4>1. m - L \in 1..Len(ops)  BY <1>1, <2>1, <3>4
      <4>2. notifications'[m].seq = notification_seq + (m - L)
        <5>1. notifications'[m] = new[m - L]  BY <1>1, <1>5, <2>1, <3>4
        <5> QED  BY <1>2, <4>1, <5>1
      <4> QED  BY <1>1, <1>9, <2>1, <3>2, <4>2
    <3> QED  BY <1>1, <2>1, <3>3, <3>4
  <2> QED  BY <1>1, <2>1, <2>2, <2>3
<1> QED  BY <1>1, <1>4, <1>5, <1>8, <1>9 DEF QueueOK, NotificationsOrdered

LEMMA RemoveNotificationEffect ==
  ASSUME QueueOK, NEW n, remove_notification(n)
  PROVE  QueueOK'
<1> DEFINE L == Len(notifications)
<1>1. PICK k \in DOMAIN notifications :
        notifications' = SubSeq(notifications, 1, k - 1) \o
                         SubSeq(notifications, k + 1, Len(notifications))
  BY DEF remove_notification
<1>2. L \in Nat /\ k \in 1..L /\ notifications \in Seq(Notification)
  BY DEF QueueOK
<1>3. /\ notifications' \in Seq(Notification)
      /\ Len(notifications') = L - 1
      /\ \A m \in 1..(L - 1) :
           notifications'[m] = IF m < k THEN notifications[m] ELSE notifications[m + 1]
  <2> DEFINE A == SubSeq(notifications, 1, k - 1)
             B == SubSeq(notifications, k + 1, L)
  <2>1. /\ A \in Seq(Notification) /\ Len(A) = k - 1
        /\ \A m \in 1..(k - 1) : A[m] = notifications[m]
    BY <1>2
  <2>2. /\ B \in Seq(Notification) /\ Len(B) = L - k
        /\ \A m \in 1..(L - k) : B[m] = notifications[m + k]
    BY <1>2
  <2> HIDE DEF A, B
  <2>3. notifications' = A \o B
    BY <1>1 DEF A, B
  <2> QED  BY <1>2, <2>1, <2>2, <2>3
<1>4. notification_seq' = notification_seq
  BY DEF remove_notification
<1>5. DOMAIN notifications' = 1..(L - 1)
  BY <1>2, <1>3
<1>6. \A m \in 1..(L - 1) : \E j \in 1..L :
        /\ notifications'[m] = notifications[j]
        /\ j = IF m < k THEN m ELSE m + 1
  BY <1>2, <1>3
<1>7. NotificationsOrdered'
  <2>1. \A m \in 1..(L - 1) : notifications'[m].seq <= notification_seq
    BY <1>2, <1>6 DEF QueueOK, NotificationsOrdered
  <2>2. ASSUME NEW a \in 1..(L - 1), NEW b \in 1..(L - 1), a < b
        PROVE  notifications'[a].seq < notifications'[b].seq
    <3>1. PICK i \in 1..L : notifications'[a] = notifications[i]
                            /\ i = IF a < k THEN a ELSE a + 1
      BY <1>6
    <3>2. PICK j \in 1..L : notifications'[b] = notifications[j]
                            /\ j = IF b < k THEN b ELSE b + 1
      BY <1>6
    <3>3. i < j
      BY <1>2, <2>2, <3>1, <3>2
    <3>4. notifications[i].seq < notifications[j].seq
      BY <1>2, <3>3 DEF QueueOK, NotificationsOrdered
    <3> QED  BY <3>1, <3>2, <3>4
  <2> QED  BY <1>4, <1>5, <2>1, <2>2 DEF NotificationsOrdered
<1> QED  BY <1>3, <1>4, <1>7 DEF QueueOK

----------------------------------------------------------------------------
(* The inductive invariant: the properties strengthen each other.  One     *)
(* enabled slot is needed for SwitchTo to disable all the others, and the  *)
(* memory bound for a reset not to promise more than the chip has.         *)

SlotsOK ==
  /\ profiles \in Seq(ProfileSlot)
  /\ free_nvm \in Int
  /\ AtMostOneEnabled
  /\ WithinCapacity

Inv == SlotsOK /\ QueueOK

LEMMA InvProperties ==
  Inv => TypeOK /\ AtMostOneEnabled /\ WithinCapacity /\ NotificationsOrdered
BY DEF Inv, SlotsOK, QueueOK, TypeOK

LEMMA InitInv == Init => Inv
<1> SUFFICES ASSUME Init PROVE Inv
  OBVIOUS
<1>1. PICK pre \in Preloads : SingleActive(pre) /\ CreateWith(pre)
  BY DEF Init
<1>2. PICK n \in 0..MaxPreloads :
        pre \in [1..n -> [iccid : Iccids, state : States, class : Classes]]
  BY DEF Preloads
<1>3. n \in Nat /\ n <= MaxPreloads /\ MaxPreloads \in Nat /\ MaxProfiles \in Nat
      /\ MaxPreloads <= MaxProfiles
  BY BoundsAssumption
<1>4. profiles = [k \in 1..n |->
        [iccid |-> pre[k].iccid, aid |-> k, state |-> pre[k].state,
         class |-> pre[k].class, size |-> DefaultSize]]
  BY <1>1, <1>2 DEF CreateWith, Preloaded
<1>5. \A k \in 1..n : /\ profiles[k] \in ProfileSlot
                     /\ profiles[k].size = DefaultSize
                     /\ profiles[k].state = pre[k].state
  BY <1>2, <1>3, <1>4 DEF ProfileSlot
<1>6. profiles \in Seq(ProfileSlot) /\ Len(profiles) = n
  <2>1. profiles \in [1..n -> ProfileSlot]  BY <1>4, <1>5
  <2> QED  BY <1>3, <2>1
<1>7. free_nvm = InitialFreeNvm /\ notifications = <<>> /\ notification_seq = 0
  BY <1>1 DEF CreateWith
<1>8. DefaultSize \in Nat /\ TotalNvm \in Nat /\ InitialFreeNvm \in Nat
      /\ InitialFreeNvm + MaxPreloads * DefaultSize <= TotalNvm
  BY SizesAssumption, MemoryAssumption
<1>9. Sized(profiles)
  BY <1>3, <1>5, <1>6, <1>8 DEF Sized
<1>10. UsedBy(profiles) = n * DefaultSize
  BY <1>5, <1>6, <1>9, DefaultCharge
<1>11. n * DefaultSize <= MaxPreloads * DefaultSize
  BY <1>3, <1>8
<1>12. WithinCapacity
  <2>1. n * DefaultSize \in Nat /\ MaxPreloads * DefaultSize \in Nat
    BY <1>3, <1>8
  <2> QED  BY <1>3, <1>6, <1>7, <1>8, <1>10, <1>11, <2>1 DEF WithinCapacity
<1>13. AtMostOneEnabled
  BY <1>1, <1>2, <1>5, <1>6 DEF AtMostOneEnabled, SingleActive, Slots
<1>14. QueueOK
  BY <1>7 DEF QueueOK, NotificationsOrdered
<1> QED  BY <1>6, <1>7, <1>8, <1>12, <1>13, <1>14 DEF Inv, SlotsOK

\* A handler that only changes states of slots.
LEMMA StateChangeOK ==
  ASSUME Inv, SameSlots, free_nvm' = free_nvm,
         \A j, k \in Slots : profiles'[j].state = "enabled"
                             /\ profiles'[k].state = "enabled" => j = k
  PROVE  SlotsOK'
<1>1. /\ TypeOK /\ WithinCapacity /\ Sized(profiles) /\ Len(profiles) \in Nat
      /\ Slots = 1..Len(profiles)
  BY InvProperties, SlotsSized
<1>2. Slots' = Slots /\ Len(profiles') = Len(profiles) /\ profiles' \in Seq(ProfileSlot)
  BY <1>1 DEF SameSlots, Slots
<1>3. \A k \in 1..Len(profiles) : profiles'[k].size = profiles[k].size
  BY <1>1 DEF SameSlots
<1>4. UsedBy(profiles') = UsedBy(profiles)
  BY <1>1, <1>2, <1>3, SameCharge
<1>5. WithinCapacity'
  BY <1>1, <1>2, <1>4 DEF WithinCapacity
<1>6. AtMostOneEnabled'
  BY <1>2 DEF AtMostOneEnabled
<1> QED  BY <1>1, <1>2, <1>5, <1>6 DEF SlotsOK, TypeOK

\* A handler that drops slots and gives back at most what they were charged.
LEMMA RetainOK ==
  ASSUME Inv, NEW K \in SUBSET Slots, RetainOnly(K),
         free_nvm' \in Int, free_nvm' >= 0, free_nvm' + UsedBy(profiles') <= TotalNvm
  PROVE  SlotsOK'
<1>1. /\ TypeOK /\ WithinCapacity /\ AtMostOneEnabled
      /\ Len(profiles) \in Nat /\ MaxProfiles \in Nat
  BY InvProperties, SlotsSized, BoundsAssumption
<1>2. profiles' \in Seq(ProfileSlot) /\ Len(profiles') <= Len(profiles)
  BY <1>1, RetainEffect
<1>3. PICK f \in Ascending(K) : /\ DOMAIN f = DOMAIN profiles'
                               /\ \A a \in DOMAIN f : profiles'[a] = profiles[f[a]]
  BY <1>1, RetainEffect
<1>4. /\ \A a \in DOMAIN f : f[a] \in Slots
      /\ \A a, b \in DOMAIN f : a < b => f[a] < f[b]
      /\ DOMAIN f = 1..Len(profiles')
  <2>1. f \in [1..Cardinality(K) -> K] /\ \A a, b \in DOMAIN f : a < b => f[a] < f[b]
    BY DEF Ascending
  <2>2. DOMAIN f = 1..Len(profiles')
    BY <1>2, <1>3
  <2> QED  BY <2>1, <2>2
<1>5. ASSUME NEW a \in DOMAIN f, NEW b \in DOMAIN f,
             profiles'[a].state = "enabled", profiles'[b].state = "enabled"
      PROVE  a = b
  <2>1. f[a] = f[b]
    BY <1>1, <1>3, <1>4, <1>5 DEF AtMostOneEnabled
  <2>2. a \in Int /\ b \in Int /\ f[a] \in Int /\ f[b] \in Int
    BY <1>1, <1>2, <1>4 DEF Slots, TypeOK
  <2> QED  BY <1>4, <2>1, <2>2
<1>6. AtMostOneEnabled'
  BY <1>3, <1>5 DEF AtMostOneEnabled, Slots
<1>7. WithinCapacity'
  <2>1. Len(profiles') \in Nat  BY <1>2
  <2>2. Len(profiles) <= MaxProfiles  BY <1>1 DEF WithinCapacity
  <2>3. Len(profiles') <= MaxProfiles  BY <1>1, <1>2, <2>1, <2>2
  <2> QED  BY <2>3 DEF WithinCapacity
<1> QED  BY <1>2, <1>6, <1>7 DEF SlotsOK

\* One ES10c call, or the installation of a downloaded profile.
LEMMA LocalNextInv == Inv /\ LocalNext => Inv'
<1> SUFFICES ASSUME Inv, LocalNext PROVE Inv'
  OBVIOUS
<1>1. /\ TypeOK /\ AtMostOneEnabled /\ WithinCapacity /\ QueueOK
      /\ Len(profiles) \in Nat /\ Slots = 1..Len(profiles) /\ Sized(profiles)
      /\ \A k \in Slots : profiles[k] \in ProfileSlot /\ profiles[k].size \in Nat
      /\ free_nvm \in Int /\ UsedBy(profiles) \in Nat
  BY InvProperties, SlotsSized, UsedByType DEF Inv, TypeOK
<1>2. \A k \in Slots : profiles[k].iccid \in Iccids
  BY <1>1 DEF ProfileSlot
<1>3. Addressable \subseteq Slots /\ get_enabled_profile \subseteq Slots
  BY DEF Addressable, get_enabled_profile, FirstAmong
<1>4. ASSUME NEW k \in Slots, enable_profile(k) PROVE Inv'
  <2>1. /\ SameSlots
        /\ \A j \in Slots : profiles'[j].state = "enabled" <=> j = k
    BY <1>1, <1>4, SwitchToEffect DEF enable_profile
  <2>2. SlotsOK'
    BY <1>4, <2>1, StateChangeOK DEF enable_profile
  <2>3. QueueOK'
    <3>1. CASE add_notifications(<< <<"enable", profiles[k].iccid>> >>)
      <4>1. << <<"enable", profiles[k].iccid>> >> \in Seq(Operations \X Iccids)
        BY <1>2 DEF Operations
      <4> QED  BY <1>1, <3>1, <4>1, AddNotificationsEffect
    <3>2. ASSUME NEW c \in get_enabled_profile,
                 add_notifications(<< <<"disable", profiles[c].iccid>>,
                                      <<"enable", profiles[k].iccid>> >>)
          PROVE  QueueOK'
      <4>1. << <<"disable", profiles[c].iccid>>,
               <<"enable", profiles[k].iccid>> >> \in Seq(Operations \X Iccids)
        BY <1>2, <1>3 DEF Operations
      <4> QED  BY <1>1, <3>2, <4>1, AddNotificationsEffect
    <3> QED  BY <1>4, <3>1, <3>2 DEF enable_profile
  <2> QED  BY <2>2, <2>3 DEF Inv
<1>5. ASSUME NEW k \in Slots, disable_profile(k) PROVE Inv'
  <2>1. /\ SameSlots
        /\ \A j \in Slots : profiles'[j].state = "enabled" <=>
                            profiles[j].state = "enabled" /\ j # k
    BY <1>1, <1>5, DisableEffect DEF disable_profile
  <2>2. SlotsOK'
    BY <1>1, <1>5, <2>1, StateChangeOK DEF disable_profile, AtMostOneEnabled
  <2>3. QueueOK'
    <3>1. << <<"disable", profiles[k].iccid>> >> \in Seq(Operations \X Iccids)
      BY <1>2 DEF Operations
    <3> QED  BY <1>1, <1>5, <3>1, AddNotificationsEffect DEF disable_profile
  <2> QED  BY <2>2, <2>3 DEF Inv
<1>6. ASSUME NEW k \in Slots, delete_profile(k) PROVE Inv'
  <2>1. RetainOnly(Slots \ {k}) /\ free_nvm' = free_nvm + profiles[k].size
    BY <1>6 DEF delete_profile
  <2>2. /\ UsedBy(profiles') + profiles[k].size <= UsedBy(profiles)
        /\ UsedBy(profiles') \in Nat
    BY <1>1, <2>1, RetainEffect, UsedByType
  <2>3. free_nvm >= 0 /\ free_nvm + UsedBy(profiles) <= TotalNvm /\ TotalNvm \in Nat
    BY <1>1, MemoryAssumption DEF WithinCapacity
  <2>4. /\ free_nvm' \in Int /\ free_nvm' >= 0
        /\ free_nvm' + UsedBy(profiles') <= TotalNvm
    BY <1>1, <2>1, <2>2, <2>3
  <2>5. SlotsOK'
    BY <2>1, <2>4, RetainOK
  <2>6. QueueOK'
    <3>1. << <<"delete", profiles[k].iccid>> >> \in Seq(Operations \X Iccids)
      BY <1>2 DEF Operations
    <3> QED  BY <1>1, <1>6, <3>1, AddNotificationsEffect DEF delete_profile
  <2> QED  BY <2>5, <2>6 DEF Inv
<1>7. ASSUME NEW delete_operational \in BOOLEAN, NEW delete_test \in BOOLEAN,
             NEW reset_address \in BOOLEAN,
             euicc_memory_reset(delete_operational, delete_test, reset_address)
      PROVE  Inv'
  <2> DEFINE spared == SparedByReset(delete_operational, delete_test)
  <2>1. /\ spared \in SUBSET Slots /\ RetainOnly(spared)
        /\ free_nvm' = TotalNvm - UsedBy(profiles')
        /\ UNCHANGED <<notifications, notification_seq>>
    BY <1>7 DEF euicc_memory_reset, SparedByReset
  <2> HIDE DEF spared
  <2>2. UsedBy(profiles') <= UsedBy(profiles) /\ UsedBy(profiles') \in Nat
    BY <1>1, <2>1, RetainEffect, UsedByType
  <2>3. free_nvm >= 0 /\ free_nvm + UsedBy(profiles) <= TotalNvm /\ TotalNvm \in Nat
    BY <1>1, MemoryAssumption DEF WithinCapacity
  <2>4. /\ free_nvm' \in Int /\ free_nvm' >= 0
        /\ free_nvm' + UsedBy(profiles') <= TotalNvm
    BY <1>1, <2>1, <2>2, <2>3
  <2>5. SlotsOK'
    BY <2>1, <2>4, RetainOK
  <2>6. QueueOK'
    BY <1>1, <2>1 DEF QueueOK, NotificationsOrdered
  <2> QED  BY <2>5, <2>6 DEF Inv
<1>8. ASSUME NEW i \in Iccids, NEW size \in Sizes \cup {DefaultSize},
             install_profile(i, size)
      PROVE  Inv'
  <2> DEFINE r == [iccid |-> i, aid |-> allocate_isdp_aid, state |-> "disabled",
                   class |-> "operational", size |-> size]
             L == Len(profiles)
  <2>1. /\ size <= free_nvm /\ L < MaxProfiles
        /\ profiles' = Append(profiles, r)
        /\ free_nvm' = free_nvm - size
        /\ add_notifications(<< <<"install", i>> >>)
    BY <1>8 DEF install_profile
  <2>2. size \in Nat /\ MaxProfiles \in Nat
    BY SizesAssumption, BoundsAssumption
  <2>3. r \in ProfileSlot
    BY <1>1 DEF ProfileSlot, allocate_isdp_aid, States, Classes
  <2>4. r.state = "disabled" /\ r.size = size
    OBVIOUS
  <2> HIDE DEF r
  <2>5. /\ profiles' \in Seq(ProfileSlot) /\ Len(profiles') = L + 1
        /\ \A k \in 1..L : profiles'[k] = profiles[k]
        /\ profiles'[L + 1] = r
    BY <1>1, <2>1, <2>3 DEF TypeOK
  <2>6. Sized(profiles')
    BY <1>1, <2>2, <2>4, <2>5 DEF Sized
  <2>7. UsedBy(profiles') = UsedBy(profiles) + size
    BY <1>1, <2>4, <2>5, <2>6, AppendCharge
  <2>8. WithinCapacity'
    BY <1>1, <2>1, <2>2, <2>5, <2>7 DEF WithinCapacity
  <2>9. AtMostOneEnabled'
    <3>1. \A j \in Slots' : j \in Slots \/ j = L + 1
      BY <1>1, <2>5 DEF Slots
    <3>2. ~(profiles'[L + 1].state = "enabled")
      BY <2>4, <2>5
    <3> QED  BY <1>1, <2>5, <3>1, <3>2 DEF AtMostOneEnabled
  <2>10. QueueOK'
    <3>1. << <<"install", i>> >> \in Seq(Operations \X Iccids)
      BY DEF Operations
    <3> QED  BY <1>1, <2>1, <3>1, AddNotificationsEffect
  <2> QED  BY <1>1, <2>1, <2>2, <2>5, <2>8, <2>9, <2>10 DEF Inv, SlotsOK
<1> QED  BY <1>3, <1>4, <1>5, <1>6, <1>7, <1>8 DEF LocalNext

\* One PSMO operation of an eUICC package.
LEMMA PsmoInv == Inv /\ _execute_psmo => Inv'
<1> SUFFICES ASSUME Inv, _execute_psmo PROVE Inv'
  OBVIOUS
<1>1. /\ TypeOK /\ AtMostOneEnabled /\ WithinCapacity /\ QueueOK
      /\ free_nvm \in Int /\ UsedBy(profiles) \in Nat
  BY InvProperties, SlotsSized, UsedByType DEF Inv, TypeOK
<1>2. PICK i \in Iccids : \E k \in find_profile_by_iccid(i) :
        psmo_enable(k) \/ psmo_disable(k) \/ psmo_delete(k)
  BY DEF _execute_psmo
<1>3. PICK k \in Slots : psmo_enable(k) \/ psmo_disable(k) \/ psmo_delete(k)
  BY <1>2 DEF find_profile_by_iccid, FirstAmong
<1>4. QueueOK'
  BY <1>1, <1>3 DEF QueueOK, NotificationsOrdered, psmo_enable, psmo_disable, psmo_delete
<1>5. CASE psmo_enable(k)
  <2>1. /\ SameSlots
        /\ \A j \in Slots : profiles'[j].state = "enabled" <=> j = k
    BY <1>1, <1>3, <1>5, SwitchToEffect DEF psmo_enable
  <2> QED  BY <1>4, <1>5, <2>1, StateChangeOK DEF psmo_enable, Inv
<1>6. CASE psmo_disable(k)
  <2>1. /\ SameSlots
        /\ \A j \in Slots : profiles'[j].state = "enabled" <=>
                            profiles[j].state = "enabled" /\ j # k
    BY <1>1, <1>3, <1>6, DisableEffect DEF psmo_disable
  <2> QED  BY <1>1, <1>4, <1>6, <2>1, StateChangeOK DEF psmo_disable, AtMostOneEnabled, Inv
<1>7. CASE psmo_delete(k)
  <2>1. RetainOnly(Slots \ {k}) /\ free_nvm' = free_nvm
    BY <1>7 DEF psmo_delete
  <2>2. UsedBy(profiles') <= UsedBy(profiles) /\ UsedBy(profiles') \in Nat
    BY <1>1, <2>1, RetainEffect, UsedByType
  <2>3. free_nvm >= 0 /\ free_nvm + UsedBy(profiles) <= TotalNvm /\ TotalNvm \in Nat
    BY <1>1, MemoryAssumption DEF WithinCapacity
  <2> QED  BY <1>1, <1>4, <2>1, <2>2, <2>3, RetainOK DEF Inv
<1> QED  BY <1>3, <1>5, <1>6, <1>7

LEMMA NextInv == Inv /\ [Next]_vars => Inv'
<1> SUFFICES ASSUME Inv, [Next]_vars PROVE Inv'
  OBVIOUS
<1>1. ASSUME NEW n \in 1..MaxSeq, remove_notification(n) PROVE Inv'
  <2>1. QueueOK'
    BY <1>1, RemoveNotificationEffect DEF Inv
  <2>2. SlotsOK'
    BY <1>1 DEF remove_notification, Inv, SlotsOK, AtMostOneEnabled, WithinCapacity, Slots
  <2> QED  BY <2>1, <2>2 DEF Inv
<1>2. CASE UNCHANGED vars
  BY <1>2 DEF vars, Inv, SlotsOK, QueueOK, AtMostOneEnabled, WithinCapacity, Slots,
              NotificationsOrdered
<1> QED  BY <1>1, <1>2, LocalNextInv, PsmoInv DEF Next

LEMMA Invariance == Spec => []Inv
<1>1. Init => Inv  BY InitInv
<1>2. Inv /\ [Next]_vars => Inv'  BY NextInv
<1> QED  BY <1>1, <1>2, PTL DEF Spec

\* Every handler keeps slots, memory and queue well typed: slots hold known
\* ICCIDs, states and classes, however operations from the local interface, the
\* eIM and the download are mixed.
THEOREM Typing == Spec => []TypeOK
BY Invariance, InvProperties, PTL

\* For any number of slots and any mixture of enable, disable, delete, reset,
\* installation and PSMO operations, two profiles are never enabled together
\* (enable_profile and the PSMO enable disable the old one, nothing else enables).
THEOREM OneEnabled == Spec => []AtMostOneEnabled
BY Invariance, InvProperties, PTL

\* Free memory plus what the installed profiles are charged never exceeds the
\* chip, free memory is never negative and max_profiles is respected, for every
\* memory size that has room for the preloaded profiles.
THEOREM Capacity == Spec => []WithinCapacity
BY Invariance, InvProperties, PTL

\* Sequence numbers are unique and queue order is event order, whichever entries
\* were removed by remove_notification.
THEOREM Ordered == Spec => []NotificationsOrdered
BY Invariance, InvProperties, PTL

----------------------------------------------------------------------------
(* Refinement of ActiveProfile.                                            *)

EnabledIn == {k \in Slots : profiles[k].state = "enabled"}

LEMMA ActiveIsEnabled ==
  ASSUME Inv
  PROVE  /\ ActiveIccids = {profiles[k].iccid : k \in EnabledIn}
         /\ ActiveIccids \subseteq InstalledIccids
         /\ InstalledIccids \subseteq Iccids
         /\ Promise!AtMostOne(ActiveIccids)
<1>1. TypeOK /\ AtMostOneEnabled
  BY InvProperties
<1>2. get_enabled_profile = EnabledIn
  BY <1>1, EnabledSlots DEF EnabledIn
<1>3. \A k \in Slots : profiles[k].iccid \in Iccids
  BY <1>1, SlotsSized DEF ProfileSlot
<1> QED
  BY <1>1, <1>2, <1>3
  DEF ActiveIccids, InstalledIccids, EnabledIn, AtMostOneEnabled, Promise!AtMostOne

\* The same of the state a step leads to.
LEMMA ActiveIsEnabledNext ==
  ASSUME Inv'
  PROVE  ActiveIccids' = {profiles'[k].iccid : k \in EnabledIn'}
<1>1. /\ profiles' \in Seq(ProfileSlot)
      /\ \A j, k \in Slots' : profiles'[j].state = "enabled"
                             /\ profiles'[k].state = "enabled" => j = k
  BY DEF Inv, SlotsOK, AtMostOneEnabled
<1>2. Slots' = 1..Len(profiles') /\ Len(profiles') \in Nat
  BY <1>1 DEF Slots
<1>3. get_enabled_profile' = EnabledIn'
  BY <1>1, <1>2 DEF get_enabled_profile, EnabledIn, FirstAmong
<1> QED  BY <1>3 DEF ActiveIccids

\* Switching: the profile of slot k becomes the active one.
LEMMA SwitchRefines ==
  ASSUME Inv, Inv', NEW k \in Slots, SwitchTo(k)
  PROVE  Promise!Next
<1>1. TypeOK /\ AtMostOneEnabled
  BY InvProperties
<1>2. /\ SameSlots
      /\ \A j \in Slots : profiles'[j].state = "enabled" <=> j = k
  BY <1>1, SwitchToEffect
<1>3. Slots' = Slots
  BY <1>1, <1>2 DEF SameSlots, Slots, TypeOK
<1>4. InstalledIccids' = InstalledIccids
  BY <1>2, <1>3 DEF SameSlots, InstalledIccids
<1>5. EnabledIn' = {k}
  BY <1>2, <1>3 DEF EnabledIn
<1>6. ActiveIccids' = {profiles'[k].iccid}
  <2>1. ActiveIccids' = {profiles'[j].iccid : j \in EnabledIn'}
    BY ActiveIsEnabledNext
  <2> QED  BY <1>5, <2>1
<1>7. ActiveIccids' = {profiles[k].iccid}
  BY <1>2, <1>6 DEF SameSlots
<1>8. profiles[k].iccid \in InstalledIccids /\ profiles[k].iccid \in Iccids
  BY ActiveIsEnabled DEF InstalledIccids
<1> QED  BY <1>4, <1>7, <1>8 DEF Promise!Next, Promise!Switch

\* Disabling the enabled slot leaves no profile active.
LEMMA DisableRefines ==
  ASSUME Inv, Inv', NEW k \in Slots, profiles[k].state = "enabled", Disable(k)
  PROVE  Promise!Next
<1>1. TypeOK /\ AtMostOneEnabled
  BY InvProperties
<1>2. /\ SameSlots
      /\ \A j \in Slots : profiles'[j].state = "enabled" <=>
                          profiles[j].state = "enabled" /\ j # k
  BY <1>1, DisableEffect
<1>3. Slots' = Slots
  BY <1>1, <1>2 DEF SameSlots, Slots, TypeOK
<1>4. InstalledIccids' = InstalledIccids
  BY <1>2, <1>3 DEF SameSlots, InstalledIccids
<1>5. EnabledIn' = {}
  BY <1>1, <1>2, <1>3 DEF EnabledIn, AtMostOneEnabled
<1>6. ActiveIccids' = {}
  <2>1. ActiveIccids' = {profiles'[j].iccid : j \in EnabledIn'}
    BY ActiveIsEnabledNext
  <2> QED  BY <1>5, <2>1
<1> QED  BY <1>4, <1>6 DEF Promise!Next, Promise!Deactivate

\* Dropping disabled slots takes nothing active away.
LEMMA RetainRefines ==
  ASSUME Inv, Inv', NEW K \in SUBSET Slots, EnabledIn \subseteq K, RetainOnly(K)
  PROVE  Promise!Next
<1>1. TypeOK /\ AtMostOneEnabled
  BY InvProperties
<1>2. PICK f \in Ascending(K) : /\ DOMAIN f = DOMAIN profiles'
                               /\ \A a \in DOMAIN f : profiles'[a] = profiles[f[a]]
  BY <1>1, RetainEffect
<1>3. /\ \A a \in DOMAIN f : f[a] \in K
      /\ \A k \in K : \E a \in DOMAIN f : f[a] = k
  BY DEF Ascending
<1>4. Slots' = DOMAIN f
  BY <1>2 DEF Slots
<1>5. InstalledIccids' = {profiles[k].iccid : k \in K}
  BY <1>2, <1>3, <1>4 DEF InstalledIccids
<1>6. ActiveIccids' = {profiles'[a].iccid : a \in EnabledIn'}
  BY ActiveIsEnabledNext
<1>7. ActiveIccids = {profiles[k].iccid : k \in EnabledIn}
  BY ActiveIsEnabled
<1>8. ActiveIccids' = ActiveIccids
  <2>1. ASSUME NEW a \in EnabledIn' PROVE profiles'[a].iccid \in ActiveIccids
    <3>1. a \in DOMAIN f /\ profiles'[a].state = "enabled"
      BY <1>4 DEF EnabledIn
    <3>2. f[a] \in Slots /\ profiles[f[a]].state = "enabled"
          /\ profiles[f[a]].iccid = profiles'[a].iccid
      BY <1>2, <1>3, <3>1
    <3> QED  BY <1>7, <3>2 DEF EnabledIn
  <2>2. ASSUME NEW k \in EnabledIn PROVE profiles[k].iccid \in ActiveIccids'
    <3>1. PICK a \in DOMAIN f : f[a] = k
      BY <1>3
    <3>2. profiles'[a] = profiles[k]
      BY <1>2, <3>1
    <3>3. a \in EnabledIn'
      BY <1>4, <3>1, <3>2 DEF EnabledIn
    <3> QED  BY <1>6, <3>2, <3>3
  <2> QED  BY <1>6, <1>7, <2>1, <2>2
<1> DEFINE S == InstalledIccids \ InstalledIccids'
<1>9. InstalledIccids' \subseteq InstalledIccids
  BY <1>5 DEF InstalledIccids
<1>10. S \cap ActiveIccids = {}
  <2>1. \A k \in EnabledIn : profiles[k].iccid \in InstalledIccids'
    BY <1>5
  <2> QED  BY <1>7, <2>1
<1>11. S \in SUBSET InstalledIccids /\ InstalledIccids' = InstalledIccids \ S
  BY <1>9
<1>12. Promise!Remove(S)
  BY <1>8, <1>10, <1>11 DEF Promise!Remove
<1> QED  BY <1>11, <1>12 DEF Promise!Next

\* Installing appends a disabled slot.
LEMMA InstallRefines ==
  ASSUME Inv, Inv', NEW i \in Iccids, NEW size \in Sizes \cup {DefaultSize},
         install_profile(i, size)
  PROVE  Promise!Next
<1> DEFINE L == Len(profiles)
<1>1. /\ L \in Nat /\ Slots = 1..L
      /\ \A k \in Slots : profiles[k] \in ProfileSlot
  BY InvProperties, SlotsSized
<1>2. /\ profiles' = Append(profiles,
           [iccid |-> i, aid |-> allocate_isdp_aid, state |-> "disabled",
            class |-> "operational", size |-> size])
  BY DEF install_profile
<1>3. /\ Slots' = 1..(L + 1)
      /\ \A k \in Slots : profiles'[k] = profiles[k]
      /\ profiles'[L + 1].iccid = i
      /\ profiles'[L + 1].state = "disabled"
  BY <1>1, <1>2, InvProperties DEF Slots, TypeOK
<1>4. Slots' = Slots \cup {L + 1}
  BY <1>1, <1>3
<1>5. InstalledIccids' = InstalledIccids \cup {i}
  BY <1>3, <1>4 DEF InstalledIccids
<1>6. EnabledIn' = EnabledIn
  BY <1>3, <1>4 DEF EnabledIn
<1>7. ActiveIccids' = ActiveIccids
  <2>1. \A k \in EnabledIn : profiles'[k].iccid = profiles[k].iccid
    BY <1>3 DEF EnabledIn
  <2> QED  BY <1>6, <2>1, ActiveIsEnabled, ActiveIsEnabledNext
<1> QED  BY <1>5, <1>7 DEF Promise!Next, Promise!Install

\* Every step of the slot table is a step of the promise or leaves it alone.
LEMMA StepRefines == Inv /\ Inv' /\ [Next]_vars => [Promise!Next]_(Promise!vars)
<1> SUFFICES ASSUME Inv, Inv', [Next]_vars
             PROVE  Promise!Next \/ UNCHANGED Promise!vars
  OBVIOUS
<1>1. \A k \in Slots : profiles[k].state # "enabled" =>
        /\ Slots \ {k} \in SUBSET Slots
        /\ EnabledIn \subseteq Slots \ {k}
  BY DEF EnabledIn
<1>2. ASSUME NEW k \in Slots,
             enable_profile(k) \/ disable_profile(k) \/ delete_profile(k)
      PROVE  Promise!Next
  <2>1. CASE enable_profile(k)
    BY <2>1, SwitchRefines DEF enable_profile
  <2>2. CASE disable_profile(k)
    BY <2>2, DisableRefines DEF disable_profile
  <2>3. CASE delete_profile(k)
    BY <1>1, <2>3, RetainRefines DEF delete_profile
  <2> QED  BY <1>2, <2>1, <2>2, <2>3
<1>3. ASSUME NEW delete_operational \in BOOLEAN, NEW delete_test \in BOOLEAN,
             NEW reset_address \in BOOLEAN,
             euicc_memory_reset(delete_operational, delete_test, reset_address)
      PROVE  Promise!Next
  <2> DEFINE spared == SparedByReset(delete_operational, delete_test)
  <2>1. /\ spared \in SUBSET Slots /\ EnabledIn \subseteq spared
        /\ RetainOnly(spared)
    BY <1>3 DEF euicc_memory_reset, SparedByReset, EnabledIn
  <2> QED  BY <2>1, RetainRefines
<1>4. ASSUME NEW k \in Slots, psmo_enable(k) \/ psmo_disable(k) \/ psmo_delete(k)
      PROVE  Promise!Next
  <2>1. CASE psmo_enable(k)
    BY <2>1, SwitchRefines DEF psmo_enable
  <2>2. CASE psmo_disable(k)
    BY <2>2, DisableRefines DEF psmo_disable
  <2>3. CASE psmo_delete(k)
    BY <1>1, <2>3, RetainRefines DEF psmo_delete
  <2> QED  BY <1>4, <2>1, <2>2, <2>3
<1>5. ASSUME UNCHANGED profiles PROVE UNCHANGED Promise!vars
  BY <1>5 DEF Promise!vars, InstalledIccids, ActiveIccids, get_enabled_profile, Slots
<1>6. CASE LocalNext
  BY <1>2, <1>3, <1>6, InstallRefines DEF LocalNext, Addressable, find_profile_by_iccid,
     find_profile_by_aid, FirstAmong
<1>7. CASE _execute_psmo
  BY <1>4, <1>7 DEF _execute_psmo, find_profile_by_iccid, FirstAmong
<1>8. CASE \E n \in 1..MaxSeq : remove_notification(n)
  BY <1>5, <1>8 DEF remove_notification
<1>9. CASE UNCHANGED vars
  BY <1>5, <1>9 DEF vars
<1> QED  BY <1>6, <1>7, <1>8, <1>9 DEF Next

\* The slot table keeps the promise of ActiveProfile: whichever interface asks,
\* the active profile is only ever switched to an installed one or switched off,
\* and neither a delete nor a memory reset takes away the active profile.
THEOREM KeepsPromise == Spec => ImplementsActiveProfile
<1>1. Inv => Promise!AtMostOne(ActiveIccids) /\ InstalledIccids \subseteq Iccids
             /\ ActiveIccids \subseteq InstalledIccids
  BY ActiveIsEnabled
<1>2. Init => Promise!Init
  BY <1>1, InitInv DEF Promise!Init
<1>3. Inv /\ Inv' /\ [Next]_vars => [Promise!Next]_(Promise!vars)
  BY StepRefines
<1>4. Spec => []Inv
  BY Invariance
<1> QED  BY <1>2, <1>3, <1>4, PTL DEF Spec, ImplementsActiveProfile, Promise!Spec
----------------------------------------------------------------------------
(* No call of the local interface loses memory.                            *)

\* Every position of 1..x but k is one of the first m that f keeps.
Covers(f, m, x, k) == \A j \in 1..x : j = k \/ \E a \in 1..m : f[a] = j

\* With f, P and Q as in PartialCharge: when f leaves out k alone, P ends at most
\* by the size of k after Q.
LEMMA OneLeftOut ==
  ASSUME NEW L \in Nat, NEW n \in Nat, NEW k \in 1..L,
         NEW s \in [1..L -> Nat],
         NEW f \in [1..n -> 1..L],
         NEW P, NEW Q,
         IsAscending(f, n),
         IsTally(P, s, L),
         IsTally(Q, [m \in 1..n |-> s[f[m]]], n),
         Covers(f, n, L, k),
         \A m \in 1..n : f[m] # k
  PROVE  P[L] <= Q[n] + s[k]
<1> DEFINE Below(m, x) == m = 0 \/ f[m] <= x
           Owed(x) == IF k <= x THEN s[k] ELSE 0
           Good(m, x) == P[x] <= Q[m] + Owed(x)
           S == {x \in Nat : x <= L => \A m \in 0..n :
                   Below(m, x) /\ Covers(f, m, x, k) => Good(m, x)}
<1>1. 0 \in S
  <2>1. \A m \in 1..n : ~(f[m] <= 0)
    OBVIOUS
  <2>2. Good(0, 0)
    BY DEF IsTally
  <2> QED  BY <2>1, <2>2
<1>2. ASSUME NEW x \in Nat, x \in S PROVE x + 1 \in S
  <2>1. SUFFICES ASSUME x + 1 <= L, NEW m \in 0..n, Below(m, x + 1),
                        Covers(f, m, x + 1, k)
                 PROVE  Good(m, x + 1)
    <3> HIDE DEF Below, Good
    <3> QED  OBVIOUS
  <2>2. /\ P[x + 1] = P[x] + s[x + 1] /\ x \in 0..L /\ x + 1 \in 1..L
        /\ P[x] \in Nat /\ P[x + 1] \in Nat /\ s[x + 1] \in Nat /\ Q[m] \in Nat
        /\ s[k] \in Nat
    BY <2>1 DEF IsTally
  <2>3. \A j \in 0..n : Below(j, x) /\ Covers(f, j, x, k) => Good(j, x)
    <3> HIDE DEF Below, Good
    <3> QED  BY <1>2, <2>2
  <2>4. x + 1 \in 1..(x + 1) /\ \A j \in 1..x : j \in 1..(x + 1)
    OBVIOUS
  <2>5. CASE x + 1 = k
    <3>1. Below(m, x)
      <4>1. CASE m = 0  BY <4>1
      <4>2. CASE m \in 1..n
        <5>1. f[m] \in 1..L /\ f[m] <= x + 1 /\ f[m] # k  BY <2>1, <4>2
        <5> QED  BY <2>5, <5>1
      <4> QED  BY <4>1, <4>2
    <3>2. Covers(f, m, x, k)
      BY <2>1, <2>4 DEF Covers
    <3>3. P[x] <= Q[m] + Owed(x)
      BY <2>3, <3>1, <3>2
    <3>4. ~(k <= x) /\ k <= x + 1
      BY <2>5
    <3>5. P[x] <= Q[m]
      BY <2>2, <3>3, <3>4
    <3> QED  BY <2>2, <2>5, <3>4, <3>5
  <2>6. CASE x + 1 # k
    <3>1. PICK i \in 1..m : f[i] = x + 1
      BY <2>1, <2>6, <2>4 DEF Covers
    <3>2. m \in 1..n /\ m - 1 \in 0..n
      BY <3>1
    <3>3. i = m
      <4>1. f[m] <= x + 1 /\ f[m] \in 1..L  BY <2>1, <3>2
      <4>2. i < m => f[i] < f[m]
        BY <3>1, <3>2 DEF IsAscending
      <4> QED  BY <3>1, <3>2, <4>1, <4>2
    <3>4. Q[m] = Q[m - 1] + s[x + 1] /\ Q[m - 1] \in Nat
      BY <3>1, <3>2, <3>3 DEF IsTally
    <3>5. \A a \in 1..m : f[a] # x + 1 => a \in 1..(m - 1)
      BY <3>1, <3>3
    <3>6. Covers(f, m - 1, x, k)
      <4>1. SUFFICES ASSUME NEW j \in 1..x, j # k
                     PROVE  \E a \in 1..(m - 1) : f[a] = j
        BY DEF Covers
      <4>2. PICK a \in 1..m : f[a] = j
        BY <2>1, <2>4, <4>1 DEF Covers
      <4>3. f[a] # x + 1
        BY <4>1, <4>2
      <4> QED  BY <3>5, <4>2, <4>3
    <3>7. Below(m - 1, x)
      <4>1. CASE m = 1  BY <4>1
      <4>2. CASE m # 1
        <5>1. m - 1 \in 1..n /\ m - 1 < m  BY <3>2, <4>2
        <5>2. f[m - 1] < f[m] /\ f[m - 1] \in 1..L
          BY <3>2, <5>1 DEF IsAscending
        <5> QED  BY <3>1, <3>3, <5>2
      <4> QED  BY <4>1, <4>2
    <3>8. P[x] <= Q[m - 1] + Owed(x)
      BY <2>3, <3>2, <3>6, <3>7
    <3>9. Owed(x + 1) = Owed(x) /\ Owed(x) \in Nat
      BY <2>2, <2>6
    <3>10. \A a, b, c, d \in Nat : a <= b + c => a + d <= b + d + c
      OBVIOUS
    <3>11. P[x] + s[x + 1] <= Q[m - 1] + s[x + 1] + Owed(x)
      <4> HIDE DEF Owed, Below, Good, S
      <4> QED  BY <2>2, <3>4, <3>8, <3>9, <3>10
    <3>12. P[x + 1] <= Q[m] + Owed(x + 1)
      <4> HIDE DEF Owed, Below, Good, S
      <4> QED  BY <2>2, <3>4, <3>9, <3>11
    <3> QED  BY <3>12
  <2> QED  BY <2>5, <2>6
<1>3. Nat \subseteq S
  <2> HIDE DEF S
  <2> QED  BY <1>1, <1>2, SetInduction
<1>4. Below(n, L)
  OBVIOUS
<1>5. Good(n, L)
  <2> HIDE DEF Below, Good
  <2> QED  BY <1>3, <1>4
<1> QED  BY <1>5

\* Taking slot k out of the list takes its charge away, and no more.
LEMMA DeleteCharge ==
  ASSUME TypeOK, NEW k \in Slots, RetainOnly(Slots \ {k})
  PROVE  UsedBy(profiles) <= UsedBy(profiles') + profiles[k].size
<1> DEFINE L == Len(profiles)
           K == Slots \ {k}
           q == profiles'
           n == Cardinality(K)
           s == [j \in 1..L |-> profiles[j].size]
           P == ChargedUpTo(profiles)
           Q == ChargedUpTo(q)
<1>1. /\ L \in Nat /\ Slots = 1..L /\ Sized(profiles)
      /\ \A j \in Slots : profiles[j].size \in Nat
  BY SlotsSized
<1>2. PICK f \in Ascending(K) : q = [a \in DOMAIN f |-> profiles[f[a]]]
  BY DEF RetainOnly
<1>3. n \in Nat /\ Len(q) = n /\ Sized(q)
  BY <1>1, <1>2, RetainCharge
<1> HIDE DEF n, q
<1>4. /\ f \in [1..n -> K]
      /\ \A a, b \in 1..n : a < b => f[a] < f[b]
      /\ \A j \in K : \E a \in 1..n : f[a] = j
  BY DEF Ascending, n
<1>5. f \in [1..n -> 1..L] /\ \A a \in 1..n : f[a] # k
  BY <1>1, <1>4
<1>6. \A a \in 1..n : q[a].size = s[f[a]] /\ q[a].size \in Nat
  BY <1>1, <1>2, <1>5
<1>7. /\ P \in [0..L -> Nat] /\ P[0] = 0
      /\ \A j \in 1..L : P[j] = P[j - 1] + profiles[j].size
  BY <1>1, ChargedUpToDef
<1>8. /\ Q \in [0..n -> Nat] /\ Q[0] = 0
      /\ \A a \in 1..n : Q[a] = Q[a - 1] + q[a].size
  BY <1>3, ChargedUpToDef
<1>9. UsedBy(profiles) = P[L] /\ UsedBy(q) = Q[n]
  BY <1>3 DEF UsedBy
<1> HIDE DEF P, Q
<1>10. /\ IsTally(P, s, L)
       /\ IsTally(Q, [a \in 1..n |-> s[f[a]]], n)
       /\ IsAscending(f, n)
       /\ s \in [1..L -> Nat]
  <2>1. s \in [1..L -> Nat]
    BY <1>1
  <2>2. IsTally(P, s, L)
    BY <1>7 DEF IsTally
  <2>3. IsTally(Q, [a \in 1..n |-> s[f[a]]], n)
    <3> HIDE DEF s
    <3> QED  BY <1>6, <1>8 DEF IsTally
  <2>4. IsAscending(f, n)
    BY <1>4 DEF IsAscending
  <2> QED  BY <2>1, <2>2, <2>3, <2>4
<1>11. Covers(f, n, L, k)
  BY <1>1, <1>4 DEF Covers
<1>12. k \in 1..L /\ s[k] = profiles[k].size
  BY <1>1
<1>13. P[L] <= Q[n] + s[k]
  <2> HIDE DEF s
  <2> QED  BY <1>1, <1>3, <1>5, <1>10, <1>11, <1>12, OneLeftOut
<1> QED  BY <1>9, <1>12, <1>13 DEF q

\* Free memory and charges together do not shrink in a call of the local interface.
LEMMA LocalKeepsMemory ==
  ASSUME Inv, LocalNext
  PROVE  ~ (free_nvm + UsedBy(profiles) > free_nvm' + UsedBy(profiles'))
<1>1. /\ TypeOK /\ AtMostOneEnabled /\ WithinCapacity
      /\ Len(profiles) \in Nat /\ Slots = 1..Len(profiles) /\ Sized(profiles)
      /\ \A k \in Slots : profiles[k] \in ProfileSlot /\ profiles[k].size \in Nat
      /\ free_nvm \in Int /\ UsedBy(profiles) \in Nat
  BY InvProperties, SlotsSized, UsedByType DEF TypeOK
<1>2. ASSUME SameSlots, free_nvm' = free_nvm
      PROVE  free_nvm + UsedBy(profiles) = free_nvm' + UsedBy(profiles')
  <2>1. UsedBy(profiles') = UsedBy(profiles)
    BY <1>1, <1>2, SameCharge DEF SameSlots
  <2> QED  BY <1>2, <2>1
<1>3. ASSUME NEW k \in Slots, enable_profile(k) PROVE SameSlots /\ free_nvm' = free_nvm
  BY <1>1, <1>3, SwitchToEffect DEF enable_profile
<1>4. ASSUME NEW k \in Slots, disable_profile(k) PROVE SameSlots /\ free_nvm' = free_nvm
  BY <1>1, <1>4, DisableEffect DEF disable_profile
<1>5. ASSUME NEW k \in Slots, delete_profile(k)
      PROVE  free_nvm + UsedBy(profiles) <= free_nvm' + UsedBy(profiles')
  <2>1. RetainOnly(Slots \ {k}) /\ free_nvm' = free_nvm + profiles[k].size
    BY <1>5 DEF delete_profile
  <2>2. UsedBy(profiles) <= UsedBy(profiles') + profiles[k].size
    BY <1>1, <2>1, DeleteCharge
  <2>3. UsedBy(profiles') \in Nat
    BY <1>1, <2>1, RetainEffect, UsedByType
  <2> QED  BY <1>1, <2>1, <2>2, <2>3
<1>6. ASSUME NEW delete_operational \in BOOLEAN, NEW delete_test \in BOOLEAN,
             NEW reset_address \in BOOLEAN,
             euicc_memory_reset(delete_operational, delete_test, reset_address)
      PROVE  free_nvm + UsedBy(profiles) <= free_nvm' + UsedBy(profiles')
  <2> DEFINE spared == SparedByReset(delete_operational, delete_test)
  <2>1. /\ spared \in SUBSET Slots /\ RetainOnly(spared)
        /\ free_nvm' = TotalNvm - UsedBy(profiles')
    BY <1>6 DEF euicc_memory_reset, SparedByReset
  <2> HIDE DEF spared
  <2>2. UsedBy(profiles') \in Nat
    BY <1>1, <2>1, RetainEffect, UsedByType
  <2> QED  BY <1>1, <2>1, <2>2, MemoryAssumption DEF WithinCapacity
<1>7. ASSUME NEW i \in Iccids, NEW size \in Sizes \cup {DefaultSize},
             install_profile(i, size)
      PROVE  free_nvm + UsedBy(profiles) = free_nvm' + UsedBy(profiles')
  <2> DEFINE r == [iccid |-> i, aid |-> allocate_isdp_aid, state |-> "disabled",
                   class |-> "operational", size |-> size]
             L == Len(profiles)
  <2>1. profiles' = Append(profiles, r) /\ free_nvm' = free_nvm - size
    BY <1>7 DEF install_profile
  <2>2. size \in Nat
    BY SizesAssumption
  <2>3. r \in ProfileSlot
    BY <1>1 DEF ProfileSlot, allocate_isdp_aid, States, Classes
  <2>4. r.size = size
    OBVIOUS
  <2> HIDE DEF r
  <2>5. /\ profiles' \in Seq(ProfileSlot) /\ Len(profiles') = L + 1
        /\ \A k \in 1..L : profiles'[k] = profiles[k]
        /\ profiles'[L + 1] = r
    BY <1>1, <2>1, <2>3 DEF TypeOK
  <2>6. Sized(profiles')
    BY <1>1, <2>2, <2>4, <2>5 DEF Sized
  <2>7. UsedBy(profiles') = UsedBy(profiles) + size
    BY <1>1, <2>4, <2>5, <2>6, AppendCharge
  <2> QED  BY <1>1, <2>1, <2>2, <2>7
<1>8. UsedBy(profiles') \in Nat /\ free_nvm' \in Int
  <2>1. Inv'
    BY LocalNextInv
  <2>2. profiles' \in Seq(ProfileSlot) /\ free_nvm' \in Int
    BY <2>1 DEF Inv, SlotsOK
  <2>3. \A r \in ProfileSlot : r.size \in Nat
    BY SizesAssumption DEF ProfileSlot
  <2>4. Sized(profiles')
    BY <2>2, <2>3 DEF Sized
  <2> QED  BY <2>2, <2>4, UsedByType
<1>9. free_nvm + UsedBy(profiles) <= free_nvm' + UsedBy(profiles')
  <2>1. \A k \in Addressable : k \in Slots
    BY DEF Addressable, find_profile_by_iccid, find_profile_by_aid, FirstAmong
  <2>2. ASSUME NEW k \in Slots,
               enable_profile(k) \/ disable_profile(k) \/ delete_profile(k)
        PROVE  free_nvm + UsedBy(profiles) <= free_nvm' + UsedBy(profiles')
    <3>1. CASE enable_profile(k) \/ disable_profile(k)
      BY <1>1, <1>2, <1>3, <1>4, <1>8, <3>1
    <3>2. CASE delete_profile(k)
      BY <1>5, <3>2
    <3> QED  BY <2>2, <3>1, <3>2
  <2>3. ASSUME NEW i \in Iccids, NEW size \in Sizes \cup {DefaultSize},
               install_profile(i, size)
        PROVE  free_nvm + UsedBy(profiles) <= free_nvm' + UsedBy(profiles')
    BY <1>1, <1>7, <1>8, <2>3
  <2> QED  BY <1>6, <2>1, <2>2, <2>3 DEF LocalNext
<1> QED  BY <1>1, <1>8, <1>9

\* For every size of profile and memory: what is free plus what is charged shrinks
\* in no step but a PSMO of an eIM.
THEOREM KeepsMemory == Spec => NoMemoryLeak
<1>1. Inv /\ [Next]_vars =>
        [free_nvm + UsedBy(profiles) > free_nvm' + UsedBy(profiles') => _execute_psmo]_vars
  <2> SUFFICES ASSUME Inv, Next,
                      free_nvm + UsedBy(profiles) > free_nvm' + UsedBy(profiles')
               PROVE  _execute_psmo
    BY DEF vars
  <2>1. ~ LocalNext
    BY LocalKeepsMemory
  <2>2. ASSUME NEW n \in 1..MaxSeq, remove_notification(n) PROVE FALSE
    <3>1. free_nvm' = free_nvm /\ profiles' = profiles
      BY <2>2 DEF remove_notification
    <3>2. free_nvm \in Int /\ UsedBy(profiles) \in Nat
      BY InvProperties, SlotsSized, UsedByType DEF TypeOK
    <3> QED  BY <3>1, <3>2
  <2> QED  BY <2>1, <2>2 DEF Next
<1> QED  BY <1>1, Invariance, PTL DEF Spec, NoMemoryLeak

----------------------------------------------------------------------------
(* The queue goes on telling which profile is active.                      *)

Switches == {"enable", "disable"}

\* The ICCIDs of enabled slots.
EnabledOnes == {profiles[k].iccid : k \in EnabledIn}

\* The entries that are the last switch of their ICCID.
LastSwitches ==
  {m \in DOMAIN notifications :
     /\ notifications[m].operation \in Switches
     /\ \A j \in DOMAIN notifications :
          j > m /\ notifications[j].operation \in Switches =>
            notifications[j].iccid # notifications[m].iccid}

Tells ==
  \A m \in LastSwitches :
    notifications[m].operation = "enable" <=> notifications[m].iccid \in EnabledOnes

LEMMA ReplayTellsIs == ReplayTells <=> Tells
BY DEF ReplayTells, LastSwitches, Tells, EnabledOnes, EnabledIn, Switches

LEMMA ReplayTellsIsNext == ReplayTells' <=> Tells'
BY ReplayTellsIs, PTL

\* What add_notifications leaves in the queue.
LEMMA AddedEntries ==
  ASSUME QueueOK, NEW ops \in Seq(Operations \X Iccids), add_notifications(ops)
  PROVE  /\ DOMAIN notifications' = 1..(Len(notifications) + Len(ops))
         /\ \A n \in 1..Len(notifications) : notifications'[n] = notifications[n]
         /\ \A n \in (Len(notifications) + 1)..(Len(notifications) + Len(ops)) :
              /\ notifications'[n].operation = ops[n - Len(notifications)][1]
              /\ notifications'[n].iccid = ops[n - Len(notifications)][2]
<1> DEFINE L == Len(notifications)
           new == [n \in 1..Len(ops) |-> [seq       |-> notification_seq + n,
                                          operation |-> ops[n][1],
                                          iccid     |-> ops[n][2]]]
<1>1. /\ L \in Nat /\ Len(ops) \in Nat /\ notification_seq \in Nat
      /\ notifications \in Seq(Notification)
  BY DEF QueueOK
<1>2. \A n \in 1..Len(ops) :
        new[n] \in Notification /\ new[n].operation = ops[n][1] /\ new[n].iccid = ops[n][2]
  <2>1. \A n \in 1..Len(ops) : ops[n] \in Operations \X Iccids
    OBVIOUS
  <2> QED  BY <1>1, <2>1 DEF Notification
<1>3. new \in Seq(Notification) /\ Len(new) = Len(ops)
  <2> HIDE DEF new
  <2>1. new \in [1..Len(ops) -> Notification]  BY <1>2 DEF new
  <2> QED  BY <1>1, <2>1
<1>4. notifications' = notifications \o new
  BY DEF add_notifications
<1> HIDE DEF new
<1>5. /\ DOMAIN notifications' = 1..(L + Len(ops))
      /\ \A n \in 1..(L + Len(ops)) :
           notifications'[n] = IF n <= L THEN notifications[n] ELSE new[n - L]
  <2>1. Len(notifications \o new) = L + Len(ops)
    BY <1>1, <1>3
  <2> QED  BY <1>1, <1>3, <1>4, <2>1
<1>6. \A n \in 1..L : n \in 1..(L + Len(ops)) /\ n <= L
  BY <1>1
<1>7. \A n \in (L + 1)..(L + Len(ops)) :
        n \in 1..(L + Len(ops)) /\ ~(n <= L) /\ n - L \in 1..Len(ops)
  BY <1>1
<1> QED  BY <1>2, <1>5, <1>6, <1>7

\* Entries are appended; profiles change for ICCIDs only whose switch is appended,
\* and the last of an ICCID's switches says what has become of it.
LEMMA AppendTells ==
  ASSUME ReplayTells, QueueOK,
         NEW ops \in Seq(Operations \X Iccids), add_notifications(ops),
         \A x \in Iccids :
           (\A n \in 1..Len(ops) : ops[n][1] \in Switches => ops[n][2] # x) =>
             (x \in EnabledOnes' <=> x \in EnabledOnes),
         \A n \in 1..Len(ops) :
           /\ ops[n][1] \in Switches
           /\ \A m \in 1..Len(ops) : m > n /\ ops[m][1] \in Switches => ops[m][2] # ops[n][2]
           => (ops[n][1] = "enable" <=> ops[n][2] \in EnabledOnes')
  PROVE  ReplayTells'
<1> DEFINE L == Len(notifications)
           N == L + Len(ops)
<1>1. /\ L \in Nat /\ Len(ops) \in Nat /\ DOMAIN notifications = 1..L
      /\ DOMAIN notifications' = 1..N
      /\ \A n \in 1..L : notifications'[n] = notifications[n]
      /\ \A n \in (L + 1)..N : /\ notifications'[n].operation = ops[n - L][1]
                               /\ notifications'[n].iccid = ops[n - L][2]
  BY AddedEntries
<1>2. SUFFICES ASSUME NEW m \in LastSwitches'
               PROVE  notifications'[m].operation = "enable" <=>
                        notifications'[m].iccid \in EnabledOnes'
  BY ReplayTellsIsNext DEF Tells
<1>3. /\ m \in 1..N /\ notifications'[m].operation \in Switches
      /\ \A j \in 1..N : j > m /\ notifications'[j].operation \in Switches =>
           notifications'[j].iccid # notifications'[m].iccid
  BY <1>1, <1>2 DEF LastSwitches, Switches
<1>4. CASE m \in 1..L
  <2>1. notifications'[m] = notifications[m] /\ notifications[m].iccid \in Iccids
    <3>1. notifications[m] \in Notification
      BY <1>1, <1>4 DEF QueueOK
    <3> QED  BY <1>1, <1>4, <3>1 DEF Notification
  <2>2. m \in LastSwitches
    <3>1. \A j \in 1..L : j \in 1..N /\ notifications'[j] = notifications[j]
      BY <1>1
    <3> QED  BY <1>1, <1>3, <1>4, <2>1, <3>1 DEF LastSwitches
  <2>3. notifications[m].operation = "enable" <=> notifications[m].iccid \in EnabledOnes
    BY <2>2, ReplayTellsIs DEF Tells
  <2>4. \A n \in 1..Len(ops) : ops[n][1] \in Switches => ops[n][2] # notifications[m].iccid
    <3> SUFFICES ASSUME NEW n \in 1..Len(ops), ops[n][1] \in Switches
                 PROVE  ops[n][2] # notifications[m].iccid
      OBVIOUS
    <3>1. L + n \in (L + 1)..N /\ L + n \in 1..N /\ L + n > m /\ (L + n) - L = n
      BY <1>1, <1>4
    <3>2. /\ notifications'[L + n].operation = ops[n][1]
          /\ notifications'[L + n].iccid = ops[n][2]
      BY <1>1, <3>1
    <3> QED  BY <1>3, <2>1, <3>1, <3>2
  <2> QED  BY <2>1, <2>3, <2>4
<1>5. CASE m \notin 1..L
  <2> DEFINE n == m - L
  <2>1. m \in (L + 1)..N /\ n \in 1..Len(ops)
    BY <1>1, <1>3, <1>5
  <2>2. notifications'[m].operation = ops[n][1] /\ notifications'[m].iccid = ops[n][2]
    BY <1>1, <2>1
  <2>3. \A j \in 1..Len(ops) : j > n /\ ops[j][1] \in Switches => ops[j][2] # ops[n][2]
    <3> SUFFICES ASSUME NEW j \in 1..Len(ops), j > n, ops[j][1] \in Switches
                 PROVE  ops[j][2] # ops[n][2]
      OBVIOUS
    <3>1. L + j \in (L + 1)..N /\ L + j \in 1..N /\ L + j > m /\ (L + j) - L = j
      BY <1>1, <2>1
    <3>2. /\ notifications'[L + j].operation = ops[j][1]
          /\ notifications'[L + j].iccid = ops[j][2]
      BY <1>1, <3>1
    <3> QED  BY <1>3, <2>2, <3>1, <3>2
  <2>4. ops[n][1] \in Switches
    BY <1>3, <2>2
  <2> HIDE DEF n
  <2> QED  BY <2>1, <2>2, <2>3, <2>4
<1> QED  BY <1>4, <1>5

\* The queue and who is active stay as they are.
LEMMA SameTells ==
  ASSUME ReplayTells, notifications' = notifications, EnabledOnes' = EnabledOnes
  PROVE  ReplayTells'
<1>1. LastSwitches' = LastSwitches
  BY DEF LastSwitches
<1> QED  BY <1>1, ReplayTellsIs, ReplayTellsIsNext DEF Tells

\* Dropping disabled slots leaves the enabled ones.
LEMMA RetainEnabled ==
  ASSUME TypeOK, NEW K \in SUBSET Slots, EnabledIn \subseteq K, RetainOnly(K)
  PROVE  EnabledOnes' = EnabledOnes
<1>1. PICK f \in Ascending(K) : /\ DOMAIN f = DOMAIN profiles'
                               /\ \A a \in DOMAIN f : profiles'[a] = profiles[f[a]]
  BY RetainEffect
<1>2. /\ \A a \in DOMAIN f : f[a] \in K
      /\ \A k \in K : \E a \in DOMAIN f : f[a] = k
  BY DEF Ascending
<1>3. Slots' = DOMAIN f
  BY <1>1 DEF Slots
<1>4. ASSUME NEW a \in EnabledIn' PROVE profiles'[a].iccid \in EnabledOnes
  <2>1. a \in DOMAIN f /\ profiles'[a].state = "enabled"
    BY <1>3 DEF EnabledIn
  <2>2. f[a] \in Slots /\ profiles[f[a]].state = "enabled"
        /\ profiles[f[a]].iccid = profiles'[a].iccid
    BY <1>1, <1>2, <2>1
  <2> QED  BY <2>2 DEF EnabledIn, EnabledOnes
<1>5. ASSUME NEW k \in EnabledIn PROVE profiles[k].iccid \in EnabledOnes'
  <2>1. PICK a \in DOMAIN f : f[a] = k
    BY <1>2
  <2>2. profiles'[a] = profiles[k]
    BY <1>1, <2>1
  <2>3. a \in EnabledIn'
    BY <1>3, <2>1, <2>2 DEF EnabledIn
  <2> QED  BY <2>2, <2>3 DEF EnabledOnes
<1> QED  BY <1>4, <1>5 DEF EnabledOnes

\* No call of the local interface spoils the queue.
LEMMA LocalKeepsTelling ==
  ASSUME Inv, ReplayTells, LocalNext
  PROVE  ReplayTells'
<1>1. /\ TypeOK /\ AtMostOneEnabled /\ QueueOK
      /\ Len(profiles) \in Nat /\ Slots = 1..Len(profiles)
      /\ \A k \in Slots : profiles[k] \in ProfileSlot /\ profiles[k].iccid \in Iccids
  BY InvProperties, SlotsSized DEF Inv, ProfileSlot
<1>2. get_enabled_profile = EnabledIn /\ EnabledIn \subseteq Slots
  BY <1>1, EnabledSlots DEF EnabledIn
<1>3. ASSUME NEW k \in Slots, enable_profile(k) PROVE ReplayTells'
  <2>1. SameSlots /\ \A j \in Slots : profiles'[j].state = "enabled" <=> j = k
    BY <1>1, <1>3, SwitchToEffect DEF enable_profile
  <2>2. Slots' = Slots
    BY <1>1, <2>1 DEF SameSlots, Slots
  <2>3. EnabledIn' = {k}
    BY <2>1, <2>2 DEF EnabledIn
  <2>4. EnabledOnes' = {profiles[k].iccid}
    BY <2>1, <2>3 DEF EnabledOnes, SameSlots
  <2>5. CASE get_enabled_profile = {}
             /\ add_notifications(<< <<"enable", profiles[k].iccid>> >>)
    <3> DEFINE ops == << <<"enable", profiles[k].iccid>> >>
    <3>1. ops \in Seq(Operations \X Iccids) /\ Len(ops) = 1
          /\ ops[1][1] = "enable" /\ ops[1][2] = profiles[k].iccid
      BY <1>1 DEF Operations
    <3>2. EnabledOnes = {}
      BY <1>2, <2>5 DEF EnabledOnes
    <3>3. add_notifications(ops)
      BY <2>5
    <3> HIDE DEF ops
    <3> QED  BY <1>1, <2>4, <3>1, <3>2, <3>3, AppendTells DEF Switches
  <2>6. ASSUME NEW c \in get_enabled_profile,
               add_notifications(<< <<"disable", profiles[c].iccid>>,
                                    <<"enable", profiles[k].iccid>> >>)
        PROVE  ReplayTells'
    <3> DEFINE ops == << <<"disable", profiles[c].iccid>>, <<"enable", profiles[k].iccid>> >>
    <3>1. ops \in Seq(Operations \X Iccids) /\ Len(ops) = 2
          /\ ops[1][1] = "disable" /\ ops[1][2] = profiles[c].iccid
          /\ ops[2][1] = "enable" /\ ops[2][2] = profiles[k].iccid
      BY <1>1, <1>2 DEF Operations
    <3>2. EnabledOnes = {profiles[c].iccid}
      <4>1. EnabledIn = {c}
        BY <1>1, <1>2 DEF EnabledIn, AtMostOneEnabled
      <4> QED  BY <4>1 DEF EnabledOnes
    <3>3. add_notifications(ops)
      BY <2>6
    <3> HIDE DEF ops
    <3>4. \A x \in Iccids :
            (\A n \in 1..Len(ops) : ops[n][1] \in Switches => ops[n][2] # x) =>
              (x \in EnabledOnes' <=> x \in EnabledOnes)
      BY <2>4, <3>1, <3>2 DEF Switches
    <3>5. ASSUME NEW n \in 1..Len(ops),
                 \A m \in 1..Len(ops) : m > n /\ ops[m][1] \in Switches => ops[m][2] # ops[n][2]
          PROVE  ops[n][1] = "enable" <=> ops[n][2] \in EnabledOnes'
      <4>1. CASE n = 1
        <5>1. 2 \in 1..Len(ops) /\ 2 > n
          BY <3>1, <4>1
        <5>2. ops[2][2] # ops[1][2]
          BY <3>1, <3>5, <4>1, <5>1 DEF Switches
        <5> QED  BY <2>4, <3>1, <4>1, <5>2
      <4>2. CASE n = 2
        BY <2>4, <3>1, <4>2
      <4> QED  BY <3>1, <4>1, <4>2
    <3> QED  BY <1>1, <3>1, <3>3, <3>4, <3>5, AppendTells
  <2> QED  BY <1>3, <2>5, <2>6 DEF enable_profile
<1>4. ASSUME NEW k \in Slots, disable_profile(k) PROVE ReplayTells'
  <2>1. /\ SameSlots
        /\ \A j \in Slots : profiles'[j].state = "enabled" <=>
                            profiles[j].state = "enabled" /\ j # k
    BY <1>1, <1>4, DisableEffect DEF disable_profile
  <2>2. Slots' = Slots
    BY <1>1, <2>1 DEF SameSlots, Slots
  <2>3. EnabledIn = {k} /\ EnabledIn' = {}
    BY <1>1, <1>4, <2>1, <2>2 DEF EnabledIn, AtMostOneEnabled, disable_profile
  <2>4. EnabledOnes = {profiles[k].iccid} /\ EnabledOnes' = {}
    BY <2>3 DEF EnabledOnes
  <2> DEFINE ops == << <<"disable", profiles[k].iccid>> >>
  <2>5. ops \in Seq(Operations \X Iccids) /\ Len(ops) = 1
        /\ ops[1][1] = "disable" /\ ops[1][2] = profiles[k].iccid
    BY <1>1 DEF Operations
  <2>6. add_notifications(ops)
    BY <1>4 DEF disable_profile
  <2> HIDE DEF ops
  <2> QED  BY <1>1, <2>4, <2>5, <2>6, AppendTells DEF Switches
<1>5. ASSUME NEW k \in Slots, delete_profile(k) PROVE ReplayTells'
  <2>1. RetainOnly(Slots \ {k}) /\ EnabledIn \subseteq Slots \ {k}
    BY <1>5 DEF delete_profile, EnabledIn
  <2>2. EnabledOnes' = EnabledOnes
    BY <1>1, <2>1, RetainEnabled
  <2> DEFINE ops == << <<"delete", profiles[k].iccid>> >>
  <2>3. ops \in Seq(Operations \X Iccids) /\ Len(ops) = 1
        /\ ops[1][1] = "delete" /\ ops[1][2] = profiles[k].iccid
    BY <1>1 DEF Operations
  <2>4. add_notifications(ops)
    BY <1>5 DEF delete_profile
  <2> HIDE DEF ops
  <2> QED  BY <1>1, <2>2, <2>3, <2>4, AppendTells DEF Switches
<1>6. ASSUME NEW delete_operational \in BOOLEAN, NEW delete_test \in BOOLEAN,
             NEW reset_address \in BOOLEAN,
             euicc_memory_reset(delete_operational, delete_test, reset_address)
      PROVE  ReplayTells'
  <2> DEFINE spared == SparedByReset(delete_operational, delete_test)
  <2>1. /\ spared \in SUBSET Slots /\ EnabledIn \subseteq spared /\ RetainOnly(spared)
        /\ notifications' = notifications
    BY <1>6 DEF euicc_memory_reset, SparedByReset, EnabledIn
  <2> HIDE DEF spared
  <2> QED  BY <1>1, <2>1, RetainEnabled, SameTells
<1>7. ASSUME NEW i \in Iccids, NEW size \in Sizes \cup {DefaultSize},
             install_profile(i, size)
      PROVE  ReplayTells'
  <2> DEFINE L == Len(profiles)
  <2>1. profiles' = Append(profiles,
           [iccid |-> i, aid |-> allocate_isdp_aid, state |-> "disabled",
            class |-> "operational", size |-> size])
    BY <1>7 DEF install_profile
  <2>2. /\ Slots' = 1..(L + 1)
        /\ \A k \in Slots : profiles'[k] = profiles[k]
        /\ profiles'[L + 1].state = "disabled"
    BY <1>1, <2>1 DEF Slots, TypeOK
  <2>3. EnabledIn' = EnabledIn
    BY <1>1, <2>2 DEF EnabledIn
  <2>4. EnabledOnes' = EnabledOnes
    BY <1>2, <2>2, <2>3 DEF EnabledOnes
  <2> DEFINE ops == << <<"install", i>> >>
  <2>5. ops \in Seq(Operations \X Iccids) /\ Len(ops) = 1
        /\ ops[1][1] = "install" /\ ops[1][2] = i
    BY DEF Operations
  <2>6. add_notifications(ops)
    BY <1>7 DEF install_profile
  <2> HIDE DEF ops
  <2> QED  BY <1>1, <2>4, <2>5, <2>6, AppendTells DEF Switches
<1>8. \A k \in Addressable : k \in Slots
  BY DEF Addressable, find_profile_by_iccid, find_profile_by_aid, FirstAmong
<1> QED  BY <1>3, <1>4, <1>5, <1>6, <1>7, <1>8 DEF LocalNext

\* For any number of slots and entries: only an eIM's PSMO or the removal of an
\* entry makes the queue tell a wrong active profile.
THEOREM QueueTellsActive == Spec => NotificationsTellActive
<1>1. Inv /\ [Next]_vars =>
        [ReplayTells /\ ~ ReplayTells' =>
           _execute_psmo \/ \E n \in 1..MaxSeq : remove_notification(n)]_vars
  BY LocalKeepsTelling DEF Next
<1> QED  BY <1>1, Invariance, PTL DEF Spec, NotificationsTellActive

----------------------------------------------------------------------------
(* The two models of _execute_psmo.  EuiccPackages sees of the slots which *)
(* state the profile with an ICCID is in, EuiccProfiles has the list that  *)
(* is searched from its front.                                             *)

SlotOf ==
  [i \in Iccids |->
     IF \E k \in Slots : profiles[k].iccid = i /\ profiles[k].state = "enabled" THEN "enabled"
     ELSE IF \E k \in Slots : profiles[k].iccid = i THEN "disabled" ELSE "absent"]

Pkg == INSTANCE EuiccPackages
         WITH EimIds <- {}, MaxCounter <- 0, Packages <- {}, InitialEims <- <<>>,
              InitialSlots <- {}, Addable <- {}, Deletable <- {},
              eim_associations <- <<>>, executed <- <<>>, slots <- SlotOf

DistinctIccids == \A j, k \in Slots : profiles[j].iccid = profiles[k].iccid => j = k

LEMMA SlotOfIs ==
  ASSUME TypeOK, DistinctIccids, NEW k \in Slots
  PROVE  profiles[k].iccid \in Iccids /\ SlotOf[profiles[k].iccid] = profiles[k].state
<1>1. profiles[k] \in ProfileSlot
  BY SlotsSized
<1>2. profiles[k].iccid \in Iccids /\ profiles[k].state \in {"enabled", "disabled"}
  BY <1>1 DEF ProfileSlot, States
<1>3. \A j \in Slots : profiles[j].iccid = profiles[k].iccid => j = k
  BY DEF DistinctIccids
<1> QED  BY <1>2, <1>3 DEF SlotOf

\* Enabling or disabling: only states differ, and SlotOf follows them.
LEMMA SlotOfStates ==
  ASSUME Inv, DistinctIccids, SameSlots, NEW i \in Iccids
  PROVE  SlotOf'[i] = IF \E k \in Slots : profiles[k].iccid = i /\ profiles'[k].state = "enabled"
                      THEN "enabled" ELSE IF SlotOf[i] = "absent" THEN "absent" ELSE "disabled"
<1>1. Slots' = Slots
  BY DEF SameSlots, Slots, Inv, SlotsOK
<1>2. \A k \in Slots : profiles'[k].iccid = profiles[k].iccid
  BY DEF SameSlots
<1> QED  BY <1>1, <1>2 DEF SlotOf

LEMMA EnableAgrees ==
  ASSUME Inv, DistinctIccids, NEW k \in Slots, profiles[k].state # "enabled", SwitchTo(k),
         NEW o \in Pkg!Psmo, o = [action |-> "enable", iccid |-> profiles[k].iccid]
  PROVE  Pkg!PsmoSucceeds(o, SlotOf) /\ SlotOf' = Pkg!SlotsAfter(o, SlotOf)
<1>1. TypeOK /\ AtMostOneEnabled
  BY InvProperties
<1>2. /\ SameSlots
      /\ \A j \in Slots : profiles'[j].state = "enabled" <=> j = k
  BY <1>1, SwitchToEffect
<1>3. profiles[k].iccid \in Iccids /\ SlotOf[profiles[k].iccid] = "disabled"
  <2>1. profiles[k].state = "disabled"
    BY <1>1, SlotsSized DEF ProfileSlot, States
  <2> QED  BY <1>1, <2>1, SlotOfIs
<1>4. ASSUME NEW i \in Iccids
      PROVE  SlotOf'[i] = IF i = profiles[k].iccid THEN "enabled"
                          ELSE IF SlotOf[i] = "enabled" THEN "disabled" ELSE SlotOf[i]
  <2>1. (\E j \in Slots : profiles[j].iccid = i /\ profiles'[j].state = "enabled")
          <=> i = profiles[k].iccid
    BY <1>2
  <2>2. SlotOf[i] \in {"absent", "disabled", "enabled"}
    BY DEF SlotOf
  <2> QED  BY <1>2, <2>1, <2>2, SlotOfStates
<1>5. o.action = "enable" /\ o.iccid = profiles[k].iccid
  OBVIOUS
<1>6. SlotOf' = [i \in Iccids |-> IF i = o.iccid THEN "enabled"
                                  ELSE IF SlotOf[i] = "enabled" THEN "disabled" ELSE SlotOf[i]]
  BY <1>4, <1>5 DEF SlotOf
<1> QED  BY <1>3, <1>5, <1>6 DEF Pkg!PsmoSucceeds, Pkg!SlotsAfter

LEMMA DisableAgrees ==
  ASSUME Inv, DistinctIccids, NEW k \in Slots, profiles[k].state = "enabled", Disable(k),
         NEW o \in Pkg!Psmo, o = [action |-> "disable", iccid |-> profiles[k].iccid]
  PROVE  Pkg!PsmoSucceeds(o, SlotOf) /\ SlotOf' = Pkg!SlotsAfter(o, SlotOf)
<1>1. TypeOK /\ AtMostOneEnabled
  BY InvProperties
<1>2. /\ SameSlots
      /\ \A j \in Slots : profiles'[j].state = "enabled" <=>
                          profiles[j].state = "enabled" /\ j # k
  BY <1>1, DisableEffect
<1>3. profiles[k].iccid \in Iccids /\ SlotOf[profiles[k].iccid] = "enabled"
  BY <1>1, SlotOfIs
<1>4. ASSUME NEW i \in Iccids
      PROVE  SlotOf'[i] = IF i = profiles[k].iccid THEN "disabled" ELSE SlotOf[i]
  <2>1. \A j \in Slots : profiles'[j].state # "enabled"
    BY <1>1, <1>2 DEF AtMostOneEnabled
  <2>2. SlotOf[i] = "enabled" => i = profiles[k].iccid
    BY <1>1 DEF SlotOf, AtMostOneEnabled
  <2>3. SlotOf[i] \in {"absent", "disabled", "enabled"}
    BY DEF SlotOf
  <2> QED  BY <1>2, <1>3, <2>1, <2>2, <2>3, SlotOfStates
<1>5. o.action = "disable" /\ o.iccid = profiles[k].iccid
  OBVIOUS
<1>6. SlotOf' = [SlotOf EXCEPT ![o.iccid] = "disabled"]
  <2>1. DOMAIN SlotOf = Iccids /\ SlotOf = [i \in Iccids |-> SlotOf[i]]
    BY DEF SlotOf
  <2>2. SlotOf' = [i \in Iccids |-> SlotOf'[i]]
    BY DEF SlotOf
  <2> QED  BY <1>4, <1>5, <2>1, <2>2
<1> QED  BY <1>3, <1>5, <1>6 DEF Pkg!PsmoSucceeds, Pkg!SlotsAfter

LEMMA DeleteAgrees ==
  ASSUME Inv, DistinctIccids, NEW k \in Slots, profiles[k].state # "enabled",
         RetainOnly(Slots \ {k}),
         NEW o \in Pkg!Psmo, o = [action |-> "delete", iccid |-> profiles[k].iccid]
  PROVE  Pkg!PsmoSucceeds(o, SlotOf) /\ SlotOf' = Pkg!SlotsAfter(o, SlotOf)
<1>1. TypeOK /\ AtMostOneEnabled
  BY InvProperties
<1>2. profiles[k].iccid \in Iccids /\ SlotOf[profiles[k].iccid] = "disabled"
  <2>1. profiles[k].state = "disabled"
    BY <1>1, SlotsSized DEF ProfileSlot, States
  <2> QED  BY <1>1, <2>1, SlotOfIs
<1>3. PICK f \in Ascending(Slots \ {k}) :
        DOMAIN f = DOMAIN profiles' /\ \A a \in DOMAIN f : profiles'[a] = profiles[f[a]]
  BY <1>1, RetainEffect
<1>4. /\ \A a \in DOMAIN f : f[a] \in Slots \ {k}
      /\ \A j \in Slots \ {k} : \E a \in DOMAIN f : f[a] = j
      /\ Slots' = DOMAIN f
  BY <1>3 DEF Ascending, Slots
<1>5. ASSUME NEW i \in Iccids
      PROVE  SlotOf'[i] = IF i = profiles[k].iccid THEN "absent" ELSE SlotOf[i]
  <2>1. (\E a \in Slots' : profiles'[a].iccid = i)
          <=> \E j \in Slots \ {k} : profiles[j].iccid = i
    BY <1>3, <1>4
  <2>2. (\E a \in Slots' : profiles'[a].iccid = i /\ profiles'[a].state = "enabled")
          <=> \E j \in Slots \ {k} : profiles[j].iccid = i /\ profiles[j].state = "enabled"
    BY <1>3, <1>4
  <2>3. CASE i = profiles[k].iccid
    BY <2>1, <2>2, <2>3 DEF SlotOf, DistinctIccids
  <2>4. CASE i # profiles[k].iccid
    BY <2>1, <2>2, <2>4 DEF SlotOf
  <2> QED  BY <2>3, <2>4
<1>6. o.action = "delete" /\ o.iccid = profiles[k].iccid
  OBVIOUS
<1>7. SlotOf' = [SlotOf EXCEPT ![o.iccid] = "absent"]
  <2>1. DOMAIN SlotOf = Iccids /\ SlotOf = [i \in Iccids |-> SlotOf[i]]
    BY DEF SlotOf
  <2>2. SlotOf' = [i \in Iccids |-> SlotOf'[i]]
    BY DEF SlotOf
  <2> QED  BY <1>5, <1>6, <2>1, <2>2
<1> QED  BY <1>2, <1>6, <1>7 DEF Pkg!PsmoSucceeds, Pkg!SlotsAfter

\* The package's own test of the state it finds is the test of the list's first
\* profile with the ICCID.
LEMMA SuccessAgrees ==
  ASSUME Inv, DistinctIccids, NEW i \in Iccids, NEW o \in Pkg!Psmo, o.iccid = i
  PROVE  /\ o.action \in {"enable", "delete"} =>
              (Pkg!PsmoSucceeds(o, SlotOf) <=>
                 \E k \in find_profile_by_iccid(i) : profiles[k].state # "enabled")
         /\ o.action = "disable" =>
              (Pkg!PsmoSucceeds(o, SlotOf) <=>
                 \E k \in find_profile_by_iccid(i) : profiles[k].state = "enabled")
<1>1. TypeOK
  BY InvProperties
<1>2. \A k \in Slots : /\ profiles[k].state \in {"enabled", "disabled"}
                       /\ profiles[k].iccid = i => SlotOf[i] = profiles[k].state
  <2>1. TAKE k \in Slots
  <2> QED  BY <1>1, SlotsSized, SlotOfIs DEF ProfileSlot, States
<1>3. \A k \in find_profile_by_iccid(i) : k \in Slots /\ profiles[k].iccid = i
  BY DEF find_profile_by_iccid, FirstAmong
<1>4. CASE \E k \in Slots : profiles[k].iccid = i
  <2>1. PICK k \in Slots : profiles[k].iccid = i
    BY <1>4
  <2>2. \A j \in Slots : profiles[j].iccid = i => j = k
    BY <2>1 DEF DistinctIccids
  <2>3. k \in Nat
    BY <1>1, SlotsSized
  <2>4. k \in find_profile_by_iccid(i)
    BY <2>1, <2>2, <2>3 DEF find_profile_by_iccid, FirstAmong
  <2> QED  BY <1>2, <1>3, <2>1, <2>2, <2>4 DEF Pkg!PsmoSucceeds
<1>5. CASE ~ \E k \in Slots : profiles[k].iccid = i
  <2>1. SlotOf[i] = "absent"
    BY <1>5 DEF SlotOf
  <2> QED  BY <1>3, <1>5, <2>1 DEF Pkg!PsmoSucceeds
<1> QED  BY <1>4, <1>5

\* The operation a on the profile with ICCID i, as EuiccPackages has it, succeeds
\* on the slots as they are and leaves them as this step does.
PackageDoes(a, i) ==
  LET o == [action |-> a, iccid |-> i]
  IN  Pkg!PsmoSucceeds(o, SlotOf) /\ SlotOf' = Pkg!SlotsAfter(o, SlotOf)

\* While no ICCID is installed twice, each PSMO operation does to the list what
\* EuiccPackages says of the same operation: the profile with its ICCID and the
\* enabled one change state, no other.  What is proved of packages there holds of
\* the list that the code searches.
THEOREM PsmosAgree ==
  Spec => [][DistinctIccids =>
               \A i \in Iccids : \A k \in find_profile_by_iccid(i) :
                 /\ psmo_enable(k)  => PackageDoes("enable", i)
                 /\ psmo_disable(k) => PackageDoes("disable", i)
                 /\ psmo_delete(k)  => PackageDoes("delete", i)]_vars
<1>1. ASSUME Inv, DistinctIccids, NEW i \in Iccids, NEW k \in find_profile_by_iccid(i)
      PROVE  /\ psmo_enable(k)  => PackageDoes("enable", i)
             /\ psmo_disable(k) => PackageDoes("disable", i)
             /\ psmo_delete(k)  => PackageDoes("delete", i)
  <2>1. k \in Slots /\ profiles[k].iccid = i
    BY DEF find_profile_by_iccid, FirstAmong
  <2>2. \A a \in {"enable", "disable", "delete"} : [action |-> a, iccid |-> i] \in Pkg!Psmo
    BY DEF Pkg!Psmo
  <2>3. psmo_enable(k) => PackageDoes("enable", i)
    BY <1>1, <2>1, <2>2, EnableAgrees DEF psmo_enable, PackageDoes
  <2>4. psmo_disable(k) => PackageDoes("disable", i)
    BY <1>1, <2>1, <2>2, DisableAgrees DEF psmo_disable, PackageDoes
  <2>5. psmo_delete(k) => PackageDoes("delete", i)
    BY <1>1, <2>1, <2>2, DeleteAgrees DEF psmo_delete, PackageDoes
  <2> QED  BY <2>3, <2>4, <2>5
<1>2. Inv /\ [Next]_vars =>
        [DistinctIccids =>
           \A i \in Iccids : \A k \in find_profile_by_iccid(i) :
             /\ psmo_enable(k)  => PackageDoes("enable", i)
             /\ psmo_disable(k) => PackageDoes("disable", i)
             /\ psmo_delete(k)  => PackageDoes("delete", i)]_vars
  BY <1>1
<1> QED  BY <1>2, Invariance, PTL DEF Spec

\* While no ICCID is installed twice, a PSMO operation that is given to the list
\* is answered with an error exactly when EuiccPackages says so.
THEOREM PsmoErrorsAgree ==
  Spec => [](DistinctIccids =>
               \A o \in Pkg!Psmo :
                 /\ o.action \in {"enable", "delete"} =>
                      (Pkg!PsmoSucceeds(o, SlotOf) <=>
                         \E k \in find_profile_by_iccid(o.iccid) : profiles[k].state # "enabled")
                 /\ o.action = "disable" =>
                      (Pkg!PsmoSucceeds(o, SlotOf) <=>
                         \E k \in find_profile_by_iccid(o.iccid) : profiles[k].state = "enabled"))
<1>1. \A o \in Pkg!Psmo : o.iccid \in Iccids
  BY DEF Pkg!Psmo
<1>2. Inv => (DistinctIccids =>
               \A o \in Pkg!Psmo :
                 /\ o.action \in {"enable", "delete"} =>
                      (Pkg!PsmoSucceeds(o, SlotOf) <=>
                         \E k \in find_profile_by_iccid(o.iccid) : profiles[k].state # "enabled")
                 /\ o.action = "disable" =>
                      (Pkg!PsmoSucceeds(o, SlotOf) <=>
                         \E k \in find_profile_by_iccid(o.iccid) : profiles[k].state = "enabled"))
  BY <1>1, SuccessAgrees
<1> QED  BY <1>2, Invariance, PTL
============================================================================
