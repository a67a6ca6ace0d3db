--------------------------- MODULE Namespace_proofs --------------------------
(* What restrict_to_mounts guarantees for every mount table, manifest and   *)
(* path, whatever the number of mounts and the depth of their prefixes.     *)
EXTENDS Namespace, TLAPS, WellFoundedInduction

\* Every nonempty set of naturals has a least element.
LEMMA LeastNat ==
    ASSUME NEW T, T \subseteq Nat, T # {}
    PROVE  \E x \in T : \A y \in T : x <= y
<1>1. PICK x \in T : \A y \in T : ~(<<y, x>> \in OpToRel(<, Nat))
  BY NatLessThanWellFounded, WFMin
<1>2. \A y \in T : ~(y < x) BY <1>1 DEF OpToRel
<1> QED BY <1>2

\* Tables as the code builds them: prefixes are finite paths, and a claim asks
\* for no more than the mount it claims grants.
Table(mounts, S) ==
    /\ mounts \in Seq([prefix : Seq(S), tree : Nat, access : MountAccess])
Claimed(mounts, explicit) ==
    /\ explicit \in [DOMAIN mounts -> MountAccess \cup {None}]
    /\ \A i \in DOMAIN mounts : explicit[i] # None => AtMost(explicit[i], mounts[i].access)

LEMMA TableFacts ==
    ASSUME NEW S, NEW mounts, Table(mounts, S), NEW j \in DOMAIN mounts
    PROVE  /\ j \in Nat /\ mounts[j].prefix \in Seq(S) /\ mounts[j].access \in MountAccess
           /\ Len(mounts[j].prefix) \in Nat
<1> DEFINE Rec == [prefix : Seq(S), tree : Nat, access : MountAccess]
<1>1. mounts \in Seq(Rec) BY DEF Table
<1> HIDE DEF Rec
<1>2. DOMAIN mounts = 1..Len(mounts) /\ Len(mounts) \in Nat BY <1>1
<1>3. mounts[j] \in Rec /\ j \in Nat BY <1>1, <1>2
<1>4. mounts[j].prefix \in Seq(S) /\ mounts[j].access \in MountAccess BY <1>3 DEF Rec
<1> QED BY <1>3, <1>4

LEMMA BelowTrans ==
    ASSUME NEW S, NEW p \in Seq(S), NEW q \in Seq(S), NEW r \in Seq(S),
           StrictlyBelow(p, q), StrictlyBelow(q, r)
    PROVE  StrictlyBelow(p, r)
  BY DEF StrictlyBelow, Below

LEMMA BelowChain ==
    ASSUME NEW S, NEW p \in Seq(S), NEW q \in Seq(S), NEW r \in Seq(S),
           Below(p, r), Below(q, r), Len(p) < Len(q)
    PROVE  StrictlyBelow(p, q)
  BY DEF StrictlyBelow, Below

\* A table without claims is well claimed, and one declaration keeps it so: it
\* claims a free mount of its own path, for no more than that mount grants.
THEOREM ClaimKeepsClaimed ==
    ASSUME NEW S, NEW mounts, Table(mounts, S)
    PROVE  /\ Claimed(mounts, [i \in DOMAIN mounts |-> None])
           /\ \A explicit, path : \A access \in MountAccess :
                 LET next == Claim(mounts, explicit, path, access) IN
                 Claimed(mounts, explicit) /\ next # <<>> => Claimed(mounts, next)
<1>1. Claimed(mounts, [i \in DOMAIN mounts |-> None]) BY DEF Claimed
<1>2. ASSUME NEW explicit, NEW path, NEW access \in MountAccess, Claimed(mounts, explicit),
             Claim(mounts, explicit, path, access) # <<>>
      PROVE  Claimed(mounts, Claim(mounts, explicit, path, access))
  <2> DEFINE free == {i \in DOMAIN explicit : /\ explicit[i] = None /\ mounts[i].prefix = path
                                              /\ Satisfies(mounts[i].access, access)}
             first == CHOOSE i \in free : \A j \in free : i <= j
  <2>1. free # {} /\ Claim(mounts, explicit, path, access) = [explicit EXCEPT ![first] = access]
    BY <1>2 DEF Claim
  <2>2. DOMAIN explicit = DOMAIN mounts BY <1>2 DEF Claimed
  <2>3. free \subseteq Nat BY <2>2, TableFacts
  <2>4. \E i \in free : \A j \in free : i <= j
    <3> HIDE DEF free
    <3> QED BY <2>1, <2>3, LeastNat
  <2>5. first \in free BY <2>4
  <2>6. first \in DOMAIN mounts /\ Satisfies(mounts[first].access, access) BY <2>2, <2>5
  <2>7. AtMost(access, mounts[first].access)
    <3>1. mounts[first].access \in MountAccess BY <2>6, TableFacts
    <3> HIDE DEF first
    <3> QED BY <2>6, <3>1 DEF Satisfies, AtMost, MountAccess
  <2> HIDE DEF first, free
  <2> QED BY <1>2, <2>1, <2>6, <2>7 DEF Claimed
<1> QED BY <1>1, <1>2

\* A mount with an explicit ancestor has a nearest one, so its ceiling is an access.
LEMMA NearestIsAccess ==
    ASSUME NEW S, NEW mounts, Table(mounts, S), NEW explicit, Claimed(mounts, explicit),
           NEW i \in DOMAIN mounts, Ancestors(mounts, explicit, i) # {}
    PROVE  NearestAccess(mounts, explicit, i) \in MountAccess
<1> DEFINE above == Ancestors(mounts, explicit, i)
           len(j) == Len(mounts[j].prefix)
           Nearest(j) == \A k \in above : len(k) < len(j) \/ (len(k) = len(j) /\ j <= k)
<1>1. \A j \in DOMAIN mounts : len(j) \in Nat /\ j \in Nat BY TableFacts
<1>2. above \subseteq DOMAIN mounts /\ \A j \in above : len(j) < len(i) /\ explicit[j] # None
  BY DEF Ancestors, StrictlyBelow
<1>3. PICK d \in {len(i) - len(j) : j \in above} : \A e \in {len(i) - len(j) : j \in above} : d <= e
  <2>c. \A j \in above : len(i) \in Nat /\ len(j) \in Nat /\ len(j) < len(i) BY <1>1, <1>2
  <2>d. ASSUME NEW x \in Nat, NEW y \in Nat, y < x PROVE x - y \in Nat BY <2>d
  <2>1. {len(i) - len(j) : j \in above} \subseteq Nat
    <3> HIDE DEF len, above
    <3> QED BY <2>c, <2>d
  <2>a. PICK j0 \in above : TRUE OBVIOUS
  <2>b. len(i) - len(j0) \in {len(i) - len(j) : j \in above} OBVIOUS
  <2>2. {len(i) - len(j) : j \in above} # {} BY <2>b
  <2> HIDE DEF above, len
  <2> QED BY <2>1, <2>2, LeastNat
<1>4. PICK n \in {j \in above : len(i) - len(j) = d} : \A m \in {j \in above : len(i) - len(j) = d} : n <= m
  <2>1. {j \in above : len(i) - len(j) = d} \subseteq Nat BY <1>1, <1>2
  <2>2. {j \in above : len(i) - len(j) = d} # {} BY <1>3
  <2> HIDE DEF above, len
  <2> QED BY <2>1, <2>2, LeastNat
<1>5. n \in above /\ Nearest(n)
  <2> SUFFICES ASSUME NEW k \in above PROVE len(k) < len(n) \/ (len(k) = len(n) /\ n <= k)
    BY <1>4
  <2>1. len(i) - len(n) = d /\ d <= len(i) - len(k) BY <1>3, <1>4
  <2>2. len(k) \in Nat /\ len(n) \in Nat /\ len(i) \in Nat BY <1>1, <1>2, <1>4
  <2>3. len(k) <= len(n)
    <3> HIDE DEF len
    <3> QED BY <2>1, <2>2
  <2>4. len(k) = len(n) => n <= k
    <3> SUFFICES ASSUME len(k) = len(n) PROVE n <= k OBVIOUS
    <3>1. len(i) - len(k) = d BY <2>1
    <3>2. k \in {j \in above : len(i) - len(j) = d} BY <3>1
    <3> QED BY <1>4, <3>2
  <2> HIDE DEF len
  <2> QED BY <2>2, <2>3, <2>4
<1>6. (CHOOSE j \in above : Nearest(j)) \in above BY <1>5
<1>7. NearestAccess(mounts, explicit, i) = explicit[CHOOSE j \in above : Nearest(j)]
  BY DEF NearestAccess
<1> QED BY <1>2, <1>6, <1>7 DEF Claimed

\* What the manifest keeps grants no more than the parent's mount did.
LEMMA KeptAtMost ==
    ASSUME NEW S, NEW mounts, Table(mounts, S), NEW explicit, Claimed(mounts, explicit),
           NEW i \in DOMAIN mounts, Kept(mounts, explicit, i) # None
    PROVE  AtMost(Kept(mounts, explicit, i), mounts[i].access)
<1>1. mounts[i].access \in MountAccess BY TableFacts
<1>2. CASE explicit[i] # None BY <1>2 DEF Kept, Claimed
<1>3. CASE explicit[i] = None
  <2>1. \E c : Kept(mounts, explicit, i) = RestrictAccess(mounts[i].access, c)
    BY <1>3 DEF Kept
  <2> QED BY <1>1, <2>1 DEF AtMost, RestrictAccess, MountAccess
<1> QED BY <1>2, <1>3

\* restrict_to_mounts never uncovers: at every path the mounts that survive an
\* accepted manifest and resolve the path are among those that resolve it in
\* the parent, each with at most the access it had there.
THEOREM RestrictionNarrows ==
    ASSUME NEW S, NEW mounts, Table(mounts, S), NEW explicit, Claimed(mounts, explicit),
           ~Unsafe(mounts, explicit), NEW path \in Seq(S)
    PROVE  LET kept == Restricted(mounts, explicit) IN
           \A i \in KeptCandidates(mounts, kept, path) :
               i \in Candidates(mounts, path) /\ AtMost(kept[i], mounts[i].access)
<1> DEFINE kept == Restricted(mounts, explicit)
<1> SUFFICES ASSUME NEW i \in KeptCandidates(mounts, kept, path)
             PROVE  i \in Candidates(mounts, path) /\ AtMost(kept[i], mounts[i].access)
  OBVIOUS
<1>0. \A j \in DOMAIN mounts : mounts[j].prefix \in Seq(S) /\ Len(mounts[j].prefix) \in Nat
  BY TableFacts
<1>1. i \in DOMAIN mounts /\ Below(mounts[i].prefix, path) /\ Kept(mounts, explicit, i) # None
  BY DEF KeptCandidates, Matches, Restricted
<1>2. AtMost(kept[i], mounts[i].access) BY <1>1, KeptAtMost DEF Restricted
<1>3. ASSUME NEW j \in Matches(mounts, path), Len(mounts[i].prefix) < Len(mounts[j].prefix)
      PROVE  FALSE
  <2>1. j \in DOMAIN mounts /\ Below(mounts[j].prefix, path) BY DEF Matches
  <2>2. Kept(mounts, explicit, j) = None
    <3>1. kept[j] # None => Len(mounts[j].prefix) <= Len(mounts[i].prefix) BY DEF KeptCandidates
    <3>2. kept[j] = None BY <1>0, <1>1, <1>3, <2>1, <3>1
    <3> QED BY <2>1, <3>2 DEF Restricted
  <2>3. StrictlyBelow(mounts[i].prefix, mounts[j].prefix)
    BY <1>0, <1>1, <1>3, <2>1, BelowChain
  <2>4. Ancestors(mounts, explicit, j) # {}
    <3>1. CASE explicit[i] # None BY <1>1, <2>3, <3>1 DEF Ancestors
    <3>2. CASE explicit[i] = None
      <4>1. Ancestors(mounts, explicit, i) # {} BY <1>1, <3>2 DEF Kept, NearestAccess
      <4>2. PICK k \in DOMAIN mounts : explicit[k] # None /\ StrictlyBelow(mounts[k].prefix, mounts[i].prefix)
        BY <4>1 DEF Ancestors
      <4>3. StrictlyBelow(mounts[k].prefix, mounts[j].prefix)
        BY <1>0, <1>1, <2>1, <2>3, <4>2, BelowTrans
      <4> QED BY <4>2, <4>3 DEF Ancestors
    <3> QED BY <3>1, <3>2
  <2>5. NearestAccess(mounts, explicit, j) \in MountAccess BY <2>1, <2>4, NearestIsAccess
  <2>6. explicit[j] = None BY <2>2 DEF Kept
  <2>7. NearestAccess(mounts, explicit, j) # None BY <2>5 DEF MountAccess, None
  <2>8. Restrictive(mounts, j, NearestAccess(mounts, explicit, j))
    BY <2>1, <2>6, <2>7 DEF Unsafe
  <2>9. RestrictAccess(mounts[j].access, NearestAccess(mounts, explicit, j)) # None
    BY DEF RestrictAccess, None
  <2> QED BY <2>2, <2>6, <2>7, <2>8, <2>9 DEF Kept
<1>4. i \in Matches(mounts, path) BY DEF KeptCandidates
<1>5. \A j \in Matches(mounts, path) : Len(mounts[j].prefix) <= Len(mounts[i].prefix)
  <2> SUFFICES ASSUME NEW j \in Matches(mounts, path) PROVE Len(mounts[j].prefix) <= Len(mounts[i].prefix)
    OBVIOUS
  <2>1. j \in DOMAIN mounts BY DEF Matches
  <2> QED BY <1>0, <1>1, <1>3, <2>1
<1> QED BY <1>2, <1>4, <1>5 DEF Candidates
=============================================================================
