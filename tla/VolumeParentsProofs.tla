------------------------ MODULE VolumeParentsProofs ------------------------
(* Proofs about dict(volumes_children), the first step of               *)
(* _build_volume_chain, for every list of volumes.                       *)
EXTENDS VolumeParents, FiniteSetTheorems, TLAPS

(* _build_volume_chain raises DuplicateParentError when                 *)
(* len(dict(volumes_children)) < len(volumes_children).  That test is   *)
(* exact: it holds if and only if two of the image's volumes name the    *)
(* same parent, for every list of volumes of any length.  So a          *)
(* DuplicateParentError is never raised wrongly and never missed, and   *)
(* every later step of the builder works on a dict that lost no pair.   *)
THEOREM DuplicateTestExact ==
    ASSUME NEW S, NEW vc \in Seq(S)
    PROVE  Cardinality(DOMAIN ByParents(vc)) < Len(vc)
           <=> \E i, j \in DOMAIN vc : i # j /\ vc[i][1] = vc[j][1]
<1> DEFINE n == Len(vc)
           P == {vc[i][1] : i \in 1..n}
           f == [i \in 1..n |-> vc[i][1]]
<1>1. n \in Nat /\ DOMAIN vc = 1..n
  OBVIOUS
<1>2. DOMAIN ByParents(vc) = P
  BY <1>1 DEF ByParents
<1>3. f \in Surjection(1..n, P)
  BY DEF Surjection
<1>4. IsFiniteSet(1..n) /\ Cardinality(1..n) = n
  BY <1>1, FS_Interval
<1>5. /\ IsFiniteSet(P)
      /\ Cardinality(P) <= n
      /\ Cardinality(P) = n <=> f \in Injection(1..n, P)
  BY <1>3, <1>4, FS_Surjection
<1>6. Cardinality(P) \in Nat
  BY <1>5, FS_CardinalityType
<1>7. f \in Injection(1..n, P) <=> ~\E i, j \in 1..n : i # j /\ vc[i][1] = vc[j][1]
  BY <1>3 DEF Injection, IsInjective, Surjection
<1>8. QED
  BY <1>1, <1>2, <1>5, <1>6, <1>7

(* When no two volumes share a parent (the builder has passed its first  *)
(* test), the dict maps every listed parent to the volume listed with it. *)
THEOREM DistinctParentsDict ==
    ASSUME NEW S, NEW vc \in Seq(S),
           \A i, j \in DOMAIN vc : vc[i][1] = vc[j][1] => i = j
    PROVE  \A i \in DOMAIN vc : ByParents(vc)[vc[i][1]] = vc[i][2]
<1> SUFFICES ASSUME NEW i \in DOMAIN vc PROVE ByParents(vc)[vc[i][1]] = vc[i][2]
  OBVIOUS
<1> DEFINE p == vc[i][1]
           Last(k) == vc[k][1] = p /\ \A j \in DOMAIN vc : vc[j][1] = p => j <= k
<1>1. DOMAIN vc \subseteq Nat
  OBVIOUS
<1>2. Last(i)
  BY <1>1
<1>3. \A k \in DOMAIN vc : Last(k) => k = i
  OBVIOUS
<1>4. (CHOOSE k \in DOMAIN vc : Last(k)) = i
  BY <1>2, <1>3
<1>5. QED
  BY <1>4 DEF ByParents
=============================================================================
