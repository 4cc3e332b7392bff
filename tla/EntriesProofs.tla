--------------------------- MODULE EntriesProofs ---------------------------
(***************************************************************************)
(* Facts about Newest and Overlay, the two lookups every read is made of.   *)
(***************************************************************************)
EXTENDS Entries, WellFoundedInduction, TLAPS

\* A non-empty set of naturals has a least element; the library states it for
\* a relation, and this is the relation spelled out.
LEMMA LeastNatural ==
    ASSUME NEW S, S \subseteq Nat, S # {}
    PROVE  \E x \in S : \A y \in S : x <= y
<1> DEFINE R == OpToRel(<, Nat)
<1>1. IsWellFoundedOn(R, Nat)
  BY NatLessThanWellFounded
<1> HIDE DEF R
<1>2. PICK x \in S : \A y \in S : ~ (<<y, x>> \in R)
  BY <1>1, WFMin
<1>3. \A y \in S : ~ (y < x)
  BY <1>2 DEF R, OpToRel
<1> QED
  BY <1>2, <1>3

\* Max is the greatest element of a non-empty set of slots.
LEMMA MaxOfSlots ==
    ASSUME NEW n \in Nat, NEW S, S \subseteq 1..n, S # {}
    PROVE  /\ Max(S) \in S
           /\ \A y \in S : y <= Max(S)
<1> DEFINE T == {n - y : y \in S}
<1>1. T \subseteq Nat /\ T # {}
  OBVIOUS
<1>2. PICK t \in T : \A u \in T : t <= u
  BY <1>1, LeastNatural
<1>3. PICK x \in S : t = n - x
  BY <1>2
<1>4. ASSUME NEW y \in S PROVE x >= y
  <2>1. x \in 1..n /\ y \in 1..n
    OBVIOUS
  <2>2. n - y \in T
    OBVIOUS
  <2>3. n - x <= n - y
    BY <1>2, <1>3, <2>2
  <2> QED
    BY <2>1, <2>3
<1>5. Max(S) = CHOOSE z \in S : \A y \in S : z >= y
  BY DEF Max
<1> QED
  BY <1>3, <1>4, <1>5

\* NoEntry is not the entry of any write, so tables hold entries.
LEMMA NoEntryType == NoEntry \in Entry /\ EmptyTable \in Table
BY DEF NoEntry, Entry, EmptyTable, Table

LEMMA OverlayType ==
    ASSUME NEW t \in Table, NEW base \in Table
    PROVE  Overlay(t, base) \in Table
BY DEF Overlay, Table

LEMMA NewestType ==
    ASSUME NEW n \in Nat, NEW b, \A i \in 1..n : b[i] \in Table, NEW k \in Keys
    PROVE  Newest(b, k, n) \in Entry
<1>1. CASE Holders(b, k, n) = {}
  BY <1>1, NoEntryType DEF Newest
<1>2. CASE Holders(b, k, n) # {}
  <2>1. Holders(b, k, n) \subseteq 1..n
    BY DEF Holders
  <2>2. Max(Holders(b, k, n)) \in 1..n
    BY <1>2, <2>1, MaxOfSlots
  <2>3. b[Max(Holders(b, k, n))][k] \in Entry
    BY <2>2 DEF Table
  <2> QED
    BY <1>2, <2>3 DEF Newest
<1> QED
  BY <1>1, <1>2

\* The scan depends on the blobs it visits only.
LEMMA NewestSame ==
    ASSUME NEW n \in Nat, NEW b, NEW c, NEW k, \A i \in 1..n : b[i] = c[i]
    PROVE  Newest(b, k, n) = Newest(c, k, n)
<1>1. Holders(b, k, n) = Holders(c, k, n)
  BY DEF Holders, Has
<1>2. CASE Holders(b, k, n) # {}
  <2>1. Holders(b, k, n) \subseteq 1..n
    BY DEF Holders
  <2>2. Max(Holders(b, k, n)) \in 1..n
    BY <1>2, <2>1, MaxOfSlots
  <2> QED
    BY <1>1, <1>2, <2>2 DEF Newest
<1> QED
  BY <1>1, <1>2 DEF Newest

\* A first blob that has the key decides; one that lacks it is passed over.
LEMMA NewestHit ==
    ASSUME NEW n \in Nat, n > 0, NEW b, NEW k, Has(b[n], k)
    PROVE  Newest(b, k, n) = b[n][k]
<1> DEFINE S == Holders(b, k, n)
<1>1. n \in S /\ S \subseteq 1..n
  BY DEF Holders
<1>2. Max(S) = n
  <2>1. Max(S) \in S /\ n <= Max(S)
    BY <1>1, MaxOfSlots
  <2> QED
    BY <1>1, <2>1
<1> QED
  BY <1>1, <1>2 DEF Newest

LEMMA NewestMiss ==
    ASSUME NEW n \in Nat, n > 0, NEW b, NEW k, ~Has(b[n], k)
    PROVE  Newest(b, k, n) = Newest(b, k, n - 1)
<1>1. Holders(b, k, n) = Holders(b, k, n - 1)
  BY DEF Holders
<1> QED
  BY <1>1 DEF Newest

LEMMA NewestNext ==
    ASSUME NEW n \in Nat, NEW b, NEW k, ~Has(b[n + 1], k)
    PROVE  Newest(b, k, n + 1) = Newest(b, k, n)
<1>1. Holders(b, k, n + 1) = Holders(b, k, n)
  BY DEF Holders
<1> QED
  BY <1>1 DEF Newest

\* A scan of no blob finds nothing.
LEMMA NewestNone ==
    ASSUME NEW b, NEW k
    PROVE  Newest(b, k, 0) = NoEntry
BY DEF Newest, Holders
=============================================================================
