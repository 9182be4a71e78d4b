-------------------------- MODULE RingIndex_proofs --------------------------
(***************************************************************************)
(* Lemmas about the index arithmetic, for rings of any size; the proofs    *)
(* about the queues cite them.                                             *)
(***************************************************************************)
EXTENDS RingIndex, TLAPS

(* nextIndex wraps to 0 at the end of the ring and adds 1 elsewhere. *)
LEMMA NextIndexValue ==
  ASSUME NEW n \in Nat \ {0}, NEW i \in Indices(n)
  PROVE  /\ nextIndex(i, n) = IF i + 1 = n THEN 0 ELSE i + 1
         /\ nextIndex(i, n) \in Indices(n)
BY DEF nextIndex, Indices

(* Two slots with the same successor are the same slot. *)
LEMMA NextIndexInjective ==
  ASSUME NEW n \in Nat \ {0}, NEW i \in Indices(n), NEW j \in Indices(n),
         nextIndex(i, n) = nextIndex(j, n)
  PROVE  i = j
BY NextIndexValue DEF Indices

(* The new size of a resize respects the size limit. *)
LEMMA NewSizeBound ==
  ASSUME NEW n \in Nat, NEW maxSize \in Nat, NEW uintMax \in Nat
  PROVE  getNewQueueSize(n, maxSize, uintMax) \in 0 .. maxSize
BY DEF getNewQueueSize

(* A resize keeps both indices inside the new ring. *)
LEMMA ResizedIndices ==
  ASSUME NEW n \in Nat \ {0}, NEW m \in Nat, n < m,
         NEW r \in Indices(n), NEW w \in Indices(n)
  PROVE  /\ ResizedReadIndex(r, w, n, m) \in Indices(m)
         /\ w \in Indices(m)
BY DEF ResizedReadIndex, Indices

(* The slots of the new ring hold entries, torn or unwritten cells. *)
LEMMA ResizedSlotsType ==
  ASSUME NEW n \in Nat \ {0}, NEW m \in Nat, NEW r, NEW w, NEW unwritten, NEW S,
         unwritten \in S, NEW f \in [Indices(n) -> S]
  PROVE  ResizedSlots(f, r, w, n, m, unwritten) \in [Indices(m) -> S]
<1> DEFINE Copied(j) == {i \in Indices(n) : /\ Populated(i, r, w, m)
                                            /\ MovedIndex(i, w, m - n) = j}
<1>1. ASSUME NEW j \in Indices(m), Copied(j) # {}
      PROVE  f[CHOOSE i \in Copied(j) : TRUE] \in S
  <2>1. (CHOOSE i \in Copied(j) : TRUE) \in Copied(j)
    BY <1>1
  <2>2. (CHOOSE i \in Copied(j) : TRUE) \in Indices(n)
    BY <2>1
  <2> HIDE DEF Copied
  <2> QED BY <2>2
<1> QED BY <1>1 DEF ResizedSlots

-----------------------------------------------------------------------------
(* The published part of the ring, seen as a sequence.                     *)

(* Position 0 is the read index, a position past the last is the write     *)
(* index, and no earlier position is.                                      *)
LEMMA RingPositions ==
  ASSUME NEW n \in Nat \ {0}, NEW r \in Indices(n), NEW w \in Indices(n)
  PROVE  /\ RingCount(r, w, n) \in 0 .. n - 1
         /\ RingCount(r, w, n) = 0 <=> r = w
         /\ \A k \in 0 .. RingCount(r, w, n) - 1 :
              RingAt(r, k, n) \in Indices(n) /\ RingAt(r, k, n) # w
         /\ RingAt(r, 0, n) = r
         /\ RingAt(r, RingCount(r, w, n), n) = w
BY DEF RingCount, RingAt, Indices

(* The full test of the code is the ring holding n - 1 entries. *)
LEMMA RingFull ==
  ASSUME NEW n \in Nat \ {0}, NEW r \in Indices(n), NEW w \in Indices(n)
  PROVE  nextIndex(w, n) = r <=> RingCount(r, w, n) = n - 1
BY NextIndexValue DEF RingCount, Indices

(* Moving the write index adds one position at the end. *)
LEMMA RingAppend ==
  ASSUME NEW n \in Nat \ {0}, NEW r \in Indices(n), NEW w \in Indices(n),
         nextIndex(w, n) # r
  PROVE  RingCount(r, nextIndex(w, n), n) = RingCount(r, w, n) + 1
BY NextIndexValue DEF RingCount, Indices

(* Moving the read index drops position 0. *)
LEMMA RingDrop ==
  ASSUME NEW n \in Nat \ {0}, NEW r \in Indices(n), NEW w \in Indices(n), r # w
  PROVE  /\ RingCount(nextIndex(r, n), w, n) = RingCount(r, w, n) - 1
         /\ \A k \in 0 .. RingCount(r, w, n) - 2 :
              RingAt(nextIndex(r, n), k, n) = RingAt(r, k + 1, n)
<1> DEFINE s == nextIndex(r, n)
<1>1. s = IF r + 1 = n THEN 0 ELSE r + 1
  BY NextIndexValue
<1> HIDE DEF s
<1>2. RingCount(s, w, n) = RingCount(r, w, n) - 1
  BY <1>1 DEF RingCount, Indices
<1>3. ASSUME NEW k \in 0 .. RingCount(r, w, n) - 2
      PROVE  RingAt(s, k, n) = RingAt(r, k + 1, n)
  BY <1>1 DEF RingCount, RingAt, Indices
<1> QED BY <1>2, <1>3 DEF s

(* Different positions are different slots. *)
LEMMA RingDistinct ==
  ASSUME NEW n \in Nat \ {0}, NEW r \in Indices(n),
         NEW j \in Indices(n), NEW k \in Indices(n), j # k
  PROVE  RingAt(r, j, n) # RingAt(r, k, n)
BY DEF RingAt, Indices

(* The loop of resize finds the slot of each position populated, and moves *)
(* it to the same position of the new ring.                                *)
LEMMA RingMoved ==
  ASSUME NEW n \in Nat \ {0}, NEW m \in Nat, n < m,
         NEW r \in Indices(n), NEW w \in Indices(n),
         NEW k \in 0 .. RingCount(r, w, n) - 1
  PROVE  LET i == RingAt(r, k, n)
             j == RingAt(ResizedReadIndex(r, w, n, m), k, m)
         IN  /\ i \in Indices(n) /\ j \in Indices(m)
             /\ MovedIndex(i, w, m - n) = j
             /\ Populated(i, r, w, m)
<1> DEFINE i == RingAt(r, k, n)
           j == RingAt(ResizedReadIndex(r, w, n, m), k, m)
<1>1. i \in Indices(n) /\ j \in Indices(m) /\ MovedIndex(i, w, m - n) = j
  BY DEF RingAt, RingCount, ResizedReadIndex, Indices, MovedIndex
<1>2. Populated(i, r, w, m)
  BY DEF Populated, adjustIndexForComparison, RingAt, RingCount, Indices
<1> QED BY <1>1, <1>2

(* The condition of the loop of resize: a slot is populated when its       *)
(* position is before that of the write index.                             *)
LEMMA PopulatedPosition ==
  ASSUME NEW n \in Nat \ {0}, NEW m \in Nat, n < m,
         NEW r \in Indices(n), NEW w \in Indices(n), NEW i \in Indices(n)
  PROVE  Populated(i, r, w, m) <=> RingCount(r, i, n) < RingCount(r, w, n)
BY DEF Populated, adjustIndexForComparison, RingCount, Indices

(* A resize keeps the number of positions and what is stored at each. *)
LEMMA RingResize ==
  ASSUME NEW n \in Nat \ {0}, NEW m \in Nat, n < m,
         NEW r \in Indices(n), NEW w \in Indices(n), NEW f, NEW u
  PROVE  LET R == ResizedReadIndex(r, w, n, m)
             G == ResizedSlots(f, r, w, n, m, u)
         IN  /\ RingCount(R, w, m) = RingCount(r, w, n)
             /\ \A k \in 0 .. RingCount(r, w, n) - 1 :
                  G[RingAt(R, k, m)] = f[RingAt(r, k, n)]
<1> DEFINE R == ResizedReadIndex(r, w, n, m)
           G == ResizedSlots(f, r, w, n, m, u)
           Copied(j) == {i \in Indices(n) : /\ Populated(i, r, w, m)
                                            /\ MovedIndex(i, w, m - n) = j}
<1>1. RingCount(R, w, m) = RingCount(r, w, n)
  BY DEF RingCount, ResizedReadIndex, Indices
<1>2. ASSUME NEW k \in 0 .. RingCount(r, w, n) - 1
      PROVE  G[RingAt(R, k, m)] = f[RingAt(r, k, n)]
  <2> DEFINE i == RingAt(r, k, n)
             j == RingAt(R, k, m)
  <2>1. i \in Indices(n) /\ j \in Indices(m) /\ MovedIndex(i, w, m - n) = j
    BY RingMoved
  <2>2. Populated(i, r, w, m)
    BY RingMoved
  <2>3. \A h \in Indices(n) : MovedIndex(h, w, m - n) = j /\ Populated(h, r, w, m) => h = i
    BY <2>1, <2>2 DEF MovedIndex, Indices, Populated, adjustIndexForComparison
  <2> HIDE DEF i, j
  <2>4. Copied(j) = {i}
    BY <2>1, <2>2, <2>3
  <2>5. (CHOOSE h \in Copied(j) : TRUE) = i
    BY <2>4
  <2>6. G[j] = IF Copied(j) = {} THEN u ELSE f[CHOOSE h \in Copied(j) : TRUE]
    BY <2>1 DEF ResizedSlots
  <2>7. G[j] = f[i]
    BY <2>4, <2>5, <2>6
  <2> QED BY <2>7 DEF i, j
<1> QED BY <1>1, <1>2
=============================================================================
