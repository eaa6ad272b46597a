------------------------ MODULE SampleValidityProofs ------------------------
(***************************************************************************)
(* The verdict of is_valid(), for every number of messages and every set   *)
(* of counts.                                                              *)
(***************************************************************************)
EXTENDS SampleValidity, FiniteSetTheorems, WellFoundedInduction, TLAPS

(* A set of counts that is not empty has a smallest one. *)
LEMMA SmallestExists ==
  ASSUME NEW S \in SUBSET Received, S # {}
  PROVE  \E c \in S : \A d \in S : c <= d
PROOF
  <1> DEFINE T == {n \in Nat : n - Below \in S}
  <1>1. Below \in Nat /\ S \subseteq Int /\ \A c \in S : c + Below \in Nat
    BY ValidityAssumption DEF Received
  <1>2. \A c \in S : c + Below \in T
    BY <1>1
  <1>3. T \subseteq Nat /\ T # {}
    BY <1>2
  <1> DEFINE R == {p \in Nat \X Nat : p[1] < p[2]}
  <1>4. IsWellFoundedOn(R, Nat)
    BY NatLessThanWellFounded DEF OpToRel
  <1> HIDE DEF T, R
  <1>5. PICK n \in T : \A m \in T : ~(<< m, n >> \in R)
    BY <1>3, <1>4, WFMin
  <1>6. ASSUME NEW m \in T PROVE n <= m
    <2>1. m \in Nat /\ n \in Nat
      BY <1>3
    <2>2. m < n => << m, n >> \in R
      BY <2>1 DEF R
    <2> QED
      BY <1>5, <2>1, <2>2
  <1>7. n - Below \in S /\ \A d \in S : n - Below <= d
    BY <1>1, <1>2, <1>3, <1>6 DEF T
  <1> QED
    BY <1>7

(* *count while the walk goes on. *)
LEMMA CountIsSmallest ==
  ASSUME left \in SUBSET Received, left # {}
  PROVE  Count \in left /\ Count \in Int /\ \A d \in left : Count <= d
PROOF
  <1>1. \E c \in left : \A d \in left : c <= d
    BY SmallestExists
  <1>2. Count \in left /\ \A d \in left : Count <= d
    BY <1>1 DEF Count
  <1> QED
    BY <1>2, ValidityAssumption DEF Received

-----------------------------------------------------------------------------
(***************************************************************************)
(* What the walk knows.  As long as valid_count holds, the counts it is    *)
(* past are the expected ones (reliable), or as many naturals as were      *)
(* expected, and the ones ahead are not below the expected one.  When      *)
(* valid_count is lost, a count is missing or negative.                    *)
(***************************************************************************)
Passed == counts \ left

TypeInv ==
  /\ counts \in SUBSET Received /\ left \in SUBSET counts
  /\ valid \in BOOLEAN /\ reliable \in BOOLEAN /\ valid_count \in BOOLEAN
  /\ expected \in Nat

WalkInv ==
  /\ valid_count /\ reliable => Passed = 0 .. expected - 1 /\ expected <= NumMessages
  /\ valid_count /\ ~reliable => /\ Passed \subseteq Nat /\ Cardinality(Passed) = expected
                                 /\ expected <= NumMessages
                                 /\ expected # 0 => \A c \in left : c >= expected
  /\ ~valid_count => counts # Expected /\ (~reliable => ~(counts \subseteq Nat))

LEMMA Sets ==
  ASSUME TypeInv
  PROVE  /\ NumMessages \in Nat \ {0} /\ counts \subseteq Int
         /\ IsFiniteSet(counts) /\ IsFiniteSet(left) /\ IsFiniteSet(Passed)
         /\ Cardinality(counts) \in Nat /\ Cardinality(Passed) \in Nat
         /\ Cardinality(Expected) = NumMessages /\ IsFiniteSet(Expected)
         /\ left # {} => Count \in left /\ Count \in Int /\ \A d \in left : Count <= d
PROOF
  <1>1. NumMessages \in Nat \ {0} /\ Below \in Nat /\ Highest \in Nat
    BY ValidityAssumption
  <1>2. counts \in SUBSET Received /\ left \in SUBSET counts /\ Passed \in SUBSET counts
    BY DEF TypeInv, Passed
  <1>3. IsFiniteSet(Received)
    <2>1. -Below \in Int /\ Highest \in Int
      BY <1>1
    <2> QED
      BY <2>1, FS_Interval DEF Received
  <1>4. IsFiniteSet(counts)
    BY <1>2, <1>3, FS_Subset
  <1>5. IsFiniteSet(left) /\ IsFiniteSet(Passed)
    BY <1>2, <1>4, FS_Subset
  <1>6. Cardinality(counts) \in Nat /\ Cardinality(Passed) \in Nat
    BY <1>4, <1>5, FS_CardinalityType
  <1>7. Cardinality(Expected) = NumMessages /\ IsFiniteSet(Expected)
    <2>1. 0 \in Int /\ NumMessages - 1 \in Int /\ ~(0 > NumMessages - 1)
      BY <1>1
    <2>2. /\ IsFiniteSet(0 .. NumMessages - 1)
          /\ Cardinality(0 .. NumMessages - 1) = NumMessages - 1 - 0 + 1
      BY <2>1, FS_Interval
    <2> QED
      BY <1>1, <2>2 DEF Expected
  <1>8. counts \subseteq Int
    BY <1>1, <1>2 DEF Received
  <1>9. left # {} => Count \in left /\ Count \in Int /\ \A d \in left : Count <= d
    <2>1. left \in SUBSET Received
      BY <1>2
    <2> QED
      BY <2>1, CountIsSmallest
  <1> QED
    BY <1>1, <1>4, <1>5, <1>6, <1>7, <1>8, <1>9

LEMMA WalkInit == Init => TypeInv /\ WalkInv
PROOF
  <1> SUFFICES ASSUME Init PROVE TypeInv /\ WalkInv
    OBVIOUS
  <1>1. TypeInv
    BY DEF Init, TypeInv
  <1>2. Passed = {} /\ expected = 0 /\ valid_count
    BY DEF Init, Passed
  <1>3. Cardinality(Passed) = 0 /\ 0 .. expected - 1 = {}
    BY <1>2, FS_EmptySet
  <1>4. WalkInv
    BY <1>2, <1>3, ValidityAssumption DEF WalkInv
  <1> QED
    BY <1>1, <1>4

LEMMA WalkStep == TypeInv /\ WalkInv /\ [Next]_vars => TypeInv' /\ WalkInv'
PROOF
  <1> SUFFICES ASSUME TypeInv, WalkInv, [Next]_vars PROVE TypeInv' /\ WalkInv'
    OBVIOUS
  <1> USE Sets
  <1>1. CASE SkipMissing
    <2>1. /\ left # {} /\ expected < Count /\ reliable /\ expected < NumMessages
          /\ expected' = Count /\ valid_count' = FALSE
          /\ UNCHANGED << counts, valid, reliable, left >>
      BY <1>1 DEF SkipMissing, InLoop, listener
    <2>2. Count \in Nat
      BY <2>1 DEF TypeInv
    <2>3. TypeInv'
      BY <2>1, <2>2 DEF TypeInv
    <2>4. valid_count => counts # Expected
      <3>1. expected \in Expected
        BY <2>1 DEF TypeInv, Expected
      <3>2. expected \notin left
        BY <2>1 DEF TypeInv
      <3>3. valid_count => expected \notin Passed
        BY <2>1 DEF WalkInv, TypeInv
      <3> QED
        BY <3>1, <3>2, <3>3 DEF Passed
    <2>5. WalkInv'
      BY <2>1, <2>4 DEF WalkInv, Expected
    <2> QED
      BY <2>3, <2>5
  <1>2. CASE SkipNegative
    <2>1. /\ left # {} /\ expected > Count /\ valid_count' = FALSE
          /\ left' = {c \in left : c >= expected}
          /\ UNCHANGED << counts, valid, reliable, expected >>
      BY <1>2 DEF SkipNegative, InLoop, listener
    <2>2. TypeInv'
      BY <2>1 DEF TypeInv
    <2>3. Count \in counts /\ Count \notin Passed /\ expected \in Nat
      BY <2>1 DEF TypeInv, Passed
    <2>4. valid_count => Count \notin Nat
      BY <2>1, <2>3 DEF WalkInv
    <2>5. valid_count => counts # Expected /\ ~(counts \subseteq Nat)
      BY <2>3, <2>4 DEF Expected
    <2>6. WalkInv'
      BY <2>1, <2>5 DEF WalkInv, Expected
    <2> QED
      BY <2>2, <2>6
  <1>3. CASE Match
    <2>1. /\ left # {} /\ expected < NumMessages
          /\ expected = Count \/ (expected < Count /\ ~reliable)
          /\ expected' = expected + 1 /\ left' = left \ {Count}
          /\ UNCHANGED << counts, valid, reliable, valid_count >>
      BY <1>3 DEF Match, InLoop, listener
    <2>2. TypeInv'
      BY <2>1 DEF TypeInv
    <2>3. Passed' = Passed \cup {Count} /\ Count \notin Passed /\ Count \in Nat
      BY <2>1 DEF TypeInv, Passed
    <2>4. valid_count /\ reliable => Passed' = 0 .. expected' - 1 /\ expected' <= NumMessages
      <3>1. expected \in Nat /\ 0 .. (expected + 1) - 1 = (0 .. expected - 1) \cup {expected}
        BY DEF TypeInv
      <3> QED
        BY <2>1, <2>3, <3>1 DEF WalkInv
    <2>5. valid_count /\ ~reliable =>
            /\ Passed' \subseteq Nat /\ Cardinality(Passed') = expected'
            /\ expected' <= NumMessages
            /\ \A c \in left' : c >= expected'
      <3> SUFFICES ASSUME valid_count, ~reliable
                   PROVE  /\ Passed' \subseteq Nat /\ Cardinality(Passed') = expected'
                          /\ expected' <= NumMessages
                          /\ \A c \in left' : c >= expected'
        OBVIOUS
      <3>1. Cardinality(Passed \cup {Count}) = Cardinality(Passed) + 1
        BY <2>3, FS_AddElement
      <3>2. Passed \subseteq Nat /\ Cardinality(Passed) = expected
        BY DEF WalkInv
      <3>3. \A c \in left' : c > Count /\ c \in Int
        BY <2>1 DEF TypeInv
      <3>4. \A c \in left' : c >= expected'
        BY <2>1, <3>3 DEF TypeInv
      <3> QED
        BY <2>1, <2>3, <3>1, <3>2, <3>4 DEF TypeInv
    <2>6. WalkInv'
      BY <2>1, <2>4, <2>5 DEF WalkInv, Expected
    <2> QED
      BY <2>2, <2>6
  <1>4. CASE Return \/ UNCHANGED vars
    <2>1. UNCHANGED << counts, valid, reliable, expected, left, valid_count >>
      BY <1>4 DEF Return, vars, listener
    <2> QED
      BY <2>1 DEF TypeInv, WalkInv, Passed, Expected
  <1> QED
    BY <1>1, <1>2, <1>3, <1>4 DEF Next, Loop

-----------------------------------------------------------------------------
(* What Return finds out is what Acceptable says. *)
LEMMA ReturnExact ==
  ASSUME TypeInv, WalkInv, left = {} \/ expected >= NumMessages
  PROVE  (valid_count /\ left = {} /\ ~TooFew) <=> Acceptable
PROOF
  <1> USE Sets
  <1>1. ASSUME reliable PROVE (valid_count /\ left = {} /\ ~TooFew) <=> Acceptable
    <2>1. ASSUME valid_count, left = {}, ~TooFew PROVE counts = Expected
      <3>1. Passed = counts /\ Passed = 0 .. expected - 1 /\ expected <= NumMessages
            /\ expected \in Nat
        BY <1>1, <2>1 DEF WalkInv, Passed, TypeInv
      <3>2. Cardinality(counts) >= NumMessages
        BY <1>1, <2>1 DEF TooFew
      <3>3. counts \in SUBSET Expected
        BY <3>1 DEF Expected
      <3>4. Cardinality(counts) <= Cardinality(Expected)
            /\ (Cardinality(Expected) = Cardinality(counts) => Expected = counts)
        BY <3>3, FS_Subset
      <3> QED
        BY <3>2, <3>4
    <2>2. ASSUME counts = Expected PROVE valid_count /\ left = {} /\ ~TooFew
      <3>1. valid_count /\ Passed = 0 .. expected - 1 /\ expected \in Nat
        BY <1>1, <2>2 DEF WalkInv, TypeInv
      <3>2. left = {}
        <4>1. CASE expected >= NumMessages
          <5>1. Expected \subseteq Passed
            BY <3>1, <4>1 DEF Expected
          <5> QED
            BY <2>2, <5>1 DEF Passed, TypeInv
        <4> QED
          BY <4>1
      <3> QED
        BY <2>2, <3>1, <3>2 DEF TooFew
    <2> QED
      BY <1>1, <2>1, <2>2 DEF Acceptable
  <1>2. ASSUME ~reliable PROVE (valid_count /\ left = {} /\ ~TooFew) <=> Acceptable
    <2>1. ASSUME valid_count, left = {}, ~TooFew
          PROVE  /\ counts \subseteq Nat /\ Cardinality(counts) <= NumMessages
                 /\ 4 * Cardinality(counts) >= NumMessages
      <3>1. Passed = counts
        BY <2>1 DEF Passed
      <3>2. counts \subseteq Nat /\ Cardinality(counts) <= NumMessages
        BY <1>2, <2>1, <3>1 DEF WalkInv
      <3> QED
        BY <1>2, <2>1, <3>2 DEF TooFew
    <2>2. ASSUME counts \subseteq Nat, Cardinality(counts) <= NumMessages,
                 4 * Cardinality(counts) >= NumMessages
          PROVE  valid_count /\ left = {} /\ ~TooFew
      <3>1. valid_count
        BY <1>2, <2>2 DEF WalkInv, TypeInv
      <3>2. left = {}
        <4>1. CASE expected >= NumMessages
          <5>1. Cardinality(Passed) >= NumMessages /\ Passed \in SUBSET counts
            BY <1>2, <3>1, <4>1 DEF WalkInv, Passed
          <5>2. Cardinality(Passed) <= Cardinality(counts)
                /\ (Cardinality(counts) = Cardinality(Passed) => counts = Passed)
            BY <5>1, FS_Subset
          <5>3. counts = Passed
            BY <2>2, <5>1, <5>2
          <5> QED
            BY <5>3 DEF Passed, TypeInv
        <4> QED
          BY <4>1
      <3> QED
        BY <1>2, <2>2, <3>1, <3>2 DEF TooFew
    <2> QED
      BY <1>2, <2>1, <2>2 DEF Acceptable
  <1> QED
    BY <1>1, <1>2

(***************************************************************************)
(* is_valid() accepts, over a reliable transport, exactly the counts       *)
(* 0 .. num_messages - 1, and otherwise what Acceptable says: for every    *)
(* num_messages, the 40 of both listeners among them.                      *)
(***************************************************************************)
THEOREM ExactCorrect == Spec => []VerdictExact
PROOF
  <1>1. Init => VerdictExact
    BY DEF Init, VerdictExact
  <1>2. TypeInv /\ WalkInv /\ VerdictExact /\ [Next]_vars => VerdictExact'
    <2> SUFFICES ASSUME TypeInv, WalkInv, VerdictExact, [Next]_vars PROVE VerdictExact'
      OBVIOUS
    <2>1. CASE Loop
      <3>1. verdict = "none" /\ verdict' = verdict
        BY <2>1 DEF Loop, SkipMissing, SkipNegative, Match, InLoop
      <3> QED
        BY <3>1 DEF VerdictExact
    <2>2. CASE Return
      <3>1. left = {} \/ expected >= NumMessages
        BY <2>2, ValidityAssumption DEF Return, InLoop, TypeInv
      <3>2. (valid_count /\ left = {} /\ ~TooFew) <=> Acceptable
        BY <3>1, ReturnExact
      <3>3. /\ verdict' = "valid" <=> valid /\ valid_count /\ left = {} /\ ~TooFew
            /\ UNCHANGED << counts, valid, reliable >>
        BY <2>2 DEF Return, listener
      <3>4. Acceptable' <=> Acceptable
        BY <3>3 DEF Acceptable, Expected
      <3>5. verdict' = "valid" <=> valid /\ Acceptable
        BY <3>2, <3>3
      <3> QED
        BY <3>3, <3>4, <3>5 DEF VerdictExact
    <2>3. CASE UNCHANGED vars
      BY <2>3 DEF vars, listener, VerdictExact, Acceptable, Expected
    <2> QED
      BY <2>1, <2>2, <2>3 DEF Next
  <1> QED
    BY <1>1, <1>2, WalkInit, WalkStep, PTL DEF Spec
=============================================================================
