--------------------------- MODULE SampleValidity ---------------------------
(***************************************************************************)
(* is_valid(), the verdict both data reader listeners compute from the     *)
(* counts they received (counts_, an ordered std::set<CORBA::Long>) and    *)
(* valid_: the loop walks the set beside the counts it expects.            *)
(***************************************************************************)
EXTENDS Integers, FiniteSets

CONSTANTS
  NumMessages,   \* num_messages, the counts expected are below it (40)
  Below,         \* bound: a count received is at least -Below
  Highest        \* bound: a count received is at most Highest

ASSUME ValidityAssumption ==
  NumMessages \in Nat \ {0} /\ Below \in Nat /\ Highest \in Nat

(* The counts of the samples a participant of the domain may publish. *)
Received == (-Below) .. Highest

VARIABLES
  counts, valid, reliable,  \* the listener's counts_, valid_ and reliable_
  expected,                 \* the count expected next
  left,                     \* the counts from the iterator on
  valid_count,
  verdict                   \* "none" until is_valid() returns

listener == << counts, valid, reliable >>
vars == << listener, expected, left, valid_count, verdict >>

Init ==
  /\ counts \in SUBSET Received
  /\ valid \in BOOLEAN /\ reliable \in BOOLEAN
  /\ expected = 0 /\ left = counts /\ valid_count = TRUE
  /\ verdict = "none"

(* *count: the smallest count from the iterator on. *)
Count == CHOOSE c \in left : \A d \in left : c <= d

InLoop == verdict = "none" /\ left # {} /\ expected < NumMessages

(* A gap, over a reliable transport: go on from the count received. *)
SkipMissing ==
  /\ InLoop /\ expected < Count /\ reliable
  /\ expected' = Count
  /\ valid_count' = FALSE
  /\ UNCHANGED << listener, left, verdict >>

(* Faulty variant: the iterator is not advanced. *)
SkipNegativeNot ==
  /\ InLoop /\ expected > Count
  /\ valid_count' = FALSE
  /\ UNCHANGED << listener, expected, left, verdict >>

(* Counts below the expected one: the inner loop skips them all. *)
SkipNegative ==
  /\ InLoop /\ expected > Count
  /\ left' = {c \in left : c >= expected}
  /\ valid_count' = FALSE
  /\ UNCHANGED << listener, expected, verdict >>

(* The expected count, or a gap over an unreliable transport. *)
Match ==
  /\ InLoop
  /\ expected = Count \/ (expected < Count /\ ~reliable)
  /\ expected' = expected + 1
  /\ left' = left \ {Count}
  /\ UNCHANGED << listener, valid_count, verdict >>

(* Not every message (reliable), or not even a quarter of them. *)
TooFew ==
  /\ Cardinality(counts) < NumMessages
  /\ reliable \/ 4 * Cardinality(counts) < NumMessages

Loop == SkipMissing \/ SkipNegative \/ Match

(* Faulty variant: what is left over is not looked at. *)
ReturnLenient ==
  /\ verdict = "none" /\ ~InLoop
  /\ verdict' = IF valid /\ valid_count /\ ~TooFew THEN "valid" ELSE "invalid"
  /\ UNCHANGED << listener, expected, left, valid_count >>

Return ==
  /\ verdict = "none" /\ ~InLoop
  /\ verdict' = IF valid /\ valid_count /\ left = {} /\ ~TooFew THEN "valid" ELSE "invalid"
  /\ UNCHANGED << listener, expected, left, valid_count >>

Next == Loop \/ Return

Spec     == Init /\ [][Next]_vars
FairSpec == Spec /\ WF_vars(Next)

-----------------------------------------------------------------------------
Expected == 0 .. NumMessages - 1

(***************************************************************************)
(* What the loop of is_valid() accepts.  Over a reliable transport:        *)
(* exactly the counts 0 .. NumMessages-1.  Otherwise: no negative count,   *)
(* no more counts than messages expected, and at least a quarter as many.  *)
(***************************************************************************)
Acceptable ==
  IF reliable
  THEN counts = Expected
  ELSE /\ counts \subseteq Nat
       /\ Cardinality(counts) <= NumMessages
       /\ 4 * Cardinality(counts) >= NumMessages

VerdictExact == verdict # "none" => (verdict = "valid" <=> valid /\ Acceptable)

(***************************************************************************)
(* The walk ends: every turn consumes a count or raises the expected one   *)
(* to a count that the next turn consumes.                                 *)
(***************************************************************************)
Terminates == <>(verdict # "none")

(***************************************************************************)
(* The comment of DataReaderListener.cpp:280 and the message printed three *)
(* lines above it: an error is reported when not even a quarter of the     *)
(* messages was received, or a count is higher than the expected values.   *)
(***************************************************************************)
QuarterReceived ==
  verdict = "valid" => /\ 4 * Cardinality(counts \cap Expected) >= NumMessages
                       /\ counts \subseteq Expected
=============================================================================
