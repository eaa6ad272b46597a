------------------------- MODULE ProcessMainProofs -------------------------
(***************************************************************************)
(* Proofs about the main threads of ProcessMain, for any number of         *)
(* publishers and either setting of -w.                                    *)
(***************************************************************************)
EXTENDS ProcessMain, TLAPS

(***************************************************************************)
(* Where the deletion stands in the life of the two threads: the number    *)
(* main polls says how far svc() is, and main is past the join only when   *)
(* the thread has exited.                                                  *)
(***************************************************************************)
ReleaseInv ==
  /\ svc = "running" <=> finished_instances_ = 0
  /\ main \notin {"poll", "join"} => svc = "exited"
  /\ main \in {"poll", "join", "acks", "delete"} => ~deleted

LEMMA ReleaseInit == Init => ReleaseInv
  BY DEF Init, ReleaseInv

LEMMA ReleaseStep == TypeOK /\ ReleaseInv /\ [Next]_vars => ReleaseInv'
<1> SUFFICES ASSUME TypeOK, ReleaseInv, [Next]_vars PROVE ReleaseInv'
  OBVIOUS
<1> USE DEF ReleaseInv, TypeOK, num_instances_per_writer
<1>1. CASE SvcFinishes
  BY <1>1 DEF SvcFinishes
<1>2. CASE SvcExits
  BY <1>2 DEF SvcExits
<1>3. CASE Poll
  BY <1>3 DEF Poll, writer
<1>4. CASE Join
  BY <1>4 DEF Join, writer
<1>5. CASE Acks
  BY <1>5 DEF Acks, writer
<1>6. CASE Delete
  BY <1>6 DEF Delete, writer
<1>7. CASE Status \/ Wait \/ Fail
  BY <1>7 DEF Status, Wait, Fail, writer
<1>8. CASE PublisherMatches \/ PublisherLeaves \/ AcksArrive
  BY <1>8 DEF PublisherMatches, PublisherLeaves, AcksArrive, writer
<1>9. CASE UNCHANGED vars
  BY <1>9 DEF vars, writer
<1> QED
  BY <1>1, <1>2, <1>3, <1>4, <1>5, <1>6, <1>7, <1>8, <1>9 DEF Next, MainStep

-----------------------------------------------------------------------------
(* Every variable stays in its type; the counter needs ReleaseInv, as      *)
(* SvcFinishes adds one to it.                                             *)
LEMMA TypeInit == Init => TypeOK
<1> SUFFICES ASSUME Init PROVE TypeOK
  OBVIOUS
<1>1. deleted \in BOOLEAN /\ changed \in BOOLEAN /\ acked \in BOOLEAN
  BY Zenon DEF Init
<1>2. /\ finished_instances_ \in 0 .. num_instances_per_writer
      /\ matches \in 0 .. MaxPublishers
      /\ total \in 0 .. MaxPublishers /\ current \in 0 .. total
  BY MainAssumption DEF Init, MainAssumption, num_instances_per_writer
<1> QED
  BY <1>1, <1>2 DEF Init, TypeOK

LEMMA TypeStep == TypeOK /\ ReleaseInv /\ [Next]_vars => TypeOK'
<1> SUFFICES ASSUME TypeOK, ReleaseInv, [Next]_vars PROVE TypeOK'
  OBVIOUS
<1> USE MainAssumption DEF MainAssumption, TypeOK, num_instances_per_writer
<1>1. CASE SvcFinishes
  BY <1>1 DEF SvcFinishes, ReleaseInv, middleware
<1>2. CASE SvcExits
  BY <1>2 DEF SvcExits, middleware
<1>3. CASE Poll \/ Join \/ Acks \/ Delete
  BY <1>3 DEF Poll, Join, Acks, Delete, writer, middleware
<1>4. CASE Status
  <2>1. changed' \in BOOLEAN
    BY <1>4, Zenon DEF Status
  <2>2. matches' \in 0 .. MaxPublishers
    BY <1>4 DEF Status
  <2> QED
    BY <1>4, <2>1, <2>2 DEF Status, writer
<1>5. CASE Wait \/ Fail
  BY <1>5 DEF Wait, Fail, writer, middleware
<1>6. CASE PublisherMatches
  BY <1>6 DEF PublisherMatches, writer
<1>7. CASE PublisherLeaves
  BY <1>7 DEF PublisherLeaves, writer
<1>8. CASE AcksArrive
  BY <1>8 DEF AcksArrive, writer
<1>9. CASE UNCHANGED vars
  BY <1>9 DEF vars, writer, middleware
<1> QED
  BY <1>1, <1>2, <1>3, <1>4, <1>5, <1>6, <1>7, <1>8, <1>9 DEF Next, MainStep

(* The type invariant of the main threads, with what it rests on. *)
THEOREM MainTypeCorrect == Spec => [](TypeOK /\ ReleaseInv)
<1>1. Init => TypeOK /\ ReleaseInv
  BY TypeInit, ReleaseInit
<1>2. TypeOK /\ ReleaseInv /\ [Next]_vars => (TypeOK /\ ReleaseInv)'
  BY TypeStep, ReleaseStep
<1> QED
  BY <1>1, <1>2, PTL DEF Spec

(***************************************************************************)
(* DDS_Server.cpp:259 and DDS_Client.cpp:258 delete the writer only when   *)
(* its thread has left svc() for good, although is_finished() is true      *)
(* before that.                                                            *)
(***************************************************************************)
THEOREM UseCorrect == Spec => []NoUseAfterDelete
<1>1. TypeOK /\ ReleaseInv => NoUseAfterDelete
  BY DEF TypeOK, ReleaseInv, NoUseAfterDelete
<1> QED
  BY <1>1, MainTypeCorrect, PTL

(***************************************************************************)
(* The loop at the end of main reads the matched status before it waits,   *)
(* and a change in between ends the wait at once.                          *)
(***************************************************************************)
THEOREM ChangeCorrect == Spec => []NoMissedChange
<1>1. Init => NoMissedChange
  BY DEF Init, NoMissedChange
<1>2. NoMissedChange /\ [Next]_vars => NoMissedChange'
  <2> SUFFICES ASSUME NoMissedChange, [Next]_vars PROVE NoMissedChange'
    OBVIOUS
  <2> USE DEF NoMissedChange
  <2>1. CASE SvcFinishes \/ SvcExits
    BY <2>1 DEF SvcFinishes, SvcExits, middleware
  <2>2. CASE Poll \/ Join \/ Acks \/ Delete \/ Wait \/ Fail
    BY <2>2 DEF Poll, Join, Acks, Delete, Wait, Fail, middleware
  <2>3. CASE Status
    BY <2>3 DEF Status
  <2>4. CASE PublisherMatches \/ PublisherLeaves \/ AcksArrive
    BY <2>4 DEF PublisherMatches, PublisherLeaves, AcksArrive
  <2>5. CASE UNCHANGED vars
    BY <2>5 DEF vars, middleware
  <2> QED
    BY <2>1, <2>2, <2>3, <2>4, <2>5 DEF Next, MainStep
<1> QED
  BY <1>1, <1>2, PTL DEF Spec
=============================================================================
