---------------------------- MODULE ProcessMain ----------------------------
(***************************************************************************)
(* The main thread of DDS_Server and of DDS_Client, from the start of the  *)
(* writer thread on; the two are the same but for the writer's class       *)
(* (RespWriter, Writer).  It polls is_finished(), joins the thread, waits  *)
(* for acknowledgements or a quarter of a second, deletes the writer, and  *)
(* then follows the subscription's matched status.  The middleware reports *)
(* publishers of the subscribed topic that come and go.                    *)
(***************************************************************************)
EXTENDS Naturals

CONSTANTS
  WaitForAcks,    \* the -w option
  UseMms,         \* the -m option; DDS_Client has none
  MaxPublishers   \* bound: publishers that ever match

ASSUME MainAssumption ==
  WaitForAcks \in BOOLEAN /\ UseMms \in BOOLEAN /\ MaxPublishers \in Nat

VARIABLES
  main,      \* "poll", "join", "acks", "delete", "status", "wait", "returned",
             \* "aborted" (by std::terminate)
  svc,       \* the writer thread: "running", "finished" (counted, still in
             \* svc()), "exited"
  finished_instances_,
  deleted,   \* delete writer was executed
  matches,   \* matches.current_count as main read it last
  total,     \* publishers that ever matched
  current,   \* publishers matched now
  changed,   \* the matched status changed since it was read
  acked      \* every sample written was acknowledged

writer     == << svc, finished_instances_ >>
middleware == << total, current, changed, acked >>
vars == << main, writer, deleted, matches, middleware >>

Init ==
  /\ main = "poll" /\ svc = "running" /\ finished_instances_ = 0
  /\ deleted = FALSE /\ matches = 0
  /\ total = 0 /\ current = 0 /\ changed = FALSE /\ acked = FALSE

num_instances_per_writer == 1

(* Faulty variant: one thread more is waited for than was started. *)
is_finishedLate == finished_instances_ > num_instances_per_writer

is_finished == finished_instances_ = num_instances_per_writer

-----------------------------------------------------------------------------
(* The writer thread: its loop ends, or a CORBA exception ends it ... *)
SvcFinishes ==
  /\ svc = "running"
  /\ finished_instances_' = finished_instances_ + 1
  /\ svc' = "finished"
  /\ UNCHANGED << main, deleted, matches, middleware >>

(* Faulty variant: the thread's exit is counted as well. *)
SvcExitsCounted ==
  /\ svc = "finished"
  /\ svc' = "exited"
  /\ finished_instances_' = finished_instances_ + 1
  /\ UNCHANGED << main, deleted, matches, middleware >>

(* ... and only then does the thread return. *)
SvcExits ==
  /\ svc = "finished"
  /\ svc' = "exited"
  /\ UNCHANGED << finished_instances_, main, deleted, matches, middleware >>

-----------------------------------------------------------------------------
(* The polling loop, a quarter of a second a turn. *)
Poll ==
  /\ main = "poll" /\ is_finished
  /\ main' = "join"
  /\ UNCHANGED << writer, deleted, matches, middleware >>

(* Faulty variant: is_finished() is taken for the end of the thread. *)
JoinNot ==
  /\ main = "join"
  /\ main' = "acks"
  /\ UNCHANGED << writer, deleted, matches, middleware >>

(* end(): wait() joins the thread. *)
Join ==
  /\ main = "join" /\ svc = "exited"
  /\ main' = "acks"
  /\ UNCHANGED << writer, deleted, matches, middleware >>

(* wait_for_acknowledgments with no limit, or the short sleep. *)
Acks ==
  /\ main = "acks"
  /\ WaitForAcks => acked
  /\ main' = "delete"
  /\ UNCHANGED << writer, deleted, matches, middleware >>

Delete ==
  /\ main = "delete"
  /\ deleted' = TRUE
  /\ main' = "status"
  /\ UNCHANGED << writer, matches, middleware >>

(* get_subscription_matched_status: read, and reset as changed. *)
Status ==
  /\ main = "status"
  /\ matches' = current
  /\ changed' = FALSE
  /\ main' = "wait"
  /\ UNCHANGED << writer, deleted, total, current, acked >>

(* Faulty variant: the status is read once, before the loop. *)
WaitOnly ==
  /\ main = "wait" /\ changed
  /\ changed' = FALSE
  /\ UNCHANGED << main, writer, deleted, matches, total, current, acked >>

(* ws->wait returns once the status has changed, and the loop goes on. *)
Wait ==
  /\ main = "wait" /\ changed
  /\ main' = "status"
  /\ UNCHANGED << writer, deleted, matches, middleware >>

(***************************************************************************)
(* A CORBA exception, or either call of the loop failed: main returns.     *)
(* IEC61850_thread goes out of scope on the way, started with -m and not   *)
(* joined, and its destructor ends the process.                            *)
(***************************************************************************)
Fail ==
  /\ main \in {"acks", "status", "wait"}
  /\ main' = IF UseMms THEN "aborted" ELSE "returned"
  /\ UNCHANGED << writer, deleted, matches, middleware >>

-----------------------------------------------------------------------------
(* The middleware (external). *)
PublisherMatches ==
  /\ total < MaxPublishers
  /\ total' = total + 1 /\ current' = current + 1 /\ changed' = TRUE
  /\ UNCHANGED << main, writer, deleted, matches, acked >>

PublisherLeaves ==
  /\ current > 0
  /\ current' = current - 1 /\ changed' = TRUE
  /\ UNCHANGED << main, writer, deleted, matches, total, acked >>

AcksArrive ==
  /\ svc # "running" /\ ~acked
  /\ acked' = TRUE
  /\ UNCHANGED << main, writer, deleted, matches, total, current, changed >>

-----------------------------------------------------------------------------
Left == main \in {"returned", "aborted"}

MainStep == Poll \/ Join \/ Acks \/ Delete \/ Status \/ Wait

Next ==
  /\ ~Left
  /\ \/ SvcFinishes \/ SvcExits
     \/ MainStep \/ Fail
     \/ PublisherMatches \/ PublisherLeaves \/ AcksArrive

Spec == Init /\ [][Next]_vars

(* The two threads are scheduled.  Nothing is promised about the writer's  *)
(* loop ending, failures, acknowledgements or publishers.                  *)
FairSpec == Spec /\ WF_vars(MainStep) /\ WF_vars(SvcExits)

(* ... and the writer's loop does end, as Writer::svc's does by itself. *)
EndingSpec == FairSpec /\ WF_vars(SvcFinishes)

-----------------------------------------------------------------------------
(* Every variable stays in its type. *)
TypeOK ==
  /\ main \in {"poll", "join", "acks", "delete", "status", "wait", "returned",
              "aborted"}
  /\ svc \in {"running", "finished", "exited"}
  /\ finished_instances_ \in 0 .. num_instances_per_writer
  /\ deleted \in BOOLEAN /\ changed \in BOOLEAN /\ acked \in BOOLEAN
  /\ matches \in 0 .. MaxPublishers
  /\ total \in 0 .. MaxPublishers /\ current \in 0 .. total

(***************************************************************************)
(* The writer object is deleted only when no thread can touch it any more: *)
(* svc() still uses the object after finished_instances_, which is what    *)
(* main polls, says it is done.                                            *)
(***************************************************************************)
NoUseAfterDelete == deleted => svc = "exited"

(***************************************************************************)
(* No change of the matched status is missed between reading it and        *)
(* waiting for the next one: main sleeps only on the current number.       *)
(***************************************************************************)
NoMissedChange == (main = "wait" /\ ~changed) => matches = current

(***************************************************************************)
(* Once the writer thread is done, main gets through the join and the      *)
(* deletion to the loop at the end; only acknowledgements that never come  *)
(* keep it, with -w, as the wait for them has no limit.                    *)
(***************************************************************************)
WriterReleased ==
  (svc = "finished") ~>
    (deleted \/ Left \/ (main = "acks" /\ WaitForAcks /\ ~acked))

(***************************************************************************)
(* DDS_Server.cpp:215 and DDS_Client.cpp:210, "Block until Publisher       *)
(* completes": when publishers have matched and all have left for good,    *)
(* main gets on to is_valid() and the clean-up, and returns.               *)
(***************************************************************************)
PublisherCompletes ==
  <>[](total > 0 /\ current = 0) => <>Left
=============================================================================
