---------------------------- MODULE FifoResponder ----------------------------
(***************************************************************************)
(* What the gateway promises about requests, whatever its threads do: a    *)
(* bounded backlog of commands, answered one at a time in the order they   *)
(* were taken, each with its own time stamp and count, for as long as the  *)
(* responder serves.  When it halts, commands are still taken until the    *)
(* backlog is full, and none is answered.  A responder may start with a    *)
(* backlog: what Survivors keeps of that of one that was killed.           *)
(***************************************************************************)
EXTENDS Naturals, Sequences

CONSTANTS Commands, Depth

VARIABLES
  backlog,   \* commands taken and not answered
  served,    \* commands answered
  mode       \* "closed" until a reader is matched, "serving", "halted"

vars == << backlog, served, mode >>

Init ==
  /\ backlog \in Seq(Commands) /\ Len(backlog) <= Depth
  /\ served = << >> /\ mode = "closed"

Accept ==
  /\ Len(backlog) < Depth
  /\ \E c \in Commands : backlog' = Append(backlog, c)
  /\ UNCHANGED << served, mode >>

Open == mode = "closed" /\ mode' = "serving" /\ UNCHANGED << backlog, served >>

Answer ==
  /\ mode = "serving" /\ backlog # << >>
  /\ served' = Append(served, Head(backlog))
  /\ backlog' = Tail(backlog)
  /\ UNCHANGED mode

Halt == mode' = "halted" /\ UNCHANGED << backlog, served >>

(***************************************************************************)
(* What the process after a crash finds: nothing when it has another pid,  *)
(* else the commands on the queue, without the one in the responder's hand *)
(* and the one the listener still had to post.                             *)
(***************************************************************************)
Survivors(b) ==
  LET n == Len(b)
  IN  {<< >>, SubSeq(b, 1, n), SubSeq(b, 2, n), SubSeq(b, 1, n - 1), SubSeq(b, 2, n - 1)}

(* A new process takes over (not a step of one process). *)
Restart ==
  /\ backlog' \in Survivors(backlog)
  /\ mode' = "closed"
  /\ UNCHANGED served

Next == Accept \/ Open \/ Answer \/ Halt

Safety == Init /\ [][Next]_vars

Spec == Safety /\ WF_vars(Answer)
=============================================================================
