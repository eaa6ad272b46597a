---------------------------- MODULE InterArrival ----------------------------
(***************************************************************************)
(* The inter-arrival clock both data reader listeners keep (mQ, a          *)
(* std::queue<timespec>): DataReaderListenerImpl for the requests that     *)
(* reach the gateway, RespDataReaderListenerImpl for the responses that    *)
(* reach the client.  Every sample pushes the time it was taken; a sample  *)
(* whose count is above 1 then pops one time and logs the distance to the  *)
(* time at the front.  The code counts on the samples 0 and 1, which do    *)
(* not pop, to leave the previous time there.                              *)
(*                                                                         *)
(* A time is the number of the sample it was taken for: the n-th sample a  *)
(* listener takes reads the clock at time n.                               *)
(***************************************************************************)
EXTENDS Naturals, Sequences

(***************************************************************************)
(* front() of an empty std::queue is undefined behaviour: whatever the     *)
(* deque's memory holds is read as a time.                                 *)
(***************************************************************************)
NoTime == 0

Logs(count) == count > 1

(* Faulty variant: the first sample is taken to be enough to prime mQ. *)
TimesEarly(q, count, now) ==
  LET pushed == Append(q, now)
  IN  IF count > 0 THEN Tail(pushed) ELSE pushed

(* mQ after the sample `count`, taken at time `now`. *)
Times(q, count, now) ==
  LET pushed == Append(q, now)
  IN  IF Logs(count) THEN Tail(pushed) ELSE pushed

(* The time the logged interval is measured from. *)
Reference(q, count, now) ==
  LET left == Times(q, count, now)
  IN  IF left = << >> THEN NoTime ELSE Head(left)

(* The rows a sample adds to interArrivalFile. *)
Row(q, count, now) ==
  IF Logs(count) THEN << [count |-> count, now |-> now, from |-> Reference(q, count, now)] >>
                 ELSE << >>
=============================================================================
