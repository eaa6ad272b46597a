------------------------- MODULE GatewayProperties -------------------------
(***************************************************************************)
(* What is claimed of the system of Gateway, end to end.                   *)
(***************************************************************************)
EXTENDS Gateway

Stamps(s) == {s[i].stamp : i \in DOMAIN s}

(* Every variable stays in its type. *)
TypeOK ==
  /\ run \in 1 .. Runs
  /\ wpc \in {"match", "prepare", "write", "done"} /\ count \in 0 .. Requests
  /\ prepared \in Seq(Request)
  /\ lvalid \in BOOLEAN /\ lmQ \in Seq(Nat) /\ arrived \in Seq(Commands)
  /\ {csv, file} \subseteq {"open", "closed", "broken"} /\ fileNo \in Nat
  /\ gaps \in Seq([count : Nat, now : Nat, from : Nat])
  /\ rtt \in Seq([stamp : Nat, count : Nat, file : Nat])
  /\ requestTopic \in Seq(Request) /\ responseTopic \in Seq(Commands)
  /\ readerMatched \in BOOLEAN
  /\ backlog \in Seq(Commands) /\ Len(backlog) <= Depth /\ served \in Seq(Commands)
  /\ mode \in {"closed", "serving", "halted"} /\ process \in 1 .. Processes
  /\ taken \in Seq(Commands) /\ lost \subseteq Nat

-----------------------------------------------------------------------------
Places == << Held, Stamps(requestTopic), Stamps(backlog), Stamps(responseTopic),
             Stamps(taken), lost >>

(***************************************************************************)
(* Every request the client stamped is in exactly one place, whatever is   *)
(* lost, repeated after a timeout, overtaken or cut off by a restart: in   *)
(* the writer's hand, on a topic, in the gateway, logged, or known lost.   *)
(***************************************************************************)
Accounted ==
  /\ \A n \in 1 .. Len(prepared) : Cardinality({p \in DOMAIN Places : n \in Places[p]}) = 1
  /\ \A s \in {requestTopic, backlog, responseTopic, taken} : Cardinality(Stamps(s)) = Len(s)

(***************************************************************************)
(* A round-trip row measures the round trip of the request whose count it  *)
(* is logged under, even when it answers a request of a run that was       *)
(* killed, of which the new run knows nothing.                             *)
(***************************************************************************)
RowsPaired ==
  \A i \in DOMAIN rtt : prepared[rtt[i].stamp].count = rtt[i].count

(***************************************************************************)
(* Responses are logged in the order the requests were stamped, across     *)
(* restarts too, as long as the topics keep the order.                     *)
(***************************************************************************)
OrderKept ==
  ~Reorders => \A i, j \in DOMAIN taken : i < j => taken[i].stamp < taken[j].stamp

(***************************************************************************)
(* While nothing is lost or overtaken in the first run, the client's logs  *)
(* are complete and what their names say: a row for each count, in the     *)
(* file of its RotateEvery counts, and the gap to the previous response.   *)
(***************************************************************************)
CleanRun ==
  (run = 1 /\ lost = {} /\ ~Reorders) =>
    /\ \A i \in DOMAIN rtt :
         rtt[i].count = i - 1 /\ rtt[i].file = rtt[i].count \div RotateEvery + 1
    /\ Len(rtt) = IF Len(arrived) <= CloseCount + 1 THEN Len(arrived) ELSE CloseCount + 1
    /\ \A i \in DOMAIN gaps : gaps[i].from = gaps[i].now - 1

(***************************************************************************)
(* Each log file is used after it was closed exactly when a response is    *)
(* taken after the one with CloseCount: the writer's loop, which goes on   *)
(* to Requests, always brings that about unless responses are lost.        *)
(***************************************************************************)
UseAfterClose ==
  LET After(c) == \E i, j \in DOMAIN arrived :
                    i < j /\ arrived[i].count = CloseCount /\ arrived[j].count >= c
  IN  /\ (file = "broken") <=> After(0)
      /\ (csv = "broken")  <=> After(2)

-----------------------------------------------------------------------------
(***************************************************************************)
(* Every request is logged or lost, unless the gateway halts: none stays   *)
(* on its way for ever, and the backlog drains.                            *)
(***************************************************************************)
Answered ==
  \A n \in 1 .. Runs * Requests :
    (Len(prepared) >= n) ~> (n \in Stamps(taken) \/ n \in lost \/ mode = "halted")
=============================================================================
