------------------------ MODULE MgmsServerProperties ------------------------
(***************************************************************************)
(* What is claimed of the gateway process of MgmsServer.                   *)
(***************************************************************************)
EXTENDS MgmsServer

-----------------------------------------------------------------------------
(* Every variable stays in its type. *)
LogRow == [count : Counts, now : Nat, from : Nat]

ListenerTypeOK ==
  /\ lpc \in {"idle", "copy"}
  /\ sample \in Sample \cup {NoSample}
  /\ lrow \in 0 .. Rows
  /\ counts \subseteq Counts
  /\ valid \in BOOLEAN
  /\ mQ \in Seq(Nat)
  /\ csv \in {"open", "closed", "broken"}
  /\ intervals \in Seq(LogRow)
  /\ stale \in Seq(Command) /\ received \in Seq(Command)

QueueTypeOK == msgq \in Seq(Command) /\ Len(msgq) <= QueueCap

ArraysTypeOK ==
  /\ requestData \in [RowIndex -> Nat]
  /\ resultData \in [RowIndex -> Cell]
  /\ changed \in InitChanged \cup 0 .. Rows

ResponderTypeOK ==
  /\ rpc \in {"match", "recv", "collect", "write", "clear", "done"}
  /\ hand \in Seq(Command)
  /\ row \in Nat
  /\ items \in Seq(Cell)
  /\ code \in {"OK", "ERROR", "TIMEOUT"}
  /\ served \in Seq(Command)
  /\ replies \in Seq(Reply)

MmsTypeOK ==
  /\ mpc \in {"off", "idle", "row", "store"}
  /\ mrow \in 1 .. Rows
  /\ polls \in Nat
  /\ clean \in BOOLEAN
  /\ due \in Nat
  /\ news \in Cell
  /\ alone \in BOOLEAN
  /\ seen \in Seq(Nat)

TypeOK ==
  /\ alive \in BOOLEAN
  /\ ListenerTypeOK /\ QueueTypeOK /\ ArraysTypeOK /\ ResponderTypeOK /\ MmsTypeOK

-----------------------------------------------------------------------------
(* The command of the sample the listener still has to post. *)
Pending == IF lpc = "copy" THEN << CommandOf(sample) >> ELSE << >>

(***************************************************************************)
(* No request is lost, answered twice, overtaken, or answered with the     *)
(* stamp or count of another: what was found on the queue and what was     *)
(* taken since is what was answered, then what is in the responder's hand, *)
(* on the queue and with the listener.  The path is on_data_available,     *)
(* msgsnd, msgrcv, write.  The commands of a process before this one are   *)
(* all answered first, to whatever reader is matched now.                  *)
(***************************************************************************)
InOrder == stale \o received = served \o hand \o msgq \o Pending

(***************************************************************************)
(* The reply of one device poll to one row reaches the client in at most   *)
(* one response, although the array, the flag and the poll are not         *)
(* synchronised: memset runs between any two collections.                  *)
(***************************************************************************)
DeliveredOnce ==
  \A i, j \in DOMAIN replies :
    i < j => \A u \in DOMAIN replies[i].items \cap DOMAIN replies[j].items :
               replies[i].items[u] > 0 => replies[i].items[u] # replies[j].items[u]

(* Polls that reached PollEnds. *)
Published == polls - (IF Polling THEN 1 ELSE 0)

(***************************************************************************)
(* A response has rows only on the account of a publication of its own:    *)
(* there are never more responses with rows than polls published, but for  *)
(* the first one when is61850_Changed came up with a value above 1.        *)
(***************************************************************************)
OnePerPublication ==
  Cardinality({i \in DOMAIN replies : replies[i].items # << >>})
    <= Published + (IF \E n \in InitChanged : n > 1 THEN 1 ELSE 0)

(***************************************************************************)
(* Uninitialised memory (the constructor clears neither ResultData nor     *)
(* is61850_Changed) can reach the client in the first response, never in   *)
(* a later one.                                                            *)
(***************************************************************************)
GarbageOnlyFirst ==
  \A i \in DOMAIN replies : i > 1 => \A u \in DOMAIN replies[i].items :
                                        replies[i].items[u] # Garbage

(***************************************************************************)
(* A poll that begins and ends while the responder waits for a command is  *)
(* not lost: the next response carries its rows, or rows a later poll      *)
(* wrote or was writing over them; never an empty or an older row.         *)
(* (What becomes of a poll that overlaps a response is in AsPublished.)     *)
(***************************************************************************)
QuietPollDelivered ==
  \A i \in DOMAIN replies :
    replies[i].due > 0 => /\ replies[i].items # << >>
                          /\ \A u \in DOMAIN replies[i].items :
                               replies[i].items[u] = Torn \/ replies[i].items[u] >= replies[i].due

(***************************************************************************)
(* Where a poll can be lost or spoilt, and nowhere else.  A response has   *)
(* rows exactly when a poll was published after the reset of the response  *)
(* before and while this one could still see it: a publication between     *)
(* the last look at is61850_Changed and its reset is the only one erased.  *)
(* And unless a poll was under way at that reset or while this response    *)
(* was made, each of its rows is the newest published poll's: none of an   *)
(* older poll, cut, cleared or uninitialised.                              *)
(***************************************************************************)
AsPublished ==
  \A i \in DOMAIN replies :
    LET r == replies[i]
    IN  /\ r.items # << >> <=> r.news # 0
        /\ r.alone => \A u \in DOMAIN r.items : r.items[u] = r.news

-----------------------------------------------------------------------------
(* Samples with count 0 or 1 among the first n taken. *)
Primers(n) == Cardinality({i \in 1 .. n : received[i].count <= 1})

(***************************************************************************)
(* Every logged interval is measured from the arrival Primers-1 samples    *)
(* earlier, and from undefined memory when there was none: it is the gap   *)
(* to the previous request if and only if exactly two samples with count   *)
(* 0 or 1 came before it.  One of them lost gives 0 ms rows, both lost     *)
(* reads an empty queue, a second client run makes the gap span four.      *)
(***************************************************************************)
IntervalSpan ==
  \A i \in DOMAIN intervals :
    LET n == intervals[i].now
        p == Primers(n)
    IN  intervals[i].from = IF p = 0 THEN NoTime ELSE n - p + 1

(***************************************************************************)
(* interArrivalFile is printed to after it was closed exactly when a       *)
(* sample above 1 follows the one with CloseCount: the client's loop, with *)
(* counts up to 1000000, brings that about unless a request is lost.       *)
(***************************************************************************)
UseAfterClose ==
  LET posted == 1 .. Len(received) - Len(Pending)
  IN  (csv = "broken") <=>
        \E i, j \in posted : i < j /\ received[i].count = CloseCount /\ received[j].count > 1

-----------------------------------------------------------------------------
Halted == rpc = "done" \/ ~alive

(* Commands taken and not answered, and whether they will be. *)
Backlog == hand \o msgq \o Pending
Mode    == IF Halted THEN "halted" ELSE IF rpc = "match" THEN "closed" ELSE "serving"

(* The abstract responder this process implements. *)
Fifo == INSTANCE FifoResponder WITH
          Commands <- Command, Depth <- QueueCap + 2,
          backlog <- Backlog, served <- served, mode <- Mode

(***************************************************************************)
(* The three threads and the System V queue implement the bounded fifo     *)
(* responder: QueueCap commands queued, one in the responder's hand, one   *)
(* with a blocked listener, answered oldest first.                         *)
(***************************************************************************)
ImplementsFifo == Fifo!Safety

(* What a crash would leave on the queue is what FifoResponder lets a crash *)
(* leave of its backlog.                                                    *)
CrashLeaves == msgq \in Fifo!Survivors(Backlog)

(***************************************************************************)
(* Every request taken is answered (the write may still have failed),      *)
(* unless no reader is matched, the responder thread ended on a CORBA      *)
(* exception, or the process exited.                                       *)
(***************************************************************************)
RequestsAnswered ==
  \A n \in 1 .. MaxSamples :
    (Len(received) >= n /\ rpc # "match") ~> (Len(served) >= Len(stale) + n \/ Halted)

(***************************************************************************)
(* on_data_available returns, and with it the transport thread it holds,   *)
(* unless no reader was matched yet or the responder has ended: only then  *)
(* can msgsnd block for ever.                                              *)
(***************************************************************************)
ListenerReturns ==
  (lpc = "copy") ~> (lpc = "idle" \/ rpc = "match" \/ Halted)

(***************************************************************************)
(* README.md:52-53: a request goes to the IEC 61850 server, the server     *)
(* responds to the gateway, and the gateway converts that response and     *)
(* answers.  So a response carries rows, each of a poll that began after   *)
(* its request was stored.                                                 *)
(***************************************************************************)
AnsweredByDevice ==
  \A i \in DOMAIN replies :
    /\ replies[i].items # << >>
    /\ \A u \in DOMAIN replies[i].items :
         replies[i].items[u] > 0 => seen[replies[i].items[u]] >= i - Len(stale)
=============================================================================
