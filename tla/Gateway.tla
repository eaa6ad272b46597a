------------------------------ MODULE Gateway ------------------------------
(***************************************************************************)
(* The whole system: the client of DmsClient, the two topics of the DDS    *)
(* domain, and the gateway process, for which its specification            *)
(* FifoResponder stands in (MgmsServerProperties checks, and               *)
(* MgmsServerProofs proves, that MgmsServer implements it).                *)
(*                                                                         *)
(* The topics belong to the middleware, which is not in the repository.    *)
(* Both qosxmls files ask for BEST_EFFORT, with RELIABLE as a comment, and *)
(* VOLATILE durability: a sample may be lost or overtaken on the way, and  *)
(* one written while no reader is matched is gone.                         *)
(***************************************************************************)
EXTENDS DmsClient

CONSTANTS
  Processes,  \* bound: gateway processes, one after the other
  Depth,      \* commands the gateway holds: its queue's capacity and two
  Lossy,      \* the topics may lose samples
  Reorders    \* ... and deliver a sample before an earlier one

ASSUME TopicsAssumption ==
  /\ Processes \in Nat \ {0} /\ Depth \in Nat \ {0}
  /\ Lossy \in BOOLEAN /\ Reorders \in BOOLEAN

VARIABLES
  requestTopic,      \* requests on their way to the gateway
  responseTopic,     \* responses on their way to the client
  readerMatched,     \* the responder's writer knows this run's reader
  backlog, served, mode,   \* the gateway (FifoResponder)
  process,           \* number of the gateway's process
  taken,             \* history: the responses taken in all runs
  lost               \* history: stamps of requests that get no answer

topicVars  == << requestTopic, responseTopic, readerMatched >>
serverVars == << backlog, served, mode, process >>
vars == << clientVars, topicVars, serverVars, taken, lost >>

Commands == [stamp : 1 .. Runs * Requests, count : 0 .. Requests - 1]

Server == INSTANCE FifoResponder

CommandOf(r) == [stamp |-> r.stamp, count |-> r.count]

(* s without its i-th element, and with the i-th before its predecessor. *)
Without(s, i)  == SubSeq(s, 1, i - 1) \o SubSeq(s, i + 1, Len(s))
Swapped(s, i)  == [s EXCEPT ![i - 1] = s[i], ![i] = s[i - 1]]

(* Stamps in the writer's hand. *)
Held == IF wpc = "write" THEN {Current.stamp} ELSE {}

Init ==
  /\ ClientInit /\ process = 1
  /\ backlog = << >> /\ Server!Init
  /\ requestTopic = << >> /\ responseTopic = << >> /\ readerMatched = FALSE
  /\ taken = << >> /\ lost = {}

-----------------------------------------------------------------------------
(* The client's steps. *)
ClientStarts   == WriterMatched /\ UNCHANGED << topicVars, serverVars, taken, lost >>
ClientPrepares == Prepare /\ UNCHANGED << topicVars, serverVars, taken, lost >>

(* write() puts the request on the topic, fails for good, or times out. *)
ClientWrites(code) ==
  /\ Write(code)
  /\ requestTopic' = IF code = "OK" THEN Append(requestTopic, Current) ELSE requestTopic
  /\ lost' = IF code = "ERROR" THEN lost \cup Held ELSE lost
  /\ UNCHANGED << responseTopic, readerMatched, serverVars, taken >>

ClientEnds ==
  /\ WriterEnds
  /\ lost' = lost \cup Held
  /\ UNCHANGED << topicVars, serverVars, taken >>

ClientTakes ==
  /\ responseTopic # << >>
  /\ Take(Head(responseTopic))
  /\ responseTopic' = Tail(responseTopic)
  /\ taken' = Append(taken, Head(responseTopic))
  /\ UNCHANGED << requestTopic, readerMatched, serverVars, lost >>

ClientTakesNoData == TakeNoData /\ UNCHANGED << topicVars, serverVars, taken, lost >>

(* The old run's reader is gone, and the responses on their way with it. *)
ClientRestarts ==
  /\ Restart
  /\ lost' = lost \cup Held \cup {responseTopic[i].stamp : i \in DOMAIN responseTopic}
  /\ responseTopic' = << >> /\ readerMatched' = FALSE
  /\ UNCHANGED << requestTopic, serverVars, taken >>

-----------------------------------------------------------------------------
(* The gateway's steps. *)

(* The responder's writer matches the reader of this run. *)
GatewayMatches ==
  /\ ~readerMatched
  /\ readerMatched' = TRUE
  /\ IF mode = "closed" THEN Server!Open ELSE UNCHANGED << backlog, served, mode >>
  /\ UNCHANGED << clientVars, process, requestTopic, responseTopic, taken, lost >>

(* Faulty variant: the newest command is answered first. *)
GatewayTakesFirst ==
  /\ requestTopic # << >> /\ Len(backlog) < Depth
  /\ backlog' = << CommandOf(Head(requestTopic)) >> \o backlog
  /\ requestTopic' = Tail(requestTopic)
  /\ UNCHANGED << clientVars, responseTopic, readerMatched, served, mode, process, taken, lost >>

(* on_data_available takes a request and posts its stamp and count. *)
GatewayTakes ==
  /\ requestTopic # << >>
  /\ Server!Accept
  /\ backlog' = Append(backlog, CommandOf(Head(requestTopic)))
  /\ requestTopic' = Tail(requestTopic)
  /\ UNCHANGED << clientVars, process, responseTopic, readerMatched, taken, lost >>

(* Faulty variant: the count is that of the request taken last. *)
AnswerOfLast(c) == [stamp |-> c.stamp, count |-> backlog[Len(backlog)].count]

(* A response carries stamp and count of the command it answers. *)
AnswerTo(c) == c

(* The response is written, to the reader if there is one, or fails. *)
GatewayAnswers(code) ==
  /\ Server!Answer
  /\ IF code = "OK" /\ readerMatched
     THEN /\ responseTopic' = Append(responseTopic, AnswerTo(Head(backlog)))
          /\ UNCHANGED lost
     ELSE /\ lost' = lost \cup {Head(backlog).stamp}
          /\ UNCHANGED responseTopic
  /\ UNCHANGED << clientVars, process, requestTopic, readerMatched, taken >>

(* The responder thread ends on an exception, or the process exits. *)
GatewayHalts ==
  /\ mode # "halted" /\ Server!Halt
  /\ UNCHANGED << clientVars, process, topicVars, taken, lost >>

(***************************************************************************)
(* The process is killed, or leaves through exit(), and is started again:  *)
(* what was on its way to it is gone, and the writer of the new one has    *)
(* matched no reader.  Under the same pid it finds the old one's queue.    *)
(***************************************************************************)
GatewayRestarts ==
  /\ process < Processes
  /\ process' = process + 1
  /\ Server!Restart
  /\ requestTopic' = << >> /\ readerMatched' = FALSE
  /\ lost' = lost \cup {requestTopic[i].stamp : i \in DOMAIN requestTopic}
                  \cup ({backlog[i].stamp : i \in DOMAIN backlog}
                          \ {backlog'[i].stamp : i \in DOMAIN backlog'})
  /\ UNCHANGED << clientVars, responseTopic, taken >>

-----------------------------------------------------------------------------
(* The topics (external). *)
Loses ==
  /\ Lossy
  /\ \/ \E i \in DOMAIN requestTopic :
          /\ requestTopic' = Without(requestTopic, i)
          /\ lost' = lost \cup {requestTopic[i].stamp}
          /\ UNCHANGED responseTopic
     \/ \E i \in DOMAIN responseTopic :
          /\ responseTopic' = Without(responseTopic, i)
          /\ lost' = lost \cup {responseTopic[i].stamp}
          /\ UNCHANGED requestTopic
  /\ UNCHANGED << clientVars, readerMatched, serverVars, taken >>

Overtakes ==
  /\ Reorders
  /\ \/ \E i \in 2 .. Len(requestTopic) :
          requestTopic' = Swapped(requestTopic, i) /\ UNCHANGED responseTopic
     \/ \E i \in 2 .. Len(responseTopic) :
          responseTopic' = Swapped(responseTopic, i) /\ UNCHANGED requestTopic
  /\ UNCHANGED << clientVars, readerMatched, serverVars, taken, lost >>

-----------------------------------------------------------------------------
Client ==
  \/ ClientStarts \/ ClientPrepares \/ ClientEnds
  \/ \E code \in {"OK", "ERROR", "TIMEOUT"} : ClientWrites(code)
  \/ ClientTakes \/ ClientTakesNoData \/ ClientRestarts

Mgms ==
  \/ GatewayMatches \/ GatewayTakes \/ GatewayHalts \/ GatewayRestarts
  \/ \E code \in {"OK", "ERROR"} : GatewayAnswers(code)

Next == Client \/ Mgms \/ Loses \/ Overtakes

Spec == Init /\ [][Next]_vars

(***************************************************************************)
(* Live peers discover each other, a topic delivers what it does not lose, *)
(* write() does not time out for ever, and the gateway answers             *)
(* (RequestsAnswered of MgmsServerProperties).                             *)
(***************************************************************************)
Fairness ==
  /\ WF_vars(GatewayMatches) /\ WF_vars(GatewayTakes) /\ WF_vars(ClientTakes)
  /\ WF_vars(\E code \in {"OK", "ERROR"} : ClientWrites(code))
  /\ WF_vars(\E code \in {"OK", "ERROR"} : GatewayAnswers(code))

FairSpec == Spec /\ Fairness
=============================================================================
