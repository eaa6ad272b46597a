----------------------------- MODULE DmsClient -----------------------------
(***************************************************************************)
(* The client process (DDS_Client, "DMS").  Its writer thread              *)
(* (Writer::svc) publishes requests with the counts 0, 1, ... without      *)
(* waiting for answers; its transport thread, in                           *)
(* RespDataReaderListenerImpl::on_data_available, logs the round-trip time *)
(* of every response to a file that is changed every RotateEvery counts,   *)
(* and the inter-arrival times to another.  Both files are closed at the   *)
(* count CloseCount, although requests go on up to Requests.               *)
(*                                                                         *)
(* A request is named by its stamp (time_stamp, the clock before its first *)
(* write): the n-th request of all runs of the client has stamp n.  The    *)
(* topics are left to the module that composes the client with the         *)
(* gateway: Write says what is published, Take is given what arrives.      *)
(***************************************************************************)
EXTENDS Naturals, Sequences, FiniteSets, InterArrival

CONSTANTS
  Requests,     \* the bound of the loop in svc() (1000000)
  RotateEvery,  \* counts per round-trip file (10000)
  CloseCount,   \* the count at which both files are closed (499999)
  Runs          \* bound: runs of the process, one after the other

ASSUME ClientAssumption ==
  /\ Requests \in Nat \ {0}
  /\ RotateEvery \in Nat \ {0}
  /\ CloseCount \in Nat \ {0, 1}
  /\ Runs \in Nat \ {0}

VARIABLES
  run,        \* number of the process's run
  \* writer
  wpc,        \* "match", "prepare", "write", "done"
  count,      \* message.count
  prepared,   \* history: every request stamped, in order, over all runs
  \* listener
  lvalid,     \* valid_
  lmQ,        \* mQ, in arrivals of this run
  csv,        \* interArrivalFile: "open", "closed", "broken" (used closed)
  file,       \* the round-trip file: the same
  fileNo,     \* rtt_file_count
  arrived,    \* history: {stamp, count} of the responses taken in this run
  gaps,       \* history: the interval rows of this run
  rtt         \* history: the round-trip rows of this run, with their file

writerVars   == << wpc, count, prepared >>
listenerVars == << lvalid, lmQ, csv, file, fileNo, arrived, gaps, rtt >>
clientVars   == << run, writerVars, listenerVars >>

(* Read and write requests alternate: i is count + 2. *)
Subject(c) == IF c % 2 = 0 THEN "g" ELSE "s"

Request  == [stamp : Nat, count : Nat, subject : {"g", "s"}, run : Nat]
Response == [stamp : Nat, count : Nat]

StartWriter == wpc' = "match" /\ count' = 0

StartListener ==
  /\ lvalid' = TRUE /\ lmQ' = << >> /\ arrived' = << >>
  /\ csv' = "open" /\ gaps' = << >>
  /\ file' = "open" /\ fileNo' = 0 /\ rtt' = << >>

ClientInit ==
  /\ run = 1
  /\ wpc = "match" /\ count = 0 /\ prepared = << >>
  /\ lvalid = TRUE /\ lmQ = << >> /\ arrived = << >>
  /\ csv = "open" /\ gaps = << >>
  /\ file = "open" /\ fileNo = 0 /\ rtt = << >>

-----------------------------------------------------------------------------
(* The writer. *)

(* The status condition reported a matched reader. *)
WriterMatched ==
  /\ wpc = "match"
  /\ wpc' = "prepare"
  /\ UNCHANGED << run, count, prepared, listenerVars >>

(* Faulty variant: the loop runs once more. *)
PrepareOnceMore ==
  /\ wpc = "prepare" /\ count <= Requests
  /\ prepared' = Append(prepared, [stamp |-> Len(prepared) + 1, count |-> count,
                                   subject |-> Subject(count), run |-> run])
  /\ wpc' = "write"
  /\ UNCHANGED << run, count, listenerVars >>

(* The request document is built and time_stamp set. *)
Prepare ==
  /\ wpc = "prepare" /\ count < Requests
  /\ prepared' = Append(prepared, [stamp |-> Len(prepared) + 1, count |-> count,
                                   subject |-> Subject(count), run |-> run])
  /\ wpc' = "write"
  /\ UNCHANGED << run, count, listenerVars >>

(* The request in the writer's hand. *)
Current == prepared[Len(prepared)]

(* Faulty variant: a write that timed out counts as done. *)
RepeatsNever(code) == FALSE

(* The do-while condition; any other failure is only logged. *)
Repeats(code) == code = "TIMEOUT"

(* One call of write(); the request is stamped once, however many. *)
Write(code) ==
  /\ wpc = "write"
  /\ IF Repeats(code) THEN UNCHANGED << wpc, count >>
                      ELSE wpc' = "prepare" /\ count' = count + 1
  /\ UNCHANGED << run, prepared, listenerVars >>

(* The loop is over, or a CORBA exception ended it. *)
WriterEnds ==
  /\ \/ wpc = "prepare" /\ count = Requests
     \/ wpc \in {"match", "write"}
  /\ wpc' = "done"
  /\ UNCHANGED << run, count, prepared, listenerVars >>

-----------------------------------------------------------------------------
(* The listener. *)

Reopens(c) == c % RotateEvery = 0

(* A FILE after fprintf or fclose of it: undefined once it was closed. *)
Used(f)   == IF f = "open" THEN "open" ELSE "broken"
Closed(f) == IF f = "open" THEN "closed" ELSE "broken"

(* Faulty variant: the row is printed before the file is changed. *)
RowFileEarly(c) == fileNo

(* The file the row of count c goes to. *)
RowFile(c) == IF Reopens(c) THEN fileNo + 1 ELSE fileNo

(* Faulty variant: the files are closed only at the end of the run. *)
ClosesLate(c) == c = Requests

Closes(c) == c = CloseCount

(***************************************************************************)
(* on_data_available with valid data s: the interval is logged, the file   *)
(* changed, the round trip logged, and both files closed at CloseCount.    *)
(* (counts_ is {arrived[i].count}; unlike the gateway's listener, this one *)
(* does not hold a repeated count against the run.)                        *)
(***************************************************************************)
Take(s) ==
  LET n     == Len(arrived) + 1
      c     == s.count
      gap   == IF Logs(c) THEN Used(csv) ELSE csv
      fresh == IF Reopens(c) /\ Closed(file) = "closed" THEN "open" ELSE Used(file)
  IN  /\ arrived' = Append(arrived, s)
      /\ lmQ' = Times(lmQ, c, n)
      /\ gaps' = IF csv = "open" THEN gaps \o Row(lmQ, c, n) ELSE gaps
      /\ csv' = IF Closes(c) THEN Closed(gap) ELSE gap
      /\ fileNo' = IF Reopens(c) THEN fileNo + 1 ELSE fileNo
      /\ rtt' = IF fresh = "open"
                THEN Append(rtt, [stamp |-> s.stamp, count |-> c, file |-> RowFile(c)])
                ELSE rtt
      /\ file' = IF Closes(c) THEN Closed(fresh) ELSE fresh
      /\ UNCHANGED << run, writerVars, lvalid >>

(* take_next_sample failed, or found an unknown instance state. *)
TakeNoData ==
  /\ lvalid
  /\ lvalid' = FALSE
  /\ UNCHANGED << run, writerVars, lmQ, csv, file, fileNo, arrived, gaps, rtt >>

-----------------------------------------------------------------------------
(* The process is killed, or leaves through exit(), and is started again:  *)
(* counts from 0, empty files of the same names.                           *)
Restart ==
  /\ run < Runs
  /\ run' = run + 1
  /\ StartWriter /\ StartListener
  /\ UNCHANGED prepared
=============================================================================
