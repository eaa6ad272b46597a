----------------------------- MODULE MgmsServer -----------------------------
(***************************************************************************)
(* The gateway process (DDS_Server, "MGMS") between the two DDS topics.    *)
(* Three threads share it:                                                 *)
(*                                                                         *)
(*   listener   the transport thread in DataReaderListenerImpl::           *)
(*              on_data_available: takes one request sample, copies its    *)
(*              DOMAINID rows into IEC61850_RequestData, posts a command   *)
(*              on a System V message queue and keeps the inter-arrival    *)
(*              log;                                                       *)
(*   responder  RespWriter::svc: takes commands off that queue, collects   *)
(*              the rows of IEC61850_ResultData into a response, writes    *)
(*              it, clears the rows and resets is61850_Changed;            *)
(*   mms        the MMS-Lite client, started with -m on those two arrays   *)
(*              and the flag.  Its code is not in the repository: it is    *)
(*              modelled from the three pointers main() gives it and from  *)
(*              how the responder reads what it leaves there.              *)
(*                                                                         *)
(* No lock protects the arrays or the flag: the threads interleave row by  *)
(* row, and a row read while it is being written is Torn.                  *)
(*                                                                         *)
(* A request is named by its arrival: the n-th sample taken has stamp n    *)
(* (its time_stamp, unique and copied untouched).  The queue has the key   *)
(* getpid() and is never removed: a process that gets the pid of one that  *)
(* was killed (the usual case in a container) finds the commands that one  *)
(* left, with stamps of 0 and below.  A row of request data                *)
(* is the stamp of the request it was copied from, a row of result data    *)
(* the number of the device poll that produced it.                         *)
(***************************************************************************)
EXTENDS Integers, Sequences, FiniteSets, InterArrival

CONSTANTS
  Counts,       \* message.count values a sample may carry
  ReqRows,      \* numbers of DOMAINID rows a request may carry
  Rows,         \* rows of IEC61850_RequestData and IEC61850_ResultData (100)
  QueueCap,     \* commands the System V queue holds (msg_qbytes / 32 = 512)
  CloseCount,   \* the count after which interArrivalFile is closed (499999)
  Stales,       \* what the queue may hold when the process starts
  InitChanged,  \* values the uninitialised is61850_Changed may start with
  UseMms,       \* the -m option
  MaxSamples,   \* bound: samples taken
  MaxPolls      \* bound: device polls

ASSUME ServerAssumption ==
  /\ Counts \subseteq Nat
  /\ Rows \in Nat \ {0}
  /\ ReqRows \subseteq 0..Rows
  /\ QueueCap \in Nat \ {0}
  /\ CloseCount \in Nat \ {0, 1}
  /\ InitChanged \subseteq Nat /\ InitChanged # {}
  /\ UseMms \in BOOLEAN
  /\ MaxSamples \in Nat
  /\ MaxPolls \in Nat

Command == [stamp : 1 - QueueCap .. MaxSamples, count : Counts]

ASSUME StaleAssumption ==
  Stales \subseteq {q \in Seq(Command) : Len(q) <= QueueCap} /\ Stales # {}

VARIABLES
  alive,        \* FALSE once some thread called exit()
  \* listener
  lpc,          \* "idle": waiting for a sample, "copy": in on_data_available
  sample,       \* the member `message`: the sample taken last
  lrow,         \* i: the next row of RequestData to copy
  counts,       \* counts_
  valid,        \* valid_
  mQ,           \* arrival times kept for the next interval
  csv,          \* interArrivalFile: "open", "closed", "broken" (used closed)
  intervals,    \* history: the rows logged
  \* shared
  msgq,         \* the System V queue: commands {sent_time, count}
  requestData,  \* IEC61850_RequestData, NoRow where the text is empty
  resultData,   \* IEC61850_ResultData
  changed,      \* is61850_Changed
  \* responder
  rpc,          \* program counter of RespWriter::svc
  hand,         \* sigData while it is being answered, << >> otherwise
  row,          \* u, and the next row memset clears
  items,        \* the vector handed to getDataValue_resp_8_2
  code,         \* what write() returned last
  served,       \* history: {time_stamp, count} of every response settled
  replies,      \* history: its items, the write's code, what was due
  \* mms
  mpc,          \* "off", "idle", "row", "store"
  mrow,         \* the row being polled
  polls,        \* polls begun
  clean,        \* no command was taken off the queue since the poll began
  due,          \* history: newest poll published, from its begin, in idle time
  news,         \* history: newest poll published since the last reset, while
                \* the flag was still to be looked at; Garbage for its first value
  alone,        \* history: no poll was under way at that reset, nor has been
                \* since the response was begun
  seen,         \* history: per poll, the newest request fully stored before it
  \* history of the listener
  stale,        \* commands found on the queue
  received      \* commands of the samples taken, in order

listenerVars  == << lpc, sample, lrow, counts, valid, mQ, csv, intervals, stale, received >>
responderVars == << rpc, hand, row, items, code, served, replies >>
mmsVars       == << mpc, mrow, polls, clean, due, news, alone, seen >>
sharedVars    == << msgq, requestData, resultData, changed >>
vars == << alive, listenerVars, responderVars, mmsVars, sharedVars >>

-----------------------------------------------------------------------------
NoRow   == 0      \* an empty string in RequestData
Empty   == 0      \* an empty string in ResultData
Torn    == -1     \* a row read while the mms thread is inside strcpy
Garbage == -2     \* uninitialised memory, or memory beyond the array

RowIndex == 0 .. Rows - 1
Cell     == Nat \cup {Torn, Garbage}
Sample   == [stamp : 1 .. MaxSamples, count : Counts, rows : ReqRows]
NoSample == [stamp |-> 0, count |-> 0, rows |-> 0]
Reply    == [items : Seq(Cell), code : {"OK", "ERROR"}, due : Nat, news : Cell, alone : BOOLEAN]

CommandOf(s) == [stamp |-> s.stamp, count |-> s.count]

(* The text the responder reads at index u. *)
ResultRow(u) == IF u \in RowIndex THEN resultData[u] ELSE Garbage

(* A device poll is under way. *)
Polling == mpc \in {"row", "store"}

(* Requests whose rows are all in RequestData. *)
Stored == Len(received) - (IF lpc = "copy" /\ lrow < sample.rows THEN 1 ELSE 0)

Init ==
  /\ alive = TRUE
  /\ lpc = "idle" /\ sample = NoSample /\ lrow = 0
  /\ counts = {} /\ valid = TRUE
  /\ mQ = << >> /\ csv = "open" /\ intervals = << >>
  /\ received = << >>
  /\ stale \in Stales /\ msgq = stale
  /\ requestData = [r \in RowIndex |-> NoRow]
  /\ resultData = [r \in RowIndex |-> Garbage]
  /\ changed \in InitChanged
  /\ rpc = "match" /\ hand = << >> /\ row = 1 /\ items = << >>
  /\ code = "OK" /\ served = << >> /\ replies = << >>
  /\ mpc = (IF UseMms THEN "idle" ELSE "off")
  /\ mrow = 1 /\ polls = 0 /\ clean = FALSE /\ due = 0 /\ seen = << >>
  /\ news = (IF changed > 1 THEN Garbage ELSE 0) /\ alone = TRUE

-----------------------------------------------------------------------------
(* The listener. *)

(***************************************************************************)
(* take_next_sample returned valid data.  A count seen before marks the    *)
(* run invalid; the sample is processed all the same.                      *)
(***************************************************************************)
TakeData(c, k) ==
  /\ lpc = "idle"
  /\ Len(received) < MaxSamples
  /\ sample' = [stamp |-> Len(received) + 1, count |-> c, rows |-> k]
  /\ received' = Append(received, CommandOf(sample'))
  /\ valid' = IF c \in counts THEN FALSE ELSE valid
  /\ counts' = counts \cup {c}
  /\ lpc' = "copy" /\ lrow' = 0
  /\ UNCHANGED << alive, mQ, csv, intervals, stale, responderVars, mmsVars, sharedVars >>

(***************************************************************************)
(* take_next_sample failed, or returned an instance state other than       *)
(* disposed and unregistered.  (Those two leave no trace at all.)          *)
(***************************************************************************)
TakeNoData ==
  /\ lpc = "idle" /\ valid
  /\ valid' = FALSE
  /\ UNCHANGED << alive, lpc, sample, lrow, counts, mQ, csv, intervals, stale, received,
                  responderVars, mmsVars, sharedVars >>

(* strcpy of one DOMAINID child; rows past the last one keep their text. *)
CopyRow ==
  /\ lpc = "copy" /\ lrow < sample.rows
  /\ requestData' = [requestData EXCEPT ![lrow] = sample.stamp]
  /\ lrow' = lrow + 1
  /\ UNCHANGED << alive, lpc, sample, counts, valid, mQ, csv, intervals, stale, received,
                  responderVars, mmsVars, msgq, resultData, changed >>

(* Faulty variant: the file is closed only by a later sample. *)
ClosesLate(count) == count > CloseCount

Closes(count) == count = CloseCount

(* The interval log, after the command was posted. *)
LogArrival ==
  /\ mQ' = Times(mQ, sample.count, sample.stamp)
  /\ IF Logs(sample.count)
     THEN /\ csv' = IF csv # "open" THEN "broken"
                    ELSE IF Closes(sample.count) THEN "closed" ELSE "open"
          /\ intervals' = IF csv = "open"
                          THEN intervals \o Row(mQ, sample.count, sample.stamp)
                          ELSE intervals
     ELSE UNCHANGED << csv, intervals >>

(* Faulty variant: IPC_NOWAIT with the failure ignored drops the command. *)
SendOrDrop ==
  /\ lpc = "copy" /\ lrow = sample.rows
  /\ msgq' = IF Len(msgq) < QueueCap THEN Append(msgq, CommandOf(sample)) ELSE msgq
  /\ LogArrival
  /\ lpc' = "idle"
  /\ UNCHANGED << alive, sample, lrow, counts, valid, stale, received,
                  responderVars, mmsVars, requestData, resultData, changed >>

(* msgsnd blocks while the queue is full; then the arrival is logged. *)
SendCommand ==
  /\ lpc = "copy" /\ lrow = sample.rows
  /\ Len(msgq) < QueueCap
  /\ msgq' = Append(msgq, CommandOf(sample))
  /\ LogArrival
  /\ lpc' = "idle"
  /\ UNCHANGED << alive, sample, lrow, counts, valid, stale, received,
                  responderVars, mmsVars, requestData, resultData, changed >>

-----------------------------------------------------------------------------
(* The responder. *)

(* The status condition reported a matched reader. *)
ReaderMatched ==
  /\ rpc = "match"
  /\ rpc' = "recv"
  /\ UNCHANGED << alive, listenerVars, hand, row, items, code, served, replies,
                  mmsVars, sharedVars >>

(* Faulty variant: the flag is reset before it is read. *)
ReceiveAndReset ==
  /\ rpc = "recv" /\ msgq # << >>
  /\ hand' = << Head(msgq) >>
  /\ msgq' = Tail(msgq)
  /\ rpc' = "collect" /\ row' = 1 /\ items' = << >>
  /\ clean' = FALSE
  /\ alone' = (alone /\ ~Polling)
  /\ changed' = 0
  /\ UNCHANGED << alive, listenerVars, code, served, replies, mpc, mrow, polls, due,
                  news, seen, requestData, resultData >>

(* msgrcv blocks on an empty queue and takes the oldest command. *)
Receive ==
  /\ rpc = "recv" /\ msgq # << >>
  /\ hand' = << Head(msgq) >>
  /\ msgq' = Tail(msgq)
  /\ rpc' = "collect" /\ row' = 1 /\ items' = << >>
  /\ clean' = FALSE
  /\ alone' = (alone /\ ~Polling)
  /\ UNCHANGED << alive, listenerVars, code, served, replies, mpc, mrow, polls, due,
                  news, seen, requestData, resultData, changed >>

(* Faulty variant: the loop takes the row beyond the ones announced, too. *)
CollectRowBeyond ==
  /\ rpc = "collect"
  /\ IF row <= changed
     THEN /\ items' = Append(items, ResultRow(row))
          /\ row' = row + 1
          /\ UNCHANGED rpc
     ELSE /\ rpc' = "write"
          /\ UNCHANGED << items, row >>
  /\ UNCHANGED << alive, listenerVars, hand, code, served, replies, mmsVars, sharedVars >>

(* One turn of the for loop; the bound is read again on every turn. *)
CollectRow ==
  /\ rpc = "collect"
  /\ IF row < changed
     THEN /\ items' = Append(items, ResultRow(row))
          /\ row' = row + 1
          /\ UNCHANGED rpc
     ELSE /\ rpc' = "write"
          /\ UNCHANGED << items, row >>
  /\ UNCHANGED << alive, listenerVars, hand, code, served, replies, mmsVars, sharedVars >>

(* The response leaves the responder: it carries sigData's stamp and count. *)
Settle(c) ==
  /\ served' = served \o hand
  /\ replies' = Append(replies, [items |-> items, code |-> c, due |-> due,
                                  news |-> news, alone |-> alone])
  /\ hand' = << >>
  /\ rpc' = "clear" /\ row' = 0

(* Faulty variants: the write is never repeated, or until it succeeds. *)
RepeatsNever(c)  == FALSE
RepeatsAlways(c) == c # "OK"

(* The do-while condition: any other error is only logged. *)
Repeats(c) == c = "TIMEOUT"

Write(c) ==
  /\ rpc = "write"
  /\ code' = c
  /\ IF Repeats(c) THEN UNCHANGED << served, replies, hand, rpc, row >>
                   ELSE Settle(c)
  /\ UNCHANGED << alive, listenerVars, items, mmsVars, sharedVars >>

(* Faulty variant: the size given to memset is that of one row. *)
ClearedOne == {0}

(* The rows memset covers. *)
Cleared == RowIndex

(* memset over ResultData, row by row. *)
ClearRow ==
  /\ rpc = "clear"
  /\ row \in Cleared
  /\ resultData' = [resultData EXCEPT ![row] = Empty]
  /\ row' = row + 1
  /\ UNCHANGED << alive, listenerVars, rpc, hand, items, code, served, replies, mmsVars,
                  msgq, requestData, changed >>

(* Faulty variant: the flag is left as it is. *)
ChangedKept(flag) == flag

(* The value the flag is reset to. *)
ChangedAfter(flag) == 0

(* is61850_Changed = 0, and back to msgrcv. *)
ResetChanged ==
  /\ rpc = "clear" /\ row \notin Cleared
  /\ changed' = ChangedAfter(changed)
  /\ rpc' = "recv" /\ items' = << >>
  /\ due' = 0 /\ news' = 0 /\ alone' = ~Polling
  /\ UNCHANGED << alive, listenerVars, hand, row, code, served, replies, mpc, mrow, polls,
                  clean, seen, msgq, requestData, resultData >>

(* A CORBA exception in svc() is printed and the thread ends. *)
ResponderThrows ==
  /\ rpc \in {"match", "write"}
  /\ rpc' = "done"
  /\ UNCHANGED << alive, listenerVars, hand, row, items, code, served, replies, mmsVars,
                  sharedVars >>

-----------------------------------------------------------------------------
(* The MMS-Lite client (external). *)

(* A poll starts once there is a domain and an item to ask for. *)
PollBegins ==
  /\ mpc = "idle" /\ polls < MaxPolls
  /\ \A r \in {0, 1} \cap RowIndex : requestData[r] # NoRow
  /\ polls' = polls + 1
  /\ mpc' = "row" /\ mrow' = 1
  /\ clean' = (rpc \in {"match", "recv"})
  /\ alone' = (alone /\ rpc \notin {"collect", "write"})
  /\ seen' = Append(seen, Stored)
  /\ UNCHANGED << alive, listenerVars, responderVars, due, news, sharedVars >>

(* The reply to row mrow starts to be copied over the old text. *)
StoreBegins ==
  /\ mpc = "row" /\ mrow < Rows /\ requestData[mrow] # NoRow
  /\ resultData' = [resultData EXCEPT ![mrow] = Torn]
  /\ mpc' = "store"
  /\ UNCHANGED << alive, listenerVars, responderVars, mrow, polls, clean, due,
                  news, alone, seen, msgq, requestData, changed >>

(***************************************************************************)
(* ... and is complete.  When memset cleared the row in between, the text  *)
(* is cut at the front, kept in part, or kept.                             *)
(***************************************************************************)
StoreEnds ==
  /\ mpc = "store"
  /\ \E v \in (IF resultData[mrow] = Torn THEN {polls} ELSE {polls, Empty, Torn}) :
       resultData' = [resultData EXCEPT ![mrow] = v]
  /\ mpc' = "row" /\ mrow' = mrow + 1
  /\ UNCHANGED << alive, listenerVars, responderVars, polls, clean, due,
                  news, alone, seen, msgq, requestData, changed >>

(* The number of rows, the domain's included, is published in the flag. *)
PollEnds ==
  /\ mpc = "row"
  /\ mrow < Rows => requestData[mrow] = NoRow
  /\ changed' = mrow
  /\ mpc' = "idle"
  /\ due' = IF clean THEN polls ELSE due
  /\ news' = IF rpc \in {"write", "clear"} THEN news ELSE polls
  /\ UNCHANGED << alive, listenerVars, responderVars, mrow, polls, clean, alone,
                  seen, msgq, requestData, resultData >>

-----------------------------------------------------------------------------
(***************************************************************************)
(* exit(): msgget, msgsnd or a CORBA exception in on_data_available,       *)
(* msgget, wait or msgrcv in svc().  The whole process stops.              *)
(***************************************************************************)
Exit ==
  /\ \/ lpc = "idle" \/ lrow = sample.rows
     \/ rpc \in {"match", "recv"}
  /\ alive' = FALSE
  /\ UNCHANGED << listenerVars, responderVars, mmsVars, sharedVars >>

Listener ==
  \/ \E c \in Counts, k \in ReqRows : TakeData(c, k)
  \/ TakeNoData
  \/ CopyRow
  \/ SendCommand

Responder ==
  \/ ReaderMatched
  \/ Receive
  \/ CollectRow
  \/ \E c \in {"OK", "ERROR", "TIMEOUT"} : Write(c)
  \/ ClearRow
  \/ ResetChanged
  \/ ResponderThrows

Mms == PollBegins \/ StoreBegins \/ StoreEnds \/ PollEnds

Next == alive /\ (Listener \/ Responder \/ Mms \/ Exit)

(***************************************************************************)
(* What the scheduler and the middleware owe the code: a thread that can   *)
(* take its next step takes it, and write() does not time out for ever.    *)
(* Nothing is promised about samples arriving, a reader being matched, the *)
(* device answering, or failures.                                          *)
(***************************************************************************)
ListenerProgress  == alive /\ (CopyRow \/ SendCommand)
ResponderProgress ==
  alive /\ \/ Receive \/ CollectRow \/ ClearRow \/ ResetChanged
           \/ \E c \in {"OK", "ERROR"} : Write(c)

Fairness == WF_vars(ListenerProgress) /\ WF_vars(ResponderProgress)

Spec     == Init /\ [][Next]_vars
FairSpec == Spec /\ Fairness
=============================================================================
