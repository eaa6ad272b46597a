# A TLA+ model of the DDS to IEC 61850 gateway

This directory holds specifications, model-checking configurations and machine-checked proofs for
`dds_iec61850_gateway`: a client ("DMS", `DDS_Client`) and a gateway ("MGMS", `DDS_Server`) that
exchange requests and responses over two OpenDDS topics, the gateway with an MMS-Lite client for
IEC 61850 devices on its other side. The source is the reference; what it does is modelled, also
where a comment or the repository's README says something else (see *Findings*).

Check one configuration with `tlc -config server_queue.cfg MCMgmsServer.tla`, and the
proofs of a module with `tlapm MgmsServerProofs.tla`. `PROJECT.json` lists components, runs,
faulty variants of definitions (each breaks one property), the source lines of each definition,
hazards, findings and theorems.

## 1. Inventory

```
 DDS_Client (DMS)                                          DDS_Server (MGMS)
  Writer::svc ----- "Request Topic" (Message) ---->  DataReaderListenerImpl::on_data_available
                                                        | strcpy           | msgsnd
                                                        v                  v
                                              IEC61850_RequestData     System V queue
                                                        | read             | msgrcv
                                                        v                  v
                                                   MMS-Lite client    RespWriter::svc
                                                        |                  ^
                                                        +-> IEC61850_ResultData, is61850_Changed
  RespDataReaderListenerImpl::on_data_available <--- "Response Topic" (Message) --- RespWriter::svc
```

| component | state | operations | interacts by |
| --- | --- | --- | --- |
| gateway listener (`DataReaderListener.cpp`) | `message`, `counts_`, `valid_`, `mQ`, `interArrivalFile`; owns the two arrays and the flag | `on_data_available`, `is_valid` | called by a transport thread; posts commands; writes RequestData |
| responder (`RespWriter.cpp`) | `sigData`, `items`, `finished_instances_` | `svc` | takes commands; reads and clears ResultData and the flag; writes responses |
| MMS-Lite client (not in the repository) | its connection | `client_run` | three pointers: RequestData, ResultData, `is61850_Changed` |
| client writer (`Writer.cpp`) | `message.count`, `time_stamp`, `finished_instances_` | `svc` | writes requests, never waits for an answer |
| client listener (`RespDataReaderListener.cpp`) | `mQ`, `counts_`, `valid_`, two files, `rtt_file_count` | `on_data_available`, `is_valid` | called by a transport thread |
| main threads (`DDS_Server.cpp`, `DDS_Client.cpp`, `Args.h`) | the entities, `matches` | create all, start the writer thread, poll, join, delete, follow the matched status | `is_finished`, `wait`, status conditions |
| topics (`Messenger.idl`, `qosxmls/`) | samples on their way | write, deliver, lose | best effort, volatile |
| XML documents (`XMLParser.cpp`) | none | build request and response trees, find a node | called by all four threads |
| options and QoS (`Args.h`, `loadQosXML` in both mains) | the flags, six QoS | `parse_args`, `loadQosXML` | first steps of both mains |
| marshalling (generated `MessengerTypeSupport*`, `MessengerC*`) | none | size, serialize, deserialize, skip, get a field, copy and compare by field | called by the middleware |

What is hard here, and what makes each part correct:

* **Gateway process.** Three threads share two arrays and a flag with no lock, and the queue blocks
  both ways. Correct: every request is answered once, in order, with its own stamp and count
  (`InOrder`, `ImplementsFifo`); the transport thread is given back (`ListenerReturns`); the reply
  of a device reaches at most one response, and one that comes in a quiet moment is not lost
  (`DeliveredOnce`, `OnePerPublication`, `QuietPollDelivered`); a publication is erased, and rows are
  mixed or cut, only where a poll overlaps a response or the reset before it (`AsPublished`);
  uninitialised memory does not go on leaking (`GarbageOnlyFirst`). The queue's key is `getpid()` and nobody removes it: commands of a
  process that died wait for the next one with its number, which answers them before its own.
* **Logs.** Inter-arrival times come out right only when the samples 0 and 1 came first, once each
  (`IntervalSpan`); round-trip rows change file every 10000 counts, and files are closed at 499999
  although the writer goes on to 1000000 (`CleanRun`, `UseAfterClose` on both sides).
* **End to end.** Loss, reordering, repeated writes, a restarted client and a restarted gateway, with
  or without the queue of the one before: where each request is
  (`Accounted`), that a round-trip row measures the request it names (`RowsPaired`), order
  (`OrderKept`) and that nothing stays on its way for ever (`Answered`).
* **Verdict.** `is_valid` walks a set beside a counter, with an inner loop and two `continue`
  (`VerdictExact`, `Terminates`).
* **Start.** Two processes create their entities in any relative order, listeners work before main
  is done, and each writer thread waits for the other process. A start that fails must leave no
  exchange half done (`CleanFailure`), a request must find its sender able to read the answer
  (`SentWhenReading`), and the two waits must not be circular (`ExchangeStarts`). `-w` is declared
  to take an argument and so swallows the next option (`OptionsHeard`); `main` ignores whether the
  QoS could be read, and two ends with different QoS need not match.
* **Main threads.** The writer must not be deleted while its thread uses it (`NoUseAfterDelete`),
  and no change of the matched status may be missed (`NoMissedChange`).
* **Documents.** `findNodeByName` recurses into children before siblings and must find the first
  `DOMAIN-SPECIFIC` node (`FirstInOrder`, `ExtractEnds`); a request is sent indented, so that every
  other child the listener's loop meets is a text node, and nothing clears the array between
  requests (`RowsCopied`, `ItemsArrive`). Neither the number of rows nor their length is compared
  with the array: `strcpy` runs on into the next row, and from the last out of the array
  (`OverrunCaused`). A response names its items again (`ItemsReturned`).
* **Marshalling.** Each type has six functions that must name its members in the same order, pad
  alike, and count what they write (`SizeExact`, `RoundTrip`); skipping a text keeps 16 bits of its
  length (`FilterAgrees`, proved only); copying by field must not forget one (`JoinFaithful`).

## 2. Modules

| module | models | proofs |
| --- | --- | --- |
| `InterArrival` | the queue of times both listeners keep | |
| `MgmsServer` | the gateway process: listener, responder, MMS thread | |
| `MgmsServerProperties` | its properties, and the refinement mapping | |
| `MCMgmsServer` | what its queue holds at the start, for TLC | |
| `FifoResponder` | abstract: a bounded fifo that answers, opens, halts and is restarted | |
| `MgmsServerProofs` | | types, order, refinement, what a crash leaves |
| `MgmsDataProofs` | | the arrays and the flag the threads share, the gateway's interval log |
| `DmsClient` | the client process, with its topics left open | |
| `Gateway` | client, topics and `FifoResponder` together, restarts | |
| `GatewayProperties` | end-to-end properties | |
| `GatewayProofs` | | all of its safety properties |
| `SampleValidity` | `is_valid()` of both listeners | |
| `SampleValidityProofs` | | the verdict |
| `Startup` | both mains from the command line on, with discovery and the first exchange | |
| `MCStartup` | its command lines, for TLC | |
| `StartupProofs` | | types, what a failed or finished start leaves behind, which options are heard |
| `ProcessMain` | the main thread of either process, from there on | |
| `ProcessMainProofs` | | deletion, matched status |
| `XmlTree` | documents as sequences of nodes, the requests and responses `XMLParser` builds | |
| `RequestRows` | `findNodeByName` and the copy of the rows | |
| `RequestItems` | `RequestRows` over the documents `XMLParser` builds: `ItemsArrive`, `ItemsReturned` | |
| `MCRequestRows` | arbitrary small documents beside those, for TLC | |
| `RequestRowsProofs` | | types, the search finds the first node, the rows copied, the overrun, items arrive and are returned |
| `MessageCodec` | the generated code between a sample and its octets | |
| `MCMessageCodec` | texts and buffers for TLC | |
| `MessageCodecProofs` | | sizes, round trip, skipping, copying by field |

`RequestRows` refines one aspect of `MgmsServer`: the latter counts the rows of a request and copies
them one by one among other threads' steps; the former shows which rows those are.

`Gateway` does not repeat the gateway's threads: it takes `FifoResponder`, which `MgmsServer` is
proved to implement, in their place. `FifoResponder` has a `Restart` that is not a step of one
process: `CrashCorrect` says that what a killed gateway leaves on the queue is what `Restart` keeps.

### How the models read the code

*A request* is named by its `time_stamp`: the n-th request has stamp n. `time_stamp` and `count` are
all that travels from a request to its response; the text of a request matters by its number of
`DOMAINID` rows, the text of a response by the rows of ResultData it carries.

*`MgmsServer`*: `lpc` and `rpc` are the program counters of `on_data_available` and `svc`.
A row copied with `strcpy` is one step of the listener (`CopyRow`) and two of the MMS thread
(`StoreBegins`, `StoreEnds`), so that the responder can read a row that is cut (`Torn`);
`CollectRow` is one turn of the responder's loop and reads the flag again as the loop condition
does; `ClearRow` is `memset`, row by row. `Empty` and `NoRow` are empty strings, `Garbage` is what
the constructor did not initialise, or lies beyond the array. `TakeData` is guarded by nothing but
a sample being there; the counts it may carry are a constant, so that repeated, lost and overtaken
requests are all tried. `Exit` is every `exit()` in the two threads, `ResponderThrows` the
CORBA exception that ends `svc` and leaves the listener posting to nobody.
The MMS thread is external. It polls when the first two rows of RequestData are there, stores
the replies from row 1 on and sets the flag to the number of rows, the domain's included; the
responder's loop (`u=1; u<is61850_Changed`) leaves no other reading. `Stales` is what the queue
may hold when the process starts: commands of a dead process, named by stamps of 0 and below.
Four histories follow the polls: `clean` and `due` a poll in idle time, `news` what the flag stands
for as long as the responder has still to look at it, `alone` that no poll overlapped the reset
before a response or its making. A request may have no row at all; the rows then keep their texts.
A text that does not fit its row is left to `RequestRows`.

*`DmsClient`*: `Prepare`, `Write` are the two halves of the writer's loop; `Take` is
`on_data_available`, whole. A `FILE` is `open`, `closed`, or `broken` once it was used closed, which
is undefined: what is printed to it then is not modelled. `Restart` is a client that was killed or
left through `exit()`: counts from 0, files emptied; the gateway's backlog and the requests
on their way stay. `Gateway` adds `GatewayRestarts`: the abstract `Restart`, with the samples on their
way to the dead process lost and its match with the client's reader to be made anew.

*`ProcessMain`*: from the start of the writer thread. `SvcFinishes` and `SvcExits` are apart because
`is_finished()` is true between them. `Fail` is every `return -1` and caught exception on the way;
with `-m` the MMS thread has not been joined then, and destroying a joinable `std::thread` ends the
process (`"aborted"`).

*`Startup`*: `ServerSteps` and `ClientSteps` are the calls of the two mains in order; `Create` does
the next, `Fail` is its early return. The first is `parse_args`, one letter a step, as `ACE_Get_Opt`
(external) cuts the words by `"t:prw:m"`: a word may have several letters (`-mr`); `-t` and `-w` take
what is left of the word as their argument (`-tudp`), or else the next word, whatever it looks like;
words that do not begin with `-` are passed over, and all that are behind `--`. `Usage` is the error
return: an unknown letter, a missing argument, or `-p` where no transport is configured. `LoadQos`
reads any part of the six QoS; what is kept is for which end all it needs came from the profile. What each side knows of the other (`matched`, `known`) is set by two external actions of
their own, since discovery is not simultaneous; they may happen to any two ends, and are only relied
on between ends that are `Alike` in QoS and transport. The exchange after that is cut down to "a
request was sent, taken, answered": the other modules have the rest.

*`XmlTree`, `RequestRows`*: a document is the sequence of its nodes in document order, each with the
position of the last node of its subtree; `children` and `next` are libxml2's pointers computed from
that. One step of `findNodeByName` is one turn of its `while` loop, and `callers` is the call stack:
the nodes into whose children the calls in progress were made. `Printed` builds what
`xmlNodeDump` prints and `xmlParseDoc` reads back: with a text node of blanks before
each element and each closing tag. A document without the node sought, or a text that does not parse
(`TakeUnparsable`), ends in `"crashed"`: the listener follows a null pointer. The array is memory:
row r begins at `Address(r)`, each text has its `TextLength`, and `strcpy` writes the `Octet`s of a
row's content, all the texts below the `DOMAINID` one behind the other, and its terminator. What is
longer than its row goes on into the next ones, over which the next copy is written. To leave a row is
undefined for the language, so that a build may also end there: from a copy that does not stay
`InRow` the model may go on (`CopyRow`) while it is `InArray`, or end in `"overrun"` (`Overrun`), and
must end there when it is not.

*`MessageCodec`*: each generated function is the sequence in which it names the members of its type,
and is run one member a step. Octets have `Radix` values, so that the 16 bits of the cast in
`gen_skip_over` are two digits and a text can be too long for them. The `Serializer` of the
middleware (alignment, the layout of a member, the check of a length) is external.

Faulty variants ("Faulty variant: ..." in a comment) stand before the definition they vary and are
used by no specification.

## 3. Runs

| run | states | shows |
| --- | --- | --- |
| `server_queue` | 396 496 | type, order and pairing, interval log, closed log, refinement of `FifoResponder`, requests answered, listener returns: four requests with any counts of 1..3, queue of one, which may be full with a stale command at the start, no MMS |
| `server_data` | 4.9 million | what device data a response carries, which publications are erased and when rows are mixed: two requests of no, two or three rows, two polls, three rows, both kinds of initial flag |
| `server_device` | violation | the README's request path |
| `gateway_lossy` | 380 790 | accounting, pairing, and every request logged or lost in the end, with loss, reordering, time-outs and a restart of each process |
| `gateway_logs` | 7.0 million | log files over two changes of file, the closing count and a restart of each process, with loss |
| `validity` | 5 888 | the verdict of `is_valid()` on every set of counts -2..5 |
| `validity_quarter` | violation | what the comment over the last test of `is_valid()` claims |
| `startup` | 323 893 | which options are heard, what failed starts leave behind, no circular wait, in any order of the two processes and with any part of the QoS unread |
| `xml` | 406 632 | node found, rows copied, overrun of a row and of the array, items named in a response; two documents in a row: all of up to four nodes, all six that `XMLParser` builds with up to four items, and texts that do not parse |
| `codec` | 136 371 | size, marshalling, copy by field, of every type of `Messenger.idl` in both encodings |
| `main` | 239 | deletion, matched status, release of the writer |
| `main_publisher` | violation | "Block until Publisher completes" |

**Bounds.** `MaxSamples` and `MaxPolls` bound histories; they are as large as the shortest stories
need: an interval needs two priming samples, a repeat and one more (4); data of a poll that could be
sent twice needs two polls and two responses. `QueueCap = 1` with more requests than the `QueueCap +
2` the gateway holds, or exactly as many, makes `msgsnd` block; 512 is the real value, and one stale
command fills the queue. `Rows` is 2
or 3: one row beyond the domain's, and one more so that a poll can be cut between rows; `InitChanged
= {0, 4}` has a value beyond the array. `RotateEvery = 2`, `CloseCount = 2` or `3` stand for 10000
and 499999: a run passes both. `Requests` is 4 where the files matter, 2 where the order of two
requests of two runs does; `Runs = 2` and `Processes = 2` are one restart of each side.
`NumMessages = 4` stands for 40: a quarter is then one message, and every
combination of gaps, negatives and surplus counts occurs. `startup` has eighteen command lines of the
gateway (each option, alone and several in a word, those that swallow another, with the argument in
the word, behind it or missing, unknown and long ones, `-` and `--`, words that are no options) and two
of the client, and a queue of 2, so that it is neither always full nor
never. In `xml`, `MaxNodes = 4` has every
nesting of a decoy, a `DOMAIN-SPECIFIC` and a `DOMAINID` element with text; `MaxDocuments = 2` lets
a short request follow a long one, and `MaxItems = 4` with `Rows = 4` has requests that leave a row,
fill the array and pass it. `RowSize = 2`, and texts have one octet, six (`"long"`) or none: one fits a
row, two below one `DOMAINID` do not, and a long one fills what is left behind row 0 and leaves the
array from any other. In `codec`, octets have three
values: 16 bits end at 9, and texts and buffers have lengths on both sides of that and of their bound
(`MaxOctets = 9`); three slots stand for the 100 of a `StringArray`. No
safety property of a passing run rests on the bounds: all are proved (section 5).

**Deadlock** is not checked: the environment stops at its bounds, `msgrcv` and `msgsnd` block for
ever in legal states, and a process that left through `exit()` takes no step. What must not
stop is stated as liveness.

**Fairness.** `MgmsServer`: each thread that can take its next step takes it (the operating system's
scheduler), and `write()` returns something other than TIMEOUT in the end, since `Repeats` has no
limit of its own. Nothing is assumed of requests, polls, matches, exceptions or exits. The liveness
properties name those as exceptions. `Gateway`: in addition, live peers discover each other and a
topic delivers what it does not lose; a sample is lost at any time or never, `lost` keeps which, and
`Lossy = FALSE` would stand for the RELIABLE setting that both QoS files have as a comment; that a
serving gateway answers is `RequestsAnswered`. A client that has stopped for good is outside
`Answered`. `SampleValidity`: the loop runs. `Startup`: the mains (`MainStep`, `Usage` included) and the writer
threads go on, and discovery between ends that are `Alike`; failures, and ends that are not alike, are
exempt by `ExchangeStarts` itself. `RequestRows`: the transport thread runs.
`ProcessMain`: both threads run; `EndingSpec`, for the violation only, also lets the writer's loop
end.

## 4. Findings

* `server_device`. The README (lines 52-53) has the gateway ask the device and answer with the
  device's response. `RespWriter::svc` answers at once, from whatever ResultData and the flag
  hold: no row, or rows of a poll that began before the request was stored.
* `validity_quarter`. `is_valid()` is to report an error when not "even 1/4" of the messages came
  (`DataReaderListener.cpp:280`), or counts "higher than expected values" (:277). Over an unreliable
  transport it counts samples without looking at their counts: ten samples, none of them expected,
  pass.
* `main_publisher`. "Block until Publisher completes" (`DDS_Server.cpp:215`, `DDS_Client.cpp:210`)
  stands over an endless loop: verdict, clean-up and `exit(0)` are never reached.

## 5. Proofs

All theorems hold for every value of the constants that the modules' assumptions allow; they need
no bound on requests, polls, rows or publishers, nor any fairness.
`MgmsServer` assumes of the queue it
finds at the start only that it is within `QueueCap` (`StaleAssumption`).

`MgmsServerProofs` (its first part is on sequences put together from the places of a command):

* `TypeCorrect`, `TypeInvariant`: `Spec => []TypeOK`. `TypeOK` is not inductive by itself:
  `TypeInv` adds where the program counters leave the other variables (`ControlOK`: a listener
  that copies has a sample; the responder's hand is full exactly while it collects and writes).
* `OrderCorrect`: `Spec => []InOrder`. Its heart is the lemma `Moves`: each step appends a request
  at the far end, moves one command over one of the boundaries listener | queue | hand | served, or
  leaves all four alone, and so leaves their concatenation what was received, behind the stale
  commands the process found.
* `FifoCorrect`: `Spec => ImplementsFifo`. The same lemma says which step of `FifoResponder` a step
  of the process is; the backlog is `hand \o msgq \o Pending`, and `QueueCap + 2` bounds it because
  each end holds one at most. It is what allows `Gateway` to use `FifoResponder`.
* `CrashCorrect`: `Spec => []CrashLeaves`. At any moment the queue, and the empty queue, are among
  the `Survivors` of the abstract backlog, which is what `Gateway`'s restart starts from.

`MgmsDataProofs`, on the two arrays and the flag; every step below the granularity of a row is
considered, and nothing is assumed of when the MMS thread runs:

* `GarbageCorrect`: `Spec => []GarbageOnlyFirst`, from `GarbageInv`: while `memset` runs, the rows
  it has passed are clean, and from then on all are, and the flag stays within the array.
* `PublicationCorrect`: `Spec => []OnePerPublication`. `PublishInv` counts: responses with rows, and
  one more while rows are in the responder's hand or announced by the flag (`Held`), are at most the
  polls published and one for an uninitialised flag.
* `DeliveryCorrect`: `Spec => []DeliveredOnce`. `DeliverInv` says that what lies in a row was written
  by a poll that is done with that row (`Written`), so that no poll writes it again, and that what a
  response carried has left the row once `memset` has passed it.
* `QuietCorrect`: `Rows > 1 => (Spec => []QuietPollDelivered)`; the code's array has 100 rows, with a
  single one there is no row for a reply. `PollInv` follows a poll that runs while the responder
  waits, `DueInv` its rows from the flag to the response.
* `PublishedCorrect`: `Rows > 1 => (Spec => []AsPublished)`, on top of those two: `NewsInv` says that
  the flag stands for `news` while the responder has still to look at it, and that, without an
  overlap, the rows announced and the rows collected are all of that poll.

The same module, on the interval log:

* `CloseCorrect`: `Spec => []UseAfterClose`, from what the counts up to the last sample say of the
  file.
* `IntervalCorrect`: `Spec => []IntervalSpan`. By `ClockInv` the queue of times holds the last of
  the arrivals (`LastTimes`), as many as there were samples 0 and 1 (`PrimersOf`): each later sample
  takes one time away and leaves its own.

`SampleValidityProofs`:

* `ExactCorrect`: `Spec => []VerdictExact`, for every number of messages and every set of counts.
  `WalkInv` says of the counts already passed that they are `0 .. expected - 1` over a reliable
  transport, and `expected` many otherwise. Where the walk takes the smallest element left, the proof
  needs that there is one: `WellFoundedInduction` gives it.

`ProcessMainProofs`:

* `MainTypeCorrect`, with `ReleaseInv`: main is past the join only when the thread has exited.
* `UseCorrect`: `Spec => []NoUseAfterDelete`.
* `ChangeCorrect`: `Spec => []NoMissedChange`, inductive as it stands.

`GatewayProofs`, on client, topics and gateway together, for every number of requests, of runs of the
client and of processes of the gateway, with topics that lose and reorder or do not. `Invariance` is
`Spec => []GatewayInv`, with one part for each of the others:

* `TypeCorrect`: `Spec => []TypeOK`. `TypeInv` adds what the writer may prepare next (stamps
  and counts rise by one in a run), and that whatever is on its way, answered or logged is a
  prepared request with its own count (`Copies`).
* `AccountedCorrect`: `Spec => []Accounted`, from `PlaceInv`: the six places share `1 ..
  Len(prepared)` among them, and none of the four sequences has a stamp twice. `Accounted` counts
  places and elements; the proof moves sets, and the two are tied together once, at the end.
* `PairedCorrect`: `Spec => []RowsPaired`, from `Copies(rtt, prepared)` in `TypeInv`.
* `OrderCorrect`: `Spec => []OrderKept`. Log order is not inductive: `OrderInv` orders each place
  and every two places, since what is farther on its way must be older whatever restarts and
  losses cut out of the middle. `Thins` and its lemmas say that a sequence with elements left out keeps all this.
* `CloseCorrect`: `Spec => []UseAfterClose`; `FilesInv` adds that a file is open until the closing
  count is among the responses.
* `CleanCorrect`: `Spec => []CleanRun`. `RowInv` says that without loss or overtaking the places, one
  after the other, hold the stamps 1, 2, 3 and so on, so that the next response is the next count;
  `LogInv` gives the number of the file, by division, and what the queue of times holds.

`RequestRowsProofs`, for documents of every size and shape and any number of them:

* `FirstCorrect`: `Spec => []FirstInOrder`. `FirstInOrder`
  speaks of the end of the search only; `SearchInv` adds that the calls in progress are a path of
  the document with `node` a child of its last (`OnPath`), and that no node before the
  `Frontier` has the name (`NoneBefore`). When a call runs out of siblings the frontier is the end
  of its caller's subtree, and the lemma `NextSibling` on `next` shows that it stays there as the
  calls return. A text that does not parse is the document without nodes.
* `TypeCorrect`: `Spec => []TypeOK`; `RowsCorrect`: `Spec => []RowsCopied`; `OverrunCorrect`: `Spec
  => []OverrunCaused`. `RowsInv` follows the loop of the listener: what it has `Passed`
  of the rows, in document order, lies in the array as far as the row behind it left it there, and
  what none of them covered is as it was `before` (`RowsKept`); all of them stayed in the array, and
  where the copy stopped short, the row it stopped at is not `InRow` (`AtChild`). The lemmas on sums
  (`SizeIs`) are there because the length of a row is that of all its texts.
  The properties speak of the rows of the whole document: `Passed` becomes those when
  there is no child left, as no node behind the last child is one.
* `ReturnedCorrect`: `Spec => []ItemsReturned`; `ArriveCorrect`: `Spec => []ItemsArrive`, for every
  vector of items and of values. The first part is about `Printed` alone: elements start where the
  widths before them add up to (`StartsAt`, `StartsGrow`), each node belongs to one element
  (`OwnerIs`), and so the nodes of a document with indentation are known (`NodesIs`). The lemma
  `ListingReads` says of a spine with leaves below it that one node has the spine's last name, that
  its children of the leaves' name are the leaves in order, and that the content of each is its value.
  Read as a request, those children are the rows of `RowsCopied` (`RequestReads`), and `FirstInOrder`
  excludes the crash; read as a response they are the floats (`ResponseReads`). The directory
  documents have no node of the name sought (`OtherNames`). `ItemsAssumption` is what the code's own
  items meet: they have a text and it fits a row, as the domain's does; `"none"` is the model's word
  for an element without text.

`StartupProofs`, whatever the command lines and whatever of the QoS was read:

* `FailureCorrect`: `Spec => []CleanFailure`; `ReadingCorrect`: `Spec => []SentWhenReading`. From
  `StartInv`: a thread runs exactly where all steps succeeded, only a
  working client thread sends, only an existing reader takes.
* `TypeCorrect`: `Spec => []TypeOK`; `OptionsCorrect`: `Spec => []OptionsHeard`. `ArgsInv` adds that at
  each letter the flags set so far are those of the letters before it (`Heard`), and that the
  word `parse_args` stands at is itself no argument and behind no `--`, which is what `LookedAt` says
  of the line as a whole.

`MessageCodecProofs`, for every radix, every number of slots, every bound, and all texts, numbers
and buffers. `LengthAssumption` says that the length of any of them is a number a `ULong` holds, as
it is in memory. `Invariance` is `Spec => []CodecInv`, where:

* `Ends` gives the octet each member ends at, as a function over the members (`Chain`), from the
  alignment and the lengths alone. `WriteInv`: `gen_find_size` has counted as many octets as the members
  before `k` end at, and the stream holds those members, each octet where it belongs (`Written`).
  The lemmas `WriteOne` and `EndsOrder` say that one more member disturbs none before it. From them
  `SizeCorrect`: `Spec => []SizeExact`.
* `ReadInv`: the reader stands where a member ends, and the sample it fills agrees with the one that was
  written in the members read (`Copied`). The lemma `ReadBack` is that the number in front of a
  member is the one written, for which `NumberOf` takes four digits together again, and that its octets lie
  in the stream. From them `RoundTripCorrect`: `Spec => []RoundTrip`; `BoundedIs` says that only
  a contents beyond its bound is refused.
* `SkipInv`: where lengths are `Short`, skipping stands where a member ends too (`SkipToIs`), and no member
  passed is the one asked for. From them `FilterCorrect`: `Spec => []FilterAgrees`; no
  topic has a filter, and no run checks it.
* `JoinInv`: what was assigned agrees in the names passed (`Joined`); a sample that agrees in all its
  names is the sample (`WholeJoin`). From them `JoinCorrect`: `Spec => []JoinFaithful`.

Proofs of three modules need induction over a natural number, which the library states for an
operator and the provers cannot instantiate. The lemma `Induction` states it for a set of numbers, from
the least element that well-foundedness gives.

Only model-checked: liveness (`RequestsAnswered`, `ListenerReturns`, `Terminates`,
`WriterReleased`, `Answered`, `ExtractEnds`, `ExchangeStarts`), since the prover does not treat
fairness or ENABLED. The violations of section 4 are TLC's.

## 6. Not modelled

* The CORBA object references of the generated code (`_duplicate`, `_narrow`, reference counts): the
  counts change in pairs within a scope, and main holds what the threads use for as long as they run.
* Of the generated code also the `Any` and `TypeCode` parts, and what the middleware does with
  `MetaStruct` (content filters, joins): no topic of the gateway has a filter. The functions
  it would call are in `MessageCodec`.
* Security: the certificates and the permissions of the profiles are read by the middleware only.
* The MMS-Lite client, a library that is not in the repository; `MgmsServer` has what can be told
  from the three pointers it is given.
* `traverse_document`, which prints and is never called, and `freeXMLDoc`; documents that are not
  freed, and other memory that grows.
* `num_reads_`, `isReceived` (never TRUE where it could matter) and everything that is only printed.
* Two clients at once: a client logs every response on its topic, also those to another one.
* The Perl drivers of the tests, which start the two processes.

## 7. Plan

Done: the gateway process with all its safety properties proved; the end-to-end composition with
restarts of both processes; the verdict; start, options, QoS and main threads; request and response
documents; marshalling.

Left:

1. Two clients on one response topic: responses have no correlation but stamp and count.
2. What the device is asked for: the MMS thread beside `RequestRows`, whose `RowsCopied` says which
   rows of two requests are in the array at each moment (`MgmsServer` has only whether a row is set).
3. Proofs: the abstraction that `Gateway` makes of the client's topics against their QoS.
