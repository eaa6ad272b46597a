------------------------------ MODULE Startup ------------------------------
(***************************************************************************)
(* The two processes while they start, side by side: each main reads its   *)
(* command line and its QoS profile, creates its DDS entities one after    *)
(* the other, gives up at the first that fails, and starts its writer      *)
(* thread at the end, after which it only polls.  The listeners are at     *)
(* work as soon as their reader exists; each writer thread waits for a     *)
(* reader of the other process.                                            *)
(***************************************************************************)
EXTENDS Integers, Sequences

CONSTANTS
  QueueCap,       \* commands the gateway's queue holds (512)
  CommandLines    \* per process: the words behind its name, as it may be started;
                  \* a word is a sequence of letters

Processes == {"DDS_Client", "DDS_Server"}
Peer(p) == IF p = "DDS_Client" THEN "DDS_Server" ELSE "DDS_Client"

ASSUME StartupAssumption ==
  /\ QueueCap \in Nat \ {0}
  /\ \A p \in Processes : CommandLines[p] \subseteq Seq(Seq(STRING))

(* Faulty variants: the writer thread is started before the reader exists, *)
(* or the reader is created in front of the writer.                        *)
ServerStartsEarly ==
  << "options", "qos", "participant", "type", "topic", "publisher", "writer", "start",
     "topic", "subscriber", "reader" >>

ServerReadsFirst ==
  << "options", "qos", "participant", "type", "topic", "subscriber", "reader",
     "topic", "publisher", "writer", "start" >>

ClientStartsEarly ==
  << "options", "qos", "participant", "type", "topic", "publisher", "writer", "start",
     "topic", "subscriber", "reader", "status" >>

(* Response topic first in one, Request topic first in the other: "writer" *)
(* and "reader" are the process's only ones.                               *)
ServerSteps ==
  << "options", "qos", "participant", "type", "topic", "publisher", "writer",
     "topic", "subscriber", "reader", "start" >>

ClientSteps ==
  << "options", "qos", "participant", "type", "topic", "publisher", "writer",
     "topic", "subscriber", "reader", "status", "start" >>

StepsOf(p) == IF p = "DDS_Client" THEN ClientSteps ELSE ServerSteps

Transports ==
  { << "u", "d", "p" >>, << "t", "c", "p" >>,
    << "m", "u", "l", "t", "i", "c", "a", "s", "t" >> }
NoTransport == << >>

Flags == {"p", "r", "w", "m"}

(* wait_for_acks and use_mmslite start as TRUE in one process only. *)
FlagsSet(p) == IF p = "DDS_Client" THEN {"r", "w", "m"} ELSE {}

(* What the QoS of a writer, and of a reader, and all they lie in, come from. *)
Needs == [writer |-> {"participant", "publisher", "datawriter"},
          reader |-> {"participant", "subscriber", "datareader"}]

Profiles == Needs.writer \cup Needs.reader \cup {"topic"}

VARIABLES
  argv,      \* per process: its command line
  word,      \* per process: the word parse_args looks at
  letter,    \* per process: nextchar, its place in that word; 2 in a new word
  flags,     \* per process: the options that are set
  transport, \* per process: that of -t, or of its configuration file (NoTransport)
  qos,       \* per process: "writer", "reader": the one whose QoS could all be read
  done,      \* per process: how many of its steps succeeded
  failed,    \* per process: main returned, or exited, with -1
  svc,       \* per process, its writer thread: "off", "match", "work"
  matched,   \* per process: its writer knows the peer's reader
  known,     \* per process: its reader knows the peer's writer
  queue,     \* commands in the gateway's queue
  sent,      \* the client has written a request
  taken,     \* the gateway has taken one
  answered   \* the client has taken a response

config    == << argv, word, letter, flags, transport, qos >>
mains     == << done, failed, svc >>
discovery == << matched, known >>
exchange  == << queue, sent, taken, answered >>
vars == << config, mains, discovery, exchange >>

Init ==
  /\ \E server \in CommandLines["DDS_Server"], client \in CommandLines["DDS_Client"] :
       argv = [p \in Processes |-> IF p = "DDS_Client" THEN client ELSE server]
  /\ word = [p \in Processes |-> 1] /\ letter = [p \in Processes |-> 2]
  /\ flags = [p \in Processes |-> FlagsSet(p)]
  /\ transport = [p \in Processes |-> NoTransport]
  /\ qos = [p \in Processes |-> {}]
  /\ done = [p \in Processes |-> 0]
  /\ failed = [p \in Processes |-> FALSE]
  /\ svc = [p \in Processes |-> "off"]
  /\ matched = [p \in Processes |-> FALSE]
  /\ known = [p \in Processes |-> FALSE]
  /\ queue = 0 /\ sent = FALSE /\ taken = FALSE /\ answered = FALSE

Exists(p, entity) ==
  ~failed[p] /\ \E k \in 1 .. done[p] : StepsOf(p)[k] = entity

(* After start(), main is in the is_finished() loop. *)
InSetup(p) ==
  ~failed[p] /\ done[p] < Len(StepsOf(p)) /\ svc[p] = "off"

AtStep(p, step) == InSetup(p) /\ StepsOf(p)[done[p] + 1] = step

Finish(p) == done' = [done EXCEPT ![p] = @ + 1]

(* The process ends, and nothing is undone before. *)
GiveUp(p) ==
  /\ failed' = [failed EXCEPT ![p] = TRUE]
  /\ matched' = [matched EXCEPT ![p] = FALSE]
  /\ known' = [known EXCEPT ![p] = FALSE]

-----------------------------------------------------------------------------
(* parse_args, letter by letter, as ACE_Get_Opt (external) cuts "t:prw:m". *)
Current(p)   == argv[p][word[p]]
AtWord(p)    == AtStep(p, "options") /\ word[p] <= Len(argv[p])

(* Not an option: the empty word, "-", and what does not begin with "-". *)
IsOption(w)  == Len(w) > 1 /\ w[1] = "-"
Marker       == << "-", "-" >>

Letter(p)    == Current(p)[letter[p]]
AtLetter(p)  == AtWord(p) /\ IsOption(Current(p)) /\ Current(p) # Marker
AtLast(p)    == letter[p] = Len(Current(p))

(* Faulty variant: -w takes no argument. *)
TakesNone == {"t"}

(* The options with a ":" behind them. *)
TakesArgument == {"t", "w"}

(* Their argument is what is left of the word, or else the next word, *)
(* whatever it is.                                                    *)
HasArgument(p) == ~AtLast(p) \/ word[p] < Len(argv[p])

Argument(p) ==
  IF AtLast(p) THEN argv[p][word[p] + 1]
  ELSE SubSeq(Current(p), letter[p] + 1, Len(Current(p)))

Onward(p) ==
  LET takes == Letter(p) \in TakesArgument
  IN  /\ letter' = [letter EXCEPT ![p] = IF takes \/ AtLast(p) THEN 2 ELSE @ + 1]
      /\ word' = [word EXCEPT ![p] = @ + (IF takes \/ AtLast(p) THEN 1 ELSE 0)
                                         + (IF takes /\ AtLast(p) THEN 1 ELSE 0)]

Flag(p) ==
  /\ AtLetter(p) /\ Letter(p) \in Flags
  /\ Letter(p) \in TakesArgument => HasArgument(p)
  /\ flags' = [flags EXCEPT ![p] = @ \cup {Letter(p)}]
  /\ Onward(p)
  /\ UNCHANGED << argv, transport, qos, mains, discovery, exchange >>

(* A transport that is not one of the three is passed over in silence. *)
Transport(p) ==
  /\ AtLetter(p) /\ Letter(p) = "t" /\ HasArgument(p)
  /\ transport' = [transport EXCEPT ![p] =
                     IF Argument(p) \in Transports THEN Argument(p) ELSE @]
  /\ Onward(p)
  /\ UNCHANGED << argv, flags, qos, mains, discovery, exchange >>

(* Words that are no options are passed over, ... *)
Skip(p) ==
  /\ AtWord(p) /\ ~IsOption(Current(p))
  /\ word' = [word EXCEPT ![p] = @ + 1]
  /\ UNCHANGED << argv, letter, flags, transport, qos, mains, discovery, exchange >>

(* ... and all that are left behind "--". *)
EndOfOptions(p) ==
  /\ AtWord(p) /\ Current(p) = Marker
  /\ word' = [word EXCEPT ![p] = Len(argv[p]) + 1]
  /\ UNCHANGED << argv, letter, flags, transport, qos, mains, discovery, exchange >>

(* A letter that is unknown, that of any long option for one, or lacks its *)
(* argument; or -p without a transport.                                    *)
Usage(p) ==
  /\ \/ AtLetter(p) /\ Letter(p) \notin Flags \cup {"t"}
     \/ AtLetter(p) /\ Letter(p) \in TakesArgument /\ ~HasArgument(p)
     \/ /\ AtStep(p, "options") /\ word[p] > Len(argv[p])
        /\ "p" \in flags[p] /\ transport[p] = NoTransport
  /\ GiveUp(p)
  /\ UNCHANGED << config, done, svc, exchange >>

ParseArgs(p) ==
  /\ AtStep(p, "options") /\ word[p] > Len(argv[p])
  /\ Finish(p)
  /\ UNCHANGED << config, failed, svc, discovery, exchange >>

(***************************************************************************)
(* loadQosXML: each of six QoS is read or is not, all the later ones are   *)
(* not after an exception, and none if the profile cannot be opened; main  *)
(* does not look at the result.  The topics are created with the default.  *)
(***************************************************************************)
LoadQos(p) ==
  /\ AtStep(p, "qos")
  /\ \E read \in SUBSET Profiles :
       qos' = [qos EXCEPT ![p] = {e \in DOMAIN Needs : Needs[e] \subseteq read}]
  /\ Finish(p)
  /\ UNCHANGED << argv, word, letter, flags, transport, failed, svc, discovery, exchange >>

-----------------------------------------------------------------------------
(* The next entity is created, or the writer thread started, ... *)
Creates(p) == InSetup(p) /\ ~AtStep(p, "options") /\ ~AtStep(p, "qos")

Create(p) ==
  /\ Creates(p)
  /\ Finish(p)
  /\ svc' = IF AtStep(p, "start") THEN [svc EXCEPT ![p] = "match"] ELSE svc
  /\ UNCHANGED << config, failed, discovery, exchange >>

(***************************************************************************)
(* ... or it is not, and main gives up.  What was in the gateway's queue   *)
(* is not answered.                                                        *)
(***************************************************************************)
Fail(p) ==
  /\ Creates(p)
  /\ GiveUp(p)
  /\ UNCHANGED << config, done, svc, exchange >>

-----------------------------------------------------------------------------
(* Discovery (external): each side learns of the other in its own time,    *)
(* and forgets one that ended.                                             *)
WriterMatches(p) ==
  /\ ~matched[p] /\ Exists(p, "writer") /\ Exists(Peer(p), "reader")
  /\ matched' = [matched EXCEPT ![p] = TRUE]
  /\ UNCHANGED << config, mains, known, exchange >>

ReaderMatches(p) ==
  /\ ~known[p] /\ Exists(p, "reader") /\ Exists(Peer(p), "writer")
  /\ known' = [known EXCEPT ![p] = TRUE]
  /\ UNCHANGED << config, mains, matched, exchange >>

Forgets(p) ==
  /\ failed[Peer(p)] /\ (matched[p] \/ known[p])
  /\ matched' = [matched EXCEPT ![p] = FALSE]
  /\ known' = [known EXCEPT ![p] = FALSE]
  /\ UNCHANGED << config, mains, exchange >>

-----------------------------------------------------------------------------
(* The loop of svc() ends once the status counts a reader. *)
PeerAvailable(p) ==
  /\ svc[p] = "match" /\ matched[p]
  /\ svc' = [svc EXCEPT ![p] = "work"]
  /\ UNCHANGED << config, done, failed, discovery, exchange >>

(* A sample of p gets through when both sides know one another. *)
Arrives(p) == matched[p] /\ known[Peer(p)] /\ Exists(Peer(p), "reader")

(***************************************************************************)
(* A request; the gateway's listener queues it, whatever its main and      *)
(* writer thread are doing.                                                *)
(***************************************************************************)
Request ==
  /\ svc["DDS_Client"] = "work"
  /\ sent' = TRUE
  /\ IF Arrives("DDS_Client") /\ queue < QueueCap
     THEN queue' = queue + 1 /\ taken' = TRUE
     ELSE UNCHANGED << queue, taken >>
  /\ UNCHANGED << config, mains, discovery, answered >>

(* Faulty variant: msgrcv returns without a command and is not checked. *)
RespondUnasked ==
  /\ svc["DDS_Server"] = "work"
  /\ queue' = queue - 1
  /\ answered' = (answered \/ Arrives("DDS_Server"))
  /\ UNCHANGED << config, mains, discovery, sent, taken >>

(* A command is taken off the queue and the response written. *)
Respond ==
  /\ svc["DDS_Server"] = "work" /\ queue > 0
  /\ queue' = queue - 1
  /\ answered' = (answered \/ Arrives("DDS_Server"))
  /\ UNCHANGED << config, mains, discovery, sent, taken >>

-----------------------------------------------------------------------------
Next ==
  \/ \E p \in Processes :
       \/ Flag(p) \/ Transport(p) \/ Skip(p) \/ EndOfOptions(p)
       \/ Usage(p) \/ ParseArgs(p) \/ LoadQos(p)
       \/ Create(p) \/ Fail(p) \/ PeerAvailable(p)
       \/ WriterMatches(p) \/ ReaderMatches(p) \/ Forgets(p)
  \/ Request \/ Respond

Spec == Init /\ [][Next]_vars

Configured(p) == done[p] >= 2

(* Both processes are given the same transport, and could read all their QoS, *)
(* which are compatible as they stand in qosxmls.                             *)
Alike ==
  /\ transport["DDS_Client"] = transport["DDS_Server"]
  /\ \A p \in Processes : qos[p] = DOMAIN Needs

MainStep(p) ==
  \/ Flag(p) \/ Transport(p) \/ Skip(p) \/ EndOfOptions(p)
  \/ Usage(p) \/ ParseArgs(p) \/ LoadQos(p) \/ Create(p)

(* Every thread of the two processes runs, and live peers that are alike find *)
(* each other; others may.                                                    *)
FairSpec ==
  /\ Spec /\ WF_vars(Request) /\ WF_vars(Respond)
  /\ \A p \in Processes :
       /\ WF_vars(MainStep(p)) /\ WF_vars(PeerAvailable(p))
       /\ WF_vars(Alike /\ WriterMatches(p)) /\ WF_vars(Alike /\ ReaderMatches(p))

-----------------------------------------------------------------------------
(* Every variable stays in its type. *)
TypeOK ==
  /\ \A p \in Processes :
       /\ argv[p] \in CommandLines[p] /\ word[p] \in 1 .. Len(argv[p]) + 1
       /\ AtLetter(p) => letter[p] \in 2 .. Len(Current(p))
       /\ flags[p] \subseteq Flags /\ qos[p] \subseteq DOMAIN Needs
  /\ transport \in [Processes -> Transports \cup {NoTransport}]
  /\ \A p \in Processes : done[p] \in 0 .. Len(StepsOf(p))
  /\ failed \in [Processes -> BOOLEAN]
  /\ svc \in [Processes -> {"off", "match", "work"}]
  /\ matched \in [Processes -> BOOLEAN] /\ known \in [Processes -> BOOLEAN]
  /\ queue \in 0 .. QueueCap
  /\ sent \in BOOLEAN /\ taken \in BOOLEAN /\ answered \in BOOLEAN

(***************************************************************************)
(* A main that gives up leaves no exchange half done: a client that failed *)
(* has sent nothing, and requests can reach a gateway that fails only if   *)
(* the very last step, starting the thread, is the one that fails; the     *)
(* listener is active before that.                                         *)
(***************************************************************************)
CleanFailure ==
  /\ failed["DDS_Client"] => ~sent
  /\ (failed["DDS_Server"] /\ taken) => done["DDS_Server"] = Len(ServerSteps) - 1

(***************************************************************************)
(* When the client sends, it can be answered: its response reader is       *)
(* there, though it is created after the request writer and although the   *)
(* gateway may have waited for a client since long before.                 *)
(***************************************************************************)
SentWhenReading ==
  sent => Exists("DDS_Client", "reader") /\ Exists("DDS_Client", "writer")

(***************************************************************************)
(* Args.h:31: a process that goes on has exactly the options set that it   *)
(* was given (or starts with), one by one or several in a word, and -m,    *)
(* which the README tells to add, among them; but what is left of a word   *)
(* behind w or t is their argument, or else the next word, whatever it is: *)
(* "-w -m" and "-wm" start a gateway without its MMS client.               *)
(***************************************************************************)
LettersOf(w) ==
  {j \in 2 .. Len(w) : IsOption(w) /\ \A k \in 2 .. j - 1 : w[k] \notin {"t", "w"}}

WantsNext(w) == Len(w) \in LettersOf(w) /\ w[Len(w)] \in {"t", "w"}

Live(line) ==
  LET live[n \in 1 .. Len(line)] == n = 1 \/ ~(WantsNext(line[n - 1]) /\ live[n - 1])
  IN  {n \in 1 .. Len(line) : live[n]}

LookedAt(line) == {n \in Live(line) : \A k \in Live(line) : k < n => line[k] # Marker}

OptionsHeard ==
  \A p \in Processes : done[p] >= 1 =>
    flags[p] = FlagsSet(p) \cup
      {o \in Flags : \E n \in LookedAt(argv[p]) : \E j \in LettersOf(argv[p][n]) :
                       argv[p][n][j] = o}

(***************************************************************************)
(* "Block until Subscriber is available" (Writer.cpp:62, RespWriter.cpp:73)*)
(* in both processes is no circular wait: each creates its reader before   *)
(* it waits for the other's.  Unless a start fails, the client hears from  *)
(* the gateway, in whatever order the two are started and discovered; but  *)
(* with different transports, or QoS that could not be read, which no main *)
(* looks at, both may wait for ever.                                       *)
(***************************************************************************)
ExchangeStarts ==
  <>(\/ answered
     \/ \E p \in Processes : failed[p]
     \/ ~Alike /\ \A p \in Processes : Configured(p))
=============================================================================
