--------------------------- MODULE StartupProofs ---------------------------
(***************************************************************************)
(* What a start that fails, or succeeds, leaves behind, for every capacity *)
(* of the queue, every command line, every outcome of reading the QoS, and *)
(* every order of the two processes' steps.                                *)
(***************************************************************************)
EXTENDS Startup, NaturalsInduction, WellFoundedInduction, TLAPS

Server == "DDS_Server"
Client == "DDS_Client"

(***************************************************************************)
(* Where the exchange stands in the life of the mains: a writer thread     *)
(* runs only in a process whose every step succeeded, only a working       *)
(* thread of the client sends, and only a reader of the gateway, created   *)
(* in its tenth step, takes.                                               *)
(***************************************************************************)
Counted == done \in [Processes -> Nat]

Started ==
  \A p \in Processes :
    /\ done[p] <= Len(StepsOf(p))
    /\ svc[p] # "off" <=> done[p] = Len(StepsOf(p))
    /\ svc[p] # "off" => ~failed[p]

Exchanged ==
  /\ sent => svc[Client] # "off"
  /\ taken => done[Server] >= 10

StartInv ==
  /\ Counted
  /\ failed \in [Processes -> BOOLEAN]
  /\ svc \in [Processes -> {"off", "match", "work"}]
  /\ Started
  /\ Exchanged

LEMMA Steps ==
  /\ Len(ServerSteps) = 11 /\ Len(ClientSteps) = 12
  /\ \A k \in 1 .. 11 : ServerSteps[k] = "reader" <=> k = 10
  /\ ClientSteps[7] = "writer" /\ ClientSteps[10] = "reader"
  /\ \A p \in Processes : \A k \in 1 .. Len(StepsOf(p)) :
       StepsOf(p)[k] = "start" <=> k = Len(StepsOf(p))
<1>1. /\ Len(ServerSteps) = 11 /\ Len(ClientSteps) = 12
      /\ \A k \in 1 .. 11 : ServerSteps[k] = "reader" <=> k = 10
      /\ ClientSteps[7] = "writer" /\ ClientSteps[10] = "reader"
  BY DEF ServerSteps, ClientSteps
<1>2. \A k \in 1 .. 11 : ServerSteps[k] = "start" <=> k = 11
  BY DEF ServerSteps
<1>3. \A k \in 1 .. 12 : ClientSteps[k] = "start" <=> k = 12
  BY DEF ClientSteps
<1> QED
  BY <1>1, <1>2, <1>3 DEF StepsOf

LEMMA ReaderCreated ==
  ASSUME Counted, Started, Exists(Server, "reader") PROVE done[Server] >= 10
<1>1. PICK k \in 1 .. done[Server] : ServerSteps[k] = "reader"
  BY DEF Exists, StepsOf, Server
<1>2. done[Server] \in Nat /\ done[Server] <= 11
  BY Steps DEF Counted, Started, StepsOf, Processes, Server
<1> QED
  BY <1>1, <1>2, Steps

LEMMA StartInit == Init => StartInv
<1> SUFFICES ASSUME Init PROVE StartInv
  OBVIOUS
<1>1. failed \in [Processes -> BOOLEAN] /\ \A p \in Processes : ~failed[p]
  BY Zenon DEF Init
<1>2. Counted /\ svc \in [Processes -> {"off", "match", "work"}] /\ Exchanged
  BY DEF Init, Counted, Exchanged
<1>3. Started
  <2>1. \A p \in Processes : done[p] = 0 /\ svc[p] = "off"
    BY DEF Init
  <2>2. ASSUME NEW p \in Processes PROVE Len(StepsOf(p)) = 11 \/ Len(StepsOf(p)) = 12
    <3>1. StepsOf(p) = ClientSteps \/ StepsOf(p) = ServerSteps
      BY DEF StepsOf
    <3> QED
      BY <3>1, Steps
  <2>3. ASSUME NEW p \in Processes
        PROVE  /\ done[p] <= Len(StepsOf(p))
               /\ svc[p] # "off" <=> done[p] = Len(StepsOf(p))
               /\ svc[p] # "off" => ~failed[p]
    <3>1. done[p] = 0 /\ svc[p] = "off"
      BY <2>1
    <3>2. 0 <= Len(StepsOf(p)) /\ 0 # Len(StepsOf(p))
      BY <2>2
    <3>3. done[p] <= Len(StepsOf(p)) /\ done[p] # Len(StepsOf(p))
      BY <3>1, <3>2, Zenon
    <3> QED
      BY <3>1, <3>3, Zenon
  <2> QED
    BY <2>3 DEF Started
<1> QED
  BY <1>1, <1>2, <1>3 DEF StartInv

(* A step of main that is done, whichever it is; only "start" has more to it. *)
LEMMA FinishStep ==
  ASSUME StartInv, NEW p \in Processes, InSetup(p), Finish(p),
         svc' = IF AtStep(p, "start") THEN [svc EXCEPT ![p] = "match"] ELSE svc,
         failed' = failed, UNCHANGED exchange
  PROVE  StartInv'
<1> USE DEF StartInv
<1>1. /\ done[p] \in Nat /\ Len(StepsOf(p)) \in Nat
      /\ done[p] < Len(StepsOf(p)) /\ ~failed[p] /\ svc[p] = "off"
  BY Steps DEF InSetup, Counted, StepsOf
<1>2. /\ done' = [done EXCEPT ![p] = done[p] + 1] /\ failed' = failed
      /\ sent' = sent /\ taken' = taken
  BY DEF Finish, exchange
<1>3. svc' = IF StepsOf(p)[done[p] + 1] = "start"
             THEN [svc EXCEPT ![p] = "match"] ELSE svc
  BY DEF AtStep
<1>4. StepsOf(p)[done[p] + 1] = "start" <=> done[p] + 1 = Len(StepsOf(p))
  <2>1. done[p] + 1 \in 1 .. Len(StepsOf(p))
    BY <1>1
  <2> QED
    BY <2>1, Steps
<1>5. Counted' /\ svc' \in [Processes -> {"off", "match", "work"}]
  BY <1>1, <1>2, <1>3 DEF Counted
<1>6. Started'
  <2>1. ASSUME NEW q \in Processes
        PROVE  /\ done'[q] <= Len(StepsOf(q))
               /\ svc'[q] # "off" <=> done'[q] = Len(StepsOf(q))
               /\ svc'[q] # "off" => ~failed'[q]
    <3>1. CASE q = p
      BY <3>1, <1>1, <1>2, <1>3, <1>4 DEF Counted
    <3>2. CASE q # p
      BY <3>2, <1>2, <1>3 DEF Started, Counted
    <3> QED
      BY <3>1, <3>2
  <2> QED
    BY <2>1 DEF Started, StepsOf
<1>7. Exchanged'
  BY <1>1, <1>2, <1>3 DEF Exchanged, Counted, Processes, Server, Client
<1> QED
  BY <1>2, <1>5, <1>6, <1>7

LEMMA CreateStep ==
  ASSUME StartInv, NEW p \in Processes, ParseArgs(p) \/ LoadQos(p) \/ Create(p)
  PROVE  StartInv'
<1>1. CASE Create(p)
  BY <1>1, FinishStep DEF Create, Creates
<1>2. CASE ParseArgs(p) \/ LoadQos(p)
  <2>1. InSetup(p) /\ ~AtStep(p, "start")
    BY <1>2 DEF ParseArgs, LoadQos, AtStep
  <2>2. Finish(p) /\ svc' = svc /\ failed' = failed /\ UNCHANGED exchange
    BY <1>2 DEF ParseArgs, LoadQos
  <2> QED
    BY <2>1, <2>2, FinishStep
<1> QED
  BY <1>1, <1>2

LEMMA FailStep ==
  ASSUME StartInv, NEW p \in Processes, Usage(p) \/ Fail(p) PROVE StartInv'
<1> USE DEF StartInv
<1>1. svc[p] = "off" /\ done' = done /\ svc' = svc /\ sent' = sent /\ taken' = taken
  BY DEF Usage, Fail, AtLetter, AtWord, AtStep, Creates, InSetup, exchange
<1>2. failed' = [failed EXCEPT ![p] = TRUE]
  BY DEF Usage, Fail, GiveUp
<1>3. failed' \in [Processes -> BOOLEAN] /\ \A q \in Processes : q # p => failed'[q] = failed[q]
  BY <1>2, Zenon
<1>4. Started'
  BY <1>1, <1>3 DEF Started, StepsOf
<1> QED
  BY <1>1, <1>3, <1>4 DEF Counted, Exchanged

LEMMA AvailableStep ==
  ASSUME StartInv, NEW p \in Processes, PeerAvailable(p) PROVE StartInv'
<1>1. /\ svc[p] = "match" /\ svc' = [svc EXCEPT ![p] = "work"]
      /\ done' = done /\ failed' = failed /\ sent' = sent /\ taken' = taken
  BY DEF PeerAvailable, exchange
<1> QED
  BY <1>1 DEF StartInv, Counted, Started, Exchanged, StepsOf

LEMMA ExchangeStep ==
  ASSUME StartInv, Request \/ Respond PROVE StartInv'
<1>1. CASE Request
  <2>1. svc[Client] = "work" /\ mains' = mains
    BY <1>1 DEF Request, Client
  <2>2. taken' => taken \/ Exists(Server, "reader")
    BY <1>1 DEF Request, Arrives, Peer, Server
  <2>3. taken' => done[Server] >= 10
    BY <2>2, ReaderCreated DEF StartInv, Exchanged
  <2> QED
    BY <2>1, <2>3 DEF StartInv, Counted, Started, Exchanged, StepsOf, mains
<1>2. CASE Respond
  BY <1>2 DEF Respond, StartInv, Counted, Started, Exchanged, StepsOf, mains
<1> QED
  BY <1>1, <1>2

LEMMA StartStep == StartInv /\ [Next]_vars => StartInv'
<1> SUFFICES ASSUME StartInv, [Next]_vars PROVE StartInv'
  OBVIOUS
<1>1. ASSUME NEW p \in Processes,
             \/ ParseArgs(p) \/ LoadQos(p) \/ Create(p)
             \/ Usage(p) \/ Fail(p) \/ PeerAvailable(p)
      PROVE  StartInv'
  BY <1>1, CreateStep, FailStep, AvailableStep
<1>2. ASSUME NEW p \in Processes,
             \/ Flag(p) \/ Transport(p) \/ Skip(p) \/ EndOfOptions(p)
             \/ WriterMatches(p) \/ ReaderMatches(p) \/ Forgets(p)
      PROVE  StartInv'
  BY <1>2 DEF Flag, Transport, Skip, EndOfOptions, WriterMatches, ReaderMatches, Forgets,
              mains, exchange, StartInv, Counted, Started, Exchanged, StepsOf
<1>3. CASE Request \/ Respond
  BY <1>3, ExchangeStep
<1>4. CASE UNCHANGED vars
  BY <1>4 DEF vars, mains, exchange, StartInv, Counted, Started, Exchanged, StepsOf
<1> QED
  BY <1>1, <1>2, <1>3, <1>4 DEF Next

LEMMA StartCorrect == Spec => []StartInv
  BY StartInit, StartStep, PTL DEF Spec

(***************************************************************************)
(* A client that gives up has sent nothing, and only the failure to start  *)
(* the thread can strand a request in the gateway.                         *)
(***************************************************************************)
THEOREM FailureCorrect == Spec => []CleanFailure
<1>1. StartInv => CleanFailure
  <2> SUFFICES ASSUME StartInv PROVE CleanFailure
    OBVIOUS
  <2>1. failed[Client] => ~sent
    BY DEF StartInv, Started, Exchanged, Processes, Client
  <2>2. ASSUME failed[Server], taken PROVE done[Server] = Len(ServerSteps) - 1
    <3>1. svc[Server] = "off" /\ done[Server] \in Nat
          /\ done[Server] >= 10 /\ done[Server] <= 11 /\ done[Server] # 11
      BY <2>2, Steps DEF StartInv, Counted, Started, Exchanged, StepsOf, Processes, Server
    <3> QED
      BY <3>1, Steps
  <2> QED
    BY <2>1, <2>2 DEF CleanFailure, Server, Client
<1> QED
  BY <1>1, StartCorrect, PTL

(***************************************************************************)
(* Whenever the client has sent a request, its response reader exists.     *)
(***************************************************************************)
THEOREM ReadingCorrect == Spec => []SentWhenReading
<1>1. StartInv => SentWhenReading
  <2> SUFFICES ASSUME StartInv, sent PROVE SentWhenReading
    BY DEF SentWhenReading
  <2>1. done[Client] = 12 /\ ~failed[Client]
    BY Steps DEF StartInv, Started, Exchanged, StepsOf, Processes, Client
  <2>2. StepsOf(Client)[7] = "writer" /\ StepsOf(Client)[10] = "reader"
    BY Steps DEF StepsOf, Client
  <2> QED
    BY <2>1, <2>2 DEF SentWhenReading, Exists, Client
<1> QED
  BY <1>1, StartCorrect, PTL

-----------------------------------------------------------------------------
(***************************************************************************)
(* parse_args.  Which words are looked at, and which the argument of the   *)
(* one before, Live says by recursion; that there is such a function is    *)
(* shown by induction, for which a set holds the numbers it is shown for.  *)
(***************************************************************************)
LEMMA Induction ==
  ASSUME NEW S, 0 \in S, \A n \in Nat : n \in S => n + 1 \in S
  PROVE  Nat \subseteq S
PROOF
  <1> DEFINE T == Nat \ S
             R == {p \in Nat \X Nat : p[1] < p[2]}
  <1>1. IsWellFoundedOn(R, Nat)
    BY NatLessThanWellFounded DEF OpToRel
  <1>2. ASSUME T # {} PROVE FALSE
    <2> HIDE DEF R
    <2>1. PICK n \in T : \A m \in T : ~(<< m, n >> \in R)
      BY <1>1, <1>2, WFMin
    <2>2. n \in Nat /\ n # 0
      OBVIOUS
    <2>3. n - 1 \in Nat /\ (n - 1) + 1 = n
      BY <2>2
    <2>4. n - 1 \in T
      BY <2>1, <2>3
    <2>5. << n - 1, n >> \in R
      BY <2>2, <2>3 DEF R
    <2> QED
      BY <2>1, <2>4, <2>5
  <1> QED
    BY <1>2

Chain(line, m, f) ==
  f = [n \in 1 .. m |-> n = 1 \/ ~(WantsNext(line[n - 1]) /\ f[n - 1])]

LEMMA LiveExists ==
  ASSUME NEW line, NEW m \in Nat
  PROVE  \E f : Chain(line, m, f)
PROOF
  <1> DEFINE S == {k \in Nat : \E f : Chain(line, k, f)}
  <1>1. 0 \in S
    <2> DEFINE f == [n \in 1 .. 0 |-> TRUE]
    <2>1. Chain(line, 0, f)
      BY DEF Chain
    <2> QED
      BY <2>1
  <1>2. ASSUME NEW k \in Nat, k \in S PROVE k + 1 \in S
    <2>1. PICK f : Chain(line, k, f)
      BY <1>2
    <2> DEFINE g == [n \in 1 .. k + 1 |-> n = 1 \/ ~(WantsNext(line[n - 1]) /\ f[n - 1])]
    <2>2. \A n \in 1 .. k : g[n] = f[n]
      BY <2>1 DEF Chain
    <2>3. g = [n \in 1 .. k + 1 |-> n = 1 \/ ~(WantsNext(line[n - 1]) /\ g[n - 1])]
      <3>1. ASSUME NEW n \in 1 .. k + 1, n # 1 PROVE g[n - 1] = f[n - 1]
        <4>1. n - 1 \in 1 .. k
          BY <3>1
        <4> HIDE DEF g
        <4> QED
          BY <2>2, <4>1
      <3> HIDE DEF g
      <3>2. \A n \in 1 .. k + 1 : (n = 1 \/ ~(WantsNext(line[n - 1]) /\ f[n - 1]))
                                    = (n = 1 \/ ~(WantsNext(line[n - 1]) /\ g[n - 1]))
        BY <3>1
      <3>3. g = [n \in 1 .. k + 1 |-> n = 1 \/ ~(WantsNext(line[n - 1]) /\ f[n - 1])]
        BY DEF g
      <3> QED
        BY <3>2, <3>3
    <2> HIDE DEF g
    <2>4. Chain(line, k + 1, g)
      BY <2>3 DEF Chain
    <2> QED
      BY <2>4
  <1>3. m \in S
    BY <1>1, <1>2, Induction
  <1> QED
    BY <1>3

LEMMA LiveWords ==
  ASSUME NEW line \in Seq(Seq(STRING)), NEW n \in 1 .. Len(line)
  PROVE  n \in Live(line) <=> n = 1 \/ ~(WantsNext(line[n - 1]) /\ n - 1 \in Live(line))
PROOF
  <1> DEFINE live == CHOOSE f : Chain(line, Len(line), f)
  <1>0. Len(line) \in Nat
    OBVIOUS
  <1>1. Chain(line, Len(line), live)
    <2>1. \E f : Chain(line, Len(line), f)
      BY <1>0, LiveExists
    <2> QED
      BY <2>1, Zenon
  <1>2. Live(line) = {k \in 1 .. Len(line) : live[k]}
    BY DEF Live, Chain
  <1> HIDE DEF live
  <1>3. live[n] = (n = 1 \/ ~(WantsNext(line[n - 1]) /\ live[n - 1]))
    BY <1>1 DEF Chain
  <1>4. n # 1 => n - 1 \in 1 .. Len(line)
    BY <1>0
  <1> QED
    BY <1>2, <1>3, <1>4

(* The options heard before letter l of word w. *)
Heard(line, w, l) ==
  {o \in Flags : \E n \in LookedAt(line) : \E j \in LettersOf(line[n]) :
     (n < w \/ (n = w /\ j < l)) /\ line[n][j] = o}

(* What comes behind a letter that is heard: another of the word, or none. *)
LEMMA LetterPassed ==
  ASSUME NEW v \in Seq(STRING), NEW l \in LettersOf(v)
  PROVE  /\ l \in 2 .. Len(v) /\ Len(v) \in Nat
         /\ (v[l] \notin {"t", "w"} /\ l # Len(v)) => l + 1 \in LettersOf(v)
         /\ (v[l] \in {"t", "w"} \/ l = Len(v)) => \A j \in LettersOf(v) : j <= l
         /\ (v[l] \in {"t", "w"} \/ l = Len(v)) =>
              (WantsNext(v) <=> v[l] \in {"t", "w"} /\ l = Len(v))
<1>1. /\ Len(v) \in Nat /\ l \in 2 .. Len(v) /\ IsOption(v)
      /\ \A k \in 2 .. l - 1 : v[k] \notin {"t", "w"}
  BY DEF LettersOf
<1>2. ASSUME v[l] \notin {"t", "w"}, l # Len(v) PROVE l + 1 \in LettersOf(v)
  <2>1. l + 1 \in 2 .. Len(v) /\ \A k \in 2 .. (l + 1) - 1 : k = l \/ k \in 2 .. l - 1
    BY <1>1, <1>2
  <2> QED
    BY <1>1, <1>2, <2>1 DEF LettersOf
<1>3. ASSUME v[l] \in {"t", "w"} \/ l = Len(v), NEW j \in LettersOf(v) PROVE j <= l
  <2>1. j \in 2 .. Len(v) /\ \A k \in 2 .. j - 1 : v[k] \notin {"t", "w"}
    BY DEF LettersOf
  <2>2. j > l => l \in 2 .. j - 1
    BY <1>1, <2>1
  <2> QED
    BY <1>1, <1>3, <2>1, <2>2
<1>4. ASSUME v[l] \in {"t", "w"} \/ l = Len(v)
      PROVE  WantsNext(v) <=> v[l] \in {"t", "w"} /\ l = Len(v)
  <2>1. Len(v) \in LettersOf(v) => Len(v) <= l
    BY <1>3, <1>4
  <2>2. Len(v) \in LettersOf(v) => Len(v) = l
    BY <1>1, <2>1
  <2> QED
    BY <2>2 DEF WantsNext
<1> QED
  BY <1>1, <1>2, <1>3, <1>4

(* The word behind one that was looked at, or its argument, is looked at. *)
LEMMA WordPassed ==
  ASSUME NEW line \in Seq(Seq(STRING)), NEW w \in 1 .. Len(line), w \in LookedAt(line),
         line[w] # Marker
  PROVE  LET v == w + IF WantsNext(line[w]) THEN 2 ELSE 1
         IN  /\ v <= Len(line) => v \in LookedAt(line)
             /\ \A n \in Live(line) : n < v <=> n < w \/ n = w
PROOF
  <1> DEFINE v == w + IF WantsNext(line[w]) THEN 2 ELSE 1
  <1>0. /\ Len(line) \in Nat /\ Live(line) \subseteq 1 .. Len(line) /\ w \in Live(line)
        /\ \A k \in Live(line) : k < w => line[k] # Marker
    BY DEF Live, LookedAt
  <1>1. v <= Len(line) => v \in Live(line)
    <2>1. CASE WantsNext(line[w])
      <3>1. v = w + 2
        BY <2>1
      <3> SUFFICES ASSUME v <= Len(line) PROVE v \in Live(line)
        OBVIOUS
      <3>2. w + 1 \in 1 .. Len(line) /\ w + 1 # 1 /\ (w + 1) - 1 = w
        BY <1>0, <3>1
      <3>3. w + 1 \notin Live(line)
        BY <1>0, <2>1, <3>2, LiveWords
      <3>4. v \in 1 .. Len(line) /\ v - 1 = w + 1
        BY <1>0, <3>1
      <3> QED
        BY <3>3, <3>4, LiveWords
    <2>2. CASE ~WantsNext(line[w])
      <3>1. v = w + 1
        BY <2>2
      <3> SUFFICES ASSUME v <= Len(line) PROVE v \in Live(line)
        OBVIOUS
      <3>2. v \in 1 .. Len(line) /\ v - 1 = w
        BY <1>0, <3>1
      <3> QED
        BY <2>2, <3>2, LiveWords
    <2> QED
      BY <2>1, <2>2
  <1>2. \A n \in Live(line) : n < v <=> n < w \/ n = w
    <2>1. CASE WantsNext(line[w])
      <3>1. v = w + 2
        BY <2>1
      <3>3. w + 1 \notin Live(line)
        <4> SUFFICES ASSUME w + 1 \in 1 .. Len(line) PROVE w + 1 \notin Live(line)
          BY <1>0
        <4>1. w + 1 # 1 /\ (w + 1) - 1 = w
          OBVIOUS
        <4> QED
          BY <1>0, <2>1, <4>1, LiveWords
      <3>4. ASSUME NEW n \in Live(line) PROVE n < v <=> n < w \/ n = w
        <4>1. n \in Int /\ n # w + 1
          BY <1>0, <3>3
        <4> QED
          BY <3>1, <4>1
      <3> QED
        BY <3>4
    <2>2. CASE ~WantsNext(line[w])
      <3>1. v = w + 1
        BY <2>2
      <3> QED
        BY <1>0, <3>1
    <2> QED
      BY <2>1, <2>2
  <1>3. v <= Len(line) => v \in LookedAt(line)
    BY <1>0, <1>1, <1>2 DEF LookedAt
  <1> QED
    BY <1>2, <1>3

ConfigTyped ==
  /\ \A p \in Processes : argv[p] \in CommandLines[p] /\ word[p] \in 1 .. Len(argv[p]) + 1
  /\ word \in [Processes -> Nat] /\ letter \in [Processes -> Nat]
  /\ flags \in [Processes -> SUBSET Flags]
  /\ qos \in [Processes -> SUBSET DOMAIN Needs]
  /\ transport \in [Processes -> Transports \cup {NoTransport}]

ExchangeTyped ==
  /\ matched \in [Processes -> BOOLEAN] /\ known \in [Processes -> BOOLEAN]
  /\ queue \in 0 .. QueueCap
  /\ sent \in BOOLEAN /\ taken \in BOOLEAN /\ answered \in BOOLEAN

(* A process is at a word that is looked at, and at a letter of it that is *)
(* heard if it is an option, or it is at the end.                          *)
AtHeard(line, w, l) ==
  /\ w \in LookedAt(line)
  /\ IsOption(line[w]) => l \in LettersOf(line[w])
  /\ (~IsOption(line[w]) \/ line[w] = Marker) => l = 2

(* A process has heard what it is past, and once it goes on it is at the end. *)
HeardInv ==
  \A p \in Processes :
    /\ flags[p] = FlagsSet(p) \cup Heard(argv[p], word[p], letter[p])
    /\ word[p] <= Len(argv[p]) => AtHeard(argv[p], word[p], letter[p])
    /\ word[p] > Len(argv[p]) => letter[p] = 2
    /\ done[p] >= 1 => word[p] > Len(argv[p])

ArgsInv == ConfigTyped /\ ExchangeTyped /\ HeardInv

(* The first letter of a word. *)
LEMMA WordBegins ==
  ASSUME NEW line \in Seq(Seq(STRING)), NEW w \in LookedAt(line)
  PROVE  AtHeard(line, w, 2)
<1>1. w \in 1 .. Len(line)
  BY DEF LookedAt, Live
<1>2. line[w] \in Seq(STRING)
  BY <1>1
<1>3. Len(line[w]) \in Nat
  BY <1>2
<1>4. ASSUME IsOption(line[w]) PROVE 2 \in LettersOf(line[w])
  <2>1. 2 \in 2 .. Len(line[w]) /\ 2 .. 2 - 1 = {}
    BY <1>3, <1>4 DEF IsOption
  <2> QED
    BY <1>4, <2>1 DEF LettersOf
<1> QED
  BY <1>4 DEF AtHeard

LEMMA FirstStep ==
  ASSUME NEW p \in Processes, Counted, InSetup(p)
  PROVE  AtStep(p, "options") <=> done[p] = 0
PROOF
  <1>1. \A k \in 1 .. 12 : ClientSteps[k] = "options" <=> k = 1
    BY DEF ClientSteps
  <1>2. \A k \in 1 .. 11 : ServerSteps[k] = "options" <=> k = 1
    BY DEF ServerSteps
  <1>3. \A k \in 1 .. Len(StepsOf(p)) : StepsOf(p)[k] = "options" <=> k = 1
    BY <1>1, <1>2, Steps DEF StepsOf
  <1>4. done[p] \in Nat /\ Len(StepsOf(p)) \in Nat /\ done[p] < Len(StepsOf(p))
    BY Steps DEF InSetup, Counted, StepsOf
  <1>5. done[p] + 1 \in 1 .. Len(StepsOf(p))
    BY <1>4
  <1> QED
    BY <1>3, <1>4, <1>5 DEF AtStep

LEMMA ArgsInit == Init => ArgsInv
PROOF
  <1> SUFFICES ASSUME Init PROVE ArgsInv
    OBVIOUS
  <1>1. ASSUME NEW p \in Processes
        PROVE  /\ argv[p] \in CommandLines[p] /\ argv[p] \in Seq(Seq(STRING))
               /\ word[p] = 1 /\ letter[p] = 2
               /\ flags[p] = FlagsSet(p) /\ done[p] = 0 /\ Len(argv[p]) \in Nat
    <2>1. /\ argv[p] \in CommandLines[p] /\ word[p] = 1 /\ letter[p] = 2
          /\ flags[p] = FlagsSet(p) /\ done[p] = 0
      BY DEF Init, Processes
    <2>2. argv[p] \in Seq(Seq(STRING))
      BY <2>1, StartupAssumption
    <2> QED
      BY <2>1, <2>2
  <1>2. ConfigTyped
    <2>1. /\ word \in [Processes -> Nat] /\ letter \in [Processes -> Nat]
          /\ flags \in [Processes -> SUBSET Flags]
      BY DEF Init, FlagsSet, Flags
    <2>4. transport \in [Processes -> Transports \cup {NoTransport}]
      BY Zenon DEF Init
    <2>2. qos \in [Processes -> SUBSET DOMAIN Needs]
      BY DEF Init
    <2>3. \A p \in Processes : argv[p] \in CommandLines[p] /\ word[p] \in 1 .. Len(argv[p]) + 1
      BY <1>1
    <2> QED
      BY <2>1, <2>2, <2>3, <2>4 DEF ConfigTyped
  <1>3. ExchangeTyped
    <2>1. matched \in [Processes -> BOOLEAN] /\ known \in [Processes -> BOOLEAN]
      BY Zenon DEF Init
    <2>2. queue \in 0 .. QueueCap
      <3>1. QueueCap \in Nat /\ queue = 0
        BY StartupAssumption, Zenon DEF Init
      <3> QED
        BY <3>1
    <2>3. sent \in BOOLEAN /\ taken \in BOOLEAN /\ answered \in BOOLEAN
      BY DEF Init
    <2> QED
      BY <2>1, <2>2, <2>3 DEF ExchangeTyped
  <1>4. HeardInv
    <2> SUFFICES ASSUME NEW p \in Processes
                 PROVE  /\ flags[p] = FlagsSet(p) \cup Heard(argv[p], word[p], letter[p])
                        /\ word[p] <= Len(argv[p]) => AtHeard(argv[p], word[p], letter[p])
                        /\ word[p] > Len(argv[p]) => letter[p] = 2
                        /\ done[p] >= 1 => word[p] > Len(argv[p])
      BY DEF HeardInv
    <2>1. Heard(argv[p], 1, 2) = {}
      <3>1. \A n \in LookedAt(argv[p]) : n \in 1 .. Len(argv[p])
        BY DEF LookedAt, Live
      <3>2. \A n \in LookedAt(argv[p]) : \A j \in LettersOf(argv[p][n]) : ~(j < 2)
        BY DEF LettersOf
      <3> QED
        BY <3>1, <3>2 DEF Heard
    <2>2. ASSUME 1 <= Len(argv[p]) PROVE AtHeard(argv[p], 1, 2)
      <3>1. 1 \in 1 .. Len(argv[p])
        BY <1>1, <2>2
      <3>2. 1 \in Live(argv[p])
        BY <1>1, <3>1, LiveWords
      <3>3. \A k \in Live(argv[p]) : ~(k < 1)
        BY DEF Live
      <3>4. 1 \in LookedAt(argv[p])
        BY <3>2, <3>3 DEF LookedAt
      <3> QED
        BY <1>1, <3>4, WordBegins
    <2> QED
      BY <1>1, <2>1, <2>2
  <1> QED
    BY <1>2, <1>3, <1>4 DEF ArgsInv

(* What a step of parse_args leaves to be shown: that what process p is past *)
(* now is what it was past, and the option o it set.                         *)
LEMMA ArgsPassed ==
  ASSUME StartInv, ArgsInv, NEW p \in Processes, NEW w \in Nat, NEW l \in Nat, NEW o,
         w \in 1 .. Len(argv[p]) + 1,
         word' = [word EXCEPT ![p] = w], letter' = [letter EXCEPT ![p] = l],
         flags' = [flags EXCEPT ![p] = @ \cup (o \cap Flags)],
         transport' \in [Processes -> Transports \cup {NoTransport}],
         UNCHANGED << argv, qos, done, matched, known, queue, sent, taken, answered >>,
         done[p] = 0,
         Heard(argv[p], w, l) = Heard(argv[p], word[p], letter[p]) \cup (o \cap Flags),
         w <= Len(argv[p]) => AtHeard(argv[p], w, l),
         w > Len(argv[p]) => l = 2
  PROVE  ArgsInv'
<1>1. /\ word' \in [Processes -> Nat] /\ word'[p] = w
      /\ \A q \in Processes : q # p => word'[q] = word[q]
  BY DEF ArgsInv, ConfigTyped
<1>2. /\ letter' \in [Processes -> Nat] /\ letter'[p] = l
      /\ \A q \in Processes : q # p => letter'[q] = letter[q]
  BY DEF ArgsInv, ConfigTyped
<1>3. /\ flags' \in [Processes -> SUBSET Flags]
      /\ flags'[p] = flags[p] \cup (o \cap Flags)
      /\ \A q \in Processes : q # p => flags'[q] = flags[q]
  BY DEF ArgsInv, ConfigTyped
<1>4. ConfigTyped'
  BY <1>1, <1>2, <1>3 DEF ArgsInv, ConfigTyped
<1>5. ExchangeTyped'
  BY DEF ArgsInv, ExchangeTyped
<1>6. HeardInv'
  <2> SUFFICES ASSUME NEW q \in Processes
               PROVE  /\ flags'[q] = FlagsSet(q) \cup Heard(argv[q], word'[q], letter'[q])
                      /\ word'[q] <= Len(argv[q]) => AtHeard(argv[q], word'[q], letter'[q])
                      /\ word'[q] > Len(argv[q]) => letter'[q] = 2
                      /\ done[q] >= 1 => word'[q] > Len(argv[q])
    BY DEF HeardInv
  <2>1. CASE q = p
    <3>1. flags[p] = FlagsSet(p) \cup Heard(argv[p], word[p], letter[p])
      BY DEF ArgsInv, HeardInv
    <3>2. flags'[p] = FlagsSet(p) \cup Heard(argv[p], w, l)
      BY <1>3, <3>1
    <3> QED
      BY <1>1, <1>2, <2>1, <3>2
  <2>2. CASE q # p
    BY <1>1, <1>2, <1>3, <2>2 DEF ArgsInv, HeardInv
  <2> QED
    BY <2>1, <2>2
<1> QED
  BY <1>4, <1>5, <1>6 DEF ArgsInv

(* Where process p is when it looks at a word. *)
LEMMA WordReached ==
  ASSUME StartInv, ArgsInv, NEW p \in Processes, AtWord(p)
  PROVE  /\ argv[p] \in Seq(Seq(STRING)) /\ Len(argv[p]) \in Nat /\ done[p] = 0
         /\ word[p] \in 1 .. Len(argv[p]) /\ argv[p][word[p]] \in Seq(STRING)
         /\ AtHeard(argv[p], word[p], letter[p])
         /\ letter[p] \in Nat
<1>1. argv[p] \in Seq(Seq(STRING))
  BY StartupAssumption DEF ArgsInv, ConfigTyped
<1>2. Len(argv[p]) \in Nat
  BY <1>1
<1>3. word[p] \in 1 .. Len(argv[p]) + 1 /\ letter[p] \in Nat /\ word[p] <= Len(argv[p])
  BY DEF ArgsInv, ConfigTyped, AtWord
<1>4. word[p] \in 1 .. Len(argv[p])
  BY <1>2, <1>3
<1>5. done[p] = 0
  BY FirstStep DEF AtWord, AtStep, StartInv
<1> QED
  BY <1>1, <1>2, <1>3, <1>4, <1>5 DEF ArgsInv, HeardInv

(* One letter of an option more. *)
LEMMA LetterStep ==
  ASSUME StartInv, ArgsInv, NEW p \in Processes, Flag(p) \/ Transport(p)
  PROVE  ArgsInv'
<1> DEFINE line == argv[p]
           v == line[word[p]]
           o == v[letter[p]]
           w == word[p] + (IF o \in {"t", "w"} \/ letter[p] = Len(v) THEN 1 ELSE 0)
                        + (IF o \in {"t", "w"} /\ letter[p] = Len(v) THEN 1 ELSE 0)
           l == IF o \in {"t", "w"} \/ letter[p] = Len(v) THEN 2 ELSE letter[p] + 1
<1>1. /\ AtWord(p) /\ IsOption(v) /\ v # Marker
      /\ word' = [word EXCEPT ![p] = w] /\ letter' = [letter EXCEPT ![p] = l]
      /\ (o \in {"t", "w"} /\ letter[p] = Len(v)) => word[p] < Len(line)
      /\ UNCHANGED << argv, qos, done, matched, known, queue, sent, taken, answered >>
  <2>1. AtLetter(p) /\ Onward(p) /\ (o \in TakesArgument => HasArgument(p))
    BY DEF Flag, Transport, Letter, Current
  <2>2. word' = [word EXCEPT ![p] = w] /\ letter' = [letter EXCEPT ![p] = l]
    BY <2>1 DEF Onward, Letter, Current, AtLast, TakesArgument
  <2>3. UNCHANGED << argv, qos, done, matched, known, queue, sent, taken, answered >>
    BY DEF Flag, Transport, mains, discovery, exchange
  <2> HIDE DEF w, l
  <2> QED
    BY <2>1, <2>2, <2>3 DEF AtLetter, Current, AtLast, HasArgument, TakesArgument
<1>2. /\ line \in Seq(Seq(STRING)) /\ Len(line) \in Nat /\ done[p] = 0
      /\ word[p] \in 1 .. Len(line) /\ v \in Seq(STRING) /\ letter[p] \in Nat
      /\ word[p] \in LookedAt(line) /\ letter[p] \in LettersOf(v)
  BY <1>1, WordReached DEF AtHeard
<1>3. /\ letter[p] \in 2 .. Len(v) /\ Len(v) \in Nat
      /\ (o \notin {"t", "w"} /\ letter[p] # Len(v)) => letter[p] + 1 \in LettersOf(v)
      /\ (o \in {"t", "w"} \/ letter[p] = Len(v)) => \A j \in LettersOf(v) : j <= letter[p]
      /\ (o \in {"t", "w"} \/ letter[p] = Len(v)) =>
           (WantsNext(v) <=> o \in {"t", "w"} /\ letter[p] = Len(v))
  BY <1>2, LetterPassed
<1>4. flags' = [flags EXCEPT ![p] = @ \cup ({o} \cap Flags)]
  <2>1. CASE Flag(p)
    BY <2>1 DEF Flag, Letter, Current
  <2>2. CASE Transport(p)
    <3>1. flags' = flags /\ o \notin Flags
      BY <2>2 DEF Transport, Letter, Current, Flags
    <3>2. flags \in [Processes -> SUBSET Flags]
      BY DEF ArgsInv, ConfigTyped
    <3>3. flags[p] \cup ({o} \cap Flags) = flags[p]
      BY <3>1
    <3>4. [flags EXCEPT ![p] = flags[p]] = flags
      BY <3>2
    <3> QED
      BY <3>1, <3>3, <3>4
  <2> QED
    BY <2>1, <2>2
<1>5. transport' \in [Processes -> Transports \cup {NoTransport}]
  <2>1. transport \in [Processes -> Transports \cup {NoTransport}]
    BY DEF ArgsInv, ConfigTyped
  <2>2. CASE Flag(p)
    BY <2>1, <2>2 DEF Flag
  <2>3. CASE Transport(p)
    <3>1. transport' = [transport EXCEPT ![p] =
                          IF Argument(p) \in Transports THEN Argument(p) ELSE @]
      BY <2>3 DEF Transport
    <3> QED
      BY <2>1, <3>1, Zenon
  <2> QED
    BY <2>2, <2>3
<1> HIDE DEF o, v
<1>6. CASE o \notin {"t", "w"} /\ letter[p] # Len(v)
  <2>1. w = word[p] /\ l = letter[p] + 1
    BY <1>2, <1>6
  <2>2. Heard(line, w, l) = Heard(line, word[p], letter[p]) \cup ({o} \cap Flags)
    <3>1. \A n \in LookedAt(line) : \A j \in LettersOf(line[n]) :
            (n < word[p] \/ (n = word[p] /\ j < letter[p] + 1))
              <=> \/ n < word[p] \/ (n = word[p] /\ j < letter[p])
                  \/ (n = word[p] /\ j = letter[p])
      BY <1>2 DEF LettersOf
    <3> QED
      BY <1>2, <2>1, <3>1 DEF Heard, v, o
  <2>3. AtHeard(line, w, l)
    BY <1>1, <1>2, <1>3, <1>6, <2>1 DEF AtHeard, v
  <2>4. w \in Nat /\ l \in Nat /\ w \in 1 .. Len(line) + 1 /\ ~(w > Len(line))
    BY <1>2, <2>1
  <2> HIDE DEF w, l
  <2> QED
    BY <1>1, <1>2, <1>4, <1>5, <2>2, <2>3, <2>4, ArgsPassed
<1>7. CASE ~(o \notin {"t", "w"} /\ letter[p] # Len(v))
  <2>1. w = word[p] + (IF WantsNext(v) THEN 2 ELSE 1) /\ l = 2
    <3>1. CASE o \in {"t", "w"} /\ letter[p] = Len(v)
      <4>1. WantsNext(v)
        BY <1>3, <3>1
      <4> QED
        BY <1>2, <3>1, <4>1
    <3>2. CASE ~(o \in {"t", "w"} /\ letter[p] = Len(v))
      <4>1. ~WantsNext(v) /\ (o \in {"t", "w"} \/ letter[p] = Len(v))
        BY <1>3, <1>7, <3>2
      <4> QED
        BY <1>2, <3>2, <4>1
    <3> QED
      BY <3>1, <3>2
  <2>2. w \in 1 .. Len(line) + 1 /\ w \in Nat
    BY <1>1, <1>2, <1>3, <1>7, <2>1
  <2> HIDE DEF w, l
  <2>3. /\ w <= Len(line) => w \in LookedAt(line)
        /\ \A n \in Live(line) : n < w <=> n < word[p] \/ n = word[p]
    <3>1. /\ w = word[p] + IF WantsNext(line[word[p]]) THEN 2 ELSE 1
          /\ line[word[p]] # Marker
      BY <1>1, <2>1 DEF v
    <3>2. Live(line) \subseteq 1 .. Len(line)
      BY DEF Live
    <3> HIDE DEF line
    <3> QED
      BY <1>2, <2>2, <3>1, <3>2, WordPassed
  <2>4. Heard(line, w, l) = Heard(line, word[p], letter[p]) \cup ({o} \cap Flags)
    <3>1. \A n \in LookedAt(line) : \A j \in LettersOf(line[n]) :
            (n < w \/ (n = w /\ j < l))
              <=> \/ n < word[p] \/ (n = word[p] /\ j < letter[p])
                  \/ (n = word[p] /\ j = letter[p])
      <4> SUFFICES ASSUME NEW n \in LookedAt(line), NEW j \in LettersOf(line[n])
                   PROVE  (n < w \/ (n = w /\ j < l))
                            <=> \/ n < word[p] \/ (n = word[p] /\ j < letter[p])
                                \/ (n = word[p] /\ j = letter[p])
        OBVIOUS
      <4>1. n \in Live(line) /\ ~(j < l) /\ j \in Int
        BY <2>1 DEF LookedAt, LettersOf
      <4>2. n < w <=> n < word[p] \/ n = word[p]
        BY <2>3, <4>1
      <4>3. n = word[p] => j <= letter[p]
        BY <1>3, <1>7 DEF v
      <4> QED
        BY <1>2, <4>1, <4>2, <4>3
    <3> QED
      BY <1>2, <3>1 DEF Heard, v, o
  <2>5. w <= Len(line) => AtHeard(line, w, l)
    BY <1>2, <2>1, <2>3, WordBegins
  <2>6. l \in Nat /\ l = 2
    BY <2>1
  <2> QED
    BY <1>1, <1>2, <1>4, <1>5, <2>2, <2>4, <2>5, <2>6, ArgsPassed
<1> QED
  BY <1>6, <1>7

(* A word that is no option, or "--". *)
LEMMA WordStep ==
  ASSUME StartInv, ArgsInv, NEW p \in Processes, Skip(p) \/ EndOfOptions(p)
  PROVE  ArgsInv'
<1> DEFINE line == argv[p]
           w == IF EndOfOptions(p) THEN Len(line) + 1 ELSE word[p] + 1
<1>1. /\ AtWord(p) /\ word' = [word EXCEPT ![p] = w]
      /\ ~EndOfOptions(p) => ~IsOption(line[word[p]])
      /\ EndOfOptions(p) => line[word[p]] = Marker
      /\ UNCHANGED << argv, letter, flags, transport, qos, done, matched, known,
                      queue, sent, taken, answered >>
  BY DEF Skip, EndOfOptions, Current, mains, discovery, exchange
<1>2. /\ line \in Seq(Seq(STRING)) /\ Len(line) \in Nat /\ done[p] = 0
      /\ word[p] \in 1 .. Len(line) /\ AtHeard(line, word[p], letter[p])
      /\ letter[p] = 2
  BY <1>1, WordReached DEF AtHeard
<1>3. word[p] \in LookedAt(line) /\ word[p] \in Live(line)
  BY <1>2 DEF AtHeard, LookedAt
<1>4. \A j \in LettersOf(line[word[p]]) : line[word[p]][j] \notin Flags
  <2>1. CASE ~IsOption(line[word[p]])
    BY <2>1 DEF LettersOf
  <2>2. CASE line[word[p]] = Marker
    <3>1. Len(Marker) = 2 /\ Marker[2] = "-" /\ "-" \notin Flags
      BY DEF Marker, Flags
    <3>2. \A j \in LettersOf(Marker) : j = 2
      BY <3>1 DEF LettersOf
    <3> QED
      BY <2>2, <3>1, <3>2
  <2> QED
    BY <1>1, <2>1, <2>2
<1>5. /\ w \in 1 .. Len(line) + 1 /\ w \in Nat
      /\ w <= Len(line) => AtHeard(line, w, 2)
      /\ \A n \in LookedAt(line) : n < w <=> n < word[p] \/ n = word[p]
  <2>1. CASE EndOfOptions(p)
    <3>1. w = Len(line) + 1
      BY <2>1
    <3>2. \A n \in LookedAt(line) : n \in 1 .. Len(line) /\ ~(word[p] < n)
      BY <1>1, <1>3, <2>1 DEF LookedAt, Live
    <3> QED
      BY <1>2, <3>1, <3>2
  <2>2. CASE ~EndOfOptions(p)
    <3>1. w = word[p] + 1
      BY <2>2
    <3>2. line[word[p]] # Marker /\ ~WantsNext(line[word[p]])
      <4>1. Len(Marker) = 2 /\ Marker[1] = "-"
        BY DEF Marker
      <4>2. IsOption(Marker)
        BY <4>1 DEF IsOption
      <4> QED
        BY <1>1, <2>2, <4>2 DEF WantsNext, LettersOf
    <3>3. w \in 1 .. Len(line) + 1 /\ w \in Nat
      BY <1>2, <3>1
    <3> HIDE DEF w
    <3>4. /\ w <= Len(line) => w \in LookedAt(line)
          /\ \A n \in Live(line) : n < w <=> n < word[p] \/ n = word[p]
      <4>1. w = word[p] + IF WantsNext(line[word[p]]) THEN 2 ELSE 1
        BY <3>1, <3>2
      <4> HIDE DEF line
      <4> QED
        BY <1>2, <1>3, <3>2, <3>3, <4>1, WordPassed
    <3>5. LookedAt(line) \subseteq Live(line)
      BY DEF LookedAt
    <3> QED
      BY <1>2, <3>3, <3>4, <3>5, WordBegins
  <2> QED
    BY <2>1, <2>2
<1> HIDE DEF w
<1>6. Heard(line, w, 2) = Heard(line, word[p], letter[p]) \cup ({} \cap Flags)
  <2>1. ASSUME NEW n \in LookedAt(line), NEW j \in LettersOf(line[n]), line[n][j] \in Flags
        PROVE  (n < w \/ (n = w /\ j < 2)) <=> (n < word[p] \/ (n = word[p] /\ j < letter[p]))
    <3>1. ~(j < 2) /\ n # word[p]
      BY <1>4, <2>1 DEF LettersOf
    <3> QED
      BY <1>2, <1>5, <3>1
  <2> QED
    BY <2>1 DEF Heard
<1>7. flags' = [flags EXCEPT ![p] = @ \cup ({} \cap Flags)] /\ letter' = [letter EXCEPT ![p] = 2]
  BY <1>1, <1>2 DEF ArgsInv, ConfigTyped
<1>8. transport' \in [Processes -> Transports \cup {NoTransport}]
  BY <1>1 DEF ArgsInv, ConfigTyped
<1> QED
  BY <1>1, <1>2, <1>5, <1>6, <1>7, <1>8, ArgsPassed

(* The other steps leave what was heard alone. *)
LEMMA HeardKept ==
  ASSUME ArgsInv, UNCHANGED << argv, word, letter, flags >>,
         \A p \in Processes : done'[p] >= 1 => word[p] > Len(argv[p])
  PROVE  HeardInv'
PROOF
  BY DEF ArgsInv, HeardInv, Heard, AtHeard

LEMMA MainStepArgs ==
  ASSUME StartInv, ArgsInv, NEW p \in Processes,
         ParseArgs(p) \/ LoadQos(p) \/ Create(p) \/ Usage(p) \/ Fail(p) \/ PeerAvailable(p)
  PROVE  ArgsInv'
PROOF
  <1>1. /\ UNCHANGED << argv, word, letter, flags, transport >> /\ UNCHANGED exchange
        /\ qos' \in [Processes -> SUBSET DOMAIN Needs]
    <2>1. CASE LoadQos(p)
      BY <2>1, Zenon DEF LoadQos, exchange, ArgsInv, ConfigTyped
    <2>2. CASE ~LoadQos(p)
      BY <2>2 DEF ParseArgs, Create, Usage, Fail, PeerAvailable, config, exchange, ArgsInv, ConfigTyped
    <2> QED
      BY <2>1, <2>2
  <1>2. matched' \in [Processes -> BOOLEAN] /\ known' \in [Processes -> BOOLEAN]
    <2>1. \/ UNCHANGED << matched, known >>
          \/ GiveUp(p)
      BY DEF ParseArgs, LoadQos, Create, Usage, Fail, PeerAvailable, discovery
    <2> QED
      BY <2>1, Zenon DEF GiveUp, ArgsInv, ExchangeTyped
  <1>3. ASSUME NEW q \in Processes, done'[q] >= 1 PROVE word[q] > Len(argv[q])
    <2>1. CASE done'[q] = done[q]
      BY <1>3, <2>1 DEF ArgsInv, HeardInv
    <2>2. CASE done'[q] # done[q]
      <3>1. q = p /\ (ParseArgs(p) \/ LoadQos(p) \/ Create(p))
        BY <2>2 DEF ParseArgs, LoadQos, Create, Usage, Fail, PeerAvailable, Finish, StartInv, Counted
      <3>2. CASE ParseArgs(p)
        BY <3>1, <3>2 DEF ParseArgs
      <3>3. CASE LoadQos(p) \/ Create(p)
        <4>1. InSetup(p) /\ ~AtStep(p, "options")
          BY <3>3 DEF LoadQos, Create, Creates, AtStep
        <4>2. done[p] \in Nat /\ done[p] # 0
          BY <4>1, FirstStep DEF StartInv, Counted
        <4> QED
          BY <3>1, <4>2 DEF ArgsInv, HeardInv
      <3> QED
        BY <3>1, <3>2, <3>3
    <2> QED
      BY <2>1, <2>2
  <1>4. HeardInv'
    BY <1>1, <1>3, HeardKept
  <1>5. ConfigTyped'
    BY <1>1 DEF ArgsInv, ConfigTyped
  <1>6. ExchangeTyped'
    BY <1>1, <1>2 DEF ArgsInv, ExchangeTyped, exchange
  <1> QED
    BY <1>4, <1>5, <1>6 DEF ArgsInv

LEMMA OtherStepArgs ==
  ASSUME StartInv, ArgsInv,
         \/ \E p \in Processes : WriterMatches(p) \/ ReaderMatches(p) \/ Forgets(p)
         \/ Request \/ Respond \/ UNCHANGED vars
  PROVE  ArgsInv'
PROOF
  <1>1. UNCHANGED config /\ UNCHANGED mains
    BY DEF WriterMatches, ReaderMatches, Forgets, Request, Respond, vars
  <1>2. HeardInv'
    <2>1. \A p \in Processes : done'[p] >= 1 => word[p] > Len(argv[p])
      BY <1>1 DEF mains, ArgsInv, HeardInv
    <2> QED
      BY <1>1, <2>1, HeardKept DEF config
  <1>3. ConfigTyped'
    BY <1>1 DEF config, ArgsInv, ConfigTyped
  <1>4. ExchangeTyped'
    <2>0. QueueCap \in Nat /\ queue \in Nat /\ queue <= QueueCap
      BY StartupAssumption DEF ArgsInv, ExchangeTyped
    <2>1. CASE \E p \in Processes : WriterMatches(p) \/ ReaderMatches(p) \/ Forgets(p)
      BY <2>1, Zenon DEF WriterMatches, ReaderMatches, Forgets, exchange, ArgsInv, ExchangeTyped
    <2>2. CASE Request
      <3>1. queue' \in 0 .. QueueCap
        BY <2>0, <2>2 DEF Request
      <3>2. sent' = TRUE /\ taken' \in {taken, TRUE} /\ UNCHANGED << matched, known, answered >>
        BY <2>2 DEF Request, discovery
      <3> QED
        BY <3>1, <3>2 DEF ArgsInv, ExchangeTyped
    <2>3. CASE Respond
      <3>1. queue' \in 0 .. QueueCap
        BY <2>0, <2>3 DEF Respond
      <3>2. answered' = (answered \/ Arrives(Server)) /\ UNCHANGED << matched, known, sent, taken >>
        BY <2>3 DEF Respond, discovery, Server
      <3>3. answered' \in BOOLEAN
        BY <3>2, Zenon
      <3> QED
        BY <3>1, <3>2, <3>3 DEF ArgsInv, ExchangeTyped
    <2>4. CASE UNCHANGED vars
      BY <2>4 DEF vars, discovery, exchange, ArgsInv, ExchangeTyped
    <2> QED
      BY <2>1, <2>2, <2>3, <2>4
  <1> QED
    BY <1>2, <1>3, <1>4 DEF ArgsInv

LEMMA ArgsCorrect == Spec => [](StartInv /\ ArgsInv)
PROOF
  <1>1. Init => StartInv /\ ArgsInv
    BY StartInit, ArgsInit
  <1>2. StartInv /\ ArgsInv /\ [Next]_vars => StartInv' /\ ArgsInv'
    <2> SUFFICES ASSUME StartInv, ArgsInv, [Next]_vars PROVE StartInv' /\ ArgsInv'
      OBVIOUS
    <2>1. StartInv'
      BY StartStep
    <2>2. ASSUME NEW p \in Processes,
                 Flag(p) \/ Transport(p) \/ Skip(p) \/ EndOfOptions(p)
          PROVE  ArgsInv'
      BY <2>2, LetterStep, WordStep
    <2>3. ASSUME NEW p \in Processes,
                 ParseArgs(p) \/ LoadQos(p) \/ Create(p) \/ Usage(p) \/ Fail(p) \/ PeerAvailable(p)
          PROVE  ArgsInv'
      BY <2>3, MainStepArgs
    <2>4. ASSUME \/ \E p \in Processes : WriterMatches(p) \/ ReaderMatches(p) \/ Forgets(p)
                 \/ Request \/ Respond \/ UNCHANGED vars
          PROVE  ArgsInv'
      BY <2>4, OtherStepArgs
    <2> QED
      BY <2>1, <2>2, <2>3, <2>4, Zenon DEF Next
  <1> QED
    BY <1>1, <1>2, PTL DEF Spec

(***************************************************************************)
(* Every variable stays in its type.                                       *)
(***************************************************************************)
THEOREM TypeCorrect == Spec => []TypeOK
PROOF
  <1>1. StartInv /\ ArgsInv => TypeOK
    <2> SUFFICES ASSUME StartInv, ArgsInv PROVE TypeOK
      OBVIOUS
    <2>1. ASSUME NEW p \in Processes PROVE done[p] \in 0 .. Len(StepsOf(p))
      <3>1. done[p] \in Nat /\ done[p] <= Len(StepsOf(p)) /\ Len(StepsOf(p)) \in Nat
        BY Steps DEF StartInv, Counted, Started, StepsOf
      <3> QED
        BY <3>1
    <2>2. ASSUME NEW p \in Processes PROVE flags[p] \subseteq Flags /\ qos[p] \subseteq DOMAIN Needs
      BY DEF ArgsInv, ConfigTyped
    <2>3. ASSUME NEW p \in Processes, AtLetter(p) PROVE letter[p] \in 2 .. Len(Current(p))
      <3>1. AtWord(p) /\ IsOption(argv[p][word[p]])
        BY <2>3 DEF AtLetter, Current
      <3>2. letter[p] \in LettersOf(argv[p][word[p]])
        BY <3>1, WordReached DEF AtHeard
      <3> QED
        BY <3>2 DEF LettersOf, Current
    <2> QED
      BY <2>1, <2>2, <2>3, Zenon DEF TypeOK, StartInv, ArgsInv, ConfigTyped, ExchangeTyped
  <1> QED
    BY <1>1, ArgsCorrect, PTL

(***************************************************************************)
(* A process that goes on has set the options it was given, one by one or  *)
(* several in a word, those of them that are not the argument of another   *)
(* or behind "--", and no others, for every command line of any letters.   *)
(***************************************************************************)
THEOREM OptionsCorrect == Spec => []OptionsHeard
PROOF
  <1>1. ArgsInv => OptionsHeard
    <2> SUFFICES ASSUME ArgsInv, NEW p \in Processes, done[p] >= 1
                 PROVE  flags[p] = FlagsSet(p) \cup
                          {o \in Flags : \E n \in LookedAt(argv[p]) :
                             \E j \in LettersOf(argv[p][n]) : argv[p][n][j] = o}
      BY DEF OptionsHeard
    <2>1. flags[p] = FlagsSet(p) \cup Heard(argv[p], word[p], letter[p]) /\ word[p] > Len(argv[p])
      BY DEF ArgsInv, HeardInv
    <2>2. argv[p] \in Seq(Seq(STRING)) /\ word[p] \in Nat
      BY StartupAssumption DEF ArgsInv, ConfigTyped
    <2>3. \A n \in LookedAt(argv[p]) : n < word[p]
      <3>1. \A n \in LookedAt(argv[p]) : n \in 1 .. Len(argv[p])
        BY DEF LookedAt, Live
      <3>2. Len(argv[p]) \in Nat
        BY <2>2
      <3> QED
        BY <2>1, <2>2, <3>1, <3>2
    <2>4. Heard(argv[p], word[p], letter[p])
            = {o \in Flags : \E n \in LookedAt(argv[p]) :
                 \E j \in LettersOf(argv[p][n]) : argv[p][n][j] = o}
      BY <2>3 DEF Heard
    <2> QED
      BY <2>1, <2>4
  <1> QED
    BY <1>1, ArgsCorrect, PTL
=============================================================================
