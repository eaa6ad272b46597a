--------------------------- MODULE GatewayProofs ---------------------------
(***************************************************************************)
(* Theorems about the system of Gateway, end to end, for every number of   *)
(* requests, runs and processes, every capacity of the gateway, and topics *)
(* that lose and reorder or do not.                                        *)
(***************************************************************************)
EXTENDS GatewayProperties, SequenceTheorems, FiniteSetTheorems, TLAPS

-----------------------------------------------------------------------------
(***************************************************************************)
(* What the places of a request are made of: sequences from which elements *)
(* are taken, at whose end one is put, or in which two change places.      *)
(***************************************************************************)
Distinct(s) == \A i, j \in DOMAIN s : s[i].stamp = s[j].stamp => i = j

Increasing(s) == \A i, j \in DOMAIN s : i < j => s[i].stamp < s[j].stamp

Before(s, t) == \A m \in Stamps(s), n \in Stamps(t) : m < n

(* t is s with some elements left out. *)
Thins(t, s) ==
  \E f \in [DOMAIN t -> DOMAIN s] :
    /\ \A i, j \in DOMAIN t : i < j => f[i] < f[j]
    /\ \A i \in DOMAIN t : t[i] = s[f[i]]

LEMMA WithoutElements ==
  ASSUME NEW S, NEW s \in Seq(S), NEW i \in 1 .. Len(s)
  PROVE  /\ Without(s, i) \in Seq(S) /\ Len(Without(s, i)) = Len(s) - 1
         /\ \A k \in 1 .. Len(s) - 1 : Without(s, i)[k] = IF k < i THEN s[k] ELSE s[k + 1]
PROOF
  <1> DEFINE a == SubSeq(s, 1, i - 1)
             b == SubSeq(s, i + 1, Len(s))
  <1>1. Len(s) \in Nat /\ \A k \in 1 .. Len(s) : s[k] \in S
    BY LenProperties, ElementOfSeq
  <1>2. /\ a \in Seq(S) /\ Len(a) = i - 1
        /\ \A k \in 1 .. i - 1 : a[k] = s[k]
    <2>1. 1 \in Int /\ i - 1 \in Int /\ \A k \in 1 .. i - 1 : s[k] \in S
      BY <1>1
    <2> QED
      BY <2>1, <1>1, SubSeqProperties
  <1>3. /\ b \in Seq(S) /\ Len(b) = Len(s) - i
        /\ \A k \in 1 .. Len(s) - i : b[k] = s[i + k]
    <2>1. i + 1 \in Int /\ Len(s) \in Int /\ \A k \in i + 1 .. Len(s) : s[k] \in S
      BY <1>1
    <2>2. /\ b \in Seq(S) /\ Len(b) = IF i + 1 <= Len(s) THEN Len(s) - (i + 1) + 1 ELSE 0
          /\ \A k \in 1 .. Len(s) - (i + 1) + 1 : b[k] = s[i + 1 + k - 1]
      BY <2>1, SubSeqProperties
    <2> QED
      BY <2>1, <2>2, <1>1
  <1> HIDE DEF a, b
  <1>4. /\ a \o b \in Seq(S) /\ Len(a \o b) = Len(a) + Len(b)
        /\ \A k \in 1 .. Len(a) + Len(b) : (a \o b)[k] = IF k <= Len(a) THEN a[k] ELSE b[k - Len(a)]
    BY <1>2, <1>3, ConcatProperties
  <1>5. Without(s, i) = a \o b
    BY DEF Without, a, b
  <1>6. ASSUME NEW k \in 1 .. Len(s) - 1
        PROVE  Without(s, i)[k] = IF k < i THEN s[k] ELSE s[k + 1]
    <2>1. k \in 1 .. Len(a) + Len(b) /\ (k <= Len(a) <=> k < i)
      BY <1>1, <1>2, <1>3
    <2>2. CASE k < i
      BY <2>1, <2>2, <1>1, <1>2, <1>4, <1>5
    <2>3. CASE ~(k < i)
      <3>1. k - Len(a) \in 1 .. Len(s) - i /\ i + (k - Len(a)) = k + 1
        BY <2>3, <1>1, <1>2
      <3> QED
        BY <2>1, <2>3, <3>1, <1>3, <1>4, <1>5
    <2> QED
      BY <2>2, <2>3
  <1> QED
    BY <1>1, <1>2, <1>3, <1>4, <1>5, <1>6

LEMMA SwappedElements ==
  ASSUME NEW S, NEW s \in Seq(S), NEW i \in 2 .. Len(s)
  PROVE  /\ Swapped(s, i) \in Seq(S) /\ Len(Swapped(s, i)) = Len(s)
         /\ \A k \in 1 .. Len(s) :
              Swapped(s, i)[k] = s[IF k = i THEN i - 1 ELSE IF k = i - 1 THEN i ELSE k]
PROOF
  BY DEF Swapped

(* Taking the head away, or any element, or both ends, thins. *)
LEMMA WithoutThins ==
  ASSUME NEW S, NEW s \in Seq(S), NEW i \in 1 .. Len(s)
  PROVE  Thins(Without(s, i), s)
PROOF
  <1> DEFINE t == Without(s, i)
             f == [k \in 1 .. Len(s) - 1 |-> IF k < i THEN k ELSE k + 1]
  <1>1. /\ Len(s) \in Nat /\ DOMAIN s = 1 .. Len(s)
        /\ DOMAIN t = 1 .. Len(s) - 1
        /\ \A k \in 1 .. Len(s) - 1 : t[k] = IF k < i THEN s[k] ELSE s[k + 1]
    BY WithoutElements, LenProperties
  <1> HIDE DEF t
  <1>2. f \in [DOMAIN t -> DOMAIN s]
    BY <1>1
  <1>3. \A j, k \in DOMAIN t : j < k => f[j] < f[k]
    BY <1>1
  <1>4. \A k \in DOMAIN t : t[k] = s[f[k]]
    BY <1>1
  <1> QED
    BY <1>2, <1>3, <1>4 DEF Thins, t

LEMMA TailIsWithout ==
  ASSUME NEW S, NEW s \in Seq(S), s # << >>
  PROVE  /\ Tail(s) = Without(s, 1) /\ 1 \in 1 .. Len(s) /\ Head(s) = s[1] /\ s[1] \in S
         /\ Tail(s) \in Seq(S) /\ Len(Tail(s)) = Len(s) - 1
PROOF
  <1>1. Len(s) \in Nat \ {0} /\ Head(s) = s[1]
    BY EmptySeq
  <1>2. /\ Tail(s) \in Seq(S) /\ Len(Tail(s)) = Len(s) - 1
        /\ \A k \in 1 .. Len(Tail(s)) : Tail(s)[k] = s[k + 1]
    BY HeadTailProperties
  <1>3. /\ Without(s, 1) \in Seq(S) /\ Len(Without(s, 1)) = Len(s) - 1
        /\ \A k \in 1 .. Len(s) - 1 : Without(s, 1)[k] = s[k + 1]
    BY <1>1, WithoutElements
  <1> QED
    BY <1>1, <1>2, <1>3, SeqEqual, ElementOfSeq

(* The windows of a sequence that leave at most one element at either end. *)
LEMMA SurvivorsThin ==
  ASSUME NEW S, NEW s \in Seq(S), NEW t \in Server!Survivors(s)
  PROVE  /\ t \in Seq(S) /\ Len(t) <= Len(s) /\ Thins(t, s)
         /\ Len(t) = Len(s) => t = s
PROOF
  <1>1. Len(s) \in Nat /\ DOMAIN s = 1 .. Len(s) /\ \A k \in 1 .. Len(s) : s[k] \in S
    BY LenProperties, ElementOfSeq
  <1>2. PICK m \in {1, 2}, n \in {Len(s), Len(s) - 1} : t = << >> \/ t = SubSeq(s, m, n)
    BY DEF Server!Survivors
  <1>3. CASE t = << >>
    <2>1. t \in Seq(S) /\ Len(t) = 0 /\ DOMAIN t = {}
      BY <1>3
    <2> DEFINE f == [k \in DOMAIN t |-> k]
    <2>2. /\ f \in [DOMAIN t -> DOMAIN s]
          /\ \A j, k \in DOMAIN t : j < k => f[j] < f[k]
          /\ \A k \in DOMAIN t : t[k] = s[f[k]]
      BY <2>1
    <2>3. Thins(t, s)
      BY <2>2 DEF Thins
    <2>4. Len(t) = Len(s) => t = s
      BY <1>1, <1>3, <2>1, EmptySeq
    <2> QED
      BY <1>1, <2>1, <2>3, <2>4
  <1>4. CASE t = SubSeq(s, m, n)
    <2>1. m \in Int /\ n \in Int /\ \A k \in m .. n : s[k] \in S
      BY <1>1
    <2>2. /\ t \in Seq(S) /\ Len(t) = IF m <= n THEN n - m + 1 ELSE 0
          /\ \A k \in 1 .. n - m + 1 : t[k] = s[m + k - 1]
      BY <1>4, <2>1, SubSeqProperties
    <2>3. DOMAIN t = 1 .. Len(t)
      BY <2>2, LenProperties
    <2> DEFINE f == [k \in 1 .. Len(t) |-> m + k - 1]
    <2>4. f \in [DOMAIN t -> DOMAIN s]
      BY <1>1, <2>2, <2>3
    <2>5. \A j, k \in DOMAIN t : j < k => f[j] < f[k]
      BY <1>1, <2>2, <2>3
    <2>6. \A k \in DOMAIN t : t[k] = s[f[k]]
      BY SMTT(30), <1>1, <2>2, <2>3
    <2>7. Thins(t, s)
      BY <2>4, <2>5, <2>6 DEF Thins
    <2>8. Len(t) <= Len(s)
      BY <1>1, <2>2
    <2>9. ASSUME Len(t) = Len(s) PROVE t = s
      <3>1. CASE Len(s) = 0
        BY <2>2, <2>9, <3>1, EmptySeq
      <3>2. CASE Len(s) # 0
        <4>1. m = 1 /\ n = Len(s)
          BY <1>1, <2>2, <2>9, <3>2
        <4>2. \A k \in 1 .. Len(s) : t[k] = s[k]
          BY <1>1, <2>2, <4>1
        <4> QED
          BY <2>2, <2>9, <4>2, SeqEqual
      <3> QED
        BY <3>1, <3>2
    <2> QED
      BY <2>2, <2>7, <2>8, <2>9
  <1> QED
    BY <1>2, <1>3, <1>4

(* What thinning preserves. *)
LEMMA ThinsKeeps ==
  ASSUME NEW S, NEW s \in Seq(S), NEW t \in Seq(S), Thins(t, s)
  PROVE  /\ Distinct(s) => Distinct(t)
         /\ Increasing(s) => Increasing(t)
         /\ Stamps(t) \subseteq Stamps(s)
         /\ \A i \in DOMAIN t : \E j \in DOMAIN s : t[i] = s[j]
PROOF
  <1>1. PICK f \in [DOMAIN t -> DOMAIN s] :
          /\ \A i, j \in DOMAIN t : i < j => f[i] < f[j]
          /\ \A i \in DOMAIN t : t[i] = s[f[i]]
    BY DEF Thins
  <1>2. DOMAIN s \subseteq Nat /\ DOMAIN t \subseteq Nat
    BY LenProperties
  <1>3. \A i, j \in DOMAIN t : f[i] = f[j] => i = j
    BY <1>1, <1>2
  <1>4. Distinct(s) => Distinct(t)
    <2> SUFFICES ASSUME Distinct(s), NEW i \in DOMAIN t, NEW j \in DOMAIN t,
                        t[i].stamp = t[j].stamp
                 PROVE  i = j
      BY DEF Distinct
    <2>1. f[i] \in DOMAIN s /\ f[j] \in DOMAIN s /\ s[f[i]].stamp = s[f[j]].stamp
      BY <1>1
    <2> QED
      BY <2>1, <1>3 DEF Distinct
  <1>5. Increasing(s) => Increasing(t)
    BY <1>1 DEF Increasing
  <1> QED
    BY <1>1, <1>4, <1>5 DEF Stamps

LEMMA WithoutStamps ==
  ASSUME NEW S, NEW s \in Seq(S), NEW i \in 1 .. Len(s), Distinct(s)
  PROVE  Stamps(Without(s, i)) = Stamps(s) \ {s[i].stamp} /\ s[i].stamp \in Stamps(s)
PROOF
  <1> DEFINE t == Without(s, i)
  <1>1. /\ Len(s) \in Nat /\ DOMAIN s = 1 .. Len(s)
        /\ DOMAIN t = 1 .. Len(s) - 1
        /\ \A k \in 1 .. Len(s) - 1 : t[k] = IF k < i THEN s[k] ELSE s[k + 1]
    BY WithoutElements, LenProperties
  <1> HIDE DEF t
  <1>2. ASSUME NEW k \in DOMAIN t PROVE t[k].stamp \in Stamps(s) \ {s[i].stamp}
    <2>1. PICK j \in DOMAIN s : t[k] = s[j] /\ j # i
      <3>1. k \in 1 .. Len(s) - 1 /\ k \in DOMAIN s /\ k + 1 \in DOMAIN s
        BY <1>1, <1>2
      <3>2. t[k] = s[IF k < i THEN k ELSE k + 1] /\ (IF k < i THEN k ELSE k + 1) # i
        BY <1>1, <3>1
      <3> QED
        BY <3>1, <3>2
    <2> QED
      BY <2>1, <1>1 DEF Distinct, Stamps
  <1>3. ASSUME NEW j \in DOMAIN s, j # i PROVE s[j].stamp \in Stamps(t)
    <2>1. PICK k \in DOMAIN t : t[k] = s[j]
      <3>1. CASE j < i
        BY <3>1, <1>1
      <3>2. CASE j > i
        <4>1. j - 1 \in DOMAIN t /\ ~(j - 1 < i) /\ t[j - 1] = s[j]
          BY <3>2, <1>1
        <4> QED
          BY <4>1
      <3> QED
        BY <3>1, <3>2, <1>1, <1>3
    <2> QED
      BY <2>1 DEF Stamps
  <1>4. Stamps(t) = Stamps(s) \ {s[i].stamp}
    BY <1>1, <1>2, <1>3 DEF Stamps
  <1> QED
    BY <1>1, <1>4 DEF Stamps, t

LEMMA SwappedStamps ==
  ASSUME NEW S, NEW s \in Seq(S), NEW i \in 2 .. Len(s)
  PROVE  /\ Stamps(Swapped(s, i)) = Stamps(s)
         /\ Distinct(s) => Distinct(Swapped(s, i))
         /\ \A k \in DOMAIN Swapped(s, i) : \E j \in DOMAIN s : Swapped(s, i)[k] = s[j]
PROOF
  <1> DEFINE t == Swapped(s, i)
             g(k) == IF k = i THEN i - 1 ELSE IF k = i - 1 THEN i ELSE k
  <1>1. /\ Len(s) \in Nat /\ DOMAIN s = 1 .. Len(s) /\ DOMAIN t = 1 .. Len(s)
        /\ \A k \in 1 .. Len(s) : t[k] = s[g(k)]
    BY SwappedElements, LenProperties
  <1> HIDE DEF t
  <1>2. \A k \in 1 .. Len(s) : g(k) \in 1 .. Len(s) /\ g(g(k)) = k
    BY <1>1
  <1>3. \A k \in 1 .. Len(s) : s[k] = t[g(k)]
    BY <1>1, <1>2
  <1> HIDE DEF g
  <1>4. Stamps(t) = Stamps(s)
    BY <1>1, <1>2, <1>3 DEF Stamps
  <1>5. Distinct(s) => Distinct(t)
    <2> SUFFICES ASSUME Distinct(s), NEW j \in 1 .. Len(s), NEW k \in 1 .. Len(s),
                        t[j].stamp = t[k].stamp
                 PROVE  j = k
      BY <1>1 DEF Distinct
    <2>1. g(j) = g(k)
      BY <1>1, <1>2 DEF Distinct
    <2> QED
      BY <2>1, <1>2
  <1> QED
    BY <1>1, <1>2, <1>4, <1>5 DEF t

LEMMA AppendStamps ==
  ASSUME NEW S, NEW s \in Seq(S), NEW x \in S
  PROVE  /\ Append(s, x) \in Seq(S) /\ Len(Append(s, x)) = Len(s) + 1
         /\ Stamps(Append(s, x)) = Stamps(s) \cup {x.stamp}
         /\ x.stamp \notin Stamps(s) => (Distinct(s) => Distinct(Append(s, x)))
         /\ \A k \in DOMAIN Append(s, x) : Append(s, x)[k] = x \/ \E j \in DOMAIN s : Append(s, x)[k] = s[j]
PROOF
  <1> DEFINE t == Append(s, x)
  <1>1. /\ Len(s) \in Nat /\ DOMAIN s = 1 .. Len(s) /\ DOMAIN t = 1 .. Len(s) + 1
        /\ t \in Seq(S) /\ Len(t) = Len(s) + 1
        /\ \A k \in 1 .. Len(s) : t[k] = s[k]
        /\ t[Len(s) + 1] = x
    BY AppendProperties, LenProperties
  <1> HIDE DEF t
  <1>2. \A k \in DOMAIN t : k = Len(s) + 1 \/ k \in DOMAIN s
    BY <1>1
  <1>3. Stamps(t) = Stamps(s) \cup {x.stamp}
    BY <1>1, <1>2 DEF Stamps
  <1>4. ASSUME x.stamp \notin Stamps(s), Distinct(s) PROVE Distinct(t)
    BY <1>1, <1>2, <1>4 DEF Distinct, Stamps
  <1> QED
    BY <1>1, <1>2, <1>3, <1>4 DEF t

(* A sequence of different stamps has as many as it is long. *)
LEMMA StampsCounted ==
  ASSUME NEW S, NEW s \in Seq(S), Distinct(s)
  PROVE  Cardinality(Stamps(s)) = Len(s)
PROOF
  <1> DEFINE f == [i \in 1 .. Len(s) |-> s[i].stamp]
  <1>1. Len(s) \in Nat /\ DOMAIN s = 1 .. Len(s)
    BY LenProperties
  <1>2. f \in Bijection(1 .. Len(s), Stamps(s))
    <2>1. Stamps(s) = {s[i].stamp : i \in 1 .. Len(s)}
      BY <1>1 DEF Stamps
    <2>2. f \in [1 .. Len(s) -> Stamps(s)]
      BY <2>1
    <2>3. \A i, j \in 1 .. Len(s) : f[i] = f[j] => i = j
      BY <1>1 DEF Distinct
    <2>4. \A x \in Stamps(s) : \E i \in 1 .. Len(s) : f[i] = x
      BY <2>1
    <2> QED
      BY <2>2, <2>3, <2>4 DEF Bijection, Injection, IsInjective, Surjection
  <1>3. IsFiniteSet(1 .. Len(s)) /\ Cardinality(1 .. Len(s)) = Len(s)
    BY SMTT(30), <1>1, FS_Interval
  <1> QED
    BY ZenonT(30), <1>2, <1>3, FS_Bijection DEF ExistsBijection
-----------------------------------------------------------------------------
(***************************************************************************)
(* The writer.  The n-th request has stamp n, there are not more of them   *)
(* than the runs so far could prepare, and those of the first run are      *)
(* counted from 0.                                                         *)
(***************************************************************************)
WriterInv ==
  /\ run \in 1 .. Runs /\ wpc \in {"match", "prepare", "write", "done"} /\ count \in 0 .. Requests
  /\ prepared \in Seq(Request)
  /\ \A n \in 1 .. Len(prepared) :
       prepared[n].stamp = n /\ prepared[n].count \in 0 .. Requests - 1
  /\ Len(prepared) <= run * Requests
  /\ wpc \in {"match", "prepare"} => Len(prepared) <= (run - 1) * Requests + count
  /\ wpc = "write" => /\ count < Requests /\ Len(prepared) > 0
                      /\ Len(prepared) <= (run - 1) * Requests + count + 1
  /\ run = 1 => /\ \A n \in 1 .. Len(prepared) : prepared[n].count = n - 1
                /\ wpc \in {"match", "prepare"} => Len(prepared) = count
                /\ wpc = "write" => Len(prepared) = count + 1

(***************************************************************************)
(* What is on its way, in the gateway or logged names a request that was   *)
(* prepared, and carries its count.                                        *)
(***************************************************************************)
Copies(s, p) ==
  \A i \in DOMAIN s : s[i].stamp \in 1 .. Len(p) /\ s[i].count = p[s[i].stamp].count

PlacesTyped ==
  /\ requestTopic \in Seq(Request) /\ responseTopic \in Seq(Commands)
  /\ backlog \in Seq(Commands) /\ served \in Seq(Commands) /\ taken \in Seq(Commands)
  /\ Len(backlog) <= Depth
  /\ readerMatched \in BOOLEAN /\ mode \in {"closed", "serving", "halted"}
  /\ process \in 1 .. Processes

PlacesCopied ==
  /\ Copies(requestTopic, prepared) /\ Copies(responseTopic, prepared)
  /\ Copies(backlog, prepared) /\ Copies(taken, prepared)

ListenerTyped ==
  /\ lvalid \in BOOLEAN /\ lmQ \in Seq(Nat) /\ arrived \in Seq(Commands)
  /\ csv \in {"open", "closed", "broken"} /\ file \in {"open", "closed", "broken"}
  /\ fileNo \in Nat
  /\ gaps \in Seq([count : Nat, now : Nat, from : Nat])
  /\ rtt \in Seq([stamp : Nat, count : Nat, file : Nat])
  /\ Copies(rtt, prepared)

TypeInv == WriterInv /\ PlacesTyped /\ PlacesCopied /\ ListenerTyped

(***************************************************************************)
(* The places share the prepared requests among them.                      *)
(***************************************************************************)
Apart(A, B, C, D, E, F) ==
  /\ A \cap B = {} /\ A \cap C = {} /\ A \cap D = {} /\ A \cap E = {} /\ A \cap F = {}
  /\ B \cap C = {} /\ B \cap D = {} /\ B \cap E = {} /\ B \cap F = {}
  /\ C \cap D = {} /\ C \cap E = {} /\ C \cap F = {}
  /\ D \cap E = {} /\ D \cap F = {}
  /\ E \cap F = {}

Shared(U, A, B, C, D, E, F) ==
  /\ U = A \cup B \cup C \cup D \cup E \cup F
  /\ Apart(A, B, C, D, E, F)

PlaceInv ==
  /\ Distinct(requestTopic) /\ Distinct(backlog) /\ Distinct(responseTopic) /\ Distinct(taken)
  /\ Shared(1 .. Len(prepared), Held, Stamps(requestTopic), Stamps(backlog),
            Stamps(responseTopic), Stamps(taken), lost)

(***************************************************************************)
(* Topics that keep the order: what is farther on its way is older.        *)
(***************************************************************************)
OrderInv ==
  /\ Increasing(requestTopic) /\ Increasing(backlog)
  /\ Increasing(responseTopic) /\ Increasing(taken)
  /\ Before(backlog, requestTopic) /\ Before(responseTopic, requestTopic)
  /\ Before(taken, requestTopic)
  /\ Before(responseTopic, backlog) /\ Before(taken, backlog)
  /\ Before(taken, responseTopic)

(***************************************************************************)
(* When moreover nothing is lost, the places one after the other hold      *)
(* 1, 2, 3 and so on.                                                      *)
(***************************************************************************)
From(s, n) == \A i \in DOMAIN s : s[i].stamp = n + i

RowInv ==
  (lost = {} /\ ~Reorders) =>
    /\ From(taken, 0)
    /\ From(responseTopic, Len(taken))
    /\ From(backlog, Len(taken) + Len(responseTopic))
    /\ From(requestTopic, Len(taken) + Len(responseTopic) + Len(backlog))
    /\ Len(prepared) = Len(taken) + Len(responseTopic) + Len(backlog) + Len(requestTopic)
                         + (IF wpc = "write" THEN 1 ELSE 0)

(***************************************************************************)
(* The files are open until a response with CloseCount is taken.           *)
(***************************************************************************)
HasClosed == \E i \in DOMAIN arrived : arrived[i].count = CloseCount

FilesInv ==
  /\ file = "open" <=> ~HasClosed
  /\ csv = "open" <=> ~HasClosed
  /\ UseAfterClose

(***************************************************************************)
(* The first run, as long as nothing is lost or overtaken: the n-th        *)
(* response is that to count n - 1.                                        *)
(***************************************************************************)
Clean == run = 1 /\ lost = {} /\ ~Reorders

LogInv ==
  LET n == Len(arrived)
  IN  /\ run = 1 => arrived = taken
      /\ Clean =>
           /\ \A i \in 1 .. n : arrived[i].count = i - 1
           /\ fileNo = IF n = 0 THEN 0 ELSE (n - 1) \div RotateEvery + 1
           /\ lmQ = IF n = 0 THEN << >> ELSE IF n = 1 THEN << 1 >> ELSE << n - 1, n >>
      /\ CleanRun

-----------------------------------------------------------------------------
(* Arithmetic of the runs' numbers. *)
LEMMA RunBound ==
  /\ \A r \in 1 .. Runs : r * Requests \in Nat /\ r * Requests <= Runs * Requests
  /\ \A r \in Nat \ {0} : r * Requests = (r - 1) * Requests + Requests
  /\ Runs * Requests \in Nat
PROOF
  <1>1. Runs \in Nat /\ Requests \in Nat
    BY ClientAssumption
  <1>2. ASSUME NEW r \in 1 .. Runs PROVE r * Requests \in Nat /\ r * Requests <= Runs * Requests
    <2>1. PICK d \in Nat : Runs = r + d
      <3>1. Runs - r \in Nat /\ Runs = r + (Runs - r)
        BY <1>1, <1>2
      <3> QED
        BY <3>1
    <2>2. r \in Nat /\ d * Requests \in Nat /\ r * Requests \in Nat
      BY <1>1
    <2>3. (r + d) * Requests = r * Requests + d * Requests
      BY <1>1, <2>2
    <2> QED
      BY <2>1, <2>2, <2>3
  <1>3. \A r \in Nat \ {0} : r * Requests = (r - 1) * Requests + Requests
    BY <1>1
  <1> QED
    BY <1>1, <1>2, <1>3

(* The request in the writer's hand is the newest. *)
LEMMA HeldStamp ==
  ASSUME WriterInv
  PROVE  /\ Len(prepared) \in Nat /\ DOMAIN prepared = 1 .. Len(prepared)
         /\ Held = IF wpc = "write" THEN {Len(prepared)} ELSE {}
         /\ wpc = "write" => /\ Len(prepared) \in 1 .. Len(prepared)
                             /\ Current \in Request /\ Current.stamp = Len(prepared)
                             /\ Current.count = prepared[Len(prepared)].count
PROOF
  <1>1. /\ prepared \in Seq(Request) /\ Len(prepared) \in Nat
        /\ DOMAIN prepared = 1 .. Len(prepared)
    BY LenProperties DEF WriterInv
  <1>2. ASSUME wpc = "write" PROVE Len(prepared) \in 1 .. Len(prepared)
    <2>1. Len(prepared) > 0
      BY <1>2, Zenon DEF WriterInv
    <2> QED
      BY <1>1, <2>1
  <1>3. ASSUME wpc = "write"
        PROVE  Current \in Request /\ Current.stamp = Len(prepared)
    <2>1. prepared[Len(prepared)] \in Request
      BY <1>1, <1>2, <1>3, ElementOfSeq
    <2>2. prepared[Len(prepared)].stamp = Len(prepared)
      BY <1>2, <1>3 DEF WriterInv
    <2> QED
      BY <2>1, <2>2 DEF Current
  <1>4. Held = IF wpc = "write" THEN {Len(prepared)} ELSE {}
    BY <1>3 DEF Held
  <1> QED
    BY <1>1, <1>2, <1>3, <1>4 DEF Current

LEMMA CopiesOfPrepared ==
  ASSUME WriterInv, NEW s, Copies(s, prepared), NEW i \in DOMAIN s
  PROVE  CommandOf(s[i]) \in Commands /\ s[i].stamp \in 1 .. Len(prepared) /\ s[i].stamp \in Nat
PROOF
  <1>1. s[i].stamp \in 1 .. Len(prepared) /\ s[i].count \in 0 .. Requests - 1
    BY DEF Copies, WriterInv
  <1>2. Len(prepared) \in Nat /\ Len(prepared) <= Runs * Requests /\ Runs * Requests \in Nat
    <2>1. run \in 1 .. Runs /\ Len(prepared) <= run * Requests
      BY DEF WriterInv
    <2> QED
      BY <2>1, RunBound, HeldStamp
  <1> QED
    BY <1>1, <1>2 DEF Commands, CommandOf

(* The steps that are not the writer's leave it alone. *)
LEMMA NotWriters ==
  ASSUME \/ ClientTakes \/ ClientTakesNoData
         \/ Mgms \/ Loses \/ Overtakes \/ UNCHANGED vars
  PROVE  UNCHANGED << run, wpc, count, prepared >>
PROOF
  BY DEF ClientTakes, ClientTakesNoData, Take, TakeNoData, writerVars, clientVars,
         Mgms, GatewayMatches, GatewayTakes, GatewayHalts, GatewayRestarts, GatewayAnswers,
         Loses, Overtakes, vars

LEMMA WriterInit == Init => WriterInv
PROOF
  <1> SUFFICES ASSUME Init PROVE WriterInv
    OBVIOUS
  <1>1. /\ run = 1 /\ wpc = "match" /\ count = 0 /\ prepared = << >>
        /\ Len(prepared) = 0
    BY DEF Init, ClientInit
  <1>2. 1 \in 1 .. Runs /\ Requests \in Nat
    BY ClientAssumption
  <1> QED
    BY <1>1, <1>2 DEF WriterInv

LEMMA WriterNext == ASSUME WriterInv, [Next]_vars PROVE WriterInv'
PROOF
  <1>0. /\ Runs \in Nat /\ Requests \in Nat /\ run \in Nat /\ run >= 1
        /\ Len(prepared) \in Nat
        /\ run * Requests \in Nat /\ run * Requests = (run - 1) * Requests + Requests
        /\ (run - 1) * Requests \in Nat
    <2>1. Runs \in Nat /\ Requests \in Nat /\ run \in Nat \ {0} /\ run \in 1 .. Runs
      BY ClientAssumption DEF WriterInv
    <2>2. Len(prepared) \in Nat
      BY HeldStamp
    <2>3. (run - 1) \in Nat
      BY <2>1
    <2>4. (run - 1) * Requests \in Nat
      BY <2>1, <2>3
    <2> QED
      BY <2>1, <2>2, <2>4, RunBound
  <1>1. CASE ClientStarts
    BY <1>0, <1>1 DEF ClientStarts, WriterMatched, WriterInv
  <1>2. CASE ClientPrepares
    <2> DEFINE r == [stamp |-> Len(prepared) + 1, count |-> count,
                     subject |-> Subject(count), run |-> run]
    <2>1. /\ wpc = "prepare" /\ count < Requests /\ count \in Nat
          /\ prepared' = Append(prepared, r) /\ wpc' = "write"
          /\ UNCHANGED << run, count >>
      BY <1>2 DEF ClientPrepares, Prepare, WriterInv
    <2>2. r \in Request /\ r.stamp = Len(prepared) + 1 /\ r.count = count
      BY <1>0, <2>1 DEF Request, Subject, WriterInv
    <2> HIDE DEF r
    <2>3. /\ prepared' \in Seq(Request) /\ Len(prepared') = Len(prepared) + 1
          /\ \A n \in 1 .. Len(prepared) : prepared'[n] = prepared[n]
          /\ prepared'[Len(prepared) + 1] = r
      BY <2>1, <2>2, AppendProperties DEF WriterInv
    <2>4. ASSUME NEW n \in 1 .. Len(prepared')
          PROVE  n \in 1 .. Len(prepared) \/ n = Len(prepared) + 1
      BY <1>0, <2>3
    <2>5. \A n \in 1 .. Len(prepared') :
            prepared'[n].stamp = n /\ prepared'[n].count \in 0 .. Requests - 1
      BY <1>0, <2>1, <2>2, <2>3, <2>4 DEF WriterInv
    <2>6. Len(prepared) <= (run - 1) * Requests + count
      BY <2>1 DEF WriterInv
    <2>7. Len(prepared') <= (run - 1) * Requests + count + 1 /\ Len(prepared') <= run * Requests
      BY SMTT(30), <1>0, <2>1, <2>3, <2>6
    <2>8. ASSUME run = 1
          PROVE  Len(prepared) = count /\ \A n \in 1 .. Len(prepared') : prepared'[n].count = n - 1
      <3>1. Len(prepared) = count /\ \A n \in 1 .. Len(prepared) : prepared[n].count = n - 1
        BY <2>1, <2>8 DEF WriterInv
      <3> QED
        BY <1>0, <2>2, <2>3, <2>4, <3>1
    <2>9. run' = 1 => /\ \A n \in 1 .. Len(prepared') : prepared'[n].count = n - 1
                      /\ Len(prepared') = count' + 1
      BY <2>1, <2>3, <2>8
    <2>10. /\ run' \in 1 .. Runs /\ wpc' = "write" /\ count' \in 0 .. Requests
           /\ count' < Requests /\ Len(prepared') > 0
           /\ Len(prepared') <= (run' - 1) * Requests + count' + 1
           /\ Len(prepared') <= run' * Requests
      <3>1. Len(prepared') > 0
        BY <1>0, <2>3
      <3>2. run' \in 1 .. Runs /\ count' \in 0 .. Requests
        BY <2>1 DEF WriterInv
      <3> QED
        BY <2>1, <2>7, <3>1, <3>2
    <2> QED
      BY <2>3, <2>5, <2>9, <2>10 DEF WriterInv
  <1>3. CASE ClientEnds
    BY <1>0, <1>3 DEF ClientEnds, WriterEnds, WriterInv
  <1>4. ASSUME NEW code, ClientWrites(code) PROVE WriterInv'
    <2>1. /\ wpc = "write" /\ UNCHANGED << run, prepared >>
          /\ \/ UNCHANGED << wpc, count >>
             \/ wpc' = "prepare" /\ count' = count + 1
      BY <1>4 DEF ClientWrites, Write
    <2>2. CASE UNCHANGED << wpc, count >>
      BY <2>1, <2>2 DEF WriterInv
    <2>3. CASE wpc' = "prepare" /\ count' = count + 1
      <3>1. count' \in 0 .. Requests
        BY <1>0, <2>1, <2>3 DEF WriterInv
      <3> QED
        BY <1>0, <2>1, <2>3, <3>1 DEF WriterInv
    <2> QED
      BY <2>1, <2>2, <2>3
  <1>5. CASE ClientRestarts
    <2>1. /\ run < Runs /\ run' = run + 1 /\ wpc' = "match" /\ count' = 0
          /\ UNCHANGED prepared
      BY <1>5 DEF ClientRestarts, Restart, StartWriter
    <2>2. run' \in 1 .. Runs /\ run' # 1 /\ run' - 1 = run
      BY <1>0, <2>1
    <2>3. run' * Requests = run * Requests + Requests /\ (run' - 1) * Requests = run * Requests
      <3>1. run' \in Nat \ {0}
        BY <2>2, <1>0
      <3>2. run' * Requests = (run' - 1) * Requests + Requests
        BY <3>1, RunBound
      <3> QED
        BY <3>2, <2>2
    <2>4. Len(prepared) <= run * Requests
      BY DEF WriterInv
    <2> QED
      BY <1>0, <2>1, <2>2, <2>3, <2>4 DEF WriterInv
  <1>6. CASE \/ ClientTakes \/ ClientTakesNoData
             \/ Mgms \/ Loses \/ Overtakes \/ UNCHANGED vars
    BY <1>6, NotWriters DEF WriterInv
  <1> QED
    BY <1>1, <1>2, <1>3, <1>4, <1>5, <1>6 DEF Next, Client

(* Requests are only added. *)
LEMMA PreparedGrows ==
  ASSUME WriterInv, [Next]_vars
  PROVE  /\ prepared' \in Seq(Request) /\ Len(prepared') \in Nat
         /\ Len(prepared) <= Len(prepared')
         /\ \A n \in 1 .. Len(prepared) : prepared'[n] = prepared[n]
PROOF
  <1>1. CASE ClientPrepares
    <2>1. PICK r : prepared' = Append(prepared, r) /\ r \in Request
      <3> DEFINE r == [stamp |-> Len(prepared) + 1, count |-> count,
                       subject |-> Subject(count), run |-> run]
      <3>1. r \in Request
        BY HeldStamp DEF Request, Subject, WriterInv
      <3>2. prepared' = Append(prepared, r)
        BY <1>1 DEF ClientPrepares, Prepare
      <3> QED
        BY <3>1, <3>2
    <2> QED
      BY <2>1, HeldStamp, AppendProperties DEF WriterInv
  <1>2. CASE UNCHANGED prepared
    BY <1>2, HeldStamp DEF WriterInv
  <1>3. \/ ClientPrepares \/ UNCHANGED prepared
    BY NotWriters DEF Next, Client, ClientStarts, WriterMatched, ClientEnds, WriterEnds,
       ClientWrites, Write, ClientRestarts, Restart
  <1> QED
    BY <1>1, <1>2, <1>3

LEMMA CopiesGrow ==
  ASSUME WriterInv, [Next]_vars, NEW s, Copies(s, prepared)
  PROVE  Copies(s, prepared')
PROOF
  <1>1. ASSUME NEW i \in DOMAIN s
        PROVE  s[i].stamp \in 1 .. Len(prepared') /\ s[i].count = prepared'[s[i].stamp].count
    <2>1. s[i].stamp \in 1 .. Len(prepared) /\ s[i].count = prepared[s[i].stamp].count
      BY DEF Copies
    <2>2. Len(prepared) \in Nat
      BY HeldStamp
    <2> QED
      BY <2>1, <2>2, PreparedGrows
  <1> QED
    BY <1>1 DEF Copies

-----------------------------------------------------------------------------
(* The head of a place going to the end of the next one. *)
LEMMA CopiesOnly ==
  ASSUME NEW s, NEW t, NEW p, Copies(s, p),
         \A k \in DOMAIN t : \E j \in DOMAIN s : t[k].stamp = s[j].stamp /\ t[k].count = s[j].count
  PROVE  Copies(t, p)
PROOF
  <1>1. ASSUME NEW k \in DOMAIN t
        PROVE  t[k].stamp \in 1 .. Len(p) /\ t[k].count = p[t[k].stamp].count
    <2>1. PICK j \in DOMAIN s : t[k].stamp = s[j].stamp /\ t[k].count = s[j].count
      OBVIOUS
    <2>2. s[j].stamp \in 1 .. Len(p) /\ s[j].count = p[s[j].stamp].count
      BY DEF Copies
    <2> QED
      BY <2>1, <2>2
  <1> QED
    BY <1>1, Zenon DEF Copies

LEMMA CopiesAppend ==
  ASSUME NEW T, NEW t \in Seq(T), NEW x \in T, NEW p, Copies(t, p),
         x.stamp \in 1 .. Len(p), x.count = p[x.stamp].count
  PROVE  Copies(Append(t, x), p)
PROOF
  <1>1. ASSUME NEW k \in DOMAIN Append(t, x)
        PROVE  /\ Append(t, x)[k].stamp \in 1 .. Len(p)
               /\ Append(t, x)[k].count = p[Append(t, x)[k].stamp].count
    <2>1. Append(t, x)[k] = x \/ \E j \in DOMAIN t : Append(t, x)[k] = t[j]
      BY AppendStamps
    <2> QED
      BY <2>1 DEF Copies
  <1> QED
    BY <1>1, Zenon DEF Copies

LEMMA HeadLeaves ==
  ASSUME NEW S, NEW s \in Seq(S), s # << >>
  PROVE  /\ Tail(s) \in Seq(S) /\ Len(Tail(s)) = Len(s) - 1 /\ Len(s) \in Nat \ {0}
         /\ Head(s) \in S /\ 1 \in DOMAIN s /\ Head(s) = s[1]
         /\ \A k \in 1 .. Len(s) - 1 : Tail(s)[k] = s[k + 1]
         /\ Thins(Tail(s), s)
         /\ \A p : Copies(s, p) => Copies(Tail(s), p)
         /\ Distinct(s) => /\ Distinct(Tail(s))
                           /\ Stamps(Tail(s)) = Stamps(s) \ {Head(s).stamp}
                           /\ Head(s).stamp \in Stamps(s)
PROOF
  <1>1. /\ Tail(s) \in Seq(S) /\ Len(Tail(s)) = Len(s) - 1 /\ 1 \in 1 .. Len(s)
        /\ Tail(s) = Without(s, 1) /\ Head(s) = s[1] /\ s[1] \in S
    BY TailIsWithout
  <1>2. Len(s) \in Nat \ {0} /\ 1 \in DOMAIN s
    BY <1>1, LenProperties
  <1>3. Thins(Tail(s), s)
    BY <1>1, WithoutThins
  <1>4. /\ Distinct(s) => Distinct(Tail(s))
        /\ \A k \in DOMAIN Tail(s) : \E j \in DOMAIN s : Tail(s)[k] = s[j]
    <2> DEFINE t == Tail(s)
    <2>1. t \in Seq(S) /\ Thins(t, s)
      BY <1>1, <1>3
    <2> HIDE DEF t
    <2>2. /\ Distinct(s) => Distinct(t)
          /\ \A k \in DOMAIN t : \E j \in DOMAIN s : t[k] = s[j]
      BY <2>1, ThinsKeeps
    <2> QED
      BY <2>2 DEF t
  <1>5. ASSUME NEW p, Copies(s, p) PROVE Copies(Tail(s), p)
    <2> DEFINE t == Tail(s)
    <2>1. \A k \in DOMAIN t : \E j \in DOMAIN s : t[k] = s[j]
      BY <1>4
    <2> HIDE DEF t
    <2>2. Copies(t, p)
      BY <1>5, <2>1, CopiesOnly
    <2> QED
      BY <2>2 DEF t
  <1>6. Distinct(s) => Stamps(Tail(s)) = Stamps(s) \ {Head(s).stamp} /\ Head(s).stamp \in Stamps(s)
    BY <1>1, WithoutStamps
  <1>7. \A k \in 1 .. Len(s) - 1 : Tail(s)[k] = s[k + 1]
    BY <1>1, HeadTailProperties
  <1> QED
    BY <1>1, <1>2, <1>3, <1>4, <1>5, <1>6, <1>7

-----------------------------------------------------------------------------
(* The types of the places. *)

(* The steps that leave all places but lost, and the writer's hand, alone. *)
LEMMA NotPlaces ==
  ASSUME \/ ClientStarts \/ ClientPrepares \/ ClientEnds \/ ClientTakesNoData \/ UNCHANGED vars
  PROVE  UNCHANGED << requestTopic, responseTopic, readerMatched, backlog, served, mode,
                      process, taken >>
PROOF
  BY DEF ClientStarts, ClientPrepares, ClientEnds, ClientTakesNoData, topicVars, serverVars, vars

LEMMA PlacesInit == Init => PlacesTyped /\ PlacesCopied
PROOF
  <1> SUFFICES ASSUME Init PROVE PlacesTyped /\ PlacesCopied
    OBVIOUS
  <1>1. /\ process = 1 /\ backlog = << >> /\ served = << >> /\ mode = "closed"
        /\ requestTopic = << >> /\ responseTopic = << >> /\ readerMatched = FALSE
        /\ taken = << >>
    BY DEF Init, Server!Init
  <1>2. 1 \in 1 .. Processes /\ Depth \in Nat /\ Len(backlog) = 0
    BY <1>1, TopicsAssumption
  <1>3. PlacesTyped
    <2>1. << >> \in Seq(Request) /\ << >> \in Seq(Commands)
      OBVIOUS
    <2>2. Len(backlog) <= Depth
      BY <1>2
    <2> QED
      BY <1>1, <1>2, <2>1, <2>2, Zenon DEF PlacesTyped
  <1>4. PlacesCopied
    BY <1>1 DEF PlacesCopied, Copies
  <1> QED
    BY <1>3, <1>4

LEMMA PlacesNext ==
  ASSUME WriterInv, PlacesTyped, PlacesCopied, [Next]_vars
  PROVE  PlacesTyped' /\ PlacesCopied'
PROOF
  <1> DEFINE Kept == /\ Copies(requestTopic', prepared) /\ Copies(responseTopic', prepared)
                     /\ Copies(backlog', prepared) /\ Copies(taken', prepared)
  <1> SUFFICES PlacesTyped' /\ Kept
    BY CopiesGrow DEF PlacesCopied
  <1>0. /\ Depth \in Nat /\ Processes \in Nat /\ process \in Nat /\ process >= 1
        /\ Len(backlog) \in Nat
        /\ << >> \in Seq(Request) /\ << >> \in Seq(Commands) /\ Copies(<< >>, prepared)
    <2>1. Depth \in Nat /\ Processes \in Nat /\ process \in Nat /\ process >= 1
      BY TopicsAssumption DEF PlacesTyped
    <2>2. Len(backlog) \in Nat
      BY LenProperties DEF PlacesTyped
    <2>3. << >> \in Seq(Request) /\ << >> \in Seq(Commands) /\ Copies(<< >>, prepared)
      BY DEF Copies
    <2> QED
      BY <2>1, <2>2, <2>3
  <1>1. CASE \/ ClientStarts \/ ClientPrepares \/ ClientEnds \/ ClientTakesNoData \/ UNCHANGED vars
    BY <1>1, NotPlaces DEF PlacesTyped, PlacesCopied
  <1>2. ASSUME NEW code, ClientWrites(code) PROVE PlacesTyped' /\ Kept
    <2>1. /\ wpc = "write"
          /\ requestTopic' = Append(requestTopic, Current) \/ requestTopic' = requestTopic
          /\ UNCHANGED << responseTopic, readerMatched, backlog, served, mode, process, taken >>
      BY <1>2 DEF ClientWrites, Write, serverVars
    <2>2. /\ Current \in Request /\ Current.stamp \in 1 .. Len(prepared)
          /\ Current.count = prepared[Current.stamp].count
      BY <2>1, HeldStamp
    <2>3. Append(requestTopic, Current) \in Seq(Request) /\ Copies(Append(requestTopic, Current), prepared)
      BY <2>2, AppendStamps, CopiesAppend DEF PlacesTyped, PlacesCopied
    <2> QED
      BY <2>1, <2>3 DEF PlacesTyped, PlacesCopied
  <1>3. CASE ClientTakes
    <2>1. /\ responseTopic # << >> /\ responseTopic' = Tail(responseTopic)
          /\ taken' = Append(taken, Head(responseTopic))
          /\ UNCHANGED << requestTopic, readerMatched, backlog, served, mode, process >>
      BY <1>3 DEF ClientTakes, serverVars
    <2>2. responseTopic \in Seq(Commands) /\ taken \in Seq(Commands) /\ Copies(responseTopic, prepared)
      BY DEF PlacesTyped, PlacesCopied
    <2>3. /\ Tail(responseTopic) \in Seq(Commands) /\ Copies(Tail(responseTopic), prepared)
          /\ Head(responseTopic) \in Commands
          /\ 1 \in DOMAIN responseTopic /\ Head(responseTopic) = responseTopic[1]
      BY <2>1, <2>2, HeadLeaves
    <2>4. taken' \in Seq(Commands) /\ Copies(taken', prepared)
      <3>1. /\ Head(responseTopic).stamp \in 1 .. Len(prepared)
            /\ Head(responseTopic).count = prepared[Head(responseTopic).stamp].count
        BY <2>2, <2>3 DEF Copies
      <3> QED
        BY <2>1, <2>2, <2>3, <3>1, AppendStamps, CopiesAppend DEF PlacesCopied
    <2> QED
      BY <2>1, <2>3, <2>4 DEF PlacesTyped, PlacesCopied
  <1>4. CASE ClientRestarts
    <2>1. /\ responseTopic' = << >> /\ readerMatched' = FALSE
          /\ UNCHANGED << requestTopic, backlog, served, mode, process, taken >>
      BY <1>4 DEF ClientRestarts, serverVars
    <2> QED
      BY <1>0, <2>1, Zenon DEF PlacesTyped, PlacesCopied
  <1>5. CASE GatewayMatches
    <2>1. /\ readerMatched' = TRUE /\ mode' \in {mode, "serving"}
          /\ UNCHANGED << requestTopic, responseTopic, backlog, served, process, taken >>
      BY <1>5 DEF GatewayMatches, Server!Open
    <2> QED
      BY <2>1 DEF PlacesTyped, PlacesCopied
  <1>6. CASE GatewayTakes
    <2>1. /\ requestTopic # << >> /\ requestTopic' = Tail(requestTopic)
          /\ Len(backlog) < Depth /\ backlog' = Append(backlog, CommandOf(Head(requestTopic)))
          /\ UNCHANGED << responseTopic, readerMatched, served, mode, process, taken >>
      BY <1>6 DEF GatewayTakes, Server!Accept
    <2>2. requestTopic \in Seq(Request) /\ backlog \in Seq(Commands) /\ Copies(requestTopic, prepared)
      BY DEF PlacesTyped, PlacesCopied
    <2>3. /\ Tail(requestTopic) \in Seq(Request) /\ Copies(Tail(requestTopic), prepared)
          /\ 1 \in DOMAIN requestTopic /\ Head(requestTopic) = requestTopic[1]
      BY <2>1, <2>2, HeadLeaves
    <2>4. /\ CommandOf(Head(requestTopic)) \in Commands
          /\ CommandOf(Head(requestTopic)).stamp \in 1 .. Len(prepared)
          /\ CommandOf(Head(requestTopic)).count = prepared[CommandOf(Head(requestTopic)).stamp].count
      BY <2>2, <2>3, CopiesOfPrepared DEF CommandOf, Copies
    <2>5. backlog' \in Seq(Commands) /\ Len(backlog') = Len(backlog) + 1 /\ Copies(backlog', prepared)
      BY <2>1, <2>2, <2>4, AppendStamps, CopiesAppend DEF PlacesCopied
    <2>6. Len(backlog') <= Depth
      BY <1>0, <2>1, <2>5
    <2> QED
      BY <2>1, <2>3, <2>5, <2>6 DEF PlacesTyped, PlacesCopied
  <1>7. CASE GatewayHalts
    <2>1. /\ mode' = "halted"
          /\ UNCHANGED << requestTopic, responseTopic, readerMatched, backlog, served, process, taken >>
      BY <1>7 DEF GatewayHalts, Server!Halt, topicVars
    <2> QED
      BY <2>1 DEF PlacesTyped, PlacesCopied
  <1>8. CASE GatewayRestarts
    <2>1. /\ process < Processes /\ process' = process + 1
          /\ backlog' \in Server!Survivors(backlog) /\ mode' = "closed"
          /\ requestTopic' = << >> /\ readerMatched' = FALSE
          /\ UNCHANGED << responseTopic, served, taken >>
      BY <1>8 DEF GatewayRestarts, Server!Restart
    <2>2. backlog \in Seq(Commands) /\ Copies(backlog, prepared) /\ Len(backlog) <= Depth
      BY DEF PlacesTyped, PlacesCopied
    <2>3. backlog' \in Seq(Commands) /\ Len(backlog') <= Len(backlog) /\ Thins(backlog', backlog)
      BY <2>1, <2>2, SurvivorsThin
    <2>4. Copies(backlog', prepared)
      <3>1. \A k \in DOMAIN backlog' : \E j \in DOMAIN backlog : backlog'[k] = backlog[j]
        BY <2>2, <2>3, ThinsKeeps
      <3> QED
        BY <2>2, <3>1, CopiesOnly
    <2>5. Len(backlog') <= Depth /\ process' \in 1 .. Processes
      <3>1. Len(backlog') \in Nat
        BY <2>3, LenProperties
      <3> QED
        BY <1>0, <2>1, <2>2, <2>3, <3>1
    <2> QED
      BY <1>0, <2>1, <2>3, <2>4, <2>5, Zenon DEF PlacesTyped, PlacesCopied
  <1>9. ASSUME NEW code, GatewayAnswers(code) PROVE PlacesTyped' /\ Kept
    <2>1. /\ backlog # << >> /\ backlog' = Tail(backlog) /\ served' = Append(served, Head(backlog))
          /\ \/ responseTopic' = Append(responseTopic, Head(backlog))
             \/ UNCHANGED responseTopic
          /\ UNCHANGED << requestTopic, readerMatched, mode, process, taken >>
      BY <1>9 DEF GatewayAnswers, Server!Answer, AnswerTo
    <2>2. /\ backlog \in Seq(Commands) /\ responseTopic \in Seq(Commands) /\ served \in Seq(Commands)
          /\ Copies(backlog, prepared) /\ Copies(responseTopic, prepared) /\ Len(backlog) <= Depth
      BY DEF PlacesTyped, PlacesCopied
    <2>3. /\ Tail(backlog) \in Seq(Commands) /\ Copies(Tail(backlog), prepared)
          /\ Len(Tail(backlog)) = Len(backlog) - 1
          /\ Head(backlog) \in Commands /\ 1 \in DOMAIN backlog /\ Head(backlog) = backlog[1]
      BY <2>1, <2>2, HeadLeaves
    <2>4. /\ Head(backlog).stamp \in 1 .. Len(prepared)
          /\ Head(backlog).count = prepared[Head(backlog).stamp].count
      BY <2>2, <2>3 DEF Copies
    <2>5. /\ Append(responseTopic, Head(backlog)) \in Seq(Commands)
          /\ Copies(Append(responseTopic, Head(backlog)), prepared)
          /\ Append(served, Head(backlog)) \in Seq(Commands)
      BY <2>2, <2>3, <2>4, AppendStamps, CopiesAppend
    <2>6. responseTopic' \in Seq(Commands) /\ Copies(responseTopic', prepared)
      BY <2>1, <2>2, <2>5
    <2>7. Len(backlog') <= Depth
      BY <1>0, <2>1, <2>2, <2>3
    <2> QED
      BY <2>1, <2>3, <2>5, <2>6, <2>7 DEF PlacesTyped, PlacesCopied
  <1>10. CASE Loses \/ Overtakes
    <2>1. /\ UNCHANGED << readerMatched, backlog, served, mode, process, taken >>
          /\ \/ UNCHANGED requestTopic
             \/ \E i \in DOMAIN requestTopic : requestTopic' = Without(requestTopic, i)
             \/ \E i \in 2 .. Len(requestTopic) : requestTopic' = Swapped(requestTopic, i)
          /\ \/ UNCHANGED responseTopic
             \/ \E i \in DOMAIN responseTopic : responseTopic' = Without(responseTopic, i)
             \/ \E i \in 2 .. Len(responseTopic) : responseTopic' = Swapped(responseTopic, i)
      BY <1>10 DEF Loses, Overtakes, serverVars
    <2>2. ASSUME NEW S, NEW s \in Seq(S), NEW t, Copies(s, prepared),
                 \/ t = s
                 \/ \E i \in DOMAIN s : t = Without(s, i)
                 \/ \E i \in 2 .. Len(s) : t = Swapped(s, i)
          PROVE  t \in Seq(S) /\ Copies(t, prepared)
      <3>1. ASSUME NEW i \in DOMAIN s, t = Without(s, i) PROVE t \in Seq(S) /\ Copies(t, prepared)
        <4>1. i \in 1 .. Len(s)
          BY LenProperties
        <4>2. t \in Seq(S) /\ Thins(t, s)
          BY <3>1, <4>1, WithoutElements, WithoutThins
        <4>3. \A k \in DOMAIN t : \E j \in DOMAIN s : t[k] = s[j]
          BY <4>2, ThinsKeeps
        <4> QED
          BY <2>2, <4>2, <4>3, CopiesOnly
      <3>2. ASSUME NEW i \in 2 .. Len(s), t = Swapped(s, i) PROVE t \in Seq(S) /\ Copies(t, prepared)
        <4>1. t \in Seq(S) /\ \A k \in DOMAIN t : \E j \in DOMAIN s : t[k] = s[j]
          BY <3>2, SwappedElements, SwappedStamps
        <4> QED
          BY <2>2, <4>1, CopiesOnly
      <3> QED
        BY <2>2, <3>1, <3>2
    <2>3. requestTopic' \in Seq(Request) /\ Copies(requestTopic', prepared)
      BY <2>1, <2>2 DEF PlacesTyped, PlacesCopied
    <2>4. responseTopic' \in Seq(Commands) /\ Copies(responseTopic', prepared)
      BY <2>1, <2>2 DEF PlacesTyped, PlacesCopied
    <2> QED
      BY <2>1, <2>3, <2>4 DEF PlacesTyped, PlacesCopied
  <1> QED
    BY <1>1, <1>2, <1>3, <1>4, <1>5, <1>6, <1>7, <1>8, <1>9, <1>10, Zenon DEF Next, Client, Mgms

-----------------------------------------------------------------------------
(* Where the requests are. *)
LEMMA EmptyPlace == Stamps(<< >>) = {} /\ Distinct(<< >>)
PROOF
  BY DEF Stamps, Distinct

LEMMA HeldNext ==
  ASSUME WriterInv'
  PROVE  Held' = IF wpc' = "write" THEN {Len(prepared')} ELSE {}
PROOF
  <1>1. ASSUME wpc' = "write"
        PROVE  prepared'[Len(prepared')].stamp = Len(prepared')
    <2>1. Len(prepared') > 0 /\ Len(prepared') \in Nat
      BY <1>1, LenProperties, Zenon DEF WriterInv
    <2>2. Len(prepared') \in 1 .. Len(prepared')
      BY <2>1
    <2> QED
      BY <2>2 DEF WriterInv
  <1> QED
    BY <1>1 DEF Held, Current

LEMMA PlaceInit == Init => PlaceInv
PROOF
  <1> SUFFICES ASSUME Init PROVE PlaceInv
    OBVIOUS
  <1>1. /\ wpc = "match" /\ 1 .. Len(prepared) = {} /\ lost = {}
        /\ requestTopic = << >> /\ backlog = << >> /\ responseTopic = << >> /\ taken = << >>
    <2>1. prepared = << >> /\ Len(prepared) = 0
      BY DEF Init, ClientInit
    <2> QED
      BY <2>1 DEF Init, ClientInit
  <1>2. Held = {}
    BY <1>1 DEF Held
  <1> QED
    BY <1>1, <1>2, EmptyPlace DEF PlaceInv, Shared, Apart

LEMMA PlaceNext ==
  ASSUME WriterInv, WriterInv', PlacesTyped, PlaceInv, [Next]_vars
  PROVE  PlaceInv'
PROOF
  <1> DEFINE U == 1 .. Len(prepared)
             Q == Stamps(requestTopic)
             B == Stamps(backlog)
             R == Stamps(responseTopic)
             T == Stamps(taken)
  <1>0. /\ Distinct(requestTopic) /\ Distinct(backlog) /\ Distinct(responseTopic) /\ Distinct(taken)
        /\ Shared(U, Held, Q, B, R, T, lost)
        /\ requestTopic \in Seq(Request) /\ backlog \in Seq(Commands)
        /\ responseTopic \in Seq(Commands) /\ taken \in Seq(Commands)
        /\ Len(prepared) \in Nat
    BY HeldStamp DEF PlaceInv, PlacesTyped
  <1>h. UNCHANGED << wpc, prepared >> => Held' = Held
    BY DEF Held, Current
  <1>1. CASE \/ ClientStarts \/ ClientTakesNoData \/ GatewayMatches \/ GatewayHalts
             \/ UNCHANGED vars
    <2>1. UNCHANGED << prepared, requestTopic, backlog, responseTopic, taken, lost >>
      BY <1>1 DEF ClientStarts, ClientTakesNoData, WriterMatched, TakeNoData, GatewayMatches,
         GatewayHalts, Server!Open, Server!Halt, topicVars, serverVars, clientVars, writerVars, vars
    <2>2. Held' = Held
      <3>1. CASE ClientStarts
        <4>1. wpc # "write" /\ wpc' # "write"
          BY <3>1 DEF ClientStarts, WriterMatched
        <4> QED
          BY <4>1 DEF Held
      <3>2. CASE ~ClientStarts
        BY <1>1, <3>2, <1>h, NotWriters DEF Mgms
      <3> QED
        BY <3>1, <3>2
    <2> QED
      BY <1>0, <2>1, <2>2 DEF PlaceInv
  <1>2. CASE ClientPrepares
    <2>1. /\ wpc = "prepare" /\ wpc' = "write" /\ Len(prepared') = Len(prepared) + 1
          /\ UNCHANGED << requestTopic, backlog, responseTopic, taken, lost >>
      BY <1>2, <1>0 DEF ClientPrepares, Prepare, WriterInv, topicVars, serverVars
    <2>2. Held = {} /\ Held' = {Len(prepared) + 1}
      BY <2>1, HeldNext DEF Held
    <2>3. 1 .. Len(prepared') = U \cup {Len(prepared) + 1} /\ Len(prepared) + 1 \notin U
      BY <1>0, <2>1
    <2>4. Shared(U \cup {Len(prepared) + 1}, {Len(prepared) + 1}, Q, B, R, T, lost)
      <3> HIDE DEF U, Q, B, R, T
      <3> QED
        BY <1>0, <2>2, <2>3 DEF Shared, Apart
    <2> QED
      BY <1>0, <2>1, <2>2, <2>3, <2>4 DEF PlaceInv
  <1>3. ASSUME NEW code \in {"OK", "ERROR", "TIMEOUT"}, ClientWrites(code) PROVE PlaceInv'
    <2>1. /\ wpc = "write" /\ UNCHANGED << prepared, backlog, responseTopic, taken >>
      BY <1>3 DEF ClientWrites, Write, serverVars
    <2>2. /\ Held = {Current.stamp} /\ Current \in Request
          /\ Held \cap Q = {} /\ Current.stamp \notin Q
      <3>1. Held = {Current.stamp} /\ Current \in Request
        BY <2>1, HeldStamp DEF Held
      <3> HIDE DEF U, Q, B, R, T
      <3> QED
        BY <3>1, <1>0 DEF Shared, Apart
    <2>3. CASE code = "TIMEOUT"
      <3>1. UNCHANGED << wpc, requestTopic, lost >>
        BY <1>3, <2>3 DEF ClientWrites, Write, Repeats
      <3> QED
        BY <1>0, <1>h, <2>1, <3>1 DEF PlaceInv
    <2>4. CASE code = "OK"
      <3>1. /\ wpc' = "prepare" /\ requestTopic' = Append(requestTopic, Current)
            /\ UNCHANGED lost
        BY <1>3, <2>4 DEF ClientWrites, Write, Repeats
      <3>2. Held' = {}
        BY <3>1 DEF Held
      <3>3. Stamps(requestTopic') = Q \cup Held /\ Distinct(requestTopic')
        BY <1>0, <2>2, <3>1, AppendStamps
      <3>4. Shared(U, {}, Q \cup Held, B, R, T, lost)
        <4> HIDE DEF U, Q, B, R, T
        <4> QED
          BY <1>0 DEF Shared, Apart
      <3> QED
        BY <1>0, <2>1, <3>1, <3>2, <3>3, <3>4 DEF PlaceInv
    <2>5. CASE code = "ERROR"
      <3>1. wpc' = "prepare" /\ lost' = lost \cup Held /\ UNCHANGED requestTopic
        BY <1>3, <2>5 DEF ClientWrites, Write, Repeats
      <3>2. Held' = {}
        BY <3>1 DEF Held
      <3>3. Shared(U, {}, Q, B, R, T, lost \cup Held)
        <4> HIDE DEF U, Q, B, R, T
        <4> QED
          BY <1>0 DEF Shared, Apart
      <3> QED
        BY <1>0, <2>1, <3>1, <3>2, <3>3 DEF PlaceInv
    <2> QED
      BY <2>3, <2>4, <2>5
  <1>4. CASE ClientEnds
    <2>1. /\ wpc' = "done" /\ lost' = lost \cup Held
          /\ UNCHANGED << prepared, requestTopic, backlog, responseTopic, taken >>
      BY <1>4 DEF ClientEnds, WriterEnds, topicVars, serverVars
    <2>2. Held' = {}
      BY <2>1 DEF Held
    <2>3. Shared(U, {}, Q, B, R, T, lost \cup Held)
      <3> HIDE DEF U, Q, B, R, T
      <3> QED
        BY <1>0 DEF Shared, Apart
    <2> QED
      BY <1>0, <2>1, <2>2, <2>3 DEF PlaceInv
  <1>5. CASE ClientTakes
    <2> DEFINE x == Head(responseTopic).stamp
    <2>1. /\ responseTopic # << >> /\ responseTopic' = Tail(responseTopic)
          /\ taken' = Append(taken, Head(responseTopic))
          /\ UNCHANGED << requestTopic, backlog, lost >>
      BY <1>5 DEF ClientTakes, serverVars
    <2>2. /\ Distinct(responseTopic') /\ Stamps(responseTopic') = R \ {x} /\ x \in R
          /\ Head(responseTopic) \in Commands
      BY <1>0, <2>1, HeadLeaves
    <2>3. x \notin T
      <3> HIDE DEF U, Q, B, R, T, x
      <3> QED
        BY <1>0, <2>2 DEF Shared, Apart
    <2>4. Distinct(taken') /\ Stamps(taken') = T \cup {x}
      BY <1>0, <2>1, <2>2, <2>3, AppendStamps
    <2>5. Shared(U, Held, Q, B, R \ {x}, T \cup {x}, lost)
      <3> HIDE DEF U, Q, B, R, T, x
      <3> QED
        BY <1>0, <2>2 DEF Shared, Apart
    <2>6. UNCHANGED << wpc, prepared >>
      BY <1>5, NotWriters
    <2> QED
      BY <1>0, <1>h, <2>1, <2>2, <2>4, <2>5, <2>6 DEF PlaceInv
  <1>6. CASE ClientRestarts
    <2>1. /\ wpc' = "match" /\ lost' = lost \cup Held \cup R /\ responseTopic' = << >>
          /\ UNCHANGED << prepared, requestTopic, backlog, taken >>
      BY <1>6 DEF ClientRestarts, Restart, StartWriter, serverVars, Stamps
    <2>2. Held' = {} /\ Stamps(responseTopic') = {} /\ Distinct(responseTopic')
      BY <2>1, EmptyPlace DEF Held
    <2>3. Shared(U, {}, Q, B, {}, T, lost \cup Held \cup R)
      <3> HIDE DEF U, Q, B, R, T
      <3> QED
        BY <1>0 DEF Shared, Apart
    <2> QED
      BY <1>0, <2>1, <2>2, <2>3 DEF PlaceInv
  <1>7. CASE GatewayTakes
    <2> DEFINE x == Head(requestTopic).stamp
    <2>1. /\ requestTopic # << >> /\ requestTopic' = Tail(requestTopic)
          /\ backlog' = Append(backlog, CommandOf(Head(requestTopic)))
          /\ CommandOf(Head(requestTopic)) \in Commands
          /\ UNCHANGED << responseTopic, taken, lost >>
      <3>1. PICK c \in Commands : backlog' = Append(backlog, c)
        BY <1>7 DEF GatewayTakes, Server!Accept
      <3>2. backlog' = Append(backlog, CommandOf(Head(requestTopic)))
        BY <1>7 DEF GatewayTakes
      <3>3. c = CommandOf(Head(requestTopic))
        <4>1. backlog'[Len(backlog) + 1] = c
          BY <1>0, <3>1
        <4>2. backlog'[Len(backlog) + 1] = CommandOf(Head(requestTopic))
          BY <1>0, <3>2
        <4> QED
          BY <4>1, <4>2
      <3> QED
        BY <1>7, <3>2, <3>3 DEF GatewayTakes
    <2>2. /\ Distinct(requestTopic') /\ Stamps(requestTopic') = Q \ {x} /\ x \in Q
          /\ CommandOf(Head(requestTopic)).stamp = x
      BY <1>0, <2>1, HeadLeaves DEF CommandOf
    <2>3. x \notin B
      <3> HIDE DEF U, Q, B, R, T, x
      <3> QED
        BY <1>0, <2>2 DEF Shared, Apart
    <2>4. Distinct(backlog') /\ Stamps(backlog') = B \cup {x}
      BY <1>0, <2>1, <2>2, <2>3, AppendStamps
    <2>5. Shared(U, Held, Q \ {x}, B \cup {x}, R, T, lost)
      <3> HIDE DEF U, Q, B, R, T, x
      <3> QED
        BY <1>0, <2>2 DEF Shared, Apart
    <2>6. UNCHANGED << wpc, prepared >>
      BY <1>7, NotWriters DEF Mgms
    <2> QED
      BY <1>0, <1>h, <2>1, <2>2, <2>4, <2>5, <2>6 DEF PlaceInv
  <1>8. CASE GatewayRestarts
    <2> DEFINE B2 == Stamps(backlog')
    <2>1. /\ backlog' \in Server!Survivors(backlog) /\ requestTopic' = << >>
          /\ lost' = lost \cup Q \cup (B \ B2)
          /\ UNCHANGED << responseTopic, taken >>
      BY <1>8 DEF GatewayRestarts, Server!Restart, Stamps
    <2>2. B2 \subseteq B /\ Distinct(backlog')
      <3>1. backlog' \in Seq(Commands) /\ Thins(backlog', backlog)
        BY <1>0, <2>1, SurvivorsThin
      <3> QED
        BY <1>0, <3>1, ThinsKeeps
    <2>3. Stamps(requestTopic') = {} /\ Distinct(requestTopic')
      BY <2>1, EmptyPlace
    <2>4. Shared(U, Held, {}, B2, R, T, lost \cup Q \cup (B \ B2))
      <3> HIDE DEF U, Q, B, R, T, B2
      <3> QED
        BY <1>0, <2>2 DEF Shared, Apart
    <2>5. UNCHANGED << wpc, prepared >>
      BY <1>8, NotWriters DEF Mgms
    <2> QED
      BY <1>0, <1>h, <2>1, <2>2, <2>3, <2>4, <2>5 DEF PlaceInv
  <1>9. ASSUME NEW code \in {"OK", "ERROR"}, GatewayAnswers(code) PROVE PlaceInv'
    <2> DEFINE x == Head(backlog).stamp
    <2>1. /\ backlog # << >> /\ backlog' = Tail(backlog)
          /\ UNCHANGED << requestTopic, taken >>
      BY <1>9 DEF GatewayAnswers, Server!Answer
    <2>2. /\ Distinct(backlog') /\ Stamps(backlog') = B \ {x} /\ x \in B
          /\ Head(backlog) \in Commands
      BY <1>0, <2>1, HeadLeaves
    <2>3. UNCHANGED << wpc, prepared >>
      BY <1>9, NotWriters DEF Mgms
    <2>4. CASE responseTopic' = Append(responseTopic, Head(backlog)) /\ UNCHANGED lost
      <3>1. x \notin R
        <4> HIDE DEF U, Q, B, R, T, x
        <4> QED
          BY <1>0, <2>2 DEF Shared, Apart
      <3>2. Distinct(responseTopic') /\ Stamps(responseTopic') = R \cup {x}
        BY <1>0, <2>2, <2>4, <3>1, AppendStamps
      <3>3. Shared(U, Held, Q, B \ {x}, R \cup {x}, T, lost)
        <4> HIDE DEF U, Q, B, R, T, x
        <4> QED
          BY <1>0, <2>2 DEF Shared, Apart
      <3> QED
        BY <1>0, <1>h, <2>1, <2>2, <2>3, <2>4, <3>2, <3>3 DEF PlaceInv
    <2>5. CASE UNCHANGED responseTopic /\ lost' = lost \cup {x}
      <3>1. Shared(U, Held, Q, B \ {x}, R, T, lost \cup {x})
        <4> HIDE DEF U, Q, B, R, T, x
        <4> QED
          BY <1>0, <2>2 DEF Shared, Apart
      <3> QED
        BY <1>0, <1>h, <2>1, <2>2, <2>3, <2>5, <3>1 DEF PlaceInv
    <2> QED
      BY <1>9, <2>4, <2>5 DEF GatewayAnswers, AnswerTo
  <1>10. CASE Loses
    <2>1. UNCHANGED << wpc, prepared, backlog, taken >>
      BY <1>10 DEF Loses, clientVars, writerVars, serverVars
    <2>2. ASSUME NEW i \in DOMAIN requestTopic, requestTopic' = Without(requestTopic, i),
                 lost' = lost \cup {requestTopic[i].stamp}, UNCHANGED responseTopic
          PROVE  PlaceInv'
      <3> DEFINE x == requestTopic[i].stamp
      <3>1. i \in 1 .. Len(requestTopic) /\ Without(requestTopic, i) \in Seq(Request)
        BY <1>0, LenProperties, WithoutElements
      <3>2. Distinct(requestTopic')
        BY <1>0, <2>2, <3>1, WithoutThins, ThinsKeeps
      <3>3. Stamps(requestTopic') = Q \ {x} /\ x \in Q
        BY <1>0, <2>2, <3>1, WithoutStamps
      <3>4. Shared(U, Held, Q \ {x}, B, R, T, lost \cup {x})
        <4> HIDE DEF U, Q, B, R, T, x
        <4> QED
          BY <1>0, <3>3 DEF Shared, Apart
      <3> QED
        BY <1>0, <1>h, <2>1, <2>2, <3>2, <3>3, <3>4 DEF PlaceInv
    <2>3. ASSUME NEW i \in DOMAIN responseTopic, responseTopic' = Without(responseTopic, i),
                 lost' = lost \cup {responseTopic[i].stamp}, UNCHANGED requestTopic
          PROVE  PlaceInv'
      <3> DEFINE x == responseTopic[i].stamp
      <3>1. i \in 1 .. Len(responseTopic) /\ Without(responseTopic, i) \in Seq(Commands)
        BY <1>0, LenProperties, WithoutElements
      <3>2. Distinct(responseTopic')
        BY <1>0, <2>3, <3>1, WithoutThins, ThinsKeeps
      <3>3. Stamps(responseTopic') = R \ {x} /\ x \in R
        BY <1>0, <2>3, <3>1, WithoutStamps
      <3>4. Shared(U, Held, Q, B, R \ {x}, T, lost \cup {x})
        <4> HIDE DEF U, Q, B, R, T, x
        <4> QED
          BY <1>0, <3>3 DEF Shared, Apart
      <3> QED
        BY <1>0, <1>h, <2>1, <2>3, <3>2, <3>3, <3>4 DEF PlaceInv
    <2> QED
      BY <1>10, <2>2, <2>3 DEF Loses
  <1>11. CASE Overtakes
    <2>1. /\ UNCHANGED << wpc, prepared, backlog, taken, lost >>
          /\ \/ \E i \in 2 .. Len(requestTopic) :
                   requestTopic' = Swapped(requestTopic, i) /\ UNCHANGED responseTopic
             \/ \E i \in 2 .. Len(responseTopic) :
                   responseTopic' = Swapped(responseTopic, i) /\ UNCHANGED requestTopic
      BY <1>11 DEF Overtakes, clientVars, writerVars, serverVars
    <2>2. /\ Stamps(requestTopic') = Q /\ Distinct(requestTopic')
          /\ Stamps(responseTopic') = R /\ Distinct(responseTopic')
      BY <1>0, <2>1, SwappedStamps
    <2> QED
      BY <1>0, <1>h, <2>1, <2>2 DEF PlaceInv
  <1> QED
    BY <1>1, <1>2, <1>3, <1>4, <1>5, <1>6, <1>7, <1>8, <1>9, <1>10, <1>11, Zenon
    DEF Next, Client, Mgms

(* The places share the requests, so that each is in exactly one. *)
LEMMA PlacesAccounted == ASSUME PlaceInv, PlacesTyped PROVE Accounted
PROOF
  <1> DEFINE at(n) == {p \in DOMAIN Places : n \in Places[p]}
  <1>1. ASSUME NEW n \in 1 .. Len(prepared) PROVE Cardinality(at(n)) = 1
    <2> DEFINE U == 1 .. Len(prepared)
               Q == Stamps(requestTopic)
               B == Stamps(backlog)
               R == Stamps(responseTopic)
               T == Stamps(taken)
    <2>1. Shared(U, Held, Q, B, R, T, lost) /\ n \in U
      BY <1>1 DEF PlaceInv
    <2>2. /\ Places = << Held, Q, B, R, T, lost >> /\ DOMAIN Places = 1 .. 6
          /\ Places[1] = Held /\ Places[2] = Q /\ Places[3] = B
          /\ Places[4] = R /\ Places[5] = T /\ Places[6] = lost
      BY DEF Places
    <2>3. \E k \in 1 .. 6 : /\ n \in Places[k]
                            /\ \A p \in 1 .. 6 : n \in Places[p] => p = k
      <3> HIDE DEF U, Q, B, R, T
      <3>1. \/ n \in Held /\ n \notin Q /\ n \notin B /\ n \notin R /\ n \notin T /\ n \notin lost
            \/ n \notin Held /\ n \in Q /\ n \notin B /\ n \notin R /\ n \notin T /\ n \notin lost
            \/ n \notin Held /\ n \notin Q /\ n \in B /\ n \notin R /\ n \notin T /\ n \notin lost
            \/ n \notin Held /\ n \notin Q /\ n \notin B /\ n \in R /\ n \notin T /\ n \notin lost
            \/ n \notin Held /\ n \notin Q /\ n \notin B /\ n \notin R /\ n \in T /\ n \notin lost
            \/ n \notin Held /\ n \notin Q /\ n \notin B /\ n \notin R /\ n \notin T /\ n \in lost
        BY <2>1 DEF Shared, Apart
      <3>2. \A p \in 1 .. 6 : p = 1 \/ p = 2 \/ p = 3 \/ p = 4 \/ p = 5 \/ p = 6
        OBVIOUS
      <3> QED
        BY <2>2, <3>1, <3>2
    <2>4. PICK k \in 1 .. 6 : n \in Places[k] /\ \A p \in 1 .. 6 : n \in Places[p] => p = k
      BY <2>3
    <2>5. at(n) = {k}
      BY <2>2, <2>4
    <2> QED
      BY <2>5, FS_Singleton
  <1>2. \A s \in {requestTopic, backlog, responseTopic, taken} : Cardinality(Stamps(s)) = Len(s)
    BY StampsCounted DEF PlaceInv, PlacesTyped
  <1> QED
    BY <1>1, <1>2 DEF Accounted

-----------------------------------------------------------------------------
(* The order of what is on its way. *)
OrderedIfKept == ~Reorders => OrderInv

LEMMA IncreasingAppend ==
  ASSUME NEW T, NEW t \in Seq(T), NEW x \in T, Increasing(t),
         \A m \in Stamps(t) : m < x.stamp
  PROVE  Increasing(Append(t, x))
PROOF
  <1> DEFINE u == Append(t, x)
  <1>1. /\ Len(t) \in Nat /\ DOMAIN t = 1 .. Len(t) /\ DOMAIN u = 1 .. Len(t) + 1
        /\ \A k \in 1 .. Len(t) : u[k] = t[k]
        /\ u[Len(t) + 1] = x
    BY AppendProperties, LenProperties
  <1> HIDE DEF u
  <1>2. ASSUME NEW i \in DOMAIN u, NEW j \in DOMAIN u, i < j PROVE u[i].stamp < u[j].stamp
    <2>1. i \in DOMAIN t /\ u[i] = t[i]
      BY <1>1, <1>2
    <2>2. CASE j \in DOMAIN t
      BY <1>1, <1>2, <2>1, <2>2 DEF Increasing
    <2>3. CASE j \notin DOMAIN t
      <3>1. j = Len(t) + 1 /\ u[j] = x
        BY <1>1, <2>3
      <3> QED
        BY <2>1, <3>1 DEF Stamps
    <2> QED
      BY <2>2, <2>3
  <1> QED
    BY <1>2 DEF Increasing, u

LEMMA IncreasingTail ==
  ASSUME NEW S, NEW s \in Seq(S), s # << >>, Increasing(s)
  PROVE  Increasing(Tail(s)) /\ \A m \in Stamps(Tail(s)) : Head(s).stamp < m
PROOF
  <1> DEFINE t == Tail(s)
  <1>1. /\ t \in Seq(S) /\ Thins(t, s) /\ Head(s) = s[1] /\ 1 \in DOMAIN s
        /\ Len(s) \in Nat /\ DOMAIN s = 1 .. Len(s) /\ DOMAIN t = 1 .. Len(s) - 1
        /\ \A k \in 1 .. Len(s) - 1 : t[k] = s[k + 1]
    BY HeadLeaves, LenProperties
  <1> HIDE DEF t
  <1>2. Increasing(t)
    BY <1>1, ThinsKeeps
  <1>3. ASSUME NEW k \in DOMAIN t PROVE s[1].stamp < t[k].stamp
    <2>1. k + 1 \in DOMAIN s /\ 1 < k + 1 /\ t[k] = s[k + 1]
      BY <1>1
    <2> QED
      BY <1>1, <2>1 DEF Increasing
  <1> QED
    BY <1>1, <1>2, <1>3 DEF Stamps, t

LEMMA OrderInit == Init => OrderedIfKept
PROOF
  BY EmptyPlace DEF Init, ClientInit, OrderedIfKept, OrderInv, Increasing, Before

LEMMA OrderNext ==
  ASSUME WriterInv, PlacesTyped, PlaceInv, OrderedIfKept, [Next]_vars
  PROVE  OrderedIfKept'
PROOF
  <1> SUFFICES ASSUME ~Reorders PROVE OrderInv'
    BY DEF OrderedIfKept
  <1> DEFINE Q == Stamps(requestTopic)
             B == Stamps(backlog)
             R == Stamps(responseTopic)
             T == Stamps(taken)
  <1>0. /\ OrderInv
        /\ Distinct(requestTopic) /\ Distinct(backlog) /\ Distinct(responseTopic) /\ Distinct(taken)
        /\ requestTopic \in Seq(Request) /\ backlog \in Seq(Commands)
        /\ responseTopic \in Seq(Commands) /\ taken \in Seq(Commands)
        /\ Increasing(<< >>)
    BY DEF OrderedIfKept, PlaceInv, PlacesTyped, Increasing
  <1>1. ASSUME UNCHANGED << requestTopic, backlog, responseTopic, taken >> PROVE OrderInv'
    BY <1>0, <1>1 DEF OrderInv, Before
  <1>2. CASE \/ ClientStarts \/ ClientPrepares \/ ClientEnds \/ ClientTakesNoData \/ UNCHANGED vars
    BY <1>1, <1>2, NotPlaces
  <1>3. CASE GatewayMatches \/ GatewayHalts
    BY <1>1, <1>3 DEF GatewayMatches, GatewayHalts, Server!Open, Server!Halt, topicVars
  <1>4. ASSUME NEW code, ClientWrites(code) PROVE OrderInv'
    <2>1. /\ wpc = "write"
          /\ requestTopic' = Append(requestTopic, Current) \/ UNCHANGED requestTopic
          /\ UNCHANGED << backlog, responseTopic, taken >>
      BY <1>4 DEF ClientWrites, Write, serverVars
    <2>2. CASE requestTopic' = Append(requestTopic, Current)
      <3> DEFINE n == Len(prepared)
      <3>1. Current \in Request /\ Current.stamp = n /\ Held = {n} /\ n \in Nat
        BY <2>1, HeldStamp
      <3>2. \A m \in Q \cup B \cup R \cup T : m < n
        <4>1. Shared(1 .. n, Held, Q, B, R, T, lost)
          BY DEF PlaceInv
        <4>2. \A m \in Q \cup B \cup R \cup T : m \in 1 .. n /\ m # n
          <5> HIDE DEF Q, B, R, T, n
          <5> QED
            BY <3>1, <4>1 DEF Shared, Apart
        <4> QED
          BY <3>1, <4>2
      <3>3. Increasing(requestTopic') /\ Stamps(requestTopic') = Q \cup {n}
        BY <1>0, <2>2, <3>1, <3>2, IncreasingAppend, AppendStamps DEF OrderInv
      <3> QED
        BY <1>0, <2>1, <3>2, <3>3 DEF OrderInv, Before
    <2> QED
      BY <1>1, <2>1, <2>2
  <1>5. CASE ClientTakes
    <2> DEFINE x == Head(responseTopic).stamp
    <2>1. /\ responseTopic # << >> /\ responseTopic' = Tail(responseTopic)
          /\ taken' = Append(taken, Head(responseTopic))
          /\ UNCHANGED << requestTopic, backlog >>
      BY <1>5 DEF ClientTakes, serverVars
    <2>2. /\ Stamps(responseTopic') = R \ {x} /\ x \in R /\ Head(responseTopic) \in Commands
          /\ Increasing(responseTopic') /\ \A m \in Stamps(responseTopic') : x < m
      BY <1>0, <2>1, HeadLeaves, IncreasingTail DEF OrderInv
    <2>3. Increasing(taken') /\ Stamps(taken') = T \cup {x}
      BY <1>0, <2>1, <2>2, IncreasingAppend, AppendStamps DEF OrderInv, Before
    <2> QED
      BY <1>0, <2>1, <2>2, <2>3 DEF OrderInv, Before
  <1>6. CASE ClientRestarts
    <2>1. responseTopic' = << >> /\ UNCHANGED << requestTopic, backlog, taken >>
      BY <1>6 DEF ClientRestarts, serverVars
    <2> QED
      BY <1>0, <2>1, EmptyPlace DEF OrderInv, Before
  <1>7. CASE GatewayTakes
    <2> DEFINE x == Head(requestTopic).stamp
               c == CommandOf(Head(requestTopic))
    <2>1. /\ requestTopic # << >> /\ requestTopic' = Tail(requestTopic)
          /\ backlog' = Append(backlog, c)
          /\ UNCHANGED << responseTopic, taken >>
      BY <1>7 DEF GatewayTakes
    <2>2. /\ Stamps(requestTopic') = Q \ {x} /\ x \in Q
          /\ Increasing(requestTopic') /\ \A m \in Stamps(requestTopic') : x < m
      BY <1>0, <2>1, HeadLeaves, IncreasingTail DEF OrderInv
    <2>3. c.stamp = x
      BY DEF CommandOf
    <2>4. backlog \in Seq(Commands \cup {c}) /\ c \in Commands \cup {c}
      BY <1>0
    <2>5. Increasing(backlog') /\ Stamps(backlog') = B \cup {x}
      BY <1>0, <2>1, <2>2, <2>3, <2>4, IncreasingAppend, AppendStamps DEF OrderInv, Before
    <2> QED
      BY <1>0, <2>1, <2>2, <2>5 DEF OrderInv, Before
  <1>8. CASE GatewayRestarts
    <2>1. /\ backlog' \in Server!Survivors(backlog) /\ requestTopic' = << >>
          /\ UNCHANGED << responseTopic, taken >>
      BY <1>8 DEF GatewayRestarts, Server!Restart
    <2>2. Stamps(backlog') \subseteq B /\ Increasing(backlog')
      <3>1. backlog' \in Seq(Commands) /\ Thins(backlog', backlog)
        BY <1>0, <2>1, SurvivorsThin
      <3> QED
        BY <1>0, <3>1, ThinsKeeps DEF OrderInv
    <2> QED
      BY <1>0, <2>1, <2>2, EmptyPlace DEF OrderInv, Before
  <1>9. ASSUME NEW code, GatewayAnswers(code) PROVE OrderInv'
    <2> DEFINE x == Head(backlog).stamp
    <2>1. /\ backlog # << >> /\ backlog' = Tail(backlog)
          /\ \/ responseTopic' = Append(responseTopic, Head(backlog))
             \/ UNCHANGED responseTopic
          /\ UNCHANGED << requestTopic, taken >>
      BY <1>9 DEF GatewayAnswers, Server!Answer, AnswerTo
    <2>2. /\ Stamps(backlog') = B \ {x} /\ x \in B /\ Head(backlog) \in Commands
          /\ Increasing(backlog') /\ \A m \in Stamps(backlog') : x < m
      BY <1>0, <2>1, HeadLeaves, IncreasingTail DEF OrderInv
    <2>3. CASE responseTopic' = Append(responseTopic, Head(backlog))
      <3>1. Increasing(responseTopic') /\ Stamps(responseTopic') = R \cup {x}
        BY <1>0, <2>2, <2>3, IncreasingAppend, AppendStamps DEF OrderInv, Before
      <3> QED
        BY <1>0, <2>1, <2>2, <3>1 DEF OrderInv, Before
    <2>4. CASE UNCHANGED responseTopic
      BY <1>0, <2>1, <2>2, <2>4 DEF OrderInv, Before
    <2> QED
      BY <2>1, <2>3, <2>4
  <1>10. CASE Loses
    <2>1. /\ UNCHANGED << backlog, taken >>
          /\ \/ /\ \E i \in DOMAIN requestTopic : requestTopic' = Without(requestTopic, i)
                /\ UNCHANGED responseTopic
             \/ /\ \E i \in DOMAIN responseTopic : responseTopic' = Without(responseTopic, i)
                /\ UNCHANGED requestTopic
      BY <1>10 DEF Loses, serverVars
    <2>2. ASSUME NEW S, NEW s \in Seq(S), NEW i \in DOMAIN s, Increasing(s)
          PROVE  Increasing(Without(s, i)) /\ Stamps(Without(s, i)) \subseteq Stamps(s)
      <3>1. i \in 1 .. Len(s)
        BY LenProperties
      <3>2. Without(s, i) \in Seq(S) /\ Thins(Without(s, i), s)
        BY <3>1, WithoutElements, WithoutThins
      <3> QED
        BY <2>2, <3>2, ThinsKeeps
    <2>3. /\ Increasing(requestTopic') /\ Stamps(requestTopic') \subseteq Q
          /\ Increasing(responseTopic') /\ Stamps(responseTopic') \subseteq R
      BY <1>0, <2>1, <2>2 DEF OrderInv
    <2> QED
      BY <1>0, <2>1, <2>3 DEF OrderInv, Before
  <1>11. CASE Overtakes
    BY <1>11 DEF Overtakes
  <1> QED
    BY <1>2, <1>3, <1>4, <1>5, <1>6, <1>7, <1>8, <1>9, <1>10, <1>11, Zenon DEF Next, Client, Mgms

-----------------------------------------------------------------------------
(* The types of the listener. *)
LEMMA NotListeners ==
  ASSUME \/ ClientStarts \/ ClientPrepares \/ ClientEnds \/ Mgms \/ Loses \/ Overtakes
         \/ UNCHANGED vars
         \/ \E code \in {"OK", "ERROR", "TIMEOUT"} : ClientWrites(code)
  PROVE  UNCHANGED << run, lvalid, lmQ, csv, file, fileNo, arrived, gaps, rtt >> /\ UNCHANGED taken
PROOF
  BY DEF ClientStarts, WriterMatched, ClientPrepares, Prepare, ClientEnds, WriterEnds,
     ClientWrites, Write, listenerVars, clientVars, topicVars,
     Mgms, GatewayMatches, GatewayTakes, GatewayHalts, GatewayRestarts, GatewayAnswers,
     Loses, Overtakes, vars

(* What taking a response does to the logs. *)
LEMMA TakeEffect ==
  ASSUME ListenerTyped, NEW s \in Commands, Take(s)
  PROVE  /\ s.count \in Nat /\ s.stamp \in Nat
         /\ arrived' = Append(arrived, s)
         /\ lmQ' = Times(lmQ, s.count, Len(arrived) + 1)
         /\ gaps' = IF csv = "open" THEN gaps \o Row(lmQ, s.count, Len(arrived) + 1) ELSE gaps
         /\ fileNo' = RowFile(s.count)
         /\ rtt' = IF file = "open"
                   THEN Append(rtt, [stamp |-> s.stamp, count |-> s.count, file |-> fileNo'])
                   ELSE rtt
         /\ file' = IF file = "open"
                    THEN IF s.count = CloseCount THEN "closed" ELSE "open"
                    ELSE "broken"
         /\ csv' = IF csv = "open"
                   THEN IF s.count = CloseCount THEN "closed" ELSE "open"
                   ELSE IF s.count >= 2 THEN "broken" ELSE csv
         /\ UNCHANGED << run, wpc, count, prepared, lvalid >>
PROOF
  <1> DEFINE c == s.count
             gap == IF Logs(c) THEN Used(csv) ELSE csv
             fresh == IF Reopens(c) /\ Closed(file) = "closed" THEN "open" ELSE Used(file)
  <1>1. c \in Nat /\ s.stamp \in Nat
    BY RunBound, ClientAssumption DEF Commands
  <1>2. CloseCount \in Nat /\ CloseCount >= 2
    BY ClientAssumption
  <1>3. fresh = IF file = "open" THEN "open" ELSE "broken"
    BY DEF Closed, Used
  <1>4. gap = IF csv = "open" THEN "open" ELSE IF c >= 2 THEN "broken" ELSE csv
    BY <1>1 DEF Used, Logs
  <1>5. /\ csv' = IF c = CloseCount THEN Closed(gap) ELSE gap
        /\ file' = IF c = CloseCount THEN Closed(fresh) ELSE fresh
        /\ rtt' = IF fresh = "open"
                  THEN Append(rtt, [stamp |-> s.stamp, count |-> c, file |-> RowFile(c)])
                  ELSE rtt
        /\ fileNo' = RowFile(c)
    BY DEF Take, Closes, RowFile
  <1> HIDE DEF c
  <1>6. csv' = IF csv = "open"
               THEN IF c = CloseCount THEN "closed" ELSE "open"
               ELSE IF c >= 2 THEN "broken" ELSE csv
    <2>1. c = CloseCount => c >= 2
      BY <1>2
    <2> HIDE DEF gap
    <2> QED
      BY <1>1, <1>4, <1>5, <2>1 DEF Closed
  <1>7. file' = IF file = "open" THEN IF c = CloseCount THEN "closed" ELSE "open" ELSE "broken"
    BY <1>3, <1>5 DEF Closed
  <1>8. rtt' = IF file = "open"
               THEN Append(rtt, [stamp |-> s.stamp, count |-> c, file |-> fileNo'])
               ELSE rtt
    BY <1>3, <1>5
  <1> QED
    BY <1>1, <1>5, <1>6, <1>7, <1>8 DEF Take, c, writerVars

LEMMA ListenerInit == Init => ListenerTyped
PROOF
  <1> SUFFICES ASSUME Init PROVE ListenerTyped
    OBVIOUS
  <1>1. /\ lvalid = TRUE /\ lmQ = << >> /\ arrived = << >>
        /\ csv = "open" /\ gaps = << >>
        /\ file = "open" /\ fileNo = 0 /\ rtt = << >>
    BY DEF Init, ClientInit
  <1> QED
    BY <1>1 DEF ListenerTyped, Copies

LEMMA TimesTyped ==
  ASSUME NEW q \in Seq(Nat), NEW c \in Nat, NEW n \in Nat
  PROVE  /\ Times(q, c, n) \in Seq(Nat)
         /\ Row(q, c, n) \in Seq([count : Nat, now : Nat, from : Nat])
PROOF
  <1>1. /\ Append(q, n) \in Seq(Nat) /\ Append(q, n) # << >>
        /\ Tail(Append(q, n)) \in Seq(Nat)
    BY AppendProperties, HeadTailProperties
  <1>2. Times(q, c, n) \in Seq(Nat)
    BY <1>1 DEF Times
  <1>3. Reference(q, c, n) \in Nat
    BY <1>2, HeadTailProperties DEF Reference, NoTime
  <1> DEFINE GapRow == [count : Nat, now : Nat, from : Nat]
             r == [count |-> c, now |-> n, from |-> Reference(q, c, n)]
  <1>4. r \in GapRow
    BY <1>3
  <1>5. Row(q, c, n) = IF Logs(c) THEN << r >> ELSE << >>
    BY DEF Row
  <1> HIDE DEF r, GapRow
  <1>6. Row(q, c, n) \in Seq(GapRow)
    BY <1>4, <1>5
  <1> QED
    BY <1>2, <1>6 DEF GapRow

LEMMA ListenerNext ==
  ASSUME WriterInv, PlacesTyped, PlacesCopied, ListenerTyped, [Next]_vars
  PROVE  ListenerTyped'
PROOF
  <1> DEFINE GapRow == [count : Nat, now : Nat, from : Nat]
             RttRow == [stamp : Nat, count : Nat, file : Nat]
  <1>1. CASE ClientTakes
    <2> DEFINE s == Head(responseTopic)
               n == Len(arrived) + 1
               r == [stamp |-> s.stamp, count |-> s.count, file |-> fileNo']
    <2>1. responseTopic # << >> /\ Take(s)
      BY <1>1 DEF ClientTakes
    <2>2. s \in Commands /\ 1 \in DOMAIN responseTopic /\ s = responseTopic[1]
      BY <2>1, HeadLeaves DEF PlacesTyped
    <2>3. s.stamp \in 1 .. Len(prepared) /\ s.count = prepared[s.stamp].count
      BY <2>2 DEF PlacesCopied, Copies
    <2> HIDE DEF s
    <2>4. /\ s.count \in Nat /\ s.stamp \in Nat /\ arrived' = Append(arrived, s)
          /\ lmQ' = Times(lmQ, s.count, n)
          /\ gaps' = IF csv = "open" THEN gaps \o Row(lmQ, s.count, n) ELSE gaps
          /\ fileNo' = RowFile(s.count)
          /\ rtt' = IF file = "open" THEN Append(rtt, r) ELSE rtt
          /\ file' \in {"open", "closed", "broken"} /\ csv' \in {csv, "open", "closed", "broken"}
          /\ UNCHANGED << prepared, lvalid >>
      BY <2>1, <2>2, TakeEffect
    <2>5. n \in Nat
      BY LenProperties DEF ListenerTyped
    <2>6. lmQ' \in Seq(Nat) /\ Row(lmQ, s.count, n) \in Seq(GapRow)
      BY <2>4, <2>5, TimesTyped DEF ListenerTyped
    <2>7. gaps' \in Seq(GapRow)
      BY <2>4, <2>6, ConcatProperties DEF ListenerTyped
    <2>8. fileNo' \in Nat
      BY <2>4 DEF RowFile, ListenerTyped
    <2>9. r \in RttRow /\ r.stamp = s.stamp /\ r.count = s.count
      BY <2>4, <2>8
    <2>10. rtt' \in Seq(RttRow) /\ Copies(rtt', prepared)
      <3> HIDE DEF r
      <3> QED
        BY <2>3, <2>4, <2>9, AppendStamps, CopiesAppend DEF ListenerTyped
    <2>11. arrived' \in Seq(Commands)
      BY <2>2, <2>4, AppendProperties DEF ListenerTyped
    <2> QED
      BY <2>4, <2>6, <2>7, <2>8, <2>10, <2>11 DEF ListenerTyped
  <1>2. CASE ClientTakesNoData
    <2>1. /\ lvalid' = FALSE /\ UNCHANGED << lmQ, csv, file, fileNo, arrived, gaps, rtt, prepared >>
      BY <1>2 DEF ClientTakesNoData, TakeNoData, writerVars
    <2> QED
      BY <2>1 DEF ListenerTyped
  <1>3. CASE ClientRestarts
    <2>1. /\ lvalid' = TRUE /\ lmQ' = << >> /\ arrived' = << >>
          /\ csv' = "open" /\ gaps' = << >>
          /\ file' = "open" /\ fileNo' = 0 /\ rtt' = << >>
      BY <1>3 DEF ClientRestarts, Restart, StartListener
    <2> QED
      BY <2>1 DEF ListenerTyped, Copies
  <1>4. CASE \/ ClientStarts \/ ClientPrepares \/ ClientEnds \/ Mgms \/ Loses \/ Overtakes
             \/ UNCHANGED vars
             \/ \E code \in {"OK", "ERROR", "TIMEOUT"} : ClientWrites(code)
    <2>1. UNCHANGED << lvalid, lmQ, csv, file, fileNo, arrived, gaps, rtt >>
      BY <1>4, NotListeners
    <2>2. Copies(rtt, prepared')
      BY CopiesGrow DEF ListenerTyped
    <2> QED
      BY <2>1, <2>2 DEF ListenerTyped
  <1> QED
    BY <1>1, <1>2, <1>3, <1>4, Zenon DEF Next, Client

-----------------------------------------------------------------------------
(* The use of the log files after they are closed. *)
LEMMA FilesNext ==
  ASSUME PlacesTyped, ListenerTyped, FilesInv, [Next]_vars
  PROVE  FilesInv'
PROOF
  <1>1. CASE ClientTakes
    <2> DEFINE s == Head(responseTopic)
               c == s.count
               After(a, k) == \E i, j \in DOMAIN a :
                                i < j /\ a[i].count = CloseCount /\ a[j].count >= k
               Some(a) == \E i \in DOMAIN a : a[i].count = CloseCount
    <2>1. responseTopic # << >> /\ Take(s)
      BY <1>1 DEF ClientTakes
    <2>2. s \in Commands
      BY <2>1, HeadLeaves DEF PlacesTyped
    <2> HIDE DEF s
    <2>3. /\ c \in Nat
          /\ arrived' = Append(arrived, s)
          /\ file' = IF file = "open" THEN IF c = CloseCount THEN "closed" ELSE "open" ELSE "broken"
          /\ csv' = IF csv = "open"
                    THEN IF c = CloseCount THEN "closed" ELSE "open"
                    ELSE IF c >= 2 THEN "broken" ELSE csv
      BY <2>1, <2>2, TakeEffect
    <2>4. /\ Len(arrived) \in Nat /\ DOMAIN arrived = 1 .. Len(arrived)
          /\ DOMAIN arrived' = 1 .. Len(arrived) + 1
          /\ \A k \in 1 .. Len(arrived) : arrived'[k] = arrived[k]
          /\ arrived'[Len(arrived) + 1] = s
      BY <2>2, <2>3, AppendProperties, LenProperties DEF ListenerTyped
    <2>5. Some(arrived') <=> Some(arrived) \/ c = CloseCount
      BY <2>4
    <2>6. ASSUME NEW k \in {0, 2}
          PROVE  After(arrived', k) <=> After(arrived, k) \/ (Some(arrived) /\ c >= k)
      <3>1. ASSUME After(arrived', k) PROVE After(arrived, k) \/ (Some(arrived) /\ c >= k)
        <4>1. PICK i \in DOMAIN arrived', j \in DOMAIN arrived' :
                i < j /\ arrived'[i].count = CloseCount /\ arrived'[j].count >= k
          BY <3>1
        <4>2. i \in DOMAIN arrived /\ (j \in DOMAIN arrived \/ j = Len(arrived) + 1)
          BY <2>4, <4>1
        <4>3. arrived[i].count = CloseCount
          BY <2>4, <4>1, <4>2
        <4>4. CASE j \in DOMAIN arrived
          BY <2>4, <4>1, <4>2, <4>3, <4>4
        <4>5. CASE j = Len(arrived) + 1
          BY <2>4, <4>1, <4>2, <4>3, <4>5
        <4> QED
          BY <4>2, <4>4, <4>5
      <3>2. ASSUME After(arrived, k) PROVE After(arrived', k)
        BY <2>4, <3>2
      <3>3. ASSUME Some(arrived), c >= k PROVE After(arrived', k)
        <4>1. PICK i \in DOMAIN arrived : arrived[i].count = CloseCount
          BY <3>3
        <4>2. /\ i \in DOMAIN arrived' /\ Len(arrived) + 1 \in DOMAIN arrived'
              /\ i < Len(arrived) + 1
          BY <2>4
        <4>3. arrived'[i].count = CloseCount /\ arrived'[Len(arrived) + 1].count >= k
          BY <2>4, <3>3, <4>1
        <4> QED
          BY <4>2, <4>3
      <3> QED
        BY <3>1, <3>2, <3>3
    <2>7. /\ file = "open" <=> ~Some(arrived)
          /\ csv = "open" <=> ~Some(arrived)
          /\ (file = "broken") <=> After(arrived, 0)
          /\ (csv = "broken")  <=> After(arrived, 2)
          /\ file \in {"open", "closed", "broken"} /\ csv \in {"open", "closed", "broken"}
      BY DEF FilesInv, HasClosed, UseAfterClose, ListenerTyped
    <2>8. After(arrived, 0) => Some(arrived)
      OBVIOUS
    <2>9. After(arrived, 2) => Some(arrived)
      OBVIOUS
    <2>10. /\ file' = "open" <=> ~Some(arrived')
           /\ csv' = "open" <=> ~Some(arrived')
           /\ (file' = "broken") <=> After(arrived', 0)
           /\ (csv' = "broken")  <=> After(arrived', 2)
      <3>1. /\ After(arrived', 0) <=> After(arrived, 0) \/ (Some(arrived) /\ c >= 0)
            /\ After(arrived', 2) <=> After(arrived, 2) \/ (Some(arrived) /\ c >= 2)
            /\ c >= 0
        BY SMTT(30), <2>3, <2>6
      <3> HIDE DEF After, Some, c
      <3>2. file' = "open" <=> ~Some(arrived')
        BY <2>3, <2>5, <2>7
      <3>3. csv' = "open" <=> ~Some(arrived')
        BY <2>3, <2>5, <2>7
      <3>4. (file' = "broken") <=> After(arrived', 0)
        BY <2>3, <2>7, <2>8, <3>1
      <3>5. (csv' = "broken") <=> After(arrived', 2)
        BY <2>3, <2>7, <2>9, <3>1
      <3> QED
        BY <3>2, <3>3, <3>4, <3>5
    <2> QED
      BY <2>10 DEF FilesInv, HasClosed, UseAfterClose
  <1>2. CASE ClientRestarts
    <2>1. arrived' = << >> /\ csv' = "open" /\ file' = "open"
      BY <1>2 DEF ClientRestarts, Restart, StartListener
    <2> QED
      BY <2>1 DEF FilesInv, HasClosed, UseAfterClose
  <1>3. ASSUME UNCHANGED << csv, file, arrived >> PROVE FilesInv'
    BY <1>3 DEF FilesInv, HasClosed, UseAfterClose
  <1>4. CASE ClientTakesNoData
    BY <1>3, <1>4 DEF ClientTakesNoData, TakeNoData
  <1>5. CASE \/ ClientStarts \/ ClientPrepares \/ ClientEnds \/ Mgms \/ Loses \/ Overtakes
             \/ UNCHANGED vars
             \/ \E code \in {"OK", "ERROR", "TIMEOUT"} : ClientWrites(code)
    BY <1>3, <1>5, NotListeners
  <1> QED
    BY <1>1, <1>2, <1>4, <1>5, Zenon DEF Next, Client

LEMMA FilesInit == Init => FilesInv
PROOF
  BY DEF Init, ClientInit, FilesInv, HasClosed, UseAfterClose

-----------------------------------------------------------------------------
(* Nothing lost, nothing overtaken: the places are one row. *)
LEMMA FromHead ==
  ASSUME NEW S, NEW s \in Seq(S), s # << >>, NEW T, NEW t \in Seq(T), NEW x \in T, NEW n \in Nat,
         From(t, n), From(s, n + Len(t)), x.stamp = Head(s).stamp
  PROVE  /\ From(Append(t, x), n) /\ From(Tail(s), n + Len(Append(t, x)))
         /\ Len(Append(t, x)) = Len(t) + 1 /\ Len(Tail(s)) = Len(s) - 1
         /\ x.stamp = n + Len(t) + 1
PROOF
  <1> DEFINE u == Append(t, x)
             v == Tail(s)
  <1>1. /\ Len(t) \in Nat /\ DOMAIN t = 1 .. Len(t) /\ DOMAIN u = 1 .. Len(t) + 1
        /\ Len(u) = Len(t) + 1
        /\ \A k \in 1 .. Len(t) : u[k] = t[k]
        /\ u[Len(t) + 1] = x
    BY AppendProperties, LenProperties
  <1>2. /\ v \in Seq(S) /\ Len(v) = Len(s) - 1 /\ Len(s) \in Nat \ {0} /\ Head(s) = s[1]
        /\ 1 \in DOMAIN s /\ DOMAIN s = 1 .. Len(s) /\ DOMAIN v = 1 .. Len(s) - 1
        /\ \A k \in 1 .. Len(s) - 1 : v[k] = s[k + 1]
    BY HeadLeaves, LenProperties
  <1> HIDE DEF u, v
  <1>3. x.stamp = n + Len(t) + 1
    BY <1>1, <1>2 DEF From
  <1>4. From(u, n)
    <2>1. ASSUME NEW i \in DOMAIN u PROVE u[i].stamp = n + i
      <3>1. CASE i \in DOMAIN t
        BY <1>1, <3>1 DEF From
      <3>2. CASE i \notin DOMAIN t
        <4>1. i = Len(t) + 1
          BY <1>1, <3>2
        <4> QED
          BY <1>1, <1>3, <4>1
      <3> QED
        BY <3>1, <3>2
    <2> QED
      BY <2>1 DEF From
  <1>5. From(v, n + Len(u))
    <2>1. ASSUME NEW i \in DOMAIN v PROVE v[i].stamp = n + Len(u) + i
      <3>1. i + 1 \in DOMAIN s /\ v[i] = s[i + 1] /\ i \in Nat
        BY <1>2
      <3>2. s[i + 1].stamp = n + Len(t) + (i + 1)
        BY <3>1 DEF From
      <3> QED
        BY <1>1, <3>1, <3>2
    <2> QED
      BY <2>1 DEF From
  <1> QED
    BY <1>1, <1>2, <1>3, <1>4, <1>5 DEF u, v

LEMMA FromAppend ==
  ASSUME NEW T, NEW t \in Seq(T), NEW x \in T, NEW n \in Nat,
         From(t, n), x.stamp = n + Len(t) + 1
  PROVE  From(Append(t, x), n) /\ Len(Append(t, x)) = Len(t) + 1
PROOF
  <1> DEFINE u == Append(t, x)
  <1>1. /\ Len(t) \in Nat /\ DOMAIN t = 1 .. Len(t) /\ DOMAIN u = 1 .. Len(t) + 1
        /\ Len(u) = Len(t) + 1
        /\ \A k \in 1 .. Len(t) : u[k] = t[k]
        /\ u[Len(t) + 1] = x
    BY AppendProperties, LenProperties
  <1> HIDE DEF u
  <1>2. ASSUME NEW i \in DOMAIN u PROVE u[i].stamp = n + i
    <2>1. CASE i \in DOMAIN t
      BY <1>1, <2>1 DEF From
    <2>2. CASE i \notin DOMAIN t
      <3>1. i = Len(t) + 1
        BY <1>1, <2>2
      <3> QED
        BY <1>1, <3>1
    <2> QED
      BY <2>1, <2>2
  <1> QED
    BY <1>1, <1>2 DEF From, u

LEMMA EmptyDomain ==
  ASSUME NEW S, NEW s \in Seq(S), \A i \in DOMAIN s : FALSE
  PROVE  s = << >>
PROOF
  <1>1. Len(s) \in Nat /\ DOMAIN s = 1 .. Len(s)
    BY LenProperties
  <1>2. Len(s) = 0
    <2>1. 1 \notin 1 .. Len(s)
      BY <1>1
    <2> QED
      BY <1>1, <2>1
  <1> QED
    BY <1>2, EmptySeq

LEMMA RowInit == Init => RowInv
PROOF
  <1> SUFFICES ASSUME Init PROVE RowInv
    OBVIOUS
  <1>1. /\ wpc = "match" /\ prepared = << >> /\ requestTopic = << >> /\ backlog = << >>
        /\ responseTopic = << >> /\ taken = << >>
    BY DEF Init, ClientInit
  <1>2. Len(<< >>) = 0 /\ \A n : From(<< >>, n)
    BY DEF From
  <1> QED
    BY <1>1, <1>2 DEF RowInv

(* What is lost stays lost. *)
LEMMA LostStays == ASSUME [Next]_vars PROVE lost \subseteq lost'
PROOF
  BY DEF Next, Client, Mgms, ClientStarts, ClientPrepares, ClientEnds, ClientWrites, ClientTakes,
     ClientTakesNoData, ClientRestarts, GatewayMatches, GatewayTakes, GatewayHalts, GatewayRestarts,
     GatewayAnswers, Loses, Overtakes, vars

LEMMA RowNext ==
  ASSUME WriterInv, PlacesTyped, PlaceInv, RowInv, [Next]_vars
  PROVE  RowInv'
PROOF
  <1> SUFFICES ASSUME lost' = {}, ~Reorders PROVE RowInv'
    BY DEF RowInv
  <1> DEFINE Inside == Len(taken) + Len(responseTopic) + Len(backlog) + Len(requestTopic)
             InHand == IF wpc = "write" THEN 1 ELSE 0
  <1>0. /\ lost = {}
        /\ requestTopic \in Seq(Request) /\ backlog \in Seq(Commands)
        /\ responseTopic \in Seq(Commands) /\ taken \in Seq(Commands)
        /\ Len(requestTopic) \in Nat /\ Len(backlog) \in Nat
        /\ Len(responseTopic) \in Nat /\ Len(taken) \in Nat /\ Len(prepared) \in Nat
    BY LostStays, LenProperties DEF PlacesTyped, WriterInv
  <1>r. /\ From(taken, 0)
        /\ From(responseTopic, Len(taken))
        /\ From(backlog, Len(taken) + Len(responseTopic))
        /\ From(requestTopic, Len(taken) + Len(responseTopic) + Len(backlog))
        /\ Len(prepared) = Inside + InHand
    BY <1>0 DEF RowInv
  <1>e. \A n : From(<< >>, n)
    BY DEF From
  <1>1. CASE ClientStarts \/ ClientTakesNoData \/ GatewayMatches \/ GatewayHalts \/ UNCHANGED vars
    <2>1. UNCHANGED << prepared, requestTopic, backlog, responseTopic, taken >>
      BY <1>1 DEF ClientStarts, ClientTakesNoData, WriterMatched, TakeNoData, GatewayMatches,
         GatewayHalts, Server!Open, Server!Halt, topicVars, serverVars, clientVars, writerVars, vars
    <2>2. wpc' = "write" <=> wpc = "write"
      BY <1>1, NotWriters DEF ClientStarts, WriterMatched, Mgms
    <2> QED
      BY <1>r, <2>1, <2>2 DEF RowInv
  <1>2. CASE ClientPrepares
    <2>1. /\ wpc = "prepare" /\ wpc' = "write" /\ Len(prepared') = Len(prepared) + 1
          /\ UNCHANGED << requestTopic, backlog, responseTopic, taken >>
      BY <1>2, <1>0 DEF ClientPrepares, Prepare, WriterInv, topicVars, serverVars
    <2> QED
      BY <1>0, <1>r, <2>1 DEF RowInv
  <1>3. ASSUME NEW code \in {"OK", "ERROR", "TIMEOUT"}, ClientWrites(code) PROVE RowInv'
    <2>1. /\ wpc = "write" /\ UNCHANGED << prepared, backlog, responseTopic, taken >>
          /\ Held # {} /\ Current \in Request /\ Current.stamp = Len(prepared)
      BY <1>3, HeldStamp DEF ClientWrites, Write, serverVars
    <2>2. CASE code = "TIMEOUT"
      <3>1. UNCHANGED << wpc, requestTopic >>
        BY <1>3, <2>2 DEF ClientWrites, Write, Repeats
      <3> QED
        BY <1>r, <2>1, <3>1 DEF RowInv
    <2>3. CASE code = "OK"
      <3>1. wpc' = "prepare" /\ requestTopic' = Append(requestTopic, Current)
        BY <1>3, <2>3 DEF ClientWrites, Write, Repeats
      <3> DEFINE b == Len(taken) + Len(responseTopic) + Len(backlog)
      <3>2. b \in Nat /\ Current.stamp = b + Len(requestTopic) + 1
        BY <1>0, <1>r, <2>1
      <3>3. From(requestTopic', b) /\ Len(requestTopic') = Len(requestTopic) + 1
        BY <1>0, <1>r, <2>1, <3>1, <3>2, FromAppend
      <3> QED
        BY <1>0, <1>r, <2>1, <3>1, <3>3 DEF RowInv
    <2>4. CASE code = "ERROR"
      BY <1>3, <2>1, <2>4 DEF ClientWrites
    <2> QED
      BY <2>2, <2>3, <2>4
  <1>4. CASE ClientEnds
    <2>1. /\ wpc' = "done" /\ lost' = lost \cup Held
          /\ UNCHANGED << prepared, requestTopic, backlog, responseTopic, taken >>
      BY <1>4 DEF ClientEnds, WriterEnds, topicVars, serverVars
    <2>2. wpc # "write"
      BY <2>1 DEF Held
    <2> QED
      BY <1>r, <2>1, <2>2 DEF RowInv
  <1>5. CASE ClientTakes
    <2>1. /\ responseTopic # << >> /\ responseTopic' = Tail(responseTopic)
          /\ taken' = Append(taken, Head(responseTopic))
          /\ UNCHANGED << requestTopic, backlog, wpc, prepared >>
      BY <1>5, NotWriters DEF ClientTakes, serverVars
    <2>2. Head(responseTopic) \in Commands
      BY <1>0, <2>1, HeadLeaves
    <2>3. /\ From(taken', 0) /\ From(responseTopic', 0 + Len(taken'))
          /\ Len(taken') = Len(taken) + 1 /\ Len(responseTopic') = Len(responseTopic) - 1
      BY SMTT(30), <1>0, <1>r, <2>1, <2>2, FromHead
    <2>4. /\ Len(taken') = 0 + Len(taken')
          /\ Len(taken') + Len(responseTopic') = Len(taken) + Len(responseTopic)
      BY <1>0, <2>3
    <2> QED
      BY <1>0, <1>r, <2>1, <2>3, <2>4 DEF RowInv
  <1>6. CASE ClientRestarts
    <2>1. /\ wpc' = "match"
          /\ lost' = lost \cup Held \cup {responseTopic[i].stamp : i \in DOMAIN responseTopic}
          /\ responseTopic' = << >>
          /\ UNCHANGED << prepared, requestTopic, backlog, taken >>
      BY <1>6 DEF ClientRestarts, Restart, StartWriter, serverVars
    <2>2. wpc # "write"
      BY <2>1 DEF Held
    <2>3. responseTopic = << >>
      <3>1. \A i \in DOMAIN responseTopic : FALSE
        BY <2>1
      <3> QED
        BY <1>0, <3>1, EmptyDomain
    <2> QED
      BY <1>r, <2>1, <2>2, <2>3 DEF RowInv
  <1>7. CASE GatewayTakes
    <2> DEFINE c == CommandOf(Head(requestTopic))
               b == Len(taken) + Len(responseTopic)
    <2>1. /\ requestTopic # << >> /\ requestTopic' = Tail(requestTopic)
          /\ backlog' = Append(backlog, c)
          /\ UNCHANGED << responseTopic, taken, wpc, prepared >>
      BY <1>7, NotWriters DEF GatewayTakes, Mgms
    <2>2. c.stamp = Head(requestTopic).stamp /\ backlog \in Seq(Commands \cup {c})
          /\ c \in Commands \cup {c} /\ b \in Nat
      BY <1>0 DEF CommandOf
    <2>3. /\ From(backlog', b) /\ From(requestTopic', b + Len(backlog'))
          /\ Len(backlog') = Len(backlog) + 1 /\ Len(requestTopic') = Len(requestTopic) - 1
      <3>1. From(backlog, b) /\ From(requestTopic, b + Len(backlog))
        BY <1>r
      <3> HIDE DEF b, c
      <3>2. /\ From(Append(backlog, c), b)
            /\ From(Tail(requestTopic), b + Len(Append(backlog, c)))
            /\ Len(Append(backlog, c)) = Len(backlog) + 1
            /\ Len(Tail(requestTopic)) = Len(requestTopic) - 1
        BY SMTT(30), <1>0, <2>1, <2>2, <3>1, FromHead
      <3> QED
        BY <2>1, <3>2
    <2>4. /\ Len(taken') + Len(responseTopic') = b
          /\ b + Len(backlog') + Len(requestTopic') = b + Len(backlog) + Len(requestTopic)
      <3> HIDE DEF c
      <3> QED
        BY <1>0, <2>1, <2>2, <2>3
    <2> QED
      BY <1>r, <2>1, <2>3, <2>4 DEF RowInv
  <1>8. CASE GatewayRestarts
    <2>1. /\ backlog' \in Server!Survivors(backlog) /\ requestTopic' = << >>
          /\ lost' = lost \cup Stamps(requestTopic) \cup (Stamps(backlog) \ Stamps(backlog'))
          /\ UNCHANGED << responseTopic, taken, wpc, prepared >>
      BY <1>8, NotWriters DEF GatewayRestarts, Server!Restart, Mgms, Stamps
    <2>2. requestTopic = << >>
      <3>1. \A i \in DOMAIN requestTopic : FALSE
        BY ZenonT(30), <2>1 DEF Stamps
      <3> QED
        BY <1>0, <3>1, EmptyDomain
    <2>3. backlog' = backlog
      <3>1. /\ backlog' \in Seq(Commands) /\ Thins(backlog', backlog)
            /\ Len(backlog') = Len(backlog) => backlog' = backlog
        BY <1>0, <2>1, SurvivorsThin
      <3>2. Distinct(backlog) /\ Distinct(backlog') /\ Stamps(backlog') \subseteq Stamps(backlog)
        BY <1>0, <3>1, ThinsKeeps DEF PlaceInv
      <3>3. Stamps(backlog') = Stamps(backlog)
        BY <2>1, <3>2
      <3>4. /\ Cardinality(Stamps(backlog)) = Len(backlog)
            /\ Cardinality(Stamps(backlog')) = Len(backlog')
        BY <1>0, <3>1, <3>2, StampsCounted
      <3> QED
        BY <3>1, <3>3, <3>4
    <2> QED
      BY <1>r, <1>e, <2>1, <2>2, <2>3 DEF RowInv
  <1>9. ASSUME NEW code, GatewayAnswers(code) PROVE RowInv'
    <2> DEFINE b == Len(taken)
    <2>1. /\ backlog # << >> /\ backlog' = Tail(backlog)
          /\ UNCHANGED << requestTopic, taken >>
          /\ responseTopic' = Append(responseTopic, Head(backlog))
      BY <1>9 DEF GatewayAnswers, Server!Answer, AnswerTo
    <2>2. UNCHANGED << wpc, prepared >>
      BY <1>9 DEF GatewayAnswers, clientVars, writerVars
    <2>3. Head(backlog) \in Commands
      BY <1>0, <2>1, HeadLeaves
    <2>4. /\ From(responseTopic', b) /\ From(backlog', b + Len(responseTopic'))
          /\ Len(responseTopic') = Len(responseTopic) + 1 /\ Len(backlog') = Len(backlog) - 1
      BY SMTT(30), <1>0, <1>r, <2>1, <2>3, FromHead
    <2>5. /\ Len(taken') = b
          /\ Len(taken') + Len(responseTopic') + Len(backlog')
               = Len(taken) + Len(responseTopic) + Len(backlog)
      BY <1>0, <2>1, <2>4
    <2> QED
      BY <1>r, <2>1, <2>2, <2>4, <2>5 DEF RowInv
  <1>10. CASE Loses
    BY <1>10 DEF Loses
  <1>11. CASE Overtakes
    BY <1>11 DEF Overtakes
  <1> QED
    BY <1>1, <1>2, <1>3, <1>4, <1>5, <1>6, <1>7, <1>8, <1>9, <1>10, <1>11, Zenon
    DEF Next, Client, Mgms

-----------------------------------------------------------------------------
(* The logs of the first run. *)

(* The file numbers: counts from 0, RotateEvery of them to a file. *)
LEMMA FileNumber ==
  ASSUME NEW n \in Nat, NEW f \in Nat,
         f = IF n = 0 THEN 0 ELSE (n - 1) \div RotateEvery + 1
  PROVE  /\ n \div RotateEvery \in Nat
         /\ (IF n % RotateEvery = 0 THEN f + 1 ELSE f) = n \div RotateEvery + 1
PROOF
  <1> DEFINE R == RotateEvery
  <1>0. R \in Nat \ {0}
    BY ClientAssumption
  <1> HIDE DEF R
  <1>1. CASE n = 0
    <2>1. 0 \div R = 0 /\ 0 % R = 0
      BY <1>0
    <2> QED
      BY <1>1, <2>1 DEF R
  <1>2. CASE n # 0
    <2>1. n > 0 /\ n \div R \in Nat
      BY <1>0, <1>2
    <2>2. n % R = 0 => n \div R = (n - 1) \div R + 1
      BY <1>0, <2>1, SMT
    <2>3. n % R # 0 => n \div R = (n - 1) \div R
      BY <1>0, <2>1, SMT
    <2>4. f = (n - 1) \div R + 1
      BY <1>2 DEF R
    <2> QED
      BY <2>1, <2>2, <2>3, <2>4 DEF R
  <1> QED
    BY <1>1, <1>2

(* The clock: after two responses it holds the times of the last two. *)
ClockOf(n) == IF n = 0 THEN << >> ELSE IF n = 1 THEN << 1 >> ELSE << n - 1, n >>

LEMMA TupleElements ==
  ASSUME NEW a \in Nat, NEW b \in Nat, NEW c \in Nat
  PROVE  /\ << a >> \in Seq(Nat) /\ Len(<< a >>) = 1 /\ << a >>[1] = a
         /\ << a, b >> \in Seq(Nat) /\ Len(<< a, b >>) = 2
         /\ << a, b >>[1] = a /\ << a, b >>[2] = b
         /\ << a, b, c >> \in Seq(Nat) /\ Len(<< a, b, c >>) = 3
         /\ << a, b, c >>[1] = a /\ << a, b, c >>[2] = b /\ << a, b, c >>[3] = c
PROOF
  OBVIOUS

LEMMA ClockShift ==
  ASSUME NEW a \in Nat, NEW b \in Nat, NEW c \in Nat
  PROVE  Append(<< a >>, b) = << a, b >> /\ Tail(Append(<< a, b >>, c)) = << b, c >>
PROOF
  <1> DEFINE r == << a >>
             s == << a, b >>
             t == << b, c >>
  <1>1. /\ r \in Seq(Nat) /\ Len(r) = 1 /\ r[1] = a
        /\ s \in Seq(Nat) /\ Len(s) = 2 /\ s[1] = a /\ s[2] = b
        /\ t \in Seq(Nat) /\ Len(t) = 2 /\ t[1] = b /\ t[2] = c
    BY TupleElements
  <1> HIDE DEF r, s, t
  <1>2. Append(r, b) = s
    <2> DEFINE u == Append(r, b)
    <2>1. u \in Seq(Nat) /\ Len(u) = 2 /\ u[1] = a /\ u[2] = b
      <3>3. r \in Seq(Nat) /\ b \in Nat
        BY <1>1
      <3>1. /\ u \in Seq(Nat) /\ Len(u) = Len(r) + 1
            /\ \A k \in 1 .. Len(r) : u[k] = r[k]
            /\ u[Len(r) + 1] = b
        BY <3>3, AppendProperties
      <3>2. 1 \in 1 .. Len(r) /\ Len(r) + 1 = 2
        BY <1>1
      <3> HIDE DEF u
      <3> QED
        BY <1>1, <3>1, <3>2
    <2> HIDE DEF u
    <2>2. \A k \in 1 .. 2 : k = 1 \/ k = 2
      OBVIOUS
    <2>3. u = s
      BY <1>1, <2>1, <2>2, SeqEqual
    <2> QED
      BY <2>3 DEF u
  <1>3. Tail(Append(s, c)) = t
    <2> DEFINE u == Append(s, c)
               v == Tail(u)
    <2>1. u \in Seq(Nat) /\ Len(u) = 3 /\ u[2] = b /\ u[3] = c /\ u # << >>
      <3>0. s \in Seq(Nat) /\ c \in Nat
        BY <1>1
      <3>1. /\ u \in Seq(Nat) /\ Len(u) = Len(s) + 1
            /\ \A k \in 1 .. Len(s) : u[k] = s[k]
            /\ u[Len(s) + 1] = c
        BY <3>0, AppendProperties
      <3>2. 2 \in 1 .. Len(s) /\ Len(s) + 1 = 3
        BY <1>1
      <3> HIDE DEF u
      <3>3. u \in Seq(Nat) /\ Len(u) = 3 /\ u[2] = b /\ u[3] = c
        BY <1>1, <3>1, <3>2
      <3>4. u # << >>
        <4>1. Len(<< >>) = 0 /\ Len(u) # 0
          BY <3>3
        <4> QED
          BY <4>1, Zenon
      <3> QED
        BY <3>3, <3>4
    <2> HIDE DEF u
    <2>2. v \in Seq(Nat) /\ Len(v) = 2 /\ v[1] = b /\ v[2] = c
      <3>1. /\ v \in Seq(Nat) /\ Len(v) = Len(u) - 1
            /\ \A k \in 1 .. Len(u) - 1 : v[k] = u[k + 1]
        BY <2>1, HeadLeaves
      <3>2. 1 \in 1 .. Len(u) - 1 /\ 2 \in 1 .. Len(u) - 1
        BY <2>1
      <3> HIDE DEF v
      <3> QED
        BY <2>1, <3>1, <3>2
    <2> HIDE DEF v
    <2>3. \A k \in 1 .. 2 : k = 1 \/ k = 2
      OBVIOUS
    <2>4. v = t
      BY <1>1, <2>2, <2>3, SeqEqual
    <2> QED
      BY <2>4 DEF u, v
  <1> QED
    BY <1>2, <1>3 DEF r, s, t

LEMMA ClockStep ==
  ASSUME NEW n \in Nat
  PROVE  /\ Times(ClockOf(n), n, n + 1) = ClockOf(n + 1)
         /\ \A i \in DOMAIN Row(ClockOf(n), n, n + 1) :
              /\ Row(ClockOf(n), n, n + 1)[i].now = n + 1
              /\ Row(ClockOf(n), n, n + 1)[i].from = n
PROOF
  <1>1. CASE n = 0
    <2>1. Times(ClockOf(n), n, n + 1) = << 1 >> /\ Row(ClockOf(n), n, n + 1) = << >>
      BY <1>1 DEF Times, Row, Logs, ClockOf
    <2> QED
      BY <1>1, <2>1 DEF ClockOf
  <1>2. CASE n = 1
    <2>1. ClockOf(n) = << 1 >> /\ ClockOf(n + 1) = << 1, 2 >> /\ ~Logs(n) /\ n + 1 = 2
      BY <1>2 DEF Logs, ClockOf
    <2>2. Times(ClockOf(n), n, n + 1) = << 1, 2 >> /\ Row(ClockOf(n), n, n + 1) = << >>
      <3>1. Append(<< 1 >>, 2) = << 1, 2 >>
        BY ClockShift, Zenon
      <3> QED
        BY <2>1, <3>1, Zenon DEF Times, Row
    <2> QED
      BY <2>1, <2>2
  <1>3. CASE n > 1
    <2>1. ClockOf(n) = << n - 1, n >> /\ ClockOf(n + 1) = << n, n + 1 >> /\ Logs(n)
      <3>1. n # 0 /\ n # 1 /\ n + 1 # 0 /\ n + 1 # 1 /\ (n + 1) - 1 = n
        BY <1>3
      <3> QED
        BY <1>3, <3>1 DEF ClockOf, Logs
    <2>2. n - 1 \in Nat /\ n \in Nat /\ n + 1 \in Nat
      BY <1>3
    <2>3. Tail(Append(<< n - 1, n >>, n + 1)) = << n, n + 1 >>
      BY <2>2, ClockShift, Zenon
    <2>4. Times(ClockOf(n), n, n + 1) = << n, n + 1 >>
      BY <2>1, <2>3, Zenon DEF Times
    <2>5. Reference(ClockOf(n), n, n + 1) = n
      BY <2>4 DEF Reference
    <2> DEFINE r == [count |-> n, now |-> n + 1, from |-> n]
    <2>6. Row(ClockOf(n), n, n + 1) = << r >>
      BY <2>1, <2>5 DEF Row
    <2>7. \A i \in DOMAIN << r >> : << r >>[i] = r
      OBVIOUS
    <2> QED
      BY <2>1, <2>4, <2>6, <2>7
  <1> QED
    BY <1>1, <1>2, <1>3

LEMMA LogInit == Init => LogInv
PROOF
  <1> SUFFICES ASSUME Init PROVE LogInv
    OBVIOUS
  <1>1. /\ arrived = << >> /\ taken = << >> /\ fileNo = 0 /\ lmQ = << >>
        /\ rtt = << >> /\ gaps = << >> /\ Len(arrived) = 0 /\ Len(rtt) = 0
    BY DEF Init, ClientInit
  <1>2. CloseCount \in Nat
    BY ClientAssumption
  <1>3. CleanRun
    BY <1>1, <1>2 DEF CleanRun
  <1> QED
    BY <1>1, <1>3 DEF LogInv

LEMMA LogNext ==
  ASSUME WriterInv, PlacesTyped, PlacesCopied, ListenerTyped, RowInv, FilesInv, LogInv, [Next]_vars
  PROVE  LogInv'
PROOF
  <1> DEFINE n == Len(arrived)
  <1>0. n \in Nat /\ DOMAIN arrived = 1 .. n /\ CloseCount \in Nat /\ run \in Nat /\ run >= 1
    BY LenProperties, ClientAssumption DEF ListenerTyped, WriterInv
  <1>1. CASE ClientTakes
    <2> DEFINE s == Head(responseTopic)
               c == s.count
    <2>1. /\ responseTopic # << >> /\ Take(s) /\ taken' = Append(taken, s)
          /\ UNCHANGED lost
      BY <1>1 DEF ClientTakes
    <2>2. s \in Commands /\ s = responseTopic[1] /\ 1 \in DOMAIN responseTopic
      BY <2>1, HeadLeaves DEF PlacesTyped
    <2>3. /\ c \in Nat /\ s.stamp \in Nat /\ UNCHANGED << run, prepared >>
          /\ arrived' = Append(arrived, s)
          /\ lmQ' = Times(lmQ, c, n + 1)
          /\ gaps' = IF csv = "open" THEN gaps \o Row(lmQ, c, n + 1) ELSE gaps
          /\ fileNo' = RowFile(c)
          /\ rtt' = IF file = "open"
                    THEN Append(rtt, [stamp |-> s.stamp, count |-> c, file |-> fileNo'])
                    ELSE rtt
      BY <2>1, <2>2, TakeEffect
    <2>4. /\ Len(arrived') = n + 1
          /\ \A k \in 1 .. n : arrived'[k] = arrived[k]
          /\ arrived'[n + 1] = s
      BY <1>0, <2>2, <2>3, AppendProperties DEF ListenerTyped
    <2>5. run' = 1 => arrived' = taken'
      BY <2>1, <2>3 DEF LogInv
    <2>6. ASSUME Clean'
          PROVE  /\ \A i \in 1 .. n + 1 : arrived'[i].count = i - 1
                 /\ fileNo' = n \div RotateEvery + 1
                 /\ lmQ' = ClockOf(n + 1)
                 /\ \A i \in DOMAIN rtt' :
                      rtt'[i].count = i - 1 /\ rtt'[i].file = rtt'[i].count \div RotateEvery + 1
                 /\ Len(rtt') = IF n + 1 <= CloseCount + 1 THEN n + 1 ELSE CloseCount + 1
                 /\ \A i \in DOMAIN gaps' : gaps'[i].from = gaps'[i].now - 1
      <3>1. Clean /\ run = 1 /\ lost = {} /\ ~Reorders
        BY <2>1, <2>3, <2>6 DEF Clean
      <3>2. /\ arrived = taken
            /\ \A i \in 1 .. n : arrived[i].count = i - 1
            /\ fileNo = IF n = 0 THEN 0 ELSE (n - 1) \div RotateEvery + 1
            /\ lmQ = ClockOf(n)
            /\ CleanRun
        BY <3>1 DEF LogInv, ClockOf
      <3>3. /\ \A i \in DOMAIN rtt :
                 rtt[i].count = i - 1 /\ rtt[i].file = rtt[i].count \div RotateEvery + 1
            /\ \A i \in DOMAIN gaps : gaps[i].from = gaps[i].now - 1
        BY <3>1, <3>2 DEF CleanRun
      <3>l. Len(rtt) = IF n <= CloseCount + 1 THEN n ELSE CloseCount + 1
        BY <3>1, <3>2 DEF CleanRun
      <3>4. c = n
        <4>1. s.stamp = n + 1
          BY <2>2, <3>1, <3>2 DEF RowInv, From
        <4>2. s.stamp \in 1 .. Len(prepared) /\ c = prepared[s.stamp].count
          BY <2>2 DEF PlacesCopied, Copies
        <4>3. prepared[s.stamp].count = s.stamp - 1
          BY <3>1, <4>2 DEF WriterInv
        <4> HIDE DEF s
        <4> QED
          BY <1>0, <4>1, <4>2, <4>3
      <3> HIDE DEF s, c
      <3>5. \A i \in 1 .. n + 1 : arrived'[i].count = i - 1
        <4>1. arrived'[n + 1].count = (n + 1) - 1
          BY <1>0, <2>4, <3>4 DEF c
        <4>2. ASSUME NEW i \in 1 .. n + 1 PROVE i \in 1 .. n \/ i = n + 1
          BY <1>0
        <4> HIDE DEF n
        <4> QED
          BY <2>4, <3>2, <4>1, <4>2
      <3>6. fileNo' = n \div RotateEvery + 1 /\ n \div RotateEvery \in Nat
        <4>1. fileNo' = IF n % RotateEvery = 0 THEN fileNo + 1 ELSE fileNo
          BY <2>3, <3>4 DEF RowFile, Reopens
        <4>2. fileNo \in Nat
          BY DEF ListenerTyped
        <4> HIDE DEF n
        <4> QED
          BY <1>0, <3>2, <4>1, <4>2, FileNumber
      <3>7. lmQ' = ClockOf(n + 1)
        BY <1>0, <2>3, <3>2, <3>4, ClockStep
      <3>8. ASSUME NEW i \in DOMAIN gaps' PROVE gaps'[i].from = gaps'[i].now - 1
        <4> DEFINE row == Row(lmQ, c, n + 1)
        <4>1. gaps \in Seq([count : Nat, now : Nat, from : Nat])
          BY DEF ListenerTyped
        <4>2. row \in Seq([count : Nat, now : Nat, from : Nat])
          BY <1>0, <2>3, TimesTyped DEF ListenerTyped
        <4>3. \A k \in DOMAIN row : row[k].now = n + 1 /\ row[k].from = n
          BY <1>0, <3>2, <3>4, ClockStep
        <4> HIDE DEF row
        <4>4. CASE gaps' = gaps
          BY <3>3, <3>8, <4>4
        <4>5. CASE gaps' = gaps \o row
          <5>1. /\ Len(gaps) \in Nat /\ Len(row) \in Nat
                /\ DOMAIN gaps = 1 .. Len(gaps) /\ DOMAIN row = 1 .. Len(row)
                /\ DOMAIN gaps' = 1 .. Len(gaps) + Len(row)
                /\ \A k \in 1 .. Len(gaps) + Len(row) :
                     gaps'[k] = IF k <= Len(gaps) THEN gaps[k] ELSE row[k - Len(gaps)]
            BY <4>1, <4>2, <4>5, ConcatProperties, LenProperties
          <5>2. CASE i <= Len(gaps)
            BY <3>3, <3>8, <5>1, <5>2
          <5>3. CASE ~(i <= Len(gaps))
            <6>1. i - Len(gaps) \in DOMAIN row /\ gaps'[i] = row[i - Len(gaps)]
              BY <3>8, <5>1, <5>3
            <6>2. gaps'[i].now = n + 1 /\ gaps'[i].from = n
              BY <4>3, <6>1
            <6> QED
              BY <1>0, <6>2
          <5> QED
            BY <5>2, <5>3
        <4> QED
          BY <2>3, <4>4, <4>5 DEF row
      <3>9. file = "open" <=> n <= CloseCount
        <4>1. HasClosed <=> CloseCount + 1 \in 1 .. n
          <5>1. ASSUME HasClosed PROVE CloseCount + 1 \in 1 .. n
            BY <1>0, <3>2, <5>1 DEF HasClosed
          <5>2. ASSUME CloseCount + 1 \in 1 .. n PROVE HasClosed
            <6>1. arrived[CloseCount + 1].count = (CloseCount + 1) - 1
              BY <3>2, <5>2
            <6> QED
              BY <1>0, <5>2, <6>1 DEF HasClosed
          <5> QED
            BY <5>1, <5>2
        <4> QED
          BY <1>0, <4>1 DEF FilesInv
      <3>10. /\ \A i \in DOMAIN rtt' :
                  rtt'[i].count = i - 1 /\ rtt'[i].file = rtt'[i].count \div RotateEvery + 1
             /\ Len(rtt') = IF n + 1 <= CloseCount + 1 THEN n + 1 ELSE CloseCount + 1
        <4>1. CASE file = "open"
          <5> DEFINE r == [stamp |-> s.stamp, count |-> c, file |-> fileNo']
          <5>1. rtt' = Append(rtt, r) /\ r.count = n /\ r.file = n \div RotateEvery + 1
            BY <2>3, <3>4, <3>6, <4>1
          <5> HIDE DEF r
          <5>2. n <= CloseCount /\ Len(rtt) = n
            <6>1. n <= CloseCount
              BY <3>9, <4>1
            <6> HIDE DEF n
            <6> QED
              BY <1>0, <3>l, <6>1
          <5>3. /\ Len(rtt') = n + 1 /\ DOMAIN rtt' = 1 .. n + 1 /\ DOMAIN rtt = 1 .. n
                /\ \A k \in 1 .. n : rtt'[k] = rtt[k]
                /\ rtt'[n + 1] = r
            <6>1. rtt \in Seq([stamp : Nat, count : Nat, file : Nat])
              BY DEF ListenerTyped
            <6>2. r \in [stamp : Nat, count : Nat, file : Nat]
              BY <2>3, <3>6 DEF r
            <6> QED
              BY <1>0, <5>1, <5>2, <6>1, <6>2, AppendProperties, LenProperties
          <5>4. ASSUME NEW i \in DOMAIN rtt'
                PROVE  rtt'[i].count = i - 1 /\ rtt'[i].file = rtt'[i].count \div RotateEvery + 1
            <6>1. CASE i \in DOMAIN rtt
              BY <3>3, <5>3, <6>1
            <6>2. CASE i \notin DOMAIN rtt
              <7>1. i = n + 1
                BY <1>0, <5>3, <5>4, <6>2
              <7>2. rtt'[i] = r /\ i - 1 = n
                BY <1>0, <5>3, <7>1
              <7> QED
                BY <5>1, <7>2
            <6> QED
              BY <6>1, <6>2
          <5> QED
            BY <1>0, <5>2, <5>3, <5>4
        <4>2. CASE file # "open"
          <5>1. rtt' = rtt /\ n > CloseCount
            BY <1>0, <2>3, <3>9, <4>2
          <5>2. Len(rtt) = CloseCount + 1
            BY <1>0, <3>l, <5>1
          <5>3. \A i \in DOMAIN rtt' :
                  rtt'[i].count = i - 1 /\ rtt'[i].file = rtt'[i].count \div RotateEvery + 1
            BY <3>3, <5>1, Zenon
          <5>4. Len(rtt') = IF n + 1 <= CloseCount + 1 THEN n + 1 ELSE CloseCount + 1
            BY <1>0, <5>1, <5>2
          <5> QED
            BY <5>3, <5>4
        <4> QED
          BY <4>1, <4>2
      <3> QED
        BY <3>5, <3>6, <3>7, <3>8, <3>10
    <2>7. CleanRun'
      <3> SUFFICES ASSUME Clean'
                   PROVE /\ \A i \in DOMAIN rtt' :
                              rtt'[i].count = i - 1 /\ rtt'[i].file = rtt'[i].count \div RotateEvery + 1
                         /\ Len(rtt') = IF Len(arrived') <= CloseCount + 1 THEN Len(arrived')
                                        ELSE CloseCount + 1
                         /\ \A i \in DOMAIN gaps' : gaps'[i].from = gaps'[i].now - 1
        BY DEF CleanRun, Clean
      <3> QED
        BY <2>4, <2>6
    <2>8. Clean' => /\ \A i \in 1 .. Len(arrived') : arrived'[i].count = i - 1
                    /\ fileNo' = IF Len(arrived') = 0 THEN 0
                                 ELSE (Len(arrived') - 1) \div RotateEvery + 1
                    /\ lmQ' = ClockOf(Len(arrived'))
      <3>1. Len(arrived') # 0 /\ Len(arrived') - 1 = n
        BY <1>0, <2>4
      <3> HIDE DEF s, c
      <3> QED
        BY <2>4, <2>6, <3>1
    <2> QED
      BY <2>5, <2>7, <2>8 DEF LogInv, ClockOf
  <1>2. CASE ClientRestarts
    <2>1. run' # 1
      BY <1>0, <1>2 DEF ClientRestarts, Restart
    <2> QED
      BY <2>1 DEF LogInv, Clean, CleanRun
  <1>3. ASSUME UNCHANGED << run, lmQ, fileNo, arrived, gaps, rtt, taken >> PROVE LogInv'
    <2>1. lost' = {} => lost = {}
      BY LostStays
    <2>2. Clean' => Clean
      BY <1>3, <2>1 DEF Clean
    <2>3. CleanRun'
      BY <1>3, <2>1 DEF LogInv, CleanRun
    <2> QED
      BY <1>3, <2>2, <2>3 DEF LogInv
  <1>4. CASE ClientTakesNoData
    BY <1>3, <1>4 DEF ClientTakesNoData, TakeNoData
  <1>5. CASE \/ ClientStarts \/ ClientPrepares \/ ClientEnds \/ Mgms \/ Loses \/ Overtakes
             \/ UNCHANGED vars
             \/ \E code \in {"OK", "ERROR", "TIMEOUT"} : ClientWrites(code)
    BY <1>3, <1>5, NotListeners
  <1> QED
    BY <1>1, <1>2, <1>4, <1>5, Zenon DEF Next, Client

-----------------------------------------------------------------------------
GatewayInv ==
  TypeInv /\ PlaceInv /\ OrderedIfKept /\ RowInv /\ FilesInv /\ LogInv

(* The inductive invariant holds of every behaviour of the system. *)
THEOREM Invariance == Spec => []GatewayInv
PROOF
  <1>1. Init => GatewayInv
    BY WriterInit, PlacesInit, ListenerInit, PlaceInit, OrderInit, RowInit, FilesInit, LogInit
    DEF GatewayInv, TypeInv
  <1>2. GatewayInv /\ [Next]_vars => GatewayInv'
    <2> SUFFICES ASSUME GatewayInv, [Next]_vars PROVE GatewayInv'
      OBVIOUS
    <2>1. /\ WriterInv /\ PlacesTyped /\ PlacesCopied /\ ListenerTyped
          /\ PlaceInv /\ OrderedIfKept /\ RowInv /\ FilesInv /\ LogInv
      BY DEF GatewayInv, TypeInv
    <2>2. WriterInv'
      BY <2>1, WriterNext
    <2>3. PlacesTyped' /\ PlacesCopied' /\ ListenerTyped'
      BY <2>1, PlacesNext, ListenerNext
    <2>4. PlaceInv' /\ OrderedIfKept' /\ RowInv' /\ FilesInv' /\ LogInv'
      BY <2>1, <2>2, PlaceNext, OrderNext, RowNext, FilesNext, LogNext
    <2> QED
      BY <2>2, <2>3, <2>4 DEF GatewayInv, TypeInv
  <1> QED
    BY <1>1, <1>2, PTL DEF Spec

(* Every variable of the system keeps its type. *)
THEOREM TypeCorrect == Spec => []TypeOK
PROOF
  <1>1. GatewayInv => TypeOK
    <2> SUFFICES ASSUME GatewayInv PROVE TypeOK
      OBVIOUS
    <2>1. WriterInv /\ PlacesTyped /\ ListenerTyped /\ PlaceInv
      BY DEF GatewayInv, TypeInv
    <2>2. lost \subseteq Nat
      <3>1. \A m \in lost : m \in 1 .. Len(prepared)
        BY <2>1 DEF PlaceInv, Shared
      <3> QED
        BY <3>1
    <2>3. {csv, file} \subseteq {"open", "closed", "broken"}
      BY <2>1 DEF ListenerTyped
    <2> QED
      BY <2>1, <2>2, <2>3, Zenon DEF TypeOK, WriterInv, PlacesTyped, ListenerTyped
  <1> QED
    BY <1>1, Invariance, PTL

(* Every request is in exactly one place, whatever happens to it. *)
THEOREM AccountedCorrect == Spec => []Accounted
PROOF
  <1>1. GatewayInv => Accounted
    BY PlacesAccounted DEF GatewayInv, TypeInv
  <1> QED
    BY <1>1, Invariance, PTL

(* A round-trip row carries the count of the request it measures. *)
THEOREM PairedCorrect == Spec => []RowsPaired
PROOF
  <1>1. GatewayInv => RowsPaired
    BY DEF GatewayInv, TypeInv, ListenerTyped, Copies, RowsPaired
  <1> QED
    BY <1>1, Invariance, PTL

(* Topics that keep the order give a log in the order of the requests. *)
THEOREM OrderCorrect == Spec => []OrderKept
PROOF
  <1>1. GatewayInv => OrderKept
    BY DEF GatewayInv, OrderedIfKept, OrderInv, Increasing, OrderKept
  <1> QED
    BY <1>1, Invariance, PTL

(* A log file is used after it was closed exactly when a response is taken *)
(* after the one with CloseCount.                                          *)
THEOREM CloseCorrect == Spec => []UseAfterClose
PROOF
  <1>1. GatewayInv => UseAfterClose
    BY DEF GatewayInv, FilesInv
  <1> QED
    BY <1>1, Invariance, PTL

(* The logs of a first run without losses are complete. *)
THEOREM CleanCorrect == Spec => []CleanRun
PROOF
  <1>1. GatewayInv => CleanRun
    BY DEF GatewayInv, LogInv
  <1> QED
    BY <1>1, Invariance, PTL
=============================================================================
