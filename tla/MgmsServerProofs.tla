-------------------------- MODULE MgmsServerProofs --------------------------
(***************************************************************************)
(* Theorems about MgmsServer, for every value of its constants.            *)
(***************************************************************************)
EXTENDS MgmsServerProperties, SequenceTheorems, TLAPS

-----------------------------------------------------------------------------
(***************************************************************************)
(* Where a command sits in the concatenation of the places it passes       *)
(* through, and what moving it to the next place leaves unchanged.  Stated *)
(* for every set S of commands.                                            *)
(***************************************************************************)

(* A sequence is its head followed by its tail. *)
LEMMA HeadThenTail ==
  ASSUME NEW S, NEW s \in Seq(S), s # << >>
  PROVE  << Head(s) >> \o Tail(s) = s
PROOF
  <1>1. << Head(s) >> \in Seq(S) /\ Tail(s) \in Seq(S) /\ Len(s) \in Nat \ {0}
    BY HeadTailProperties, EmptySeq
  <1>2. Len(<< Head(s) >> \o Tail(s)) = Len(s)
    BY <1>1, ConcatProperties, HeadTailProperties
  <1>3. \A i \in 1 .. Len(s) : (<< Head(s) >> \o Tail(s))[i] = s[i]
    <2>1. \A i \in 1 .. Len(Tail(s)) : Tail(s)[i] = s[i + 1]
      BY HeadTailProperties
    <2>2. Len(Tail(s)) = Len(s) - 1
      BY HeadTailProperties
    <2>3. \A i \in 1 .. Len(s) : (<< Head(s) >> \o Tail(s))[i] =
                                   IF i <= 1 THEN Head(s) ELSE Tail(s)[i - 1]
      BY <1>1, <2>2, ConcatProperties
    <2>4. Head(s) = s[1]
      OBVIOUS
    <2> QED
      BY <1>1, <2>1, <2>2, <2>3, <2>4
  <1>4. << Head(s) >> \o Tail(s) \in Seq(S)
    BY <1>1, ConcatProperties
  <1> QED
    BY <1>2, <1>3, <1>4, SeqEqual

(* A command taken off the front of the queue: nothing moves. *)
LEMMA TakeFront ==
  ASSUME NEW S, NEW a \in Seq(S), NEW q \in Seq(S), NEW p \in Seq(S), q # << >>
  PROVE  ((a \o << >>) \o q) \o p = ((a \o << Head(q) >>) \o Tail(q)) \o p
PROOF
  <1>1. << Head(q) >> \in Seq(S) /\ Tail(q) \in Seq(S)
    BY HeadTailProperties
  <1>2. (a \o << Head(q) >>) \o Tail(q) = a \o (<< Head(q) >> \o Tail(q))
    BY SMTT(30), <1>1, ConcatAssociative
  <1>3. << Head(q) >> \o Tail(q) = q
    BY HeadThenTail
  <1>4. a \o << >> = a
    BY ConcatEmptySeq
  <1> QED
    BY <1>2, <1>3, <1>4

(* The last command of a concatenation is posted on the queue. *)
LEMMA PostLast ==
  ASSUME NEW S, NEW a \in Seq(S), NEW q \in Seq(S), NEW x \in S
  PROVE  (a \o q) \o << x >> = (a \o Append(q, x)) \o << >>
PROOF
  <1>1. << x >> \in Seq(S) /\ Append(q, x) \in Seq(S)
    BY AppendProperties
  <1>2. (a \o q) \o << x >> = a \o (q \o << x >>)
    BY <1>1, ConcatAssociative
  <1>3. Append(q, x) = q \o << x >>
    BY AppendIsConcat
  <1>4. a \o Append(q, x) \in Seq(S)
    BY <1>1, ConcatProperties
  <1>5. (a \o Append(q, x)) \o << >> = a \o Append(q, x)
    BY <1>4, ConcatEmptySeq
  <1> QED
    BY <1>2, <1>3, <1>5

(* A new command joins a concatenation that ends in nothing. *)
LEMMA JoinEnd ==
  ASSUME NEW S, NEW a \in Seq(S), NEW x \in S
  PROVE  Append(a \o << >>, x) = a \o << x >>
PROOF
  BY ConcatEmptySeq, AppendIsConcat

(* The command in hand is settled. *)
LEMMA SettleHand ==
  ASSUME NEW S, NEW a \in Seq(S), NEW h \in Seq(S)
  PROVE  a \o h = (a \o h) \o << >>
PROOF
  <1>1. a \o h \in Seq(S)
    BY ConcatProperties
  <1> QED
    BY <1>1, ConcatEmptySeq

(* A sequence of length 1 is made of its head. *)
LEMMA Singleton ==
  ASSUME NEW S, NEW h \in Seq(S), Len(h) = 1
  PROVE  \E x \in S : h = << x >>
PROOF
  <1>1. h # << >>
    <2>1. Len(<< >>) = 0
      BY EmptySeq
    <2> QED
      BY <2>1
  <1>2. Head(h) \in S /\ << Head(h) >> \o Tail(h) = h
    BY <1>1, HeadTailProperties, HeadThenTail
  <1>3. Tail(h) \in Seq(S) /\ Len(Tail(h)) = 0
    BY <1>1, HeadTailProperties
  <1>4. Tail(h) = << >>
    BY <1>3, EmptySeq
  <1>5. << Head(h) >> \o << >> = << Head(h) >>
    BY <1>2, ConcatEmptySeq
  <1> QED
    BY <1>2, <1>4, <1>5

(* Head and tail of what starts with x. *)
LEMMA HeadOfFront ==
  ASSUME NEW S, NEW x \in S, NEW r \in Seq(S)
  PROVE  << x >> \o r # << >> /\ Head(<< x >> \o r) = x /\ Tail(<< x >> \o r) = r
PROOF
  <1>0. << x >> \in Seq(S) /\ << x >> \o r \in Seq(S)
    <2>1. << x >> \in Seq(S)
      OBVIOUS
    <2> QED
      BY <2>1, ConcatProperties
  <1>1. PICK w \in Seq(S) : w = << x >> \o r
    BY <1>0
  <1>2. /\ Len(w) = 1 + Len(r) /\ Len(r) \in Nat
        /\ \A i \in 1 .. 1 + Len(r) : w[i] = IF i <= 1 THEN x ELSE r[i - 1]
    <2>1. << x >> \in Seq(S) /\ Len(<< x >>) = 1 /\ << x >>[1] = x
      OBVIOUS
    <2>2. /\ Len(w) = Len(<< x >>) + Len(r)
          /\ \A i \in 1 .. Len(<< x >>) + Len(r) :
               w[i] = IF i <= Len(<< x >>) THEN << x >>[i] ELSE r[i - Len(<< x >>)]
      BY <1>1, <2>1, ConcatProperties
    <2> QED
      BY <2>1, <2>2, LenProperties
  <1>3. w # << >>
    BY <1>1, <1>2, EmptySeq
  <1>4. Head(w) = x
    BY <1>1, <1>2, <1>3
  <1>5. Tail(w) = r
    <2>1. Tail(w) \in Seq(S) /\ Len(Tail(w)) = Len(r)
          /\ \A i \in 1 .. Len(r) : Tail(w)[i] = w[i + 1]
      BY <1>1, <1>2, <1>3, HeadTailProperties
    <2>2. \A i \in 1 .. Len(r) : Tail(w)[i] = r[i]
      BY <1>2, <2>1
    <2> QED
      BY <2>1, <2>2, SeqEqual
  <1> QED
    BY <1>1, <1>3, <1>4, <1>5

(* How long three parts are together. *)
LEMMA LenOfParts ==
  ASSUME NEW S, NEW h \in Seq(S), NEW q \in Seq(S), NEW p \in Seq(S)
  PROVE  (h \o q) \o p \in Seq(S) /\ Len((h \o q) \o p) = Len(h) + Len(q) + Len(p)
PROOF
  BY ConcatProperties

(* A command joins the second of two parts. *)
LEMMA AppendToSecond ==
  ASSUME NEW S, NEW a \in Seq(S), NEW b \in Seq(S), NEW x \in S
  PROVE  a \o Append(b, x) = Append(a \o b, x)
PROOF
  <1>1. << x >> \in Seq(S) /\ a \o b \in Seq(S)
    BY ConcatProperties
  <1>2. Append(b, x) = b \o << x >> /\ Append(a \o b, x) = (a \o b) \o << x >>
    BY <1>1, AppendIsConcat
  <1> QED
    BY <1>1, <1>2, ConcatAssociative

(* The part between two others is the subsequence of its positions. *)
LEMMA MiddlePart ==
  ASSUME NEW S, NEW h \in Seq(S), NEW q \in Seq(S), NEW p \in Seq(S)
  PROVE  SubSeq((h \o q) \o p, Len(h) + 1, Len(h) + Len(q)) = q
PROOF
  <1> DEFINE b == (h \o q) \o p
  <1>1. Len(h) \in Nat /\ Len(q) \in Nat /\ Len(p) \in Nat
    BY LenProperties
  <1>2. /\ h \o q \in Seq(S) /\ Len(h \o q) = Len(h) + Len(q)
        /\ \A k \in 1 .. Len(h) + Len(q) :
             (h \o q)[k] = IF k <= Len(h) THEN h[k] ELSE q[k - Len(h)]
    BY ConcatProperties
  <1>3. /\ b \in Seq(S) /\ Len(b) = Len(h \o q) + Len(p)
        /\ \A k \in 1 .. Len(h \o q) + Len(p) :
             b[k] = IF k <= Len(h \o q) THEN (h \o q)[k] ELSE p[k - Len(h \o q)]
    BY <1>2, ConcatProperties
  <1>4. \A k \in 1 .. Len(q) : b[Len(h) + k] = q[k]
    <2> SUFFICES ASSUME NEW k \in 1 .. Len(q) PROVE b[Len(h) + k] = q[k]
      OBVIOUS
    <2>1. Len(h) + k \in 1 .. Len(h) + Len(q) /\ ~(Len(h) + k <= Len(h))
          /\ (Len(h) + k) - Len(h) = k
      BY <1>1
    <2>2. b[Len(h) + k] = (h \o q)[Len(h) + k]
      BY <1>1, <1>2, <1>3, <2>1
    <2> QED
      BY <1>2, <2>1, <2>2
  <1>5. /\ SubSeq(b, Len(h) + 1, Len(h) + Len(q)) \in Seq(S)
        /\ Len(SubSeq(b, Len(h) + 1, Len(h) + Len(q))) = Len(q)
        /\ \A k \in 1 .. Len(q) :
             SubSeq(b, Len(h) + 1, Len(h) + Len(q))[k] = b[Len(h) + k]
    <2>1. \A k \in Len(h) + 1 .. Len(h) + Len(q) : b[k] \in S
      BY <1>1, <1>2, <1>3, ElementOfSeq
    <2>2. SubSeq(b, Len(h) + 1, Len(h) + Len(q)) =
            [k \in 1 .. Len(q) |-> b[Len(h) + k]]
      BY <1>1, <1>3
    <2>3. \A k \in 1 .. Len(q) : b[Len(h) + k] \in S
      BY <1>1, <2>1
    <2> QED
      BY <1>1, <2>2, <2>3
  <1> HIDE DEF b
  <1> QED
    BY <1>4, <1>5, SeqEqual DEF b

-----------------------------------------------------------------------------
(***************************************************************************)
(* What TypeOK and InOrder leave out to be inductive: in on_data_available *)
(* the member `message` holds a real request, a row being stored is a row  *)
(* of the array, and the responder holds a command only while it answers.  *)
(***************************************************************************)
ControlOK ==
  /\ lpc = "copy" => sample \in Sample /\ received # << >>
  /\ mpc = "store" => mrow < Rows
  /\ Len(hand) <= 1
  /\ rpc \in {"match", "recv", "clear"} => hand = << >>
  /\ rpc \in {"collect", "write"} => hand # << >>

TypeInv == TypeOK /\ ControlOK

-----------------------------------------------------------------------------
(***************************************************************************)
(* The types are inductive together with ControlOK.                        *)
(***************************************************************************)
LEMMA SampleFields ==
  ASSUME NEW s \in Sample
  PROVE  s.stamp \in Nat /\ s.rows \in 0 .. Rows
PROOF
  <1>1. s.stamp \in 1 .. MaxSamples /\ s.rows \in ReqRows
    BY DEF Sample
  <1>2. s.stamp \in Nat
    BY <1>1, ServerAssumption
  <1>3. s.rows \in 0 .. Rows
    BY <1>1, ServerAssumption
  <1> QED
    BY <1>2, <1>3

(* The command of a real request. *)
LEMMA CommandType ==
  ASSUME NEW s \in Sample
  PROVE  CommandOf(s) \in Command
PROOF
  <1>1. s.stamp \in 1 .. MaxSamples /\ s.count \in Counts
    BY DEF Sample
  <1>2. s.stamp \in 1 - QueueCap .. MaxSamples
    BY <1>1, ServerAssumption
  <1> QED
    BY <1>1, <1>2 DEF CommandOf, Command

(* What the queue holds at the start. *)
LEMMA StaleType == Init => stale \in Seq(Command) /\ Len(stale) <= QueueCap
PROOF
  BY StaleAssumption DEF Init

LEMMA TypeInit == Init => TypeInv
PROOF
  <1> SUFFICES ASSUME Init PROVE TypeInv
    OBVIOUS
  <1>1. ListenerTypeOK
    <2>1. << >> \in Seq(Nat) /\ << >> \in Seq(LogRow) /\ << >> \in Seq(Command)
      BY EmptySeq
    <2>2. 0 \in 0 .. Rows
      BY ServerAssumption
    <2>3. /\ lpc = "idle" /\ sample = NoSample /\ lrow = 0 /\ counts = {} /\ valid = TRUE
          /\ mQ = << >> /\ csv = "open" /\ intervals = << >> /\ received = << >>
      BY DEF Init
    <2>4. sample \in Sample \cup {NoSample} /\ counts \subseteq Counts
      BY <2>3
    <2>5. mQ \in Seq(Nat) /\ intervals \in Seq(LogRow) /\ received \in Seq(Command)
          /\ stale \in Seq(Command)
      BY <2>1, <2>3, StaleType
    <2>6. valid \in BOOLEAN /\ lrow \in 0 .. Rows
      BY <2>2, <2>3
    <2> QED
      BY <2>3, <2>4, <2>5, <2>6 DEF ListenerTypeOK
  <1>2. QueueTypeOK /\ ArraysTypeOK
    <2>1. QueueTypeOK
      BY StaleType DEF Init, QueueTypeOK
    <2>2. requestData \in [RowIndex -> Nat] /\ resultData \in [RowIndex -> Cell]
      BY DEF Init, Cell, NoRow
    <2>3. changed \in InitChanged
      BY DEF Init
    <2> QED
      BY <2>1, <2>2, <2>3 DEF ArraysTypeOK
  <1>3. ResponderTypeOK /\ alive \in BOOLEAN
    BY DEF Init, ResponderTypeOK
  <1>4. MmsTypeOK
    <2>1. mpc \in {"off", "idle"}
      BY DEF Init
    <2>2. mrow \in 1 .. Rows
      BY ServerAssumption DEF Init
    <2>3. polls \in Nat /\ clean \in BOOLEAN /\ due \in Nat /\ seen \in Seq(Nat)
      BY EmptySeq DEF Init
    <2>4. news \in Cell /\ alone \in BOOLEAN
      BY DEF Init, Cell
    <2> QED
      BY <2>1, <2>2, <2>3, <2>4 DEF MmsTypeOK
  <1>5. ControlOK
    BY DEF Init, ControlOK
  <1> QED
    BY <1>1, <1>2, <1>3, <1>4, <1>5 DEF TypeInv, TypeOK

(* A group of variables a step leaves alone keeps its types. *)
LEMMA Frames ==
  ASSUME TypeInv
  PROVE  /\ UNCHANGED listenerVars  => ListenerTypeOK'
         /\ UNCHANGED responderVars => ResponderTypeOK'
         /\ UNCHANGED mmsVars       => MmsTypeOK'
         /\ UNCHANGED msgq          => QueueTypeOK'
         /\ UNCHANGED << requestData, resultData, changed >> => ArraysTypeOK'
PROOF
  <1>1. UNCHANGED listenerVars  => ListenerTypeOK'
    BY DEF TypeInv, TypeOK, ListenerTypeOK, listenerVars
  <1>2. UNCHANGED responderVars => ResponderTypeOK'
    BY DEF TypeInv, TypeOK, ResponderTypeOK, responderVars
  <1>3. UNCHANGED mmsVars => MmsTypeOK'
    BY DEF TypeInv, TypeOK, MmsTypeOK, mmsVars
  <1>4. UNCHANGED msgq => QueueTypeOK'
    BY DEF TypeInv, TypeOK, QueueTypeOK
  <1>5. UNCHANGED << requestData, resultData, changed >> => ArraysTypeOK'
    BY DEF TypeInv, TypeOK, ArraysTypeOK
  <1> QED
    BY <1>1, <1>2, <1>3, <1>4, <1>5

(* What the arrival log adds is of its type. *)
LEMMA TypeLogArrival ==
  ASSUME TypeInv, lpc = "copy", LogArrival
  PROVE  /\ mQ' \in Seq(Nat)
         /\ csv' \in {"open", "closed", "broken"}
         /\ intervals' \in Seq(LogRow)
PROOF
  <1>1. sample.stamp \in Nat /\ sample.count \in Counts
    BY DEF TypeInv, ControlOK, Sample
  <1>a. intervals \in Seq(LogRow) /\ mQ \in Seq(Nat) /\ csv \in {"open", "closed", "broken"}
    BY DEF TypeInv, TypeOK, ListenerTypeOK
  <1>2. Append(mQ, sample.stamp) \in Seq(Nat) /\ Append(mQ, sample.stamp) # << >>
    BY SMTT(30), <1>1, <1>a, AppendProperties
  <1>3. Times(mQ, sample.count, sample.stamp) \in Seq(Nat)
    BY <1>2, HeadTailProperties DEF Times
  <1>4. Reference(mQ, sample.count, sample.stamp) \in Nat
    BY <1>3, HeadTailProperties DEF Reference, NoTime
  <1>5. [count |-> sample.count, now |-> sample.stamp,
         from |-> Reference(mQ, sample.count, sample.stamp)] \in LogRow
    BY <1>1, <1>4 DEF LogRow
  <1>6. Row(mQ, sample.count, sample.stamp) \in Seq(LogRow)
    BY <1>5 DEF Row
  <1>8. intervals \o Row(mQ, sample.count, sample.stamp) \in Seq(LogRow)
    BY <1>6, <1>a, ConcatProperties
  <1> QED
    BY <1>3, <1>a, <1>8 DEF LogArrival

LEMMA TypeListener ==
  ASSUME TypeInv, alive, Listener
  PROVE  TypeInv'
PROOF
  <1>1. ASSUME NEW c \in Counts, NEW k \in ReqRows, TakeData(c, k)
        PROVE  TypeInv'
    <2>1. k \in 0 .. Rows /\ Len(received) \in Nat
      BY ServerAssumption DEF TypeInv, TypeOK, ListenerTypeOK
    <2>2. sample' \in Sample
      BY <1>1, <2>1, ServerAssumption DEF TakeData, Sample
    <2>3. CommandOf(sample') \in Command
      BY <2>2, CommandType
    <2>4. received' \in Seq(Command)
      BY <1>1, <2>3, AppendProperties DEF TakeData, TypeInv, TypeOK, ListenerTypeOK
    <2>5. lpc' = "copy" /\ lrow' \in 0 .. Rows /\ counts' \subseteq Counts
      BY <1>1, ServerAssumption DEF TakeData, TypeInv, TypeOK, ListenerTypeOK
    <2>6. valid' \in BOOLEAN
      BY <1>1 DEF TakeData, TypeInv, TypeOK, ListenerTypeOK
    <2>7. ListenerTypeOK'
      BY <1>1, <2>2, <2>4, <2>5, <2>6 DEF TakeData, TypeInv, TypeOK, ListenerTypeOK
    <2>8. ControlOK' /\ UNCHANGED alive
      <3>1. received' # << >>
        <4>1. received \in Seq(Command)
          BY DEF TypeInv, TypeOK, ListenerTypeOK
        <4>2. Append(received, CommandOf(sample')) # << >>
          BY <2>3, <4>1, AppendProperties
        <4> QED
          BY <1>1, <4>2 DEF TakeData
      <3> QED
        BY <1>1, <2>2, <3>1 DEF TakeData, TypeInv, ControlOK, responderVars, mmsVars
    <2> QED
      BY <1>1, <2>7, <2>8, Frames DEF TakeData, TypeInv, TypeOK, sharedVars
  <1>2. CASE TakeNoData
    <2>1. ListenerTypeOK'
      BY <1>2 DEF TakeNoData, TypeInv, TypeOK, ListenerTypeOK
    <2>2. ControlOK' /\ UNCHANGED alive
      BY <1>2 DEF TakeNoData, TypeInv, ControlOK, responderVars, mmsVars
    <2> QED
      BY <1>2, <2>1, <2>2, Frames DEF TakeNoData, TypeInv, TypeOK, sharedVars
  <1>3. CASE CopyRow
    <2>1. sample.stamp \in Nat /\ sample.rows \in 0 .. Rows
      <3>1. sample \in Sample
        BY <1>3 DEF TypeInv, ControlOK, CopyRow
      <3> QED
        BY <3>1, SampleFields
    <2>2. ArraysTypeOK'
      BY <1>3, <2>1 DEF CopyRow, TypeInv, TypeOK, ArraysTypeOK
    <2>3. lrow' \in 0 .. Rows
      BY <1>3, <2>1, ServerAssumption DEF CopyRow, TypeInv, TypeOK, ListenerTypeOK
    <2>4. ListenerTypeOK'
      BY <1>3, <2>3 DEF CopyRow, TypeInv, TypeOK, ListenerTypeOK
    <2>5. ControlOK' /\ UNCHANGED alive
      BY <1>3 DEF CopyRow, TypeInv, ControlOK, responderVars, mmsVars
    <2> QED
      BY <1>3, <2>2, <2>4, <2>5, Frames DEF CopyRow, TypeInv, TypeOK
  <1>4. CASE SendCommand
    <2>1. CommandOf(sample) \in Command
      BY <1>4, CommandType DEF SendCommand, TypeInv, ControlOK
    <2>2. QueueTypeOK'
      BY <1>4, <2>1, ServerAssumption, AppendProperties
      DEF SendCommand, TypeInv, TypeOK, QueueTypeOK
    <2>3. /\ mQ' \in Seq(Nat)
          /\ csv' \in {"open", "closed", "broken"}
          /\ intervals' \in Seq(LogRow)
      BY <1>4, TypeLogArrival DEF SendCommand
    <2>4. ListenerTypeOK'
      BY <1>4, <2>3 DEF SendCommand, TypeInv, TypeOK, ListenerTypeOK
    <2>5. ControlOK' /\ UNCHANGED alive
      BY <1>4 DEF SendCommand, TypeInv, ControlOK, responderVars, mmsVars
    <2> QED
      BY <1>4, <2>2, <2>4, <2>5, Frames DEF SendCommand, TypeInv, TypeOK
  <1> QED
    BY <1>1, <1>2, <1>3, <1>4 DEF Listener

LEMMA TypeResponder ==
  ASSUME TypeInv, alive, Responder
  PROVE  TypeInv'
PROOF
  <1>1. CASE ReaderMatched \/ ResponderThrows
    <2>1. ResponderTypeOK'
      BY <1>1 DEF ReaderMatched, ResponderThrows, TypeInv, TypeOK, ResponderTypeOK
    <2>2. ControlOK' /\ UNCHANGED alive
      BY <1>1 DEF ReaderMatched, ResponderThrows, TypeInv, ControlOK, listenerVars, mmsVars
    <2> QED
      BY <1>1, <2>1, <2>2, Frames DEF ReaderMatched, ResponderThrows, TypeInv, TypeOK,
                                      sharedVars
  <1>2. CASE Receive
    <2>1. /\ msgq' \in Seq(Command) /\ Len(msgq') <= QueueCap
          /\ hand' \in Seq(Command) /\ Len(hand') <= 1 /\ hand' # << >>
      BY <1>2, ServerAssumption, HeadTailProperties DEF Receive, TypeInv, TypeOK, QueueTypeOK
    <2>2. ResponderTypeOK' /\ QueueTypeOK'
      BY <1>2, <2>1 DEF Receive, TypeInv, TypeOK, ResponderTypeOK, QueueTypeOK
    <2>3. MmsTypeOK'
      BY <1>2 DEF Receive, TypeInv, TypeOK, MmsTypeOK
    <2>4. ControlOK' /\ UNCHANGED alive
      BY <1>2, <2>1 DEF Receive, TypeInv, ControlOK, listenerVars
    <2> QED
      BY <1>2, <2>2, <2>3, <2>4, Frames DEF Receive, TypeInv, TypeOK
  <1>3. CASE CollectRow
    <2>1. ResultRow(row) \in Cell
      BY DEF TypeInv, TypeOK, ArraysTypeOK, ResultRow, Cell
    <2>2. items' \in Seq(Cell) /\ row' \in Nat
      <3>1. items \in Seq(Cell) /\ row \in Nat
        BY DEF TypeInv, TypeOK, ResponderTypeOK
      <3>2. Append(items, ResultRow(row)) \in Seq(Cell) /\ row + 1 \in Nat
        BY <2>1, <3>1, AppendProperties
      <3> QED
        BY <1>3, <3>1, <3>2 DEF CollectRow
    <2>3. ResponderTypeOK'
      BY <1>3, <2>2 DEF CollectRow, TypeInv, TypeOK, ResponderTypeOK
    <2>4. ControlOK' /\ UNCHANGED alive
      BY <1>3 DEF CollectRow, TypeInv, ControlOK, listenerVars, mmsVars
    <2> QED
      BY <1>3, <2>3, <2>4, Frames DEF CollectRow, TypeInv, TypeOK, sharedVars
  <1>4. ASSUME NEW c \in {"OK", "ERROR", "TIMEOUT"}, Write(c)
        PROVE  TypeInv'
    <2>1. CASE Repeats(c)
      <3>1. ResponderTypeOK'
        BY <1>4, <2>1 DEF Write, TypeInv, TypeOK, ResponderTypeOK
      <3>2. ControlOK' /\ UNCHANGED alive
        BY <1>4, <2>1 DEF Write, TypeInv, ControlOK, listenerVars, mmsVars
      <3> QED
        BY <1>4, <3>1, <3>2, Frames DEF Write, TypeInv, TypeOK, sharedVars
    <2>2. CASE ~Repeats(c)
      <3>1. Settle(c) /\ c \in {"OK", "ERROR"}
        BY <1>4, <2>2 DEF Write, Repeats
      <3>2. served' \in Seq(Command)
        BY <3>1, ConcatProperties DEF Settle, TypeInv, TypeOK, ResponderTypeOK
      <3>3. [items |-> items, code |-> c, due |-> due, news |-> news, alone |-> alone] \in Reply
        BY <3>1 DEF TypeInv, TypeOK, ResponderTypeOK, MmsTypeOK, Reply
      <3>4. replies' \in Seq(Reply)
        BY <3>1, <3>3 DEF Settle, TypeInv, TypeOK, ResponderTypeOK
      <3>5. hand' = << >> /\ rpc' = "clear" /\ row' = 0 /\ code' = c
        BY <1>4, <3>1 DEF Settle, Write
      <3>6. ResponderTypeOK'
        BY <1>4, <3>2, <3>4, <3>5 DEF Write, TypeInv, TypeOK, ResponderTypeOK
      <3>7. ControlOK' /\ UNCHANGED alive
        BY <1>4, <3>5 DEF Write, TypeInv, ControlOK, listenerVars, mmsVars
      <3> QED
        BY <1>4, <3>6, <3>7, Frames DEF Write, TypeInv, TypeOK, sharedVars
    <2> QED
      BY <2>1, <2>2
  <1>5. CASE ClearRow
    <2>1. ArraysTypeOK'
      BY <1>5 DEF ClearRow, TypeInv, TypeOK, ArraysTypeOK, Cell, Empty
    <2>2. ResponderTypeOK'
      BY <1>5 DEF ClearRow, TypeInv, TypeOK, ResponderTypeOK
    <2>3. ControlOK' /\ UNCHANGED alive
      BY <1>5 DEF ClearRow, TypeInv, ControlOK, listenerVars, mmsVars
    <2> QED
      BY <1>5, <2>1, <2>2, <2>3, Frames DEF ClearRow, TypeInv, TypeOK
  <1>6. CASE ResetChanged
    <2>1. ArraysTypeOK'
      BY <1>6, ServerAssumption DEF ResetChanged, ChangedAfter, TypeInv, TypeOK, ArraysTypeOK
    <2>2. ResponderTypeOK'
      BY <1>6 DEF ResetChanged, TypeInv, TypeOK, ResponderTypeOK
    <2>3. MmsTypeOK'
      BY <1>6 DEF ResetChanged, TypeInv, TypeOK, MmsTypeOK, Cell, Polling
    <2>4. ControlOK' /\ UNCHANGED alive
      BY <1>6 DEF ResetChanged, TypeInv, ControlOK, listenerVars
    <2> QED
      BY <1>6, <2>1, <2>2, <2>3, <2>4, Frames DEF ResetChanged, TypeInv, TypeOK
  <1> QED
    BY <1>1, <1>2, <1>3, <1>4, <1>5, <1>6 DEF Responder

LEMMA TypeMms ==
  ASSUME TypeInv, alive, Mms
  PROVE  TypeInv'
PROOF
  <1>1. CASE PollBegins
    <2>1. Stored \in Nat
      <3>1. Len(received) \in Nat /\ (lpc = "copy" => Len(received) > 0)
        <4>1. received \in Seq(Command) /\ (lpc = "copy" => received # << >>)
          BY DEF TypeInv, TypeOK, ListenerTypeOK, ControlOK
        <4> QED
          BY <4>1, EmptySeq, LenProperties
      <3> QED
        BY <3>1 DEF Stored
    <2>2. seen' \in Seq(Nat)
      BY <1>1, <2>1 DEF PollBegins, TypeInv, TypeOK, MmsTypeOK
    <2>3. MmsTypeOK'
      BY <1>1, <2>2, ServerAssumption DEF PollBegins, TypeInv, TypeOK, MmsTypeOK
    <2>4. ControlOK' /\ UNCHANGED alive
      BY <1>1 DEF PollBegins, TypeInv, ControlOK, listenerVars, responderVars
    <2> QED
      BY <1>1, <2>3, <2>4, Frames DEF PollBegins, TypeInv, TypeOK, sharedVars
  <1>2. CASE StoreBegins
    <2>1. ArraysTypeOK'
      BY <1>2 DEF StoreBegins, TypeInv, TypeOK, ArraysTypeOK, Cell, Torn
    <2>2. MmsTypeOK'
      BY <1>2 DEF StoreBegins, TypeInv, TypeOK, MmsTypeOK
    <2>3. ControlOK' /\ UNCHANGED alive
      BY <1>2 DEF StoreBegins, TypeInv, ControlOK, listenerVars, responderVars
    <2> QED
      BY <1>2, <2>1, <2>2, <2>3, Frames DEF StoreBegins, TypeInv, TypeOK
  <1>3. CASE StoreEnds
    <2>1. ArraysTypeOK'
      <3>1. PICK v \in {polls, Empty, Torn} : resultData' = [resultData EXCEPT ![mrow] = v]
        BY <1>3 DEF StoreEnds
      <3>2. v \in Cell
        BY DEF TypeInv, TypeOK, MmsTypeOK, Cell, Torn, Empty
      <3> QED
        BY <1>3, <3>1, <3>2 DEF StoreEnds, TypeInv, TypeOK, ArraysTypeOK
    <2>2. mrow' \in 1 .. Rows
      BY <1>3, ServerAssumption DEF StoreEnds, TypeInv, TypeOK, MmsTypeOK, ControlOK
    <2>3. MmsTypeOK'
      BY <1>3, <2>2 DEF StoreEnds, TypeInv, TypeOK, MmsTypeOK
    <2>4. ControlOK' /\ UNCHANGED alive
      BY <1>3 DEF StoreEnds, TypeInv, ControlOK, listenerVars, responderVars
    <2> QED
      BY <1>3, <2>1, <2>3, <2>4, Frames DEF StoreEnds, TypeInv, TypeOK
  <1>4. CASE PollEnds
    <2>1. changed' \in 0 .. Rows /\ due' \in Nat /\ news' \in Cell
      BY <1>4, ServerAssumption DEF PollEnds, TypeInv, TypeOK, MmsTypeOK, Cell
    <2>2. ArraysTypeOK'
      BY <1>4, <2>1 DEF PollEnds, TypeInv, TypeOK, ArraysTypeOK
    <2>3. MmsTypeOK'
      BY <1>4, <2>1 DEF PollEnds, TypeInv, TypeOK, MmsTypeOK
    <2>4. ControlOK' /\ UNCHANGED alive
      BY <1>4 DEF PollEnds, TypeInv, ControlOK, listenerVars, responderVars
    <2> QED
      BY <1>4, <2>2, <2>3, <2>4, Frames DEF PollEnds, TypeInv, TypeOK
  <1> QED
    BY <1>1, <1>2, <1>3, <1>4 DEF Mms

LEMMA TypeNext == TypeInv /\ [Next]_vars => TypeInv'
PROOF
  <1> SUFFICES ASSUME TypeInv, [Next]_vars PROVE TypeInv'
    OBVIOUS
  <1>1. CASE alive /\ Listener
    BY <1>1, TypeListener
  <1>2. CASE alive /\ Responder
    BY <1>2, TypeResponder
  <1>3. CASE alive /\ Mms
    BY <1>3, TypeMms
  <1>4. CASE Exit
    <2>1. ControlOK' /\ alive' \in BOOLEAN
      BY <1>4 DEF Exit, TypeInv, ControlOK, listenerVars, responderVars, mmsVars
    <2> QED
      BY <1>4, <2>1, Frames DEF Exit, TypeInv, TypeOK, sharedVars
  <1>5. CASE UNCHANGED vars
    <2>1. ControlOK' /\ alive' \in BOOLEAN
      BY <1>5 DEF vars, TypeInv, TypeOK, ControlOK, listenerVars, responderVars, mmsVars
    <2> QED
      BY <1>5, <2>1, Frames DEF vars, TypeInv, TypeOK, sharedVars
  <1> QED
    BY <1>1, <1>2, <1>3, <1>4, <1>5 DEF Next

(* Every state of the gateway process is of the declared types. *)
THEOREM TypeCorrect == Spec => []TypeOK
PROOF
  <1>1. TypeInv => TypeOK
    BY DEF TypeInv
  <1> QED
    BY <1>1, TypeInit, TypeNext, PTL DEF Spec

(* ... and the invariant the other proofs start from. *)
THEOREM TypeInvariant == Spec => []TypeInv
PROOF
  BY TypeInit, TypeNext, PTL DEF Spec

-----------------------------------------------------------------------------
(* The parts the commands pass through are sequences of commands. *)
LEMMA Parts ==
  ASSUME TypeInv
  PROVE  /\ received \in Seq(Command) /\ served \in Seq(Command)
         /\ hand \in Seq(Command) /\ msgq \in Seq(Command) /\ Pending \in Seq(Command)
         /\ lpc = "copy" => CommandOf(sample) \in Command
PROOF
  <1>1. lpc = "copy" => CommandOf(sample) \in Command
    BY CommandType DEF TypeInv, ControlOK
  <1>2. Pending \in Seq(Command)
    BY <1>1, EmptySeq DEF Pending
  <1> QED
    BY <1>1, <1>2 DEF TypeInv, TypeOK, ListenerTypeOK, QueueTypeOK, ResponderTypeOK

(* The steps that move no command. *)
Still == UNCHANGED << received, served, hand, msgq, Pending >>

(***************************************************************************)
(* What each step does to the places a command passes through.             *)
(***************************************************************************)
LEMMA Moves ==
  ASSUME TypeInv, [Next]_vars
  PROVE  \/ /\ Pending = << >> /\ Len(hand) <= 1 /\ Len(msgq) <= QueueCap
            /\ \E x \in Command : /\ received' = Append(received, x)
                                  /\ Pending' = << x >>
            /\ UNCHANGED << served, hand, msgq, rpc, alive >>
         \/ /\ \E x \in Command : /\ Pending = << x >>
                                  /\ msgq' = Append(msgq, x)
            /\ Pending' = << >>
            /\ UNCHANGED << received, served, hand, rpc, alive >>
         \/ /\ hand = << >> /\ msgq # << >>
            /\ hand' = << Head(msgq) >> /\ msgq' = Tail(msgq)
            /\ rpc = "recv" /\ rpc' = "collect"
            /\ UNCHANGED << received, served, Pending, alive >>
         \/ /\ Len(hand) = 1
            /\ served' = served \o hand /\ hand' = << >>
            /\ alive /\ rpc = "write" /\ rpc' = "clear"
            /\ UNCHANGED << received, msgq, Pending, alive >>
         \/ Still /\ (Mode' = Mode \/ Mode' = "halted" \/ (Mode = "closed" /\ Mode' = "serving"))
PROOF
  <1>1. ASSUME NEW c \in Counts, NEW k \in ReqRows, alive, TakeData(c, k)
        PROVE  /\ Pending = << >> /\ Len(hand) <= 1 /\ Len(msgq) <= QueueCap
               /\ \E x \in Command : /\ received' = Append(received, x)
                                     /\ Pending' = << x >>
               /\ UNCHANGED << served, hand, msgq, rpc, alive >>
    <2>1. TypeInv'
      BY <1>1, TypeListener DEF Listener
    <2>2. lpc' = "copy" /\ received' = Append(received, CommandOf(sample'))
          /\ lpc = "idle" /\ UNCHANGED << served, hand, msgq, rpc, alive >>
      BY <1>1 DEF TakeData, responderVars, sharedVars
    <2>3. CommandOf(sample') \in Command
      BY <2>1, <2>2, CommandType DEF TypeInv, ControlOK
    <2>4. Pending' = << CommandOf(sample') >> /\ Pending = << >>
      BY <2>2 DEF Pending, CommandOf
    <2> QED
      BY <2>2, <2>3, <2>4 DEF TypeInv, TypeOK, ControlOK, QueueTypeOK
  <1>2. CASE TakeNoData \/ CopyRow
    <2>1. UNCHANGED << received, served, hand, msgq, lpc, sample, rpc, alive >>
      BY <1>2 DEF TakeNoData, CopyRow, responderVars, sharedVars
    <2> QED
      BY <2>1 DEF Still, Pending, Mode, Halted, CommandOf
  <1>3. CASE SendCommand
    <2>1. /\ lpc = "copy" /\ lpc' = "idle" /\ msgq' = Append(msgq, CommandOf(sample))
          /\ UNCHANGED << received, served, hand, rpc, alive >>
      BY <1>3 DEF SendCommand, responderVars
    <2>2. Pending = << CommandOf(sample) >> /\ Pending' = << >>
      BY <2>1 DEF Pending
    <2>3. CommandOf(sample) \in Command
      BY <2>1, Parts
    <2> QED
      BY <2>1, <2>2, <2>3
  <1>4. CASE Receive
    <2>1. /\ rpc = "recv" /\ msgq # << >> /\ rpc' = "collect"
          /\ hand' = << Head(msgq) >> /\ msgq' = Tail(msgq)
          /\ UNCHANGED << received, served, lpc, sample, alive >>
      BY <1>4 DEF Receive, listenerVars
    <2>2. hand = << >>
      BY <2>1 DEF TypeInv, ControlOK
    <2> QED
      BY <2>1, <2>2 DEF Pending, CommandOf
  <1>5. ASSUME NEW c \in {"OK", "ERROR", "TIMEOUT"}, Write(c), ~Repeats(c), alive
        PROVE  /\ Len(hand) = 1
               /\ served' = served \o hand /\ hand' = << >>
               /\ alive /\ rpc = "write" /\ rpc' = "clear"
               /\ UNCHANGED << received, msgq, Pending, alive >>
    <2>1. /\ rpc = "write" /\ rpc' = "clear"
          /\ served' = served \o hand /\ hand' = << >>
          /\ UNCHANGED << received, msgq, lpc, sample, alive >>
      BY <1>5 DEF Write, Settle, listenerVars, sharedVars
    <2>2. Len(hand) = 1
      <3>1. hand # << >> /\ Len(hand) <= 1 /\ hand \in Seq(Command)
        BY <2>1, Parts DEF TypeInv, ControlOK
      <3>2. Len(hand) \in Nat \ {0}
        BY <3>1, EmptySeq
      <3> QED
        BY <3>1, <3>2
    <2> QED
      BY <1>5, <2>1, <2>2 DEF Pending, CommandOf
  <1>6. ASSUME NEW c \in {"OK", "ERROR", "TIMEOUT"}, Write(c), Repeats(c)
        PROVE  Still /\ Mode' = Mode
    <2>1. UNCHANGED << received, served, hand, msgq, lpc, sample, rpc, alive >>
      BY <1>6 DEF Write, listenerVars, sharedVars
    <2> QED
      BY <2>1 DEF Still, Pending, Mode, Halted, CommandOf
  <1>7. CASE CollectRow \/ ClearRow \/ ResetChanged
    <2>1. UNCHANGED << received, served, hand, msgq, lpc, sample, alive >>
      BY <1>7 DEF CollectRow, ClearRow, ResetChanged, listenerVars, sharedVars
    <2>2. rpc \in {"collect", "clear"} /\ rpc' \in {"collect", "write", "clear", "recv"}
      BY <1>7 DEF CollectRow, ClearRow, ResetChanged
    <2> QED
      BY <2>1, <2>2 DEF Still, Pending, Mode, Halted, CommandOf
  <1>8. CASE ReaderMatched \/ ResponderThrows
    <2>1. UNCHANGED << received, served, hand, msgq, lpc, sample, alive >>
      BY <1>8 DEF ReaderMatched, ResponderThrows, listenerVars, sharedVars
    <2>2. (rpc = "match" /\ rpc' = "recv") \/ rpc' = "done"
      BY <1>8 DEF ReaderMatched, ResponderThrows
    <2> QED
      BY <2>1, <2>2 DEF Still, Pending, Mode, Halted, CommandOf
  <1>9. CASE Mms
    <2>1. UNCHANGED << received, served, hand, msgq, lpc, sample, rpc, alive >>
      BY <1>9 DEF Mms, PollBegins, StoreBegins, StoreEnds, PollEnds, listenerVars,
                  responderVars, sharedVars
    <2> QED
      BY <2>1 DEF Still, Pending, Mode, Halted, CommandOf
  <1>10. CASE Exit
    <2>1. UNCHANGED << received, served, hand, msgq, lpc, sample, rpc >> /\ alive' = FALSE
      BY <1>10 DEF Exit, listenerVars, responderVars, sharedVars
    <2> QED
      BY <2>1 DEF Still, Pending, Mode, Halted, CommandOf
  <1>11. CASE UNCHANGED vars
    <2>1. UNCHANGED << received, served, hand, msgq, lpc, sample, rpc, alive >>
      BY <1>11 DEF vars, listenerVars, responderVars, sharedVars
    <2> QED
      BY <2>1 DEF Still, Pending, Mode, Halted, CommandOf
  <1>12. CASE Next
    BY <1>1, <1>2, <1>3, <1>4, <1>5, <1>6, <1>7, <1>8, <1>9, <1>10, <1>12
    DEF Next, Listener, Responder
  <1> QED
    BY <1>11, <1>12

(* What was found on the queue stays what it was. *)
LEMMA StaleStays == [Next]_vars => stale' = stale
PROOF
  <1> SUFFICES ASSUME [Next]_vars PROVE stale' = stale
    OBVIOUS
  <1>1. CASE Listener
    BY <1>1 DEF Listener, TakeData, TakeNoData, CopyRow, SendCommand
  <1>2. CASE Responder
    BY <1>2 DEF Responder, ReaderMatched, Receive, CollectRow, Write, ClearRow, ResetChanged,
                ResponderThrows, listenerVars
  <1>3. CASE Mms
    BY <1>3 DEF Mms, PollBegins, StoreBegins, StoreEnds, PollEnds, listenerVars
  <1>4. CASE Exit \/ UNCHANGED vars
    BY <1>4 DEF Exit, vars, listenerVars
  <1> QED
    BY <1>1, <1>2, <1>3, <1>4 DEF Next

LEMMA OrderNext == TypeInv /\ InOrder /\ [Next]_vars => InOrder'
PROOF
  <1> SUFFICES ASSUME TypeInv, InOrder, [Next]_vars PROVE InOrder'
    OBVIOUS
  <1>0. /\ received \in Seq(Command) /\ served \in Seq(Command)
        /\ hand \in Seq(Command) /\ msgq \in Seq(Command) /\ Pending \in Seq(Command)
        /\ stale \in Seq(Command) /\ stale' = stale
    BY Parts, StaleStays DEF TypeInv, TypeOK, ListenerTypeOK
  <1>1. ASSUME Pending = << >>, UNCHANGED << served, hand, msgq >>,
               NEW x \in Command, received' = Append(received, x), Pending' = << x >>
        PROVE  InOrder'
    <2>1. (served \o hand) \o msgq \in Seq(Command)
      BY <1>0, ConcatProperties
    <2>2. Append(((served \o hand) \o msgq) \o << >>, x) = ((served \o hand) \o msgq) \o << x >>
      BY <2>1, JoinEnd
    <2>3. stale \o Append(received, x) = Append(stale \o received, x)
      BY <1>0, AppendToSecond
    <2> QED
      BY <1>0, <1>1, <2>2, <2>3 DEF InOrder
  <1>2. ASSUME NEW x \in Command, Pending = << x >>, msgq' = Append(msgq, x),
               Pending' = << >>, UNCHANGED << received, served, hand >>
        PROVE  InOrder'
    <2> DEFINE a == served \o hand
    <2>1. a \in Seq(Command) /\ msgq \in Seq(Command)
      BY <1>0, ConcatProperties
    <2> HIDE DEF a
    <2>2. (a \o msgq) \o << x >> = (a \o Append(msgq, x)) \o << >>
      BY <2>1, PostLast
    <2> QED
      BY <1>0, <1>2, <2>2 DEF InOrder, a
  <1>3. ASSUME hand = << >>, msgq # << >>, hand' = << Head(msgq) >>, msgq' = Tail(msgq),
               UNCHANGED << received, served, Pending >>
        PROVE  InOrder'
    <2>1. ((served \o << >>) \o msgq) \o Pending
            = ((served \o << Head(msgq) >>) \o Tail(msgq)) \o Pending
      BY SMTT(30), <1>0, <1>3, TakeFront
    <2> QED
      BY <1>0, <1>3, <2>1 DEF InOrder
  <1>4. ASSUME served' = served \o hand, hand' = << >>, UNCHANGED << received, msgq, Pending >>
        PROVE  InOrder'
    <2>1. served \o hand = (served \o hand) \o << >>
      BY <1>0, SettleHand
    <2> QED
      BY <1>0, <1>4, <2>1 DEF InOrder
  <1>5. CASE Still
    BY <1>0, <1>5 DEF Still, InOrder
  <1> QED
    BY <1>1, <1>2, <1>3, <1>4, <1>5, Moves

(* No request is lost, answered twice, overtaken or given another's stamp. *)
THEOREM OrderCorrect == Spec => []InOrder
PROOF
  <1>1. Init => InOrder
    <2> SUFFICES ASSUME Init PROVE InOrder
      OBVIOUS
    <2>1. stale \in Seq(Command) /\ << >> \o << >> = << >>
      BY StaleType, ConcatEmptySeq, EmptySeq
    <2>2. stale \o << >> = stale /\ << >> \o stale = stale
      BY <2>1, ConcatEmptySeq
    <2>3. /\ received = << >> /\ served = << >> /\ hand = << >> /\ msgq = stale
          /\ Pending = << >>
      BY DEF Init, Pending
    <2> QED
      BY <2>1, <2>2, <2>3 DEF InOrder
  <1>2. TypeInv /\ InOrder /\ [Next]_vars => InOrder'
    BY OrderNext
  <1> QED
    BY <1>1, <1>2, TypeInvariant, PTL DEF Spec

-----------------------------------------------------------------------------
(* Every step of the gateway is a step of the fifo responder or a stutter. *)
LEMMA FifoNext == TypeInv /\ [Next]_vars => [Fifo!Next]_(Fifo!vars)
PROOF
  <1> SUFFICES ASSUME TypeInv, [Next]_vars PROVE [Fifo!Next]_(Fifo!vars)
    OBVIOUS
  <1>0. /\ received \in Seq(Command) /\ served \in Seq(Command)
        /\ hand \in Seq(Command) /\ msgq \in Seq(Command) /\ Pending \in Seq(Command)
    BY Parts
  <1>1. ASSUME Pending = << >>, Len(hand) <= 1, Len(msgq) <= QueueCap,
               NEW x \in Command, Pending' = << x >>,
               UNCHANGED << served, hand, msgq, rpc, alive >>
        PROVE  Fifo!Accept
    <2>1. hand \o msgq \in Seq(Command)
      BY <1>0, ConcatProperties
    <2>2. Backlog' = Append(Backlog, x)
      <3>1. Append((hand \o msgq) \o << >>, x) = (hand \o msgq) \o << x >>
        BY <2>1, JoinEnd
      <3> QED
        BY <1>1, <3>1 DEF Backlog
    <2>3. Len(Backlog) < QueueCap + 2
      <3>1. Len(Backlog) = Len(hand) + Len(msgq) + Len(Pending)
        BY <1>0, LenOfParts DEF Backlog
      <3>2. Len(hand) \in Nat /\ Len(msgq) \in Nat /\ Len(Pending) = 0
        BY <1>0, <1>1, LenProperties
      <3> QED
        BY <1>1, <3>1, <3>2, ServerAssumption
    <2>4. Mode' = Mode
      BY <1>1 DEF Mode, Halted
    <2> QED
      BY <1>1, <2>2, <2>3, <2>4 DEF Fifo!Accept
  <1>2. ASSUME NEW x \in Command, Pending = << x >>, msgq' = Append(msgq, x),
               Pending' = << >>, UNCHANGED << served, hand, rpc, alive >>
        PROVE  UNCHANGED Fifo!vars
    <2>1. Backlog' = Backlog
      <3>1. (hand \o msgq) \o << x >> = (hand \o Append(msgq, x)) \o << >>
        BY <1>0, PostLast
      <3> QED
        BY <1>2, <3>1 DEF Backlog
    <2>2. Mode' = Mode
      BY <1>2 DEF Mode, Halted
    <2> QED
      BY <1>2, <2>1, <2>2 DEF Fifo!vars
  <1>3. ASSUME hand = << >>, msgq # << >>, hand' = << Head(msgq) >>, msgq' = Tail(msgq),
               rpc = "recv", rpc' = "collect", UNCHANGED << served, Pending, alive >>
        PROVE  UNCHANGED Fifo!vars
    <2>1. Backlog' = Backlog
      <3>1. << Head(msgq) >> \o Tail(msgq) = msgq /\ << >> \o msgq = msgq
        BY <1>0, <1>3, HeadThenTail, ConcatEmptySeq
      <3> QED
        BY <1>3, <3>1 DEF Backlog
    <2>2. Mode' = Mode
      BY <1>3 DEF Mode, Halted
    <2> QED
      BY <1>3, <2>1, <2>2 DEF Fifo!vars
  <1>4. ASSUME Len(hand) = 1, served' = served \o hand, hand' = << >>,
               alive, rpc = "write", rpc' = "clear", UNCHANGED << msgq, Pending, alive >>
        PROVE  Fifo!Answer
    <2>1. PICK x \in Command : hand = << x >>
      BY <1>0, <1>4, Singleton
    <2>2. msgq \o Pending \in Seq(Command)
      BY <1>0, ConcatProperties
    <2>3. Backlog = << x >> \o (msgq \o Pending)
      BY <1>0, <2>1, ConcatAssociative DEF Backlog
    <2>4. Backlog' = msgq \o Pending
      <3>1. << >> \o msgq = msgq
        BY <1>0, ConcatEmptySeq
      <3> QED
        BY <1>4, <3>1 DEF Backlog
    <2>5. Backlog # << >> /\ Head(Backlog) = x /\ Backlog' = Tail(Backlog)
      BY <2>2, <2>3, <2>4, HeadOfFront
    <2>6. served' = Append(served, Head(Backlog))
      BY <1>0, <1>4, <2>1, <2>5, AppendIsConcat
    <2>7. Mode = "serving" /\ Mode' = Mode
      BY <1>4 DEF Mode, Halted
    <2> QED
      BY <2>5, <2>6, <2>7 DEF Fifo!Answer
  <1>5. ASSUME Still, Mode' = Mode \/ Mode' = "halted" \/ (Mode = "closed" /\ Mode' = "serving")
        PROVE  [Fifo!Next]_(Fifo!vars)
    <2>1. Backlog' = Backlog /\ served' = served
      BY <1>5 DEF Still, Backlog
    <2> QED
      BY <1>5, <2>1 DEF Fifo!Next, Fifo!vars, Fifo!Halt, Fifo!Open
  <1> QED
    BY <1>1, <1>2, <1>3, <1>4, <1>5, Moves DEF Fifo!Next

(* The gateway process implements the bounded fifo responder. *)
THEOREM FifoCorrect == Spec => ImplementsFifo
PROOF
  <1>1. Init => Fifo!Init
    <2> SUFFICES ASSUME Init PROVE Fifo!Init
      OBVIOUS
    <2>1. stale \in Seq(Command) /\ Len(stale) <= QueueCap
      BY StaleType
    <2>2. Backlog = stale
      <3>1. hand = << >> /\ msgq = stale /\ Pending = << >>
        BY DEF Init, Pending
      <3>2. << >> \o stale = stale /\ stale \o << >> = stale
        BY <2>1, ConcatEmptySeq
      <3> QED
        BY <3>1, <3>2 DEF Backlog
    <2>3. Len(Backlog) <= QueueCap + 2
      BY <2>1, <2>2, ServerAssumption
    <2>4. Mode = "closed" /\ served = << >>
      BY DEF Init, Mode, Halted
    <2> QED
      BY <2>1, <2>2, <2>3, <2>4 DEF Fifo!Init
  <1>2. TypeInv /\ [Next]_vars => [Fifo!Next]_(Fifo!vars)
    BY FifoNext
  <1> QED
    BY <1>1, <1>2, TypeInvariant, PTL DEF Spec, ImplementsFifo, Fifo!Safety

-----------------------------------------------------------------------------
(***************************************************************************)
(* What a crash at any moment leaves on the queue, for the next process of *)
(* this pid to find, is what the specification lets survive: the commands  *)
(* in the hands of the two threads are gone, and nothing else.             *)
(***************************************************************************)
THEOREM CrashCorrect == Spec => []CrashLeaves
PROOF
  <1>1. TypeInv => CrashLeaves
    <2> SUFFICES ASSUME TypeInv PROVE msgq \in Fifo!Survivors(Backlog)
      BY DEF CrashLeaves
    <2>1. hand \in Seq(Command) /\ msgq \in Seq(Command) /\ Pending \in Seq(Command)
      BY Parts
    <2>2. PICK h, q, p \in Nat : Len(hand) = h /\ Len(msgq) = q /\ Len(Pending) = p
      BY <2>1, LenProperties
    <2>3. h <= 1
      BY <2>2 DEF TypeInv, ControlOK
    <2>a. p <= 1
      <3>1. Len(<< >>) = 0 /\ Len(<< CommandOf(sample) >>) = 1
        OBVIOUS
      <3>2. Pending = << >> \/ Pending = << CommandOf(sample) >>
        BY DEF Pending
      <3> QED
        BY <2>2, <3>1, <3>2
    <2>b. Len(Backlog) = h + q + p
      BY <2>1, <2>2, LenOfParts DEF Backlog
    <2>4. SubSeq(Backlog, Len(hand) + 1, Len(hand) + Len(msgq)) = msgq
      BY <2>1, MiddlePart DEF Backlog
    <2>5. h = 0 \/ h = 1
      BY <2>2, <2>3
    <2>6. p = 0 \/ p = 1
      BY <2>2, <2>a
    <2>7. SubSeq(Backlog, Len(hand) + 1, Len(hand) + Len(msgq)) \in Fifo!Survivors(Backlog)
      <3>1. SubSeq(Backlog, h + 1, h + q) \in Fifo!Survivors(Backlog)
        BY <2>b, <2>5, <2>6 DEF Fifo!Survivors
      <3> QED
        BY <2>2, <3>1, Zenon
    <2> QED
      BY <2>4, <2>7, Zenon
  <1> QED
    BY <1>1, TypeInvariant, PTL
=============================================================================
