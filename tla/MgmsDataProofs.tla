--------------------------- MODULE MgmsDataProofs ---------------------------
(***************************************************************************)
(* Theorems about what MgmsServer's threads share without a lock, and      *)
(* about the interval log, for every value of the constants.               *)
(***************************************************************************)
EXTENDS MgmsServerProofs, FiniteSetTheorems

-----------------------------------------------------------------------------
(***************************************************************************)
(* Uninitialised memory.  Until the first response is settled anything may *)
(* be anywhere; while memset runs the rows it has passed are clean; from   *)
(* then on all rows are, the flag stays within the array, and so are the   *)
(* rows collected.                                                         *)
(***************************************************************************)
RowsClean(n) == \A r \in RowIndex : r < n => resultData[r] # Garbage

GarbageInv ==
  /\ rpc = "clear" => RowsClean(row)
  /\ (Len(replies) > 0 /\ rpc # "clear") => RowsClean(Rows) /\ changed <= Rows
  /\ (Len(replies) > 0 /\ rpc \in {"collect", "write"}) =>
        row > 0 /\ \A u \in DOMAIN items : items[u] # Garbage
  /\ rpc \in {"collect"} => row > 0
  /\ GarbageOnlyFirst

LEMMA GarbageInit == Init => GarbageInv
  BY DEF Init, GarbageInv, GarbageOnlyFirst

(* What the rest of the proof needs of the types. *)
LEMMA DataTypes ==
  ASSUME TypeInv
  PROVE  /\ Rows \in Nat \ {0} /\ RowIndex = 0 .. Rows - 1
         /\ resultData \in [RowIndex -> Cell]
         /\ row \in Nat /\ items \in Seq(Cell) /\ replies \in Seq(Reply)
         /\ polls \in Nat /\ mrow \in 1 .. Rows /\ changed \in Nat
PROOF
  <1>1. changed \in InitChanged \cup 0 .. Rows /\ InitChanged \subseteq Nat
    BY ServerAssumption DEF TypeInv, TypeOK, ArraysTypeOK
  <1>2. Rows \in Nat \ {0}
    BY ServerAssumption
  <1> QED
    BY <1>1, <1>2 DEF TypeInv, TypeOK, ArraysTypeOK, ResponderTypeOK, MmsTypeOK, RowIndex

LEMMA GarbageFrame ==
  ASSUME GarbageInv, UNCHANGED << resultData, changed, items, row, replies >>,
         rpc' = rpc \/ (rpc # "clear" /\ rpc' \in {"match", "recv", "done"})
  PROVE  GarbageInv'
  BY DEF GarbageInv, GarbageOnlyFirst, RowsClean, RowIndex

(* A row the MMS thread stores is no uninitialised one. *)
LEMMA GarbageMms ==
  ASSUME TypeInv, GarbageInv, Mms PROVE GarbageInv'
PROOF
  <1> USE DataTypes
  <1>1. CASE PollBegins
    BY <1>1, GarbageFrame DEF PollBegins, responderVars, sharedVars
  <1>2. ASSUME NEW v \in Cell, v # Garbage, resultData' = [resultData EXCEPT ![mrow] = v],
               UNCHANGED << changed, responderVars >>
        PROVE  GarbageInv'
    <2>1. \A r \in RowIndex : resultData'[r] = resultData[r] \/ resultData'[r] = v
      BY <1>2
    <2>2. \A n : RowsClean(n) => RowsClean(n)'
      BY <1>2, <2>1 DEF RowsClean, RowIndex
    <2> QED
      BY <1>2, <2>2 DEF GarbageInv, GarbageOnlyFirst, RowsClean, RowIndex, responderVars
  <1>3. CASE StoreBegins
    <2>1. Torn \in Cell /\ Torn # Garbage
      BY DEF Cell, Torn, Garbage
    <2> QED
      BY <1>3, <2>1, <1>2 DEF StoreBegins
  <1>4. CASE StoreEnds
    <2>1. PICK v \in {polls, Empty, Torn} : resultData' = [resultData EXCEPT ![mrow] = v]
      BY <1>4 DEF StoreEnds
    <2>2. v \in Cell /\ v # Garbage
      BY DEF Cell, Torn, Empty, Garbage
    <2> QED
      BY <1>4, <2>1, <2>2, <1>2 DEF StoreEnds
  <1>5. CASE PollEnds
    BY <1>5 DEF PollEnds, GarbageInv, GarbageOnlyFirst, RowsClean, RowIndex, responderVars
  <1> QED
    BY <1>1, <1>3, <1>4, <1>5 DEF Mms

LEMMA GarbageResponder ==
  ASSUME TypeInv, GarbageInv, Responder PROVE GarbageInv'
PROOF
  <1> USE DataTypes
  <1>1. CASE ReaderMatched \/ ResponderThrows
    BY <1>1, GarbageFrame DEF ReaderMatched, ResponderThrows, sharedVars
  <1>2. CASE Receive
    BY <1>2 DEF Receive, GarbageInv, GarbageOnlyFirst, RowsClean, RowIndex
  <1>3. CASE CollectRow
    <2>1. CASE row < changed
      <3>1. /\ items' = Append(items, ResultRow(row)) /\ row' = row + 1 /\ rpc' = rpc
            /\ rpc = "collect" /\ row > 0
            /\ UNCHANGED << replies, resultData, changed >>
        BY <1>3, <2>1 DEF CollectRow, GarbageInv, sharedVars
      <3>2. Len(replies) > 0 => row \in RowIndex /\ resultData[row] # Garbage
        BY <2>1, <3>1 DEF GarbageInv, RowsClean
      <3>3. ASSUME Len(replies) > 0, NEW u \in DOMAIN items' PROVE items'[u] # Garbage
        <4>1. (items'[u] = items[u] /\ u \in DOMAIN items) \/ items'[u] = ResultRow(row)
          BY <3>1, <3>3
        <4>2. ResultRow(row) # Garbage
          BY <3>2, <3>3 DEF ResultRow
        <4>3. \A w \in DOMAIN items : items[w] # Garbage
          BY <3>1, <3>3 DEF GarbageInv
        <4> QED
          BY <4>1, <4>2, <4>3
      <3> QED
        BY <3>1, <3>3 DEF GarbageInv, GarbageOnlyFirst, RowsClean, RowIndex
    <2>2. CASE ~(row < changed)
      BY <1>3, <2>2 DEF CollectRow, GarbageInv, GarbageOnlyFirst, RowsClean, RowIndex, sharedVars
    <2> QED
      BY <2>1, <2>2
  <1>4. ASSUME NEW c \in {"OK", "ERROR", "TIMEOUT"}, Write(c) PROVE GarbageInv'
    <2>1. CASE Repeats(c)
      BY <1>4, <2>1, GarbageFrame DEF Write, sharedVars
    <2>2. CASE ~Repeats(c)
      <3>1. /\ replies' = Append(replies, [items |-> items, code |-> c, due |-> due, news |-> news, alone |-> alone])
            /\ rpc = "write" /\ rpc' = "clear" /\ row' = 0
        BY <1>4, <2>2 DEF Write, Settle
      <3>2. ASSUME NEW i \in DOMAIN replies', i > 1, NEW u \in DOMAIN replies'[i].items
            PROVE  replies'[i].items[u] # Garbage
        <4>1. CASE i \in DOMAIN replies
          BY <3>1, <3>2, <4>1 DEF GarbageInv, GarbageOnlyFirst
        <4>2. CASE i \notin DOMAIN replies
          <5>1. i = Len(replies) + 1 /\ replies'[i].items = items
            BY <3>1, <3>2, <4>2
          <5> QED
            BY <3>1, <3>2, <5>1 DEF GarbageInv
        <4> QED
          BY <4>1, <4>2
      <3>3. RowsClean(0)'
        BY DEF RowsClean, RowIndex
      <3> QED
        BY <3>1, <3>2, <3>3 DEF GarbageInv, GarbageOnlyFirst, RowsClean, RowIndex
    <2> QED
      BY <2>1, <2>2
  <1>5. CASE ClearRow
    <2>1. /\ resultData' = [resultData EXCEPT ![row] = Empty] /\ row' = row + 1
          /\ rpc = "clear" /\ rpc' = rpc /\ UNCHANGED << items, replies, changed >>
      BY <1>5 DEF ClearRow
    <2>2. ASSUME NEW r \in RowIndex, r < row + 1 PROVE resultData'[r] # Garbage
      <3>1. CASE r = row
        BY <2>1, <3>1 DEF Empty, Garbage
      <3>2. CASE r # row
        BY <2>1, <2>2, <3>2 DEF GarbageInv, RowsClean
      <3> QED
        BY <3>1, <3>2
    <2> QED
      BY <2>1, <2>2 DEF GarbageInv, GarbageOnlyFirst, RowsClean, RowIndex
  <1>6. CASE ResetChanged
    <2>1. RowsClean(Rows)
      BY <1>6 DEF ResetChanged, Cleared, GarbageInv, RowsClean
    <2>2. changed' = 0 /\ rpc' = "recv" /\ UNCHANGED << resultData, replies >>
      BY <1>6 DEF ResetChanged, ChangedAfter
    <2> QED
      BY <2>1, <2>2 DEF GarbageInv, GarbageOnlyFirst, RowsClean, RowIndex
  <1> QED
    BY <1>1, <1>2, <1>3, <1>4, <1>5, <1>6 DEF Responder

(***************************************************************************)
(* What the constructor did not initialise, or lies behind the array, can  *)
(* reach a client in the first response only, whatever the size of the     *)
(* array, the flag's first value, and the way the threads interleave.      *)
(***************************************************************************)
THEOREM GarbageCorrect == Spec => []GarbageOnlyFirst
PROOF
  <1>1. TypeInv /\ GarbageInv /\ [Next]_vars => GarbageInv'
    <2> SUFFICES ASSUME TypeInv, GarbageInv, [Next]_vars PROVE GarbageInv'
      OBVIOUS
    <2>1. CASE Listener
      BY <2>1, GarbageFrame DEF Listener, TakeData, TakeNoData, CopyRow, SendCommand,
                                responderVars, sharedVars
    <2>2. CASE Exit \/ UNCHANGED vars
      BY <2>2, GarbageFrame DEF Exit, vars, responderVars, sharedVars
    <2> QED
      BY <2>1, <2>2, GarbageResponder, GarbageMms DEF Next
  <1>2. GarbageInv => GarbageOnlyFirst
    BY DEF GarbageInv
  <1> QED
    BY <1>1, <1>2, GarbageInit, TypeInvariant, PTL DEF Spec

-----------------------------------------------------------------------------
(***************************************************************************)
(* Responses with rows.  One that is not settled yet is accounted for from *)
(* the moment the flag is set: Held counts a flag the responder has still  *)
(* to act on, or the rows it has collected because of it.                  *)
(***************************************************************************)
WithRows(s) == {i \in DOMAIN s : s[i].items # << >>}

Answered == Cardinality(WithRows(replies))

Held ==
  IF \/ rpc \in {"collect", "write"} /\ items # << >>
     \/ rpc # "clear" /\ changed > 1
  THEN 1 ELSE 0

Uninitialised == IF \E n \in InitChanged : n > 1 THEN 1 ELSE 0

PublishInv ==
  /\ Answered + Held <= Published + Uninitialised
  /\ rpc = "collect" => row > 0

LEMMA WithRowsFinite ==
  ASSUME NEW s \in Seq(Reply)
  PROVE  IsFiniteSet(WithRows(s)) /\ Cardinality(WithRows(s)) \in Nat
PROOF
  <1>1. IsFiniteSet(1 .. Len(s)) /\ WithRows(s) \subseteq 1 .. Len(s)
    BY FS_Interval DEF WithRows
  <1>2. IsFiniteSet(WithRows(s))
    BY <1>1, FS_Subset
  <1> QED
    BY <1>2, FS_CardinalityType

LEMMA WithRowsAppend ==
  ASSUME NEW s \in Seq(Reply), NEW r \in Reply
  PROVE  Cardinality(WithRows(Append(s, r)))
           <= Cardinality(WithRows(s)) + IF r.items # << >> THEN 1 ELSE 0
PROOF
  <1>1. CASE r.items # << >>
    <2>1. WithRows(Append(s, r)) = WithRows(s) \cup {Len(s) + 1}
      BY <1>1 DEF WithRows
    <2>2. Len(s) + 1 \notin WithRows(s)
      BY DEF WithRows
    <2>3. Cardinality(WithRows(Append(s, r))) = Cardinality(WithRows(s)) + 1
      <3>1. IsFiniteSet(WithRows(s))
        BY WithRowsFinite
      <3> QED
        BY <2>1, <2>2, <3>1, FS_AddElement
    <2>4. Cardinality(WithRows(s)) \in Nat
      BY WithRowsFinite
    <2> QED
      BY <1>1, <2>3, <2>4
  <1>2. CASE r.items = << >>
    <2>1. WithRows(Append(s, r)) = WithRows(s)
      BY <1>2 DEF WithRows
    <2> QED
      BY <1>2, <2>1, WithRowsFinite
  <1> QED
    BY <1>1, <1>2

LEMMA PublishInit == Init => PublishInv
PROOF
  <1> SUFFICES ASSUME Init PROVE PublishInv
    OBVIOUS
  <1>1. WithRows(replies) = {} /\ rpc = "match" /\ polls = 0 /\ mpc \in {"idle", "off"}
    BY DEF Init, WithRows
  <1>2. Answered = 0
    BY <1>1, FS_EmptySet DEF Answered
  <1>3. changed \in InitChanged
    BY DEF Init
  <1>4. Held <= Uninitialised
    BY <1>1, <1>3 DEF Held, Uninitialised
  <1>5. Held \in {0, 1} /\ Uninitialised \in {0, 1}
    BY DEF Held, Uninitialised
  <1> QED
    BY <1>1, <1>2, <1>4, <1>5 DEF PublishInv, Published, Polling

LEMMA HeldType == Held \in 0 .. 1 /\ Held' \in 0 .. 1 /\ Uninitialised \in 0 .. 1
  BY DEF Held, Uninitialised

(* The arithmetic of a step: the balance of what is answered and published. *)
LEMMA Balance ==
  /\ \A a, p, q, k \in Int : \A h, g \in 0 .. 1 :
       a + h <= p + k /\ ((q = p /\ g <= h) \/ q = p + 1) => a + g <= q + k
  /\ \A a, b, p, k \in Int : \A h, g, n \in 0 .. 1 :
       a + h <= p + k /\ b <= a + n /\ g + n <= h => b + g <= p + k
  BY SMT

(* A step that publishes once, or holds no more, with the same responses. *)
LEMMA PublishFrame ==
  ASSUME TypeInv, PublishInv, replies' = replies,
         (Published' = Published /\ Held' <= Held) \/ Published' = Published + 1,
         rpc' = "collect" => row' > 0
  PROVE  PublishInv'
PROOF
  <1>1. Answered \in Nat /\ Published \in Int /\ Published + 1 \in Int
    BY DataTypes, WithRowsFinite DEF Published, Polling, Answered
  <1>2. Answered' = Answered /\ Uninitialised' = Uninitialised
    BY DEF Answered, WithRows, Uninitialised
  <1>3. Answered + Held <= Published + Uninitialised
    BY DEF PublishInv
  <1>4. Answered \in Int /\ Published' \in Int /\ Uninitialised \in Int
    <2>1. Published' \in Int
      BY <1>1, Zenon
    <2> QED
      BY <1>1, <2>1, HeldType
  <1>5. Answered + Held' <= Published' + Uninitialised
    BY <1>1, <1>3, <1>4, HeldType, Balance, Zenon
  <1> QED
    BY <1>2, <1>5 DEF PublishInv

LEMMA PublishMms ==
  ASSUME TypeInv, PublishInv, Mms PROVE PublishInv'
PROOF
  <1>1. polls \in Nat
    BY DataTypes
  <1>2. CASE PollBegins
    <2>1. Published' = Published /\ Published \in Int
      BY <1>1, <1>2 DEF PollBegins, Published, Polling
    <2>2. Held' = Held /\ Held \in {0, 1} /\ replies' = replies /\ rpc' = rpc /\ row' = row
      BY <1>2 DEF PollBegins, Held, responderVars, sharedVars
    <2> QED
      BY <2>1, <2>2, PublishFrame DEF PublishInv
  <1>3. CASE StoreBegins \/ StoreEnds
    <2>1. Published' = Published /\ Published \in Int
      BY <1>1, <1>3 DEF StoreBegins, StoreEnds, Published, Polling
    <2>2. Held' = Held /\ Held \in {0, 1} /\ replies' = replies /\ rpc' = rpc /\ row' = row
      BY <1>3 DEF StoreBegins, StoreEnds, Held, responderVars
    <2> QED
      BY <2>1, <2>2, PublishFrame DEF PublishInv
  <1>4. CASE PollEnds
    <2>1. Published' = Published + 1 /\ Published \in Int
      BY <1>1, <1>4 DEF PollEnds, Published, Polling
    <2>2. replies' = replies /\ (rpc' = "collect" => row' > 0)
      BY <1>4 DEF PollEnds, responderVars, PublishInv
    <2> QED
      BY <2>1, <2>2, PublishFrame
  <1> QED
    BY <1>2, <1>3, <1>4 DEF Mms

LEMMA PublishResponder ==
  ASSUME TypeInv, PublishInv, Responder PROVE PublishInv'
PROOF
  <1> USE DataTypes
  <1>1. Published \in Int /\ Held \in {0, 1} /\ Held' \in {0, 1}
    BY DEF Published, Polling, Held
  <1>2. Published' = Published
    BY DEF Responder, ReaderMatched, Receive, CollectRow, Write, ClearRow, ResetChanged,
           ResponderThrows, Published, Polling, mmsVars
  <1>3. CASE ~(\E c \in {"OK", "ERROR", "TIMEOUT"} : Write(c) /\ ~Repeats(c))
    <2>1. replies' = replies
      BY <1>3 DEF Responder, ReaderMatched, Receive, CollectRow, Write, ClearRow, ResetChanged,
                  ResponderThrows
    <2>2. Held' <= Held /\ (rpc' = "collect" => row' > 0)
      <3>1. CASE ReaderMatched \/ ResponderThrows
        BY <3>1 DEF ReaderMatched, ResponderThrows, Held, sharedVars
      <3>2. CASE Receive
        BY <3>2 DEF Receive, Held
      <3>3. CASE CollectRow
        <4>1. CASE row < changed
          <5>1. changed > 1 /\ rpc = "collect" /\ row' = row + 1
            BY <3>3, <4>1 DEF CollectRow, PublishInv
          <5> QED
            BY <1>1, <5>1 DEF Held
        <4>2. CASE ~(row < changed)
          BY <3>3, <4>2 DEF CollectRow, Held, sharedVars
        <4> QED
          BY <4>1, <4>2
      <3>4. ASSUME NEW c \in {"OK", "ERROR", "TIMEOUT"}, Write(c), Repeats(c)
            PROVE  Held' <= Held /\ (rpc' = "collect" => row' > 0)
        BY <3>4 DEF Write, Held, sharedVars
      <3>5. CASE ClearRow
        BY <3>5 DEF ClearRow, Held
      <3>6. CASE ResetChanged
        BY <3>6 DEF ResetChanged, ChangedAfter, Held
      <3> QED
        BY <1>3, <3>1, <3>2, <3>3, <3>4, <3>5, <3>6 DEF Responder
    <2> QED
      BY <1>2, <2>1, <2>2, PublishFrame
  <1>4. ASSUME NEW c \in {"OK", "ERROR", "TIMEOUT"}, Write(c), ~Repeats(c)
        PROVE  PublishInv'
    <2>1. /\ replies' = Append(replies, [items |-> items, code |-> c, due |-> due, news |-> news, alone |-> alone])
          /\ rpc = "write" /\ rpc' = "clear"
      BY <1>4 DEF Write, Settle
    <2>2. [items |-> items, code |-> c, due |-> due, news |-> news, alone |-> alone] \in Reply
      BY <1>4 DEF Repeats, TypeInv, TypeOK, ResponderTypeOK, MmsTypeOK, Reply
    <2>3. Answered' <= Answered + IF items # << >> THEN 1 ELSE 0
      <3> DEFINE r == [items |-> items, code |-> c, due |-> due, news |-> news, alone |-> alone]
      <3>1. r \in Reply /\ r.items = items /\ replies \in Seq(Reply)
        BY <2>2
      <3> HIDE DEF r
      <3>2. Cardinality(WithRows(Append(replies, r)))
              <= Cardinality(WithRows(replies)) + IF r.items # << >> THEN 1 ELSE 0
        BY <3>1, WithRowsAppend
      <3>3. Answered' = Cardinality(WithRows(Append(replies, r)))
        BY <2>1 DEF Answered, WithRows, r
      <3> QED
        BY <3>1, <3>2, <3>3 DEF Answered
    <2>4. Answered \in Nat /\ Answered' \in Nat
      <3>1. replies' \in Seq(Reply)
        BY <2>1, <2>2
      <3>2. Answered' = Cardinality(WithRows(replies'))
        BY DEF Answered, WithRows
      <3> QED
        BY <3>1, <3>2, WithRowsFinite DEF Answered
    <2>5. Held' = 0 /\ (items # << >> => Held = 1)
      BY <2>1 DEF Held
    <2>6. Answered' + Held' <= Published + Uninitialised
      <3> DEFINE n == IF items # << >> THEN 1 ELSE 0
      <3>1. Answered + Held <= Published + Uninitialised
        BY DEF PublishInv
      <3>2. n \in 0 .. 1 /\ Answered' <= Answered + n /\ Held' + n <= Held
        BY <2>3, <2>5, HeldType
      <3>3. Answered \in Int /\ Answered' \in Int /\ Uninitialised \in Int
        BY <2>4, HeldType
      <3> HIDE DEF n
      <3> QED
        BY <1>1, <3>1, <3>2, <3>3, HeldType, Balance, Zenon
    <2>7. Uninitialised' = Uninitialised
      BY DEF Uninitialised
    <2> QED
      BY <1>2, <2>1, <2>6, <2>7 DEF PublishInv
  <1> QED
    BY <1>3, <1>4

(***************************************************************************)
(* The flag is spent by the response that reads it: there are never more   *)
(* responses with rows than publications, but for one that uninitialised   *)
(* memory may cause.                                                       *)
(***************************************************************************)
THEOREM PublicationCorrect == Spec => []OnePerPublication
PROOF
  <1>1. TypeInv /\ PublishInv /\ [Next]_vars => PublishInv'
    <2> SUFFICES ASSUME TypeInv, PublishInv, [Next]_vars PROVE PublishInv'
      OBVIOUS
    <2>1. CASE Listener \/ Exit \/ UNCHANGED vars
      <3>1. UNCHANGED << replies, rpc, row, items, changed, polls, mpc >>
        BY <2>1 DEF Listener, TakeData, TakeNoData, CopyRow, SendCommand, Exit, vars,
                    responderVars, mmsVars, sharedVars
      <3>2. Published' = Published /\ Published \in Int /\ Held' = Held /\ Held \in {0, 1}
        BY <3>1, DataTypes DEF Published, Polling, Held
      <3> QED
        BY <3>1, <3>2, PublishFrame DEF PublishInv
    <2> QED
      BY <2>1, PublishResponder, PublishMms DEF Next
  <1>2. TypeInv /\ PublishInv => OnePerPublication
    <2> SUFFICES ASSUME TypeInv, PublishInv PROVE OnePerPublication
      OBVIOUS
    <2>1. Answered \in Nat /\ Published \in Int
      BY DataTypes, WithRowsFinite DEF Published, Polling, Answered
    <2>2. Held \in {0, 1} /\ Uninitialised \in {0, 1}
      BY DEF Held, Uninitialised
    <2> QED
      BY <2>1, <2>2 DEF PublishInv, OnePerPublication, WithRows, Answered, Uninitialised
  <1> QED
    BY <1>1, <1>2, PublishInit, TypeInvariant, PTL DEF Spec
-----------------------------------------------------------------------------
(***************************************************************************)
(* Each reply of the device once.  A value v > 0 found in row u was        *)
(* written by a poll that has finished with that row (Written), so the MMS *)
(* thread does not write it there again; once a response carried it, it is *)
(* gone from the row as soon as memset passed the row.                     *)
(***************************************************************************)
Written(u, v, n, m, pc) == v <= n /\ (v = n => pc \notin {"row", "store"} \/ u < m)

Collecting == rpc \in {"collect", "write"}

DeliverInv ==
  /\ \A u \in RowIndex : resultData[u] > 0 => Written(u, resultData[u], polls, mrow, mpc)
  /\ Collecting => /\ row > 0 /\ Len(items) = row - 1
                   /\ \A u \in DOMAIN items :
                        items[u] > 0 => u \in RowIndex /\ Written(u, items[u], polls, mrow, mpc)
  /\ \A i \in DOMAIN replies : \A u \in DOMAIN replies[i].items :
       LET v == replies[i].items[u]
       IN  v > 0 => /\ u \in RowIndex /\ Written(u, v, polls, mrow, mpc)
                    /\ (rpc = "clear" => u < row) => resultData[u] # v
                    /\ (Collecting /\ u \in DOMAIN items) => items[u] # v
  /\ DeliveredOnce

LEMMA DeliverInit == Init => DeliverInv
  BY DEF Init, DeliverInv, DeliveredOnce, Collecting, Garbage

(* A step of neither the responder's data nor the device's. *)
LEMMA DeliverFrame ==
  ASSUME DeliverInv, UNCHANGED << resultData, items, row, replies, polls, mpc, mrow >>,
         rpc' = rpc \/ (rpc # "clear" /\ rpc' \in {"match", "recv", "done"})
  PROVE  DeliverInv'
  BY DEF DeliverInv, DeliveredOnce, Collecting, Written, RowIndex

(* What a poll does to one row, or to none. *)
LEMMA DeliverMms ==
  ASSUME TypeInv, DeliverInv, Mms PROVE DeliverInv'
PROOF
  <1> USE DataTypes
  <1>1. UNCHANGED << items, row, replies, rpc >>
    BY DEF Mms, PollBegins, StoreBegins, StoreEnds, PollEnds, responderVars
  <1>2. \A u, v \in Int :
          v > 0 /\ Written(u, v, polls, mrow, mpc) => Written(u, v, polls', mrow', mpc')
    <2>1. CASE PollBegins
      BY <2>1 DEF PollBegins, Written
    <2>2. CASE StoreBegins
      BY <2>2 DEF StoreBegins, Written
    <2>3. CASE StoreEnds
      BY <2>3 DEF StoreEnds, Written
    <2>4. CASE PollEnds
      BY <2>4 DEF PollEnds, Written
    <2> QED
      BY <2>1, <2>2, <2>3, <2>4 DEF Mms
  <1>3. \A u \in RowIndex :
          \/ resultData'[u] = resultData[u]
          \/ ~(resultData'[u] > 0)
          \/ /\ resultData'[u] = polls
             /\ Written(u, polls, polls', mrow', mpc') /\ ~Written(u, polls, polls, mrow, mpc)
    <2>1. CASE PollBegins \/ PollEnds
      BY <2>1 DEF PollBegins, PollEnds, sharedVars
    <2>2. CASE StoreBegins
      <3>1. resultData' = [resultData EXCEPT ![mrow] = Torn]
        BY <2>2 DEF StoreBegins
      <3> QED
        BY <3>1 DEF Torn
    <2>3. CASE StoreEnds
      <3>1. PICK v \in {polls, Empty, Torn} : resultData' = [resultData EXCEPT ![mrow] = v]
        BY <2>3 DEF StoreEnds
      <3> QED
        BY <2>3, <3>1 DEF StoreEnds, Written, Empty, Torn
    <2> QED
      BY <2>1, <2>2, <2>3 DEF Mms
  <1>4. \A u \in RowIndex :
          /\ u \in Int /\ resultData[u] \in Int
          /\ resultData'[u] > 0 => Written(u, resultData'[u], polls', mrow', mpc')
    <2> SUFFICES ASSUME NEW u \in RowIndex
                 PROVE  u \in Int /\ resultData[u] \in Int
                        /\ (resultData'[u] > 0 => Written(u, resultData'[u], polls', mrow', mpc'))
      OBVIOUS
    <2>1. u \in Int /\ resultData[u] \in Int
      BY DEF Cell, Torn, Garbage
    <2>2. CASE resultData'[u] = resultData[u]
      <3>1. resultData[u] > 0 => Written(u, resultData[u], polls', mrow', mpc')
        BY <1>2, <2>1 DEF DeliverInv
      <3> QED
        BY <2>1, <2>2, <3>1 DEF Written
    <2>3. CASE resultData'[u] = polls /\ Written(u, polls, polls', mrow', mpc')
      BY <2>1, <2>3 DEF Written
    <2> QED
      BY <1>3, <2>1, <2>2, <2>3
  <1>5. Collecting' => /\ row' > 0 /\ Len(items') = row' - 1
                       /\ \A u \in DOMAIN items' : items'[u] > 0 =>
                            u \in RowIndex /\ Written(u, items'[u], polls', mrow', mpc')
    <2> SUFFICES ASSUME Collecting
                 PROVE  /\ row > 0 /\ Len(items) = row - 1
                        /\ \A u \in DOMAIN items : items[u] > 0 =>
                             u \in RowIndex /\ Written(u, items[u], polls', mrow', mpc')
      BY <1>1 DEF Collecting, Written
    <2>1. \A u \in DOMAIN items : u \in Int /\ items[u] \in Int
      BY SMTT(30) DEF Cell, Torn, Garbage
    <2> QED
      BY <1>2, <2>1 DEF DeliverInv
  <1>6. ASSUME NEW i \in DOMAIN replies, NEW u \in DOMAIN replies[i].items,
               replies[i].items[u] > 0
        PROVE  LET v == replies[i].items[u]
               IN  /\ u \in RowIndex /\ Written(u, v, polls', mrow', mpc')
                   /\ (rpc = "clear" => u < row) => resultData'[u] # v
                   /\ (Collecting /\ u \in DOMAIN items) => items[u] # v
    <2>1. replies[i].items[u] \in Int /\ u \in Int
      <3>1. replies[i] \in Reply
        OBVIOUS
      <3>2. replies[i].items \in Seq(Cell)
        BY <3>1 DEF Reply
      <3>3. replies[i].items[u] \in Cell /\ u \in Int
        BY <1>6, <3>2
      <3> QED
        BY <3>3 DEF Cell, Torn, Garbage
    <2>2. PICK v \in Int : v = replies[i].items[u]
      BY <2>1
    <2>3. /\ u \in RowIndex /\ Written(u, v, polls, mrow, mpc) /\ v > 0
          /\ (rpc = "clear" => u < row) => resultData[u] # v
          /\ (Collecting /\ u \in DOMAIN items) => items[u] # v
      BY <1>6, <2>2 DEF DeliverInv
    <2>4. Written(u, v, polls', mrow', mpc')
      BY <1>2, <2>1, <2>3
    <2>5. resultData[u] # v => resultData'[u] # v
      BY <1>3, <2>3 DEF Written
    <2> QED
      BY <2>2, <2>3, <2>4, <2>5 DEF Written
  <1> QED
    BY <1>1, <1>4, <1>5, <1>6 DEF DeliverInv, DeliveredOnce, Collecting, Written

(* What the responder does. *)
LEMMA DeliverResponder ==
  ASSUME TypeInv, DeliverInv, Responder PROVE DeliverInv'
PROOF
  <1> USE DataTypes
  <1>0. UNCHANGED << polls, mrow, mpc >>
    BY DEF Responder, ReaderMatched, Receive, CollectRow, Write, ClearRow, ResetChanged,
           ResponderThrows, mmsVars
  <1>1. CASE ReaderMatched \/ ResponderThrows
    BY <1>0, <1>1, DeliverFrame DEF ReaderMatched, ResponderThrows, sharedVars
  <1>2. CASE Receive
    <2>1. /\ rpc = "recv" /\ rpc' = "collect" /\ row' = 1 /\ items' = << >>
          /\ UNCHANGED << replies, resultData >>
      BY <1>2 DEF Receive
    <2> QED
      BY <1>0, <2>1, EmptySeq DEF DeliverInv, DeliveredOnce, Collecting
  <1>3. CASE CollectRow /\ row < changed
    <2>1. /\ rpc = "collect" /\ rpc' = "collect" /\ row' = row + 1
          /\ items' = Append(items, ResultRow(row)) /\ UNCHANGED << replies, resultData >>
      BY <1>3 DEF CollectRow, sharedVars
    <2>2. /\ row > 0 /\ Len(items) = row - 1
          /\ \A u \in DOMAIN items :
               items[u] > 0 => u \in RowIndex /\ Written(u, items[u], polls, mrow, mpc)
      BY <2>1 DEF DeliverInv, Collecting
    <2>3. /\ Len(items') = row /\ items'[row] = ResultRow(row)
          /\ \A u \in DOMAIN items' : u = row \/ (u \in DOMAIN items /\ items'[u] = items[u])
      BY SMTT(30), <2>1, <2>2
    <2>4. ResultRow(row) > 0 => row \in RowIndex /\ ResultRow(row) = resultData[row]
      BY DEF ResultRow, Garbage
    <2>5. ResultRow(row) > 0 => Written(row, ResultRow(row), polls, mrow, mpc)
      BY <2>4 DEF DeliverInv
    <2>6. \A u \in DOMAIN items' :
            items'[u] > 0 => u \in RowIndex /\ Written(u, items'[u], polls, mrow, mpc)
      BY <2>2, <2>3, <2>4, <2>5
    <2>7. ASSUME NEW i \in DOMAIN replies, NEW u \in DOMAIN replies[i].items,
                 replies[i].items[u] > 0
          PROVE  /\ u \in RowIndex /\ Written(u, replies[i].items[u], polls, mrow, mpc)
                 /\ resultData[u] # replies[i].items[u]
                 /\ u \in DOMAIN items' => items'[u] # replies[i].items[u]
      <3>1. /\ u \in RowIndex /\ Written(u, replies[i].items[u], polls, mrow, mpc)
            /\ resultData[u] # replies[i].items[u]
            /\ u \in DOMAIN items => items[u] # replies[i].items[u]
        BY <2>1, <2>7 DEF DeliverInv, Collecting
      <3> QED
        BY <2>3, <2>4, <2>7, <3>1
    <2>8. DeliveredOnce'
      BY <2>1 DEF DeliverInv, DeliveredOnce
    <2>9. \A u \in RowIndex : resultData[u] > 0 => Written(u, resultData[u], polls, mrow, mpc)
      BY DEF DeliverInv
    <2> QED
      BY SMTT(30), <1>0, <2>1, <2>2, <2>3, <2>6, <2>7, <2>8, <2>9 DEF DeliverInv, Collecting
  <1>4. CASE CollectRow /\ ~(row < changed)
    <2>1. rpc = "collect" /\ rpc' = "write" /\ UNCHANGED << row, items, replies, resultData >>
      BY <1>4 DEF CollectRow, sharedVars
    <2> QED
      BY <1>0, <2>1 DEF DeliverInv, DeliveredOnce, Collecting
  <1>5. ASSUME NEW c \in {"OK", "ERROR", "TIMEOUT"}, Write(c), Repeats(c) PROVE DeliverInv'
    BY <1>0, <1>5, DeliverFrame DEF Write, sharedVars
  <1>6. ASSUME NEW c \in {"OK", "ERROR", "TIMEOUT"}, Write(c), ~Repeats(c) PROVE DeliverInv'
    <2>1. /\ replies' = Append(replies, [items |-> items, code |-> c, due |-> due, news |-> news, alone |-> alone])
          /\ rpc = "write" /\ rpc' = "clear" /\ row' = 0 /\ UNCHANGED << items, resultData >>
      BY <1>6 DEF Write, Settle, sharedVars
    <2>2. \A u \in DOMAIN items :
            items[u] > 0 => u \in RowIndex /\ Written(u, items[u], polls, mrow, mpc)
      BY <2>1 DEF DeliverInv, Collecting
    <2>3. ASSUME NEW i \in DOMAIN replies'
          PROVE  \/ i \in DOMAIN replies /\ replies'[i] = replies[i]
                 \/ i = Len(replies) + 1 /\ replies'[i].items = items
      BY <2>1
    <2>4. ASSUME NEW i \in DOMAIN replies', NEW u \in DOMAIN replies'[i].items,
                 replies'[i].items[u] > 0
          PROVE  u \in RowIndex /\ Written(u, replies'[i].items[u], polls, mrow, mpc)
      <3>1. CASE i \in DOMAIN replies /\ replies'[i] = replies[i]
        BY <2>4, <3>1 DEF DeliverInv
      <3>2. CASE replies'[i].items = items
        BY <2>2, <2>4, <3>2
      <3> QED
        BY <2>3, <3>1, <3>2
    <2>5. DeliveredOnce'
      <3> SUFFICES ASSUME NEW i \in DOMAIN replies', NEW j \in DOMAIN replies', i < j,
                          NEW u \in DOMAIN replies'[i].items \cap DOMAIN replies'[j].items,
                          replies'[i].items[u] > 0
                   PROVE  replies'[i].items[u] # replies'[j].items[u]
        BY DEF DeliveredOnce
      <3>1. i \in DOMAIN replies /\ replies'[i] = replies[i]
        BY <2>1
      <3>2. CASE j \in DOMAIN replies /\ replies'[j] = replies[j]
        BY <3>1, <3>2 DEF DeliverInv, DeliveredOnce
      <3>3. CASE replies'[j].items = items
        BY <2>1, <3>1, <3>3 DEF DeliverInv, Collecting
      <3> QED
        BY <2>3, <3>2, <3>3
    <2>6. \A u \in RowIndex : resultData[u] > 0 => Written(u, resultData[u], polls, mrow, mpc)
      BY DEF DeliverInv
    <2>7. \A u \in RowIndex : ~(u < 0)
      BY DEF RowIndex
    <2> QED
      BY <1>0, <2>1, <2>4, <2>5, <2>6, <2>7 DEF DeliverInv, Collecting
  <1>7. CASE ClearRow
    <2>1. /\ resultData' = [resultData EXCEPT ![row] = Empty] /\ row' = row + 1
          /\ rpc = "clear" /\ rpc' = "clear" /\ UNCHANGED << items, replies >>
      BY <1>7 DEF ClearRow
    <2>2. \A u \in RowIndex : resultData'[u] = IF u = row THEN 0 ELSE resultData[u]
      BY <2>1 DEF Empty
    <2>3. \A u \in RowIndex : resultData'[u] > 0 => Written(u, resultData'[u], polls, mrow, mpc)
      BY SMTT(30), <2>2 DEF DeliverInv
    <2>4. ASSUME NEW i \in DOMAIN replies, NEW u \in DOMAIN replies[i].items,
                 replies[i].items[u] > 0
          PROVE  /\ u \in RowIndex /\ Written(u, replies[i].items[u], polls, mrow, mpc)
                 /\ u < row + 1 => resultData'[u] # replies[i].items[u]
      <3>1. /\ u \in RowIndex /\ Written(u, replies[i].items[u], polls, mrow, mpc)
            /\ u < row => resultData[u] # replies[i].items[u]
        BY <2>1, <2>4 DEF DeliverInv
      <3> QED
        BY <2>2, <2>4, <3>1 DEF RowIndex
    <2>5. DeliveredOnce'
      BY <2>1 DEF DeliverInv, DeliveredOnce
    <2> QED
      BY <1>0, <2>1, <2>3, <2>4, <2>5 DEF DeliverInv, Collecting
  <1>8. CASE ResetChanged
    <2>1. /\ rpc = "clear" /\ rpc' = "recv" /\ UNCHANGED << resultData, replies >>
          /\ row \notin RowIndex
      BY <1>8 DEF ResetChanged, Cleared
    <2>2. \A u \in RowIndex : u < row
      BY <2>1 DEF RowIndex
    <2> QED
      BY <1>0, <2>1, <2>2 DEF DeliverInv, DeliveredOnce, Collecting
  <1> QED
    BY <1>1, <1>2, <1>3, <1>4, <1>5, <1>6, <1>7, <1>8 DEF Responder

(***************************************************************************)
(* The reply of one poll to one row reaches the client at most once, for   *)
(* every number of rows and every interleaving of the three threads.       *)
(***************************************************************************)
THEOREM DeliveryCorrect == Spec => []DeliveredOnce
PROOF
  <1>1. TypeInv /\ DeliverInv /\ [Next]_vars => DeliverInv'
    <2> SUFFICES ASSUME TypeInv, DeliverInv, [Next]_vars PROVE DeliverInv'
      OBVIOUS
    <2>1. CASE Listener \/ Exit \/ UNCHANGED vars
      <3>1. UNCHANGED << resultData, items, row, replies, polls, mpc, mrow, rpc >>
        BY <2>1 DEF Listener, TakeData, TakeNoData, CopyRow, SendCommand, Exit, vars,
                    responderVars, mmsVars, sharedVars
      <3> QED
        BY <3>1, DeliverFrame
    <2> QED
      BY <2>1, DeliverResponder, DeliverMms DEF Next
  <1>2. DeliverInv => DeliveredOnce
    BY DEF DeliverInv
  <1> QED
    BY <1>1, <1>2, DeliverInit, TypeInvariant, PTL DEF Spec

-----------------------------------------------------------------------------
(***************************************************************************)
(* A poll in idle time is delivered.  While `due` stands and memset does   *)
(* not run, the rows the flag announces were written by poll `due` or a    *)
(* later one (AtLeast), and so were the rows already collected; the poll   *)
(* in progress, if it is clean or follows such a poll, has left its number *)
(* in every row it is done with.                                           *)
(***************************************************************************)
AtLeast(v, n) == v = Torn \/ v >= n

Waiting == due > 0 /\ rpc # "clear"

PollInv ==
  /\ Polling => polls > 0
  /\ polls > 0 => requestData[1] # NoRow
  /\ Polling /\ clean => rpc \in {"match", "recv", "done"}
  /\ Polling /\ (clean \/ Waiting) => /\ \A u \in 1 .. mrow - 1 : resultData[u] = polls
                                      /\ mpc = "store" => resultData[mrow] = Torn

DueInv ==
  /\ due <= polls
  /\ Waiting => changed \in 2 .. Rows /\ \A u \in 1 .. changed - 1 : AtLeast(resultData[u], due)
  /\ Collecting => row > 0 /\ Len(items) = row - 1
  /\ due > 0 /\ Collecting => \A u \in DOMAIN items : AtLeast(items[u], due)
  /\ due > 0 /\ rpc = "write" => items # << >>
  /\ QuietPollDelivered

QuietInv == PollInv /\ DueInv

LEMMA MoreTypes ==
  ASSUME TypeInv
  PROVE  /\ due \in Nat /\ requestData \in [RowIndex -> Nat]
         /\ mpc = "store" => mrow < Rows
         /\ lpc = "copy" => sample.stamp \in Nat \ {0}
PROOF
  <1>1. lpc = "copy" => sample.stamp \in 1 .. MaxSamples
    BY DEF TypeInv, ControlOK, Sample
  <1> QED
    BY <1>1, ServerAssumption DEF TypeInv, TypeOK, ArraysTypeOK, MmsTypeOK, ControlOK

LEMMA QuietInit == Init => QuietInv
PROOF
  <1> SUFFICES ASSUME Init PROVE QuietInv
    OBVIOUS
  <1>1. /\ mpc \in {"idle", "off"} /\ polls = 0 /\ due = 0 /\ rpc = "match" /\ replies = << >>
    BY DEF Init
  <1> QED
    BY <1>1 DEF QuietInv, PollInv, DueInv, QuietPollDelivered, Polling, Waiting, Collecting

LEMMA QuietListener ==
  ASSUME Rows > 1, TypeInv, QuietInv, Listener \/ Exit \/ UNCHANGED vars PROVE QuietInv'
PROOF
  <1> USE DataTypes, MoreTypes
  <1>1. UNCHANGED << resultData, changed, items, row, replies, rpc, polls, mpc, mrow, due, clean >>
    BY DEF Listener, TakeData, TakeNoData, CopyRow, SendCommand, Exit, vars,
           responderVars, mmsVars, sharedVars
  <1>2. requestData[1] # NoRow => requestData'[1] # NoRow
    <2>1. CASE CopyRow
      BY <2>1 DEF CopyRow, NoRow
    <2>2. CASE ~CopyRow
      BY <2>2 DEF Listener, TakeData, TakeNoData, SendCommand, Exit, vars, sharedVars
    <2> QED
      BY <2>1, <2>2
  <1>3. PollInv'
    BY <1>1, <1>2 DEF QuietInv, PollInv, Polling, Waiting
  <1>4. DueInv'
    BY <1>1 DEF QuietInv, DueInv, QuietPollDelivered, Waiting, Collecting
  <1> QED
    BY <1>3, <1>4 DEF QuietInv

LEMMA QuietMms ==
  ASSUME Rows > 1, TypeInv, QuietInv, Mms PROVE QuietInv'
PROOF
  <1> USE DataTypes, MoreTypes
  <1>0. UNCHANGED << items, row, replies, rpc, requestData >>
    BY DEF Mms, PollBegins, StoreBegins, StoreEnds, PollEnds, responderVars, sharedVars
  <1>1. CASE PollBegins
    <2>1. /\ polls' = polls + 1 /\ mpc' = "row" /\ mrow' = 1
          /\ UNCHANGED << due, resultData, changed >> /\ requestData[1] # NoRow
      BY <1>1 DEF PollBegins, sharedVars, RowIndex
    <2>2. PollInv'
      <3>1. clean' = (rpc \in {"match", "recv"})
        BY <1>1 DEF PollBegins
      <3>2. clean' => rpc \in {"match", "recv", "done"}
        BY <3>1, Zenon
      <3> QED
        BY <1>0, <2>1, <3>2 DEF PollInv, Polling
    <2>3. DueInv'
      BY <1>0, <2>1 DEF QuietInv, DueInv, QuietPollDelivered, Waiting, Collecting
    <2> QED
      BY <2>2, <2>3 DEF QuietInv
  <1>2. CASE StoreBegins
    <2>1. /\ mpc = "row" /\ mpc' = "store" /\ resultData' = [resultData EXCEPT ![mrow] = Torn]
          /\ mrow \in RowIndex /\ UNCHANGED << polls, mrow, clean, due, changed >>
      BY <1>2 DEF StoreBegins
    <2>2. PollInv'
      BY <1>0, <2>1 DEF QuietInv, PollInv, Polling, Waiting
    <2>3. DueInv'
      <3>1. \A u \in RowIndex : AtLeast(resultData[u], due) => AtLeast(resultData'[u], due)
        BY <2>1 DEF AtLeast
      <3>2. Waiting => /\ changed \in 2 .. Rows
                       /\ \A u \in 1 .. changed - 1 : AtLeast(resultData'[u], due)
        BY <3>1 DEF QuietInv, DueInv
      <3> QED
        BY <1>0, <2>1, <3>2 DEF QuietInv, DueInv, QuietPollDelivered, Waiting, Collecting
    <2> QED
      BY <2>2, <2>3 DEF QuietInv
  <1>3. CASE StoreEnds
    <2>1. /\ mpc = "store" /\ mpc' = "row" /\ mrow' = mrow + 1 /\ mrow \in RowIndex
          /\ UNCHANGED << polls, clean, due, changed >>
      BY <1>3 DEF StoreEnds
    <2>2. PICK v \in {polls, Empty, Torn} :
            /\ resultData' = [resultData EXCEPT ![mrow] = v]
            /\ resultData[mrow] = Torn => v = polls
      BY <1>3 DEF StoreEnds
    <2>3. PollInv'
      BY SMTT(30), <1>0, <2>1, <2>2 DEF QuietInv, PollInv, Polling, Waiting
    <2>4. DueInv'
      <3>1. Waiting => v = polls
        BY <2>1, <2>2 DEF QuietInv, PollInv, Polling
      <3>2. Waiting => /\ changed \in 2 .. Rows
                       /\ \A u \in 1 .. changed - 1 : AtLeast(resultData'[u], due)
        BY <2>2, <3>1 DEF QuietInv, DueInv, AtLeast
      <3> QED
        BY <1>0, <2>1, <3>2 DEF QuietInv, DueInv, QuietPollDelivered, Waiting, Collecting
    <2> QED
      BY <2>3, <2>4 DEF QuietInv
  <1>4. CASE PollEnds
    <2>1. /\ mpc = "row" /\ mpc' = "idle" /\ changed' = mrow /\ due' = IF clean THEN polls ELSE due
          /\ mrow < Rows => requestData[mrow] = NoRow
          /\ UNCHANGED << resultData, polls, mrow, clean >>
      BY <1>4 DEF PollEnds
    <2>2. mrow > 1 /\ polls > 0
      BY <2>1 DEF QuietInv, PollInv, Polling
    <2>3. PollInv'
      BY <1>0, <2>1 DEF QuietInv, PollInv, Polling
    <2>4. due' > 0 /\ rpc # "clear" => \A u \in 1 .. mrow - 1 : resultData[u] = polls
      BY <2>1 DEF QuietInv, PollInv, Polling, Waiting
    <2>5. clean => rpc \in {"match", "recv", "done"}
      BY <2>1 DEF QuietInv, PollInv, Polling
    <2>6. due' <= polls /\ due' \in Nat
      BY <2>1 DEF QuietInv, DueInv
    <2>7. due' > 0 /\ rpc # "clear" => \A u \in 1 .. mrow - 1 : AtLeast(resultData[u], due')
      BY <2>4, <2>6 DEF AtLeast
    <2>8. DueInv'
      <3>1. Waiting' => /\ changed' \in 2 .. Rows
                        /\ \A u \in 1 .. changed' - 1 : AtLeast(resultData'[u], due')
        BY <1>0, <2>1, <2>2, <2>7 DEF Waiting
      <3>2. due' = due \/ rpc \in {"match", "recv", "done"}
        BY <2>1, <2>5
      <3>3. /\ due' > 0 /\ Collecting => \A u \in DOMAIN items : AtLeast(items[u], due')
            /\ due' > 0 /\ rpc = "write" => items # << >>
        BY <3>2 DEF QuietInv, DueInv, Collecting
      <3>4. Collecting => row > 0 /\ Len(items) = row - 1
        BY DEF QuietInv, DueInv
      <3>5. QuietPollDelivered'
        BY <1>0 DEF QuietInv, DueInv, QuietPollDelivered
      <3> QED
        BY <1>0, <2>1, <2>6, <3>1, <3>3, <3>4, <3>5 DEF DueInv, Collecting
    <2> QED
      BY <2>3, <2>8 DEF QuietInv
  <1> QED
    BY <1>1, <1>2, <1>3, <1>4 DEF Mms

LEMMA QuietResponder ==
  ASSUME Rows > 1, TypeInv, QuietInv, Responder PROVE QuietInv'
PROOF
  <1> USE DataTypes, MoreTypes
  <1>0. UNCHANGED << polls, mrow, mpc, requestData >>
    BY DEF Responder, ReaderMatched, Receive, CollectRow, Write, ClearRow, ResetChanged,
           ResponderThrows, mmsVars, sharedVars
  <1>1. CASE ReaderMatched \/ ResponderThrows
    <2>1. /\ rpc \in {"match", "write"} /\ rpc' \in {"recv", "done"}
          /\ rpc = "write" => rpc' = "done"
          /\ UNCHANGED << row, items, replies, clean, due, resultData, changed >>
      BY <1>1 DEF ReaderMatched, ResponderThrows, mmsVars, sharedVars
    <2>2. PollInv'
      BY <1>0, <2>1 DEF QuietInv, PollInv, Polling, Waiting
    <2>3. DueInv'
      BY <1>0, <2>1 DEF QuietInv, DueInv, QuietPollDelivered, Waiting, Collecting
    <2> QED
      BY <2>2, <2>3 DEF QuietInv
  <1>2. CASE Receive
    <2>1. /\ rpc = "recv" /\ rpc' = "collect" /\ row' = 1 /\ items' = << >> /\ clean' = FALSE
          /\ UNCHANGED << replies, due, resultData, changed >>
      BY <1>2 DEF Receive
    <2>2. PollInv'
      BY <1>0, <2>1 DEF QuietInv, PollInv, Polling, Waiting
    <2>3. DueInv'
      BY <1>0, <2>1, EmptySeq DEF QuietInv, DueInv, QuietPollDelivered, Waiting, Collecting
    <2> QED
      BY <2>2, <2>3 DEF QuietInv
  <1>3. CASE CollectRow
    <2>1. rpc = "collect" /\ UNCHANGED << replies, clean, due, resultData, changed >>
      BY <1>3 DEF CollectRow, mmsVars, sharedVars
    <2>2. row > 0 /\ Len(items) = row - 1
      BY <2>1 DEF QuietInv, DueInv, Collecting
    <2>3. CASE row < changed
      <3>1. rpc' = "collect" /\ row' = row + 1 /\ items' = Append(items, ResultRow(row))
        BY <1>3, <2>1, <2>3 DEF CollectRow
      <3>2. PollInv'
        BY <1>0, <2>1, <3>1 DEF QuietInv, PollInv, Polling, Waiting
      <3>3. /\ Len(items') = row /\ items'[row] = ResultRow(row)
            /\ \A u \in DOMAIN items' : u = row \/ (u \in DOMAIN items /\ items'[u] = items[u])
        BY <2>2, <3>1
      <3>4. due > 0 => AtLeast(ResultRow(row), due)
        BY <2>1, <2>2, <2>3 DEF QuietInv, DueInv, Waiting, ResultRow, RowIndex
      <3>5. due > 0 => \A u \in DOMAIN items' : AtLeast(items'[u], due)
        BY <2>1, <3>3, <3>4 DEF QuietInv, DueInv, Collecting
      <3>6. QuietPollDelivered'
        BY <2>1 DEF QuietInv, DueInv, QuietPollDelivered
      <3>7. DueInv'
        BY SMTT(30), <1>0, <2>1, <2>2, <3>1, <3>3, <3>5, <3>6 DEF QuietInv, DueInv, Waiting, Collecting
      <3> QED
        BY <3>2, <3>7 DEF QuietInv
    <2>4. CASE ~(row < changed)
      <3>1. rpc' = "write" /\ UNCHANGED << row, items >>
        BY <1>3, <2>1, <2>4 DEF CollectRow
      <3>2. PollInv'
        BY <1>0, <2>1, <3>1 DEF QuietInv, PollInv, Polling, Waiting
      <3>3. due > 0 => items # << >>
        <4>1. due > 0 => changed > 1
          BY <2>1 DEF QuietInv, DueInv, Waiting
        <4>2. due > 0 => Len(items) > 0
          BY <2>2, <2>4, <4>1
        <4> QED
          BY <4>2, EmptySeq
      <3>4. DueInv'
        BY <1>0, <2>1, <2>2, <3>1, <3>3
           DEF QuietInv, DueInv, QuietPollDelivered, Waiting, Collecting
      <3> QED
        BY <3>2, <3>4 DEF QuietInv
    <2> QED
      BY <2>3, <2>4
  <1>4. ASSUME NEW c \in {"OK", "ERROR", "TIMEOUT"}, Write(c) PROVE QuietInv'
    <2>1. rpc = "write" /\ UNCHANGED << items, clean, due, resultData, changed >>
      BY <1>4 DEF Write, mmsVars, sharedVars
    <2>2. CASE Repeats(c)
      <3>1. UNCHANGED << replies, rpc, row >>
        BY <1>4, <2>2 DEF Write
      <3>2. PollInv'
        BY <1>0, <2>1, <3>1 DEF QuietInv, PollInv, Polling, Waiting
      <3>3. DueInv'
        BY <1>0, <2>1, <3>1 DEF QuietInv, DueInv, QuietPollDelivered, Waiting, Collecting
      <3> QED
        BY <3>2, <3>3 DEF QuietInv
    <2>3. CASE ~Repeats(c)
      <3> DEFINE r == [items |-> items, code |-> c, due |-> due, news |-> news, alone |-> alone]
      <3>1. replies' = Append(replies, r) /\ rpc' = "clear"
        BY <1>4, <2>3 DEF Write, Settle
      <3>2. PollInv'
        BY <1>0, <2>1, <3>1 DEF QuietInv, PollInv, Polling, Waiting
      <3>3. r.items = items /\ r.due = due
        OBVIOUS
      <3> HIDE DEF r
      <3>4. r.due > 0 => r.items # << >> /\ \A u \in DOMAIN r.items : AtLeast(r.items[u], r.due)
        BY <2>1, <3>3 DEF QuietInv, DueInv, Collecting
      <3>5. \A i \in DOMAIN replies' :
              (i \in DOMAIN replies /\ replies'[i] = replies[i]) \/ replies'[i] = r
        BY <3>1
      <3>6. QuietPollDelivered'
        BY <3>4, <3>5 DEF QuietInv, DueInv, QuietPollDelivered, AtLeast
      <3>7. DueInv'
        BY <1>0, <2>1, <3>1, <3>6 DEF QuietInv, DueInv, Waiting, Collecting
      <3> QED
        BY <3>2, <3>7 DEF QuietInv
    <2> QED
      BY <2>2, <2>3
  <1>5. CASE ClearRow
    <2>1. rpc = "clear" /\ rpc' = "clear" /\ UNCHANGED << items, replies, clean, due, changed >>
      BY <1>5 DEF ClearRow, mmsVars
    <2>2. PollInv'
      BY <1>0, <2>1 DEF QuietInv, PollInv, Polling, Waiting
    <2>3. DueInv'
      BY <1>0, <2>1 DEF QuietInv, DueInv, QuietPollDelivered, Waiting, Collecting
    <2> QED
      BY <2>2, <2>3 DEF QuietInv
  <1>6. CASE ResetChanged
    <2>1. rpc = "clear" /\ rpc' = "recv" /\ due' = 0 /\ UNCHANGED << replies, clean, resultData >>
      BY <1>6 DEF ResetChanged
    <2>2. PollInv'
      BY <1>0, <2>1 DEF QuietInv, PollInv, Polling, Waiting
    <2>3. DueInv'
      BY <1>0, <2>1 DEF QuietInv, DueInv, QuietPollDelivered, Waiting, Collecting
    <2> QED
      BY <2>2, <2>3 DEF QuietInv
  <1> QED
    BY <1>1, <1>2, <1>3, <1>4, <1>5, <1>6 DEF Responder

LEMMA QuietNext == Rows > 1 /\ TypeInv /\ QuietInv /\ [Next]_vars => QuietInv'
PROOF
  <1> SUFFICES ASSUME Rows > 1, TypeInv, QuietInv, [Next]_vars PROVE QuietInv'
    OBVIOUS
  <1> QED
    BY QuietListener, QuietResponder, QuietMms DEF Next

(***************************************************************************)
(* A poll that begins and ends while the responder waits for a command     *)
(* reaches the client, for every array of more than one row (an array of   *)
(* one has no row for an item).                                            *)
(***************************************************************************)
THEOREM QuietCorrect == Rows > 1 => (Spec => []QuietPollDelivered)
PROOF
  <1> SUFFICES ASSUME Rows > 1 PROVE Spec => []QuietPollDelivered
    OBVIOUS
  <1>1. TypeInv /\ QuietInv /\ [Next]_vars => QuietInv'
    BY QuietNext
  <1>2. QuietInv => QuietPollDelivered
    BY DEF QuietInv, DueInv
  <1> QED
    BY <1>1, <1>2, QuietInit, TypeInvariant, PTL DEF Spec

-----------------------------------------------------------------------------
(***************************************************************************)
(* Where a poll is lost or spoilt.  As long as the responder has still to  *)
(* look at the flag, it stands for `news`; while no poll overlaps the      *)
(* response, the rows it announces and those already collected are all of  *)
(* that poll, and a poll under way is one that began in idle time.         *)
(***************************************************************************)
Looking == rpc \in {"match", "recv", "collect"}

NewsInv ==
  /\ Looking => (changed > 1 <=> news # 0)
  /\ Collecting /\ items # << >> => news # 0
  /\ rpc = "write" => (items # << >> <=> news # 0)
  /\ Polling /\ alone /\ rpc \in {"match", "recv"} => clean
  /\ alone /\ Collecting => ~Polling
  /\ alone /\ Looking /\ ~Polling => \A u \in 1 .. changed - 1 : ResultRow(u) = news
  /\ alone /\ Collecting => \A u \in DOMAIN items : items[u] = news
  /\ AsPublished

LEMMA NewsInit == Init => NewsInv
PROOF
  <1> SUFFICES ASSUME Init PROVE NewsInv
    OBVIOUS
  <1>1. changed \in Nat
    BY ServerAssumption DEF Init
  <1>2. /\ rpc = "match" /\ mpc \in {"idle", "off"} /\ replies = << >> /\ items = << >>
        /\ news = IF changed > 1 THEN Garbage ELSE 0
    BY DEF Init
  <1>3. \A u : ResultRow(u) = Garbage
    BY DEF Init, ResultRow
  <1>4. \A u \in 1 .. changed - 1 : ResultRow(u) = news
    BY <1>1, <1>2, <1>3
  <1> QED
    BY <1>1, <1>2, <1>4 DEF NewsInv, AsPublished, Looking, Collecting, Polling, Garbage

LEMMA NewsListener ==
  ASSUME NewsInv, Listener \/ Exit \/ UNCHANGED vars PROVE NewsInv'
PROOF
  <1>1. UNCHANGED << resultData, changed, items, replies, rpc, mpc, news, alone, clean >>
    BY DEF Listener, TakeData, TakeNoData, CopyRow, SendCommand, Exit, vars,
           responderVars, mmsVars, sharedVars
  <1> QED
    BY <1>1 DEF NewsInv, AsPublished, Looking, Collecting, Polling, ResultRow

LEMMA NewsMms ==
  ASSUME Rows > 1, TypeInv, QuietInv, NewsInv, Mms PROVE NewsInv'
PROOF
  <1> USE DataTypes, MoreTypes
  <1>0. UNCHANGED << items, replies, rpc >>
    BY DEF Mms, PollBegins, StoreBegins, StoreEnds, PollEnds, responderVars, sharedVars
  <1>1. CASE PollBegins
    <2>1. /\ Polling' /\ UNCHANGED << changed, news >>
          /\ clean' = (rpc \in {"match", "recv"})
          /\ alone' = (alone /\ rpc \notin {"collect", "write"})
      BY <1>1 DEF PollBegins, Polling, sharedVars
    <2>2. alone' => alone /\ ~Collecting
      BY <2>1 DEF Collecting
    <2>3. rpc \in {"match", "recv"} => clean'
      BY <2>1
    <2> QED
      BY <1>0, <2>1, <2>2, <2>3 DEF NewsInv, AsPublished, Looking, Collecting
  <1>2. CASE StoreBegins \/ StoreEnds
    <2>1. Polling /\ Polling' /\ UNCHANGED << changed, news, alone, clean >>
      BY <1>2 DEF StoreBegins, StoreEnds, Polling
    <2> QED
      BY <1>0, <2>1 DEF NewsInv, AsPublished, Looking, Collecting
  <1>3. CASE PollEnds
    <2>1. /\ mpc = "row" /\ Polling /\ ~Polling' /\ changed' = mrow
          /\ news' = IF rpc \in {"write", "clear"} THEN news ELSE polls
          /\ mrow < Rows => requestData[mrow] = NoRow
          /\ UNCHANGED << resultData, alone, clean >>
      BY <1>3 DEF PollEnds, Polling
    <2>2. mrow > 1 /\ polls > 0
      BY <2>1 DEF QuietInv, PollInv
    <2>3. Looking => changed' > 1 /\ news' # 0
      BY <2>1, <2>2 DEF Looking
    <2>4. alone => ~Collecting
      BY <2>1 DEF NewsInv
    <2>5. ASSUME alone, Looking PROVE \A u \in 1 .. mrow - 1 : ResultRow(u) = polls
      <3>1. clean
        BY <2>1, <2>4, <2>5 DEF NewsInv, Looking, Collecting
      <3>2. \A u \in 1 .. mrow - 1 : resultData[u] = polls /\ u \in RowIndex
        BY <2>1, <3>1 DEF QuietInv, PollInv
      <3> QED
        BY <3>2 DEF ResultRow
    <2>6. alone /\ Looking => \A u \in 1 .. changed' - 1 : ResultRow(u)' = news'
      BY <2>1, <2>5 DEF Looking, ResultRow
    <2>7. rpc = "write" => news' = news
      BY <2>1
    <2> QED
      BY <1>0, <2>1, <2>3, <2>4, <2>6, <2>7 DEF NewsInv, AsPublished, Looking, Collecting
  <1> QED
    BY <1>1, <1>2, <1>3 DEF Mms

LEMMA NewsResponder ==
  ASSUME Rows > 1, TypeInv, QuietInv, NewsInv, Responder PROVE NewsInv'
PROOF
  <1> USE DataTypes
  <1>0. mpc' = mpc /\ Polling' = Polling
    BY DEF Responder, ReaderMatched, Receive, CollectRow, Write, ClearRow, ResetChanged,
           ResponderThrows, mmsVars, Polling
  <1>1. CASE ReaderMatched \/ ResponderThrows
    <2>1. /\ rpc \in {"match", "write"} /\ rpc' \in {"recv", "done"}
          /\ rpc = "write" => rpc' = "done"
          /\ UNCHANGED << items, replies, clean, news, alone, resultData, changed >>
      BY <1>1 DEF ReaderMatched, ResponderThrows, mmsVars, sharedVars
    <2> QED
      BY <1>0, <2>1 DEF NewsInv, AsPublished, Looking, Collecting, ResultRow
  <1>2. CASE Receive
    <2>1. /\ rpc = "recv" /\ rpc' = "collect" /\ items' = << >>
          /\ alone' = (alone /\ ~Polling)
          /\ UNCHANGED << replies, news, resultData, changed >>
      BY <1>2 DEF Receive
    <2>2. alone' => alone /\ ~Polling
      BY <2>1
    <2> QED
      BY <1>0, <2>1, <2>2 DEF NewsInv, AsPublished, Looking, Collecting, ResultRow
  <1>3. CASE CollectRow
    <2>1. rpc = "collect" /\ UNCHANGED << replies, clean, news, alone, resultData, changed >>
      BY <1>3 DEF CollectRow, mmsVars, sharedVars
    <2>2. row > 0 /\ Len(items) = row - 1
      BY <2>1 DEF QuietInv, DueInv, Collecting
    <2>3. CASE row < changed
      <3>1. rpc' = "collect" /\ items' = Append(items, ResultRow(row))
        BY <1>3, <2>1, <2>3 DEF CollectRow
      <3>2. news # 0
        BY <2>1, <2>2, <2>3 DEF NewsInv, Looking
      <3>3. alone => ResultRow(row) = news
        BY <2>1, <2>2, <2>3 DEF NewsInv, Looking, Collecting
      <3>4. \A u \in DOMAIN items' :
              items'[u] = ResultRow(row) \/ (u \in DOMAIN items /\ items'[u] = items[u])
        BY <3>1
      <3>5. alone => \A u \in DOMAIN items' : items'[u] = news
        BY <2>1, <3>3, <3>4 DEF NewsInv, Collecting
      <3> QED
        BY <1>0, <2>1, <3>1, <3>2, <3>5 DEF NewsInv, AsPublished, Looking, Collecting, ResultRow
    <2>4. CASE ~(row < changed)
      <3>1. rpc' = "write" /\ UNCHANGED items
        BY <1>3, <2>1, <2>4 DEF CollectRow
      <3>2. news # 0 => items # << >>
        <4>1. news # 0 => changed > 1
          BY <2>1 DEF NewsInv, Looking
        <4>2. news # 0 => Len(items) > 0
          BY <2>2, <2>4, <4>1
        <4> QED
          BY <4>2, EmptySeq
      <3> QED
        BY <1>0, <2>1, <3>1, <3>2 DEF NewsInv, AsPublished, Looking, Collecting
    <2> QED
      BY <2>3, <2>4
  <1>4. ASSUME NEW c \in {"OK", "ERROR", "TIMEOUT"}, Write(c) PROVE NewsInv'
    <2>1. rpc = "write" /\ UNCHANGED << items, clean, news, alone, resultData, changed >>
      BY <1>4 DEF Write, mmsVars, sharedVars
    <2>2. CASE Repeats(c)
      <3>1. UNCHANGED << replies, rpc >>
        BY <1>4, <2>2 DEF Write
      <3> QED
        BY <1>0, <2>1, <3>1 DEF NewsInv, AsPublished, Looking, Collecting
    <2>3. CASE ~Repeats(c)
      <3> DEFINE r == [items |-> items, code |-> c, due |-> due, news |-> news, alone |-> alone]
      <3>1. replies' = Append(replies, r) /\ rpc' = "clear"
        BY <1>4, <2>3 DEF Write, Settle
      <3>2. r.items = items /\ r.news = news /\ r.alone = alone
        OBVIOUS
      <3> HIDE DEF r
      <3>3. /\ r.items # << >> <=> r.news # 0
            /\ r.alone => \A u \in DOMAIN r.items : r.items[u] = r.news
        BY <2>1, <3>2 DEF NewsInv, Collecting
      <3>4. \A i \in DOMAIN replies' :
              (i \in DOMAIN replies /\ replies'[i] = replies[i]) \/ replies'[i] = r
        BY <3>1
      <3>5. AsPublished'
        BY <3>3, <3>4 DEF NewsInv, AsPublished
      <3> QED
        BY <3>1, <3>5 DEF NewsInv, Looking, Collecting
    <2> QED
      BY <2>2, <2>3
  <1>5. CASE ClearRow
    <2>1. rpc = "clear" /\ rpc' = "clear" /\ UNCHANGED replies
      BY <1>5 DEF ClearRow
    <2> QED
      BY <2>1 DEF NewsInv, AsPublished, Looking, Collecting
  <1>6. CASE ResetChanged
    <2>1. /\ rpc' = "recv" /\ changed' = 0 /\ news' = 0 /\ alone' = ~Polling
          /\ UNCHANGED replies
      BY <1>6 DEF ResetChanged, ChangedAfter
    <2>2. ~(alone' /\ Polling')
      BY <1>0, <2>1
    <2> QED
      BY <2>1, <2>2 DEF NewsInv, AsPublished, Looking, Collecting
  <1> QED
    BY <1>1, <1>2, <1>3, <1>4, <1>5, <1>6 DEF Responder

(***************************************************************************)
(* A publication is erased only between the last look at the flag and its  *)
(* reset, and rows are mixed, cut or blank only where a poll overlaps the  *)
(* response or the reset before it, for every array of more than one row   *)
(* and every first value of the flag.                                      *)
(***************************************************************************)
THEOREM PublishedCorrect == Rows > 1 => (Spec => []AsPublished)
PROOF
  <1> SUFFICES ASSUME Rows > 1 PROVE Spec => []AsPublished
    OBVIOUS
  <1>1. TypeInv /\ QuietInv /\ [Next]_vars => QuietInv'
    BY QuietNext
  <1>2. TypeInv /\ QuietInv /\ NewsInv /\ [Next]_vars => NewsInv'
    <2> SUFFICES ASSUME TypeInv, QuietInv, NewsInv, [Next]_vars PROVE NewsInv'
      OBVIOUS
    <2> QED
      BY NewsListener, NewsResponder, NewsMms DEF Next
  <1>3. NewsInv => AsPublished
    BY DEF NewsInv
  <1> QED
    BY <1>1, <1>2, <1>3, QuietInit, NewsInit, TypeInvariant, PTL DEF Spec

-----------------------------------------------------------------------------
(***************************************************************************)
(* The interval log the listener keeps.                                    *)
(***************************************************************************)
(* Samples whose interval was logged or whose time was kept. *)
Posted == IF lpc = "copy" THEN Len(received) - 1 ELSE Len(received)

(* In on_data_available, `message` is the sample taken last. *)
SampleLast ==
  lpc = "copy" => sample.stamp = Len(received) /\ received[Len(received)] = CommandOf(sample)

LEMMA LogTypes ==
  ASSUME TypeInv
  PROVE  /\ received \in Seq(Command) /\ Len(received) \in Nat
         /\ mQ \in Seq(Nat) /\ intervals \in Seq(LogRow)
         /\ csv \in {"open", "closed", "broken"}
         /\ Posted \in 0 .. Len(received)
         /\ Posted = Len(received) - Len(Pending)
         /\ lpc = "copy" => Len(received) > 0 /\ Posted = Len(received) - 1
         /\ \A i \in 1 .. Len(received) : received[i].count \in Nat
PROOF
  <1>1. /\ received \in Seq(Command) /\ mQ \in Seq(Nat) /\ intervals \in Seq(LogRow)
        /\ csv \in {"open", "closed", "broken"}
    BY DEF TypeInv, TypeOK, ListenerTypeOK
  <1>2. Len(received) \in Nat
    BY <1>1
  <1>3. lpc = "copy" => Len(received) > 0
    BY <1>1, EmptySeq DEF TypeInv, ControlOK
  <1>4. Len(Pending) = IF lpc = "copy" THEN 1 ELSE 0
    BY DEF Pending
  <1>5. ASSUME NEW i \in 1 .. Len(received) PROVE received[i].count \in Nat
    <2>1. received[i] \in Command
      BY <1>1
    <2> QED
      BY <2>1, ServerAssumption DEF Command
  <1> QED
    BY <1>1, <1>2, <1>3, <1>4, <1>5 DEF Posted

(* What a step does to the samples posted. *)
LEMMA SampleLastNext ==
  TypeInv /\ SampleLast /\ [Next]_vars => SampleLast'
PROOF
  <1> SUFFICES ASSUME TypeInv, SampleLast, [Next]_vars PROVE SampleLast'
    OBVIOUS
  <1> USE LogTypes
  <1>1. ASSUME NEW c \in Counts, NEW k \in ReqRows, TakeData(c, k) PROVE SampleLast'
    <2>1. /\ received' = Append(received, CommandOf(sample'))
          /\ sample'.stamp = Len(received) + 1
      BY <1>1 DEF TakeData
    <2>2. /\ Len(received') = Len(received) + 1
          /\ received'[Len(received) + 1] = CommandOf(sample')
      BY <2>1
    <2> QED
      BY <2>1, <2>2 DEF SampleLast, CommandOf
  <1>2. CASE TakeNoData \/ CopyRow
    BY <1>2 DEF TakeNoData, CopyRow, SampleLast, CommandOf
  <1>3. CASE SendCommand
    BY <1>3 DEF SendCommand, SampleLast
  <1>4. CASE Responder \/ Mms \/ Exit \/ UNCHANGED vars
    <2>1. UNCHANGED listenerVars
      BY <1>4 DEF Responder, ReaderMatched, Receive, CollectRow, Write, ClearRow, ResetChanged,
                  ResponderThrows, Mms, PollBegins, StoreBegins, StoreEnds, PollEnds, Exit, vars
    <2> QED
      BY <2>1 DEF listenerVars, SampleLast, CommandOf
  <1> QED
    BY <1>1, <1>2, <1>3, <1>4 DEF Next, Listener

(* Every step posts the sample in hand, takes one, or does neither. *)
LEMMA LogSteps ==
  ASSUME TypeInv, SampleLast, [Next]_vars
  PROVE  \/ /\ Posted' = Posted /\ UNCHANGED << mQ, csv, intervals >>
            /\ \A i \in 1 .. Posted : received'[i] = received[i]
         \/ /\ Posted' = Posted + 1 /\ received' = received
            /\ LogArrival /\ sample.stamp = Posted + 1
            /\ received[Posted + 1].count = sample.count
            /\ Posted + 1 \in 1 .. Len(received)
PROOF
  <1> USE LogTypes
  <1>1. ASSUME NEW c \in Counts, NEW k \in ReqRows, TakeData(c, k)
        PROVE  /\ Posted' = Posted /\ UNCHANGED << mQ, csv, intervals >>
               /\ \A i \in 1 .. Posted : received'[i] = received[i]
    <2>1. /\ received' = Append(received, CommandOf(sample'))
          /\ lpc = "idle" /\ lpc' = "copy" /\ UNCHANGED << mQ, csv, intervals >>
      BY <1>1 DEF TakeData
    <2>2. /\ Len(received') = Len(received) + 1
          /\ \A i \in 1 .. Len(received) : received'[i] = received[i]
      BY <2>1
    <2> QED
      BY <2>1, <2>2 DEF Posted
  <1>2. CASE TakeNoData \/ CopyRow
    BY <1>2 DEF TakeNoData, CopyRow, Posted
  <1>3. CASE SendCommand
    <2>1. lpc = "copy" /\ lpc' = "idle" /\ received' = received /\ LogArrival
      BY <1>3 DEF SendCommand
    <2> QED
      BY <2>1 DEF Posted, SampleLast, CommandOf
  <1>4. CASE Responder \/ Mms \/ Exit \/ UNCHANGED vars
    <2>1. UNCHANGED listenerVars
      BY <1>4 DEF Responder, ReaderMatched, Receive, CollectRow, Write, ClearRow, ResetChanged,
                  ResponderThrows, Mms, PollBegins, StoreBegins, StoreEnds, PollEnds, Exit, vars
    <2> QED
      BY <2>1 DEF listenerVars, Posted
  <1> QED
    BY <1>1, <1>2, <1>3, <1>4 DEF Next, Listener

-----------------------------------------------------------------------------
(***************************************************************************)
(* interArrivalFile.  It was closed exactly when a posted sample had       *)
(* CloseCount; together with UseAfterClose that is inductive.              *)
(***************************************************************************)
ClosedBy(n) == \E i \in 1 .. n : received[i].count = CloseCount

BrokenBy(n) ==
  \E i, j \in 1 .. n : i < j /\ received[i].count = CloseCount /\ received[j].count > 1

CloseInv ==
  /\ SampleLast
  /\ (csv # "open") <=> ClosedBy(Posted)
  /\ (csv = "broken") <=> BrokenBy(Posted)

LEMMA CloseNext == TypeInv /\ CloseInv /\ [Next]_vars => CloseInv'
PROOF
  <1> SUFFICES ASSUME TypeInv, CloseInv, [Next]_vars PROVE CloseInv'
    OBVIOUS
  <1>0. Posted \in Nat /\ SampleLast /\ SampleLast'
    BY LogTypes, SampleLastNext DEF CloseInv
  <1>1. PICK n \in Nat : n = Posted
    BY <1>0
  <1>2. CASE /\ Posted' = Posted /\ UNCHANGED << mQ, csv, intervals >>
             /\ \A i \in 1 .. Posted : received'[i] = received[i]
    <2>1. Posted' = n /\ csv' = csv /\ \A i \in 1 .. n : received'[i] = received[i]
      BY <1>1, <1>2
    <2>2. ((csv # "open") <=> ClosedBy(n)) /\ ((csv = "broken") <=> BrokenBy(n))
      BY <1>1 DEF CloseInv
    <2>3. ((csv' # "open") <=> ClosedBy(n)') /\ ((csv' = "broken") <=> BrokenBy(n)')
      BY <2>1, <2>2 DEF ClosedBy, BrokenBy
    <2> QED
      BY <1>0, <2>1, <2>3 DEF CloseInv, ClosedBy, BrokenBy
  <1>3. CASE /\ Posted' = Posted + 1 /\ received' = received
             /\ LogArrival /\ sample.stamp = Posted + 1
             /\ received[Posted + 1].count = sample.count
             /\ Posted + 1 \in 1 .. Len(received)
    <2>1. /\ Posted' = n + 1 /\ received' = received /\ LogArrival
          /\ received[n + 1].count = sample.count /\ received[n + 1].count \in Nat
      BY <1>1, <1>3, LogTypes
    <2>2. ((csv # "open") <=> ClosedBy(n)) /\ ((csv = "broken") <=> BrokenBy(n))
      BY <1>1 DEF CloseInv
    <2>3. CloseCount \in Nat /\ CloseCount > 1
      BY ServerAssumption
    <2>4. /\ ClosedBy(n + 1) <=> ClosedBy(n) \/ sample.count = CloseCount
          /\ BrokenBy(n + 1) <=> BrokenBy(n) \/ (ClosedBy(n) /\ sample.count > 1)
      BY <2>1 DEF ClosedBy, BrokenBy
    <2>5. CASE sample.count > 1
      <3>1. csv' = IF csv # "open" THEN "broken"
                   ELSE IF sample.count = CloseCount THEN "closed" ELSE "open"
        BY <2>1, <2>5 DEF LogArrival, Logs, Closes
      <3>2. ((csv' # "open") <=> ClosedBy(n + 1)) /\ ((csv' = "broken") <=> BrokenBy(n + 1))
        BY <2>2, <2>4, <2>5, <3>1
      <3> QED
        BY <1>0, <2>1, <3>2 DEF CloseInv, ClosedBy, BrokenBy
    <2>6. CASE ~(sample.count > 1)
      <3>1. csv' = csv /\ sample.count # CloseCount
        BY <2>1, <2>3, <2>6 DEF LogArrival, Logs
      <3>2. ((csv' # "open") <=> ClosedBy(n + 1)) /\ ((csv' = "broken") <=> BrokenBy(n + 1))
        BY <2>2, <2>4, <2>6, <3>1
      <3> QED
        BY <1>0, <2>1, <3>2 DEF CloseInv, ClosedBy, BrokenBy
    <2> QED
      BY <2>5, <2>6
  <1> QED
    BY <1>0, <1>2, <1>3, LogSteps

(***************************************************************************)
(* The closed file is printed to exactly when a sample above 1 follows the *)
(* one with CloseCount, whatever the queue, the order of the counts, and   *)
(* the number at which the file is closed.                                 *)
(***************************************************************************)
THEOREM CloseCorrect == Spec => []UseAfterClose
PROOF
  <1>1. Init => CloseInv
    BY EmptySeq DEF Init, CloseInv, SampleLast, ClosedBy, BrokenBy, Posted
  <1>2. TypeInv /\ CloseInv => UseAfterClose
    <2> SUFFICES ASSUME TypeInv, CloseInv PROVE UseAfterClose
      OBVIOUS
    <2>1. Posted = Len(received) - Len(Pending)
      BY LogTypes
    <2> QED
      BY <2>1 DEF CloseInv, BrokenBy, UseAfterClose
  <1> QED
    BY <1>1, <1>2, CloseNext, TypeInvariant, PTL DEF Spec
-----------------------------------------------------------------------------
(***************************************************************************)
(* The times kept.  After n samples, p of them with count 0 or 1, mQ holds *)
(* the last p arrivals, n - p + 1 .. n: the samples above 1 took the first *)
(* n - p away, one each.                                                   *)
(***************************************************************************)
PrimersOf(s, n) == Cardinality({i \in 1 .. n : s[i].count <= 1})

LastTimes(q, n) == Len(q) <= n /\ \A k \in 1 .. Len(q) : q[k] = n - Len(q) + k

ClockInv ==
  /\ SampleLast
  /\ Len(mQ) = PrimersOf(received, Posted) /\ LastTimes(mQ, Posted)
  /\ \A i \in 1 .. Len(intervals) :
       LET n == intervals[i].now
           p == PrimersOf(received, n)
       IN  n \in 1 .. Posted /\ intervals[i].from = IF p = 0 THEN NoTime ELSE n - p + 1

(* One more sample is one more primer, or none. *)
LEMMA PrimersStep ==
  ASSUME NEW s \in Seq(Command), NEW n \in Nat, n + 1 \in 1 .. Len(s),
         s[n + 1].count \in Nat
  PROVE  /\ PrimersOf(s, n) \in Nat
         /\ PrimersOf(s, n + 1) = PrimersOf(s, n) + IF s[n + 1].count > 1 THEN 0 ELSE 1
PROOF
  <1> DEFINE P(m) == {i \in 1 .. m : s[i].count <= 1}
  <1>1. IsFiniteSet(P(n))
    <2>1. IsFiniteSet(1 .. n)
      <3>1. 1 \in Int /\ n \in Int
        OBVIOUS
      <3> QED
        BY <3>1, FS_Interval
    <2>2. P(n) \subseteq 1 .. n
      OBVIOUS
    <2> QED
      BY <2>1, <2>2, FS_Subset
  <1>2. Cardinality(P(n)) \in Nat
    BY <1>1, FS_CardinalityType
  <1>5. PrimersOf(s, n) = Cardinality(P(n)) /\ PrimersOf(s, n + 1) = Cardinality(P(n + 1))
    BY DEF PrimersOf
  <1>3. CASE s[n + 1].count > 1
    <2>1. P(n + 1) = P(n)
      BY <1>3
    <2>2. PrimersOf(s, n + 1) = PrimersOf(s, n) /\ PrimersOf(s, n) \in Nat
      BY <1>2, <1>5, <2>1, Zenon
    <2> QED
      BY <1>3, <2>2
  <1>4. CASE ~(s[n + 1].count > 1)
    <2>1. P(n + 1) = P(n) \cup {n + 1} /\ n + 1 \notin P(n)
      BY <1>4
    <2>2. Cardinality(P(n) \cup {n + 1}) = Cardinality(P(n)) + 1
      BY <1>1, <2>1, FS_AddElement
    <2>3. PrimersOf(s, n + 1) = PrimersOf(s, n) + 1 /\ PrimersOf(s, n) \in Nat
      BY <1>2, <1>5, <2>1, <2>2, Zenon
    <2> QED
      BY <1>4, <2>3
  <1> QED
    BY <1>3, <1>4

(* Samples taken later are not among the first n. *)
LEMMA PrimersSame ==
  ASSUME NEW s, NEW t, NEW m \in Nat, \A i \in 1 .. m : t[i] = s[i], NEW n \in 0 .. m
  PROVE  PrimersOf(t, n) = PrimersOf(s, n)
PROOF
  <1>1. {i \in 1 .. n : t[i].count <= 1} = {i \in 1 .. n : s[i].count <= 1}
    OBVIOUS
  <1> QED
    BY <1>1 DEF PrimersOf

(* The queue of times after one more sample. *)
LEMMA TimesStep ==
  ASSUME NEW q \in Seq(Nat), NEW n \in Nat, NEW c \in Nat, LastTimes(q, n)
  PROVE  /\ LastTimes(Times(q, c, n + 1), n + 1)
         /\ Len(Times(q, c, n + 1)) = Len(q) + IF c > 1 THEN 0 ELSE 1
         /\ c > 1 => Reference(q, c, n + 1) =
                       IF Len(q) = 0 THEN NoTime ELSE n + 1 - Len(q) + 1
PROOF
  <1> DEFINE a == Append(q, n + 1)
  <1>1. /\ a \in Seq(Nat) /\ Len(a) = Len(q) + 1 /\ Len(q) \in Nat /\ Len(q) <= n
        /\ \A k \in 1 .. Len(a) : a[k] = n - Len(q) + k
    BY DEF LastTimes
  <1> HIDE DEF a
  <1>2. CASE c > 1
    <2> DEFINE t == Tail(a)
    <2>1. Times(q, c, n + 1) = t
      BY <1>2 DEF Times, Logs, a
    <2>2. /\ t \in Seq(Nat) /\ Len(t) = Len(q)
          /\ \A k \in 1 .. Len(q) : t[k] = n + 1 - Len(q) + k
      BY <1>1
    <2> HIDE DEF t
    <2>3. Reference(q, c, n + 1) = IF Len(q) = 0 THEN NoTime ELSE n + 1 - Len(q) + 1
      <3>1. CASE Len(q) = 0
        <4>1. t = << >>
          BY <2>2, <3>1, EmptySeq
        <4>2. Reference(q, c, n + 1) = NoTime
          BY <2>1, <4>1 DEF Reference
        <4> QED
          BY <3>1, <4>2
      <3>2. CASE Len(q) # 0
        <4>1. 1 \in 1 .. Len(q) /\ t # << >>
          BY <1>1, <2>2, <3>2, EmptySeq
        <4>2. Head(t) = t[1]
          BY <2>2, <4>1
        <4>3. Head(t) = n + 1 - Len(q) + 1
          BY <2>2, <4>1, <4>2
        <4>4. Reference(q, c, n + 1) = Head(t)
          BY <2>1, <4>1 DEF Reference
        <4> QED
          BY <3>2, <4>3, <4>4
      <3> QED
        BY <3>1, <3>2
    <2>4. LastTimes(t, n + 1)
      BY <1>1, <2>2 DEF LastTimes
    <2> QED
      BY <1>1, <1>2, <2>1, <2>2, <2>3, <2>4
  <1>3. CASE ~(c > 1)
    <2>1. Times(q, c, n + 1) = a
      BY <1>3 DEF Times, Logs, a
    <2> QED
      BY <1>1, <1>3, <2>1 DEF LastTimes
  <1> QED
    BY <1>2, <1>3

LEMMA ClockNext == TypeInv /\ ClockInv /\ [Next]_vars => ClockInv'
PROOF
  <1> SUFFICES ASSUME TypeInv, ClockInv, [Next]_vars PROVE ClockInv'
    OBVIOUS
  <1>0. Posted \in Nat /\ SampleLast /\ SampleLast'
    BY LogTypes, SampleLastNext DEF ClockInv
  <1>1. PICK n \in Nat : n = Posted
    BY <1>0
  <1>2. /\ Len(mQ) = PrimersOf(received, n) /\ LastTimes(mQ, n)
        /\ \A i \in 1 .. Len(intervals) :
             /\ intervals[i].now \in 1 .. n
             /\ intervals[i].from = IF PrimersOf(received, intervals[i].now) = 0 THEN NoTime
                                    ELSE intervals[i].now - PrimersOf(received, intervals[i].now) + 1
    BY <1>1 DEF ClockInv
  <1>3. CASE /\ Posted' = Posted /\ UNCHANGED << mQ, csv, intervals >>
             /\ \A i \in 1 .. Posted : received'[i] = received[i]
    <2>1. Posted' = n /\ mQ' = mQ /\ intervals' = intervals
          /\ \A i \in 1 .. n : received'[i] = received[i]
      BY <1>1, <1>3
    <2>2. \A m \in 0 .. n : PrimersOf(received', m) = PrimersOf(received, m)
      BY <2>1, PrimersSame
    <2>3. Len(mQ') = PrimersOf(received', n) /\ LastTimes(mQ', n)
      BY <1>2, <2>1, <2>2
    <2>4. \A i \in 1 .. Len(intervals') :
             /\ intervals'[i].now \in 1 .. n
             /\ intervals'[i].from = IF PrimersOf(received', intervals'[i].now) = 0 THEN NoTime
                                     ELSE intervals'[i].now - PrimersOf(received', intervals'[i].now) + 1
      BY <1>2, <2>1, <2>2
    <2> QED
      BY <1>0, <2>1, <2>3, <2>4 DEF ClockInv
  <1>4. CASE /\ Posted' = Posted + 1 /\ received' = received
             /\ LogArrival /\ sample.stamp = Posted + 1
             /\ received[Posted + 1].count = sample.count
             /\ Posted + 1 \in 1 .. Len(received)
    <2>1. /\ Posted' = n + 1 /\ received' = received /\ LogArrival
          /\ sample.stamp = n + 1 /\ received[n + 1].count = sample.count
          /\ n + 1 \in 1 .. Len(received) /\ sample.count \in Nat
      BY <1>1, <1>4, LogTypes
    <2>2. received \in Seq(Command) /\ mQ \in Seq(Nat) /\ intervals \in Seq(LogRow)
      BY LogTypes
    <2>3. /\ PrimersOf(received, n) \in Nat
          /\ PrimersOf(received, n + 1)
               = PrimersOf(received, n) + IF sample.count > 1 THEN 0 ELSE 1
      BY <2>1, <2>2, PrimersStep
    <2>4. mQ' = Times(mQ, sample.count, n + 1)
      BY <2>1 DEF LogArrival
    <2>5. Len(mQ') = PrimersOf(received, n + 1) /\ LastTimes(mQ', n + 1)
      BY <1>2, <2>1, <2>2, <2>3, <2>4, TimesStep
    <2>6. ASSUME NEW i \in 1 .. Len(intervals')
          PROVE  /\ intervals'[i].now \in 1 .. n + 1
                 /\ intervals'[i].from =
                      IF PrimersOf(received, intervals'[i].now) = 0 THEN NoTime
                      ELSE intervals'[i].now - PrimersOf(received, intervals'[i].now) + 1
      <3>1. CASE i \in 1 .. Len(intervals) /\ intervals'[i] = intervals[i]
        BY <1>2, <3>1
      <3>2. CASE /\ sample.count > 1
                 /\ intervals'[i] = [count |-> sample.count, now |-> n + 1,
                                     from |-> Reference(mQ, sample.count, n + 1)]
        <4>1. Reference(mQ, sample.count, n + 1) =
                IF Len(mQ) = 0 THEN NoTime ELSE n + 1 - Len(mQ) + 1
          BY <1>2, <2>1, <2>2, <3>2, TimesStep
        <4>2. Len(mQ) = PrimersOf(received, n + 1)
          BY <1>2, <2>3, <3>2
        <4>3. intervals'[i].now = n + 1 /\ intervals'[i].from = Reference(mQ, sample.count, n + 1)
          BY <3>2
        <4> QED
          BY <4>1, <4>2, <4>3
      <3>3. CASE intervals' = intervals
        BY <3>1, <3>3, <2>6
      <3>4. CASE sample.count > 1 /\ csv = "open"
        <4> DEFINE r == [count |-> sample.count, now |-> n + 1,
                         from |-> Reference(mQ, sample.count, n + 1)]
        <4>1. intervals' = intervals \o << r >>
          BY <2>1, <3>4 DEF LogArrival, Row, Logs
        <4> HIDE DEF r
        <4>2. (i \in 1 .. Len(intervals) /\ intervals'[i] = intervals[i]) \/ intervals'[i] = r
          BY <2>2, <2>6, <4>1
        <4> QED
          BY <3>1, <3>2, <3>4, <4>2 DEF r
      <3> QED
        BY <2>1, <3>3, <3>4 DEF LogArrival, Logs
    <2> QED
      BY <1>0, <2>1, <2>5, <2>6 DEF ClockInv
  <1> QED
    BY <1>0, <1>3, <1>4, LogSteps

(***************************************************************************)
(* Every logged interval is measured from the arrival Primers - 1 samples  *)
(* earlier, from undefined memory when there was none, for every order in  *)
(* which counts may arrive and every number of requests.                   *)
(***************************************************************************)
THEOREM IntervalCorrect == Spec => []IntervalSpan
PROOF
  <1>1. Init => ClockInv
    <2> SUFFICES ASSUME Init PROVE ClockInv
      OBVIOUS
    <2>1. mQ = << >> /\ intervals = << >> /\ lpc = "idle" /\ received = << >> /\ Posted = 0
      BY DEF Init, Posted
    <2>2. PrimersOf(received, 0) = 0
      <3>1. {i \in 1 .. 0 : received[i].count <= 1} = {}
        OBVIOUS
      <3> QED
        BY <3>1, FS_EmptySet DEF PrimersOf
    <2> QED
      BY <2>1, <2>2, EmptySeq DEF ClockInv, SampleLast, LastTimes
  <1>2. TypeInv /\ ClockInv => IntervalSpan
    <2> SUFFICES ASSUME TypeInv, ClockInv PROVE IntervalSpan
      OBVIOUS
    <2>1. DOMAIN intervals = 1 .. Len(intervals)
      BY LogTypes
    <2> QED
      BY <2>1 DEF ClockInv, IntervalSpan, Primers, PrimersOf
  <1> QED
    BY <1>1, <1>2, ClockNext, TypeInvariant, PTL DEF Spec
=============================================================================
