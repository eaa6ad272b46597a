------------------------- MODULE RequestRowsProofs -------------------------
(***************************************************************************)
(* findNodeByName against the document order and the rows it copies, for   *)
(* documents of every size and shape, and what arrives of the items of the *)
(* documents that XMLParser builds, however many.                          *)
(***************************************************************************)
EXTENDS RequestItems, SequenceTheorems, NaturalsInduction, WellFoundedInduction, TLAPS

Nodes == [name : STRING, last : Nat, text : Texts]

(* A stack without its top. *)
LEMMA Popped ==
  ASSUME NEW S, NEW s \in Seq(S), s # << >>
  PROVE  LET t == SubSeq(s, 1, Len(s) - 1)
         IN  /\ Len(s) \in Nat /\ Len(s) > 0
             /\ s[Len(s)] \in S
             /\ Len(s) # 1 => s[Len(s) - 1] \in S
             /\ t \in Seq(S)
             /\ Len(t) = Len(s) - 1
             /\ \A k \in 1 .. Len(s) - 1 : t[k] = s[k]
<1> DEFINE n == Len(s) - 1
<1>1. Len(s) \in Nat /\ Len(s) > 0
  BY EmptySeq, LenProperties
<1>2. \A k \in 1 .. Len(s) : s[k] \in S
  BY ElementOfSeq
<1>3. n \in Int /\ n >= 0 /\ \A k \in 1 .. n : s[k] \in S
  BY <1>1, <1>2
<1> HIDE DEF n
<1>4. /\ SubSeq(s, 1, n) \in Seq(S)
      /\ Len(SubSeq(s, 1, n)) = n
      /\ \A k \in 1 .. n : SubSeq(s, 1, n)[k] = s[k]
  <2>1. /\ SubSeq(s, 1, n) \in Seq(S)
        /\ Len(SubSeq(s, 1, n)) = IF 1 <= n THEN n - 1 + 1 ELSE 0
        /\ \A k \in 1 .. n - 1 + 1 : SubSeq(s, 1, n)[k] = s[1 + k - 1]
    BY <1>3, SubSeqProperties
  <2> QED
    BY <1>3, <2>1
<1> QED
  BY <1>1, <1>2, <1>4 DEF n

(* The pointers of a document stay inside it. *)
LEMMA ChildExists ==
  ASSUME NEW d \in Seq(Nodes), IsDocument(d), NEW n \in 1 .. Len(d)
  PROVE  /\ children(d, n) # NULL =>
              children(d, n) = n + 1 /\ n + 1 \in 1 .. Len(d)
                                     /\ ChildOf(d, n, children(d, n))
         /\ children(d, n) = NULL => d[n].last = n
<1>1. d[n].last \in n .. Len(d)
  BY DEF IsDocument
<1> QED
  BY <1>1 DEF children, ChildOf, LastOf, NULL

(***************************************************************************)
(* node->next is the next child of the same parent; there is none exactly  *)
(* when the parent ends where the node does.                               *)
(***************************************************************************)
LEMMA NextSibling ==
  ASSUME NEW d \in Seq(Nodes), IsDocument(d),
         NEW p \in 0 .. Len(d), NEW n \in 1 .. Len(d), ChildOf(d, p, n)
  PROVE  /\ next(d, n) # NULL =>
              next(d, n) = d[n].last + 1 /\ next(d, n) \in 1 .. Len(d)
                                         /\ ChildOf(d, p, next(d, n))
         /\ next(d, n) = NULL => d[n].last = LastOf(d, p)
<1>1. \A q \in 1 .. Len(d) : d[q].last \in q .. Len(d)
  BY DEF IsDocument
<1>2. \A q \in 1 .. Len(d) : \A m \in q .. d[q].last : d[m].last <= d[q].last
  BY DEF IsDocument
<1>3. n <= LastOf(d, p) /\ p < n /\ \A q \in p + 1 .. n - 1 : d[q].last < n
  BY DEF ChildOf
<1>4. p # NULL => p \in 1 .. Len(d) /\ d[n].last <= d[p].last
  BY <1>1, <1>2, <1>3 DEF LastOf, NULL
<1>5. LastOf(d, p) \in Nat /\ d[n].last <= LastOf(d, p) /\ LastOf(d, p) <= Len(d)
  BY <1>1, <1>4 DEF LastOf, NULL
<1>6. ASSUME next(d, n) # NULL
      PROVE  /\ next(d, n) = d[n].last + 1 /\ next(d, n) \in 1 .. Len(d)
             /\ ChildOf(d, p, next(d, n))
  <2>1. /\ next(d, n) = d[n].last + 1
        /\ d[n].last < Len(d)
        /\ \A q \in 1 .. n - 1 : d[q].last # d[n].last
    BY <1>6 DEF next
  <2>2. next(d, n) \in 1 .. Len(d) /\ n < next(d, n)
    BY <1>1, <2>1
  <2>3. next(d, n) <= LastOf(d, p)
    BY <1>1, <1>3, <1>4, <2>1 DEF LastOf, NULL
  <2>4. ASSUME NEW q \in p + 1 .. next(d, n) - 1 PROVE d[q].last < next(d, n)
    <3>1. CASE q < n
      BY SMTT(30), <3>1, <1>3, <1>1, <2>1, <2>2
    <3>2. CASE q >= n
      <4>1. q \in n .. d[n].last
        BY <3>2, <2>1, <1>1
      <4>2. d[q].last <= d[n].last /\ d[q].last \in Nat
        BY <4>1, <1>1, <1>2
      <4> QED
        BY <4>2, <2>1, <1>1
    <3> QED
      BY <3>1, <3>2
  <2> QED
    BY <2>1, <2>2, <2>3, <2>4, <1>3 DEF ChildOf
<1>7. ASSUME next(d, n) = NULL PROVE d[n].last = LastOf(d, p)
  <2>1. ~(d[n].last < Len(d)) \/ \E q \in 1 .. n - 1 : d[q].last = d[n].last
    BY <1>7, <1>1 DEF next, NULL
  <2>2. CASE ~(d[n].last < Len(d))
    BY <2>2, <1>1, <1>5
  <2>3. CASE \E q \in 1 .. n - 1 : d[q].last = d[n].last
    <3>1. PICK q \in 1 .. n - 1 : d[q].last = d[n].last
      BY <2>3
    <3>2. q <= p
      BY <3>1, <1>1, <1>3
    <3>3. p \in q .. d[q].last /\ p # NULL
      BY <3>1, <3>2, <1>1, <1>3 DEF NULL
    <3>4. d[p].last <= d[q].last
      BY <3>3, <1>2
    <3> QED
      BY <3>1, <3>3, <3>4, <1>1, <1>4 DEF LastOf
  <2> QED
    BY <2>1, <2>2, <2>3
<1> QED
  BY <1>6, <1>7

-----------------------------------------------------------------------------
(***************************************************************************)
(* The invariant of the search: the calls in progress are a path of the    *)
(* document, node is a child of the last of them, and what lies before it, *)
(* in the whole of the document, has another name.  A call that came to    *)
(* the end of its siblings has looked at everything below its caller.      *)
(***************************************************************************)
Frontier == IF node = NULL THEN LastOf(doc, Caller) + 1 ELSE node

Above(path, k) == IF k = 1 THEN NULL ELSE path[k - 1]

Typed ==
  /\ doc \in Seq(Nodes)
  /\ pc \notin {"idle", "crashed"} => IsDocument(doc)
  /\ node \in 0 .. Len(doc)
  /\ callers \in Seq(1 .. Len(doc))

OnPath ==
  /\ \A k \in 1 .. Len(callers) : ChildOf(doc, Above(callers, k), callers[k])
  /\ node # NULL => ChildOf(doc, Caller, node)

NoneBefore == \A m \in 1 .. Len(doc) : m < Frontier => doc[m].name # Sought

SearchInv ==
  /\ Typed
  /\ pc = "find" => OnPath /\ NoneBefore
  /\ FirstInOrder

LEMMA SearchInit == Init => SearchInv
  BY DEF Init, SearchInv, Typed, FirstInOrder, NULL

LEMMA CallerType == ASSUME Typed PROVE Caller \in 0 .. Len(doc)
  BY DEF Typed, Caller, NULL

LEMMA TakeStep ==
  ASSUME SearchInv, NEW d \in Documents, TakeDocument(d) PROVE SearchInv'
<1>1. d \in Seq(Nodes) /\ IsDocument(d)
  BY RowsAssumption DEF RowsAssumption, Nodes
<1>2. Typed'
  BY <1>1 DEF TakeDocument, Typed, IsDocument
<1>3. OnPath' /\ NoneBefore'
  BY <1>1 DEF TakeDocument, OnPath, NoneBefore, Frontier, Caller, ChildOf, LastOf,
              IsDocument, NULL
<1> QED
  BY <1>2, <1>3 DEF TakeDocument, SearchInv, FirstInOrder

LEMMA MatchStep == ASSUME SearchInv, Matches PROVE SearchInv'
<1>1. node \in 1 .. Len(doc) /\ doc \in Seq(Nodes) /\ IsDocument(doc)
  BY DEF Matches, SearchInv, Typed, NULL
<1>2. node' \in 0 .. Len(doc)
  BY <1>1, ChildExists DEF Matches, NULL
<1>3. Typed'
  BY <1>2 DEF Matches, SearchInv, Typed
<1>4. IsFirst(doc, Sought, node)
  BY <1>1 DEF Matches, SearchInv, NoneBefore, Frontier, IsFirst, NULL
<1> QED
  BY <1>3, <1>4 DEF Matches, SearchInv, FirstInOrder

LEMMA DescendStep == ASSUME SearchInv, Descend PROVE SearchInv'
<1>1. /\ node \in 1 .. Len(doc) /\ doc \in Seq(Nodes) /\ IsDocument(doc)
      /\ doc[node].name # Sought /\ OnPath /\ NoneBefore
      /\ callers \in Seq(1 .. Len(doc))
  BY DEF Descend, Differs, SearchInv, Typed, NULL
<1>2. node' = node + 1 /\ node' \in 1 .. Len(doc) /\ ChildOf(doc, node, node')
  BY <1>1, ChildExists DEF Descend
<1>3. /\ callers' \in Seq(1 .. Len(doc)) /\ Len(callers') = Len(callers) + 1
      /\ \A k \in 1 .. Len(callers) : callers'[k] = callers[k]
      /\ callers'[Len(callers) + 1] = node
  BY <1>1 DEF Descend
<1>4. doc' = doc /\ pc' = pc /\ pc = "find" /\ Caller' = node
  BY <1>3, <1>1 DEF Descend, Differs, Caller
<1>5. Typed'
  BY <1>1, <1>2, <1>3, <1>4 DEF Typed
<1>6. OnPath'
  <2>1. ASSUME NEW k \in 1 .. Len(callers')
        PROVE  ChildOf(doc', Above(callers', k), callers'[k])
    <3>1. CASE k <= Len(callers)
      <4>1. k \in 1 .. Len(callers) /\ callers'[k] = callers[k]
        BY <3>1, <1>1, <1>3
      <4>2. Above(callers', k) = Above(callers, k)
        <5>1. k \in Int /\ (k # 1 => k - 1 \in 1 .. Len(callers))
          BY <3>1, <4>1, <1>1
        <5>2. k # 1 => callers'[k - 1] = callers[k - 1]
          BY <5>1, <1>3
        <5> QED
          BY <5>2 DEF Above
      <4>3. ChildOf(doc, Above(callers, k), callers[k])
        BY <4>1, <1>1 DEF OnPath
      <4> QED
        BY <4>1, <4>2, <4>3, <1>4
    <3>2. CASE k = Len(callers) + 1
      <4>1. Above(callers', k) = Caller
        BY <3>2, <1>1, <1>3 DEF Above, Caller
      <4> QED
        BY <3>2, <4>1, <1>1, <1>3, <1>4 DEF OnPath, NULL
    <3> QED
      BY <3>1, <3>2, <1>1, <1>3
  <2> QED
    BY <2>1, <1>2, <1>4 DEF OnPath
<1>7. NoneBefore'
  BY <1>1, <1>2, <1>4 DEF NoneBefore, Frontier, NULL
<1> QED
  BY <1>4, <1>5, <1>6, <1>7 DEF SearchInv, FirstInOrder

LEMMA AdvanceStep == ASSUME SearchInv, Advance PROVE SearchInv'
<1>1. /\ node \in 1 .. Len(doc) /\ doc \in Seq(Nodes) /\ IsDocument(doc)
      /\ doc[node].name # Sought /\ OnPath /\ NoneBefore /\ Caller \in 0 .. Len(doc)
      /\ ChildOf(doc, Caller, node) /\ doc[node].last = node
  BY CallerType, ChildExists DEF Advance, Differs, SearchInv, Typed, OnPath, NULL
<1>2. /\ node' # NULL => node' = node + 1 /\ node' \in 1 .. Len(doc)
                         /\ ChildOf(doc, Caller, node')
      /\ node' = NULL => LastOf(doc, Caller) = node
  BY <1>1, NextSibling DEF Advance
<1>3. /\ doc' = doc /\ pc' = pc /\ pc = "find" /\ callers' = callers
      /\ Caller' = Caller
  BY DEF Advance, Differs, Caller
<1>4. Typed'
  BY <1>2, <1>3 DEF SearchInv, Typed, NULL
<1>5. OnPath'
  BY <1>1, <1>2, <1>3 DEF OnPath, Above
<1>6. NoneBefore'
  BY <1>1, <1>2, <1>3 DEF NoneBefore, Frontier, LastOf, NULL
<1> QED
  BY <1>3, <1>4, <1>5, <1>6 DEF SearchInv, FirstInOrder

LEMMA AscendStep == ASSUME SearchInv, Ascend PROVE SearchInv'
<1> DEFINE top == callers[Len(callers)]
           parent == Above(callers, Len(callers))
<1>1. /\ node = NULL /\ doc \in Seq(Nodes) /\ IsDocument(doc)
      /\ OnPath /\ NoneBefore /\ callers \in Seq(1 .. Len(doc)) /\ callers # << >>
      /\ Caller = top
  BY DEF Ascend, SearchInv, Typed, Caller
<1>2. /\ Len(callers) \in Nat /\ Len(callers) > 0 /\ top \in 1 .. Len(doc)
      /\ Len(callers) # 1 => callers[Len(callers) - 1] \in 1 .. Len(doc)
  BY <1>1, Popped
<1>3. parent \in 0 .. Len(doc) /\ ChildOf(doc, parent, top)
  <2>1. Len(callers) \in 1 .. Len(callers)
    BY <1>2
  <2>2. ChildOf(doc, parent, top)
    BY <1>1, <2>1 DEF OnPath
  <2>3. parent \in 0 .. Len(doc)
    BY <1>1, <1>2 DEF Above, NULL
  <2> QED
    BY <2>2, <2>3
<1>4. /\ node' # NULL => node' = doc[top].last + 1 /\ node' \in 1 .. Len(doc)
                         /\ ChildOf(doc, parent, node')
      /\ node' = NULL => doc[top].last = LastOf(doc, parent)
  BY <1>1, <1>2, <1>3, NextSibling DEF Ascend
<1>5. /\ callers' \in Seq(1 .. Len(doc)) /\ Len(callers') = Len(callers) - 1
      /\ \A k \in 1 .. Len(callers) - 1 : callers'[k] = callers[k]
  BY <1>1, Popped DEF Ascend
<1>6. doc' = doc /\ pc' = pc /\ pc = "find"
  BY DEF Ascend
<1>7. Caller' = parent
  BY SMTT(30), <1>2, <1>5 DEF Caller, Above
<1>8. Typed'
  BY <1>1, <1>4, <1>5, <1>6 DEF Typed, NULL
<1>9. OnPath'
  <2>1. ASSUME NEW k \in 1 .. Len(callers') PROVE ChildOf(doc', Above(callers', k), callers'[k])
    <3>1. Above(callers', k) = Above(callers, k) /\ callers'[k] = callers[k] /\ k \in 1 .. Len(callers)
      BY <1>2, <1>5 DEF Above
    <3> QED
      BY <3>1, <1>1, <1>6 DEF OnPath
  <2> QED
    BY <2>1, <1>4, <1>6, <1>7 DEF OnPath
<1>10. NoneBefore'
  <2>1. Frontier = doc[top].last + 1
    BY <1>1, <1>2 DEF Frontier, LastOf, NULL
  <2>2. Frontier' = Frontier
    BY <2>1, <1>4, <1>6, <1>7 DEF Frontier
  <2> QED
    BY <1>1, <1>6, <2>2 DEF NoneBefore
<1> QED
  BY <1>6, <1>8, <1>9, <1>10 DEF SearchInv, FirstInOrder

LEMMA NotFoundStep == ASSUME SearchInv, NotFound PROVE SearchInv'
<1>1. Frontier = Len(doc) + 1
  BY DEF NotFound, Frontier, Caller, LastOf, NULL
<1>2. \A n \in 1 .. Len(doc) : doc[n].name # Sought
  BY <1>1 DEF NotFound, SearchInv, NoneBefore, Typed
<1> QED
  BY <1>2 DEF NotFound, SearchInv, Typed, FirstInOrder

(* Without a document there is nothing to find. *)
LEMMA UnparsableStep == ASSUME SearchInv, TakeUnparsable PROVE SearchInv'
<1>1. Len(<< >>) = 0 /\ << >> \in Seq(Nodes)
  OBVIOUS
<1>2. pc' = "crashed" /\ doc' = << >> /\ node' = NULL /\ callers' = << >>
  BY DEF TakeUnparsable
<1>3. Typed'
  BY <1>1, <1>2 DEF Typed, NULL
<1> QED
  BY <1>1, <1>2, <1>3 DEF SearchInv, FirstInOrder

LEMMA LoopStep ==
  ASSUME SearchInv, CopyRow \/ Overrun \/ SkipNode \/ EndLoop PROVE SearchInv'
<1>1. CASE CopyRow \/ SkipNode
  <2>1. /\ node \in 1 .. Len(doc) /\ doc \in Seq(Nodes) /\ IsDocument(doc)
        /\ doc[node].last \in Nat
    BY <1>1 DEF CopyRow, SkipNode, AtRow, InLoop, SearchInv, Typed, IsDocument, NULL
  <2>2. node' \in 0 .. Len(doc)
    BY <1>1, <2>1 DEF CopyRow, SkipNode, next, NULL
  <2> QED
    BY <1>1, <2>2 DEF CopyRow, SkipNode, AtRow, InLoop, SearchInv, Typed, FirstInOrder
<1>2. CASE EndLoop
  BY <1>2 DEF EndLoop, SearchInv, Typed, FirstInOrder
<1>3. CASE Overrun
  BY <1>3 DEF Overrun, AtRow, InLoop, SearchInv, Typed, OnPath, NoneBefore, FirstInOrder
<1> QED
  BY <1>1, <1>2, <1>3

LEMMA SearchStep == ASSUME SearchInv, [Next]_vars PROVE SearchInv'
<1>1. ASSUME NEW d \in Documents, TakeDocument(d) PROVE SearchInv'
  BY <1>1, TakeStep
<1>2. CASE findNodeByName
  BY <1>2, MatchStep, DescendStep, AdvanceStep, AscendStep, NotFoundStep
     DEF findNodeByName
<1>3. CASE CopyRow \/ Overrun \/ SkipNode \/ EndLoop
  BY <1>3, LoopStep
<1>4. CASE UNCHANGED vars
  BY <1>4 DEF vars, SearchInv, Typed, OnPath, NoneBefore, FirstInOrder, Frontier,
              Above, Caller
<1>5. CASE TakeUnparsable
  BY <1>5, UnparsableStep
<1> QED
  BY <1>1, <1>2, <1>3, <1>4, <1>5 DEF Next, Extract

(***************************************************************************)
(* findNodeByName returns the first node of the name in document order,    *)
(* and NULL only if there is none, for every document.                     *)
(***************************************************************************)
THEOREM FirstCorrect == Spec => []FirstInOrder
<1>1. SearchInv => FirstInOrder
  BY DEF SearchInv
<1> QED
  BY SearchInit, SearchStep, <1>1, PTL DEF Spec

-----------------------------------------------------------------------------
(* Induction over the numbers: a set holds those a statement is shown for. *)
LEMMA Induction ==
  ASSUME NEW S, 0 \in S, \A n \in Nat : n \in S => n + 1 \in S
  PROVE  Nat \subseteq S
PROOF
  <1> DEFINE T == Nat \ S
             R == {p \in Nat \X Nat : p[1] < p[2]}
  <1>1. IsWellFoundedOn(R, Nat)
    BY NatLessThanWellFounded DEF OpToRel
  <1>2. ASSUME T # {} PROVE FALSE
    <2> HIDE DEF R
    <2>1. PICK n \in T : \A m \in T : ~(<< m, n >> \in R)
      BY <1>1, <1>2, WFMin
    <2>2. n \in Nat /\ n # 0
      OBVIOUS
    <2>3. n - 1 \in Nat /\ (n - 1) + 1 = n
      BY <2>2
    <2>4. n - 1 \in T
      BY <2>1, <2>3
    <2>5. << n - 1, n >> \in R
      BY <2>2, <2>3 DEF R
    <2> QED
      BY <2>1, <2>4, <2>5
  <1> QED
    BY <1>2

-----------------------------------------------------------------------------
(***************************************************************************)
(* Ascending, which the contents of a node and the rows of a document are  *)
(* told with.                                                              *)
(***************************************************************************)

(* f is the function that Ascending defines by recursion. *)
Picks(S, N, f) ==
  f = [n \in 0 .. N |-> IF n = 0 THEN << >>
                        ELSE IF n \in S THEN Append(f[n - 1], n) ELSE f[n - 1]]

LEMMA PicksAt ==
  ASSUME NEW S, NEW N \in Nat, NEW f
  PROVE  Picks(S, N, f) <=>
           /\ f = [n \in 0 .. N |-> f[n]]
           /\ f[0] = << >>
           /\ \A n \in 1 .. N :
                f[n] = IF n \in S THEN Append(f[n - 1], n) ELSE f[n - 1]
<1> DEFINE step(n) == IF n = 0 THEN << >>
                      ELSE IF n \in S THEN Append(f[n - 1], n) ELSE f[n - 1]
<1>1. ASSUME Picks(S, N, f)
      PROVE  /\ f = [n \in 0 .. N |-> f[n]]
             /\ \A n \in 0 .. N : f[n] = step(n)
  <2>1. f = [n \in 0 .. N |-> step(n)]
    BY <1>1 DEF Picks
  <2> HIDE DEF step
  <2> QED
    BY <2>1
<1>2. ASSUME f = [n \in 0 .. N |-> f[n]], \A n \in 0 .. N : f[n] = step(n)
      PROVE  Picks(S, N, f)
  <2>1. f = [n \in 0 .. N |-> step(n)]
    <3> HIDE DEF step
    <3> QED
      BY <1>2
  <2> QED
    BY <2>1 DEF Picks
<1>3. (\A n \in 0 .. N : f[n] = step(n)) <=>
        /\ f[0] = << >>
        /\ \A n \in 1 .. N : f[n] = IF n \in S THEN Append(f[n - 1], n) ELSE f[n - 1]
  <2>1. 0 .. N = {0} \cup 1 .. N /\ 0 \notin 1 .. N
    OBVIOUS
  <2>2. step(0) = << >> /\ \A n \in 1 .. N :
          step(n) = IF n \in S THEN Append(f[n - 1], n) ELSE f[n - 1]
    BY <2>1
  <2> HIDE DEF step
  <2> QED
    BY <2>1, <2>2
<1> QED
  BY <1>1, <1>2, <1>3

LEMMA PicksExist ==
  ASSUME NEW S, NEW N \in Nat
  PROVE  \E f : Picks(S, N, f)
<1> DEFINE T == {n \in Nat : \E f : Picks(S, n, f)}
<1>1. 0 \in T
  <2> DEFINE f == [n \in 0 .. 0 |-> << >>]
  <2>1. f = [n \in 0 .. 0 |-> f[n]] /\ f[0] = << >> /\ 1 .. 0 = {}
    OBVIOUS
  <2>2. Picks(S, 0, f)
    <3> HIDE DEF f
    <3> QED
      BY <2>1, PicksAt
  <2> HIDE DEF f
  <2> QED
    BY <2>2
<1>2. ASSUME NEW n \in Nat, n \in T PROVE n + 1 \in T
  <2>1. PICK f : Picks(S, n, f)
    BY <1>2
  <2>2. f[0] = << >> /\ \A m \in 1 .. n : f[m] = IF m \in S THEN Append(f[m - 1], m) ELSE f[m - 1]
    BY <2>1, PicksAt
  <2> DEFINE top == IF n + 1 \in S THEN Append(f[n], n + 1) ELSE f[n]
             g == [m \in 0 .. n + 1 |-> IF m = n + 1 THEN top ELSE f[m]]
  <2>3. g = [m \in 0 .. n + 1 |-> g[m]] /\ g[n + 1] = top /\ \A m \in 0 .. n : g[m] = f[m]
    <3> HIDE DEF top
    <3> QED
      OBVIOUS
  <2> HIDE DEF g
  <2>4. \A m \in 1 .. n + 1 : g[m] = IF m \in S THEN Append(g[m - 1], m) ELSE g[m - 1]
    <3> SUFFICES ASSUME NEW m \in 1 .. n + 1
                 PROVE  g[m] = IF m \in S THEN Append(g[m - 1], m) ELSE g[m - 1]
      OBVIOUS
    <3>1. m - 1 \in 0 .. n
      OBVIOUS
    <3>4. g[m - 1] = f[m - 1]
      BY <2>3, <3>1
    <3>2. CASE m = n + 1
      <4>1. g[m] = top /\ m - 1 = n
        BY <3>2, <2>3
      <4> QED
        BY <3>2, <3>4, <4>1
    <3>3. CASE m # n + 1
      <4>1. m \in 1 .. n /\ m \in 0 .. n
        BY <3>3
      <4> QED
        BY <4>1, <3>4, <2>2, <2>3
    <3> QED
      BY <3>2, <3>3
  <2>5. g[0] = << >>
    <3>1. 0 \in 0 .. n
      OBVIOUS
    <3>2. g[0] = f[0]
      BY <2>3, <3>1
    <3> QED
      BY <2>2, <3>2
  <2>6. Picks(S, n + 1, g)
    BY SMTT(30), <2>3, <2>4, <2>5, PicksAt
  <2> QED
    BY <2>6
<1>3. N \in T
  BY <1>1, <1>2, Induction
<1> QED
  BY <1>3

LEMMA PicksUnique ==
  ASSUME NEW S, NEW N \in Nat, NEW f, NEW g, NEW M \in Nat, M <= N,
         Picks(S, M, f), Picks(S, N, g)
  PROVE  \A n \in 0 .. M : f[n] = g[n]
<1> DEFINE T == {n \in Nat : n <= M => f[n] = g[n]}
<1>1. /\ f[0] = << >> /\ g[0] = << >>
      /\ \A n \in 1 .. M : f[n] = IF n \in S THEN Append(f[n - 1], n) ELSE f[n - 1]
      /\ \A n \in 1 .. N : g[n] = IF n \in S THEN Append(g[n - 1], n) ELSE g[n - 1]
  <2>1. f[0] = << >> /\ \A n \in 1 .. M : f[n] = IF n \in S THEN Append(f[n - 1], n) ELSE f[n - 1]
    BY PicksAt
  <2>2. g[0] = << >> /\ \A n \in 1 .. N : g[n] = IF n \in S THEN Append(g[n - 1], n) ELSE g[n - 1]
    BY PicksAt
  <2> QED
    BY <2>1, <2>2
<1>2. 0 \in T
  BY <1>1
<1>3. ASSUME NEW n \in Nat, n \in T PROVE n + 1 \in T
  <2> SUFFICES ASSUME n + 1 <= M PROVE f[n + 1] = g[n + 1]
    OBVIOUS
  <2>1. n + 1 \in 1 .. M /\ n + 1 \in 1 .. N /\ (n + 1) - 1 = n /\ n <= M
    OBVIOUS
  <2>2. f[n] = g[n]
    BY <2>1, <1>3
  <2> QED
    BY <2>1, <2>2, <1>1
<1>4. Nat \subseteq T
  <2> HIDE DEF T
  <2> QED
    BY <1>2, <1>3, Induction
<1> QED
  BY <1>4

LEMMA PicksLast ==
  ASSUME NEW S, NEW N \in Nat, NEW f, N # 0, Picks(S, N, f)
  PROVE  f[N] = IF N \in S THEN Append(f[N - 1], N) ELSE f[N - 1]
<1>1. /\ f[0] = << >>
      /\ \A n \in 1 .. N : f[n] = IF n \in S THEN Append(f[n - 1], n) ELSE f[n - 1]
  BY SMTT(30), PicksAt
<1>2. N \in 1 .. N
  OBVIOUS
<1> QED
  BY <1>1, <1>2

(* Ascending, number by number. *)
LEMMA AscendingAt ==
  ASSUME NEW S
  PROVE  /\ Ascending(S, 0) = << >>
         /\ \A N \in Nat :
              Ascending(S, N + 1) = IF N + 1 \in S THEN Append(Ascending(S, N), N + 1)
                                    ELSE Ascending(S, N)
<1> DEFINE upTo(N) == CHOOSE f : Picks(S, N, f)
<1>1. ASSUME NEW N \in Nat PROVE Ascending(S, N) = upTo(N)[N] /\ Picks(S, N, upTo(N))
  <2>1. Picks(S, N, upTo(N))
    <3>1. \E f : Picks(S, N, f)
      BY PicksExist
    <3> QED
      BY <3>1
  <2>2. Ascending(S, N) = upTo(N)[N]
    BY DEF Ascending, Picks
  <2> QED
    BY <2>1, <2>2
<1> HIDE DEF upTo
<1>2. Ascending(S, 0) = << >>
  <2>1. upTo(0)[0] = << >>
    BY <1>1, PicksAt
  <2> QED
    BY <1>1, <2>1
<1>3. ASSUME NEW N \in Nat
      PROVE  Ascending(S, N + 1) = IF N + 1 \in S THEN Append(Ascending(S, N), N + 1)
                                   ELSE Ascending(S, N)
  <2>1. N + 1 \in Nat /\ N <= N + 1 /\ N + 1 \in 1 .. N + 1 /\ (N + 1) - 1 = N /\ N \in 0 .. N
    OBVIOUS
  <2>2. Picks(S, N, upTo(N)) /\ Picks(S, N + 1, upTo(N + 1))
    BY <1>1, <2>1
  <2>3. upTo(N)[N] = upTo(N + 1)[N]
    BY <2>1, <2>2, PicksUnique
  <2>4. upTo(N + 1)[N + 1] = IF N + 1 \in S THEN Append(upTo(N + 1)[N], N + 1)
                             ELSE upTo(N + 1)[N]
    <3>1. N + 1 \in Nat /\ N + 1 # 0
      OBVIOUS
    <3>2. upTo(N + 1)[N + 1] = IF N + 1 \in S THEN Append(upTo(N + 1)[(N + 1) - 1], N + 1)
                               ELSE upTo(N + 1)[(N + 1) - 1]
      BY <2>2, <3>1, PicksLast
    <3> QED
      BY <2>1, <3>2
  <2> QED
    BY <1>1, <2>1, <2>3, <2>4
<1> QED
  BY <1>2, <1>3

(* It is a sequence of members of S. *)
LEMMA AscendingSeq ==
  ASSUME NEW S, NEW N \in Nat
  PROVE  Ascending(S, N) \in Seq(S)
<1> DEFINE T == {n \in Nat : Ascending(S, n) \in Seq(S)}
<1>1. 0 \in T
  <2>1. << >> \in Seq(S)
    OBVIOUS
  <2> QED
    BY <2>1, AscendingAt, Zenon DEF T
<1>2. ASSUME NEW n \in Nat, n \in T PROVE n + 1 \in T
  <2>1. Ascending(S, n) \in Seq(S) /\ n + 1 \in Nat
    BY <1>2
  <2>2. n + 1 \in S => Append(Ascending(S, n), n + 1) \in Seq(S)
    BY <2>1, AppendProperties
  <2>3. Ascending(S, n + 1) \in Seq(S)
    BY <2>1, <2>2, AscendingAt
  <2> QED
    BY <2>1, <2>3
<1>3. N \in T
  <2> HIDE DEF T
  <2> QED
    BY <1>1, <1>2, Induction
<1> QED
  BY <1>3

(***************************************************************************)
(* A longer one begins with a shorter one, and is the same when no member  *)
(* of S lies between.                                                      *)
(***************************************************************************)
LEMMA AscendingPrefix ==
  ASSUME NEW S, NEW M \in Nat, NEW N \in Nat, M <= N
  PROVE  /\ Len(Ascending(S, M)) \in Nat /\ Len(Ascending(S, N)) \in Nat
         /\ Len(Ascending(S, M)) <= Len(Ascending(S, N))
         /\ \A r \in 1 .. Len(Ascending(S, M)) : Ascending(S, N)[r] = Ascending(S, M)[r]
         /\ (\A n \in M + 1 .. N : n \notin S) => Ascending(S, N) = Ascending(S, M)
<1> DEFINE A(n) == Ascending(S, n)
           Same(n) == \A m \in M + 1 .. M + n : m \notin S
           Begins(n) == /\ Len(A(M)) <= Len(A(M + n))
                        /\ \A r \in 1 .. Len(A(M)) : A(M + n)[r] = A(M)[r]
                        /\ Same(n) => A(M + n) = A(M)
           T == {n \in Nat : Begins(n)}
<1>1. \A n \in Nat : A(n) \in Seq(S) /\ Len(A(n)) \in Nat
  BY AscendingSeq, LenProperties
<1>2. \A n \in Nat : A(n + 1) = IF n + 1 \in S THEN Append(A(n), n + 1) ELSE A(n)
  BY AscendingAt
<1> HIDE DEF A
<1>3. 0 \in T
  <2>1. M + 0 = M
    OBVIOUS
  <2> QED
    BY <1>1, <2>1
<1>4. ASSUME NEW n \in Nat, n \in T PROVE n + 1 \in T
  <2>1. M + n \in Nat /\ (M + n) + 1 = M + (n + 1) /\ n + 1 \in Nat /\ Begins(n)
    BY <1>4
  <2>2. A(M + (n + 1)) = IF M + (n + 1) \in S THEN Append(A(M + n), M + (n + 1)) ELSE A(M + n)
    BY <1>2, <2>1
  <2>3. A(M) \in Seq(S) /\ A(M + n) \in Seq(S) /\ Len(A(M)) \in Nat /\ Len(A(M + n)) \in Nat
    BY <1>1, <2>1
  <2>4. CASE M + (n + 1) \in S
    <3> DEFINE x == M + (n + 1)
    <3>1. ~Same(n + 1)
      <4>1. x \in M + 1 .. M + (n + 1)
        OBVIOUS
      <4> QED
        BY <4>1, <2>4
    <3>2. /\ Len(A(x)) = Len(A(M + n)) + 1
          /\ \A r \in 1 .. Len(A(M + n)) : A(x)[r] = A(M + n)[r]
      <4> HIDE DEF x
      <4>1. x \in S /\ A(x) = Append(A(M + n), x)
        BY <2>2, <2>4 DEF x
      <4> QED
        BY <4>1, <2>3, AppendProperties
    <3> HIDE DEF x, Same
    <3>3. Begins(n + 1)
      BY <2>1, <2>3, <3>1, <3>2 DEF x
    <3> QED
      BY <2>1, <3>3
  <2>5. CASE M + (n + 1) \notin S
    <3>1. A(M + (n + 1)) = A(M + n)
      BY <2>2, <2>5
    <3>2. Same(n + 1) => Same(n)
      OBVIOUS
    <3> HIDE DEF Same
    <3>3. Begins(n + 1)
      BY <2>1, <3>1, <3>2
    <3> QED
      BY <2>1, <3>3
  <2> QED
    BY <2>4, <2>5
<1>5. N - M \in T
  <2> HIDE DEF T
  <2> QED
    BY <1>3, <1>4, Induction
<1>6. M + (N - M) = N
  OBVIOUS
<1> QED
  BY <1>1, <1>5, <1>6 DEF A

-----------------------------------------------------------------------------
(* The array: addresses, and how many octets a content has. *)
LEMMA AddressIs ==
  ASSUME NEW r \in Nat
  PROVE  /\ Address(r) \in Nat /\ Address(r + 1) = Address(r) + RowSize
         /\ \A s \in Nat : r <= s => Address(r) <= Address(s)
<1>1. RowSize \in Nat /\ RowSize > 0
  BY RowsAssumption
<1>2. Address(r) \in Nat /\ Address(r + 1) = Address(r) + RowSize
  BY <1>1 DEF Address
<1>3. ASSUME NEW s \in Nat, r <= s PROVE Address(r) <= Address(s)
  <2>1. s = r + (s - r) /\ s - r \in Nat
    BY <1>3
  <2>2. (s - r) * RowSize \in Nat
    BY <1>1, <2>1
  <2>3. s * RowSize = r * RowSize + (s - r) * RowSize
    BY <1>1
  <2> QED
    BY <1>1, <2>2, <2>3 DEF Address
<1> QED
  BY <1>2, <1>3

(* f is the function that Size defines by recursion, up to N texts. *)
Sums(content, N, f) ==
  f = [n \in 0 .. N |-> IF n = 0 THEN 0 ELSE f[n - 1] + TextLength[content[n]]]

LEMMA SumsAt ==
  ASSUME NEW content, NEW N \in Nat, NEW f
  PROVE  Sums(content, N, f) <=>
           /\ f = [n \in 0 .. N |-> f[n]]
           /\ f[0] = 0
           /\ \A n \in 1 .. N : f[n] = f[n - 1] + TextLength[content[n]]
<1> DEFINE step(n) == IF n = 0 THEN 0 ELSE f[n - 1] + TextLength[content[n]]
<1>1. ASSUME Sums(content, N, f)
      PROVE  f = [n \in 0 .. N |-> f[n]] /\ \A n \in 0 .. N : f[n] = step(n)
  <2>1. f = [n \in 0 .. N |-> step(n)]
    BY <1>1 DEF Sums
  <2> HIDE DEF step
  <2> QED
    BY <2>1
<1>2. ASSUME f = [n \in 0 .. N |-> f[n]], \A n \in 0 .. N : f[n] = step(n)
      PROVE  Sums(content, N, f)
  <2>1. f = [n \in 0 .. N |-> step(n)]
    <3> HIDE DEF step
    <3> QED
      BY <1>2
  <2> QED
    BY <2>1 DEF Sums
<1>3. (\A n \in 0 .. N : f[n] = step(n)) <=>
        f[0] = 0 /\ \A n \in 1 .. N : f[n] = f[n - 1] + TextLength[content[n]]
  <2>1. 0 .. N = {0} \cup 1 .. N /\ 0 \notin 1 .. N
    OBVIOUS
  <2>2. step(0) = 0 /\ \A n \in 1 .. N : step(n) = f[n - 1] + TextLength[content[n]]
    BY <2>1
  <2> HIDE DEF step
  <2> QED
    BY <2>1, <2>2
<1> QED
  BY <1>1, <1>2, <1>3

LEMMA SumsExist ==
  ASSUME NEW content, NEW N \in Nat
  PROVE  \E f : Sums(content, N, f)
<1> DEFINE T == {n \in Nat : \E f : Sums(content, n, f)}
<1>1. 0 \in T
  <2> DEFINE f == [n \in 0 .. 0 |-> 0]
  <2>1. f = [n \in 0 .. 0 |-> f[n]] /\ f[0] = 0 /\ 1 .. 0 = {}
    OBVIOUS
  <2> HIDE DEF f
  <2>2. Sums(content, 0, f)
    BY <2>1, SumsAt
  <2> QED
    BY <2>2
<1>2. ASSUME NEW n \in Nat, n \in T PROVE n + 1 \in T
  <2>1. PICK f : Sums(content, n, f)
    BY <1>2
  <2>2. f[0] = 0 /\ \A m \in 1 .. n : f[m] = f[m - 1] + TextLength[content[m]]
    BY <2>1, SumsAt
  <2> DEFINE top == f[n] + TextLength[content[n + 1]]
             g == [m \in 0 .. n + 1 |-> IF m = n + 1 THEN top ELSE f[m]]
  <2>3. g = [m \in 0 .. n + 1 |-> g[m]] /\ g[n + 1] = top /\ \A m \in 0 .. n : g[m] = f[m]
    <3> HIDE DEF top
    <3> QED
      OBVIOUS
  <2> HIDE DEF g
  <2>4. ASSUME NEW m \in 1 .. n + 1 PROVE g[m] = g[m - 1] + TextLength[content[m]]
    <3>1. m - 1 \in 0 .. n /\ g[m - 1] = f[m - 1]
      BY <2>3
    <3>2. CASE m = n + 1
      <4>1. g[m] = top /\ m - 1 = n
        BY <3>2, <2>3
      <4> QED
        BY <3>1, <3>2, <4>1
    <3>3. CASE m # n + 1
      <4>1. m \in 1 .. n /\ m \in 0 .. n
        BY <3>3
      <4> QED
        BY <3>1, <4>1, <2>2, <2>3
    <3> QED
      BY <3>2, <3>3
  <2>5. g[0] = 0
    <3>1. 0 \in 0 .. n
      OBVIOUS
    <3> QED
      BY <2>2, <2>3, <3>1
  <2>6. Sums(content, n + 1, g)
    <3>1. n + 1 \in Nat /\ g = [m \in 0 .. n + 1 |-> g[m]]
      BY <2>3
    <3>2. \A m \in 1 .. n + 1 : g[m] = g[m - 1] + TextLength[content[m]]
      BY <2>4
    <3> QED
      BY ZenonT(30), <3>1, <3>2, <2>5, SumsAt
  <2> QED
    BY <2>6
<1>3. N \in T
  <2> HIDE DEF T
  <2> QED
    BY <1>1, <1>2, Induction
<1> QED
  BY <1>3

(* The octets of any content are a number, and a text alone has its own. *)
LEMMA SizeIs ==
  ASSUME NEW content \in Seq(Texts)
  PROVE  /\ Size(content) \in Nat
         /\ Len(content) = 1 => Size(content) = TextLength[content[1]]
<1> DEFINE f == CHOOSE g : Sums(content, Len(content), g)
<1>1. Len(content) \in Nat /\ \A n \in 1 .. Len(content) : TextLength[content[n]] \in Nat
  <2>1. \A n \in 1 .. Len(content) : content[n] \in Texts
    BY ElementOfSeq
  <2> QED
    BY <2>1, RowsAssumption
<1>2. Sums(content, Len(content), f)
  <2>1. \E g : Sums(content, Len(content), g)
    BY <1>1, SumsExist
  <2> QED
    BY <2>1
<1>3. Size(content) = f[Len(content)]
  BY DEF Size, Sums
<1> HIDE DEF f
<1>4. f[0] = 0 /\ \A n \in 1 .. Len(content) : f[n] = f[n - 1] + TextLength[content[n]]
  BY <1>1, <1>2, SumsAt
<1> DEFINE T == {n \in Nat : n <= Len(content) => f[n] \in Nat}
<1>5. ASSUME NEW n \in Nat, n \in T PROVE n + 1 \in T
  <2> SUFFICES ASSUME n + 1 <= Len(content) PROVE f[n + 1] \in Nat
    OBVIOUS
  <2>1. n + 1 \in 1 .. Len(content) /\ (n + 1) - 1 = n /\ f[n] \in Nat
    BY <1>1, <1>5
  <2>2. f[n + 1] = f[n] + TextLength[content[n + 1]] /\ TextLength[content[n + 1]] \in Nat
    BY <1>1, <1>4, <2>1
  <2> QED
    BY <2>1, <2>2
<1>6. 0 \in T
  BY <1>4
<1>7. Len(content) \in T
  <2> HIDE DEF T
  <2> QED
    BY <1>1, <1>5, <1>6, Induction
<1>8. ASSUME Len(content) = 1 PROVE Size(content) = TextLength[content[1]]
  <2>1. 1 \in 1 .. Len(content) /\ 1 - 1 = 0
    BY <1>8
  <2>2. f[1] = f[0] + TextLength[content[1]] /\ TextLength[content[1]] \in Nat
    BY <1>1, <1>4, <2>1
  <2> QED
    BY <1>3, <1>4, <1>8, <2>2
<1> QED
  BY <1>1, <1>3, <1>7, <1>8

(* A copy that stays in the array: where it begins, and where it may write. *)
LEMMA InArrayIs ==
  ASSUME NEW r \in Nat, NEW content \in Seq(Texts), InArray(r, content)
  PROVE  /\ r < Rows
         /\ \A at \in 0 .. Size(content) : Address(r) + at \in Addresses
<1>1. Size(content) \in Nat /\ Rows \in Nat /\ Address(r) \in Nat /\ Address(Rows) \in Nat
  BY SizeIs, AddressIs, RowsAssumption
<1>2. Address(r) + Size(content) < Address(Rows)
  BY DEF InArray
<1>3. r < Rows
  <2>1. Rows <= r => Address(Rows) <= Address(r)
    BY <1>1, AddressIs
  <2> QED
    BY <1>1, <1>2, <2>1
<1> QED
  BY <1>1, <1>2, <1>3 DEF Addresses

-----------------------------------------------------------------------------
(***************************************************************************)
(* The invariant of the loop over the children: the rows copied so far are *)
(* those of the nodes before the one it is at, which is a child of the     *)
(* node found; none of them left the array, each has its row up to where   *)
(* the next begins, the last has all it takes, and what lies under none of *)
(* them is as it was.                                                      *)
(***************************************************************************)
Copying == pc \in {"copy", "overrun"} \/ (pc = "idle" /\ doc # << >>)

(* The first node that the loop has not passed, and the rows before it. *)
Reached == IF node = NULL THEN LastOf(doc, domain) + 1 ELSE node

Passed == Ascending(RowNodes(doc, domain), Reached - 1)

RowAt(r) == Content(doc, Passed[r])

RowsTyped ==
  /\ pc \in {"idle", "find", "copy", "crashed", "overrun"}
  /\ domain \in Nat /\ i \in 0 .. Rows
  /\ requestData \in Memory /\ before \in Memory
  /\ taken \in 0 .. MaxDocuments

AtChild ==
  /\ IsDocument(doc) /\ domain \in 1 .. Len(doc)
  /\ doc[domain].name = Sought
  /\ node # NULL => ChildOf(doc, domain, node)
  /\ pc = "idle" => node = NULL
  /\ pc = "overrun" => /\ node # NULL /\ doc[node].name = "DOMAINID"
                       /\ ~InRow(i, Content(doc, node))

RowsKept ==
  /\ i = Len(Passed)
  /\ \A r \in 1 .. i : RowAt(r) \in Seq(Texts) /\ InArray(r - 1, RowAt(r))
  /\ \A r \in 1 .. i : \A at \in 0 .. Size(RowAt(r)) :
       r = i \/ at < RowSize => requestData[Address(r - 1) + at] = Octet(RowAt(r), at)
  /\ \A a \in Addresses :
       (\A r \in 1 .. i : a - Address(r - 1) \notin 0 .. Size(RowAt(r)))
         => requestData[a] = before[a]

RowsInv ==
  /\ SearchInv
  /\ RowsTyped
  /\ pc = "find" => requestData = before
  /\ Copying => AtChild /\ RowsKept

(* The contents of a node are texts. *)
LEMMA ContentType ==
  ASSUME NEW d \in Seq(Nodes), IsDocument(d), NEW n \in 1 .. Len(d)
  PROVE  Content(d, n) \in Seq(Texts)
<1> DEFINE texts == {m \in n .. d[n].last : d[m].name = "text"}
           at == Ascending(texts, d[n].last)
<1>1. d[n].last \in n .. Len(d)
  BY DEF IsDocument
<1>2. d[n].last \in Nat /\ texts \subseteq 1 .. Len(d)
  BY <1>1
<1>3. at \in Seq(texts)
  <2> HIDE DEF texts
  <2> QED
    BY <1>2, AscendingSeq
<1> HIDE DEF at, texts
<1>4. \A k \in 1 .. Len(at) : at[k] \in texts
  BY <1>3, ElementOfSeq
<1>5. \A k \in 1 .. Len(at) : d[at[k]].text \in Texts
  <2> SUFFICES ASSUME NEW k \in 1 .. Len(at) PROVE d[at[k]].text \in Texts
    OBVIOUS
  <2>1. at[k] \in 1 .. Len(d)
    BY <1>2, <1>4
  <2>2. d[at[k]] \in Nodes
    BY <2>1, ElementOfSeq
  <2> QED
    BY <2>2 DEF Nodes
<1>6. DOMAIN at = 1 .. Len(at) /\ Len(at) \in Nat
  BY <1>3, LenProperties
<1>7. Content(d, n) = [k \in 1 .. Len(at) |-> d[at[k]].text]
  BY <1>6 DEF Content, at, texts
<1> QED
  BY <1>5, <1>6, <1>7, IsASeq

(* No child of a node lies inside another. *)
LEMMA NoneInside ==
  ASSUME NEW d \in Seq(Nodes), IsDocument(d), NEW p \in 0 .. Len(d),
         NEW n \in 1 .. Len(d), ChildOf(d, p, n), NEW m \in n + 1 .. d[n].last
  PROVE  m \notin RowNodes(d, p)
<1>1. d[n].last \in n .. Len(d)
  BY DEF IsDocument
<1>2. p < n
  BY DEF ChildOf
<1>3. n \in p + 1 .. m - 1 /\ ~(d[n].last < m)
  BY <1>1, <1>2
<1> QED
  BY <1>3 DEF RowNodes, ChildOf

(* What the loop passes with a step: the node it was at, if that has a row. *)
LEMMA PassNode ==
  ASSUME NEW d \in Seq(Nodes), IsDocument(d), NEW p \in 0 .. Len(d),
         NEW n \in 1 .. Len(d), ChildOf(d, p, n)
  PROVE  LET q == IF next(d, n) = NULL THEN LastOf(d, p) + 1 ELSE next(d, n)
         IN  /\ Ascending(RowNodes(d, p), n - 1) \in Seq(RowNodes(d, p))
             /\ next(d, n) # NULL =>
                  next(d, n) \in 1 .. Len(d) /\ ChildOf(d, p, next(d, n))
             /\ Ascending(RowNodes(d, p), q - 1)
                  = IF d[n].name = "DOMAINID"
                    THEN Append(Ascending(RowNodes(d, p), n - 1), n)
                    ELSE Ascending(RowNodes(d, p), n - 1)
<1> DEFINE S == RowNodes(d, p)
           q == IF next(d, n) = NULL THEN LastOf(d, p) + 1 ELSE next(d, n)
<1>1. d[n].last \in n .. Len(d) /\ n - 1 \in Nat /\ (n - 1) + 1 = n /\ d[n].last \in Nat
  BY DEF IsDocument
<1>2. q - 1 = d[n].last
  BY <1>1, NextSibling
<1>3. \A m \in n + 1 .. d[n].last : m \notin S
  BY NoneInside
<1>4. n \in S <=> d[n].name = "DOMAINID"
  BY DEF RowNodes
<1> HIDE DEF S, q
<1>5. Ascending(S, n - 1) \in Seq(S)
  BY <1>1, AscendingSeq
<1>6. Ascending(S, d[n].last) = Ascending(S, n)
  BY <1>1, <1>3, AscendingPrefix
<1>7. Ascending(S, n) = IF n \in S THEN Append(Ascending(S, n - 1), n) ELSE Ascending(S, n - 1)
  BY ZenonT(30), <1>1, AscendingAt
<1>8. Ascending(S, q - 1) = IF d[n].name = "DOMAINID" THEN Append(Ascending(S, n - 1), n)
                            ELSE Ascending(S, n - 1)
  BY <1>2, <1>4, <1>6, <1>7
<1> QED
  BY <1>5, <1>8, NextSibling DEF S, q

(* What the loop has passed is the beginning of the rows of the document. *)
LEMMA PassedRows ==
  ASSUME doc \in Seq(Nodes), AtChild, node \in 0 .. Len(doc)
  PROVE  LET ids == Ascending(RowNodes(doc, domain), Len(doc))
         IN  /\ ids \in Seq(RowNodes(doc, domain)) /\ Len(ids) \in Nat
             /\ Len(Passed) \in Nat /\ Len(Passed) <= Len(ids)
             /\ \A r \in 1 .. Len(Passed) : ids[r] = Passed[r]
             /\ node = NULL => ids = Passed
             /\ (node # NULL /\ doc[node].name = "DOMAINID")
                  => Len(Passed) + 1 <= Len(ids) /\ ids[Len(Passed) + 1] = node
             /\ RowsOf(doc, domain) = [k \in 1 .. Len(ids) |-> Content(doc, ids[k])]
<1> DEFINE S == RowNodes(doc, domain)
           ids == Ascending(S, Len(doc))
<1>1. IsDocument(doc) /\ domain \in 1 .. Len(doc) /\ Len(doc) \in Nat
  BY DEF AtChild
<1>2. LastOf(doc, domain) \in Nat /\ LastOf(doc, domain) <= Len(doc)
  BY <1>1 DEF LastOf, NULL, IsDocument
<1>3. Reached - 1 \in Nat /\ Reached - 1 <= Len(doc)
  BY <1>2 DEF Reached, NULL
<1>4. Passed = Ascending(S, Reached - 1)
  BY DEF Passed
<1>5. node = NULL => \A n \in Reached - 1 + 1 .. Len(doc) : n \notin S
  BY <1>2 DEF Reached, RowNodes, ChildOf
<1>6. ASSUME node # NULL, doc[node].name = "DOMAINID"
      PROVE  Len(Passed) + 1 <= Len(ids) /\ ids[Len(Passed) + 1] = node
  <2>1. node \in 1 .. Len(doc) /\ Reached = node /\ node - 1 \in Nat /\ (node - 1) + 1 = node
    BY <1>6 DEF Reached, NULL
  <2>2. node \in S
    BY <2>1, <1>6 DEF RowNodes, AtChild
  <2> HIDE DEF S
  <2>3. Ascending(S, node) = Append(Passed, node)
    <3>1. Ascending(S, (node - 1) + 1) = Append(Ascending(S, node - 1), (node - 1) + 1)
      BY <2>1, <2>2, AscendingAt
    <3> QED
      BY <3>1, <2>1, <1>4
  <2>4. Passed \in Seq(S)
    BY <1>3, <1>4, AscendingSeq
  <2>5. Len(Ascending(S, node)) = Len(Passed) + 1 /\ Ascending(S, node)[Len(Passed) + 1] = node
    BY <2>2, <2>3, <2>4, AppendProperties
  <2>6. /\ Len(Ascending(S, node)) <= Len(ids)
        /\ \A r \in 1 .. Len(Ascending(S, node)) : ids[r] = Ascending(S, node)[r]
    BY <1>1, <2>1, AscendingPrefix
  <2>7. Len(Passed) \in Nat
    BY <2>4, LenProperties
  <2> HIDE DEF ids
  <2> QED
    BY <2>5, <2>6, <2>7
<1> HIDE DEF S
<1>7. ids \in Seq(S)
  BY <1>1, AscendingSeq
<1>8. /\ Len(Passed) \in Nat /\ Len(ids) \in Nat /\ Len(Passed) <= Len(ids)
      /\ \A r \in 1 .. Len(Passed) : ids[r] = Passed[r]
      /\ node = NULL => ids = Passed
  BY <1>1, <1>3, <1>4, <1>5, AscendingPrefix
<1>9. DOMAIN ids = 1 .. Len(ids)
  BY <1>7, LenProperties
<1>10. RowsOf(doc, domain) = [k \in 1 .. Len(ids) |-> Content(doc, ids[k])]
  BY <1>9 DEF RowsOf, S
<1> HIDE DEF ids
<1> QED
  BY <1>6, <1>7, <1>8, <1>10 DEF S, ids

-----------------------------------------------------------------------------
LEMMA RowsInit == Init => RowsInv
<1> SUFFICES ASSUME Init PROVE RowsInv
  OBVIOUS
<1>1. Rows \in Nat \ {0} /\ MaxDocuments \in Nat
  BY RowsAssumption
<1>2. [a \in Addresses |-> Zero] \in Memory
  <2>1. << >> \in Seq(Texts)
    OBVIOUS
  <2>2. Zero \in [of : Seq(Texts), at : Nat]
    BY <2>1 DEF Zero, Octet
  <2> QED
    BY <2>2 DEF Memory
<1>3. RowsTyped
  BY <1>1, <1>2 DEF Init, RowsTyped, NULL
<1> QED
  BY <1>3, SearchInit DEF Init, RowsInv, Copying

LEMMA RowsTake ==
  ASSUME RowsInv, (\E d \in Documents : TakeDocument(d)) \/ TakeUnparsable
  PROVE  RowsTyped' /\ (pc = "find" => requestData = before)'
                    /\ (Copying => AtChild /\ RowsKept)'
<1>1. PICK n \in {0, 1} : /\ pc' = IF n = 0 THEN "crashed" ELSE "find"
                          /\ taken < MaxDocuments /\ taken' = taken + 1
                          /\ before' = requestData
                          /\ UNCHANGED << domain, i, requestData >>
  BY DEF TakeDocument, TakeUnparsable
<1>2. RowsTyped'
  BY <1>1, RowsAssumption DEF RowsInv, RowsTyped
<1> QED
  BY <1>1, <1>2 DEF Copying

(* Before the node is found nothing is copied. *)
LEMMA RowsFind ==
  ASSUME RowsInv, Descend \/ Advance \/ Ascend \/ NotFound
  PROVE  RowsTyped' /\ (pc = "find" => requestData = before)'
                    /\ (Copying => AtChild /\ RowsKept)'
<1>1. /\ pc = "find" /\ pc' \in {"find", "crashed"}
      /\ UNCHANGED << domain, i, requestData, before, taken >>
  BY DEF Descend, Advance, Ascend, NotFound, Differs
<1>2. RowsTyped'
  BY <1>1 DEF RowsInv, RowsTyped
<1> QED
  BY <1>1, <1>2 DEF Copying, RowsInv

(* The loop starts before the first child, where no row was passed. *)
LEMMA RowsMatch ==
  ASSUME RowsInv, Matches
  PROVE  RowsTyped' /\ (pc = "find" => requestData = before)'
                    /\ (Copying => AtChild /\ RowsKept)'
<1>1. /\ doc \in Seq(Nodes) /\ IsDocument(doc) /\ node \in 1 .. Len(doc)
      /\ doc[node].name = Sought /\ requestData = before
  BY DEF Matches, RowsInv, SearchInv, Typed, NULL
<1>2. /\ pc' = "copy" /\ domain' = node /\ i' = 0 /\ doc' = doc
      /\ UNCHANGED << requestData, taken, before >>
      /\ node' = children(doc, node)
  BY DEF Matches
<1>3. RowsTyped'
  <2>1. Rows \in Nat \ {0}
    BY RowsAssumption
  <2> QED
    BY <2>1, <1>1, <1>2 DEF RowsInv, RowsTyped
<1>4. AtChild'
  BY <1>1, <1>2, ChildExists DEF AtChild
<1>5. Reached' - 1 = node
  BY <1>1, <1>2, ChildExists DEF Reached, LastOf, NULL
<1>6. Passed' = << >>
  <2> DEFINE S == RowNodes(doc, node)
  <2>1. Passed' = Ascending(S, node)
    BY <1>2, <1>5 DEF Passed
  <2>2. \A n \in 0 + 1 .. node : n \notin S
    BY <1>1 DEF RowNodes, ChildOf
  <2>3. node \in Nat /\ 0 \in Nat /\ 0 <= node
    BY <1>1
  <2> HIDE DEF S
  <2> QED
    BY ZenonT(30), <2>1, <2>2, <2>3, AscendingPrefix, AscendingAt
<1>7. RowsKept'
  <2>1. Len(<< >>) = 0 /\ 1 .. 0 = {}
    OBVIOUS
  <2> HIDE DEF Passed
  <2> QED
    BY <1>1, <1>2, <1>6, <2>1 DEF RowsKept
<1> QED
  BY <1>2, <1>3, <1>4, <1>7

(* A child that asks for a row: what was passed grows by it, as the array does. *)
LEMMA RowsCopy ==
  ASSUME RowsInv, CopyRow
  PROVE  RowsTyped' /\ (pc = "find" => requestData = before)'
                    /\ (Copying => AtChild /\ RowsKept)'
<1> DEFINE c == Content(doc, node)
<1>1. /\ pc = "copy" /\ pc' = "copy" /\ node # NULL /\ doc[node].name = "DOMAINID"
      /\ InArray(i, c)
      /\ requestData' = strcpy(i, c)
      /\ i' = i + 1 /\ node' = next(doc, node)
      /\ UNCHANGED << doc, domain, taken, before >>
  BY DEF CopyRow, AtRow, InLoop
<1>2. RowsTyped /\ AtChild /\ RowsKept /\ doc \in Seq(Nodes) /\ node \in 0 .. Len(doc)
  BY <1>1 DEF RowsInv, SearchInv, Typed, Copying
<1>3. /\ node \in 1 .. Len(doc) /\ IsDocument(doc) /\ domain \in 0 .. Len(doc)
      /\ ChildOf(doc, domain, node)
  BY <1>1, <1>2 DEF AtChild, NULL
<1>4. c \in Seq(Texts)
  BY <1>2, <1>3, ContentType
<1> HIDE DEF c
<1>5. /\ i \in Nat /\ i + 1 \in 0 .. Rows
      /\ Address(i) \in Nat /\ Size(c) \in Nat
      /\ \A at \in 0 .. Size(c) : Address(i) + at \in Addresses
  <2>1. Rows \in Nat /\ i \in 0 .. Rows
    BY RowsAssumption, <1>2 DEF RowsTyped
  <2>2. i < Rows /\ \A at \in 0 .. Size(c) : Address(i) + at \in Addresses
    BY <2>1, <1>1, <1>4, InArrayIs
  <2> QED
    BY <2>1, <2>2, <1>4, AddressIs, SizeIs
<1>6. \A a \in Addresses :
        requestData'[a] = IF a - Address(i) \in 0 .. Size(c) THEN Octet(c, a - Address(i))
                          ELSE requestData[a]
  BY <1>1 DEF strcpy
<1>7. RowsTyped'
  <2>1. requestData \in Memory
    BY <1>2 DEF RowsTyped
  <2>2. ASSUME NEW a \in Addresses PROVE requestData'[a] \in [of : Seq(Texts), at : Nat]
    <3>1. CASE a - Address(i) \in 0 .. Size(c)
      <4>1. Octet(c, a - Address(i)) \in [of : Seq(Texts), at : Nat]
        BY <3>1, <1>4 DEF Octet
      <4> QED
        BY <3>1, <4>1, <1>6
    <3>2. CASE ~(a - Address(i) \in 0 .. Size(c))
      BY <3>2, <1>6, <2>1 DEF Memory
    <3> QED
      BY <3>1, <3>2
  <2>3. requestData' = [a \in Addresses |-> requestData'[a]]
    BY <1>1 DEF strcpy
  <2>4. requestData' \in Memory
    BY <2>2, <2>3 DEF Memory
  <2> QED
    BY <1>1, <1>2, <1>5, <2>4 DEF RowsTyped
<1>8. /\ Passed \in Seq(RowNodes(doc, domain))
      /\ node' # NULL => ChildOf(doc, domain, node')
      /\ Passed' = Append(Passed, node)
  BY <1>1, <1>2, <1>3, PassNode DEF Passed, Reached
<1>9. AtChild'
  BY <1>1, <1>3, <1>8, <1>2 DEF AtChild
<1>10. RowsKept'
  <2>1. i = Len(Passed) /\ Len(Passed) \in Nat
    BY <1>2, <1>8, LenProperties DEF RowsKept
  <2>2. node \in RowNodes(doc, domain)
    BY <1>1, <1>3 DEF RowNodes
  <2>3. /\ Len(Passed') = i + 1 /\ Passed'[i + 1] = node
        /\ \A r \in 1 .. i : Passed'[r] = Passed[r]
    BY <2>1, <2>2, <1>8, AppendProperties
  <2> HIDE DEF Passed
  <2>4. /\ \A r \in 1 .. i : RowAt(r)' = RowAt(r)
        /\ \A r \in 1 .. i + 1 : r = i + 1 => RowAt(r)' = c
    BY <1>1, <2>3 DEF RowAt, c
  <2> HIDE DEF RowAt
  <2>5. /\ \A r \in 1 .. i : RowAt(r) \in Seq(Texts) /\ InArray(r - 1, RowAt(r))
        /\ \A r \in 1 .. i : \A at \in 0 .. Size(RowAt(r)) :
             at < RowSize => requestData[Address(r - 1) + at] = Octet(RowAt(r), at)
        /\ \A a \in Addresses :
             (\A r \in 1 .. i : a - Address(r - 1) \notin 0 .. Size(RowAt(r)))
               => requestData[a] = before[a]
    BY <1>2 DEF RowsKept
  <2>6. ASSUME NEW r \in 1 .. i + 1
        PROVE  RowAt(r)' \in Seq(Texts) /\ InArray(r - 1, RowAt(r)')
    <3>1. CASE r \in 1 .. i
      BY <3>1, <2>4, <2>5
    <3>2. CASE r = i + 1
      BY <3>2, <2>4, <1>1, <1>4, <1>5
    <3> QED
      BY <3>1, <3>2, <1>5
  <2>7. ASSUME NEW r \in 1 .. i + 1, NEW at \in 0 .. Size(RowAt(r)'), r = i + 1 \/ at < RowSize
        PROVE  requestData'[Address(r - 1) + at] = Octet(RowAt(r)', at)
    <3>1. CASE r = i + 1
      <4>1. r - 1 = i /\ RowAt(r)' = c /\ at \in 0 .. Size(c)
        BY <3>1, <2>4, <2>7, <1>5
      <4>2. Address(i) + at \in Addresses /\ (Address(i) + at) - Address(i) = at
        BY <4>1, <1>5
      <4> QED
        BY <4>1, <4>2, <1>6
    <3>2. CASE r # i + 1
      <4>1. r \in 1 .. i /\ r - 1 \in Nat /\ (r - 1) + 1 = r /\ r \in Nat /\ at < RowSize
        BY <3>2, <2>7, <1>5
      <4>2. RowAt(r)' = RowAt(r) /\ at \in 0 .. Size(RowAt(r))
        BY <4>1, <2>4, <2>7
      <4>3. RowAt(r) \in Seq(Texts) /\ InArray(r - 1, RowAt(r))
        BY <4>1, <2>5
      <4>4. Address(r - 1) + at \in Addresses
        BY <4>1, <4>2, <4>3, InArrayIs
      <4>5. Address(r - 1) \in Nat /\ Address(r) = Address(r - 1) + RowSize /\ Address(r) <= Address(i)
        <5>1. Address(r - 1) \in Nat /\ Address((r - 1) + 1) = Address(r - 1) + RowSize
          BY <4>1, AddressIs
        <5>2. Address(r) <= Address(i)
          BY <4>1, <1>5, AddressIs
        <5> QED
          BY <4>1, <5>1, <5>2
      <4>6. ~((Address(r - 1) + at) - Address(i) \in 0 .. Size(c))
        <5>1. RowSize \in Nat /\ at \in Int
          BY RowsAssumption
        <5> QED
          BY <5>1, <4>1, <4>5, <1>5
      <4>7. requestData'[Address(r - 1) + at] = requestData[Address(r - 1) + at]
        BY <4>4, <4>6, <1>6
      <4> QED
        BY <4>1, <4>2, <4>7, <2>5
    <3> QED
      BY <3>1, <3>2
  <2>8. ASSUME NEW a \in Addresses,
               \A r \in 1 .. i + 1 : a - Address(r - 1) \notin 0 .. Size(RowAt(r)')
        PROVE  requestData'[a] = before[a]
    <3>1. \A r \in 1 .. i : a - Address(r - 1) \notin 0 .. Size(RowAt(r))
      <4> SUFFICES ASSUME NEW r \in 1 .. i
                   PROVE  a - Address(r - 1) \notin 0 .. Size(RowAt(r))
        OBVIOUS
      <4>1. r \in 1 .. i + 1 /\ RowAt(r)' = RowAt(r)
        BY <1>5, <2>4
      <4> QED
        BY <4>1, <2>8
    <3>2. a - Address(i) \notin 0 .. Size(c)
      <4>1. i + 1 \in 1 .. i + 1 /\ (i + 1) - 1 = i
        BY <1>5
      <4>2. \A r \in 1 .. i + 1 : r = i + 1 => r - 1 = i /\ a - Address(r - 1) \notin 0 .. Size(c)
        BY <1>5, <2>4, <2>8
      <4> QED
        BY <4>1, <4>2
    <3> QED
      BY <3>1, <3>2, <2>5, <1>6
  <2>9. i' = i + 1 /\ before' = before
    BY <1>1
  <2> QED
    BY <2>3, <2>6, <2>7, <2>8, <2>9 DEF RowsKept
<1> QED
  BY <1>1, <1>7, <1>9, <1>10

(* A child that does not: what was passed stays, and so does the array. *)
LEMMA RowsSkip ==
  ASSUME RowsInv, SkipNode
  PROVE  RowsTyped' /\ (pc = "find" => requestData = before)'
                    /\ (Copying => AtChild /\ RowsKept)'
<1>1. /\ pc = "copy" /\ pc' = "copy" /\ node # NULL /\ doc[node].name # "DOMAINID"
      /\ node' = next(doc, node)
      /\ UNCHANGED << doc, domain, i, requestData, taken, before >>
  BY DEF SkipNode, InLoop
<1>2. RowsTyped /\ AtChild /\ RowsKept /\ doc \in Seq(Nodes) /\ node \in 0 .. Len(doc)
  BY <1>1 DEF RowsInv, SearchInv, Typed, Copying
<1>3. /\ node \in 1 .. Len(doc) /\ IsDocument(doc) /\ domain \in 0 .. Len(doc)
      /\ ChildOf(doc, domain, node)
  BY <1>1, <1>2 DEF AtChild, NULL
<1>4. RowsTyped'
  BY <1>1, <1>2 DEF RowsTyped
<1>5. (node' # NULL => ChildOf(doc, domain, node')) /\ Passed' = Passed
  BY <1>1, <1>2, <1>3, PassNode DEF Passed, Reached
<1>6. AtChild'
  BY <1>1, <1>3, <1>5, <1>2 DEF AtChild
<1>7. RowsKept'
  <2> HIDE DEF Passed
  <2> QED
    BY <1>1, <1>2, <1>5 DEF RowsKept, RowAt
<1> QED
  BY <1>1, <1>4, <1>6, <1>7

(* The loop ends at a row that is left, or behind the last child. *)
LEMMA RowsStop ==
  ASSUME RowsInv, Overrun \/ EndLoop
  PROVE  RowsTyped' /\ (pc = "find" => requestData = before)'
                    /\ (Copying => AtChild /\ RowsKept)'
<1>1. /\ pc = "copy" /\ pc' \in {"overrun", "idle"}
      /\ pc' = "idle" => node = NULL
      /\ pc' = "overrun" => /\ node # NULL /\ doc[node].name = "DOMAINID"
                            /\ ~InRow(i, Content(doc, node))
      /\ UNCHANGED << doc, node, domain, i, requestData, taken, before >>
  BY DEF Overrun, EndLoop, AtRow, InLoop
<1>2. RowsTyped /\ AtChild /\ RowsKept
  BY <1>1 DEF RowsInv, Copying
<1>3. RowsTyped'
  BY <1>1, <1>2 DEF RowsTyped
<1>4. AtChild'
  BY <1>1, <1>2 DEF AtChild, InRow
<1>5. RowsKept'
  BY <1>1, <1>2 DEF RowsKept, RowAt, Passed, Reached
<1> QED
  BY <1>1, <1>3, <1>4, <1>5

LEMMA RowsStep == ASSUME RowsInv, [Next]_vars PROVE RowsInv'
<1>1. SearchInv'
  BY SearchStep DEF RowsInv
<1>2. CASE (\E d \in Documents : TakeDocument(d)) \/ TakeUnparsable
  BY <1>1, <1>2, RowsTake DEF RowsInv
<1>3. CASE findNodeByName
  BY <1>1, <1>3, RowsMatch, RowsFind DEF RowsInv, findNodeByName
<1>4. CASE CopyRow \/ SkipNode
  BY <1>1, <1>4, RowsCopy, RowsSkip DEF RowsInv
<1>5. CASE Overrun \/ EndLoop
  BY <1>1, <1>5, RowsStop DEF RowsInv
<1>6. CASE UNCHANGED vars
  <2>1. RowsTyped'
    BY <1>6 DEF vars, RowsInv, RowsTyped
  <2>2. Copying' = Copying /\ (AtChild /\ RowsKept => AtChild' /\ RowsKept')
    BY <1>6 DEF vars, Copying, AtChild, RowsKept, RowAt, Passed, Reached, InRow
  <2>3. (pc = "find" => requestData = before)'
    BY <1>6 DEF vars, RowsInv
  <2> QED
    BY <1>1, <2>1, <2>2, <2>3 DEF RowsInv
<1> QED
  BY <1>2, <1>3, <1>4, <1>5, <1>6 DEF Next, Extract

LEMMA RowsInvariant == Spec => []RowsInv
  BY RowsInit, RowsStep, PTL DEF Spec

-----------------------------------------------------------------------------
(***************************************************************************)
(* The listener never leaves the document with node, nor counts a row that *)
(* the array has not.                                                      *)
(***************************************************************************)
THEOREM TypeCorrect == Spec => []TypeOK
<1>1. RowsInv => TypeOK
  BY DEF RowsInv, SearchInv, Typed, RowsTyped, TypeOK
<1> QED
  BY <1>1, RowsInvariant, PTL

(* What was passed are the first rows of the document. *)
LEMMA RowsAre ==
  ASSUME RowsInv, Copying
  PROVE  LET rows == RowsOf(doc, domain)
         IN  /\ RowsKept /\ i \in Nat /\ Len(rows) \in Nat /\ i <= Len(rows)
             /\ DOMAIN rows = 1 .. Len(rows)
             /\ \A r \in 1 .. i : rows[r] = RowAt(r)
             /\ pc = "idle" => Len(rows) = i
             /\ pc = "overrun" => i + 1 <= Len(rows) /\ ~InRow(i, rows[i + 1])
<1> DEFINE ids == Ascending(RowNodes(doc, domain), Len(doc))
           rows == RowsOf(doc, domain)
<1>1. AtChild /\ RowsKept /\ doc \in Seq(Nodes) /\ node \in 0 .. Len(doc) /\ i \in Nat
  BY RowsAssumption DEF RowsInv, SearchInv, Typed, RowsTyped
<1>2. /\ Len(ids) \in Nat /\ i = Len(Passed) /\ i <= Len(ids)
      /\ \A r \in 1 .. i : ids[r] = Passed[r]
      /\ node = NULL => ids = Passed
      /\ (node # NULL /\ doc[node].name = "DOMAINID")
           => i + 1 <= Len(ids) /\ ids[i + 1] = node
      /\ rows = [k \in 1 .. Len(ids) |-> Content(doc, ids[k])]
  BY <1>1, PassedRows DEF RowsKept
<1> HIDE DEF ids, rows
<1>3. DOMAIN rows = 1 .. Len(ids) /\ Len(rows) = Len(ids)
      /\ \A k \in 1 .. Len(ids) : rows[k] = Content(doc, ids[k])
  BY <1>2
<1>4. \A r \in 1 .. i : rows[r] = RowAt(r)
  BY <1>1, <1>2, <1>3 DEF RowAt
<1>5. pc = "idle" => Len(rows) = i
  BY <1>1, <1>2, <1>3 DEF AtChild
<1>6. ASSUME pc = "overrun" PROVE i + 1 <= Len(rows) /\ ~InRow(i, rows[i + 1])
  <2>1. i + 1 \in 1 .. Len(ids) /\ ids[i + 1] = node /\ ~InRow(i, Content(doc, node))
    BY <1>1, <1>2, <1>6 DEF AtChild
  <2>2. rows[i + 1] = Content(doc, node)
    BY <1>3, <2>1
  <2> QED
    BY <1>3, <2>1, <2>2
<1> QED
  BY <1>1, <1>2, <1>3, <1>4, <1>5, <1>6 DEF rows

(***************************************************************************)
(* The array holds the rows of the request copied so far, one for each     *)
(* DOMAINID child in order, each up to the next row and the last whole,    *)
(* and under none of them what was there when the request was taken, for   *)
(* documents, texts and arrays of every size.                              *)
(***************************************************************************)
THEOREM RowsCorrect == Spec => []RowsCopied
<1>1. RowsInv => RowsCopied
  <2> SUFFICES ASSUME RowsInv, Copying PROVE RowsCopied
    BY DEF Copying, RowsCopied
  <2> DEFINE rows == RowsOf(doc, domain)
             copied == IF pc = "idle" THEN Len(rows) ELSE i
  <2>1. /\ RowsKept /\ i \in Nat /\ Len(rows) \in Nat /\ i <= Len(rows)
        /\ \A r \in 1 .. i : rows[r] = RowAt(r)
        /\ pc = "idle" => Len(rows) = i
    BY RowsAre
  <2> HIDE DEF rows
  <2>2. copied = i /\ copied <= Len(rows)
    BY <2>1
  <2> HIDE DEF copied
  <2>3. ASSUME NEW r \in 1 .. copied, NEW at \in 0 .. Size(rows[r]), r = copied \/ at < RowSize
        PROVE  requestData[Address(r - 1) + at] = Octet(rows[r], at)
    <3>1. r \in 1 .. i /\ rows[r] = RowAt(r)
      BY <2>1, <2>2
    <3> QED
      BY <3>1, <2>1, <2>2, <2>3 DEF RowsKept
  <2>4. ASSUME NEW a \in Addresses, \A r \in 1 .. copied : ~Covers(rows, r, a)
        PROVE  requestData[a] = before[a]
    <3>1. \A r \in 1 .. i : a - Address(r - 1) \notin 0 .. Size(RowAt(r))
      BY <2>1, <2>2, <2>4 DEF Covers
    <3> QED
      BY <3>1, <2>1 DEF RowsKept
  <2> QED
    BY <2>2, <2>3, <2>4 DEF RowsCopied, copied, rows
<1> QED
  BY <1>1, RowsInvariant, PTL

(***************************************************************************)
(* Only a row too many, or one too long for its place, is copied over the  *)
(* end of the array or stopped, and whatever came through stayed inside,   *)
(* whatever the sizes of texts, rows and array.                            *)
(***************************************************************************)
THEOREM OverrunCorrect == Spec => []OverrunCaused
<1>1. RowsInv => OverrunCaused
  <2> SUFFICES ASSUME RowsInv, Copying PROVE OverrunCaused
    BY DEF Copying, OverrunCaused
  <2> DEFINE rows == RowsOf(doc, domain)
  <2>1. /\ RowsKept /\ i \in Nat /\ Len(rows) \in Nat
        /\ \A r \in 1 .. i : rows[r] = RowAt(r)
        /\ pc = "idle" => Len(rows) = i
        /\ pc = "overrun" => i + 1 <= Len(rows) /\ ~InRow(i, rows[i + 1])
    BY RowsAre
  <2> HIDE DEF rows
  <2>2. ASSUME pc = "overrun" PROVE \E r \in 1 .. Len(rows) : ~InRow(r - 1, rows[r])
    <3>1. i + 1 \in 1 .. Len(rows) /\ (i + 1) - 1 = i /\ ~InRow(i, rows[i + 1])
      BY <2>1, <2>2
    <3> QED
      BY <3>1
  <2>3. ASSUME pc = "idle", NEW r \in 1 .. Len(rows) PROVE InArray(r - 1, rows[r])
    <3>1. r \in 1 .. i /\ rows[r] = RowAt(r)
      BY <2>1, <2>3
    <3> QED
      BY <3>1, <2>1 DEF RowsKept
  <2> QED
    BY <2>2, <2>3 DEF OverrunCaused, rows
<1> QED
  BY <1>1, RowsInvariant, PTL

-----------------------------------------------------------------------------
(***************************************************************************)
(* Where the nodes of a printed document are.                              *)
(***************************************************************************)
AreElements(es) == Len(es) \in Nat /\ \A n \in 1 .. Len(es) : es[n].depth \in Nat

(* f is the function that Starts defines by recursion, up to N elements. *)
Places(es, N, f) ==
  f = [n \in 1 .. N + 1 |-> IF n = 1 THEN 1 ELSE f[n - 1] + Width(es, n - 1)]

LEMMA PlacesAt ==
  ASSUME NEW es, NEW N \in Nat, NEW f
  PROVE  Places(es, N, f) <=>
           /\ f = [n \in 1 .. N + 1 |-> f[n]]
           /\ f[1] = 1
           /\ \A n \in 1 .. N : f[n + 1] = f[n] + Width(es, n)
<1> DEFINE step(n) == IF n = 1 THEN 1 ELSE f[n - 1] + Width(es, n - 1)
<1>1. ASSUME Places(es, N, f)
      PROVE  f = [n \in 1 .. N + 1 |-> f[n]] /\ \A n \in 1 .. N + 1 : f[n] = step(n)
  <2>1. f = [n \in 1 .. N + 1 |-> step(n)]
    BY <1>1 DEF Places
  <2> HIDE DEF step
  <2> QED
    BY <2>1
<1>2. ASSUME f = [n \in 1 .. N + 1 |-> f[n]], \A n \in 1 .. N + 1 : f[n] = step(n)
      PROVE  Places(es, N, f)
  <2>1. f = [n \in 1 .. N + 1 |-> step(n)]
    <3> HIDE DEF step
    <3> QED
      BY <1>2
  <2> QED
    BY <2>1 DEF Places
<1>3. (\A n \in 1 .. N + 1 : f[n] = step(n)) <=>
        f[1] = 1 /\ \A n \in 1 .. N : f[n + 1] = f[n] + Width(es, n)
  <2>1. step(1) = 1 /\ 1 \in 1 .. N + 1
    OBVIOUS
  <2>2. \A n \in 1 .. N : step(n + 1) = f[n] + Width(es, n) /\ n + 1 \in 1 .. N + 1
    <3> SUFFICES ASSUME NEW n \in 1 .. N
                 PROVE  step(n + 1) = f[n] + Width(es, n) /\ n + 1 \in 1 .. N + 1
      OBVIOUS
    <3>1. n + 1 # 1 /\ (n + 1) - 1 = n /\ n + 1 \in 1 .. N + 1
      OBVIOUS
    <3> QED
      BY <3>1, Zenon
  <2>3. \A n \in 1 .. N + 1 : n # 1 => \E m \in 1 .. N : n = m + 1
    <3> SUFFICES ASSUME NEW n \in 1 .. N + 1, n # 1 PROVE \E m \in 1 .. N : n = m + 1
      OBVIOUS
    <3>1. n - 1 \in 1 .. N /\ n = (n - 1) + 1
      OBVIOUS
    <3> QED
      BY <3>1
  <2> HIDE DEF step
  <2>4. ASSUME \A n \in 1 .. N + 1 : f[n] = step(n)
        PROVE  f[1] = 1 /\ \A n \in 1 .. N : f[n + 1] = f[n] + Width(es, n)
    BY <2>1, <2>2, <2>4
  <2>5. ASSUME f[1] = 1, \A n \in 1 .. N : f[n + 1] = f[n] + Width(es, n)
        PROVE  \A n \in 1 .. N + 1 : f[n] = step(n)
    <3> SUFFICES ASSUME NEW n \in 1 .. N + 1 PROVE f[n] = step(n)
      OBVIOUS
    <3>1. CASE n = 1
      BY <2>1, <2>5, <3>1
    <3>2. CASE n # 1
      <4>1. PICK m \in 1 .. N : n = m + 1
        BY <2>3, <3>2
      <4>2. f[m + 1] = f[m] + Width(es, m) /\ step(m + 1) = f[m] + Width(es, m)
        BY <2>2, <2>5
      <4> QED
        BY <4>1, <4>2
    <3> QED
      BY <3>1, <3>2
  <2> QED
    BY <2>4, <2>5
<1> QED
  BY <1>1, <1>2, <1>3

LEMMA PlacesExist ==
  ASSUME NEW es, NEW N \in Nat
  PROVE  \E f : Places(es, N, f)
<1> DEFINE T == {n \in Nat : \E f : Places(es, n, f)}
<1>1. 0 \in T
  <2> DEFINE f == [n \in 1 .. 0 + 1 |-> 1]
  <2>1. f = [n \in 1 .. 0 + 1 |-> f[n]] /\ f[1] = 1 /\ 1 .. 0 = {}
    OBVIOUS
  <2>2. Places(es, 0, f)
    <3> HIDE DEF f
    <3> QED
      BY <2>1, PlacesAt
  <2> HIDE DEF f
  <2> QED
    BY <2>2
<1>2. ASSUME NEW n \in Nat, n \in T PROVE n + 1 \in T
  <2>1. PICK f : Places(es, n, f)
    BY <1>2
  <2>2. f[1] = 1 /\ \A m \in 1 .. n : f[m + 1] = f[m] + Width(es, m)
    BY <2>1, PlacesAt
  <2> DEFINE top == f[n + 1] + Width(es, n + 1)
             g == [m \in 1 .. (n + 1) + 1 |-> IF m = n + 2 THEN top ELSE f[m]]
  <2>3. /\ g = [m \in 1 .. (n + 1) + 1 |-> g[m]] /\ g[n + 2] = top
        /\ \A m \in 1 .. n + 1 : g[m] = f[m]
    <3> HIDE DEF top
    <3> QED
      OBVIOUS
  <2> HIDE DEF g
  <2>4. ASSUME NEW m \in 1 .. n + 1 PROVE g[m + 1] = g[m] + Width(es, m)
    <3>1. g[m] = f[m]
      BY <2>3
    <3>2. CASE m = n + 1
      <4>1. m + 1 = n + 2
        BY <3>2
      <4> QED
        BY <3>1, <3>2, <4>1, <2>3
    <3>3. CASE m # n + 1
      <4>1. m \in 1 .. n /\ m + 1 \in 1 .. n + 1
        BY <3>3
      <4> QED
        BY <3>1, <4>1, <2>2, <2>3
    <3> QED
      BY <3>2, <3>3
  <2>5. g[1] = 1
    <3>1. 1 \in 1 .. n + 1
      OBVIOUS
    <3> QED
      BY <2>2, <2>3, <3>1
  <2>6. Places(es, n + 1, g)
    <3>1. n + 1 \in Nat
      OBVIOUS
    <3>2. Places(es, n + 1, g) <=>
            /\ g = [m \in 1 .. (n + 1) + 1 |-> g[m]]
            /\ g[1] = 1
            /\ \A m \in 1 .. n + 1 : g[m + 1] = g[m] + Width(es, m)
      BY Zenon, <3>1, PlacesAt
    <3> QED
      BY <2>3, <2>4, <2>5, <3>2
  <2> QED
    BY <2>6
<1>3. N \in T
  <2> HIDE DEF T
  <2> QED
    BY <1>1, <1>2, Induction
<1> QED
  BY <1>3

(* Starts, element by element. *)
LEMMA StartsAt ==
  ASSUME NEW es, AreElements(es)
  PROVE  /\ Starts(es)[1] = 1
         /\ \A n \in 1 .. Len(es) : Starts(es)[n + 1] = Starts(es)[n] + Width(es, n)
<1> DEFINE f == CHOOSE g : Places(es, Len(es), g)
<1>1. Len(es) \in Nat
  BY DEF AreElements
<1>2. Places(es, Len(es), f)
  <2>1. \E g : Places(es, Len(es), g)
    BY <1>1, PlacesExist
  <2> QED
    BY <2>1
<1>3. Starts(es) = f
  BY DEF Starts, Places
<1> HIDE DEF f
<1> QED
  BY <1>1, <1>2, <1>3, PlacesAt

(* Every element takes a node, and two unless it is the last. *)
LEMMA WidthIs ==
  ASSUME NEW es, AreElements(es), NEW n \in 1 .. Len(es)
  PROVE  /\ Width(es, n) \in Nat /\ Width(es, n) >= 1
         /\ HasText(es, n) => Width(es, n) >= 2
         /\ n < Len(es) =>
              Width(es, n) >= 2 /\ (HasText(es, n) => Width(es, n) >= 3)
<1>1. Len(es) \in Nat /\ \A k \in 1 .. Len(es) : es[k].depth \in Nat
  BY DEF AreElements
<1>2. DepthAt(es, n) \in Nat /\ DepthAt(es, n + 1) \in Nat
  BY <1>1 DEF DepthAt
<1>3. Closed(es, n) \in Nat
  BY <1>2 DEF Closed
<1>4. Blank(es, n + 1) \in Nat /\ (n < Len(es) => Blank(es, n + 1) = 1)
  BY <1>1 DEF Blank
<1> QED
  BY <1>3, <1>4 DEF Width

(* The places are numbers that grow. *)
LEMMA StartsGrow ==
  ASSUME NEW es, AreElements(es)
  PROVE  /\ \A n \in 1 .. Len(es) + 1 : Starts(es)[n] \in Nat /\ Starts(es)[n] >= n
         /\ \A m, n \in 1 .. Len(es) + 1 : m < n => Starts(es)[m] < Starts(es)[n]
<1> DEFINE at == Starts(es)
           N == Len(es)
<1>1. N \in Nat
  BY DEF AreElements
<1>2. at[1] = 1 /\ \A n \in 1 .. N : at[n + 1] = at[n] + Width(es, n)
  BY StartsAt
<1>3. \A n \in 1 .. N : Width(es, n) \in Nat /\ Width(es, n) >= 1
  BY WidthIs
<1> HIDE DEF at, N
<1>4. \A n \in 1 .. N + 1 : at[n] \in Nat /\ at[n] >= n
  <2> DEFINE T == {n \in Nat : n <= N => at[n + 1] \in Nat /\ at[n + 1] >= n + 1}
  <2>1. 0 \in T
    BY <1>2
  <2>2. ASSUME NEW n \in Nat, n \in T PROVE n + 1 \in T
    <3> SUFFICES ASSUME n + 1 <= N PROVE at[(n + 1) + 1] \in Nat /\ at[(n + 1) + 1] >= (n + 1) + 1
      OBVIOUS
    <3>1. n + 1 \in 1 .. N /\ n <= N
      BY <1>1
    <3>2. at[n + 1] \in Nat /\ at[n + 1] >= n + 1
      BY <2>2, <3>1
    <3> QED
      BY <3>1, <3>2, <1>2, <1>3
  <2>3. Nat \subseteq T
    <3> HIDE DEF T
    <3> QED
      BY <2>1, <2>2, Induction
  <2>4. ASSUME NEW n \in 1 .. N + 1 PROVE at[n] \in Nat /\ at[n] >= n
    <3>1. n - 1 \in Nat /\ n - 1 <= N /\ (n - 1) + 1 = n
      BY <1>1
    <3> QED
      BY <3>1, <2>3
  <2> QED
    BY <2>4
<1>5. ASSUME NEW m \in 1 .. N + 1, NEW n \in 1 .. N + 1, m < n PROVE at[m] < at[n]
  <2> DEFINE T == {j \in Nat : (m + 1) + j <= N + 1 => at[m] < at[(m + 1) + j]}
  <2>1. 0 \in T
    <3> SUFFICES ASSUME (m + 1) + 0 <= N + 1 PROVE at[m] < at[(m + 1) + 0]
      OBVIOUS
    <3>1. m \in 1 .. N /\ (m + 1) + 0 = m + 1
      BY <1>1
    <3> QED
      BY <3>1, <1>2, <1>3, <1>4
  <2>2. ASSUME NEW j \in Nat, j \in T PROVE j + 1 \in T
    <3> SUFFICES ASSUME (m + 1) + (j + 1) <= N + 1 PROVE at[m] < at[(m + 1) + (j + 1)]
      OBVIOUS
    <3> DEFINE k == (m + 1) + j
    <3>1. k \in 1 .. N /\ k \in 1 .. N + 1 /\ (m + 1) + (j + 1) = k + 1 /\ k <= N + 1
      BY <1>1
    <3>2. at[m] < at[k]
      BY <2>2, <3>1
    <3> HIDE DEF k
    <3> QED
      BY <3>1, <3>2, <1>2, <1>3, <1>4
  <2>3. Nat \subseteq T
    <3> HIDE DEF T
    <3> QED
      BY <2>1, <2>2, Induction
  <2>4. n - (m + 1) \in Nat /\ (m + 1) + (n - (m + 1)) = n /\ n <= N + 1
    BY <1>1, <1>5
  <2> QED
    BY <2>3, <2>4
<1> QED
  BY <1>4, <1>5 DEF at, N

(* Every node is one of exactly one element. *)
LEMMA OwnerIs ==
  ASSUME NEW es, AreElements(es), NEW n \in 1 .. Len(es), NEW k \in Nat,
         Starts(es)[n] <= k, k < Starts(es)[n + 1]
  PROVE  Owner(es, Starts(es), k) = n
<1> DEFINE at == Starts(es)
           N == Len(es)
<1>1. N \in Nat
  BY DEF AreElements
<1>2. /\ \A m \in 1 .. N + 1 : at[m] \in Nat
      /\ \A l, m \in 1 .. N + 1 : l < m => at[l] < at[m]
  BY StartsGrow
<1>3. at[n] <= k /\ k < at[n + 1]
  OBVIOUS
<1> HIDE DEF at
<1>4. ASSUME NEW m \in 1 .. N, at[m] <= k, k < at[m + 1] PROVE m = n
  <2>1. CASE m < n
    <3>1. m + 1 \in 1 .. N + 1 /\ n \in 1 .. N + 1 /\ (m + 1 = n \/ m + 1 < n)
      BY <1>1, <2>1
    <3>2. at[m + 1] \in Nat /\ at[n] \in Nat /\ at[m + 1] <= at[n]
      BY <3>1, <1>2
    <3> QED
      BY <3>2, <1>3, <1>4
  <2>2. CASE n < m
    <3>1. n + 1 \in 1 .. N + 1 /\ m \in 1 .. N + 1 /\ (n + 1 = m \/ n + 1 < m)
      BY <1>1, <2>2
    <3>2. at[n + 1] \in Nat /\ at[m] \in Nat /\ at[n + 1] <= at[m]
      BY <3>1, <1>2
    <3> QED
      BY <3>2, <1>3, <1>4
  <2> QED
    BY <1>1, <2>1, <2>2
<1>5. Owner(es, at, k) = CHOOSE m \in 1 .. N : at[m] <= k /\ k < at[m + 1]
  BY DEF Owner
<1> HIDE DEF N
<1> QED
  BY <1>3, <1>4, <1>5 DEF at, N

LEMMA OwnerExists ==
  ASSUME NEW es, AreElements(es), NEW k \in Nat, k >= 1, k < Starts(es)[Len(es) + 1]
  PROVE  \E n \in 1 .. Len(es) : Starts(es)[n] <= k /\ k < Starts(es)[n + 1]
<1> DEFINE at == Starts(es)
           N == Len(es)
           Found == \E n \in 1 .. N : at[n] <= k /\ k < at[n + 1]
           T == {n \in Nat : n <= N /\ k < at[n + 1] => Found}
<1>1. N \in Nat
  BY DEF AreElements
<1>2. at[1] = 1 /\ \A m \in 1 .. N + 1 : at[m] \in Nat
  BY StartsAt, StartsGrow
<1> HIDE DEF at, N
<1>3. 0 \in T
  BY <1>2
<1>4. ASSUME NEW n \in Nat, n \in T PROVE n + 1 \in T
  <2> SUFFICES ASSUME n + 1 <= N, k < at[(n + 1) + 1] PROVE Found
    OBVIOUS
  <2>1. n + 1 \in 1 .. N /\ n <= N /\ n + 1 \in 1 .. N + 1
    BY <1>1
  <2>2. CASE k < at[n + 1]
    BY <2>1, <2>2, <1>4
  <2>3. CASE ~(k < at[n + 1])
    <3>1. at[n + 1] <= k
      BY <2>1, <2>3, <1>2
    <3> QED
      BY <2>1, <3>1
  <2> QED
    BY <2>2, <2>3
<1>5. N \in T
  <2> HIDE DEF T
  <2> QED
    BY <1>1, <1>3, <1>4, Induction
<1>6. k < at[N + 1] /\ N <= N
  BY <1>1 DEF at, N
<1>7. Found
  BY <1>5, <1>6
<1> QED
  BY <1>7 DEF at, N

(* The nodes of an element: itself, its text, and blanks. *)
LEMMA NodesIs ==
  ASSUME NEW es, AreElements(es), Len(es) >= 1
  PROVE  LET at == Starts(es)
             d  == Printed(es)
         IN  /\ Len(d) \in Nat /\ Len(d) = at[Len(es) + 1] - 1
             /\ \A n \in 1 .. Len(es) :
                  /\ at[n] \in 1 .. Len(d)
                  /\ d[at[n]] = Element(es[n].name, LastAt(es, at, n))
                  /\ \A k \in at[n] + 1 .. at[n + 1] - 1 :
                       /\ k \in 1 .. Len(d)
                       /\ d[k] = TextNode(IF k = at[n] + 1 /\ HasText(es, n) THEN es[n].text
                                          ELSE "blank", k)
             /\ \A k \in 1 .. Len(d) :
                  \E n \in 1 .. Len(es) : at[n] <= k /\ k < at[n + 1]
<1> DEFINE at == Starts(es)
           d == Printed(es)
           N == Len(es)
           text(n, k) == IF k = at[n] + 1 /\ HasText(es, n) THEN es[n].text ELSE "blank"
<1>1. N \in Nat /\ N >= 1
  BY DEF AreElements
<1>2. /\ \A m \in 1 .. N + 1 : at[m] \in Nat /\ at[m] >= m
      /\ \A l, m \in 1 .. N + 1 : l < m => at[l] < at[m]
  BY StartsGrow
<1>3. d = [k \in 1 .. at[N + 1] - 1 |-> NodeOf(es, at, k)]
  BY DEF Printed
<1>4. \A n \in 1 .. N : \A k \in Nat :
        at[n] <= k /\ k < at[n + 1] => Owner(es, at, k) = n
  BY OwnerIs
<1>5. \A k \in Nat : k >= 1 /\ k < at[N + 1] =>
        \E n \in 1 .. N : at[n] <= k /\ k < at[n + 1]
  BY OwnerExists
<1> HIDE DEF at, d, N
<1>6. at[N + 1] \in Nat /\ at[N + 1] - 1 \in Nat
  BY <1>1, <1>2
<1>7. Len(d) = at[N + 1] - 1 /\ \A k \in 1 .. Len(d) : d[k] = NodeOf(es, at, k)
  BY <1>3, <1>6
<1>8. ASSUME NEW n \in 1 .. N, NEW k \in Nat, at[n] <= k, k < at[n + 1]
      PROVE  /\ k \in 1 .. Len(d)
             /\ d[k] = IF k = at[n] THEN Element(es[n].name, LastAt(es, at, n))
                       ELSE TextNode(text(n, k), k)
  <2>1. n + 1 = N + 1 \/ n + 1 < N + 1
    BY <1>1
  <2>2. n \in 1 .. N + 1 /\ n + 1 \in 1 .. N + 1 /\ N + 1 \in 1 .. N + 1
    BY <1>1
  <2>3. k \in 1 .. Len(d)
    BY <1>2, <1>6, <1>7, <1>8, <2>1, <2>2
  <2>4. d[k] = NodeOf(es, at, k)
    BY <1>7, <2>3
  <2>5. Owner(es, at, k) = n
    BY <1>4, <1>8
  <2> QED
    BY <2>3, <2>4, <2>5, Zenon DEF NodeOf
<1>9. ASSUME NEW n \in 1 .. N
      PROVE  /\ at[n] \in 1 .. Len(d)
             /\ d[at[n]] = Element(es[n].name, LastAt(es, at, n))
             /\ \A k \in at[n] + 1 .. at[n + 1] - 1 :
                  k \in 1 .. Len(d) /\ d[k] = TextNode(text(n, k), k)
  <2>1. n \in 1 .. N + 1 /\ n + 1 \in 1 .. N + 1 /\ n < n + 1
    BY <1>1
  <2>2. at[n] \in Nat /\ at[n + 1] \in Nat /\ at[n] <= at[n] /\ at[n] < at[n + 1]
    BY <1>2, <2>1
  <2>3. at[n] \in 1 .. Len(d) /\ d[at[n]] = Element(es[n].name, LastAt(es, at, n))
    BY <1>8, <2>2
  <2>4. ASSUME NEW k \in at[n] + 1 .. at[n + 1] - 1
        PROVE  k \in 1 .. Len(d) /\ d[k] = TextNode(text(n, k), k)
    <3>1. k \in Nat /\ at[n] <= k /\ k < at[n + 1] /\ k # at[n]
      BY <2>2
    <3> HIDE DEF text
    <3> QED
      BY <1>8, <3>1
  <2> QED
    BY <2>3, <2>4
<1>10. ASSUME NEW k \in 1 .. Len(d) PROVE \E n \in 1 .. N : at[n] <= k /\ k < at[n + 1]
  <2>1. k \in Nat /\ k >= 1 /\ k < at[N + 1]
    BY <1>6, <1>7
  <2> QED
    BY <1>5, <2>1
<1> HIDE DEF text
<1>11. Len(d) \in Nat /\ Len(d) = at[N + 1] - 1
  BY <1>6, <1>7
<1> QED
  BY <1>9, <1>10, <1>11 DEF at, d, N, text

(* It has no other names than those of the elements. *)
LEMMA NamesOf ==
  ASSUME NEW es, AreElements(es), Len(es) >= 1
  PROVE  \A k \in 1 .. Len(Printed(es)) :
           \/ Printed(es)[k].name = "text"
           \/ \E n \in 1 .. Len(es) :
                k = Starts(es)[n] /\ Printed(es)[k].name = es[n].name
<1> DEFINE at == Starts(es)
           d == Printed(es)
<1> SUFFICES ASSUME NEW k \in 1 .. Len(d)
             PROVE  \/ d[k].name = "text"
                    \/ \E n \in 1 .. Len(es) : k = at[n] /\ d[k].name = es[n].name
  OBVIOUS
<1>1. PICK n \in 1 .. Len(es) : at[n] <= k /\ k < at[n + 1]
  BY NodesIs
<1>2. at[n] \in Nat /\ at[n + 1] \in Nat /\ k \in Nat
  <2>1. n \in 1 .. Len(es) + 1 /\ n + 1 \in 1 .. Len(es) + 1
    BY DEF AreElements
  <2> QED
    BY <2>1, StartsGrow, NodesIs
<1>3. CASE k = at[n]
  <2>1. d[k] = Element(es[n].name, LastAt(es, at, n))
    BY <1>3, NodesIs
  <2>2. d[k].name = es[n].name
    BY <2>1 DEF Element
  <2> QED
    BY <1>3, <2>2
<1>4. CASE k # at[n]
  <2>1. k \in at[n] + 1 .. at[n + 1] - 1
    BY <1>1, <1>2, <1>4
  <2>2. d[k] = TextNode(IF k = at[n] + 1 /\ HasText(es, n) THEN es[n].text ELSE "blank", k)
    BY <2>1, NodesIs
  <2> QED
    BY <2>2 DEF TextNode
<1> QED
  BY <1>3, <1>4

-----------------------------------------------------------------------------
(***************************************************************************)
(* A list of leaves below a spine of elements, which the requests and the  *)
(* responses about data are.                                               *)
(***************************************************************************)
Listing(names, leaf, values) == Spine(names) \o Leaves(Len(names), leaf, values)

LEMMA ListingIs ==
  ASSUME NEW S, NEW names \in Seq(S), NEW values \in Seq(S), NEW leaf
  PROVE  LET es == Listing(names, leaf, values)
             D  == Len(names)
         IN  /\ D \in Nat /\ Len(values) \in Nat
             /\ Len(es) = D + Len(values)
             /\ \A n \in 1 .. D : es[n] = At(n - 1, names[n], "none")
             /\ \A n \in D + 1 .. D + Len(values) : es[n] = At(D, leaf, values[n - D])
             /\ AreElements(es)
<1> DEFINE D == Len(names)
           V == Len(values)
           es == Listing(names, leaf, values)
           T == {At(n - 1, names[n], "none") : n \in 1 .. D} \cup
                {At(D, leaf, values[n]) : n \in 1 .. V}
<1>1. D \in Nat /\ V \in Nat /\ DOMAIN names = 1 .. D /\ DOMAIN values = 1 .. V
  BY LenProperties
<1>2. Spine(names) = [n \in 1 .. D |-> At(n - 1, names[n], "none")]
  BY <1>1 DEF Spine
<1>3. Leaves(D, leaf, values) = [n \in 1 .. V |-> At(D, leaf, values[n])]
  BY <1>1 DEF Leaves
<1>4. es = Spine(names) \o Leaves(D, leaf, values)
  BY DEF Listing
<1> HIDE DEF D, V, es
<1>5. Spine(names) \in Seq(T) /\ Leaves(D, leaf, values) \in Seq(T)
  <2>1. \A n \in 1 .. D : At(n - 1, names[n], "none") \in T
    OBVIOUS
  <2>2. \A n \in 1 .. V : At(D, leaf, values[n]) \in T
    OBVIOUS
  <2> HIDE DEF T
  <2> QED
    BY <1>1, <1>2, <1>3, <2>1, <2>2, IsASeq
<1> HIDE DEF T
<1>6. Len(Spine(names)) = D /\ Len(Leaves(D, leaf, values)) = V
  BY <1>1, <1>2, <1>3
<1>7. /\ Len(es) = D + V
      /\ \A n \in 1 .. D + V : es[n] = IF n <= D THEN Spine(names)[n]
                                        ELSE Leaves(D, leaf, values)[n - D]
  BY <1>4, <1>5, <1>6, ConcatProperties
<1>8. \A n \in 1 .. D : es[n] = At(n - 1, names[n], "none")
  <2> SUFFICES ASSUME NEW n \in 1 .. D PROVE es[n] = At(n - 1, names[n], "none")
    OBVIOUS
  <2>1. n \in 1 .. D + V /\ n <= D
    BY <1>1
  <2> QED
    BY <2>1, <1>2, <1>7
<1>9. \A n \in D + 1 .. D + V : es[n] = At(D, leaf, values[n - D])
  <2> SUFFICES ASSUME NEW n \in D + 1 .. D + V PROVE es[n] = At(D, leaf, values[n - D])
    OBVIOUS
  <2>1. n \in 1 .. D + V /\ ~(n <= D) /\ n - D \in 1 .. V
    BY <1>1
  <2> QED
    BY <2>1, <1>3, <1>7
<1>10. AreElements(es)
  <2> SUFFICES ASSUME NEW n \in 1 .. D + V PROVE es[n].depth \in Nat
    BY <1>1, <1>7 DEF AreElements
  <2>1. CASE n \in 1 .. D
    <3>1. es[n] = At(n - 1, names[n], "none")
      BY <1>8, <2>1
    <3>2. es[n].depth = n - 1
      BY <3>1 DEF At
    <3> QED
      BY <1>1, <2>1, <3>2
  <2>2. CASE n \in D + 1 .. D + V
    <3>1. es[n] = At(D, leaf, values[n - D])
      BY <1>9, <2>2
    <3>2. es[n].depth = D
      BY <3>1 DEF At
    <3> QED
      BY <1>1, <3>2
  <2> QED
    BY <1>1, <2>1, <2>2
<1> QED
  BY <1>1, <1>7, <1>8, <1>9, <1>10 DEF D, V, es

(* How deep its elements are, and what follows which. *)
LEMMA ListingDepths ==
  ASSUME NEW S, NEW names \in Seq(S), NEW values \in Seq(S), NEW leaf, Len(names) >= 1
  PROVE  LET es == Listing(names, leaf, values)
             D  == Len(names)
             N  == Len(es)
         IN  /\ \A n \in 1 .. D : DepthAt(es, n) = n - 1
             /\ \A n \in D + 1 .. N : DepthAt(es, n) = D
             /\ DepthAt(es, N + 1) = 0
             /\ Follower(es, D) = N + 1
             /\ \A n \in D + 1 .. N : Follower(es, n) = n + 1
<1> DEFINE D == Len(names)
           V == Len(values)
           es == Listing(names, leaf, values)
           N == Len(es)
<1>1. /\ D \in Nat /\ D >= 1 /\ V \in Nat /\ N = D + V
      /\ \A n \in 1 .. D : es[n] = At(n - 1, names[n], "none")
      /\ \A n \in D + 1 .. D + V : es[n] = At(D, leaf, values[n - D])
  BY ListingIs
<1>2. \A n \in Int : DepthAt(es, n) = IF n > N THEN 0 ELSE es[n].depth
  BY DEF DepthAt
<1> HIDE DEF D, V, es, N
<1>3. ASSUME NEW n \in 1 .. D PROVE DepthAt(es, n) = n - 1
  <2>1. es[n] = At(n - 1, names[n], "none")
    BY <1>1
  <2>2. es[n].depth = n - 1
    BY <2>1 DEF At
  <2> QED
    BY <1>1, <1>2, <2>2
<1>4. ASSUME NEW n \in D + 1 .. N PROVE DepthAt(es, n) = D
  <2>1. es[n] = At(D, leaf, values[n - D])
    BY <1>1
  <2>2. es[n].depth = D
    BY <2>1 DEF At
  <2> QED
    BY <1>1, <1>2, <2>2
<1>5. DepthAt(es, N + 1) = 0
  BY <1>1, <1>2
<1>6. \A n : Follower(es, n) = CHOOSE m \in n + 1 .. N + 1 :
                                 /\ DepthAt(es, m) <= DepthAt(es, n)
                                 /\ \A k \in n + 1 .. m - 1 : DepthAt(es, k) > DepthAt(es, n)
  BY DEF Follower, N
<1>7. Follower(es, D) = N + 1
  <2> DEFINE P(m) == /\ DepthAt(es, m) <= DepthAt(es, D)
                     /\ \A k \in D + 1 .. m - 1 : DepthAt(es, k) > DepthAt(es, D)
  <2>1. DepthAt(es, D) = D - 1
    BY <1>1, <1>3
  <2>2. N + 1 \in D + 1 .. N + 1 /\ P(N + 1)
    BY <1>1, <1>4, <1>5, <2>1
  <2>3. ASSUME NEW m \in D + 1 .. N + 1, P(m) PROVE m = N + 1
    <3> SUFFICES ASSUME m # N + 1 PROVE FALSE
      OBVIOUS
    <3>1. m \in D + 1 .. N
      BY <1>1
    <3>2. DepthAt(es, m) = D /\ DepthAt(es, m) <= DepthAt(es, D)
      BY <1>4, <2>3, <3>1
    <3> QED
      BY <1>1, <2>1, <3>2
  <2>4. Follower(es, D) = CHOOSE m \in D + 1 .. N + 1 : P(m)
    BY <1>6
  <2> HIDE DEF P
  <2> QED
    BY <2>2, <2>3, <2>4
<1>8. ASSUME NEW n \in D + 1 .. N PROVE Follower(es, n) = n + 1
  <2> DEFINE P(m) == /\ DepthAt(es, m) <= DepthAt(es, n)
                     /\ \A k \in n + 1 .. m - 1 : DepthAt(es, k) > DepthAt(es, n)
  <2>1. DepthAt(es, n) = D
    BY <1>4
  <2>2. DepthAt(es, n + 1) \in {0, D} /\ n + 1 \in n + 1 .. N + 1
    <3>1. (n + 1 = N + 1 \/ n + 1 \in D + 1 .. N) /\ n + 1 \in n + 1 .. N + 1
      BY <1>1
    <3>2. n + 1 = N + 1 => DepthAt(es, n + 1) = 0
      BY <1>5
    <3>3. n + 1 \in D + 1 .. N => DepthAt(es, n + 1) = D
      BY <1>4
    <3> QED
      BY <3>1, <3>2, <3>3
  <2>3. P(n + 1)
    <3>1. n + 1 .. (n + 1) - 1 = {}
      BY <1>1
    <3> QED
      BY <1>1, <2>1, <2>2, <3>1
  <2>4. ASSUME NEW m \in n + 1 .. N + 1, P(m) PROVE m = n + 1
    <3> SUFFICES ASSUME m # n + 1 PROVE FALSE
      OBVIOUS
    <3>1. n + 1 \in n + 1 .. m - 1
      BY <1>1
    <3>2. DepthAt(es, n + 1) > DepthAt(es, n)
      BY <2>4, <3>1
    <3> QED
      BY <1>1, <2>1, <2>2, <3>2
  <2>5. Follower(es, n) = CHOOSE m \in n + 1 .. N + 1 : P(m)
    BY <1>6
  <2> HIDE DEF P
  <2> QED
    BY <2>2, <2>3, <2>4, <2>5
<1> QED
  BY <1>3, <1>4, <1>5, <1>7, <1>8 DEF D, es, N

(* Where the last element of the spine and the leaves end. *)
LEMMA ListingEnds ==
  ASSUME NEW S, NEW names \in Seq(S), NEW values \in Seq(S), NEW leaf, Len(names) >= 1
  PROVE  LET es == Listing(names, leaf, values)
             D  == Len(names)
             at == Starts(es)
         IN  \A n \in D + 1 .. Len(es) :
               /\ at[n] <= LastAt(es, at, D)
               /\ LastAt(es, at, n) = at[n] + (IF HasText(es, n) THEN 1 ELSE 0)
               /\ LastAt(es, at, n) < at[n + 1]
<1> DEFINE D == Len(names)
           V == Len(values)
           es == Listing(names, leaf, values)
           N == Len(es)
           at == Starts(es)
<1>1. D \in Nat /\ D >= 1 /\ V \in Nat /\ N = D + V /\ AreElements(es)
  BY ListingIs
<1>2. /\ \A n \in 1 .. D : DepthAt(es, n) = n - 1
      /\ \A n \in D + 1 .. N : DepthAt(es, n) = D
      /\ DepthAt(es, N + 1) = 0
      /\ Follower(es, D) = N + 1
      /\ \A n \in D + 1 .. N : Follower(es, n) = n + 1
  BY ListingDepths
<1>3. /\ \A n \in 1 .. N : at[n + 1] = at[n] + Width(es, n)
      /\ \A n \in 1 .. N + 1 : at[n] \in Nat
      /\ \A m, n \in 1 .. N + 1 : m < n => at[m] < at[n]
  BY <1>1, StartsAt, StartsGrow
<1>4. \A n \in Int : Blank(es, n) = IF n > N THEN 0 ELSE 1
  BY DEF Blank
<1>5. \A n : LastAt(es, at, n) = at[Follower(es, n)] - 1 - Blank(es, Follower(es, n))
                                - (DepthAt(es, n) - DepthAt(es, Follower(es, n)))
  BY DEF LastAt
<1> HIDE DEF D, V, es, N, at
<1> DEFINE t(n) == IF HasText(es, n) THEN 1 ELSE 0
<1>6. \A n : t(n) \in {0, 1}
  OBVIOUS
<1>7. \A n : Width(es, n) = 1 + t(n) + Closed(es, n) + Blank(es, n + 1)
  BY DEF Width
<1> HIDE DEF t
<1>8. ASSUME NEW n \in D + 1 .. N
      PROVE  at[n + 1] = at[n] + (IF n = N THEN 1 + t(n) + D ELSE 2 + t(n))
  <2>1. DepthAt(es, n) = D /\ DepthAt(es, n + 1) = IF n = N THEN 0 ELSE D
    <3>1. n # N => n + 1 \in D + 1 .. N
      BY <1>1
    <3> QED
      BY <1>2, <3>1
  <2>2. Closed(es, n) = IF n = N THEN D ELSE 0
    BY <1>1, <2>1 DEF Closed
  <2>3. Blank(es, n + 1) = IF n = N THEN 0 ELSE 1
    BY <1>1, <1>4
  <2>4. n \in 1 .. N
    BY <1>1
  <2>5. /\ at[n + 1] = at[n] + Width(es, n) /\ at[n] \in Int
        /\ Width(es, n) = 1 + t(n) + Closed(es, n) + Blank(es, n + 1) /\ t(n) \in {0, 1}
    BY <1>1, <1>3, <1>6, <1>7, <2>4
  <2> QED
    BY <1>1, <2>2, <2>3, <2>5
<1>9. ASSUME NEW n \in D + 1 .. N
      PROVE  LastAt(es, at, n) = at[n] + t(n) /\ LastAt(es, at, n) < at[n + 1]
  <2>1. LastAt(es, at, n) = at[n + 1] - 1 - Blank(es, n + 1)
                             - (DepthAt(es, n) - DepthAt(es, n + 1))
    BY <1>2, <1>5
  <2>2. DepthAt(es, n) = D /\ DepthAt(es, n + 1) = IF n = N THEN 0 ELSE D
    <3>1. n # N => n + 1 \in D + 1 .. N
      BY <1>1
    <3> QED
      BY <1>2, <3>1
  <2>3. Blank(es, n + 1) = IF n = N THEN 0 ELSE 1
    BY <1>1, <1>4
  <2>4. at[n] \in Nat /\ t(n) \in {0, 1}
    BY <1>1, <1>3, <1>6
  <2>5. at[n + 1] = at[n] + (IF n = N THEN 1 + t(n) + D ELSE 2 + t(n))
    BY <1>8
  <2>6. D \in Nat /\ n \in Int
    BY <1>1
  <2>7. CASE n = N
    <3>1. Blank(es, n + 1) = 0 /\ DepthAt(es, n) = D /\ DepthAt(es, n + 1) = 0
      BY <2>2, <2>3, <2>7
    <3>2. LastAt(es, at, n) = at[n + 1] - 1 - 0 - (D - 0)
      BY <2>1, <3>1
    <3>3. at[n + 1] = at[n] + (1 + t(n) + D)
      BY <2>5, <2>7
    <3>4. at[n] \in Int /\ at[n + 1] \in Int /\ t(n) \in Int
      BY <2>4, <2>6, <3>3
    <3>5. LastAt(es, at, n) = at[n] + t(n)
      BY SMTT(30), <2>6, <3>2, <3>3, <3>4
    <3>6. at[n] + t(n) < at[n + 1]
      BY <2>6, <3>3, <3>4
    <3> QED
      BY <3>5, <3>6
  <2>8. CASE n # N
    <3>1. Blank(es, n + 1) = 1 /\ DepthAt(es, n) = D /\ DepthAt(es, n + 1) = D
      BY <2>2, <2>3, <2>8
    <3>2. LastAt(es, at, n) = at[n + 1] - 1 - 1 - (D - D)
      BY <2>1, <3>1
    <3>3. at[n + 1] = at[n] + (2 + t(n))
      BY <2>5, <2>8
    <3> QED
      BY <2>4, <2>6, <3>2, <3>3
  <2> QED
    BY <2>7, <2>8
<1>10. ASSUME NEW n \in D + 1 .. N PROVE at[n] <= LastAt(es, at, D)
  <2>1. LastAt(es, at, D) = at[N + 1] - 1 - Blank(es, N + 1) - (DepthAt(es, D) - DepthAt(es, N + 1))
    BY <1>2, <1>5
  <2>2. LastAt(es, at, D) = at[N + 1] - D
    <3>1. Blank(es, N + 1) = 0 /\ DepthAt(es, D) = D - 1 /\ N + 1 \in 1 .. N + 1
      BY <1>1, <1>2, <1>4
    <3> QED
      BY <1>1, <1>2, <1>3, <2>1, <3>1
  <2>3. N \in D + 1 .. N /\ N \in 1 .. N + 1 /\ n \in 1 .. N + 1
    BY <1>1
  <2>4. at[N + 1] = at[N] + (1 + t(N) + D)
    BY <1>8, <2>3
  <2>5. at[n] <= at[N] /\ at[n] \in Nat /\ at[N] \in Nat
    <3>1. n = N \/ n < N
      BY <1>1
    <3> QED
      BY <1>3, <2>3, <3>1
  <2>6. D \in Nat /\ t(N) \in {0, 1}
    BY <1>1, <1>6
  <2> QED
    BY <2>2, <2>4, <2>5, <2>6
<1> QED
  BY <1>9, <1>10 DEF D, es, N, at, t

-----------------------------------------------------------------------------
(* The values of a growing function in ascending order are the function. *)
LEMMA AscendingImage ==
  ASSUME NEW V \in Nat, NEW M \in Nat, NEW f \in [1 .. V -> 1 .. M],
         \A i1, i2 \in 1 .. V : i1 < i2 => f[i1] < f[i2]
  PROVE  Ascending({f[j] : j \in 1 .. V}, M) = f
<1> DEFINE S == {f[j] : j \in 1 .. V}
           g(j) == IF j = 0 THEN 0 ELSE f[j]
           first(j) == [l \in 1 .. j |-> f[l]]
           T == {j \in Nat : j <= V => Ascending(S, g(j)) = first(j)}
<1>1. \A j \in 1 .. V : f[j] \in Nat /\ f[j] >= 1 /\ f[j] <= M /\ f[j] \in S
  OBVIOUS
<1>2. \A n \in S : \E j \in 1 .. V : n = f[j]
  OBVIOUS
<1>3. \A j \in 1 .. V : g(j) = f[j] /\ g(0) = 0
  OBVIOUS
<1>4. ASSUME NEW j \in 0 .. V PROVE g(j) \in Nat /\ g(j) <= M
  <2>1. CASE j = 0
    BY <1>3, <2>1
  <2>2. CASE j # 0
    <3>1. j \in 1 .. V
      BY <2>2
    <3> QED
      BY <1>1, <1>3, <3>1
  <2> QED
    BY <2>1, <2>2
<1> HIDE DEF S
<1>5. 0 \in T
  <2>1. Ascending(S, 0) = << >> /\ first(0) = << >> /\ g(0) = 0
    BY AscendingAt
  <2> HIDE DEF g, first
  <2> QED
    BY <2>1
<1>6. ASSUME NEW j \in Nat, j \in T PROVE j + 1 \in T
  <2> SUFFICES ASSUME j + 1 <= V PROVE Ascending(S, g(j + 1)) = first(j + 1)
    OBVIOUS
  <2>1. j \in 0 .. V /\ j + 1 \in 1 .. V /\ Ascending(S, g(j)) = first(j)
    BY <1>6
  <2> DEFINE x == f[j + 1]
  <2>2. x \in Nat /\ x >= 1 /\ x \in S /\ g(j + 1) = x /\ g(j) \in Nat /\ g(j) < x
    <3>1. g(j + 1) = x /\ x \in Nat /\ x >= 1 /\ x \in S
      BY <2>1, <1>1, <1>3
    <3>2. j # 0 => f[j] < x /\ g(j) = f[j]
      BY <2>1
    <3>3. g(j) \in Nat /\ (j = 0 => g(j) = 0)
      BY <2>1, <1>4
    <3> HIDE DEF g, x
    <3> QED
      BY <3>1, <3>2, <3>3
  <2>3. ASSUME NEW n \in g(j) + 1 .. x - 1 PROVE n \notin S
    <3> SUFFICES ASSUME n \in S PROVE FALSE
      OBVIOUS
    <3>1. PICK k \in 1 .. V : n = f[k]
      BY <1>2
    <3>2. CASE k <= j
      <4>1. j \in 1 .. V /\ g(j) = f[j] /\ (k < j \/ k = j)
        BY <2>1, <3>2, <1>3
      <4>2. f[k] <= f[j]
        BY <4>1, <1>1
      <4> HIDE DEF g, x
      <4> QED
        BY <2>2, <3>1, <4>1, <4>2
    <3>3. CASE k > j
      <4>1. k = j + 1 \/ j + 1 < k
        BY <3>3
      <4>2. x <= f[k]
        <5>1. f[j + 1] \in Nat /\ f[k] \in Nat /\ (j + 1 < k => f[j + 1] < f[k])
          BY <2>1, <1>1
        <5> QED
          BY <4>1, <5>1
      <4> HIDE DEF g, x
      <4> QED
        BY <2>2, <3>1, <4>2
    <3> QED
      BY <3>2, <3>3
  <2> HIDE DEF g, x, T
  <2>4. Ascending(S, x - 1) = Ascending(S, g(j))
    <3>1. x - 1 \in Nat /\ g(j) <= x - 1
      BY <2>2
    <3> QED
      BY <2>2, <2>3, <3>1, AscendingPrefix
  <2>5. Ascending(S, x) = Append(Ascending(S, x - 1), x)
    <3>1. x - 1 \in Nat /\ (x - 1) + 1 = x
      BY <2>2
    <3>2. Ascending(S, (x - 1) + 1) = IF (x - 1) + 1 \in S
                                      THEN Append(Ascending(S, x - 1), (x - 1) + 1)
                                      ELSE Ascending(S, x - 1)
      BY <3>1, AscendingAt
    <3> QED
      BY <2>2, <3>1, <3>2
  <2>6. Append(first(j), x) = first(j + 1)
    <3>1. Append(first(j), x) = [l \in 1 .. j + 1 |-> IF l = j + 1 THEN x ELSE f[l]]
      OBVIOUS
    <3> QED
      BY <3>1 DEF x
  <2> QED
    BY <2>1, <2>2, <2>4, <2>5, <2>6
<1>7. Ascending(S, g(V)) = first(V)
  <2>1. V \in T
    <3> HIDE DEF T
    <3> QED
      BY <1>5, <1>6, Induction
  <2> QED
    BY <2>1
<1>8. ASSUME NEW n \in g(V) + 1 .. M PROVE n \notin S
  <2> SUFFICES ASSUME n \in S PROVE FALSE
    OBVIOUS
  <2>1. PICK k \in 1 .. V : n = f[k]
    BY <1>2
  <2>2. V \in 1 .. V /\ (k < V \/ k = V)
    OBVIOUS
  <2>3. f[k] <= f[V] /\ g(V) = f[V]
    BY <2>2, <1>1, <1>3
  <2> HIDE DEF g
  <2> QED
    BY <2>1, <2>2, <2>3, <1>1
<1>9. g(V) \in Nat /\ g(V) <= M
  BY <1>4
<1> HIDE DEF g, T
<1>10. Ascending(S, M) = Ascending(S, g(V))
  BY <1>8, <1>9, AscendingPrefix
<1>11. first(V) = f
  OBVIOUS
<1> HIDE DEF first
<1>12. Ascending(S, M) = f
  BY <1>7, <1>10, <1>11
<1> QED
  BY <1>12 DEF S

(* The contents of an element with a text node behind it, or with nothing. *)
LEMMA ContentOne ==
  ASSUME NEW d, NEW n \in Nat, d[n].last = n + 1,
         d[n].name # "text", d[n + 1].name = "text"
  PROVE  Content(d, n) = << d[n + 1].text >>
<1> DEFINE S == {m \in n .. d[n].last : d[m].name = "text"}
<1>1. S = {n + 1}
  <2>1. n .. d[n].last = {n, n + 1}
    OBVIOUS
  <2> QED
    BY <2>1
<1> HIDE DEF S
<1>2. Ascending(S, n) = << >>
  <2>1. \A m \in 0 + 1 .. n : m \notin S
    BY <1>1
  <2>2. Ascending(S, n) = Ascending(S, 0)
    BY <2>1, AscendingPrefix
  <2> QED
    BY <2>2, AscendingAt, Zenon
<1>3. Ascending(S, n + 1) = << n + 1 >>
  <2>1. Ascending(S, n + 1) = Append(<< >>, n + 1)
    BY ZenonT(30), <1>1, <1>2, AscendingAt
  <2> QED
    BY <2>1
<1>4. Content(d, n) = [k \in DOMAIN << n + 1 >> |-> d[<< n + 1 >>[k]].text]
  BY <1>3 DEF Content, S
<1> QED
  BY <1>4

LEMMA ContentNone ==
  ASSUME NEW d, NEW n \in Nat, d[n].last = n, d[n].name # "text"
  PROVE  Content(d, n) = << >>
<1> DEFINE S == {m \in n .. d[n].last : d[m].name = "text"}
<1>1. S = {}
  <2>1. n .. d[n].last = {n}
    OBVIOUS
  <2> QED
    BY <2>1
<1> HIDE DEF S
<1>2. Ascending(S, n) = << >>
  <2>1. \A m \in 0 + 1 .. n : m \notin S
    BY <1>1
  <2>2. Ascending(S, n) = Ascending(S, 0)
    BY <2>1, AscendingPrefix
  <2> QED
    BY <2>2, AscendingAt, Zenon
<1>3. Content(d, n) = [k \in DOMAIN << >> |-> d[<< >>[k]].text]
  BY <1>2 DEF Content, S
<1> QED
  BY <1>3

(* Exactly one node p has the name, and its children named leaf the values. *)
Reads(d, name, leaf, values) ==
  \E p \in 1 .. Len(d) :
    LET ids == Ascending({n \in 1 .. Len(d) : ChildOf(d, p, n) /\ d[n].name = leaf}, Len(d))
    IN  /\ \A n \in 1 .. Len(d) : d[n].name = name <=> n = p
        /\ Len(ids) = Len(values) /\ DOMAIN ids = 1 .. Len(values)
        /\ \A j \in 1 .. Len(values) :
             Content(d, ids[j]) = IF values[j] = "" THEN << >> ELSE << values[j] >>

(***************************************************************************)
(* In the document of a listing one node has the name the spine ends with, *)
(* its children of the leaves' name are the leaves, in the order of the    *)
(* values, and the contents of each is its value.                          *)
(***************************************************************************)
LEMMA ListingReads ==
  ASSUME NEW S, NEW names \in Seq(S), NEW values \in Seq(S), NEW leaf,
         Len(names) >= 1, leaf # "text",
         \A n \in 1 .. Len(names) :
           /\ names[n] # leaf /\ names[n] # "text"
           /\ n # Len(names) => names[n] # names[Len(names)],
         \A j \in 1 .. Len(values) : values[j] # "none"
  PROVE  Reads(Printed(Listing(names, leaf, values)), names[Len(names)], leaf, values)
<1> DEFINE D == Len(names)
           V == Len(values)
           es == Listing(names, leaf, values)
           N == Len(es)
           at == Starts(es)
           d == Printed(es)
           p == at[D]
           Under == {n \in 1 .. Len(d) : ChildOf(d, p, n) /\ d[n].name = leaf}
           f == [j \in 1 .. V |-> at[D + j]]
<1>1. /\ D \in Nat /\ D >= 1 /\ V \in Nat /\ N = D + V
      /\ \A n \in 1 .. D : es[n] = At(n - 1, names[n], "none")
      /\ \A n \in D + 1 .. D + V : es[n] = At(D, leaf, values[n - D])
      /\ AreElements(es)
  BY ListingIs
<1>2. N \in Nat /\ N >= 1 /\ D \in 1 .. N
  BY <1>1
<1>3. \A n \in D + 1 .. N :
        /\ at[n] <= LastAt(es, at, D)
        /\ LastAt(es, at, n) = at[n] + (IF HasText(es, n) THEN 1 ELSE 0)
        /\ LastAt(es, at, n) < at[n + 1]
  BY ListingEnds
<1>4. /\ \A n \in 1 .. N + 1 : at[n] \in Nat
      /\ \A m, n \in 1 .. N + 1 : m < n => at[m] < at[n]
  BY <1>1, StartsGrow
<1>5. /\ Len(d) \in Nat
      /\ \A n \in 1 .. N :
           /\ at[n] \in 1 .. Len(d)
           /\ d[at[n]] = Element(es[n].name, LastAt(es, at, n))
           /\ \A k \in at[n] + 1 .. at[n + 1] - 1 :
                /\ k \in 1 .. Len(d)
                /\ d[k] = TextNode(IF k = at[n] + 1 /\ HasText(es, n) THEN es[n].text
                                   ELSE "blank", k)
      /\ \A k \in 1 .. Len(d) : \E n \in 1 .. N : at[n] <= k /\ k < at[n + 1]
  BY <1>1, <1>2, NodesIs
<1>6. \A k \in 1 .. Len(d) :
        d[k].name = "text" \/ \E n \in 1 .. N : k = at[n] /\ d[k].name = es[n].name
  <2> HIDE DEF D, V, es
  <2>1. AreElements(es) /\ Len(es) >= 1
    BY <1>1, <1>2
  <2> QED
    BY <2>1, NamesOf
<1>7. /\ \A n \in 1 .. D :
           /\ names[n] # leaf /\ names[n] # "text"
           /\ n # D => names[n] # names[D]
      /\ leaf # "text" /\ \A j \in 1 .. V : values[j] # "none"
  OBVIOUS
<1>8. /\ \A n \in 1 .. D : es[n].name = names[n]
      /\ \A n \in D + 1 .. N : es[n].name = leaf /\ es[n].text = values[n - D]
  <2>1. ASSUME NEW n \in 1 .. D PROVE es[n].name = names[n]
    <3>1. es[n] = At(n - 1, names[n], "none")
      BY <1>1
    <3> QED
      BY <3>1 DEF At
  <2>2. ASSUME NEW n \in D + 1 .. N PROVE es[n].name = leaf /\ es[n].text = values[n - D]
    <3>1. es[n] = At(D, leaf, values[n - D])
      BY <1>1
    <3> QED
      BY <3>1 DEF At
  <2> QED
    BY <2>1, <2>2
<1> HIDE DEF D, V, es, N, at, d
<1>9. \A n \in 1 .. N : d[at[n]].name = es[n].name /\ d[at[n]].last = LastAt(es, at, n)
  <2> SUFFICES ASSUME NEW n \in 1 .. N
               PROVE  d[at[n]].name = es[n].name /\ d[at[n]].last = LastAt(es, at, n)
    OBVIOUS
  <2>1. d[at[n]] = Element(es[n].name, LastAt(es, at, n))
    BY <1>5
  <2> QED
    BY <2>1 DEF Element
<1>10. \A n \in 1 .. N : \A k \in at[n] + 1 .. at[n + 1] - 1 :
         /\ d[k].name = "text" /\ d[k].last = k
         /\ k = at[n] + 1 /\ HasText(es, n) => d[k].text = es[n].text
  <2> SUFFICES ASSUME NEW n \in 1 .. N, NEW k \in at[n] + 1 .. at[n + 1] - 1
               PROVE  /\ d[k].name = "text" /\ d[k].last = k
                      /\ k = at[n] + 1 /\ HasText(es, n) => d[k].text = es[n].text
    OBVIOUS
  <2>1. d[k] = TextNode(IF k = at[n] + 1 /\ HasText(es, n) THEN es[n].text ELSE "blank", k)
    BY <1>5
  <2> QED
    BY <2>1 DEF TextNode
<1>11. p \in 1 .. Len(d)
  BY <1>2, <1>5
<1>12. ASSUME NEW n \in 1 .. Len(d) PROVE d[n].name = names[D] <=> n = p
  <2>1. d[p].name = names[D]
    <3>1. D \in 1 .. D /\ D \in 1 .. N
      BY <1>1, <1>2
    <3> QED
      BY <1>8, <1>9, <3>1
  <2>2. ASSUME d[n].name = names[D] PROVE n = p
    <3>1. names[D] # leaf /\ names[D] # "text" /\ D \in 1 .. D
      BY <1>1, <1>7
    <3>2. PICK m \in 1 .. N : n = at[m] /\ d[n].name = es[m].name
      BY <1>6, <2>2, <3>1
    <3>3. m \in 1 .. D \/ m \in D + 1 .. N
      BY <1>1
    <3>4. m \in 1 .. D /\ names[m] = names[D]
      BY <1>8, <2>2, <3>1, <3>2, <3>3
    <3>5. m = D
      BY <1>7, <3>4
    <3> QED
      BY <3>2, <3>5
  <2> QED
    BY <2>1, <2>2
<1>13. ASSUME NEW n \in D + 1 .. N PROVE ChildOf(d, p, at[n])
  <2>1. n \in 1 .. N /\ n \in 1 .. N + 1 /\ D \in 1 .. N + 1 /\ D < n
    BY <1>1
  <2>2. at[n] \in Nat /\ p \in Nat /\ p < at[n]
    BY <1>4, <2>1
  <2>3. LastOf(d, p) = LastAt(es, at, D)
    <3>1. d[p].last = LastAt(es, at, D) /\ p # 0
      BY <1>2, <1>9, <1>11
    <3> QED
      BY <3>1 DEF LastOf, NULL
  <2>4. at[n] <= LastOf(d, p)
    BY <1>3, <2>3
  <2>5. ASSUME NEW q \in p + 1 .. at[n] - 1 PROVE d[q].last < at[n]
    <3>1. q \in 1 .. Len(d)
      <4>1. at[n] \in 1 .. Len(d) /\ Len(d) \in Nat
        BY <1>5, <2>1
      <4> QED
        BY <1>11, <2>2, <4>1
    <3>2. PICK m \in 1 .. N : at[m] <= q /\ q < at[m + 1]
      BY <1>5, <3>1
    <3>3. /\ m \in 1 .. N + 1 /\ m + 1 \in 1 .. N + 1
          /\ at[m] \in Nat /\ at[m + 1] \in Nat
      BY <1>1, <1>4
    <3>4. CASE q = at[m]
      <4>1. m > D
        <5>1. (m < D => at[m] < p) /\ (m = D => at[m] = p)
          BY <1>4, <2>1, <3>3
        <5>2. at[m] > p
          BY <2>2, <3>4
        <5> QED
          BY <1>2, <2>2, <3>3, <5>1, <5>2
      <4>2. m < n
        <5>1. (n < m => at[n] < at[m]) /\ (m = n => at[m] = at[n])
          BY <1>4, <2>1, <3>3
        <5>2. at[m] < at[n]
          BY <2>2, <3>4
        <5> QED
          BY <1>2, <2>1, <2>2, <3>3, <5>1, <5>2
      <4>3. m \in D + 1 .. N /\ d[q].last = LastAt(es, at, m)
        BY <1>2, <1>9, <3>4, <4>1
      <4>4. LastAt(es, at, m) < at[m + 1] /\ LastAt(es, at, m) \in Int
        <5>1. /\ LastAt(es, at, m) < at[m + 1]
              /\ LastAt(es, at, m) = at[m] + (IF HasText(es, m) THEN 1 ELSE 0)
          BY <1>3, <4>3
        <5> QED
          BY <3>3, <5>1
      <4>5. at[m + 1] <= at[n]
        <5>1. m + 1 = n \/ m + 1 < n
          BY <1>1, <4>2
        <5>2. m + 1 < n => at[m + 1] < at[n]
          BY <1>4, <2>1, <3>3
        <5> QED
          BY <2>2, <3>3, <5>1, <5>2
      <4>6. d[q].last = LastAt(es, at, m)
        BY <4>3
      <4> QED
        BY <2>2, <3>3, <4>4, <4>5, <4>6
    <3>5. CASE q # at[m]
      <4>1. q \in at[m] + 1 .. at[m + 1] - 1
        <5>1. q \in Int
          BY <1>5, <3>1
        <5> QED
          BY <3>2, <3>3, <3>5, <5>1
      <4>2. d[q].last = q
        BY <1>10, <4>1
      <4> QED
        BY <2>2, <4>2
    <3> QED
      BY <3>4, <3>5
  <2> QED
    BY <2>2, <2>4, <2>5 DEF ChildOf
<1>14. f \in [1 .. V -> 1 .. Len(d)] /\ \A i1, i2 \in 1 .. V : i1 < i2 => f[i1] < f[i2]
  <2>1. \A j \in 1 .. V : D + j \in 1 .. N /\ D + j \in 1 .. N + 1
    BY <1>1
  <2>2. \A j \in 1 .. V : at[D + j] \in 1 .. Len(d)
    BY <1>5, <2>1
  <2>3. ASSUME NEW i1 \in 1 .. V, NEW i2 \in 1 .. V, i1 < i2 PROVE at[D + i1] < at[D + i2]
    <3>1. D + i1 < D + i2
      BY <1>1, <2>3
    <3> QED
      BY <1>4, <2>1, <3>1
  <2> QED
    BY <2>2, <2>3
<1>15. Under = {f[j] : j \in 1 .. V}
  <2>1. ASSUME NEW j \in 1 .. V PROVE f[j] \in Under
    <3>1. D + j \in D + 1 .. N /\ D + j \in 1 .. N /\ f[j] = at[D + j]
      BY <1>1
    <3>2. d[at[D + j]].name = leaf /\ at[D + j] \in 1 .. Len(d)
      BY <1>5, <1>8, <1>9, <3>1
    <3> QED
      BY <1>13, <3>1, <3>2
  <2>2. ASSUME NEW n \in Under PROVE \E j \in 1 .. V : n = f[j]
    <3>1. n \in 1 .. Len(d) /\ d[n].name = leaf
      OBVIOUS
    <3>2. PICK m \in 1 .. N : n = at[m] /\ d[n].name = es[m].name
      BY <1>6, <1>7, <3>1
    <3>3. m \notin 1 .. D
      BY <1>7, <1>8, <3>1, <3>2
    <3>4. m - D \in 1 .. V /\ D + (m - D) = m
      BY <1>1, <3>3
    <3>5. n = f[m - D]
      BY <3>2, <3>4
    <3> QED
      BY <3>4, <3>5
  <2> HIDE DEF Under, f
  <2> QED
    BY <2>1, <2>2
<1>16. Ascending(Under, Len(d)) = f
  <2> HIDE DEF Under, f, p
  <2> QED
    BY <1>1, <1>5, <1>14, <1>15, AscendingImage
<1>17. ASSUME NEW j \in 1 .. V
       PROVE  Content(d, f[j]) = IF values[j] = "" THEN << >> ELSE << values[j] >>
  <2> DEFINE n == D + j
             x == at[n]
  <2>1. n \in D + 1 .. N /\ n \in 1 .. N /\ n + 1 \in 1 .. N + 1 /\ n - D = j /\ f[j] = x
    BY <1>1
  <2>2. x \in Nat /\ at[n + 1] \in Nat /\ x < at[n + 1]
    <3>1. n \in 1 .. N + 1 /\ n < n + 1
      BY <1>1, <2>1
    <3> QED
      BY <1>4, <2>1, <3>1
  <2>3. es[n].name = leaf /\ es[n].text = values[j]
    BY <1>8, <2>1
  <2>4. HasText(es, n) <=> values[j] # ""
    BY <1>7, <2>3 DEF HasText
  <2>5. /\ d[x].last = x + (IF HasText(es, n) THEN 1 ELSE 0)
        /\ d[x].name = leaf /\ leaf # "text"
        /\ LastAt(es, at, n) < at[n + 1] /\ d[x].last = LastAt(es, at, n)
    BY <1>3, <1>7, <1>9, <2>1, <2>3
  <2> HIDE DEF n, x, f
  <2>6. CASE values[j] # ""
    <3>1. d[x].last = x + 1 /\ x + 1 < at[n + 1]
      BY <2>4, <2>5, <2>6
    <3>2. x + 1 \in at[n] + 1 .. at[n + 1] - 1
      BY <2>2, <3>1 DEF x
    <3>3. d[x + 1].name = "text" /\ d[x + 1].text = values[j]
      BY <1>10, <2>1, <2>3, <2>4, <2>6, <3>2 DEF x
    <3>4. Content(d, x) = << d[x + 1].text >>
      BY <2>2, <2>5, <3>1, <3>3, ContentOne
    <3> QED
      BY <2>1, <2>6, <3>3, <3>4
  <2>7. CASE values[j] = ""
    <3>1. d[x].last = x
      <4>1. ~HasText(es, n)
        BY <2>4, <2>7
      <4> QED
        BY <2>2, <2>5, <4>1
    <3>2. Content(d, x) = << >>
      BY <2>2, <2>5, <3>1, ContentNone
    <3> QED
      BY <2>1, <2>7, <3>2
  <2> QED
    BY <2>6, <2>7
<1>18. Len(f) = V /\ DOMAIN f = 1 .. V
  BY <1>1
<1> HIDE DEF p, f, Under
<1>19. /\ p \in 1 .. Len(d)
       /\ \A n \in 1 .. Len(d) : d[n].name = names[D] <=> n = p
       /\ Len(Ascending(Under, Len(d))) = V /\ DOMAIN Ascending(Under, Len(d)) = 1 .. V
       /\ \A j \in 1 .. V : Content(d, Ascending(Under, Len(d))[j])
                             = IF values[j] = "" THEN << >> ELSE << values[j] >>
  BY <1>11, <1>12, <1>16, <1>17, <1>18
<1> QED
  BY <1>19, Zenon DEF Reads, D, V, es, d, Under

-----------------------------------------------------------------------------
(***************************************************************************)
(* The requests and responses as listings.  The document d carries the     *)
(* items v: the domain and they are the rows of the one node sought.       *)
(***************************************************************************)
Short(t) == t \in Texts /\ TextLength[t] < RowSize

Carries(d, v) ==
  /\ Len(v) \in Nat
  /\ \E p \in 1 .. Len(d) :
       /\ \A n \in 1 .. Len(d) : d[n].name = Sought <=> n = p
       /\ Len(RowsOf(d, p)) = Len(v) + 1
       /\ DOMAIN RowsOf(d, p) = 1 .. Len(v) + 1
       /\ \A k \in 1 .. Len(v) + 1 :
            /\ RowsOf(d, p)[k] = << Identifiers(v)[k] >>
            /\ Short(Identifiers(v)[k])

LEMMA RequestReads ==
  ASSUME NEW root \in {"DDS_request", "DDS_Setresponse"}, NEW service \in {"Read", "Write"},
         NEW v \in ItemVectors
  PROVE  Carries(Request(root, service, v), v)
<1> DEFINE names == << root, "confirmed-RequestPDU", service, "VARIABLEACCESSSPECIFICATN",
                       "LISTOFVARIABLE", "SEQUENCE", "VARIABLESPECIFICATION", "NAME",
                       "DOMAIN-SPECIFIC" >>
           values == Identifiers(v)
           T == {"DDS_request", "DDS_Setresponse", "confirmed-RequestPDU", "Read", "Write",
                 "VARIABLEACCESSSPECIFICATN", "LISTOFVARIABLE", "SEQUENCE",
                 "VARIABLESPECIFICATION", "NAME", "DOMAIN-SPECIFIC"}
           S == T \cup Items \cup {"SOLAR01"}
           d == Request(root, service, v)
<1>1. Len(names) = 9 /\ names[9] = Sought
  BY DEF Sought
<1>2. \A n \in 1 .. 9 : names[n] \in T
  OBVIOUS
<1>3. \A n \in 1 .. 9 : n # 9 => names[n] # Sought
  BY DEF Sought
<1>4. names \in Seq(S)
  <2>1. names \in Seq(T)
    OBVIOUS
  <2>2. T \subseteq S
    OBVIOUS
  <2> HIDE DEF names, T, S
  <2> QED
    BY <2>1, <2>2
<1>5. \A t \in T : t # "DOMAINID" /\ t # "text"
  OBVIOUS
<1>6. v \in Seq(Items) /\ Len(v) \in Nat
  <2>1. PICK k \in 0 .. MaxItems : v \in [1 .. k -> Items]
    BY DEF ItemVectors
  <2>2. k \in Nat
    <3>1. MaxItems \in Nat
      BY ItemsAssumption, Zenon
    <3> QED
      BY <3>1
  <2> QED
    BY <2>1, <2>2
<1>7. \A t \in Items \cup {"SOLAR01"} : Short(t) /\ t # "none" /\ t # ""
  BY ItemsAssumption DEF Short
<1> HIDE DEF T
<1>8. /\ values \in Seq(Items \cup {"SOLAR01"})
      /\ Len(values) = Len(v) + 1
      /\ \A k \in 1 .. Len(v) + 1 : values[k] \in Items \cup {"SOLAR01"}
  <2> DEFINE U == Items \cup {"SOLAR01"}
  <2>1. << "SOLAR01" >> \in Seq(U) /\ Len(<< "SOLAR01" >>) = 1
    OBVIOUS
  <2>2. v \in Seq(U)
    BY <1>6
  <2>3. values = << "SOLAR01" >> \o v
    BY DEF Identifiers
  <2> HIDE DEF U, values
  <2>4. values \in Seq(U) /\ Len(values) = 1 + Len(v)
    BY <2>1, <2>2, <2>3, ConcatProperties
  <2>5. \A k \in 1 .. Len(values) : values[k] \in U
    BY <2>4, ElementOfSeq
  <2> QED
    BY <1>6, <2>4, <2>5 DEF U
<1>9. values \in Seq(S)
  <2> HIDE DEF values
  <2> QED
    BY <1>8
<1>10. d = Printed(Listing(names, "DOMAINID", values))
  BY DEF Request, Listing
<1> HIDE DEF names, values, S, d
<1>11. Reads(d, names[Len(names)], "DOMAINID", values)
  <2>1. \A n \in 1 .. Len(names) :
          /\ names[n] # "DOMAINID" /\ names[n] # "text"
          /\ n # Len(names) => names[n] # names[Len(names)]
    BY <1>1, <1>2, <1>3, <1>5
  <2>2. \A j \in 1 .. Len(values) : values[j] # "none"
    BY <1>7, <1>8
  <2>3. "DOMAINID" # "text" /\ Len(names) >= 1
    BY <1>1
  <2> QED
    BY <1>4, <1>9, <1>10, <2>1, <2>2, <2>3, ListingReads
<1>12. PICK p \in 1 .. Len(d) :
         LET ids == Ascending(RowNodes(d, p), Len(d))
         IN  /\ \A n \in 1 .. Len(d) : d[n].name = names[Len(names)] <=> n = p
             /\ Len(ids) = Len(values) /\ DOMAIN ids = 1 .. Len(values)
             /\ \A j \in 1 .. Len(values) :
                  Content(d, ids[j]) = IF values[j] = "" THEN << >> ELSE << values[j] >>
  BY <1>11 DEF Reads, RowNodes
<1>13. \A n \in 1 .. Len(d) : d[n].name = Sought <=> n = p
  BY <1>1, <1>12
<1> DEFINE ids == Ascending(RowNodes(d, p), Len(d))
<1>14. /\ DOMAIN ids = 1 .. Len(v) + 1
       /\ \A k \in 1 .. Len(v) + 1 :
            Content(d, ids[k]) = << values[k] >> /\ Short(values[k])
  <2>1. /\ Len(ids) = Len(values) /\ DOMAIN ids = 1 .. Len(values)
        /\ \A j \in 1 .. Len(values) :
             Content(d, ids[j]) = IF values[j] = "" THEN << >> ELSE << values[j] >>
    BY <1>12
  <2> HIDE DEF ids
  <2> QED
    BY <1>7, <1>8, <2>1
<1>15. RowsOf(d, p) = [k \in DOMAIN ids |-> Content(d, ids[k])]
  BY DEF RowsOf
<1> HIDE DEF ids
<1>16. /\ Len(RowsOf(d, p)) = Len(v) + 1 /\ DOMAIN RowsOf(d, p) = 1 .. Len(v) + 1
       /\ \A k \in 1 .. Len(v) + 1 : RowsOf(d, p)[k] = << values[k] >>
  BY <1>6, <1>14, <1>15
<1> QED
  BY <1>6, <1>13, <1>14, <1>16 DEF Carries, d, values

(* A sequence of two parts and a last element. *)
LEMMA EndsWith ==
  ASSUME NEW R, NEW s1 \in Seq(R), NEW s2 \in Seq(R), NEW x
  PROVE  LET names == s1 \o s2 \o << x >>
         IN  /\ names \in Seq(R \cup {x})
             /\ Len(names) = Len(s1) + Len(s2) + 1
             /\ names[Len(names)] = x
             /\ \A n \in 1 .. Len(names) : n # Len(names) => names[n] \in R
<1> DEFINE s == s1 \o s2
           T == R \cup {x}
           names == s \o << x >>
<1>1. s \in Seq(R) /\ Len(s) = Len(s1) + Len(s2)
  BY ConcatProperties
<1>2. Len(s1) \in Nat /\ Len(s2) \in Nat
  BY LenProperties
<1> HIDE DEF s
<1>3. s \in Seq(T)
  BY <1>1
<1>4. << x >> \in Seq(T) /\ Len(<< x >>) = 1 /\ << x >>[1] = x
  OBVIOUS
<1> HIDE DEF T
<1>5. /\ names \in Seq(T) /\ Len(names) = Len(s) + 1
      /\ \A n \in 1 .. Len(s) + 1 : names[n] = IF n <= Len(s) THEN s[n] ELSE << x >>[n - Len(s)]
  BY <1>3, <1>4, ConcatProperties
<1> HIDE DEF names
<1>6. \A n \in 1 .. Len(s) : s[n] \in R
  BY <1>1, ElementOfSeq
<1>7. names[Len(names)] = x
  <2>1. Len(s) + 1 \in 1 .. Len(s) + 1 /\ ~(Len(s) + 1 <= Len(s)) /\ (Len(s) + 1) - Len(s) = 1
    BY <1>1, <1>2
  <2> QED
    BY <1>4, <1>5, <2>1
<1>8. ASSUME NEW n \in 1 .. Len(names), n # Len(names) PROVE names[n] \in R
  <2>1. n \in 1 .. Len(s) /\ n \in 1 .. Len(s) + 1 /\ n <= Len(s)
    <3>1. Len(s) \in Nat /\ Len(names) = Len(s) + 1
      BY <1>1, <1>2, <1>5
    <3> QED
      BY <1>8, <3>1
  <2> QED
    BY <1>5, <1>6, <2>1
<1> QED
  BY <1>1, <1>5, <1>7, <1>8 DEF s, T, names

LEMMA ResponseReads ==
  ASSUME NEW root \in {"DDS_response", "DDS_setrequest"},
         NEW outcome \in {<< "Read", "listOfAccessResult" >>, << "Write", "CHOICE" >>},
         NEW v \in Results
  PROVE  LET d == Response(root, outcome, v)
         IN  /\ Len(v) \in Nat
             /\ Reads(d, "success", "float", v)
             /\ Len(d) >= 1 /\ \A n \in 1 .. Len(d) : d[n].name # Sought
<1> DEFINE names == << root, "confirmed-ResponsePDU", "ConfirmedServiceResponse" >> \o outcome
                    \o << "success" >>
           T == {"DDS_response", "DDS_setrequest", "confirmed-ResponsePDU",
                 "ConfirmedServiceResponse", "Read", "listOfAccessResult", "Write", "CHOICE",
                 "success"}
           S == T \cup Values
           d == Response(root, outcome, v)
           es == Listing(names, "float", v)
           R == T \ {"success"}
           front == << root, "confirmed-ResponsePDU", "ConfirmedServiceResponse" >>
<1>1. front \in Seq(R) /\ Len(front) = 3
  OBVIOUS
<1>2. outcome \in Seq(R) /\ Len(outcome) = 2
  <2>1. PICK o1 \in {"Read", "Write"}, o2 \in {"listOfAccessResult", "CHOICE"} :
          outcome = << o1, o2 >>
    OBVIOUS
  <2>2. o1 \in R /\ o2 \in R
    OBVIOUS
  <2> HIDE DEF R
  <2>3. << o1, o2 >> \in Seq(R) /\ Len(<< o1, o2 >>) = 2
    BY <2>2
  <2> QED
    BY <2>1, <2>3
<1>3. R \cup {"success"} = T /\ \A t \in R : t # "success"
  OBVIOUS
<1>4. /\ Len(names) = 6 /\ names \in Seq(T) /\ names[6] = "success"
      /\ \A n \in 1 .. 6 : names[n] \in T /\ (n # 6 => names[n] # "success")
  <2>1. names = front \o outcome \o << "success" >>
    OBVIOUS
  <2> DEFINE x == "success"
  <2> HIDE DEF names, front, R, T, x
  <2>2. names = front \o outcome \o << x >>
    BY <2>1 DEF x
  <2>3. /\ names \in Seq(R \cup {x})
        /\ Len(names) = Len(front) + Len(outcome) + 1
        /\ names[Len(names)] = x
        /\ \A n \in 1 .. Len(names) : n # Len(names) => names[n] \in R
    <3>1. \A s2 \in Seq(R) :
            /\ front \o s2 \o << x >> \in Seq(R \cup {x})
            /\ Len(front \o s2 \o << x >>) = Len(front) + Len(s2) + 1
            /\ (front \o s2 \o << x >>)[Len(front \o s2 \o << x >>)] = x
            /\ \A n \in 1 .. Len(front \o s2 \o << x >>) :
                 n # Len(front \o s2 \o << x >>) => (front \o s2 \o << x >>)[n] \in R
      BY <1>1, EndsWith, Zenon
    <3> QED
      BY <1>2, <2>2, <3>1, Zenon
  <2>4. /\ names \in Seq(R \cup {"success"})
        /\ Len(names) = Len(front) + Len(outcome) + 1
        /\ names[Len(names)] = "success"
        /\ \A n \in 1 .. Len(names) : n # Len(names) => names[n] \in R
    BY <2>3 DEF x
  <2>5. names \in Seq(T) /\ Len(names) = 6 /\ names[6] = "success"
    BY <1>1, <1>2, <1>3, <2>4
  <2>6. \A n \in 1 .. 6 : names[n] \in T
    BY <2>5, ElementOfSeq
  <2> QED
    BY <1>3, <2>4, <2>5, <2>6
<1>5. names \in Seq(T) /\ Len(names) = 6 /\ names[6] = "success"
  BY <1>4
<1>6. \A t \in T : t # "float" /\ t # "text" /\ t # Sought
  BY DEF Sought
<1>7. v \in Seq(Values) /\ Len(v) \in Nat
  <2>1. PICK k \in 0 .. MaxItems : v \in [1 .. k -> Values]
    BY DEF Results
  <2>2. k \in Nat
    <3>1. MaxItems \in Nat
      BY ItemsAssumption, Zenon
    <3> QED
      BY <3>1
  <2> QED
    BY <2>1, <2>2
<1>8. \A j \in 1 .. Len(v) : v[j] # "none"
  <2>1. \A j \in 1 .. Len(v) : v[j] \in Values
    BY <1>7, ElementOfSeq
  <2>2. "none" \notin Values
    BY ItemsAssumption, Zenon
  <2> QED
    BY <2>1, <2>2
<1>9. names \in Seq(S) /\ v \in Seq(S)
  <2>1. T \subseteq S /\ Values \subseteq S
    OBVIOUS
  <2> HIDE DEF names, T, S
  <2> QED
    BY <1>5, <1>7, <2>1
<1>10. d = Printed(es)
  BY DEF Response, Listing
<1> HIDE DEF names, T, S, R, front, d
<1>11. /\ \A n \in 1 .. Len(names) :
            /\ names[n] # "float" /\ names[n] # "text"
            /\ n # Len(names) => names[n] # names[Len(names)]
       /\ "float" # "text" /\ Len(names) >= 1
  BY <1>4, <1>5, <1>6
<1>12. Reads(d, "success", "float", v)
  <2>1. Reads(d, names[Len(names)], "float", v)
    BY <1>8, <1>9, <1>10, <1>11, ListingReads
  <2> QED
    BY <1>5, <2>1
<1>13. /\ AreElements(es) /\ Len(es) = 6 + Len(v)
       /\ \A n \in 1 .. 6 : es[n] = At(n - 1, names[n], "none")
       /\ \A n \in 6 + 1 .. 6 + Len(v) : es[n] = At(6, "float", v[n - 6])
  <2>1. /\ Len(es) = Len(names) + Len(v) /\ AreElements(es)
        /\ \A n \in 1 .. Len(names) : es[n] = At(n - 1, names[n], "none")
        /\ \A n \in Len(names) + 1 .. Len(names) + Len(v) :
             es[n] = At(Len(names), "float", v[n - Len(names)])
    BY <1>9, ListingIs
  <2> HIDE DEF es
  <2> QED
    BY <1>5, <2>1
<1>14. Len(es) \in Nat /\ Len(es) >= 1 /\ 1 \in 1 .. Len(es)
  BY <1>7, <1>13
<1> HIDE DEF es
<1>15. ASSUME NEW n \in 1 .. Len(es) PROVE es[n].name # Sought
  <2>1. CASE n \in 1 .. 6
    <3>1. es[n] = At(n - 1, names[n], "none")
      BY <1>13, <2>1
    <3>2. es[n].name = names[n]
      BY <3>1 DEF At
    <3> QED
      BY <1>4, <1>6, <2>1, <3>2
  <2>2. CASE n \in 6 + 1 .. 6 + Len(v)
    <3>1. es[n] = At(6, "float", v[n - 6])
      BY <1>13, <2>2
    <3>2. es[n].name = "float"
      BY <3>1 DEF At
    <3> QED
      BY <3>2 DEF Sought
  <2> QED
    BY <1>7, <1>13, <2>1, <2>2
<1>16. ASSUME NEW k \in 1 .. Len(d) PROVE d[k].name # Sought
  <2>1. d[k].name = "text" \/ \E n \in 1 .. Len(es) : d[k].name = es[n].name
    BY <1>10, <1>13, <1>14, NamesOf
  <2>2. "text" # Sought
    BY DEF Sought
  <2> QED
    BY <1>15, <2>1, <2>2
<1>17. Len(d) >= 1
  <2>1. Starts(es)[1] \in 1 .. Len(d)
    BY <1>10, <1>13, <1>14, NodesIs
  <2>2. Len(d) \in Nat
    BY <1>10, <1>13, <1>14, NodesIs
  <2> QED
    BY <2>1, <2>2
<1> QED
  BY <1>7, <1>12, <1>16, <1>17 DEF d

(* A document of other names is not empty and has no node that is sought. *)
LEMMA OtherNames ==
  ASSUME NEW E, NEW s1 \in Seq(E), NEW s2 \in Seq(E), Len(s1) >= 1,
         \A e \in E : e.depth \in Nat /\ e.name # Sought
  PROVE  LET d == Printed(s1 \o s2)
         IN  Len(d) >= 1 /\ \A n \in 1 .. Len(d) : d[n].name # Sought
<1> DEFINE es == s1 \o s2
           d == Printed(es)
<1>1. es \in Seq(E) /\ Len(es) = Len(s1) + Len(s2)
  BY ConcatProperties
<1>2. Len(s1) \in Nat /\ Len(s2) \in Nat
  BY LenProperties
<1> HIDE DEF es
<1>3. Len(es) \in Nat /\ Len(es) >= 1 /\ 1 \in 1 .. Len(es)
  BY <1>1, <1>2
<1>4. \A n \in 1 .. Len(es) : es[n].depth \in Nat /\ es[n].name # Sought
  BY <1>1, ElementOfSeq
<1>5. AreElements(es)
  BY <1>3, <1>4 DEF AreElements
<1>6. \A k \in 1 .. Len(d) : d[k].name # Sought
  <2> SUFFICES ASSUME NEW k \in 1 .. Len(d) PROVE d[k].name # Sought
    OBVIOUS
  <2>1. d[k].name = "text" \/ \E n \in 1 .. Len(es) : d[k].name = es[n].name
    BY <1>3, <1>5, NamesOf
  <2>2. "text" # Sought
    BY DEF Sought
  <2> HIDE DEF d
  <2> QED
    BY <1>4, <2>1, <2>2
<1>7. Len(d) >= 1
  <2>1. Starts(es)[1] \in 1 .. Len(d) /\ Len(d) \in Nat
    BY <1>3, <1>5, NodesIs
  <2> QED
    BY <2>1
<1> QED
  BY <1>6, <1>7 DEF es, d

(* A content of one short text. *)
LEMMA OneText ==
  ASSUME NEW t, Short(t)
  PROVE  << t >> \in Seq(Texts) /\ Size(<< t >>) \in Nat /\ Size(<< t >>) < RowSize
<1>1. << t >> \in Seq(Texts) /\ Len(<< t >>) = 1 /\ << t >>[1] = t
  BY DEF Short
<1>2. Size(<< t >>) \in Nat /\ Size(<< t >>) = TextLength[t]
  BY <1>1, SizeIs
<1> QED
  BY <1>1, <1>2 DEF Short

(* What is built of which vector. *)
LEMMA BuiltIs ==
  ASSUME NEW b \in Built
  PROVE  /\ b[1] \in ItemVectors
         /\ \E root \in {"DDS_request", "DDS_Setresponse"}, service \in {"Read", "Write"} :
              b[2] = Request(root, service, b[1])
<1>1. CASE \E v \in ItemVectors : b = << v, getDataValue_8_2(v) >>
  <2>1. PICK v \in ItemVectors : b = << v, getDataValue_8_2(v) >>
    BY <1>1
  <2>2. b[1] = v /\ b[2] = Request("DDS_request", "Read", v)
    BY <2>1 DEF getDataValue_8_2
  <2> QED
    BY <2>2
<1>2. CASE \E v \in ItemVectors : b = << v, setDataValue_8_2(v) >>
  <2>1. PICK v \in ItemVectors : b = << v, setDataValue_8_2(v) >>
    BY <1>2
  <2>2. b[1] = v /\ b[2] = Request("DDS_Setresponse", "Write", v)
    BY <2>1 DEF setDataValue_8_2
  <2> QED
    BY <2>2
<1> QED
  BY <1>1, <1>2 DEF Built

LEMMA ResponsesIs ==
  ASSUME NEW b \in Responses
  PROVE  /\ Len(b[1]) \in Nat
         /\ Reads(b[2], "success", "float", b[1])
         /\ Len(b[2]) >= 1 /\ \A n \in 1 .. Len(b[2]) : b[2][n].name # Sought
<1>1. CASE \E v \in Results : b = << v, getDataValue_resp_8_2(v) >>
  <2>1. PICK v \in Results : b = << v, getDataValue_resp_8_2(v) >>
    BY <1>1
  <2> DEFINE root == "DDS_response"
             outcome == << "Read", "listOfAccessResult" >>
  <2>2. b[1] = v /\ b[2] = Response(root, outcome, v)
    BY <2>1 DEF getDataValue_resp_8_2
  <2>3. /\ root \in {"DDS_response", "DDS_setrequest"}
        /\ outcome \in {<< "Read", "listOfAccessResult" >>, << "Write", "CHOICE" >>}
    OBVIOUS
  <2> HIDE DEF root, outcome
  <2> QED
    BY <2>2, <2>3, ResponseReads
<1>2. CASE \E v \in Results : b = << v, setDataValue_resp_8_2(v) >>
  <2>1. PICK v \in Results : b = << v, setDataValue_resp_8_2(v) >>
    BY <1>2
  <2> DEFINE root == "DDS_setrequest"
             outcome == << "Write", "CHOICE" >>
  <2>2. b[1] = v /\ b[2] = Response(root, outcome, v)
    BY <2>1 DEF setDataValue_resp_8_2
  <2>3. /\ root \in {"DDS_response", "DDS_setrequest"}
        /\ outcome \in {<< "Read", "listOfAccessResult" >>, << "Write", "CHOICE" >>}
    OBVIOUS
  <2> HIDE DEF root, outcome
  <2> QED
    BY <2>2, <2>3, ResponseReads
<1> QED
  BY <1>1, <1>2 DEF Responses

(* No document but a request has the node that the listener looks for. *)
LEMMA OthersIs ==
  ASSUME NEW d \in OtherDocuments
  PROVE  Len(d) >= 1 /\ \A n \in 1 .. Len(d) : d[n].name # Sought
<1> DEFINE Names == {"DDS_request", "DDS_response", "AssociationContext",
                     "SecurityRequest-PDU", "signedData", "userData", "confirmed-RequestPDU",
                     "confirmed-ResponsePDU", "invokeId", "ConfirmedServiceRequest",
                     "ConfirmedServiceResponse", "getNameList", "extendedObjectClass",
                     "objectClass", "objectScope", "vmdSpecific", "listOfIdentifier",
                     "Identifier"}
           Words == {"none", "garbage", "domain", "MUMEAS"}
           E == {At(x[1], x[2], x[3]) : x \in (0 .. 10) \X Names \X Words}
<1>1. \A n \in Names : n # Sought
  BY DEF Sought
<1>2. \A k \in 0 .. 10, n \in Names, t \in Words : At(k, n, t) \in E
  <2> SUFFICES ASSUME NEW k \in 0 .. 10, NEW n \in Names, NEW t \in Words
               PROVE  At(k, n, t) \in E
    OBVIOUS
  <2> DEFINE x == << k, n, t >>
  <2>1. x \in (0 .. 10) \X Names \X Words /\ x[1] = k /\ x[2] = n /\ x[3] = t
    <3> HIDE DEF Names, Words
    <3> QED
      OBVIOUS
  <2> HIDE DEF x, Names, Words
  <2> QED
    BY <2>1
<1>3. \A e \in E : e.depth \in Nat /\ e.name # Sought
  <2> SUFFICES ASSUME NEW x \in (0 .. 10) \X Names \X Words
               PROVE  At(x[1], x[2], x[3]).depth \in Nat /\ At(x[1], x[2], x[3]).name # Sought
    OBVIOUS
  <2>1. x[1] \in 0 .. 10 /\ x[2] \in Names
    <3> HIDE DEF Names, Words
    <3> QED
      OBVIOUS
  <2>2. At(x[1], x[2], x[3]).depth = x[1] /\ At(x[1], x[2], x[3]).name = x[2]
    BY DEF At
  <2> HIDE DEF Names
  <2> QED
    BY <1>1, <2>1, <2>2
<1> HIDE DEF E
<1>4. ASSUME NEW names \in Seq(Names), Len(names) = 6
      PROVE  Spine(names) \in Seq(E) /\ Len(Spine(names)) >= 1
  <2>1. "none" \in Words
    OBVIOUS
  <2> HIDE DEF Names, Words
  <2>2. DOMAIN names = 1 .. 6 /\ \A n \in 1 .. 6 : names[n] \in Names
    BY <1>4, LenProperties, ElementOfSeq
  <2>3. Spine(names) = [n \in 1 .. 6 |-> At(n - 1, names[n], "none")]
    BY <2>2 DEF Spine
  <2>4. \A n \in 1 .. 6 : At(n - 1, names[n], "none") \in E
    BY <1>2, <2>1, <2>2
  <2> QED
    BY <2>3, <2>4, IsASeq
<1>5. CASE d = getServerDirectory_8_2
  <2> DEFINE names == << "DDS_request", "AssociationContext", "SecurityRequest-PDU",
                         "signedData", "userData", "confirmed-RequestPDU" >>
             rest == << At(6, "invokeId", "garbage"), At(6, "ConfirmedServiceRequest", "none"),
                        At(7, "getNameList", "none"), At(8, "extendedObjectClass", "none"),
                        At(9, "objectClass", "domain"), At(9, "objectScope", "none"),
                        At(10, "vmdSpecific", "none") >>
  <2>1. names \in Seq(Names) /\ Len(names) = 6
    OBVIOUS
  <2>2. /\ At(6, "invokeId", "garbage") \in E /\ At(6, "ConfirmedServiceRequest", "none") \in E
        /\ At(7, "getNameList", "none") \in E /\ At(8, "extendedObjectClass", "none") \in E
        /\ At(9, "objectClass", "domain") \in E /\ At(9, "objectScope", "none") \in E
        /\ At(10, "vmdSpecific", "none") \in E
    BY <1>2
  <2>3. rest \in Seq(E)
    BY <2>2
  <2>4. d = Printed(Spine(names) \o rest)
    BY <1>5 DEF getServerDirectory_8_2
  <2> HIDE DEF names, rest, Names
  <2>5. Spine(names) \in Seq(E) /\ Len(Spine(names)) >= 1
    BY <1>4, <2>1
  <2> QED
    BY <1>3, <2>3, <2>4, <2>5, OtherNames
<1>6. CASE d = getServerDirectory_resp_8_2
  <2> DEFINE names == << "DDS_response", "AssociationContext", "SecurityRequest-PDU",
                         "signedData", "userData", "confirmed-ResponsePDU" >>
             rest == << At(6, "invokeId", "garbage"), At(6, "ConfirmedServiceResponse", "none"),
                        At(7, "getNameList", "none"), At(8, "listOfIdentifier", "none"),
                        At(9, "Identifier", "MUMEAS") >>
  <2>1. names \in Seq(Names) /\ Len(names) = 6
    OBVIOUS
  <2>2. /\ At(6, "invokeId", "garbage") \in E /\ At(6, "ConfirmedServiceResponse", "none") \in E
        /\ At(7, "getNameList", "none") \in E /\ At(8, "listOfIdentifier", "none") \in E
        /\ At(9, "Identifier", "MUMEAS") \in E
    BY <1>2
  <2>3. rest \in Seq(E)
    BY <2>2
  <2>4. d = Printed(Spine(names) \o rest)
    BY <1>6 DEF getServerDirectory_resp_8_2
  <2> HIDE DEF names, rest, Names
  <2>5. Spine(names) \in Seq(E) /\ Len(Spine(names)) >= 1
    BY <1>4, <2>1
  <2> QED
    BY <1>3, <2>3, <2>4, <2>5, OtherNames
<1>7. CASE \E b \in Responses : d = b[2]
  BY <1>7, ResponsesIs
<1> QED
  BY <1>5, <1>6, <1>7 DEF OtherDocuments

-----------------------------------------------------------------------------
(***************************************************************************)
(* A response of any number of values reads as those values, in order,     *)
(* whatever is done with it.                                               *)
(***************************************************************************)
THEOREM ReturnedCorrect == Spec => []ItemsReturned
<1>1. ItemsReturned
  <2> SUFFICES ASSUME NEW b \in Responses, doc = b[2]
               PROVE  LET success == CHOOSE n \in 1 .. Len(doc) : doc[n].name = "success"
                          floats == Ascending({n \in 1 .. Len(doc) :
                                                 /\ ChildOf(doc, success, n)
                                                 /\ doc[n].name = "float"}, Len(doc))
                      IN  /\ Len(floats) = Len(b[1])
                          /\ \A k \in DOMAIN floats :
                               Content(doc, floats[k])
                                 = IF b[1][k] = "" THEN << >> ELSE << b[1][k] >>
    BY DEF ItemsReturned
  <2> DEFINE success == CHOOSE n \in 1 .. Len(doc) : doc[n].name = "success"
             floats(p) == Ascending({n \in 1 .. Len(doc) : ChildOf(doc, p, n)
                                                            /\ doc[n].name = "float"}, Len(doc))
  <2>1. PICK p \in 1 .. Len(doc) :
          /\ \A n \in 1 .. Len(doc) : doc[n].name = "success" <=> n = p
          /\ Len(floats(p)) = Len(b[1]) /\ DOMAIN floats(p) = 1 .. Len(b[1])
          /\ \A k \in 1 .. Len(b[1]) :
               Content(doc, floats(p)[k]) = IF b[1][k] = "" THEN << >> ELSE << b[1][k] >>
    BY ResponsesIs, Zenon DEF Reads
  <2>2. success = p
    BY <2>1
  <2> HIDE DEF floats, success
  <2>3. /\ Len(floats(success)) = Len(b[1])
        /\ \A k \in DOMAIN floats(success) :
             Content(doc, floats(success)[k]) = IF b[1][k] = "" THEN << >> ELSE << b[1][k] >>
    BY <2>1, <2>2
  <2> QED
    BY <2>3, Zenon DEF floats, success
<1> QED
  BY <1>1, PTL

(***************************************************************************)
(* The items of a request of any length arrive in the array, in rows of    *)
(* any number, and only a request that they have no room for overruns it;  *)
(* no document of another kind is ever gone through.                       *)
(***************************************************************************)
THEOREM ArriveCorrect == Spec => []ItemsArrive
<1>1. ASSUME RowsInv, RowsCopied, OverrunCaused PROVE ItemsArrive
  <2>1. ASSUME NEW b \in Built, doc = b[2]
        PROVE  /\ Len(b[1]) \in Nat
               /\ \E p \in 1 .. Len(doc) :
                    /\ \A n \in 1 .. Len(doc) : doc[n].name = Sought <=> n = p
                    /\ Len(RowsOf(doc, p)) = Len(b[1]) + 1
                    /\ DOMAIN RowsOf(doc, p) = 1 .. Len(b[1]) + 1
                    /\ \A k \in 1 .. Len(b[1]) + 1 :
                         /\ RowsOf(doc, p)[k] = << Identifiers(b[1])[k] >>
                         /\ Short(Identifiers(b[1])[k])
    <3>1. /\ b[1] \in ItemVectors
          /\ \E root \in {"DDS_request", "DDS_Setresponse"}, service \in {"Read", "Write"} :
               b[2] = Request(root, service, b[1])
      BY BuiltIs
    <3>2. PICK root \in {"DDS_request", "DDS_Setresponse"}, service \in {"Read", "Write"} :
            doc = Request(root, service, b[1])
      BY <2>1, <3>1
    <3>3. Carries(doc, b[1])
      BY <3>1, <3>2, RequestReads
    <3> QED
      BY <3>3 DEF Carries
  <2>2. Copying => domain \in 1 .. Len(doc) /\ doc[domain].name = Sought
    BY <1>1 DEF RowsInv, AtChild
  <2>3. pc = "crashed" => doc \notin BuiltRequests
    <3> SUFFICES ASSUME pc = "crashed", NEW b \in Built, doc = b[2] PROVE FALSE
      BY DEF BuiltRequests
    <3>1. \A n \in 1 .. Len(doc) : doc[n].name # Sought
      BY <1>1 DEF RowsInv, SearchInv, FirstInOrder
    <3>2. \E p \in 1 .. Len(doc) : doc[p].name = Sought
      BY <2>1
    <3> QED
      BY <3>1, <3>2
  <2>4. pc = "idle" => doc \notin OtherDocuments
    <3> SUFFICES ASSUME pc = "idle", doc \in OtherDocuments PROVE FALSE
      OBVIOUS
    <3>1. Len(doc) >= 1 /\ \A n \in 1 .. Len(doc) : doc[n].name # Sought
      BY OthersIs
    <3>2. doc # << >>
      BY <3>1
    <3>3. Copying
      BY <3>2 DEF Copying
    <3> QED
      BY <2>2, <3>1, <3>3
  <2>5. ASSUME NEW b \in Built, doc = b[2]
        PROVE  /\ pc = "overrun" => Len(b[1]) + 1 > Rows
               /\ pc = "idle" =>
                    /\ Len(b[1]) + 1 <= Rows
                    /\ \A k \in 1 .. Len(b[1]) + 1 : Holds(k - 1, << Identifiers(b[1])[k] >>)
    <3> DEFINE m == Len(b[1]) + 1
               rows == RowsOf(doc, domain)
    <3>1. doc # << >>
      <4>1. Len(<< >>) = 0 /\ 1 .. 0 = {}
        OBVIOUS
      <4>2. \E p \in 1 .. Len(doc) : TRUE
        BY <2>1, <2>5
      <4> QED
        BY <4>1, <4>2
    <3>2. ASSUME Copying
          PROVE  /\ m \in Nat /\ m >= 1 /\ Len(rows) = m /\ DOMAIN rows = 1 .. m
                 /\ \A k \in 1 .. m : /\ rows[k] = << Identifiers(b[1])[k] >>
                                      /\ Short(Identifiers(b[1])[k])
      <4>1. /\ Len(b[1]) \in Nat
            /\ \E p \in 1 .. Len(doc) :
                 /\ \A n \in 1 .. Len(doc) : doc[n].name = Sought <=> n = p
                 /\ Len(RowsOf(doc, p)) = m
                 /\ DOMAIN RowsOf(doc, p) = 1 .. m
                 /\ \A k \in 1 .. m :
                      /\ RowsOf(doc, p)[k] = << Identifiers(b[1])[k] >>
                      /\ Short(Identifiers(b[1])[k])
        BY <2>1, <2>5
      <4>2. domain \in 1 .. Len(doc) /\ doc[domain].name = Sought
        BY <2>2, <3>2
      <4>3. m \in Nat /\ m >= 1
        BY <4>1
      <4> HIDE DEF m
      <4> QED
        BY <4>1, <4>2, <4>3
    <3> HIDE DEF rows, m
    <3>3. Rows \in Nat
      BY RowsAssumption
    <3>4. ASSUME pc = "overrun" PROVE m > Rows
      <4>1. PICK r \in 1 .. Len(rows) : ~InRow(r - 1, rows[r])
        BY <1>1, <3>4 DEF OverrunCaused, rows
      <4>2. m \in Nat /\ r \in 1 .. m /\ rows[r] = << Identifiers(b[1])[r] >>
            /\ Short(Identifiers(b[1])[r])
        BY <3>2, <3>4, <4>1 DEF Copying
      <4>3. Size(rows[r]) < RowSize
        BY <4>2, OneText
      <4>4. ~(r - 1 < Rows)
        BY <4>1, <4>3 DEF InRow
      <4> QED
        BY <3>3, <4>2, <4>4
    <3>5. ASSUME pc = "idle" PROVE m <= Rows /\ \A k \in 1 .. m : Holds(k - 1, << Identifiers(b[1])[k] >>)
      <4>1. /\ m \in Nat /\ m >= 1 /\ Len(rows) = m
            /\ \A k \in 1 .. m : /\ rows[k] = << Identifiers(b[1])[k] >>
                                 /\ Short(Identifiers(b[1])[k])
        BY <3>1, <3>2, <3>5 DEF Copying
      <4>2. ASSUME NEW k \in 1 .. m
            PROVE  /\ rows[k] \in Seq(Texts) /\ Size(rows[k]) \in Nat
                   /\ Size(rows[k]) < RowSize /\ InArray(k - 1, rows[k])
        <5>1. rows[k] = << Identifiers(b[1])[k] >> /\ Short(Identifiers(b[1])[k])
          BY <4>1
        <5>2. k \in 1 .. Len(rows)
          BY <4>1
        <5>3. InArray(k - 1, rows[k])
          BY <1>1, <3>1, <3>5, <5>2 DEF OverrunCaused, rows
        <5> QED
          BY <5>1, <5>3, OneText
      <4>3. m <= Rows
        <5>1. m \in 1 .. m /\ m - 1 \in Nat
          BY <4>1
        <5>2. m - 1 < Rows
          BY <4>2, <5>1, InArrayIs
        <5> QED
          BY <3>3, <4>1, <5>2
      <4>4. ASSUME NEW k \in 1 .. m PROVE Holds(k - 1, rows[k])
        <5>1. \A r \in 1 .. Len(rows) : \A at \in 0 .. Size(rows[r]) :
                r = Len(rows) \/ at < RowSize
                  => requestData[Address(r - 1) + at] = Octet(rows[r], at)
          BY <1>1, <3>1, <3>5 DEF RowsCopied, rows
        <5>2. \A at \in 0 .. Size(rows[k]) : at < RowSize
          BY <4>2, RowsAssumption
        <5> QED
          BY <4>1, <5>1, <5>2 DEF Holds
      <4> QED
        BY <4>1, <4>3, <4>4
    <3> QED
      BY <3>4, <3>5 DEF m
  <2> QED
    BY <2>3, <2>4, <2>5 DEF ItemsArrive
<1> QED
  BY <1>1, RowsInvariant, RowsCorrect, OverrunCorrect, PTL
=============================================================================
