---------------------------- MODULE RequestRows ----------------------------
(***************************************************************************)
(* What on_data_available makes of the text of a request: findNodeByName   *)
(* looks for DOMAIN-SPECIFIC, one visited node a step, and the contents of *)
(* its DOMAINID children are copied to IEC61850_RequestData, one row after *)
(* the other of an array whose rows lie side by side in memory.            *)
(***************************************************************************)
EXTENDS XmlTree

CONSTANTS
  Documents,     \* the documents requests may carry
  Rows,          \* rows of IEC61850_RequestData (100)
  RowSize,       \* octets of a row (255)
  TextLength,    \* per text: its octets
  MaxDocuments   \* bound: requests taken

Texts == DOMAIN TextLength

ASSUME RowsAssumption ==
  /\ TextLength \in [Texts -> Nat]
  /\ \A d \in Documents : d \in Seq([name : STRING, last : Nat, text : Texts])
                          /\ IsDocument(d)
  /\ Rows \in Nat \ {0} /\ RowSize \in Nat \ {0}
  /\ MaxDocuments \in Nat

VARIABLES
  pc,           \* "idle", "find" (in findNodeByName), "copy", "crashed",
                \* "overrun" (strcpy left the array, or was stopped)
  doc,          \* the parsed request
  node,         \* the local `node`, of the innermost call while in "find"
  callers,      \* the nodes whose children the calls in progress look at
  domain,       \* the node findNodeByName returned last
  i,            \* the next row
  requestData,  \* IEC61850_RequestData
  taken,        \* requests taken
  before        \* history: requestData when the request was taken

vars == << pc, doc, node, callers, domain, i, requestData, taken, before >>

-----------------------------------------------------------------------------
(* The array. *)

(* The octets of a content, its texts one behind the other. *)
Size(content) ==
  LET upTo[n \in 0 .. Len(content)] ==
        IF n = 0 THEN 0 ELSE upTo[n - 1] + TextLength[content[n]]
  IN  upTo[Len(content)]

(* An octet of a content, told by its place; the Size-th is the terminator. *)
Octet(content, at) == [of |-> content, at |-> at]

Address(r) == r * RowSize
Addresses  == 0 .. Address(Rows) - 1
Memory     == [Addresses -> [of : Seq(Texts), at : Nat]]

(* The terminator of an empty text. *)
Zero == Octet(<< >>, 0)

(* strcpy to row r, terminator included; it knows nothing of rows. *)
strcpy(r, content) ==
  [a \in Addresses |-> IF a - Address(r) \in 0 .. Size(content)
                       THEN Octet(content, a - Address(r)) ELSE requestData[a]]

(* The copy stays in the array; it stays in its row. *)
InArray(r, content) == Address(r) + Size(content) < Address(Rows)
InRow(r, content)   == r < Rows /\ Size(content) < RowSize

-----------------------------------------------------------------------------
Init ==
  /\ pc = "idle" /\ doc = << >> /\ node = NULL /\ callers = << >>
  /\ domain = NULL /\ i = 0 /\ taken = 0
  /\ requestData = [a \in Addresses |-> Zero]
  /\ before = requestData

Sought == "DOMAIN-SPECIFIC"

(* The node whose children are being looked at, NULL for the document. *)
Caller == IF callers = << >> THEN NULL ELSE callers[Len(callers)]

(* A request is taken and parsed; the search starts at the root. *)
TakeDocument(d) ==
  /\ pc = "idle" /\ taken < MaxDocuments
  /\ taken' = taken + 1
  /\ doc' = d /\ node' = 1 /\ callers' = << >>
  /\ before' = requestData
  /\ pc' = "find"
  /\ UNCHANGED << domain, i, requestData >>

(* Text that does not parse has no root: findNodeByName says so and returns *)
(* NULL, which is dereferenced.                                             *)
TakeUnparsable ==
  /\ pc = "idle" /\ taken < MaxDocuments
  /\ taken' = taken + 1
  /\ doc' = << >> /\ node' = NULL /\ callers' = << >>
  /\ before' = requestData
  /\ pc' = "crashed"
  /\ UNCHANGED << domain, i, requestData >>

-----------------------------------------------------------------------------
(* findNodeByName. *)

(* Faulty variant: the row number is not reset for the next request. *)
MatchesKeepingRow ==
  /\ pc = "find" /\ node # NULL /\ doc[node].name = Sought
  /\ domain' = node
  /\ node' = children(doc, node)
  /\ pc' = "copy"
  /\ UNCHANGED << doc, callers, i, requestData, taken, before >>

(* The name is the one sought: every call returns the node. *)
Matches ==
  /\ pc = "find" /\ node # NULL /\ doc[node].name = Sought
  /\ domain' = node
  /\ node' = children(doc, node) /\ i' = 0
  /\ pc' = "copy"
  /\ UNCHANGED << doc, callers, requestData, taken, before >>

Differs == pc = "find" /\ node # NULL /\ doc[node].name # Sought

(* Faulty variant: siblings are looked at before children. *)
DescendLast ==
  /\ Differs /\ children(doc, node) # NULL
  /\ IF next(doc, node) # NULL
     THEN node' = next(doc, node) /\ UNCHANGED callers
     ELSE node' = children(doc, node) /\ callers' = Append(callers, node)
  /\ UNCHANGED << pc, doc, domain, i, requestData, taken, before >>

(* The call for the children of a node. *)
Descend ==
  /\ Differs /\ children(doc, node) # NULL
  /\ callers' = Append(callers, node)
  /\ node' = children(doc, node)
  /\ UNCHANGED << pc, doc, domain, i, requestData, taken, before >>

(* A node without children: on to the next one. *)
Advance ==
  /\ Differs /\ children(doc, node) = NULL
  /\ node' = next(doc, node)
  /\ UNCHANGED << pc, doc, callers, domain, i, requestData, taken, before >>

(* Faulty variant: the loop of the caller does not advance. *)
AscendToSame ==
  /\ pc = "find" /\ node = NULL /\ callers # << >>
  /\ node' = Caller
  /\ callers' = SubSeq(callers, 1, Len(callers) - 1)
  /\ UNCHANGED << pc, doc, domain, i, requestData, taken, before >>

(* A call returns NULL and its caller goes on behind the node. *)
Ascend ==
  /\ pc = "find" /\ node = NULL /\ callers # << >>
  /\ node' = next(doc, Caller)
  /\ callers' = SubSeq(callers, 1, Len(callers) - 1)
  /\ UNCHANGED << pc, doc, domain, i, requestData, taken, before >>

(* NULL is returned to the listener, which dereferences it. *)
NotFound ==
  /\ pc = "find" /\ node = NULL /\ callers = << >>
  /\ pc' = "crashed"
  /\ UNCHANGED << doc, node, callers, domain, i, requestData, taken, before >>

findNodeByName == Matches \/ Descend \/ Advance \/ Ascend \/ NotFound

-----------------------------------------------------------------------------
(* The loop over the children of the node found. *)

InLoop == pc = "copy" /\ node # NULL

AtRow == InLoop /\ doc[node].name = "DOMAINID"

(* Faulty variant: rows are numbered by child, blanks included. *)
CopyRowByChild ==
  /\ AtRow /\ InArray(i, Content(doc, node))
  /\ requestData' = strcpy((node - domain) % Rows, Content(doc, node))
  /\ i' = i + 1
  /\ node' = next(doc, node)
  /\ UNCHANGED << pc, doc, callers, domain, taken, before >>

(* A content too long for row i goes on into the rows behind it. *)
CopyRow ==
  /\ AtRow /\ InArray(i, Content(doc, node))
  /\ requestData' = strcpy(i, Content(doc, node))
  /\ i' = i + 1
  /\ node' = next(doc, node)
  /\ UNCHANGED << pc, doc, callers, domain, taken, before >>

(* Faulty variant: rows that do not exist are left out. *)
OverrunChecked ==
  /\ AtRow /\ ~InRow(i, Content(doc, node))
  /\ node' = next(doc, node)
  /\ UNCHANGED << pc, doc, callers, domain, i, requestData, taken, before >>

(***************************************************************************)
(* Nothing in the code compares i or the text with the array.  Behind its  *)
(* end other memory is overwritten; and to leave a row is undefined as     *)
(* such: a build that checks strcpy against the row ends the process.      *)
(***************************************************************************)
Overrun ==
  /\ AtRow /\ ~InRow(i, Content(doc, node))
  /\ pc' = "overrun"
  /\ UNCHANGED << doc, node, callers, domain, i, requestData, taken, before >>

SkipNode ==
  /\ InLoop /\ doc[node].name # "DOMAINID"
  /\ node' = next(doc, node)
  /\ UNCHANGED << pc, doc, callers, domain, i, requestData, taken, before >>

EndLoop ==
  /\ pc = "copy" /\ node = NULL
  /\ pc' = "idle"
  /\ UNCHANGED << doc, node, callers, domain, i, requestData, taken, before >>

Extract == findNodeByName \/ CopyRow \/ Overrun \/ SkipNode \/ EndLoop

Next == (\E d \in Documents : TakeDocument(d)) \/ TakeUnparsable \/ Extract

Spec == Init /\ [][Next]_vars

(* The listener's thread runs. *)
FairSpec == Spec /\ WF_vars(Extract)

-----------------------------------------------------------------------------
(* Every variable stays in its type, and node points into the document. *)
TypeOK ==
  /\ pc \in {"idle", "find", "copy", "crashed", "overrun"}
  /\ pc \notin {"idle", "crashed"} => IsDocument(doc)
  /\ node \in 0 .. Len(doc)
  /\ callers \in Seq(1 .. Len(doc))
  /\ domain \in Nat /\ i \in 0 .. Rows
  /\ requestData \in Memory /\ before \in Memory
  /\ taken \in 0 .. MaxDocuments

(***************************************************************************)
(* findNodeByName, called for the children of each node on its way, finds  *)
(* the first DOMAIN-SPECIFIC node in document order wherever it lies, and  *)
(* returns NULL to the listener only when there is none.                   *)
(***************************************************************************)
FirstInOrder ==
  /\ pc = "copy" => IsFirst(doc, Sought, domain)
  /\ pc = "crashed" => \A n \in 1 .. Len(doc) : doc[n].name # Sought

(* The children of a node that ask for a row. *)
RowNodes(d, p) == {n \in 1 .. Len(d) : ChildOf(d, p, n) /\ d[n].name = "DOMAINID"}

(* The rows of a document: the contents of the DOMAINID children, in order. *)
RowsOf(d, p) ==
  LET ids == Ascending(RowNodes(d, p), Len(d))
  IN  [k \in DOMAIN ids |-> Content(d, ids[k])]

(* strcpy of the r-th row writes to the address a. *)
Covers(rows, r, a) == a - Address(r - 1) \in 0 .. Size(rows[r])

(***************************************************************************)
(* When a request was gone through, the array has its rows from 0 on, one  *)
(* per DOMAINID child at any distance of one another: the last is whole,   *)
(* and so is every other that fits its row; one that does not is cut where *)
(* the next row begins.  What none of them was written over still is what  *)
(* earlier requests left there: nothing clears the array.  The MMS thread  *)
(* may look while rows are copied: what it finds then is the first i rows  *)
(* of the new request and, behind them, the old contents.                  *)
(***************************************************************************)
RowsCopied ==
  pc \in {"copy", "overrun"} \/ (pc = "idle" /\ doc # << >>) =>
    LET rows   == RowsOf(doc, domain)
        copied == IF pc = "idle" THEN Len(rows) ELSE i
    IN  /\ copied <= Len(rows)
        /\ \A r \in 1 .. copied : \A at \in 0 .. Size(rows[r]) :
             r = copied \/ at < RowSize
               => requestData[Address(r - 1) + at] = Octet(rows[r], at)
        /\ \A a \in Addresses :
             (\A r \in 1 .. copied : ~Covers(rows, r, a)) => requestData[a] = before[a]

(***************************************************************************)
(* A request that comes through never left the array, be it that a text,   *)
(* or the texts of a row together, are longer than a row; and one that     *)
(* does not come through has more rows than the array or a row too long.   *)
(***************************************************************************)
OverrunCaused ==
  LET rows == RowsOf(doc, domain)
  IN  /\ pc = "overrun" => \E r \in 1 .. Len(rows) : ~InRow(r - 1, rows[r])
      /\ (pc = "idle" /\ doc # << >>) => \A r \in 1 .. Len(rows) : InArray(r - 1, rows[r])

(* However the document looks, the listener is done with it in the end. *)
ExtractEnds == (pc = "find") ~> (pc \in {"idle", "crashed", "overrun"})
=============================================================================
