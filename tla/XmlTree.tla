------------------------------ MODULE XmlTree ------------------------------
(***************************************************************************)
(* The request documents that XMLParser builds and walks.  A document is   *)
(* the sequence of its nodes in document order; a node has its name, the   *)
(* position of the last node of its subtree, and its text when it is a     *)
(* text node.  The pointers libxml2 keeps follow from the positions.       *)
(***************************************************************************)
EXTENDS Integers, Sequences

NULL == 0

(* Subtrees lie within the document and within one another. *)
IsDocument(d) ==
  /\ Len(d) > 0
  /\ \A n \in 1 .. Len(d) :
       /\ d[n].last \in n .. Len(d)
       /\ \A m \in n .. d[n].last : d[m].last <= d[n].last

(* Faulty variant: the node behind a leaf is taken for its child. *)
childrenAlways(d, n) == n + 1

(* node->children *)
children(d, n) == IF d[n].last > n THEN n + 1 ELSE NULL

(* node->next: nothing follows a node that ends where its parent ends. *)
next(d, n) ==
  IF d[n].last < Len(d) /\ \A p \in 1 .. n - 1 : d[p].last # d[n].last
  THEN d[n].last + 1
  ELSE NULL

-----------------------------------------------------------------------------
(* Reference notions. *)

LastOf(d, p) == IF p = NULL THEN Len(d) ELSE d[p].last

(* n is a child of p, of the document itself for p = NULL. *)
ChildOf(d, p, n) ==
  /\ p < n /\ n <= LastOf(d, p)
  /\ \A q \in p + 1 .. n - 1 : d[q].last < n

(* n is the first node with that name in document order. *)
IsFirst(d, name, n) ==
  /\ n \in 1 .. Len(d)
  /\ d[n].name = name
  /\ \A m \in 1 .. n - 1 : d[m].name # name

-----------------------------------------------------------------------------
(* What XMLParser builds and xmlNodeDump prints with indentation, parsed.  *)

Element(name, last) == [name |-> name, last |-> last, text |-> "none"]
TextNode(text, n)   == [name |-> "text", last |-> n, text |-> text]

(* The numbers of S up to N, in ascending order. *)
Ascending(S, N) ==
  LET upTo[n \in 0 .. N] == IF n = 0 THEN << >>
                            ELSE IF n \in S THEN Append(upTo[n - 1], n) ELSE upTo[n - 1]
  IN  upTo[N]

(* xmlNodeGetContent: the text nodes of the subtree. *)
Content(d, n) ==
  LET at == Ascending({m \in n .. d[n].last : d[m].name = "text"}, d[n].last)
  IN  [k \in DOMAIN at |-> d[at[k]].text]

(***************************************************************************)
(* The document of the elements es, which xmlNewTextChild added one after  *)
(* the other as the last child of an open element: each with its depth,    *)
(* name and text.  The indentation is a text node before every element and *)
(* before the closing tag of every element that has child elements.        *)
(***************************************************************************)
DepthAt(es, n) == IF n > Len(es) THEN 0 ELSE es[n].depth

HasText(es, n) == es[n].text \notin {"none", ""}

(* The elements that end behind the n-th, and the blank before it. *)
Closed(es, n) ==
  IF DepthAt(es, n) > DepthAt(es, n + 1) THEN DepthAt(es, n) - DepthAt(es, n + 1) ELSE 0
Blank(es, n)  == IF n > Len(es) THEN 0 ELSE 1

(* The nodes from the n-th element to the next one, and where they start. *)
Width(es, n) == 1 + (IF HasText(es, n) THEN 1 ELSE 0) + Closed(es, n) + Blank(es, n + 1)

Starts(es) ==
  LET at[n \in 1 .. Len(es) + 1] == IF n = 1 THEN 1 ELSE at[n - 1] + Width(es, n - 1)
  IN  at

(* The first element, or the end, that is not inside the n-th. *)
Follower(es, n) ==
  CHOOSE m \in n + 1 .. Len(es) + 1 :
    /\ DepthAt(es, m) <= DepthAt(es, n)
    /\ \A k \in n + 1 .. m - 1 : DepthAt(es, k) > DepthAt(es, n)

LastAt(es, at, n) ==
  LET m == Follower(es, n)
  IN  at[m] - 1 - Blank(es, m) - (DepthAt(es, n) - DepthAt(es, m))

(* The element whose nodes the node k is one of. *)
Owner(es, at, k) == CHOOSE n \in 1 .. Len(es) : at[n] <= k /\ k < at[n + 1]

NodeOf(es, at, k) ==
  LET n == Owner(es, at, k)
  IN  IF k = at[n] THEN Element(es[n].name, LastAt(es, at, n))
      ELSE TextNode(IF k = at[n] + 1 /\ HasText(es, n) THEN es[n].text ELSE "blank", k)

Printed(es) ==
  LET at == Starts(es)
  IN  [k \in 1 .. at[Len(es) + 1] - 1 |-> NodeOf(es, at, k)]

At(depth, name, text) == [depth |-> depth, name |-> name, text |-> text]

(* Elements that are each the only child of the one before. *)
Spine(names) == [k \in DOMAIN names |-> At(k - 1, names[k], "none")]

Leaves(depth, name, values) == [k \in DOMAIN values |-> At(depth, name, values[k])]

-----------------------------------------------------------------------------
(* The requests. *)

(* The domain, and an item of it per element of the vector. *)
Identifiers(itemIds) == << "SOLAR01" >> \o itemIds

Request(root, service, itemIds) ==
  LET spine == << root, "confirmed-RequestPDU", service, "VARIABLEACCESSSPECIFICATN",
                  "LISTOFVARIABLE", "SEQUENCE", "VARIABLESPECIFICATION", "NAME",
                  "DOMAIN-SPECIFIC" >>
  IN  Printed(Spine(spine) \o Leaves(Len(spine), "DOMAINID", Identifiers(itemIds)))

getDataValue_8_2(itemIds) == Request("DDS_request", "Read", itemIds)

setDataValue_8_2(itemId1s) == Request("DDS_Setresponse", "Write", itemId1s)

(* Built by a request nothing sends yet; its invokeId is never filled in. *)
getServerDirectory_8_2 ==
  Printed(Spine(<< "DDS_request", "AssociationContext", "SecurityRequest-PDU",
                   "signedData", "userData", "confirmed-RequestPDU" >>) \o
          << At(6, "invokeId", "garbage"), At(6, "ConfirmedServiceRequest", "none"),
             At(7, "getNameList", "none"), At(8, "extendedObjectClass", "none"),
             At(9, "objectClass", "domain"), At(9, "objectScope", "none"),
             At(10, "vmdSpecific", "none") >>)

-----------------------------------------------------------------------------
(* The responses. *)
(* Faulty variant: the floats are put beside success instead of into it. *)
ResponseBeside(root, outcome, items) ==
  LET spine == << root, "confirmed-ResponsePDU", "ConfirmedServiceResponse" >> \o outcome
                 \o << "success" >>
  IN  Printed(Spine(spine) \o Leaves(Len(spine) - 1, "float", items))

Response(root, outcome, items) ==
  LET spine == << root, "confirmed-ResponsePDU", "ConfirmedServiceResponse" >> \o outcome
                 \o << "success" >>
  IN  Printed(Spine(spine) \o Leaves(Len(spine), "float", items))

getDataValue_resp_8_2(items) ==
  Response("DDS_response", << "Read", "listOfAccessResult" >>, items)

setDataValue_resp_8_2(item1s) ==
  Response("DDS_setrequest", << "Write", "CHOICE" >>, item1s)

getServerDirectory_resp_8_2 ==
  Printed(Spine(<< "DDS_response", "AssociationContext", "SecurityRequest-PDU",
                   "signedData", "userData", "confirmed-ResponsePDU" >>) \o
          << At(6, "invokeId", "garbage"), At(6, "ConfirmedServiceResponse", "none"),
             At(7, "getNameList", "none"), At(8, "listOfIdentifier", "none"),
             At(9, "Identifier", "MUMEAS") >>)
=============================================================================
