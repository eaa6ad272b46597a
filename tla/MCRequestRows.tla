--------------------------- MODULE MCRequestRows ---------------------------
(***************************************************************************)
(* RequestRows over small documents of every shape, and over the requests  *)
(* that Writer::svc sends.                                                 *)
(***************************************************************************)
EXTENDS RequestItems

CONSTANT MaxNodes   \* bound: nodes of an arbitrary document

(* Documents of n nodes: elements sought or not, and text. *)
Shapes(n) ==
  { l \in [1 .. n -> 1 .. n] :
      \A a \in 1 .. n : l[a] >= a /\ \A b \in a .. l[a] : l[b] <= l[a] }

Kinds == {"DOMAIN-SPECIFIC", "DOMAINID", "text", "long"}

(* The text of a text node tells where it came from. *)
TextAt == << "t1", "t2", "t3", "t4", "t5", "t6" >>

(* With rows of two octets: one text fits, two together do not; a long one *)
(* fills what is left behind row 0, and leaves the array from any other.   *)
Lengths ==
  [t \in {TextAt[k] : k \in 1 .. 6} \cup Items \cup Values
           \cup {"none", "long", "blank", "SOLAR01", "garbage", "domain", "MUMEAS"} |->
     CASE t = "long" -> 6 [] t \in {"none", ""} -> 0 [] OTHER -> 1]

NodeAt(kind, last, n) ==
  CASE kind = "text" -> TextNode(TextAt[n], n)
    [] kind = "long" -> TextNode("long", n)
    [] OTHER         -> Element(kind, last)

ArbitraryDocuments ==
  UNION { { [a \in 1 .. n |-> NodeAt(m[a], l[a], a)] :
              l \in Shapes(n), m \in [1 .. n -> Kinds] } : n \in 1 .. MaxNodes }

WellFormed == { d \in ArbitraryDocuments : IsDocument(d) }

(* Anything small, and whatever XMLParser builds. *)
Requests == WellFormed \cup BuiltRequests \cup OtherDocuments
=============================================================================
