---------------------------- MODULE RequestItems ----------------------------
(***************************************************************************)
(* The documents that XMLParser builds, from any vector of items, and what *)
(* RequestRows makes of them.                                              *)
(***************************************************************************)
EXTENDS RequestRows

CONSTANTS
  Items,      \* items of the requests that Writer::svc sends
  Values,     \* values in the responses, "" among them
  MaxItems    \* bound: items of a request or response

(* "none" stands for no text; an item has text that fits a row. *)
ASSUME ItemsAssumption ==
  /\ Items \subseteq STRING /\ Values \subseteq STRING
  /\ (Items \cup {"SOLAR01"}) \cap {"none", ""} = {}
  /\ \A t \in Items \cup {"SOLAR01"} : t \in Texts /\ TextLength[t] < RowSize
  /\ "none" \notin Values
  /\ MaxItems \in Nat

(* Requests with any vector of items, read and write. *)
ItemVectors == UNION { [1 .. k -> Items] : k \in 0 .. MaxItems }

Built ==
  { << v, getDataValue_8_2(v) >> : v \in ItemVectors } \cup
  { << v, setDataValue_8_2(v) >> : v \in ItemVectors }

BuiltRequests == { b[2] : b \in Built }

(* What XMLParser builds and the listener of requests has no answer to. *)
Results == UNION { [1 .. k -> Values] : k \in 0 .. MaxItems }

Responses ==
  { << v, getDataValue_resp_8_2(v) >> : v \in Results } \cup
  { << v, setDataValue_resp_8_2(v) >> : v \in Results }

OtherDocuments ==
  {getServerDirectory_8_2, getServerDirectory_resp_8_2} \cup { b[2] : b \in Responses }

-----------------------------------------------------------------------------
(* The string in row r is this content, to its terminator. *)
Holds(r, content) ==
  \A at \in 0 .. Size(content) : requestData[Address(r) + at] = Octet(content, at)

(***************************************************************************)
(* What Writer::svc put into a request is what the gateway hands to the    *)
(* device thread: the domain SOLAR01 in row 0 and the items behind it,     *)
(* from either kind of request, through nine levels and the indentation.   *)
(* Such a request crashes the listener never, and overruns the array only  *)
(* with more items than the rows behind the domain's; the other documents  *)
(* of XMLParser, a directory request among them, always crash it.          *)
(***************************************************************************)
ItemsArrive ==
  /\ pc = "crashed" => doc \notin BuiltRequests
  /\ pc = "idle" => doc \notin OtherDocuments
  /\ \A b \in Built :
       doc = b[2] =>
         /\ pc = "overrun" => Len(b[1]) + 1 > Rows
         /\ pc = "idle" =>
              /\ Len(b[1]) + 1 <= Rows
              /\ \A k \in 1 .. Len(b[1]) + 1 : Holds(k - 1, << Identifiers(b[1])[k] >>)

(***************************************************************************)
(* A response is the same whatever is read out of it: one float per item   *)
(* the responder collected, in the order of the rows, as children of       *)
(* success, an empty float where the row was empty.                        *)
(***************************************************************************)
ItemsReturned ==
  \A b \in Responses :
    doc = b[2] =>
      LET success == CHOOSE n \in 1 .. Len(doc) : doc[n].name = "success"
          floats  == Ascending({n \in 1 .. Len(doc) : /\ ChildOf(doc, success, n)
                                                      /\ doc[n].name = "float"}, Len(doc))
      IN  /\ Len(floats) = Len(b[1])
          /\ \A k \in DOMAIN floats :
               Content(doc, floats[k]) = IF b[1][k] = "" THEN << >> ELSE << b[1][k] >>
=============================================================================
