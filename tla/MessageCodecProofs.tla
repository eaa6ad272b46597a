------------------------- MODULE MessageCodecProofs -------------------------
(***************************************************************************)
(* The marshalling of a sample, for every value of its members, every      *)
(* number of slots and every bound: what was written is read back.         *)
(***************************************************************************)
EXTENDS MessageCodec, SequenceTheorems, NaturalsInduction, WellFoundedInduction, TLAPS

-----------------------------------------------------------------------------
(* Short sequences, put together.                                          *)

LEMMA Concat11 ==
  ASSUME NEW x, NEW y
  PROVE  << x >> \o << y >> = << x, y >>
<1> DEFINE S == {x, y}
           s == << x >>
           t == << y >>
           u == << x, y >>
<1>1. /\ s \in Seq(S) /\ Len(s) = 1 /\ s[1] = x
      /\ t \in Seq(S) /\ Len(t) = 1 /\ t[1] = y
      /\ u \in Seq(S) /\ Len(u) = 2 /\ u[1] = x /\ u[2] = y
  OBVIOUS
<1> HIDE DEF S, s, t, u
<1>2. /\ s \o t \in Seq(S) /\ Len(s \o t) = 2
      /\ \A n \in 1 .. 2 : (s \o t)[n] = IF n <= 1 THEN s[n] ELSE t[n - 1]
  BY <1>1, ConcatProperties
<1>3. \A n \in 1 .. Len(s \o t) : (s \o t)[n] = u[n]
  BY <1>1, <1>2
<1>4. s \o t = u
  BY <1>1, <1>2, <1>3, SeqEqual
<1> QED
  BY <1>4 DEF s, t, u

LEMMA Concat221 ==
  ASSUME NEW a, NEW b, NEW c, NEW d, NEW e
  PROVE  << a, b >> \o << c, d >> \o << e >> = << a, b, c, d, e >>
<1> DEFINE S == {a, b, c, d, e}
           s == << a, b >>
           t == << c, d >>
           r == << e >>
           u == << a, b, c, d, e >>
<1>1. /\ s \in Seq(S) /\ Len(s) = 2 /\ s[1] = a /\ s[2] = b
      /\ t \in Seq(S) /\ Len(t) = 2 /\ t[1] = c /\ t[2] = d
      /\ r \in Seq(S) /\ Len(r) = 1 /\ r[1] = e
      /\ u \in Seq(S) /\ Len(u) = 5
      /\ u[1] = a /\ u[2] = b /\ u[3] = c /\ u[4] = d /\ u[5] = e
  OBVIOUS
<1> HIDE DEF S, s, t, r, u
<1>2. /\ s \o t \in Seq(S) /\ Len(s \o t) = 4
      /\ \A n \in 1 .. 4 : (s \o t)[n] = IF n <= 2 THEN s[n] ELSE t[n - 2]
  <2>1. /\ s \o t \in Seq(S) /\ Len(s \o t) = Len(s) + Len(t)
        /\ \A n \in 1 .. Len(s) + Len(t) :
             (s \o t)[n] = IF n <= Len(s) THEN s[n] ELSE t[n - Len(s)]
    BY <1>1, ConcatProperties
  <2> QED
    BY <1>1, <2>1
<1> DEFINE w == s \o t
<1> HIDE DEF w
<1>3. /\ w \o r \in Seq(S) /\ Len(w \o r) = 5
      /\ \A n \in 1 .. 5 : (w \o r)[n] = IF n <= 4 THEN w[n] ELSE r[n - 4]
  <2>1. w \in Seq(S) /\ Len(w) = 4
    BY <1>2 DEF w
  <2>2. /\ w \o r \in Seq(S) /\ Len(w \o r) = Len(w) + Len(r)
        /\ \A n \in 1 .. Len(w) + Len(r) :
             (w \o r)[n] = IF n <= Len(w) THEN w[n] ELSE r[n - Len(w)]
    BY <1>1, <2>1, ConcatProperties
  <2> QED
    BY <1>1, <2>1, <2>2
<1>4. \A n \in 1 .. Len(w \o r) : (w \o r)[n] = u[n]
  <2> SUFFICES ASSUME NEW n \in 1 .. 5 PROVE (w \o r)[n] = u[n]
    BY <1>3
  <2>1. n = 1 \/ n = 2 \/ n = 3 \/ n = 4 \/ n = 5
    OBVIOUS
  <2>2. n <= 4 => w[n] = IF n <= 2 THEN s[n] ELSE t[n - 2]
    BY <1>2 DEF w
  <2>3. (w \o r)[n] = IF n <= 4 THEN w[n] ELSE r[n - 4]
    BY <1>3
  <2> QED
    BY <2>1, <2>2, <2>3, <1>1
<1>5. w \o r = u
  BY <1>1, <1>3, <1>4, SeqEqual
<1> QED
  BY <1>5 DEF w, s, t, r, u

-----------------------------------------------------------------------------
(* What the orders of the members come to.                                 *)

(* The members of a type, their values in a sample and the octets of those. *)
Layout(t)      == Orders[t].write
Count(t)       == Len(Layout(t))
Kind(t, n)     == Layout(t)[n].kind
Path(t, n)     == Layout(t)[n].path
Value(t, v, n) == getValue(v, Path(t, n))
Bytes(t, v, n) == Octets(Kind(t, n), Value(t, v, n))

LEMMA TypeNames ==
  Types = {"Message", "KeyOnly", "timespec", "StringArray", "Binary"}
  BY DEF Types, Orders

(* Every function of a type names the members in the same order. *)
LEMMA OneOrder ==
  ASSUME NEW t \in Types
  PROVE  /\ Orders[t]["size"] = Layout(t) /\ Orders[t]["write"] = Layout(t)
         /\ Orders[t]["read"] = Layout(t)
         /\ t # "KeyOnly" => /\ Orders[t]["insert"] = Layout(t)
                             /\ Orders[t]["extract"] = Layout(t)
                             /\ Orders[t]["skip"] = Layout(t)
<1>1. CASE t = "Message"
  BY <1>1 DEF Layout, Orders, Message_size, Message_write, Message_read, Message_skip,
       Message_insert, Message_extract, timespec_size, timespec_write, timespec_read,
       timespec_skip, timespec_insert, timespec_extract
<1>2. CASE t = "KeyOnly"
  BY <1>2 DEF Layout, Orders, KeyOnly_size, KeyOnly_write, KeyOnly_read
<1>3. CASE t = "timespec"
  BY <1>3 DEF Layout, Orders, timespec_size, timespec_write, timespec_read,
       timespec_skip, timespec_insert, timespec_extract
<1>4. CASE t = "StringArray"
  BY <1>4 DEF Layout, Orders, StringArray_size, StringArray_write, StringArray_read,
       StringArray_skip, StringArray_insert, StringArray_extract
<1>5. CASE t = "Binary"
  BY <1>5 DEF Layout, Orders, Binary_size, Binary_write, Binary_read, Binary_skip,
       Binary_insert, Binary_extract
<1> QED
  BY <1>1, <1>2, <1>3, <1>4, <1>5, TypeNames

Stamped(name) == [path |-> << "time_stamp", name >>, kind |-> "long"]

LEMMA TimespecLayout ==
  /\ Layout("timespec") = << Member("tv_sec", "long"), Member("tv_nsec", "long") >>
  /\ Within("time_stamp", Timespec) = << Stamped("tv_sec"), Stamped("tv_nsec") >>
<1>1. Layout("timespec") = << Member("tv_sec", "long"), Member("tv_nsec", "long") >>
  BY DEF Layout, Orders, timespec_write, Timespec
<1> DEFINE a == Member("tv_sec", "long")
           b == Member("tv_nsec", "long")
<1>2. [a EXCEPT !.path = << "time_stamp" >> \o @] = Stamped("tv_sec")
  <2>1. << "time_stamp" >> \o << "tv_sec" >> = << "time_stamp", "tv_sec" >>
    BY Concat11
  <2> QED
    BY <2>1 DEF Member, Stamped
<1>3. [b EXCEPT !.path = << "time_stamp" >> \o @] = Stamped("tv_nsec")
  <2>1. << "time_stamp" >> \o << "tv_nsec" >> = << "time_stamp", "tv_nsec" >>
    BY Concat11
  <2> QED
    BY <2>1 DEF Member, Stamped
<1>4. Within("time_stamp", Timespec) = << Stamped("tv_sec"), Stamped("tv_nsec") >>
  <2>1. Timespec = << a, b >>
    BY DEF Timespec
  <2> HIDE DEF a, b
  <2>2. DOMAIN << a, b >> = 1 .. 2 /\ << a, b >>[1] = a /\ << a, b >>[2] = b
    OBVIOUS
  <2>3. Within("time_stamp", << a, b >>)
          = [n \in 1 .. 2 |-> [<< a, b >>[n] EXCEPT !.path = << "time_stamp" >> \o @]]
    BY <2>2 DEF Within
  <2> DEFINE c == Stamped("tv_sec")
             d == Stamped("tv_nsec")
  <2> HIDE DEF c, d
  <2>4. Within("time_stamp", << a, b >>) = [n \in 1 .. 2 |-> IF n = 1 THEN c ELSE d]
    <3>1. \A n \in 1 .. 2 : [<< a, b >>[n] EXCEPT !.path = << "time_stamp" >> \o @]
                              = IF n = 1 THEN c ELSE d
      BY SMTT(30), <2>2, <1>2, <1>3 DEF c, d
    <3> QED
      BY <2>3, <3>1
  <2>5. << c, d >> = [n \in 1 .. 2 |-> IF n = 1 THEN c ELSE d]
    OBVIOUS
  <2> QED
    BY <2>1, <2>4, <2>5 DEF c, d
<1> QED
  BY <1>1, <1>4

LEMMA MessageLayout ==
  Layout("Message") = << Member("text", "string"), Member("count", "long"),
                         Stamped("tv_sec"), Stamped("tv_nsec"), Member("subject", "char") >>
<1>1. Layout("Message") = MessageWith(Timespec)
  BY DEF Layout, Orders, Message_write, timespec_write
<1>2. MessageWith(Timespec)
        = << Member("text", "string"), Member("count", "long") >>
          \o << Stamped("tv_sec"), Stamped("tv_nsec") >> \o << Member("subject", "char") >>
  BY TimespecLayout DEF MessageWith
<1> DEFINE a == Member("text", "string")
           b == Member("count", "long")
           c == Stamped("tv_sec")
           d == Stamped("tv_nsec")
           e == Member("subject", "char")
<1> HIDE DEF a, b, c, d, e
<1>3. << a, b >> \o << c, d >> \o << e >> = << a, b, c, d, e >>
  BY Concat221
<1> QED
  BY <1>1, <1>2, <1>3 DEF a, b, c, d, e

LEMMA OneTuples ==
  /\ << >> \in Seq({})
  /\ \A x : \E S : << x >> \in Seq(S)
  /\ \A x, y : \E S : << x, y >> \in Seq(S)
  /\ \A a, b, c, d, e : \E S : << a, b, c, d, e >> \in Seq(S)
<1>1. \A x : << x >> \in Seq({x})
  OBVIOUS
<1>2. \A x, y : << x, y >> \in Seq({x, y})
  OBVIOUS
<1>3. \A a, b, c, d, e : << a, b, c, d, e >> \in Seq({a, b, c, d, e})
  OBVIOUS
<1>4. << >> \in Seq({})
  OBVIOUS
<1> QED
  BY <1>1, <1>2, <1>3, <1>4, Zenon

LEMMA OtherLayouts ==
  /\ Layout("KeyOnly") = << >>
  /\ Layout("Binary") = << Member("contents", "octets") >>
  /\ Layout("StringArray") = [n \in DOMAIN Slots |-> Member(Slots[n], "string")]
  BY DEF Layout, Orders, KeyOnly_write, Binary_write, Contents, StringArray_write, Strings100

(* The members of each type. *)
LEMMA MessageMembers ==
  /\ Count("Message") = 5
  /\ Kind("Message", 1) = "string" /\ Path("Message", 1) = << "text" >>
  /\ Kind("Message", 2) = "long"   /\ Path("Message", 2) = << "count" >>
  /\ Kind("Message", 3) = "long"   /\ Path("Message", 3) = << "time_stamp", "tv_sec" >>
  /\ Kind("Message", 4) = "long"   /\ Path("Message", 4) = << "time_stamp", "tv_nsec" >>
  /\ Kind("Message", 5) = "char"   /\ Path("Message", 5) = << "subject" >>
<1> DEFINE a == Member("text", "string")
           b == Member("count", "long")
           c == Stamped("tv_sec")
           d == Stamped("tv_nsec")
           e == Member("subject", "char")
<1>1. /\ a.kind = "string" /\ a.path = << "text" >>
      /\ b.kind = "long" /\ b.path = << "count" >>
      /\ c.kind = "long" /\ c.path = << "time_stamp", "tv_sec" >>
      /\ d.kind = "long" /\ d.path = << "time_stamp", "tv_nsec" >>
      /\ e.kind = "char" /\ e.path = << "subject" >>
  BY DEF Member, Stamped
<1>2. Layout("Message") = << a, b, c, d, e >>
  BY MessageLayout
<1> HIDE DEF a, b, c, d, e
<1>3. /\ Len(<< a, b, c, d, e >>) = 5
      /\ << a, b, c, d, e >>[1] = a /\ << a, b, c, d, e >>[2] = b /\ << a, b, c, d, e >>[3] = c
      /\ << a, b, c, d, e >>[4] = d /\ << a, b, c, d, e >>[5] = e
  OBVIOUS
<1> QED
  BY <1>1, <1>2, <1>3 DEF Count, Kind, Path

LEMMA TimespecMembers ==
  /\ Count("timespec") = 2
  /\ Kind("timespec", 1) = "long" /\ Path("timespec", 1) = << "tv_sec" >>
  /\ Kind("timespec", 2) = "long" /\ Path("timespec", 2) = << "tv_nsec" >>
<1> DEFINE a == Member("tv_sec", "long")
           b == Member("tv_nsec", "long")
<1>1. /\ a.kind = "long" /\ a.path = << "tv_sec" >>
      /\ b.kind = "long" /\ b.path = << "tv_nsec" >>
  BY DEF Member
<1>2. Layout("timespec") = << a, b >>
  BY TimespecLayout
<1> HIDE DEF a, b
<1>3. Len(<< a, b >>) = 2 /\ << a, b >>[1] = a /\ << a, b >>[2] = b
  OBVIOUS
<1> QED
  BY <1>1, <1>2, <1>3 DEF Count, Kind, Path

LEMMA OtherMembers ==
  /\ Count("KeyOnly") = 0
  /\ Count("Binary") = 1 /\ Kind("Binary", 1) = "octets"
  /\ Path("Binary", 1) = << "contents" >>
  /\ Count("StringArray") = Len(Slots) /\ Len(Slots) \in Nat /\ DOMAIN Slots = 1 .. Len(Slots)
  /\ \A n \in 1 .. Len(Slots) : /\ Kind("StringArray", n) = "string"
                                /\ Path("StringArray", n) = << Slots[n] >>
<1>1. Count("KeyOnly") = 0
  BY OtherLayouts DEF Count
<1>2. /\ Count("Binary") = 1 /\ Kind("Binary", 1) = "octets"
      /\ Path("Binary", 1) = << "contents" >>
  <2> DEFINE a == Member("contents", "octets")
  <2>1. a.kind = "octets" /\ a.path = << "contents" >>
    BY DEF Member
  <2>2. Layout("Binary") = << a >>
    BY OtherLayouts
  <2> HIDE DEF a
  <2>3. Len(<< a >>) = 1 /\ << a >>[1] = a
    OBVIOUS
  <2> QED
    BY <2>1, <2>2, <2>3 DEF Count, Kind, Path
<1>3. Slots \in Seq(STRING) /\ Len(Slots) \in Nat /\ DOMAIN Slots = 1 .. Len(Slots)
  BY CodecAssumption, LenProperties DEF CodecAssumption
<1>4. Layout("StringArray") = [n \in 1 .. Len(Slots) |-> Member(Slots[n], "string")]
  BY <1>3, OtherLayouts
<1>5. Len(Layout("StringArray")) = Len(Slots)
  <2> DEFINE m(n) == Member(Slots[n], "string")
  <2> HIDE DEF m
  <2>1. Len([n \in 1 .. Len(Slots) |-> m(n)]) = Len(Slots)
    BY <1>3
  <2> QED
    BY <2>1, <1>4 DEF m
<1>6. \A n \in 1 .. Len(Slots) : Layout("StringArray")[n] = Member(Slots[n], "string")
  BY <1>4
<1>7. \A n \in 1 .. Len(Slots) : /\ Kind("StringArray", n) = "string"
                                 /\ Path("StringArray", n) = << Slots[n] >>
  <2>1. \A x : Member(x, "string").kind = "string" /\ Member(x, "string").path = << x >>
    BY DEF Member
  <2> QED
    BY <1>6, <2>1 DEF Kind, Path
<1> QED
  BY <1>1, <1>2, <1>3, <1>5, <1>7 DEF Count

LEMMA LayoutDomain ==
  ASSUME NEW t \in Types
  PROVE  DOMAIN Layout(t) = 1 .. Count(t)
<1>1. \E S : Layout(t) \in Seq(S)
  <2>1. CASE t = "Message"
    <3> DEFINE a == Member("text", "string")
               b == Member("count", "long")
               c == Stamped("tv_sec")
               d == Stamped("tv_nsec")
               e == Member("subject", "char")
    <3>1. Layout(t) = << a, b, c, d, e >>
      BY <2>1, MessageLayout
    <3> HIDE DEF a, b, c, d, e
    <3>2. \E S : << a, b, c, d, e >> \in Seq(S)
      BY OneTuples
    <3> QED
      BY <3>1, <3>2
  <2>2. CASE t = "timespec"
    <3> DEFINE a == Member("tv_sec", "long")
               b == Member("tv_nsec", "long")
    <3>1. Layout(t) = << a, b >>
      BY <2>2, TimespecLayout
    <3> HIDE DEF a, b
    <3>2. \E S : << a, b >> \in Seq(S)
      BY OneTuples
    <3> QED
      BY <3>1, <3>2
  <2>3. CASE t = "KeyOnly"
    BY <2>3, OtherLayouts, OneTuples
  <2>4. CASE t = "Binary"
    BY <2>4, OtherLayouts, OneTuples
  <2>5. CASE t = "StringArray"
    <3>1. DOMAIN Slots = 1 .. Len(Slots) /\ Len(Slots) \in Nat
      BY OtherMembers
    <3>2. Layout(t) = [n \in 1 .. Len(Slots) |-> Member(Slots[n], "string")]
      BY <2>5, <3>1, OtherLayouts
    <3> DEFINE S == {Member(Slots[n], "string") : n \in 1 .. Len(Slots)}
               m(n) == Member(Slots[n], "string")
    <3>3. \A n \in 1 .. Len(Slots) : m(n) \in S
      OBVIOUS
    <3> HIDE DEF S, m
    <3>4. [n \in 1 .. Len(Slots) |-> m(n)] \in Seq(S)
      BY <3>1, <3>3
    <3>5. Layout(t) \in Seq(S)
      BY <3>2, <3>4 DEF m
    <3> QED
      BY <3>5
  <2> QED
    BY <2>1, <2>2, <2>3, <2>4, <2>5, TypeNames
<1>2. PICK S : Layout(t) \in Seq(S)
  BY <1>1
<1> QED
  BY <1>2, LenProperties DEF Count

LEMMA CountType == ASSUME NEW t \in Types PROVE Count(t) \in Nat
  BY TypeNames, MessageMembers, TimespecMembers, OtherMembers

LEMMA PathLength ==
  /\ \A x : Len(<< x >>) = 1 /\ << x >>[1] = x
  /\ \A x, y : Len(<< x, y >>) = 2 /\ << x, y >>[1] = x /\ << x, y >>[2] = y
  OBVIOUS

(* The values of a sample, by the kind of the member. *)
LEMMA ValueType ==
  ASSUME NEW t \in Types, NEW v \in Samples(t), NEW n \in 1 .. Count(t)
  PROVE  /\ Kind(t, n) \in {"string", "octets", "long", "char"}
         /\ Kind(t, n) \in {"string", "octets"} => Value(t, v, n) \in Seq(Nat)
         /\ Kind(t, n) \in {"long", "char"} => Value(t, v, n) \in Nat
         /\ Kind(t, n) = "octets" => t = "Binary" /\ Value(t, v, n) = v.contents
         /\ t = "Binary" => Kind(t, n) = "octets"
<1>1. /\ Radix \in Nat /\ Numbers \subseteq Nat /\ 0 .. Radix - 1 \subseteq Nat
      /\ \A s \in Strings : s \in Seq(Nat)
      /\ \A s \in Buffers : s \in Seq(Nat)
  <2>1. Radix \in Nat /\ 1 .. Radix - 1 \subseteq Nat /\ 0 .. Radix - 1 \subseteq Nat
    BY CodecAssumption DEF CodecAssumption
  <2>2. Numbers \subseteq Nat
    BY CodecAssumption DEF CodecAssumption
  <2>3. \A s \in Strings : s \in Seq(1 .. Radix - 1)
    BY CodecAssumption DEF CodecAssumption
  <2>4. \A s \in Buffers : s \in Seq(0 .. Radix - 1)
    BY CodecAssumption DEF CodecAssumption
  <2> QED
    BY <2>1, <2>2, <2>3, <2>4, SeqMonotonic
<1>2. CASE t = "Message"
  <2>1. v \in [text : Strings, count : Numbers, subject : 0 .. Radix - 1,
               time_stamp : [tv_sec : Numbers, tv_nsec : Numbers]]
    BY <1>2 DEF Samples
  <2>2. /\ v.text \in Seq(Nat) /\ v.count \in Nat /\ v.subject \in Nat
        /\ v.time_stamp.tv_sec \in Nat /\ v.time_stamp.tv_nsec \in Nat
    BY <1>1, <2>1
  <2>3. /\ Value(t, v, 1) = v.text /\ Value(t, v, 2) = v.count
        /\ Value(t, v, 3) = v.time_stamp.tv_sec /\ Value(t, v, 4) = v.time_stamp.tv_nsec
        /\ Value(t, v, 5) = v.subject
    BY <1>2, MessageMembers, PathLength DEF Value, getValue
  <2>4. n = 1 \/ n = 2 \/ n = 3 \/ n = 4 \/ n = 5
    BY <1>2, MessageMembers
  <2> QED
    BY <1>2, <2>2, <2>3, <2>4, MessageMembers
<1>3. CASE t = "timespec"
  <2>1. v \in [tv_sec : Numbers, tv_nsec : Numbers]
    BY <1>3 DEF Samples
  <2>2. v.tv_sec \in Nat /\ v.tv_nsec \in Nat
    BY <1>1, <2>1
  <2>3. Value(t, v, 1) = v.tv_sec /\ Value(t, v, 2) = v.tv_nsec
    BY <1>3, TimespecMembers, PathLength DEF Value, getValue
  <2>4. n = 1 \/ n = 2
    BY <1>3, TimespecMembers
  <2> QED
    BY <1>3, <2>2, <2>3, <2>4, TimespecMembers
<1>4. CASE t = "StringArray"
  <2>1. v \in [{Slots[m] : m \in DOMAIN Slots} -> Strings]
    BY <1>4 DEF Samples
  <2>2. n \in 1 .. Len(Slots) /\ n \in DOMAIN Slots
    BY <1>4, OtherMembers
  <2>3. v[Slots[n]] \in Strings
    BY <2>1, <2>2
  <2>4. Value(t, v, n) = v[Slots[n]] /\ Kind(t, n) = "string"
    BY <1>4, <2>2, OtherMembers, PathLength DEF Value, getValue
  <2> QED
    BY <1>1, <1>4, <2>3, <2>4
<1>5. CASE t = "Binary"
  <2>1. v \in [contents : Buffers]
    BY <1>5 DEF Samples
  <2>2. v.contents \in Seq(Nat)
    BY <1>1, <2>1
  <2>3. n = 1 /\ Value(t, v, 1) = v.contents
    BY <1>5, OtherMembers, PathLength DEF Value, getValue
  <2> QED
    BY <1>5, <2>2, <2>3, OtherMembers
<1>6. CASE t = "KeyOnly"
  BY <1>6, OtherMembers
<1> QED
  BY <1>2, <1>3, <1>4, <1>5, <1>6, TypeNames

-----------------------------------------------------------------------------
(* A number and its octets.                                                *)

LEMMA Division ==
  ASSUME NEW a \in Nat, NEW D \in Nat, D > 0
  PROVE  /\ a \div D \in Nat /\ a % D \in Nat /\ a % D < D
         /\ a = D * (a \div D) + (a % D)
<1>1. a \in Int /\ D \in Int
  OBVIOUS
<1>2. a = D * (a \div D) + (a % D)
  BY <1>1, Z3
<1>3. a % D \in 0 .. D - 1
  BY SMT
<1>4. a \div D \in Int /\ a \div D >= 0
  BY SMT
<1> QED
  BY <1>2, <1>3, <1>4

LEMMA Quotient ==
  ASSUME NEW a \in Nat, NEW D \in Nat, D > 0, NEW q \in Nat, NEW r \in Nat,
         r < D, a = D * q + r
  PROVE  a \div D = q
<1>1. a \div D \in Nat /\ a % D \in Nat /\ a % D < D /\ a = D * (a \div D) + (a % D)
  BY Division
<1> DEFINE p == a \div D
           t == a % D
<1>2. p \in Nat /\ t \in Nat /\ t < D /\ D * p + t = D * q + r
  BY <1>1
<1> HIDE DEF p, t
<1>3. ~(p < q)
  <2> SUFFICES ASSUME p < q PROVE FALSE
    OBVIOUS
  <2>1. q >= p + 1
    BY <1>2
  <2>2. D * q >= D * (p + 1)
    BY <2>1, <1>2, SMT
  <2>3. D * (p + 1) = D * p + D
    BY <1>2, SMT
  <2> DEFINE x == D * p
             y == D * q
  <2>4. x \in Nat /\ y \in Nat /\ y >= x + D /\ x + t = y + r
    BY <2>2, <2>3, <1>2
  <2> HIDE DEF x, y
  <2> QED
    BY <2>4, <1>2
<1>4. ~(q < p)
  <2> SUFFICES ASSUME q < p PROVE FALSE
    OBVIOUS
  <2>1. p >= q + 1
    BY <1>2
  <2>2. D * p >= D * (q + 1)
    BY <2>1, <1>2, SMT
  <2>3. D * (q + 1) = D * q + D
    BY <1>2, SMT
  <2> DEFINE x == D * p
             y == D * q
  <2>4. x \in Nat /\ y \in Nat /\ x >= y + D /\ x + t = y + r
    BY <2>2, <2>3, <1>2
  <2> HIDE DEF x, y
  <2> QED
    BY <2>4, <1>2
<1>5. p = q
  BY <1>2, <1>3, <1>4
<1> QED
  BY <1>5 DEF p

LEMMA DivDiv ==
  ASSUME NEW a \in Nat, NEW S \in Nat, S > 0, NEW D \in Nat, D > 0
  PROVE  (a \div S) \div D = a \div (S * D)
<1> DEFINE q == a \div S
           r == a % S
           p == q \div D
           t == q % D
<1>1. q \in Nat /\ r \in Nat /\ r < S /\ a = S * q + r
  BY Division
<1> HIDE DEF q, r
<1>2. p \in Nat /\ t \in Nat /\ t < D /\ q = D * p + t
  BY <1>1, Division
<1> HIDE DEF p, t
<1>3. S * (D * p + t) = (S * D) * p + S * t
  BY <1>2, SMT
<1>4. S * t <= S * (D - 1) /\ S * (D - 1) = S * D - S /\ S * t \in Nat /\ S * D \in Nat
  BY <1>2, SMT
<1>5. S * t + r \in Nat /\ S * t + r < S * D /\ S * D > 0
  <2> DEFINE x == S * t
             y == S * D
             z == S * (D - 1)
  <2>1. x \in Nat /\ y \in Nat /\ x <= z /\ z = y - S
    BY <1>4
  <2> HIDE DEF x, y, z
  <2>2. x + r \in Nat /\ x + r < y /\ y > 0
    BY <2>1, <1>1
  <2> QED
    BY <2>2 DEF x, y
<1>6. a = (S * D) * p + (S * t + r)
  <2> DEFINE x == S * t
             y == (S * D) * p
  <2>1. S * q = y + x
    BY <1>2, <1>3
  <2>2. x \in Int /\ y \in Int
    BY <1>2, SMT
  <2> HIDE DEF x, y
  <2>3. a = y + (x + r)
    BY <2>1, <2>2, <1>1
  <2> QED
    BY <2>3 DEF x, y
<1>7. a \div (S * D) = p
  BY <1>2, <1>4, <1>5, <1>6, Quotient
<1> QED
  BY <1>7 DEF p, q

LEMMA NumberOf ==
  ASSUME NEW v \in Nat, NEW s, \A j \in 1 .. 4 : s[j] = Digits(v)[j]
  PROVE  Number(s) = v
<1>1. Radix \in Nat /\ Radix > 0 /\ UShort \in Nat /\ UShort > 0
  <2>1. Radix \in Nat /\ Radix > 0
    BY CodecAssumption DEF CodecAssumption
  <2> QED
    BY <2>1, SMT DEF UShort
<1> DEFINE q1 == v \div Radix
           q2 == q1 \div Radix
           q3 == q2 \div Radix
           r1 == v % Radix
           r2 == q1 % Radix
           r3 == q2 % Radix
<1>2. q1 \in Nat /\ r1 \in Nat /\ v = Radix * q1 + r1
  BY <1>1, Division
<1>3. q2 \in Nat /\ r2 \in Nat /\ q1 = Radix * q2 + r2
  BY <1>1, <1>2, Division
<1>4. q3 \in Nat /\ r3 \in Nat /\ q2 = Radix * q3 + r3
  BY <1>1, <1>3, Division
<1>5. v \div UShort = q2
  BY <1>1, DivDiv DEF UShort
<1>6. v \div (UShort * Radix) = q3
  <2>1. (v \div UShort) \div Radix = v \div (UShort * Radix)
    BY <1>1, DivDiv
  <2> QED
    BY <2>1, <1>5
<1>7. Digits(v) = << q3, r3, r2, r1 >>
  BY <1>5, <1>6 DEF Digits
<1> HIDE DEF q1, q2, q3, r1, r2, r3
<1>8. s[1] = q3 /\ s[2] = r3 /\ s[3] = r2 /\ s[4] = r1
  <2>1. /\ << q3, r3, r2, r1 >>[1] = q3 /\ << q3, r3, r2, r1 >>[2] = r3
        /\ << q3, r3, r2, r1 >>[3] = r2 /\ << q3, r3, r2, r1 >>[4] = r1
    OBVIOUS
  <2> QED
    BY <2>1, <1>7
<1>9. q3 * Radix + r3 = q2 /\ q2 * Radix + r2 = q1 /\ q1 * Radix + r1 = v
  BY <1>1, <1>2, <1>3, <1>4, SMT
<1> QED
  BY <1>8, <1>9 DEF Number

-----------------------------------------------------------------------------
(* The octets of a member.                                                 *)

LEMMA DigitsType ==
  ASSUME NEW v \in Nat
  PROVE  Digits(v) \in Seq(Nat) /\ Len(Digits(v)) = 4
<1>1. Radix \in Nat /\ Radix > 0 /\ UShort \in Nat /\ UShort > 0 /\ UShort * Radix \in Nat
      /\ UShort * Radix > 0
  <2>1. Radix \in Nat /\ Radix > 0
    BY CodecAssumption DEF CodecAssumption
  <2> QED
    BY <2>1, SMT DEF UShort
<1> DEFINE a == v \div (UShort * Radix)
           b == (v \div UShort) % Radix
           c == (v \div Radix) % Radix
           d == v % Radix
<1>2. a \in Nat
  BY <1>1, Division
<1>3. b \in Nat
  <2>1. v \div UShort \in Nat
    BY <1>1, Division
  <2> QED
    BY <1>1, <2>1, Division
<1>4. c \in Nat
  <2>1. v \div Radix \in Nat
    BY <1>1, Division
  <2> QED
    BY <1>1, <2>1, Division
<1>5. d \in Nat
  BY <1>1, Division
<1>6. Digits(v) = << a, b, c, d >>
  BY DEF Digits
<1> HIDE DEF a, b, c, d
<1> QED
  BY <1>2, <1>3, <1>4, <1>5, <1>6

(* The number that comes first, unless the member is an octet. *)
Prefix(kind, x) == IF kind = "long" THEN x ELSE Payload(kind, x)

LEMMA BytesLaid ==
  ASSUME NEW t \in Types, NEW v \in Samples(t), NEW n \in 1 .. Count(t)
  PROVE  LET b == Bytes(t, v, n)
             c == Kind(t, n)
             x == Value(t, v, n)
         IN  /\ b \in Seq(Nat) /\ Len(b) \in Nat
             /\ c = "char" => Len(b) = 1 /\ b[1] = x
             /\ c # "char" => /\ Prefix(c, x) \in Nat /\ Payload(c, x) \in Nat
                              /\ Len(b) = 4 + Payload(c, x)
                              /\ \A j \in 1 .. 4 : b[j] = Digits(Prefix(c, x))[j]
             /\ c \in {"string", "octets"} =>
                  /\ x \in Seq(Nat) /\ Len(x) \in Nat
                  /\ Payload(c, x) = Len(x) + (IF c = "string" THEN 1 ELSE 0)
                  /\ \A j \in 1 .. Len(x) : b[4 + j] = x[j]
<1> DEFINE b == Bytes(t, v, n)
           c == Kind(t, n)
           x == Value(t, v, n)
<1>1. /\ c \in {"string", "octets", "long", "char"}
      /\ c \in {"string", "octets"} => x \in Seq(Nat)
      /\ c \in {"long", "char"} => x \in Nat
  BY ValueType
<1>2. b = Octets(c, x)
  BY DEF Bytes
<1> HIDE DEF b, c, x
<1>3. CASE c = "char"
  <2>1. b = << x >> /\ x \in Nat
    BY <1>1, <1>2, <1>3 DEF Octets
  <2>2. b \in Seq(Nat) /\ Len(b) = 1 /\ b[1] = x
    BY <2>1
  <2> QED
    BY <2>2, <1>3 DEF b, c, x
<1>4. CASE c = "long"
  <2>1. b = Digits(x) /\ x \in Nat
    BY <1>1, <1>2, <1>4 DEF Octets
  <2>2. b \in Seq(Nat) /\ Len(b) = 4
    BY <2>1, DigitsType
  <2>3. Prefix(c, x) = x /\ Payload(c, x) = 0
    BY <1>4 DEF Prefix, Payload
  <2> QED
    BY <1>4, <2>1, <2>2, <2>3 DEF b, c, x
<1>5. CASE c = "octets"
  <2>1. b = Digits(Len(x)) \o x /\ x \in Seq(Nat) /\ Len(x) \in Nat
    BY <1>1, <1>2, <1>5, LenProperties DEF Octets
  <2> DEFINE h == Digits(Len(x))
  <2>2. h \in Seq(Nat) /\ Len(h) = 4
    BY <2>1, DigitsType
  <2> HIDE DEF h
  <2>3. /\ h \o x \in Seq(Nat) /\ Len(h \o x) = Len(h) + Len(x)
        /\ \A j \in 1 .. Len(h) + Len(x) :
             (h \o x)[j] = IF j <= Len(h) THEN h[j] ELSE x[j - Len(h)]
    BY <2>1, <2>2, ConcatProperties
  <2>4. b = h \o x
    BY <2>1 DEF h
  <2>5. b \in Seq(Nat) /\ Len(b) = 4 + Len(x) /\ \A j \in 1 .. 4 : b[j] = h[j]
    BY <2>1, <2>2, <2>3, <2>4
  <2>6. \A j \in 1 .. Len(x) : b[4 + j] = x[j]
    <3> SUFFICES ASSUME NEW j \in 1 .. Len(x) PROVE b[4 + j] = x[j]
      OBVIOUS
    <3>1. 4 + j \in 1 .. Len(h) + Len(x) /\ ~(4 + j <= Len(h)) /\ (4 + j) - Len(h) = j
      BY <2>1, <2>2
    <3> QED
      BY <2>3, <2>4, <3>1
  <2>7. Prefix(c, x) = Len(x) /\ Payload(c, x) = Len(x)
    BY <1>5 DEF Prefix, Payload
  <2>8. \A j \in 1 .. 4 : b[j] = Digits(Prefix(c, x))[j]
    BY <2>5, <2>7 DEF h
  <2> HIDE DEF h
  <2>9. Payload(c, x) \in Nat /\ Prefix(c, x) \in Nat /\ Len(b) = 4 + Payload(c, x)
    BY <2>1, <2>5, <2>7
  <2>10. Payload(c, x) = Len(x) + (IF c = "string" THEN 1 ELSE 0)
    BY <1>5, <2>1, <2>7
  <2>11. b \in Seq(Nat) /\ Len(b) \in Nat
    BY <2>5, LenProperties
  <2>12. x \in Seq(Nat) /\ Len(x) \in Nat
    BY <2>1
  <2> QED
    BY <1>5, <2>6, <2>8, <2>9, <2>10, <2>11, <2>12 DEF b, c, x
<1>6. CASE c = "string"
  <2>1. b = Digits(Len(x) + 1) \o x \o << 0 >> /\ x \in Seq(Nat) /\ Len(x) \in Nat
    BY <1>1, <1>2, <1>6, LenProperties DEF Octets
  <2> DEFINE h == Digits(Len(x) + 1)
             z == << 0 >>
             m == h \o x
  <2>2. h \in Seq(Nat) /\ Len(h) = 4
    <3>1. Len(x) + 1 \in Nat
      BY <2>1
    <3> QED
      BY <3>1, DigitsType
  <2>3. z \in Seq(Nat) /\ Len(z) = 1
    OBVIOUS
  <2> HIDE DEF h, z
  <2>4. /\ m \in Seq(Nat) /\ Len(m) = Len(h) + Len(x)
        /\ \A j \in 1 .. Len(h) + Len(x) : m[j] = IF j <= Len(h) THEN h[j] ELSE x[j - Len(h)]
    BY <2>1, <2>2, ConcatProperties
  <2> HIDE DEF m
  <2>5. /\ m \o z \in Seq(Nat) /\ Len(m \o z) = Len(m) + Len(z)
        /\ \A j \in 1 .. Len(m) + Len(z) : (m \o z)[j] = IF j <= Len(m) THEN m[j] ELSE z[j - Len(m)]
    <3>1. m \in Seq(Nat)
      BY <2>4
    <3> QED
      BY <2>3, <3>1, ConcatProperties
  <2>6. b = m \o z
    BY <2>1 DEF m, h, z
  <2>7. b \in Seq(Nat) /\ Len(b) = 4 + (Len(x) + 1)
    <3>1. Len(m) = 4 + Len(x)
      BY <2>2, <2>4
    <3>2. Len(m \o z) = Len(m) + Len(z) /\ m \o z \in Seq(Nat)
      BY <2>5
    <3>3. Len(x) \in Nat /\ Len(z) = 1
      BY <2>1, <2>3
    <3>4. Len(m \o z) = 4 + (Len(x) + 1)
      BY <3>1, <3>2, <3>3
    <3> QED
      BY <2>6, <3>2, <3>4
  <2>8. \A j \in 1 .. 4 + Len(x) : b[j] = m[j]
    <3> SUFFICES ASSUME NEW j \in 1 .. 4 + Len(x) PROVE b[j] = m[j]
      OBVIOUS
    <3>1. Len(m) = 4 + Len(x)
      BY <2>2, <2>4
    <3>2. j \in 1 .. Len(m) + Len(z) /\ j <= Len(m)
      BY <2>1, <2>3, <3>1
    <3> QED
      BY <2>5, <2>6, <3>2
  <2>9. \A j \in 1 .. 4 : b[j] = h[j]
    <3> SUFFICES ASSUME NEW j \in 1 .. 4 PROVE b[j] = h[j]
      OBVIOUS
    <3>1. j \in 1 .. 4 + Len(x) /\ j \in 1 .. Len(h) + Len(x) /\ j <= Len(h)
      BY <2>1, <2>2
    <3> QED
      BY <2>4, <2>8, <3>1
  <2>10. \A j \in 1 .. Len(x) : b[4 + j] = x[j]
    <3> SUFFICES ASSUME NEW j \in 1 .. Len(x) PROVE b[4 + j] = x[j]
      OBVIOUS
    <3>1. 4 + j \in 1 .. Len(h) + Len(x) /\ ~(4 + j <= Len(h)) /\ (4 + j) - Len(h) = j
      BY <2>1, <2>2
    <3>2. 4 + j \in 1 .. 4 + Len(x)
      BY <2>1
    <3> QED
      BY <2>4, <2>8, <3>1, <3>2
  <2>11. Prefix(c, x) = Len(x) + 1 /\ Payload(c, x) = Len(x) + 1
    BY <1>6 DEF Prefix, Payload
  <2>12. \A j \in 1 .. 4 : b[j] = Digits(Prefix(c, x))[j]
    BY <2>9, <2>11 DEF h
  <2>13. Payload(c, x) \in Nat /\ Prefix(c, x) \in Nat /\ Len(b) = 4 + Payload(c, x)
    BY <2>1, <2>7, <2>11
  <2>14. Payload(c, x) = Len(x) + (IF c = "string" THEN 1 ELSE 0)
    BY <1>6, <2>1, <2>11
  <2>15. b \in Seq(Nat) /\ Len(b) \in Nat
    BY <2>7, LenProperties
  <2>16. x \in Seq(Nat) /\ Len(x) \in Nat
    BY <2>1
  <2> QED
    BY <1>6, <2>10, <2>12, <2>13, <2>14, <2>15, <2>16 DEF b, c, x
<1> QED
  BY <1>1, <1>3, <1>4, <1>5, <1>6 DEF c

-----------------------------------------------------------------------------
(* Where each member ends in the stream.                                   *)

(* Induction over the numbers: a set holds those a statement is shown for. *)
LEMMA Induction ==
  ASSUME NEW S, 0 \in S, \A n \in Nat : n \in S => n + 1 \in S
  PROVE  Nat \subseteq S
PROOF
  <1> DEFINE T == Nat \ S
             R == {p \in Nat \X Nat : p[1] < p[2]}
  <1>1. IsWellFoundedOn(R, Nat)
    BY NatLessThanWellFounded DEF OpToRel
  <1>2. ASSUME T # {} PROVE FALSE
    <2> HIDE DEF R
    <2>1. PICK n \in T : \A m \in T : ~(<< m, n >> \in R)
      BY <1>1, <1>2, WFMin
    <2>2. n \in Nat /\ n # 0
      OBVIOUS
    <2>3. n - 1 \in Nat /\ (n - 1) + 1 = n
      BY <2>2
    <2>4. n - 1 \in T
      BY <2>1, <2>3
    <2>5. << n - 1, n >> \in R
      BY <2>2, <2>3 DEF R
    <2> QED
      BY <2>1, <2>4, <2>5
  <1> QED
    BY <1>2

(* The octet the member n starts at when the one before it ends at e. *)
Room(al, kind, e) == e + (IF al /\ kind # "char" THEN Pad(e) ELSE 0)

Chain(al, t, v, m, f) ==
  f = [n \in 0 .. m |-> IF n = 0 THEN 0
                        ELSE Room(al, Kind(t, n), f[n - 1]) + Len(Bytes(t, v, n))]

Ends(al, t, v) == CHOOSE f : Chain(al, t, v, Count(t), f)

Before(al, t, v, n) == Room(al, Kind(t, n), Ends(al, t, v)[n - 1])

LEMMA ChainExists ==
  ASSUME NEW al, NEW t, NEW v, NEW m \in Nat
  PROVE  \E f : Chain(al, t, v, m, f)
<1> DEFINE T == {n \in Nat : \E f : Chain(al, t, v, n, f)}
           step(f, n) == IF n = 0 THEN 0
                         ELSE Room(al, Kind(t, n), f[n - 1]) + Len(Bytes(t, v, n))
<1>1. \A n, f : Chain(al, t, v, n, f) <=> f = [j \in 0 .. n |-> step(f, j)]
  BY DEF Chain
<1>2. \A f : step(f, 0) = 0
  OBVIOUS
<1>3. ASSUME NEW f, NEW g, NEW n \in Nat, n # 0, f[n - 1] = g[n - 1]
      PROVE  step(f, n) = step(g, n)
  BY <1>3
<1> HIDE DEF step
<1>4. 0 \in T
  <2> DEFINE f == [j \in 0 .. 0 |-> 0]
  <2>1. f = [j \in 0 .. 0 |-> step(f, j)]
    <3> HIDE DEF f
    <3>1. \A j \in 0 .. 0 : step(f, j) = 0
      BY <1>2
    <3> QED
      BY <3>1 DEF f
  <2> HIDE DEF f
  <2> QED
    BY <1>1, <2>1
<1>5. ASSUME NEW n \in Nat, n \in T PROVE n + 1 \in T
  <2>1. PICK f : f = [j \in 0 .. n |-> step(f, j)]
    BY <1>1, <1>5
  <2> DEFINE g == [j \in 0 .. n + 1 |-> step(f, j)]
  <2>2. \A j \in 0 .. n : g[j] = f[j]
    BY <2>1
  <2>3. \A j \in 0 .. n + 1 : step(f, j) = step(g, j)
    <3> HIDE DEF g
    <3> SUFFICES ASSUME NEW j \in 0 .. n + 1 PROVE step(f, j) = step(g, j)
      OBVIOUS
    <3>1. CASE j = 0
      BY <3>1, <1>2
    <3>2. CASE j # 0
      <4>1. j \in Nat /\ j - 1 \in 0 .. n
        BY <3>2
      <4>2. f[j - 1] = g[j - 1]
        BY <2>2, <4>1
      <4> QED
        BY <3>2, <4>1, <4>2, <1>3
    <3> QED
      BY <3>1, <3>2
  <2>4. g = [j \in 0 .. n + 1 |-> step(g, j)]
    <3>1. g = [j \in 0 .. n + 1 |-> step(f, j)]
      OBVIOUS
    <3> HIDE DEF g
    <3> QED
      BY <2>3, <3>1
  <2> HIDE DEF g
  <2>5. Chain(al, t, v, n + 1, g)
    BY <1>1, <2>4
  <2>6. n + 1 \in Nat
    OBVIOUS
  <2> QED
    BY <2>5, <2>6
<1>6. m \in T
  <2> HIDE DEF T
  <2> QED
    BY <1>4, <1>5, Induction
<1> QED
  BY <1>6

LEMMA EndsAt ==
  ASSUME NEW al \in BOOLEAN, NEW t \in Types, NEW v \in Samples(t)
  PROVE  /\ Ends(al, t, v)[0] = 0
         /\ \A n \in 1 .. Count(t) :
              /\ Ends(al, t, v)[n - 1] \in Nat
              /\ Before(al, t, v, n) \in Nat
              /\ Ends(al, t, v)[n - 1] <= Before(al, t, v, n)
              /\ Ends(al, t, v)[n] \in Nat
              /\ Ends(al, t, v)[n] = Before(al, t, v, n) + Len(Bytes(t, v, n))
<1> DEFINE e == Ends(al, t, v)
           step(n) == IF n = 0 THEN 0
                      ELSE Room(al, Kind(t, n), e[n - 1]) + Len(Bytes(t, v, n))
<1>1. Count(t) \in Nat
  BY CountType
<1>2. e = [n \in 0 .. Count(t) |-> step(n)]
  <2>1. Chain(al, t, v, Count(t), e)
    <3>1. \E f : Chain(al, t, v, Count(t), f)
      BY <1>1, ChainExists
    <3> QED
      BY <3>1 DEF Ends
  <2> QED
    BY <2>1 DEF Chain
<1> HIDE DEF e
<1>3. e[0] = 0
  BY <1>1, <1>2
<1>4. ASSUME NEW n \in 1 .. Count(t)
      PROVE  e[n] = Room(al, Kind(t, n), e[n - 1]) + Len(Bytes(t, v, n))
  <2>1. step(n) = Room(al, Kind(t, n), e[n - 1]) + Len(Bytes(t, v, n)) /\ n \in 0 .. Count(t)
    OBVIOUS
  <2> HIDE DEF step
  <2> QED
    BY <1>2, <2>1
<1> HIDE DEF step
<1>5. ASSUME NEW x \in Nat, NEW c PROVE Room(al, c, x) \in Nat /\ x <= Room(al, c, x)
  BY SMT DEF Room, Pad
<1> DEFINE T == {n \in Nat : n <= Count(t) => e[n] \in Nat}
<1>6. 0 \in T
  BY <1>3
<1>7. ASSUME NEW n \in Nat, n \in T PROVE n + 1 \in T
  <2> SUFFICES ASSUME n + 1 <= Count(t) PROVE e[n + 1] \in Nat
    OBVIOUS
  <2>1. n + 1 \in 1 .. Count(t) /\ (n + 1) - 1 = n /\ e[n] \in Nat
    BY <1>1, <1>7
  <2>2. Len(Bytes(t, v, n + 1)) \in Nat
    BY <2>1, BytesLaid
  <2> QED
    BY <1>4, <1>5, <2>1, <2>2
<1>8. \A n \in Nat : n <= Count(t) => e[n] \in Nat
  <2> HIDE DEF T
  <2>1. Nat \subseteq T
    BY <1>6, <1>7, Induction
  <2> QED
    BY <2>1 DEF T
<1>9. ASSUME NEW n \in 1 .. Count(t)
      PROVE  /\ e[n - 1] \in Nat /\ Before(al, t, v, n) \in Nat
             /\ e[n - 1] <= Before(al, t, v, n)
             /\ e[n] \in Nat /\ e[n] = Before(al, t, v, n) + Len(Bytes(t, v, n))
  <2>1. e[n] \in Nat /\ e[n - 1] \in Nat
    BY <1>1, <1>8
  <2>2. Before(al, t, v, n) = Room(al, Kind(t, n), e[n - 1])
    BY DEF Before, e
  <2> QED
    BY <1>4, <1>5, <2>1, <2>2
<1> QED
  BY <1>3, <1>9 DEF e

(* Members end in order. *)
LEMMA EndsOrder ==
  ASSUME NEW al \in BOOLEAN, NEW t \in Types, NEW v \in Samples(t),
         NEW m \in 0 .. Count(t), NEW w \in m .. Count(t)
  PROVE  /\ Ends(al, t, v)[m] \in Nat /\ Ends(al, t, v)[w] \in Nat
         /\ Ends(al, t, v)[m] <= Ends(al, t, v)[w]
<1> DEFINE e == Ends(al, t, v)
           T == {n \in Nat : m + n <= Count(t) => e[m + n] \in Nat /\ e[m] <= e[m + n]}
<1>1. Count(t) \in Nat
  BY CountType
<1>2. \A n \in 0 .. Count(t) : e[n] \in Nat
  <2> SUFFICES ASSUME NEW n \in 0 .. Count(t) PROVE e[n] \in Nat
    OBVIOUS
  <2>1. n = 0 \/ n \in 1 .. Count(t)
    OBVIOUS
  <2> QED
    BY <2>1, EndsAt
<1>3. \A n \in 1 .. Count(t) : e[n - 1] <= e[n]
  <2> SUFFICES ASSUME NEW n \in 1 .. Count(t) PROVE e[n - 1] <= e[n]
    OBVIOUS
  <2> DEFINE x == e[n - 1]
             y == e[n]
             b == Before(al, t, v, n)
             l == Len(Bytes(t, v, n))
  <2>1. x \in Nat /\ y \in Nat /\ b \in Nat /\ x <= b /\ y = b + l /\ l \in Nat
    BY EndsAt, BytesLaid
  <2> HIDE DEF x, y, b, l
  <2>2. x <= y
    BY <2>1
  <2> QED
    BY <2>2 DEF x, y
<1> HIDE DEF e
<1>4. 0 \in T
  BY <1>2
<1>5. ASSUME NEW n \in Nat, n \in T PROVE n + 1 \in T
  <2> SUFFICES ASSUME m + (n + 1) <= Count(t)
               PROVE  e[m + (n + 1)] \in Nat /\ e[m] <= e[m + (n + 1)]
    OBVIOUS
  <2>1. /\ m + (n + 1) \in 1 .. Count(t) /\ (m + (n + 1)) - 1 = m + n
        /\ m + n \in 0 .. Count(t) /\ m + (n + 1) \in 0 .. Count(t)
    BY <1>1
  <2>2. e[m + n] <= e[m + (n + 1)]
    BY <1>3, <2>1
  <2>3. e[m] <= e[m + n]
    BY <1>5, <2>1
  <2> QED
    BY <1>2, <2>1, <2>2, <2>3
<1>6. w - m \in T
  <2>1. w - m \in Nat
    BY <1>1
  <2> HIDE DEF T
  <2> QED
    BY <1>4, <1>5, <2>1, Induction
<1>7. m + (w - m) = w
  BY <1>1
<1>8. w - m \in Nat /\ m + (w - m) <= Count(t)
  BY <1>1
<1> QED
  BY <1>2, <1>6, <1>7, <1>8 DEF e

-----------------------------------------------------------------------------
(***************************************************************************)
(* The stream: it holds the first w members, each where it belongs.        *)
(***************************************************************************)
EndAt(n)   == Ends(aligned, type, sample)[n]
StartAt(n) == Before(aligned, type, sample, n)

SampleTyped == aligned \in BOOLEAN /\ type \in Types /\ sample \in Samples(type)

Holds(al, t, v, s, w) ==
  /\ w \in 0 .. Count(t)
  /\ s \in Seq(Nat)
  /\ Len(s) = Ends(al, t, v)[w]
  /\ \A n \in 1 .. w : \A j \in 1 .. Len(Bytes(t, v, n)) :
       s[Before(al, t, v, n) + j] = Bytes(t, v, n)[j]

Written(w) == Holds(aligned, type, sample, stream, w)

LEMMA GapType ==
  ASSUME NEW kind, NEW n \in Nat
  PROVE  Gap(kind, n) \in Nat
<1>1. Pad(n) \in Nat
  BY SMT DEF Pad
<1> QED
  BY <1>1 DEF Gap

(* Where a member starts, the Serializer finds out from where the last ended. *)
LEMMA StartIs ==
  ASSUME NEW n
  PROVE  /\ StartAt(n) = EndAt(n - 1) + Gap(Kind(type, n), EndAt(n - 1))
         /\ pos = EndAt(n - 1) => Start(Kind(type, n), pos) = StartAt(n)
  BY DEF StartAt, EndAt, Before, Room, Gap, Start

(* Writing a member adds its octets where it belongs, and changes no other. *)
LEMMA WriteOne ==
  ASSUME SampleTyped, NEW w \in Nat, Written(w), w + 1 <= Count(type),
         k = w + 1, Members = Layout(type)
  PROVE  /\ Appended \in Seq(Nat)
         /\ Len(Appended) = EndAt(w + 1)
         /\ \A n \in 1 .. w + 1 : \A j \in 1 .. Len(Bytes(type, sample, n)) :
              Appended[StartAt(n) + j] = Bytes(type, sample, n)[j]
<1> DEFINE c == Kind(type, w + 1)
           b == Bytes(type, sample, w + 1)
           g == Gap(c, Len(stream))
           z == [n \in 1 .. g |-> 0]
           u == stream \o z
<1>1. aligned \in BOOLEAN /\ type \in Types /\ sample \in Samples(type)
  BY DEF SampleTyped
<1>2. w + 1 \in 1 .. Count(type) /\ (w + 1) - 1 = w /\ Count(type) \in Nat
  BY <1>1, CountType
<1>3. b \in Seq(Nat) /\ Len(b) \in Nat
  BY <1>1, <1>2, BytesLaid
<1>4. /\ EndAt(w) \in Nat /\ EndAt(w + 1) \in Nat
      /\ EndAt(w + 1) = StartAt(w + 1) + Len(b)
  BY <1>1, <1>2, EndsAt DEF EndAt, StartAt
<1>5. /\ stream \in Seq(Nat) /\ Len(stream) = EndAt(w)
      /\ \A n \in 1 .. w : \A j \in 1 .. Len(Bytes(type, sample, n)) :
           stream[StartAt(n) + j] = Bytes(type, sample, n)[j]
  BY DEF Written, Holds, EndAt, StartAt
<1>6. Appended = u \o b
  BY DEF Appended, Current, Kind, Path, Value, Bytes
<1>7. g \in Nat
  BY <1>4, <1>5, GapType
<1>8. StartAt(w + 1) = Len(stream) + g
  BY <1>2, <1>5, StartIs
<1> HIDE DEF g, b, c
<1>9. z \in Seq(Nat) /\ Len(z) = g
  BY <1>7
<1> HIDE DEF z
<1>10. /\ u \in Seq(Nat) /\ Len(u) = Len(stream) + Len(z)
       /\ \A j \in 1 .. Len(stream) + Len(z) :
            u[j] = IF j <= Len(stream) THEN stream[j] ELSE z[j - Len(stream)]
  BY <1>5, <1>9, ConcatProperties
<1> HIDE DEF u
<1>11. u \in Seq(Nat)
  BY <1>10
<1>12. /\ u \o b \in Seq(Nat) /\ Len(u \o b) = Len(u) + Len(b)
       /\ \A j \in 1 .. Len(u) + Len(b) :
            (u \o b)[j] = IF j <= Len(u) THEN u[j] ELSE b[j - Len(u)]
  BY <1>3, <1>11, ConcatProperties
<1>13. Len(u) = StartAt(w + 1) /\ Len(u) \in Nat /\ Len(stream) \in Nat /\ Len(stream) <= Len(u)
  BY <1>4, <1>5, <1>7, <1>8, <1>9, <1>10
<1>14. Appended \in Seq(Nat) /\ Len(Appended) = EndAt(w + 1)
  BY <1>4, <1>6, <1>12, <1>13
<1>15. \A j \in 1 .. Len(stream) : Appended[j] = stream[j]
  <2> SUFFICES ASSUME NEW j \in 1 .. Len(stream) PROVE Appended[j] = stream[j]
    OBVIOUS
  <2>1. j \in 1 .. Len(stream) + Len(z) /\ j <= Len(stream) /\ j <= Len(u) /\ j \in 1 .. Len(u) + Len(b)
    BY <1>3, <1>7, <1>9, <1>13
  <2>2. u[j] = stream[j]
    BY <2>1, <1>10
  <2>3. (u \o b)[j] = u[j]
    BY <2>1, <1>12
  <2> QED
    BY <2>2, <2>3, <1>6
<1>16. \A j \in 1 .. Len(b) : Appended[StartAt(w + 1) + j] = b[j]
  <2> SUFFICES ASSUME NEW j \in 1 .. Len(b) PROVE Appended[StartAt(w + 1) + j] = b[j]
    OBVIOUS
  <2>1. /\ Len(u) + j \in 1 .. Len(u) + Len(b) /\ ~(Len(u) + j <= Len(u))
        /\ (Len(u) + j) - Len(u) = j
    BY <1>3, <1>13
  <2>2. (u \o b)[Len(u) + j] = b[j]
    BY <2>1, <1>12
  <2> QED
    BY <2>2, <1>6, <1>13
<1>17. ASSUME NEW n \in 1 .. w, NEW j \in 1 .. Len(Bytes(type, sample, n))
       PROVE  Appended[StartAt(n) + j] = Bytes(type, sample, n)[j]
  <2>1. n \in 1 .. Count(type) /\ n \in 0 .. Count(type)
    BY <1>2
  <2>2. /\ StartAt(n) \in Nat /\ EndAt(n) \in Nat
        /\ EndAt(n) = StartAt(n) + Len(Bytes(type, sample, n))
    BY <1>1, <2>1, EndsAt DEF EndAt, StartAt
  <2>3. Len(Bytes(type, sample, n)) \in Nat
    BY <1>1, <2>1, BytesLaid
  <2>4. EndAt(n) <= EndAt(w)
    <3>1. w \in n .. Count(type)
      BY <1>2
    <3> QED
      BY <1>1, <2>1, <3>1, EndsOrder DEF EndAt
  <2>5. StartAt(n) + j \in 1 .. Len(stream)
    BY SMTT(30), <1>4, <1>5, <2>2, <2>3, <2>4
  <2> QED
    BY <1>5, <1>15, <2>5
<1>18. \A n \in 1 .. w + 1 : n \in 1 .. w \/ n = w + 1
  OBVIOUS
<1> QED
  BY <1>14, <1>16, <1>17, <1>18 DEF b

(* What the Serializer finds where the member n starts. *)
LEMMA ReadBack ==
  ASSUME SampleTyped, Written(Count(type)), NEW n \in 1 .. Count(type), pos = EndAt(n - 1)
  PROVE  LET c == Kind(type, n)
             x == Value(type, sample, n)
         IN  /\ Readable(c) /\ EndOf(c) = EndAt(n) /\ Read(c) = x
             /\ EndAt(n) \in Nat /\ EndAt(n) <= Len(stream)
             /\ Variable(c) => /\ HasNumber(c) /\ NumberAt(c) = Payload(c, x)
                               /\ Start(c, pos) + 4 + Payload(c, x) = EndAt(n)
<1> DEFINE c == Kind(type, n)
           x == Value(type, sample, n)
           b == Bytes(type, sample, n)
           a == StartAt(n)
<1>1. aligned \in BOOLEAN /\ type \in Types /\ sample \in Samples(type)
  BY DEF SampleTyped
<1>2. /\ pos \in Nat /\ a \in Nat /\ EndAt(n) \in Nat /\ EndAt(n) = a + Len(b)
  BY <1>1, EndsAt DEF EndAt, StartAt
<1>3. EndAt(n) <= Len(stream)
  <2>1. n \in 0 .. Count(type) /\ Count(type) \in n .. Count(type)
    BY <1>1, CountType
  <2>2. Len(stream) = EndAt(Count(type))
    BY DEF Written, Holds, EndAt, StartAt
  <2> QED
    BY <1>1, <2>1, <2>2, EndsOrder DEF EndAt
<1>4. Start(c, pos) = a
  BY StartIs
<1>5. \A j \in 1 .. Len(b) : stream[a + j] = b[j]
  <2>1. \A m \in 1 .. Count(type) : \A j \in 1 .. Len(Bytes(type, sample, m)) :
          stream[StartAt(m) + j] = Bytes(type, sample, m)[j]
    BY DEF Written, Holds, EndAt, StartAt
  <2> QED
    BY <2>1
<1>6. /\ b \in Seq(Nat) /\ Len(b) \in Nat
      /\ c = "char" => Len(b) = 1 /\ b[1] = x
      /\ c # "char" => /\ Prefix(c, x) \in Nat /\ Payload(c, x) \in Nat
                       /\ Len(b) = 4 + Payload(c, x)
                       /\ \A j \in 1 .. 4 : b[j] = Digits(Prefix(c, x))[j]
      /\ c \in {"string", "octets"} =>
           /\ x \in Seq(Nat) /\ Len(x) \in Nat
           /\ Payload(c, x) = Len(x) + (IF c = "string" THEN 1 ELSE 0)
           /\ \A j \in 1 .. Len(x) : b[4 + j] = x[j]
  BY <1>1, BytesLaid
<1>7. c \in {"string", "octets", "long", "char"}
  BY <1>1, ValueType
<1>8. pos = EndAt(n - 1) /\ stream \in Seq(Nat) /\ Len(stream) \in Nat
  BY LenProperties DEF Written, Holds
<1> HIDE DEF c, x, b, a
<1>9. CASE c = "char"
  <2>1. Gap(c, pos) = 0
    BY <1>9 DEF Gap
  <2>2. a = pos
    BY <1>2, <1>4, <2>1 DEF Start
  <2>3. EndOf(c) = EndAt(n)
    BY <1>2, <1>6, <1>9, <2>2 DEF EndOf
  <2>4. stream[pos + 1] = x
    BY <1>5, <1>6, <1>9, <2>2
  <2>5. Read(c) = x
    BY <1>9, <2>4 DEF Read
  <2>6. Readable(c) /\ ~Variable(c)
    BY <1>3, <1>9, <2>3 DEF Readable, Variable
  <2> QED
    BY <1>2, <1>3, <2>3, <2>5, <2>6 DEF c, x
<1>10. ASSUME c # "char" PROVE HasNumber(c) /\ NumberAt(c) = Prefix(c, x)
  <2>1. a + 4 <= Len(stream)
    BY SMTT(30), <1>2, <1>3, <1>6, <1>8, <1>10
  <2>2. HasNumber(c)
    BY <1>4, <2>1 DEF HasNumber
  <2> DEFINE s == SubSeq(stream, a + 1, a + 4)
  <2>3. \A j \in a + 1 .. a + 4 : stream[j] \in Nat
    <3> SUFFICES ASSUME NEW j \in a + 1 .. a + 4 PROVE stream[j] \in Nat
      OBVIOUS
    <3>1. j \in 1 .. Len(stream)
      BY <1>2, <1>8, <2>1
    <3> QED
      BY <1>8, <3>1, ElementOfSeq
  <2>4. a + 1 \in Int /\ a + 4 \in Int /\ (a + 4) - (a + 1) + 1 = 4
    BY <1>2
  <2>5. \A j \in 1 .. (a + 4) - (a + 1) + 1 : s[j] = stream[(a + 1) + j - 1]
    BY <2>3, <2>4, SubSeqProperties
  <2> HIDE DEF s
  <2>6. \A j \in 1 .. 4 : s[j] = Digits(Prefix(c, x))[j]
    <3> SUFFICES ASSUME NEW j \in 1 .. 4 PROVE s[j] = Digits(Prefix(c, x))[j]
      OBVIOUS
    <3>1. (a + 1) + j - 1 = a + j /\ j \in 1 .. (a + 4) - (a + 1) + 1
      BY <1>2
    <3>2. s[j] = stream[a + j]
      BY <2>5, <3>1
    <3>3. j \in 1 .. Len(b) /\ b[j] = Digits(Prefix(c, x))[j]
      BY <1>6, <1>10
    <3> QED
      BY <1>5, <3>2, <3>3
  <2>7. Number(s) = Prefix(c, x)
    BY <1>6, <1>10, <2>6, NumberOf
  <2> QED
    BY <1>4, <2>2, <2>7 DEF NumberAt, s
<1>11. CASE c = "long"
  <2>1. HasNumber(c) /\ NumberAt(c) = x
    BY <1>10, <1>11 DEF Prefix
  <2>2. EndOf(c) = EndAt(n)
    <3>1. Payload(c, x) = 0
      BY <1>11 DEF Payload
    <3> QED
      BY <1>2, <1>4, <1>6, <1>11, <3>1 DEF EndOf
  <2>3. Readable(c) /\ Read(c) = x /\ ~Variable(c)
    BY <1>3, <1>11, <2>1, <2>2 DEF Readable, Read, Variable
  <2> QED
    BY <1>2, <1>3, <2>2, <2>3 DEF c, x
<1>12. CASE c \in {"string", "octets"}
  <2>1. HasNumber(c) /\ NumberAt(c) = Payload(c, x)
    BY <1>10, <1>12 DEF Prefix
  <2> DEFINE p == Payload(c, x)
             e == IF c = "string" THEN 1 ELSE 0
  <2>13. /\ p \in Nat /\ Len(b) = 4 + p /\ Len(x) \in Nat /\ p = Len(x) + e
         /\ x \in Seq(Nat) /\ e \in {0, 1}
    BY <1>6, <1>12
  <2> HIDE DEF p, e
  <2>2. a + 4 + p = EndAt(n)
    BY <1>2, <2>13
  <2>3. EndOf(c) = EndAt(n)
    BY <1>4, <1>12, <2>1, <2>2 DEF EndOf, p
  <2>4. Readable(c)
    BY <1>3, <2>1, <2>3 DEF Readable
  <2>5. x \in Seq(Nat) /\ Len(x) \in Nat /\ a + 4 + Len(x) <= Len(stream)
    BY <1>2, <1>3, <1>8, <2>2, <2>13
  <2> DEFINE l == a + 5
             r == a + 4 + Len(x)
             s == SubSeq(stream, l, r)
  <2>6. l \in Int /\ r \in Int /\ r - l + 1 = Len(x) /\ (l <= r <=> Len(x) > 0)
    BY <1>2, <2>5
  <2>7. \A j \in l .. r : stream[j] \in Nat
    <3> SUFFICES ASSUME NEW j \in l .. r PROVE stream[j] \in Nat
      OBVIOUS
    <3>1. j \in 1 .. Len(stream)
      BY <1>2, <1>8, <2>5
    <3> QED
      BY <1>8, <3>1, ElementOfSeq
  <2>8. \A j \in 1 .. Len(x) : stream[l + j - 1] = x[j]
    <3> SUFFICES ASSUME NEW j \in 1 .. Len(x) PROVE stream[l + j - 1] = x[j]
      OBVIOUS
    <3>1. l + j - 1 = a + (4 + j) /\ 4 + j \in 1 .. Len(b)
      BY <1>2, <2>5, <2>13
    <3>2. stream[a + (4 + j)] = b[4 + j]
      BY <1>5, <3>1
    <3> QED
      BY <1>6, <1>12, <3>1, <3>2
  <2> HIDE DEF l, r
  <2>9. /\ s \in Seq(Nat) /\ Len(s) = IF l <= r THEN r - l + 1 ELSE 0
        /\ \A j \in 1 .. r - l + 1 : s[j] = stream[l + j - 1]
    BY <2>6, <2>7, SubSeqProperties
  <2> HIDE DEF s
  <2>10. Len(s) = Len(x) /\ \A j \in 1 .. Len(s) : s[j] = x[j]
    <3>1. Len(s) = Len(x)
      BY <2>5, <2>6, <2>9
    <3>2. \A j \in 1 .. Len(x) : s[j] = stream[l + j - 1]
      BY <2>6, <2>9
    <3> QED
      BY <2>8, <3>1, <3>2
  <2>11. s = x
    BY <2>5, <2>9, <2>10, SeqEqual
  <2>12. Read(c) = x
    <3>1. CASE c = "string"
      <4>1. EndOf(c) - 1 = r
        BY <1>2, <2>2, <2>3, <2>13, <3>1 DEF r, e
      <4> QED
        BY <1>4, <2>11, <3>1, <4>1 DEF Read, s, l
    <3>2. CASE c = "octets"
      <4>1. EndOf(c) = r
        BY <1>2, <2>2, <2>3, <2>13, <3>2 DEF r, e
      <4> QED
        BY <1>4, <2>11, <3>2, <4>1 DEF Read, s, l
    <3> QED
      BY <1>12, <3>1, <3>2
  <2> QED
    BY <1>2, <1>3, <1>4, <2>1, <2>2, <2>3, <2>4, <2>12 DEF c, x, p
<1> QED
  BY <1>7, <1>9, <1>11, <1>12 DEF c

-----------------------------------------------------------------------------
(***************************************************************************)
(* The sample read or assigned into has the fields of its type, and those  *)
(* gone through are the ones of the sample.                                *)
(***************************************************************************)
SlotNames == {Slots[n] : n \in DOMAIN Slots}

Shaped(t, v) ==
  /\ t \in {"Message", "KeyOnly"} =>
       v = [text |-> v.text, count |-> v.count, subject |-> v.subject,
            time_stamp |-> [tv_sec  |-> v.time_stamp.tv_sec,
                            tv_nsec |-> v.time_stamp.tv_nsec]]
  /\ t = "timespec" => v = [tv_sec |-> v.tv_sec, tv_nsec |-> v.tv_nsec]
  /\ t = "StringArray" => v = [s \in SlotNames |-> v[s]]
  /\ t = "Binary" => v = [contents |-> v.contents]

Copies(t, v, c, w) ==
  /\ w \in 0 .. Count(t)
  /\ Shaped(t, c)
  /\ t = "KeyOnly" => c = Blank(t)
  /\ \A n \in 1 .. w : getValue(c, Path(t, n)) = Value(t, v, n)

Copied(w) == Copies(type, sample, copy, w)

Assigns(t, v, c, w) ==
  /\ w \in 0 .. Len(getFieldNames(t))
  /\ Shaped(t, c)
  /\ \A n \in 1 .. w : c[getFieldNames(t)[n]] = v[getFieldNames(t)[n]]

Joined(w) == Assigns(type, sample, copy, w)

LEMMA BlankShaped == ASSUME NEW t \in Types PROVE Shaped(t, Blank(t))
<1>1. CASE t \in {"Message", "KeyOnly"}
  BY <1>1 DEF Shaped, Blank
<1>2. CASE t = "timespec"
  BY <1>2 DEF Shaped, Blank
<1>3. CASE t = "StringArray"
  <2>1. Blank(t) = [s \in SlotNames |-> << >>]
    BY <1>3 DEF Blank, SlotNames
  <2>2. Blank(t) = [s \in SlotNames |-> Blank(t)[s]]
    BY <2>1
  <2> QED
    BY <1>3, <2>2 DEF Shaped
<1>4. CASE t = "Binary"
  BY <1>4 DEF Shaped, Blank
<1> QED
  BY <1>1, <1>2, <1>3, <1>4, TypeNames

LEMMA SampleShaped == ASSUME NEW t \in Types, NEW v \in Samples(t) PROVE Shaped(t, v)
<1>1. CASE t \in {"Message", "KeyOnly"}
  BY <1>1 DEF Shaped, Samples
<1>2. CASE t = "timespec"
  BY <1>2 DEF Shaped, Samples
<1>3. CASE t = "StringArray"
  <2>1. v \in [SlotNames -> Strings]
    BY <1>3 DEF Samples, SlotNames
  <2>2. v = [s \in SlotNames |-> v[s]]
    BY <2>1
  <2> QED
    BY <1>3, <2>2 DEF Shaped
<1>4. CASE t = "Binary"
  BY <1>4 DEF Shaped, Samples
<1> QED
  BY <1>1, <1>2, <1>3, <1>4, TypeNames

(* Setting a member of a copy changes that member and no other. *)
LEMMA WithOne ==
  ASSUME NEW t \in Types, NEW v, Shaped(t, v), NEW n \in 1 .. Count(t), NEW x
  PROVE  /\ Shaped(t, With(v, Path(t, n), x))
         /\ \A m \in 1 .. Count(t) :
              getValue(With(v, Path(t, n), x), Path(t, m))
                = IF Path(t, m) = Path(t, n) THEN x ELSE getValue(v, Path(t, m))
<1> DEFINE u == With(v, Path(t, n), x)
<1>1. CASE t = "Message"
  <2> DEFINE a == v.text
             b == v.count
             c == v.time_stamp.tv_sec
             d == v.time_stamp.tv_nsec
             e == v.subject
  <2>1. v = [text |-> a, count |-> b, subject |-> e,
             time_stamp |-> [tv_sec |-> c, tv_nsec |-> d]]
    BY <1>1 DEF Shaped
  <2> HIDE DEF a, b, c, d, e
  <2>2. /\ n = 1 => u = [v EXCEPT !["text"] = x]
        /\ n = 2 => u = [v EXCEPT !["count"] = x]
        /\ n = 3 => u = [v EXCEPT !["time_stamp"]["tv_sec"] = x]
        /\ n = 4 => u = [v EXCEPT !["time_stamp"]["tv_nsec"] = x]
        /\ n = 5 => u = [v EXCEPT !["subject"] = x]
    <3>1. \A y : With(v, << y >>, x) = [v EXCEPT ![y] = x]
      BY PathLength DEF With
    <3>2. /\ With(v, << "time_stamp", "tv_sec" >>, x) = [v EXCEPT !["time_stamp"]["tv_sec"] = x]
          /\ With(v, << "time_stamp", "tv_nsec" >>, x) = [v EXCEPT !["time_stamp"]["tv_nsec"] = x]
      BY PathLength DEF With
    <3>3. u = With(v, Path(t, n), x)
      OBVIOUS
    <3> HIDE DEF u
    <3>4. CASE n = 1
      BY <1>1, <3>1, <3>3, <3>4, MessageMembers
    <3>5. CASE n = 2
      BY <1>1, <3>1, <3>3, <3>5, MessageMembers
    <3>6. CASE n = 3
      BY <1>1, <3>2, <3>3, <3>6, MessageMembers
    <3>7. CASE n = 4
      BY <1>1, <3>2, <3>3, <3>7, MessageMembers
    <3>8. CASE n = 5
      BY <1>1, <3>1, <3>3, <3>8, MessageMembers
    <3>9. n = 1 \/ n = 2 \/ n = 3 \/ n = 4 \/ n = 5
      BY <1>1, MessageMembers
    <3> QED
      BY <3>4, <3>5, <3>6, <3>7, <3>8, <3>9
  <2>3. n = 1 \/ n = 2 \/ n = 3 \/ n = 4 \/ n = 5
    BY <1>1, MessageMembers
  <2> HIDE DEF u
  <2>4. u = [text |-> IF n = 1 THEN x ELSE a, count |-> IF n = 2 THEN x ELSE b,
             subject |-> IF n = 5 THEN x ELSE e,
             time_stamp |-> [tv_sec  |-> IF n = 3 THEN x ELSE c,
                             tv_nsec |-> IF n = 4 THEN x ELSE d]]
    <3>1. CASE n = 1
      BY <3>1, <2>1, <2>2
    <3>2. CASE n = 2
      BY <3>2, <2>1, <2>2
    <3>3. CASE n = 3
      BY <3>3, <2>1, <2>2
    <3>4. CASE n = 4
      BY <3>4, <2>1, <2>2
    <3>5. CASE n = 5
      BY <3>5, <2>1, <2>2
    <3> QED
      BY <2>3, <3>1, <3>2, <3>3, <3>4, <3>5
  <2>5. Shaped(t, u)
    BY <1>1, <2>4 DEF Shaped
  <2>6. \A w : /\ getValue(w, Path(t, 1)) = w.text /\ getValue(w, Path(t, 2)) = w.count
               /\ getValue(w, Path(t, 3)) = w.time_stamp.tv_sec
               /\ getValue(w, Path(t, 4)) = w.time_stamp.tv_nsec
               /\ getValue(w, Path(t, 5)) = w.subject
    BY <1>1, MessageMembers, PathLength DEF getValue
  <2>7. /\ v.text = a /\ v.count = b /\ v.subject = e
        /\ v.time_stamp.tv_sec = c /\ v.time_stamp.tv_nsec = d
    BY DEF a, b, c, d, e
  <2>8. /\ u.text = (IF n = 1 THEN x ELSE a) /\ u.count = (IF n = 2 THEN x ELSE b)
        /\ u.subject = (IF n = 5 THEN x ELSE e)
        /\ u.time_stamp.tv_sec = (IF n = 3 THEN x ELSE c)
        /\ u.time_stamp.tv_nsec = (IF n = 4 THEN x ELSE d)
    BY <2>4
  <2>9. ASSUME NEW m \in 1 .. Count(t)
        PROVE  getValue(u, Path(t, m)) = IF Path(t, m) = Path(t, n) THEN x ELSE getValue(v, Path(t, m))
    <3>1. m = 1 \/ m = 2 \/ m = 3 \/ m = 4 \/ m = 5
      BY <1>1, MessageMembers
    <3>2. Path(t, m) = Path(t, n) <=> m = n
      <4>1. /\ Path(t, 1) = << "text" >> /\ Path(t, 2) = << "count" >>
            /\ Path(t, 3) = << "time_stamp", "tv_sec" >>
            /\ Path(t, 4) = << "time_stamp", "tv_nsec" >> /\ Path(t, 5) = << "subject" >>
        BY <1>1, MessageMembers
      <4> QED
        BY <2>3, <3>1, <4>1
    <3>3. getValue(u, Path(t, m)) = IF m = n THEN x ELSE getValue(v, Path(t, m))
      <4>1. CASE m = 1
        BY <4>1, <2>6, <2>7, <2>8
      <4>2. CASE m = 2
        BY <4>2, <2>6, <2>7, <2>8
      <4>3. CASE m = 3
        BY <4>3, <2>6, <2>7, <2>8
      <4>4. CASE m = 4
        BY <4>4, <2>6, <2>7, <2>8
      <4>5. CASE m = 5
        BY <4>5, <2>6, <2>7, <2>8
      <4> QED
        BY <3>1, <4>1, <4>2, <4>3, <4>4, <4>5
    <3> QED
      BY <3>2, <3>3
  <2> QED
    BY <2>5, <2>9 DEF u
<1>2. CASE t = "timespec"
  <2> DEFINE a == v.tv_sec
             b == v.tv_nsec
  <2>1. v = [tv_sec |-> a, tv_nsec |-> b]
    BY <1>2 DEF Shaped
  <2> HIDE DEF a, b
  <2>2. /\ n = 1 => u = [v EXCEPT !["tv_sec"] = x]
        /\ n = 2 => u = [v EXCEPT !["tv_nsec"] = x]
    BY ZenonT(30), <1>2, TimespecMembers, PathLength DEF With
  <2>3. n = 1 \/ n = 2
    BY <1>2, TimespecMembers
  <2> HIDE DEF u
  <2>4. u = [tv_sec |-> IF n = 1 THEN x ELSE a, tv_nsec |-> IF n = 2 THEN x ELSE b]
    BY <2>1, <2>2, <2>3
  <2>5. Shaped(t, u)
    BY <1>2, <2>4 DEF Shaped
  <2>6. \A w : getValue(w, Path(t, 1)) = w.tv_sec /\ getValue(w, Path(t, 2)) = w.tv_nsec
    BY <1>2, TimespecMembers, PathLength DEF getValue
  <2>7. v.tv_sec = a /\ v.tv_nsec = b
    BY DEF a, b
  <2>8. u.tv_sec = (IF n = 1 THEN x ELSE a) /\ u.tv_nsec = (IF n = 2 THEN x ELSE b)
    BY <2>4
  <2>9. ASSUME NEW m \in 1 .. Count(t)
        PROVE  getValue(u, Path(t, m)) = IF Path(t, m) = Path(t, n) THEN x ELSE getValue(v, Path(t, m))
    <3>1. m = 1 \/ m = 2
      BY <1>2, TimespecMembers
    <3>2. Path(t, m) = Path(t, n) <=> m = n
      <4>1. Path(t, 1) = << "tv_sec" >> /\ Path(t, 2) = << "tv_nsec" >>
        BY <1>2, TimespecMembers
      <4> QED
        BY <2>3, <3>1, <4>1
    <3> QED
      BY <2>3, <2>6, <2>7, <2>8, <3>1, <3>2
  <2> QED
    BY <2>5, <2>9 DEF u
<1>3. CASE t = "StringArray"
  <2>1. v = [s \in SlotNames |-> v[s]]
    BY <1>3 DEF Shaped
  <2>2. \A m \in 1 .. Count(t) : Path(t, m) = << Slots[m] >> /\ Slots[m] \in SlotNames
    BY <1>3, OtherMembers DEF SlotNames
  <2>3. u = [v EXCEPT ![Slots[n]] = x]
    BY <2>2, PathLength DEF With
  <2> HIDE DEF u
  <2>4. u = [s \in SlotNames |-> IF s = Slots[n] THEN x ELSE v[s]]
    BY <2>1, <2>3
  <2>5. u = [s \in SlotNames |-> u[s]]
    BY <2>4
  <2>6. Shaped(t, u)
    BY <1>3, <2>5 DEF Shaped
  <2>7. ASSUME NEW m \in 1 .. Count(t)
        PROVE  getValue(u, Path(t, m)) = IF Path(t, m) = Path(t, n) THEN x ELSE getValue(v, Path(t, m))
    <3>1. getValue(u, Path(t, m)) = u[Slots[m]] /\ getValue(v, Path(t, m)) = v[Slots[m]]
      BY <2>2, PathLength DEF getValue
    <3>2. u[Slots[m]] = IF Slots[m] = Slots[n] THEN x ELSE v[Slots[m]]
      BY <2>2, <2>4
    <3>3. Path(t, m) = Path(t, n) <=> Slots[m] = Slots[n]
      BY <2>2, PathLength
    <3> QED
      BY <3>1, <3>2, <3>3
  <2> QED
    BY <2>6, <2>7 DEF u
<1>4. CASE t = "Binary"
  <2>1. n = 1 /\ Count(t) = 1 /\ Path(t, 1) = << "contents" >>
    BY <1>4, OtherMembers
  <2>2. v = [contents |-> v.contents]
    BY <1>4 DEF Shaped
  <2>3. u = [v EXCEPT !["contents"] = x]
    BY <2>1, PathLength DEF With
  <2> HIDE DEF u
  <2>4. u = [contents |-> x]
    BY <2>2, <2>3
  <2>5. Shaped(t, u)
    BY <1>4, <2>4 DEF Shaped
  <2>6. getValue(u, Path(t, 1)) = x
    BY <2>1, <2>4, PathLength DEF getValue
  <2>7. \A m \in 1 .. Count(t) : m = 1
    BY <2>1
  <2> QED
    BY <2>1, <2>5, <2>6, <2>7 DEF u
<1>5. CASE t = "KeyOnly"
  BY <1>5, OtherMembers
<1> QED
  BY <1>1, <1>2, <1>3, <1>4, <1>5, TypeNames

(* A copy with the members of a sample is that sample. *)
LEMMA WholeCopy ==
  ASSUME NEW t \in Types, t # "KeyOnly", NEW u, NEW v, Shaped(t, u), Shaped(t, v),
         \A n \in 1 .. Count(t) : getValue(u, Path(t, n)) = getValue(v, Path(t, n))
  PROVE  u = v
<1>1. CASE t = "Message"
  <2>1. \A w : /\ getValue(w, Path(t, 1)) = w.text /\ getValue(w, Path(t, 2)) = w.count
               /\ getValue(w, Path(t, 3)) = w.time_stamp.tv_sec
               /\ getValue(w, Path(t, 4)) = w.time_stamp.tv_nsec
               /\ getValue(w, Path(t, 5)) = w.subject
    BY <1>1, MessageMembers, PathLength DEF getValue
  <2>2. 1 \in 1 .. Count(t) /\ 2 \in 1 .. Count(t) /\ 3 \in 1 .. Count(t)
        /\ 4 \in 1 .. Count(t) /\ 5 \in 1 .. Count(t)
    BY <1>1, MessageMembers
  <2>3. /\ u.text = v.text /\ u.count = v.count /\ u.subject = v.subject
        /\ u.time_stamp.tv_sec = v.time_stamp.tv_sec
        /\ u.time_stamp.tv_nsec = v.time_stamp.tv_nsec
    BY <2>1, <2>2
  <2>4. /\ u = [text |-> u.text, count |-> u.count, subject |-> u.subject,
                time_stamp |-> [tv_sec  |-> u.time_stamp.tv_sec,
                                tv_nsec |-> u.time_stamp.tv_nsec]]
        /\ v = [text |-> v.text, count |-> v.count, subject |-> v.subject,
                time_stamp |-> [tv_sec  |-> v.time_stamp.tv_sec,
                                tv_nsec |-> v.time_stamp.tv_nsec]]
    BY <1>1 DEF Shaped
  <2> QED
    BY <2>3, <2>4
<1>2. CASE t = "timespec"
  <2>1. \A w : getValue(w, Path(t, 1)) = w.tv_sec /\ getValue(w, Path(t, 2)) = w.tv_nsec
    BY <1>2, TimespecMembers, PathLength DEF getValue
  <2>2. 1 \in 1 .. Count(t) /\ 2 \in 1 .. Count(t)
    BY <1>2, TimespecMembers
  <2>3. u.tv_sec = v.tv_sec /\ u.tv_nsec = v.tv_nsec
    BY <2>1, <2>2
  <2> QED
    BY <1>2, <2>3 DEF Shaped
<1>3. CASE t = "StringArray"
  <2>1. u = [s \in SlotNames |-> u[s]] /\ v = [s \in SlotNames |-> v[s]]
    BY <1>3 DEF Shaped
  <2>2. \A s \in SlotNames : u[s] = v[s]
    <3> SUFFICES ASSUME NEW s \in SlotNames PROVE u[s] = v[s]
      OBVIOUS
    <3>1. PICK n \in 1 .. Count(t) : s = Slots[n] /\ Path(t, n) = << s >>
      BY <1>3, OtherMembers DEF SlotNames
    <3>2. getValue(u, << s >>) = u[s] /\ getValue(v, << s >>) = v[s]
      BY PathLength DEF getValue
    <3> QED
      BY <3>1, <3>2
  <2> QED
    BY <2>1, <2>2
<1>4. CASE t = "Binary"
  <2>1. 1 \in 1 .. Count(t) /\ Path(t, 1) = << "contents" >>
    BY <1>4, OtherMembers
  <2>2. u.contents = v.contents
    BY <2>1, PathLength DEF getValue
  <2> QED
    BY <1>4, <2>2 DEF Shaped
<1> QED
  BY <1>1, <1>2, <1>3, <1>4, TypeNames

-----------------------------------------------------------------------------
(* The names of getValue and of joins.                                     *)

LEMMA PathsAre ==
  ASSUME NEW t \in Types
  PROVE  /\ \A n \in 1 .. Count(t) : Path(t, n) # << >>
         /\ t \in {"Message", "timespec"} =>
              getValueFields(t) = {Path(t, n) : n \in 1 .. Count(t)}
         /\ t \notin {"Message", "timespec"} => getValueFields(t) = {}
<1>1. CASE t = "Message"
  <2>1. 1 .. Count(t) = {1, 2, 3, 4, 5}
    BY <1>1, MessageMembers
  <2>2. {Path(t, n) : n \in 1 .. Count(t)}
          = {<< "text" >>, << "count" >>, << "time_stamp", "tv_sec" >>,
             << "time_stamp", "tv_nsec" >>, << "subject" >>}
    BY <1>1, <2>1, MessageMembers
  <2>3. getValueFields(t) = {<< "text" >>, << "count" >>, << "subject" >>,
                             << "time_stamp", "tv_sec" >>, << "time_stamp", "tv_nsec" >>}
    BY <1>1 DEF getValueFields
  <2>4. \A n \in 1 .. Count(t) : Path(t, n) # << >>
    BY <1>1, <2>1, MessageMembers
  <2> QED
    BY <1>1, <2>2, <2>3, <2>4
<1>2. CASE t = "timespec"
  <2>1. 1 .. Count(t) = {1, 2}
    BY <1>2, TimespecMembers
  <2>2. {Path(t, n) : n \in 1 .. Count(t)} = {<< "tv_sec" >>, << "tv_nsec" >>}
    BY <1>2, <2>1, TimespecMembers
  <2>3. getValueFields(t) = {<< "tv_sec" >>, << "tv_nsec" >>}
    BY <1>2 DEF getValueFields
  <2>4. \A n \in 1 .. Count(t) : Path(t, n) # << >>
    BY <1>2, <2>1, TimespecMembers
  <2> QED
    BY <1>2, <2>2, <2>3, <2>4
<1>3. CASE t \in {"KeyOnly", "StringArray", "Binary"}
  <2>1. getValueFields(t) = {}
    BY <1>3 DEF getValueFields
  <2>2. ASSUME NEW n \in 1 .. Count(t) PROVE Path(t, n) # << >>
    <3>1. CASE t = "KeyOnly"
      BY <3>1, OtherMembers
    <3>2. CASE t = "StringArray"
      <4>1. Path(t, n) = << Slots[n] >>
        BY <3>2, OtherMembers
      <4> QED
        BY <4>1
    <3>3. CASE t = "Binary"
      BY <3>3, OtherMembers
    <3> QED
      BY <1>3, <3>1, <3>2, <3>3
  <2> QED
    BY <1>3, <2>1, <2>2
<1> QED
  BY <1>1, <1>2, <1>3, TypeNames

LEMMA NamesAre ==
  /\ Len(getFieldNames("Message")) = 4
  /\ getFieldNames("Message")[1] = "text" /\ getFieldNames("Message")[2] = "count"
  /\ getFieldNames("Message")[3] = "time_stamp" /\ getFieldNames("Message")[4] = "subject"
  /\ Len(getFieldNames("timespec")) = 2
  /\ getFieldNames("timespec")[1] = "tv_sec" /\ getFieldNames("timespec")[2] = "tv_nsec"
  /\ getFieldNames("StringArray") = Slots
  /\ \A t : Len(getFieldNames(t)) \in Nat /\ DOMAIN getFieldNames(t) = 1 .. Len(getFieldNames(t))
<1>1. getFieldNames("Message") = << "text", "count", "time_stamp", "subject" >>
  BY DEF getFieldNames
<1>2. getFieldNames("timespec") = << "tv_sec", "tv_nsec" >>
  BY DEF getFieldNames
<1>3. getFieldNames("StringArray") = Slots
  BY DEF getFieldNames
<1>4. \A t : \E S : getFieldNames(t) \in Seq(S)
  <2> SUFFICES ASSUME NEW t PROVE \E S : getFieldNames(t) \in Seq(S)
    OBVIOUS
  <2>1. CASE t = "Message"
    <3>1. << "text", "count", "time_stamp", "subject" >>
            \in Seq({"text", "count", "time_stamp", "subject"})
      OBVIOUS
    <3> QED
      BY <1>1, <2>1, <3>1, Zenon
  <2>2. CASE t = "timespec"
    <3>1. << "tv_sec", "tv_nsec" >> \in Seq({"tv_sec", "tv_nsec"})
      OBVIOUS
    <3> QED
      BY <1>2, <2>2, <3>1, Zenon
  <2>3. CASE t = "StringArray"
    BY <1>3, <2>3, CodecAssumption, Zenon DEF CodecAssumption
  <2>4. CASE t \notin {"Message", "timespec", "StringArray"}
    <3>1. getFieldNames(t) = << >>
      BY <2>4 DEF getFieldNames
    <3>2. << >> \in Seq({})
      OBVIOUS
    <3> QED
      BY <3>1, <3>2, Zenon
  <2> QED
    BY <2>1, <2>2, <2>3, <2>4
<1>5. ASSUME NEW t
      PROVE  Len(getFieldNames(t)) \in Nat /\ DOMAIN getFieldNames(t) = 1 .. Len(getFieldNames(t))
  <2>1. PICK S : getFieldNames(t) \in Seq(S)
    BY <1>4
  <2> QED
    BY <2>1, LenProperties
<1>6. /\ Len(getFieldNames("Message")) = 4
      /\ getFieldNames("Message")[1] = "text" /\ getFieldNames("Message")[2] = "count"
      /\ getFieldNames("Message")[3] = "time_stamp" /\ getFieldNames("Message")[4] = "subject"
  BY <1>1
<1>7. /\ Len(getFieldNames("timespec")) = 2
      /\ getFieldNames("timespec")[1] = "tv_sec" /\ getFieldNames("timespec")[2] = "tv_nsec"
  BY <1>2
<1> QED
  BY <1>3, <1>5, <1>6, <1>7

Joinable == {"Message", "timespec", "StringArray"}

(* Assigning a field makes it the one of the sample, and changes no other. *)
LEMMA AssignOne ==
  ASSUME NEW t \in Joinable, NEW v \in Samples(t), NEW c, NEW w \in Nat,
         Assigns(t, v, c, w), w + 1 <= Len(getFieldNames(t))
  PROVE  LET name == getFieldNames(t)[w + 1]
         IN  Assigns(t, v, assign(c, name, v[name]), w + 1)
<1> DEFINE name == getFieldNames(t)[w + 1]
           u == assign(c, name, v[name])
<1>1. t \in Types
  BY TypeNames DEF Joinable
<1>2. Shaped(t, c) /\ Shaped(t, v)
  BY <1>1, SampleShaped DEF Assigns
<1>3. /\ w + 1 \in 0 .. Len(getFieldNames(t))
      /\ \A n \in 1 .. w + 1 : n \in 1 .. w \/ n = w + 1
      /\ \A n \in 1 .. w : c[getFieldNames(t)[n]] = v[getFieldNames(t)[n]]
  BY SMTT(30), NamesAre DEF Assigns
<1>4. ASSUME Shaped(t, u),
             \A n \in 1 .. Len(getFieldNames(t)) :
               u[getFieldNames(t)[n]] = IF getFieldNames(t)[n] = name THEN v[name]
                                        ELSE c[getFieldNames(t)[n]]
      PROVE  Assigns(t, v, u, w + 1)
  <2>1. ASSUME NEW n \in 1 .. w + 1 PROVE u[getFieldNames(t)[n]] = v[getFieldNames(t)[n]]
    <3>1. n \in 1 .. Len(getFieldNames(t))
      BY <1>3
    <3> QED
      BY <3>1, <1>3, <1>4
  <2> HIDE DEF u
  <2> QED
    BY <1>3, <1>4, <2>1 DEF Assigns
<1>5. CASE t = "Message"
  <2> DEFINE a == c.text
             b == c.count
             d == c.subject
             e == c.time_stamp
  <2>1. c = [text |-> a, count |-> b, subject |-> d, time_stamp |-> e]
        /\ e = [tv_sec |-> e.tv_sec, tv_nsec |-> e.tv_nsec]
    BY <1>2, <1>5 DEF Shaped
  <2>2. v.time_stamp = [tv_sec |-> v.time_stamp.tv_sec, tv_nsec |-> v.time_stamp.tv_nsec]
    BY <1>2, <1>5 DEF Shaped
  <2>3. u = [c EXCEPT ![name] = v[name]]
    BY DEF assign
  <2>4. name \in {"text", "count", "time_stamp", "subject"}
    <3>2. Len(getFieldNames(t)) = 4
      BY <1>5, NamesAre
    <3>1. w + 1 = 1 \/ w + 1 = 2 \/ w + 1 = 3 \/ w + 1 = 4
      BY <3>2
    <3> QED
      BY <1>5, <3>1, NamesAre
  <2> HIDE DEF a, b, d, e, u, name
  <2>5. u = [text |-> IF name = "text" THEN v[name] ELSE a,
             count |-> IF name = "count" THEN v[name] ELSE b,
             subject |-> IF name = "subject" THEN v[name] ELSE d,
             time_stamp |-> IF name = "time_stamp" THEN v[name] ELSE e]
    BY <2>1, <2>3, <2>4
  <2>6. /\ u["text"] = (IF name = "text" THEN v[name] ELSE c["text"])
        /\ u["count"] = (IF name = "count" THEN v[name] ELSE c["count"])
        /\ u["subject"] = (IF name = "subject" THEN v[name] ELSE c["subject"])
        /\ u["time_stamp"] = (IF name = "time_stamp" THEN v[name] ELSE c["time_stamp"])
    BY <2>1, <2>5
  <2>7. u.time_stamp = [tv_sec |-> u.time_stamp.tv_sec, tv_nsec |-> u.time_stamp.tv_nsec]
    <3>1. CASE name = "time_stamp"
      <4>1. u.time_stamp = v.time_stamp
        BY <2>6, <3>1
      <4> QED
        BY <2>2, <4>1
    <3>2. CASE name # "time_stamp"
      <4>1. u.time_stamp = e
        BY <2>5, <3>2
      <4> QED
        BY <2>1, <4>1
    <3> QED
      BY <3>1, <3>2
  <2>8. u = [text |-> u.text, count |-> u.count, subject |-> u.subject,
             time_stamp |-> u.time_stamp]
    BY <2>5
  <2>9. Shaped(t, u)
    BY <1>5, <2>7, <2>8 DEF Shaped
  <2>10. ASSUME NEW n \in 1 .. Len(getFieldNames(t))
         PROVE  u[getFieldNames(t)[n]] = IF getFieldNames(t)[n] = name THEN v[name]
                                         ELSE c[getFieldNames(t)[n]]
    <3>3. Len(getFieldNames(t)) = 4
      BY <1>5, NamesAre
    <3>1. n = 1 \/ n = 2 \/ n = 3 \/ n = 4
      BY <3>3
    <3>2. getFieldNames(t)[n] \in {"text", "count", "time_stamp", "subject"}
      BY <1>5, <3>1, NamesAre
    <3> QED
      BY <2>6, <3>2
  <2> QED
    BY <1>4, <2>9, <2>10 DEF u, name
<1>6. CASE t = "timespec"
  <2> DEFINE a == c.tv_sec
             b == c.tv_nsec
  <2>1. c = [tv_sec |-> a, tv_nsec |-> b]
    BY <1>2, <1>6 DEF Shaped
  <2>2. u = [c EXCEPT ![name] = v[name]]
    BY DEF assign
  <2>3. name \in {"tv_sec", "tv_nsec"}
    <3>2. Len(getFieldNames(t)) = 2
      BY <1>6, NamesAre
    <3>1. w + 1 = 1 \/ w + 1 = 2
      BY <3>2
    <3> QED
      BY <1>6, <3>1, NamesAre
  <2> HIDE DEF a, b, u, name
  <2>4. u = [tv_sec |-> IF name = "tv_sec" THEN v[name] ELSE a,
             tv_nsec |-> IF name = "tv_nsec" THEN v[name] ELSE b]
    BY <2>1, <2>2, <2>3
  <2>5. /\ u["tv_sec"] = (IF name = "tv_sec" THEN v[name] ELSE c["tv_sec"])
        /\ u["tv_nsec"] = (IF name = "tv_nsec" THEN v[name] ELSE c["tv_nsec"])
    BY <2>1, <2>4
  <2>6. Shaped(t, u)
    BY <1>6, <2>4 DEF Shaped
  <2>7. ASSUME NEW n \in 1 .. Len(getFieldNames(t))
        PROVE  u[getFieldNames(t)[n]] = IF getFieldNames(t)[n] = name THEN v[name]
                                        ELSE c[getFieldNames(t)[n]]
    <3>3. Len(getFieldNames(t)) = 2
      BY <1>6, NamesAre
    <3>1. n = 1 \/ n = 2
      BY <3>3
    <3>2. getFieldNames(t)[n] \in {"tv_sec", "tv_nsec"}
      BY <1>6, <3>1, NamesAre
    <3> QED
      BY <2>5, <3>2
  <2> QED
    BY <1>4, <2>6, <2>7 DEF u, name
<1>7. CASE t = "StringArray"
  <2>1. c = [s \in SlotNames |-> c[s]]
    BY <1>2, <1>7 DEF Shaped
  <2>2. u = [c EXCEPT ![name] = v[name]]
    BY DEF assign
  <2>3. \A n \in 1 .. Len(getFieldNames(t)) : getFieldNames(t)[n] \in SlotNames
    BY <1>7, NamesAre, OtherMembers DEF SlotNames
  <2> HIDE DEF u, name
  <2>4. u = [s \in SlotNames |-> IF s = name THEN v[name] ELSE c[s]]
    BY <2>1, <2>2
  <2>5. u = [s \in SlotNames |-> u[s]]
    BY <2>4
  <2>6. Shaped(t, u)
    BY <1>7, <2>5 DEF Shaped
  <2>7. \A n \in 1 .. Len(getFieldNames(t)) :
          u[getFieldNames(t)[n]] = IF getFieldNames(t)[n] = name THEN v[name]
                                   ELSE c[getFieldNames(t)[n]]
    BY <2>3, <2>4
  <2> QED
    BY <1>4, <2>6, <2>7 DEF u, name
<1> QED
  BY <1>5, <1>6, <1>7 DEF Joinable

(* A sample assigned over all its names is whole. *)
LEMMA WholeJoin ==
  ASSUME NEW t \in Joinable, NEW v \in Samples(t), NEW c,
         Assigns(t, v, c, Len(getFieldNames(t)))
  PROVE  c = v
<1>1. t \in Types
  BY TypeNames DEF Joinable
<1>2. /\ Shaped(t, c) /\ Shaped(t, v)
      /\ \A n \in 1 .. Len(getFieldNames(t)) : c[getFieldNames(t)[n]] = v[getFieldNames(t)[n]]
  BY <1>1, SampleShaped DEF Assigns
<1>3. CASE t = "Message"
  <2>1. 1 \in 1 .. 4 /\ 2 \in 1 .. 4 /\ 3 \in 1 .. 4 /\ 4 \in 1 .. 4
    OBVIOUS
  <2>2. /\ c["text"] = v["text"] /\ c["count"] = v["count"]
        /\ c["time_stamp"] = v["time_stamp"] /\ c["subject"] = v["subject"]
    BY <1>2, <1>3, <2>1, NamesAre
  <2> QED
    BY <1>2, <1>3, <2>2 DEF Shaped
<1>4. CASE t = "timespec"
  <2>1. 1 \in 1 .. 2 /\ 2 \in 1 .. 2
    OBVIOUS
  <2>2. c["tv_sec"] = v["tv_sec"] /\ c["tv_nsec"] = v["tv_nsec"]
    BY <1>2, <1>4, <2>1, NamesAre
  <2> QED
    BY <1>2, <1>4, <2>2 DEF Shaped
<1>5. CASE t = "StringArray"
  <2>1. \A s \in SlotNames : c[s] = v[s]
    BY <1>2, <1>5, NamesAre, OtherMembers DEF SlotNames
  <2>2. c = [s \in SlotNames |-> c[s]] /\ v = [s \in SlotNames |-> v[s]]
    BY <1>2, <1>5 DEF Shaped
  <2> QED
    BY <2>1, <2>2
<1> QED
  BY <1>3, <1>4, <1>5 DEF Joinable

-----------------------------------------------------------------------------
(***************************************************************************)
(* The invariant: what each function in progress has gone through so far   *)
(* is the members before k, and the buffer is as long as all of them need. *)
(***************************************************************************)
Untouched == pos = 0 /\ copy = Blank(type)

PhaseTyped ==
  /\ phase \in {"idle", "size", "write", "insert", "read", "extract", "skip", "assign",
                "taken", "refused", "found", "threw", "equal", "raised"}
  /\ SampleTyped
  /\ k \in Nat \ {0}
  /\ phase \in {"insert", "extract", "skip"} => type # "KeyOnly"

WriteInv ==
  /\ phase = "idle" => size = 0 /\ padding = 0 /\ stream = << >> /\ Untouched
  /\ phase = "size" => /\ size \in Nat /\ padding \in Nat
                       /\ k - 1 \in 0 .. Count(type) /\ Capacity = EndAt(k - 1)
                       /\ stream = << >> /\ Untouched
  /\ phase = "write" => /\ Written(k - 1) /\ Capacity = EndAt(Count(type))
                        /\ Untouched
  /\ phase = "insert" => Written(k - 1) /\ Untouched

ReadInv ==
  /\ phase \in {"read", "extract"} => /\ Written(Count(type)) /\ pos = EndAt(k - 1)
                                      /\ Copied(k - 1)
                                      /\ k > 1 => ~TooLong
  /\ RoundTrip

SkipInv ==
  /\ phase = "skip" =>
       /\ Written(Count(type)) /\ k - 1 \in 0 .. Count(type)
       /\ field \in Asked
       /\ type \in {"StringArray", "Binary"} => field = << >>
       /\ \A n \in 1 .. k - 1 : Path(type, n) # field
       /\ Short \/ k = 1 => pos = EndAt(k - 1)
  /\ FilterAgrees

JoinInv ==
  /\ phase = "assign" => type \in Joinable /\ Joined(k - 1)
  /\ phase = "raised" => type = "Message" /\ field = << "time_stamp" >>

CodecInv == PhaseTyped /\ WriteInv /\ ReadInv /\ SkipInv /\ JoinInv

LEMMA CodecInit == Init => CodecInv
<1> SUFFICES ASSUME Init PROVE CodecInv
  OBVIOUS
<1>1. /\ phase = "idle" /\ aligned \in BOOLEAN /\ type \in Types /\ sample \in Samples(type)
      /\ k = 1 /\ size = 0 /\ padding = 0 /\ stream = << >> /\ pos = 0
      /\ copy = Blank(type)
  BY CodecAssumption DEF Init, CodecAssumption
<1>2. PhaseTyped
  BY <1>1 DEF PhaseTyped, SampleTyped
<1> QED
  BY <1>1, <1>2 DEF CodecInv, WriteInv, Untouched, ReadInv, SkipInv, JoinInv, RoundTrip,
                    FilterAgrees

(* The members that the function in progress goes through. *)
LEMMA MembersAre ==
  ASSUME PhaseTyped, phase \in {"size", "write", "read", "insert", "extract", "skip"}
  PROVE  /\ Members = Layout(type) /\ Len(Members) = Count(type)
         /\ Count(type) \in Nat
         /\ \A n : Members[n].kind = Kind(type, n) /\ Members[n].path = Path(type, n)
<1>1. type \in Types /\ (phase \in {"insert", "extract", "skip"} => type # "KeyOnly")
  BY DEF PhaseTyped, SampleTyped
<1>2. Members = Layout(type)
  <2>1. CASE phase = "size"
    BY <1>1, <2>1, OneOrder DEF Members
  <2>2. CASE phase = "write"
    BY <1>1, <2>2, OneOrder DEF Members
  <2>3. CASE phase = "read"
    BY <1>1, <2>3, OneOrder DEF Members
  <2>4. CASE phase = "insert"
    BY <1>1, <2>4, OneOrder DEF Members
  <2>5. CASE phase = "extract"
    BY <1>1, <2>5, OneOrder DEF Members
  <2>6. CASE phase = "skip"
    BY <1>1, <2>6, OneOrder DEF Members
  <2> QED
    BY <2>1, <2>2, <2>3, <2>4, <2>5, <2>6
<1> QED
  BY <1>1, <1>2, CountType DEF Count, Kind, Path

LEMMA EmptyStream ==
  ASSUME SampleTyped
  PROVE  EndAt(0) = 0 /\ (stream = << >> => Written(0))
<1>1. aligned \in BOOLEAN /\ type \in Types /\ sample \in Samples(type)
  BY DEF SampleTyped
<1>2. Ends(aligned, type, sample)[0] = 0
  BY <1>1, EndsAt
<1>3. Count(type) \in Nat /\ << >> \in Seq(Nat) /\ Len(<< >>) = 0
  BY <1>1, CountType
<1>4. 0 \in 0 .. Count(type) /\ 1 .. 0 = {}
  BY <1>3
<1>5. stream = << >> => Holds(aligned, type, sample, stream, 0)
  BY <1>2, <1>3, <1>4 DEF Holds
<1> QED
  BY <1>2, <1>5 DEF EndAt, Written

(* What the encapsulation, the type and the sample determine stays. *)
LEMMA SampleKept ==
  ASSUME PhaseTyped, UNCHANGED << aligned, type, sample >>
  PROVE  /\ SampleTyped'
         /\ TooLong' = TooLong /\ Short' = Short
  BY DEF PhaseTyped, SampleTyped, TooLong, Short

(***************************************************************************)
(* gen_find_size.                                                          *)
(***************************************************************************)
LEMMA MarshalStep ==
  ASSUME CodecInv, Marshal \/ Allocate \/ Insert
  PROVE  CodecInv'
<1>1. /\ PhaseTyped /\ WriteInv /\ SampleTyped
      /\ phase' \in {"size", "write", "insert"} /\ k' = 1
      /\ UNCHANGED << aligned, type, sample, size, padding, stream, pos, field, copy >>
      /\ phase' = "insert" => type # "KeyOnly"
      /\ phase = "idle" \/ (phase = "size" /\ k > Len(Members) /\ phase' = "write")
  BY DEF CodecInv, PhaseTyped, Marshal, Allocate, Insert, Call, AtEnd
<1>2. phase' = "write" => phase = "size"
  BY DEF Marshal, Allocate, Insert, Call, AtEnd
<1>3. PhaseTyped'
  BY <1>1, SampleKept DEF PhaseTyped
<1>4. stream = << >> /\ Untouched /\ Untouched'
  BY <1>1 DEF WriteInv, Untouched
<1>5. EndAt(0) = 0 /\ Written(0)
  BY <1>1, <1>4, EmptyStream
<1>6. Written(k - 1)' /\ EndAt(k - 1)' = 0 /\ (k - 1)' = 0
  BY <1>1, <1>5 DEF Written, EndAt
<1>7. phase' = "size" => Capacity' = 0 /\ size = 0 /\ padding = 0
  BY <1>1 DEF Capacity, WriteInv
<1>8. phase' = "write" => Capacity' = EndAt(Count(type))'
  <2> SUFFICES ASSUME phase' = "write" PROVE Capacity' = EndAt(Count(type))'
    OBVIOUS
  <2>1. k - 1 \in 0 .. Count(type) /\ Capacity = EndAt(k - 1) /\ k > Count(type)
    BY <1>1, <1>2, MembersAre DEF WriteInv
  <2>2. k - 1 = Count(type)
    <3>1. Count(type) \in Nat /\ k \in Nat
      BY <1>1, <1>2, MembersAre DEF PhaseTyped
    <3> QED
      BY <2>1, <3>1
  <2> QED
    BY <1>1, <2>1, <2>2 DEF Capacity, EndAt
<1>9. 0 \in 0 .. Count(type)'
  BY <1>1, CountType DEF SampleTyped
<1>10. WriteInv'
  BY <1>1, <1>4, <1>6, <1>7, <1>8, <1>9 DEF WriteInv
<1> QED
  BY <1>1, <1>3, <1>10 DEF CodecInv, ReadInv, SkipInv, JoinInv, RoundTrip, FilterAgrees

LEMMA SizeStep ==
  ASSUME CodecInv, SizeMember
  PROVE  CodecInv'
<1>1. /\ PhaseTyped /\ SampleTyped
      /\ phase = "size" /\ phase' = "size" /\ k <= Len(Members) /\ k' = k + 1
      /\ UNCHANGED << aligned, type, sample, stream, pos, field, copy >>
  BY DEF CodecInv, PhaseTyped, SizeMember, AtMember
<1>2. /\ size \in Nat /\ padding \in Nat /\ k - 1 \in 0 .. Count(type)
      /\ Capacity = EndAt(k - 1) /\ stream = << >> /\ Untouched
  BY <1>1 DEF CodecInv, WriteInv
<1>3. k \in 1 .. Count(type) /\ Count(type) \in Nat
  BY <1>1, MembersAre DEF PhaseTyped
<1> DEFINE c == Kind(type, k)
           v == Value(type, sample, k)
           b == Bytes(type, sample, k)
           e == EndAt(k - 1)
           g == Gap(c, e)
<1>4. aligned \in BOOLEAN /\ type \in Types /\ sample \in Samples(type)
  BY <1>1 DEF SampleTyped
<1>5. /\ c = "char" => Len(b) = 1
      /\ c # "char" => Payload(c, v) \in Nat /\ Len(b) = 4 + Payload(c, v)
  BY <1>3, <1>4, BytesLaid
<1>6. e \in Nat /\ EndAt(k) \in Nat /\ EndAt(k) = StartAt(k) + Len(b) /\ StartAt(k) = e + g
  BY <1>3, <1>4, EndsAt, StartIs DEF EndAt, StartAt
<1>7. IF c = "char" THEN size' = size + 1 /\ padding' = padding
      ELSE padding' = padding + Pad(size + padding) /\ size' = size + 4 + Payload(c, v)
  BY <1>1, MembersAre DEF SizeMember, Current, Value
<1>8. Pad(size + padding) \in Nat
  BY <1>2, SMT DEF Pad
<1>9. g = IF aligned /\ c # "char" THEN Pad(e) ELSE 0
  BY DEF Gap
<1>10. Capacity = size + (IF aligned THEN padding ELSE 0)
       /\ Capacity' = size' + (IF aligned THEN padding' ELSE 0)
  BY <1>1 DEF Capacity
<1> HIDE DEF c, v, b, e, g
<1>11. size' \in Nat /\ padding' \in Nat /\ Capacity' = EndAt(k)
  <2>1. CASE c = "char"
    <3>3. g = 0
      BY <1>9, <2>1
    <3>1. EndAt(k) = e + 1
      <4>1. Len(b) = 1
        BY <1>5, <2>1
      <4>2. /\ e \in Nat /\ EndAt(k) = StartAt(k) + Len(b) /\ StartAt(k) = e + g
        BY <1>6
      <4>3. EndAt(k) = (e + 0) + 1
        BY <3>3, <4>1, <4>2, Zenon
      <4> QED
        BY <4>2, <4>3
    <3>2. size' = size + 1 /\ padding' = padding
      BY <1>7, <2>1
    <3> QED
      BY <1>2, <1>10, <3>1, <3>2 DEF e
  <2>2. CASE c # "char"
    <3> DEFINE p == Payload(c, v)
               d == Pad(size + padding)
    <3>1. p \in Nat /\ d \in Nat /\ padding' = padding + d /\ size' = size + 4 + p
      BY <1>5, <1>7, <1>8, <2>2
    <3>2. EndAt(k) = e + g + (4 + p)
      BY <1>5, <1>6, <2>2
    <3>3. CASE aligned
      <4>1. e = size + padding /\ g = d
        BY <1>2, <1>9, <1>10, <2>2, <3>3 DEF e
      <4> HIDE DEF p, d
      <4> QED
        BY <1>2, <1>10, <3>1, <3>2, <3>3, <4>1
    <3>4. CASE ~aligned
      <4>1. e = size /\ g = 0
        BY <1>2, <1>9, <1>10, <3>4 DEF e
      <4> HIDE DEF p, d
      <4> QED
        BY <1>2, <1>10, <3>1, <3>2, <3>4, <4>1
    <3> QED
      BY <3>3, <3>4
  <2> QED
    BY <2>1, <2>2
<1>12. PhaseTyped'
  BY <1>1, SampleKept DEF PhaseTyped
<1>13. k' - 1 = k
  BY <1>1, <1>3
<1>14. EndAt(k - 1)' = EndAt(k)
  BY <1>1, <1>13 DEF EndAt
<1>15. Untouched' /\ stream' = << >>
  BY <1>1, <1>2 DEF Untouched
<1>16. (k - 1 \in 0 .. Count(type))'
  BY <1>1, <1>3, <1>13
<1>17. WriteInv'
  BY <1>1, <1>11, <1>14, <1>15, <1>16 DEF WriteInv
<1> QED
  BY <1>1, <1>12, <1>17 DEF CodecInv, ReadInv, SkipInv, JoinInv, RoundTrip, FilterAgrees

(***************************************************************************)
(* operator<< and the insertion operators.                                 *)
(***************************************************************************)
LEMMA WriteStep ==
  ASSUME CodecInv, WriteMember \/ InsertMember
  PROVE  CodecInv'
<1>1. /\ PhaseTyped /\ SampleTyped
      /\ phase \in {"write", "insert"} /\ k <= Len(Members)
      /\ UNCHANGED << aligned, type, sample, size, padding, pos, field, copy >>
      /\ (phase = "insert" \/ Len(Appended) <= Capacity)
           => stream' = Appended /\ k' = k + 1 /\ phase' = phase
  <2>1. CASE WriteMember
    BY <2>1 DEF CodecInv, PhaseTyped, WriteMember, AtMember
  <2>2. CASE InsertMember
    BY <2>2 DEF CodecInv, PhaseTyped, InsertMember, AtMember
  <2> QED
    BY <2>1, <2>2
<1>2. /\ Written(k - 1) /\ Untouched
      /\ phase = "write" => Capacity = EndAt(Count(type))
  BY <1>1 DEF CodecInv, WriteInv
<1>3. /\ Members = Layout(type) /\ Count(type) \in Nat
      /\ k \in 1 .. Count(type) /\ k - 1 \in Nat /\ k = (k - 1) + 1
  BY <1>1, MembersAre DEF PhaseTyped
<1>4. /\ Appended \in Seq(Nat)
      /\ Len(Appended) = EndAt(k)
      /\ \A n \in 1 .. k : \A j \in 1 .. Len(Bytes(type, sample, n)) :
           Appended[StartAt(n) + j] = Bytes(type, sample, n)[j]
  <2> DEFINE w == k - 1
  <2>1. w \in Nat /\ w + 1 <= Count(type) /\ k = w + 1 /\ Written(w)
    BY <1>2, <1>3
  <2> HIDE DEF w
  <2>2. /\ Appended \in Seq(Nat)
        /\ Len(Appended) = EndAt(w + 1)
        /\ \A n \in 1 .. w + 1 : \A j \in 1 .. Len(Bytes(type, sample, n)) :
             Appended[StartAt(n) + j] = Bytes(type, sample, n)[j]
    BY <1>1, <1>3, <2>1, WriteOne
  <2> QED
    BY <2>1, <2>2
<1>5. EndAt(k) <= EndAt(Count(type)) /\ EndAt(k) \in Nat /\ EndAt(Count(type)) \in Nat
  <2>1. k \in 0 .. Count(type) /\ Count(type) \in k .. Count(type)
    BY <1>3
  <2>2. aligned \in BOOLEAN /\ type \in Types /\ sample \in Samples(type)
    BY <1>1 DEF SampleTyped
  <2> QED
    BY <2>1, <2>2, EndsOrder DEF EndAt
<1>6. stream' = Appended /\ k' = k + 1 /\ phase' = phase
  <2>1. phase = "write" => Len(Appended) <= Capacity
    BY <1>2, <1>4, <1>5
  <2> QED
    BY <1>1, <2>1
<1>7. (k - 1)' = k
  BY <1>3, <1>6
<1>8. Written(k - 1)'
  <2> DEFINE s == stream'
  <2>1. /\ k \in 0 .. Count(type) /\ s \in Seq(Nat) /\ Len(s) = Ends(aligned, type, sample)[k]
        /\ \A n \in 1 .. k : \A j \in 1 .. Len(Bytes(type, sample, n)) :
             s[Before(aligned, type, sample, n) + j] = Bytes(type, sample, n)[j]
    BY <1>3, <1>4, <1>6 DEF EndAt, StartAt
  <2>2. Holds(aligned, type, sample, s, k)
    BY <2>1 DEF Holds
  <2> QED
    BY <1>1, <1>7, <2>2 DEF Written
<1>9. PhaseTyped'
  BY <1>1, <1>6, SampleKept DEF PhaseTyped
<1>10. Untouched' /\ (phase = "write" => Capacity' = EndAt(Count(type))')
  BY <1>1, <1>2 DEF Untouched, Capacity, EndAt
<1>11. WriteInv'
  BY <1>1, <1>6, <1>8, <1>10 DEF WriteInv
<1> QED
  BY <1>1, <1>6, <1>9, <1>11 DEF CodecInv, ReadInv, SkipInv, JoinInv, RoundTrip, FilterAgrees

(***************************************************************************)
(* operator>> and the extraction operators.                                *)
(***************************************************************************)
LEMMA WholeStream ==
  ASSUME PhaseTyped, phase \in {"write", "insert"}, Written(k - 1), k > Len(Members)
  PROVE  Written(Count(type)) /\ k - 1 = Count(type)
<1>1. Count(type) \in Nat /\ k \in Nat /\ k > Count(type)
  BY MembersAre DEF PhaseTyped
<1>2. k - 1 \in 0 .. Count(type)
  BY DEF Written, Holds
<1>3. k - 1 = Count(type)
  BY <1>1, <1>2
<1> QED
  BY <1>3

LEMMA TakeStep ==
  ASSUME CodecInv, Take
  PROVE  CodecInv'
<1>1. /\ PhaseTyped /\ SampleTyped
      /\ phase \in {"write", "insert"} /\ phase' \in {"read", "extract"}
      /\ phase' = "extract" => phase = "insert"
      /\ k > Len(Members) /\ k' = 1
      /\ UNCHANGED << aligned, type, sample, size, padding, stream, pos, field, copy >>
  BY DEF CodecInv, PhaseTyped, Take, Call, AtEnd
<1>2. Written(k - 1) /\ Untouched
  BY <1>1 DEF CodecInv, WriteInv
<1>3. Written(Count(type))
  BY <1>1, <1>2, WholeStream
<1>4. PhaseTyped'
  BY <1>1, SampleKept DEF PhaseTyped
<1>5. type \in Types /\ Count(type) \in Nat
  BY <1>1, CountType DEF SampleTyped
<1>6. Copies(type, sample, copy, 0)
  <2>1. copy = Blank(type) /\ Shaped(type, Blank(type))
    BY <1>2, <1>5, BlankShaped DEF Untouched
  <2>2. 0 \in 0 .. Count(type) /\ 1 .. 0 = {}
    BY <1>5
  <2> QED
    BY <2>1, <2>2 DEF Copies
<1>7. (k - 1)' = 0 /\ EndAt(k - 1)' = 0
  BY <1>1, EmptyStream DEF EndAt
<1>8. /\ Written(Count(type))' /\ pos' = EndAt(k - 1)' /\ Copied(k - 1)'
      /\ ~(k' > 1)
  BY <1>1, <1>2, <1>3, <1>6, <1>7 DEF Written, Copied, Untouched
<1>9. ReadInv'
  BY <1>1, <1>8 DEF ReadInv, RoundTrip
<1> QED
  BY <1>1, <1>4, <1>9 DEF CodecInv, WriteInv, SkipInv, JoinInv, FilterAgrees

(* A contents is refused exactly when it is beyond its bound. *)
LEMMA BoundedIs ==
  ASSUME SampleTyped, Written(Count(type)), NEW n \in 1 .. Count(type), pos = EndAt(n - 1)
  PROVE  Bounded(Kind(type, n)) <=> ~TooLong
<1> DEFINE c == Kind(type, n)
           x == Value(type, sample, n)
<1>1. type \in Types /\ sample \in Samples(type)
  BY DEF SampleTyped
<1>2. /\ c = "octets" => type = "Binary" /\ x = sample.contents
      /\ type = "Binary" => c = "octets"
  BY <1>1, ValueType
<1>3. c = "octets" => NumberAt(c) = Payload(c, x) /\ Payload(c, x) = Len(x) /\ Len(x) \in Nat
  <2>1. Variable(c) => NumberAt(c) = Payload(c, x)
    BY ReadBack
  <2>2. c = "octets" => Len(x) \in Nat
    BY <1>1, BytesLaid
  <2> QED
    BY <2>1, <2>2 DEF Variable, Payload
<1>4. MaxOctets \in Nat
  BY CodecAssumption DEF CodecAssumption
<1> HIDE DEF c, x
<1>5. CASE c = "octets"
  <2>1. NumberAt(c) = Len(sample.contents) /\ Len(sample.contents) \in Nat
    BY <1>2, <1>3, <1>5
  <2> QED
    BY <1>2, <1>4, <1>5, <2>1 DEF Bounded, TooLong, c
<1>6. CASE c # "octets"
  BY <1>2, <1>6 DEF Bounded, TooLong, c
<1> QED
  BY <1>5, <1>6

LEMMA ReadStep ==
  ASSUME CodecInv, ReadMember
  PROVE  CodecInv'
<1> DEFINE c == Kind(type, k)
           p == Path(type, k)
           x == Value(type, sample, k)
<1>1. /\ PhaseTyped /\ SampleTyped
      /\ phase \in {"read", "extract"} /\ k <= Len(Members)
      /\ UNCHANGED << aligned, type, sample, size, padding, stream, field >>
  BY DEF CodecInv, PhaseTyped, ReadMember, AtMember
<1>2. Written(Count(type)) /\ pos = EndAt(k - 1) /\ Copied(k - 1)
  BY <1>1 DEF CodecInv, ReadInv
<1>3. /\ Count(type) \in Nat /\ k \in Nat /\ k \in 1 .. Count(type)
      /\ Current.kind = c /\ Current.path = p
  BY <1>1, MembersAre DEF PhaseTyped, Current
<1>4. IF Readable(c) /\ Bounded(c)
      THEN copy' = With(copy, p, Read(c)) /\ pos' = EndOf(c) /\ k' = k + 1 /\ phase' = phase
      ELSE phase' = "refused" /\ k' = k
  BY <1>3 DEF ReadMember
<1>5. Readable(c) /\ EndOf(c) = EndAt(k) /\ Read(c) = x
  BY <1>1, <1>2, <1>3, ReadBack
<1>6. Bounded(c) <=> ~TooLong
  BY <1>1, <1>2, <1>3, BoundedIs
<1>7. TooLong' = TooLong
  BY <1>1, SampleKept
<1>8. CASE TooLong
  <2>1. phase' = "refused" /\ k' = k
    BY <1>4, <1>6, <1>8
  <2>2. PhaseTyped'
    BY <1>1, <2>1, SampleKept DEF PhaseTyped
  <2> QED
    BY <1>7, <1>8, <2>1, <2>2
    DEF CodecInv, WriteInv, ReadInv, SkipInv, JoinInv, RoundTrip, FilterAgrees
<1>9. CASE ~TooLong
  <2>1. copy' = With(copy, p, x) /\ pos' = EndAt(k) /\ k' = k + 1 /\ phase' = phase
    BY <1>4, <1>5, <1>6, <1>9
  <2>2. PhaseTyped'
    BY <1>1, <1>3, <2>1, SampleKept DEF PhaseTyped
  <2>3. (k - 1)' = k /\ Written(Count(type))' /\ pos' = EndAt(k - 1)'
    BY <1>1, <1>2, <1>3, <2>1 DEF Written, EndAt
  <2>4. Copies(type, sample, With(copy, p, x), k)
    <3> DEFINE w == k - 1
               u == With(copy, p, x)
    <3>1. /\ type \in Types /\ Shaped(type, copy)
          /\ \A n \in 1 .. w : getValue(copy, Path(type, n)) = Value(type, sample, n)
      BY <1>1, <1>2 DEF SampleTyped, Copied, Copies
    <3>2. /\ Shaped(type, u)
          /\ \A m \in 1 .. Count(type) :
               getValue(u, Path(type, m))
                 = IF Path(type, m) = p THEN x ELSE getValue(copy, Path(type, m))
      BY <1>3, <3>1, WithOne
    <3>3. type # "KeyOnly"
      BY <1>3, OtherMembers
    <3>4. ASSUME NEW n \in 1 .. k
          PROVE  getValue(u, Path(type, n)) = Value(type, sample, n)
      <4>1. n \in 1 .. Count(type) /\ (n \in 1 .. w \/ n = k)
        BY <1>3
      <4>2. getValue(u, Path(type, n)) = IF Path(type, n) = p THEN x ELSE getValue(copy, Path(type, n))
        BY <3>2, <4>1
      <4>3. Path(type, n) = p => Value(type, sample, n) = x
        BY DEF Value
      <4>4. n = k => Path(type, n) = p
        OBVIOUS
      <4>5. n \in 1 .. w => getValue(copy, Path(type, n)) = Value(type, sample, n)
        BY <3>1
      <4> HIDE DEF u, x, p, w
      <4> QED
        BY <4>1, <4>2, <4>3, <4>4, <4>5, Zenon
    <3> HIDE DEF u
    <3>5. k \in 0 .. Count(type)
      BY <1>3
    <3>6. Copies(type, sample, u, k)
      BY <3>2, <3>3, <3>4, <3>5 DEF Copies
    <3> QED
      BY <3>6 DEF u
  <2>5. Copied(k - 1)'
    BY <1>1, <2>1, <2>3, <2>4 DEF Copied
  <2>6. ReadInv'
    BY <1>1, <1>7, <1>9, <2>1, <2>3, <2>5 DEF ReadInv, RoundTrip
  <2> QED
    BY <1>1, <2>1, <2>2, <2>6 DEF CodecInv, WriteInv, SkipInv, JoinInv, FilterAgrees
<1> QED
  BY <1>8, <1>9

LEMMA TakenStep ==
  ASSUME CodecInv, Taken
  PROVE  CodecInv'
<1>1. /\ PhaseTyped /\ SampleTyped
      /\ phase \in {"read", "extract"} /\ phase' = "taken" /\ k > Len(Members)
      /\ UNCHANGED << aligned, type, sample, k, size, padding, stream, pos, field, copy >>
  BY DEF CodecInv, PhaseTyped, Taken, AtEnd
<1>2. Copied(k - 1) /\ (k > 1 => ~TooLong)
  BY <1>1 DEF CodecInv, ReadInv
<1>3. /\ type \in Types /\ sample \in Samples(type)
      /\ Count(type) \in Nat /\ k \in Nat /\ k # 0 /\ k > Count(type)
  BY <1>1, MembersAre DEF PhaseTyped, SampleTyped
<1>4. k - 1 = Count(type)
  <2>1. k - 1 \in 0 .. Count(type)
    BY <1>2 DEF Copied, Copies
  <2> QED
    BY <1>3, <2>1
<1>5. ~TooLong
  <2>1. k = 1 => type # "Binary"
    BY <1>4, OtherMembers
  <2> QED
    BY <1>2, <1>3, <2>1 DEF TooLong
<1>6. type = "KeyOnly" => copy = Blank(type)
  BY <1>2 DEF Copied, Copies
<1>7. type # "KeyOnly" => copy = sample
  <2> SUFFICES ASSUME type # "KeyOnly" PROVE copy = sample
    OBVIOUS
  <2>1. /\ Shaped(type, copy) /\ Shaped(type, sample)
        /\ \A n \in 1 .. Count(type) : getValue(copy, Path(type, n)) = getValue(sample, Path(type, n))
    BY <1>2, <1>3, <1>4, SampleShaped DEF Copied, Copies, Value
  <2> QED
    BY <1>3, <2>1, WholeCopy
<1>8. PhaseTyped'
  BY <1>1, SampleKept DEF PhaseTyped
<1>9. TooLong' = TooLong /\ Blank(type)' = Blank(type)
  BY <1>1, SampleKept DEF Blank
<1>10. RoundTrip'
  BY <1>1, <1>5, <1>6, <1>7, <1>9 DEF RoundTrip
<1> QED
  BY <1>1, <1>8, <1>10 DEF CodecInv, WriteInv, ReadInv, SkipInv, JoinInv, FilterAgrees

(***************************************************************************)
(* getValue and gen_skip_over.                                             *)
(***************************************************************************)
LEMMA AskStep ==
  ASSUME CodecInv, NEW f \in Asked, Ask(f)
  PROVE  CodecInv'
<1>1. /\ PhaseTyped /\ SampleTyped
      /\ phase = "write" /\ phase' = "skip" /\ k > Len(Members) /\ k' = 1 /\ field' = f
      /\ type # "KeyOnly" /\ (type \in {"StringArray", "Binary"} => f = << >>)
      /\ UNCHANGED << aligned, type, sample, size, padding, stream, pos, copy >>
  BY DEF CodecInv, PhaseTyped, Ask, Call, AtEnd
<1>2. Written(k - 1) /\ pos = 0
  BY <1>1 DEF CodecInv, WriteInv, Untouched
<1>3. Written(Count(type))
  BY <1>1, <1>2, WholeStream
<1>4. PhaseTyped'
  BY <1>1, SampleKept DEF PhaseTyped
<1>5. /\ (k - 1)' = 0 /\ EndAt(k - 1)' = 0 /\ Written(Count(type))'
      /\ 0 \in 0 .. Count(type)' /\ 1 .. 0 = {}
  BY <1>1, <1>3, EmptyStream, CountType DEF EndAt, Written, SampleTyped
<1>6. SkipInv'
  BY <1>1, <1>2, <1>5 DEF SkipInv, FilterAgrees
<1> QED
  BY <1>1, <1>4, <1>6 DEF CodecInv, WriteInv, ReadInv, JoinInv, RoundTrip

(* What a step of getValue or of gen_skip_over has before it. *)
LEMMA Skipping ==
  ASSUME CodecInv, phase = "skip"
  PROVE  /\ PhaseTyped /\ SampleTyped /\ type \in Types /\ type # "KeyOnly"
         /\ Written(Count(type)) /\ k - 1 \in 0 .. Count(type)
         /\ Count(type) \in Nat /\ k \in Nat \ {0}
         /\ field \in Asked
         /\ type \in {"StringArray", "Binary"} => field = << >>
         /\ \A n \in 1 .. k - 1 : Path(type, n) # field
         /\ Short \/ k = 1 => pos = EndAt(k - 1)
         /\ Len(Members) = Count(type)
         /\ \A n : Members[n].kind = Kind(type, n) /\ Members[n].path = Path(type, n)
<1>1. PhaseTyped
  BY DEF CodecInv
<1>2. SampleTyped /\ type \in Types /\ type # "KeyOnly" /\ k \in Nat \ {0}
  BY <1>1 DEF PhaseTyped, SampleTyped
<1>3. /\ Count(type) \in Nat /\ Len(Members) = Count(type)
      /\ \A n : Members[n].kind = Kind(type, n) /\ Members[n].path = Path(type, n)
  BY <1>1, MembersAre
<1>4. /\ Written(Count(type)) /\ k - 1 \in 0 .. Count(type)
      /\ field \in Asked
      /\ type \in {"StringArray", "Binary"} => field = << >>
      /\ \A n \in 1 .. k - 1 : Path(type, n) # field
      /\ Short \/ k = 1 => pos = EndAt(k - 1)
  BY DEF CodecInv, SkipInv
<1> QED
  BY <1>1, <1>2, <1>3, <1>4

LEMMA GetStep ==
  ASSUME CodecInv, GetMember
  PROVE  CodecInv'
<1> DEFINE c == Kind(type, k)
<1>1. /\ phase = "skip" /\ k <= Len(Members) /\ Current.path = field
      /\ IF Readable(Current.kind) THEN phase' = "found" /\ copy' = Read(Current.kind)
                                   ELSE phase' = "threw" /\ UNCHANGED copy
      /\ UNCHANGED << aligned, type, sample, k, size, padding, stream, pos, field >>
  BY DEF GetMember, AtMember
<1>2. /\ k \in 1 .. Count(type) /\ Path(type, k) = field
      /\ IF Readable(c) THEN phase' = "found" /\ copy' = Read(c)
                        ELSE phase' = "threw"
  BY <1>1, Skipping DEF Current
<1>3. field # << >> /\ field \in getValueFields(type)
  <2>1. field # << >>
    BY <1>1, <1>2, Skipping, PathsAre
  <2>2. type \in {"Message", "timespec"}
    BY <1>1, <2>1, Skipping, TypeNames
  <2>3. getValueFields(type) = {Path(type, n) : n \in 1 .. Count(type)}
    BY <1>1, <2>2, Skipping, PathsAre
  <2> QED
    BY <1>2, <2>1, <2>3
<1>4. Short \/ k = 1 => Readable(c) /\ Read(c) = getValue(sample, field)
  <2> SUFFICES ASSUME Short \/ k = 1 PROVE Readable(c) /\ Read(c) = getValue(sample, field)
    OBVIOUS
  <2>1. pos = EndAt(k - 1) /\ SampleTyped /\ Written(Count(type))
    BY <1>1, Skipping
  <2>2. Readable(c) /\ Read(c) = Value(type, sample, k)
    BY <1>2, <2>1, ReadBack
  <2> QED
    BY <1>2, <2>2 DEF Value
<1>5. /\ SampleTyped' /\ Short' = Short /\ PhaseTyped /\ getValueFields(type)' = getValueFields(type)
      /\ Found' = Found
  BY <1>1, Skipping, SampleKept DEF Found, getValueFields
<1>6. PhaseTyped'
  BY <1>1, <1>2, <1>5 DEF PhaseTyped
<1>7. FilterAgrees'
  <2>1. /\ phase' \in {"found", "threw"} /\ (phase' = "threw" => ~Short)
        /\ phase' = "found" /\ (Short \/ k = 1) => copy' = getValue(sample, field)
    BY <1>2, <1>4
  <2>2. field \in Found
    BY <1>3 DEF Found
  <2>3. getValue(sample, field)' = getValue(sample, field)
    BY <1>1 DEF getValue
  <2> QED
    BY <1>1, <1>3, <1>5, <2>1, <2>2, <2>3 DEF FilterAgrees
<1>8. phase' \in {"found", "threw"}
  BY <1>2
<1> QED
  BY <1>6, <1>7, <1>8 DEF CodecInv, WriteInv, ReadInv, SkipInv, JoinInv, RoundTrip

(* Where lengths fit 16 bits, the member is skipped to where it ends. *)
LEMMA SkipToIs ==
  ASSUME CodecInv, phase = "skip", k \in 1 .. Count(type), Short
  PROVE  Skips(Kind(type, k)) /\ SkipTo(Kind(type, k)) = EndAt(k)
<1> DEFINE c == Kind(type, k)
           x == Value(type, sample, k)
<1>1. pos = EndAt(k - 1) /\ SampleTyped /\ Written(Count(type)) /\ type \in Types
  BY Skipping
<1>2. /\ EndOf(c) = EndAt(k) /\ EndAt(k) <= Len(stream)
      /\ Variable(c) => /\ HasNumber(c) /\ NumberAt(c) = Payload(c, x)
                        /\ Start(c, pos) + 4 + Payload(c, x) = EndAt(k)
  BY <1>1, ReadBack
<1>3. Variable(c) => Payload(c, x) \in Nat /\ Payload(c, x) < UShort
  <2> SUFFICES ASSUME Variable(c) PROVE Payload(c, x) \in Nat /\ Payload(c, x) < UShort
    OBVIOUS
  <2>1. k \in DOMAIN Orders[type].write
    BY <1>1, LayoutDomain DEF Layout
  <2>2. Payload(c, x) < UShort
    BY <2>1 DEF Short, Layout, Kind, Path, Value
  <2>3. Payload(c, x) \in Nat
    <3>1. sample \in Samples(type) /\ c # "char"
      BY <1>1 DEF SampleTyped, Variable
    <3> QED
      BY <1>1, <3>1, BytesLaid
  <2> QED
    BY <2>2, <2>3
<1>4. UShort \in Nat \ {0}
  BY CodecAssumption, SMT DEF CodecAssumption, UShort
<1> HIDE DEF c, x
<1>5. CASE Variable(c)
  <2> DEFINE n == Payload(c, x)
             u == UShort
  <2>1. n \in Nat /\ n < u /\ u \in Nat \ {0}
    BY <1>3, <1>4, <1>5
  <2>2. NumberAt(c) = n /\ HasNumber(c) /\ Start(c, pos) + 4 + n = EndAt(k)
    BY <1>2, <1>5
  <2>3. Length16(n) = n
    <3>1. Length16(n) = n % u
      BY DEF Length16
    <3> HIDE DEF n, u
    <3> QED
      BY <2>1, <3>1, SMT
  <2>4. SkipTo(c) = Start(c, pos) + 4 + Length16(NumberAt(c))
    BY <1>5 DEF SkipTo
  <2> HIDE DEF n, u
  <2>5. SkipTo(c) = EndAt(k)
    BY <2>2, <2>3, <2>4
  <2> QED
    BY <1>2, <2>2, <2>5 DEF Skips, c
<1>6. CASE ~Variable(c)
  <2>1. SkipTo(c) = EndOf(c)
    BY <1>6 DEF SkipTo
  <2> QED
    BY <1>2, <1>6, <2>1 DEF Skips, c
<1> QED
  BY <1>5, <1>6

LEMMA SkipStep ==
  ASSUME CodecInv, SkipMember
  PROVE  CodecInv'
<1> DEFINE c == Kind(type, k)
<1>1. /\ phase = "skip" /\ k <= Len(Members) /\ Current.path # field
      /\ IF Skips(Current.kind)
         THEN pos' = SkipTo(Current.kind) /\ k' = k + 1 /\ phase' = phase
         ELSE phase' = "threw" /\ k' = k
      /\ UNCHANGED << aligned, type, sample, size, padding, stream, field, copy >>
  BY DEF SkipMember, AtMember
<1>2. /\ k \in 1 .. Count(type) /\ Path(type, k) # field
      /\ IF Skips(c) THEN pos' = SkipTo(c) /\ k' = k + 1 /\ phase' = phase
                     ELSE phase' = "threw" /\ k' = k
  BY <1>1, Skipping DEF Current
<1>3. /\ PhaseTyped /\ SampleTyped' /\ Short' = Short /\ Found' = Found
      /\ k \in Nat \ {0} /\ type \in Types /\ type # "KeyOnly"
  BY <1>1, Skipping, SampleKept DEF Found, getValueFields
<1>4. Short => Skips(c) /\ SkipTo(c) = EndAt(k)
  BY <1>1, <1>2, SkipToIs
<1>5. CASE Skips(c)
  <2>1. pos' = SkipTo(c) /\ k' = k + 1 /\ phase' = "skip"
    BY <1>1, <1>2, <1>5
  <2>2. PhaseTyped'
    BY <1>1, <1>3, <2>1 DEF PhaseTyped
  <2>3. (k - 1)' = k /\ EndAt(k - 1)' = EndAt(k)
    BY <1>1, <1>3, <2>1 DEF EndAt
  <2>4. (Short \/ k = 1)' => pos' = EndAt(k - 1)'
    <3>1. k' # 1
      BY <1>3, <2>1
    <3> QED
      BY <1>3, <1>4, <2>1, <2>3, <3>1
  <2>5. (k - 1 \in 0 .. Count(type))'
    BY <1>1, <1>2, <2>3
  <2>6. \A n \in 1 .. k : Path(type, n) # field
    <3>1. ASSUME NEW n \in 1 .. k PROVE Path(type, n) # field
      <4>1. n \in 1 .. k - 1 \/ n = k
        BY <1>3
      <4> QED
        BY <1>1, <1>2, <4>1, Skipping
    <3> QED
      BY <3>1
  <2>7. (\A n \in 1 .. k - 1 : Path(type, n) # field)'
    BY <1>1, <2>3, <2>6
  <2>8. Written(Count(type))' /\ field' \in Asked /\ (type' \in {"StringArray", "Binary"} => field' = << >>)
    BY <1>1, Skipping DEF Written
  <2>9. Asked' = Asked
    BY DEF Asked, getValueFields
  <2>10. SkipInv'
    BY <2>1, <2>4, <2>5, <2>7, <2>8, <2>9 DEF SkipInv, FilterAgrees
  <2> QED
    BY <2>1, <2>2, <2>10 DEF CodecInv, WriteInv, ReadInv, JoinInv, RoundTrip
<1>6. CASE ~Skips(c)
  <2>1. phase' = "threw" /\ k' = k
    BY <1>2, <1>6
  <2>2. PhaseTyped'
    BY <1>1, <1>3, <2>1 DEF PhaseTyped
  <2>3. FilterAgrees'
    BY <1>3, <1>4, <1>6, <2>1 DEF FilterAgrees
  <2> QED
    BY <2>1, <2>2, <2>3 DEF CodecInv, WriteInv, ReadInv, SkipInv, JoinInv, RoundTrip
<1> QED
  BY <1>5, <1>6

LEMMA ShortTuples == (\A x : Len(<< x >>) # 2) /\ Len(<< >>) # 2
<1>1. ASSUME NEW x PROVE Len(<< x >>) # 2
  <2>1. Len(<< x >>) = 1 /\ 1 # 2
    BY PathLength
  <2> QED
    BY <2>1
<1>2. Len(<< >>) = 0 /\ 0 # 2
  OBVIOUS
<1> QED
  BY <1>1, <1>2

(* The names asked for that end in a dot. *)
LEMMA DottedName ==
  ASSUME NEW f \in Asked, Len(f) = 2, f[2] = ""
  PROVE  f = << "time_stamp", "" >>
<1>1. f \in {<< "text" >>, << "count" >>, << "subject" >>, << "tv_sec" >>, << "tv_nsec" >>,
             << >>, << "time_stamp" >>}
      \/ f \in {<< "time_stamp", "tv_sec" >>, << "time_stamp", "tv_nsec" >>,
                << "time_stamp", "" >>, << "time_stamp", "other" >>}
  BY DEF Asked, getValueFields
<1>2. Len(<< >>) = 0
  OBVIOUS
<1>3. CASE f \in {<< "text" >>, << "count" >>, << "subject" >>, << "tv_sec" >>, << "tv_nsec" >>,
                  << >>, << "time_stamp" >>}
  <2>1. (\A x : Len(<< x >>) # 2) /\ Len(<< >>) # 2
    BY ShortTuples
  <2>3. Len(f) # 2
    BY <1>3, <2>1, Zenon
  <2> QED
    BY <2>3, Zenon
<1>4. CASE f \in {<< "time_stamp", "tv_sec" >>, << "time_stamp", "tv_nsec" >>,
                  << "time_stamp", "" >>, << "time_stamp", "other" >>}
  <2>1. CASE f = << "time_stamp", "tv_sec" >>
    BY <2>1
  <2>2. CASE f = << "time_stamp", "tv_nsec" >>
    BY <2>2
  <2>3. CASE f = << "time_stamp", "other" >>
    BY <2>3
  <2> QED
    BY <1>4, <2>1, <2>2, <2>3
<1> QED
  BY <1>1, <1>3, <1>4

(* A name that getValue finds in a sample names a member of it. *)
LEMMA FoundName ==
  ASSUME type \in Types, NEW f \in getValueFields(type)
  PROVE  f # << >> /\ \E n \in 1 .. Count(type) : f = Path(type, n)
<1>1. type \in {"Message", "timespec"} /\ f \in {Path(type, n) : n \in 1 .. Count(type)}
  BY PathsAre
<1>2. PICK n \in 1 .. Count(type) : f = Path(type, n)
  BY <1>1
<1> QED
  BY <1>2, PathsAre

LEMMA SkipEndsStep ==
  ASSUME CodecInv, SkipEnds
  PROVE  CodecInv'
<1>1. /\ phase = "skip" /\ (k > Len(Members) \/ Beyond)
      /\ phase' = IF field = << >> \/ (Beyond /\ field[2] = "") THEN "found" ELSE "threw"
      /\ UNCHANGED << aligned, type, sample, k, size, padding, stream, pos, field, copy >>
  BY DEF SkipEnds, AtMember, AtEnd
<1>2. /\ PhaseTyped /\ SampleTyped' /\ Short' = Short /\ Found' = Found
      /\ getValueFields(type)' = getValueFields(type)
      /\ k \in Nat \ {0} /\ type \in Types /\ type # "KeyOnly"
  BY <1>1, Skipping, SampleKept DEF Found, getValueFields
<1>3. Beyond => /\ Len(field) = 2 /\ field # << >>
                /\ \E n \in 1 .. k - 1 : Path(type, n)[1] = field[1]
                /\ \A n \in k .. Count(type) : Path(type, n)[1] # field[1]
  <2>1. Len(<< >>) = 0
    OBVIOUS
  <2>2. Beyond => /\ Len(field) = 2
                  /\ \E n \in 1 .. k - 1 : Members[n].path[1] = field[1]
                  /\ \A n \in k .. Len(Members) : Members[n].path[1] # field[1]
    BY DEF Beyond
  <2>3. Len(Members) = Count(type) /\ \A n : Members[n].path = Path(type, n)
    BY <1>1, Skipping
  <2>4. Len(field) = 2 => field # << >>
    BY <2>1
  <2> QED
    BY <2>2, <2>3, <2>4, Zenon
<1>4. PhaseTyped'
  BY <1>1, <1>2 DEF PhaseTyped
<1>5. \A n \in 1 .. Count(type) : Path(type, n) # field
  <2> SUFFICES ASSUME NEW n \in 1 .. Count(type) PROVE Path(type, n) # field
    OBVIOUS
  <2>1. n \in 1 .. k - 1 \/ n \in k .. Count(type)
    BY <1>2
  <2>2. n \in 1 .. k - 1 => Path(type, n) # field
    BY <1>1, Skipping
  <2>3. CASE n \in k .. Count(type)
    <3>1. Beyond
      <4>1. ~(k > Len(Members))
        <5>1. Len(Members) = Count(type) /\ Count(type) \in Nat
          BY <1>1, Skipping
        <5> QED
          BY <1>2, <2>3, <5>1
      <4> QED
        BY <1>1, <4>1
    <3> QED
      BY <1>3, <2>3, <3>1
  <2> QED
    BY <2>1, <2>2, <2>3
<1>6. field \notin getValueFields(type)
  BY <1>2, <1>5, FoundName
<1>7. CASE field = << >>
  <2>1. phase' = "found" /\ ~Beyond /\ field \in Found
    BY <1>1, <1>3, <1>7 DEF Found
  <2>2. Short => pos = Len(stream)
    <3> SUFFICES ASSUME Short PROVE pos = Len(stream)
      OBVIOUS
    <3>1. pos = EndAt(k - 1) /\ Written(Count(type)) /\ k - 1 \in 0 .. Count(type)
          /\ Count(type) \in Nat /\ k > Count(type)
      BY <1>1, <2>1, Skipping
    <3>2. k - 1 = Count(type)
      BY <1>2, <3>1
    <3> QED
      BY <3>1, <3>2 DEF Written, Holds, EndAt
  <2>3. FilterAgrees'
    BY <1>1, <1>2, <1>6, <2>1, <2>2 DEF FilterAgrees
  <2> QED
    BY <1>4, <2>1, <2>3 DEF CodecInv, WriteInv, ReadInv, SkipInv, JoinInv, RoundTrip
<1>8. CASE field # << >> /\ Beyond /\ field[2] = ""
  <2>1. phase' = "found"
    BY <1>1, <1>8
  <2>2. field = << "time_stamp", "" >>
    BY <1>1, <1>3, <1>8, Skipping, DottedName
  <2>3. type = "Message"
    <3>1. type \notin {"StringArray", "Binary"}
      BY <1>1, <1>8, Skipping
    <3>2. type # "timespec"
      <4> SUFFICES ASSUME type = "timespec" PROVE FALSE
        OBVIOUS
      <4>1. PICK n \in 1 .. k - 1 : Path(type, n)[1] = field[1]
        BY <1>3, <1>8
      <4>2. n = 1 \/ n = 2
        <5>1. k - 1 \in 0 .. Count(type) /\ Count(type) = 2
          BY <1>1, Skipping, TimespecMembers
        <5> QED
          BY <4>1, <5>1, <1>2
      <4>3. Path(type, n)[1] = "tv_sec" \/ Path(type, n)[1] = "tv_nsec"
        BY <4>2, TimespecMembers, PathLength, Zenon
      <4>4. field[1] = "time_stamp"
        BY <2>2, PathLength
      <4> QED
        BY <4>1, <4>3, <4>4
    <3> QED
      BY <1>2, <3>1, <3>2, TypeNames
  <2>4. FilterAgrees'
    BY <1>1, <1>2, <1>6, <1>8, <2>1, <2>2, <2>3 DEF FilterAgrees
  <2> QED
    BY <1>4, <2>1, <2>4 DEF CodecInv, WriteInv, ReadInv, SkipInv, JoinInv, RoundTrip
<1>9. CASE field # << >> /\ ~(Beyond /\ field[2] = "")
  <2>1. phase' = "threw" /\ field \notin Found
    BY <1>1, <1>6, <1>9 DEF Found
  <2>2. FilterAgrees'
    BY <1>1, <1>2, <2>1 DEF FilterAgrees
  <2> QED
    BY <1>4, <2>1, <2>2 DEF CodecInv, WriteInv, ReadInv, SkipInv, JoinInv, RoundTrip
<1> QED
  BY <1>7, <1>8, <1>9

(***************************************************************************)
(* assign and compare.                                                     *)
(***************************************************************************)
LEMMA JoinStep ==
  ASSUME CodecInv, Join
  PROVE  CodecInv'
<1>1. /\ PhaseTyped /\ SampleTyped
      /\ phase = "idle" /\ phase' = "assign" /\ k' = 1 /\ type \in Joinable
      /\ UNCHANGED << aligned, type, sample, size, padding, stream, pos, field, copy >>
  BY DEF CodecInv, PhaseTyped, Join, Call, Joinable
<1>2. copy = Blank(type) /\ Shaped(type, Blank(type))
  BY <1>1, BlankShaped DEF CodecInv, WriteInv, Untouched, SampleTyped
<1>3. Assigns(type, sample, copy, 0)
  <2>1. 0 \in 0 .. Len(getFieldNames(type)) /\ 1 .. 0 = {}
    BY NamesAre
  <2> QED
    BY <1>2, <2>1 DEF Assigns
<1>4. Joined(k - 1)' /\ (type \in Joinable)'
  <2>1. (k - 1)' = 0
    BY <1>1
  <2> QED
    BY <1>1, <1>3, <2>1 DEF Joined, Joinable
<1>5. PhaseTyped'
  BY <1>1, SampleKept DEF PhaseTyped
<1>6. JoinInv'
  BY <1>1, <1>4 DEF JoinInv
<1> QED
  BY <1>1, <1>5, <1>6 DEF CodecInv, WriteInv, ReadInv, SkipInv, RoundTrip, FilterAgrees

LEMMA AssignStep ==
  ASSUME CodecInv, AssignField
  PROVE  CodecInv'
<1> DEFINE w == k - 1
           name == getFieldNames(type)[k]
           u == assign(copy, name, sample[name])
<1>1. /\ PhaseTyped /\ SampleTyped
      /\ phase = "assign" /\ phase' = "assign" /\ ~(k > Len(getFieldNames(type)))
      /\ copy' = u /\ k' = k + 1
      /\ UNCHANGED << aligned, type, sample, size, padding, stream, pos, field >>
  BY DEF CodecInv, PhaseTyped, AssignField, Assigned, getRawField
<1>2. /\ type \in Joinable /\ sample \in Samples(type)
      /\ Assigns(type, sample, copy, w) /\ k \in Nat \ {0}
  BY <1>1 DEF CodecInv, JoinInv, Joined, SampleTyped, PhaseTyped
<1> HIDE DEF u
<1>3. w \in Nat /\ w + 1 <= Len(getFieldNames(type)) /\ w + 1 = k /\ (k - 1)' = k
  BY <1>1, <1>2, NamesAre
<1> HIDE DEF w
<1>4. Assigns(type, sample, assign(copy, getFieldNames(type)[w + 1],
                                   sample[getFieldNames(type)[w + 1]]), w + 1)
  BY <1>2, <1>3, AssignOne
<1>5. Assigns(type, sample, u, k)
  BY <1>3, <1>4 DEF u
<1>6. Joined(k - 1)' /\ (type \in Joinable)'
  BY <1>1, <1>2, <1>3, <1>5 DEF Joined, Joinable
<1>7. PhaseTyped'
  BY <1>1, <1>2, SampleKept DEF PhaseTyped
<1>8. JoinInv'
  BY <1>1, <1>6 DEF JoinInv
<1> QED
  BY <1>1, <1>7, <1>8 DEF CodecInv, WriteInv, ReadInv, SkipInv, RoundTrip, FilterAgrees

LEMMA AssignedWhole ==
  ASSUME CodecInv, Assigned
  PROVE  copy = sample
<1>1. /\ type \in Joinable /\ sample \in Samples(type) /\ Assigns(type, sample, copy, k - 1)
      /\ k \in Nat /\ k > Len(getFieldNames(type))
  BY DEF CodecInv, PhaseTyped, JoinInv, Joined, SampleTyped, Assigned
<1>2. k - 1 = Len(getFieldNames(type))
  <2>1. k - 1 \in 0 .. Len(getFieldNames(type)) /\ Len(getFieldNames(type)) \in Nat
    BY <1>1, NamesAre DEF Assigns
  <2> QED
    BY <1>1, <2>1
<1> QED
  BY <1>1, <1>2, WholeJoin

LEMMA CompareStep ==
  ASSUME CodecInv, CompareField \/ OrderBy
  PROVE  CodecInv'
<1>1. /\ PhaseTyped /\ SampleTyped /\ Assigned /\ type # "StringArray"
      /\ UNCHANGED << aligned, type, sample, k, size, padding, stream, pos, copy >>
  BY DEF CodecInv, PhaseTyped, CompareField, OrderBy
<1>2. copy = sample /\ type \in {"Message", "timespec"}
  <2>1. type \in Joinable
    BY <1>1 DEF CodecInv, JoinInv, Assigned
  <2> QED
    BY <1>1, <2>1, AssignedWhole DEF Joinable
<1>3. phase' = "equal" \/ (phase' = "raised" /\ type = "Message" /\ field' = << "time_stamp" >>)
  <2>1. CASE CompareField
    <3>1. PICK n \in DOMAIN getFieldNames(type) :
            /\ field' = << getFieldNames(type)[n] >>
            /\ phase' = IF getFieldNames(type)[n] \in compareFields(type)
                        THEN Verdict(copy[getFieldNames(type)[n]] = sample[getFieldNames(type)[n]])
                        ELSE "raised"
      BY <2>1 DEF CompareField
    <3>2. n \in 1 .. Len(getFieldNames(type))
      BY <3>1, NamesAre
    <3> DEFINE name == getFieldNames(type)[n]
    <3>3. name \in compareFields(type) \/ (type = "Message" /\ name = "time_stamp")
      <4>1. CASE type = "Message"
        <5>1. n = 1 \/ n = 2 \/ n = 3 \/ n = 4
          BY <3>2, <4>1, NamesAre
        <5>2. name \in {"text", "count", "time_stamp", "subject"}
          BY <4>1, <5>1, NamesAre
        <5> QED
          BY <4>1, <5>2 DEF compareFields
      <4>2. CASE type = "timespec"
        <5>1. n = 1 \/ n = 2
          BY <3>2, <4>2, NamesAre
        <5>2. name \in {"tv_sec", "tv_nsec"}
          BY <4>2, <5>1, NamesAre
        <5> QED
          BY <4>2, <5>2 DEF compareFields
      <4> QED
        BY <1>2, <4>1, <4>2
    <3>4. Verdict(copy[name] = sample[name]) = "equal"
      BY <1>2 DEF Verdict
    <3> QED
      BY <3>1, <3>3, <3>4
  <2>2. CASE OrderBy
    <3>1. PICK path \in create_qc_comparator(type) :
            phase' = Verdict(getValue(copy, path) = getValue(sample, path))
      BY <2>2 DEF OrderBy
    <3> QED
      BY <1>2, <3>1 DEF Verdict
  <2> QED
    BY <2>1, <2>2
<1>4. PhaseTyped'
  BY <1>1, <1>3, SampleKept DEF PhaseTyped
<1>5. JoinInv'
  BY <1>1, <1>3 DEF JoinInv
<1> QED
  BY <1>3, <1>4, <1>5 DEF CodecInv, WriteInv, ReadInv, SkipInv, RoundTrip, FilterAgrees

-----------------------------------------------------------------------------
LEMMA CodecStep == CodecInv /\ [Next]_vars => CodecInv'
<1> SUFFICES ASSUME CodecInv, [Next]_vars PROVE CodecInv'
  OBVIOUS
<1>1. CASE Marshal \/ Allocate \/ Insert
  BY <1>1, MarshalStep
<1>2. CASE SizeMember
  BY <1>2, SizeStep
<1>3. CASE WriteMember \/ InsertMember
  BY <1>3, WriteStep
<1>4. CASE Take
  BY <1>4, TakeStep
<1>5. CASE ReadMember
  BY <1>5, ReadStep
<1>6. CASE Taken
  BY <1>6, TakenStep
<1>7. CASE \E f \in Asked : Ask(f)
  BY <1>7, AskStep
<1>8. CASE GetMember
  BY <1>8, GetStep
<1>9. CASE SkipMember
  BY <1>9, SkipStep
<1>10. CASE SkipEnds
  BY <1>10, SkipEndsStep
<1>11. CASE Join
  BY <1>11, JoinStep
<1>12. CASE AssignField
  BY <1>12, AssignStep
<1>13. CASE CompareField \/ OrderBy
  BY <1>13, CompareStep
<1>14. CASE UNCHANGED vars
  <2>1. UNCHANGED << phase, aligned, type, sample, k, size, padding, stream, pos, field, copy >>
    BY <1>14 DEF vars
  <2>2. /\ PhaseTyped' = PhaseTyped /\ Untouched' = Untouched
        /\ Written(k - 1)' = Written(k - 1) /\ Written(Count(type))' = Written(Count(type))
        /\ Capacity' = Capacity /\ EndAt(k - 1)' = EndAt(k - 1)
        /\ EndAt(Count(type))' = EndAt(Count(type))
    BY <2>1 DEF PhaseTyped, SampleTyped, Untouched, Written, Capacity, EndAt
  <2>3. /\ Copied(k - 1)' = Copied(k - 1) /\ Joined(k - 1)' = Joined(k - 1)
        /\ TooLong' = TooLong /\ Short' = Short /\ RoundTrip' = RoundTrip
        /\ FilterAgrees' = FilterAgrees
    BY <2>1 DEF Copied, Joined, TooLong, Short, RoundTrip, FilterAgrees, Found
  <2>4. WriteInv' = WriteInv /\ ReadInv' = ReadInv
    BY <2>1, <2>2, <2>3 DEF WriteInv, ReadInv
  <2>5. SkipInv' = SkipInv /\ JoinInv' = JoinInv
    BY <2>1, <2>2, <2>3 DEF SkipInv, JoinInv
  <2> QED
    BY <2>2, <2>4, <2>5 DEF CodecInv
<1> QED
  BY <1>1, <1>2, <1>3, <1>4, <1>5, <1>6, <1>7, <1>8, <1>9, <1>10, <1>11, <1>12, <1>13, <1>14
  DEF Next

(* The inductive invariant holds of every behaviour. *)
THEOREM Invariance == Spec => []CodecInv
<1>1. Init => CodecInv
  BY CodecInit
<1>2. CodecInv /\ [Next]_vars => CodecInv'
  BY CodecStep
<1> QED
  BY <1>1, <1>2, PTL DEF Spec

(***************************************************************************)
(* gen_find_size gives exactly the octets operator<< writes, for every     *)
(* sample, any number of slots and both encapsulations.                    *)
(***************************************************************************)
THEOREM SizeCorrect == Spec => []SizeExact
<1>1. CodecInv => SizeExact
  <2> SUFFICES ASSUME CodecInv PROVE SizeExact
    OBVIOUS
  <2>1. phase # "short"
    BY DEF CodecInv, PhaseTyped
  <2>2. ASSUME AtEnd("write") PROVE Len(stream) = Capacity
    <3>1. PhaseTyped /\ phase = "write" /\ k > Len(Members) /\ Written(k - 1)
          /\ Capacity = EndAt(Count(type))
      BY <2>2 DEF CodecInv, WriteInv, AtEnd
    <3>2. Written(Count(type))
      BY <3>1, WholeStream
    <3> QED
      BY <3>1, <3>2 DEF Written, Holds, EndAt
  <2> QED
    BY <2>1, <2>2 DEF SizeExact
<1> QED
  BY <1>1, Invariance, PTL

(***************************************************************************)
(* operator>> and the extraction operators give back what operator<< and   *)
(* the insertion operators wrote, and refuse it only when a contents is    *)
(* beyond its bound.                                                       *)
(***************************************************************************)
THEOREM RoundTripCorrect == Spec => []RoundTrip
<1>1. CodecInv => RoundTrip
  BY DEF CodecInv, ReadInv
<1> QED
  BY <1>1, Invariance, PTL

(***************************************************************************)
(* getValue and gen_skip_over on the octets of a sample agree with         *)
(* getValue on the sample, where every length fits 16 bits.                *)
(***************************************************************************)
THEOREM FilterCorrect == Spec => []FilterAgrees
<1>1. CodecInv => FilterAgrees
  BY DEF CodecInv, SkipInv
<1> QED
  BY <1>1, Invariance, PTL

(***************************************************************************)
(* A sample assigned over all the names of getFieldNames is whole and      *)
(* compares equal; compare raises only on time_stamp of a Message.         *)
(***************************************************************************)
THEOREM JoinCorrect == Spec => []JoinFaithful
<1>1. CodecInv => JoinFaithful
  <2> SUFFICES ASSUME CodecInv PROVE JoinFaithful
    OBVIOUS
  <2>1. Assigned => copy = sample
    BY AssignedWhole
  <2>2. phase # "differs"
    BY DEF CodecInv, PhaseTyped
  <2>3. phase = "raised" => type = "Message" /\ field = << "time_stamp" >>
    BY DEF CodecInv, JoinInv
  <2> QED
    BY <2>1, <2>2, <2>3 DEF JoinFaithful
<1> QED
  BY <1>1, Invariance, PTL
=============================================================================
