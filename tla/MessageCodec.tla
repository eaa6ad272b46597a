---------------------------- MODULE MessageCodec ----------------------------
(***************************************************************************)
(* The generated code between a sample and its octets: what a write() of   *)
(* either process runs to get the size of the buffer and to fill it, what  *)
(* take_next_sample runs to read it, and what the middleware runs to get   *)
(* at one field of a sample without reading it (getValue, for filters), to *)
(* copy and to compare it field by field (assign, compare, for joins).     *)
(*                                                                         *)
(* Each of these functions names the members in an order of its own, here  *)
(* a sequence; the phases go through them one member a step.  A member has *)
(* a path, << "time_stamp", "tv_sec" >> for time_stamp.tv_sec, and a kind, *)
(* which decides how the Serializer of OpenDDS (external) lays it out: an  *)
(* octet, a number of four octets, aligned to four when the encapsulation  *)
(* is CDR, or a number that tells how many octets follow.  Octets have     *)
(* Radix values, so that the 16 bits of ACE_UINT16 are two digits.         *)
(***************************************************************************)
EXTENDS Integers, Sequences

CONSTANTS
  Radix,        \* values of an octet (256)
  Aligned,      \* encapsulations: TRUE for CDR alignment, FALSE for none
  Slots,        \* names of the 100 slots of a StringArray, in order
  MaxOctets,    \* MAX_FILE_SIZE, the bound of BinaryContentsType (100000)
  Strings,      \* texts: sequences of octets other than 0
  Numbers,      \* values of a long, as the number its octets make
  Buffers       \* contents of a BinaryContentsType

ASSUME CodecAssumption ==
  /\ Radix \in Nat \ {0, 1}
  /\ Aligned \subseteq BOOLEAN /\ Aligned # {}
  /\ Slots \in Seq(STRING)
  /\ MaxOctets \in Nat
  /\ Strings \subseteq Seq(1 .. Radix - 1)
  /\ Numbers \subseteq 0 .. Radix * Radix * Radix * Radix - 1
  /\ Buffers \subseteq Seq(0 .. Radix - 1)

(* Lengths are those that a ULong, four octets, can hold. *)
ASSUME LengthAssumption ==
  \A s \in Strings \cup Buffers : Len(s) + 1 < Radix * Radix * Radix * Radix

VARIABLES
  phase,     \* "idle"; "size", "write", "insert", "read", "extract", "skip" or
             \* "assign", the function in progress; "taken", "refused", "short",
             \* "found", "threw", "equal", "differs" or "raised", what came of it
  aligned,   \* the encapsulation
  type,      \* of the sample
  sample,    \* the value to write
  k,         \* the member the function in progress is at
  size, padding,   \* what gen_find_size adds up
  stream,    \* octets written
  pos,       \* octets read or skipped
  field,     \* path asked of getValue, << >> in gen_skip_over
  copy       \* the sample read or assigned into, or what getValue returned

vars == << phase, aligned, type, sample, k, size, padding, stream, pos, field, copy >>

-----------------------------------------------------------------------------
(* The members of each type, in the order each function names them. *)

Member(name, kind) == [path |-> << name >>, kind |-> kind]

Within(name, members) ==
  [n \in DOMAIN members |-> [members[n] EXCEPT !.path = << name >> \o @]]

(* struct timespec. *)
Timespec == << Member("tv_sec", "long"), Member("tv_nsec", "long") >>

timespec_size    == Timespec
timespec_write   == Timespec
timespec_read    == Timespec
timespec_skip    == Timespec
timespec_insert  == Timespec
timespec_extract == Timespec

(* struct Message, with the function of timespec for its time_stamp. *)
MessageWith(stamp) ==
  << Member("text", "string"), Member("count", "long") >>
  \o Within("time_stamp", stamp) \o << Member("subject", "char") >>

(* Faulty variant: the stamp comes before the count. *)
MessageSwapped(stamp) ==
  << Member("text", "string") >> \o Within("time_stamp", stamp)
  \o << Member("count", "long"), Member("subject", "char") >>

Message_size    == MessageWith(timespec_size)
Message_write   == MessageWith(timespec_write)
Message_skip    == MessageWith(timespec_skip)
Message_insert  == MessageWith(timespec_insert)
Message_extract == MessageWith(timespec_extract)

(* Faulty variant of the reading order. *)
Message_readSwapped == MessageSwapped(timespec_read)

Message_read == MessageWith(timespec_read)

(* KeyOnly<Message>: without a key field, all that dispose() sends is nothing. *)
KeyOnly_size  == << >>
KeyOnly_write == << >>
KeyOnly_read  == << >>

(* StringArray, slot by slot. *)
Strings100 == [n \in DOMAIN Slots |-> Member(Slots[n], "string")]

StringArray_size    == Strings100
StringArray_write   == Strings100
StringArray_read    == Strings100
StringArray_skip    == Strings100
StringArray_insert  == Strings100
StringArray_extract == Strings100

(* BinaryContentsType. *)
Contents == << Member("contents", "octets") >>

Binary_size    == Contents
Binary_write   == Contents
Binary_read    == Contents
Binary_skip    == Contents
Binary_insert  == Contents
Binary_extract == Contents

Orders ==
  [Message     |-> [size |-> Message_size, write |-> Message_write, read |-> Message_read,
                    skip |-> Message_skip, insert |-> Message_insert, extract |-> Message_extract],
   KeyOnly     |-> [size |-> KeyOnly_size, write |-> KeyOnly_write, read |-> KeyOnly_read],
   timespec    |-> [size |-> timespec_size, write |-> timespec_write, read |-> timespec_read,
                    skip |-> timespec_skip, insert |-> timespec_insert,
                    extract |-> timespec_extract],
   StringArray |-> [size |-> StringArray_size, write |-> StringArray_write,
                    read |-> StringArray_read, skip |-> StringArray_skip,
                    insert |-> StringArray_insert, extract |-> StringArray_extract],
   Binary      |-> [size |-> Binary_size, write |-> Binary_write, read |-> Binary_read,
                    skip |-> Binary_skip, insert |-> Binary_insert, extract |-> Binary_extract]]

Types == DOMAIN Orders

Members == Orders[type][phase]
Current == Members[k]
AtMember(p) == phase = p /\ k <= Len(Members)
AtEnd(p)    == phase = p /\ k > Len(Members)

(* The paths getValue finds in a sample, and what it returns for them. *)
getValueFields(t) ==
  CASE t = "Message"  -> {<< "text" >>, << "count" >>, << "subject" >>,
                          << "time_stamp", "tv_sec" >>, << "time_stamp", "tv_nsec" >>}
    [] t = "timespec" -> {<< "tv_sec" >>, << "tv_nsec" >>}
    [] OTHER          -> {}

getValue(v, path) == IF Len(path) = 1 THEN v[path[1]] ELSE v[path[1]][path[2]]

With(v, path, x) ==
  IF Len(path) = 1 THEN [v EXCEPT ![path[1]] = x]
                   ELSE [v EXCEPT ![path[1]][path[2]] = x]

(* The fields of joins, and those that compare and the comparators know. *)
getFieldNames(t) ==
  CASE t = "Message"     -> << "text", "count", "time_stamp", "subject" >>
    [] t = "timespec"    -> << "tv_sec", "tv_nsec" >>
    [] t = "StringArray" -> Slots
    [] OTHER             -> << >>

getRawField(v, name) == v[name]

(* Faulty variant: the stamp is left out. *)
assignWithoutStamp(v, name, x) == IF name = "time_stamp" THEN v ELSE [v EXCEPT ![name] = x]

assign(v, name, x) == [v EXCEPT ![name] = x]

compareFields(t) ==
  IF t = "Message" THEN {"text", "count", "subject"} ELSE {"tv_sec", "tv_nsec"}

create_qc_comparator(t) == getValueFields(t)

-----------------------------------------------------------------------------
(* The Serializer (external). *)

Pad(n)    == (4 - (n % 4)) % 4
UShort    == Radix * Radix
Digits(v) == << v \div (UShort * Radix), (v \div UShort) % Radix,
                (v \div Radix) % Radix, v % Radix >>
Number(s) == ((s[1] * Radix + s[2]) * Radix + s[3]) * Radix + s[4]

(* Octets before a member that starts with a number. *)
Gap(kind, n) == IF aligned /\ kind # "char" THEN Pad(n) ELSE 0

Octets(kind, v) ==
  CASE kind = "string" -> Digits(Len(v) + 1) \o v \o << 0 >>
    [] kind = "octets" -> Digits(Len(v)) \o v
    [] kind = "long"   -> Digits(v)
    [] kind = "char"   -> << v >>

(* A member that starts at octet n of the stream: where its number starts, *)
(* whether that lies in the stream, and what the number is.                *)
Start(kind, n)  == n + Gap(kind, n)
HasNumber(kind) == Start(kind, pos) + 4 <= Len(stream)
NumberAt(kind)  == Number(SubSeq(stream, Start(kind, pos) + 1, Start(kind, pos) + 4))

Variable(kind) == kind \in {"string", "octets"}

(* The octet behind the member, as operator>> and as skip compute it. *)
EndOf(kind) ==
  CASE kind = "char" -> pos + 1
    [] kind = "long" -> Start(kind, pos) + 4
    [] OTHER         -> Start(kind, pos) + 4 + NumberAt(kind)

(* static_cast<ACE_UINT16> of a length. *)
Length16(n) == n % UShort

SkipTo(kind) ==
  IF Variable(kind) THEN Start(kind, pos) + 4 + Length16(NumberAt(kind)) ELSE EndOf(kind)

Read(kind) ==
  LET start == Start(kind, pos)
  IN  CASE kind = "char"   -> stream[pos + 1]
        [] kind = "long"   -> NumberAt(kind)
        [] kind = "string" -> SubSeq(stream, start + 5, EndOf(kind) - 1)
        [] kind = "octets" -> SubSeq(stream, start + 5, EndOf(kind))

Readable(kind) == (kind # "char" => HasNumber(kind)) /\ EndOf(kind) <= Len(stream)

-----------------------------------------------------------------------------
Samples(t) ==
  CASE t \in {"Message", "KeyOnly"} ->
         [text : Strings, count : Numbers, subject : 0 .. Radix - 1,
          time_stamp : [tv_sec : Numbers, tv_nsec : Numbers]]
    [] t = "timespec"    -> [tv_sec : Numbers, tv_nsec : Numbers]
    [] t = "StringArray" -> [{Slots[n] : n \in DOMAIN Slots} -> Strings]
    [] t = "Binary"      -> [contents : Buffers]

(* A default-constructed sample: empty strings, numbers not initialised. *)
Unset == -1
Blank(t) ==
  CASE t \in {"Message", "KeyOnly"} ->
         [text |-> << >>, count |-> Unset, subject |-> Unset,
          time_stamp |-> [tv_sec |-> Unset, tv_nsec |-> Unset]]
    [] t = "timespec"    -> [tv_sec |-> Unset, tv_nsec |-> Unset]
    [] t = "StringArray" -> [s \in {Slots[n] : n \in DOMAIN Slots} |-> << >>]
    [] t = "Binary"      -> [contents |-> << >>]

Init ==
  /\ phase = "idle" /\ aligned \in Aligned
  /\ type \in Types /\ sample \in Samples(type)
  /\ k = 1 /\ size = 0 /\ padding = 0 /\ stream = << >>
  /\ pos = 0 /\ field = << >> /\ copy = Blank(type)

(* A function of the type is called, and starts with its first member. *)
Call(from, p) == phase = from /\ phase' = p /\ k' = 1

(* write(): gen_find_size, the buffer, operator<<. *)
Marshal ==
  /\ Call("idle", "size")
  /\ UNCHANGED << aligned, type, sample, size, padding, stream, pos, field, copy >>

(* Faulty variant: the terminating 0 of a string is not counted. *)
PayloadWithout0(kind, v) == IF Variable(kind) THEN Len(v) ELSE 0

(* What a member adds to its number, or to nothing. *)
Payload(kind, v) == CASE kind = "string" -> Len(v) + 1 [] kind = "octets" -> Len(v) [] OTHER -> 0

SizeMember ==
  /\ AtMember("size")
  /\ LET m == Current
         v == getValue(sample, m.path)
     IN  IF m.kind = "char"
         THEN size' = size + 1 /\ UNCHANGED padding
         ELSE /\ padding' = padding + Pad(size + padding)
              /\ size' = size + 4 + Payload(m.kind, v)
  /\ k' = k + 1
  /\ UNCHANGED << phase, aligned, type, sample, stream, pos, field, copy >>

Allocate ==
  /\ AtEnd("size") /\ Call("size", "write")
  /\ UNCHANGED << aligned, type, sample, size, padding, stream, pos, field, copy >>

(* The octets of the buffer: padding is needed only for CDR. *)
Capacity == size + IF aligned THEN padding ELSE 0

Appended ==
  LET m == Current
  IN  stream \o [n \in 1 .. Gap(m.kind, Len(stream)) |-> 0]
             \o Octets(m.kind, getValue(sample, m.path))

(* operator<< fails when the buffer is too small. *)
WriteMember ==
  /\ AtMember("write")
  /\ IF Len(Appended) <= Capacity
     THEN stream' = Appended /\ k' = k + 1 /\ UNCHANGED phase
     ELSE phase' = "short" /\ UNCHANGED << stream, k >>
  /\ UNCHANGED << aligned, type, sample, size, padding, pos, field, copy >>

(* The insertion operators of TAO: CDR, into a stream that grows. *)
Insert ==
  /\ type # "KeyOnly" /\ aligned
  /\ Call("idle", "insert")
  /\ UNCHANGED << aligned, type, sample, size, padding, stream, pos, field, copy >>

InsertMember ==
  /\ AtMember("insert")
  /\ stream' = Appended /\ k' = k + 1
  /\ UNCHANGED << phase, aligned, type, sample, size, padding, pos, field, copy >>

(* operator>>, into a sample of the reader's. *)
Take ==
  /\ \/ AtEnd("write") /\ Call("write", "read")
     \/ AtEnd("insert") /\ Call("insert", "extract")
  /\ UNCHANGED << aligned, type, sample, size, padding, stream, pos, field, copy >>

(* Only a sequence has a bound; IDL strings here have none. *)
Bounded(kind) == kind = "octets" => NumberAt(kind) <= MaxOctets

ReadMember ==
  /\ AtMember("read") \/ AtMember("extract")
  /\ LET m == Current
     IN  IF Readable(m.kind) /\ Bounded(m.kind)
         THEN /\ copy' = With(copy, m.path, Read(m.kind))
              /\ pos' = EndOf(m.kind) /\ k' = k + 1
              /\ UNCHANGED phase
         ELSE phase' = "refused" /\ UNCHANGED << copy, pos, k >>
  /\ UNCHANGED << aligned, type, sample, size, padding, stream, field >>

Taken ==
  /\ AtEnd("read") \/ AtEnd("extract")
  /\ phase' = "taken"
  /\ UNCHANGED << aligned, type, sample, k, size, padding, stream, pos, field, copy >>

-----------------------------------------------------------------------------
(* getValue on a stream, and gen_skip_over, which is getValue of "". *)

Asked == getValueFields("Message") \cup getValueFields("timespec")
           \cup {<< >>, << "time_stamp" >>, << "time_stamp", "" >>, << "time_stamp", "other" >>}

Ask(f) ==
  /\ AtEnd("write") /\ type # "KeyOnly"
  /\ type \in {"StringArray", "Binary"} => f = << >>
  /\ Call("write", "skip")
  /\ field' = f
  /\ UNCHANGED << aligned, type, sample, size, padding, stream, pos, copy >>

(* A name that begins with "time_stamp." is left to the getValue of timespec, *)
(* which does not go on to the members behind it.                             *)
Beyond ==
  /\ Len(field) = 2
  /\ \E n \in 1 .. k - 1 : Members[n].path[1] = field[1]
  /\ \A n \in k .. Len(Members) : Members[n].path[1] # field[1]

(* The member asked for is read and returned, any other one is skipped. *)
GetMember ==
  /\ AtMember("skip") /\ Current.path = field
  /\ IF Readable(Current.kind)
     THEN phase' = "found" /\ copy' = Read(Current.kind)
     ELSE phase' = "threw" /\ UNCHANGED copy
  /\ UNCHANGED << aligned, type, sample, k, size, padding, stream, pos, field >>

Skips(kind) == (Variable(kind) => HasNumber(kind)) /\ SkipTo(kind) <= Len(stream)

SkipMember ==
  /\ AtMember("skip") /\ Current.path # field /\ ~Beyond
  /\ LET kind == Current.kind
     IN  IF Skips(kind)
         THEN pos' = SkipTo(kind) /\ k' = k + 1 /\ UNCHANGED phase
         ELSE phase' = "threw" /\ UNCHANGED << pos, k >>
  /\ UNCHANGED << aligned, type, sample, size, padding, stream, field, copy >>

(* Behind the last member only the empty name is right, which is also what is *)
(* left of "time_stamp.".                                                      *)
SkipEnds ==
  /\ AtEnd("skip") \/ (AtMember("skip") /\ Beyond)
  /\ phase' = IF field = << >> \/ (Beyond /\ field[2] = "") THEN "found" ELSE "threw"
  /\ UNCHANGED << aligned, type, sample, k, size, padding, stream, pos, field, copy >>

-----------------------------------------------------------------------------
(* assign, field by field, and compare; StringArray_copy, slot by slot. *)
Join ==
  /\ type \in {"Message", "timespec", "StringArray"}
  /\ Call("idle", "assign")
  /\ UNCHANGED << aligned, type, sample, size, padding, stream, pos, field, copy >>

Assigned == phase = "assign" /\ k > Len(getFieldNames(type))

AssignField ==
  /\ phase = "assign" /\ ~Assigned
  /\ LET name == getFieldNames(type)[k]
     IN  copy' = assign(copy, name, getRawField(sample, name))
  /\ k' = k + 1
  /\ UNCHANGED << phase, aligned, type, sample, size, padding, stream, pos, field >>

Verdict(same) == IF same THEN "equal" ELSE "differs"

CompareField ==
  /\ Assigned /\ type # "StringArray"
  /\ \E n \in DOMAIN getFieldNames(type) :
       LET name == getFieldNames(type)[n]
       IN  /\ field' = << name >>
           /\ phase' = IF name \in compareFields(type)
                       THEN Verdict(copy[name] = sample[name]) ELSE "raised"
  /\ UNCHANGED << aligned, type, sample, k, size, padding, stream, pos, copy >>

(* A query's comparator, which goes into time_stamp. *)
OrderBy ==
  /\ Assigned /\ type # "StringArray"
  /\ \E path \in create_qc_comparator(type) :
       /\ field' = path
       /\ phase' = Verdict(getValue(copy, path) = getValue(sample, path))
  /\ UNCHANGED << aligned, type, sample, k, size, padding, stream, pos, copy >>

-----------------------------------------------------------------------------
Next ==
  \/ Marshal \/ SizeMember \/ Allocate \/ WriteMember
  \/ Insert \/ InsertMember
  \/ Take \/ ReadMember \/ Taken
  \/ \E f \in Asked : Ask(f)
  \/ GetMember \/ SkipMember \/ SkipEnds
  \/ Join \/ AssignField \/ CompareField \/ OrderBy

Spec == Init /\ [][Next]_vars

-----------------------------------------------------------------------------
(***************************************************************************)
(* gen_find_size is what operator<< needs, with and without alignment:     *)
(* the buffer is never too small, and no octet of it is left over.         *)
(***************************************************************************)
SizeExact ==
  /\ phase # "short"
  /\ AtEnd("write") => Len(stream) = Capacity

(***************************************************************************)
(* What a reader takes is what was written, member by member, whichever    *)
(* of the two encodings it went through; a key-only sample leaves the      *)
(* reader's as it was.  A contents beyond its bound, which the constructor *)
(* from a buffer does not check, is written and then refused.              *)
(***************************************************************************)
TooLong == type = "Binary" /\ Len(sample.contents) > MaxOctets

RoundTrip ==
  /\ phase = "taken" => ~TooLong /\ copy = IF type = "KeyOnly" THEN Blank(type) ELSE sample
  /\ phase = "refused" => TooLong

(* The lengths that precede octets all fit 16 bits. *)
Short ==
  \A n \in DOMAIN Orders[type].write :
    LET m == Orders[type].write[n]
    IN  Variable(m.kind) => Payload(m.kind, getValue(sample, m.path)) < UShort

(***************************************************************************)
(* getValue finds the same in the octets of a sample as in the sample, for *)
(* every field, and gen_skip_over ends behind the sample, as long as no    *)
(* length needs more than 16 bits: the skipped length is cut to those, and *)
(* what is read behind a longer text is anything.  (The first member needs *)
(* no skip, and is always right.)  A name the sample does not have is      *)
(* refused, but for "time_stamp.", which a sample refuses and octets do not.*)
(***************************************************************************)
Found == getValueFields(type) \cup {<< >>}

FilterAgrees ==
  /\ phase = "found" => field \in Found \/ (type = "Message" /\ field = << "time_stamp", "" >>)
  /\ phase = "threw" => ~Short \/ field \notin Found
  /\ (phase = "found" /\ field = << >> /\ Short) => pos = Len(stream)
  /\ (phase = "found" /\ field \in getValueFields(type) /\ (Short \/ k = 1))
       => copy = getValue(sample, field)

(***************************************************************************)
(* A sample assigned field by field, over the names getFieldNames gives,   *)
(* is whole, and compares equal in each field; but compare has no case for *)
(* time_stamp, which getFieldNames gives too, and throws.                  *)
(***************************************************************************)
JoinFaithful ==
  /\ Assigned => copy = sample
  /\ phase # "differs"
  /\ phase = "raised" => type = "Message" /\ field = << "time_stamp" >>
=============================================================================
