----------------------------- MODULE NetlinkAttr -----------------------------
(***************************************************************************)
(* The attributes of a netlink message (tinyln_rs/src/attr.rs): a caller   *)
(* puts attributes and opens and closes nests, as RtnlLink::add_vlan does, *)
(* into a message that may be full, and the receiver walks the result.     *)
(*                                                                         *)
(* A cell is two bytes: an attribute is its length, its type, its payload  *)
(* and padding to an even number of cells.  nla_put and nla_ok are         *)
(* libnl-tiny's.                                                           *)
(***************************************************************************)
EXTENDS Integers, Sequences, SequencesExt

CONSTANTS
  Types,   \* attribute types
  Data,    \* payloads
  Room,    \* nm_size: cells of attributes the message has room for
  Nested,  \* NLA_F_NESTED
  LenMod   \* number of lengths nla_len, a u16, can hold

ASSUME NetlinkAssumption ==
  /\ Room \in Nat /\ Nested \in Nat /\ Types \subseteq 0 .. Nested - 1
  /\ \A d \in Data : d \in Seq(Nat)
  /\ LenMod \in Nat /\ Room < LenMod  \* a message is a page

VARIABLES
  buf,     \* the message behind its header
  nests,   \* offsets of the open nests, innermost last
  lists,   \* what has been put: the list at the top, then one per open nest
  refused  \* a put found no room

netlinkVars == <<buf, nests, lists, refused>>

HdrLen == 2

\* nla_align, nlmsg_align
Align(n) == n + (n % 2)

\* nla_put, external: the attribute goes to the aligned end, or nothing does.
NlaFits(d) == Align(Len(buf)) + Align(HdrLen + Len(d)) <= Room
NlaPut(type, d) ==
  buf \o <<HdrLen + Len(d), type>> \o d \o [i \in 1 .. (Len(d) % 2) |-> 0]

NetlinkInit == buf = <<>> /\ nests = <<>> /\ lists = << <<>> >> /\ refused = FALSE

Attr(type, d) == [type |-> type, data |-> d, nest |-> <<>>]

\* The attribute joins the innermost list.
Joins(ls, a) == [ls EXCEPT ![Len(ls)] = Append(@, a)]

\* put and its typed forms.  add_vlan does not look at the result.
Put ==
  \E t \in Types, d \in Data :
    /\ IF NlaFits(d)
       THEN buf' = NlaPut(t, d) /\ lists' = Joins(lists, Attr(t, d)) /\ UNCHANGED refused
       ELSE refused' = TRUE /\ UNCHANGED <<buf, lists>>
    /\ UNCHANGED nests

\* put_string of a string with a NUL inside: an error before nla_put.
PutStringWithNul == refused' = TRUE /\ UNCHANGED <<buf, nests, lists>>

\* Where the nest's header will be, relative to the message, which may move.
NestOffset == Align(Len(buf))

\* nest_start
NestStart ==
  \E t \in Types :
    IF NlaFits(<<>>)
    THEN /\ nests' = Append(nests, NestOffset)
         /\ buf' = NlaPut(t + Nested, <<>>)
         /\ lists' = Append(lists, <<>>)
         /\ UNCHANGED refused
    ELSE refused' = TRUE /\ UNCHANGED <<buf, nests, lists>>

\* nest_end of the innermost nest: its length, cut to a u16, reaches to the end so far.
NestEnd ==
  /\ nests # <<>>
  /\ LET start == Last(nests)
         outer == Front(lists)
         own == [type |-> buf[start + 2], data |-> <<>>, nest |-> Last(lists)]
     IN /\ buf' = [buf EXCEPT ![start + 1] = (Align(Len(buf)) - start) % LenMod]
        /\ lists' = Joins(outer, own)
  /\ nests' = Front(nests)
  /\ UNCHANGED refused

NetlinkNext == Put \/ PutStringWithNul \/ NestStart \/ NestEnd

NetlinkSpec == NetlinkInit /\ [][NetlinkNext]_netlinkVars

-----------------------------------------------------------------------------
(* The receiver *)

\* NlaIter::next moves by the aligned length, if nla_ok.
NlaOk(s) == Len(s) >= HdrLen /\ s[1] >= HdrLen /\ s[1] <= Len(s)

\* Mutant of Skip: the padding is not skipped.
SkipUnaligned(s) == SubSeq(s, s[1] + 1, Len(s))
Skip(s) == SubSeq(s, Align(s[1]) + 1, Len(s))

\* data_ptr and payload_len
Payload(s) == SubSeq(s, HdrLen + 1, s[1])

Message == {s \in Seq(Nat) : Len(s) <= Room}

\* The tree of attributes the iterator visits.
Visit[s \in Message] ==
  IF ~NlaOk(s) THEN <<>>
  ELSE LET nested == s[2] >= Nested
       IN << [type |-> s[2],
              data |-> IF nested THEN <<>> ELSE Payload(s),
              nest |-> IF nested THEN Visit[Payload(s)] ELSE <<>>] >> \o Visit[Skip(s)]

-----------------------------------------------------------------------------
(* Property *)

\* When every nest is closed, a receiver that iterates over the message, and
\* over every nest in it, visits exactly what was put, each attribute in its
\* nest with its payload: also after puts that found no room.
ReadsWhatWasPut == nests = <<>> => Visit[buf] = lists[1]
=============================================================================
