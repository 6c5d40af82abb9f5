-------------------------------- MODULE Ttlv --------------------------------
(***************************************************************************)
(* Messages on the wire: tag, type, length and value (src/proto.c), and    *)
(* how msg_send() and msg_recv() (src/common.c) put them into the byte     *)
(* stream of a socket.  A ttlv_t is a record [tag, type, v]: v is a number *)
(* for INT, BOOL and LONG, the bytes of TEXT and RAW, and the list of      *)
(* children of a STRUCT.  head->next is the next element of a list.        *)
(***************************************************************************)
EXTENDS Integers, Sequences, SequencesExt

CONSTANTS
    MaxMsg,     \* PASS_MAX_MSG
    Magic       \* PASS_MAGIC

INT == 1
LONG == 2
BOOL == 3
TEXT == 4
RAW == 5
STRUCT == 6

TAG_HDR_SIZE == 8

ROUND8(n) == 8 * ((n + 7) \div 8)

Zeros(n) == [k \in 1 .. n |-> 0]

-----------------------------------------------------------------------------
(* ttlv_new_*() and the lists *)

ttlv_new_int(tag, n) == [tag |-> tag, type |-> INT, v |-> n]
ttlv_new_bool(tag, b) == [tag |-> tag, type |-> BOOL, v |-> IF b THEN 1 ELSE 0]
ttlv_new_text(tag, s) == [tag |-> tag, type |-> TEXT, v |-> s]
ttlv_new_raw(tag, s) == [tag |-> tag, type |-> RAW, v |-> s]
ttlv_new_struct(tag) == [tag |-> tag, type |-> STRUCT, v |-> <<>>]

ttlv_append_child(m, child) == [m EXCEPT !.v = Append(@, child)]

\* The first child with the tag.  The code tests the result against NULL.
HasChild(m, tag) == \E i \in DOMAIN m.v : m.v[i].tag = tag
ttlv_find_child(m, tag) ==
    m.v[CHOOSE i \in DOMAIN m.v :
           m.v[i].tag = tag /\ \A j \in 1 .. (i - 1) : m.v[j].tag # tag]

\* ttlv_t.length
Length(m) == CASE m.type \in {INT, BOOL} -> 4
               [] m.type = LONG -> 8
               [] m.type \in {TEXT, RAW} -> Len(m.v)
               [] m.type = STRUCT -> 0

-----------------------------------------------------------------------------
(* Numbers in network byte order, negative ones as two's complement. *)

Bytes4(n) == <<(n \div 16777216) % 256, (n \div 65536) % 256, (n \div 256) % 256, n % 256>>


net_put32(n) ==
    IF n >= 0 THEN Bytes4(n)
    ELSE LET c == Bytes4(- (n + 1)) IN [k \in 1 .. 4 |-> 255 - c[k]]

Number(b) == 16777216 * b[1] + 65536 * b[2] + 256 * b[3] + b[4]

net_get32(b) ==
    IF b[1] < 128 THEN Number(b)
    ELSE -1 - Number([k \in 1 .. 4 |-> 255 - b[k]])

Sign(n) == IF n < 0 THEN <<255, 255, 255, 255>> ELSE <<0, 0, 0, 0>>

-----------------------------------------------------------------------------
(* Encoding *)

RECURSIVE ttlv_calc_size(_)
ttlv_calc_size(list) ==
    IF list = <<>> THEN 0
    ELSE LET p == Head(list)
         IN  (IF p.type # STRUCT THEN TAG_HDR_SIZE + ROUND8(Length(p))
              ELSE TAG_HDR_SIZE + ttlv_calc_size(p.v)) + ttlv_calc_size(Tail(list))

\* The value, padded to a multiple of 8 bytes.
ttlv_value_hton(p) ==
    CASE p.type \in {INT, BOOL} -> net_put32(p.v) \o Zeros(4)
      [] p.type = LONG -> Sign(p.v) \o net_put32(p.v)
      [] p.type \in {TEXT, RAW} -> p.v \o Zeros(ROUND8(Len(p.v)) - Len(p.v))

RECURSIVE ttlv_encode(_)
ttlv_encode(list) ==
    IF list = <<>> THEN <<>>
    ELSE LET p == Head(list)
             value == IF p.type = STRUCT THEN ttlv_encode(p.v) ELSE ttlv_value_hton(p)
             length == IF p.type = STRUCT THEN Len(value) ELSE Length(p)
         IN  net_put32(256 * p.tag + p.type) \o net_put32(length) \o value
             \o ttlv_encode(Tail(list))

-----------------------------------------------------------------------------
(* Decoding.  ok is FALSE when the code returns -1.                        *)

List(l) == [ok |-> TRUE, list |-> l]
NoList == [ok |-> FALSE, list |-> <<>>]

\* The types are checked against tagtype, not against type: no length of a tag
\* greater than 0 is ever refused.
ttlv_valid_len(tagtype, length) ==
    CASE tagtype = STRUCT -> length % 8 = 0
      [] tagtype \in {INT, BOOL} -> length = 4
      [] tagtype = LONG -> length = 8
      [] OTHER -> TRUE

\* The bytes the value of a type and length takes in the buffer.
ValueSize(type, length) ==
    CASE type = STRUCT -> length
      [] type \in {INT, BOOL, LONG} -> 8
      [] type \in {TEXT, RAW} -> ROUND8(length)

ttlv_value_ntoh(type, length, b) ==
    CASE type \in {INT, BOOL} -> net_get32(b)
      [] type = LONG -> net_get32(SubSeq(b, 5, 8))
      [] type \in {TEXT, RAW} -> SubSeq(b, 1, length)

RECURSIVE ttlv_decode(_)
ttlv_decode(buf) ==
    IF buf = <<>> THEN List(<<>>)
    ELSE IF Len(buf) < TAG_HDR_SIZE THEN NoList
    ELSE LET tagtype == net_get32(buf)
             type == tagtype % 256
             length == net_get32(SubSeq(buf, 5, 8))
             left == SubSeq(buf, TAG_HDR_SIZE + 1, Len(buf))
             New(v) == [tag |-> tagtype \div 256, type |-> type, v |-> v]
             next == ttlv_decode(SubSeq(left, ValueSize(type, length) + 1, Len(left)))
             children == ttlv_decode(SubSeq(left, 1, length))
         IN  IF \/ type \notin INT .. STRUCT
                \/ ~ ttlv_valid_len(tagtype, length)
                \/ length > Len(left)
                \/ ValueSize(type, length) > Len(left)
             THEN NoList
             ELSE IF type # STRUCT
             THEN IF next.ok THEN List(<<New(ttlv_value_ntoh(type, length, left))>> \o next.list)
                  ELSE NoList
             ELSE IF children.ok /\ next.ok THEN List(<<New(children.list)>> \o next.list)
             ELSE NoList

-----------------------------------------------------------------------------
(* The byte stream *)

msg_send_TooLarge(m) == ttlv_calc_size(<<m>>) > MaxMsg

\* msg_send() refuses a message whose encoding has not the computed size.
msg_send_Fits(m) == Len(ttlv_encode(<<m>>)) = ttlv_calc_size(<<m>>)

\* What msg_send() writes.
Frame(m) == net_put32(Magic) \o ttlv_encode(<<m>>)

\* The length of the value, as the header says.
TagLen(stream) == ROUND8(net_get32(SubSeq(stream, 9, 12)))

\* Fault: what readn() could not read is taken for 0.
ReadBody_Short(stream) ==
    SubSeq(stream \o Zeros(TagLen(stream)), 5, 4 + TAG_HDR_SIZE + TagLen(stream))

\* readn(): less than asked for when the stream ends or read() fails.
ReadBody(stream) == SubSeq(stream, 5, Min({4 + TAG_HDR_SIZE + TagLen(stream), Len(stream)}))

\* msg_recv(): the message at the start of the stream, and what is left.  `buf'
\* is its static buffer, with what the messages before have left there.  At the
\* end of the stream read() returns 0, or -1 when the peer died with data unread
\* (`reset', ECONNRESET).  A value cut short is refused in the first case; in the
\* second readn() returns -1, which is not less than the uint32_t taglen, and the
\* buffer is decoded with old bytes where new ones are missing.
Recv(stream, reset, buf) ==
    LET fails == [ok |-> FALSE]
    IN  IF Len(stream) < 4 THEN fails
        ELSE IF net_get32(stream) # Magic \/ Len(stream) < 4 + TAG_HDR_SIZE THEN fails
        ELSE IF TagLen(stream) + TAG_HDR_SIZE > MaxMsg THEN fails
        ELSE IF Len(ReadBody(stream)) < TAG_HDR_SIZE + TagLen(stream) /\ ~ reset THEN fails
        ELSE LET size == TAG_HDR_SIZE + TagLen(stream)
                 body == ReadBody(stream)
                 whole == body \o SubSeq(buf, Len(body) + 1, size)
                 got == ttlv_decode(whole)
             IN  IF ~ got.ok THEN fails
                 ELSE [ok |-> TRUE, msg |-> Head(got.list),
                       buf |-> whole \o SubSeq(buf, size + 1, Len(buf)),
                       rest |-> SubSeq(stream, 4 + size + 1, Len(stream))]

=============================================================================
