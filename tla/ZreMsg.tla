------------------------------- MODULE ZreMsg -------------------------------
(***************************************************************************)
(* The codec of the ZRE protocol, src/src/zre_msg.c, and one link it is    *)
(* used on: a DEALER that sends (zyre_peer.c) and the ROUTER of the inbox  *)
(* that receives (zyre_node.c), which also hears strangers.                *)
(*                                                                         *)
(* Octets are numbers below Base (256), C strings sequences of octets      *)
(* other than 0, frames sequences of octets, multiparts sequences of       *)
(* frames.  The buffers of the struct hold Base - 1 octets.                *)
(***************************************************************************)
EXTENDS Naturals, Sequences, FiniteSets

CONSTANTS
    Digit,      \* radix of a hexadecimal digit: 16
    Signature,  \* 0xAAA1
    Null,       \* NULL
    Abort,      \* the end of the process in an assert
    Slash,      \* '/'
    Word,       \* a text of odd length that is no number
    Junk,       \* two characters that are no hexadecimal pair and no number
    Broken,     \* pairs that zmsg_decode does not take, and no number
    Blank,      \* the empty text where a number belongs
    Text,       \* arguments of the string setters, and header values
    Number,     \* arguments of the number setters
    GroupList,  \* arguments of zre_msg_set_groups
    HeaderHash, \* arguments of zre_msg_set_headers
    Content,    \* arguments of zre_msg_set_content
    RoutingId,  \* what the ROUTER calls the senders
    Stray,      \* multiparts of strangers
    Garbage,    \* octets that memory nobody wrote may hold
    Budget      \* bound: how often each kind of step happens

Base == Digit * Digit
Octet == 0 .. Base - 1
CString == Seq(1 .. Base - 1)
Buffer == {s \in CString : Len(s) < Base}
Frame == Seq(Octet)
BudgetKinds == {"set", "take", "send", "stray", "copy", "test"}

\* A zhash as the pairs it is iterated in.
Header == CString \X CString
HashOf(pairs) == \A i, j \in DOMAIN pairs : pairs[i][1] = pairs[j][1] => i = j

ASSUME RadixAssumption == Digit \in Nat /\ Digit >= 4

ASSUME InputAssumption ==
    /\ Signature \in 0 .. Base * Base - 1 /\ Slash \in 1 .. Base - 1
    /\ Null \notin Frame \cup Seq(Frame) \cup Seq(Header) \cup Seq(CString)
    /\ Text \subseteq CString /\ Number \subseteq Nat
    /\ GroupList \subseteq Seq(CString) /\ HeaderHash \subseteq Seq(Header)
    /\ \A h \in HeaderHash : HashOf(h)
    /\ Content \subseteq Seq(Frame) /\ RoutingId \subseteq Frame
    /\ RoutingId # {}
    /\ Stray \subseteq Seq(Frame) \ {<<>>}
    /\ Garbage \subseteq Octet /\ Garbage # {}

ASSUME BudgetAssumption == Budget \in [BudgetKinds -> Nat]

VARIABLES
    msg,        \* the sender's zre_msg_t
    wire,       \* frames under way, the first multipart perhaps read in part
    got,        \* the receiver's zre_msg_t
    last,       \* the last zre_msg_recv: what it returned and what was sent
    heard,      \* messages of the sender received so far
    budget      \* what is left of Budget

vars == <<msg, wire, got, last, heard, budget>>

-----------------------------------------------------------------------------
(***************************************************************************)
(* The object and its accessors.                                           *)
(***************************************************************************)
HELLO == 1
WHISPER == 2
SHOUT == 3
JOIN == 4
LEAVE == 5
PING == 6
PING_OK == 7
ELECT == 8
LEADER == 9
GOODBYE == 10
Ids == HELLO .. GOODBYE

\* The messages without lists or content.
Control == {JOIN, LEAVE, PING, PING_OK, ELECT, LEADER, GOODBYE}

\* struct _zre_msg_t; the needle and the ceiling live in a cursor below.
Msg == [routingId: Frame \cup {Null}, id: Octet, sequence: 0 .. Base * Base - 1,
        endpoint: Buffer, groups: Seq(CString) \cup {Null}, status: Octet,
        name: Buffer, headers: Seq(Header) \cup {Null}, headersBytes: Nat,
        content: Seq(Frame) \cup {Null}, group: Buffer,
        challenger: Buffer, leader: Buffer]

New == [routingId |-> Null, id |-> 0, sequence |-> 0,
        endpoint |-> <<>>, groups |-> Null, status |-> 0,
        name |-> <<>>, headers |-> Null, headersBytes |-> 0,
        content |-> Null, group |-> <<>>,
        challenger |-> <<>>, leader |-> <<>>]

\* strncpy (buffer, s, 255); buffer [255] = 0
Cut(s) == SubSeq(s, 1, IF Len(s) < Base THEN Len(s) ELSE Base - 1)

SetRoutingId(m, frame) == [m EXCEPT !.routingId = frame]
SetId(m, n) == [m EXCEPT !.id = n]
SetSequence(m, n) == [m EXCEPT !.sequence = n % (Base * Base)]
SetEndpoint(m, s) == [m EXCEPT !.endpoint = Cut(s)]
SetGroups(m, list) == [m EXCEPT !.groups = list]
SetStatus(m, n) == [m EXCEPT !.status = n % Base]
SetName(m, s) == [m EXCEPT !.name = Cut(s)]
SetHeaders(m, hash) == [m EXCEPT !.headers = hash]
SetContent(m, frames) == [m EXCEPT !.content = frames]
\* Variant: the buffer's end is forgotten.
SetGroup_Uncut(m, s) == [m EXCEPT !.group = s]
SetGroup(m, s) == [m EXCEPT !.group = Cut(s)]
SetChallenger(m, s) == [m EXCEPT !.challenger = Cut(s)]
SetLeader(m, s) == [m EXCEPT !.leader = Cut(s)]

\* zre_msg_dup: everything but headers_bytes, which the copy starts anew.
Dup(m) == [m EXCEPT !.headersBytes = 0]

-----------------------------------------------------------------------------
(***************************************************************************)
(* zre_msg_send: the size is summed up first, the octets are put after it. *)
(***************************************************************************)
PutNumber1(n) == <<n % Base>>
PutNumber2(n) == <<(n \div Base) % Base, n % Base>>
PutNumber4(n) == PutNumber2(n \div (Base * Base)) \o PutNumber2(n)
PutString(s) == PutNumber1(Len(s)) \o s
PutLongstr(s) == PutNumber4(Len(s)) \o s

\* The items of a list or hash, each as Put puts it.
PutAll(Put(_), items) ==
    LET put[k \in 0 .. Len(items)] ==
            IF k = 0 THEN <<>> ELSE put[k - 1] \o Put(items[k])
    IN  PutNumber4(Len(items)) \o put[Len(items)]
PutHeader(header) == PutString(header[1]) \o PutLongstr(header[2])

Items(listOrNull) == IF listOrNull = Null THEN <<>> ELSE listOrNull

SumOf(Size(_), items) ==
    LET sum[k \in 0 .. Len(items)] ==
            IF k = 0 THEN 0 ELSE sum[k - 1] + Size(items[k])
    IN  sum[Len(items)]

\* headers_bytes is counted anew only when there are headers.
HeadersBytes(m) ==
    IF m.headers = Null THEN m.headersBytes
    ELSE SumOf(LAMBDA h : 1 + Len(h[1]) + 4 + Len(h[2]), m.headers)

\* Variant: the status is put but not counted.
FlatSize_NoStatus(m) ==
    CASE m.id \in {JOIN, LEAVE, SHOUT} -> 1 + Len(m.group)
      [] m.id = ELECT -> 1 + Len(m.group) + 1 + Len(m.challenger)
      [] m.id = LEADER -> 1 + Len(m.group) + 1 + Len(m.leader)
      [] OTHER -> 0

FlatSize(m) ==
    CASE m.id \in {JOIN, LEAVE} -> 1 + Len(m.group) + 1
      [] m.id = SHOUT -> 1 + Len(m.group)
      [] m.id = ELECT -> 1 + Len(m.group) + 1 + Len(m.challenger)
      [] m.id = LEADER -> 1 + Len(m.group) + 1 + Len(m.leader)
      [] OTHER -> 0

HelloSize(m) ==
    1 + Len(m.endpoint) + 4 + SumOf(LAMBDA s : 4 + Len(s), Items(m.groups))
    + 1 + 1 + Len(m.name) + 4 + HeadersBytes(m)

FrameSize(m) ==
    2 + 1 + (IF m.id \in Ids THEN 1 + 2 ELSE 0)
    + (IF m.id = HELLO THEN HelloSize(m) ELSE FlatSize(m))

PutHello(m) ==
    PutString(m.endpoint) \o PutAll(PutLongstr, Items(m.groups))
    \o PutNumber1(m.status) \o PutString(m.name)
    \o PutAll(PutHeader, Items(m.headers))

PutFlat(m) ==
    CASE m.id \in {JOIN, LEAVE} -> PutString(m.group) \o PutNumber1(m.status)
      [] m.id = SHOUT -> PutString(m.group)
      [] m.id = ELECT -> PutString(m.group) \o PutString(m.challenger)
      [] m.id = LEADER -> PutString(m.group) \o PutString(m.leader)
      [] OTHER -> <<>>

Body(m) ==
    PutNumber2(Signature) \o PutNumber1(m.id)
    \o IF m.id \in Ids
       THEN PutNumber1(2) \o PutNumber2(m.sequence)
            \o IF m.id = HELLO THEN PutHello(m) ELSE PutFlat(m)
       ELSE <<>>

\* What is left of the frame behind the last octet put.
Padding(m, octet) ==
    IF FrameSize(m) <= Len(Body(m)) THEN <<>>
    ELSE [i \in 1 .. FrameSize(m) - Len(Body(m)) |-> octet]

\* zre_msg_encode: the first frame alone.
Encode(m, octet) == Body(m) \o Padding(m, octet)

\* Variant: content that is NULL is left out.
ContentFrames_None(m) ==
    IF m.id \notin {WHISPER, SHOUT} \/ m.content = Null THEN <<>> ELSE m.content

\* Content that is NULL goes out as one empty frame.
ContentFrames(m) ==
    IF m.id \notin {WHISPER, SHOUT} THEN <<>>
    ELSE IF m.content = Null THEN << <<>> >> ELSE m.content

Multipart(m, octet) == <<Encode(m, octet)>> \o ContentFrames(m)

-----------------------------------------------------------------------------
(***************************************************************************)
(* zre_msg_recv.  A cursor is the object that is filled, the octets from   *)
(* the needle to the ceiling, and whether "goto malformed" was taken, with *)
(* the rc of that moment.                                                  *)
(***************************************************************************)
Cursor == [m: Msg, rest: Frame, ok: BOOLEAN, rc: {0, 2}]

At(m, rest) == [m |-> m, rest |-> rest, ok |-> TRUE, rc |-> 0]
Drop(s, n) == SubSeq(s, n + 1, Len(s))
Fits(c, n) == c.ok /\ n <= Len(c.rest)
Fail(c) == [c EXCEPT !.ok = FALSE]
Invalid(c) == [c EXCEPT !.ok = FALSE, !.rc = 2]
Read(c, m, n) == [m |-> m, rest |-> Drop(c.rest, n), ok |-> c.ok, rc |-> c.rc]

Number2(s) == s[1] * Base + s[2]
Number4(s) == (Number2(s) * Base + s[3]) * Base + s[4]

\* What strlen, strncpy and the like see of the octets read.
Terminated(s) ==
    IF \A i \in 1 .. Len(s) : s[i] # 0 THEN s
    ELSE SubSeq(s, 1, (CHOOSE i \in 1 .. Len(s) :
                         s[i] = 0 /\ \A j \in 1 .. i - 1 : s[j] # 0) - 1)

GetNumber1(c, Set(_, _)) ==
    IF Fits(c, 1) THEN Read(c, Set(c.m, c.rest[1]), 1) ELSE Fail(c)

GetNumber2(c, Set(_, _)) ==
    IF Fits(c, 2) THEN Read(c, Set(c.m, Number2(c.rest)), 2) ELSE Fail(c)

GetString(c, Set(_, _)) ==
    IF Fits(c, 1) /\ Fits(c, 1 + c.rest[1])
    THEN Read(c, Set(c.m, Terminated(SubSeq(c.rest, 2, 1 + c.rest[1]))),
              1 + c.rest[1])
    ELSE Fail(c)

GetLongstr(c, Set(_, _)) ==
    IF Fits(c, 4) /\ Fits(c, 4 + Number4(c.rest))
    THEN Read(c, Set(c.m, Terminated(SubSeq(c.rest, 5, 4 + Number4(c.rest)))),
              4 + Number4(c.rest))
    ELSE Fail(c)

Check(c, holds) == IF holds THEN c ELSE Invalid(c)

\* while (count--): an item takes four octets or more, so that a count beyond
\* the octets left ends in malformed.
Repeat(Get(_), c, count) ==
    LET times == IF count <= Len(c.rest) THEN count ELSE Len(c.rest) + 1
        after[k \in 0 .. times] == IF k = 0 THEN c ELSE Get(after[k - 1])
    IN  after[times]

AppendGroup(m, s) == [m EXCEPT !.groups = Append(@, s)]

GetGroups(c) ==
    IF ~Fits(c, 4) THEN Fail(c)
    ELSE Repeat(LAMBDA d : GetLongstr(d, AppendGroup),
                Read(c, SetGroups(c.m, <<>>), 4), Number4(c.rest))

\* zhash_insert: the first of two equal keys stays.
InsertHeader(m, key, value) ==
    IF \E i \in DOMAIN m.headers : m.headers[i][1] = key THEN m
    ELSE [m EXCEPT !.headers = Append(@, <<key, value>>)]

GetHeader(c) ==
    IF Fits(c, 1) /\ Fits(c, 1 + c.rest[1])
    THEN LET key == Terminated(SubSeq(c.rest, 2, 1 + c.rest[1]))
         IN  GetLongstr(Read(c, c.m, 1 + c.rest[1]),
                        LAMBDA m, value : InsertHeader(m, key, value))
    ELSE Fail(c)

GetHeaders(c) ==
    IF ~Fits(c, 4) THEN Fail(c)
    ELSE Repeat(GetHeader, Read(c, SetHeaders(c.m, <<>>), 4), Number4(c.rest))

GetVersion(c) ==
    IF Fits(c, 1) THEN Check(Read(c, c.m, 1), c.rest[1] = 2) ELSE Fail(c)

GetSignature(c) ==
    IF Fits(c, 2) THEN Check(Read(c, c.m, 2), Number2(c.rest) = Signature)
    ELSE Fail(c)

\* An object is filled in the order of the octets; what comes before a
\* "goto malformed" stays in it.
RecvPing(c) == GetNumber2(GetVersion(c), SetSequence)
RecvHello(c) ==
    GetHeaders(GetString(GetNumber1(GetGroups(GetString(c, SetEndpoint)),
                                    SetStatus), SetName))
RecvShout(c) == GetString(c, SetGroup)
RecvJoin(c) == GetNumber1(GetString(c, SetGroup), SetStatus)
RecvLeave(c) == GetNumber1(GetString(c, SetGroup), SetStatus)
RecvElect(c) == GetString(GetString(c, SetGroup), SetChallenger)
\* Variant: the field of ELECT is filled.
RecvLeader_Challenger(c) == GetString(GetString(c, SetGroup), SetChallenger)
RecvLeader(c) == GetString(GetString(c, SetGroup), SetLeader)

Decode(m, octets) ==
    LET c == GetNumber1(GetSignature(At(m, octets)), SetId)
        d == RecvPing(c)
        id == c.m.id
    IN  CASE ~c.ok -> c
          [] c.ok /\ id \notin Ids -> Invalid(c)
          [] c.ok /\ id = HELLO -> RecvHello(d)
          [] c.ok /\ id = SHOUT -> RecvShout(d)
          [] c.ok /\ id = JOIN -> RecvJoin(d)
          [] c.ok /\ id = LEAVE -> RecvLeave(d)
          [] c.ok /\ id = ELECT -> RecvElect(d)
          [] c.ok /\ id = LEADER -> RecvLeader(d)
          [] OTHER -> d

HasContent(c) == c.ok /\ c.m.id \in {WHISPER, SHOUT}

\* One past the multipart that the frame at i belongs to.
AfterMultipart(frames, i) ==
    1 + CHOOSE j \in i .. Len(frames) :
            ~frames[j].more /\ \A k \in i .. j - 1 : frames[k].more

\* zsock_rcvmore is asked before more frames are read, so that the end of a
\* multipart is not passed; what is left of one is where the next zre_msg_recv
\* begins.  rc: 0 OK (or cut short), 1 no message (-1), 2 malformed (-2).
Result(m, next, rc) == [m |-> m, next |-> next, rc |-> rc]

\* Variant: the content is read without asking zsock_rcvmore.
Receive_Unasked(m, frames) ==
    LET named == SetRoutingId(m, frames[1].data)
        c == Decode(named, frames[2].data)
        next == IF Len(frames) > 2 THEN AfterMultipart(frames, 3) ELSE 3
    IN  CASE ~frames[1].more -> Result(named, 2, 1)
          [] frames[1].more /\ HasContent(c) ->
                Result(SetContent(c.m, [i \in 1 .. next - 3 |->
                                            frames[i + 2].data]), next, c.rc)
          [] OTHER -> Result(c.m, 3, c.rc)

Receive(m, frames) ==
    LET named == SetRoutingId(m, frames[1].data)
        c == Decode(named, frames[2].data)
        next == IF frames[2].more THEN AfterMultipart(frames, 3) ELSE 3
    IN  CASE ~frames[1].more -> Result(named, 2, 1)
          [] frames[1].more /\ HasContent(c) ->
                Result(SetContent(c.m, [i \in 1 .. next - 3 |->
                                            frames[i + 2].data]), next, c.rc)
          [] OTHER -> Result(c.m, 3, c.rc)

-----------------------------------------------------------------------------
(***************************************************************************)
(* zre_msg_zpl and zre_msg_new_zpl: the object as a tree of texts.  A      *)
(* number's text stands for the number, Null for an entry that is missing; *)
(* no content section is one without entries, and ends in NULL like it.    *)
(* zmsg_encode and zmsg_decode of czmq keep the frames apart.              *)
(***************************************************************************)
Unread == {Null, Word, Junk, Broken, Blank}

ASSUME EntryAssumption ==
    /\ Unread \cap (Nat \cup Frame \cup Seq(Frame) \cup Seq(CString) \cup Seq(Header)) = {}
    /\ Null \notin {Word, Junk, Broken, Blank} /\ Word \notin {Junk, Broken, Blank}
    /\ Junk \notin {Broken, Blank} /\ Broken # Blank
    /\ Null \notin Msg /\ Abort \notin Msg \cup Frame \cup {Null}

Hex(octets) ==
    [i \in 1 .. 2 * Len(octets) |->
        IF i % 2 = 1 THEN octets[(i + 1) \div 2] \div Digit
                     ELSE octets[i \div 2] % Digit]

Unhex(text) == [i \in 1 .. Len(text) \div 2 |->
                    text[2 * i - 1] * Digit + text[2 * i]]

\* BYTES_FROM_STR looks at the length alone: where sscanf finds no pair, uint is
\* what memory held, and an assert wants it to be an octet.
BytesFromStr(text, uint) ==
    CASE text = Word -> Null
      [] text = Junk -> IF uint < Base THEN <<uint>> ELSE Abort
      [] OTHER -> Unhex(text)

HexFrames(frames) == [i \in DOMAIN frames |-> Hex(frames[i])]
UnhexFrames(texts) == [i \in DOMAIN texts |-> Unhex(texts[i])]

\* zmsg_decode of the octets, NULL when they are no frames.
DecodedContent(text, uint) ==
    CASE text = Broken -> Null
      [] text = Junk -> IF uint = 0 THEN << <<>> >> ELSE Null
      [] OTHER -> UnhexFrames(text)

\* A section as the pairs of its children's names and values.  zconfig_putf takes
\* a header's name for a path: a '/' in front is dropped, behind any other the
\* value goes to a child of a child, whose parent is made without a value.
Path(name) == IF name # <<>> /\ name[1] = Slash THEN Tail(name) ELSE name
Nested(path) == \E i \in DOMAIN path : path[i] = Slash
Top(path) == IF Nested(path)
             THEN SubSeq(path, 1, (CHOOSE i \in DOMAIN path :
                      path[i] = Slash /\ \A j \in 1 .. i - 1 : path[j] # Slash) - 1)
             ELSE path

PutPath(section, name, value) ==
    LET path == Path(name)
        new == \A i \in DOMAIN section : section[i][1] # Top(path)
    IN  IF new
        THEN Append(section, <<Top(path), IF Nested(path) THEN <<>> ELSE value>>)
        ELSE [i \in DOMAIN section |->
                IF section[i][1] = path THEN <<path, value>> ELSE section[i]]

Section(hash) ==
    LET put[k \in 0 .. Len(hash)] ==
            IF k = 0 THEN <<>> ELSE PutPath(put[k - 1], hash[k][1], hash[k][2])
    IN  put[Len(hash)]

ZplHello(m) ==
    [sequence |-> m.sequence, endpoint |-> m.endpoint, groups |-> m.groups,
     status |-> m.status, name |-> m.name,
     headers |-> IF m.headers = Null THEN Null ELSE Section(m.headers)]
ZplWhisper(m) == [sequence |-> m.sequence, content |-> HexFrames(m.content)]
ZplShout(m) == [sequence |-> m.sequence, group |-> m.group,
                content |-> HexFrames(m.content)]
ZplJoin(m) == [sequence |-> m.sequence, group |-> m.group, status |-> m.status]
ZplPing(m) == [sequence |-> m.sequence]
ZplElect(m) == [sequence |-> m.sequence, group |-> m.group,
                challenger |-> m.challenger]
ZplLeader(m) == [sequence |-> m.sequence, group |-> m.group,
                 leader |-> m.leader]

\* zmsg_encode asserts that there is a content.
CanZpl(m) == m.id \in {WHISPER, SHOUT} => m.content # Null

Zpl(m) ==
    [message |-> m.id,
     routingId |-> IF m.routingId = Null THEN Null ELSE Hex(m.routingId),
     content |-> CASE m.id = HELLO -> ZplHello(m)
                   [] m.id = WHISPER -> ZplWhisper(m)
                   [] m.id = SHOUT -> ZplShout(m)
                   [] m.id \in {JOIN, LEAVE} -> ZplJoin(m)
                   [] m.id = ELECT -> ZplElect(m)
                   [] m.id = LEADER -> ZplLeader(m)
                   [] OTHER -> ZplPing(m)]

\* The object filled so far, Null once NULL is sure to be returned and Abort once
\* the process has died, and the content section.
Enter(z, result) ==
    IF z.m \in {Null, Abort} THEN z ELSE [z EXCEPT !.m = result]

LoadText(z, text, Set(_, _)) ==
    Enter(z, IF text = Null THEN Null ELSE Set(z.m, text))

\* The end strtoll stops at is the end of the empty text too.
LoadNumber(z, text, Set(_, _)) ==
    Enter(z, CASE text \in {Null, Word, Junk, Broken} -> Null
               [] text = Blank -> Set(z.m, 0)
               [] OTHER -> Set(z.m, text))

LoadOptional(z, items, Set(_, _)) ==
    IF items = Null THEN z ELSE Enter(z, Set(z.m, items))

\* The result of zmsg_decode is not looked at.
LoadContent(z, uint) ==
    LET text == z.content.content
    IN  Enter(z, CASE text \in {Null, Word} -> Null
                   [] text = Junk /\ uint >= Base -> Abort
                   [] OTHER -> SetContent(z.m, DecodedContent(text, uint)))

\* PING, PING_OK and GOODBYE have nothing else.
LoadPing(z) == LoadNumber(z, z.content.sequence, SetSequence)
\* zhash_update of a section's children, whose names differ.
LoadHello(z) ==
    LET a == LoadOptional(LoadText(z, z.content.endpoint, SetEndpoint),
                          z.content.groups, SetGroups)
        b == LoadText(LoadNumber(a, z.content.status, SetStatus),
                      z.content.name, SetName)
    IN  LoadOptional(b, z.content.headers, SetHeaders)
LoadWhisper(z, uint) == LoadContent(z, uint)
LoadShout(z, uint) == LoadContent(LoadText(z, z.content.group, SetGroup), uint)
LoadJoin(z) ==
    LoadNumber(LoadText(z, z.content.group, SetGroup), z.content.status, SetStatus)
LoadLeave(z) ==
    LoadNumber(LoadText(z, z.content.group, SetGroup), z.content.status, SetStatus)
\* Variant: the challenger may be missing.
LoadElect_Optional(z) ==
    LoadOptional(LoadText(z, z.content.group, SetGroup),
                 z.content.challenger, SetChallenger)
LoadElect(z) ==
    LoadText(LoadText(z, z.content.group, SetGroup),
             z.content.challenger, SetChallenger)
LoadLeader(z) ==
    LoadText(LoadText(z, z.content.group, SetGroup), z.content.leader, SetLeader)

\* Variant: the sender is not restored.
NewNamed_Anonymous(config, uint) ==
    IF config.message \in Ids THEN SetId(New, config.message) ELSE Null

\* The object zre_msg_new makes, of the type and from the sender named.
NewNamed(config, uint) ==
    LET m == SetId(New, config.message)
        octets == BytesFromStr(config.routingId, uint)
    IN  CASE config.message \notin Ids -> Null
          [] config.message \in Ids /\ config.routingId = Null -> m
          [] OTHER -> IF octets \in {Null, Abort} THEN octets
                      ELSE SetRoutingId(m, octets)

NewZpl(config, uint) ==
    LET id == config.message
        y == [m |-> NewNamed(config, uint), content |-> config.content]
        z == LoadPing(y)
        loaded == CASE z.m \in {Null, Abort} -> z
                    [] z.m \notin {Null, Abort} /\ id = HELLO -> LoadHello(z)
                    [] z.m \notin {Null, Abort} /\ id = WHISPER -> LoadWhisper(z, uint)
                    [] z.m \notin {Null, Abort} /\ id = SHOUT -> LoadShout(z, uint)
                    [] z.m \notin {Null, Abort} /\ id = JOIN -> LoadJoin(z)
                    [] z.m \notin {Null, Abort} /\ id = LEAVE -> LoadLeave(z)
                    [] z.m \notin {Null, Abort} /\ id = ELECT -> LoadElect(z)
                    [] z.m \notin {Null, Abort} /\ id = LEADER -> LoadLeader(z)
                    [] OTHER -> z
    IN  loaded.m

\* What a variable that nobody wrote may hold: an octet, or more.
Memory == Garbage \cup {Base}

-----------------------------------------------------------------------------
Init ==
    /\ msg = New
    /\ wire = <<>>
    /\ got = New
    /\ last = [sent |-> Null, rc |-> 0, fresh |-> TRUE]
    /\ heard = 0
    /\ budget = Budget

\* The self test is a program of its own.
Spend(kind) ==
    /\ budget[kind] > 0
    /\ \A other \in BudgetKinds :
            (kind = "test") # (other = "test") => budget[other] = Budget[other]
    /\ budget' = [budget EXCEPT ![kind] = @ - 1]

Become(m) == msg' = m /\ UNCHANGED <<wire, got, last, heard>>

SetText ==
    /\ Spend("set")
    /\ \E s \in Text :
        \/ Become(SetEndpoint(msg, s))
        \/ Become(SetName(msg, s))
        \/ Become(SetGroup(msg, s))
        \/ Become(SetChallenger(msg, s))
        \/ Become(SetLeader(msg, s))

SetNumber ==
    /\ Spend("set")
    /\ \/ \E id \in Ids : Become(SetId(msg, id))
       \/ \E n \in Number : Become(SetSequence(msg, n))
       \/ \E n \in Number : Become(SetStatus(msg, n))

SetOwned ==
    /\ Spend("set")
    /\ \/ \E list \in GroupList : Become(SetGroups(msg, list))
       \/ \E hash \in HeaderHash : Become(SetHeaders(msg, hash))
       \/ \E frames \in Content : Become(SetContent(msg, frames))
       \/ \E frame \in RoutingId : Become(SetRoutingId(msg, frame))

\* zre_msg_get_groups, zre_msg_get_headers, zre_msg_get_content
Take ==
    /\ Spend("take")
    /\ \/ msg.groups # Null /\ Become(SetGroups(msg, Null))
       \/ msg.headers # Null /\ Become(SetHeaders(msg, Null))
       \/ msg.content # Null /\ Become(SetContent(msg, Null))

Renew == Spend("copy") /\ Become(New)

Copy == Spend("copy") /\ Become(Dup(msg))

\* zre_msg_zpl, and zre_msg_new_zpl of what it has stored.
Reload ==
    /\ Spend("copy")
    /\ msg.id \in Ids /\ CanZpl(msg)
    /\ \E uint \in Memory :
        /\ NewZpl(Zpl(msg), uint) \notin {Null, Abort}
        /\ Become(NewZpl(Zpl(msg), uint))

\* The ROUTER puts the sender's routing id in front of each multipart.
Delivered(id, frames, sent) ==
    [i \in 1 .. Len(frames) + 1 |->
        [data |-> IF i = 1 THEN id ELSE frames[i - 1],
         more |-> i <= Len(frames),
         sent |-> IF i = 1 THEN sent ELSE Null]]

Arrive(id, frames, sent) == wire' = wire \o Delivered(id, frames, sent)

\* zre_msg_send on the DEALER of a zyre_peer_t; the object is kept, with its
\* headers counted.
Send ==
    /\ Spend("send")
    /\ \E id \in RoutingId, octet \in Garbage :
            Arrive(id, Multipart(msg, octet), msg)
    /\ msg' = [msg EXCEPT !.headersBytes =
                   IF msg.id = HELLO THEN HeadersBytes(msg) ELSE @]
    /\ UNCHANGED <<got, last, heard>>

\* What the self test fills in for each type, in an object that has been through
\* the types before.
TestHello(m, s, n, list, hash) ==
    SetHeaders(SetName(SetStatus(SetGroups(SetEndpoint(
        SetSequence(SetId(m, HELLO), n), s), list), n), s), hash)
TestWhisper(m, n, frames) == SetContent(SetSequence(SetId(m, WHISPER), n), frames)
TestShout(m, s, n, frames) ==
    SetContent(SetGroup(SetSequence(SetId(m, SHOUT), n), s), frames)
TestJoin(m, s, n) == SetStatus(SetGroup(SetSequence(SetId(m, JOIN), n), s), n)
TestLeave(m, s, n) == SetStatus(SetGroup(SetSequence(SetId(m, LEAVE), n), s), n)
TestPing(m, n) == SetSequence(SetId(m, PING), n)
TestPingOk(m, n) == SetSequence(SetId(m, PING_OK), n)
TestElect(m, s, n) ==
    SetChallenger(SetGroup(SetSequence(SetId(m, ELECT), n), s), s)
TestLeader(m, s, n) == SetLeader(SetGroup(SetSequence(SetId(m, LEADER), n), s), s)
TestGoodbye(m, n) == SetSequence(SetId(m, GOODBYE), n)

Tested(m) ==
    UNION {
        {TestPing(m, n), TestPingOk(m, n), TestGoodbye(m, n)} \cup
        {TestWhisper(m, n, frames) : frames \in Content} \cup
        UNION {
            {TestJoin(m, s, n), TestLeave(m, s, n), TestElect(m, s, n),
             TestLeader(m, s, n)} \cup
            {TestShout(m, s, n, frames) : frames \in Content} \cup
            {TestHello(m, s, n, list, hash) : list \in GroupList, hash \in HeaderHash}
            : s \in Text}
        : n \in Number}

\* The self test sends an object twice and receives both (Recv) into that object,
\* which is the next type's; StoredAsItWas is its third instance, the one loaded
\* from the tree.
SelfTest ==
    /\ Spend("test")
    /\ wire = <<>>
    /\ \E filled \in Tested(got), id \in RoutingId, octet \in Garbage :
            LET m == [filled EXCEPT !.headersBytes =
                          IF filled.id = HELLO THEN HeadersBytes(filled) ELSE @]
                once == Delivered(id, Multipart(filled, octet), filled)
            IN  /\ wire' = once \o once
                /\ msg' = m /\ got' = m
    /\ last' = [sent |-> Null, rc |-> 0, fresh |-> TRUE]
    /\ UNCHANGED heard

Stranger ==
    /\ Spend("stray")
    /\ \E id \in RoutingId, frames \in Stray : Arrive(id, frames, Null)
    /\ UNCHANGED <<msg, got, last, heard>>

\* zyre_node_recv_peer receives into a new object, the self test into one that
\* was filled before.
Recv ==
    /\ wire # <<>>
    /\ \E fresh \in BOOLEAN :
        LET r == Receive(IF fresh THEN New ELSE got, wire)
        IN  /\ got' = r.m
            /\ wire' = Drop(wire, r.next - 1)
            /\ last' = [sent |-> wire[1].sent, rc |-> r.rc, fresh |-> fresh]
    /\ heard' = IF wire[1].sent = Null THEN heard ELSE heard + 1
    /\ UNCHANGED <<msg, budget>>

Next ==
    \/ SetText \/ SetNumber \/ SetOwned \/ Take
    \/ Renew \/ Copy \/ Reload
    \/ Send \/ SelfTest \/ Stranger \/ Recv

Spec == Init /\ [][Next]_vars

-----------------------------------------------------------------------------
(***************************************************************************)
(* Properties.                                                             *)
(***************************************************************************)
WireFrame == [data: Frame, more: BOOLEAN, sent: Msg \cup {Null}]

\* Every field of either object stays within its width, whatever was set,
\* stored, loaded or read from the wire.
TypeOK ==
    /\ msg \in Msg /\ got \in Msg
    /\ wire \in Seq(WireFrame)
    /\ last \in [sent: Msg \cup {Null}, rc: 0 .. 2, fresh: BOOLEAN]
    /\ heard \in Nat
    /\ budget \in [BudgetKinds -> Nat]

\* The fields a message of the type takes with it.
Carried(id) ==
    {"sequence"} \cup
    CASE id = HELLO -> {"endpoint", "groups", "status", "name", "headers"}
      [] id = WHISPER -> {"content"}
      [] id = SHOUT -> {"group", "content"}
      [] id \in {JOIN, LEAVE} -> {"group", "status"}
      [] id = ELECT -> {"group", "challenger"}
      [] id = LEADER -> {"group", "leader"}
      [] OTHER -> {}

\* zre_msg_send writes within the frame it has allocated, and fills it unless
\* the headers were taken out after they had been counted.
FrameIsFilled ==
    LET stale == msg.id = HELLO /\ msg.headers = Null /\ msg.headersBytes > 0
    IN  /\ Len(Body(msg)) <= FrameSize(msg)
        /\ ~stale => Len(Body(msg)) = FrameSize(msg)

\* The length of a header's name is one octet on the wire and not cut; the
\* counts and the lengths of the other texts are four octets.
LengthsFit(m) ==
    LET long == Base * Base * (Base * Base)
        groups == Items(m.groups)
        headers == Items(m.headers)
    IN  /\ Len(groups) < long /\ \A i \in DOMAIN groups : Len(groups[i]) < long
        /\ Len(headers) < long
        /\ \A i \in DOMAIN headers :
                Len(headers[i][1]) < Base /\ Len(headers[i][2]) < long

\* How a field that is NULL arrives.
Arrival(m, field) ==
    CASE m[field] # Null -> m[field]
      [] m[field] = Null /\ field = "content" -> << <<>> >>
      [] OTHER -> <<>>

\* What zre_msg_recv makes in a new object of a message without lists or
\* content that zre_msg_send sent is that message and nothing else, whatever
\* strangers sent before and however their messages ended.
ControlArrives ==
    (last.sent # Null /\ last.sent.id \in Control /\ last.fresh) =>
        LET s == last.sent
            plain == [New EXCEPT !.routingId = got.routingId, !.id = s.id,
                                 !.sequence = s.sequence]
        IN  /\ last.rc = 0
            /\ s.id \in {JOIN, LEAVE} =>
                got = [plain EXCEPT !.group = s.group, !.status = s.status]
            /\ s.id = ELECT =>
                got = [plain EXCEPT !.group = s.group, !.challenger = s.challenger]
            /\ s.id = LEADER =>
                got = [plain EXCEPT !.group = s.group, !.leader = s.leader]
            /\ s.id \in {PING, PING_OK, GOODBYE} => got = plain

\* So does every other message in every other object: a new one has nothing
\* else in it, a used one keeps only fields of other types.
RoundTrip ==
    (/\ last.sent # Null /\ last.sent.id \in Ids
     /\ last.sent.id \in Control => ~last.fresh
     /\ LengthsFit(last.sent)) =>
        /\ last.rc = 0
        /\ got.id = last.sent.id
        /\ \A field \in Carried(got.id) : got[field] = Arrival(last.sent, field)
        /\ last.fresh =>
            \A field \in DOMAIN New \ ({"id", "routingId"} \cup Carried(got.id)) :
                got[field] = New[field]

\* The rest of a malformed multipart never swallows the message behind it:
\* every message sent is under way or was received from its first frame on.
NothingSwallowed ==
    heard + Cardinality({i \in DOMAIN wire : wire[i].sent # Null})
        = (Budget["send"] - budget["send"]) + 2 * (Budget["test"] - budget["test"])

\* A message that is stored with zre_msg_zpl and loaded with zre_msg_new_zpl is
\* the same message, but for headers whose names have a '/' in them: one of these
\* may be lost, and no other header with it unless it names the same entry.
StoredAsItWas ==
    (msg.id \in Ids /\ CanZpl(msg)) =>
        \A uint \in Memory :
            LET loaded == NewZpl(Zpl(msg), uint)
                headers == Items(msg.headers)
            IN  /\ loaded \notin {Null, Abort}
                /\ \A field \in ({"id", "routingId"} \cup Carried(msg.id)) \ {"headers"} :
                        loaded[field] = msg[field]
                /\ (msg.id = HELLO /\ \A i \in DOMAIN headers : ~Nested(headers[i][1])) =>
                        loaded.headers = msg.headers
                /\ msg.id = HELLO =>
                    \A i \in DOMAIN headers :
                        (/\ ~Nested(headers[i][1])
                         /\ \A j \in DOMAIN headers :
                                Path(headers[j][1]) = headers[i][1] => j = i) =>
                            \E k \in DOMAIN loaded.headers :
                                loaded.headers[k] = headers[i]

\* The tree of the message with one entry of it in another state, and the states
\* an entry can be in.
Spoilt(m, key, text) ==
    IF key = "routingId" THEN [Zpl(m) EXCEPT !.routingId = text]
    ELSE [Zpl(m) EXCEPT !.content[key] = text]

Spoils(key) ==
    CASE key \in {"sequence", "status"} -> Unread
      [] key = "content" -> {Null, Word, Junk, Broken}
      [] key = "routingId" -> {Null, Word, Junk}
      [] OTHER -> {Null}

Refused(key, text) ==
    \/ text = Null /\ key \notin {"routingId", "groups", "headers"}
    \/ text = Word
    \/ text \in {Junk, Broken} /\ key \in {"sequence", "status"}

Instead(key, text, uint) ==
    CASE text = Blank -> 0
      [] text = Junk /\ key = "routingId" -> <<uint>>
      [] text = Junk /\ key = "content" /\ uint = 0 -> << <<>> >>
      [] OTHER -> Null

\* zre_msg_new_zpl of a tree with one entry spoilt.  It gives no message without an
\* entry that the type requires, and none with a number or a text of pairs that
\* shows by its end that it is none.  What it does give has every other field as
\* it was stored, the headers apart (StoredAsItWas); the field spoilt is empty,
\* or what memory held, unless the assert in BYTES_FROM_STR notices: an empty number
\* is 0, and content that does not decode is a message without content, which cannot
\* be stored again.
SpoiltTree ==
    (msg.id \in Ids /\ CanZpl(msg)) =>
        \A uint \in Memory :
            /\ NewZpl([Zpl(msg) EXCEPT !.message = Null], uint) = Null
            /\ \A key \in {"routingId"} \cup Carried(msg.id) : \A text \in Spoils(key) :
                LET loaded == NewZpl(Spoilt(msg, key, text), uint)
                    kept == ({"id", "routingId"} \cup Carried(msg.id)) \ {key, "headers"}
                IN  IF Refused(key, text) THEN loaded = Null
                    ELSE IF text = Junk /\ uint >= Base THEN loaded = Abort
                    ELSE /\ loaded \notin {Null, Abort}
                         /\ loaded[key] = Instead(key, text, uint)
                         /\ \A field \in kept : loaded[field] = msg[field]

=============================================================================
