---------------------------- MODULE ZreMsgProofs ----------------------------
(***************************************************************************)
(* What a message of the ZRE protocol is after the wire, for every radix   *)
(* and every value of the fields: the proofs about ZreMsg.                 *)
(***************************************************************************)
EXTENDS ZreMsg, SequenceTheorems, FiniteSetTheorems, WellFoundedInduction, TLAPS

-----------------------------------------------------------------------------
(***************************************************************************)
(* Octets.                                                                 *)
(***************************************************************************)

\* An octet holds the number 10 and more.
LEMMA BaseType == Base \in Nat /\ Base >= 16
<1>1. \A d \in Nat : d >= 4 => d * d >= 16
  BY SMT
<1> QED BY <1>1, RadixAssumption DEF Base

\* What is left behind a prefix.
LEMMA DropPrefix ==
  ASSUME NEW S, NEW s \in Seq(S), NEW t \in Seq(S)
  PROVE  Drop(s \o t, Len(s)) = t
<1>1. CASE Len(t) = 0
  <2>1. Len(s \o t) = Len(s) BY <1>1
  <2>2. t = <<>> BY <1>1, EmptySeq
  <2> QED BY <2>1, <2>2, SubSeqEmpty DEF Drop
<1>2. CASE Len(t) # 0
  <2>1. Len(s \o t) = Len(s) + Len(t) OBVIOUS
  <2>2. SubSeq(s \o t, Len(s) + 1, Len(s) + Len(t)) = SubSeq(t, 1, Len(t))
    BY <1>2, SubSeqOfConcat2
  <2> QED BY <2>1, <2>2, SubSeqFull DEF Drop
<1> QED BY <1>1, <1>2

\* PUT_NUMBER2 and GET_NUMBER2 keep 16 bits.
LEMMA Number2Kept ==
  ASSUME NEW n \in 0 .. Base * Base - 1
  PROVE  /\ PutNumber2(n) \in Frame
         /\ Len(PutNumber2(n)) = 2
         /\ \A t \in Frame : Number2(PutNumber2(n) \o t) = n
<1> DEFINE high == n \div Base
           low == n % Base
<1>1. Base \in Nat /\ Base >= 16 BY BaseType
<1>2. low \in 0 .. Base - 1 /\ high \in Nat /\ n = Base * high + low
  BY <1>1, Z3
<1>3. high < Base
  <2>1. SUFFICES ASSUME high >= Base PROVE FALSE BY <1>1, <1>2
  <2>2. Base * high >= Base * Base BY <1>1, <1>2, <2>1
  <2> QED BY <1>1, <1>2, <2>2
<1>4. high % Base = high BY <1>1, <1>2, <1>3
<1>5. PutNumber2(n) = <<high, low>> BY <1>4 DEF PutNumber2
<1> HIDE DEF high, low
<1>6. high \in Octet /\ low \in Octet BY <1>1, <1>2, <1>3 DEF Octet
<1>7. PutNumber2(n) \in Frame /\ Len(PutNumber2(n)) = 2
  BY <1>5, <1>6 DEF Frame
<1>8. ASSUME NEW t \in Frame PROVE Number2(PutNumber2(n) \o t) = n
  <2>1. (<<high, low>> \o t)[1] = high /\ (<<high, low>> \o t)[2] = low
    BY <1>6 DEF Frame
  <2>2. Number2(<<high, low>> \o t) = high * Base + low BY <2>1 DEF Number2
  <2>3. high * Base = Base * high BY <1>1, <1>2
  <2> QED BY <1>1, <1>2, <1>5, <2>2, <2>3
<1> QED BY <1>7, <1>8

-----------------------------------------------------------------------------
(***************************************************************************)
(* Reading what was put: each getter finds the value and leaves the rest.  *)
(***************************************************************************)

\* One octet.
LEMMA OctetPut ==
  ASSUME NEW n \in Octet
  PROVE  PutNumber1(n) = <<n>>
BY BaseType DEF PutNumber1, Octet

\* One octet in front.
LEMMA OctetRead ==
  ASSUME NEW n \in Octet, NEW t \in Frame
  PROVE  /\ PutNumber1(n) = <<n>>
         /\ PutNumber1(n) \o t \in Frame
         /\ Len(PutNumber1(n) \o t) = 1 + Len(t)
         /\ (PutNumber1(n) \o t)[1] = n
         /\ Drop(PutNumber1(n) \o t, 1) = t
<1>1. PutNumber1(n) = <<n>> BY OctetPut
<1>2. <<n>> \in Frame /\ Len(<<n>>) = 1 BY DEF Frame
<1>3. Drop(<<n>> \o t, 1) = t BY <1>2, DropPrefix DEF Frame
<1>4. /\ <<n>> \o t \in Frame
      /\ Len(<<n>> \o t) = 1 + Len(t)
      /\ (<<n>> \o t)[1] = n
  BY <1>2 DEF Frame
<1> QED BY <1>1, <1>3, <1>4

\* Two octets in front.
LEMMA PairRead ==
  ASSUME NEW n \in 0 .. Base * Base - 1, NEW t \in Frame
  PROVE  /\ PutNumber2(n) \o t \in Frame
         /\ Len(PutNumber2(n) \o t) = 2 + Len(t)
         /\ Number2(PutNumber2(n) \o t) = n
         /\ Drop(PutNumber2(n) \o t, 2) = t
<1>1. PutNumber2(n) \in Frame /\ Len(PutNumber2(n)) = 2 BY Number2Kept
<1>2. Drop(PutNumber2(n) \o t, 2) = t BY <1>1, DropPrefix DEF Frame
<1>3. Number2(PutNumber2(n) \o t) = n BY Number2Kept
<1>4. /\ PutNumber2(n) \o t \in Frame
      /\ Len(PutNumber2(n) \o t) = Len(PutNumber2(n)) + Len(t)
  BY <1>1, ConcatProperties DEF Frame
<1> QED BY <1>1, <1>2, <1>3, <1>4

\* A string as long as a buffer takes, with its length in front.
LEMMA StringPut ==
  ASSUME NEW s \in Buffer
  PROVE  /\ s \in Frame /\ Len(s) \in Octet
         /\ PutString(s) = <<Len(s)>> \o s
         /\ PutString(s) \in Frame
         /\ Len(PutString(s)) = 1 + Len(s)
<1>1. s \in Seq(1 .. Base - 1) /\ Len(s) < Base BY DEF Buffer, CString
<1>2. s \in Frame
  <2>1. 1 .. Base - 1 \subseteq Octet BY BaseType DEF Octet
  <2> QED BY <1>1, <2>1, SeqMonotonic DEF Frame
<1>3. Len(s) \in Octet BY <1>1, BaseType DEF Octet
<1>4. PutNumber1(Len(s)) = <<Len(s)>> BY <1>3, BaseType DEF PutNumber1, Octet
<1>5. <<Len(s)>> \in Frame /\ Len(<<Len(s)>>) = 1 BY <1>3 DEF Frame
<1> QED BY <1>2, <1>3, <1>4, <1>5 DEF PutString, Frame

\* A string without zeros is not cut by its terminator, nor by a buffer.
LEMMA StringKept ==
  ASSUME NEW s \in Buffer
  PROVE  Terminated(s) = s /\ Cut(s) = s
<1>1. s \in Seq(1 .. Base - 1) /\ Len(s) < Base BY DEF Buffer, CString
<1>2. \A i \in 1 .. Len(s) : s[i] # 0
  BY <1>1, BaseType, ElementOfSeq
<1>3. Cut(s) = s BY <1>1, SubSeqFull DEF Cut
<1> QED BY <1>2, <1>3 DEF Terminated

LEMMA StringRead ==
  ASSUME NEW s \in Buffer, NEW t \in Frame
  PROVE  LET r == PutString(s) \o t
         IN  /\ r \in Frame
             /\ Len(r) = 1 + Len(s) + Len(t)
             /\ r[1] = Len(s)
             /\ SubSeq(r, 2, 1 + Len(s)) = s
             /\ Drop(r, 1 + Len(s)) = t
<1> DEFINE r == PutString(s) \o t
<1>1. /\ s \in Frame /\ Len(s) \in Octet
      /\ PutString(s) = <<Len(s)>> \o s
      /\ PutString(s) \in Frame
      /\ Len(PutString(s)) = 1 + Len(s)
  BY StringPut
<1>2. r \in Frame /\ Len(r) = 1 + Len(s) + Len(t) BY <1>1 DEF Frame
<1>3. r[1] = Len(s) BY <1>1 DEF Frame
<1>4. Drop(r, 1 + Len(s)) = t BY <1>1, DropPrefix DEF Frame
<1>5. SubSeq(r, 2, 1 + Len(s)) = s
  <2>1. SubSeq(r, 2, 1 + Len(s)) \in Frame
        /\ Len(SubSeq(r, 2, 1 + Len(s))) = Len(s)
    BY <1>1, <1>2 DEF Frame
  <2>2. ASSUME NEW i \in 1 .. Len(s)
        PROVE  SubSeq(r, 2, 1 + Len(s))[i] = s[i]
    BY <1>1, <1>2 DEF Frame
  <2> QED BY <1>1, <2>1, <2>2, SeqEqual DEF Frame
<1> QED BY <1>2, <1>3, <1>4, <1>5

-----------------------------------------------------------------------------
(***************************************************************************)
(* The same for cursors, field by field.                                   *)
(***************************************************************************)

\* A cursor that has not failed.
LEMMA AtCursor ==
  ASSUME NEW m, NEW r
  PROVE  /\ At(m, r).m = m
         /\ At(m, r).rest = r
         /\ At(m, r).rc = 0
         /\ \A n : Fits(At(m, r), n) <=> n <= Len(r)
         /\ \A x, n : Read(At(m, r), x, n) = At(x, Drop(r, n))
BY DEF At, Fits, Read

\* A cursor that has not failed reads a version and a signature.
LEMMA CheckedRead ==
  ASSUME NEW m, NEW t \in Frame
  PROVE  /\ GetVersion(At(m, PutNumber1(2) \o t)) = At(m, t)
         /\ GetSignature(At(m, PutNumber2(Signature) \o t)) = At(m, t)
<1>1. 2 \in Octet BY BaseType DEF Octet
<1>2. Signature \in 0 .. Base * Base - 1 BY InputAssumption
<1> DEFINE v == PutNumber1(2) \o t
           w == PutNumber2(Signature) \o t
<1>3. v \in Frame /\ Len(v) = 1 + Len(t) /\ v[1] = 2 /\ Drop(v, 1) = t
  BY <1>1, OctetRead
<1>4. /\ w \in Frame /\ Len(w) = 2 + Len(t)
      /\ Number2(w) = Signature /\ Drop(w, 2) = t
  BY <1>2, PairRead
<1>5. Len(t) \in Nat BY DEF Frame
<1> HIDE DEF v, w
<1>6. GetVersion(At(m, v)) = At(m, t)
  BY <1>3, <1>5, AtCursor DEF GetVersion, Check
<1>7. GetSignature(At(m, w)) = At(m, t)
  BY <1>4, <1>5, AtCursor DEF GetSignature, Check
<1> QED BY <1>6, <1>7 DEF v, w

\* The numbers.
LEMMA NumberRead ==
  ASSUME NEW m, NEW t \in Frame
  PROVE  /\ \A n \in Octet :
              /\ GetNumber1(At(m, PutNumber1(n) \o t), SetId)
                    = At(SetId(m, n), t)
              /\ GetNumber1(At(m, PutNumber1(n) \o t), SetStatus)
                    = At(SetStatus(m, n), t)
         /\ \A n \in 0 .. Base * Base - 1 :
              GetNumber2(At(m, PutNumber2(n) \o t), SetSequence)
                    = At(SetSequence(m, n), t)
<1>1. Len(t) \in Nat BY DEF Frame
<1>2. ASSUME NEW n \in Octet
      PROVE  /\ GetNumber1(At(m, PutNumber1(n) \o t), SetId)
                  = At(SetId(m, n), t)
             /\ GetNumber1(At(m, PutNumber1(n) \o t), SetStatus)
                  = At(SetStatus(m, n), t)
  <2> DEFINE r == PutNumber1(n) \o t
  <2>1. r \in Frame /\ Len(r) = 1 + Len(t) /\ r[1] = n /\ Drop(r, 1) = t
    BY OctetRead
  <2> HIDE DEF r
  <2>2. /\ GetNumber1(At(m, r), SetId) = At(SetId(m, n), t)
        /\ GetNumber1(At(m, r), SetStatus) = At(SetStatus(m, n), t)
    BY <1>1, <2>1, AtCursor DEF GetNumber1
  <2> QED BY <2>2 DEF r
<1>3. ASSUME NEW n \in 0 .. Base * Base - 1
      PROVE  GetNumber2(At(m, PutNumber2(n) \o t), SetSequence)
                  = At(SetSequence(m, n), t)
  <2> DEFINE r == PutNumber2(n) \o t
  <2>1. /\ r \in Frame /\ Len(r) = 2 + Len(t)
        /\ Number2(r) = n /\ Drop(r, 2) = t
    BY PairRead
  <2> HIDE DEF r
  <2>2. GetNumber2(At(m, r), SetSequence) = At(SetSequence(m, n), t)
    BY <1>1, <2>1, AtCursor DEF GetNumber2
  <2> QED BY <2>2 DEF r
<1> QED BY <1>2, <1>3

\* The strings: a reader that fills a field through its setter fills it with
\* the string that was put.
LEMMA TextRead ==
  ASSUME NEW m, NEW s \in Buffer, NEW t \in Frame
  PROVE  /\ GetString(At(m, PutString(s) \o t), SetGroup)
                = At(SetGroup(m, s), t)
         /\ GetString(At(m, PutString(s) \o t), SetChallenger)
                = At(SetChallenger(m, s), t)
         /\ GetString(At(m, PutString(s) \o t), SetLeader)
                = At(SetLeader(m, s), t)
<1> DEFINE r == PutString(s) \o t
<1>1. /\ r \in Frame
      /\ Len(r) = 1 + Len(s) + Len(t)
      /\ r[1] = Len(s)
      /\ SubSeq(r, 2, 1 + Len(s)) = s
      /\ Drop(r, 1 + Len(s)) = t
  BY StringRead
<1>2. Len(s) \in Nat /\ Len(t) \in Nat BY DEF Buffer, CString, Frame
<1>3. Terminated(s) = s BY StringKept
<1> HIDE DEF r
<1>4. Fits(At(m, r), 1) /\ Fits(At(m, r), 1 + r[1])
  BY <1>1, <1>2, AtCursor
<1>5. /\ At(m, r).m = m /\ At(m, r).rest = r
      /\ \A x : Read(At(m, r), x, 1 + Len(s)) = At(x, t)
  BY <1>1, AtCursor
<1>6. /\ GetString(At(m, r), SetGroup) = At(SetGroup(m, s), t)
      /\ GetString(At(m, r), SetChallenger) = At(SetChallenger(m, s), t)
      /\ GetString(At(m, r), SetLeader) = At(SetLeader(m, s), t)
  BY <1>1, <1>3, <1>4, <1>5 DEF GetString
<1> QED BY <1>6 DEF r

-----------------------------------------------------------------------------
(***************************************************************************)
(* Whole frames.                                                           *)
(***************************************************************************)

\* The ids are octets, and different.
LEMMA IdType == Ids = 1 .. 10 /\ Ids \subseteq Octet /\ Control \subseteq Ids
BY BaseType DEF Ids, HELLO, GOODBYE, Octet, Control, JOIN, LEAVE, PING, PING_OK,
                ELECT, LEADER

\* Frames behind each other.
LEMMA FrameConcat ==
  /\ \A u, v \in Frame : u \o v \in Frame /\ Len(u \o v) = Len(u) + Len(v)
  /\ \A u, v, w \in Frame : (u \o v) \o w = u \o (v \o w)
  /\ \A u \in Frame : Len(u) \in Nat
  /\ \A n \in Octet : <<n>> \in Frame /\ Len(<<n>>) = 1
<1>1. \A u, v, w \in Seq(Octet) : (u \o v) \o w = u \o (v \o w)
  BY ConcatAssociative
<1> QED BY <1>1 DEF Frame

\* Two strings, or a string and an octet, behind each other.
LEMMA PutFlatType ==
  ASSUME NEW m \in Msg, m.id # HELLO
  PROVE  PutFlat(m) \in Frame /\ Len(PutFlat(m)) = FlatSize(m)
<1>1. /\ m.group \in Buffer /\ m.challenger \in Buffer /\ m.leader \in Buffer
      /\ m.status \in Octet
  BY DEF Msg
<1>2. /\ PutString(m.group) \in Frame
      /\ Len(PutString(m.group)) = 1 + Len(m.group)
      /\ PutString(m.challenger) \in Frame
      /\ Len(PutString(m.challenger)) = 1 + Len(m.challenger)
      /\ PutString(m.leader) \in Frame
      /\ Len(PutString(m.leader)) = 1 + Len(m.leader)
  BY <1>1, StringPut
<1>3. PutNumber1(m.status) \in Frame /\ Len(PutNumber1(m.status)) = 1
  <2>1. PutNumber1(m.status) = <<m.status>> BY <1>1, OctetPut
  <2> QED BY <1>1, <2>1, FrameConcat
<1>4. Len(m.group) \in Nat /\ Len(m.challenger) \in Nat /\ Len(m.leader) \in Nat
  BY <1>1 DEF Buffer, CString
<1>5. \A u, v \in Frame : u \o v \in Frame /\ Len(u \o v) = Len(u) + Len(v)
  BY FrameConcat
<1>6. CASE m.id \in {JOIN, LEAVE}
  <2>1. /\ PutFlat(m) = PutString(m.group) \o PutNumber1(m.status)
        /\ FlatSize(m) = 1 + Len(m.group) + 1
    <3>1. CASE m.id = JOIN
      BY <3>1 DEF PutFlat, FlatSize, JOIN, LEAVE, SHOUT, ELECT, LEADER
    <3>2. CASE m.id = LEAVE
      BY <3>2 DEF PutFlat, FlatSize, JOIN, LEAVE, SHOUT, ELECT, LEADER
    <3> QED BY <1>6, <3>1, <3>2
  <2>2. PutFlat(m) \in Frame BY <1>2, <1>3, <1>5, <2>1
  <2>3. Len(PutString(m.group) \o PutNumber1(m.status))
          = Len(PutString(m.group)) + Len(PutNumber1(m.status))
    BY <1>2, <1>3, <1>5
  <2>4. Len(PutFlat(m)) = (1 + Len(m.group)) + 1 BY <1>2, <1>3, <2>1, <2>3
  <2> QED BY <2>1, <2>2, <2>4
<1>7. CASE m.id = SHOUT
  <2>1. PutFlat(m) = PutString(m.group) /\ FlatSize(m) = 1 + Len(m.group)
    BY <1>7 DEF PutFlat, FlatSize, JOIN, LEAVE, SHOUT, ELECT, LEADER
  <2>2. PutString(m.group) \in Frame /\ Len(PutString(m.group)) = 1 + Len(m.group)
    BY <1>2, <1>3, <1>5
  <2> QED BY <1>2, <1>3, <1>4, <2>1, <2>2
<1>8. CASE m.id = ELECT
  <2>1. PutFlat(m) = PutString(m.group) \o PutString(m.challenger) /\ FlatSize(m) = 1 + Len(m.group) + 1 + Len(m.challenger)
    BY <1>8 DEF PutFlat, FlatSize, JOIN, LEAVE, SHOUT, ELECT, LEADER
  <2>2. PutFlat(m) \in Frame BY <1>2, <1>5, <2>1
  <2>3. Len(PutFlat(m)) = (1 + Len(m.group)) + (1 + Len(m.challenger))
    BY <1>2, <1>5, <2>1
  <2>4. \A x, y \in Nat : (1 + x) + (1 + y) = 1 + x + 1 + y OBVIOUS
  <2> QED BY <1>4, <2>1, <2>2, <2>3, <2>4
<1>9. CASE m.id = LEADER
  <2>1. PutFlat(m) = PutString(m.group) \o PutString(m.leader) /\ FlatSize(m) = 1 + Len(m.group) + 1 + Len(m.leader)
    BY <1>9 DEF PutFlat, FlatSize, JOIN, LEAVE, SHOUT, ELECT, LEADER
  <2>2. PutFlat(m) \in Frame BY <1>2, <1>5, <2>1
  <2>3. Len(PutFlat(m)) = (1 + Len(m.group)) + (1 + Len(m.leader))
    BY <1>2, <1>5, <2>1
  <2>4. \A x, y \in Nat : (1 + x) + (1 + y) = 1 + x + 1 + y OBVIOUS
  <2> QED BY <1>4, <2>1, <2>2, <2>3, <2>4
<1>10. CASE m.id \notin {JOIN, LEAVE, SHOUT, ELECT, LEADER}
  <2>1. PutFlat(m) = <<>> /\ FlatSize(m) = 0
    BY <1>10 DEF PutFlat, FlatSize
  <2> QED BY <2>1 DEF Frame
<1> QED BY <1>6, <1>7, <1>8, <1>9, <1>10

\* The body in the order it is read.
LEMMA BodyShape ==
  ASSUME NEW m \in Msg, m.id \in Ids \ {HELLO}
  PROVE  /\ Body(m) = PutNumber2(Signature) \o (PutNumber1(m.id) \o
                        (PutNumber1(2) \o (PutNumber2(m.sequence) \o PutFlat(m))))
         /\ Body(m) \in Frame
         /\ Len(Body(m)) = 2 + 1 + 1 + 2 + Len(PutFlat(m))
<1>1. /\ PutNumber2(Signature) \in Frame
      /\ Len(PutNumber2(Signature)) = 2
  BY Number2Kept, InputAssumption
<1>2. m.sequence \in 0 .. Base * Base - 1 /\ m.id \in Octet BY DEF Msg
<1>3. PutNumber2(m.sequence) \in Frame /\ Len(PutNumber2(m.sequence)) = 2
  BY <1>2, Number2Kept
<1>4. 2 \in Octet BY BaseType DEF Octet
<1>5. /\ PutNumber1(m.id) \in Frame /\ Len(PutNumber1(m.id)) = 1
      /\ PutNumber1(2) \in Frame /\ Len(PutNumber1(2)) = 1
  <2>1. PutNumber1(m.id) = <<m.id>> /\ PutNumber1(2) = <<2>>
    BY <1>2, <1>4, OctetPut
  <2> QED BY <1>2, <1>4, <2>1, FrameConcat
<1>6. PutFlat(m) \in Frame BY PutFlatType
<1>7. Body(m) = (PutNumber2(Signature) \o PutNumber1(m.id)) \o
                  ((PutNumber1(2) \o PutNumber2(m.sequence)) \o PutFlat(m))
  BY DEF Body
<1> DEFINE a == PutNumber2(Signature)
           b == PutNumber1(m.id)
           c == PutNumber1(2)
           d == PutNumber2(m.sequence)
           e == PutFlat(m)
<1>8. /\ a \in Frame /\ b \in Frame /\ c \in Frame /\ d \in Frame /\ e \in Frame
      /\ Len(a) = 2 /\ Len(b) = 1 /\ Len(c) = 1 /\ Len(d) = 2
  BY <1>1, <1>3, <1>5, <1>6
<1>9. Body(m) = (a \o b) \o ((c \o d) \o e) BY <1>7
<1> HIDE DEF a, b, c, d, e
<1>10. /\ Body(m) = a \o (b \o (c \o (d \o e)))
       /\ Body(m) \in Frame
       /\ Len(Body(m)) = Len(a) + Len(b) + Len(c) + Len(d) + Len(e)
  <2>0. /\ a \in Frame /\ b \in Frame /\ c \in Frame /\ d \in Frame
        /\ e \in Frame
    BY <1>8
  <2>1. (c \o d) \o e = c \o (d \o e) BY <2>0, FrameConcat
  <2>2. c \o (d \o e) \in Frame BY <2>0, FrameConcat
  <2>3. (a \o b) \o (c \o (d \o e)) = a \o (b \o (c \o (d \o e)))
    BY <2>0, <2>2, FrameConcat
  <2>4. /\ a \o b \in Frame /\ Len(a \o b) = Len(a) + Len(b)
        /\ c \o d \in Frame /\ Len(c \o d) = Len(c) + Len(d)
    BY <2>0, FrameConcat
  <2>5. /\ (c \o d) \o e \in Frame
        /\ Len((c \o d) \o e) = Len(c \o d) + Len(e)
    BY <2>0, <2>4, FrameConcat
  <2>6. /\ (a \o b) \o ((c \o d) \o e) \in Frame
        /\ Len((a \o b) \o ((c \o d) \o e))
              = (Len(a) + Len(b)) + ((Len(c) + Len(d)) + Len(e))
    BY <2>4, <2>5, FrameConcat
  <2>7. /\ Len(a) \in Nat /\ Len(b) \in Nat /\ Len(c) \in Nat /\ Len(d) \in Nat
        /\ Len(e) \in Nat
    BY <2>0, FrameConcat
  <2>8. Len(Body(m)) = Len(a) + Len(b) + Len(c) + Len(d) + Len(e)
    BY <1>9, <2>6, <2>7
  <2>9. Body(m) = a \o (b \o (c \o (d \o e))) BY <1>9, <2>1, <2>3
  <2> QED BY <1>9, <2>6, <2>8, <2>9
<1>11. Len(Body(m)) = 2 + 1 + 1 + 2 + Len(e) BY <1>8, <1>10
<1> QED BY <1>10, <1>11 DEF a, b, c, d, e

\* zre_msg_send and zre_msg_encode count exactly what they put, for every
\* message without lists: no octet is written behind the frame and none is
\* left unwritten.
THEOREM FrameFilled ==
  ASSUME NEW m \in Msg, m.id \in Ids \ {HELLO}
  PROVE  /\ Len(Body(m)) = FrameSize(m)
         /\ \A octet : Encode(m, octet) = Body(m)
<1>1. /\ Len(Body(m)) = 2 + 1 + 1 + 2 + Len(PutFlat(m))
      /\ Body(m) \in Frame
  BY BodyShape
<1>2. PutFlat(m) \in Frame /\ Len(PutFlat(m)) = FlatSize(m) BY PutFlatType
<1>3. FlatSize(m) \in Nat BY <1>2 DEF Frame
<1>4. FrameSize(m) = 2 + 1 + (1 + 2) + FlatSize(m) BY DEF FrameSize
<1>5. Len(Body(m)) = FrameSize(m) BY <1>1, <1>2, <1>3, <1>4
<1>6. \A octet : Padding(m, octet) = <<>>
  <2>1. FrameSize(m) <= Len(Body(m)) BY <1>3, <1>4, <1>5
  <2> QED BY <2>1 DEF Padding
<1>7. Body(m) \o <<>> = Body(m) BY <1>1, ConcatEmptySeq DEF Frame
<1> QED BY <1>5, <1>6, <1>7 DEF Encode

\* What zre_msg_recv makes of the frame of a message without lists or content,
\* whatever the object it fills was: the fields of the message's type are the
\* ones sent, the others are left alone.
THEOREM ControlRoundTrip ==
  ASSUME NEW m0 \in Msg, NEW m \in Msg, m.id \in Control, NEW octet
  PROVE  LET c == Decode(m0, Encode(m, octet))
             plain == SetSequence(SetId(m0, m.id), m.sequence)
         IN  /\ c.rc = 0
             /\ m.id \in {JOIN, LEAVE} =>
                    c.m = SetStatus(SetGroup(plain, m.group), m.status)
             /\ m.id = ELECT =>
                    c.m = SetChallenger(SetGroup(plain, m.group), m.challenger)
             /\ m.id = LEADER =>
                    c.m = SetLeader(SetGroup(plain, m.group), m.leader)
             /\ m.id \in {PING, PING_OK, GOODBYE} => c.m = plain
<1> DEFINE m1 == SetId(m0, m.id)
           plain == SetSequence(m1, m.sequence)
           flat == PutFlat(m)
           u == PutNumber2(m.sequence) \o flat
           rest == PutNumber1(2) \o u
           v == PutNumber1(m.id) \o rest
           d == At(plain, flat)
           c == Decode(m0, Encode(m, octet))
<1>1. /\ m.group \in Buffer /\ m.challenger \in Buffer /\ m.leader \in Buffer
      /\ m.status \in Octet /\ m.sequence \in 0 .. Base * Base - 1
      /\ m.id \in Octet /\ 2 \in Octet
  BY BaseType DEF Msg, Octet
<1>2. m.id \in Ids \ {HELLO}
  BY DEF Control, Ids, HELLO, GOODBYE, JOIN, LEAVE, PING, PING_OK, ELECT, LEADER
<1>3. Encode(m, octet) = PutNumber2(Signature) \o v
  BY <1>2, FrameFilled, BodyShape
<1>4. flat \in Frame
  <2>1. m.id # HELLO BY <1>2
  <2> QED BY <2>1, PutFlatType
<1>5. m1.id = m.id BY DEF SetId, Msg
<1> HIDE DEF flat, m1, plain
<1>6. u \in Frame BY <1>1, <1>4, PairRead
<1> HIDE DEF u
<1>7. rest \in Frame BY <1>1, <1>6, OctetRead
<1> HIDE DEF rest
<1>8. v \in Frame BY <1>1, <1>7, OctetRead
<1> HIDE DEF v
\* The signature, the id, the version and the sequence number.
<1>9. GetSignature(At(m0, Encode(m, octet))) = At(m0, v)
  BY <1>3, <1>8, CheckedRead
<1>10. GetNumber1(At(m0, v), SetId) = At(m1, rest)
  BY <1>1, <1>7, NumberRead DEF v, m1
<1>11. GetVersion(At(m1, rest)) = At(m1, u) BY <1>6, CheckedRead DEF rest
<1>12. GetNumber2(At(m1, u), SetSequence) = At(plain, flat)
  BY <1>1, <1>4, NumberRead DEF u, plain
<1>13. RecvPing(At(m1, rest)) = d BY <1>11, <1>12 DEF RecvPing
<1>14. At(m1, rest).ok /\ At(m1, rest).m = m1 BY DEF At
<1>15. /\ d.m = plain /\ d.rc = 0 BY DEF At
<1> HIDE DEF d
\* The fields of each type.
<1>16. CASE m.id \in {PING, PING_OK, GOODBYE}
  <2>1. c = d
    BY <1>2, <1>5, <1>9, <1>10, <1>13, <1>14, <1>16
       DEF Decode, HELLO, SHOUT, JOIN, LEAVE, ELECT, LEADER, PING, PING_OK, GOODBYE
  <2> QED BY <1>15, <1>16, <2>1 DEF JOIN, LEAVE, ELECT, LEADER, PING, PING_OK, GOODBYE, plain, m1
<1>17. <<>> \in Frame BY DEF Frame
<1>18. CASE m.id \in {JOIN, LEAVE}
  <2>1. c = GetNumber1(GetString(d, SetGroup), SetStatus)
    BY <1>2, <1>5, <1>9, <1>10, <1>13, <1>14, <1>18
       DEF Decode, HELLO, SHOUT, JOIN, LEAVE, ELECT, LEADER, RecvJoin, RecvLeave
  <2>2. flat = PutString(m.group) \o PutNumber1(m.status)
    <3>1. CASE m.id = JOIN
      BY <3>1 DEF flat, PutFlat, JOIN, LEAVE, SHOUT, ELECT, LEADER
    <3>2. CASE m.id = LEAVE
      BY <3>2 DEF flat, PutFlat, JOIN, LEAVE, SHOUT, ELECT, LEADER
    <3> QED BY <1>18, <3>1, <3>2
  <2>3. /\ PutNumber1(m.status) \in Frame
        /\ PutNumber1(m.status) \o <<>> = PutNumber1(m.status)
    <3>1. PutNumber1(m.status) = <<m.status>> BY <1>1, OctetPut
    <3>2. PutNumber1(m.status) \in Frame BY <1>1, <3>1, FrameConcat
    <3> QED BY <3>2, ConcatEmptySeq DEF Frame
  <2>4. GetString(d, SetGroup)
          = At(SetGroup(plain, m.group), PutNumber1(m.status))
    BY <1>1, <2>2, <2>3, TextRead DEF d
  <2>5. GetNumber1(At(SetGroup(plain, m.group), PutNumber1(m.status) \o <<>>),
                   SetStatus)
          = At(SetStatus(SetGroup(plain, m.group), m.status), <<>>)
    BY <1>1, <1>17, NumberRead
  <2>6. c = At(SetStatus(SetGroup(plain, m.group), m.status), <<>>)
    BY <2>1, <2>3, <2>4, <2>5
  <2>7. c.rc = 0 /\ c.m = SetStatus(SetGroup(plain, m.group), m.status)
    BY <2>6 DEF At
  <2> QED
    BY <1>18, <2>7
       DEF JOIN, LEAVE, ELECT, LEADER, PING, PING_OK, GOODBYE, plain, m1
<1>19. CASE m.id = ELECT
  <2>1. c = RecvElect(d)
    BY <1>2, <1>5, <1>9, <1>10, <1>13, <1>14, <1>19
       DEF Decode, HELLO, SHOUT, JOIN, LEAVE, ELECT, LEADER
  <2>2. flat = PutString(m.group) \o PutString(m.challenger)
    BY <1>19 DEF flat, PutFlat, JOIN, LEAVE, SHOUT, ELECT, LEADER
  <2>3. PutString(m.challenger) \in Frame BY <1>1, StringPut
  <2>4. GetString(d, SetGroup) = At(SetGroup(plain, m.group), PutString(m.challenger))
    BY <1>1, <2>2, <2>3, TextRead DEF d
  <2>5. GetString(At(SetGroup(plain, m.group), PutString(m.challenger) \o <<>>),
                  SetChallenger)
          = At(SetChallenger(SetGroup(plain, m.group), m.challenger), <<>>)
    BY <1>1, <1>17, TextRead
  <2>6. PutString(m.challenger) \o <<>> = PutString(m.challenger)
    BY <2>3, ConcatEmptySeq DEF Frame
  <2>7. c = At(SetChallenger(SetGroup(plain, m.group), m.challenger), <<>>)
    BY <2>1, <2>4, <2>5, <2>6 DEF RecvElect
  <2>8. c.rc = 0 /\ c.m = SetChallenger(SetGroup(plain, m.group), m.challenger)
    BY <2>7 DEF At
  <2> QED
    BY <1>19, <2>8
       DEF JOIN, LEAVE, ELECT, LEADER, PING, PING_OK, GOODBYE, plain, m1
<1>20. CASE m.id = LEADER
  <2>1. c = RecvLeader(d)
    BY <1>2, <1>5, <1>9, <1>10, <1>13, <1>14, <1>20
       DEF Decode, HELLO, SHOUT, JOIN, LEAVE, ELECT, LEADER
  <2>2. flat = PutString(m.group) \o PutString(m.leader)
    BY <1>20 DEF flat, PutFlat, JOIN, LEAVE, SHOUT, ELECT, LEADER
  <2>3. PutString(m.leader) \in Frame BY <1>1, StringPut
  <2>4. GetString(d, SetGroup) = At(SetGroup(plain, m.group), PutString(m.leader))
    BY <1>1, <2>2, <2>3, TextRead DEF d
  <2>5. GetString(At(SetGroup(plain, m.group), PutString(m.leader) \o <<>>),
                  SetLeader)
          = At(SetLeader(SetGroup(plain, m.group), m.leader), <<>>)
    BY <1>1, <1>17, TextRead
  <2>6. PutString(m.leader) \o <<>> = PutString(m.leader)
    BY <2>3, ConcatEmptySeq DEF Frame
  <2>7. c = At(SetLeader(SetGroup(plain, m.group), m.leader), <<>>)
    BY <2>1, <2>4, <2>5, <2>6 DEF RecvLeader
  <2>8. c.rc = 0 /\ c.m = SetLeader(SetGroup(plain, m.group), m.leader)
    BY <2>7 DEF At
  <2> QED
    BY <1>20, <2>8
       DEF JOIN, LEAVE, ELECT, LEADER, PING, PING_OK, GOODBYE, plain, m1
<1> QED BY <1>16, <1>18, <1>19, <1>20 DEF Control

-----------------------------------------------------------------------------
(***************************************************************************)
(* Functions that are built step by step over the places of a list: such a *)
(* function exists, so that CHOOSE finds it, and it is what its steps say. *)
(***************************************************************************)

LEMMA LeastElement ==
    ASSUME NEW T \in SUBSET Nat, T # {}
    PROVE  \E m \in T : \A k \in T : m <= k
<1> DEFINE R == OpToRel(<, Nat)
<1>1. IsWellFoundedOn(R, Nat)
  BY NatLessThanWellFounded
<1>2. \A x, y \in Nat : <<y, x>> \in R <=> y < x
  BY DEF OpToRel
<1> HIDE DEF R
<1>3. \E x \in T : \A y \in T : ~(<<y, x>> \in R)
  BY <1>1, WFMin
<1>4. PICK x \in T : \A y \in T : ~(<<y, x>> \in R)
  BY <1>3
<1>5. \A y \in T : ~(y < x)
  BY <1>2, <1>4
<1>6. \A a, b \in Nat : ~(a < b) => b <= a
  OBVIOUS
<1> QED BY <1>5, <1>6

\* A set of numbers that holds i, and with every number below n the next one.
LEMMA Climb ==
    ASSUME NEW S, NEW i \in Nat, NEW n \in Nat, i \in S,
           \A k \in i .. n - 1 : k \in S => k + 1 \in S
    PROVE  \A k \in i .. n : k \in S
<1> DEFINE T == {k \in Nat : i <= k /\ k <= n /\ k \notin S}
<1> SUFFICES ASSUME T # {} PROVE FALSE
  OBVIOUS
<1>1. PICK m \in T : \A k \in T : m <= k
  BY LeastElement
<1>2. m # i /\ m \in Nat /\ i <= m /\ m <= n /\ m \notin S
  BY <1>1
<1>3. m - 1 \in i .. n - 1 /\ m - 1 \in Nat
  BY <1>2
<1>4. m - 1 \in S
  BY <1>1, <1>3
<1> QED BY <1>2, <1>3, <1>4

Built(g, a, F, n) ==
  g = [k \in 0 .. n |-> IF k = 0 THEN a ELSE F[<<k, g[k - 1]>>]]

LEMMA BuiltSteps ==
  ASSUME NEW g, NEW a, NEW F, NEW n \in Nat, Built(g, a, F, n)
  PROVE  /\ g = [k \in 0 .. n |-> g[k]]
         /\ g[0] = a
         /\ \A k \in 1 .. n : g[k] = F[<<k, g[k - 1]>>]
<1>1. /\ g = [k \in 0 .. n |-> g[k]]
      /\ \A k \in 0 .. n : g[k] = IF k = 0 THEN a ELSE F[<<k, g[k - 1]>>]
  BY DEF Built
<1>2. 0 \in 0 .. n /\ \A k \in 1 .. n : k \in 0 .. n /\ k # 0
  OBVIOUS
<1> QED BY <1>1, <1>2

LEMMA StepsBuild ==
  ASSUME NEW g, NEW a, NEW F, NEW n \in Nat, g = [k \in 0 .. n |-> g[k]], g[0] = a,
         \A k \in 1 .. n : g[k] = F[<<k, g[k - 1]>>]
  PROVE  Built(g, a, F, n)
<1>1. \A k \in 0 .. n : k # 0 => k \in 1 .. n
  OBVIOUS
<1>2. \A k \in 0 .. n : g[k] = IF k = 0 THEN a ELSE F[<<k, g[k - 1]>>]
  BY <1>1
<1> QED BY <1>2 DEF Built

LEMMA BuiltExists ==
  ASSUME NEW V, NEW a \in V, NEW n \in Nat, NEW F \in [(1 .. n) \X V -> V]
  PROVE  \E g : Built(g, a, F, n)
<1> DEFINE S == {k \in Nat : \E g \in [0 .. k -> V] : Built(g, a, F, k)}
<1>1. 0 \in S
  <2> DEFINE g == [k \in 0 .. 0 |-> a]
  <2>1. g \in [0 .. 0 -> V] /\ g = [k \in 0 .. 0 |-> g[k]] /\ g[0] = a
    OBVIOUS
  <2> HIDE DEF g
  <2>2. \A k \in 1 .. 0 : g[k] = F[<<k, g[k - 1]>>]
    OBVIOUS
  <2>3. Built(g, a, F, 0)
    BY <2>1, <2>2, StepsBuild
  <2> QED BY <2>1, <2>3
<1>2. ASSUME NEW k \in 0 .. n - 1, k \in S PROVE k + 1 \in S
  <2>1. PICK h \in [0 .. k -> V] : Built(h, a, F, k)
    BY <1>2
  <2>2. k \in Nat /\ h[0] = a /\ \A j \in 1 .. k : h[j] = F[<<j, h[j - 1]>>]
    BY <2>1, BuiltSteps
  <2> DEFINE last1 == F[<<k + 1, h[k]>>]
             g == [j \in 0 .. k + 1 |-> IF j = k + 1 THEN last1 ELSE h[j]]
  <2>3. last1 \in V
    <3>1. h[k] \in V /\ k + 1 \in 1 .. n
      BY <2>1, <2>2
    <3> QED BY <3>1
  <2> HIDE DEF last1
  <2>4. g \in [0 .. k + 1 -> V] /\ g[0] = a /\ g[k + 1] = last1 /\ g[k] = h[k]
    BY <2>1, <2>2, <2>3
  <2>5. ASSUME NEW j \in 1 .. k PROVE g[j] = F[<<j, g[j - 1]>>]
    <3>1. j \in 0 .. k + 1 /\ j - 1 \in 0 .. k + 1 /\ j # k + 1 /\ j - 1 # k + 1
      BY <2>2
    <3> QED BY <2>2, <3>1
  <2> HIDE DEF g
  <2>6. \A j \in 1 .. k + 1 : g[j] = F[<<j, g[j - 1]>>]
    <3>1. \A j \in 1 .. k + 1 : j \in 1 .. k \/ j = k + 1
      BY <2>2
    <3>2. (k + 1) - 1 = k
      BY <2>2
    <3>3. g[k + 1] = F[<<k + 1, g[(k + 1) - 1]>>]
      BY <2>4, <3>2 DEF last1
    <3> QED BY <2>5, <3>1, <3>3
  <2>7. g = [j \in 0 .. k + 1 |-> g[j]] /\ k + 1 \in Nat
    BY <2>2, <2>4
  <2>8. Built(g, a, F, k + 1)
    BY <2>4, <2>6, <2>7, StepsBuild
  <2> QED BY <2>4, <2>7, <2>8
<1> HIDE DEF S
<1>3. \A k \in 0 .. n : k \in S
  BY <1>1, <1>2, Climb
<1> QED BY <1>3 DEF S

\* What is built of values of V is in V.
LEMMA BuiltType ==
  ASSUME NEW V, NEW a \in V, NEW n \in Nat, NEW F, NEW g, Built(g, a, F, n),
         \A k \in 1 .. n : \A x \in V : F[<<k, x>>] \in V
  PROVE  \A k \in 0 .. n : g[k] \in V
<1>1. g[0] = a /\ \A k \in 1 .. n : g[k] = F[<<k, g[k - 1]>>]
  BY BuiltSteps
<1> DEFINE S == {k \in Nat : g[k] \in V}
<1>2. 0 \in S
  BY <1>1
<1>3. ASSUME NEW k \in 0 .. n - 1, k \in S PROVE k + 1 \in S
  <2>1. k + 1 \in 1 .. n /\ (k + 1) - 1 = k /\ g[k] \in V /\ k + 1 \in Nat
    BY <1>3
  <2>2. F[<<k + 1, g[k]>>] \in V
    BY <2>1
  <2> QED BY <1>1, <2>1, <2>2
<1> HIDE DEF S
<1>4. \A k \in 0 .. n : k \in S
  BY <1>2, <1>3, Climb
<1> QED BY <1>4 DEF S

-----------------------------------------------------------------------------
(***************************************************************************)
(* What is put into a frame is octets, and as many as were counted: the    *)
(* lists of a HELLO too.                                                   *)
(***************************************************************************)
LEMMA OctetsAreFrames == CString \subseteq Frame /\ Buffer \subseteq CString
<1>1. 1 .. Base - 1 \subseteq Octet
  BY BaseType DEF Octet
<1> QED BY <1>1, SeqMonotonic DEF CString, Frame, Buffer

LEMMA NumbersPut ==
  ASSUME NEW n \in Nat
  PROVE  /\ PutNumber1(n) \in Frame /\ Len(PutNumber1(n)) = 1
         /\ PutNumber2(n) \in Frame /\ Len(PutNumber2(n)) = 2
         /\ PutNumber4(n) \in Frame /\ Len(PutNumber4(n)) = 4
<1>1. \A k \in Nat : k % Base \in Octet
  BY BaseType DEF Octet
<1>2. \A k \in Nat : k \div Base \in Nat /\ k \div (Base * Base) \in Nat
  <2>1. \A b \in Nat : b >= 16 => b * b \in Nat /\ b * b > 0
    BY Z3
  <2>2. \A b \in Nat : b > 0 => \A k \in Nat : k \div b \in Nat
    BY Z3
  <2> QED BY BaseType, <2>1, <2>2
<1>3. PutNumber1(n) \in Frame /\ Len(PutNumber1(n)) = 1
  BY <1>1 DEF PutNumber1, Frame
<1>4. ASSUME NEW k \in Nat PROVE PutNumber2(k) \in Frame /\ Len(PutNumber2(k)) = 2
  <2> DEFINE a == (k \div Base) % Base
             b == k % Base
  <2>1. a \in Octet /\ b \in Octet
    BY <1>1, <1>2
  <2> HIDE DEF a, b
  <2>2. <<a, b>> \in Frame /\ Len(<<a, b>>) = 2
    BY <2>1 DEF Frame
  <2> QED BY <2>2 DEF PutNumber2, a, b
<1>5. PutNumber4(n) \in Frame /\ Len(PutNumber4(n)) = 4
  <2> DEFINE c == PutNumber2(n \div (Base * Base))
             d == PutNumber2(n)
  <2>1. c \in Frame /\ d \in Frame /\ Len(c) = 2 /\ Len(d) = 2
    BY <1>2, <1>4
  <2> HIDE DEF c, d
  <2>2. c \o d \in Frame /\ Len(c \o d) = Len(c) + Len(d)
    BY <2>1, FrameConcat
  <2>3. Len(c \o d) = 4
    BY <2>1, <2>2
  <2> QED BY <2>2, <2>3 DEF PutNumber4, c, d
<1> QED BY <1>3, <1>4, <1>5

LEMMA TextsPut ==
  ASSUME NEW s \in Frame
  PROVE  /\ PutString(s) \in Frame /\ Len(PutString(s)) = 1 + Len(s)
         /\ PutLongstr(s) \in Frame /\ Len(PutLongstr(s)) = 4 + Len(s)
<1> DEFINE a == PutNumber1(Len(s))
           b == PutNumber4(Len(s))
<1>1. Len(s) \in Nat /\ a \in Frame /\ b \in Frame /\ Len(a) = 1 /\ Len(b) = 4
  BY FrameConcat, NumbersPut
<1> HIDE DEF a, b
<1>2. a \o s \in Frame /\ Len(a \o s) = 1 + Len(s)
  BY <1>1, FrameConcat
<1>3. b \o s \in Frame /\ Len(b \o s) = 4 + Len(s)
  BY <1>1, FrameConcat
<1> QED BY <1>2, <1>3 DEF PutString, PutLongstr, a, b

\* Frames one behind the other, and their lengths added up.
LEMMA Concatenated ==
  ASSUME NEW n \in Nat, NEW f, \A k \in 1 .. n : f[k] \in Frame
  PROVE  \E g : /\ g = [k \in 0 .. n |-> IF k = 0 THEN <<>> ELSE g[k - 1] \o f[k]]
                /\ \A k \in 0 .. n : g[k] \in Frame
<1> DEFINE F == [x \in (1 .. n) \X Frame |-> x[2] \o f[x[1]]]
<1>1. F \in [(1 .. n) \X Frame -> Frame]
  <2>1. \A x \in (1 .. n) \X Frame : x[2] \o f[x[1]] \in Frame
    BY FrameConcat
  <2> QED BY <2>1
<1>2. \A k \in 1 .. n : \A u \in Frame : F[<<k, u>>] = u \o f[k]
  OBVIOUS
<1>3. <<>> \in Frame
  BY DEF Frame
<1> HIDE DEF F
<1>4. PICK g : Built(g, <<>>, F, n)
  BY <1>1, <1>3, BuiltExists
<1>5. /\ g = [k \in 0 .. n |-> g[k]] /\ g[0] = <<>>
      /\ \A k \in 1 .. n : g[k] = F[<<k, g[k - 1]>>]
  BY <1>4, BuiltSteps
<1>6. \A k \in 0 .. n : g[k] \in Frame
  <2>1. \A k \in 1 .. n : \A x \in Frame : F[<<k, x>>] \in Frame
    BY <1>1
  <2> QED BY <1>3, <1>4, <2>1, BuiltType
<1>7. \A k \in 0 .. n : g[k] = IF k = 0 THEN <<>> ELSE g[k - 1] \o f[k]
  <2>1. \A k \in 0 .. n : k # 0 => k \in 1 .. n /\ k - 1 \in 0 .. n
    OBVIOUS
  <2> QED BY <1>2, <1>5, <1>6, <2>1
<1> QED BY <1>5, <1>6, <1>7

LEMMA Summed ==
  ASSUME NEW n \in Nat, NEW f, \A k \in 1 .. n : f[k] \in Nat
  PROVE  \E g : /\ g = [k \in 0 .. n |-> IF k = 0 THEN 0 ELSE g[k - 1] + f[k]]
                /\ \A k \in 0 .. n : g[k] \in Nat
<1> DEFINE F == [x \in (1 .. n) \X Nat |-> x[2] + f[x[1]]]
<1>1. F \in [(1 .. n) \X Nat -> Nat]
  <2>1. \A x \in (1 .. n) \X Nat : x[2] + f[x[1]] \in Nat
    OBVIOUS
  <2> QED BY <2>1
<1>2. \A k \in 1 .. n : \A u \in Nat : F[<<k, u>>] = u + f[k]
  OBVIOUS
<1> HIDE DEF F
<1>4. PICK g : Built(g, 0, F, n)
  BY <1>1, BuiltExists
<1>5. /\ g = [k \in 0 .. n |-> g[k]] /\ g[0] = 0
      /\ \A k \in 1 .. n : g[k] = F[<<k, g[k - 1]>>]
  BY <1>4, BuiltSteps
<1>6. \A k \in 0 .. n : g[k] \in Nat
  <2>1. \A k \in 1 .. n : \A x \in Nat : F[<<k, x>>] \in Nat
    BY <1>1
  <2> QED BY <1>4, <2>1, BuiltType
<1>7. \A k \in 0 .. n : g[k] = IF k = 0 THEN 0 ELSE g[k - 1] + f[k]
  <2>1. \A k \in 0 .. n : k # 0 => k \in 1 .. n /\ k - 1 \in 0 .. n
    OBVIOUS
  <2> QED BY <1>2, <1>5, <1>6, <2>1
<1> QED BY <1>5, <1>6, <1>7

\* The two keep step.
Concat(g, f, n) ==
  /\ g[0] = <<>> /\ \A k \in 0 .. n : g[k] \in Frame
  /\ \A k \in 1 .. n : f[k] \in Frame /\ g[k] = g[k - 1] \o f[k]
Adds(g, f, n) ==
  /\ g[0] = 0 /\ \A k \in 0 .. n : g[k] \in Nat
  /\ \A k \in 1 .. n : f[k] \in Nat /\ g[k] = g[k - 1] + f[k]

LEMMA ConcatSteps ==
  ASSUME NEW n \in Nat, NEW f, \A k \in 1 .. n : f[k] \in Frame, NEW g,
         g = [k \in 0 .. n |-> IF k = 0 THEN <<>> ELSE g[k - 1] \o f[k]]
  PROVE  Concat(g, f, n)
<1>1. \A k \in 0 .. n : g[k] = IF k = 0 THEN <<>> ELSE g[k - 1] \o f[k]
  OBVIOUS
<1>2. g[0] = <<>> /\ \A k \in 1 .. n : g[k] = g[k - 1] \o f[k]
  <2>1. 0 \in 0 .. n /\ \A k \in 1 .. n : k \in 0 .. n /\ k # 0
    OBVIOUS
  <2> QED BY <1>1, <2>1
<1> DEFINE S == {k \in Nat : g[k] \in Frame}
<1>3. 0 \in S
  BY <1>2 DEF Frame
<1>4. ASSUME NEW k \in 0 .. n - 1, k \in S PROVE k + 1 \in S
  <2>1. k + 1 \in 1 .. n /\ (k + 1) - 1 = k /\ k + 1 \in Nat
    OBVIOUS
  <2>2. g[k] \in Frame /\ f[k + 1] \in Frame /\ g[k + 1] = g[k] \o f[k + 1]
    BY <1>2, <1>4, <2>1
  <2>3. g[k + 1] \in Frame
    BY <2>2, FrameConcat
  <2> QED BY <2>1, <2>3
<1> HIDE DEF S
<1>5. \A k \in 0 .. n : k \in S
  BY <1>3, <1>4, Climb
<1> QED BY <1>2, <1>5 DEF Concat, S

LEMMA AddsSteps ==
  ASSUME NEW n \in Nat, NEW f, \A k \in 1 .. n : f[k] \in Nat, NEW g,
         g = [k \in 0 .. n |-> IF k = 0 THEN 0 ELSE g[k - 1] + f[k]]
  PROVE  Adds(g, f, n)
<1>1. \A k \in 0 .. n : g[k] = IF k = 0 THEN 0 ELSE g[k - 1] + f[k]
  OBVIOUS
<1>2. g[0] = 0 /\ \A k \in 1 .. n : g[k] = g[k - 1] + f[k]
  <2>1. 0 \in 0 .. n /\ \A k \in 1 .. n : k \in 0 .. n /\ k # 0
    OBVIOUS
  <2> QED BY <1>1, <2>1
<1> DEFINE S == {k \in Nat : g[k] \in Nat}
<1>3. 0 \in S
  BY <1>2
<1>4. ASSUME NEW k \in 0 .. n - 1, k \in S PROVE k + 1 \in S
  <2>1. k + 1 \in 1 .. n /\ (k + 1) - 1 = k /\ k + 1 \in Nat
    OBVIOUS
  <2>2. g[k] \in Nat /\ f[k + 1] \in Nat /\ g[k + 1] = g[k] + f[k + 1]
    BY <1>2, <1>4, <2>1
  <2> QED BY <2>1, <2>2
<1> HIDE DEF S
<1>5. \A k \in 0 .. n : k \in S
  BY <1>3, <1>4, Climb
<1> QED BY <1>2, <1>5 DEF Adds, S

LEMMA LengthsAdd ==
  ASSUME NEW n \in Nat, NEW put, NEW f, NEW sum, NEW size, Concat(put, f, n),
         Adds(sum, size, n), \A k \in 1 .. n : Len(f[k]) = size[k]
  PROVE  Len(put[n]) = sum[n]
<1> DEFINE S == {k \in Nat : Len(put[k]) = sum[k]}
<1>1. 0 \in S
  BY DEF Concat, Adds
<1>2. ASSUME NEW k \in 0 .. n - 1, k \in S PROVE k + 1 \in S
  <2>1. k + 1 \in 1 .. n /\ (k + 1) - 1 = k /\ k + 1 \in Nat /\ k \in 0 .. n
    OBVIOUS
  <2>2. /\ put[k] \in Frame /\ f[k + 1] \in Frame /\ put[k + 1] = put[k] \o f[k + 1]
        /\ sum[k + 1] = sum[k] + size[k + 1] /\ Len(f[k + 1]) = size[k + 1]
    BY <2>1 DEF Concat, Adds
  <2>3. Len(put[k + 1]) = Len(put[k]) + Len(f[k + 1])
    BY <2>2, FrameConcat
  <2> QED BY <1>2, <2>1, <2>2, <2>3
<1> HIDE DEF S
<1>3. \A k \in 0 .. n : k \in S
  BY <1>1, <1>2, Climb
<1> QED BY <1>3 DEF S

\* A list, as zre_msg_send puts its strings and counts them.
Longstrs(items) == [k \in 1 .. Len(items) |-> PutLongstr(items[k])]

LEMMA ListPut ==
  ASSUME NEW items \in Seq(CString)
  PROVE  \E put : /\ Concat(put, Longstrs(items), Len(items))
                  /\ PutAll(PutLongstr, items) = PutNumber4(Len(items)) \o put[Len(items)]
<1> DEFINE n == Len(items)
           f == Longstrs(items)
           R(put) == put = [k \in 0 .. n |->
                        IF k = 0 THEN <<>> ELSE put[k - 1] \o PutLongstr(items[k])]
<1>1. n \in Nat /\ \A k \in 1 .. n : f[k] = PutLongstr(items[k]) /\ f[k] \in Frame
  BY TextsPut, OctetsAreFrames DEF Longstrs
<1> HIDE DEF n, f
<1>2. PICK g : /\ g = [k \in 0 .. n |-> IF k = 0 THEN <<>> ELSE g[k - 1] \o f[k]]
               /\ \A k \in 0 .. n : g[k] \in Frame
  BY <1>1, Concatenated
<1>3. R(g)
  <2>1. \A k \in 0 .. n : (IF k = 0 THEN <<>> ELSE g[k - 1] \o f[k])
                            = IF k = 0 THEN <<>> ELSE g[k - 1] \o PutLongstr(items[k])
    BY <1>1
  <2> QED BY <1>2, <2>1
<1> DEFINE put == CHOOSE h : R(h)
<1>4. R(put) /\ PutAll(PutLongstr, items) = PutNumber4(n) \o put[n]
  BY <1>3 DEF PutAll, n
<1> HIDE DEF put
<1>5. put = [k \in 0 .. n |-> IF k = 0 THEN <<>> ELSE put[k - 1] \o f[k]]
  <2>1. \A k \in 0 .. n : (IF k = 0 THEN <<>> ELSE put[k - 1] \o f[k])
                            = IF k = 0 THEN <<>> ELSE put[k - 1] \o PutLongstr(items[k])
    BY <1>1
  <2> QED BY <1>4, <2>1
<1>6. Concat(put, f, n)
  BY <1>1, <1>5, ConcatSteps
<1> QED BY <1>4, <1>6 DEF n, f

LEMMA ListCounted ==
  ASSUME NEW items \in Seq(CString)
  PROVE  /\ PutAll(PutLongstr, items) \in Frame
         /\ SumOf(LAMBDA s : 4 + Len(s), items) \in Nat
         /\ Len(PutAll(PutLongstr, items)) = 4 + SumOf(LAMBDA s : 4 + Len(s), items)
<1> DEFINE n == Len(items)
           f == Longstrs(items)
           size == [k \in 1 .. n |-> 4 + Len(items[k])]
           R(sum) == sum = [k \in 0 .. n |->
                        IF k = 0 THEN 0 ELSE sum[k - 1] + (4 + Len(items[k]))]
           total == SumOf(LAMBDA s : 4 + Len(s), items)
<1>1. /\ n \in Nat
      /\ \A k \in 1 .. n : /\ Len(f[k]) = size[k] /\ size[k] \in Nat
                           /\ size[k] = 4 + Len(items[k])
  <2>1. ASSUME NEW k \in 1 .. n
        PROVE  Len(f[k]) = 4 + Len(items[k]) /\ 4 + Len(items[k]) \in Nat
    <3>1. items[k] \in Frame /\ Len(items[k]) \in Nat
      BY OctetsAreFrames DEF CString
    <3> QED BY <3>1, TextsPut DEF Longstrs
  <2> QED BY <2>1
<1>2. PICK put : /\ Concat(put, f, n)
                 /\ PutAll(PutLongstr, items) = PutNumber4(n) \o put[n]
  BY ListPut
<1> DEFINE sum == CHOOSE h : R(h)
<1>3. total = sum[n]
  BY DEF SumOf
<1> HIDE DEF n, f, size
<1>4. R(sum)
  <2>1. PICK g : /\ g = [k \in 0 .. n |-> IF k = 0 THEN 0 ELSE g[k - 1] + size[k]]
                 /\ \A k \in 0 .. n : g[k] \in Nat
    BY <1>1, Summed
  <2>2. \A k \in 0 .. n : (IF k = 0 THEN 0 ELSE g[k - 1] + size[k])
                            = IF k = 0 THEN 0 ELSE g[k - 1] + (4 + Len(items[k]))
    BY <1>1
  <2>3. R(g)
    BY <2>1, <2>2
  <2> QED BY <2>3
<1> HIDE DEF sum, total
<1>5. Adds(sum, size, n)
  <2>1. \A k \in 0 .. n : (IF k = 0 THEN 0 ELSE sum[k - 1] + size[k])
                            = IF k = 0 THEN 0 ELSE sum[k - 1] + (4 + Len(items[k]))
    BY <1>1
  <2>2. sum = [k \in 0 .. n |-> IF k = 0 THEN 0 ELSE sum[k - 1] + size[k]]
    BY <1>4, <2>1
  <2> QED BY <1>1, <2>2, AddsSteps
<1>6. Len(put[n]) = sum[n] /\ put[n] \in Frame /\ sum[n] \in Nat
  <2>1. n \in 0 .. n
    BY <1>1
  <2>2. Len(put[n]) = sum[n]
    BY <1>1, <1>2, <1>5, LengthsAdd
  <2> QED BY <1>2, <1>5, <2>1, <2>2 DEF Concat, Adds
<1>7. /\ PutNumber4(n) \o put[n] \in Frame
      /\ Len(PutNumber4(n) \o put[n]) = 4 + sum[n]
  <2>1. PutNumber4(n) \in Frame /\ Len(PutNumber4(n)) = 4
    BY <1>1, NumbersPut
  <2>2. /\ PutNumber4(n) \o put[n] \in Frame
        /\ Len(PutNumber4(n) \o put[n]) = Len(PutNumber4(n)) + Len(put[n])
    BY <1>6, <2>1, FrameConcat
  <2> QED BY <1>6, <2>1, <2>2
<1> QED BY <1>2, <1>3, <1>6, <1>7 DEF total

\* The same for the headers.
Headers(items) == [k \in 1 .. Len(items) |-> PutHeader(items[k])]

LEMMA HeaderPut ==
  ASSUME NEW h \in Header
  PROVE  /\ h[1] \in CString /\ h[2] \in CString
         /\ Len(h[1]) \in Nat /\ Len(h[2]) \in Nat
         /\ PutHeader(h) \in Frame /\ Len(PutHeader(h)) = 1 + Len(h[1]) + 4 + Len(h[2])
<1> DEFINE a == PutString(h[1])
           b == PutLongstr(h[2])
<1>1. h[1] \in CString /\ h[2] \in CString
  BY DEF Header
<1>2. h[1] \in Frame /\ h[2] \in Frame /\ Len(h[1]) \in Nat /\ Len(h[2]) \in Nat
  BY <1>1, OctetsAreFrames, FrameConcat
<1>3. a \in Frame /\ b \in Frame /\ Len(a) = 1 + Len(h[1]) /\ Len(b) = 4 + Len(h[2])
  BY <1>2, TextsPut
<1> HIDE DEF a, b
<1>4. a \o b \in Frame /\ Len(a \o b) = Len(a) + Len(b)
  BY <1>3, FrameConcat
<1>5. Len(a \o b) = 1 + Len(h[1]) + 4 + Len(h[2])
  <2>1. Len(a \o b) = (1 + Len(h[1])) + (4 + Len(h[2]))
    BY <1>3, <1>4
  <2>2. \A x, y \in Nat : (1 + x) + (4 + y) = 1 + x + 4 + y
    OBVIOUS
  <2> QED BY <1>2, <2>1, <2>2
<1> QED BY <1>1, <1>2, <1>4, <1>5 DEF PutHeader, a, b

LEMMA HashPut ==
  ASSUME NEW items \in Seq(Header)
  PROVE  \E put : /\ Concat(put, Headers(items), Len(items))
                  /\ PutAll(PutHeader, items) = PutNumber4(Len(items)) \o put[Len(items)]
<1> DEFINE n == Len(items)
           f == Headers(items)
           R(put) == put = [k \in 0 .. n |->
                        IF k = 0 THEN <<>> ELSE put[k - 1] \o PutHeader(items[k])]
<1>1. n \in Nat /\ \A k \in 1 .. n : f[k] = PutHeader(items[k]) /\ f[k] \in Frame
  <2>1. \A k \in 1 .. n : items[k] \in Header
    OBVIOUS
  <2>2. \A k \in 1 .. n : PutHeader(items[k]) \in Frame
    BY <2>1, HeaderPut
  <2>3. n \in Nat /\ \A k \in 1 .. n : f[k] = PutHeader(items[k])
    BY DEF Headers
  <2> QED BY <2>2, <2>3
<1> HIDE DEF n, f
<1>2. PICK g : /\ g = [k \in 0 .. n |-> IF k = 0 THEN <<>> ELSE g[k - 1] \o f[k]]
               /\ \A k \in 0 .. n : g[k] \in Frame
  BY <1>1, Concatenated
<1>3. R(g)
  <2>1. \A k \in 0 .. n : (IF k = 0 THEN <<>> ELSE g[k - 1] \o f[k])
                            = IF k = 0 THEN <<>> ELSE g[k - 1] \o PutHeader(items[k])
    BY <1>1
  <2> QED BY <1>2, <2>1
<1> DEFINE put == CHOOSE h : R(h)
<1>4. R(put) /\ PutAll(PutHeader, items) = PutNumber4(n) \o put[n]
  BY <1>3 DEF PutAll, n
<1> HIDE DEF put
<1>5. put = [k \in 0 .. n |-> IF k = 0 THEN <<>> ELSE put[k - 1] \o f[k]]
  <2>1. \A k \in 0 .. n : (IF k = 0 THEN <<>> ELSE put[k - 1] \o f[k])
                            = IF k = 0 THEN <<>> ELSE put[k - 1] \o PutHeader(items[k])
    BY <1>1
  <2> QED BY <1>4, <2>1
<1>6. Concat(put, f, n)
  BY <1>1, <1>5, ConcatSteps
<1> QED BY <1>4, <1>6 DEF n, f

\* The octets a header takes.
Counted(h) == 1 + Len(h[1]) + 4 + Len(h[2])

LEMMA HashCounted ==
  ASSUME NEW items \in Seq(Header)
  PROVE  LET total == SumOf(LAMBDA h : 1 + Len(h[1]) + 4 + Len(h[2]), items)
         IN  /\ PutAll(PutHeader, items) \in Frame
             /\ total \in Nat
             /\ Len(PutAll(PutHeader, items)) = 4 + total
<1> DEFINE n == Len(items)
           f == Headers(items)
           size == [k \in 1 .. n |-> Counted(items[k])]
           R(sum) == sum = [k \in 0 .. n |->
                        IF k = 0 THEN 0 ELSE sum[k - 1] + Counted(items[k])]
           total == SumOf(LAMBDA h : 1 + Len(h[1]) + 4 + Len(h[2]), items)
<1>1. /\ n \in Nat
      /\ \A k \in 1 .. n : /\ Len(f[k]) = size[k] /\ size[k] \in Nat
                           /\ size[k] = Counted(items[k])
  <2>1. ASSUME NEW k \in 1 .. n
        PROVE  Len(f[k]) = Counted(items[k]) /\ Counted(items[k]) \in Nat
    <3> DEFINE x == items[k]
    <3>1. x \in Header /\ f[k] = PutHeader(x)
      BY DEF Headers
    <3> HIDE DEF x
    <3>2. /\ Len(PutHeader(x)) = Counted(x)
          /\ Len(x[1]) \in Nat /\ Len(x[2]) \in Nat
      BY <3>1, HeaderPut DEF Counted
    <3> DEFINE p == Len(x[1])
               q == Len(x[2])
    <3>3. p \in Nat /\ q \in Nat /\ Counted(x) = 1 + p + 4 + q
      BY <3>2 DEF Counted
    <3> HIDE DEF p, q
    <3>4. Counted(x) \in Nat
      BY <3>3
    <3>5. Len(f[k]) = Counted(x)
      BY <3>1, <3>2
    <3> QED BY <3>4, <3>5 DEF x
  <2> QED BY <2>1
<1>2. PICK put : /\ Concat(put, f, n)
                 /\ PutAll(PutHeader, items) = PutNumber4(n) \o put[n]
  BY HashPut
<1> DEFINE sum == CHOOSE h : R(h)
<1>3. total = sum[n]
  BY DEF SumOf, Counted
<1> HIDE DEF n, f, size
<1>4. R(sum)
  <2>1. PICK g : /\ g = [k \in 0 .. n |-> IF k = 0 THEN 0 ELSE g[k - 1] + size[k]]
                 /\ \A k \in 0 .. n : g[k] \in Nat
    BY <1>1, Summed
  <2>2. \A k \in 0 .. n : (IF k = 0 THEN 0 ELSE g[k - 1] + size[k])
                            = IF k = 0 THEN 0 ELSE g[k - 1] + Counted(items[k])
    BY <1>1
  <2>3. R(g)
    BY <2>1, <2>2
  <2> QED BY <2>3
<1> HIDE DEF sum, total
<1>5. Adds(sum, size, n)
  <2>1. \A k \in 0 .. n : (IF k = 0 THEN 0 ELSE sum[k - 1] + size[k])
                            = IF k = 0 THEN 0 ELSE sum[k - 1] + Counted(items[k])
    BY <1>1
  <2>2. sum = [k \in 0 .. n |-> IF k = 0 THEN 0 ELSE sum[k - 1] + size[k]]
    BY <1>4, <2>1
  <2> QED BY <1>1, <2>2, AddsSteps
<1>6. Len(put[n]) = sum[n] /\ put[n] \in Frame /\ sum[n] \in Nat
  <2>1. n \in 0 .. n
    BY <1>1
  <2>2. Len(put[n]) = sum[n]
    BY <1>1, <1>2, <1>5, LengthsAdd
  <2> QED BY <1>2, <1>5, <2>1, <2>2 DEF Concat, Adds
<1>7. /\ PutNumber4(n) \o put[n] \in Frame
      /\ Len(PutNumber4(n) \o put[n]) = 4 + sum[n]
  <2>1. PutNumber4(n) \in Frame /\ Len(PutNumber4(n)) = 4
    BY <1>1, NumbersPut
  <2>2. /\ PutNumber4(n) \o put[n] \in Frame
        /\ Len(PutNumber4(n) \o put[n]) = Len(PutNumber4(n)) + Len(put[n])
    BY <1>6, <2>1, FrameConcat
  <2> QED BY <1>6, <2>1, <2>2
<1> QED BY <1>2, <1>3, <1>6, <1>7 DEF total

LEMMA SumOfNothing == SumOf(LAMBDA h : 1 + Len(h[1]) + 4 + Len(h[2]), <<>>) = 0
<1> DEFINE R(sum) == sum = [k \in 0 .. Len(<<>>) |->
                IF k = 0 THEN 0
                ELSE sum[k - 1] + (1 + Len(<<>>[k][1]) + 4 + Len(<<>>[k][2]))]
           sum == CHOOSE h : R(h)
           g == [k \in 0 .. 0 |-> 0]
<1>1. Len(<<>>) = 0 /\ 0 \in 0 .. 0 /\ \A k \in 0 .. 0 : k = 0
  OBVIOUS
<1>2. R(g)
  BY <1>1
<1>3. R(sum) /\ SumOf(LAMBDA h : 1 + Len(h[1]) + 4 + Len(h[2]), <<>>) = sum[Len(<<>>)]
  BY <1>2 DEF SumOf
<1> HIDE DEF sum
<1>4. sum[0] = 0
  BY <1>1, <1>3
<1> QED BY <1>1, <1>3, <1>4

\* A HELLO fills its frame, unless its headers were counted and then taken out.
LEMMA HelloPut ==
  ASSUME NEW m \in Msg
  PROVE  /\ PutHello(m) \in Frame /\ HelloSize(m) \in Nat
         /\ HeadersBytes(m) \in Nat
         /\ m.headers # Null => Len(PutHello(m)) = HelloSize(m)
         /\ m.headers = Null => Len(PutHello(m)) + m.headersBytes = HelloSize(m)
<1> DEFINE groups == Items(m.groups)
           headers == Items(m.headers)
           a == PutString(m.endpoint)
           b == PutAll(PutLongstr, groups)
           c == PutNumber1(m.status)
           d == PutString(m.name)
           e == PutAll(PutHeader, headers)
           g == SumOf(LAMBDA s : 4 + Len(s), groups)
           h == SumOf(LAMBDA x : 1 + Len(x[1]) + 4 + Len(x[2]), headers)
<1>1. /\ m.endpoint \in Frame /\ m.name \in Frame /\ m.status \in Nat
      /\ Len(m.endpoint) \in Nat /\ Len(m.name) \in Nat /\ m.headersBytes \in Nat
  <2>1. m.endpoint \in Buffer /\ m.name \in Buffer /\ m.status \in Octet
        /\ m.headersBytes \in Nat
    BY DEF Msg
  <2> QED BY <2>1, OctetsAreFrames, FrameConcat, BaseType DEF Octet
<1>2. groups \in Seq(CString) /\ headers \in Seq(Header)
  <2>1. m.groups \in Seq(CString) \cup {Null} /\ m.headers \in Seq(Header) \cup {Null}
    BY DEF Msg
  <2>2. <<>> \in Seq(CString) /\ <<>> \in Seq(Header)
    BY EmptySeq
  <2> QED BY <2>1, <2>2 DEF Items
<1>3. a \in Frame /\ Len(a) = 1 + Len(m.endpoint) /\ d \in Frame /\ Len(d) = 1 + Len(m.name)
  BY <1>1, TextsPut
<1>4. b \in Frame /\ g \in Nat /\ Len(b) = 4 + g
  BY <1>2, ListCounted
<1>5. c \in Frame /\ Len(c) = 1
  BY <1>1, NumbersPut
<1>6. e \in Frame /\ h \in Nat /\ Len(e) = 4 + h
  BY <1>2, HashCounted
<1>7. /\ HelloSize(m) = 1 + Len(m.endpoint) + 4 + g + 1 + 1 + Len(m.name) + 4 + HeadersBytes(m)
      /\ PutHello(m) = (((a \o b) \o c) \o d) \o e
  BY DEF HelloSize, PutHello
<1>8. /\ m.headers # Null => HeadersBytes(m) = h
      /\ m.headers = Null => HeadersBytes(m) = m.headersBytes /\ h = 0
  <2>1. m.headers = Null => h = 0
    BY SumOfNothing DEF Items
  <2> QED BY <2>1 DEF HeadersBytes, Items
<1> HIDE DEF a, b, c, d, e, g, h
<1>9. /\ (((a \o b) \o c) \o d) \o e \in Frame
      /\ Len((((a \o b) \o c) \o d) \o e) = Len(a) + Len(b) + Len(c) + Len(d) + Len(e)
  <2>1. a \o b \in Frame /\ Len(a \o b) = Len(a) + Len(b)
    BY <1>3, <1>4, FrameConcat
  <2>2. (a \o b) \o c \in Frame /\ Len((a \o b) \o c) = Len(a \o b) + Len(c)
    BY <1>5, <2>1, FrameConcat
  <2>3. /\ ((a \o b) \o c) \o d \in Frame
        /\ Len(((a \o b) \o c) \o d) = Len((a \o b) \o c) + Len(d)
    BY <1>3, <2>2, FrameConcat
  <2>4. /\ (((a \o b) \o c) \o d) \o e \in Frame
        /\ Len((((a \o b) \o c) \o d) \o e) = Len(((a \o b) \o c) \o d) + Len(e)
    BY <1>6, <2>3, FrameConcat
  <2> QED BY <2>1, <2>2, <2>3, <2>4
<1>10. Len(PutHello(m)) = (1 + Len(m.endpoint)) + (4 + g) + 1 + (1 + Len(m.name)) + (4 + h)
  BY <1>3, <1>4, <1>5, <1>6, <1>7, <1>9
<1>11. HeadersBytes(m) \in Nat
  BY <1>1, <1>6, <1>8
<1> DEFINE x == Len(m.endpoint)
           y == Len(m.name)
           put == Len(PutHello(m))
           counted == HelloSize(m)
           bytes == HeadersBytes(m)
<1>12. /\ x \in Nat /\ y \in Nat /\ g \in Nat /\ h \in Nat /\ bytes \in Nat
       /\ put = (1 + x) + (4 + g) + 1 + (1 + y) + (4 + h)
       /\ counted = 1 + x + 4 + g + 1 + 1 + y + 4 + bytes
  BY <1>1, <1>4, <1>6, <1>7, <1>10, <1>11
<1> HIDE DEF x, y, put, counted, bytes
<1>13. counted \in Nat /\ put + bytes = counted + h
  BY <1>12
<1>14. /\ m.headers # Null => put = counted
       /\ m.headers = Null => put + m.headersBytes = counted
  <2>1. CASE m.headers # Null
    <3>1. bytes = h
      BY <1>8, <2>1 DEF bytes
    <3>2. put = counted
      BY <1>12, <3>1
    <3> QED BY <2>1, <3>2
  <2>2. CASE m.headers = Null
    <3>1. bytes = m.headersBytes /\ h = 0
      BY <1>8, <2>2 DEF bytes
    <3>2. put + bytes = counted
      BY <1>12, <3>1
    <3> QED BY <2>2, <3>1, <3>2
  <2> QED BY <2>1, <2>2
<1> QED BY <1>7, <1>9, <1>11, <1>13, <1>14 DEF put, counted

\* What zre_msg_send puts is what it counted; what it counted is more by the
\* headers that were taken out of a HELLO after they had been counted.
LEMMA BodyPut ==
  ASSUME NEW m \in Msg
  PROVE  /\ Body(m) \in Frame /\ FrameSize(m) \in Nat
         /\ ~(m.id = HELLO /\ m.headers = Null) => Len(Body(m)) = FrameSize(m)
         /\ (m.id = HELLO /\ m.headers = Null) =>
                Len(Body(m)) + m.headersBytes = FrameSize(m)
<1> DEFINE last1 == IF m.id = HELLO THEN PutHello(m) ELSE PutFlat(m)
           size == IF m.id = HELLO THEN HelloSize(m) ELSE FlatSize(m)
           extra == IF m.id = HELLO /\ m.headers = Null THEN m.headersBytes ELSE 0
           a == PutNumber2(Signature)
           b == PutNumber1(m.id)
           c == PutNumber1(2)
           d == PutNumber2(m.sequence)
<1>1. m.id \in Nat /\ m.sequence \in Nat /\ m.headersBytes \in Nat
  BY BaseType DEF Msg, Octet
<1>2. /\ a \in Frame /\ b \in Frame /\ c \in Frame /\ d \in Frame
      /\ Len(a) = 2 /\ Len(b) = 1 /\ Len(c) = 1 /\ Len(d) = 2
  <2>1. Signature \in Nat
    BY InputAssumption
  <2> QED BY <1>1, <2>1, NumbersPut
<1>3. /\ last1 \in Frame /\ Len(last1) \in Nat /\ size \in Nat /\ extra \in Nat
      /\ Len(last1) + extra = size
  <2>1. CASE m.id = HELLO
    BY <1>1, <2>1, HelloPut, FrameConcat
  <2>2. CASE m.id # HELLO
    <3>1. PutFlat(m) \in Frame /\ Len(PutFlat(m)) = FlatSize(m)
      BY <2>2, PutFlatType
    <3>2. Len(PutFlat(m)) \in Nat
      BY <3>1, FrameConcat
    <3> QED BY <2>2, <3>1, <3>2
  <2> QED BY <2>1, <2>2
<1>4. /\ Body(m) = (a \o b) \o IF m.id \in Ids THEN (c \o d) \o last1 ELSE <<>>
      /\ FrameSize(m) = 2 + 1 + (IF m.id \in Ids THEN 1 + 2 ELSE 0) + size
  BY DEF Body, FrameSize
<1>5. m.id \notin Ids => size = 0 /\ extra = 0
  <2>1. m.id \notin Ids => m.id \notin {HELLO, JOIN, LEAVE, SHOUT, ELECT, LEADER}
    BY DEF Ids, HELLO, GOODBYE, JOIN, LEAVE, SHOUT, ELECT, LEADER
  <2> QED BY <2>1 DEF FlatSize
<1> HIDE DEF last1, size, extra, a, b, c, d
<1>6. a \o b \in Frame /\ Len(a \o b) = 3
  <2>1. a \o b \in Frame /\ Len(a \o b) = Len(a) + Len(b)
    BY <1>2, FrameConcat
  <2> QED BY <1>2, <2>1
<1>7. (c \o d) \o last1 \in Frame /\ Len((c \o d) \o last1) = 3 + Len(last1)
  <2>1. c \o d \in Frame /\ Len(c \o d) = Len(c) + Len(d)
    BY <1>2, FrameConcat
  <2>2. (c \o d) \o last1 \in Frame /\ Len((c \o d) \o last1) = Len(c \o d) + Len(last1)
    BY <1>3, <2>1, FrameConcat
  <2> QED BY <1>2, <2>1, <2>2
<1>8. Body(m) \in Frame /\ FrameSize(m) \in Nat /\ Len(Body(m)) + extra = FrameSize(m)
  <2>1. CASE m.id \in Ids
    <3> DEFINE u == a \o b
               v == (c \o d) \o last1
    <3>1. Body(m) = u \o v /\ FrameSize(m) = 2 + 1 + (1 + 2) + size
      BY <1>4, <2>1
    <3>2. u \in Frame /\ v \in Frame /\ Len(u) = 3 /\ Len(v) = 3 + Len(last1)
      BY <1>6, <1>7
    <3> HIDE DEF u, v
    <3>3. u \o v \in Frame /\ Len(u \o v) = Len(u) + Len(v)
      BY <3>2, FrameConcat
    <3> QED BY <1>3, <3>1, <3>2, <3>3
  <2>2. CASE m.id \notin Ids
    <3>1. Body(m) = (a \o b) \o <<>> /\ FrameSize(m) = 2 + 1 + 0 + size
      BY <1>4, <2>2
    <3>2. (a \o b) \o <<>> = a \o b
      BY <1>6, ConcatEmptySeq DEF Frame
    <3> QED BY <1>5, <1>6, <2>2, <3>1, <3>2
  <2> QED BY <2>1, <2>2
<1>9. Len(Body(m)) \in Nat
  BY <1>8, FrameConcat
<1> QED BY <1>1, <1>8, <1>9 DEF extra

\* So the frame is whole octets, and so is every frame behind it.
LEMMA MultipartType ==
  ASSUME NEW m \in Msg, NEW octet \in Octet
  PROVE  Multipart(m, octet) \in Seq(Frame) /\ Len(Multipart(m, octet)) >= 1
<1>1. Body(m) \in Frame /\ FrameSize(m) \in Nat /\ Len(Body(m)) \in Nat
  BY BodyPut, FrameConcat
<1>2. Padding(m, octet) \in Frame
  <2>1. CASE FrameSize(m) <= Len(Body(m))
    BY <2>1 DEF Padding, Frame
  <2>2. CASE ~(FrameSize(m) <= Len(Body(m)))
    <3> DEFINE n == FrameSize(m) - Len(Body(m))
    <3>1. n \in Nat /\ Padding(m, octet) = [i \in 1 .. n |-> octet]
      BY <1>1, <2>2 DEF Padding
    <3> QED BY <3>1, IsASeq DEF Frame
  <2> QED BY <2>1, <2>2
<1>3. Encode(m, octet) \in Frame
  BY <1>1, <1>2, FrameConcat DEF Encode
<1>4. ContentFrames(m) \in Seq(Frame)
  <2>1. m.content \in Seq(Frame) \cup {Null}
    BY DEF Msg
  <2>2. <<>> \in Frame
    BY DEF Frame
  <2>3. << <<>> >> \in Seq(Frame) /\ <<>> \in Seq(Frame)
    BY <2>2
  <2> QED BY <2>1, <2>3 DEF ContentFrames
<1> DEFINE e == Encode(m, octet)
           f == ContentFrames(m)
<1> HIDE DEF e, f
<1>5. e \in Frame /\ f \in Seq(Frame)
  BY <1>3, <1>4 DEF e, f
<1>6. <<e>> \in Seq(Frame) /\ Len(<<e>>) = 1
  BY <1>5
<1>7. <<e>> \o f \in Seq(Frame) /\ Len(<<e>> \o f) = 1 + Len(f) /\ Len(f) \in Nat
  BY <1>5, <1>6
<1>8. Multipart(m, octet) = <<e>> \o f
  BY DEF Multipart, e, f
<1> QED BY <1>7, <1>8

-----------------------------------------------------------------------------
(***************************************************************************)
(* What is read: whatever the octets are, the object they fill is one.     *)
(***************************************************************************)

\* An object whose headers have different names.
Object == {m \in Msg : m.headers # Null => HashOf(m.headers)}
Octets == Frame \cup {Null}
Groups == Seq(CString) \cup {Null}
Hash == {h \in Seq(Header) : HashOf(h)} \cup {Null}
Frames == Seq(Frame) \cup {Null}

\* strncpy keeps a text a text that fits its buffer.
LEMMA CutType ==
  ASSUME NEW s \in CString
  PROVE  Cut(s) \in Buffer
<1>1. Base \in Nat /\ Base >= 16 /\ Len(s) \in Nat /\ s \in Seq(1 .. Base - 1)
  BY BaseType DEF CString
<1> DEFINE n == IF Len(s) < Base THEN Len(s) ELSE Base - 1
<1>2. n \in 0 .. Len(s) /\ n < Base
  BY <1>1
<1>3. Cut(s) = SubSeq(s, 1, n)
  BY DEF Cut
<1> HIDE DEF n
<1>4. SubSeq(s, 1, n) \in Seq(1 .. Base - 1) /\ Len(SubSeq(s, 1, n)) = n
  BY <1>1, <1>2, SubSeqProperties
<1> QED BY <1>2, <1>3, <1>4 DEF Buffer, CString

\* Each setter leaves an object.
LEMMA SettersType ==
  ASSUME NEW m \in Object
  PROVE  /\ \A f \in Octets : SetRoutingId(m, f) \in Object
         /\ \A n \in Octet : SetId(m, n) \in Object
         /\ \A n \in Nat : SetSequence(m, n) \in Object /\ SetStatus(m, n) \in Object
         /\ \A s \in CString : /\ SetEndpoint(m, s) \in Object
                               /\ SetName(m, s) \in Object
                               /\ SetGroup(m, s) \in Object
                               /\ SetChallenger(m, s) \in Object
                               /\ SetLeader(m, s) \in Object
         /\ \A list \in Groups : SetGroups(m, list) \in Object
         /\ \A hash \in Hash : SetHeaders(m, hash) \in Object
         /\ \A frames \in Frames : SetContent(m, frames) \in Object
         /\ \A n \in Nat : [m EXCEPT !.headersBytes = n] \in Object
<1>1. \A n \in Nat : n % Base \in Octet /\ n % (Base * Base) \in 0 .. Base * Base - 1
  <2>1. \A b \in Nat : b >= 16 => b * b \in Nat /\ b * b > 0
    BY Z3
  <2>2. \A b \in Nat : b > 0 => \A k \in Nat : k % b \in 0 .. b - 1
    BY Z3
  <2> QED BY BaseType, <2>1, <2>2 DEF Octet
<1>2. m \in Msg /\ (m.headers # Null => HashOf(m.headers))
  BY DEF Object
<1>3. \A f \in Octets : SetRoutingId(m, f) \in Object
  BY <1>2 DEF Object, Msg, SetRoutingId, Octets
<1>4. \A n \in Octet : SetId(m, n) \in Object
  BY <1>2 DEF Object, Msg, SetId
<1>5. ASSUME NEW n \in Nat PROVE SetSequence(m, n) \in Object
  <2> DEFINE k == n % (Base * Base)
  <2>1. k \in 0 .. Base * Base - 1
    BY <1>1
  <2> HIDE DEF k
  <2>2. [m EXCEPT !.sequence = k] \in Object
    BY <1>2, <2>1 DEF Object, Msg
  <2> QED BY <2>2 DEF SetSequence, k
<1>6. ASSUME NEW n \in Nat PROVE SetStatus(m, n) \in Object
  <2> DEFINE k == n % Base
  <2>1. k \in Octet
    BY <1>1
  <2> HIDE DEF k
  <2>2. [m EXCEPT !.status = k] \in Object
    BY <1>2, <2>1 DEF Object, Msg
  <2> QED BY <2>2 DEF SetStatus, k
<1>7. ASSUME NEW s \in CString
      PROVE  /\ SetEndpoint(m, s) \in Object /\ SetName(m, s) \in Object
             /\ SetGroup(m, s) \in Object /\ SetChallenger(m, s) \in Object
             /\ SetLeader(m, s) \in Object
  <2> DEFINE t == Cut(s)
  <2>1. t \in Buffer
    BY CutType
  <2> HIDE DEF t
  <2>2. [m EXCEPT !.endpoint = t] \in Object
    BY <1>2, <2>1 DEF Object, Msg
  <2>3. [m EXCEPT !.name = t] \in Object
    BY <1>2, <2>1 DEF Object, Msg
  <2>4. [m EXCEPT !.group = t] \in Object
    BY <1>2, <2>1 DEF Object, Msg
  <2>5. [m EXCEPT !.challenger = t] \in Object
    BY <1>2, <2>1 DEF Object, Msg
  <2>6. [m EXCEPT !.leader = t] \in Object
    BY <1>2, <2>1 DEF Object, Msg
  <2> QED BY <2>2, <2>3, <2>4, <2>5, <2>6
             DEF t, SetEndpoint, SetName, SetGroup, SetChallenger, SetLeader
<1>8. \A list \in Groups : SetGroups(m, list) \in Object
  BY <1>2 DEF Object, Msg, SetGroups, Groups
<1>9. \A hash \in Hash : SetHeaders(m, hash) \in Object
  BY <1>2 DEF Object, Msg, SetHeaders, Hash
<1>10. \A frames \in Frames : SetContent(m, frames) \in Object
  BY <1>2 DEF Object, Msg, SetContent, Frames
<1>11. \A n \in Nat : [m EXCEPT !.headersBytes = n] \in Object
  BY <1>2 DEF Object, Msg
<1> QED BY <1>3, <1>4, <1>5, <1>6, <1>7, <1>8, <1>9, <1>10, <1>11

\* What is seen of octets that were read is a text.
LEMMA TerminatedType ==
  ASSUME NEW s \in Frame
  PROVE  Terminated(s) \in CString
<1>1. Len(s) \in Nat /\ s \in Seq(Octet) /\ \A i \in 1 .. Len(s) : s[i] \in Octet
  BY DEF Frame
<1>2. \A x \in Octet : x # 0 => x \in 1 .. Base - 1
  BY BaseType DEF Octet
<1>3. CASE \A i \in 1 .. Len(s) : s[i] # 0
  <2>1. \A i \in 1 .. Len(s) : s[i] \in 1 .. Base - 1
    BY <1>1, <1>2, <1>3
  <2>2. s \in Seq(1 .. Base - 1)
    <3>1. s = [i \in 1 .. Len(s) |-> s[i]]
      BY <1>1
    <3>2. s \in [1 .. Len(s) -> 1 .. Base - 1]
      BY <2>1, <3>1
    <3>3. \A S, n : n \in Nat => [1 .. n -> S] \subseteq Seq(S)
      BY SeqDef
    <3> QED BY <1>1, <3>2, <3>3
  <2> QED BY <1>3, <2>2 DEF Terminated, CString
<1>4. CASE ~ \A i \in 1 .. Len(s) : s[i] # 0
  <2> DEFINE T == {i \in 1 .. Len(s) : s[i] = 0}
             P(i) == s[i] = 0 /\ \A j \in 1 .. i - 1 : s[j] # 0
             e == CHOOSE i \in 1 .. Len(s) : P(i)
             n == e - 1
  <2>1. T # {} /\ T \in SUBSET Nat
    BY <1>4
  <2>2. PICK i \in T : \A k \in T : i <= k
    BY <2>1, LeastElement
  <2>3. i \in 1 .. Len(s) /\ P(i)
    <3>1. \A j \in 1 .. i - 1 : j \in 1 .. Len(s) /\ ~(i <= j)
      BY <1>1, <2>2
    <3> QED BY <2>2, <3>1
  <2>4. e \in 1 .. Len(s) /\ P(e)
    BY <2>3
  <2>5. Terminated(s) = SubSeq(s, 1, e - 1)
    BY <1>4 DEF Terminated
  <2>6. n \in 0 .. Len(s) /\ \A j \in 1 .. n : s[j] # 0 /\ j \in 1 .. Len(s)
    BY <1>1, <2>4
  <2>7. Terminated(s) = SubSeq(s, 1, n)
    BY <2>5
  <2> HIDE DEF n, e
  <2>8. /\ SubSeq(s, 1, n) \in Seq(Octet) /\ Len(SubSeq(s, 1, n)) = n
        /\ \A j \in 1 .. n : SubSeq(s, 1, n)[j] = s[j]
    BY <1>1, <2>6
  <2>9. \A j \in 1 .. n : SubSeq(s, 1, n)[j] \in 1 .. Base - 1
    BY <1>1, <1>2, <2>6, <2>8
  <2>10. SubSeq(s, 1, n) \in Seq(1 .. Base - 1)
    BY <2>8, <2>9
  <2> QED BY <2>7, <2>10 DEF CString
<1> QED BY <1>3, <1>4

\* A cursor over an object of S.
Cursors(S) == [m: S, rest: Frame, ok: BOOLEAN, rc: {0, 2}]

LEMMA CursorsType ==
  ASSUME NEW S, NEW c \in Cursors(S)
  PROVE  /\ c.m \in S /\ c.rest \in Frame /\ Len(c.rest) \in Nat
         /\ Fail(c) \in Cursors(S) /\ Invalid(c) \in Cursors(S)
         /\ \A x : Check(c, x) \in Cursors(S)
         /\ \A n : Fits(c, n) => n <= Len(c.rest)
         /\ \A m, n : m \in S /\ n \in Nat /\ n <= Len(c.rest)
                        => Read(c, m, n) \in Cursors(S)
<1>1. /\ c.m \in S /\ c.rest \in Frame /\ c.ok \in BOOLEAN /\ c.rc \in {0, 2}
      /\ Len(c.rest) \in Nat
  BY DEF Cursors, Frame
<1>2. Fail(c) \in Cursors(S)
  BY DEF Cursors, Fail
<1>3. Invalid(c) \in Cursors(S)
  BY DEF Cursors, Invalid
<1>4. \A x : Check(c, x) \in Cursors(S)
  BY <1>3 DEF Check
<1>5. \A n : Fits(c, n) => n <= Len(c.rest)
  BY DEF Fits
<1>6. ASSUME NEW m \in S, NEW n \in Nat, n <= Len(c.rest)
      PROVE  Read(c, m, n) \in Cursors(S)
  <2>1. Drop(c.rest, n) \in Frame
    BY <1>1, <1>6 DEF Drop, Frame
  <2> QED BY <1>1, <1>6, <2>1 DEF Read, Cursors
<1> QED BY <1>1, <1>2, <1>3, <1>4, <1>5, <1>6

\* The numbers at the needle.
LEMMA OctetsType ==
  ASSUME NEW s \in Frame
  PROVE  /\ Len(s) >= 1 => s[1] \in Octet /\ s[1] \in Nat
         /\ Len(s) >= 2 => Number2(s) \in Nat
         /\ Len(s) >= 4 => Number4(s) \in Nat
<1>1. Len(s) \in Nat /\ \A i \in 1 .. Len(s) : s[i] \in Octet /\ s[i] \in Nat
  BY BaseType DEF Frame, Octet
<1>2. \A x, y \in Nat : x * Base + y \in Nat
  <2>1. \A x, y, b \in Nat : x * b + y \in Nat
    BY Z3
  <2> QED BY BaseType, <2>1
<1>3. Len(s) >= 1 => s[1] \in Octet /\ s[1] \in Nat
  BY <1>1
<1>4. Len(s) >= 2 => Number2(s) \in Nat
  <2>1. Len(s) >= 2 => s[1] \in Nat /\ s[2] \in Nat
    BY <1>1
  <2> QED BY <1>2, <2>1 DEF Number2
<1>5. ASSUME Len(s) >= 4 PROVE Number4(s) \in Nat
  <2>1. Number2(s) \in Nat /\ s[3] \in Nat /\ s[4] \in Nat
    BY <1>1, <1>4, <1>5
  <2>2. Number2(s) * Base + s[3] \in Nat
    BY <1>2, <2>1
  <2> QED BY <1>2, <2>1, <2>2 DEF Number4
<1> QED BY <1>3, <1>4, <1>5

\* The text behind the needle.
LEMMA TextType ==
  ASSUME NEW s \in Frame, NEW i \in Nat \ {0}, NEW n \in Nat, n <= Len(s)
  PROVE  Terminated(SubSeq(s, i, n)) \in CString
<1>1. SubSeq(s, i, n) \in Frame
  BY DEF Frame
<1> QED BY <1>1, TerminatedType

LEMMA NumbersRead ==
  ASSUME NEW c \in Cursors(Object)
  PROVE  /\ GetNumber1(c, SetId) \in Cursors(Object)
         /\ GetNumber1(c, SetStatus) \in Cursors(Object)
         /\ GetNumber2(c, SetSequence) \in Cursors(Object)
<1>1. /\ c.m \in Object /\ c.rest \in Frame /\ Fail(c) \in Cursors(Object)
      /\ \A n : Fits(c, n) => n <= Len(c.rest)
      /\ \A m, n : m \in Object /\ n \in Nat /\ n <= Len(c.rest)
                     => Read(c, m, n) \in Cursors(Object)
  BY CursorsType
<1>2. /\ Len(c.rest) >= 1 => c.rest[1] \in Octet /\ c.rest[1] \in Nat
      /\ Len(c.rest) >= 2 => Number2(c.rest) \in Nat
  BY <1>1, OctetsType
<1>3. Len(c.rest) \in Nat
  BY <1>1, FrameConcat
<1>4. GetNumber2(c, SetSequence) \in Cursors(Object)
  <2>1. CASE Fits(c, 2)
    <3>1. Len(c.rest) >= 2 /\ 2 \in Nat /\ 2 <= Len(c.rest)
      BY <1>1, <1>3, <2>1
    <3>2. SetSequence(c.m, Number2(c.rest)) \in Object
      BY <1>1, <1>2, <3>1, SettersType
    <3> QED BY <1>1, <2>1, <3>1, <3>2 DEF GetNumber2
  <2>2. CASE ~Fits(c, 2)
    BY <1>1, <2>2 DEF GetNumber2
  <2> QED BY <2>1, <2>2
<1>5. CASE Fits(c, 1)
  <2>1. Len(c.rest) >= 1 /\ 1 \in Nat /\ 1 <= Len(c.rest)
    BY <1>1, <1>3, <1>5
  <2>2. SetId(c.m, c.rest[1]) \in Object /\ SetStatus(c.m, c.rest[1]) \in Object
    BY <1>1, <1>2, <2>1, SettersType
  <2> QED BY <1>1, <1>5, <1>4, <2>1, <2>2 DEF GetNumber1
<1>6. CASE ~Fits(c, 1)
  BY <1>1, <1>4, <1>6 DEF GetNumber1
<1> QED BY <1>5, <1>6

LEMMA StringsRead ==
  ASSUME NEW c \in Cursors(Object)
  PROVE  /\ GetString(c, SetEndpoint) \in Cursors(Object)
         /\ GetString(c, SetName) \in Cursors(Object)
         /\ GetString(c, SetGroup) \in Cursors(Object)
         /\ GetString(c, SetChallenger) \in Cursors(Object)
         /\ GetString(c, SetLeader) \in Cursors(Object)
<1>1. /\ c.m \in Object /\ c.rest \in Frame /\ Fail(c) \in Cursors(Object)
      /\ \A n : Fits(c, n) => n <= Len(c.rest)
      /\ \A m, n : m \in Object /\ n \in Nat /\ n <= Len(c.rest)
                     => Read(c, m, n) \in Cursors(Object)
  BY CursorsType
<1>2. Len(c.rest) \in Nat
  BY <1>1, FrameConcat
<1>3. CASE Fits(c, 1) /\ Fits(c, 1 + c.rest[1])
  <2> DEFINE n == c.rest[1]
             s == Terminated(SubSeq(c.rest, 2, 1 + n))
  <2>1. n \in Nat /\ 1 + n \in Nat /\ 1 + n <= Len(c.rest)
    <3>1. Len(c.rest) >= 1
      BY <1>1, <1>2, <1>3
    <3> QED BY <1>1, <1>3, <3>1, OctetsType
  <2>2. s \in CString
    <3>1. 2 \in Nat \ {0}
      OBVIOUS
    <3> QED BY <1>1, <2>1, <3>1, TextType
  <2> HIDE DEF s
  <2>3. /\ SetEndpoint(c.m, s) \in Object /\ SetName(c.m, s) \in Object
        /\ SetGroup(c.m, s) \in Object /\ SetChallenger(c.m, s) \in Object
        /\ SetLeader(c.m, s) \in Object
    BY <1>1, <2>2, SettersType
  <2>4. /\ Read(c, SetEndpoint(c.m, s), 1 + n) \in Cursors(Object)
        /\ Read(c, SetName(c.m, s), 1 + n) \in Cursors(Object)
        /\ Read(c, SetGroup(c.m, s), 1 + n) \in Cursors(Object)
        /\ Read(c, SetChallenger(c.m, s), 1 + n) \in Cursors(Object)
        /\ Read(c, SetLeader(c.m, s), 1 + n) \in Cursors(Object)
    BY <1>1, <2>1, <2>3
  <2> QED BY <1>3, <2>4 DEF GetString, s
<1>4. CASE ~(Fits(c, 1) /\ Fits(c, 1 + c.rest[1]))
  BY <1>1, <1>4 DEF GetString
<1> QED BY <1>3, <1>4

\* Objects whose list, and whose hash, is being filled.
Listing == {m \in Object : m.groups # Null}
Hashing == {m \in Object : m.headers # Null}

LEMMA GroupRead ==
  ASSUME NEW c \in Cursors(Listing)
  PROVE  GetLongstr(c, AppendGroup) \in Cursors(Listing)
<1>1. /\ c.m \in Listing /\ c.rest \in Frame /\ Fail(c) \in Cursors(Listing)
      /\ \A n : Fits(c, n) => n <= Len(c.rest)
      /\ \A m, n : m \in Listing /\ n \in Nat /\ n <= Len(c.rest)
                     => Read(c, m, n) \in Cursors(Listing)
      /\ Len(c.rest) \in Nat
  BY CursorsType
<1>2. CASE Fits(c, 4) /\ Fits(c, 4 + Number4(c.rest))
  <2> DEFINE n == Number4(c.rest)
             s == Terminated(SubSeq(c.rest, 5, 4 + n))
  <2>1. n \in Nat /\ 4 + n \in Nat /\ 4 + n <= Len(c.rest)
    <3>1. Len(c.rest) >= 4
      BY <1>1, <1>2
    <3> QED BY <1>1, <1>2, <3>1, OctetsType
  <2>2. s \in CString
    <3>1. 5 \in Nat \ {0}
      OBVIOUS
    <3> QED BY <1>1, <2>1, <3>1, TextType
  <2>3. GetLongstr(c, AppendGroup) = Read(c, AppendGroup(c.m, s), 4 + n)
    BY <1>2 DEF GetLongstr
  <2> HIDE DEF s, n
  <2>4. AppendGroup(c.m, s) \in Listing
    <3>1. c.m \in Object /\ c.m.groups \in Seq(CString) /\ c.m \in Msg
      BY <1>1 DEF Listing, Object, Msg
    <3> DEFINE list == Append(c.m.groups, s)
    <3>2. list \in Seq(CString)
      BY <2>2, <3>1
    <3>3. list # Null
      BY <3>2, InputAssumption
    <3>4. AppendGroup(c.m, s) = SetGroups(c.m, list)
      BY DEF AppendGroup, SetGroups
    <3> HIDE DEF list
    <3>5. SetGroups(c.m, list) \in Object
      BY <3>1, <3>2, SettersType DEF Groups
    <3>6. SetGroups(c.m, list).groups = list
      BY <3>1 DEF SetGroups, Msg
    <3> QED BY <3>3, <3>4, <3>5, <3>6 DEF Listing
  <2> QED BY <1>1, <2>1, <2>3, <2>4
<1>3. CASE ~(Fits(c, 4) /\ Fits(c, 4 + Number4(c.rest)))
  BY <1>1, <1>3 DEF GetLongstr
<1> QED BY <1>2, <1>3

\* zhash_insert leaves a hash.
LEMMA Inserted ==
  ASSUME NEW m \in Hashing, NEW key \in CString, NEW value \in CString
  PROVE  InsertHeader(m, key, value) \in Hashing
<1>1. /\ m \in Object /\ m \in Msg /\ m.headers \in Seq(Header) /\ HashOf(m.headers)
  BY DEF Hashing, Object, Msg
<1>2. CASE \E i \in DOMAIN m.headers : m.headers[i][1] = key
  BY <1>2 DEF InsertHeader
<1>3. CASE ~ \E i \in DOMAIN m.headers : m.headers[i][1] = key
  <2> DEFINE h == m.headers
             hash == Append(h, <<key, value>>)
  <2>1. <<key, value>> \in Header
    BY DEF Header
  <2>2. /\ hash \in Seq(Header) /\ Len(hash) = Len(h) + 1 /\ Len(h) \in Nat
        /\ \A i \in 1 .. Len(h) : hash[i] = h[i]
        /\ hash[Len(h) + 1] = <<key, value>>
    BY <1>1, <2>1, AppendProperties
  <2>3. /\ DOMAIN hash = 1 .. Len(h) + 1 /\ DOMAIN h = 1 .. Len(h)
    BY <1>1, <2>2
  <2>4. InsertHeader(m, key, value) = SetHeaders(m, hash)
    BY <1>3 DEF InsertHeader, SetHeaders
  <2> HIDE DEF hash
  <2>5. HashOf(hash)
    <3> SUFFICES ASSUME NEW i \in 1 .. Len(h) + 1, NEW j \in 1 .. Len(h) + 1,
                        hash[i][1] = hash[j][1]
                 PROVE  i = j
      BY <2>3 DEF HashOf
    <3>1. hash[Len(h) + 1][1] = key
      BY <2>2
    <3>2. \A k \in 1 .. Len(h) : hash[k] = h[k] /\ h[k][1] # key
      BY <1>3, <2>2, <2>3
    <3>3. CASE i \in 1 .. Len(h) /\ j \in 1 .. Len(h)
      BY <1>1, <2>3, <3>2, <3>3 DEF HashOf
    <3>4. CASE i \notin 1 .. Len(h) \/ j \notin 1 .. Len(h)
      <4>1. \A k \in 1 .. Len(h) + 1 : k \notin 1 .. Len(h) => k = Len(h) + 1
        BY <2>2
      <4> QED BY <3>1, <3>2, <3>4, <4>1
    <3> QED BY <3>3, <3>4
  <2>6. SetHeaders(m, hash) \in Object
    BY <1>1, <2>2, <2>5, SettersType DEF Hash
  <2>7. hash # Null /\ SetHeaders(m, hash).headers = hash
    BY <1>1, <2>2, InputAssumption DEF SetHeaders, Msg
  <2> QED BY <2>4, <2>6, <2>7 DEF Hashing
<1> QED BY <1>2, <1>3

LEMMA HeaderRead ==
  ASSUME NEW c \in Cursors(Hashing)
  PROVE  GetHeader(c) \in Cursors(Hashing)
<1>1. /\ c.m \in Hashing /\ c.rest \in Frame /\ Fail(c) \in Cursors(Hashing)
      /\ \A n : Fits(c, n) => n <= Len(c.rest)
      /\ \A m, n : m \in Hashing /\ n \in Nat /\ n <= Len(c.rest)
                     => Read(c, m, n) \in Cursors(Hashing)
      /\ Len(c.rest) \in Nat
  BY CursorsType
<1>2. CASE ~(Fits(c, 1) /\ Fits(c, 1 + c.rest[1]))
  BY <1>1, <1>2 DEF GetHeader
<1>3. CASE Fits(c, 1) /\ Fits(c, 1 + c.rest[1])
  <2> DEFINE k == c.rest[1]
             key == Terminated(SubSeq(c.rest, 2, 1 + k))
             d == Read(c, c.m, 1 + k)
  <2>1. k \in Nat /\ 1 + k \in Nat /\ 1 + k <= Len(c.rest)
    <3>1. Len(c.rest) >= 1
      BY <1>1, <1>3
    <3> QED BY <1>1, <1>3, <3>1, OctetsType
  <2>2. key \in CString
    <3>1. 2 \in Nat \ {0}
      OBVIOUS
    <3> QED BY <1>1, <2>1, <3>1, TextType
  <2>3. d \in Cursors(Hashing)
    BY <1>1, <2>1
  <2>4. GetHeader(c) = GetLongstr(d, LAMBDA m, value : InsertHeader(m, key, value))
    BY <1>3 DEF GetHeader
  <2> HIDE DEF key, d
  <2>5. /\ d.m \in Hashing /\ d.rest \in Frame /\ Fail(d) \in Cursors(Hashing)
        /\ \A n : Fits(d, n) => n <= Len(d.rest)
        /\ \A m, n : m \in Hashing /\ n \in Nat /\ n <= Len(d.rest)
                       => Read(d, m, n) \in Cursors(Hashing)
        /\ Len(d.rest) \in Nat
    BY <2>3, CursorsType
  <2>6. CASE Fits(d, 4) /\ Fits(d, 4 + Number4(d.rest))
    <3> DEFINE n == Number4(d.rest)
               s == Terminated(SubSeq(d.rest, 5, 4 + n))
    <3>1. n \in Nat /\ 4 + n \in Nat /\ 4 + n <= Len(d.rest)
      <4>1. Len(d.rest) >= 4
        BY <2>5, <2>6
      <4> QED BY <2>5, <2>6, <4>1, OctetsType
    <3>2. s \in CString
      <4>1. 5 \in Nat \ {0}
        OBVIOUS
      <4> QED BY <2>5, <3>1, <4>1, TextType
    <3>3. GetHeader(c) = Read(d, InsertHeader(d.m, key, s), 4 + n)
      BY <2>4, <2>6 DEF GetLongstr
    <3> HIDE DEF s, n
    <3>4. InsertHeader(d.m, key, s) \in Hashing
      BY <2>2, <2>5, <3>2, Inserted
    <3> QED BY <2>5, <3>1, <3>3, <3>4
  <2>7. CASE ~(Fits(d, 4) /\ Fits(d, 4 + Number4(d.rest)))
    <3>1. GetHeader(c) = Fail(d)
      BY <2>4, <2>7 DEF GetLongstr
    <3> QED BY <2>5, <3>1
  <2> QED BY <2>6, <2>7
<1> QED BY <1>2, <1>3

\* The cursors of "while (count--)", one after each round.
Rounds(c, count) == IF count <= Len(c.rest) THEN count ELSE Len(c.rest) + 1

LEMMA GroupRounds ==
  ASSUME NEW c \in Cursors(Listing), NEW count \in Nat
  PROVE  \E after :
            /\ after[0] = c
            /\ \A k \in 0 .. Rounds(c, count) : after[k] \in Cursors(Listing)
            /\ \A k \in 1 .. Rounds(c, count) :
                    after[k] = GetLongstr(after[k - 1], AppendGroup)
            /\ Repeat(LAMBDA d : GetLongstr(d, AppendGroup), c, count)
                  = after[Rounds(c, count)]
<1> DEFINE n == Rounds(c, count)
           V == Cursors(Listing)
           F == [x \in (1 .. n) \X V |-> GetLongstr(x[2], AppendGroup)]
           R(after) == after = [k \in 0 .. n |->
                IF k = 0 THEN c ELSE GetLongstr(after[k - 1], AppendGroup)]
<1>1. n \in Nat
  BY CursorsType DEF Rounds
<1>2. Repeat(LAMBDA d : GetLongstr(d, AppendGroup), c, count) = (CHOOSE h : R(h))[n]
  BY DEF Repeat, Rounds
<1> HIDE DEF n
<1>3. F \in [(1 .. n) \X V -> V]
  <2>1. \A x \in (1 .. n) \X V : GetLongstr(x[2], AppendGroup) \in V
    BY GroupRead
  <2> QED BY <2>1
<1>4. \A k \in 1 .. n : \A d \in V : F[<<k, d>>] = GetLongstr(d, AppendGroup)
  OBVIOUS
<1> HIDE DEF F
<1>5. \A g : R(g) => /\ g[0] = c /\ \A k \in 0 .. n : g[k] \in V
                     /\ \A k \in 1 .. n : g[k] = GetLongstr(g[k - 1], AppendGroup)
  <2> SUFFICES ASSUME NEW g, R(g)
               PROVE  /\ g[0] = c /\ \A k \in 0 .. n : g[k] \in V
                      /\ \A k \in 1 .. n : g[k] = GetLongstr(g[k - 1], AppendGroup)
    OBVIOUS
  <2>1. \A k \in 0 .. n : g[k] = IF k = 0 THEN c ELSE GetLongstr(g[k - 1], AppendGroup)
    OBVIOUS
  <2>2. g[0] = c /\ \A k \in 1 .. n : g[k] = GetLongstr(g[k - 1], AppendGroup)
    <3>1. 0 \in 0 .. n /\ \A k \in 1 .. n : k \in 0 .. n /\ k # 0
      BY <1>1
    <3> QED BY <2>1, <3>1
  <2> DEFINE S == {k \in Nat : g[k] \in V}
  <2>3. 0 \in S
    BY <2>2
  <2>4. ASSUME NEW k \in 0 .. n - 1, k \in S PROVE k + 1 \in S
    <3>1. k + 1 \in 1 .. n /\ (k + 1) - 1 = k /\ k + 1 \in Nat
      BY <1>1
    <3>2. g[k + 1] = GetLongstr(g[k], AppendGroup) /\ g[k] \in V
      BY <2>2, <2>4, <3>1
    <3>3. g[k + 1] \in V
      BY <3>2, GroupRead
    <3> QED BY <3>1, <3>3
  <2> HIDE DEF S
  <2>5. \A k \in 0 .. n : k \in S
    BY <1>1, <2>3, <2>4, Climb
  <2> QED BY <2>2, <2>5 DEF S
<1>6. \E g : R(g)
  <2>1. PICK g : Built(g, c, F, n)
    BY <1>1, <1>3, BuiltExists
  <2>2. /\ g = [k \in 0 .. n |-> g[k]] /\ g[0] = c
        /\ \A k \in 1 .. n : g[k] = F[<<k, g[k - 1]>>]
    BY <1>1, <2>1, BuiltSteps
  <2>3. \A k \in 0 .. n : g[k] \in V
    <3>1. \A k \in 1 .. n : \A x \in V : F[<<k, x>>] \in V
      BY <1>3
    <3> QED BY <1>1, <2>1, <3>1, BuiltType
  <2>4. \A k \in 0 .. n : g[k] = IF k = 0 THEN c ELSE GetLongstr(g[k - 1], AppendGroup)
    <3>1. \A k \in 0 .. n : k # 0 => k \in 1 .. n /\ k - 1 \in 0 .. n
      BY <1>1
    <3> QED BY <1>4, <2>2, <2>3, <3>1
  <2> QED BY <2>2, <2>4
<1> DEFINE after == CHOOSE h : R(h)
<1>7. R(after)
  BY <1>6
<1> HIDE DEF after
<1>8. /\ after[0] = c /\ \A k \in 0 .. n : after[k] \in V
      /\ \A k \in 1 .. n : after[k] = GetLongstr(after[k - 1], AppendGroup)
  BY <1>5, <1>7
<1> QED BY <1>2, <1>8 DEF n, after

LEMMA HeaderRounds ==
  ASSUME NEW c \in Cursors(Hashing), NEW count \in Nat
  PROVE  \E after :
            /\ after[0] = c
            /\ \A k \in 0 .. Rounds(c, count) : after[k] \in Cursors(Hashing)
            /\ \A k \in 1 .. Rounds(c, count) : after[k] = GetHeader(after[k - 1])
            /\ Repeat(GetHeader, c, count) = after[Rounds(c, count)]
<1> DEFINE n == Rounds(c, count)
           V == Cursors(Hashing)
           F == [x \in (1 .. n) \X V |-> GetHeader(x[2])]
           R(after) == after = [k \in 0 .. n |->
                IF k = 0 THEN c ELSE GetHeader(after[k - 1])]
<1>1. n \in Nat
  BY CursorsType DEF Rounds
<1>2. Repeat(GetHeader, c, count) = (CHOOSE h : R(h))[n]
  BY DEF Repeat, Rounds
<1> HIDE DEF n
<1>3. F \in [(1 .. n) \X V -> V]
  <2>1. \A x \in (1 .. n) \X V : GetHeader(x[2]) \in V
    BY HeaderRead
  <2> QED BY <2>1
<1>4. \A k \in 1 .. n : \A d \in V : F[<<k, d>>] = GetHeader(d)
  OBVIOUS
<1> HIDE DEF F
<1>5. \A g : R(g) => /\ g[0] = c /\ \A k \in 0 .. n : g[k] \in V
                     /\ \A k \in 1 .. n : g[k] = GetHeader(g[k - 1])
  <2> SUFFICES ASSUME NEW g, R(g)
               PROVE  /\ g[0] = c /\ \A k \in 0 .. n : g[k] \in V
                      /\ \A k \in 1 .. n : g[k] = GetHeader(g[k - 1])
    OBVIOUS
  <2>1. \A k \in 0 .. n : g[k] = IF k = 0 THEN c ELSE GetHeader(g[k - 1])
    OBVIOUS
  <2>2. g[0] = c /\ \A k \in 1 .. n : g[k] = GetHeader(g[k - 1])
    <3>1. 0 \in 0 .. n /\ \A k \in 1 .. n : k \in 0 .. n /\ k # 0
      BY <1>1
    <3> QED BY <2>1, <3>1
  <2> DEFINE S == {k \in Nat : g[k] \in V}
  <2>3. 0 \in S
    BY <2>2
  <2>4. ASSUME NEW k \in 0 .. n - 1, k \in S PROVE k + 1 \in S
    <3>1. k + 1 \in 1 .. n /\ (k + 1) - 1 = k /\ k + 1 \in Nat
      BY <1>1
    <3>2. g[k + 1] = GetHeader(g[k]) /\ g[k] \in V
      BY <2>2, <2>4, <3>1
    <3>3. g[k + 1] \in V
      BY <3>2, HeaderRead
    <3> QED BY <3>1, <3>3
  <2> HIDE DEF S
  <2>5. \A k \in 0 .. n : k \in S
    BY <1>1, <2>3, <2>4, Climb
  <2> QED BY <2>2, <2>5 DEF S
<1>6. \E g : R(g)
  <2>1. PICK g : Built(g, c, F, n)
    BY <1>1, <1>3, BuiltExists
  <2>2. /\ g = [k \in 0 .. n |-> g[k]] /\ g[0] = c
        /\ \A k \in 1 .. n : g[k] = F[<<k, g[k - 1]>>]
    BY <1>1, <2>1, BuiltSteps
  <2>3. \A k \in 0 .. n : g[k] \in V
    <3>1. \A k \in 1 .. n : \A x \in V : F[<<k, x>>] \in V
      BY <1>3
    <3> QED BY <1>1, <2>1, <3>1, BuiltType
  <2>4. \A k \in 0 .. n : g[k] = IF k = 0 THEN c ELSE GetHeader(g[k - 1])
    <3>1. \A k \in 0 .. n : k # 0 => k \in 1 .. n /\ k - 1 \in 0 .. n
      BY <1>1
    <3> QED BY <1>4, <2>2, <2>3, <3>1
  <2> QED BY <2>2, <2>4
<1> DEFINE after == CHOOSE h : R(h)
<1>7. R(after)
  BY <1>6
<1> HIDE DEF after
<1>8. /\ after[0] = c /\ \A k \in 0 .. n : after[k] \in V
      /\ \A k \in 1 .. n : after[k] = GetHeader(after[k - 1])
  BY <1>5, <1>7
<1> QED BY <1>2, <1>8 DEF n, after

LEMMA EmptyLists == <<>> \in Groups /\ <<>> \in Hash /\ <<>> \in Frames /\ <<>> # Null
<1>1. <<>> \in Seq(CString) /\ <<>> \in Seq(Header) /\ <<>> \in Seq(Frame)
  BY EmptySeq
<1>2. HashOf(<<>>)
  <2>1. DOMAIN <<>> = {}
    OBVIOUS
  <2> QED BY <2>1 DEF HashOf
<1> QED BY <1>1, <1>2, InputAssumption DEF Groups, Hash, Frames

LEMMA ListsRead ==
  ASSUME NEW c \in Cursors(Object)
  PROVE  GetGroups(c) \in Cursors(Object) /\ GetHeaders(c) \in Cursors(Object)
<1>1. /\ c.m \in Object /\ c.rest \in Frame /\ Fail(c) \in Cursors(Object)
      /\ \A n : Fits(c, n) => n <= Len(c.rest)
      /\ Len(c.rest) \in Nat
  BY CursorsType
<1>2. c.ok \in BOOLEAN /\ c.rc \in {0, 2}
  BY DEF Cursors
<1>3. CASE ~Fits(c, 4)
  BY <1>1, <1>3 DEF GetGroups, GetHeaders
<1>4. CASE Fits(c, 4)
  <2> DEFINE count == Number4(c.rest)
             d == Read(c, SetGroups(c.m, <<>>), 4)
             e == Read(c, SetHeaders(c.m, <<>>), 4)
  <2>1. 4 <= Len(c.rest) /\ count \in Nat
    <3>1. 4 <= Len(c.rest)
      BY <1>1, <1>4
    <3> QED BY <1>1, <3>1, OctetsType
  <2>2. d \in Cursors(Listing) /\ e \in Cursors(Hashing)
    <3> DEFINE x == SetGroups(c.m, <<>>)
               y == SetHeaders(c.m, <<>>)
               r == Drop(c.rest, 4)
    <3>1. x \in Object /\ y \in Object
      BY <1>1, SettersType, EmptyLists
    <3>2. x.groups = <<>> /\ y.headers = <<>>
      <4>1. c.m \in Msg
        BY <1>1 DEF Object
      <4> QED BY <4>1 DEF Msg, SetGroups, SetHeaders
    <3>3. x \in Listing /\ y \in Hashing
      BY <3>1, <3>2, EmptyLists DEF Listing, Hashing
    <3>4. r \in Frame
      BY <1>1, <2>1 DEF Drop, Frame
    <3> HIDE DEF x, y, r
    <3>5. /\ [m |-> x, rest |-> r, ok |-> c.ok, rc |-> c.rc] \in Cursors(Listing)
          /\ [m |-> y, rest |-> r, ok |-> c.ok, rc |-> c.rc] \in Cursors(Hashing)
      BY <1>2, <3>3, <3>4 DEF Cursors
    <3> QED BY <3>5 DEF Read, x, y, r
  <2>3. /\ GetGroups(c) = Repeat(LAMBDA z : GetLongstr(z, AppendGroup), d, count)
        /\ GetHeaders(c) = Repeat(GetHeader, e, count)
    BY <1>4 DEF GetGroups, GetHeaders
  <2> HIDE DEF count, d, e
  <2>4. GetGroups(c) \in Cursors(Listing)
    <3> DEFINE n == Rounds(d, count)
    <3>1. n \in Nat /\ n \in 0 .. n
      BY <2>1, <2>2, CursorsType DEF Rounds
    <3>2. PICK after :
            /\ after[0] = d
            /\ \A k \in 0 .. Rounds(d, count) : after[k] \in Cursors(Listing)
            /\ \A k \in 1 .. Rounds(d, count) :
                    after[k] = GetLongstr(after[k - 1], AppendGroup)
            /\ Repeat(LAMBDA z : GetLongstr(z, AppendGroup), d, count)
                  = after[Rounds(d, count)]
      BY <2>1, <2>2, GroupRounds
    <3> QED BY <2>3, <3>1, <3>2
  <2>5. GetHeaders(c) \in Cursors(Hashing)
    <3> DEFINE n == Rounds(e, count)
    <3>1. n \in Nat /\ n \in 0 .. n
      BY <2>1, <2>2, CursorsType DEF Rounds
    <3>2. PICK after :
            /\ after[0] = e
            /\ \A k \in 0 .. Rounds(e, count) : after[k] \in Cursors(Hashing)
            /\ \A k \in 1 .. Rounds(e, count) : after[k] = GetHeader(after[k - 1])
            /\ Repeat(GetHeader, e, count) = after[Rounds(e, count)]
      BY <2>1, <2>2, HeaderRounds
    <3> QED BY <2>3, <3>1, <3>2
  <2>6. Cursors(Listing) \subseteq Cursors(Object) /\ Cursors(Hashing) \subseteq Cursors(Object)
    <3>1. Listing \subseteq Object /\ Hashing \subseteq Object
      BY DEF Listing, Hashing
    <3> QED BY <3>1 DEF Cursors
  <2> QED BY <2>4, <2>5, <2>6
<1> QED BY <1>3, <1>4

\* zre_msg_recv fills an object, whatever the frame is.
LEMMA DecodeType ==
  ASSUME NEW m \in Object, NEW octets \in Frame
  PROVE  Decode(m, octets) \in Cursors(Object)
<1> DEFINE V == Cursors(Object)
           s == GetSignature(At(m, octets))
           c == GetNumber1(s, SetId)
           d == RecvPing(c)
<1>1. \A x \in V : GetSignature(x) \in V /\ GetVersion(x) \in V /\ Invalid(x) \in V
  <2> SUFFICES ASSUME NEW x \in V
               PROVE  GetSignature(x) \in V /\ GetVersion(x) \in V /\ Invalid(x) \in V
    OBVIOUS
  <2>1. /\ x.m \in Object /\ Fail(x) \in V /\ Invalid(x) \in V
        /\ \A n : Fits(x, n) => n <= Len(x.rest)
        /\ \A y, n : y \in Object /\ n \in Nat /\ n <= Len(x.rest) => Read(x, y, n) \in V
    BY CursorsType
  <2>2. \A z \in V : \A y : Check(z, y) \in V
    BY CursorsType
  <2> QED BY <2>1, <2>2 DEF GetSignature, GetVersion
<1>2. At(m, octets) \in V
  BY DEF At, Cursors
<1>3. s \in V
  BY <1>1, <1>2
<1> HIDE DEF s
<1>4. c \in V
  BY <1>3, NumbersRead
<1> HIDE DEF c
<1>5. d \in V
  BY <1>1, <1>4, NumbersRead DEF RecvPing
<1> HIDE DEF d
<1>6. /\ RecvHello(d) \in V /\ RecvShout(d) \in V /\ RecvJoin(d) \in V
      /\ RecvLeave(d) \in V /\ RecvElect(d) \in V /\ RecvLeader(d) \in V
  BY <1>5, NumbersRead, StringsRead, ListsRead
     DEF RecvHello, RecvShout, RecvJoin, RecvLeave, RecvElect, RecvLeader
<1>7. Invalid(c) \in V
  BY <1>1, <1>4
<1> HIDE DEF V
<1>8. Decode(m, octets) = LET id == c.m.id
        IN  CASE ~c.ok -> c
          [] c.ok /\ id \notin Ids -> Invalid(c)
          [] c.ok /\ id = HELLO -> RecvHello(d)
          [] c.ok /\ id = SHOUT -> RecvShout(d)
          [] c.ok /\ id = JOIN -> RecvJoin(d)
          [] c.ok /\ id = LEAVE -> RecvLeave(d)
          [] c.ok /\ id = ELECT -> RecvElect(d)
          [] c.ok /\ id = LEADER -> RecvLeader(d)
          [] OTHER -> d
  BY DEF Decode, c, d, s
<1> QED BY <1>4, <1>5, <1>6, <1>7, <1>8 DEF V

-----------------------------------------------------------------------------
(***************************************************************************)
(* The wire: whole multiparts, the first one perhaps without its beginning.*)
(***************************************************************************)
ObjectFrame == [data: Frame, more: BOOLEAN, sent: Object \cup {Null}]
Closed(frames) == frames = <<>> \/ ~frames[Len(frames)].more

LEMMA EndOfMultipart ==
  ASSUME NEW frames \in Seq(ObjectFrame), Closed(frames), NEW i \in 1 .. Len(frames)
  PROVE  LET e == AfterMultipart(frames, i) - 1
         IN  /\ e \in i .. Len(frames) /\ AfterMultipart(frames, i) = e + 1
             /\ ~frames[e].more /\ \A k \in i .. e - 1 : frames[k].more
<1> DEFINE T == {k \in i .. Len(frames) : ~frames[k].more}
           P(j) == ~frames[j].more /\ \A k \in i .. j - 1 : frames[k].more
           e == CHOOSE j \in i .. Len(frames) : P(j)
<1>1. Len(frames) \in Nat /\ Len(frames) \in i .. Len(frames) /\ frames # <<>>
  OBVIOUS
<1>2. T # {} /\ T \in SUBSET Nat
  BY <1>1 DEF Closed
<1>3. PICK j \in T : \A k \in T : j <= k
  BY <1>2, LeastElement
<1>4. j \in i .. Len(frames) /\ P(j)
  <2>1. \A k \in i .. j - 1 : k \in i .. Len(frames) /\ ~(j <= k)
    BY <1>1, <1>3
  <2>2. \A k \in i .. j - 1 : frames[k].more
    BY <1>3, <2>1
  <2> QED BY <1>3, <2>2
<1>5. e \in i .. Len(frames) /\ P(e)
  BY <1>4
<1>6. AfterMultipart(frames, i) = 1 + e
  BY DEF AfterMultipart
<1> HIDE DEF e
<1>7. (1 + e) - 1 = e /\ 1 + e = e + 1
  BY <1>5
<1> QED BY <1>5, <1>6, <1>7

\* A zre_msg_recv takes the frames of one multipart from its first one on, and
\* some of them at least.
LEMMA ReceiveType ==
  ASSUME NEW m \in Object, NEW frames \in Seq(ObjectFrame), Closed(frames), frames # <<>>
  PROVE  LET r == Receive(m, frames)
         IN  /\ r.m \in Object /\ r.rc \in 0 .. 2
             /\ r.next \in 2 .. Len(frames) + 1
             /\ \A k \in 1 .. r.next - 2 : frames[k].more
<1> DEFINE named == SetRoutingId(m, frames[1].data)
           c == Decode(named, frames[2].data)
           next == IF frames[2].more THEN AfterMultipart(frames, 3) ELSE 3
           n == next - 3
           content == [i \in 1 .. n |-> frames[i + 2].data]
<1>1. /\ Len(frames) \in Nat /\ Len(frames) >= 1
      /\ \A i \in 1 .. Len(frames) : /\ frames[i].data \in Frame
                                     /\ frames[i].more \in BOOLEAN
  <2>1. \A i \in 1 .. Len(frames) : frames[i] \in ObjectFrame
    OBVIOUS
  <2> QED BY <2>1 DEF ObjectFrame
<1>2. named \in Object
  <2>1. frames[1].data \in Octets
    BY <1>1 DEF Octets
  <2> QED BY <2>1, SettersType
<1> HIDE DEF named
<1>3. Receive(m, frames) =
        CASE ~frames[1].more -> Result(named, 2, 1)
          [] frames[1].more /\ HasContent(c) ->
                Result(SetContent(c.m, content), next, c.rc)
          [] OTHER -> Result(c.m, 3, c.rc)
  BY DEF Receive, named
<1>4. CASE ~frames[1].more
  <2>1. Receive(m, frames) = Result(named, 2, 1)
    BY <1>3, <1>4
  <2> QED BY <1>1, <1>2, <2>1 DEF Result
<1>5. CASE frames[1].more
  <2>1. Len(frames) >= 2
    BY <1>1, <1>5 DEF Closed
  <2>2. c \in Cursors(Object)
    BY <1>1, <1>2, <2>1, DecodeType
  <2> HIDE DEF c
  <2>3. c.m \in Object /\ c.rc \in 0 .. 2
    BY <2>2 DEF Cursors
  <2>4. /\ next \in 3 .. Len(frames) + 1 /\ n \in Nat
        /\ \A k \in 1 .. next - 2 : frames[k].more
    <3>1. CASE frames[2].more
      <4>1. Len(frames) >= 3
        BY <1>1, <2>1, <3>1 DEF Closed
      <4>2. 3 \in 1 .. Len(frames)
        BY <1>1, <4>1
      <4> DEFINE e == AfterMultipart(frames, 3) - 1
      <4>3. /\ e \in 3 .. Len(frames) /\ AfterMultipart(frames, 3) = e + 1
            /\ \A k \in 3 .. e - 1 : frames[k].more
        BY <4>2, EndOfMultipart
      <4> HIDE DEF e
      <4>4. next = e + 1 /\ next - 2 = e - 1
        BY <3>1, <4>3
      <4>5. \A k \in 1 .. e - 1 : k = 1 \/ k = 2 \/ k \in 3 .. e - 1
        BY <4>3
      <4>6. \A k \in 1 .. e - 1 : frames[k].more
        BY <1>5, <3>1, <4>3, <4>5
      <4>7. next \in 3 .. Len(frames) + 1 /\ n \in Nat
        BY <1>1, <4>3, <4>4
      <4> QED BY <4>4, <4>6, <4>7
    <3>2. CASE ~frames[2].more
      <4>1. next = 3 /\ \A k \in 1 .. next - 2 : k = 1
        BY <3>2
      <4> QED BY <1>1, <1>5, <2>1, <4>1
    <3> QED BY <3>1, <3>2
  <2> HIDE DEF next
  <2>5. CASE HasContent(c)
    <3>1. \A i \in 1 .. n : frames[i + 2].data \in Frame
      <4>1. \A i \in 1 .. n : i + 2 \in 1 .. Len(frames)
        BY <1>1, <2>4
      <4> QED BY <1>1, <4>1
    <3>2. content \in Seq(Frame)
      BY <2>4, <3>1, IsASeq
    <3> HIDE DEF content
    <3>3. SetContent(c.m, content) \in Object
      BY <2>3, <3>2, SettersType DEF Frames
    <3>4. Receive(m, frames) = Result(SetContent(c.m, content), next, c.rc)
      BY <1>3, <1>5, <2>5
    <3>5. next \in 2 .. Len(frames) + 1
      BY <2>4
    <3> QED BY <2>3, <2>4, <3>3, <3>4, <3>5 DEF Result
  <2>6. CASE ~HasContent(c)
    <3>1. Receive(m, frames) = Result(c.m, 3, c.rc)
      BY <1>3, <1>5, <2>6
    <3>2. 3 \in 2 .. Len(frames) + 1 /\ \A k \in 1 .. 3 - 2 : frames[k].more
      BY <1>1, <1>5, <2>1
    <3> QED BY <2>3, <3>1, <3>2 DEF Result
  <2> QED BY <2>5, <2>6
<1> QED BY <1>1, <1>4, <1>5

\* A message that was sent is under way whole, from its first frame on.
Under(frames, i, d) ==
  i + Len(d) - 1 <= Len(frames) /\ \A j \in 1 .. Len(d) : frames[i + j - 1] = d[j]
Sending(frames, i) ==
  \E id \in Frame, octet \in Octet :
      Under(frames, i, Delivered(id, Multipart(frames[i].sent, octet), frames[i].sent))

Wired(frames) ==
  /\ frames \in Seq(ObjectFrame)
  /\ Closed(frames)
  /\ \A i \in 1 .. Len(frames) - 1 : frames[i].more => frames[i + 1].sent = Null
  /\ \A i \in 1 .. Len(frames) : frames[i].sent # Null => Sending(frames, i)

\* What the ROUTER delivers.
LEMMA DeliveredShape ==
  ASSUME NEW id \in Frame, NEW frames \in Seq(Frame), NEW sent \in Object \cup {Null}
  PROVE  LET d == Delivered(id, frames, sent)
         IN  /\ d \in Seq(ObjectFrame) /\ Len(d) = Len(frames) + 1
             /\ d[1].data = id /\ d[1].sent = sent
             /\ \A i \in 2 .. Len(d) : d[i].data = frames[i - 1] /\ d[i].sent = Null
             /\ \A i \in 1 .. Len(d) : d[i].more <=> i < Len(d)
<1> DEFINE n == Len(frames) + 1
           e(i) == [data |-> IF i = 1 THEN id ELSE frames[i - 1],
                    more |-> i <= Len(frames),
                    sent |-> IF i = 1 THEN sent ELSE Null]
           d == Delivered(id, frames, sent)
<1>1. Len(frames) \in Nat /\ n \in Nat /\ n >= 1
  OBVIOUS
<1>2. ASSUME NEW i \in 1 .. n PROVE e(i) \in ObjectFrame
  <2>1. i # 1 => frames[i - 1] \in Frame
    <3>1. i # 1 => i - 1 \in 1 .. Len(frames)
      BY <1>1
    <3> QED BY <3>1
  <2> QED BY <2>1 DEF ObjectFrame
<1>3. d = [i \in 1 .. n |-> e(i)]
  BY DEF Delivered
<1> HIDE DEF d
<1>4. d \in Seq(ObjectFrame) /\ Len(d) = n
  <2>1. [i \in 1 .. n |-> e(i)] \in Seq(ObjectFrame)
    BY <1>1, <1>2, IsASeq
  <2>2. Len([i \in 1 .. n |-> e(i)]) = n
    BY <1>1
  <2> QED BY <1>3, <2>1, <2>2
<1>5. ASSUME NEW i \in 1 .. n
      PROVE  /\ d[i].data = IF i = 1 THEN id ELSE frames[i - 1]
             /\ d[i].more <=> i < n
             /\ d[i].sent = IF i = 1 THEN sent ELSE Null
  <2>1. d[i] = e(i)
    BY <1>3
  <2>2. e(i).more <=> i <= Len(frames)
    OBVIOUS
  <2>3. i <= Len(frames) <=> i < n
    BY <1>1
  <2> QED BY <2>1, <2>2, <2>3
<1> HIDE DEF n
<1>6. \A i \in 1 .. n : d[i].more <=> i < n
  BY <1>5
<1>7. d[1].data = id /\ d[1].sent = sent
  <2>1. 1 \in 1 .. n
    BY <1>1
  <2> QED BY <1>5, <2>1
<1>8. \A i \in 2 .. n : d[i].data = frames[i - 1] /\ d[i].sent = Null
  <2>1. \A i \in 2 .. n : i \in 1 .. n /\ i # 1
    BY <1>1
  <2> QED BY <1>5, <2>1
<1> QED BY <1>4, <1>6, <1>7, <1>8 DEF d, n

LEMMA DeliveredWired ==
  ASSUME NEW id \in Frame, NEW frames \in Seq(Frame), NEW sent \in Object \cup {Null},
         sent # Null => \E octet \in Octet : frames = Multipart(sent, octet)
  PROVE  Wired(Delivered(id, frames, sent))
<1> DEFINE d == Delivered(id, frames, sent)
<1>1. /\ d \in Seq(ObjectFrame) /\ Len(d) = Len(frames) + 1
      /\ d[1].data = id /\ d[1].sent = sent
      /\ \A i \in 2 .. Len(d) : d[i].data = frames[i - 1] /\ d[i].sent = Null
      /\ \A i \in 1 .. Len(d) : d[i].more <=> i < Len(d)
  BY DeliveredShape
<1>2. sent # Null => \E octet \in Octet : d = Delivered(id, Multipart(sent, octet), sent)
  OBVIOUS
<1> HIDE DEF d
<1>3. Len(d) \in Nat /\ Len(d) >= 1
  BY <1>1
<1>4. Closed(d)
  <2>1. Len(d) \in 1 .. Len(d) /\ ~(Len(d) < Len(d))
    BY <1>3
  <2> QED BY <1>1, <2>1 DEF Closed
<1>5. \A i \in 1 .. Len(d) - 1 : d[i + 1].sent = Null
  <2>1. \A i \in 1 .. Len(d) - 1 : i + 1 \in 2 .. Len(d)
    BY <1>3
  <2> QED BY <1>1, <2>1
<1>6. ASSUME NEW i \in 1 .. Len(d), d[i].sent # Null PROVE Sending(d, i)
  <2>1. i = 1
    <3>1. i # 1 => i \in 2 .. Len(d)
      BY <1>3
    <3> QED BY <1>1, <1>6, <3>1
  <2>2. Under(d, i, d)
    <3>1. i + Len(d) - 1 = Len(d) /\ \A j \in 1 .. Len(d) : i + j - 1 = j
      BY <1>3, <2>1
    <3> QED BY <1>3, <3>1 DEF Under
  <2>3. PICK octet \in Octet : d = Delivered(id, Multipart(sent, octet), sent)
    BY <1>1, <1>2, <1>6, <2>1
  <2>4. d[i].sent = sent
    BY <1>1, <2>1
  <2> QED BY <2>2, <2>3, <2>4 DEF Sending
<1>7. Wired(d)
  BY <1>1, <1>4, <1>5, <1>6 DEF Wired
<1> QED BY <1>7 DEF d

LEMMA DeliveredLen ==
  ASSUME NEW id \in Frame, NEW m \in Object, NEW octet \in Octet
  PROVE  Len(Delivered(id, Multipart(m, octet), m)) \in Nat
<1>1. Multipart(m, octet) \in Seq(Frame) /\ m \in Object \cup {Null}
  BY MultipartType DEF Object
<1> DEFINE f == Multipart(m, octet)
<1> HIDE DEF f
<1>2. Len(Delivered(id, f, m)) = Len(f) + 1 /\ Len(f) \in Nat
  BY <1>1, DeliveredShape DEF f
<1> QED BY <1>2 DEF f

\* Multiparts behind each other.
LEMMA ConcatWired ==
  ASSUME NEW u, NEW v, Wired(u), Wired(v)
  PROVE  Wired(u \o v)
<1> DEFINE w == u \o v
<1>1. u \in Seq(ObjectFrame) /\ v \in Seq(ObjectFrame) /\ Len(u) \in Nat /\ Len(v) \in Nat
  BY DEF Wired
<1>2. /\ w \in Seq(ObjectFrame) /\ Len(w) = Len(u) + Len(v)
      /\ \A i \in 1 .. Len(u) : w[i] = u[i]
      /\ \A i \in 1 .. Len(v) : w[Len(u) + i] = v[i]
  BY <1>1
<1>3. Len(v) = 0 => w = u
  <2>1. Len(v) = 0 => v = <<>>
    BY <1>1, EmptySeq
  <2> QED BY <1>1, <2>1, ConcatEmptySeq
<1> HIDE DEF w
<1>4. Closed(w)
  <2>1. CASE Len(v) = 0
    BY <1>3, <2>1 DEF Wired
  <2>2. CASE Len(v) # 0
    <3>1. v # <<>> /\ Len(v) \in 1 .. Len(v)
      BY <1>1, <2>2
    <3> QED BY <1>2, <3>1 DEF Wired, Closed
  <2> QED BY <2>1, <2>2
<1>5. \A i \in 1 .. Len(w) : i \in 1 .. Len(u) \/ \E j \in 1 .. Len(v) : i = Len(u) + j
  <2>1. ASSUME NEW i \in 1 .. Len(w), i \notin 1 .. Len(u)
        PROVE  \E j \in 1 .. Len(v) : i = Len(u) + j
    <3>1. i - Len(u) \in 1 .. Len(v) /\ i = Len(u) + (i - Len(u))
      BY <1>1, <1>2, <2>1
    <3> QED BY <3>1
  <2> QED BY <2>1
<1>6. ASSUME NEW i \in 1 .. Len(w) - 1, w[i].more PROVE w[i + 1].sent = Null
  <2>1. CASE i \in 1 .. Len(u) - 1
    <3>1. i \in 1 .. Len(u) /\ i + 1 \in 1 .. Len(u)
      BY <1>1, <2>1
    <3> QED BY <1>2, <1>6, <2>1, <3>1 DEF Wired
  <2>2. CASE i \notin 1 .. Len(u) - 1
    <3>1. i # Len(u)
      <4>1. i = Len(u) => u # <<>> /\ Len(u) \in 1 .. Len(u)
        BY <1>1, <1>2
      <4> QED BY <1>2, <1>6, <4>1 DEF Wired, Closed
    <3> DEFINE j == i - Len(u)
    <3>2. /\ j \in 1 .. Len(v) - 1 /\ j \in 1 .. Len(v) /\ j + 1 \in 1 .. Len(v)
          /\ i = Len(u) + j /\ i + 1 = Len(u) + (j + 1)
      <4>1. i \in Nat /\ i > Len(u) /\ i <= Len(u) + Len(v) - 1
        BY <1>1, <1>2, <2>2, <3>1
      <4> QED BY <1>1, <4>1
    <3> HIDE DEF j
    <3>3. w[i] = v[j] /\ w[i + 1] = v[j + 1]
      BY <1>2, <3>2
    <3> QED BY <1>6, <3>2, <3>3 DEF Wired
  <2> QED BY <2>1, <2>2
<1>7. ASSUME NEW i \in 1 .. Len(w), w[i].sent # Null PROVE Sending(w, i)
  <2>1. CASE i \in 1 .. Len(u)
    <3>1. w[i] = u[i]
      BY <1>2, <2>1
    <3>2. PICK id \in Frame, octet \in Octet :
             Under(u, i, Delivered(id, Multipart(u[i].sent, octet), u[i].sent))
      BY <1>7, <2>1, <3>1 DEF Wired, Sending
    <3> DEFINE d == Delivered(id, Multipart(u[i].sent, octet), u[i].sent)
    <3>3. Len(d) \in Nat
      <4>1. u[i] \in ObjectFrame
        BY <1>1, <2>1
      <4> QED BY <1>7, <3>1, <4>1, DeliveredLen DEF ObjectFrame
    <3> HIDE DEF d
    <3>4. Under(w, i, d)
      <4>1. Under(u, i, d)
        BY <3>2 DEF d
      <4>2. \A j \in 1 .. Len(d) : i + j - 1 \in 1 .. Len(u)
        BY <1>1, <2>1, <3>3, <4>1 DEF Under
      <4>3. i + Len(d) - 1 <= Len(w)
        BY <1>1, <1>2, <2>1, <3>3, <4>1 DEF Under
      <4> QED BY <1>2, <4>1, <4>2, <4>3 DEF Under
    <3> QED BY <3>1, <3>4 DEF Sending, d
  <2>2. CASE i \notin 1 .. Len(u)
    <3>1. PICK k \in 1 .. Len(v) : i = Len(u) + k
      BY <1>5, <2>2
    <3>2. w[i] = v[k]
      BY <1>2, <3>1
    <3>3. PICK id \in Frame, octet \in Octet :
             Under(v, k, Delivered(id, Multipart(v[k].sent, octet), v[k].sent))
      BY <1>7, <3>2 DEF Wired, Sending
    <3> DEFINE d == Delivered(id, Multipart(v[k].sent, octet), v[k].sent)
    <3>4. Len(d) \in Nat
      <4>1. v[k] \in ObjectFrame
        BY <1>1
      <4> QED BY <1>7, <3>2, <4>1, DeliveredLen DEF ObjectFrame
    <3> HIDE DEF d
    <3>5. Under(w, i, d)
      <4>1. Under(v, k, d)
        BY <3>3 DEF d
      <4>2. \A j \in 1 .. Len(d) : /\ k + j - 1 \in 1 .. Len(v)
                                   /\ i + j - 1 = Len(u) + (k + j - 1)
        BY <1>1, <3>1, <3>4, <4>1 DEF Under
      <4>3. i + Len(d) - 1 <= Len(w)
        BY <1>1, <1>2, <3>1, <3>4, <4>1 DEF Under
      <4>4. \A j \in 1 .. Len(d) : w[i + j - 1] = d[j]
        BY <1>2, <4>1, <4>2 DEF Under
      <4> QED BY <4>3, <4>4 DEF Under
    <3> QED BY <3>2, <3>5 DEF Sending, d
  <2> QED BY <2>1, <2>2
<1>8. Wired(w)
  BY <1>2, <1>4, <1>6, <1>7 DEF Wired
<1> QED BY <1>8 DEF w

\* What is left of the wire behind frames that were received.
LEMMA DropWired ==
  ASSUME NEW frames, Wired(frames), NEW k \in 0 .. Len(frames)
  PROVE  /\ Wired(Drop(frames, k))
         /\ Len(Drop(frames, k)) = Len(frames) - k
         /\ \A i \in 1 .. Len(frames) - k : Drop(frames, k)[i] = frames[i + k]
<1> DEFINE w == Drop(frames, k)
           n == Len(frames) - k
<1>1. frames \in Seq(ObjectFrame) /\ Len(frames) \in Nat /\ n \in Nat
  BY DEF Wired
<1>2. w \in Seq(ObjectFrame) /\ Len(w) = n /\ \A i \in 1 .. n : w[i] = frames[i + k]
  <2>1. k + 1 \in Nat /\ k + 1 >= 1
    BY <1>1
  <2>2. SubSeq(frames, k + 1, Len(frames)) \in Seq(ObjectFrame)
    BY <1>1, <2>1
  <2>3. /\ Len(SubSeq(frames, k + 1, Len(frames))) = Len(frames) - k
        /\ \A i \in 1 .. Len(frames) - k :
              SubSeq(frames, k + 1, Len(frames))[i] = frames[k + 1 + i - 1]
    BY <1>1, <2>1
  <2>4. \A i \in 1 .. Len(frames) - k : k + 1 + i - 1 = i + k
    BY <1>1
  <2> QED BY <2>2, <2>3, <2>4 DEF Drop
<1> HIDE DEF w
<1>3. n \in Nat /\ k \in Nat /\ Len(frames) = n + k
  BY <1>1
<1> HIDE DEF n
<1>4. Closed(w)
  <2>1. CASE n = 0
    <3>1. w = <<>>
      BY <1>2, <2>1, EmptySeq
    <3> QED BY <3>1 DEF Closed
  <2>2. CASE n # 0
    <3>1. n \in 1 .. n /\ frames # <<>>
      BY <1>1, <1>3, <2>2
    <3>2. w[Len(w)] = frames[Len(frames)]
      BY <1>2, <1>3, <3>1
    <3> QED BY <3>1, <3>2 DEF Closed, Wired
  <2> QED BY <2>1, <2>2
<1>5. ASSUME NEW i \in 1 .. Len(w) - 1, w[i].more PROVE w[i + 1].sent = Null
  <2>1. /\ i \in 1 .. n /\ i + 1 \in 1 .. n /\ i + k \in 1 .. Len(frames) - 1
        /\ (i + 1) + k = (i + k) + 1
    BY <1>2, <1>3
  <2>2. w[i] = frames[i + k] /\ w[i + 1] = frames[(i + k) + 1]
    BY <1>2, <2>1
  <2> QED BY <1>5, <2>1, <2>2 DEF Wired
<1>6. ASSUME NEW i \in 1 .. Len(w), w[i].sent # Null PROVE Sending(w, i)
  <2>1. w[i] = frames[i + k] /\ i + k \in 1 .. Len(frames)
    BY <1>2, <1>3
  <2>2. PICK id \in Frame, octet \in Octet :
           Under(frames, i + k,
                 Delivered(id, Multipart(frames[i + k].sent, octet), frames[i + k].sent))
    BY <1>6, <2>1 DEF Wired, Sending
  <2> DEFINE d == Delivered(id, Multipart(frames[i + k].sent, octet), frames[i + k].sent)
  <2>3. Len(d) \in Nat
    <3>1. frames[i + k] \in ObjectFrame
      BY <1>1, <2>1
    <3> QED BY <1>6, <2>1, <3>1, DeliveredLen DEF ObjectFrame
  <2> HIDE DEF d
  <2>4. Under(w, i, d)
    <3>1. Under(frames, i + k, d)
      BY <2>2 DEF d
    <3>2. i + Len(d) - 1 <= n
      BY <1>3, <2>3, <3>1 DEF Under
    <3>3. \A j \in 1 .. Len(d) : i + j - 1 \in 1 .. n /\ (i + j - 1) + k = (i + k) + j - 1
      BY <1>3, <2>3, <3>2
    <3>4. \A j \in 1 .. Len(d) : w[i + j - 1] = d[j]
      BY <1>2, <3>1, <3>3 DEF Under
    <3> QED BY <1>2, <3>2, <3>4 DEF Under
  <2> QED BY <2>1, <2>4 DEF Sending, d
<1>7. Wired(w)
  BY <1>2, <1>4, <1>5, <1>6 DEF Wired
<1> QED BY <1>2, <1>7 DEF w, n

-----------------------------------------------------------------------------
(***************************************************************************)
(* What is stored in a tree and loaded again.                              *)
(***************************************************************************)

\* Two digits hold an octet.
LEMMA DigitsKept ==
  ASSUME NEW a \in Octet
  PROVE  /\ a \div Digit \in Octet /\ a % Digit \in Octet
         /\ (a \div Digit) * Digit + (a % Digit) = a
<1> DEFINE high == a \div Digit
           low == a % Digit
<1>1. Digit \in Nat /\ Digit >= 4 /\ a \in Nat /\ a < Digit * Digit
  BY RadixAssumption, BaseType DEF Octet, Base
<1>2. low \in 0 .. Digit - 1 /\ high \in Nat /\ a = Digit * high + low
  BY <1>1, Z3
<1>3. high < Digit
  <2>1. SUFFICES ASSUME high >= Digit PROVE FALSE
    BY <1>1, <1>2
  <2>2. Digit * high >= Digit * Digit
    BY <1>1, <1>2, <2>1
  <2> QED BY <1>1, <1>2, <2>2
<1> HIDE DEF high, low
<1>4. Digit <= Base
  <2>1. \A d \in Nat : d >= 4 => d <= d * d
    BY Z3
  <2> QED BY <1>1, <2>1 DEF Base
<1>5. high \in Octet /\ low \in Octet
  BY <1>1, <1>2, <1>3, <1>4, BaseType DEF Octet
<1>6. high * Digit + low = a
  <2>1. high * Digit = Digit * high
    BY <1>1, <1>2
  <2> QED BY <1>2, <2>1
<1> QED BY <1>5, <1>6 DEF high, low

LEMMA HexKept ==
  ASSUME NEW s \in Frame
  PROVE  Hex(s) \in Frame /\ Unhex(Hex(s)) = s
<1> DEFINE n == Len(s)
           text == Hex(s)
<1>1. n \in Nat /\ 2 * n \in Nat /\ s \in Seq(Octet) /\ \A i \in 1 .. n : s[i] \in Octet
  BY DEF Frame
<1>2. text = [i \in 1 .. 2 * n |->
                IF i % 2 = 1 THEN s[(i + 1) \div 2] \div Digit ELSE s[i \div 2] % Digit]
  BY DEF Hex
<1> HIDE DEF n, text
<1>3. \A i \in 1 .. n : /\ 2 * i - 1 \in 1 .. 2 * n /\ 2 * i \in 1 .. 2 * n
                        /\ (2 * i - 1) % 2 = 1 /\ ((2 * i - 1) + 1) \div 2 = i
                        /\ (2 * i) % 2 = 0 /\ (2 * i) \div 2 = i
  BY <1>1
<1>4. \A i \in 1 .. 2 * n : /\ i % 2 = 1 => (i + 1) \div 2 \in 1 .. n
                            /\ i % 2 # 1 => i \div 2 \in 1 .. n
  BY <1>1
<1>5. \A i \in 1 .. 2 * n : text[i] \in Octet
  <2> SUFFICES ASSUME NEW i \in 1 .. 2 * n PROVE text[i] \in Octet
    OBVIOUS
  <2>1. CASE i % 2 = 1
    <3>1. text[i] = s[(i + 1) \div 2] \div Digit /\ s[(i + 1) \div 2] \in Octet
      BY <1>1, <1>2, <1>4, <2>1
    <3> QED BY <3>1, DigitsKept
  <2>2. CASE i % 2 # 1
    <3>1. text[i] = s[i \div 2] % Digit /\ s[i \div 2] \in Octet
      BY <1>1, <1>2, <1>4, <2>2
    <3> QED BY <3>1, DigitsKept
  <2> QED BY <2>1, <2>2
<1>6. text \in Frame /\ Len(text) = 2 * n
  <2>1. text = [i \in 1 .. 2 * n |-> text[i]]
    BY <1>2
  <2>2. text \in [1 .. 2 * n -> Octet]
    BY <1>5, <2>1
  <2>3. \A S, k : k \in Nat => [1 .. k -> S] \subseteq Seq(S)
    BY SeqDef
  <2>4. text \in Seq(Octet)
    BY <1>1, <2>2, <2>3
  <2>5. DOMAIN text = 1 .. 2 * n
    BY <2>1
  <2>6. Len(text) = 2 * n
    BY <1>1, <2>4, <2>5
  <2> QED BY <2>4, <2>6 DEF Frame
<1>7. (2 * n) \div 2 = n
  BY <1>1
<1>8. Unhex(text) = [i \in 1 .. n |-> text[2 * i - 1] * Digit + text[2 * i]]
  BY <1>6, <1>7 DEF Unhex
<1>9. ASSUME NEW i \in 1 .. n PROVE text[2 * i - 1] * Digit + text[2 * i] = s[i]
  <2>1. text[2 * i - 1] = s[((2 * i - 1) + 1) \div 2] \div Digit
    BY <1>2, <1>3
  <2>2. text[2 * i] = s[(2 * i) \div 2] % Digit
    <3>1. (2 * i) % 2 # 1 /\ 2 * i \in 1 .. 2 * n
      BY <1>3
    <3> QED BY <1>2, <3>1
  <2>3. text[2 * i - 1] = s[i] \div Digit /\ text[2 * i] = s[i] % Digit
    BY <1>3, <2>1, <2>2
  <2>4. s[i] \in Octet
    BY <1>1
  <2> QED BY <2>3, <2>4, DigitsKept
<1>10. Unhex(text) = s
  <2>1. Unhex(text) = [i \in 1 .. n |-> s[i]]
    BY <1>8, <1>9
  <2>2. s = [i \in 1 .. n |-> s[i]]
    BY <1>1 DEF n
  <2> QED BY <2>1, <2>2
<1> QED BY <1>6, <1>10 DEF text

LEMMA HexFramesKept ==
  ASSUME NEW frames \in Seq(Frame)
  PROVE  HexFrames(frames) \in Seq(Frame) /\ UnhexFrames(HexFrames(frames)) = frames
<1> DEFINE n == Len(frames)
           texts == HexFrames(frames)
<1>1. n \in Nat /\ DOMAIN frames = 1 .. n /\ \A i \in 1 .. n : frames[i] \in Frame
  OBVIOUS
<1>2. texts = [i \in 1 .. n |-> Hex(frames[i])]
  BY <1>1 DEF HexFrames
<1> HIDE DEF n, texts
<1>3. texts \in Seq(Frame)
  <2>1. \A i \in 1 .. n : Hex(frames[i]) \in Frame
    BY <1>1, HexKept
  <2> QED BY <1>1, <1>2, <2>1, IsASeq
<1>4. DOMAIN texts = 1 .. n /\ \A i \in 1 .. n : Unhex(texts[i]) = frames[i]
  BY <1>1, <1>2, HexKept
<1>5. UnhexFrames(texts) = [i \in 1 .. n |-> frames[i]]
  BY <1>4 DEF UnhexFrames
<1>6. frames = [i \in 1 .. n |-> frames[i]]
  BY DEF n
<1> QED BY <1>3, <1>5, <1>6 DEF texts

\* The path of a name, and the name of the child it leads to, are texts; those of
\* a name without a '/' are that name.
LEMMA PathType ==
  ASSUME NEW name \in CString
  PROVE  Path(name) \in CString /\ (~Nested(name) => Path(name) = name)
<1>1. name \in Seq(1 .. Base - 1)
  BY DEF CString
<1>2. CASE name = <<>>
  BY <1>1, <1>2 DEF Path, CString
<1>3. CASE name # <<>>
  <2>1. Tail(name) \in Seq(1 .. Base - 1) /\ 1 \in DOMAIN name
    BY <1>1, <1>3
  <2> QED BY <1>1, <2>1 DEF Path, Nested, CString
<1> QED BY <1>2, <1>3

LEMMA TopType ==
  ASSUME NEW path \in CString
  PROVE  Top(path) \in CString /\ (~Nested(path) => Top(path) = path)
<1>1. path \in Seq(1 .. Base - 1) /\ Len(path) \in Nat /\ DOMAIN path = 1 .. Len(path)
  BY DEF CString
<1>2. CASE ~Nested(path)
  BY <1>2 DEF Top
<1>3. CASE Nested(path)
  <2> DEFINE T == {i \in 1 .. Len(path) : path[i] = Slash}
             P(i) == path[i] = Slash /\ \A j \in 1 .. i - 1 : path[j] # Slash
             e == CHOOSE i \in DOMAIN path : P(i)
             n == e - 1
  <2>1. T # {} /\ T \in SUBSET Nat
    BY <1>1, <1>3 DEF Nested
  <2>2. PICK i \in T : \A k \in T : i <= k
    BY <2>1, LeastElement
  <2>3. i \in DOMAIN path /\ P(i)
    <3>1. \A j \in 1 .. i - 1 : j \in 1 .. Len(path) /\ ~(i <= j)
      BY <1>1, <2>2
    <3> QED BY <1>1, <2>2, <3>1
  <2>4. e \in DOMAIN path
    BY <2>3
  <2>5. n \in 0 .. Len(path)
    BY <1>1, <2>4
  <2>6. Top(path) = SubSeq(path, 1, n)
    BY <1>3 DEF Top
  <2> HIDE DEF n
  <2>7. SubSeq(path, 1, n) \in Seq(1 .. Base - 1)
    <3> DEFINE S == 1 .. Base - 1
    <3>1. path \in Seq(S) /\ n \in 0 .. Len(path) /\ Len(path) \in Nat
      BY <1>1, <2>5
    <3> HIDE DEF S
    <3>2. SubSeq(path, 1, n) \in Seq(S)
      BY <3>1
    <3> QED BY <3>2 DEF S
  <2> QED BY <1>3, <2>6, <2>7 DEF CString
<1> QED BY <1>2, <1>3

\* A section keeps one child of each name.
Sections == {h \in Seq(Header) : HashOf(h)}

LEMMA Appended ==
  ASSUME NEW s \in Sections, NEW name \in CString, NEW value \in CString,
         \A i \in DOMAIN s : s[i][1] # name
  PROVE  /\ Append(s, <<name, value>>) \in Sections
         /\ Len(Append(s, <<name, value>>)) = Len(s) + 1
         /\ \A i \in DOMAIN s : Append(s, <<name, value>>)[i] = s[i]
         /\ Append(s, <<name, value>>)[Len(s) + 1] = <<name, value>>
<1> DEFINE h == Append(s, <<name, value>>)
<1>1. s \in Seq(Header) /\ HashOf(s) /\ <<name, value>> \in Header
  BY DEF Sections, Header
<1>2. /\ h \in Seq(Header) /\ Len(h) = Len(s) + 1 /\ Len(s) \in Nat
      /\ \A i \in 1 .. Len(s) : h[i] = s[i]
      /\ h[Len(s) + 1] = <<name, value>>
  BY <1>1, AppendProperties
<1>3. DOMAIN h = 1 .. Len(s) + 1 /\ DOMAIN s = 1 .. Len(s)
  BY <1>1, <1>2
<1> HIDE DEF h
<1>4. HashOf(h)
  <2> SUFFICES ASSUME NEW i \in 1 .. Len(s) + 1, NEW j \in 1 .. Len(s) + 1,
                      h[i][1] = h[j][1]
               PROVE  i = j
    BY <1>3 DEF HashOf
  <2>1. h[Len(s) + 1][1] = name
    BY <1>2
  <2>2. \A k \in 1 .. Len(s) : h[k] = s[k] /\ h[k][1] # name
    BY <1>2, <1>3
  <2>3. CASE i \in 1 .. Len(s) /\ j \in 1 .. Len(s)
    BY <1>1, <1>3, <2>2, <2>3 DEF HashOf
  <2>4. CASE i \notin 1 .. Len(s) \/ j \notin 1 .. Len(s)
    <3>1. \A k \in 1 .. Len(s) + 1 : k \notin 1 .. Len(s) => k = Len(s) + 1
      BY <1>2
    <3> QED BY <2>1, <2>2, <2>4, <3>1
  <2> QED BY <2>3, <2>4
<1> QED BY <1>2, <1>3, <1>4 DEF h, Sections

LEMMA PutPathType ==
  ASSUME NEW s \in Sections, NEW name \in CString, NEW value \in CString
  PROVE  PutPath(s, name, value) \in Sections
<1> DEFINE path == Path(name)
           v == IF Nested(path) THEN <<>> ELSE value
           t == Top(path)
<1>1. path \in CString
  BY PathType
<1> HIDE DEF path
<1>2. t \in CString /\ v \in CString
  <2>1. <<>> \in CString
    BY DEF CString
  <2> QED BY <1>1, <2>1, TopType
<1> HIDE DEF t, v
<1>3. CASE \A i \in DOMAIN s : s[i][1] # t
  <2>1. PutPath(s, name, value) = Append(s, <<t, v>>)
    BY <1>3 DEF PutPath, path, t, v
  <2> QED BY <1>2, <1>3, <2>1, Appended
<1>4. CASE ~ \A i \in DOMAIN s : s[i][1] # t
  <2> DEFINE h == [i \in DOMAIN s |-> IF s[i][1] = path THEN <<path, value>> ELSE s[i]]
  <2>1. PutPath(s, name, value) = h
    BY <1>4 DEF PutPath, path, t
  <2>2. s \in Seq(Header) /\ HashOf(s) /\ Len(s) \in Nat /\ DOMAIN s = 1 .. Len(s)
    BY DEF Sections
  <2>3. \A i \in DOMAIN s : h[i] \in Header /\ h[i][1] = s[i][1]
    <3>1. <<path, value>> \in Header /\ <<path, value>>[1] = path
      BY <1>1 DEF Header
    <3>2. \A i \in DOMAIN s : s[i] \in Header
      BY <2>2
    <3> QED BY <3>1, <3>2
  <2>4. h = [i \in 1 .. Len(s) |-> h[i]]
    BY <2>2
  <2>5. DOMAIN h = DOMAIN s
    OBVIOUS
  <2> HIDE DEF h
  <2>6. h \in Seq(Header)
    BY <2>2, <2>3, <2>4, IsASeq
  <2>7. HashOf(h)
    BY <2>2, <2>3, <2>5 DEF HashOf
  <2> QED BY <2>1, <2>6, <2>7 DEF Sections
<1> QED BY <1>3, <1>4

\* The section after each header.
Puts(g, h) ==
  /\ g[0] = <<>> /\ Section(h) = g[Len(h)]
  /\ \A k \in 0 .. Len(h) : g[k] \in Sections
  /\ \A k \in 1 .. Len(h) : g[k] = PutPath(g[k - 1], h[k][1], h[k][2])

LEMMA HeaderTexts ==
  ASSUME NEW h \in Sections
  PROVE  /\ Len(h) \in Nat /\ DOMAIN h = 1 .. Len(h)
         /\ \A k \in 1 .. Len(h) : /\ h[k][1] \in CString /\ h[k][2] \in CString
                                   /\ h[k] = <<h[k][1], h[k][2]>>
BY DEF Sections, Header

LEMMA SectionPuts ==
  ASSUME NEW h \in Sections
  PROVE  \E g : Puts(g, h)
<1> DEFINE n == Len(h)
           F == [x \in (1 .. n) \X Sections |-> PutPath(x[2], h[x[1]][1], h[x[1]][2])]
           R(g) == g = [k \in 0 .. n |->
                IF k = 0 THEN <<>> ELSE PutPath(g[k - 1], h[k][1], h[k][2])]
<1>1. n \in Nat /\ \A k \in 1 .. n : h[k][1] \in CString /\ h[k][2] \in CString
  BY HeaderTexts
<1>2. Section(h) = (CHOOSE g : R(g))[n]
  BY DEF Section
<1>3. <<>> \in Sections
  BY DEF Sections, HashOf
<1> HIDE DEF n
<1>4. F \in [(1 .. n) \X Sections -> Sections]
  <2>1. \A x \in (1 .. n) \X Sections : PutPath(x[2], h[x[1]][1], h[x[1]][2]) \in Sections
    BY <1>1, PutPathType
  <2> QED BY <2>1
<1>5. \A k \in 1 .. n : \A s \in Sections : F[<<k, s>>] = PutPath(s, h[k][1], h[k][2])
  OBVIOUS
<1> HIDE DEF F
<1>6. \E g : R(g)
  <2>1. PICK g : Built(g, <<>>, F, n)
    BY <1>1, <1>3, <1>4, BuiltExists
  <2>2. /\ g = [k \in 0 .. n |-> g[k]] /\ g[0] = <<>>
        /\ \A k \in 1 .. n : g[k] = F[<<k, g[k - 1]>>]
    BY <1>1, <2>1, BuiltSteps
  <2>3. \A k \in 0 .. n : g[k] \in Sections
    <3>1. \A k \in 1 .. n : \A x \in Sections : F[<<k, x>>] \in Sections
      BY <1>4
    <3> QED BY <1>1, <1>3, <2>1, <3>1, BuiltType
  <2>4. \A k \in 0 .. n :
            g[k] = IF k = 0 THEN <<>> ELSE PutPath(g[k - 1], h[k][1], h[k][2])
    <3>1. \A k \in 0 .. n : k # 0 => k \in 1 .. n /\ k - 1 \in 0 .. n
      BY <1>1
    <3> QED BY <1>5, <2>2, <2>3, <3>1
  <2> QED BY <2>2, <2>4
<1> DEFINE g == CHOOSE x : R(x)
<1>7. R(g)
  BY <1>6
<1> HIDE DEF g
<1>8. \A k \in 0 .. n : g[k] = IF k = 0 THEN <<>> ELSE PutPath(g[k - 1], h[k][1], h[k][2])
  BY <1>7
<1>9. g[0] = <<>> /\ \A k \in 1 .. n : g[k] = PutPath(g[k - 1], h[k][1], h[k][2])
  <2>1. 0 \in 0 .. n /\ \A k \in 1 .. n : k \in 0 .. n /\ k # 0
    BY <1>1
  <2> QED BY <1>8, <2>1
<1> DEFINE S == {k \in Nat : g[k] \in Sections}
<1>10. 0 \in S
  BY <1>3, <1>9
<1>11. ASSUME NEW k \in 0 .. n - 1, k \in S PROVE k + 1 \in S
  <2>1. k + 1 \in 1 .. n /\ (k + 1) - 1 = k /\ k + 1 \in Nat
    BY <1>1
  <2>2. g[k + 1] = PutPath(g[k], h[k + 1][1], h[k + 1][2]) /\ g[k] \in Sections
    BY <1>9, <1>11, <2>1
  <2>3. g[k + 1] \in Sections
    BY <1>1, <2>1, <2>2, PutPathType
  <2> QED BY <2>1, <2>3
<1> HIDE DEF S
<1>12. \A k \in 0 .. n : k \in S
  BY <1>1, <1>10, <1>11, Climb
<1>13. \A k \in 0 .. n : g[k] \in Sections
  BY <1>12 DEF S
<1>14. Section(h) = g[n]
  BY <1>2 DEF g
<1> QED BY <1>9, <1>13, <1>14 DEF Puts, n

LEMMA SectionType ==
  ASSUME NEW h \in Sections
  PROVE  Section(h) \in Sections
<1>1. PICK g : Puts(g, h)
  BY SectionPuts
<1>2. Len(h) \in 0 .. Len(h)
  BY HeaderTexts
<1> QED BY <1>1, <1>2 DEF Puts

\* Names without a '/' come back as they are, in their order.
LEMMA FlatSection ==
  ASSUME NEW h \in Sections, \A i \in DOMAIN h : ~Nested(h[i][1])
  PROVE  Section(h) = h
<1> DEFINE n == Len(h)
<1>1. PICK g : Puts(g, h)
  BY SectionPuts
<1>2. /\ n \in Nat /\ DOMAIN h = 1 .. n /\ HashOf(h) /\ h \in Seq(Header)
      /\ \A k \in 1 .. n : /\ h[k][1] \in CString /\ h[k][2] \in CString
                           /\ h[k] = <<h[k][1], h[k][2]>>
  BY HeaderTexts DEF Sections
<1>3. /\ g[0] = <<>> /\ Section(h) = g[n]
      /\ \A k \in 0 .. n : g[k] \in Sections
      /\ \A k \in 1 .. n : g[k] = PutPath(g[k - 1], h[k][1], h[k][2])
  BY <1>1 DEF Puts
<1> HIDE DEF n
<1> DEFINE S == {k \in Nat : Len(g[k]) = k /\ \A i \in 1 .. k : g[k][i] = h[i]}
<1>4. 0 \in S
  BY <1>3
<1>5. ASSUME NEW k \in 0 .. n - 1, k \in S PROVE k + 1 \in S
  <2> DEFINE name == h[k + 1][1]
             value == h[k + 1][2]
  <2>1. /\ k + 1 \in 1 .. n /\ (k + 1) - 1 = k /\ k + 1 \in Nat /\ k \in 0 .. n
        /\ 1 .. k \subseteq 1 .. n /\ k + 1 \notin 1 .. k
    BY <1>2
  <2>2. /\ g[k] \in Sections /\ g[k + 1] = PutPath(g[k], name, value)
        /\ Len(g[k]) = k /\ \A i \in 1 .. k : g[k][i] = h[i]
    BY <1>3, <1>5, <2>1
  <2>3. /\ name \in CString /\ value \in CString /\ h[k + 1] = <<name, value>>
        /\ ~Nested(name)
    BY <1>2, <2>1
  <2> HIDE DEF name, value
  <2>4. Path(name) = name /\ Top(name) = name
    BY <2>3, PathType, TopType
  <2>5. \A i \in DOMAIN g[k] : g[k][i][1] # name
    <3>1. DOMAIN g[k] = 1 .. k
      BY <2>2, HeaderTexts
    <3>2. \A i \in 1 .. k : h[i][1] # h[k + 1][1]
      BY <1>2, <2>1 DEF HashOf
    <3> QED BY <2>2, <3>1, <3>2 DEF name
  <2>6. PutPath(g[k], name, value) = Append(g[k], <<name, value>>)
    BY <2>3, <2>4, <2>5 DEF PutPath
  <2>7. /\ Len(g[k + 1]) = k + 1
        /\ \A i \in 1 .. k : g[k + 1][i] = g[k][i]
        /\ g[k + 1][k + 1] = h[k + 1]
    <3>1. DOMAIN g[k] = 1 .. k
      BY <2>2, HeaderTexts
    <3> QED BY <2>2, <2>3, <2>5, <2>6, <3>1, Appended
  <2>8. \A i \in 1 .. k + 1 : i \in 1 .. k \/ i = k + 1
    BY <2>1
  <2> QED BY <2>1, <2>2, <2>7, <2>8
<1> HIDE DEF S
<1>6. \A k \in 0 .. n : k \in S
  BY <1>2, <1>4, <1>5, Climb
<1>7. /\ g[n] \in Seq(Header) /\ Len(g[n]) = n /\ \A i \in 1 .. n : g[n][i] = h[i]
  BY <1>2, <1>3, <1>6 DEF S, Sections
<1>8. g[n] = h
  BY <1>2, <1>7, SeqEqual DEF n
<1> QED BY <1>3, <1>8

\* A name without a '/' keeps its value, whatever the names beside it, unless one
\* of them is that name behind a '/'.
LEMMA FlatHeader ==
  ASSUME NEW h \in Sections, NEW i \in DOMAIN h, ~Nested(h[i][1]),
         \A j \in DOMAIN h : Path(h[j][1]) = h[i][1] => j = i
  PROVE  \E e \in DOMAIN Section(h) : Section(h)[e] = h[i]
<1> DEFINE n == Len(h)
           name == h[i][1]
           Held(s) == \E e \in DOMAIN s : s[e] = h[i]
<1>1. PICK g : Puts(g, h)
  BY SectionPuts
<1>2. /\ n \in Nat /\ DOMAIN h = 1 .. n
      /\ \A k \in 1 .. n : /\ h[k][1] \in CString /\ h[k][2] \in CString
                           /\ h[k] = <<h[k][1], h[k][2]>>
  BY HeaderTexts
<1>3. /\ g[0] = <<>> /\ Section(h) = g[n]
      /\ \A k \in 0 .. n : g[k] \in Sections
      /\ \A k \in 1 .. n : g[k] = PutPath(g[k - 1], h[k][1], h[k][2])
  BY <1>1 DEF Puts
<1>4. /\ i \in 1 .. n /\ i \in Nat /\ name \in CString /\ h[i][2] \in CString
      /\ h[i] = <<name, h[i][2]>> /\ Path(name) = name /\ Top(name) = name
      /\ ~Nested(name)
  BY <1>2, PathType, TopType
<1> HIDE DEF n
\* The step of the header itself.
<1>5. Held(g[i])
  <2> DEFINE s == g[i - 1]
             t == g[i]
  <2>1. s \in Sections /\ t = PutPath(s, name, h[i][2])
    <3>1. i - 1 \in 0 .. n
      BY <1>2, <1>4
    <3> QED BY <1>3, <1>4, <3>1
  <2> HIDE DEF s, t
  <2> DEFINE value == h[i][2]
  <2>2. h[i] = <<name, value>> /\ name \in CString /\ value \in CString
    BY <1>4
  <2> HIDE DEF name, value
  <2>3. CASE \A e \in DOMAIN s : s[e][1] # name
    <3>1. t = Append(s, <<name, value>>)
      BY <1>4, <2>1, <2>3 DEF PutPath, value
    <3>2. t \in Sections /\ Len(t) = Len(s) + 1 /\ t[Len(s) + 1] = <<name, value>>
      <4> DEFINE w == Append(s, <<name, value>>)
      <4>1. w \in Sections /\ Len(w) = Len(s) + 1 /\ w[Len(s) + 1] = <<name, value>>
        BY <2>1, <2>2, <2>3, Appended
      <4>2. t = w
        BY <3>1
      <4> HIDE DEF w
      <4> QED BY <4>1, <4>2
    <3>3. Len(s) + 1 \in DOMAIN t
      BY <2>1, <3>2, HeaderTexts
    <3> QED BY <2>2, <3>2, <3>3 DEF t
  <2>4. CASE ~ \A e \in DOMAIN s : s[e][1] # name
    <3>1. t = [e \in DOMAIN s |-> IF s[e][1] = name THEN <<name, value>> ELSE s[e]]
      BY <1>4, <2>1, <2>4 DEF PutPath, value
    <3>2. PICK e \in DOMAIN s : s[e][1] = name
      BY <2>4
    <3>3. e \in DOMAIN t /\ t[e] = <<name, value>>
      BY <3>1, <3>2
    <3> QED BY <2>2, <3>3 DEF t
  <2> QED BY <2>3, <2>4
<1> DEFINE S == {k \in Nat : Held(g[k])}
\* The steps after it.
<1>6. ASSUME NEW k \in i .. n - 1, k \in S PROVE k + 1 \in S
  <2> DEFINE s == g[k]
             t == g[k + 1]
             other == h[k + 1][1]
             value == h[k + 1][2]
             path == Path(other)
  <2>1. k \in 0 .. n /\ k + 1 \in 1 .. n /\ (k + 1) - 1 = k /\ k + 1 # i /\ k + 1 \in Nat
    BY <1>2, <1>4
  <2>2. /\ s \in Sections /\ t = PutPath(s, other, value)
        /\ other \in CString /\ value \in CString
    BY <1>2, <1>3, <2>1
  <2>3. path # name
    BY <1>2, <2>1
  <2>4. PICK e \in DOMAIN s : s[e] = h[i]
    BY <1>6
  <2> DEFINE v == IF Nested(path) THEN <<>> ELSE value
             top == Top(path)
  <2>5. top \in CString /\ v \in CString
    <3>1. <<>> \in CString
      BY DEF CString
    <3>2. path \in CString
      BY <2>2, PathType
    <3> HIDE DEF path
    <3> QED BY <2>2, <3>1, <3>2, TopType
  <2>6. s[e][1] = name
    BY <2>4
  <2> HIDE DEF s, t, other, value, path, v, top, name
  <2>7. CASE \A d \in DOMAIN s : s[d][1] # top
    <3>1. t = Append(s, <<top, v>>)
      BY <2>2, <2>7 DEF PutPath, path, top, v
    <3>2. t \in Sections /\ Len(t) = Len(s) + 1 /\ t[e] = s[e]
      BY <2>2, <2>4, <2>5, <2>7, <3>1, Appended
    <3>3. DOMAIN t = 1 .. Len(s) + 1 /\ DOMAIN s = 1 .. Len(s) /\ Len(s) \in Nat
      BY <2>2, <3>2, HeaderTexts
    <3>4. e \in DOMAIN t
      BY <2>4, <3>3
    <3> QED BY <2>1, <2>4, <3>2, <3>4 DEF t
  <2>8. CASE ~ \A d \in DOMAIN s : s[d][1] # top
    <3>1. t = [d \in DOMAIN s |-> IF s[d][1] = path THEN <<path, value>> ELSE s[d]]
      BY <2>2, <2>8 DEF PutPath, path, top
    <3>2. e \in DOMAIN t /\ t[e] = s[e]
      BY <2>3, <2>4, <2>6, <3>1
    <3> QED BY <2>1, <2>4, <3>2 DEF t
  <2> QED BY <2>7, <2>8
<1>7. i \in S
  BY <1>4, <1>5
<1> HIDE DEF S
<1>8. \A k \in i .. n : k \in S
  BY <1>2, <1>4, <1>6, <1>7, Climb
<1>9. n \in i .. n
  BY <1>2, <1>4
<1>10. Held(g[n])
  BY <1>8, <1>9 DEF S
<1> QED BY <1>3, <1>10

LEMMA NewObject == New \in Object
<1>1. <<>> \in Buffer
  <2>1. Len(<<>>) = 0 /\ 0 < Base
    BY BaseType
  <2> QED BY <2>1, EmptySeq DEF Buffer, CString
<1>2. 0 \in Octet /\ 0 \in 0 .. Base * Base - 1
  <2>1. \A b \in Nat : b >= 16 => b * b > 0 /\ b * b \in Nat
    BY Z3
  <2> QED BY BaseType, <2>1 DEF Octet
<1> QED BY <1>1, <1>2 DEF New, Object, Msg

\* What an object holds, its setters keep.
LEMMA SettersKeep ==
  ASSUME NEW m \in Object, NEW x
  PROVE  /\ SetSequence(x, m.sequence) = [x EXCEPT !.sequence = m.sequence]
         /\ SetStatus(x, m.status) = [x EXCEPT !.status = m.status]
         /\ SetEndpoint(x, m.endpoint) = [x EXCEPT !.endpoint = m.endpoint]
         /\ SetName(x, m.name) = [x EXCEPT !.name = m.name]
         /\ SetGroup(x, m.group) = [x EXCEPT !.group = m.group]
         /\ SetChallenger(x, m.challenger) = [x EXCEPT !.challenger = m.challenger]
         /\ SetLeader(x, m.leader) = [x EXCEPT !.leader = m.leader]
<1>1. /\ m.sequence \in 0 .. Base * Base - 1 /\ m.status \in Octet
      /\ m.endpoint \in Buffer /\ m.name \in Buffer /\ m.group \in Buffer
      /\ m.challenger \in Buffer /\ m.leader \in Buffer
  BY DEF Object, Msg
<1>2. m.sequence % (Base * Base) = m.sequence /\ m.status % Base = m.status
  <2> DEFINE b == Base * Base
  <2>1. \A c \in Nat : \A k \in 0 .. c - 1 : k % c = k
    BY Z3
  <2>2. b \in Nat
    <3>1. \A c \in Nat : c * c \in Nat
      BY Z3
    <3> QED BY <3>1, BaseType
  <2>3. m.sequence \in 0 .. b - 1 /\ m.status \in 0 .. Base - 1
    BY <1>1 DEF Octet
  <2> HIDE DEF b
  <2>4. m.sequence % b = m.sequence
    BY <2>1, <2>2, <2>3
  <2>5. m.status % Base = m.status
    BY <2>1, <2>3, BaseType
  <2> QED BY <2>4, <2>5 DEF b
<1>3. /\ Cut(m.endpoint) = m.endpoint /\ Cut(m.name) = m.name /\ Cut(m.group) = m.group
      /\ Cut(m.challenger) = m.challenger /\ Cut(m.leader) = m.leader
  BY <1>1, StringKept
<1> QED BY <1>2, <1>3 DEF SetSequence, SetStatus, SetEndpoint, SetName, SetGroup,
                          SetChallenger, SetLeader

\* An object g that is the object m with the field key set to v.
Differs(g, m, key, v) ==
  /\ g[key] = v
  /\ \A f \in DOMAIN New \ {key} : g[f] = m[f]

LEMMA ExceptDiffers ==
  ASSUME NEW m \in Object, NEW key \in DOMAIN New, NEW v
  PROVE  Differs([m EXCEPT ![key] = v], m, key, v)
<1>1. DOMAIN m = DOMAIN New
  BY DEF Object, Msg, New
<1> QED BY <1>1 DEF Differs

LEMMA SettersDiffer ==
  ASSUME NEW m \in Object, NEW s \in Object, NEW v
  PROVE  /\ Differs(SetRoutingId(m, v), m, "routingId", v)
         /\ Differs(SetId(m, v), m, "id", v)
         /\ Differs(SetSequence(m, s.sequence), m, "sequence", s.sequence)
         /\ Differs(SetEndpoint(m, s.endpoint), m, "endpoint", s.endpoint)
         /\ Differs(SetGroups(m, v), m, "groups", v)
         /\ Differs(SetStatus(m, s.status), m, "status", s.status)
         /\ Differs(SetName(m, s.name), m, "name", s.name)
         /\ Differs(SetHeaders(m, v), m, "headers", v)
         /\ Differs(SetContent(m, v), m, "content", v)
         /\ Differs(SetGroup(m, s.group), m, "group", s.group)
         /\ Differs(SetChallenger(m, s.challenger), m, "challenger", s.challenger)
         /\ Differs(SetLeader(m, s.leader), m, "leader", s.leader)
<1>1. \A key \in DOMAIN New : \A x : Differs([m EXCEPT ![key] = x], m, key, x)
  BY ExceptDiffers
<1>2. {"routingId", "id", "sequence", "endpoint", "groups", "status", "name", "headers",
       "content", "group", "challenger", "leader"} \subseteq DOMAIN New
  BY DEF New
<1>3. /\ Differs([m EXCEPT !.routingId = v], m, "routingId", v)
      /\ Differs([m EXCEPT !.id = v], m, "id", v)
      /\ Differs([m EXCEPT !.sequence = s.sequence], m, "sequence", s.sequence)
      /\ Differs([m EXCEPT !.endpoint = s.endpoint], m, "endpoint", s.endpoint)
  BY <1>1, <1>2
<1>4. /\ Differs([m EXCEPT !.groups = v], m, "groups", v)
      /\ Differs([m EXCEPT !.status = s.status], m, "status", s.status)
      /\ Differs([m EXCEPT !.name = s.name], m, "name", s.name)
      /\ Differs([m EXCEPT !.headers = v], m, "headers", v)
  BY <1>1, <1>2
<1>5. /\ Differs([m EXCEPT !.content = v], m, "content", v)
      /\ Differs([m EXCEPT !.group = s.group], m, "group", s.group)
      /\ Differs([m EXCEPT !.challenger = s.challenger], m, "challenger", s.challenger)
      /\ Differs([m EXCEPT !.leader = s.leader], m, "leader", s.leader)
  BY <1>1, <1>2
<1>6. /\ SetSequence(m, s.sequence) = [m EXCEPT !.sequence = s.sequence]
      /\ SetStatus(m, s.status) = [m EXCEPT !.status = s.status]
      /\ SetEndpoint(m, s.endpoint) = [m EXCEPT !.endpoint = s.endpoint]
      /\ SetName(m, s.name) = [m EXCEPT !.name = s.name]
      /\ SetGroup(m, s.group) = [m EXCEPT !.group = s.group]
      /\ SetChallenger(m, s.challenger) = [m EXCEPT !.challenger = s.challenger]
      /\ SetLeader(m, s.leader) = [m EXCEPT !.leader = s.leader]
  BY SettersKeep
<1>7. /\ SetRoutingId(m, v) = [m EXCEPT !.routingId = v]
      /\ SetId(m, v) = [m EXCEPT !.id = v]
      /\ SetGroups(m, v) = [m EXCEPT !.groups = v]
      /\ SetHeaders(m, v) = [m EXCEPT !.headers = v]
      /\ SetContent(m, v) = [m EXCEPT !.content = v]
  BY DEF SetRoutingId, SetId, SetGroups, SetHeaders, SetContent
<1> HIDE DEF Differs
<1> QED BY <1>3, <1>4, <1>5, <1>6, <1>7

\* What no message is stored in.
LEMMA EntriesDiffer ==
  /\ \A v \in Nat \cup Frame \cup Seq(Frame) \cup Seq(CString) \cup Seq(Header) :
        v \notin Unread
  /\ Null \notin {Word, Junk, Broken, Blank} /\ Word \notin {Junk, Broken, Blank}
  /\ Junk \notin {Broken, Blank} /\ Broken # Blank /\ Abort # Null
  /\ \A x \in Object : x \notin {Null, Abort}
  /\ \A f \in Frame : f \notin {Null, Abort}
<1>1. \A v \in Nat \cup Frame \cup Seq(Frame) \cup Seq(CString) \cup Seq(Header) :
          v \notin Unread
  BY EntryAssumption
<1>2. \A x \in Object : x \notin {Null, Abort}
  BY EntryAssumption DEF Object
<1>3. \A f \in Frame : f \notin {Null, Abort}
  BY EntryAssumption, InputAssumption
<1> QED BY <1>1, <1>2, <1>3, EntryAssumption

Texts == {"endpoint", "name", "group", "challenger", "leader"}
Numbers == {"sequence", "status"}
Lists == {"groups", "headers"}
Keys == Texts \cup Numbers \cup Lists \cup {"content"}

\* A field, as it comes back from its entry, and that entry.
Kept(m, field) ==
  IF field = "headers" /\ m.headers # Null THEN Section(m.headers) ELSE m[field]
Stored(m, key) == IF key = "content" THEN HexFrames(m.content) ELSE Kept(m, key)

LEMMA StoredEntries ==
  ASSUME NEW m \in Object
  PROVE  /\ \A key \in Texts : m[key] \notin Unread /\ Stored(m, key) = m[key]
         /\ \A key \in Numbers : m[key] \notin Unread /\ Stored(m, key) = m[key]
         /\ \A key \in Lists : Stored(m, key) = Kept(m, key)
         /\ Kept(m, "groups") \in Groups /\ Kept(m, "headers") \in Hash
         /\ m.content # Null => /\ HexFrames(m.content) \notin Unread
                                /\ UnhexFrames(HexFrames(m.content)) = m.content
         /\ m.content \in Frames
<1>1. /\ m.sequence \in Nat /\ m.status \in Nat
      /\ m.endpoint \in Buffer /\ m.name \in Buffer /\ m.group \in Buffer
      /\ m.challenger \in Buffer /\ m.leader \in Buffer
      /\ m.groups \in Seq(CString) \cup {Null} /\ m.headers \in Seq(Header) \cup {Null}
      /\ m.content \in Seq(Frame) \cup {Null}
      /\ m.headers # Null => HashOf(m.headers)
  <2>1. 0 .. Base * Base - 1 \subseteq Nat /\ Octet \subseteq Nat
    BY BaseType DEF Octet
  <2> QED BY <2>1 DEF Object, Msg
<1>2. \A s \in Buffer : s \in Frame
  BY OctetsAreFrames
<1>3. \A key \in Texts : m[key] \notin Unread /\ Stored(m, key) = m[key]
  BY <1>1, <1>2, EntriesDiffer DEF Texts, Stored, Kept
<1>4. \A key \in Numbers : m[key] \notin Unread /\ Stored(m, key) = m[key]
  BY <1>1, EntriesDiffer DEF Numbers, Stored, Kept
<1>5. \A key \in Lists : Stored(m, key) = Kept(m, key)
  BY DEF Lists, Stored
<1>6. Kept(m, "groups") \in Groups
  BY <1>1 DEF Kept, Groups
<1>7. Kept(m, "headers") \in Hash
  <2>1. CASE m.headers = Null
    BY <2>1 DEF Kept, Hash
  <2>2. CASE m.headers # Null
    <3>1. m.headers \in Sections
      BY <1>1, <2>2 DEF Sections
    <3>2. Section(m.headers) \in Sections
      BY <3>1, SectionType
    <3> QED BY <2>2, <3>2 DEF Kept, Hash, Sections
  <2> QED BY <2>1, <2>2
<1>8. m.content # Null => /\ HexFrames(m.content) \in Seq(Frame)
                          /\ UnhexFrames(HexFrames(m.content)) = m.content
  BY <1>1, HexFramesKept
<1>9. m.content \in Frames
  BY <1>1 DEF Frames
<1> QED BY <1>3, <1>4, <1>5, <1>6, <1>7, <1>8, <1>9, EntriesDiffer

\* One entry, key, is as text says; with the key "none" all are as they were stored.
Spoiling(m, key, text, uint) ==
  /\ m \in Object /\ uint \in Nat
  /\ key \in Keys \cup {"routingId", "none"}
  /\ key # "none" => text \in Spoils(key)

Entry(m, key, text, k) == IF k = key THEN text ELSE Stored(m, k)

Stops(key, text, uint) == key # "none" /\ (Refused(key, text) \/ (text = Junk /\ uint >= Base))
Ends(key, text) == IF Refused(key, text) THEN Null ELSE Abort
Expected(m, key, text, uint, f) ==
  IF f = key THEN Instead(key, text, uint) ELSE Kept(m, f)

\* The object, or what there is instead, once the fields of done were loaded.
Loaded(x, done, m, key, text, uint) ==
  IF key \in done /\ Stops(key, text, uint) THEN x = Ends(key, text)
  ELSE /\ x \in Object
       /\ \A f \in done : x[f] = Expected(m, key, text, uint, f)
       /\ \A f \in DOMAIN New \ done : x[f] = New[f]

LEMMA EndsDiffer ==
  ASSUME NEW key, NEW text
  PROVE  Ends(key, text) \in {Null, Abort}
BY DEF Ends

LEMMA StepLoaded ==
  ASSUME NEW m, NEW key, NEW text, NEW uint, NEW done \in SUBSET DOMAIN New, NEW x,
         Loaded(x, done, m, key, text, uint),
         NEW k \in DOMAIN New \ done, NEW y,
         \/ x \in {Null, Abort} /\ y = x
         \/ k = key /\ Stops(key, text, uint) /\ x \in Object /\ y = Ends(key, text)
         \/ /\ k = key => ~Stops(key, text, uint)
            /\ x \in Object /\ y \in Object
            /\ Differs(y, x, k, Expected(m, key, text, uint, k))
  PROVE  Loaded(y, done \cup {k}, m, key, text, uint)
<1>1. CASE x \in {Null, Abort} /\ y = x
  <2>1. key \in done /\ Stops(key, text, uint) /\ x = Ends(key, text)
    BY <1>1, EntriesDiffer DEF Loaded
  <2> QED BY <1>1, <2>1 DEF Loaded
<1>2. CASE k = key /\ Stops(key, text, uint) /\ x \in Object /\ y = Ends(key, text)
  BY <1>2 DEF Loaded
<1>3. CASE /\ k = key => ~Stops(key, text, uint)
           /\ x \in Object /\ y \in Object
           /\ Differs(y, x, k, Expected(m, key, text, uint, k))
  <2>1. ~(key \in done /\ Stops(key, text, uint))
    BY <1>3, EndsDiffer, EntriesDiffer DEF Loaded
  <2>2. /\ \A f \in done : x[f] = Expected(m, key, text, uint, f)
        /\ \A f \in DOMAIN New \ done : x[f] = New[f]
    BY <2>1 DEF Loaded
  <2>3. /\ y[k] = Expected(m, key, text, uint, k)
        /\ \A f \in DOMAIN New \ {k} : y[f] = x[f]
    BY <1>3 DEF Differs
  <2>4. ~(key \in done \cup {k} /\ Stops(key, text, uint))
    BY <1>3, <2>1
  <2> HIDE DEF Expected
  <2>5. /\ \A f \in done \cup {k} : y[f] = Expected(m, key, text, uint, f)
        /\ \A f \in DOMAIN New \ (done \cup {k}) : y[f] = New[f]
    BY <2>2, <2>3
  <2> QED BY <1>3, <2>4, <2>5 DEF Loaded
<1> QED BY <1>1, <1>2, <1>3

\* Once the loading has stopped it stays so.
LEMMA StoppedLoaded ==
  ASSUME NEW m, NEW key, NEW text, NEW uint, NEW done, NEW more, NEW x,
         Loaded(x, done, m, key, text, uint), x \in {Null, Abort}
  PROVE  Loaded(x, done \cup more, m, key, text, uint)
<1>1. key \in done /\ Stops(key, text, uint) /\ x = Ends(key, text)
  BY EntriesDiffer DEF Loaded
<1> QED BY <1>1 DEF Loaded

Then(x, r) == IF x \in {Null, Abort} THEN x ELSE r
State(x, c) == [m |-> x, content |-> c]

LEMMA EnterState ==
  ASSUME NEW x, NEW c, NEW r
  PROVE  /\ Enter(State(x, c), r) = State(Then(x, r), c)
         /\ State(x, c).m = x /\ State(x, c).content = c
<1>1. State(x, c).m = x /\ State(x, c).content = c
  BY DEF State
<1>2. [State(x, c) EXCEPT !.m = r] = State(r, c)
  <2> DEFINE y == State(x, c)
  <2>1. y \in [m: {x}, content: {c}]
    BY DEF State
  <2> HIDE DEF y
  <2> DEFINE w == [y EXCEPT !.m = r]
  <2>2. w \in [m: {r}, content: {c}]
    BY <2>1
  <2> HIDE DEF w
  <2>3. w = State(r, c)
    BY <2>2 DEF State
  <2> QED BY <2>3 DEF w, y
<1> QED BY <1>1, <1>2 DEF Enter, Then

\* The kinds of entries: x is the object before, w the one with the field set.
LEMMA LoadedThen ==
  ASSUME NEW m, NEW key, NEW text, NEW uint, NEW done, NEW x,
         Loaded(x, done, m, key, text, uint)
  PROVE  /\ x \in {Null, Abort} \/ x \in Object
         /\ \A r : x \in Object => Then(x, r) = r
         /\ \A r : x \in {Null, Abort} => Then(x, r) = x
<1>1. x \in {Null, Abort} \/ x \in Object
  BY EndsDiffer DEF Loaded
<1> QED BY <1>1, EntriesDiffer DEF Then

LEMMA TextLoaded ==
  ASSUME NEW m, NEW key, NEW text, NEW uint, Spoiling(m, key, text, uint),
         NEW done \in SUBSET DOMAIN New, NEW x, Loaded(x, done, m, key, text, uint),
         NEW k \in Texts, k \notin done, NEW v, v = Entry(m, key, text, k), NEW w,
         (x \in Object /\ v = m[k]) => w \in Object /\ Differs(w, x, k, m[k])
  PROVE  Loaded(Then(x, IF v = Null THEN Null ELSE w), done \cup {k}, m, key, text, uint)
<1> DEFINE y == Then(x, IF v = Null THEN Null ELSE w)
<1>1. m \in Object /\ k \in DOMAIN New \ done
  BY DEF Spoiling, Texts, New
<1>2. m[k] \notin Unread /\ Stored(m, k) = m[k]
  BY <1>1, StoredEntries
<1>3. /\ x \in {Null, Abort} \/ x \in Object
      /\ x \in Object => y = IF v = Null THEN Null ELSE w
      /\ x \in {Null, Abort} => y = x
  BY LoadedThen
<1> HIDE DEF y
<1>4. CASE x \in {Null, Abort}
  BY <1>1, <1>3, <1>4, StepLoaded DEF y
<1>5. CASE x \in Object /\ k = key
  <2>1. v = Null /\ text = Null
    BY <1>5 DEF Spoiling, Entry, Spoils, Texts
  <2>2. Refused(key, text)
    BY <1>5, <2>1 DEF Refused, Texts
  <2>3. key # "none"
    BY <1>5 DEF Texts
  <2>4. Stops(key, text, uint) /\ y = Ends(key, text)
    BY <1>3, <1>5, <2>1, <2>2, <2>3 DEF Stops, Ends
  <2> QED BY <1>1, <1>5, <2>4, StepLoaded DEF y
<1>6. CASE x \in Object /\ k # key
  <2>1. v = m[k] /\ v # Null
    BY <1>2, <1>6 DEF Entry, Unread
  <2>2. y = w /\ w \in Object /\ Differs(w, x, k, m[k])
    BY <1>3, <1>6, <2>1
  <2>3. Expected(m, key, text, uint, k) = m[k]
    BY <1>6 DEF Expected, Kept, Texts
  <2> QED BY <1>1, <1>6, <2>2, <2>3, StepLoaded DEF y
<1> QED BY <1>3, <1>4, <1>5, <1>6 DEF y

LEMMA NumberLoaded ==
  ASSUME NEW m, NEW key, NEW text, NEW uint, Spoiling(m, key, text, uint),
         NEW done \in SUBSET DOMAIN New, NEW x, Loaded(x, done, m, key, text, uint),
         NEW k \in Numbers, k \notin done, NEW v, v = Entry(m, key, text, k), NEW w, NEW o,
         (x \in Object /\ v = m[k]) => w \in Object /\ Differs(w, x, k, m[k]),
         x \in Object => o \in Object /\ Differs(o, x, k, 0)
  PROVE  Loaded(Then(x, CASE v \in {Null, Word, Junk, Broken} -> Null
                          [] v = Blank -> o
                          [] OTHER -> w), done \cup {k}, m, key, text, uint)
<1> DEFINE r == CASE v \in {Null, Word, Junk, Broken} -> Null
                  [] v = Blank -> o
                  [] OTHER -> w
           y == Then(x, r)
<1>1. m \in Object /\ k \in DOMAIN New \ done
  BY DEF Spoiling, Numbers, New
<1>2. m[k] \notin Unread /\ Stored(m, k) = m[k]
  BY <1>1, StoredEntries
<1>3. /\ x \in {Null, Abort} \/ x \in Object
      /\ x \in Object => y = r
      /\ x \in {Null, Abort} => y = x
  BY LoadedThen
<1>4. /\ v \in {Null, Word, Junk, Broken} => r = Null
      /\ v = Blank => r = o
      /\ v \notin Unread => r = w
  BY EntriesDiffer DEF Unread
<1> HIDE DEF y, r
<1>5. CASE x \in {Null, Abort}
  BY <1>1, <1>3, <1>5, StepLoaded DEF y, r
<1>6. CASE x \in Object /\ k = key
  <2>1. v = text /\ text \in Unread
    BY <1>6 DEF Spoiling, Entry, Spoils, Numbers
  <2>2. CASE text = Blank
    <3>1. ~Stops(key, text, uint)
      BY <1>6, <2>2, EntriesDiffer DEF Stops, Refused, Numbers
    <3>2. y = o /\ o \in Object /\ Differs(o, x, k, 0)
      BY <1>3, <1>4, <1>6, <2>1, <2>2
    <3>3. Expected(m, key, text, uint, k) = 0
      <4>1. text # Junk
        BY <2>2, EntriesDiffer
      <4> QED BY <1>6, <2>2, <4>1 DEF Expected, Instead
    <3> QED BY <1>1, <1>6, <3>1, <3>2, <3>3, StepLoaded DEF y, r
  <2>3. CASE text # Blank
    <3>1. text \in {Null, Word, Junk, Broken}
      BY <2>1, <2>3 DEF Unread
    <3>2. Refused(key, text) /\ key # "none"
      BY <1>6, <3>1 DEF Refused, Numbers
    <3>3. Stops(key, text, uint) /\ y = Ends(key, text)
      BY <1>3, <1>4, <1>6, <2>1, <3>1, <3>2 DEF Stops, Ends
    <3> QED BY <1>1, <1>6, <3>3, StepLoaded DEF y, r
  <2> QED BY <2>2, <2>3
<1>7. CASE x \in Object /\ k # key
  <2>1. v = m[k] /\ v \notin Unread
    BY <1>2, <1>7 DEF Entry
  <2>2. y = w /\ w \in Object /\ Differs(w, x, k, m[k])
    BY <1>3, <1>4, <1>7, <2>1
  <2>3. Expected(m, key, text, uint, k) = m[k]
    BY <1>7 DEF Expected, Kept, Numbers
  <2> QED BY <1>1, <1>7, <2>2, <2>3, StepLoaded DEF y, r
<1> QED BY <1>3, <1>5, <1>6, <1>7 DEF y, r

LEMMA ListLoaded ==
  ASSUME NEW m, NEW key, NEW text, NEW uint, Spoiling(m, key, text, uint),
         NEW done \in SUBSET DOMAIN New, NEW x, Loaded(x, done, m, key, text, uint),
         NEW k \in Lists, k \notin done, NEW v, v = Entry(m, key, text, k), NEW w,
         (x \in Object /\ v = Kept(m, k)) => w \in Object /\ Differs(w, x, k, Kept(m, k))
  PROVE  Loaded(IF v = Null THEN x ELSE Then(x, w), done \cup {k}, m, key, text, uint)
<1> DEFINE y == IF v = Null THEN x ELSE Then(x, w)
<1>1. /\ m \in Object /\ k \in DOMAIN New \ done /\ New[k] = Null
  BY DEF Spoiling, Lists, New
<1>2. Stored(m, k) = Kept(m, k)
  BY <1>1, StoredEntries
<1>3. /\ x \in {Null, Abort} \/ x \in Object
      /\ x \in Object => y = IF v = Null THEN x ELSE w
      /\ x \in {Null, Abort} => y = x
  BY LoadedThen
<1> HIDE DEF y
<1>4. CASE x \in {Null, Abort}
  BY <1>1, <1>3, <1>4, StepLoaded DEF y
<1>5. CASE x \in Object
  <2>1. ~(key \in done /\ Stops(key, text, uint))
    BY <1>5, EndsDiffer, EntriesDiffer DEF Loaded
  <2>2. x[k] = Null
    BY <1>1, <2>1 DEF Loaded
  <2>3. Differs(x, x, k, Null)
    BY <2>2 DEF Differs
  <2>4. k = key => ~Stops(key, text, uint) /\ v = Null /\ Expected(m, key, text, uint, k) = Null
    <3> SUFFICES ASSUME k = key
                 PROVE  ~Stops(key, text, uint) /\ v = Null
                        /\ Expected(m, key, text, uint, k) = Null
      OBVIOUS
    <3>1. v = text /\ text = Null
      BY DEF Spoiling, Entry, Spoils, Lists
    <3>2. ~Refused(key, text) /\ text # Junk
      BY <3>1, EntriesDiffer DEF Refused, Lists
    <3>3. Instead(key, text, uint) = Null
      BY <3>1, EntriesDiffer DEF Instead
    <3> QED BY <3>1, <3>2, <3>3 DEF Stops, Expected
  <2>5. k # key => v = Kept(m, k) /\ Expected(m, key, text, uint, k) = Kept(m, k)
    BY <1>2 DEF Entry, Expected
  <2>6. y \in Object /\ Differs(y, x, k, Expected(m, key, text, uint, k))
    BY <1>3, <1>5, <2>3, <2>4, <2>5
  <2> QED BY <1>1, <1>5, <2>4, <2>6, StepLoaded DEF y
<1> QED BY <1>3, <1>4, <1>5 DEF y

LEMMA ContentLoaded ==
  ASSUME NEW m, NEW key, NEW text, NEW uint, Spoiling(m, key, text, uint), m.content # Null,
         NEW done \in SUBSET DOMAIN New, NEW x, Loaded(x, done, m, key, text, uint),
         "content" \notin done, NEW v, v = Entry(m, key, text, "content")
  PROVE  Loaded(Then(x, CASE v \in {Null, Word} -> Null
                          [] v = Junk /\ uint >= Base -> Abort
                          [] OTHER -> SetContent(x, DecodedContent(v, uint))),
                done \cup {"content"}, m, key, text, uint)
<1> DEFINE w == SetContent(x, DecodedContent(v, uint))
           r == CASE v \in {Null, Word} -> Null
                  [] v = Junk /\ uint >= Base -> Abort
                  [] OTHER -> w
           y == Then(x, r)
<1>1. m \in Object /\ "content" \in DOMAIN New \ done /\ uint \in Nat
  BY DEF Spoiling, New
<1>2. /\ HexFrames(m.content) \notin Unread
      /\ UnhexFrames(HexFrames(m.content)) = m.content
      /\ m.content \in Frames
  BY <1>1, StoredEntries
<1>3. /\ x \in {Null, Abort} \/ x \in Object
      /\ x \in Object => y = r
      /\ x \in {Null, Abort} => y = x
  BY LoadedThen
<1>4. /\ v \in {Null, Word} => r = Null
      /\ v = Junk /\ uint >= Base => r = Abort
      /\ v \notin {Null, Word} /\ ~(v = Junk /\ uint >= Base) => r = w
  BY EntriesDiffer
<1>5. ASSUME x \in Object, DecodedContent(v, uint) \in Frames
      PROVE  w \in Object /\ Differs(w, x, "content", DecodedContent(v, uint))
  BY <1>1, <1>5, SettersType, SettersDiffer
<1>6. /\ << <<>> >> \in Frames /\ Null \in Frames
  <2>1. <<>> \in Frame
    BY DEF Frame
  <2> QED BY <2>1 DEF Frames
<1> HIDE DEF y, r, w
<1>7. CASE x \in {Null, Abort}
  BY <1>1, <1>3, <1>7, StepLoaded DEF y, r, w
<1>8. CASE x \in Object /\ key = "content"
  <2>1. v = text /\ text \in {Null, Word, Junk, Broken}
    BY <1>8 DEF Spoiling, Entry, Spoils
  <2>2. CASE text \in {Null, Word} \/ (text = Junk /\ uint >= Base)
    <3>1. Stops(key, text, uint)
      BY <1>8, <2>2 DEF Stops, Refused
    <3>2. text \in {Null, Word} => Refused(key, text)
      BY <1>8 DEF Refused
    <3>3. text = Junk => ~Refused(key, text)
      BY <1>8, EntriesDiffer DEF Refused
    <3>4. y = Ends(key, text)
      BY <1>3, <1>4, <1>8, <2>1, <2>2, <3>2, <3>3 DEF Ends
    <3> QED BY <1>1, <1>8, <3>1, <3>4, StepLoaded DEF y, r, w
  <2>3. CASE ~(text \in {Null, Word} \/ (text = Junk /\ uint >= Base))
    <3>1. ~Stops(key, text, uint)
      BY <1>8, <2>1, <2>3, EntriesDiffer DEF Stops, Refused
    <3>2. y = w
      BY <1>3, <1>4, <1>8, <2>1, <2>3
    <3>3. DecodedContent(v, uint) = Instead(key, text, uint)
      <4>1. CASE text = Junk
        BY <1>8, <2>1, <4>1, EntriesDiffer DEF DecodedContent, Instead
      <4>2. CASE text = Broken
        BY <1>8, <2>1, <4>2, EntriesDiffer DEF DecodedContent, Instead
      <4> QED BY <2>1, <2>3, <4>1, <4>2
    <3>4. DecodedContent(v, uint) \in Frames
      <4>1. CASE text = Junk
        BY <1>6, <2>1, <4>1, EntriesDiffer DEF DecodedContent
      <4>2. CASE text = Broken
        BY <1>6, <2>1, <4>2, EntriesDiffer DEF DecodedContent
      <4> QED BY <2>1, <2>3, <4>1, <4>2
    <3>5. Expected(m, key, text, uint, "content") = DecodedContent(v, uint)
      BY <1>8, <3>3 DEF Expected
    <3>6. y \in Object /\ Differs(y, x, "content", DecodedContent(v, uint))
      BY <1>5, <1>8, <3>2, <3>4
    <3> QED BY <1>1, <1>8, <3>1, <3>5, <3>6, StepLoaded DEF y, r, w
  <2> QED BY <2>2, <2>3
<1>9. CASE x \in Object /\ key # "content"
  <2>1. v = HexFrames(m.content) /\ v \notin Unread
    BY <1>2, <1>9 DEF Entry, Stored
  <2>2. v \notin {Null, Word, Junk, Broken}
    BY <2>1 DEF Unread
  <2>3. DecodedContent(v, uint) = m.content
    BY <1>2, <2>1, <2>2 DEF DecodedContent
  <2>4. y \in Object /\ Differs(y, x, "content", m.content)
    BY <1>2, <1>3, <1>4, <1>5, <1>9, <2>2, <2>3
  <2>5. Expected(m, key, text, uint, "content") = m.content
    BY <1>9 DEF Expected, Kept
  <2> QED BY <1>1, <1>9, <2>4, <2>5, StepLoaded DEF y, r, w
<1> QED BY <1>3, <1>7, <1>8, <1>9 DEF y, r, w

\* The state of the loading: z has the object and the content section c.
On(z, c, done, m, key, text, uint) ==
  z = State(z.m, c) /\ Loaded(z.m, done, m, key, text, uint)

\* An empty text loads 0.
LEMMA BlankLoads ==
  ASSUME NEW x \in Object
  PROVE  /\ SetSequence(x, 0) \in Object /\ Differs(SetSequence(x, 0), x, "sequence", 0)
         /\ SetStatus(x, 0) \in Object /\ Differs(SetStatus(x, 0), x, "status", 0)
<1>1. SetSequence(New, New.sequence) = SetSequence(New, 0) /\ New.sequence = 0 /\ New.status = 0
  BY DEF New
<1>2. /\ Differs(SetSequence(x, New.sequence), x, "sequence", New.sequence)
      /\ Differs(SetStatus(x, New.status), x, "status", New.status)
  BY NewObject, SettersDiffer
<1> QED BY <1>1, <1>2, SettersType

\* Each entry loads its field.
LEMMA FieldsLoad ==
  ASSUME NEW m, NEW key, NEW text, NEW uint, Spoiling(m, key, text, uint),
         NEW done \in SUBSET DOMAIN New, NEW z, NEW c, On(z, c, done, m, key, text, uint)
  PROVE
    /\ "endpoint" \notin done /\ c.endpoint = Entry(m, key, text, "endpoint") =>
         On(LoadText(z, c.endpoint, SetEndpoint), c, done \cup {"endpoint"}, m, key, text, uint)
    /\ "name" \notin done /\ c.name = Entry(m, key, text, "name") =>
         On(LoadText(z, c.name, SetName), c, done \cup {"name"}, m, key, text, uint)
    /\ "group" \notin done /\ c.group = Entry(m, key, text, "group") =>
         On(LoadText(z, c.group, SetGroup), c, done \cup {"group"}, m, key, text, uint)
    /\ "challenger" \notin done /\ c.challenger = Entry(m, key, text, "challenger") =>
         On(LoadText(z, c.challenger, SetChallenger), c, done \cup {"challenger"}, m, key, text, uint)
    /\ "leader" \notin done /\ c.leader = Entry(m, key, text, "leader") =>
         On(LoadText(z, c.leader, SetLeader), c, done \cup {"leader"}, m, key, text, uint)
    /\ "sequence" \notin done /\ c.sequence = Entry(m, key, text, "sequence") =>
         On(LoadNumber(z, c.sequence, SetSequence), c, done \cup {"sequence"}, m, key, text, uint)
    /\ "status" \notin done /\ c.status = Entry(m, key, text, "status") =>
         On(LoadNumber(z, c.status, SetStatus), c, done \cup {"status"}, m, key, text, uint)
    /\ "groups" \notin done /\ c.groups = Entry(m, key, text, "groups") =>
         On(LoadOptional(z, c.groups, SetGroups), c, done \cup {"groups"}, m, key, text, uint)
    /\ "headers" \notin done /\ c.headers = Entry(m, key, text, "headers") =>
         On(LoadOptional(z, c.headers, SetHeaders), c, done \cup {"headers"}, m, key, text, uint)
    /\ "content" \notin done /\ c.content = Entry(m, key, text, "content") /\ m.content # Null =>
         On(LoadContent(z, uint), c, done \cup {"content"}, m, key, text, uint)
<1> DEFINE x == z.m
<1>1. /\ m \in Object /\ z = State(x, c) /\ z.content = c
      /\ Loaded(x, done, m, key, text, uint)
  BY EnterState DEF On, Spoiling
<1>2. \A r : Enter(z, r) = State(Then(x, r), c) /\ State(r, c).m = r
  BY <1>1, EnterState
<1>3. /\ m.sequence \in Nat /\ m.status \in Nat
      /\ m.endpoint \in CString /\ m.name \in CString /\ m.group \in CString
      /\ m.challenger \in CString /\ m.leader \in CString
      /\ Kept(m, "groups") \in Groups /\ Kept(m, "headers") \in Hash
  <2>1. 0 .. Base * Base - 1 \subseteq Nat /\ Octet \subseteq Nat
    BY BaseType DEF Octet
  <2> QED BY <1>1, <2>1, OctetsAreFrames, StoredEntries DEF Object, Msg
<1> HIDE DEF x
<1>4. ASSUME "endpoint" \notin done, c.endpoint = Entry(m, key, text, "endpoint")
      PROVE  On(LoadText(z, c.endpoint, SetEndpoint), c, done \cup {"endpoint"}, m, key, text, uint)
  <2> DEFINE v == c.endpoint
             w == SetEndpoint(x, v)
             r == IF v = Null THEN Null ELSE w
             n == LoadText(z, v, SetEndpoint)
  <2>1. n = State(Then(x, r), c)
    BY <1>2 DEF LoadText, x
  <2>2. x \in Object /\ v = m["endpoint"] => w \in Object /\ Differs(w, x, "endpoint", m["endpoint"])
    BY <1>1, <1>3, SettersType, SettersDiffer
  <2>4. v = Entry(m, key, text, "endpoint")
    BY <1>4
  <2> HIDE DEF v, w, n
  <2>5. Loaded(Then(x, r), done \cup {"endpoint"}, m, key, text, uint)
    BY <1>1, <1>4, <2>2, <2>4, TextLoaded DEF Texts
  <2> HIDE DEF r
  <2>6. On(n, c, done \cup {"endpoint"}, m, key, text, uint)
    BY <1>2, <2>1, <2>5 DEF On
  <2> QED BY <2>6 DEF n, v
<1>5. ASSUME "name" \notin done, c.name = Entry(m, key, text, "name")
      PROVE  On(LoadText(z, c.name, SetName), c, done \cup {"name"}, m, key, text, uint)
  <2> DEFINE v == c.name
             w == SetName(x, v)
             r == IF v = Null THEN Null ELSE w
             n == LoadText(z, v, SetName)
  <2>1. n = State(Then(x, r), c)
    BY <1>2 DEF LoadText, x
  <2>2. x \in Object /\ v = m["name"] => w \in Object /\ Differs(w, x, "name", m["name"])
    BY <1>1, <1>3, SettersType, SettersDiffer
  <2>4. v = Entry(m, key, text, "name")
    BY <1>5
  <2> HIDE DEF v, w, n
  <2>5. Loaded(Then(x, r), done \cup {"name"}, m, key, text, uint)
    BY <1>1, <1>5, <2>2, <2>4, TextLoaded DEF Texts
  <2> HIDE DEF r
  <2>6. On(n, c, done \cup {"name"}, m, key, text, uint)
    BY <1>2, <2>1, <2>5 DEF On
  <2> QED BY <2>6 DEF n, v
<1>6. ASSUME "group" \notin done, c.group = Entry(m, key, text, "group")
      PROVE  On(LoadText(z, c.group, SetGroup), c, done \cup {"group"}, m, key, text, uint)
  <2> DEFINE v == c.group
             w == SetGroup(x, v)
             r == IF v = Null THEN Null ELSE w
             n == LoadText(z, v, SetGroup)
  <2>1. n = State(Then(x, r), c)
    BY <1>2 DEF LoadText, x
  <2>2. x \in Object /\ v = m["group"] => w \in Object /\ Differs(w, x, "group", m["group"])
    BY <1>1, <1>3, SettersType, SettersDiffer
  <2>4. v = Entry(m, key, text, "group")
    BY <1>6
  <2> HIDE DEF v, w, n
  <2>5. Loaded(Then(x, r), done \cup {"group"}, m, key, text, uint)
    BY <1>1, <1>6, <2>2, <2>4, TextLoaded DEF Texts
  <2> HIDE DEF r
  <2>6. On(n, c, done \cup {"group"}, m, key, text, uint)
    BY <1>2, <2>1, <2>5 DEF On
  <2> QED BY <2>6 DEF n, v
<1>7. ASSUME "challenger" \notin done, c.challenger = Entry(m, key, text, "challenger")
      PROVE  On(LoadText(z, c.challenger, SetChallenger), c, done \cup {"challenger"}, m, key, text, uint)
  <2> DEFINE v == c.challenger
             w == SetChallenger(x, v)
             r == IF v = Null THEN Null ELSE w
             n == LoadText(z, v, SetChallenger)
  <2>1. n = State(Then(x, r), c)
    BY <1>2 DEF LoadText, x
  <2>2. x \in Object /\ v = m["challenger"] => w \in Object /\ Differs(w, x, "challenger", m["challenger"])
    BY <1>1, <1>3, SettersType, SettersDiffer
  <2>4. v = Entry(m, key, text, "challenger")
    BY <1>7
  <2> HIDE DEF v, w, n
  <2>5. Loaded(Then(x, r), done \cup {"challenger"}, m, key, text, uint)
    BY <1>1, <1>7, <2>2, <2>4, TextLoaded DEF Texts
  <2> HIDE DEF r
  <2>6. On(n, c, done \cup {"challenger"}, m, key, text, uint)
    BY <1>2, <2>1, <2>5 DEF On
  <2> QED BY <2>6 DEF n, v
<1>8. ASSUME "leader" \notin done, c.leader = Entry(m, key, text, "leader")
      PROVE  On(LoadText(z, c.leader, SetLeader), c, done \cup {"leader"}, m, key, text, uint)
  <2> DEFINE v == c.leader
             w == SetLeader(x, v)
             r == IF v = Null THEN Null ELSE w
             n == LoadText(z, v, SetLeader)
  <2>1. n = State(Then(x, r), c)
    BY <1>2 DEF LoadText, x
  <2>2. x \in Object /\ v = m["leader"] => w \in Object /\ Differs(w, x, "leader", m["leader"])
    BY <1>1, <1>3, SettersType, SettersDiffer
  <2>4. v = Entry(m, key, text, "leader")
    BY <1>8
  <2> HIDE DEF v, w, n
  <2>5. Loaded(Then(x, r), done \cup {"leader"}, m, key, text, uint)
    BY <1>1, <1>8, <2>2, <2>4, TextLoaded DEF Texts
  <2> HIDE DEF r
  <2>6. On(n, c, done \cup {"leader"}, m, key, text, uint)
    BY <1>2, <2>1, <2>5 DEF On
  <2> QED BY <2>6 DEF n, v
<1>9. ASSUME "sequence" \notin done, c.sequence = Entry(m, key, text, "sequence")
      PROVE  On(LoadNumber(z, c.sequence, SetSequence), c, done \cup {"sequence"}, m, key, text, uint)
  <2> DEFINE v == c.sequence
             w == SetSequence(x, v)
             o == SetSequence(x, 0)
             r == CASE v \in {Null, Word, Junk, Broken} -> Null
                    [] v = Blank -> o
                    [] OTHER -> w
             n == LoadNumber(z, v, SetSequence)
  <2>1. n = State(Then(x, r), c)
    BY <1>2 DEF LoadNumber, x
  <2>2. x \in Object /\ v = m["sequence"] => w \in Object /\ Differs(w, x, "sequence", m["sequence"])
    BY <1>1, <1>3, SettersType, SettersDiffer
  <2>3. x \in Object => o \in Object /\ Differs(o, x, "sequence", 0)
    BY <1>1, BlankLoads
  <2>4. v = Entry(m, key, text, "sequence")
    BY <1>9
  <2> HIDE DEF v, w, n, o
  <2>5. Loaded(Then(x, r), done \cup {"sequence"}, m, key, text, uint)
    BY <1>1, <1>9, <2>2, <2>3, <2>4, NumberLoaded DEF Numbers
  <2> HIDE DEF r
  <2>6. On(n, c, done \cup {"sequence"}, m, key, text, uint)
    BY <1>2, <2>1, <2>5 DEF On
  <2> QED BY <2>6 DEF n, v
<1>10. ASSUME "status" \notin done, c.status = Entry(m, key, text, "status")
      PROVE  On(LoadNumber(z, c.status, SetStatus), c, done \cup {"status"}, m, key, text, uint)
  <2> DEFINE v == c.status
             w == SetStatus(x, v)
             o == SetStatus(x, 0)
             r == CASE v \in {Null, Word, Junk, Broken} -> Null
                    [] v = Blank -> o
                    [] OTHER -> w
             n == LoadNumber(z, v, SetStatus)
  <2>1. n = State(Then(x, r), c)
    BY <1>2 DEF LoadNumber, x
  <2>2. x \in Object /\ v = m["status"] => w \in Object /\ Differs(w, x, "status", m["status"])
    BY <1>1, <1>3, SettersType, SettersDiffer
  <2>3. x \in Object => o \in Object /\ Differs(o, x, "status", 0)
    BY <1>1, BlankLoads
  <2>4. v = Entry(m, key, text, "status")
    BY <1>10
  <2> HIDE DEF v, w, n, o
  <2>5. Loaded(Then(x, r), done \cup {"status"}, m, key, text, uint)
    BY <1>1, <1>10, <2>2, <2>3, <2>4, NumberLoaded DEF Numbers
  <2> HIDE DEF r
  <2>6. On(n, c, done \cup {"status"}, m, key, text, uint)
    BY <1>2, <2>1, <2>5 DEF On
  <2> QED BY <2>6 DEF n, v
<1>11. ASSUME "groups" \notin done, c.groups = Entry(m, key, text, "groups")
      PROVE  On(LoadOptional(z, c.groups, SetGroups), c, done \cup {"groups"}, m, key, text, uint)
  <2> DEFINE v == c.groups
             w == SetGroups(x, v)
             r == IF v = Null THEN x ELSE Then(x, w)
             n == LoadOptional(z, v, SetGroups)
  <2>1. n = State(r, c)
    BY <1>1, <1>2 DEF LoadOptional, x
  <2>2. x \in Object /\ v = Kept(m, "groups") => w \in Object /\ Differs(w, x, "groups", Kept(m, "groups"))
    BY <1>1, <1>3, SettersType, SettersDiffer
  <2>4. v = Entry(m, key, text, "groups")
    BY <1>11
  <2> HIDE DEF v, w, n
  <2>5. Loaded(r, done \cup {"groups"}, m, key, text, uint)
    BY <1>1, <1>11, <2>2, <2>4, ListLoaded DEF Lists
  <2> HIDE DEF r
  <2>6. On(n, c, done \cup {"groups"}, m, key, text, uint)
    BY <1>2, <2>1, <2>5 DEF On
  <2> QED BY <2>6 DEF n, v
<1>12. ASSUME "headers" \notin done, c.headers = Entry(m, key, text, "headers")
      PROVE  On(LoadOptional(z, c.headers, SetHeaders), c, done \cup {"headers"}, m, key, text, uint)
  <2> DEFINE v == c.headers
             w == SetHeaders(x, v)
             r == IF v = Null THEN x ELSE Then(x, w)
             n == LoadOptional(z, v, SetHeaders)
  <2>1. n = State(r, c)
    BY <1>1, <1>2 DEF LoadOptional, x
  <2>2. x \in Object /\ v = Kept(m, "headers") => w \in Object /\ Differs(w, x, "headers", Kept(m, "headers"))
    BY <1>1, <1>3, SettersType, SettersDiffer
  <2>4. v = Entry(m, key, text, "headers")
    BY <1>12
  <2> HIDE DEF v, w, n
  <2>5. Loaded(r, done \cup {"headers"}, m, key, text, uint)
    BY <1>1, <1>12, <2>2, <2>4, ListLoaded DEF Lists
  <2> HIDE DEF r
  <2>6. On(n, c, done \cup {"headers"}, m, key, text, uint)
    BY <1>2, <2>1, <2>5 DEF On
  <2> QED BY <2>6 DEF n, v
<1>13. ASSUME "content" \notin done, c.content = Entry(m, key, text, "content"), m.content # Null
      PROVE  On(LoadContent(z, uint), c, done \cup {"content"}, m, key, text, uint)
  <2> DEFINE v == c.content
             r == CASE v \in {Null, Word} -> Null
                    [] v = Junk /\ uint >= Base -> Abort
                    [] OTHER -> SetContent(x, DecodedContent(v, uint))
             n == LoadContent(z, uint)
  <2>1. n = State(Then(x, r), c)
    BY <1>1, <1>2 DEF LoadContent, x
  <2>2. v = Entry(m, key, text, "content")
    BY <1>13
  <2> HIDE DEF v, n
  <2>3. Loaded(Then(x, r), done \cup {"content"}, m, key, text, uint)
    BY <1>1, <1>13, <2>2, ContentLoaded
  <2> HIDE DEF r
  <2>4. On(n, c, done \cup {"content"}, m, key, text, uint)
    BY <1>2, <2>1, <2>3 DEF On
  <2> QED BY <2>4 DEF n
<1> QED BY <1>4, <1>5, <1>6, <1>7, <1>8, <1>9, <1>10, <1>11, <1>12, <1>13
\* The type and the sender.
LEMMA NamedLoaded ==
  ASSUME NEW m, NEW key, NEW text, NEW uint, Spoiling(m, key, text, uint), m.id \in Ids,
         NEW config, config.message = m.id,
         config.routingId = IF key = "routingId" THEN text ELSE Zpl(m).routingId
  PROVE  Loaded(NewNamed(config, uint), {"id", "routingId"}, m, key, text, uint)
<1> DEFINE done == {"id", "routingId"}
           p == SetId(New, m.id)
           octets == BytesFromStr(config.routingId, uint)
           x == NewNamed(config, uint)
<1>1. m \in Object /\ m.id \in Octet /\ m.routingId \in Octets /\ uint \in Nat
  BY DEF Spoiling, Object, Msg, Octets
<1>2. p \in Object /\ Differs(p, New, "id", m.id)
  BY <1>1, NewObject, SettersType, SettersDiffer
<1>4. key # "id"
  BY DEF Spoiling, Keys, Texts, Numbers, Lists
<1>5. /\ config.routingId = Null => x = p
      /\ config.routingId # Null /\ octets \in {Null, Abort} => x = octets
      /\ config.routingId # Null /\ octets \notin {Null, Abort} => x = SetRoutingId(p, octets)
  BY DEF NewNamed
<1>6. "id" \in DOMAIN New /\ "routingId" \in DOMAIN New /\ New.routingId = Null
  BY DEF New
<1> HIDE DEF p, x
<1> SUFFICES Loaded(x, done, m, key, text, uint)
  BY DEF x
<1>7. ASSUME NEW v, v \in Octets, Expected(m, key, text, uint, "routingId") = v,
             ~(key = "routingId" /\ Stops(key, text, uint)),
             x = SetRoutingId(p, v) \/ (x = p /\ v = Null)
      PROVE  Loaded(x, done, m, key, text, uint)
  <2>1. SetRoutingId(p, v) \in Object /\ Differs(SetRoutingId(p, v), p, "routingId", v)
    BY <1>1, <1>2, <1>7, SettersType, SettersDiffer
  <2>2. /\ x \in Object /\ x["routingId"] = v
        /\ \A f \in DOMAIN New \ {"routingId"} : x[f] = p[f]
    <3>1. CASE x = SetRoutingId(p, v)
      BY <2>1, <3>1 DEF Differs
    <3>2. CASE x = p /\ v = Null
      BY <1>2, <1>6, <3>2 DEF Differs
    <3> QED BY <1>7, <3>1, <3>2
  <2>3. x["id"] = m.id /\ \A f \in DOMAIN New \ done : x[f] = New[f]
    BY <1>2, <1>6, <2>2 DEF Differs
  <2>4. Expected(m, key, text, uint, "id") = m.id
    BY <1>4 DEF Expected, Kept
  <2>5. ~(key \in done /\ Stops(key, text, uint))
    BY <1>4, <1>7
  <2> HIDE DEF Expected
  <2>6. \A f \in done : x[f] = Expected(m, key, text, uint, f)
    BY <1>7, <2>2, <2>3, <2>4
  <2> QED BY <2>2, <2>3, <2>5, <2>6 DEF Loaded
<1>8. CASE key # "routingId"
  <2>1. Expected(m, key, text, uint, "routingId") = m.routingId
    BY <1>8 DEF Expected, Kept
  <2>2. CASE m.routingId = Null
    <3>1. config.routingId = Null
      BY <1>8, <2>2 DEF Zpl
    <3> QED BY <1>1, <1>5, <1>7, <1>8, <2>1, <2>2, <3>1
  <2>3. CASE m.routingId # Null
    <3>1. Hex(m.routingId) \in Frame /\ Unhex(Hex(m.routingId)) = m.routingId
      BY <1>1, <2>3, HexKept DEF Octets
    <3>2. config.routingId = Hex(m.routingId) /\ config.routingId \notin Unread
      BY <1>8, <2>3, <3>1, EntriesDiffer DEF Zpl
    <3>3. octets = m.routingId
      BY <3>1, <3>2 DEF BytesFromStr, Unread
    <3>4. octets \notin {Null, Abort} /\ config.routingId # Null
      BY <1>1, <2>3, <3>2, <3>3, EntriesDiffer DEF Octets, Unread
    <3> QED BY <1>1, <1>5, <1>7, <1>8, <2>1, <3>3, <3>4
  <2> QED BY <2>2, <2>3
<1>9. CASE key = "routingId"
  <2>1. text \in {Null, Word, Junk} /\ config.routingId = text
    BY <1>9 DEF Spoiling, Spoils
  <2>2. /\ Word # Null /\ Junk # Null /\ Word # Junk /\ Null # Blank /\ Junk # Blank
        /\ Word \notin {Broken, Blank} /\ Null \notin {Broken, Blank} /\ Junk # Broken
    BY EntriesDiffer
  <2>3. CASE text = Null
    <3>1. Expected(m, key, text, uint, "routingId") = Null
      BY <1>9, <2>2, <2>3 DEF Expected, Instead
    <3>2. ~Stops(key, text, uint)
      BY <1>9, <2>2, <2>3 DEF Stops, Refused
    <3>3. Null \in Octets /\ x = p
      BY <1>5, <2>1, <2>3 DEF Octets
    <3> QED BY <1>7, <3>1, <3>2, <3>3
  <2>4. CASE text = Word
    <3>1. Stops(key, text, uint) /\ Ends(key, text) = Null
      BY <1>9, <2>4 DEF Stops, Ends, Refused
    <3>2. x = Null
      BY <1>5, <2>1, <2>2, <2>4 DEF BytesFromStr
    <3> QED BY <1>9, <3>1, <3>2 DEF Loaded
  <2>5. CASE text = Junk /\ uint >= Base
    <3>1. Stops(key, text, uint) /\ Ends(key, text) = Abort
      BY <1>9, <2>2, <2>5 DEF Stops, Ends, Refused
    <3>2. octets = Abort
      <4>1. ~(uint < Base)
        BY <1>1, <2>5, BaseType
      <4> QED BY <2>1, <2>2, <2>5, <4>1 DEF BytesFromStr
    <3>3. x = Abort
      BY <1>5, <2>1, <2>2, <2>5, <3>2
    <3> QED BY <1>9, <3>1, <3>3 DEF Loaded
  <2>6. CASE text = Junk /\ ~(uint >= Base)
    <3>1. uint < Base /\ uint \in Octet
      BY <1>1, <2>6, BaseType DEF Octet
    <3>2. octets = <<uint>> /\ <<uint>> \in Frame
      BY <2>1, <2>2, <2>6, <3>1 DEF BytesFromStr, Frame
    <3>3. x = SetRoutingId(p, <<uint>>) /\ <<uint>> \in Octets
      BY <1>5, <2>1, <2>2, <2>6, <3>2, EntriesDiffer DEF Octets
    <3>4. Expected(m, key, text, uint, "routingId") = <<uint>>
      BY <1>9, <2>2, <2>6 DEF Expected, Instead
    <3>5. ~Stops(key, text, uint)
      BY <1>9, <2>2, <2>6 DEF Stops, Refused
    <3> QED BY <1>7, <3>3, <3>4, <3>5
  <2> QED BY <2>1, <2>3, <2>4, <2>5, <2>6
<1> QED BY <1>8, <1>9

\* Of each type, all the fields that it carries.
LEMMA TypesLoad ==
  ASSUME NEW m, NEW key, NEW text, NEW uint, Spoiling(m, key, text, uint), m.id \in Ids,
         CanZpl(m), NEW z, NEW c, On(z, c, {"id", "routingId", "sequence"}, m, key, text, uint),
         \A k \in Carried(m.id) : c[k] = Entry(m, key, text, k)
  PROVE
    /\ m.id = HELLO => On(LoadHello(z), c, {"id", "routingId"} \cup Carried(m.id), m, key, text, uint)
    /\ m.id = WHISPER => On(LoadWhisper(z, uint), c, {"id", "routingId"} \cup Carried(m.id), m, key, text, uint)
    /\ m.id = SHOUT => On(LoadShout(z, uint), c, {"id", "routingId"} \cup Carried(m.id), m, key, text, uint)
    /\ m.id = JOIN => On(LoadJoin(z), c, {"id", "routingId"} \cup Carried(m.id), m, key, text, uint)
    /\ m.id = LEAVE => On(LoadLeave(z), c, {"id", "routingId"} \cup Carried(m.id), m, key, text, uint)
    /\ m.id = ELECT => On(LoadElect(z), c, {"id", "routingId"} \cup Carried(m.id), m, key, text, uint)
    /\ m.id = LEADER => On(LoadLeader(z), c, {"id", "routingId"} \cup Carried(m.id), m, key, text, uint)
<1> USE DEF HELLO, WHISPER, SHOUT, JOIN, LEAVE, ELECT, LEADER, PING, PING_OK, GOODBYE
<1> DEFINE d == {"id", "routingId", "sequence"}
<1>1. \A y, done : On(y, c, done, m, key, text, uint) => y.content = c
  BY EnterState DEF On
<1>2. On(z, c, d, m, key, text, uint) /\ z.content = c
  BY <1>1
<1> HIDE DEF On
<1>3. ASSUME m.id = HELLO
      PROVE  On(LoadHello(z), c, {"id", "routingId"} \cup Carried(m.id), m, key, text, uint)
  <2> DEFINE e == LoadText(z, c.endpoint, SetEndpoint)
             a == LoadOptional(e, c.groups, SetGroups)
             s == LoadNumber(a, c.status, SetStatus)
             b == LoadText(s, c.name, SetName)
             h == LoadOptional(b, c.headers, SetHeaders)
  <2>1. Carried(m.id) = {"sequence", "endpoint", "groups", "status", "name", "headers"}
    BY <1>3 DEF Carried
  <2>2. /\ c.endpoint = Entry(m, key, text, "endpoint") /\ c.groups = Entry(m, key, text, "groups")
        /\ c.status = Entry(m, key, text, "status") /\ c.name = Entry(m, key, text, "name")
        /\ c.headers = Entry(m, key, text, "headers")
    BY <1>3, <2>1
  <2>3. On(e, c, d \cup {"endpoint"}, m, key, text, uint)
    <3> DEFINE done == d
    <3>1. done \in SUBSET DOMAIN New /\ "endpoint" \notin done
      BY DEF New
    <3>2. d \cup {"endpoint"} = done \cup {"endpoint"}
      OBVIOUS
    <3>3. On(z, c, done, m, key, text, uint)
      BY <1>2
    <3> HIDE DEF done
    <3>4. On(e, c, done \cup {"endpoint"}, m, key, text, uint)
      BY <2>2, <3>1, <3>3, FieldsLoad
    <3> QED BY <3>2, <3>4
  <2>4. On(a, c, d \cup {"endpoint", "groups"}, m, key, text, uint)
    <3> DEFINE done == d \cup {"endpoint"}
    <3>1. done \in SUBSET DOMAIN New /\ "groups" \notin done
      BY DEF New
    <3>2. d \cup {"endpoint", "groups"} = done \cup {"groups"}
      OBVIOUS
    <3>3. On(e, c, done, m, key, text, uint)
      BY <2>3
    <3> HIDE DEF done, e
    <3>4. On(a, c, done \cup {"groups"}, m, key, text, uint)
      BY <2>2, <3>1, <3>3, FieldsLoad
    <3> QED BY <3>2, <3>4
  <2>5. On(s, c, d \cup {"endpoint", "groups", "status"}, m, key, text, uint)
    <3> DEFINE done == d \cup {"endpoint", "groups"}
    <3>1. done \in SUBSET DOMAIN New /\ "status" \notin done
      BY DEF New
    <3>2. d \cup {"endpoint", "groups", "status"} = done \cup {"status"}
      OBVIOUS
    <3>3. On(a, c, done, m, key, text, uint)
      BY <2>4
    <3> HIDE DEF done, a
    <3>4. On(s, c, done \cup {"status"}, m, key, text, uint)
      BY <2>2, <3>1, <3>3, FieldsLoad
    <3> QED BY <3>2, <3>4
  <2>6. On(b, c, d \cup {"endpoint", "groups", "status", "name"}, m, key, text, uint)
    <3> DEFINE done == d \cup {"endpoint", "groups", "status"}
    <3>1. done \in SUBSET DOMAIN New /\ "name" \notin done
      BY DEF New
    <3>2. d \cup {"endpoint", "groups", "status", "name"} = done \cup {"name"}
      OBVIOUS
    <3>3. On(s, c, done, m, key, text, uint)
      BY <2>5
    <3> HIDE DEF done, s
    <3>4. On(b, c, done \cup {"name"}, m, key, text, uint)
      BY <2>2, <3>1, <3>3, FieldsLoad
    <3> QED BY <3>2, <3>4
  <2>7. On(h, c, d \cup {"endpoint", "groups", "status", "name", "headers"}, m, key, text, uint)
    <3> DEFINE done == d \cup {"endpoint", "groups", "status", "name"}
    <3>1. done \in SUBSET DOMAIN New /\ "headers" \notin done
      BY DEF New
    <3>2. d \cup {"endpoint", "groups", "status", "name", "headers"} = done \cup {"headers"}
      OBVIOUS
    <3>3. On(b, c, done, m, key, text, uint)
      BY <2>6
    <3> HIDE DEF done, b
    <3>4. On(h, c, done \cup {"headers"}, m, key, text, uint)
      BY <2>2, <3>1, <3>3, FieldsLoad
    <3> QED BY <3>2, <3>4
  <2>8. LoadHello(z) = h
    BY <1>2 DEF LoadHello
  <2>9. d \cup {"endpoint", "groups", "status", "name", "headers"} = {"id", "routingId"} \cup Carried(m.id)
    BY <2>1
  <2> HIDE DEF e, a, s, b, h, d
  <2> QED BY <2>7, <2>8, <2>9
<1>4. ASSUME m.id = WHISPER
      PROVE  On(LoadWhisper(z, uint), c, {"id", "routingId"} \cup Carried(m.id), m, key, text, uint)
  <2> DEFINE e == LoadContent(z, uint)
  <2>1. Carried(m.id) = {"sequence", "content"}
    BY <1>4 DEF Carried
  <2>2. c.content = Entry(m, key, text, "content")
    BY <1>4, <2>1
  <2>3. m.content # Null
    BY <1>4 DEF CanZpl
  <2>4. On(e, c, d \cup {"content"}, m, key, text, uint)
    <3> DEFINE done == d
    <3>1. done \in SUBSET DOMAIN New /\ "content" \notin done
      BY DEF New
    <3>2. d \cup {"content"} = done \cup {"content"}
      OBVIOUS
    <3>3. On(z, c, done, m, key, text, uint)
      BY <1>2
    <3> HIDE DEF done
    <3>4. On(e, c, done \cup {"content"}, m, key, text, uint)
      BY <2>2, <2>3, <3>1, <3>3, FieldsLoad
    <3> QED BY <3>2, <3>4
  <2>5. LoadWhisper(z, uint) = e
    BY DEF LoadWhisper
  <2>6. d \cup {"content"} = {"id", "routingId"} \cup Carried(m.id)
    BY <2>1
  <2> HIDE DEF e, d
  <2> QED BY <2>4, <2>5, <2>6
<1>5. ASSUME m.id = SHOUT
      PROVE  On(LoadShout(z, uint), c, {"id", "routingId"} \cup Carried(m.id), m, key, text, uint)
  <2> DEFINE e == LoadText(z, c.group, SetGroup)
             a == LoadContent(e, uint)
  <2>1. Carried(m.id) = {"sequence", "group", "content"}
    BY <1>5 DEF Carried
  <2>2. c.group = Entry(m, key, text, "group") /\ c.content = Entry(m, key, text, "content")
    BY <1>5, <2>1
  <2>3. m.content # Null
    BY <1>5 DEF CanZpl
  <2>4. On(e, c, d \cup {"group"}, m, key, text, uint)
    <3> DEFINE done == d
    <3>1. done \in SUBSET DOMAIN New /\ "group" \notin done
      BY DEF New
    <3>2. d \cup {"group"} = done \cup {"group"}
      OBVIOUS
    <3>3. On(z, c, done, m, key, text, uint)
      BY <1>2
    <3> HIDE DEF done
    <3>4. On(e, c, done \cup {"group"}, m, key, text, uint)
      BY <2>2, <3>1, <3>3, FieldsLoad
    <3> QED BY <3>2, <3>4
  <2>5. On(a, c, d \cup {"group", "content"}, m, key, text, uint)
    <3> DEFINE done == d \cup {"group"}
    <3>1. done \in SUBSET DOMAIN New /\ "content" \notin done
      BY DEF New
    <3>2. d \cup {"group", "content"} = done \cup {"content"}
      OBVIOUS
    <3>3. On(e, c, done, m, key, text, uint)
      BY <2>4
    <3> HIDE DEF done, e
    <3>4. On(a, c, done \cup {"content"}, m, key, text, uint)
      BY <2>2, <2>3, <3>1, <3>3, FieldsLoad
    <3> QED BY <3>2, <3>4
  <2>6. LoadShout(z, uint) = a
    BY <1>2 DEF LoadShout
  <2>7. d \cup {"group", "content"} = {"id", "routingId"} \cup Carried(m.id)
    BY <2>1
  <2> HIDE DEF e, a, d
  <2> QED BY <2>5, <2>6, <2>7
<1>6. ASSUME m.id = JOIN
      PROVE  On(LoadJoin(z), c, {"id", "routingId"} \cup Carried(m.id), m, key, text, uint)
  <2> DEFINE e == LoadText(z, c.group, SetGroup)
             a == LoadNumber(e, c.status, SetStatus)
  <2>1. Carried(m.id) = {"sequence", "group", "status"}
    BY <1>6 DEF Carried
  <2>2. c.group = Entry(m, key, text, "group") /\ c.status = Entry(m, key, text, "status")
    BY <1>6, <2>1
  <2>3. On(e, c, d \cup {"group"}, m, key, text, uint)
    <3> DEFINE done == d
    <3>1. done \in SUBSET DOMAIN New /\ "group" \notin done
      BY DEF New
    <3>2. d \cup {"group"} = done \cup {"group"}
      OBVIOUS
    <3>3. On(z, c, done, m, key, text, uint)
      BY <1>2
    <3> HIDE DEF done
    <3>4. On(e, c, done \cup {"group"}, m, key, text, uint)
      BY <2>2, <3>1, <3>3, FieldsLoad
    <3> QED BY <3>2, <3>4
  <2>4. On(a, c, d \cup {"group", "status"}, m, key, text, uint)
    <3> DEFINE done == d \cup {"group"}
    <3>1. done \in SUBSET DOMAIN New /\ "status" \notin done
      BY DEF New
    <3>2. d \cup {"group", "status"} = done \cup {"status"}
      OBVIOUS
    <3>3. On(e, c, done, m, key, text, uint)
      BY <2>3
    <3> HIDE DEF done, e
    <3>4. On(a, c, done \cup {"status"}, m, key, text, uint)
      BY <2>2, <3>1, <3>3, FieldsLoad
    <3> QED BY <3>2, <3>4
  <2>5. LoadJoin(z) = a
    BY <1>2 DEF LoadJoin
  <2>6. d \cup {"group", "status"} = {"id", "routingId"} \cup Carried(m.id)
    BY <2>1
  <2> HIDE DEF e, a, d
  <2> QED BY <2>4, <2>5, <2>6
<1>7. ASSUME m.id = LEAVE
      PROVE  On(LoadLeave(z), c, {"id", "routingId"} \cup Carried(m.id), m, key, text, uint)
  <2> DEFINE e == LoadText(z, c.group, SetGroup)
             a == LoadNumber(e, c.status, SetStatus)
  <2>1. Carried(m.id) = {"sequence", "group", "status"}
    BY <1>7 DEF Carried
  <2>2. c.group = Entry(m, key, text, "group") /\ c.status = Entry(m, key, text, "status")
    BY <1>7, <2>1
  <2>3. On(e, c, d \cup {"group"}, m, key, text, uint)
    <3> DEFINE done == d
    <3>1. done \in SUBSET DOMAIN New /\ "group" \notin done
      BY DEF New
    <3>2. d \cup {"group"} = done \cup {"group"}
      OBVIOUS
    <3>3. On(z, c, done, m, key, text, uint)
      BY <1>2
    <3> HIDE DEF done
    <3>4. On(e, c, done \cup {"group"}, m, key, text, uint)
      BY <2>2, <3>1, <3>3, FieldsLoad
    <3> QED BY <3>2, <3>4
  <2>4. On(a, c, d \cup {"group", "status"}, m, key, text, uint)
    <3> DEFINE done == d \cup {"group"}
    <3>1. done \in SUBSET DOMAIN New /\ "status" \notin done
      BY DEF New
    <3>2. d \cup {"group", "status"} = done \cup {"status"}
      OBVIOUS
    <3>3. On(e, c, done, m, key, text, uint)
      BY <2>3
    <3> HIDE DEF done, e
    <3>4. On(a, c, done \cup {"status"}, m, key, text, uint)
      BY <2>2, <3>1, <3>3, FieldsLoad
    <3> QED BY <3>2, <3>4
  <2>5. LoadLeave(z) = a
    BY <1>2 DEF LoadLeave
  <2>6. d \cup {"group", "status"} = {"id", "routingId"} \cup Carried(m.id)
    BY <2>1
  <2> HIDE DEF e, a, d
  <2> QED BY <2>4, <2>5, <2>6
<1>8. ASSUME m.id = ELECT
      PROVE  On(LoadElect(z), c, {"id", "routingId"} \cup Carried(m.id), m, key, text, uint)
  <2> DEFINE e == LoadText(z, c.group, SetGroup)
             a == LoadText(e, c.challenger, SetChallenger)
  <2>1. Carried(m.id) = {"sequence", "group", "challenger"}
    BY <1>8 DEF Carried
  <2>2. c.group = Entry(m, key, text, "group") /\ c.challenger = Entry(m, key, text, "challenger")
    BY <1>8, <2>1
  <2>3. On(e, c, d \cup {"group"}, m, key, text, uint)
    <3> DEFINE done == d
    <3>1. done \in SUBSET DOMAIN New /\ "group" \notin done
      BY DEF New
    <3>2. d \cup {"group"} = done \cup {"group"}
      OBVIOUS
    <3>3. On(z, c, done, m, key, text, uint)
      BY <1>2
    <3> HIDE DEF done
    <3>4. On(e, c, done \cup {"group"}, m, key, text, uint)
      BY <2>2, <3>1, <3>3, FieldsLoad
    <3> QED BY <3>2, <3>4
  <2>4. On(a, c, d \cup {"group", "challenger"}, m, key, text, uint)
    <3> DEFINE done == d \cup {"group"}
    <3>1. done \in SUBSET DOMAIN New /\ "challenger" \notin done
      BY DEF New
    <3>2. d \cup {"group", "challenger"} = done \cup {"challenger"}
      OBVIOUS
    <3>3. On(e, c, done, m, key, text, uint)
      BY <2>3
    <3> HIDE DEF done, e
    <3>4. On(a, c, done \cup {"challenger"}, m, key, text, uint)
      BY <2>2, <3>1, <3>3, FieldsLoad
    <3> QED BY <3>2, <3>4
  <2>5. LoadElect(z) = a
    BY <1>2 DEF LoadElect
  <2>6. d \cup {"group", "challenger"} = {"id", "routingId"} \cup Carried(m.id)
    BY <2>1
  <2> HIDE DEF e, a, d
  <2> QED BY <2>4, <2>5, <2>6
<1>9. ASSUME m.id = LEADER
      PROVE  On(LoadLeader(z), c, {"id", "routingId"} \cup Carried(m.id), m, key, text, uint)
  <2> DEFINE e == LoadText(z, c.group, SetGroup)
             a == LoadText(e, c.leader, SetLeader)
  <2>1. Carried(m.id) = {"sequence", "group", "leader"}
    BY <1>9 DEF Carried
  <2>2. c.group = Entry(m, key, text, "group") /\ c.leader = Entry(m, key, text, "leader")
    BY <1>9, <2>1
  <2>3. On(e, c, d \cup {"group"}, m, key, text, uint)
    <3> DEFINE done == d
    <3>1. done \in SUBSET DOMAIN New /\ "group" \notin done
      BY DEF New
    <3>2. d \cup {"group"} = done \cup {"group"}
      OBVIOUS
    <3>3. On(z, c, done, m, key, text, uint)
      BY <1>2
    <3> HIDE DEF done
    <3>4. On(e, c, done \cup {"group"}, m, key, text, uint)
      BY <2>2, <3>1, <3>3, FieldsLoad
    <3> QED BY <3>2, <3>4
  <2>4. On(a, c, d \cup {"group", "leader"}, m, key, text, uint)
    <3> DEFINE done == d \cup {"group"}
    <3>1. done \in SUBSET DOMAIN New /\ "leader" \notin done
      BY DEF New
    <3>2. d \cup {"group", "leader"} = done \cup {"leader"}
      OBVIOUS
    <3>3. On(e, c, done, m, key, text, uint)
      BY <2>3
    <3> HIDE DEF done, e
    <3>4. On(a, c, done \cup {"leader"}, m, key, text, uint)
      BY <2>2, <3>1, <3>3, FieldsLoad
    <3> QED BY <3>2, <3>4
  <2>5. LoadLeader(z) = a
    BY <1>2 DEF LoadLeader
  <2>6. d \cup {"group", "leader"} = {"id", "routingId"} \cup Carried(m.id)
    BY <2>1
  <2> HIDE DEF e, a, d
  <2> QED BY <2>4, <2>5, <2>6
<1> QED BY <1>3, <1>4, <1>5, <1>6, <1>7, <1>8, <1>9

\* zre_msg_new_zpl of a tree, one entry of which may be spoilt.
LEMMA TreeLoads ==
  ASSUME NEW m, NEW key, NEW text, NEW uint, Spoiling(m, key, text, uint), m.id \in Ids,
         CanZpl(m), NEW config, config.message = m.id,
         config.routingId = IF key = "routingId" THEN text ELSE Zpl(m).routingId,
         \A k \in Carried(m.id) : config.content[k] = Entry(m, key, text, k)
  PROVE  Loaded(NewZpl(config, uint), {"id", "routingId"} \cup Carried(m.id), m, key, text, uint)
<1> USE DEF HELLO, WHISPER, SHOUT, JOIN, LEAVE, ELECT, LEADER, PING, PING_OK, GOODBYE
<1> DEFINE c == config.content
           y == [m |-> NewNamed(config, uint), content |-> c]
           z == LoadPing(y)
           all == {"id", "routingId"} \cup Carried(m.id)
           l == NewZpl(config, uint)
<1>1. On(y, c, {"id", "routingId"}, m, key, text, uint) /\ y.content = c
  <2>1. y = State(NewNamed(config, uint), c) /\ y.m = NewNamed(config, uint) /\ y.content = c
    BY DEF State
  <2>2. Loaded(NewNamed(config, uint), {"id", "routingId"}, m, key, text, uint)
    BY NamedLoaded
  <2> HIDE DEF y
  <2> QED BY <2>1, <2>2 DEF On
<1>2. c.sequence = Entry(m, key, text, "sequence")
  <2>1. "sequence" \in Carried(m.id)
    BY DEF Carried
  <2> QED BY <2>1
<1>3. On(z, c, {"id", "routingId", "sequence"}, m, key, text, uint)
  <2> DEFINE done == {"id", "routingId"}
             n == LoadNumber(y, c.sequence, SetSequence)
  <2>1. done \in SUBSET DOMAIN New /\ "sequence" \notin done
    BY DEF New
  <2>2. done \cup {"sequence"} = {"id", "routingId", "sequence"}
    OBVIOUS
  <2>3. z = n
    BY <1>1 DEF LoadPing
  <2> HIDE DEF done, y, c, z
  <2>4. On(n, c, done \cup {"sequence"}, m, key, text, uint)
    BY <1>1, <1>2, <2>1, FieldsLoad DEF done
  <2> HIDE DEF n
  <2> QED BY <2>2, <2>3, <2>4
<1>4. /\ z.m \in {Null, Abort} => l = z.m
      /\ z.m \notin {Null, Abort} =>
            /\ m.id = HELLO => l = LoadHello(z).m
            /\ m.id = WHISPER => l = LoadWhisper(z, uint).m
            /\ m.id = SHOUT => l = LoadShout(z, uint).m
            /\ m.id = JOIN => l = LoadJoin(z).m
            /\ m.id = LEAVE => l = LoadLeave(z).m
            /\ m.id = ELECT => l = LoadElect(z).m
            /\ m.id = LEADER => l = LoadLeader(z).m
            /\ m.id \in {PING, PING_OK, GOODBYE} => l = z.m
  <2> HIDE DEF z
  <2> QED BY DEF NewZpl, z
<1> HIDE DEF y, z, l
<1>5. /\ m.id = HELLO => On(LoadHello(z), c, all, m, key, text, uint)
      /\ m.id = WHISPER => On(LoadWhisper(z, uint), c, all, m, key, text, uint)
      /\ m.id = SHOUT => On(LoadShout(z, uint), c, all, m, key, text, uint)
      /\ m.id = JOIN => On(LoadJoin(z), c, all, m, key, text, uint)
      /\ m.id = LEAVE => On(LoadLeave(z), c, all, m, key, text, uint)
      /\ m.id = ELECT => On(LoadElect(z), c, all, m, key, text, uint)
      /\ m.id = LEADER => On(LoadLeader(z), c, all, m, key, text, uint)
  BY <1>3, TypesLoad
<1>6. CASE z.m \in {Null, Abort}
  <2>1. all = {"id", "routingId", "sequence"} \cup all
    BY DEF Carried
  <2>2. Loaded(z.m, {"id", "routingId", "sequence"}, m, key, text, uint)
    BY <1>3 DEF On
  <2>3. Loaded(z.m, {"id", "routingId", "sequence"} \cup all, m, key, text, uint)
    BY <1>6, <2>2, StoppedLoaded
  <2> HIDE DEF all
  <2> QED BY <1>4, <1>6, <2>1, <2>3 DEF l, all
<1>7. CASE z.m \notin {Null, Abort} /\ m.id \in {PING, PING_OK, GOODBYE}
  <2>1. all = {"id", "routingId", "sequence"}
    BY <1>7 DEF Carried
  <2> HIDE DEF all
  <2> QED BY <1>3, <1>4, <1>7, <2>1 DEF l, all, On
<1>8. CASE z.m \notin {Null, Abort} /\ m.id \notin {PING, PING_OK, GOODBYE}
  <2>1. m.id \in {HELLO, WHISPER, SHOUT, JOIN, LEAVE, ELECT, LEADER}
    BY <1>8 DEF Ids
  <2> HIDE DEF all
  <2> QED BY <1>4, <1>5, <1>8, <2>1 DEF l, all, On
<1> QED BY <1>6, <1>7, <1>8 DEF l

\* What zre_msg_zpl stores of a message has these entries.
LEMMA EntriesStored ==
  ASSUME NEW m, m.id \in Ids
  PROVE  /\ Zpl(m).message = m.id
         /\ {"message", "routingId", "content"} = DOMAIN Zpl(m)
         /\ Carried(m.id) = DOMAIN Zpl(m).content
         /\ \A k \in Carried(m.id) : Zpl(m).content[k] = Stored(m, k)
         /\ Carried(m.id) \subseteq Keys
<1> USE DEF HELLO, WHISPER, SHOUT, JOIN, LEAVE, ELECT, LEADER, PING, PING_OK, GOODBYE
<1>1. Zpl(m).message = m.id /\ {"message", "routingId", "content"} = DOMAIN Zpl(m)
  BY DEF Zpl
<1>2. /\ m.id = HELLO => Zpl(m).content = ZplHello(m)
      /\ m.id = WHISPER => Zpl(m).content = ZplWhisper(m)
      /\ m.id = SHOUT => Zpl(m).content = ZplShout(m)
      /\ m.id \in {JOIN, LEAVE} => Zpl(m).content = ZplJoin(m)
      /\ m.id = ELECT => Zpl(m).content = ZplElect(m)
      /\ m.id = LEADER => Zpl(m).content = ZplLeader(m)
      /\ m.id \in {PING, PING_OK, GOODBYE} => Zpl(m).content = ZplPing(m)
  BY DEF Zpl
<1> DEFINE C == Carried(m.id)
           AsStored(tree) == DOMAIN tree = C /\ \A k \in C : tree[k] = Stored(m, k)
<1>3. CASE m.id = HELLO
  <2>1. C = {"sequence", "endpoint", "groups", "status", "name", "headers"}
    BY <1>3 DEF Carried
  <2>2. AsStored(ZplHello(m))
    BY <2>1 DEF ZplHello, Stored, Kept
  <2> QED BY <1>1, <1>2, <1>3, <2>1, <2>2 DEF Keys, Texts, Numbers, Lists
<1>4. CASE m.id = WHISPER
  <2>1. C = {"sequence", "content"}
    BY <1>4 DEF Carried
  <2>2. AsStored(ZplWhisper(m))
    BY <2>1 DEF ZplWhisper, Stored, Kept
  <2> QED BY <1>1, <1>2, <1>4, <2>1, <2>2 DEF Keys, Texts, Numbers, Lists
<1>5. CASE m.id = SHOUT
  <2>1. C = {"sequence", "group", "content"}
    BY <1>5 DEF Carried
  <2>2. AsStored(ZplShout(m))
    BY <2>1 DEF ZplShout, Stored, Kept
  <2> QED BY <1>1, <1>2, <1>5, <2>1, <2>2 DEF Keys, Texts, Numbers, Lists
<1>6. CASE m.id \in {JOIN, LEAVE}
  <2>1. C = {"sequence", "group", "status"}
    BY <1>6 DEF Carried
  <2>2. AsStored(ZplJoin(m))
    BY <2>1 DEF ZplJoin, Stored, Kept
  <2> QED BY <1>1, <1>2, <1>6, <2>1, <2>2 DEF Keys, Texts, Numbers, Lists
<1>7. CASE m.id = ELECT
  <2>1. C = {"sequence", "group", "challenger"}
    BY <1>7 DEF Carried
  <2>2. AsStored(ZplElect(m))
    BY <2>1 DEF ZplElect, Stored, Kept
  <2> QED BY <1>1, <1>2, <1>7, <2>1, <2>2 DEF Keys, Texts, Numbers, Lists
<1>8. CASE m.id = LEADER
  <2>1. C = {"sequence", "group", "leader"}
    BY <1>8 DEF Carried
  <2>2. AsStored(ZplLeader(m))
    BY <2>1 DEF ZplLeader, Stored, Kept
  <2> QED BY <1>1, <1>2, <1>8, <2>1, <2>2 DEF Keys, Texts, Numbers, Lists
<1>9. CASE m.id \in {PING, PING_OK, GOODBYE}
  <2>1. C = {"sequence"}
    BY <1>9 DEF Carried
  <2>2. AsStored(ZplPing(m))
    BY <2>1 DEF ZplPing, Stored, Kept
  <2> QED BY <1>1, <1>2, <1>9, <2>1, <2>2 DEF Keys, Texts, Numbers, Lists
<1>10. m.id \in {HELLO, WHISPER, SHOUT, JOIN, LEAVE, ELECT, LEADER, PING, PING_OK, GOODBYE}
  BY DEF Ids
<1> QED BY <1>3, <1>4, <1>5, <1>6, <1>7, <1>8, <1>9, <1>10

\* zre_msg_new_zpl of what zre_msg_zpl stores.
LEMMA StoredLoaded ==
  ASSUME NEW m \in Object, m.id \in Ids, CanZpl(m), NEW uint \in Memory
  PROVE  LET l == NewZpl(Zpl(m), uint)
         IN  /\ l \in Object
             /\ \A f \in {"id", "routingId"} \cup Carried(m.id) : l[f] = Kept(m, f)
<1> DEFINE l == NewZpl(Zpl(m), uint)
           all == {"id", "routingId"} \cup Carried(m.id)
<1>1. uint \in Nat
  BY BaseType, InputAssumption DEF Memory, Octet
<1>2. /\ Zpl(m).message = m.id
      /\ \A k \in Carried(m.id) : Zpl(m).content[k] = Stored(m, k)
      /\ Carried(m.id) \subseteq Keys
  BY EntriesStored
<1>3. \A f \in all : f # "none"
  BY <1>2 DEF Keys, Texts, Numbers, Lists
<1>4. Spoiling(m, "none", Null, uint)
  BY <1>1 DEF Spoiling
<1>5. \A k \in Carried(m.id) : Zpl(m).content[k] = Entry(m, "none", Null, k)
  BY <1>2, <1>3 DEF Entry
<1>6. Loaded(l, all, m, "none", Null, uint)
  BY <1>2, <1>4, <1>5, TreeLoads
<1>7. \A f \in all : Expected(m, "none", Null, uint, f) = Kept(m, f)
  BY <1>3 DEF Expected
<1> HIDE DEF l, all
<1>8. ~("none" \in all /\ Stops("none", Null, uint))
  BY <1>3
<1> QED BY <1>6, <1>7, <1>8 DEF Loaded, l, all

-----------------------------------------------------------------------------
(***************************************************************************)
(* The steps.                                                              *)
(***************************************************************************)

\* Objects are objects, and whole messages are under way.
Sound ==
  /\ msg \in Object /\ got \in Object
  /\ Wired(wire)
  /\ last \in [sent: Object \cup {Null}, rc: 0 .. 2, fresh: BOOLEAN]
  /\ heard \in Nat
  /\ budget \in [BudgetKinds -> Nat]

LEMMA InputType ==
  /\ Text \subseteq CString /\ Number \subseteq Nat /\ GroupList \subseteq Groups
  /\ HeaderHash \subseteq Hash /\ Content \subseteq Frames /\ RoutingId \subseteq Octets
  /\ RoutingId \subseteq Frame /\ Stray \subseteq Seq(Frame) /\ Garbage \subseteq Octet
  /\ Null \in Groups \cap Hash \cap Frames
BY InputAssumption DEF Groups, Hash, Frames, Octets

\* What the self test fills in.
LEMMA TestedType ==
  ASSUME NEW m \in Object, NEW f \in Tested(m)
  PROVE  f \in Object
<1> USE DEF HELLO, WHISPER, SHOUT, JOIN, LEAVE, ELECT, LEADER, PING, PING_OK, GOODBYE
<1>1. \A id \in 1 .. 10 : id \in Octet
  BY IdType
<1>2. PICK n \in Number :
        f \in {TestPing(m, n), TestPingOk(m, n), TestGoodbye(m, n)} \cup
              {TestWhisper(m, n, frames) : frames \in Content} \cup
              UNION {
                {TestJoin(m, s, n), TestLeave(m, s, n), TestElect(m, s, n),
                 TestLeader(m, s, n)} \cup
                {TestShout(m, s, n, frames) : frames \in Content} \cup
                {TestHello(m, s, n, list, hash) : list \in GroupList, hash \in HeaderHash}
                : s \in Text}
  BY DEF Tested
<1> DEFINE p(id) == SetSequence(SetId(m, id), n)
<1>3. n \in Nat
  BY InputType
<1>4. \A id \in 1 .. 10 : p(id) \in Object
  <2>1. \A id \in 1 .. 10 : SetId(m, id) \in Object
    BY <1>1, SettersType
  <2> QED BY <1>3, <2>1, SettersType
<1> HIDE DEF p
<1>5. CASE f \in {TestPing(m, n), TestPingOk(m, n), TestGoodbye(m, n)}
  BY <1>4, <1>5 DEF TestPing, TestPingOk, TestGoodbye, p
<1>6. CASE f \in {TestWhisper(m, n, frames) : frames \in Content}
  <2>1. PICK frames \in Content : f = SetContent(p(2), frames)
    BY <1>6 DEF TestWhisper, p
  <2>2. p(2) \in Object /\ frames \in Frames
    BY <1>4, InputType
  <2> QED BY <2>1, <2>2, SettersType
<1>7. ASSUME NEW s \in Text,
             f \in {TestJoin(m, s, n), TestLeave(m, s, n), TestElect(m, s, n),
                    TestLeader(m, s, n)} \cup
                   {TestShout(m, s, n, frames) : frames \in Content} \cup
                   {TestHello(m, s, n, list, hash) :
                        list \in GroupList, hash \in HeaderHash}
      PROVE  f \in Object
  <2>1. s \in CString
    BY InputType
  <2> DEFINE q(id) == SetGroup(p(id), s)
  <2>2. \A id \in 1 .. 10 : q(id) \in Object
    BY <1>4, <2>1, SettersType
  <2> HIDE DEF q
  <2>3. CASE f \in {TestJoin(m, s, n), TestLeave(m, s, n)}
    <3>1. f = SetStatus(q(4), n) \/ f = SetStatus(q(5), n)
      BY <2>3 DEF TestJoin, TestLeave, q, p
    <3>2. q(4) \in Object /\ q(5) \in Object
      BY <2>2
    <3> QED BY <1>3, <3>1, <3>2, SettersType
  <2>4. CASE f = TestElect(m, s, n)
    <3>1. f = SetChallenger(q(8), s)
      BY <2>4 DEF TestElect, q, p
    <3>2. q(8) \in Object
      BY <2>2
    <3> QED BY <2>1, <3>1, <3>2, SettersType
  <2>5. CASE f = TestLeader(m, s, n)
    <3>1. f = SetLeader(q(9), s)
      BY <2>5 DEF TestLeader, q, p
    <3>2. q(9) \in Object
      BY <2>2
    <3> QED BY <2>1, <3>1, <3>2, SettersType
  <2>6. CASE f \in {TestShout(m, s, n, frames) : frames \in Content}
    <3>1. PICK frames \in Content : f = SetContent(q(3), frames)
      BY <2>6 DEF TestShout, q, p
    <3>2. q(3) \in Object /\ frames \in Frames
      BY <2>2, InputType
    <3> QED BY <3>1, <3>2, SettersType
  <2>7. CASE f \in {TestHello(m, s, n, list, hash) : list \in GroupList, hash \in HeaderHash}
    <3>1. PICK list \in GroupList, hash \in HeaderHash :
             f = SetHeaders(SetName(SetStatus(SetGroups(SetEndpoint(p(1), s), list), n), s),
                            hash)
      BY <2>7 DEF TestHello, p
    <3>2. p(1) \in Object /\ list \in Groups /\ hash \in Hash
      BY <1>4, InputType
    <3>3. SetEndpoint(p(1), s) \in Object
      BY <2>1, <3>2, SettersType
    <3>4. SetGroups(SetEndpoint(p(1), s), list) \in Object
      BY <3>2, <3>3, SettersType
    <3>5. SetStatus(SetGroups(SetEndpoint(p(1), s), list), n) \in Object
      BY <1>3, <3>4, SettersType
    <3>6. SetName(SetStatus(SetGroups(SetEndpoint(p(1), s), list), n), s) \in Object
      BY <2>1, <3>5, SettersType
    <3> QED BY <3>1, <3>2, <3>6, SettersType
  <2> QED BY <1>7, <2>3, <2>4, <2>5, <2>6, <2>7
<1> QED BY <1>2, <1>5, <1>6, <1>7

\* Counting the headers changes nothing else.
LEMMA CountedType ==
  ASSUME NEW m \in Object
  PROVE  [m EXCEPT !.headersBytes = IF m.id = HELLO THEN HeadersBytes(m) ELSE @] \in Object
<1>1. m \in Msg /\ HeadersBytes(m) \in Nat /\ m.headersBytes \in Nat
  BY HelloPut DEF Object, Msg
<1> DEFINE n == IF m.id = HELLO THEN HeadersBytes(m) ELSE m.headersBytes
<1>2. n \in Nat
  BY <1>1
<1> HIDE DEF n
<1>3. [m EXCEPT !.headersBytes = n] \in Object
  BY <1>2, SettersType
<1> QED BY <1>3 DEF n

LEMMA EmptyWired == Wired(<<>>)
<1>1. <<>> \in Seq(ObjectFrame) /\ Len(<<>>) = 0
  BY EmptySeq
<1> QED BY <1>1 DEF Wired, Closed

LEMMA SoundInit == Init => Sound
<1>1. Budget \in [BudgetKinds -> Nat]
  BY BudgetAssumption
<1> QED BY <1>1, NewObject, EmptyWired DEF Init, Sound

LEMMA SpendType ==
  ASSUME Sound, NEW kind, Spend(kind)
  PROVE  budget' \in [BudgetKinds -> Nat]
<1>1. budget \in [BudgetKinds -> Nat] /\ budget[kind] > 0
      /\ budget' = [budget EXCEPT ![kind] = @ - 1]
  BY DEF Sound, Spend
<1>2. kind \in BudgetKinds => budget[kind] - 1 \in Nat
  BY <1>1
<1> QED BY <1>1, <1>2

\* A step on the sender's object leaves an object.
LEMMA BecomeSound ==
  ASSUME Sound, NEW kind, Spend(kind), NEW m \in Object, Become(m)
  PROVE  Sound'
<1>1. budget' \in [BudgetKinds -> Nat]
  BY SpendType
<1> QED BY <1>1 DEF Sound, Become

\* The setters, the getters that give ownership away, and the copies.
LEMMA OwnerSteps ==
  ASSUME Sound, SetText \/ SetNumber \/ SetOwned \/ Take \/ Renew \/ Copy \/ Reload
  PROVE  \E kind \in BudgetKinds, m \in Object : Spend(kind) /\ Become(m)
<1>1. msg \in Object
  BY DEF Sound
<1>2. {"set", "take", "copy"} \subseteq BudgetKinds
  BY DEF BudgetKinds
<1>3. CASE SetText
  <2>1. PICK s \in Text :
        \/ Become(SetEndpoint(msg, s)) \/ Become(SetName(msg, s))
        \/ Become(SetGroup(msg, s)) \/ Become(SetChallenger(msg, s))
        \/ Become(SetLeader(msg, s))
    BY <1>3 DEF SetText
  <2>2. s \in CString
    BY InputType
  <2>3. /\ SetEndpoint(msg, s) \in Object /\ SetName(msg, s) \in Object
        /\ SetGroup(msg, s) \in Object /\ SetChallenger(msg, s) \in Object
        /\ SetLeader(msg, s) \in Object
    BY <1>1, <2>2, SettersType
  <2> QED BY <1>2, <1>3, <2>1, <2>3 DEF SetText
<1>4. CASE SetNumber
  <2>1. \A id \in Ids : SetId(msg, id) \in Object
    BY <1>1, IdType, SettersType
  <2>2. \A n \in Number : SetSequence(msg, n) \in Object /\ SetStatus(msg, n) \in Object
    BY <1>1, InputType, SettersType
  <2> QED BY <1>2, <1>4, <2>1, <2>2 DEF SetNumber
<1>5. CASE SetOwned
  <2>1. /\ \A list \in GroupList : SetGroups(msg, list) \in Object
        /\ \A hash \in HeaderHash : SetHeaders(msg, hash) \in Object
        /\ \A frames \in Content : SetContent(msg, frames) \in Object
        /\ \A frame \in RoutingId : SetRoutingId(msg, frame) \in Object
    <3>1. /\ \A list \in Groups : SetGroups(msg, list) \in Object
          /\ \A hash \in Hash : SetHeaders(msg, hash) \in Object
          /\ \A frames \in Frames : SetContent(msg, frames) \in Object
          /\ \A frame \in Octets : SetRoutingId(msg, frame) \in Object
      BY <1>1, SettersType
    <3> QED BY <3>1, InputType
  <2> QED BY <1>2, <1>5, <2>1 DEF SetOwned
<1>6. CASE Take
  <2>1. /\ SetGroups(msg, Null) \in Object /\ SetHeaders(msg, Null) \in Object
        /\ SetContent(msg, Null) \in Object
    BY <1>1, InputType, SettersType
  <2> QED BY <1>2, <1>6, <2>1 DEF Take
<1>7. CASE Renew
  BY <1>2, <1>7, NewObject DEF Renew
<1>8. CASE Copy
  <2>1. Dup(msg) \in Object
    BY <1>1, SettersType DEF Dup
  <2> QED BY <1>2, <1>8, <2>1 DEF Copy
<1>9. CASE Reload
  <2>1. PICK uint \in Memory : Become(NewZpl(Zpl(msg), uint))
    BY <1>9 DEF Reload
  <2>2. NewZpl(Zpl(msg), uint) \in Object
    BY <1>1, <1>9, <2>1, StoredLoaded DEF Reload
  <2> QED BY <1>2, <1>9, <2>1, <2>2 DEF Reload
<1> QED BY <1>3, <1>4, <1>5, <1>6, <1>7, <1>8, <1>9

\* The wire behind what arrives.
LEMMA ArriveSound ==
  ASSUME Sound, NEW id \in RoutingId, NEW frames \in Seq(Frame),
         NEW sent \in Object \cup {Null},
         sent # Null => \E octet \in Octet : frames = Multipart(sent, octet),
         Arrive(id, frames, sent)
  PROVE  Wired(wire')
<1>1. id \in Frame
  BY InputType
<1>2. Wired(Delivered(id, frames, sent))
  BY <1>1, DeliveredWired
<1> DEFINE d == Delivered(id, frames, sent)
<1> HIDE DEF d
<1>3. Wired(wire) /\ Wired(d)
  BY <1>2 DEF Sound, d
<1>4. wire' = wire \o d
  BY DEF Arrive, d
<1> QED BY <1>3, <1>4, ConcatWired

LEMMA SendSound ==
  ASSUME Sound, Send
  PROVE  Sound'
<1>1. msg \in Object /\ msg \in Msg
  BY DEF Sound, Object
<1>2. PICK id \in RoutingId, octet \in Garbage : Arrive(id, Multipart(msg, octet), msg)
  BY DEF Send
<1>3. octet \in Octet
  BY InputType
<1>4. Multipart(msg, octet) \in Seq(Frame)
  BY <1>1, <1>3, MultipartType
<1>5. Wired(wire')
  BY <1>1, <1>2, <1>3, <1>4, ArriveSound
<1>6. msg' \in Object
  BY <1>1, CountedType DEF Send
<1>7. budget' \in [BudgetKinds -> Nat]
  BY SpendType DEF Send
<1> QED BY <1>5, <1>6, <1>7 DEF Send, Sound

LEMMA StrangerSound ==
  ASSUME Sound, Stranger
  PROVE  Sound'
<1>1. PICK id \in RoutingId, frames \in Stray : Arrive(id, frames, Null)
  BY DEF Stranger
<1>2. frames \in Seq(Frame)
  BY InputType
<1>3. Wired(wire')
  BY <1>1, <1>2, ArriveSound
<1>4. budget' \in [BudgetKinds -> Nat]
  BY SpendType DEF Stranger
<1> QED BY <1>3, <1>4 DEF Stranger, Sound

LEMMA SelfTestSound ==
  ASSUME Sound, SelfTest
  PROVE  Sound'
<1>1. PICK f \in Tested(got), id \in RoutingId, octet \in Garbage :
        LET m == [f EXCEPT !.headersBytes = IF f.id = HELLO THEN HeadersBytes(f) ELSE @]
            once == Delivered(id, Multipart(f, octet), f)
        IN  wire' = once \o once /\ msg' = m /\ got' = m
  BY DEF SelfTest
<1>2. f \in Object /\ id \in Frame /\ octet \in Octet
  BY InputType, TestedType DEF Sound
<1>3. Multipart(f, octet) \in Seq(Frame)
  BY <1>2, MultipartType DEF Object
<1> DEFINE once == Delivered(id, Multipart(f, octet), f)
<1>4. Wired(once)
  BY <1>2, <1>3, DeliveredWired
<1>5. wire' = once \o once
  BY <1>1
<1> HIDE DEF once
<1>6. Wired(wire')
  BY <1>4, <1>5, ConcatWired
<1>7. msg' \in Object /\ got' \in Object
  BY <1>1, <1>2, CountedType
<1>8. budget' \in [BudgetKinds -> Nat]
  BY SpendType DEF SelfTest
<1> QED BY <1>6, <1>7, <1>8 DEF SelfTest, Sound

\* What one zre_msg_recv does.
LEMMA RecvStep ==
  ASSUME Sound, Recv
  PROVE  \E fresh \in BOOLEAN, k \in 1 .. Len(wire) :
            LET m == IF fresh THEN New ELSE got
                r == Receive(m, wire)
            IN  /\ m \in Object /\ r.m \in Object /\ r.rc \in 0 .. 2
                /\ k = r.next - 1 /\ \A i \in 1 .. k - 1 : wire[i].more
                /\ got' = r.m /\ wire' = Drop(wire, k)
                /\ last' = [sent |-> wire[1].sent, rc |-> r.rc, fresh |-> fresh]
<1>1. PICK fresh \in BOOLEAN :
        LET r == Receive(IF fresh THEN New ELSE got, wire)
        IN  /\ got' = r.m /\ wire' = Drop(wire, r.next - 1)
            /\ last' = [sent |-> wire[1].sent, rc |-> r.rc, fresh |-> fresh]
  BY DEF Recv
<1> DEFINE m == IF fresh THEN New ELSE got
           r == Receive(m, wire)
           k == r.next - 1
<1>2. m \in Object
  BY NewObject DEF Sound
<1>3. wire \in Seq(ObjectFrame) /\ Closed(wire) /\ wire # <<>> /\ Len(wire) \in Nat
  BY DEF Sound, Wired, Recv
<1>4. got' = r.m /\ wire' = Drop(wire, k)
      /\ last' = [sent |-> wire[1].sent, rc |-> r.rc, fresh |-> fresh]
  BY <1>1
<1> HIDE DEF m
<1>5. /\ r.m \in Object /\ r.rc \in 0 .. 2 /\ r.next \in 2 .. Len(wire) + 1
      /\ \A i \in 1 .. r.next - 2 : wire[i].more
  BY <1>2, <1>3, ReceiveType
<1> HIDE DEF r
<1>6. k \in 1 .. Len(wire) /\ k - 1 = r.next - 2
  BY <1>3, <1>5
<1>7. \A i \in 1 .. k - 1 : wire[i].more
  BY <1>5, <1>6
<1> QED BY <1>2, <1>4, <1>5, <1>6, <1>7 DEF m, r

LEMMA RecvSound ==
  ASSUME Sound, Recv
  PROVE  Sound'
<1>1. PICK fresh \in BOOLEAN, k \in 1 .. Len(wire) :
        LET r == Receive(IF fresh THEN New ELSE got, wire)
        IN  /\ r.m \in Object /\ r.rc \in 0 .. 2
            /\ got' = r.m /\ wire' = Drop(wire, k)
            /\ last' = [sent |-> wire[1].sent, rc |-> r.rc, fresh |-> fresh]
  BY RecvStep
<1>2. Wired(wire) /\ wire \in Seq(ObjectFrame) /\ Len(wire) \in Nat
  BY DEF Sound, Wired
<1>3. k \in 0 .. Len(wire) /\ 1 \in 1 .. Len(wire)
  BY <1>2
<1>4. Wired(wire')
  BY <1>1, <1>2, <1>3, DropWired
<1>5. wire[1].sent \in Object \cup {Null}
  <2>1. wire[1] \in ObjectFrame
    BY <1>2, <1>3
  <2> QED BY <2>1 DEF ObjectFrame
<1>6. got' \in Object /\ last' \in [sent: Object \cup {Null}, rc: 0 .. 2, fresh: BOOLEAN]
  BY <1>1, <1>5
<1>7. heard' \in Nat /\ msg' = msg /\ budget' = budget
  BY DEF Recv, Sound
<1> QED BY <1>4, <1>6, <1>7 DEF Sound

LEMMA SoundStep == Sound /\ [Next]_vars => Sound'
<1> SUFFICES ASSUME Sound, [Next]_vars PROVE Sound'
  OBVIOUS
<1>1. CASE SetText \/ SetNumber \/ SetOwned \/ Take \/ Renew \/ Copy \/ Reload
  <2>1. PICK kind \in BudgetKinds, m \in Object : Spend(kind) /\ Become(m)
    BY <1>1, OwnerSteps
  <2> QED BY <2>1, BecomeSound
<1>2. CASE Send
  BY <1>2, SendSound
<1>3. CASE SelfTest
  BY <1>3, SelfTestSound
<1>4. CASE Stranger
  BY <1>4, StrangerSound
<1>5. CASE Recv
  BY <1>5, RecvSound
<1>6. CASE UNCHANGED vars
  BY <1>6 DEF vars, Sound
<1> QED BY <1>1, <1>2, <1>3, <1>4, <1>5, <1>6 DEF Next

LEMMA AlwaysSound == Spec => []Sound
<1>1. Init => Sound
  BY SoundInit
<1>2. Sound /\ [Next]_vars => Sound'
  BY SoundStep
<1> QED BY <1>1, <1>2, PTL DEF Spec

\* Whatever is set, stored, loaded or received, by zre_msg_recv from a stranger
\* too, every field of an object is within its width.
THEOREM TypeCorrect == Spec => []TypeOK
<1>1. Sound => TypeOK
  <2> SUFFICES ASSUME Sound PROVE TypeOK
    OBVIOUS
  <2>1. Object \subseteq Msg
    BY DEF Object
  <2>2. ObjectFrame \subseteq WireFrame
    BY <2>1 DEF ObjectFrame, WireFrame
  <2>3. wire \in Seq(WireFrame)
    <3>1. wire \in Seq(ObjectFrame)
      BY DEF Sound, Wired
    <3> QED BY <2>2, <3>1
  <2>4. last \in [sent: Msg \cup {Null}, rc: 0 .. 2, fresh: BOOLEAN]
    BY <2>1 DEF Sound
  <2> QED BY <2>1, <2>3, <2>4 DEF Sound, TypeOK
<1> QED BY <1>1, AlwaysSound, PTL

\* The frame that zre_msg_send allocates is never too small for what it puts,
\* and never too large unless the headers of a HELLO were taken out after they
\* had been counted.
THEOREM FramesFit == Spec => []FrameIsFilled
<1>1. Sound => FrameIsFilled
  <2> SUFFICES ASSUME Sound PROVE FrameIsFilled
    OBVIOUS
  <2> DEFINE b == Len(Body(msg))
             f == FrameSize(msg)
             h == msg.headersBytes
             p == msg.id = HELLO /\ msg.headers = Null
  <2>1. msg \in Msg
    BY DEF Sound, Object
  <2>2. /\ b \in Nat /\ f \in Nat /\ h \in Nat
        /\ ~p => b = f
        /\ p => b + h = f
    <3>1. Body(msg) \in Frame /\ h \in Nat
      BY <2>1, BodyPut DEF Msg
    <3>2. b \in Nat
      BY <3>1, FrameConcat
    <3> QED BY <2>1, <3>1, <3>2, BodyPut
  <2>3. FrameIsFilled <=> b <= f /\ (~(p /\ h > 0) => b = f)
    BY DEF FrameIsFilled
  <2> HIDE DEF b, f, h, p
  <2> QED BY <2>2, <2>3
<1> QED BY <1>1, AlwaysSound, PTL

\* zre_msg_new_zpl of what zre_msg_zpl stores is the message that was stored,
\* and every header of it whose name has no '/' and is no other name's path.
THEOREM StoringKeeps == Spec => []StoredAsItWas
<1>1. Sound => StoredAsItWas
  <2> DEFINE headers == Items(msg.headers)
             Alone(i) == \A j \in DOMAIN headers :
                            Path(headers[j][1]) = headers[i][1] => j = i
             Flat(i) == ~Nested(headers[i][1])
             Keeps(l) ==
                /\ l \notin {Null, Abort}
                /\ \A field \in ({"id", "routingId"} \cup Carried(msg.id)) \ {"headers"} :
                        l[field] = msg[field]
                /\ (msg.id = HELLO /\ \A i \in DOMAIN headers : Flat(i)) =>
                        l.headers = msg.headers
                /\ msg.id = HELLO =>
                    \A i \in DOMAIN headers : (Flat(i) /\ Alone(i)) =>
                        \E k \in DOMAIN l.headers : l.headers[k] = headers[i]
  <2> SUFFICES ASSUME Sound, msg.id \in Ids, CanZpl(msg), NEW uint \in Memory
               PROVE  Keeps(NewZpl(Zpl(msg), uint))
    BY DEF StoredAsItWas
  <2> DEFINE l == NewZpl(Zpl(msg), uint)
  <2>1. msg \in Object
    BY DEF Sound
  <2>2. /\ l \in Object
        /\ \A f \in {"id", "routingId"} \cup Carried(msg.id) : l[f] = Kept(msg, f)
    BY <2>1, StoredLoaded
  <2> HIDE DEF l
  <2>3. l \notin {Null, Abort}
    BY <2>2, EntriesDiffer
  <2>4. \A f \in ({"id", "routingId"} \cup Carried(msg.id)) \ {"headers"} : l[f] = msg[f]
    BY <2>2 DEF Kept
  <2>5. ASSUME msg.id = HELLO
        PROVE  /\ (\A i \in DOMAIN headers : Flat(i)) => l.headers = msg.headers
               /\ \A i \in DOMAIN headers : (Flat(i) /\ Alone(i)) =>
                    \E k \in DOMAIN l.headers : l.headers[k] = headers[i]
    <3>1. l.headers = Kept(msg, "headers")
      <4>1. "headers" \in Carried(msg.id)
        BY <2>5 DEF Carried, HELLO, WHISPER, SHOUT, JOIN, LEAVE, ELECT, LEADER
      <4>2. l["headers"] = Kept(msg, "headers")
        BY <2>2, <4>1
      <4> QED BY <4>2
    <3>2. CASE msg.headers = Null
      <4>1. headers = <<>> /\ l.headers = Null
        BY <3>1, <3>2 DEF Items, Kept
      <4>2. DOMAIN headers = {}
        BY <4>1
      <4> HIDE DEF headers, Flat, Alone
      <4> QED BY <3>2, <4>1, <4>2
    <3>3. CASE msg.headers # Null
      <4>1. headers = msg.headers /\ l.headers = Section(headers)
        BY <3>1, <3>3 DEF Items, Kept
      <4>2. headers \in Sections
        BY <2>1, <3>3, <4>1 DEF Object, Msg, Sections
      <4> HIDE DEF headers
      <4>3. (\A i \in DOMAIN headers : Flat(i)) => l.headers = msg.headers
        BY <4>1, <4>2, FlatSection
      <4>4. \A i \in DOMAIN headers : (Flat(i) /\ Alone(i)) =>
                \E k \in DOMAIN l.headers : l.headers[k] = headers[i]
        BY <4>1, <4>2, FlatHeader
      <4> QED BY <4>3, <4>4
    <3> QED BY <3>2, <3>3
  <2> QED BY <2>3, <2>4, <2>5 DEF l
<1> QED BY <1>1, AlwaysSound, PTL

\* The tree with one entry spoilt has that one and the stored others.
LEMMA SpoiltEntries ==
  ASSUME NEW m, m.id \in Ids, NEW key \in {"routingId"} \cup Carried(m.id), NEW text
  PROVE  LET config == Spoilt(m, key, text)
         IN  /\ config.message = m.id
             /\ config.routingId = IF key = "routingId" THEN text ELSE Zpl(m).routingId
             /\ \A k \in Carried(m.id) : config.content[k] = Entry(m, key, text, k)
<1> DEFINE t == Zpl(m)
           c == t.content
<1>1. /\ t.message = m.id /\ DOMAIN t = {"message", "routingId", "content"}
      /\ DOMAIN c = Carried(m.id) /\ \A k \in Carried(m.id) : c[k] = Stored(m, k)
      /\ Carried(m.id) \subseteq Keys
  BY EntriesStored
<1>2. "routingId" \notin Carried(m.id)
  BY <1>1 DEF Keys, Texts, Numbers, Lists
<1> HIDE DEF t
<1>3. CASE key = "routingId"
  <2>1. Spoilt(m, key, text) = [t EXCEPT !.routingId = text]
    BY <1>3 DEF Spoilt, t
  <2>2. /\ [t EXCEPT !.routingId = text].message = m.id
        /\ [t EXCEPT !.routingId = text].routingId = text
        /\ [t EXCEPT !.routingId = text].content = c
    BY <1>1
  <2>3. \A k \in Carried(m.id) : Entry(m, key, text, k) = Stored(m, k)
    BY <1>2, <1>3 DEF Entry
  <2> HIDE DEF Entry, c
  <2> QED BY <1>1, <1>3, <2>1, <2>2, <2>3 DEF t
<1>4. CASE key # "routingId"
  <2>1. key \in Carried(m.id)
    BY <1>4
  <2>2. Spoilt(m, key, text) = [t EXCEPT !.content[key] = text]
    BY <1>4 DEF Spoilt, t
  <2>3. /\ [t EXCEPT !.content[key] = text].message = m.id
        /\ [t EXCEPT !.content[key] = text].routingId = t.routingId
        /\ [t EXCEPT !.content[key] = text].content = [c EXCEPT ![key] = text]
    BY <1>1
  <2>4. ASSUME NEW k \in Carried(m.id)
        PROVE  [c EXCEPT ![key] = text][k] = Entry(m, key, text, k)
    BY <1>1, <2>1 DEF Entry
  <2> HIDE DEF Entry, c
  <2> QED BY <1>4, <2>2, <2>3, <2>4 DEF t
<1> QED BY <1>3, <1>4

\* What zre_msg_new_zpl gives of a tree with one entry spoilt: nothing, or the end
\* of the process, or a message with every other field but the headers as it was
\* stored.
THEOREM LoadingSpoilt == Spec => []SpoiltTree
<1>1. Sound => SpoiltTree
  <2> DEFINE Shown(uint, key, text) ==
                LET loaded == NewZpl(Spoilt(msg, key, text), uint)
                    kept == ({"id", "routingId"} \cup Carried(msg.id)) \ {key, "headers"}
                IN  IF Refused(key, text) THEN loaded = Null
                    ELSE IF text = Junk /\ uint >= Base THEN loaded = Abort
                    ELSE /\ loaded \notin {Null, Abort}
                         /\ loaded[key] = Instead(key, text, uint)
                         /\ \A field \in kept : loaded[field] = msg[field]
  <2> SUFFICES ASSUME Sound, msg.id \in Ids, CanZpl(msg), NEW uint \in Memory
               PROVE  /\ NewZpl([Zpl(msg) EXCEPT !.message = Null], uint) = Null
                      /\ \A key \in {"routingId"} \cup Carried(msg.id) :
                            \A text \in Spoils(key) : Shown(uint, key, text)
    BY DEF SpoiltTree
  <2>1. NewZpl([Zpl(msg) EXCEPT !.message = Null], uint) = Null
    <3> DEFINE config == [Zpl(msg) EXCEPT !.message = Null]
               c == config.content
    <3>1. config.message = Null
      BY EntriesStored
    <3>2. Null \notin Ids
      <4>1. Ids \subseteq Nat
        BY IdType
      <4> QED BY <4>1, EntriesDiffer DEF Unread
    <3> HIDE DEF config
    <3>3. NewNamed(config, uint) = Null
      BY <3>1, <3>2 DEF NewNamed
    <3>4. LoadPing(State(Null, c)) = State(Null, c) /\ State(Null, c).m = Null
      BY EnterState DEF LoadPing, LoadNumber, Enter
    <3>5. [m |-> NewNamed(config, uint), content |-> c] = State(Null, c)
      BY <3>3 DEF State
    <3> HIDE DEF c
    <3>6. NewZpl(config, uint) = Null
      BY <3>4, <3>5 DEF NewZpl, c
    <3> QED BY <3>6 DEF config
  <2>2. ASSUME NEW key \in {"routingId"} \cup Carried(msg.id), NEW text \in Spoils(key)
        PROVE  Shown(uint, key, text)
    <3> DEFINE config == Spoilt(msg, key, text)
               l == NewZpl(config, uint)
               all == {"id", "routingId"} \cup Carried(msg.id)
    <3>1. /\ msg \in Object /\ uint \in Nat
          /\ key \in Keys \cup {"routingId"} /\ key # "none" /\ key \in all
      <4>1. uint \in Nat
        BY BaseType, InputAssumption DEF Memory, Octet
      <4>2. Carried(msg.id) \subseteq Keys
        BY EntriesStored
      <4> QED BY <4>1, <4>2 DEF Sound, Keys, Texts, Numbers, Lists
    <3>2. Spoiling(msg, key, text, uint)
      BY <3>1 DEF Spoiling
    <3>3. /\ config.message = msg.id
          /\ config.routingId = IF key = "routingId" THEN text ELSE Zpl(msg).routingId
          /\ \A k \in Carried(msg.id) : config.content[k] = Entry(msg, key, text, k)
      BY SpoiltEntries
    <3> HIDE DEF config
    <3>4. Loaded(l, all, msg, key, text, uint)
      BY <3>2, <3>3, TreeLoads
    <3> HIDE DEF l
    <3>5. CASE Refused(key, text)
      <4>1. l = Null
        BY <3>1, <3>4, <3>5 DEF Loaded, Stops, Ends
      <4> QED BY <3>5, <4>1 DEF config, l
    <3>6. CASE ~Refused(key, text) /\ text = Junk /\ uint >= Base
      <4>1. l = Abort
        BY <3>1, <3>4, <3>6 DEF Loaded, Stops, Ends
      <4> QED BY <3>6, <4>1 DEF config, l
    <3>7. CASE ~Refused(key, text) /\ ~(text = Junk /\ uint >= Base)
      <4>1. ~Stops(key, text, uint)
        BY <3>7 DEF Stops
      <4>2. /\ l \in Object
            /\ \A f \in all : l[f] = Expected(msg, key, text, uint, f)
        BY <3>4, <4>1 DEF Loaded
      <4>3. l \notin {Null, Abort}
        BY <4>2, EntriesDiffer
      <4>4. l[key] = Instead(key, text, uint)
        BY <3>1, <4>2 DEF Expected
      <4>5. \A f \in all \ {key, "headers"} : l[f] = msg[f]
        BY <4>2 DEF Expected, Kept
      <4> QED BY <3>7, <4>3, <4>4, <4>5 DEF config, l
    <3> QED BY <3>5, <3>6, <3>7
  <2> HIDE DEF Shown
  <2> QED BY <2>1, <2>2
<1> QED BY <1>1, AlwaysSound, PTL

-----------------------------------------------------------------------------
(***************************************************************************)
(* Messages under way.                                                     *)
(***************************************************************************)
Heads(frames) == {i \in DOMAIN frames : frames[i].sent # Null}

LEMMA HeadsFinite ==
  ASSUME NEW frames \in Seq(ObjectFrame)
  PROVE  /\ IsFiniteSet(Heads(frames)) /\ Heads(frames) \in SUBSET (1 .. Len(frames))
         /\ Cardinality(Heads(frames)) \in Nat
<1>1. Len(frames) \in Nat /\ DOMAIN frames = 1 .. Len(frames)
  OBVIOUS
<1>2. Heads(frames) \in SUBSET (1 .. Len(frames))
  BY <1>1 DEF Heads
<1>3. IsFiniteSet(Heads(frames))
  <2>1. IsFiniteSet(1 .. Len(frames))
    BY <1>1, FS_Interval
  <2> QED BY <1>2, <2>1, FS_Subset
<1> QED BY <1>2, <1>3, FS_CardinalityType

LEMMA ShiftCounts ==
  ASSUME NEW S \in SUBSET Nat, IsFiniteSet(S), NEW k \in Nat
  PROVE  LET T == {i + k : i \in S}
         IN  IsFiniteSet(T) /\ Cardinality(T) = Cardinality(S)
<1> DEFINE T == {i + k : i \in S}
           f == [i \in S |-> i + k]
<1>1. f \in [S -> T]
  OBVIOUS
<1>2. \A a, b \in S : f[a] = f[b] => a = b
  <2>1. \A a, b \in Nat : a + k = b + k => a = b
    OBVIOUS
  <2> QED BY <2>1
<1>3. \A t \in T : \E s \in S : f[s] = t
  OBVIOUS
<1> HIDE DEF f, T
<1>4. ExistsBijection(S, T)
  BY <1>1, <1>2, <1>3 DEF ExistsBijection, Bijection, Injection, Surjection, IsInjective
<1> QED BY <1>4, FS_Bijection DEF T

\* The heads of a wire: the first frame's, and those behind the first k.
LEMMA HeadsSplit ==
  ASSUME NEW u \in Seq(ObjectFrame), NEW w \in Seq(ObjectFrame), NEW k \in Nat,
         NEW S \in SUBSET (1 .. k), IsFiniteSet(S),
         Len(w) = k + Len(u),
         \A i \in 1 .. k : w[i].sent # Null <=> i \in S,
         \A i \in 1 .. Len(u) : w[i + k] = u[i]
  PROVE  Cardinality(Heads(w)) = Cardinality(S) + Cardinality(Heads(u))
<1> DEFINE T == {i + k : i \in Heads(u)}
<1>1. /\ IsFiniteSet(Heads(u)) /\ Heads(u) \in SUBSET (1 .. Len(u))
      /\ Cardinality(Heads(u)) \in Nat /\ Len(u) \in Nat
      /\ Heads(u) \in SUBSET Nat
  <2>1. Len(u) \in Nat /\ 1 .. Len(u) \subseteq Nat
    OBVIOUS
  <2> QED BY <2>1, HeadsFinite
<1>2. IsFiniteSet(T) /\ Cardinality(T) = Cardinality(Heads(u))
  BY <1>1, ShiftCounts
<1>3. S \cap T = {}
  <2>1. \A i \in 1 .. k, j \in 1 .. Len(u) : i # j + k
    BY <1>1
  <2> QED BY <1>1, <2>1
<1>4. \A i : i \in 1 .. Len(w) <=> i \in 1 .. k \/ \E j \in 1 .. Len(u) : i = j + k
  <2>1. ASSUME NEW i \in 1 .. Len(w), i \notin 1 .. k
        PROVE  \E j \in 1 .. Len(u) : i = j + k
    <3>1. i - k \in 1 .. Len(u) /\ i = (i - k) + k
      BY <1>1, <2>1
    <3> QED BY <3>1
  <2>2. \A i \in 1 .. k : i \in 1 .. Len(w)
    BY <1>1
  <2>3. \A j \in 1 .. Len(u) : j + k \in 1 .. Len(w)
    BY <1>1
  <2> QED BY <2>1, <2>2, <2>3
<1>5. Heads(w) = S \cup T
  <2>1. DOMAIN w = 1 .. Len(w) /\ DOMAIN u = 1 .. Len(u)
    OBVIOUS
  <2>2. \A i \in 1 .. k : i \in Heads(w) <=> i \in S
    BY <1>4, <2>1 DEF Heads
  <2>3. \A j \in 1 .. Len(u) : j + k \in Heads(w) <=> j \in Heads(u)
    <3>1. \A j \in 1 .. Len(u) : j + k \in 1 .. Len(w)
      BY <1>4
    <3> QED BY <2>1, <3>1 DEF Heads
  <2>4. ASSUME NEW i \in Heads(w) PROVE i \in S \cup T
    <3>1. i \in 1 .. Len(w)
      BY <2>1 DEF Heads
    <3>2. CASE i \in 1 .. k
      BY <2>2, <2>4, <3>2
    <3>3. CASE \E j \in 1 .. Len(u) : i = j + k
      <4>1. PICK j \in 1 .. Len(u) : i = j + k
        BY <3>3
      <4>2. j \in Heads(u)
        BY <2>3, <2>4, <4>1
      <4> QED BY <4>1, <4>2
    <3> QED BY <1>4, <3>1, <3>2, <3>3
  <2>5. \A i \in S : i \in Heads(w)
    BY <2>2
  <2>6. \A j \in Heads(u) : j + k \in Heads(w)
    BY <1>1, <2>3
  <2> QED BY <2>4, <2>5, <2>6
<1> HIDE DEF T
<1>6. Cardinality(S \cup T) = Cardinality(S) + Cardinality(T) - Cardinality(S \cap T)
  BY <1>2, FS_Union
<1>7. Cardinality(S \cap T) = 0 /\ Cardinality(S) \in Nat
  BY <1>3, FS_EmptySet, FS_CardinalityType
<1> QED BY <1>1, <1>2, <1>5, <1>6, <1>7

LEMMA DeliveredHeads ==
  ASSUME NEW id \in Frame, NEW frames \in Seq(Frame), NEW sent \in Object \cup {Null}
  PROVE  LET d == Delivered(id, frames, sent)
         IN  /\ d \in Seq(ObjectFrame)
             /\ Cardinality(Heads(d)) = IF sent = Null THEN 0 ELSE 1
<1> DEFINE d == Delivered(id, frames, sent)
<1>1. /\ d \in Seq(ObjectFrame) /\ Len(d) = Len(frames) + 1 /\ d[1].sent = sent
      /\ \A i \in 2 .. Len(d) : d[i].sent = Null
  BY DeliveredShape
<1> HIDE DEF d
<1>2. DOMAIN d = 1 .. Len(d) /\ 1 \in 1 .. Len(d)
      /\ \A i \in 1 .. Len(d) : i = 1 \/ i \in 2 .. Len(d)
  BY <1>1
<1>3. Heads(d) = IF sent = Null THEN {} ELSE {1}
  BY <1>1, <1>2 DEF Heads
<1>4. Cardinality(Heads(d)) = IF sent = Null THEN 0 ELSE 1
  BY <1>3, FS_EmptySet, FS_Singleton
<1> QED BY <1>1, <1>4 DEF d

LEMMA ConcatHeads ==
  ASSUME NEW u \in Seq(ObjectFrame), NEW v \in Seq(ObjectFrame)
  PROVE  Cardinality(Heads(u \o v)) = Cardinality(Heads(u)) + Cardinality(Heads(v))
<1> DEFINE w == u \o v
           k == Len(u)
<1>1. k \in Nat /\ Len(v) \in Nat /\ DOMAIN u = 1 .. k
  OBVIOUS
<1>2. /\ w \in Seq(ObjectFrame) /\ Len(w) = k + Len(v)
      /\ \A i \in 1 .. k : w[i] = u[i]
      /\ \A i \in 1 .. Len(v) : w[k + i] = v[i]
  OBVIOUS
<1>3. IsFiniteSet(Heads(u)) /\ Heads(u) \in SUBSET (1 .. k)
  BY HeadsFinite
<1>4. \A i \in 1 .. k : w[i].sent # Null <=> i \in Heads(u)
  BY <1>1, <1>2 DEF Heads
<1> HIDE DEF w, k
<1>5. \A i \in 1 .. Len(v) : w[i + k] = v[i]
  <2>1. \A i \in 1 .. Len(v) : i + k = k + i
    BY <1>1
  <2> QED BY <1>2, <2>1
<1>6. Cardinality(Heads(w)) = Cardinality(Heads(u)) + Cardinality(Heads(v))
  BY <1>1, <1>2, <1>3, <1>4, <1>5, HeadsSplit
<1> QED BY <1>6 DEF w

\* A zre_msg_recv takes no head but the first frame's.
LEMMA RecvHeads ==
  ASSUME Sound, NEW k \in 1 .. Len(wire), \A i \in 1 .. k - 1 : wire[i].more
  PROVE  Cardinality(Heads(wire)) =
            (IF wire[1].sent = Null THEN 0 ELSE 1) + Cardinality(Heads(Drop(wire, k)))
<1> DEFINE u == Drop(wire, k)
           S == IF wire[1].sent = Null THEN {} ELSE {1}
<1>1. /\ Wired(wire) /\ wire \in Seq(ObjectFrame) /\ Len(wire) \in Nat
      /\ \A i \in 1 .. Len(wire) - 1 : wire[i].more => wire[i + 1].sent = Null
  BY DEF Sound, Wired
<1>2. k \in Nat /\ k \in 0 .. Len(wire) /\ 1 \in 1 .. k
  BY <1>1
<1>3. /\ Wired(u) /\ Len(u) = Len(wire) - k
      /\ \A i \in 1 .. Len(wire) - k : u[i] = wire[i + k]
  BY <1>1, <1>2, DropWired
<1> HIDE DEF u
<1>4. u \in Seq(ObjectFrame) /\ Len(wire) = k + Len(u)
      /\ \A i \in 1 .. Len(u) : wire[i + k] = u[i]
  BY <1>1, <1>2, <1>3 DEF Wired
<1>5. ASSUME NEW i \in 2 .. k PROVE wire[i].sent = Null
  <2>1. i - 1 \in 1 .. k - 1 /\ i - 1 \in 1 .. Len(wire) - 1 /\ (i - 1) + 1 = i
    BY <1>1, <1>2
  <2> QED BY <1>1, <2>1
<1>6. \A i \in 1 .. k : i = 1 \/ i \in 2 .. k
  BY <1>2
<1>7. \A i \in 1 .. k : wire[i].sent # Null <=> i \in S
  BY <1>5, <1>6
<1>8. IsFiniteSet(S) /\ S \in SUBSET (1 .. k)
      /\ Cardinality(S) = IF wire[1].sent = Null THEN 0 ELSE 1
  BY <1>2, FS_EmptySet, FS_Singleton
<1> HIDE DEF S
<1>9. Cardinality(Heads(wire)) = Cardinality(S) + Cardinality(Heads(u))
  BY <1>1, <1>2, <1>4, <1>7, <1>8, HeadsSplit
<1> QED BY <1>8, <1>9 DEF u

Asked == (Budget["send"] - budget["send"]) + 2 * (Budget["test"] - budget["test"])
Balanced == heard + Cardinality(Heads(wire)) = Asked

LEMMA SpendCounts ==
  ASSUME Sound, NEW kind \in BudgetKinds, Spend(kind)
  PROVE  Asked' = Asked + CASE kind = "send" -> 1
                            [] kind = "test" -> 2
                            [] OTHER -> 0
<1>1. /\ budget \in [BudgetKinds -> Nat] /\ Budget \in [BudgetKinds -> Nat]
      /\ budget' = [budget EXCEPT ![kind] = @ - 1]
  BY BudgetAssumption DEF Sound, Spend
<1>2. "send" \in BudgetKinds /\ "test" \in BudgetKinds
  BY DEF BudgetKinds
<1>3. /\ budget'["send"] = IF kind = "send" THEN budget["send"] - 1 ELSE budget["send"]
      /\ budget'["test"] = IF kind = "test" THEN budget["test"] - 1 ELSE budget["test"]
  BY <1>1, <1>2
<1> DEFINE a == Budget["send"]
           b == budget["send"]
           c == Budget["test"]
           d == budget["test"]
<1>4. a \in Nat /\ b \in Nat /\ c \in Nat /\ d \in Nat
  BY <1>1, <1>2
<1>5. /\ Asked = (a - b) + 2 * (c - d)
      /\ Asked' = (a - budget'["send"]) + 2 * (c - budget'["test"])
  BY DEF Asked
<1> HIDE DEF a, b, c, d
<1>6. CASE kind = "send"
  <2>1. budget'["send"] = b - 1 /\ budget'["test"] = d
    BY <1>3, <1>6 DEF b, d
  <2> QED BY <1>4, <1>5, <1>6, <2>1
<1>7. CASE kind = "test"
  <2>1. budget'["send"] = b /\ budget'["test"] = d - 1
    BY <1>3, <1>7 DEF b, d
  <2> QED BY <1>4, <1>5, <1>7, <2>1
<1>8. CASE kind \notin {"send", "test"}
  <2>1. budget'["send"] = b /\ budget'["test"] = d
    BY <1>3, <1>8 DEF b, d
  <2> QED BY <1>4, <1>5, <1>8, <2>1
<1> QED BY <1>6, <1>7, <1>8

LEMMA BalancedStep == Sound /\ Balanced /\ [Next]_vars => Balanced'
<1> SUFFICES ASSUME Sound, Balanced, [Next]_vars PROVE Balanced'
  OBVIOUS
<1> DEFINE h == Cardinality(Heads(wire))
           g == Cardinality(Heads(wire'))
<1>1. wire \in Seq(ObjectFrame) /\ Len(wire) \in Nat /\ heard \in Nat
  BY DEF Sound, Wired
<1>2. h \in Nat
  BY <1>1, HeadsFinite
<1>3. heard + h = Asked
  BY DEF Balanced
<1>4. Balanced' <=> heard' + g = Asked'
  BY DEF Balanced
<1>5. wire' = wire => g = h
  OBVIOUS
<1> HIDE DEF h, g
<1>6. CASE SetText \/ SetNumber \/ SetOwned \/ Take \/ Renew \/ Copy \/ Reload
  <2>1. PICK kind \in {"set", "take", "copy"} : Spend(kind) /\ heard' = heard /\ wire' = wire
    BY <1>6 DEF SetText, SetNumber, SetOwned, Take, Renew, Copy, Reload, Become
  <2>2. kind \in BudgetKinds /\ kind \notin {"send", "test"}
    BY DEF BudgetKinds
  <2>3. Asked' = Asked + 0
    BY <2>1, <2>2, SpendCounts
  <2> QED BY <1>1, <1>2, <1>3, <1>4, <1>5, <2>1, <2>3
<1>7. ASSUME NEW id \in RoutingId, NEW frames \in Seq(Frame), NEW sent \in Object \cup {Null},
             Arrive(id, frames, sent)
      PROVE  g = h + IF sent = Null THEN 0 ELSE 1
  <2> DEFINE d == Delivered(id, frames, sent)
  <2>1. id \in Frame
    BY InputType
  <2>2. d \in Seq(ObjectFrame) /\ Cardinality(Heads(d)) = IF sent = Null THEN 0 ELSE 1
    BY <2>1, DeliveredHeads
  <2>3. wire' = wire \o d
    BY <1>7 DEF Arrive
  <2> HIDE DEF d
  <2> QED BY <1>1, <2>2, <2>3, ConcatHeads DEF g, h
<1>8. CASE Send
  <2>1. PICK id \in RoutingId, octet \in Garbage : Arrive(id, Multipart(msg, octet), msg)
    BY <1>8 DEF Send
  <2>2. msg \in Object /\ msg \in Msg /\ octet \in Octet /\ msg # Null
    BY InputType, EntryAssumption DEF Sound, Object
  <2>3. Multipart(msg, octet) \in Seq(Frame)
    BY <2>2, MultipartType
  <2>4. g = h + 1
    BY <1>7, <2>1, <2>2, <2>3
  <2>5. Asked' = Asked + 1
    BY <1>8, SpendCounts DEF Send, BudgetKinds
  <2>6. heard' = heard
    BY <1>8 DEF Send
  <2> QED BY <1>1, <1>2, <1>3, <1>4, <2>4, <2>5, <2>6
<1>9. CASE Stranger
  <2>1. PICK id \in RoutingId, frames \in Stray : Arrive(id, frames, Null)
    BY <1>9 DEF Stranger
  <2>2. frames \in Seq(Frame)
    BY InputType
  <2>3. g = h + 0
    BY <1>7, <2>1, <2>2
  <2>4. Asked' = Asked + 0
    BY <1>9, SpendCounts DEF Stranger, BudgetKinds
  <2>5. heard' = heard
    BY <1>9 DEF Stranger
  <2> QED BY <1>1, <1>2, <1>3, <1>4, <2>3, <2>4, <2>5
<1>10. CASE SelfTest
  <2>1. PICK f \in Tested(got), id \in RoutingId, octet \in Garbage :
          LET once == Delivered(id, Multipart(f, octet), f)
          IN  wire' = once \o once
    BY <1>10 DEF SelfTest
  <2>2. f \in Object /\ f \in Msg /\ id \in Frame /\ octet \in Octet
    <3>1. f \in Object
      BY TestedType DEF Sound
    <3> QED BY <3>1, InputType DEF Object
  <2>3. Multipart(f, octet) \in Seq(Frame) /\ f # Null
    BY <2>2, MultipartType, EntryAssumption
  <2> DEFINE once == Delivered(id, Multipart(f, octet), f)
  <2>4. once \in Seq(ObjectFrame) /\ Cardinality(Heads(once)) = 1
    BY <2>2, <2>3, DeliveredHeads
  <2>5. wire' = once \o once
    BY <2>1
  <2> HIDE DEF once
  <2>6. g = 1 + 1
    BY <2>4, <2>5, ConcatHeads DEF g
  <2>7. h = 0
    <3>1. wire = <<>>
      BY <1>10 DEF SelfTest
    <3>2. Heads(<<>>) = {}
      BY DEF Heads
    <3> QED BY <3>1, <3>2, FS_EmptySet DEF h
  <2>8. Asked' = Asked + 2
    BY <1>10, SpendCounts DEF SelfTest, BudgetKinds
  <2>9. heard' = heard
    BY <1>10 DEF SelfTest
  <2> QED BY <1>1, <1>3, <1>4, <2>6, <2>7, <2>8, <2>9
<1>11. CASE Recv
  <2>1. PICK k \in 1 .. Len(wire) :
          (\A i \in 1 .. k - 1 : wire[i].more) /\ wire' = Drop(wire, k)
    BY <1>11, RecvStep
  <2>2. h = (IF wire[1].sent = Null THEN 0 ELSE 1) + g
    BY <2>1, RecvHeads DEF h, g
  <2>3. heard' = IF wire[1].sent = Null THEN heard ELSE heard + 1
    BY <1>11 DEF Recv
  <2>4. Asked' = Asked
    BY <1>11 DEF Recv, Asked
  <2>5. g \in Nat
    <3>1. Sound'
      BY SoundStep
    <3>2. wire' \in Seq(ObjectFrame)
      BY <3>1 DEF Sound, Wired
    <3> QED BY <3>2, HeadsFinite DEF g
  <2> QED BY <1>1, <1>2, <1>3, <1>4, <2>2, <2>3, <2>4, <2>5
<1>12. CASE UNCHANGED vars
  <2>1. heard' = heard /\ wire' = wire /\ Asked' = Asked
    BY <1>12 DEF vars, Asked
  <2> QED BY <1>3, <1>4, <1>5, <2>1
<1> QED BY <1>6, <1>8, <1>9, <1>10, <1>11, <1>12 DEF Next

\* Whatever strangers send and however their multiparts end, every message that
\* zre_msg_send sent is still under way or was received from its first frame on.
THEOREM NothingIsSwallowed == Spec => []NothingSwallowed
<1>1. Init => Balanced
  <2> SUFFICES ASSUME Init PROVE Balanced
    OBVIOUS
  <2>1. wire = <<>> /\ heard = 0 /\ budget = Budget
    BY DEF Init
  <2>2. Heads(<<>>) = {}
    BY DEF Heads
  <2>3. Budget["send"] \in Nat /\ Budget["test"] \in Nat
    BY BudgetAssumption DEF BudgetKinds
  <2>4. Asked = 0
    BY <2>1, <2>3 DEF Asked
  <2> QED BY <2>1, <2>2, <2>4, FS_EmptySet DEF Balanced
<1>2. Sound /\ Balanced /\ [Next]_vars => Balanced'
  BY BalancedStep
<1>3. Balanced => NothingSwallowed
  BY DEF Balanced, Heads, Asked, NothingSwallowed
<1> QED BY <1>1, <1>2, <1>3, AlwaysSound, PTL DEF Spec

-----------------------------------------------------------------------------
(***************************************************************************)
(* What zre_msg_recv makes of a message that was sent.                     *)
(***************************************************************************)

\* The multipart of the message whose first frame is next.
LEMMA SentShape ==
  ASSUME NEW w, Wired(w), w # <<>>, w[1].sent # Null
  PROVE  /\ w[1].sent \in Object /\ w[1].data \in Frame /\ w[1].more /\ Len(w) \in Nat
         /\ \E octet \in Octet :
                LET f == Multipart(w[1].sent, octet)
                IN  /\ f \in Seq(Frame) /\ Len(f) + 1 <= Len(w)
                    /\ \A j \in 1 .. Len(f) :
                          w[j + 1].data = f[j] /\ (w[j + 1].more <=> j < Len(f))
<1> DEFINE s == w[1].sent
<1>1. w \in Seq(ObjectFrame) /\ Len(w) \in Nat /\ 1 \in 1 .. Len(w)
  BY DEF Wired
<1>2. s \in Object /\ w[1].data \in Frame
  <2>1. w[1] \in ObjectFrame
    BY <1>1
  <2> QED BY <2>1 DEF ObjectFrame
<1>3. PICK id \in Frame, octet \in Octet : Under(w, 1, Delivered(id, Multipart(s, octet), s))
  BY <1>1 DEF Wired, Sending
<1> DEFINE f == Multipart(s, octet)
           d == Delivered(id, f, s)
<1>4. f \in Seq(Frame) /\ Len(f) \in Nat /\ Len(f) >= 1
  <2>1. s \in Msg
    BY <1>2 DEF Object
  <2> QED BY <1>3, <2>1, MultipartType
<1>5. Under(w, 1, d)
  BY <1>3
<1> HIDE DEF f
<1>6. /\ Len(d) = Len(f) + 1
      /\ \A i \in 2 .. Len(d) : d[i].data = f[i - 1]
      /\ \A i \in 1 .. Len(d) : d[i].more <=> i < Len(d)
  BY <1>2, <1>3, <1>4, DeliveredShape
<1> HIDE DEF d, s
<1>7. Len(d) <= Len(w) /\ \A i \in 1 .. Len(d) : w[i] = d[i]
  <2>1. 1 + Len(d) - 1 = Len(d) /\ \A i \in 1 .. Len(d) : 1 + i - 1 = i
    BY <1>4, <1>6
  <2> QED BY <1>5, <2>1 DEF Under
<1>8. w[1].more
  <2>1. 1 \in 1 .. Len(d) /\ 1 < Len(d)
    BY <1>4, <1>6
  <2> QED BY <1>6, <1>7, <2>1
<1>9. ASSUME NEW j \in 1 .. Len(f)
      PROVE  w[j + 1].data = f[j] /\ (w[j + 1].more <=> j < Len(f))
  <2>1. j + 1 \in 2 .. Len(d) /\ j + 1 \in 1 .. Len(d) /\ (j + 1) - 1 = j
        /\ (j + 1 < Len(d) <=> j < Len(f))
    BY <1>4, <1>6
  <2> QED BY <1>6, <1>7, <2>1
<1>10. Len(f) + 1 <= Len(w)
  BY <1>6, <1>7
<1> QED BY <1>1, <1>2, <1>3, <1>4, <1>8, <1>9, <1>10 DEF f, s

\* Without content the object is the one that the first frame behind the routing
\* id fills.
LEMMA ControlReceived ==
  ASSUME NEW w, Wired(w), w # <<>>, w[1].sent # Null, w[1].sent.id \in Control,
         NEW m0 \in Object
  PROVE  LET s == w[1].sent
             r == Receive(m0, w)
             plain == SetSequence(SetId(SetRoutingId(m0, w[1].data), s.id), s.sequence)
         IN  /\ r.rc = 0
             /\ s.id \in {JOIN, LEAVE} =>
                    r.m = SetStatus(SetGroup(plain, s.group), s.status)
             /\ s.id = ELECT =>
                    r.m = SetChallenger(SetGroup(plain, s.group), s.challenger)
             /\ s.id = LEADER =>
                    r.m = SetLeader(SetGroup(plain, s.group), s.leader)
             /\ s.id \in {PING, PING_OK, GOODBYE} => r.m = plain
<1> DEFINE s == w[1].sent
           named == SetRoutingId(m0, w[1].data)
           plain == SetSequence(SetId(named, s.id), s.sequence)
<1>1. s \in Object /\ s \in Msg /\ w[1].data \in Frame /\ w[1].more /\ Len(w) \in Nat
  BY SentShape DEF Object
<1>2. PICK octet \in Octet :
        LET f == Multipart(s, octet)
        IN  /\ f \in Seq(Frame) /\ Len(f) + 1 <= Len(w)
            /\ \A j \in 1 .. Len(f) :
                  w[j + 1].data = f[j] /\ (w[j + 1].more <=> j < Len(f))
  BY SentShape
<1> DEFINE e == Encode(s, octet)
           c == Decode(named, w[2].data)
<1>3. Multipart(s, octet) = <<e>>
  <2>1. s.id \notin {WHISPER, SHOUT}
    BY DEF Control, WHISPER, SHOUT, JOIN, LEAVE, PING, PING_OK, ELECT, LEADER, GOODBYE
  <2>2. Multipart(s, octet) = <<e>> \o <<>>
    BY <2>1 DEF Multipart, ContentFrames
  <2> HIDE DEF e
  <2>3. <<e>> \o <<>> = <<e>>
    OBVIOUS
  <2> QED BY <2>2, <2>3
<1> HIDE DEF e
<1>4. w[2].data = e
  <2>1. Len(<<e>>) = 1 /\ <<e>>[1] = e /\ 1 + 1 = 2 /\ 1 \in 1 .. 1
    OBVIOUS
  <2> QED BY <1>2, <1>3, <2>1
<1>5. named \in Object /\ named \in Msg
  <2>1. w[1].data \in Octets
    BY <1>1 DEF Octets
  <2> QED BY <2>1, SettersType DEF Object
<1> HIDE DEF named
<1>6. /\ c.rc = 0
      /\ s.id \in {JOIN, LEAVE} => c.m = SetStatus(SetGroup(plain, s.group), s.status)
      /\ s.id = ELECT => c.m = SetChallenger(SetGroup(plain, s.group), s.challenger)
      /\ s.id = LEADER => c.m = SetLeader(SetGroup(plain, s.group), s.leader)
      /\ s.id \in {PING, PING_OK, GOODBYE} => c.m = plain
  BY <1>1, <1>4, <1>5, ControlRoundTrip DEF e
<1>7. plain.id = s.id
  <2>1. [named EXCEPT !.id = s.id].id = s.id
    BY <1>5 DEF Msg
  <2>2. [named EXCEPT !.id = s.id] \in Object
    <3>1. s.id \in Octet
      BY <1>1 DEF Msg
    <3> QED BY <1>5, <3>1, SettersType DEF SetId
  <2>3. plain = [[named EXCEPT !.id = s.id] EXCEPT !.sequence = s.sequence]
    BY <1>1, SettersKeep DEF SetId
  <2> QED BY <2>1, <2>2, <2>3 DEF Object, Msg
<1>8. plain \in Msg
  <2>1. s.id \in Octet /\ s.sequence \in Nat
    <3>1. 0 .. Base * Base - 1 \subseteq Nat
      OBVIOUS
    <3> QED BY <1>1, <3>1 DEF Msg
  <2>2. SetId(named, s.id) \in Object
    BY <1>5, <2>1, SettersType
  <2> QED BY <2>1, <2>2, SettersType DEF Object
<1> HIDE DEF plain
<1>9. c.m.id = s.id
  <2> DEFINE g == SetGroup(plain, s.group)
  <2>1. g.id = s.id /\ "id" \in DOMAIN g
    <3>1. g = [plain EXCEPT !.group = s.group]
      BY <1>1, SettersKeep
    <3> QED BY <1>7, <1>8, <3>1 DEF Msg
  <2>2. /\ s.id \in {JOIN, LEAVE} => c.m = SetStatus(g, s.status)
        /\ s.id = ELECT => c.m = SetChallenger(g, s.challenger)
        /\ s.id = LEADER => c.m = SetLeader(g, s.leader)
    BY <1>6
  <2> HIDE DEF g, c
  <2>3. /\ SetStatus(g, s.status) = [g EXCEPT !.status = s.status]
        /\ SetChallenger(g, s.challenger) = [g EXCEPT !.challenger = s.challenger]
        /\ SetLeader(g, s.leader) = [g EXCEPT !.leader = s.leader]
    BY <1>1, SettersKeep
  <2>4. /\ [g EXCEPT !.status = s.status].id = s.id
        /\ [g EXCEPT !.challenger = s.challenger].id = s.id
        /\ [g EXCEPT !.leader = s.leader].id = s.id
    BY <2>1
  <2>5. s.id \in {JOIN, LEAVE} \/ s.id = ELECT \/ s.id = LEADER
        \/ s.id \in {PING, PING_OK, GOODBYE}
    BY DEF Control
  <2>6. CASE s.id \in {JOIN, LEAVE}
    BY <2>2, <2>3, <2>4, <2>6
  <2>7. CASE s.id = ELECT
    BY <2>2, <2>3, <2>4, <2>7
  <2>8. CASE s.id = LEADER
    BY <2>2, <2>3, <2>4, <2>8
  <2>9. CASE s.id \in {PING, PING_OK, GOODBYE}
    BY <1>6, <1>7, <2>9
  <2> QED BY <2>5, <2>6, <2>7, <2>8, <2>9
<1>10. Receive(m0, w) = Result(c.m, 3, c.rc)
  <2>1. ~HasContent(c)
    <3>1. s.id \notin {WHISPER, SHOUT}
      BY DEF Control, WHISPER, SHOUT, JOIN, LEAVE, PING, PING_OK, ELECT, LEADER, GOODBYE
    <3> QED BY <1>9, <3>1 DEF HasContent
  <2> QED BY <1>1, <2>1 DEF Receive, named
<1>11. Receive(m0, w).m = c.m /\ Receive(m0, w).rc = c.rc
  BY <1>10 DEF Result
<1> QED BY <1>6, <1>11 DEF plain, named

\* Only zre_msg_recv says that a message was received.
LEMMA HeardOf ==
  ASSUME [Next]_vars
  PROVE  \/ last' = last /\ got' = got
         \/ SelfTest /\ last'.sent = Null
         \/ Recv
<1>1. CASE SetText \/ SetNumber \/ SetOwned \/ Take \/ Renew \/ Copy \/ Reload
  <2>1. last' = last /\ got' = got
    BY <1>1 DEF SetText, SetNumber, SetOwned, Take, Renew, Copy, Reload, Become
  <2> QED BY <2>1
<1>2. CASE Send \/ Stranger
  <2>1. last' = last /\ got' = got
    BY <1>2 DEF Send, Stranger
  <2> QED BY <2>1
<1>3. CASE SelfTest
  <2>1. last'.sent = Null
    BY <1>3 DEF SelfTest
  <2> QED BY <1>3, <2>1
<1>4. CASE UNCHANGED vars
  BY <1>4 DEF vars
<1> QED BY <1>1, <1>2, <1>3, <1>4 DEF Next

\* The object of a message without lists or content, in the object New.
LEMMA NewFilled ==
  ASSUME NEW s \in Object, s.id \in Control, NEW id \in Octets
  PROVE  LET p == SetSequence(SetId(SetRoutingId(New, id), s.id), s.sequence)
             q == [New EXCEPT !.routingId = id, !.id = s.id, !.sequence = s.sequence]
             g == SetGroup(p, s.group)
         IN  /\ p = q /\ p.routingId = id
             /\ LET a == SetStatus(g, s.status)
                IN  a = [q EXCEPT !.group = s.group, !.status = s.status]
                    /\ a.routingId = id
             /\ LET b == SetChallenger(g, s.challenger)
                IN  b = [q EXCEPT !.group = s.group, !.challenger = s.challenger]
                    /\ b.routingId = id
             /\ LET c == SetLeader(g, s.leader)
                IN  c = [q EXCEPT !.group = s.group, !.leader = s.leader]
                    /\ c.routingId = id
<1> DEFINE p == SetSequence(SetId(SetRoutingId(New, id), s.id), s.sequence)
           q == [New EXCEPT !.routingId = id, !.id = s.id, !.sequence = s.sequence]
           g == SetGroup(p, s.group)
<1>1. p = q
  <2>1. p = [SetId(SetRoutingId(New, id), s.id) EXCEPT !.sequence = s.sequence]
    BY SettersKeep
  <2> QED BY <2>1 DEF SetId, SetRoutingId
<1>2. q.routingId = id /\ {"id", "routingId", "group"} \subseteq DOMAIN q
  BY DEF New
<1> HIDE DEF p, q
<1>3. g = [q EXCEPT !.group = s.group]
  BY <1>1, SettersKeep
<1>4. g.routingId = id /\ "routingId" \in DOMAIN g
  BY <1>2, <1>3
<1> HIDE DEF g
<1>5. /\ SetStatus(g, s.status) = [g EXCEPT !.status = s.status]
      /\ SetChallenger(g, s.challenger) = [g EXCEPT !.challenger = s.challenger]
      /\ SetLeader(g, s.leader) = [g EXCEPT !.leader = s.leader]
  BY SettersKeep
<1>6. /\ [g EXCEPT !.status = s.status].routingId = id
      /\ [g EXCEPT !.challenger = s.challenger].routingId = id
      /\ [g EXCEPT !.leader = s.leader].routingId = id
  BY <1>4
<1>7. /\ [g EXCEPT !.status = s.status]
            = [q EXCEPT !.group = s.group, !.status = s.status]
      /\ [g EXCEPT !.challenger = s.challenger]
            = [q EXCEPT !.group = s.group, !.challenger = s.challenger]
      /\ [g EXCEPT !.leader = s.leader]
            = [q EXCEPT !.group = s.group, !.leader = s.leader]
  BY <1>3
<1> QED BY <1>1, <1>2, <1>5, <1>6, <1>7 DEF p, q, g

Arrives(l, g) ==
  (l.sent # Null /\ l.sent.id \in Control /\ l.fresh) =>
      LET s == l.sent
          plain == [New EXCEPT !.routingId = g.routingId, !.id = s.id,
                               !.sequence = s.sequence]
      IN  /\ l.rc = 0
          /\ s.id \in {JOIN, LEAVE} =>
              g = [plain EXCEPT !.group = s.group, !.status = s.status]
          /\ s.id = ELECT =>
              g = [plain EXCEPT !.group = s.group, !.challenger = s.challenger]
          /\ s.id = LEADER =>
              g = [plain EXCEPT !.group = s.group, !.leader = s.leader]
          /\ s.id \in {PING, PING_OK, GOODBYE} => g = plain

LEMMA RecvArrives ==
  ASSUME Sound, Recv
  PROVE  Arrives(last', got')
<1>1. PICK fresh \in BOOLEAN :
        LET r == Receive(IF fresh THEN New ELSE got, wire)
        IN  /\ got' = r.m
            /\ last' = [sent |-> wire[1].sent, rc |-> r.rc, fresh |-> fresh]
  BY RecvStep
<1>2. Wired(wire) /\ wire # <<>>
  BY DEF Sound, Wired, Recv
<1> SUFFICES ASSUME last'.sent # Null, last'.sent.id \in Control, last'.fresh
             PROVE  Arrives(last', got')
  BY DEF Arrives
<1> DEFINE s == wire[1].sent
           id == wire[1].data
           r == Receive(New, wire)
           q == [New EXCEPT !.routingId = id, !.id = s.id, !.sequence = s.sequence]
<1>3. /\ got' = r.m /\ last'.sent = s /\ last'.rc = r.rc
      /\ s # Null /\ s.id \in Control
  BY <1>1
<1>4. s \in Object /\ id \in Octets
  BY <1>2, <1>3, SentShape DEF Octets
<1> DEFINE p == SetSequence(SetId(SetRoutingId(New, id), s.id), s.sequence)
           g == SetGroup(p, s.group)
<1>5. /\ r.rc = 0
      /\ s.id \in {JOIN, LEAVE} => r.m = SetStatus(g, s.status)
      /\ s.id = ELECT => r.m = SetChallenger(g, s.challenger)
      /\ s.id = LEADER => r.m = SetLeader(g, s.leader)
      /\ s.id \in {PING, PING_OK, GOODBYE} => r.m = p
  BY <1>2, <1>3, NewObject, ControlReceived
<1>6. /\ p = q /\ p.routingId = id
      /\ SetStatus(g, s.status) = [q EXCEPT !.group = s.group, !.status = s.status]
      /\ SetStatus(g, s.status).routingId = id
      /\ SetChallenger(g, s.challenger)
            = [q EXCEPT !.group = s.group, !.challenger = s.challenger]
      /\ SetChallenger(g, s.challenger).routingId = id
      /\ SetLeader(g, s.leader) = [q EXCEPT !.group = s.group, !.leader = s.leader]
      /\ SetLeader(g, s.leader).routingId = id
  BY <1>3, <1>4, NewFilled
<1>7. s.id \in {JOIN, LEAVE} \/ s.id = ELECT \/ s.id = LEADER
      \/ s.id \in {PING, PING_OK, GOODBYE}
  BY <1>3 DEF Control
<1> HIDE DEF r, p, g
<1>8. got'.routingId = id
  BY <1>3, <1>5, <1>6, <1>7
<1>9. /\ s.id \in {JOIN, LEAVE} =>
            got' = [q EXCEPT !.group = s.group, !.status = s.status]
      /\ s.id = ELECT => got' = [q EXCEPT !.group = s.group, !.challenger = s.challenger]
      /\ s.id = LEADER => got' = [q EXCEPT !.group = s.group, !.leader = s.leader]
      /\ s.id \in {PING, PING_OK, GOODBYE} => got' = q
  BY <1>3, <1>5, <1>6
<1> HIDE DEF s
<1>10. q = [New EXCEPT !.routingId = got'.routingId, !.id = s.id, !.sequence = s.sequence]
  BY <1>8
<1> HIDE DEF q, id
<1> QED BY <1>3, <1>5, <1>9, <1>10 DEF Arrives

\* A message without lists or content that zre_msg_send sent is received in a
\* new object as that message and nothing else, whatever was sent, received or
\* sent by strangers before.
THEOREM ControlsArrive == Spec => []ControlArrives
<1>1. Init => ControlArrives
  BY DEF Init, ControlArrives
<1>2. Sound /\ ControlArrives /\ [Next]_vars => ControlArrives'
  <2> SUFFICES ASSUME Sound, ControlArrives, [Next]_vars PROVE ControlArrives'
    OBVIOUS
  <2>1. (ControlArrives <=> Arrives(last, got))
        /\ (ControlArrives' <=> Arrives(last', got'))
    BY DEF ControlArrives, Arrives
  <2>2. CASE last' = last /\ got' = got
    <3>1. Arrives(last, got)
      BY <2>1
    <3> QED BY <2>1, <2>2, <3>1
  <2>3. CASE last'.sent = Null
    BY <2>1, <2>3 DEF Arrives
  <2>4. CASE Recv
    BY <2>1, <2>4, RecvArrives
  <2> QED BY <2>2, <2>3, <2>4, HeardOf
<1> QED BY <1>1, <1>2, AlwaysSound, PTL DEF Spec

-----------------------------------------------------------------------------
(***************************************************************************)
(* The lists of a HELLO: every round of zre_msg_recv reads the item that a *)
(* round of zre_msg_send put.                                              *)
(***************************************************************************)
Long == Base * Base * (Base * Base)

\* A number has one quotient and one rest.
LEMMA Quotient ==
  ASSUME NEW b \in Nat, b > 0, NEW q \in Nat, NEW r \in 0 .. b - 1
  PROVE  (b * q + r) \div b = q /\ (b * q + r) % b = r
<1> DEFINE n == b * q + r
           p == n \div b
           s == n % b
<1>1. \A x, y \in Nat : x * y \in Nat
  BY Z3
<1>2. n \in Nat
  BY <1>1
<1>3. n = b * q + r
  OBVIOUS
<1> HIDE DEF n
<1>4. n \div b \in Nat /\ n % b \in 0 .. b - 1 /\ n = b * (n \div b) + (n % b)
  BY <1>2, Z3
<1>5. p \in Nat /\ s \in 0 .. b - 1 /\ n = b * p + s
  BY <1>2, <1>4
<1> HIDE DEF p, s
<1>6. \A x, y \in Nat : x < y => b * x + b <= b * y
  <2>1. \A x, y \in Nat : x < y => b * (x + 1) <= b * y
    BY Z3
  <2>2. \A x \in Nat : b * (x + 1) = b * x + b
    BY Z3
  <2> QED BY <2>1, <2>2
<1>7. b * p \in Nat /\ b * q \in Nat
  BY <1>1, <1>5
<1>8. p = q
  <2>1. ~(p < q)
    BY <1>3, <1>5, <1>6, <1>7
  <2>2. ~(q < p)
    BY <1>3, <1>5, <1>6, <1>7
  <2> QED BY <1>5, <2>1, <2>2
<1>9. s = r
  BY <1>3, <1>5, <1>7, <1>8
<1> QED BY <1>8, <1>9 DEF n, p, s

\* Where a sequence ends the next one begins.
LEMMA ConcatAt ==
  ASSUME NEW u \in Frame, NEW w \in Frame, NEW i \in 1 .. Len(w)
  PROVE  (u \o w)[Len(u) + i] = w[i]
<1>1. u \in Seq(Octet) /\ w \in Seq(Octet) /\ Len(u) \in Nat /\ Len(w) \in Nat
  BY DEF Frame
<1>2. Len(u) + i \in 1 .. Len(u) + Len(w) /\ Len(u) + i > Len(u)
      /\ (Len(u) + i) - Len(u) = i
  BY <1>1
<1> QED BY <1>1, <1>2

LEMMA ConcatFront ==
  ASSUME NEW u \in Frame, NEW w \in Frame, NEW i \in 1 .. Len(u)
  PROVE  (u \o w)[i] = u[i]
<1>1. u \in Seq(Octet) /\ w \in Seq(Octet) /\ Len(u) \in Nat /\ Len(w) \in Nat
  BY DEF Frame
<1>2. i \in 1 .. Len(u) + Len(w) /\ ~(i > Len(u)) /\ i <= Len(u)
  BY <1>1
<1> QED BY <1>1, <1>2

\* Four octets in front.
LEMMA Number4Kept ==
  ASSUME NEW n \in 0 .. Long - 1, NEW t \in Frame
  PROVE  /\ PutNumber4(n) \in Frame /\ Len(PutNumber4(n)) = 4
         /\ PutNumber4(n) \o t \in Frame /\ Len(PutNumber4(n) \o t) = 4 + Len(t)
         /\ Number4(PutNumber4(n) \o t) = n
         /\ Drop(PutNumber4(n) \o t, 4) = t
<1> DEFINE b == Base
           c == Base * Base
           q == n \div c
           r == n % c
           high == r \div b
           low == r % b
<1>1. b \in Nat /\ b >= 16 /\ c \in Nat /\ c >= 16 /\ c = b * b
  <2>1. \A x \in Nat : x >= 16 => x * x \in Nat /\ x * x >= 16
    BY Z3
  <2> QED BY <2>1, BaseType
<1>2. \A x, y \in Nat : x * y \in Nat
  BY Z3
<1>3. n \in Nat /\ n < c * c
  <2>1. Long = c * c
    BY DEF Long
  <2> QED BY <1>1, <1>2, <2>1
<1>4. PutNumber4(n) = PutNumber2(q) \o PutNumber2(n)
  BY DEF PutNumber4
<1>5. \A x \in Nat : PutNumber2(x) = <<(x \div b) % b, x % b>>
  BY DEF PutNumber2
<1>6. \A x \in Nat : \A s : Number4(s) = (Number2(s) * b + s[3]) * b + s[4]
  BY DEF Number4
<1>7. \A x \in 0 .. c - 1 : PutNumber2(x) \in Frame /\ Len(PutNumber2(x)) = 2
  BY Number2Kept
<1>8. \A x \in 0 .. c - 1 : \A u \in Frame : Number2(PutNumber2(x) \o u) = x
  BY Number2Kept
<1> HIDE DEF c, b
<1>9. q \in Nat /\ r \in 0 .. c - 1 /\ n = c * q + r
  <2>1. n \in Nat /\ c \in Nat /\ c >= 16
    BY <1>1, <1>3
  <2> QED BY <2>1, Z3
<1> HIDE DEF q, r
<1>10. high \in Nat /\ low \in 0 .. b - 1 /\ r = b * high + low
  BY <1>1, <1>9, Z3
<1> HIDE DEF high, low
<1>11. q < c /\ high < b
  <2>1. \A x, y \in Nat : x >= y => y * x >= y * y
    BY Z3
  <2>2. q >= c => c * q >= c * c
    BY <1>1, <1>9, <2>1
  <2>3. high >= b => b * high >= b * b
    BY <1>1, <1>10, <2>1
  <2>4. c * q \in Nat /\ b * high \in Nat /\ c * c \in Nat
    BY <1>1, <1>2, <1>9, <1>10
  <2> QED BY <1>1, <1>3, <1>9, <1>10, <2>2, <2>3, <2>4
<1>12. r \div b = high /\ r % b = low
  BY <1>1, <1>10, Quotient
<1>13. high % b = high
  BY <1>1, <1>10, <1>11, Z3
<1> DEFINE p == b * q + high
<1>14. p \in Nat /\ p % b = high
  <2>1. high \in 0 .. b - 1
    BY <1>1, <1>10, <1>11
  <2>2. p \in Nat
    BY <1>1, <1>2, <1>9, <1>10
  <2> QED BY <1>1, <1>9, <2>1, <2>2, Quotient
<1>15. n = b * p + low
  <2>1. \A x, y, z, w \in Nat : (x * x) * y + (x * z + w) = x * (x * y + z) + w
    BY Z3
  <2>2. low \in Nat
    BY <1>1, <1>10
  <2>3. (b * b) * q + (b * high + low) = b * (b * q + high) + low
    BY <1>1, <1>9, <1>10, <2>1, <2>2
  <2> QED BY <1>1, <1>9, <1>10, <2>3
<1> HIDE DEF p
<1>16. n \div b = p /\ n % b = low
  BY <1>1, <1>10, <1>14, <1>15, Quotient
<1>17. PutNumber2(n) = <<high, low>> /\ PutNumber2(r) = <<high, low>>
  <2>1. r \in Nat
    BY <1>9
  <2> QED BY <1>3, <1>5, <1>12, <1>13, <1>14, <1>16, <2>1
<1> DEFINE u == PutNumber2(q)
           v == PutNumber2(n)
<1>18. q \in 0 .. c - 1
  BY <1>1, <1>9, <1>11
<1>19. u \in Frame /\ Len(u) = 2 /\ v \in Frame /\ Len(v) = 2 /\ v[1] = high /\ v[2] = low
  <2>1. PutNumber2(r) \in Frame /\ Len(PutNumber2(r)) = 2
    BY <1>7, <1>9
  <2> QED BY <1>7, <1>17, <1>18, <2>1
<1>20. \A w \in Frame : Number2(u \o w) = q
  BY <1>8, <1>18
<1> HIDE DEF u, v
<1>21. v \o t \in Frame /\ Len(v \o t) = 2 + Len(t) /\ Len(t) \in Nat
  <2>1. v \o t \in Frame /\ Len(v \o t) = Len(v) + Len(t)
    BY <1>19, FrameConcat
  <2> QED BY <1>19, <2>1, FrameConcat
<1>22. (u \o v) \o t = u \o (v \o t)
  BY <1>19, FrameConcat
<1>23. u \o v \in Frame /\ Len(u \o v) = 4
  <2>1. u \o v \in Frame /\ Len(u \o v) = Len(u) + Len(v)
    BY <1>19, FrameConcat
  <2> QED BY <1>19, <2>1
<1>24. (u \o v) \o t \in Frame /\ Len((u \o v) \o t) = 4 + Len(t)
  <2>1. (u \o v) \o t \in Frame /\ Len((u \o v) \o t) = Len(u \o v) + Len(t)
    BY <1>23, FrameConcat
  <2> QED BY <1>23, <2>1
<1>25. Drop((u \o v) \o t, 4) = t
  <2>1. Drop((u \o v) \o t, Len(u \o v)) = t
    BY <1>23, DropPrefix DEF Frame
  <2> QED BY <1>23, <2>1
<1>26. Number4((u \o v) \o t) = n
  <2> DEFINE s == (u \o v) \o t
  <2>1. s[3] = high /\ s[4] = low
    <3>1. s = u \o (v \o t)
      BY <1>22
    <3>2. (v \o t)[1] = v[1] /\ (v \o t)[2] = v[2]
      <4>1. v \in Frame /\ 1 \in 1 .. Len(v) /\ 2 \in 1 .. Len(v)
        BY <1>19
      <4> QED BY <4>1, ConcatFront
    <3>3. (u \o (v \o t))[3] = (v \o t)[1] /\ (u \o (v \o t))[4] = (v \o t)[2]
      <4> DEFINE w == v \o t
      <4>1. w \in Frame /\ u \in Frame /\ Len(u) = 2 /\ Len(w) >= 2 /\ Len(w) \in Nat
        BY <1>19, <1>21 DEF Frame
      <4> HIDE DEF w
      <4>2. 1 \in 1 .. Len(w) /\ 2 \in 1 .. Len(w)
        BY <4>1
      <4>3. (u \o w)[Len(u) + 1] = w[1] /\ (u \o w)[Len(u) + 2] = w[2]
        BY <4>1, <4>2, ConcatAt
      <4>4. Len(u) + 1 = 3 /\ Len(u) + 2 = 4
        BY <4>1
      <4> QED BY <4>3, <4>4 DEF w
    <3> QED BY <1>19, <3>1, <3>2, <3>3
  <2>2. Number2(s) = q
    BY <1>20, <1>21, <1>22
  <2> HIDE DEF s
  <2>3. Number4(s) = (q * b + high) * b + low
    BY <1>6, <2>1, <2>2
  <2>4. (q * b + high) * b + low = b * p + low
    <3>1. \A x, y, z, w \in Nat : (y * x + z) * x + w = x * (x * y + z) + w
      BY Z3
    <3>2. low \in Nat
      BY <1>1, <1>10
    <3> QED BY <1>1, <1>9, <1>10, <3>1, <3>2 DEF p
  <2> QED BY <1>15, <2>3, <2>4 DEF s
<1> QED BY <1>4, <1>23, <1>24, <1>25, <1>26 DEF u, v

\* A sequence between two others.
LEMMA Between ==
  ASSUME NEW p \in Frame, NEW s \in Frame, NEW t \in Frame
  PROVE  LET r == p \o (s \o t)
         IN  /\ r \in Frame /\ Len(r) = Len(p) + (Len(s) + Len(t))
             /\ SubSeq(r, Len(p) + 1, Len(p) + Len(s)) = s
             /\ Drop(r, Len(p) + Len(s)) = t
<1> DEFINE w == s \o t
           r == p \o w
           v == SubSeq(r, Len(p) + 1, Len(p) + Len(s))
<1>1. /\ Len(p) \in Nat /\ Len(s) \in Nat /\ Len(t) \in Nat
      /\ w \in Frame /\ Len(w) = Len(s) + Len(t)
  BY FrameConcat
<1>2. \A i \in 1 .. Len(s) : w[i] = s[i]
  BY DEF Frame
<1>3. Drop(r, Len(p) + Len(s)) = t
  <2>1. r = (p \o s) \o t
    BY FrameConcat
  <2>2. p \o s \in Frame /\ Len(p \o s) = Len(p) + Len(s)
    BY FrameConcat
  <2>3. Drop((p \o s) \o t, Len(p \o s)) = t
    BY <2>2, DropPrefix DEF Frame
  <2> QED BY <2>1, <2>2, <2>3
<1> HIDE DEF w
<1>4. r \in Frame /\ Len(r) = Len(p) + Len(w)
  BY <1>1, FrameConcat
<1>5. \A i \in 1 .. Len(w) : r[Len(p) + i] = w[i]
  BY <1>1, ConcatAt
<1> HIDE DEF r
<1>6. v \in Seq(Octet) /\ Len(v) = Len(s)
  BY <1>1, <1>4 DEF Frame
<1>7. ASSUME NEW i \in 1 .. Len(s) PROVE v[i] = s[i]
  <2>1. v[i] = r[(Len(p) + 1) + (i - 1)]
    BY <1>1, <1>4, <1>6 DEF Frame
  <2>2. (Len(p) + 1) + (i - 1) = Len(p) + i /\ i \in 1 .. Len(w)
    BY <1>1
  <2> QED BY <1>2, <1>5, <2>1, <2>2
<1>8. v = s
  BY <1>6, <1>7, SeqEqual DEF Frame
<1>9. Len(r) = Len(p) + (Len(s) + Len(t))
  BY <1>1, <1>4
<1> QED BY <1>3, <1>4, <1>8, <1>9 DEF r, w

\* A text of any length, and one that a length of one octet is put before.
LEMMA TextKept ==
  ASSUME NEW s \in CString
  PROVE  s \in Frame /\ Len(s) \in Nat /\ Terminated(s) = s
<1>1. s \in Seq(1 .. Base - 1)
  BY DEF CString
<1>2. \A i \in 1 .. Len(s) : s[i] # 0
  BY <1>1, BaseType, ElementOfSeq
<1>3. s \in Frame
  BY OctetsAreFrames
<1>4. Len(s) \in Nat
  BY <1>3, FrameConcat
<1> QED BY <1>2, <1>3, <1>4 DEF Terminated

LEMMA LongstrRead ==
  ASSUME NEW s \in CString, Len(s) < Long, NEW t \in Frame
  PROVE  LET r == PutLongstr(s) \o t
         IN  /\ r \in Frame /\ Len(r) = 4 + (Len(s) + Len(t))
             /\ Number4(r) = Len(s)
             /\ SubSeq(r, 5, 4 + Len(s)) = s
             /\ Drop(r, 4 + Len(s)) = t
<1> DEFINE p == PutNumber4(Len(s))
<1>1. s \in Frame /\ Len(s) \in Nat
  BY TextKept
<1>2. Len(s) \in 0 .. Long - 1
  <2>1. \A b \in Nat : b * b * (b * b) \in Nat
    BY Z3
  <2>2. Long \in Nat
    BY <2>1, BaseType DEF Long
  <2> QED BY <1>1, <2>2
<1>3. s \o t \in Frame
  BY <1>1, FrameConcat
<1>4. p \in Frame /\ Len(p) = 4 /\ Number4(p \o (s \o t)) = Len(s)
  BY <1>2, <1>3, Number4Kept
<1>5. PutLongstr(s) = p \o s
  BY DEF PutLongstr
<1> HIDE DEF p
<1>6. (p \o s) \o t = p \o (s \o t)
  BY <1>1, <1>4, FrameConcat
<1> DEFINE r == p \o (s \o t)
<1>7. /\ r \in Frame /\ Len(r) = Len(p) + (Len(s) + Len(t))
      /\ SubSeq(r, Len(p) + 1, Len(p) + Len(s)) = s
      /\ Drop(r, Len(p) + Len(s)) = t
  BY <1>1, <1>4, Between
<1>8. Len(p) + 1 = 5
  BY <1>4
<1>9. PutLongstr(s) \o t = r /\ Number4(r) = Len(s)
  BY <1>4, <1>5, <1>6
<1> HIDE DEF r
<1> QED BY <1>4, <1>7, <1>8, <1>9

\* A text with its length before it is read as it was put: a group, the value
\* and the name of a header, the endpoint and the name of a HELLO.
LEMMA GroupItem ==
  ASSUME NEW y, NEW s \in CString, Len(s) < Long, NEW t \in Frame
  PROVE  GetLongstr(At(y, PutLongstr(s) \o t), AppendGroup) = At(AppendGroup(y, s), t)
<1> DEFINE r == PutLongstr(s) \o t
<1>1. /\ r \in Frame /\ Len(r) = 4 + (Len(s) + Len(t)) /\ Number4(r) = Len(s)
      /\ SubSeq(r, 5, 4 + Len(s)) = s /\ Drop(r, 4 + Len(s)) = t
  BY LongstrRead
<1>2. Len(s) \in Nat /\ Len(t) \in Nat /\ Terminated(s) = s
  BY TextKept, FrameConcat
<1> HIDE DEF r
<1>3. Fits(At(y, r), 4) /\ Fits(At(y, r), 4 + Number4(r))
  BY <1>1, <1>2, AtCursor
<1>4. /\ At(y, r).m = y /\ At(y, r).rest = r
      /\ \A x : Read(At(y, r), x, 4 + Len(s)) = At(x, t)
  BY <1>1, AtCursor
<1>5. GetLongstr(At(y, r), AppendGroup) = At(AppendGroup(y, s), t)
  BY <1>1, <1>2, <1>3, <1>4 DEF GetLongstr
<1> QED BY <1>5 DEF r

LEMMA HeaderItem ==
  ASSUME NEW y, NEW h \in Header, Len(h[1]) < Base, Len(h[2]) < Long, NEW t \in Frame
  PROVE  GetHeader(At(y, PutHeader(h) \o t)) = At(InsertHeader(y, h[1], h[2]), t)
<1> DEFINE a == h[1]
           b == h[2]
           u == PutLongstr(b) \o t
           r == PutString(a) \o u
           c == At(y, r)
<1>1. a \in CString /\ b \in CString /\ a \in Buffer /\ Len(b) < Long
  BY HeaderPut DEF Buffer
<1>2. /\ Len(a) \in Nat /\ Len(b) \in Nat /\ Len(t) \in Nat
      /\ Terminated(a) = a /\ Terminated(b) = b
      /\ a \in Frame /\ b \in Frame
  BY <1>1, TextKept, FrameConcat
<1>3. PutHeader(h) \o t = r
  <2>1. PutString(a) \in Frame /\ PutLongstr(b) \in Frame
    BY <1>2, TextsPut
  <2> QED BY <2>1, FrameConcat DEF PutHeader
<1> HIDE DEF a, b
<1>4. /\ u \in Frame /\ Len(u) = 4 + (Len(b) + Len(t)) /\ Number4(u) = Len(b)
      /\ SubSeq(u, 5, 4 + Len(b)) = b /\ Drop(u, 4 + Len(b)) = t
  BY <1>1, LongstrRead
<1> HIDE DEF u
<1>5. /\ r \in Frame /\ Len(r) = 1 + Len(a) + Len(u) /\ r[1] = Len(a)
      /\ SubSeq(r, 2, 1 + Len(a)) = a /\ Drop(r, 1 + Len(a)) = u
  BY <1>1, <1>4, StringRead
<1>6. Len(u) \in Nat
  BY <1>4, FrameConcat
<1> HIDE DEF r
<1>7. Fits(c, 1) /\ Fits(c, 1 + r[1]) /\ c.m = y /\ c.rest = r
      /\ Read(c, y, 1 + Len(a)) = At(y, u)
  BY <1>2, <1>5, <1>6, AtCursor
<1> HIDE DEF c
<1> DEFINE key == Terminated(SubSeq(c.rest, 2, 1 + c.rest[1]))
           d == Read(c, c.m, 1 + c.rest[1])
<1>8. Fits(c, 1) /\ Fits(c, 1 + c.rest[1])
  BY <1>7
<1>9. GetHeader(c) = GetLongstr(d, LAMBDA m, value : InsertHeader(m, key, value))
  BY <1>8 DEF GetHeader
<1>10. key = a /\ d = At(y, u)
  BY <1>2, <1>5, <1>7
<1> HIDE DEF key, d
<1>11. Fits(d, 4) /\ Fits(d, 4 + Number4(d.rest))
  BY <1>2, <1>4, <1>10, AtCursor
<1>12. /\ d.m = y /\ d.rest = u /\ \A x : Read(d, x, 4 + Len(b)) = At(x, t)
  BY <1>4, <1>10, AtCursor
<1> DEFINE text == Terminated(SubSeq(d.rest, 5, 4 + Number4(d.rest)))
<1>13. GetHeader(c) = Read(d, InsertHeader(d.m, key, text), 4 + Number4(d.rest))
  BY <1>9, <1>11 DEF GetLongstr
<1>14. text = b /\ Number4(d.rest) = Len(b)
  BY <1>2, <1>4, <1>12
<1> HIDE DEF text
<1>15. GetHeader(c) = At(InsertHeader(y, a, b), t)
  BY <1>10, <1>12, <1>13, <1>14
<1> QED BY <1>3, <1>15 DEF a, b, c

LEMMA HelloText ==
  ASSUME NEW m, NEW s \in Buffer, NEW t \in Frame
  PROVE  /\ GetString(At(m, PutString(s) \o t), SetEndpoint) = At(SetEndpoint(m, s), t)
         /\ GetString(At(m, PutString(s) \o t), SetName) = At(SetName(m, s), t)
<1> DEFINE r == PutString(s) \o t
<1>1. /\ r \in Frame
      /\ Len(r) = 1 + Len(s) + Len(t)
      /\ r[1] = Len(s)
      /\ SubSeq(r, 2, 1 + Len(s)) = s
      /\ Drop(r, 1 + Len(s)) = t
  BY StringRead
<1>2. Len(s) \in Nat /\ Len(t) \in Nat BY DEF Buffer, CString, Frame
<1>3. Terminated(s) = s BY StringKept
<1> HIDE DEF r
<1>4. Fits(At(m, r), 1) /\ Fits(At(m, r), 1 + r[1])
  BY <1>1, <1>2, AtCursor
<1>5. /\ At(m, r).m = m /\ At(m, r).rest = r
      /\ \A x : Read(At(m, r), x, 1 + Len(s)) = At(x, t)
  BY <1>1, AtCursor
<1>6. /\ GetString(At(m, r), SetEndpoint) = At(SetEndpoint(m, s), t)
      /\ GetString(At(m, r), SetName) = At(SetName(m, s), t)
  BY <1>1, <1>3, <1>4, <1>5 DEF GetString
<1> QED BY <1>6 DEF r

\* The octets that are left behind each of the items put.
Tails(tail, f, n, t) ==
  /\ \A k \in 0 .. n : tail[k] \in Frame
  /\ \A k \in 1 .. n : tail[k - 1] = f[k] \o tail[k]
  /\ tail[n] = t

LEMMA TailsExist ==
  ASSUME NEW n \in Nat, NEW put, NEW f, Concat(put, f, n), NEW t \in Frame
  PROVE  \E tail : Tails(tail, f, n, t) /\ tail[0] = put[n] \o t
<1> DEFINE w == put[n] \o t
           tail == [k \in 0 .. n |-> Drop(w, Len(put[k]))]
           S == {j \in Nat : \E u \in Frame : w = put[n - j] \o u}
<1>1. /\ put[0] = <<>> /\ \A k \in 0 .. n : put[k] \in Frame
      /\ \A k \in 1 .. n : f[k] \in Frame /\ put[k] = put[k - 1] \o f[k]
  BY DEF Concat
<1>2. n \in 0 .. n /\ 0 \in 0 .. n /\ n - 0 = n /\ w \in Frame
  <2>1. put[n] \in Frame
    BY <1>1
  <2> QED BY <2>1, FrameConcat
<1>3. 0 \in S
  <2>1. w = put[n - 0] \o t
    BY <1>2
  <2> QED BY <2>1
<1> HIDE DEF w
<1>4. ASSUME NEW j \in 0 .. n - 1, j \in S PROVE j + 1 \in S
  <2>1. PICK u \in Frame : w = put[n - j] \o u
    BY <1>4
  <2>2. n - j \in 1 .. n /\ n - (j + 1) = (n - j) - 1 /\ (n - j) - 1 \in 0 .. n
        /\ j + 1 \in Nat
    OBVIOUS
  <2> DEFINE i == n - j
             v == f[i] \o u
  <2>3. put[i - 1] \in Frame /\ f[i] \in Frame /\ put[i] = put[i - 1] \o f[i]
    BY <1>1, <2>2
  <2>4. v \in Frame /\ w = put[i - 1] \o v
    <3> DEFINE a == put[i - 1]
               b == f[i]
    <3>1. a \in Frame /\ b \in Frame /\ w = (a \o b) \o u
      BY <2>1, <2>3
    <3> HIDE DEF a, b
    <3>2. b \o u \in Frame /\ w = a \o (b \o u)
      BY <3>1, FrameConcat
    <3> QED BY <3>2 DEF a, b
  <2>5. w = put[n - (j + 1)] \o v
    BY <2>2, <2>4
  <2> HIDE DEF v
  <2> QED BY <2>2, <2>4, <2>5
<1> HIDE DEF S
<1>5. \A j \in 0 .. n : j \in S
  BY <1>3, <1>4, Climb
<1>6. ASSUME NEW k \in 0 .. n PROVE tail[k] \in Frame /\ w = put[k] \o tail[k]
  <2>1. n - k \in 0 .. n /\ n - (n - k) = k
    OBVIOUS
  <2>2. PICK u \in Frame : w = put[n - (n - k)] \o u
    BY <1>5, <2>1 DEF S
  <2>3. w = put[k] \o u /\ put[k] \in Frame
    BY <1>1, <2>1, <2>2
  <2>4. Drop(put[k] \o u, Len(put[k])) = u
    BY <2>3, DropPrefix DEF Frame
  <2> QED BY <2>3, <2>4
<1> HIDE DEF tail
<1>7. ASSUME NEW u \in Frame, NEW v \in Frame, NEW p \in Frame, p \o u = p \o v
      PROVE  u = v
  <2>1. Drop(p \o u, Len(p)) = u /\ Drop(p \o v, Len(p)) = v
    BY DropPrefix DEF Frame
  <2> QED BY <1>7, <2>1
<1>8. \A k \in 1 .. n : tail[k - 1] = f[k] \o tail[k]
  <2> SUFFICES ASSUME NEW k \in 1 .. n PROVE tail[k - 1] = f[k] \o tail[k]
    OBVIOUS
  <2>1. k \in 0 .. n /\ k - 1 \in 0 .. n
    OBVIOUS
  <2>2. /\ tail[k] \in Frame /\ w = put[k] \o tail[k]
        /\ tail[k - 1] \in Frame /\ w = put[k - 1] \o tail[k - 1]
        /\ f[k] \in Frame /\ put[k] = put[k - 1] \o f[k] /\ put[k - 1] \in Frame
    BY <1>1, <1>6, <2>1
  <2>3. f[k] \o tail[k] \in Frame /\ put[k - 1] \o (f[k] \o tail[k]) = w
    <3> DEFINE a == put[k - 1]
               b == f[k]
               u == tail[k]
    <3>1. a \in Frame /\ b \in Frame /\ u \in Frame /\ w = (a \o b) \o u
      BY <2>2
    <3> HIDE DEF a, b, u
    <3>2. b \o u \in Frame /\ a \o (b \o u) = w
      BY <3>1, FrameConcat
    <3> QED BY <3>2 DEF a, b, u
  <2> QED BY <1>7, <2>2, <2>3
<1>9. tail[n] = t
  <2>1. w = put[n] \o tail[n] /\ tail[n] \in Frame /\ put[n] \in Frame
    BY <1>1, <1>2, <1>6
  <2> QED BY <1>7, <2>1 DEF w
<1>10. tail[0] = w
  <2>1. w = put[0] \o tail[0] /\ tail[0] \in Frame
    BY <1>2, <1>6
  <2>2. <<>> \o tail[0] = tail[0]
    BY <2>1, ConcatEmptySeq DEF Frame
  <2> QED BY <1>1, <2>1, <2>2
<1>11. Tails(tail, f, n, t)
  BY <1>6, <1>8, <1>9 DEF Tails
<1> QED BY <1>10, <1>11 DEF w

\* There are as many octets as rounds, at least.
LEMMA TailsAreLong ==
  ASSUME NEW n \in Nat, NEW tail, NEW f, NEW t, Tails(tail, f, n, t),
         \A k \in 1 .. n : f[k] \in Frame /\ Len(f[k]) >= 1
  PROVE  n <= Len(tail[0])
<1> DEFINE S == {j \in Nat : Len(tail[n - j]) >= j}
<1>1. /\ \A k \in 0 .. n : tail[k] \in Frame
      /\ \A k \in 1 .. n : tail[k - 1] = f[k] \o tail[k]
  BY DEF Tails
<1>2. 0 \in S
  <2>1. n - 0 \in 0 .. n
    OBVIOUS
  <2>2. Len(tail[n - 0]) \in Nat
    BY <1>1, <2>1, FrameConcat
  <2> QED BY <2>2
<1>3. ASSUME NEW j \in 0 .. n - 1, j \in S PROVE j + 1 \in S
  <2> DEFINE k == n - j
             u == f[k]
             v == tail[k]
  <2>1. k \in 1 .. n /\ k \in 0 .. n /\ n - (j + 1) = k - 1 /\ j + 1 \in Nat
    OBVIOUS
  <2>2. tail[k - 1] = u \o v /\ u \in Frame /\ v \in Frame /\ Len(u) >= 1 /\ Len(v) >= j
    BY <1>1, <1>3, <2>1
  <2> HIDE DEF u, v
  <2>3. Len(u \o v) = Len(u) + Len(v) /\ Len(u) \in Nat /\ Len(v) \in Nat
    BY <2>2, FrameConcat
  <2>4. Len(tail[n - (j + 1)]) >= j + 1
    BY <2>1, <2>2, <2>3
  <2> QED BY <2>1, <2>4
<1> HIDE DEF S
<1>4. n \in S
  <2>1. \A j \in 0 .. n : j \in S
    BY <1>2, <1>3, Climb
  <2> QED BY <2>1
<1>5. n - n = 0 /\ Len(tail[0]) \in Nat
  <2>1. 0 \in 0 .. n
    OBVIOUS
  <2> QED BY <1>1, <2>1, FrameConcat
<1> QED BY <1>4, <1>5 DEF S

\* A sequence is its prefixes, one item after the other.
LEMMA Prefixes ==
  ASSUME NEW S, NEW s \in Seq(S)
  PROVE  /\ SubSeq(s, 1, 0) = <<>> /\ SubSeq(s, 1, Len(s)) = s
         /\ \A k \in 0 .. Len(s) - 1 :
                SubSeq(s, 1, k + 1) = Append(SubSeq(s, 1, k), s[k + 1])
         /\ \A k \in 0 .. Len(s) : /\ SubSeq(s, 1, k) \in Seq(S)
                                   /\ Len(SubSeq(s, 1, k)) = k
                                   /\ \A i \in 1 .. k : SubSeq(s, 1, k)[i] = s[i]
<1>1. SubSeq(s, 1, 0) = <<>> /\ SubSeq(s, 1, Len(s)) = s
  BY SubSeqEmpty, SubSeqFull
<1>2. ASSUME NEW k \in 0 .. Len(s)
      PROVE  /\ SubSeq(s, 1, k) \in Seq(S) /\ Len(SubSeq(s, 1, k)) = k
             /\ \A i \in 1 .. k : SubSeq(s, 1, k)[i] = s[i]
  OBVIOUS
<1>3. ASSUME NEW k \in 0 .. Len(s) - 1
      PROVE  SubSeq(s, 1, k + 1) = Append(SubSeq(s, 1, k), s[k + 1])
  <2> DEFINE u == SubSeq(s, 1, k + 1)
             v == SubSeq(s, 1, k)
             x == s[k + 1]
  <2>1. /\ k + 1 \in 0 .. Len(s) /\ k \in 0 .. Len(s) /\ k + 1 \in 1 .. Len(s) /\ x \in S
        /\ k \in Nat
    OBVIOUS
  <2>2. /\ u \in Seq(S) /\ Len(u) = k + 1 /\ \A i \in 1 .. k + 1 : u[i] = s[i]
        /\ v \in Seq(S) /\ Len(v) = k /\ \A i \in 1 .. k : v[i] = s[i]
    BY <1>2, <2>1
  <2> HIDE DEF u, v
  <2>3. /\ Append(v, x) \in Seq(S) /\ Len(Append(v, x)) = k + 1
        /\ \A i \in 1 .. k : Append(v, x)[i] = v[i]
        /\ Append(v, x)[k + 1] = x
    BY <2>1, <2>2, AppendProperties
  <2>4. \A i \in 1 .. k + 1 : i \in 1 .. k \/ i = k + 1
    BY <2>1
  <2>5. \A i \in 1 .. k + 1 : Append(v, x)[i] = u[i]
    BY <2>1, <2>2, <2>3, <2>4
  <2> HIDE DEF x
  <2>6. Append(v, x) = u
    BY <2>2, <2>3, <2>5, SeqEqual
  <2> QED BY <2>6 DEF u, v, x
<1> QED BY <1>1, <1>2, <1>3

\* zre_msg_recv reads the list of groups that zre_msg_send put.
LEMMA GroupsKept ==
  ASSUME NEW x \in Object, NEW items \in Seq(CString), Len(items) < Long,
         \A i \in 1 .. Len(items) : Len(items[i]) < Long, NEW t \in Frame
  PROVE  GetGroups(At(x, PutAll(PutLongstr, items) \o t)) = At(SetGroups(x, items), t)
<1> DEFINE n == Len(items)
           f == Longstrs(items)
           p == PutAll(PutLongstr, items)
           upTo(k) == SubSeq(items, 1, k)
<1>1. n \in Nat /\ n \in 0 .. Long - 1
  <2>1. \A b \in Nat : b * b * (b * b) \in Nat
    BY Z3
  <2>2. Long \in Nat
    BY <2>1, BaseType DEF Long
  <2> QED BY <2>2
<1>2. \A k \in 1 .. n : /\ f[k] = PutLongstr(items[k]) /\ f[k] \in Frame
                        /\ items[k] \in CString /\ Len(f[k]) >= 1 /\ Len(items[k]) < Long
  <2> SUFFICES ASSUME NEW k \in 1 .. n
               PROVE  /\ f[k] = PutLongstr(items[k]) /\ f[k] \in Frame
                      /\ items[k] \in CString /\ Len(f[k]) >= 1 /\ Len(items[k]) < Long
    OBVIOUS
  <2>1. items[k] \in CString /\ f[k] = PutLongstr(items[k])
    BY DEF Longstrs
  <2>2. items[k] \in Frame /\ Len(items[k]) \in Nat
    BY <2>1, TextKept
  <2>3. PutLongstr(items[k]) \in Frame /\ Len(PutLongstr(items[k])) = 4 + Len(items[k])
    BY <2>2, TextsPut
  <2>4. Len(PutLongstr(items[k])) >= 1
    BY <2>2, <2>3
  <2> QED BY <2>1, <2>3, <2>4
<1>3. PICK put : Concat(put, f, n) /\ p = PutNumber4(n) \o put[n]
  BY ListPut
<1>4. /\ upTo(0) = <<>> /\ upTo(n) = items
      /\ \A k \in 0 .. n - 1 : upTo(k + 1) = Append(upTo(k), items[k + 1])
  BY Prefixes
<1> HIDE DEF n, f, p, upTo
<1>5. PICK tail : Tails(tail, f, n, t) /\ tail[0] = put[n] \o t
  BY <1>1, <1>3, TailsExist
<1>6. n <= Len(tail[0])
  BY <1>1, <1>2, <1>5, TailsAreLong
<1>7. /\ \A k \in 0 .. n : tail[k] \in Frame /\ Len(tail[k]) \in Nat
      /\ \A k \in 1 .. n : tail[k - 1] = f[k] \o tail[k]
      /\ tail[n] = t
  BY <1>5, FrameConcat DEF Tails
<1> DEFINE r == p \o t
           c == At(x, r)
<1>8. r = PutNumber4(n) \o tail[0] /\ tail[0] \in Frame
  <2>1. PutNumber4(n) \in Frame
    BY <1>1, NumbersPut
  <2>2. put[n] \in Frame
    BY <1>1, <1>3 DEF Concat
  <2>3. 0 \in 0 .. n
    BY <1>1
  <2> DEFINE a == PutNumber4(n)
             b == put[n]
  <2>4. r = (a \o b) \o t /\ a \in Frame /\ b \in Frame /\ tail[0] = b \o t
    BY <1>3, <1>5, <2>1, <2>2
  <2> HIDE DEF a, b, r
  <2>5. r = a \o (b \o t)
    BY <2>4, FrameConcat
  <2> QED BY <1>7, <2>3, <2>4, <2>5 DEF a
<1> HIDE DEF r
<1>9. r \in Frame /\ Len(r) = 4 + Len(tail[0]) /\ Number4(r) = n /\ Drop(r, 4) = tail[0]
  BY <1>1, <1>8, Number4Kept
<1>10. /\ Fits(c, 4) /\ c.m = x /\ c.rest = r
       /\ \A y : Read(c, y, 4) = At(y, tail[0])
  <2>1. 0 \in 0 .. n
    BY <1>1
  <2>2. 4 <= Len(r)
    BY <1>7, <1>9, <2>1
  <2> QED BY <1>9, <2>2, AtCursor
<1> HIDE DEF c
<1> DEFINE count == Number4(c.rest)
           d == Read(c, SetGroups(c.m, <<>>), 4)
<1>11. GetGroups(c) = Repeat(LAMBDA z : GetLongstr(z, AppendGroup), d, count)
  BY <1>10 DEF GetGroups
<1>12. count = n /\ d = At(SetGroups(x, <<>>), tail[0])
  BY <1>9, <1>10
<1> HIDE DEF count, d
<1>13. d \in Cursors(Listing) /\ Rounds(d, count) = n
  <2> DEFINE y == SetGroups(x, <<>>)
  <2>1. y \in Object
    BY SettersType, EmptyLists
  <2>2. y.groups = <<>>
    BY DEF SetGroups, Object, Msg
  <2>3. y \in Listing
    BY <2>1, <2>2, EmptyLists DEF Listing
  <2> HIDE DEF y
  <2>4. At(y, tail[0]) \in Cursors(Listing)
    BY <1>8, <2>3 DEF At, Cursors
  <2>5. d.rest = tail[0]
    BY <1>12, AtCursor
  <2> QED BY <1>6, <1>12, <2>4, <2>5 DEF Rounds, y
<1>14. PICK after : /\ after[0] = d
                    /\ \A k \in 1 .. n : after[k] = GetLongstr(after[k - 1], AppendGroup)
                    /\ Repeat(LAMBDA z : GetLongstr(z, AppendGroup), d, count) = after[n]
  <2>1. count \in Nat
    BY <1>1, <1>12
  <2>2. PICK after : /\ after[0] = d
                     /\ \A k \in 0 .. Rounds(d, count) : after[k] \in Cursors(Listing)
                     /\ \A k \in 1 .. Rounds(d, count) :
                            after[k] = GetLongstr(after[k - 1], AppendGroup)
                     /\ Repeat(LAMBDA z : GetLongstr(z, AppendGroup), d, count)
                            = after[Rounds(d, count)]
    BY <1>13, <2>1, GroupRounds
  <2> QED BY <1>13, <2>2
<1> DEFINE S == {k \in Nat : after[k] = At(SetGroups(x, upTo(k)), tail[k])}
<1>15. 0 \in S
  BY <1>4, <1>12, <1>14
<1>16. ASSUME NEW k \in 0 .. n - 1, k \in S PROVE k + 1 \in S
  <2> DEFINE y == SetGroups(x, upTo(k))
             s == items[k + 1]
             u == tail[k + 1]
  <2>1. k + 1 \in 1 .. n /\ k + 1 \in 0 .. n /\ (k + 1) - 1 = k /\ k + 1 \in Nat
    BY <1>1
  <2>2. after[k + 1] = GetLongstr(after[k], AppendGroup)
    BY <1>14, <2>1
  <2>3. after[k] = At(y, tail[k])
    BY <1>16
  <2>4. tail[k] = PutLongstr(s) \o u /\ u \in Frame /\ s \in CString /\ Len(s) < Long
    BY <1>2, <1>7, <2>1
  <2>5. AppendGroup(y, s) = SetGroups(x, Append(upTo(k), s))
    <3> DEFINE list == upTo(k)
    <3>1. x \in Msg
      BY DEF Object
    <3> HIDE DEF list
    <3>2. SetGroups(x, list).groups = list
      BY <3>1 DEF SetGroups, Msg
    <3>3. AppendGroup(SetGroups(x, list), s)
            = [SetGroups(x, list) EXCEPT !.groups = Append(list, s)]
      BY <3>2 DEF AppendGroup
    <3> QED BY <3>1, <3>3 DEF SetGroups, list
  <2>6. Append(upTo(k), s) = upTo(k + 1)
    BY <1>4
  <2> HIDE DEF y, s, u
  <2>7. GetLongstr(At(y, PutLongstr(s) \o u), AppendGroup) = At(AppendGroup(y, s), u)
    BY <2>4, GroupItem
  <2>8. after[k + 1] = At(SetGroups(x, upTo(k + 1)), u)
    BY <2>2, <2>3, <2>4, <2>5, <2>6, <2>7
  <2> QED BY <2>1, <2>8 DEF u
<1> HIDE DEF S
<1>17. n \in S
  <2>1. \A k \in 0 .. n : k \in S
    BY <1>1, <1>15, <1>16, Climb
  <2> QED BY <1>1, <2>1
<1>18. GetGroups(c) = At(SetGroups(x, items), t)
  BY <1>4, <1>7, <1>11, <1>14, <1>17 DEF S
<1> QED BY <1>18 DEF c, r, p

\* So does a hash: as the keys differ, zhash_insert keeps every item.
LEMMA HeadersKept ==
  ASSUME NEW x \in Object, NEW items \in Seq(Header), Len(items) < Long,
         HashOf(items), NEW t \in Frame,
         \A i \in 1 .. Len(items) : Len(items[i][1]) < Base /\ Len(items[i][2]) < Long
  PROVE  GetHeaders(At(x, PutAll(PutHeader, items) \o t)) = At(SetHeaders(x, items), t)
<1> DEFINE n == Len(items)
           f == Headers(items)
           p == PutAll(PutHeader, items)
           upTo(k) == SubSeq(items, 1, k)
<1>1. n \in Nat /\ n \in 0 .. Long - 1
  <2>1. \A b \in Nat : b * b * (b * b) \in Nat
    BY Z3
  <2>2. Long \in Nat
    BY <2>1, BaseType DEF Long
  <2> QED BY <2>2
<1>2. \A k \in 1 .. n : /\ f[k] = PutHeader(items[k]) /\ f[k] \in Frame
                        /\ items[k] \in Header /\ Len(f[k]) >= 1
                        /\ Len(items[k][1]) < Base /\ Len(items[k][2]) < Long
  <2> SUFFICES ASSUME NEW k \in 1 .. n
               PROVE  /\ f[k] = PutHeader(items[k]) /\ f[k] \in Frame
                      /\ items[k] \in Header /\ Len(f[k]) >= 1
    OBVIOUS
  <2> DEFINE h == items[k]
  <2>1. h \in Header /\ f[k] = PutHeader(h)
    BY DEF Headers
  <2> HIDE DEF h
  <2>2. /\ PutHeader(h) \in Frame /\ Len(PutHeader(h)) = 1 + Len(h[1]) + 4 + Len(h[2])
        /\ Len(h[1]) \in Nat /\ Len(h[2]) \in Nat
    BY <2>1, HeaderPut
  <2>3. Len(PutHeader(h)) >= 1
    <3>1. \A a, b \in Nat : 1 + a + 4 + b >= 1
      OBVIOUS
    <3> QED BY <2>2, <3>1
  <2> QED BY <2>1, <2>2, <2>3 DEF h
<1>3. PICK put : Concat(put, f, n) /\ p = PutNumber4(n) \o put[n]
  BY HashPut
<1>4. /\ upTo(0) = <<>> /\ upTo(n) = items
      /\ \A k \in 0 .. n - 1 :
            /\ upTo(k + 1) = Append(upTo(k), items[k + 1])
            /\ DOMAIN upTo(k) = 1 .. k /\ \A i \in 1 .. k : upTo(k)[i] = items[i]
  <2>1. /\ upTo(0) = <<>> /\ upTo(n) = items
        /\ \A k \in 0 .. n - 1 : upTo(k + 1) = Append(upTo(k), items[k + 1])
        /\ \A k \in 0 .. n : /\ upTo(k) \in Seq(Header) /\ Len(upTo(k)) = k
                             /\ \A i \in 1 .. k : upTo(k)[i] = items[i]
    BY Prefixes
  <2>2. \A k \in 0 .. n - 1 : k \in 0 .. n
    BY <1>1
  <2> HIDE DEF upTo, n
  <2>3. \A k \in 0 .. n - 1 : DOMAIN upTo(k) = 1 .. k
    BY <2>1, <2>2
  <2> QED BY <2>1, <2>2, <2>3
<1>0. \A i, j \in 1 .. n : items[i][1] = items[j][1] => i = j
  BY DEF HashOf
<1> HIDE DEF n, f, p, upTo
<1>5. PICK tail : Tails(tail, f, n, t) /\ tail[0] = put[n] \o t
  BY <1>1, <1>3, TailsExist
<1>6. n <= Len(tail[0])
  BY <1>1, <1>2, <1>5, TailsAreLong
<1>7. /\ \A k \in 0 .. n : tail[k] \in Frame /\ Len(tail[k]) \in Nat
      /\ \A k \in 1 .. n : tail[k - 1] = f[k] \o tail[k]
      /\ tail[n] = t
  BY <1>5, FrameConcat DEF Tails
<1> DEFINE r == p \o t
           c == At(x, r)
<1>8. r = PutNumber4(n) \o tail[0] /\ tail[0] \in Frame
  <2>1. PutNumber4(n) \in Frame
    BY <1>1, NumbersPut
  <2>2. put[n] \in Frame
    BY <1>1, <1>3 DEF Concat
  <2>3. 0 \in 0 .. n
    BY <1>1
  <2> DEFINE a == PutNumber4(n)
             b == put[n]
  <2>4. r = (a \o b) \o t /\ a \in Frame /\ b \in Frame /\ tail[0] = b \o t
    BY <1>3, <1>5, <2>1, <2>2
  <2> HIDE DEF a, b, r
  <2>5. r = a \o (b \o t)
    BY <2>4, FrameConcat
  <2> QED BY <1>7, <2>3, <2>4, <2>5 DEF a
<1> HIDE DEF r
<1>9. r \in Frame /\ Len(r) = 4 + Len(tail[0]) /\ Number4(r) = n /\ Drop(r, 4) = tail[0]
  BY <1>1, <1>8, Number4Kept
<1>10. /\ Fits(c, 4) /\ c.m = x /\ c.rest = r
       /\ \A y : Read(c, y, 4) = At(y, tail[0])
  <2>1. 0 \in 0 .. n
    BY <1>1
  <2>2. 4 <= Len(r)
    BY <1>7, <1>9, <2>1
  <2> QED BY <1>9, <2>2, AtCursor
<1> HIDE DEF c
<1> DEFINE count == Number4(c.rest)
           d == Read(c, SetHeaders(c.m, <<>>), 4)
<1>11. GetHeaders(c) = Repeat(GetHeader, d, count)
  BY <1>10 DEF GetHeaders
<1>12. count = n /\ d = At(SetHeaders(x, <<>>), tail[0])
  BY <1>9, <1>10
<1> HIDE DEF count, d
<1>13. d \in Cursors(Hashing) /\ Rounds(d, count) = n
  <2> DEFINE y == SetHeaders(x, <<>>)
  <2>1. y \in Object
    BY SettersType, EmptyLists
  <2>2. y.headers = <<>>
    BY DEF SetHeaders, Object, Msg
  <2>3. y \in Hashing
    BY <2>1, <2>2, EmptyLists DEF Hashing
  <2> HIDE DEF y
  <2>4. At(y, tail[0]) \in Cursors(Hashing)
    BY <1>8, <2>3 DEF At, Cursors
  <2>5. d.rest = tail[0]
    BY <1>12, AtCursor
  <2> QED BY <1>6, <1>12, <2>4, <2>5 DEF Rounds, y
<1>14. PICK after : /\ after[0] = d
                    /\ \A k \in 1 .. n : after[k] = GetHeader(after[k - 1])
                    /\ Repeat(GetHeader, d, count) = after[n]
  <2>1. count \in Nat
    BY <1>1, <1>12
  <2>2. PICK after : /\ after[0] = d
                     /\ \A k \in 0 .. Rounds(d, count) : after[k] \in Cursors(Hashing)
                     /\ \A k \in 1 .. Rounds(d, count) :
                            after[k] = GetHeader(after[k - 1])
                     /\ Repeat(GetHeader, d, count)
                            = after[Rounds(d, count)]
    BY <1>13, <2>1, HeaderRounds
  <2> QED BY <1>13, <2>2
<1> DEFINE S == {k \in Nat : after[k] = At(SetHeaders(x, upTo(k)), tail[k])}
<1>15. 0 \in S
  BY <1>4, <1>12, <1>14
<1>16. ASSUME NEW k \in 0 .. n - 1, k \in S PROVE k + 1 \in S
  <2> DEFINE list == upTo(k)
             y == SetHeaders(x, list)
             h == items[k + 1]
             u == tail[k + 1]
  <2>1. k + 1 \in 1 .. n /\ k + 1 \in 0 .. n /\ (k + 1) - 1 = k /\ k + 1 \in Nat
    BY <1>1
  <2>2. after[k + 1] = GetHeader(after[k])
    BY <1>14, <2>1
  <2>3. after[k] = At(y, tail[k])
    BY <1>16
  <2>4. /\ tail[k] = PutHeader(h) \o u /\ u \in Frame /\ h \in Header
        /\ Len(h[1]) < Base /\ Len(h[2]) < Long
    BY <1>2, <1>7, <2>1
  <2>5. Append(list, h) = upTo(k + 1)
    BY <1>4
  <2>6. ~ \E i \in DOMAIN list : list[i][1] = h[1]
    <3>1. \A i \in 1 .. k : i \in 1 .. n /\ i # k + 1
      BY <1>1
    <3>2. \A i \in 1 .. k : items[i][1] # items[k + 1][1]
      BY <1>0, <2>1, <3>1
    <3>3. DOMAIN list = 1 .. k /\ \A i \in 1 .. k : list[i] = items[i]
      BY <1>4
    <3> QED BY <3>2, <3>3
  <2> HIDE DEF list
  <2>7. InsertHeader(y, h[1], h[2]) = SetHeaders(x, Append(list, h))
    <3>1. x \in Msg
      BY DEF Object
    <3>2. y.headers = list
      BY <3>1 DEF SetHeaders, Msg
    <3>3. h = <<h[1], h[2]>>
      BY <2>4 DEF Header
    <3> HIDE DEF h, y
    <3>4. InsertHeader(y, h[1], h[2]) = [y EXCEPT !.headers = Append(list, <<h[1], h[2]>>)]
      BY <2>6, <3>2 DEF InsertHeader
    <3>5. InsertHeader(y, h[1], h[2]) = [y EXCEPT !.headers = Append(list, h)]
      BY <3>3, <3>4
    <3> QED BY <3>1, <3>5 DEF SetHeaders, y
  <2> HIDE DEF y, h, u
  <2>8. GetHeader(At(y, PutHeader(h) \o u)) = At(InsertHeader(y, h[1], h[2]), u)
    BY <2>4, HeaderItem
  <2>9. after[k + 1] = At(SetHeaders(x, upTo(k + 1)), u)
    BY <2>2, <2>3, <2>4, <2>5, <2>7, <2>8
  <2> QED BY <2>1, <2>9 DEF u
<1> HIDE DEF S
<1>17. n \in S
  <2>1. \A k \in 0 .. n : k \in S
    BY <1>1, <1>15, <1>16, Climb
  <2> QED BY <1>1, <2>1
<1>18. GetHeaders(c) = At(SetHeaders(x, items), t)
  BY <1>4, <1>7, <1>11, <1>14, <1>17 DEF S
<1> QED BY <1>18 DEF c, r, p

-----------------------------------------------------------------------------
(***************************************************************************)
(* Whole messages of every type, with what is left in the frame behind the *)
(* last octet put.                                                         *)
(***************************************************************************)
Rest(m) == IF m.id = HELLO THEN PutHello(m) ELSE PutFlat(m)

LEMMA Joined ==
  ASSUME NEW u \in Frame, NEW v \in Frame, NEW w \in Frame
  PROVE  (u \o v) \o w = u \o (v \o w)
BY FrameConcat

LEMMA EncodeShape ==
  ASSUME NEW m \in Msg, m.id \in Ids, NEW octet \in Octet
  PROVE  /\ Rest(m) \in Frame
         /\ \E pad \in Frame :
                Encode(m, octet) = PutNumber2(Signature) \o (PutNumber1(m.id) \o
                    (PutNumber1(2) \o (PutNumber2(m.sequence) \o (Rest(m) \o pad))))
<1> DEFINE pad == Padding(m, octet)
           a == PutNumber2(Signature)
           b == PutNumber1(m.id)
           c == PutNumber1(2)
           d == PutNumber2(m.sequence)
           e == Rest(m)
<1>1. pad \in Frame
  <2>1. FrameSize(m) \in Nat /\ Len(Body(m)) \in Nat
    BY BodyPut, FrameConcat
  <2>2. CASE FrameSize(m) <= Len(Body(m))
    BY <2>2 DEF Padding, Frame
  <2>3. CASE ~(FrameSize(m) <= Len(Body(m)))
    <3> DEFINE n == FrameSize(m) - Len(Body(m))
    <3>1. n \in Nat /\ Padding(m, octet) = [i \in 1 .. n |-> octet]
      BY <2>1, <2>3 DEF Padding
    <3> QED BY <3>1, IsASeq DEF Frame
  <2> QED BY <2>2, <2>3
<1>2. a \in Frame /\ b \in Frame /\ c \in Frame /\ d \in Frame
  <2>1. m.id \in Nat /\ m.sequence \in Nat
    BY BaseType DEF Msg, Octet
  <2>2. Signature \in Nat
    BY InputAssumption
  <2> QED BY <2>1, <2>2, NumbersPut
<1>3. e \in Frame
  <2>1. CASE m.id = HELLO
    BY <2>1, HelloPut DEF Rest
  <2>2. CASE m.id # HELLO
    BY <2>2, PutFlatType DEF Rest
  <2> QED BY <2>1, <2>2
<1>4. Encode(m, octet) = ((a \o b) \o ((c \o d) \o e)) \o pad
  BY DEF Encode, Body, Rest
<1> HIDE DEF a, b, c, d, e, pad
<1>5. ((a \o b) \o ((c \o d) \o e)) \o pad = a \o (b \o (c \o (d \o (e \o pad))))
  <2> DEFINE u == (c \o d) \o e
             w == e \o pad
             v == c \o (d \o w)
  <2>1. a \o b \in Frame /\ c \o d \in Frame /\ w \in Frame /\ u \in Frame
    BY <1>1, <1>2, <1>3, FrameConcat
  <2>2. u \o pad = (c \o d) \o w
    <3> DEFINE k == c \o d
    <3>1. k \in Frame
      BY <2>1
    <3> HIDE DEF k
    <3>2. (k \o e) \o pad = k \o (e \o pad)
      BY <1>1, <1>3, <3>1, Joined
    <3> QED BY <3>2 DEF k
  <2> HIDE DEF w
  <2>3. d \o w \in Frame
    BY <1>2, <2>1, FrameConcat
  <2>4. (c \o d) \o w = v
    <3>1. c \in Frame /\ d \in Frame /\ w \in Frame
      BY <1>2, <2>1
    <3> QED BY <3>1, Joined
  <2>5. v \in Frame
    BY <1>2, <2>3, FrameConcat
  <2> HIDE DEF u, v
  <2>6. ((a \o b) \o u) \o pad = (a \o b) \o (u \o pad)
    BY <1>1, <2>1, FrameConcat
  <2>7. (a \o b) \o v = a \o (b \o v)
    BY <1>2, <2>5, FrameConcat
  <2> QED BY <2>2, <2>4, <2>6, <2>7 DEF u, v, w
<1>6. Encode(m, octet) = a \o (b \o (c \o (d \o (e \o pad))))
  BY <1>4, <1>5
<1> QED BY <1>1, <1>3, <1>6 DEF a, b, c, d, e

\* The signature, the id, the version and the sequence number; the rest by type.
LEMMA DecodeShape ==
  ASSUME NEW m0 \in Object, NEW id \in Ids, NEW n \in 0 .. Base * Base - 1, NEW flat \in Frame
  PROVE  LET d == At(SetSequence(SetId(m0, id), n), flat)
             c == Decode(m0, PutNumber2(Signature) \o (PutNumber1(id) \o
                                (PutNumber1(2) \o (PutNumber2(n) \o flat))))
         IN  /\ id = HELLO => c = RecvHello(d)
             /\ id = WHISPER => c = d
             /\ id = SHOUT => c = RecvShout(d)
<1> DEFINE m1 == SetId(m0, id)
           plain == SetSequence(m1, n)
           u == PutNumber2(n) \o flat
           rest == PutNumber1(2) \o u
           v == PutNumber1(id) \o rest
           octets == PutNumber2(Signature) \o v
           d == At(plain, flat)
           c == Decode(m0, octets)
<1>1. id \in Octet /\ 2 \in Octet
  BY IdType, BaseType DEF Octet
<1>2. m1.id = id
  BY DEF SetId, Object, Msg
<1> HIDE DEF m1, plain
<1>3. u \in Frame
  BY PairRead
<1> HIDE DEF u
<1>4. rest \in Frame
  BY <1>1, <1>3, OctetRead
<1> HIDE DEF rest
<1>5. v \in Frame
  BY <1>1, <1>4, OctetRead
<1> HIDE DEF v
<1>6. GetSignature(At(m0, octets)) = At(m0, v)
  BY <1>5, CheckedRead
<1> HIDE DEF octets
<1>7. GetNumber1(At(m0, v), SetId) = At(m1, rest)
  BY <1>1, <1>4, NumberRead DEF v, m1
<1>8. GetVersion(At(m1, rest)) = At(m1, u)
  BY <1>3, CheckedRead DEF rest
<1>9. GetNumber2(At(m1, u), SetSequence) = At(plain, flat)
  BY NumberRead DEF u, plain
<1>10. RecvPing(At(m1, rest)) = d
  BY <1>8, <1>9 DEF RecvPing
<1>11. At(m1, rest).ok /\ At(m1, rest).m = m1
  BY DEF At
<1> HIDE DEF d
<1>12. /\ id = HELLO => c = RecvHello(d)
       /\ id = WHISPER => c = d
       /\ id = SHOUT => c = RecvShout(d)
  BY <1>2, <1>6, <1>7, <1>10, <1>11
     DEF Decode, HELLO, WHISPER, SHOUT, JOIN, LEAVE, ELECT, LEADER
<1> QED BY <1>12 DEF d, plain, m1, octets, v, rest, u

\* The object of a HELLO.
HelloObject(m, s) ==
  SetHeaders(SetName(SetStatus(SetGroups(SetEndpoint(m, s.endpoint), Items(s.groups)),
                               s.status), s.name), Items(s.headers))

LEMMA HelloDecoded ==
  ASSUME NEW x \in Object, NEW s \in Object, LengthsFit(s), NEW pad \in Frame
  PROVE  LET c == RecvHello(At(x, PutHello(s) \o pad))
         IN  c.ok /\ c.rc = 0 /\ c.m = HelloObject(x, s)
<1> DEFINE groups == Items(s.groups)
           headers == Items(s.headers)
           a == PutString(s.endpoint)
           b == PutAll(PutLongstr, groups)
           c == PutNumber1(s.status)
           d == PutString(s.name)
           e == PutAll(PutHeader, headers)
           x1 == SetEndpoint(x, s.endpoint)
           x2 == SetGroups(x1, groups)
           x3 == SetStatus(x2, s.status)
           x4 == SetName(x3, s.name)
<1>1. /\ s \in Msg /\ s.endpoint \in Buffer /\ s.name \in Buffer /\ s.status \in Octet
      /\ s.endpoint \in CString /\ s.name \in CString /\ s.status \in Nat
  <2>1. s \in Msg /\ s.endpoint \in Buffer /\ s.name \in Buffer /\ s.status \in Octet
    BY DEF Object, Msg
  <2> QED BY <2>1, OctetsAreFrames, BaseType DEF Octet
<1>2. groups \in Seq(CString) /\ headers \in Seq(Header) /\ HashOf(headers)
      /\ groups \in Groups /\ headers \in Hash
  <2>1. s.groups \in Seq(CString) \cup {Null} /\ s.headers \in Seq(Header) \cup {Null}
        /\ (s.headers # Null => HashOf(s.headers))
    BY DEF Object, Msg
  <2>2. <<>> \in Seq(CString) /\ <<>> \in Seq(Header) /\ HashOf(<<>>)
    BY EmptySeq DEF HashOf
  <2> QED BY <2>1, <2>2 DEF Items, Groups, Hash
<1>3. /\ Len(groups) < Long /\ \A i \in 1 .. Len(groups) : Len(groups[i]) < Long
      /\ Len(headers) < Long
      /\ \A i \in 1 .. Len(headers) :
            Len(headers[i][1]) < Base /\ Len(headers[i][2]) < Long
  BY <1>2 DEF LengthsFit, Long
<1>4. /\ x1 \in Object /\ x2 \in Object /\ x3 \in Object /\ x4 \in Object
  <2>1. x1 \in Object
    BY <1>1, SettersType
  <2> HIDE DEF x1
  <2>2. x2 \in Object
    BY <1>2, <2>1, SettersType
  <2> HIDE DEF x2
  <2>3. x3 \in Object
    BY <1>1, <2>2, SettersType
  <2> HIDE DEF x3
  <2>4. x4 \in Object
    BY <1>1, <2>3, SettersType
  <2> QED BY <2>1, <2>2, <2>3, <2>4
<1>5. a \in Frame /\ b \in Frame /\ c \in Frame /\ d \in Frame /\ e \in Frame
  <2>1. s.endpoint \in Frame /\ s.name \in Frame
    BY <1>1, TextKept
  <2> QED BY <1>1, <1>2, <2>1, TextsPut, NumbersPut, ListCounted, HashCounted
<1>6. PutHello(s) = (((a \o b) \o c) \o d) \o e
  BY DEF PutHello
<1> DEFINE y4 == e \o pad
           y3 == d \o y4
           y2 == c \o y3
           y1 == b \o y2
<1> HIDE DEF groups, headers, x1, x2, x3, x4
<1>7. y4 \in Frame /\ y3 \in Frame /\ y2 \in Frame /\ y1 \in Frame
  <2> HIDE DEF a, b, c, d, e
  <2>1. y4 \in Frame
    BY <1>5, FrameConcat
  <2> HIDE DEF y4
  <2>2. y3 \in Frame
    BY <1>5, <2>1, FrameConcat
  <2> HIDE DEF y3
  <2>3. y2 \in Frame
    BY <1>5, <2>2, FrameConcat
  <2> HIDE DEF y2
  <2>4. y1 \in Frame
    BY <1>5, <2>3, FrameConcat
  <2> QED BY <2>1, <2>2, <2>3, <2>4
<1>8. PutHello(s) \o pad = a \o y1
  <2> HIDE DEF a, b, c, d, e
  <2> DEFINE z2 == a \o b
             z3 == z2 \o c
             z4 == z3 \o d
  <2>1. z2 \in Frame
    BY <1>5, FrameConcat
  <2>2. z2 \o y2 = a \o y1
    <3> HIDE DEF y2
    <3>1. a \in Frame /\ b \in Frame /\ y2 \in Frame
      BY <1>5, <1>7
    <3>2. (a \o b) \o y2 = a \o (b \o y2)
      BY <3>1, Joined
    <3> QED BY <3>2
  <2> HIDE DEF z2
  <2>3. z3 \in Frame
    BY <1>5, <2>1, FrameConcat
  <2>4. z3 \o y3 = z2 \o y2
    <3> HIDE DEF y3
    <3>1. z2 \in Frame /\ c \in Frame /\ y3 \in Frame
      BY <1>5, <1>7, <2>1
    <3>2. (z2 \o c) \o y3 = z2 \o (c \o y3)
      BY <3>1, Joined
    <3> QED BY <3>2
  <2> HIDE DEF z3
  <2>5. z4 \in Frame
    BY <1>5, <2>3, FrameConcat
  <2>6. z4 \o y4 = z3 \o y3
    <3> HIDE DEF y4
    <3>1. z3 \in Frame /\ d \in Frame /\ y4 \in Frame
      BY <1>5, <1>7, <2>3
    <3>2. (z3 \o d) \o y4 = z3 \o (d \o y4)
      BY <3>1, Joined
    <3> QED BY <3>2
  <2> HIDE DEF z4
  <2>7. (z4 \o e) \o pad = z4 \o y4
    <3>1. z4 \in Frame /\ e \in Frame /\ pad \in Frame
      BY <1>5, <2>5
    <3>2. (z4 \o e) \o pad = z4 \o (e \o pad)
      BY <3>1, Joined
    <3> QED BY <3>2
  <2> QED BY <1>6, <2>2, <2>4, <2>6, <2>7 DEF z2, z3, z4
<1> HIDE DEF y1, y2, y3, y4
<1>9. GetString(At(x, a \o y1), SetEndpoint) = At(x1, y1)
  BY <1>1, <1>7, HelloText DEF x1
<1>10. GetGroups(At(x1, b \o y2)) = At(x2, y2)
  BY <1>2, <1>3, <1>4, <1>7, GroupsKept DEF x2
<1>11. GetNumber1(At(x2, c \o y3), SetStatus) = At(x3, y3)
  BY <1>1, <1>7, NumberRead DEF x3
<1>12. GetString(At(x3, d \o y4), SetName) = At(x4, y4)
  BY <1>1, <1>7, HelloText DEF x4
<1>13. GetHeaders(At(x4, e \o pad)) = At(SetHeaders(x4, headers), pad)
  BY <1>2, <1>3, <1>4, HeadersKept
<1> HIDE DEF a, b, c, d, e
<1>14. y1 = b \o y2 /\ y2 = c \o y3 /\ y3 = d \o y4 /\ y4 = e \o pad
  BY DEF y1, y2, y3, y4
<1>15. RecvHello(At(x, a \o y1)) = At(SetHeaders(x4, headers), pad)
  <2>1. RecvHello(At(x, a \o y1))
          = GetHeaders(GetString(GetNumber1(GetGroups(At(x1, y1)), SetStatus), SetName))
    BY <1>9 DEF RecvHello
  <2>2. GetGroups(At(x1, y1)) = At(x2, y2)
    BY <1>10, <1>14
  <2>3. RecvHello(At(x, a \o y1)) = GetHeaders(GetString(GetNumber1(At(x2, y2), SetStatus), SetName))
    BY <2>1, <2>2
  <2>4. RecvHello(At(x, a \o y1)) = GetHeaders(GetString(At(x3, y3), SetName))
    BY <1>11, <1>14, <2>3
  <2>5. RecvHello(At(x, a \o y1)) = GetHeaders(At(x4, y4))
    BY <1>12, <1>14, <2>4
  <2> QED BY <1>13, <1>14, <2>5
<1>16. /\ At(SetHeaders(x4, headers), pad).ok /\ At(SetHeaders(x4, headers), pad).rc = 0
       /\ At(SetHeaders(x4, headers), pad).m = SetHeaders(x4, headers)
  BY DEF At
<1>17. SetHeaders(x4, headers) = HelloObject(x, s)
  BY DEF HelloObject, x4, x3, x2, x1, groups, headers
<1> QED BY <1>8, <1>15, <1>16, <1>17

\* The object g is the message s, received in the object m.
Filled(g, m, s) ==
  /\ g.id = s.id
  /\ \A f \in Carried(s.id) : g[f] = Arrival(s, f)
  /\ \A f \in DOMAIN New \ ({"id", "routingId"} \cup Carried(s.id)) : g[f] = m[f]

\* Texts and numbers arrive as they are.
LEMMA Arrivals ==
  ASSUME NEW s \in Object
  PROVE  /\ Arrival(s, "sequence") = s.sequence /\ Arrival(s, "endpoint") = s.endpoint
         /\ Arrival(s, "status") = s.status /\ Arrival(s, "name") = s.name
         /\ Arrival(s, "group") = s.group /\ Arrival(s, "challenger") = s.challenger
         /\ Arrival(s, "leader") = s.leader
         /\ Arrival(s, "groups") = Items(s.groups)
         /\ Arrival(s, "headers") = Items(s.headers)
         /\ s.id \in {WHISPER, SHOUT} => Arrival(s, "content") = ContentFrames(s)
<1>1. /\ s.sequence \in Nat /\ s.status \in Nat
      /\ s.endpoint \in Frame /\ s.name \in Frame /\ s.group \in Frame
      /\ s.challenger \in Frame /\ s.leader \in Frame
  <2>1. /\ s.sequence \in 0 .. Base * Base - 1 /\ s.status \in 0 .. Base - 1
        /\ s.endpoint \in Buffer /\ s.name \in Buffer /\ s.group \in Buffer
        /\ s.challenger \in Buffer /\ s.leader \in Buffer
    BY DEF Object, Msg, Octet
  <2>2. \A a : 0 .. a \subseteq Nat
    OBVIOUS
  <2> QED BY <2>1, <2>2, OctetsAreFrames
<1>2. \A v \in Nat \cup Frame : v # Null
  BY EntriesDiffer DEF Unread
<1>3. \A f : s[f] # Null => Arrival(s, f) = s[f]
  BY DEF Arrival
<1>4. \A f \in {"groups", "headers"} : Arrival(s, f) = Items(s[f])
  BY DEF Arrival, Items
<1>5. s.id \in {WHISPER, SHOUT} => Arrival(s, "content") = ContentFrames(s)
  BY DEF Arrival, ContentFrames
<1> QED BY <1>1, <1>2, <1>3, <1>4, <1>5

Plain(m, r, s) == SetSequence(SetId(SetRoutingId(m, r), s.id), s.sequence)

LEMMA PlainFilled ==
  ASSUME NEW m \in Object, NEW r \in Octets, NEW s \in Object
  PROVE  LET p == Plain(m, r, s)
         IN  /\ p \in Object /\ p.id = s.id /\ p.sequence = s.sequence
             /\ \A f \in DOMAIN New \ {"routingId", "id", "sequence"} : p[f] = m[f]
<1> DEFINE a == SetRoutingId(m, r)
           b == SetId(a, s.id)
           p == SetSequence(b, s.sequence)
<1>1. s.id \in Octet /\ s.sequence \in Nat
  <2>1. s.id \in Octet /\ s.sequence \in 0 .. Base * Base - 1
    BY DEF Object, Msg
  <2>2. \A n : 0 .. n \subseteq Nat
    OBVIOUS
  <2> QED BY <2>1, <2>2
<1>2. a \in Object /\ Differs(a, m, "routingId", r)
  BY SettersType, SettersDiffer
<1> HIDE DEF a
<1>3. b \in Object /\ Differs(b, a, "id", s.id)
  BY <1>1, <1>2, SettersType, SettersDiffer
<1> HIDE DEF b
<1>4. p \in Object /\ Differs(p, b, "sequence", s.sequence)
  BY <1>1, <1>3, SettersType, SettersDiffer
<1> HIDE DEF p
<1>5. {"routingId", "id", "sequence"} \subseteq DOMAIN New
  BY DEF New
<1>6. /\ p.id = s.id /\ p.sequence = s.sequence
      /\ \A f \in DOMAIN New \ {"routingId", "id", "sequence"} : p[f] = m[f]
  BY <1>2, <1>3, <1>4, <1>5 DEF Differs
<1> QED BY <1>4, <1>6 DEF Plain, p, b, a

LEMMA HelloFilled ==
  ASSUME NEW m \in Object, NEW r \in Octets, NEW s \in Object, s.id = HELLO
  PROVE  Filled(HelloObject(Plain(m, r, s), s), m, s)
<1> DEFINE p == Plain(m, r, s)
           a == SetEndpoint(p, s.endpoint)
           b == SetGroups(a, Items(s.groups))
           c == SetStatus(b, s.status)
           d == SetName(c, s.name)
           g == SetHeaders(d, Items(s.headers))
<1>1. /\ s.endpoint \in CString /\ s.name \in CString /\ s.status \in Nat
      /\ Items(s.groups) \in Groups /\ Items(s.headers) \in Hash
  <2>1. /\ s.endpoint \in Buffer /\ s.name \in Buffer /\ s.status \in Octet
        /\ s.groups \in Groups /\ s.headers \in Hash
    BY DEF Object, Msg, Groups, Hash
  <2>2. <<>> \in Groups /\ <<>> \in Hash
    BY EmptyLists
  <2> QED BY <2>1, <2>2, OctetsAreFrames, BaseType DEF Octet, Items
<1>2. /\ p \in Object /\ p.id = s.id /\ p.sequence = s.sequence
      /\ \A f \in DOMAIN New \ {"routingId", "id", "sequence"} : p[f] = m[f]
  BY PlainFilled
<1> HIDE DEF p
<1>3. a \in Object /\ Differs(a, p, "endpoint", s.endpoint)
  BY <1>1, <1>2, SettersType, SettersDiffer
<1> HIDE DEF a
<1>4. b \in Object /\ Differs(b, a, "groups", Items(s.groups))
  BY <1>1, <1>3, SettersType, SettersDiffer
<1> HIDE DEF b
<1>5. c \in Object /\ Differs(c, b, "status", s.status)
  BY <1>1, <1>4, SettersType, SettersDiffer
<1> HIDE DEF c
<1>6. d \in Object /\ Differs(d, c, "name", s.name)
  BY <1>1, <1>5, SettersType, SettersDiffer
<1> HIDE DEF d
<1>7. Differs(g, d, "headers", Items(s.headers))
  BY <1>6, SettersDiffer
<1> HIDE DEF g
<1>8. Carried(s.id) = {"sequence", "endpoint", "groups", "status", "name", "headers"}
  BY DEF Carried, HELLO, WHISPER, SHOUT, JOIN, LEAVE, ELECT, LEADER
<1>9. {"id", "sequence", "endpoint", "groups", "status", "name", "headers"} \subseteq DOMAIN New
  BY DEF New
<1>10. /\ g.id = s.id /\ g.sequence = s.sequence /\ g.endpoint = s.endpoint
       /\ g.groups = Items(s.groups) /\ g.status = s.status /\ g.name = s.name
       /\ g.headers = Items(s.headers)
  <2>1. d.id = s.id /\ d.sequence = s.sequence /\ d.endpoint = s.endpoint
        /\ d.groups = Items(s.groups) /\ d.status = s.status /\ d.name = s.name
    BY <1>2, <1>3, <1>4, <1>5, <1>6, <1>9 DEF Differs
  <2> QED BY <1>7, <1>9, <2>1 DEF Differs
<1>11. \A f \in DOMAIN New \ ({"id", "routingId"} \cup Carried(s.id)) : g[f] = m[f]
  BY <1>2, <1>3, <1>4, <1>5, <1>6, <1>7, <1>8 DEF Differs
<1>12. \A f \in Carried(s.id) : g[f] = Arrival(s, f)
  BY <1>8, <1>10, Arrivals
<1>13. g = HelloObject(p, s)
  BY DEF HelloObject, g, d, c, b, a
<1> QED BY <1>10, <1>11, <1>12, <1>13 DEF Filled, p

\* The last field of a message is set.
LEMMA FilledWith ==
  ASSUME NEW g, NEW q, NEW m, NEW s, NEW key \in DOMAIN New \ {"id", "routingId"}, NEW v,
         Differs(g, q, key, v), v = Arrival(s, key),
         q.id = s.id, key \in Carried(s.id), Carried(s.id) \subseteq DOMAIN New,
         \A f \in Carried(s.id) \ {key} : q[f] = Arrival(s, f),
         \A f \in DOMAIN New \ ({"id", "routingId"} \cup Carried(s.id)) : q[f] = m[f]
  PROVE  Filled(g, m, s)
<1>1. "id" \in DOMAIN New
  BY DEF New
<1> QED BY <1>1 DEF Differs, Filled

\* The objects of the other types.
FlatObject(m, s) ==
  CASE s.id = WHISPER -> SetContent(m, ContentFrames(s))
    [] s.id = SHOUT -> SetContent(SetGroup(m, s.group), ContentFrames(s))
    [] s.id \in {JOIN, LEAVE} -> SetStatus(SetGroup(m, s.group), s.status)
    [] s.id = ELECT -> SetChallenger(SetGroup(m, s.group), s.challenger)
    [] s.id = LEADER -> SetLeader(SetGroup(m, s.group), s.leader)
    [] OTHER -> m

LEMMA FlatFilled ==
  ASSUME NEW m \in Object, NEW r \in Octets, NEW s \in Object, s.id \in Ids \ {HELLO}
  PROVE  Filled(FlatObject(Plain(m, r, s), s), m, s)
<1> DEFINE p == Plain(m, r, s)
           q == SetGroup(p, s.group)
           g == FlatObject(p, s)
<1>0. g = FlatObject(p, s)
  OBVIOUS
<1> HIDE DEF g
<1>1. /\ p \in Object /\ p.id = s.id /\ p.sequence = s.sequence
      /\ \A f \in DOMAIN New \ {"routingId", "id", "sequence"} : p[f] = m[f]
  BY PlainFilled
<1> HIDE DEF p
<1>2. q \in Object /\ Differs(q, p, "group", s.group)
  <2>1. s.group \in CString
    BY OctetsAreFrames DEF Object, Msg
  <2> QED BY <1>1, <2>1, SettersType, SettersDiffer
<1> HIDE DEF q
<1>3. DOMAIN New = {"routingId", "id", "sequence", "endpoint", "groups", "status", "name",
                    "headers", "headersBytes", "content", "group", "challenger", "leader"}
  BY DEF New
<1>4. /\ q.id = s.id /\ q.sequence = s.sequence /\ q.group = s.group
      /\ \A f \in DOMAIN New \ {"routingId", "id", "sequence", "group"} : q[f] = m[f]
  BY <1>1, <1>2, <1>3 DEF Differs
<1> USE DEF HELLO, WHISPER, SHOUT, JOIN, LEAVE, ELECT, LEADER
<1>5. ASSUME s.id = WHISPER PROVE Filled(g, m, s)
  <2>1. g = SetContent(p, ContentFrames(s))
    BY <1>0, <1>5 DEF FlatObject
  <2>2. Differs(g, p, "content", ContentFrames(s))
    BY <1>1, <2>1, SettersDiffer
  <2>3. Carried(s.id) = {"sequence", "content"}
    BY <1>5 DEF Carried
  <2>4. Arrival(s, "sequence") = s.sequence /\ Arrival(s, "content") = ContentFrames(s)
    BY <1>5, Arrivals
  <2>5. \A f \in Carried(s.id) \ {"content"} : p[f] = Arrival(s, f)
    BY <1>1, <2>3, <2>4
  <2>6. \A f \in DOMAIN New \ ({"id", "routingId"} \cup Carried(s.id)) : p[f] = m[f]
    BY <1>1, <2>3
  <2>7. /\ "content" \in DOMAIN New \ {"id", "routingId"} /\ "content" \in Carried(s.id)
        /\ Carried(s.id) \subseteq DOMAIN New /\ p.id = s.id
    BY <1>1, <1>3, <2>3
  <2> QED BY <2>2, <2>4, <2>5, <2>6, <2>7, FilledWith
<1>6. ASSUME s.id = SHOUT PROVE Filled(g, m, s)
  <2>1. g = SetContent(q, ContentFrames(s))
    BY <1>0, <1>6 DEF FlatObject, q
  <2>2. Differs(g, q, "content", ContentFrames(s))
    BY <1>2, <2>1, SettersDiffer
  <2>3. Carried(s.id) = {"sequence", "group", "content"}
    BY <1>6 DEF Carried
  <2>4. Arrival(s, "sequence") = s.sequence /\ Arrival(s, "content") = ContentFrames(s)
        /\ Arrival(s, "group") = s.group
    BY <1>6, Arrivals
  <2>5. \A f \in Carried(s.id) \ {"content"} : q[f] = Arrival(s, f)
    BY <1>4, <2>3, <2>4
  <2>6. \A f \in DOMAIN New \ ({"id", "routingId"} \cup Carried(s.id)) : q[f] = m[f]
    BY <1>4, <2>3
  <2>7. /\ "content" \in DOMAIN New \ {"id", "routingId"} /\ "content" \in Carried(s.id)
        /\ Carried(s.id) \subseteq DOMAIN New /\ q.id = s.id
    BY <1>4, <1>3, <2>3
  <2> QED BY <2>2, <2>4, <2>5, <2>6, <2>7, FilledWith
<1>7. ASSUME s.id \in {JOIN, LEAVE} PROVE Filled(g, m, s)
  <2>1. g = SetStatus(q, s.status)
    BY <1>0, <1>7 DEF FlatObject, q
  <2>2. Differs(g, q, "status", s.status)
    BY <1>2, <2>1, SettersDiffer
  <2>3. Carried(s.id) = {"sequence", "group", "status"}
    BY <1>7 DEF Carried
  <2>4. Arrival(s, "sequence") = s.sequence /\ Arrival(s, "status") = s.status
        /\ Arrival(s, "group") = s.group
    BY Arrivals
  <2>5. \A f \in Carried(s.id) \ {"status"} : q[f] = Arrival(s, f)
    BY <1>4, <2>3, <2>4
  <2>6. \A f \in DOMAIN New \ ({"id", "routingId"} \cup Carried(s.id)) : q[f] = m[f]
    BY <1>4, <2>3
  <2>7. /\ "status" \in DOMAIN New \ {"id", "routingId"} /\ "status" \in Carried(s.id)
        /\ Carried(s.id) \subseteq DOMAIN New /\ q.id = s.id
    BY <1>4, <1>3, <2>3
  <2> QED BY <2>2, <2>4, <2>5, <2>6, <2>7, FilledWith
<1>8. ASSUME s.id = ELECT PROVE Filled(g, m, s)
  <2>1. g = SetChallenger(q, s.challenger)
    BY <1>0, <1>8 DEF FlatObject, q
  <2>2. Differs(g, q, "challenger", s.challenger)
    BY <1>2, <2>1, SettersDiffer
  <2>3. Carried(s.id) = {"sequence", "group", "challenger"}
    BY <1>8 DEF Carried
  <2>4. Arrival(s, "sequence") = s.sequence /\ Arrival(s, "challenger") = s.challenger
        /\ Arrival(s, "group") = s.group
    BY Arrivals
  <2>5. \A f \in Carried(s.id) \ {"challenger"} : q[f] = Arrival(s, f)
    BY <1>4, <2>3, <2>4
  <2>6. \A f \in DOMAIN New \ ({"id", "routingId"} \cup Carried(s.id)) : q[f] = m[f]
    BY <1>4, <2>3
  <2>7. /\ "challenger" \in DOMAIN New \ {"id", "routingId"} /\ "challenger" \in Carried(s.id)
        /\ Carried(s.id) \subseteq DOMAIN New /\ q.id = s.id
    BY <1>4, <1>3, <2>3
  <2> QED BY <2>2, <2>4, <2>5, <2>6, <2>7, FilledWith
<1>9. ASSUME s.id = LEADER PROVE Filled(g, m, s)
  <2>1. g = SetLeader(q, s.leader)
    BY <1>0, <1>9 DEF FlatObject, q
  <2>2. Differs(g, q, "leader", s.leader)
    BY <1>2, <2>1, SettersDiffer
  <2>3. Carried(s.id) = {"sequence", "group", "leader"}
    BY <1>9 DEF Carried
  <2>4. Arrival(s, "sequence") = s.sequence /\ Arrival(s, "leader") = s.leader
        /\ Arrival(s, "group") = s.group
    BY Arrivals
  <2>5. \A f \in Carried(s.id) \ {"leader"} : q[f] = Arrival(s, f)
    BY <1>4, <2>3, <2>4
  <2>6. \A f \in DOMAIN New \ ({"id", "routingId"} \cup Carried(s.id)) : q[f] = m[f]
    BY <1>4, <2>3
  <2>7. /\ "leader" \in DOMAIN New \ {"id", "routingId"} /\ "leader" \in Carried(s.id)
        /\ Carried(s.id) \subseteq DOMAIN New /\ q.id = s.id
    BY <1>4, <1>3, <2>3
  <2> QED BY <2>2, <2>4, <2>5, <2>6, <2>7, FilledWith
<1>10. ASSUME s.id \notin {WHISPER, SHOUT, JOIN, LEAVE, ELECT, LEADER} PROVE Filled(g, m, s)
  <2>1. g = p
    BY <1>0, <1>10 DEF FlatObject
  <2>2. Carried(s.id) = {"sequence"}
    BY <1>10 DEF Carried
  <2>3. Arrival(s, "sequence") = s.sequence
    BY Arrivals
  <2>4. g.id = s.id /\ g.sequence = Arrival(s, "sequence")
    BY <1>1, <2>1, <2>3
  <2>5. \A f \in DOMAIN New \ ({"id", "routingId"} \cup {"sequence"}) : g[f] = m[f]
    BY <1>1, <2>1
  <2> QED BY <2>2, <2>4, <2>5 DEF Filled
<1>11. Filled(g, m, s)
  BY <1>5, <1>6, <1>7, <1>8, <1>9, <1>10
<1> QED BY <1>11 DEF g, p

\* The id is among what the setters of a HELLO's fields keep.
LEMMA HelloKeepsId ==
  ASSUME NEW p \in Object, NEW s \in Object
  PROVE  HelloObject(p, s).id = p.id
<1> DEFINE a == SetEndpoint(p, s.endpoint)
           b == SetGroups(a, Items(s.groups))
           c == SetStatus(b, s.status)
           d == SetName(c, s.name)
           g == SetHeaders(d, Items(s.headers))
<1>1. /\ s.endpoint \in CString /\ s.name \in CString /\ s.status \in Nat
      /\ Items(s.groups) \in Groups
  <2>1. /\ s.endpoint \in Buffer /\ s.name \in Buffer /\ s.status \in Octet
        /\ s.groups \in Groups
    BY DEF Object, Msg, Groups
  <2> QED BY <2>1, OctetsAreFrames, EmptyLists, BaseType DEF Octet, Items
<1>2. a \in Object /\ Differs(a, p, "endpoint", s.endpoint)
  BY <1>1, SettersType, SettersDiffer
<1> HIDE DEF a
<1>3. b \in Object /\ Differs(b, a, "groups", Items(s.groups))
  BY <1>1, <1>2, SettersType, SettersDiffer
<1> HIDE DEF b
<1>4. c \in Object /\ Differs(c, b, "status", s.status)
  BY <1>1, <1>3, SettersType, SettersDiffer
<1> HIDE DEF c
<1>5. d \in Object /\ Differs(d, c, "name", s.name)
  BY <1>1, <1>4, SettersType, SettersDiffer
<1> HIDE DEF d
<1>6. Differs(g, d, "headers", Items(s.headers))
  BY <1>5, SettersDiffer
<1> HIDE DEF g
<1>7. g.id = p.id
  <2>1. "id" \in DOMAIN New
    BY DEF New
  <2> QED BY <1>2, <1>3, <1>4, <1>5, <1>6, <2>1 DEF Differs
<1> QED BY <1>7 DEF HelloObject, g, d, c, b, a

\* What zre_msg_recv makes of the first frame of a message with lists or content.
LEMMA LongDecoded ==
  ASSUME NEW m0 \in Object, NEW s \in Object, s.id \in {HELLO, WHISPER, SHOUT}, LengthsFit(s),
         NEW octet \in Octet
  PROVE  LET c == Decode(m0, Encode(s, octet))
             p == SetSequence(SetId(m0, s.id), s.sequence)
         IN  /\ c.ok /\ c.rc = 0 /\ c.m.id = s.id
             /\ s.id = HELLO => c.m = HelloObject(p, s)
             /\ s.id = WHISPER => c.m = p
             /\ s.id = SHOUT => c.m = SetGroup(p, s.group)
<1> DEFINE c == Decode(m0, Encode(s, octet))
           a == SetId(m0, s.id)
           p == SetSequence(a, s.sequence)
<1>1. /\ s \in Msg /\ s.id \in Ids /\ s.id \in Octet /\ s.sequence \in 0 .. Base * Base - 1
      /\ s.group \in Buffer /\ s.group \in CString /\ s.sequence \in Nat
  <2>1. s \in Msg /\ s.id \in Ids /\ s.id \in Octet /\ s.sequence \in 0 .. Base * Base - 1
        /\ s.group \in Buffer
    BY IdType DEF Object, Msg, HELLO, WHISPER, SHOUT
  <2>2. \A n : 0 .. n \subseteq Nat
    OBVIOUS
  <2> QED BY <2>1, <2>2, OctetsAreFrames
<1>2. a \in Object /\ Differs(a, m0, "id", s.id)
  BY <1>1, SettersType, SettersDiffer
<1>3. PICK pad \in Frame :
        Encode(s, octet) = PutNumber2(Signature) \o (PutNumber1(s.id) \o
            (PutNumber1(2) \o (PutNumber2(s.sequence) \o (Rest(s) \o pad))))
  BY <1>1, EncodeShape
<1> DEFINE flat == Rest(s) \o pad
<1>4. flat \in Frame
  <2>1. Rest(s) \in Frame
    BY <1>1, EncodeShape
  <2> QED BY <2>1, FrameConcat
<1>5. /\ s.id = HELLO => c = RecvHello(At(p, flat))
      /\ s.id = WHISPER => c = At(p, flat)
      /\ s.id = SHOUT => c = RecvShout(At(p, flat))
  <2> HIDE DEF flat
  <2>1. Encode(s, octet) = PutNumber2(Signature) \o (PutNumber1(s.id) \o
            (PutNumber1(2) \o (PutNumber2(s.sequence) \o flat)))
    BY <1>3 DEF flat
  <2> QED BY <1>1, <1>4, <2>1, DecodeShape
<1> HIDE DEF c
<1>6. p \in Object /\ p.id = s.id
  <2> HIDE DEF a
  <2>1. p \in Object /\ Differs(p, a, "sequence", s.sequence)
    BY <1>1, <1>2, SettersType, SettersDiffer
  <2>2. "id" \in DOMAIN New
    BY DEF New
  <2> HIDE DEF p
  <2> QED BY <1>2, <2>1, <2>2 DEF Differs
<1> HIDE DEF p, a
<1>7. ASSUME s.id = HELLO
      PROVE  c.ok /\ c.rc = 0 /\ c.m.id = s.id /\ c.m = HelloObject(p, s)
  <2>1. c = RecvHello(At(p, PutHello(s) \o pad))
    BY <1>5, <1>7 DEF Rest
  <2>2. c.ok /\ c.rc = 0 /\ c.m = HelloObject(p, s)
    BY <1>6, <2>1, HelloDecoded
  <2>3. HelloObject(p, s).id = s.id
    BY <1>1, <1>6, HelloKeepsId
  <2> QED BY <2>2, <2>3
<1>8. ASSUME s.id = WHISPER
      PROVE  c.ok /\ c.rc = 0 /\ c.m.id = s.id /\ c.m = p
  BY <1>5, <1>6, <1>8 DEF At
<1>9. ASSUME s.id = SHOUT
      PROVE  c.ok /\ c.rc = 0 /\ c.m.id = s.id /\ c.m = SetGroup(p, s.group)
  <2>1. Rest(s) = PutString(s.group)
    BY <1>9 DEF Rest, PutFlat, HELLO, SHOUT, JOIN, LEAVE, ELECT, LEADER
  <2>2. c = GetString(At(p, PutString(s.group) \o pad), SetGroup)
    BY <1>5, <1>9, <2>1 DEF RecvShout
  <2>3. c = At(SetGroup(p, s.group), pad)
    BY <1>1, <2>2, TextRead
  <2>4. SetGroup(p, s.group).id = p.id
    <3>1. Differs(SetGroup(p, s.group), p, "group", s.group)
      BY <1>6, SettersDiffer
    <3>2. "id" \in DOMAIN New
      BY DEF New
    <3> QED BY <3>1, <3>2 DEF Differs
  <2> QED BY <1>6, <2>3, <2>4 DEF At
<1>10. HELLO # WHISPER /\ HELLO # SHOUT /\ WHISPER # SHOUT
  BY DEF HELLO, WHISPER, SHOUT
<1> QED BY <1>7, <1>8, <1>9, <1>10 DEF c, p, a

\* Behind the first frame zre_msg_recv takes the frames of the content, all of
\* them and none of the message behind.
LEMMA ContentTaken ==
  ASSUME NEW w, Wired(w), w # <<>>, NEW f \in Seq(Frame), Len(f) >= 1, Len(f) + 1 <= Len(w),
         \A j \in 1 .. Len(f) : w[j + 1].data = f[j] /\ (w[j + 1].more <=> j < Len(f))
  PROVE  LET next == IF w[2].more THEN AfterMultipart(w, 3) ELSE 3
         IN  [i \in 1 .. next - 3 |-> w[i + 2].data]
                = [i \in 1 .. Len(f) - 1 |-> f[i + 1]]
<1> DEFINE next == IF w[2].more THEN AfterMultipart(w, 3) ELSE 3
           n == Len(f)
           e == AfterMultipart(w, 3) - 1
<1>1. w \in Seq(ObjectFrame) /\ Closed(w) /\ Len(w) \in Nat /\ n \in Nat /\ n >= 1
  BY DEF Wired
<1>2. w[2].more <=> 1 < n
  <2>1. 1 \in 1 .. n /\ 1 + 1 = 2
    BY <1>1
  <2> QED BY <2>1
<1>3. \A k \in 2 .. n + 1 : w[k].more <=> k < n + 1
  <2> SUFFICES ASSUME NEW k \in 2 .. n + 1 PROVE w[k].more <=> k < n + 1
    OBVIOUS
  <2>1. k - 1 \in 1 .. n /\ (k - 1) + 1 = k /\ (k - 1 < n <=> k < n + 1)
    BY <1>1
  <2> QED BY <2>1
<1>4. \A i \in 1 .. n - 1 : w[i + 2].data = f[i + 1]
  <2> SUFFICES ASSUME NEW i \in 1 .. n - 1 PROVE w[i + 2].data = f[i + 1]
    OBVIOUS
  <2>1. i + 1 \in 1 .. n /\ (i + 1) + 1 = i + 2
    BY <1>1
  <2> QED BY <2>1
<1>5. next = n + 2
  <2>1. CASE n = 1
    BY <1>2, <2>1
  <2>2. CASE n > 1
    <3>1. 3 \in 1 .. Len(w)
      BY <1>1, <2>2
    <3>2. /\ e \in 3 .. Len(w) /\ AfterMultipart(w, 3) = e + 1
          /\ ~w[e].more /\ \A k \in 3 .. e - 1 : w[k].more
      BY <1>1, <3>1, EndOfMultipart
    <3> HIDE DEF e, n
    <3>3. ~(e < n + 1)
      <4> SUFFICES ASSUME e < n + 1 PROVE FALSE
        OBVIOUS
      <4>1. e \in 2 .. n + 1
        BY <1>1, <3>2
      <4> QED BY <1>3, <3>2, <4>1
    <3>4. ~(n + 1 < e)
      <4> SUFFICES ASSUME n + 1 < e PROVE FALSE
        OBVIOUS
      <4>1. n + 1 \in 3 .. e - 1 /\ n + 1 \in 2 .. n + 1 /\ ~(n + 1 < n + 1)
        BY <1>1, <2>2, <3>2
      <4> QED BY <1>3, <3>2, <4>1
    <3>5. e = n + 1
      BY <1>1, <3>2, <3>3, <3>4
    <3>6. next = e + 1
      BY <1>2, <2>2, <3>2
    <3> QED BY <1>1, <3>5, <3>6
  <2> QED BY <1>1, <2>1, <2>2
<1> HIDE DEF next
<1>6. next - 3 = n - 1
  BY <1>1, <1>5
<1>7. [i \in 1 .. next - 3 |-> w[i + 2].data] = [i \in 1 .. n - 1 |-> f[i + 1]]
  <2> HIDE DEF n
  <2>1. [i \in 1 .. n - 1 |-> w[i + 2].data] = [i \in 1 .. n - 1 |-> f[i + 1]]
    BY <1>4
  <2> QED BY <1>6, <2>1
<1> QED BY <1>7 DEF next, n

\* With lists or content the object is the one that the first frame behind the
\* routing id fills, with the frames of the content.
LEMMA LongReceived ==
  ASSUME NEW w, Wired(w), w # <<>>, w[1].sent # Null,
         w[1].sent.id \in {HELLO, WHISPER, SHOUT}, LengthsFit(w[1].sent), NEW m0 \in Object
  PROVE  LET s == w[1].sent
             r == Receive(m0, w)
             p == Plain(m0, w[1].data, s)
         IN  /\ r.rc = 0
             /\ s.id = HELLO => r.m = HelloObject(p, s)
             /\ s.id \in {WHISPER, SHOUT} => r.m = FlatObject(p, s)
<1> DEFINE s == w[1].sent
           r == Receive(m0, w)
           named == SetRoutingId(m0, w[1].data)
           p == SetSequence(SetId(named, s.id), s.sequence)
           g == ContentFrames(s)
<1>1. s \in Object /\ s \in Msg /\ w[1].data \in Frame /\ w[1].more /\ Len(w) \in Nat
  BY SentShape DEF Object
<1>2. PICK octet \in Octet :
        LET f == Multipart(s, octet)
        IN  /\ f \in Seq(Frame) /\ Len(f) + 1 <= Len(w)
            /\ \A j \in 1 .. Len(f) :
                  w[j + 1].data = f[j] /\ (w[j + 1].more <=> j < Len(f))
  BY SentShape
<1> DEFINE e == Encode(s, octet)
           c == Decode(named, w[2].data)
           f == Multipart(s, octet)
           next == IF w[2].more THEN AfterMultipart(w, 3) ELSE 3
           content == [i \in 1 .. next - 3 |-> w[i + 2].data]
<1>3. g \in Seq(Frame)
  <2>1. s.content \in Seq(Frame) \cup {Null} /\ <<>> \in Frame
    BY <1>1 DEF Msg, Frame
  <2>2. << <<>> >> \in Seq(Frame) /\ <<>> \in Seq(Frame)
    BY <2>1
  <2> QED BY <2>1, <2>2 DEF ContentFrames
<1>4. f = <<e>> \o g
  BY DEF Multipart
<1>5. f \in Seq(Frame) /\ Len(f) + 1 <= Len(w)
      /\ \A j \in 1 .. Len(f) : w[j + 1].data = f[j] /\ (w[j + 1].more <=> j < Len(f))
  BY <1>2
<1>6. r = CASE ~w[1].more -> Result(named, 2, 1)
            [] w[1].more /\ HasContent(c) -> Result(SetContent(c.m, content), next, c.rc)
            [] OTHER -> Result(c.m, 3, c.rc)
  BY DEF Receive
<1> HIDE DEF e, f, g
<1>7. Len(f) = 1 + Len(g) /\ f[1] = e /\ \A i \in 1 .. Len(g) : f[i + 1] = g[i]
  BY <1>3, <1>4
<1>8. Len(g) \in Nat /\ Len(f) >= 1 /\ Len(f) - 1 = Len(g) /\ 1 \in 1 .. Len(f)
  BY <1>3, <1>7
<1>9. w[2].data = e
  <2>1. 1 + 1 = 2
    OBVIOUS
  <2> QED BY <1>5, <1>7, <1>8, <2>1
<1>10. content = g
  <2>1. content = [i \in 1 .. Len(f) - 1 |-> f[i + 1]]
    BY <1>5, <1>8, ContentTaken
  <2>2. g = [i \in 1 .. Len(g) |-> g[i]]
    BY <1>3
  <2> HIDE DEF content
  <2> QED BY <1>7, <1>8, <2>1, <2>2
<1> HIDE DEF content, next
<1>11. named \in Object
  BY <1>1, SettersType DEF Octets
<1> HIDE DEF named, r
<1>12. /\ c.ok /\ c.rc = 0 /\ c.m.id = s.id
       /\ s.id = HELLO => c.m = HelloObject(p, s)
       /\ s.id = WHISPER => c.m = p
       /\ s.id = SHOUT => c.m = SetGroup(p, s.group)
  BY <1>1, <1>9, <1>11, LongDecoded DEF e
<1> HIDE DEF c, p, s
<1>13. s.id = HELLO => r.rc = 0 /\ r.m = HelloObject(p, s)
  <2> SUFFICES ASSUME s.id = HELLO PROVE r.rc = 0 /\ r.m = HelloObject(p, s)
    OBVIOUS
  <2>1. ~HasContent(c)
    BY <1>12 DEF HasContent, HELLO, WHISPER, SHOUT
  <2>2. r = Result(c.m, 3, c.rc)
    BY <1>1, <1>6, <2>1
  <2> QED BY <1>12, <2>2 DEF Result
<1>14. s.id \in {WHISPER, SHOUT} => r.rc = 0 /\ r.m = FlatObject(p, s)
  <2> SUFFICES ASSUME s.id \in {WHISPER, SHOUT} PROVE r.rc = 0 /\ r.m = FlatObject(p, s)
    OBVIOUS
  <2>1. HasContent(c)
    BY <1>12 DEF HasContent
  <2>2. r = Result(SetContent(c.m, g), next, c.rc)
    BY <1>1, <1>6, <1>10, <2>1
  <2>3. r.rc = 0 /\ r.m = SetContent(c.m, g)
    BY <1>12, <2>2 DEF Result
  <2>4. s.id = WHISPER => FlatObject(p, s) = SetContent(p, g)
    BY DEF FlatObject, g, WHISPER, SHOUT, JOIN, LEAVE, ELECT, LEADER
  <2>5. s.id = SHOUT => FlatObject(p, s) = SetContent(SetGroup(p, s.group), g)
    BY DEF FlatObject, g, WHISPER, SHOUT, JOIN, LEAVE, ELECT, LEADER
  <2> QED BY <1>12, <2>3, <2>4, <2>5
<1>15. s.id \in {HELLO, WHISPER, SHOUT} => r.rc = 0
  BY <1>13, <1>14
<1> QED BY <1>13, <1>14, <1>15 DEF r, p, named, s, Plain

\* Whatever its type, a message arrives in any object.
LEMMA Returns ==
  ASSUME NEW w, Wired(w), w # <<>>, w[1].sent # Null, w[1].sent.id \in Ids,
         LengthsFit(w[1].sent), NEW m0 \in Object
  PROVE  Receive(m0, w).rc = 0 /\ Filled(Receive(m0, w).m, m0, w[1].sent)
<1> DEFINE s == w[1].sent
           id == w[1].data
           r == Receive(m0, w)
           p == Plain(m0, id, s)
<1>1. s \in Object /\ id \in Octets
  BY SentShape DEF Octets
<1>2. s.id \in {HELLO, WHISPER, SHOUT} \/ s.id \in Control
  BY IdType DEF HELLO, WHISPER, SHOUT, JOIN, LEAVE, PING, PING_OK, ELECT, LEADER, GOODBYE,
                Control
<1>3. ASSUME s.id = HELLO PROVE r.rc = 0 /\ Filled(r.m, m0, s)
  <2>1. r.rc = 0 /\ r.m = HelloObject(p, s)
    BY <1>3, LongReceived
  <2> QED BY <1>1, <1>3, <2>1, HelloFilled
<1>4. s.id \in Ids \ {HELLO} => Filled(FlatObject(p, s), m0, s)
  BY <1>1, FlatFilled
<1>5. ASSUME s.id \in {WHISPER, SHOUT} PROVE r.rc = 0 /\ Filled(r.m, m0, s)
  <2>1. r.rc = 0 /\ r.m = FlatObject(p, s)
    BY <1>5, LongReceived
  <2>2. s.id \in Ids \ {HELLO}
    BY <1>5 DEF HELLO, WHISPER, SHOUT
  <2> QED BY <1>4, <2>1, <2>2
<1>6. ASSUME s.id \in Control PROVE r.rc = 0 /\ Filled(r.m, m0, s)
  <2>1. /\ r.rc = 0
        /\ s.id \in {JOIN, LEAVE} => r.m = SetStatus(SetGroup(p, s.group), s.status)
        /\ s.id = ELECT => r.m = SetChallenger(SetGroup(p, s.group), s.challenger)
        /\ s.id = LEADER => r.m = SetLeader(SetGroup(p, s.group), s.leader)
        /\ s.id \in {PING, PING_OK, GOODBYE} => r.m = p
    BY <1>6, ControlReceived DEF Plain
  <2> HIDE DEF r, p
  <2>2. /\ s.id \in {JOIN, LEAVE} =>
              FlatObject(p, s) = SetStatus(SetGroup(p, s.group), s.status)
        /\ s.id = ELECT => FlatObject(p, s) = SetChallenger(SetGroup(p, s.group), s.challenger)
        /\ s.id = LEADER => FlatObject(p, s) = SetLeader(SetGroup(p, s.group), s.leader)
        /\ s.id \in {PING, PING_OK, GOODBYE} => FlatObject(p, s) = p
    BY DEF FlatObject, HELLO, WHISPER, SHOUT, JOIN, LEAVE, PING, PING_OK, ELECT, LEADER,
           GOODBYE
  <2>3. r.m = FlatObject(p, s)
    BY <1>6, <2>1, <2>2 DEF Control
  <2>4. s.id \in Ids \ {HELLO}
    BY <1>6 DEF Control, HELLO, JOIN, LEAVE, PING, PING_OK, ELECT, LEADER, GOODBYE
  <2> QED BY <1>4, <2>1, <2>3, <2>4
<1> QED BY <1>2, <1>3, <1>5, <1>6

\* What RoundTrip says of the last message and the object.
Returned(l, g) ==
  (/\ l.sent # Null /\ l.sent.id \in Ids
   /\ l.sent.id \in Control => ~l.fresh
   /\ LengthsFit(l.sent)) =>
      /\ l.rc = 0
      /\ g.id = l.sent.id
      /\ \A field \in Carried(g.id) : g[field] = Arrival(l.sent, field)
      /\ l.fresh =>
          \A field \in DOMAIN New \ ({"id", "routingId"} \cup Carried(g.id)) :
              g[field] = New[field]

LEMMA RecvReturns ==
  ASSUME Sound, Recv
  PROVE  Returned(last', got')
<1>1. PICK fresh \in BOOLEAN :
        LET m == IF fresh THEN New ELSE got
            r == Receive(m, wire)
        IN  /\ m \in Object /\ got' = r.m
            /\ last' = [sent |-> wire[1].sent, rc |-> r.rc, fresh |-> fresh]
  BY RecvStep
<1>2. Wired(wire) /\ wire # <<>>
  BY DEF Sound, Recv
<1> SUFFICES ASSUME last'.sent # Null, last'.sent.id \in Ids, LengthsFit(last'.sent)
             PROVE  Returned(last', got')
  BY DEF Returned
<1> DEFINE s == wire[1].sent
           m == IF fresh THEN New ELSE got
           r == Receive(m, wire)
<1>3. /\ m \in Object /\ got' = r.m /\ last'.sent = s /\ last'.rc = r.rc
      /\ (last'.fresh <=> fresh)
  BY <1>1
<1>4. fresh => m = New
  OBVIOUS
<1> HIDE DEF m
<1>5. r.rc = 0 /\ Filled(r.m, m, s)
  BY <1>2, <1>3, Returns
<1> HIDE DEF r, s
<1>6. /\ got'.id = s.id /\ \A f \in Carried(s.id) : got'[f] = Arrival(s, f)
      /\ \A f \in DOMAIN New \ ({"id", "routingId"} \cup Carried(s.id)) : got'[f] = m[f]
  BY <1>3, <1>5 DEF Filled
<1>7. last'.fresh =>
        \A f \in DOMAIN New \ ({"id", "routingId"} \cup Carried(s.id)) : got'[f] = New[f]
  BY <1>3, <1>4, <1>6
<1> QED BY <1>3, <1>5, <1>6, <1>7 DEF Returned

\* Every message that zre_msg_send sent, with its lists and its content, is
\* received as it was sent: in a new object and nothing else, and in an object
\* that has been used whatever it held.
THEOREM MessagesReturn == Spec => []RoundTrip
<1>1. Init => RoundTrip
  BY DEF Init, RoundTrip
<1>2. Sound /\ RoundTrip /\ [Next]_vars => RoundTrip'
  <2> SUFFICES ASSUME Sound, RoundTrip, [Next]_vars PROVE RoundTrip'
    OBVIOUS
  <2>1. (RoundTrip <=> Returned(last, got)) /\ (RoundTrip' <=> Returned(last', got'))
    BY DEF RoundTrip, Returned
  <2>2. CASE last' = last /\ got' = got
    <3>1. Returned(last, got)
      BY <2>1
    <3> QED BY <2>1, <2>2, <3>1
  <2>3. CASE last'.sent = Null
    BY <2>1, <2>3 DEF Returned
  <2>4. CASE Recv
    BY <2>1, <2>4, RecvReturns
  <2> QED BY <2>2, <2>3, <2>4, HeardOf
<1> QED BY <1>1, <1>2, AlwaysSound, PTL DEF Spec

=============================================================================
