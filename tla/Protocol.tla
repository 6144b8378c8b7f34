------------------------------ MODULE Protocol ------------------------------
(***************************************************************************)
(* The wire protocol: ByteWriter and ByteReader (include/net/              *)
(* Serialize.hpp), the messages and frames of src/net/Protocol.cpp, and    *)
(* recv_msg of src/net/Socket.cpp, as operators on sequences of bytes.     *)
(*                                                                         *)
(* A message is [type, vals], vals being its fields in the order in which  *)
(* they are written, the elements of a list one after the other.  A byte   *)
(* has Base values (256 in the code), so that small numbers fill several.  *)
(***************************************************************************)
EXTENDS Integers, Sequences

CONSTANTS
  Base,
  kMagic,
  kMaxPayload,
  Samples     \* the messages the checks are about

ASSUME ProtocolAssumption == Base \in Nat \ {0, 1} /\ kMagic \in 0 .. Base ^ 4 - 1 /\ kMaxPayload \in Nat

kHeaderSize == 12

MsgType ==
  <<"Register", "RegisterAck", "Heartbeat", "NodeList", "StealRequest", "StealResponse", "TaskResult",
    "Shutdown">>

(* The fields of each message; of the two lists, those of one element and  *)
(* those after the last element.  A blob is written as a string is.        *)
Header == <<"u32", "u16", "u16", "u32">>

Layout ==
  [Register |-> <<"str", "u16", "u32", "str">>,
   RegisterAck |-> <<"u32">>,
   Heartbeat |-> <<"u32", "u64", "u64">>,
   StealRequest |-> <<"u32", "u32", "u16">>,
   TaskResult |-> <<"u64", "u32">>]

Element ==
  [NodeList |-> <<"u32", "str", "u16", "u32", "str", "u64">>,
   StealResponse |-> <<"u64", "u64", "u32", "u32", "u32", "u16", "str">>]

AfterList == [NodeList |-> <<>>, StealResponse |-> <<"u64">>]

IsList(type) == type \in DOMAIN Element

Repeat(s, n) == [i \in 1 .. n * Len(s) |-> s[((i - 1) % Len(s)) + 1]]

Fields(type, count) ==
  IF IsList(type) THEN <<"u32">> \o Repeat(Element[type], count) \o AfterList[type] ELSE Layout[type]

----------------------------------------------------------------------------
(* ByteWriter: numbers low byte first, strings behind their length.        *)

Width == [u16 |-> 2, u32 |-> 4, u64 |-> 8]

Digits(v, w) == [i \in 1 .. w |-> (v \div Base ^ (i - 1)) % Base]

Write(kind, v) == IF kind = "str" THEN Digits(Len(v), 4) \o v ELSE Digits(v, Width[kind])

WriteAll(kinds, vals) ==
  LET from[i \in 1 .. Len(kinds) + 1] ==
        IF i > Len(kinds) THEN <<>> ELSE Write(kinds[i], vals[i]) \o from[i + 1]
  IN from[1]

Encode(m) == WriteAll(Fields(m.type, IF IsList(m.type) THEN m.vals[1] ELSE 0), m.vals)

----------------------------------------------------------------------------
(* ByteReader: a position, a sticky failure flag, and what was read.       *)

Reader == [pos |-> 0, ok |-> TRUE, vals |-> <<>>]

(* Faulty variant: the bound is one too high.                              *)
Need_OffByOne(b, r, n) == r.ok /\ r.pos + n <= Len(b) + 1

Need(b, r, n) == r.ok /\ r.pos + n <= Len(b)

(* The byte at i; past the end of the buffer, whatever lies there.         *)
At(b, i) == IF i \in DOMAIN b THEN b[i] ELSE 0

Number(b, pos, w) ==
  LET sum[i \in 0 .. w] == IF i = 0 THEN 0 ELSE sum[i - 1] + At(b, pos + i) * Base ^ (i - 1)
  IN sum[w]

Fail(r, v) == [r EXCEPT !.ok = FALSE, !.vals = Append(@, v)]

ReadNumber(b, r, w) ==
  IF Need(b, r, w)
  THEN [r EXCEPT !.pos = @ + w, !.vals = Append(@, Number(b, r.pos, w))]
  ELSE Fail(r, 0)

ReadStr(b, r) ==
  LET n == IF Need(b, r, 4) THEN Number(b, r.pos, 4) ELSE 0
      s == [r EXCEPT !.pos = @ + 4]
  IN IF Need(b, r, 4) /\ Need(b, s, n)
     THEN [s EXCEPT !.pos = @ + n, !.vals = Append(@, [i \in 1 .. n |-> At(b, s.pos + i)])]
     ELSE Fail(r, <<>>)

Read(b, r, kind) == IF kind = "str" THEN ReadStr(b, r) ELSE ReadNumber(b, r, Width[kind])

ReadAll(b, kinds) ==
  LET upto[i \in 0 .. Len(kinds)] == IF i = 0 THEN Reader ELSE Read(b, upto[i - 1], kinds[i])
  IN upto[Len(kinds)]

(* A list is read until its count is reached or a read fails, which it     *)
(* does before there are more elements than bytes.  Bytes left over are    *)
(* not looked at.                                                          *)
Decode(type, b) ==
  LET count == ReadAll(b, <<"u32">>).vals[1]
  IN ReadAll(b, Fields(type, IF ~IsList(type) THEN 0 ELSE IF count > Len(b) THEN Len(b) ELSE count))

----------------------------------------------------------------------------
(* Frames.                                                                 *)

IndexOf(type) == CHOOSE i \in DOMAIN MsgType : MsgType[i] = type

Frame(m) ==
  LET payload == Encode(m)
  IN WriteAll(Header, <<kMagic, IndexOf(m.type), 0, Len(payload)>>) \o payload

ParseHeader(b) ==
  LET r == ReadAll(b, Header)
  IN [ok |-> r.ok /\ r.vals[1] = kMagic /\ r.vals[4] <= kMaxPayload, type |-> r.vals[2], len |-> r.vals[4]]

(* recv_msg on the bytes s: the frame at the front of s, or failure.  When *)
(* s is too short it waits, and fails when the socket's timeout expires.   *)
RecvMsg(s) ==
  LET h == ParseHeader(SubSeq(s, 1, kHeaderSize))
  IN IF Len(s) >= kHeaderSize /\ h.ok /\ Len(s) >= kHeaderSize + h.len
     THEN [ok |-> TRUE, type |-> h.type, payload |-> SubSeq(s, kHeaderSize + 1, kHeaderSize + h.len)]
     ELSE [ok |-> FALSE, type |-> 0, payload |-> <<>>]

----------------------------------------------------------------------------
(* What makes the protocol sound for a message m, and a message n after it *)
(* in the stream.                                                          *)

RoundTrip(m) ==
  LET r == RecvMsg(Frame(m))
      d == Decode(m.type, r.payload)
  IN r.ok /\ MsgType[r.type] = m.type /\ d.ok /\ d.vals = m.vals

CutRejected(m) ==
  \A k \in 0 .. Len(Encode(m)) - 1 : ~Decode(m.type, SubSeq(Encode(m), 1, k)).ok

OutOfStepRejected(m, n) ==
  LET s == Frame(m) \o Frame(n)
  IN \A k \in 1 .. Len(s) : k # Len(Frame(m)) => ~RecvMsg(SubSeq(s, k + 1, Len(s))).ok

SamplesSound ==
  \A m \in Samples : RoundTrip(m) /\ CutRejected(m) /\ \A n \in Samples : OutOfStepRejected(m, n)
=============================================================================
