------------------------- MODULE VisionTunnelProofs -------------------------
(***************************************************************************)
(* Proofs about the tunnel of VisionTunnel, on top of the round trips and  *)
(* the reader's lemmas of VlessProofs: first with the echo server at its   *)
(* far end, then with the external peers and their streams.                *)
(***************************************************************************)
EXTENDS VisionTunnel, VlessProofs

(* A writer past its END, and an outbound end that has spent its header. *)
SpentWriter == [uuid |-> <<>>, is_padding |-> FALSE]
SpentOut == [header |-> <<>>, writer |-> SpentWriter]

(* The first record of either direction: what a fresh reader makes of it.  *)
UpFirst(q, p, f) ==
    LET u == Unpad(NewReader(q.uuid), f)
    IN  u.ok /\ u.rd.state = "Direct" /\ u.out = BuildRequestHeader(q) \o p

DownFirst(q, p, f) ==
    LET u == Unwrap(NewIn(q.uuid), f)
    IN  u.ok /\ u.vi = SeenIn(u.vi.reader) /\ u.vi.reader.state = "Direct" /\ u.out = p

First(way, q, p, f) == IF way = "up" THEN UpFirst(q, p, f) ELSE DownFirst(q, p, f)

(* The k-th record of a direction that carries the packets s: only the     *)
(* first is padded.                                                        *)
Carried(way, q, s, k, f) == IF k = 1 THEN First(way, q, s[1], f) ELSE f = s[k]

(* A wire on which the records of s after the n-th are still under way.    *)
Wire(way, q, s, n, frames) ==
    /\ frames \in Seq(Seq(Byte)) /\ n \in Nat /\ n + Len(frames) = Len(s)
    /\ \A i \in 1..Len(frames) : Carried(way, q, s, n + i, frames[i])

(* s begins with all of t. *)
Begins(t, s) == /\ t \in Seq(Packets) /\ Len(t) <= Len(s)
                /\ \A i \in 1..Len(t) : t[i] = s[i]

(* The client's outbound end has its header until its first write. *)
OutInv == vless_out = IF sent = <<>> /\ up.end = "open" THEN NewOut(req) ELSE SpentOut

UpInv ==
    /\ sent \in Seq(Packets) /\ Begins(arrived, sent)
    /\ Wire("up", req, sent, Len(arrived), up.frames)
    /\ up = [frames |-> up.frames, end |-> up.end]
    /\ up.end \in {"open", "eof", "prefix", "payload"}

(* The server has met the request with the first packet. *)
ServerIs(reader, writer, request, result) ==
    server = [reader |-> reader, writer |-> writer, request |-> request, result |-> result]

Fresh(result) == ServerIs(NewReader(req.uuid), NewWriter(req.uuid), None, result)

ServerInv ==
    /\ IF arrived = <<>> THEN Fresh(server.result)
       ELSE /\ server.reader.state = "Direct"
            /\ ServerIs(server.reader, SpentWriter, Some(Asked(req)), server.result)
    /\ server.result \in ServerResults \ {"refused"}
    /\ server.result = "ok" => up.frames = <<>> /\ up.end \in {"eof", "prefix"}

(* What was replied is what arrived, or all but the packet whose reply     *)
(* broke off.  What the client has not taken is still under way for as     *)
(* long as it is in step, which it stays until a reply meets a closed TUN. *)
RepliesInv ==
    /\ Begins(replied, arrived) /\ Len(arrived) <= Len(replied) + 1
    /\ server.result # "write_record" => replied = arrived

DownInv ==
    /\ Begins(tun, replied)
    /\ instep => Wire("down", req, replied, Len(tun), down.frames)
    /\ down = [frames |-> down.frames, end |-> down.end]

InInv ==
    /\ instep \in BOOLEAN /\ (replied = <<>> => instep)
    /\ instep => IF tun = <<>> THEN vless_in = NewIn(req.uuid)
                 ELSE vless_in = SeenIn(vless_in.reader) /\ vless_in.reader.state = "Direct"

(* After a probe nothing is wrapped, and the server, unless its read timed *)
(* out before, ends the session over it.                                   *)
ProbedInv ==
    /\ sent = <<>> /\ arrived = <<>> /\ replied = <<>> /\ tun = <<>>
    /\ down = [frames |-> <<>>, end |-> down.end] /\ Fresh(server.result)
    /\ \/ up = [frames |-> <<PROBE>>, end |-> "open"] /\ server.result \in {"running", "record_loop"}
       \/ server.result = "refused"

(* The external peers have no way up. *)
ExternalInv == sent = <<>> /\ arrived = <<>> /\ Fresh("running") /\ ~probed

EchoParts == OutInv /\ UpInv /\ ServerInv /\ RepliesInv /\ DownInv /\ InInv

EchoInv ==
    /\ req \in Requests
    /\ peer # "echo" => ExternalInv
    /\ peer = "echo" => backlog = <<>>
    /\ peer = "echo" /\ probed => ProbedInv
    /\ peer = "echo" /\ ~probed => EchoParts

-----------------------------------------------------------------------------
(* What the ends of the tunnel make of one record. *)

(* What VisionWriter writes for a first payload is bytes. *)
LEMMA PadBytes ==
    ASSUME NEW uuid \in Seq(Byte), NEW payload \in Seq(Byte), NEW long, NEW end, NEW rnd,
           \A i \in 1..FrameCount(Len(payload)) : rnd[i] \in Nat
    PROVE  Pad(NewWriter(uuid), payload, long, end, rnd).out \in Seq(Byte)
<1>0. Ready(LockedOn(uuid), uuid)
  BY Zenon DEF Ready, LockedOn
<1>1. Carries(LockedOn(uuid), uuid, uuid, payload, end,
              Pad(NewWriter(uuid), payload, long, end, rnd).out)
  BY <1>0, PadReads
<1>2. PICK w \in Seq(Byte) : Pad(NewWriter(uuid), payload, long, end, rnd).out = uuid \o w
  BY <1>1, Zenon DEF Carries
<1>3. uuid \o w \in Seq(Byte)
  BY ConcatLen
<1> QED
  BY <1>2, <1>3, Zenon

(* A writer that ends its padding is spent, and writes raw from then on. *)
LEMMA PadSpends ==
    ASSUME NEW uuid, NEW payload, NEW long, NEW end, end = TRUE, NEW rnd
    PROVE  Pad(NewWriter(uuid), payload, long, end, rnd).writer = SpentWriter
<1>1. PICK f : f = FALSE /\ f = ~end
  OBVIOUS
<1>2. NewWriter(uuid).is_padding = TRUE
  BY DEF NewWriter
<1>3. Pad(NewWriter(uuid), payload, long, end, rnd).writer = [uuid |-> <<>>, is_padding |-> f]
  BY <1>1, <1>2, Zenon DEF Pad
<1> QED
  BY <1>1, <1>3, Zenon DEF SpentWriter

(* A spent writer writes a payload as it is. *)
LEMMA PadRaw ==
    ASSUME NEW payload, NEW long, NEW end, NEW rnd
    PROVE  Pad(SpentWriter, payload, long, end, rnd) = [out |-> payload, writer |-> SpentWriter]
<1>1. SpentWriter.is_padding = FALSE
  BY DEF SpentWriter
<1> QED
  BY <1>1, Zenon DEF Pad

(* A fresh reader makes the payload of f, and is past the padding. *)
Opens(uuid, payload, f) ==
    \E r : r.state = "Direct" /\ Unpad(NewReader(uuid), f) = [ok |-> TRUE, out |-> payload, rd |-> r]

(* A fresh reader makes the payload of what an ending writer wrote. *)
LEMMA PadGives ==
    ASSUME NEW uuid \in Seq(Byte), Len(uuid) = UuidLen, NEW payload \in Seq(Byte),
           NEW long, NEW end, end = TRUE, NEW rnd,
           \A i \in 1..FrameCount(Len(payload)) : rnd[i] \in Nat,
           NEW f, f = Pad(NewWriter(uuid), payload, long, end, rnd).out
    PROVE  Opens(uuid, payload, f)
<1>0. Returned(uuid, payload, end, f)
  BY PadReturned
<1>1. PICK p : Unpad(NewReader(uuid), f)
                  = [ok |-> TRUE, out |-> payload,
                     rd |-> AfterFrame(IF end THEN PADDING_END ELSE PADDING_CONTINUE, p, uuid)]
  BY <1>0, Zenon DEF Returned
<1>2. (IF end THEN PADDING_END ELSE PADDING_CONTINUE) = PADDING_END
  OBVIOUS
<1>3. PADDING_END # PADDING_CONTINUE
  BY DEF PADDING_END, PADDING_CONTINUE
<1>4. AfterFrame(PADDING_END, p, uuid) = Past(PADDING_END, p, uuid)
  BY <1>3, Zenon DEF AfterFrame
<1>5. Past(PADDING_END, p, uuid).state = "Direct"
  BY DEF Past, Rd
<1> QED
  BY <1>1, <1>2, <1>4, <1>5, Zenon DEF Opens

-----------------------------------------------------------------------------
(* The draws DrawsFor hands a writer that still pads are one number a frame. *)
LEMMA DrawsFresh ==
    ASSUME NEW uuid, NEW n, NEW rnd \in DrawsFor(NewWriter(uuid), n)
    PROVE  \A i \in 1..FrameCount(n) : rnd[i] \in Nat
<1>1. NewWriter(uuid).is_padding = TRUE
  BY DEF NewWriter
<1>2. rnd \in [1..FrameCount(n) -> Draws]
  BY <1>1, Zenon DEF DrawsFor
<1>3. Draws \subseteq Nat
  BY VisionAssumption
<1> QED
  BY <1>2, <1>3, Zenon

(* Wrap, with the header that is left. *)
Filled(h, e)   == e = (h # <<>>)
Headers(h, p, c) == c = h \o p

(* What wrap hands to the writer, the header before the first packet and   *)
(* the packet alone later, and the end it leaves: never a header again.    *)
LEMMA WrapIs ==
    ASSUME NEW h, NEW wr, NEW p, NEW rnd, NEW e, Filled(h, e), NEW c, Headers(h, p, c),
           NEW x, x = Pad(wr, c, e, e, rnd), NEW vo, vo = [header |-> h, writer |-> wr],
           NEW w, w = Wrap(vo, p, rnd)
    PROVE  w.out = x.out /\ w.vo = [header |-> <<>>, writer |-> x.writer]
<1>1. vo.header = h /\ vo.writer = wr
  OBVIOUS
<1>2. PICK v : v = [header |-> <<>>, writer |-> x.writer]
  OBVIOUS
<1>3. w = [out |-> x.out, vo |-> v]
  BY <1>1, <1>2, Zenon DEF Wrap, Filled, Headers
<1>4. w.out = x.out /\ w.vo = v
  BY <1>3
<1> QED
  BY <1>2, <1>4

(* VlessOut's first wrap: the record a fresh reader makes the header and   *)
(* the packet of.                                                          *)
Wrapped(q, p, w) == /\ w.vo = SpentOut /\ w.out \in Seq(Byte) /\ UpFirst(q, p, w.out)

(* The first wrap of a new outbound end writes a record a fresh reader     *)
(* makes the request header and the packet of.                             *)
LEMMA WrapFirst ==
    ASSUME NEW q, WellFormed(q), NEW p \in Seq(Byte), NEW n,
           n = Len(BuildRequestHeader(q)) + Len(p),
           NEW rnd \in DrawsFor(NewWriter(q.uuid), n), NEW w, w = Wrap(NewOut(q), p, rnd)
    PROVE  Wrapped(q, p, w)
<1>1. PICK h : h = BuildRequestHeader(q)
  OBVIOUS
<1>2. h \in Seq(Byte) /\ h # <<>>
  BY <1>1, HeaderReadsAs
<1>3. PICK c : c = h \o p
  OBVIOUS
<1>4. c \in Seq(Byte) /\ Len(c) = n
  BY <1>1, <1>2, <1>3, ConcatLen
<1>5. \A i \in 1..FrameCount(Len(c)) : rnd[i] \in Nat
  <2>1. \A i \in 1..FrameCount(n) : rnd[i] \in Nat
    BY DrawsFresh
  <2> QED
    BY <1>4, <2>1, Zenon
<1>6. PICK end : end = TRUE /\ Filled(h, end)
  BY <1>2, Zenon DEF Filled
<1>61. Filled(h, end)
  BY <1>6, Zenon
<1>62. Headers(h, p, c)
  BY <1>3, Zenon DEF Headers
<1>7. PICK x : x = Pad(NewWriter(q.uuid), c, end, end, rnd)
  OBVIOUS
<1>8. NewOut(q) = [header |-> h, writer |-> NewWriter(q.uuid)]
  BY <1>1, Zenon DEF NewOut
<1>9. w.out = x.out /\ w.vo = [header |-> <<>>, writer |-> x.writer]
  BY <1>61, <1>62, <1>7, <1>8, WrapIs
<1>10. q.uuid \in Seq(Byte) /\ Len(q.uuid) = UuidLen
  BY DEF WellFormed
<1>11. x.out \in Seq(Byte)
  BY <1>4, <1>5, <1>7, <1>10, PadBytes
<1>12. x.writer = SpentWriter
  BY <1>6, <1>7, PadSpends
<1>13. Opens(q.uuid, c, x.out)
  BY <1>4, <1>5, <1>6, <1>7, <1>10, PadGives
<1>14. UpFirst(q, p, x.out)
  <2>1. PICK r : r.state = "Direct" /\ Unpad(NewReader(q.uuid), x.out) = [ok |-> TRUE, out |-> c, rd |-> r]
    BY <1>13, Zenon DEF Opens
  <2>2. PICK u : u = Unpad(NewReader(q.uuid), x.out)
    OBVIOUS
  <2>3. u.ok /\ u.rd = r /\ u.out = c
    BY <2>1, <2>2
  <2> QED
    BY <1>1, <1>3, <2>1, <2>2, <2>3, Zenon DEF UpFirst
<1>15. w.vo = SpentOut
  BY <1>9, <1>12, Zenon DEF SpentOut
<1> QED
  BY <1>9, <1>11, <1>14, <1>15, Zenon DEF Wrapped

(* Every later wrap is the packet itself. *)
LEMMA WrapNext ==
    ASSUME NEW p \in Seq(Byte), NEW rnd, NEW w, w = Wrap(SpentOut, p, rnd)
    PROVE  w.out = p /\ w.vo = SpentOut
<1>1. PICK c : c = <<>> \o p /\ Headers(<<>>, p, c)
  BY Zenon DEF Headers
<1>2. PICK e : Filled(<<>>, e)
  BY Zenon DEF Filled
<1>3. PICK x : x = Pad(SpentWriter, c, e, e, rnd)
  OBVIOUS
<1>4. x = [out |-> c, writer |-> SpentWriter]
  BY <1>3, PadRaw
<1>5. SpentOut = [header |-> <<>>, writer |-> SpentWriter]
  BY DEF SpentOut
<1>6. w.out = x.out /\ w.vo = [header |-> <<>>, writer |-> x.writer]
  BY <1>1, <1>2, <1>3, <1>5, WrapIs
<1>7. x.out = c /\ x.writer = SpentWriter
  BY <1>4
<1>8. c = p
  BY <1>1
<1> QED
  BY <1>5, <1>6, <1>7, <1>8, Zenon

(* request_header_len and parse_request_header on a header and a packet. *)
ReadBack(q, p, w) ==
    /\ RequestHeaderLen(w).ok /\ HeaderLen(w) <= Len(w) /\ HeaderIn(w).ok
    /\ HeaderIn(w).req = Asked(q) /\ Slice(w, HeaderLen(w), Len(w)) = p

(* parse_request_header reads the request back in front of any packet. *)
LEMMA HeaderReadBack ==
    ASSUME NEW q, WellFormed(q), NEW p \in Seq(Byte), NEW w, w = BuildRequestHeader(q) \o p
    PROVE  ReadBack(q, p, w)
<1>1. PICK h : h = BuildRequestHeader(q)
  OBVIOUS
<1>0. ReadsAs(q, p, h, w)
  BY <1>1, HeaderReadsAs
<1>2. /\ RequestHeaderLen(w) = [ok |-> TRUE, len |-> Len(h)] /\ Len(h) <= Len(w)
      /\ ParseRequestHeader(Slice(w, 0, Len(h))) = [ok |-> TRUE, req |-> Asked(q)]
      /\ Slice(w, Len(h), Len(w)) = p
  BY <1>0, Zenon DEF ReadsAs
<1>3. RequestHeaderLen(w).ok /\ RequestHeaderLen(w).len = Len(h)
  BY <1>2
<1>4. HeaderLen(w) = Len(h)
  BY <1>3, Zenon DEF HeaderLen
<1>5. HeaderIn(w) = [ok |-> TRUE, req |-> Asked(q)]
  BY <1>2, <1>4, Zenon DEF HeaderIn
<1>6. HeaderIn(w).ok /\ HeaderIn(w).req = Asked(q)
  BY <1>5
<1> QED
  BY <1>2, <1>3, <1>4, <1>6, Zenon DEF ReadBack

(* What the server read as the identity is the client's own. *)
LEMMA AskedUuid ==
    ASSUME NEW q, WellFormed(q)
    PROVE  Asked(q).uuid = q.uuid
BY DEF Asked, WellFormed

(* The server's first answer: the record the client's fresh VlessIn makes  *)
(* the packet of, without the response header.                             *)
Answered(q, p, x) == x.writer = SpentWriter /\ x.out \in Seq(Byte) /\ DownFirst(q, p, x.out)

(* The response header in front of a packet: its length, its version and   *)
(* what follows it.                                                        *)
LEMMA ResponseParts ==
    ASSUME NEW p \in Seq(Byte), NEW c, c = BuildResponseHeader \o p
    PROVE  /\ c \in Seq(Byte) /\ Len(c) >= 4 /\ c[1] = VERSION /\ Slice(c, 4, Len(c)) = p
<1>1. PICK h : h = BuildResponseHeader
  OBVIOUS
<1>2. h \in Seq(Byte) /\ Len(h) = 4 /\ h[1] = VERSION
  BY <1>1, VlessAssumption DEF BuildResponseHeader, Byte, VERSION, FlowTag
<1>3. Parted(h \o p, h, p, 4)
  BY <1>2, Parts
<1>4. Parted(c, h, p, 4)
  BY <1>1, <1>3, Zenon
<1> QED
  BY <1>2, <1>4 DEF Parted

(* A VlessIn that has met the response has given p. *)
Gives(v, p) == v.ok /\ v.vi = SeenIn(v.vi.reader) /\ v.vi.reader.state = "Direct" /\ v.out = p

(* A new inbound end drops the response header of the first answer. *)
LEMMA FirstUnwrap ==
    ASSUME NEW uuid, NEW p \in Seq(Byte), NEW c, c = BuildResponseHeader \o p, NEW f,
           Opens(uuid, c, f), NEW v, v = Unwrap(NewIn(uuid), f)
    PROVE  Gives(v, p)
<1>1. PICK r : r.state = "Direct" /\ Unpad(NewReader(uuid), f) = [ok |-> TRUE, out |-> c, rd |-> r]
  BY Zenon DEF Opens
<1>2. PICK u : u = Unpad(NewReader(uuid), f)
  OBVIOUS
<1>3. u.ok /\ u.rd = r /\ u.out = c
  BY <1>1, <1>2
<1>4. NewIn(uuid).response_seen = FALSE /\ NewIn(uuid).reader = NewReader(uuid)
  BY DEF NewIn
<1>5. Len(c) >= 4 /\ c[1] = VERSION /\ Slice(c, 4, Len(c)) = p
  BY ResponseParts
<1>6. ParseResponseHeader(c).ok
  <2>1. ~(Len(c) < 4 \/ c[1] # VERSION)
    BY <1>5
  <2>2. ParseResponseHeader(c) = [ok |-> TRUE]
    BY <2>1, Zenon DEF ParseResponseHeader
  <2> QED
    BY <2>2
<1>7. v = [ok |-> TRUE, vi |-> SeenIn(r), out |-> p]
  BY <1>2, <1>3, <1>4, <1>5, <1>6, Zenon DEF Unwrap, SeenIn
<1>8. SeenIn(r).reader = r
  BY DEF SeenIn
<1>9. v.ok /\ v.vi = SeenIn(r) /\ v.out = p
  BY <1>7
<1> QED
  BY <1>1, <1>8, <1>9, Zenon DEF Gives

(* The server's first answer, written by a fresh writer, is read by a      *)
(* fresh inbound end.                                                      *)
LEMMA ReplyFirst ==
    ASSUME NEW q, WellFormed(q), NEW p \in Seq(Byte), NEW c, c = BuildResponseHeader \o p,
           NEW n, n = Len(c), NEW rnd \in DrawsFor(NewWriter(q.uuid), n),
           NEW long, NEW end, end = TRUE, NEW x, x = Pad(NewWriter(q.uuid), c, long, end, rnd)
    PROVE  Answered(q, p, x)
<1>1. c \in Seq(Byte)
  BY ResponseParts
<1>2. \A i \in 1..FrameCount(Len(c)) : rnd[i] \in Nat
  <2>1. \A i \in 1..FrameCount(n) : rnd[i] \in Nat
    BY DrawsFresh
  <2> QED
    BY <2>1, Zenon
<1>3. q.uuid \in Seq(Byte) /\ Len(q.uuid) = UuidLen
  BY DEF WellFormed
<1>4. x.out \in Seq(Byte)
  BY <1>1, <1>2, <1>3, PadBytes
<1>5. x.writer = SpentWriter
  BY PadSpends
<1>6. Opens(q.uuid, c, x.out)
  BY <1>1, <1>2, <1>3, PadGives
<1>7. PICK v : v = Unwrap(NewIn(q.uuid), x.out)
  OBVIOUS
<1>8. Gives(v, p)
  BY <1>6, <1>7, FirstUnwrap
<1>9. DownFirst(q, p, x.out)
  BY <1>7, <1>8, Zenon DEF DownFirst, Gives
<1> QED
  BY <1>4, <1>5, <1>9, Zenon DEF Answered

(* Past the first record the client's VlessIn gives every packet as it comes. *)
LEMMA UnwrapNext ==
    ASSUME NEW r, r.state = "Direct", NEW p \in Seq(Byte), NEW v, v = Unwrap(SeenIn(r), p)
    PROVE  v.ok /\ v.vi = SeenIn(r) /\ v.out = p
<1>1. Unpad(r, p) = [ok |-> TRUE, rd |-> r, out |-> p]
  BY DirectReads
<1>2. PICK u : u = Unpad(r, p)
  OBVIOUS
<1>3. u.ok /\ u.rd = r /\ u.out = p
  BY <1>1, <1>2
<1>4. SeenIn(r).response_seen = TRUE /\ SeenIn(r).reader = r
  BY DEF SeenIn
<1>5. v = [ok |-> TRUE, vi |-> SeenIn(r), out |-> p]
  BY <1>2, <1>3, <1>4, Zenon DEF Unwrap, SeenIn
<1> QED
  BY <1>5

-----------------------------------------------------------------------------
(* The probe: a record of fives that a server waiting for a request refuses. *)

(* At most three of the eight fives behind an identity are content. *)
Fives(v, n) == v \in Seq(Byte) /\ Len(v) = n /\ \A i \in 1..n : v[i] = 5

(* What a locked reader makes of eight fives, when it refuses none of      *)
(* them, is the three fives of content.                                    *)
LEMMA FivesRead ==
    ASSUME NEW uuid, NEW v, Fives(v, 8), NEW r, r = UnpadBytes(LockedOn(uuid), v)
    PROVE  r.ok => r.out = <<5, 5, 5>>
<1> DEFINE P(k) == Upto(<<>>, v, k)
<1>1. v \in Seq(Byte) /\ Len(v) = 8 /\ <<>> \in Seq(Byte) /\ 5 \in Byte
  BY VlessAssumption DEF Fives, Byte
<1>2. P(0) = <<>> /\ P(8) = v
  <2>1. Upto(<<>>, v, 0) = <<>> /\ Upto(<<>>, v, Len(v)) = <<>> \o v
    BY <1>1, PrefixEnds
  <2> QED
    BY <1>1, <2>1
<1>3. ASSUME NEW k \in 0..7, NEW j, j = k + 1 PROVE P(k) \in Seq(Byte) /\ P(j) = Append(P(k), 5)
  <2>1. k \in Nat /\ k < Len(v) /\ v[k + 1] = 5
    BY <1>1 DEF Fives
  <2>2. Upto(<<>>, v, k) \in Seq(Byte) /\ Upto(<<>>, v, k + 1) = Append(Upto(<<>>, v, k), v[k + 1])
    BY <1>1, <2>1, PrefixGrows
  <2> QED
    BY <1>3, <2>1, <2>2, Zenon
<1> HIDE DEF P
<1>4. /\ P(0) \in Seq(Byte) /\ P(1) = Append(P(0), 5) /\ P(1) \in Seq(Byte) /\ P(2) = Append(P(1), 5)
      /\ P(2) \in Seq(Byte) /\ P(3) = Append(P(2), 5) /\ P(3) \in Seq(Byte) /\ P(4) = Append(P(3), 5)
      /\ P(4) \in Seq(Byte) /\ P(5) = Append(P(4), 5) /\ P(5) \in Seq(Byte) /\ P(6) = Append(P(5), 5)
      /\ P(6) \in Seq(Byte) /\ P(7) = Append(P(6), 5) /\ P(7) \in Seq(Byte) /\ P(8) = Append(P(7), 5)
  <2>1. P(0) \in Seq(Byte) /\ P(1) = Append(P(0), 5)
    BY <1>3
  <2>2. P(1) \in Seq(Byte) /\ P(2) = Append(P(1), 5)
    BY <1>3
  <2>3. P(2) \in Seq(Byte) /\ P(3) = Append(P(2), 5)
    BY <1>3
  <2>4. P(3) \in Seq(Byte) /\ P(4) = Append(P(3), 5)
    BY <1>3
  <2>5. P(4) \in Seq(Byte) /\ P(5) = Append(P(4), 5)
    BY <1>3
  <2>6. P(5) \in Seq(Byte) /\ P(6) = Append(P(5), 5)
    BY <1>3
  <2>7. P(6) \in Seq(Byte) /\ P(7) = Append(P(6), 5)
    BY <1>3
  <2>8. P(7) \in Seq(Byte) /\ P(8) = Append(P(7), 5)
    BY <1>3
  <2> QED
    BY <2>1, <2>2, <2>3, <2>4, <2>5, <2>6, <2>7, <2>8, Zenon
<1>5. PICK n : n = Un16(5, 5) /\ n \in Nat /\ n > 3
  BY VlessAssumption DEF Un16
<1>6. PICK h1, h2, h3, h4, h5 :
          /\ Grows(h1, <<>>, 5) /\ Grows(h2, h1, 5) /\ Grows(h3, h2, 5) /\ Grows(h4, h3, 5)
          /\ Fills(h5, h4, 5, n, 5, n)
  <2>1. \E k1, k2, k3, k4 :
            /\ Grows(k1, <<>>, 5) /\ Grows(k2, k1, 5) /\ Grows(k3, k2, 5) /\ Grows(k4, k3, 5)
            /\ Fills(<<5, 5, 5, 5, 5>>, k4, 5, Un16(5, 5), 5, Un16(5, 5))
    BY <1>1, HeaderParts
  <2> QED
    BY <1>5, <2>1, Zenon
<1>7. Reads(LockedOn(uuid), P(0), Padded("Header", 0, 0, 0, <<>>, uuid), <<>>)
  BY <1>2, ReadsNothing, Zenon DEF LockedOn
<1>8. Reads(LockedOn(uuid), P(1), Padded("Header", 0, 0, 0, h1, uuid), <<>>)
  BY <1>1, <1>4, <1>6, <1>7, HeaderByteReads
<1>9. Reads(LockedOn(uuid), P(2), Padded("Header", 0, 0, 0, h2, uuid), <<>>)
  BY <1>1, <1>4, <1>6, <1>8, HeaderByteReads
<1>10. Reads(LockedOn(uuid), P(3), Padded("Header", 0, 0, 0, h3, uuid), <<>>)
  BY <1>1, <1>4, <1>6, <1>9, HeaderByteReads
<1>11. Reads(LockedOn(uuid), P(4), Padded("Header", 0, 0, 0, h4, uuid), <<>>)
  BY <1>1, <1>4, <1>6, <1>10, HeaderByteReads
<1>12. PICK x, y : /\ x = Padded("Header", 0, 0, 0, h4, uuid)
                   /\ y = Padded("Content", n, 5, n, <<>>, uuid)
  OBVIOUS
<1>13. UnpadByte(x, 5) = Err("BadFrame") \/ UnpadByte(x, 5) = Ok(y)
  BY <1>5, <1>6, <1>12, ContentHeaderIs
<1>14. CASE UnpadByte(x, 5) = Err("BadFrame")
  <2>1. ~UnpadBytes(LockedOn(uuid), P(5)).ok
    BY <1>1, <1>4, <1>11, <1>12, <1>14, RefusedNow
  <2>2. ~UnpadBytes(LockedOn(uuid), P(6)).ok
    BY <1>1, <1>4, <2>1, RefusedStays
  <2>3. ~UnpadBytes(LockedOn(uuid), P(7)).ok
    BY <1>1, <1>4, <2>2, RefusedStays
  <2>4. ~UnpadBytes(LockedOn(uuid), P(8)).ok
    BY <1>1, <1>4, <2>3, RefusedStays
  <2> QED
    BY <1>2, <2>4, Zenon
<1>15. CASE UnpadByte(x, 5) = Ok(y)
  <2>1. Reads(LockedOn(uuid), P(5), y, <<>>)
    <3>1. x.state = "Header"
      BY <1>12, PaddedState
    <3>2. Reads(LockedOn(uuid), P(4), x, <<>>)
      BY <1>11, <1>12, Zenon
    <3> QED
      BY <1>1, <1>4, <1>15, <3>1, <3>2, ReadsDrops
  <2>2. PICK y1, y2, y3 : /\ y1 = Padded("Content", n - 1, 5, n, <<>>, uuid)
                          /\ y2 = Padded("Content", n - 2, 5, n, <<>>, uuid)
                          /\ y3 = Padded("Content", n - 3, 5, n, <<>>, uuid)
    OBVIOUS
  <2>3. y.state = "Content" /\ y1.state = "Content" /\ y2.state = "Content"
    BY <1>12, <2>2, PaddedState
  <2>4. UnpadByte(y, 5) = Ok(y1) /\ UnpadByte(y1, 5) = Ok(y2) /\ UnpadByte(y2, 5) = Ok(y3)
    <3>1. PICK n1, n2, n3 : n1 = n - 1 /\ n2 = n - 2 /\ n3 = n - 3
      OBVIOUS
    <3>2. /\ n \in Nat /\ n > 1 /\ n1 \in Nat /\ n1 > 1 /\ n2 \in Nat /\ n2 > 1
          /\ n2 = n1 - 1 /\ n3 = n2 - 1
      BY <1>5, <3>1
    <3>3. UnpadByte(Padded("Content", n, 5, n, <<>>, uuid), 5) = Ok(Padded("Content", n1, 5, n, <<>>, uuid))
      BY <3>1, <3>2, StillContent
    <3>4. UnpadByte(Padded("Content", n1, 5, n, <<>>, uuid), 5) = Ok(Padded("Content", n2, 5, n, <<>>, uuid))
      BY <3>2, StillContent
    <3>5. UnpadByte(Padded("Content", n2, 5, n, <<>>, uuid), 5) = Ok(Padded("Content", n3, 5, n, <<>>, uuid))
      BY <3>2, StillContent
    <3> QED
      BY <1>12, <2>2, <3>1, <3>3, <3>4, <3>5, Zenon
  <2>5. PICK o1, o2, o3 : o1 = Append(<<>>, 5) /\ o2 = Append(o1, 5) /\ o3 = Append(o2, 5)
    OBVIOUS
  <2>6. Reads(LockedOn(uuid), P(6), y1, o1)
    BY <1>1, <1>4, <2>1, <2>3, <2>4, <2>5, ReadsGives
  <2>7. Reads(LockedOn(uuid), P(7), y2, o2)
    BY <1>1, <1>4, <2>3, <2>4, <2>5, <2>6, ReadsGives
  <2>8. Reads(LockedOn(uuid), P(8), y3, o3)
    BY <1>1, <1>4, <2>3, <2>4, <2>5, <2>7, ReadsGives
  <2>9. o3 = <<5, 5, 5>>
    <3>1. Len(o1) = 1 /\ o1[1] = 5 /\ o1 \in Seq(Byte)
      BY <1>1, <2>5
    <3>2. Len(o2) = 2 /\ o2[1] = 5 /\ o2[2] = 5 /\ o2 \in Seq(Byte)
      BY <1>1, <2>5, <3>1
    <3>3. Len(o3) = 3 /\ o3[1] = 5 /\ o3[2] = 5 /\ o3[3] = 5 /\ o3 \in Seq(Byte)
      BY <1>1, <2>5, <3>2
    <3>4. PICK x3 : x3 = <<5, 5, 5>>
      OBVIOUS
    <3>5. Len(x3) = 3 /\ x3[1] = 5 /\ x3[2] = 5 /\ x3[3] = 5 /\ x3 \in Seq(Byte)
      BY <1>1, <3>4
    <3>6. o3 = x3
      BY <3>3, <3>5, SameSeq
    <3> QED
      BY <3>4, <3>6
  <2>10. r = [ok |-> TRUE, rd |-> y3, out |-> o3]
    BY <1>2, <2>8, Zenon DEF Reads
  <2> QED
    BY <2>9, <2>10
<1> QED
  BY <1>13, <1>14, <1>15

(* Three fives are no request. *)
LEMMA FivesNoRequest == ~RequestHeaderLen(<<5, 5, 5>>).ok
<1>1. PICK w : w = <<5, 5, 5>>
  OBVIOUS
<1>2. Len(w) = 3 /\ w[1] = 5 /\ w[2] = 5 /\ w[3] = 5
  BY <1>1
<1>3. ~Err("Layout").ok
  BY DEF Err
<1>4. CASE Len(w) < UuidLen + 2
  BY <1>1, <1>3, <1>4, Zenon DEF RequestHeaderLen
<1>5. CASE ~(Len(w) < UuidLen + 2)
  <2>1. UuidLen = 1
    BY <1>2, <1>5, VlessAssumption
  <2>2. w[2 + UuidLen] # FlowTag
    BY <1>2, <2>1 DEF FlowTag
  <2>3. AddonsAt(w) = Err("Layout")
    BY <2>2, Zenon DEF AddonsAt
  <2> QED
    BY <1>1, <1>3, <1>5, <2>3, Zenon DEF RequestHeaderLen
<1> QED
  BY <1>4, <1>5

(* A waiting server does not accept the probe. *)
LEMMA ProbeRefused ==
    ASSUME NEW uuid \in Seq(Byte), Len(uuid) = UuidLen,
           NEW u, u = Unpad(NewReader(uuid), PROBE)
    PROVE  u.ok => ~RequestHeaderLen(u.out).ok
<1>1. PICK w : w = PROBE
  OBVIOUS
<1>2. Fives(w, UuidLen + 8) /\ UuidLen \in Nat \ {0}
  <2>1. 5 \in Byte /\ UuidLen \in Nat \ {0}
    BY VlessAssumption DEF Byte
  <2>2. w = [i \in 1..(UuidLen + 8) |-> 5]
    BY <1>1, Zenon DEF PROBE
  <2> QED
    BY <2>1, <2>2 DEF Fives
<1>3. CASE Slice(w, 0, UuidLen) = uuid
  <2>1. PICK v : v = SubSeq(w, UuidLen + 1, UuidLen + 8)
    OBVIOUS
  <2>2. Fives(v, 8)
    BY <1>2, <2>1 DEF Fives
  <2>3. SubSeq(w, 1, UuidLen) = uuid
    <3>1. 0 + 1 = 1
      OBVIOUS
    <3> QED
      BY <1>3, <3>1, Zenon DEF Slice
  <2>4. w = uuid \o v
    <3>1. w \in Seq(Byte) /\ Len(w) = UuidLen + 8 /\ \A i \in 1..(UuidLen + 8) : w[i] = 5
      BY <1>2 DEF Fives
    <3>2. \A i \in 1..UuidLen : uuid[i] = 5
      BY <1>2, <2>3, <3>1
    <3>3. v \in Seq(Byte) /\ Len(v) = 8 /\ \A i \in 1..8 : v[i] = 5
      BY <2>2 DEF Fives
    <3>4. PICK x : x = uuid \o v
      OBVIOUS
    <3>5. Joined(Byte, uuid, v, x, UuidLen, 8)
      BY <3>3, <3>4, Joins
    <3>6. x \in Seq(Byte) /\ Len(x) = UuidLen + 8 /\ \A i \in 1..(UuidLen + 8) : x[i] = 5
      <4>1. /\ x \in Seq(Byte) /\ Len(x) = UuidLen + 8
            /\ \A i \in 1..UuidLen : x[i] = 5
            /\ \A i \in 1..8 : x[UuidLen + i] = 5
        BY <3>2, <3>3, <3>5 DEF Joined
      <4>2. ASSUME NEW i \in 1..(UuidLen + 8), i > UuidLen PROVE x[i] = 5
        <5>1. i - UuidLen \in 1..8 /\ UuidLen + (i - UuidLen) = i
          BY <1>2, <4>2
        <5> QED
          BY <4>1, <5>1
      <4> QED
        BY <1>2, <4>1, <4>2
    <3>7. w = x
      BY <3>1, <3>6, SameSeq
    <3> QED
      BY <3>4, <3>7
  <2>5. v \in Seq(Byte) /\ Len(v) >= 5
    BY <2>2 DEF Fives
  <2>6. Unpad(NewReader(uuid), uuid \o v) = UnpadBytes(LockedOn(uuid), v)
    BY <2>5, NewReaderLocks
  <2>7. u = UnpadBytes(LockedOn(uuid), v)
    BY <1>1, <2>4, <2>6, Zenon
  <2>8. u.ok => u.out = <<5, 5, 5>>
    BY <2>2, <2>7, FivesRead
  <2> QED
    BY <2>8, FivesNoRequest, Zenon
<1>4. CASE Slice(w, 0, UuidLen) # uuid
  <2>1. PICK rd : rd = NewReader(uuid)
    OBVIOUS
  <2>2. rd.state = "Initial" /\ rd.uuid = uuid /\ rd.first
    BY <2>1 DEF NewReader
  <2>3. Len(w) >= UuidLen + 5
    BY <1>2 DEF Fives
  <2>4. u = Err("UuidMismatch")
    BY <1>1, <1>4, <2>1, <2>2, <2>3, Zenon DEF Unpad
  <2> QED
    BY <2>4 DEF Err
<1> QED
  BY <1>3, <1>4

-----------------------------------------------------------------------------
(* Wires. *)

(* A fresh wire has nothing to carry. *)
LEMMA WireEmpty ==
    ASSUME NEW way, NEW q
    PROVE  Wire(way, q, <<>>, 0, <<>>)
BY DEF Wire

(* The next record written is the next one to carry. *)
Next1(way, q, s, p, f) == IF s = <<>> THEN First(way, q, p, f) ELSE f = p

(* Writing the next record adds a packet to those the wire carries. *)
LEMMA WireAdds ==
    ASSUME NEW way, NEW q, NEW s \in Seq(Packets), NEW p \in Packets, NEW n, NEW frames,
           Wire(way, q, s, n, frames), NEW f \in Seq(Byte), Next1(way, q, s, p, f)
    PROVE  Wire(way, q, Append(s, p), n, Append(frames, f))
<1> DEFINE t == Append(s, p)
           g == Append(frames, f)
<1>1. frames \in Seq(Seq(Byte)) /\ n \in Nat /\ n + Len(frames) = Len(s)
  BY DEF Wire
<1>2. /\ t \in Seq(Packets) /\ Len(t) = Len(s) + 1 /\ t[Len(s) + 1] = p
      /\ \A i \in 1..Len(s) : t[i] = s[i]
  OBVIOUS
<1>3. /\ g \in Seq(Seq(Byte)) /\ Len(g) = Len(frames) + 1 /\ g[Len(frames) + 1] = f
      /\ \A i \in 1..Len(frames) : g[i] = frames[i]
  BY <1>1
<1>4. s = <<>> <=> Len(s) = 0
  OBVIOUS
<1> HIDE DEF t, g
<1>5. ASSUME NEW i \in 1..Len(g) PROVE Carried(way, q, t, n + i, g[i])
  <2>1. CASE i \in 1..Len(frames)
    <3>1. Carried(way, q, s, n + i, frames[i])
      BY <2>1 DEF Wire
    <3>2. n + i \in 1..Len(s) /\ 1 \in 1..Len(s) /\ g[i] = frames[i]
      BY <1>1, <1>3, <2>1, SMTT(60)
    <3>3. t[n + i] = s[n + i] /\ t[1] = s[1]
      BY <1>2, <3>2
    <3> QED
      BY <3>1, <3>2, <3>3, Zenon DEF Carried
  <2>2. CASE i = Len(frames) + 1
    <3>1. n + i = Len(s) + 1 /\ g[i] = f
      BY <1>1, <1>3, <2>2
    <3>2. CASE s = <<>>
      <4>1. n + i = 1 /\ t[1] = p
        BY <1>2, <1>4, <3>1, <3>2
      <4> QED
        BY <3>1, <3>2, <4>1, Zenon DEF Carried, Next1
    <3>3. CASE s # <<>>
      <4>1. n + i # 1 /\ t[n + i] = p
        BY <1>2, <1>4, <3>1, <3>3
      <4> QED
        BY <3>1, <3>3, <4>1, Zenon DEF Carried, Next1
    <3> QED
      BY <3>2, <3>3
  <2> QED
    BY <1>1, <1>3, <2>1, <2>2
<1>6. n + Len(g) = Len(t)
  BY <1>1, <1>2, <1>3
<1>7. Wire(way, q, t, n, g)
  BY <1>1, <1>3, <1>5, <1>6, Zenon DEF Wire
<1> QED
  BY <1>7 DEF t, g

(* The record taken off a wire is the one after the n-th. *)
Taken(way, q, s, n, f) ==
    /\ f \in Seq(Byte) /\ n < Len(s) /\ n \in Nat
    /\ IF n = 0 THEN First(way, q, s[1], f) ELSE f = s[n + 1]

(* Taking the oldest record leaves the wire carrying one packet fewer. *)
LEMMA WireTakes ==
    ASSUME NEW way, NEW q, NEW s \in Seq(Packets), NEW n, NEW frames,
           Wire(way, q, s, n, frames), frames # <<>>, NEW m, m = n + 1
    PROVE  Wire(way, q, s, m, Tail(frames)) /\ Taken(way, q, s, n, Head(frames))
<1> DEFINE g == Tail(frames)
<1>1. frames \in Seq(Seq(Byte)) /\ n \in Nat /\ n + Len(frames) = Len(s)
  BY DEF Wire
<1>2. /\ g \in Seq(Seq(Byte)) /\ Len(g) = Len(frames) - 1 /\ Len(frames) >= 1
      /\ \A i \in 1..Len(g) : g[i] = frames[i + 1]
      /\ Head(frames) = frames[1] /\ frames[1] \in Seq(Byte)
  BY <1>1
<1> HIDE DEF g
<1>3. ASSUME NEW i \in 1..Len(g) PROVE Carried(way, q, s, m + i, g[i])
  <2>1. i + 1 \in 1..Len(frames) /\ m + i = n + (i + 1) /\ g[i] = frames[i + 1]
    BY <1>1, <1>2
  <2>2. Carried(way, q, s, n + (i + 1), frames[i + 1])
    BY <2>1 DEF Wire
  <2> QED
    BY <2>1, <2>2, Zenon
<1>4. m \in Nat /\ m + Len(g) = Len(s) /\ n < Len(s)
  <2>1. PICK a, b, c : a = Len(frames) /\ b = Len(g) /\ c = Len(s)
    OBVIOUS
  <2>2. a \in Nat /\ n \in Nat /\ n + a = c /\ b = a - 1 /\ a >= 1
    BY <1>1, <1>2, <2>1
  <2>3. m \in Nat /\ m + b = c /\ n < c
    BY <2>2
  <2> QED
    BY <2>1, <2>3
<1>5. Wire(way, q, s, m, g)
  BY <1>2, <1>3, <1>4, Zenon DEF Wire
<1>6. Carried(way, q, s, n + 1, frames[1])
  <2>1. 1 \in 1..Len(frames)
    BY <1>1, <1>2
  <2> QED
    BY <2>1 DEF Wire
<1>7. n + 1 = 1 <=> n = 0
  BY <1>1
<1>8. Taken(way, q, s, n, Head(frames))
  BY <1>1, <1>2, <1>4, <1>6, <1>7, Zenon DEF Taken, Carried
<1> QED
  BY <1>5, <1>8 DEF g

(* One more packet is delivered, and one more put in. *)
LEMMA BeginsMore ==
    ASSUME NEW s \in Seq(Packets), NEW t, Begins(t, s), Len(t) < Len(s)
    PROVE  Begins(Append(t, s[Len(t) + 1]), s) /\ s[Len(t) + 1] \in Packets
<1> DEFINE p == s[Len(t) + 1]
           u == Append(t, p)
<1>1. t \in Seq(Packets) /\ \A i \in 1..Len(t) : t[i] = s[i]
  BY DEF Begins
<1>2. p \in Packets
  BY <1>1
<1> HIDE DEF p
<1>3. u \in Seq(Packets) /\ Len(u) = Len(t) + 1 /\ u[Len(t) + 1] = p /\ \A i \in 1..Len(t) : u[i] = t[i]
  BY <1>1, <1>2
<1> HIDE DEF u
<1>4. \A i \in 1..Len(u) : u[i] = s[i]
  BY <1>1, <1>3 DEF p
<1>5. Begins(u, s)
  BY <1>1, <1>3, <1>4 DEF Begins
<1> QED
  BY <1>2, <1>5 DEF u, p

(* A beginning stays one when a packet is added behind. *)
LEMMA BeginsStill ==
    ASSUME NEW s \in Seq(Packets), NEW p \in Packets, NEW t, Begins(t, s)
    PROVE  Begins(t, Append(s, p))
<1> DEFINE u == Append(s, p)
<1>1. t \in Seq(Packets) /\ Len(t) <= Len(s) /\ \A i \in 1..Len(t) : t[i] = s[i]
  BY DEF Begins
<1>2. u \in Seq(Packets) /\ Len(u) = Len(s) + 1 /\ \A i \in 1..Len(s) : u[i] = s[i]
  OBVIOUS
<1> HIDE DEF u
<1>3. Begins(t, u)
  BY <1>1, <1>2 DEF Begins
<1> QED
  BY <1>3 DEF u

-----------------------------------------------------------------------------
(* The invariant of the tunnel to the echo server. *)

(* Writing, breaking off and reading a wire. *)
IsWire(w) == w = [frames |-> w.frames, end |-> w.end]
WireOf(w, frames, end) == w.frames = frames /\ w.end = end /\ IsWire(w)

(* The fields of a wire, as facts of their own. *)
LEMMA WireFields ==
    ASSUME NEW w, NEW a, NEW b, w = [frames |-> a, end |-> b]
    PROVE  WireOf(w, a, b)
<1>1. w.frames = a /\ w.end = b
  OBVIOUS
<1> QED
  BY <1>1, Zenon DEF WireOf, IsWire

(* write_frame appends a record and leaves the end alone. *)
LEMMA WireWrite ==
    ASSUME NEW w, IsWire(w), NEW f, NEW v, v = WriteFrame(w, f)
    PROVE  WireOf(v, Append(w.frames, f), w.end)
<1>1. PICK a, b : a = w.frames /\ b = w.end /\ w = [frames |-> a, end |-> b]
  BY Zenon DEF IsWire
<1>2. PICK c : c = Append(a, f)
  OBVIOUS
<1>3. v = [w EXCEPT !.frames = c]
  BY <1>1, <1>2, Zenon DEF WriteFrame
<1>4. v = [frames |-> c, end |-> b]
  BY <1>1, <1>3
<1> QED
  BY <1>1, <1>2, <1>4, WireFields, Zenon

(* Breaking a wire off leaves its records alone. *)
LEMMA WireEnds ==
    ASSUME NEW w, IsWire(w), NEW e, NEW v, v = [w EXCEPT !.end = e]
    PROVE  WireOf(v, w.frames, e)
<1>1. PICK a, b : a = w.frames /\ b = w.end /\ w = [frames |-> a, end |-> b]
  BY Zenon DEF IsWire
<1>2. v = [frames |-> a, end |-> e]
  BY <1>1
<1> QED
  BY <1>1, <1>2, WireFields, Zenon

(* read_frame takes the oldest record and leaves the end alone. *)
LEMMA WireTake ==
    ASSUME NEW w, IsWire(w), NEW v, v = TakeFrame(w)
    PROVE  WireOf(v, Tail(w.frames), w.end)
<1>1. PICK a, b : a = w.frames /\ b = w.end /\ w = [frames |-> a, end |-> b]
  BY Zenon DEF IsWire
<1>2. PICK c : c = Tail(a)
  OBVIOUS
<1>3. v = [w EXCEPT !.frames = c]
  BY <1>1, <1>2, Zenon DEF TakeFrame
<1>4. v = [frames |-> c, end |-> b]
  BY <1>1, <1>3
<1> QED
  BY <1>1, <1>2, <1>4, WireFields, Zenon

(* What read_frame answers: a record while there is one, then what the end *)
(* of the stream makes of it.                                              *)
LEMMA ReadFrameIs ==
    ASSUME NEW w
    PROVE  /\ ReadFrame(w) = "frame" <=> w.frames # <<>>
           /\ ReadFrame(w) = "none" <=> w.frames = <<>> /\ w.end \in {"eof", "prefix"}
           /\ ReadFrame(w) = "error" <=> w.frames = <<>> /\ w.end \in {"payload", "oversize"}
BY DEF ReadFrame

(* A request of the instance fits its fields. *)
LEMMA RequestFits ==
    ASSUME NEW q \in Requests
    PROVE  WellFormed(q) /\ q.uuid \in Seq(Byte) /\ Len(q.uuid) = UuidLen
BY VisionAssumption DEF WellFormed

(* A packet of the instance is a sequence of bytes, and not empty. *)
LEMMA PacketFits ==
    ASSUME NEW p \in Packets
    PROVE  p \in Seq(Byte) /\ p # <<>>
BY VisionAssumption

(* The invariant holds of a tunnel that has just been set up. *)
LEMMA EchoStart == Init => EchoInv
<1> SUFFICES ASSUME Init PROVE EchoInv
  OBVIOUS
<1>1. req \in Requests /\ ~probed /\ backlog = <<>>
  BY DEF Init
<1>2. /\ sent = <<>> /\ arrived = <<>> /\ replied = <<>> /\ tun = <<>>
      /\ up = NewWire /\ down = NewWire /\ instep = TRUE
      /\ vless_out = NewOut(req) /\ vless_in = NewIn(req.uuid) /\ server = NewServer(req.uuid)
  BY Zenon DEF Init
<1>3. NewWire = [frames |-> <<>>, end |-> "open"]
  BY DEF NewWire
<1>4. WireOf(up, <<>>, "open") /\ WireOf(down, <<>>, "open")
  BY <1>2, <1>3, WireFields
<1>5. Fresh("running") /\ server.result = "running"
  <2>1. Fresh("running")
    BY <1>2, Zenon DEF Fresh, ServerIs, NewServer
  <2> QED
    BY <2>1 DEF Fresh, ServerIs
<1>6. ExternalInv
  BY <1>1, <1>2, <1>5, Zenon DEF ExternalInv
<1>7. Begins(<<>>, <<>>)
  BY DEF Begins
<1>8. OutInv
  BY <1>2, <1>4, Zenon DEF OutInv, WireOf
<1>9. UpInv
  <2>1. <<>> \in Seq(Packets) /\ Len(arrived) = 0 /\ up.end \in {"open", "eof", "prefix", "payload"}
    BY <1>2, <1>4 DEF WireOf
  <2>2. Wire("up", req, <<>>, 0, <<>>)
    BY WireEmpty
  <2> QED
    BY <1>2, <1>4, <1>7, <2>1, <2>2, Zenon DEF UpInv, WireOf, IsWire
<1>10. ServerInv
  <2>1. server.result # "ok" /\ server.result \in ServerResults \ {"refused"}
    BY <1>5 DEF ServerResults
  <2> QED
    BY <1>2, <1>5, <2>1, Zenon DEF ServerInv
<1>11. DownInv
  <2>1. Len(tun) = 0
    BY <1>2
  <2>2. Wire("down", req, <<>>, 0, <<>>)
    BY WireEmpty
  <2> QED
    BY <1>2, <1>4, <1>7, <2>1, <2>2, Zenon DEF DownInv, WireOf, IsWire
<1>12. InInv
  <2>1. instep \in BOOLEAN /\ instep
    BY <1>2, Zenon
  <2> QED
    BY <1>2, <2>1, Zenon DEF InInv
<1>13. RepliesInv
  <2>1. Len(<<>>) <= Len(<<>>) + 1
    OBVIOUS
  <2> QED
    BY <1>2, <1>7, <2>1, Zenon DEF RepliesInv
<1> QED
  BY <1>1, <1>6, <1>8, <1>9, <1>10, <1>11, <1>12, <1>13, Zenon DEF EchoInv, EchoParts

(* What the client wraps next is the next record of the way up. *)
LEMMA WrapsNext ==
    ASSUME EchoInv, peer = "echo", ~probed, NEW p \in Packets, up.end = "open",
           NEW rnd \in DrawsFor(vless_out.writer, Len(vless_out.header) + Len(p)),
           NEW w, w = Wrap(vless_out, p, rnd)
    PROVE  w.vo = SpentOut /\ w.out \in Seq(Byte) /\ Next1("up", req, sent, p, w.out)
<1>1. OutInv /\ WellFormed(req)
  BY RequestFits DEF EchoInv, EchoParts
<1>2. p \in Seq(Byte)
  BY PacketFits
<1>3. CASE sent = <<>>
  <2>1. vless_out = NewOut(req)
    BY <1>1, <1>3, Zenon DEF OutInv
  <2>2. PICK h, v : h = BuildRequestHeader(req) /\ v = NewWriter(req.uuid)
    OBVIOUS
  <2>3. vless_out.header = h /\ vless_out.writer = v
    <3>1. vless_out = [header |-> h, writer |-> v]
      BY <2>1, <2>2, Zenon DEF NewOut
    <3> QED
      BY <3>1
  <2>4. PICK n : n = Len(BuildRequestHeader(req)) + Len(p)
    OBVIOUS
  <2>5. rnd \in DrawsFor(NewWriter(req.uuid), n) /\ w = Wrap(NewOut(req), p, rnd)
    BY <2>1, <2>2, <2>3, <2>4, Zenon
  <2>6. Wrapped(req, p, w)
    BY <1>1, <1>2, <2>4, <2>5, WrapFirst
  <2> QED
    BY <1>3, <2>6, Zenon DEF Wrapped, Next1, First
<1>4. CASE sent # <<>>
  <2>1. vless_out = SpentOut
    BY <1>1, <1>4, Zenon DEF OutInv
  <2>2. w = Wrap(SpentOut, p, rnd)
    BY <2>1
  <2>3. w.out = p /\ w.vo = SpentOut
    BY <1>2, <2>2, WrapNext
  <2> QED
    BY <1>2, <1>4, <2>3, Zenon DEF Next1
<1> QED
  BY <1>3, <1>4

(* While the way up is open the server has met no end of it. *)
LEMMA OpenRuns ==
    ASSUME ServerInv, up.end = "open"
    PROVE  server.result # "ok"
BY DEF ServerInv

(* The client's outbound half: the next packet goes behind those sent. *)
LEMMA EchoOutbound ==
    ASSUME EchoInv, NEW p \in Packets, Outbound(p)
    PROVE  EchoInv'
<1>1. peer = "echo" /\ ~probed /\ up.end = "open"
  BY DEF Outbound
<1>2. PICK rnd, w :
          /\ rnd \in DrawsFor(vless_out.writer, Len(vless_out.header) + Len(p))
          /\ w = Wrap(vless_out, p, rnd)
          /\ vless_out' = w.vo
          /\ \/ up' = WriteFrame(up, w.out) /\ sent' = Append(sent, p)
             \/ up' \in WriteBreaks(up) /\ sent' = sent
  BY Zenon DEF Outbound
<1>3. w.vo = SpentOut /\ w.out \in Seq(Byte) /\ Next1("up", req, sent, p, w.out)
  BY <1>1, <1>2, WrapsNext
<1>4. UNCHANGED <<req, peer, vless_in, instep, down, server, backlog, probed, arrived, replied, tun>>
  BY DEF Outbound
<1>5. OutInv /\ UpInv /\ ServerInv /\ RepliesInv /\ DownInv /\ InInv
  BY <1>1 DEF EchoInv, EchoParts
<1>6. /\ sent \in Seq(Packets) /\ Begins(arrived, sent) /\ IsWire(up)
      /\ Wire("up", req, sent, Len(arrived), up.frames)
  BY <1>5, Zenon DEF UpInv, IsWire
<1>7. server.result # "ok"
  BY <1>1, <1>5, OpenRuns
<1>8. ASSUME up' = WriteFrame(up, w.out), sent' = Append(sent, p) PROVE OutInv' /\ UpInv'
  <2>1. PICK f, g, t : f = w.out /\ g = Append(up.frames, f) /\ t = Append(sent, p)
    OBVIOUS
  <2>2. WireOf(up', g, "open")
    <3>1. WireOf(up', Append(up.frames, f), up.end)
      BY <1>6, <1>8, <2>1, WireWrite
    <3> QED
      BY <1>1, <2>1, <3>1, Zenon
  <2>3. Wire("up", req, t, Len(arrived), g)
    BY <1>3, <1>6, <2>1, WireAdds
  <2>4. t \in Seq(Packets) /\ t # <<>> /\ Begins(arrived, t)
    <3>1. Begins(arrived, Append(sent, p))
      BY <1>6, BeginsStill
    <3>2. Append(sent, p) \in Seq(Packets) /\ Append(sent, p) # <<>>
      BY <1>6
    <3> QED
      BY <2>1, <3>1, <3>2, Zenon
  <2>5. OutInv'
    BY <1>2, <1>3, <1>8, <2>1, <2>4, Zenon DEF OutInv
  <2>6. UpInv'
    <3>1. "open" \in {"open", "eof", "prefix", "payload"}
      OBVIOUS
    <3> QED
      BY <1>4, <1>8, <2>1, <2>2, <2>3, <2>4, <3>1, Zenon DEF UpInv, WireOf, IsWire
  <2> QED
    BY <2>5, <2>6, Zenon
<1>9. ASSUME up' \in WriteBreaks(up), sent' = sent PROVE OutInv' /\ UpInv'
  <2>1. PICK e \in {"eof", "prefix", "payload"} : up' = [up EXCEPT !.end = e]
    BY <1>9, Zenon DEF WriteBreaks
  <2>2. WireOf(up', up.frames, e)
    BY <1>6, <2>1, WireEnds
  <2>3. e # "open" /\ e \in {"open", "eof", "prefix", "payload"}
    OBVIOUS
  <2>4. OutInv'
    BY <1>2, <1>3, <2>2, <2>3, Zenon DEF OutInv, WireOf
  <2>5. UpInv'
    BY <1>4, <1>6, <1>9, <2>2, <2>3, Zenon DEF UpInv, WireOf, IsWire
  <2> QED
    BY <2>4, <2>5, Zenon
<1>10. OutInv' /\ UpInv'
  BY <1>2, <1>8, <1>9, Zenon
<1>11. ServerInv'
  <2>1. server.result \in ServerResults \ {"refused"}
    BY <1>5, Zenon DEF ServerInv
  <2>2. IF arrived = <<>> THEN Fresh(server.result)
        ELSE /\ server.reader.state = "Direct"
             /\ ServerIs(server.reader, SpentWriter, Some(Asked(req)), server.result)
    BY <1>5, Zenon DEF ServerInv
  <2> QED
    BY <1>4, <1>7, <2>1, <2>2, Zenon DEF ServerInv, Fresh, ServerIs
<1>12. RepliesInv' /\ DownInv' /\ InInv'
  BY <1>4, <1>5, Zenon DEF RepliesInv, DownInv, InInv
<1>13. req' \in Requests /\ peer' = "echo" /\ ~probed' /\ backlog' = <<>>
  BY <1>1, <1>4, Zenon DEF EchoInv
<1> QED
  BY <1>10, <1>11, <1>12, <1>13, Zenon DEF EchoInv, EchoParts

(* Nothing begins with more than the empty sequence. *)
LEMMA BeginsEmpty ==
    ASSUME NEW t, Begins(t, <<>>)
    PROVE  t = <<>> /\ Len(t) = 0
<1>1. t \in Seq(Packets) /\ Len(t) <= 0
  BY DEF Begins
<1> QED
  BY <1>1

(* A direction with no packets has an empty wire. *)
LEMMA WireDone ==
    ASSUME NEW way, NEW q, NEW frames, Wire(way, q, <<>>, 0, frames)
    PROVE  frames = <<>>
BY DEF Wire

(* The probe: a record the waiting server refuses. *)
LEMMA EchoProbe ==
    ASSUME EchoInv, Probe
    PROVE  EchoInv'
<1>1. /\ peer = "echo" /\ ~probed /\ up = NewWire /\ sent = <<>> /\ server.result = "running"
      /\ probed' = TRUE /\ up' = WriteFrame(up, PROBE)
  BY DEF Probe
<1>2. UNCHANGED <<req, peer, down, server, backlog, sent, arrived, replied, tun>>
  BY DEF Probe
<1>3. UpInv /\ ServerInv /\ RepliesInv /\ DownInv /\ InInv
  BY <1>1 DEF EchoInv, EchoParts
<1>4. arrived = <<>>
  BY <1>1, <1>3, BeginsEmpty DEF UpInv
<1>5. replied = <<>> /\ tun = <<>> /\ Len(tun) = 0
  <2>1. replied = <<>>
    BY <1>3, <1>4, BeginsEmpty DEF RepliesInv
  <2> QED
    BY <1>3, <2>1, BeginsEmpty DEF DownInv
<1>6. down = [frames |-> <<>>, end |-> down.end]
  <2>1. Wire("down", req, <<>>, 0, down.frames) /\ down = [frames |-> down.frames, end |-> down.end]
    BY <1>3, <1>5, Zenon DEF DownInv, InInv
  <2>2. down.frames = <<>>
    BY <2>1, WireDone
  <2> QED
    BY <2>1, <2>2, Zenon
<1>7. Fresh(server.result)
  BY <1>3, <1>4, Zenon DEF ServerInv
<1>8. up' = [frames |-> <<PROBE>>, end |-> "open"]
  <2>1. up = [frames |-> <<>>, end |-> "open"]
    BY <1>1, Zenon DEF NewWire
  <2>2. PICK x : x = PROBE
    OBVIOUS
  <2>3. up' = [up EXCEPT !.frames = Append(@, x)]
    BY <1>1, <2>2, Zenon DEF WriteFrame
  <2>4. up' = [frames |-> Append(<<>>, x), end |-> "open"]
    BY <2>1, <2>3
  <2>5. Append(<<>>, x) = <<x>>
    OBVIOUS
  <2> QED
    BY <2>2, <2>4, <2>5, Zenon
<1>9. ProbedInv'
  BY <1>1, <1>2, <1>4, <1>5, <1>6, <1>7, <1>8, Zenon DEF ProbedInv, Fresh, ServerIs
<1>10. req' \in Requests /\ peer' = "echo" /\ probed' /\ backlog' = <<>>
  BY <1>1, <1>2, Zenon DEF EchoInv
<1> QED
  BY <1>9, <1>10, Zenon DEF EchoInv

(* What the client unwraps is the next packet of the way down. *)
LEMMA UnwrapsNext ==
    ASSUME InInv, instep, NEW q, q = req, Taken("down", q, replied, Len(tun), Head(down.frames)),
           tun \in Seq(Packets), NEW u, u = Unwrap(vless_in, Head(down.frames)),
           NEW p, p = replied[Len(tun) + 1]
    PROVE  u.ok /\ u.out = p /\ u.vi = SeenIn(u.vi.reader) /\ u.vi.reader.state = "Direct"
<1>1. PICK f : f = Head(down.frames)
  OBVIOUS
<1>2. f \in Seq(Byte) /\ IF Len(tun) = 0 THEN First("down", q, replied[1], f) ELSE f = p
  BY <1>1, Zenon DEF Taken
<1>3. tun = <<>> <=> Len(tun) = 0
  OBVIOUS
<1>4. CASE tun = <<>>
  <2>1. vless_in = NewIn(q.uuid)
    BY <1>4, Zenon DEF InInv
  <2>2. p = replied[1]
    BY <1>4
  <2>3. DownFirst(q, p, f)
    BY <1>2, <1>3, <1>4, <2>2, Zenon DEF First
  <2> QED
    BY <1>1, <2>1, <2>3, Zenon DEF DownFirst
<1>5. CASE tun # <<>>
  <2>1. PICK r : vless_in = SeenIn(r) /\ r.state = "Direct"
    BY <1>5, Zenon DEF InInv
  <2>2. f = p /\ u = Unwrap(SeenIn(r), p) /\ p \in Seq(Byte)
    BY <1>1, <1>2, <1>3, <1>5, <2>1
  <2>3. u.ok /\ u.vi = SeenIn(r) /\ u.out = p
    BY <2>1, <2>2, UnwrapNext
  <2>4. SeenIn(r).reader = r
    BY DEF SeenIn
  <2> QED
    BY <2>1, <2>3, <2>4, Zenon
<1> QED
  BY <1>4, <1>5

(* The client's inbound half: the next answer, or the end of the stream. *)
LEMMA EchoInbound ==
    ASSUME EchoInv, Inbound
    PROVE  EchoInv'
<1>1. ReadFrame(down) = "frame" /\ down' = TakeFrame(down)
  BY DEF Inbound
<1>2. PICK u : /\ u = Unwrap(vless_in, Head(down.frames))
               /\ IF instep /\ u.ok
                  THEN /\ vless_in' = u.vi
                       /\ tun' = IF u.out = <<>> THEN tun ELSE Append(tun, u.out)
                       /\ instep' = instep
                  ELSE instep' = FALSE /\ vless_in' = vless_in /\ tun' = tun
  BY Zenon DEF Inbound
<1>3. UNCHANGED <<req, peer, vless_out, up, server, backlog, probed, sent, arrived, replied>>
  BY DEF Inbound
<1>4. down.frames # <<>>
  BY <1>1, ReadFrameIs
<1>5. CASE peer # "echo"
  <2>1. ExternalInv'
    BY <1>3, <1>5, Zenon DEF EchoInv, ExternalInv, Fresh, ServerIs
  <2> QED
    BY <1>3, <1>5, <2>1, Zenon DEF EchoInv
<1>6. CASE peer = "echo" /\ probed
  <2>1. down = [frames |-> <<>>, end |-> down.end]
    BY <1>6, Zenon DEF EchoInv, ProbedInv
  <2>2. down.frames = <<>>
    BY <2>1, WireFields DEF WireOf
  <2> QED
    BY <1>4, <2>2
<1>7. CASE peer = "echo" /\ ~probed /\ ~instep
  <2>1. OutInv /\ UpInv /\ ServerInv /\ RepliesInv /\ DownInv /\ InInv
    BY <1>7 DEF EchoInv, EchoParts
  <2>2. instep' = FALSE /\ vless_in' = vless_in /\ tun' = tun
    BY <1>2, <1>7, Zenon
  <2>3. IsWire(down)
    BY <2>1, Zenon DEF DownInv, IsWire
  <2>4. WireOf(down', Tail(down.frames), down.end)
    BY <1>1, <2>3, WireTake
  <2>5. DownInv'
    BY <1>3, <2>1, <2>2, <2>4, Zenon DEF DownInv, WireOf, IsWire
  <2>6. InInv'
    <3>1. replied # <<>>
      BY <1>7, <2>1, Zenon DEF InInv
    <3>2. instep' \in BOOLEAN
      BY <2>2
    <3> QED
      BY <1>3, <2>2, <3>1, <3>2, Zenon DEF InInv
  <2>7. OutInv' /\ UpInv' /\ ServerInv' /\ RepliesInv'
    BY <1>3, <2>1, Zenon DEF OutInv, UpInv, ServerInv, RepliesInv, Fresh, ServerIs
  <2> QED
    BY <1>3, <1>7, <2>5, <2>6, <2>7, Zenon DEF EchoInv, EchoParts
<1>8. CASE peer = "echo" /\ ~probed /\ instep
  <2>1. OutInv /\ UpInv /\ ServerInv /\ RepliesInv /\ DownInv /\ InInv
    BY <1>8 DEF EchoInv, EchoParts
  <2>2. /\ Begins(tun, replied) /\ IsWire(down)
        /\ Wire("down", req, replied, Len(tun), down.frames)
    BY <1>8, <2>1, Zenon DEF DownInv, IsWire
  <2>3. replied \in Seq(Packets) /\ tun \in Seq(Packets)
    BY <2>1, <2>2, Zenon DEF RepliesInv, Begins
  <2>4. PICK m, p, q : m = Len(tun) + 1 /\ p = replied[m] /\ q = req
    OBVIOUS
  <2>5. /\ Wire("down", q, replied, m, Tail(down.frames))
        /\ Taken("down", q, replied, Len(tun), Head(down.frames))
    BY <1>4, <2>2, <2>3, <2>4, WireTakes
  <2>6. u.ok /\ u.out = p /\ u.vi = SeenIn(u.vi.reader) /\ u.vi.reader.state = "Direct"
    BY <1>2, <1>8, <2>1, <2>3, <2>4, <2>5, UnwrapsNext
  <2>7. Len(tun) < Len(replied)
    BY <2>5, Zenon DEF Taken
  <2>8. PICK t : t = Append(tun, p)
    OBVIOUS
  <2>9. Begins(t, replied) /\ p \in Packets /\ p # <<>>
    <3>1. Begins(Append(tun, replied[Len(tun) + 1]), replied) /\ replied[Len(tun) + 1] \in Packets
      BY <2>2, <2>3, <2>7, BeginsMore
    <3>2. p \in Packets /\ Begins(t, replied)
      BY <2>4, <2>8, <3>1, Zenon
    <3> QED
      BY <3>2, PacketFits
  <2>10. instep = TRUE
    BY <1>8, <2>1, Zenon DEF InInv
  <2>11. vless_in' = u.vi /\ tun' = t /\ instep' = TRUE
    BY <1>2, <2>6, <2>8, <2>9, <2>10, Zenon
  <2>12. Len(t) = m /\ t # <<>>
    BY <2>3, <2>4, <2>8, <2>9
  <2>13. WireOf(down', Tail(down.frames), down.end)
    BY <1>1, <2>2, WireTake
  <2>14. DownInv'
    BY <1>3, <2>2, <2>4, <2>5, <2>9, <2>11, <2>12, <2>13, Zenon DEF DownInv, WireOf, IsWire
  <2>15. InInv'
    <3>1. instep' \in BOOLEAN /\ instep'
      BY <2>11, Zenon
    <3> QED
      BY <2>6, <2>11, <2>12, <3>1, Zenon DEF InInv
  <2>16. OutInv' /\ UpInv' /\ ServerInv' /\ RepliesInv'
    BY <1>3, <2>1, Zenon DEF OutInv, UpInv, ServerInv, RepliesInv, Fresh, ServerIs
  <2> QED
    BY <1>3, <1>8, <2>14, <2>15, <2>16, Zenon DEF EchoInv, EchoParts
<1> QED
  BY <1>5, <1>6, <1>7, <1>8

(* A TUN that takes no more: the record is spent and the client out of     *)
(* step, after at least one reply.                                         *)
LEMMA EchoTunGone ==
    ASSUME EchoInv, TunGone
    PROVE  EchoInv'
<1>1. /\ instep /\ ReadFrame(down) = "frame" /\ down' = TakeFrame(down) /\ instep' = FALSE
      /\ up' = IF up.end = "open" THEN [up EXCEPT !.end = "eof"] ELSE up
  BY DEF TunGone
<1>2. UNCHANGED <<req, peer, vless_out, vless_in, server, backlog, probed, sent, arrived, replied, tun>>
  BY DEF TunGone
<1>3. down.frames # <<>>
  BY <1>1, ReadFrameIs
<1>4. CASE peer # "echo"
  <2>1. ExternalInv'
    BY <1>2, <1>4, Zenon DEF EchoInv, ExternalInv, Fresh, ServerIs
  <2> QED
    BY <1>2, <1>4, <2>1, Zenon DEF EchoInv
<1>5. CASE peer = "echo" /\ probed
  <2>1. down = [frames |-> <<>>, end |-> down.end]
    BY <1>5, Zenon DEF EchoInv, ProbedInv
  <2>2. down.frames = <<>>
    BY <2>1, WireFields DEF WireOf
  <2> QED
    BY <1>3, <2>2
<1>6. CASE peer = "echo" /\ ~probed
  <2>1. OutInv /\ UpInv /\ ServerInv /\ RepliesInv /\ DownInv /\ InInv
    BY <1>6 DEF EchoInv, EchoParts
  <2>2. /\ Begins(tun, replied) /\ IsWire(down) /\ IsWire(up)
        /\ Wire("down", req, replied, Len(tun), down.frames)
    BY <1>1, <2>1, Zenon DEF DownInv, UpInv, IsWire
  <2>3. replied # <<>> /\ sent # <<>>
    <3>1. /\ tun \in Seq(Packets) /\ replied \in Seq(Packets) /\ arrived \in Seq(Packets)
          /\ sent \in Seq(Packets) /\ Len(replied) <= Len(arrived) /\ Len(arrived) <= Len(sent)
      BY <2>1, Zenon DEF RepliesInv, DownInv, UpInv, Begins
    <3>2. down.frames \in Seq(Seq(Byte)) /\ Len(tun) + Len(down.frames) = Len(replied)
      BY <2>2, Zenon DEF Wire
    <3>3. Len(down.frames) > 0
      BY <1>3, <3>2
    <3>4. Len(replied) > 0 /\ Len(sent) > 0
      BY <3>1, <3>2, <3>3
    <3> QED
      BY <3>4
  <2>4. WireOf(down', Tail(down.frames), down.end)
    BY <1>1, <2>2, WireTake
  <2>5. PICK e : /\ WireOf(up', up.frames, e) /\ e \in {"open", "eof", "prefix", "payload"}
                 /\ e = "open" \/ e = up.end \/ up.end = "open"
                 /\ up.end \in {"eof", "prefix"} => e = up.end
    <3>1. up.end \in {"open", "eof", "prefix", "payload"}
      BY <2>1, Zenon DEF UpInv
    <3>2. CASE up.end = "open"
      <4>1. PICK e : e = "eof" /\ up' = [up EXCEPT !.end = e]
        BY <1>1, <3>2
      <4>2. WireOf(up', up.frames, e)
        BY <2>2, <4>1, WireEnds
      <4> QED
        BY <3>2, <4>1, <4>2
    <3>3. CASE up.end # "open"
      <4>1. up' = up
        BY <1>1, <3>3
      <4> QED
        BY <2>2, <3>1, <4>1, Zenon DEF WireOf
    <3> QED
      BY <3>2, <3>3
  <2>6. OutInv'
    BY <1>2, <2>1, <2>3, Zenon DEF OutInv
  <2>7. UpInv'
    BY <1>2, <2>1, <2>5, Zenon DEF UpInv, WireOf, IsWire
  <2>8. ServerInv'
    <3>1. server.result = "ok" => up'.frames = <<>> /\ up'.end \in {"eof", "prefix"}
      BY <2>1, <2>5 DEF ServerInv, WireOf
    <3> QED
      BY <1>2, <2>1, <3>1, Zenon DEF ServerInv, Fresh, ServerIs
  <2>9. DownInv'
    BY <1>1, <1>2, <2>1, <2>4, Zenon DEF DownInv, WireOf, IsWire
  <2>10. InInv'
    <3>1. instep' \in BOOLEAN
      BY <1>1
    <3> QED
      BY <1>1, <1>2, <2>3, <3>1, Zenon DEF InInv
  <2>11. RepliesInv'
    BY <1>2, <2>1, Zenon DEF RepliesInv
  <2> QED
    BY <1>2, <1>6, <2>6, <2>7, <2>8, <2>9, <2>10, <2>11, Zenon DEF EchoInv, EchoParts
<1> QED
  BY <1>4, <1>5, <1>6

(* The server's fields. *)
LEMMA ServerFields ==
    ASSUME NEW a, NEW b, NEW c, NEW d, ServerIs(a, b, c, d)
    PROVE  server.reader = a /\ server.writer = b /\ server.request = c /\ server.result = d
BY DEF ServerIs

(* The reply is written whole, or breaks off. *)
Written(p, x, r) ==
    \/ /\ r = "running"
       /\ down' = WriteFrame(down, x.out) /\ replied' = Append(replied, p)
    \/ r = "write_record" /\ down' \in WriteBreaks(down) /\ replied' = replied

(* The answer to the p-th packet, the server's next record. *)
Answers(u, p, x, r) ==
    /\ server' = [server EXCEPT !.reader = u.rd, !.writer = x.writer, !.request = Some(Asked(req)),
                                !.result = r]
    /\ arrived' = Append(arrived, p) /\ Written(p, x, r)
    /\ u.rd.state = "Direct" /\ x.writer = SpentWriter /\ x.out \in Seq(Byte)
    /\ Next1("down", req, replied, p, x.out)

(* The server's step on the record f. *)
ServerStep(f) ==
    LET u == Unpad(server.reader, f)
        payload == Slice(u.out, HeaderLen(u.out), Len(u.out))
    IN  IF ~u.ok \/ (server.request = None /\ ~Acceptable(u.out)) THEN Fail
        ELSE IF server.request = None
        THEN Reply(u, Some(HeaderIn(u.out).req), payload, BuildResponseHeader \o payload)
        ELSE Reply(u, server.request, u.out, u.out)

(* The first record is accepted: it holds the request. *)
LEMMA FirstRecord ==
    ASSUME WellFormed(req), NEW p \in Seq(Byte), NEW f, UpFirst(req, p, f),
           Fresh("running"), replied = <<>>, ServerStep(f)
    PROVE  \E u, x, r : Answers(u, p, x, r)
<1>1. PICK u : u = Unpad(NewReader(req.uuid), f)
  OBVIOUS
<1>2. u.ok /\ u.rd.state = "Direct" /\ u.out = BuildRequestHeader(req) \o p
  BY <1>1, Zenon DEF UpFirst
<1>3. PICK w : w = u.out
  OBVIOUS
<1>4. ReadBack(req, p, w)
  BY <1>2, <1>3, HeaderReadBack
<1>5. Asked(req).uuid = req.uuid
  BY AskedUuid
<1>6. /\ Acceptable(w) /\ HeaderIn(w).req = Asked(req)
      /\ Slice(w, HeaderLen(w), Len(w)) = p
  BY <1>4, <1>5, Zenon DEF ReadBack, Acceptable
<1>7. server.reader = NewReader(req.uuid) /\ server.writer = NewWriter(req.uuid) /\ server.request = None
  BY ServerFields DEF Fresh
<1>8. PICK c : c = BuildResponseHeader \o p
  OBVIOUS
<1>9. Reply(u, Some(Asked(req)), p, c)
  BY <1>1, <1>2, <1>3, <1>6, <1>7, <1>8, Zenon DEF ServerStep
<1>10. PICK rnd, x, e :
          /\ rnd \in DrawsFor(server.writer, Len(c))
          /\ x = Pad(server.writer, c, FALSE, TRUE, rnd)
          /\ server' = [server EXCEPT !.reader = u.rd, !.writer = x.writer, !.request = Some(Asked(req)),
                                      !.result = e]
          /\ arrived' = Append(arrived, p) /\ Written(p, x, e)
  BY <1>9, Zenon DEF Reply, Written
<1>11. PICK long, end, n : long = FALSE /\ end = TRUE /\ n = Len(c)
  OBVIOUS
<1>12. rnd \in DrawsFor(NewWriter(req.uuid), n) /\ x = Pad(NewWriter(req.uuid), c, long, end, rnd)
  BY <1>7, <1>10, <1>11, Zenon
<1>13. Answered(req, p, x)
  <2>1. end = TRUE /\ n = Len(c)
    BY <1>11
  <2> QED
    BY <1>8, <1>12, <2>1, ReplyFirst
<1>14. Next1("down", req, replied, p, x.out)
  <2>1. "down" # "up"
    OBVIOUS
  <2> QED
    BY <1>13, <2>1, Zenon DEF Answered, Next1, First
<1> QED
  BY <1>2, <1>10, <1>13, <1>14, Zenon DEF Answers, Answered

(* Every later record is answered by itself. *)
LEMMA LaterRecord ==
    ASSUME NEW p \in Seq(Byte), server.reader.state = "Direct",
           ServerIs(server.reader, SpentWriter, Some(Asked(req)), server.result), replied # <<>>,
           ServerStep(p)
    PROVE  \E u, x, r : Answers(u, p, x, r)
<1>1. PICK r : r = server.reader /\ r.state = "Direct"
  OBVIOUS
<1>2. PICK u : u = Unpad(r, p) /\ u = [ok |-> TRUE, rd |-> r, out |-> p]
  BY <1>1, DirectReads
<1>3. u.ok /\ u.rd = r /\ u.out = p
  BY <1>2
<1>4. server.writer = SpentWriter /\ server.request = Some(Asked(req))
  BY ServerFields
<1>5. Some(Asked(req)) # None
  BY DEF Some, None
<1>6. Reply(u, Some(Asked(req)), p, p)
  BY <1>1, <1>2, <1>3, <1>4, <1>5, Zenon DEF ServerStep
<1>7. PICK rnd, x, e :
          /\ x = Pad(server.writer, p, FALSE, TRUE, rnd)
          /\ server' = [server EXCEPT !.reader = u.rd, !.writer = x.writer, !.request = Some(Asked(req)),
                                      !.result = e]
          /\ arrived' = Append(arrived, p) /\ Written(p, x, e)
  BY <1>6, Zenon DEF Reply, Written
<1>8. PICK long, end : long = FALSE /\ end = TRUE
  OBVIOUS
<1>9. x = Pad(SpentWriter, p, long, end, rnd)
  BY <1>4, <1>7, <1>8, Zenon
<1>10. x = [out |-> p, writer |-> SpentWriter]
  BY <1>9, PadRaw
<1>11. x.out = p /\ x.writer = SpentWriter
  BY <1>10
<1>12. Next1("down", req, replied, p, x.out)
  BY <1>11, Zenon DEF Next1
<1> QED
  BY <1>1, <1>3, <1>7, <1>11, <1>12, Zenon DEF Answers

(* A server that answers is past the padding, in both directions. *)
LEMMA AnswersIs ==
    ASSUME NEW a, NEW b, NEW c, NEW d, ServerIs(a, b, c, d), NEW u, NEW p, NEW x, NEW s,
           Answers(u, p, x, s), req' = req
    PROVE  /\ server'.reader.state = "Direct" /\ server'.result = s
           /\ ServerIs(server.reader, SpentWriter, Some(Asked(req)), server.result)'
<1>1. PICK q, r : q = Some(Asked(req)) /\ r = u.rd /\ r.state = "Direct"
  BY DEF Answers
<1>2. server' = [server EXCEPT !.reader = r, !.writer = SpentWriter, !.request = q, !.result = s]
  BY <1>1, Zenon DEF Answers
<1>3. server = [reader |-> a, writer |-> b, request |-> c, result |-> d]
  BY Zenon DEF ServerIs
<1>4. server' = [reader |-> r, writer |-> SpentWriter, request |-> q, result |-> s]
  BY <1>2, <1>3
<1>5. server'.reader = r /\ server'.result = s
  BY <1>4
<1> QED
  BY <1>1, <1>4, <1>5, Zenon DEF ServerIs

(* One turn of the echo server's loop on a record: refused, accepted as    *)
(* the request, or answered.                                               *)
LEMMA EchoRecord ==
    ASSUME EchoInv, ServerRecord
    PROVE  EchoInv'
<1>1. peer = "echo" /\ server.result = "running" /\ ReadFrame(up) = "frame" /\ up' = TakeFrame(up)
  BY DEF ServerRecord
<1>2. ServerStep(Head(up.frames))
  BY Zenon DEF ServerRecord, ServerStep
<1>3. UNCHANGED <<req, peer, vless_out, vless_in, instep, backlog, probed, sent, tun>>
  BY DEF ServerRecord
<1>4. up.frames # <<>>
  BY <1>1, ReadFrameIs
<1>5. WellFormed(req) /\ req.uuid \in Seq(Byte) /\ Len(req.uuid) = UuidLen
  BY RequestFits DEF EchoInv
<1>6. CASE probed
  <2>1. ProbedInv
    BY <1>1, <1>6, Zenon DEF EchoInv
  <2>2. up = [frames |-> <<PROBE>>, end |-> "open"]
    BY <1>1, <2>1 DEF ProbedInv
  <2>3. Head(up.frames) = PROBE
    <3>1. up.frames = <<PROBE>>
      BY <2>2, WireFields DEF WireOf
    <3>2. PICK x : x = PROBE
      OBVIOUS
    <3>3. Head(<<x>>) = x
      OBVIOUS
    <3> QED
      BY <3>1, <3>2, <3>3, Zenon
  <2>4. Fresh(server.result)
    BY <2>1, Zenon DEF ProbedInv
  <2>5. server.reader = NewReader(req.uuid) /\ server.request = None
    BY <2>4, ServerFields DEF Fresh
  <2>6. PICK u : u = Unpad(NewReader(req.uuid), PROBE)
    OBVIOUS
  <2>7. u.ok => ~RequestHeaderLen(u.out).ok
    BY <1>5, <2>6, ProbeRefused
  <2>8. Fail
    BY <1>2, <2>3, <2>5, <2>6, <2>7, Zenon DEF ServerStep, Acceptable
  <2>9. /\ server' = [server EXCEPT !.result = "refused"] /\ down' = [down EXCEPT !.end = "eof"]
        /\ arrived' = arrived /\ replied' = replied
    BY <2>8 DEF Fail
  <2>10. ServerIs(NewReader(req.uuid), NewWriter(req.uuid), None, "refused")' /\ server'.result = "refused"
    <3>1. PICK a, b, c, d : /\ a = NewReader(req.uuid) /\ b = NewWriter(req.uuid) /\ c = None
                            /\ server = [reader |-> a, writer |-> b, request |-> c, result |-> d]
      BY <2>4, Zenon DEF Fresh, ServerIs
    <3>2. server' = [reader |-> a, writer |-> b, request |-> c, result |-> "refused"]
      BY <2>9, <3>1
    <3>3. server'.result = "refused"
      BY <3>2
    <3> QED
      BY <1>3, <3>1, <3>2, <3>3, Zenon DEF ServerIs
  <2>11. down' = [frames |-> <<>>, end |-> down'.end]
    <3>1. down = [frames |-> <<>>, end |-> down.end]
      BY <2>1, Zenon DEF ProbedInv
    <3>2. down' = [frames |-> <<>>, end |-> "eof"]
      BY <2>9, <3>1
    <3>3. down'.end = "eof"
      BY <3>2
    <3> QED
      BY <3>2, <3>3, Zenon
  <2>12. ProbedInv'
    BY <1>3, <2>1, <2>9, <2>10, <2>11, Zenon DEF ProbedInv, Fresh
  <2> QED
    BY <1>1, <1>3, <1>6, <2>12, Zenon DEF EchoInv
<1>7. CASE ~probed
  <2>1. OutInv /\ UpInv /\ ServerInv /\ RepliesInv /\ DownInv /\ InInv
    BY <1>1, <1>7 DEF EchoInv, EchoParts
  <2>2. /\ sent \in Seq(Packets) /\ Begins(arrived, sent) /\ IsWire(up)
        /\ Wire("up", req, sent, Len(arrived), up.frames)
    BY <2>1, Zenon DEF UpInv, IsWire
  <2>3. arrived \in Seq(Packets)
    BY <2>2, Zenon DEF Begins
  <2>4. PICK m, p, f, t : /\ m = Len(arrived) + 1 /\ p = sent[m] /\ f = Head(up.frames)
                          /\ t = Append(arrived, p)
    OBVIOUS
  <2>5. Wire("up", req, sent, m, Tail(up.frames)) /\ Taken("up", req, sent, Len(arrived), f)
    <3>1. PICK q : q = req
      OBVIOUS
    <3>2. /\ Wire("up", q, sent, m, Tail(up.frames))
          /\ Taken("up", q, sent, Len(arrived), Head(up.frames))
      BY <1>4, <2>2, <2>4, <3>1, WireTakes
    <3> QED
      BY <2>4, <3>1, <3>2, Zenon
  <2>6. Begins(t, sent) /\ p \in Packets
    <3>1. Len(arrived) < Len(sent)
      BY <2>5, Zenon DEF Taken
    <3>2. Begins(Append(arrived, sent[Len(arrived) + 1]), sent) /\ sent[Len(arrived) + 1] \in Packets
      BY <2>2, <3>1, BeginsMore
    <3> QED
      BY <2>4, <3>2, Zenon
  <2>7. p \in Seq(Byte)
    BY <2>6, PacketFits
  <2>8. f \in Seq(Byte) /\ IF Len(arrived) = 0 THEN First("up", req, sent[1], f) ELSE f = p
    BY <2>4, <2>5, Zenon DEF Taken
  <2>9. arrived = <<>> <=> Len(arrived) = 0
    BY <2>3
  <2>10. replied = arrived /\ Begins(tun, replied) /\ IsWire(down)
         /\ (instep => Wire("down", req, replied, Len(tun), down.frames))
    <3>1. server.result # "write_record"
      BY <1>1
    <3> QED
      BY <2>1, <3>1, Zenon DEF RepliesInv, DownInv, IsWire
  <2>11. /\ \E a, b, c : ServerIs(a, b, c, "running")
         /\ \E u, x, r : Answers(u, p, x, r)
    <3>1. CASE arrived = <<>>
      <4>1. Fresh("running")
        BY <1>1, <2>1, <3>1, Zenon DEF ServerInv
      <4>2. p = sent[1]
        BY <2>4, <3>1
      <4>3. UpFirst(req, p, f)
        BY <2>8, <2>9, <3>1, <4>2, Zenon DEF First
      <4>4. replied = <<>> /\ ServerStep(f)
        BY <1>2, <2>4, <2>10, <3>1, Zenon
      <4>5. \E u, x, r : Answers(u, p, x, r)
        BY <1>5, <2>7, <4>1, <4>3, <4>4, FirstRecord
      <4> QED
        BY <4>1, <4>5, Zenon DEF Fresh
    <3>2. CASE arrived # <<>>
      <4>1. /\ server.reader.state = "Direct"
            /\ ServerIs(server.reader, SpentWriter, Some(Asked(req)), server.result)
        BY <2>1, <3>2, Zenon DEF ServerInv
      <4>2. replied # <<>> /\ ServerStep(p)
        BY <1>2, <2>4, <2>8, <2>9, <2>10, <3>2, Zenon
      <4>3. \E u, x, r : Answers(u, p, x, r)
        BY <2>7, <4>1, <4>2, LaterRecord
      <4> QED
        BY <1>1, <4>1, <4>3, Zenon
    <3> QED
      BY <3>1, <3>2
  <2>12. PICK u, x, r : Answers(u, p, x, r)
    BY <2>11
  <2>13. /\ server'.reader.state = "Direct" /\ server'.result = r
         /\ ServerIs(server.reader, SpentWriter, Some(Asked(req)), server.result)'
    <3>1. PICK a, b, c : ServerIs(a, b, c, "running")
      BY <2>11
    <3> QED
      BY <1>3, <2>12, <3>1, AnswersIs
  <2>14. arrived' = t
    BY <2>4, <2>12, Zenon DEF Answers
  <2>15. t # <<>> /\ Len(t) = m /\ t \in Seq(Packets)
    BY <2>3, <2>4, <2>6
  <2>16. WireOf(up', Tail(up.frames), up.end)
    BY <1>1, <2>2, WireTake
  <2>17. UpInv'
    <3>1. up.end \in {"open", "eof", "prefix", "payload"}
      BY <2>1, Zenon DEF UpInv
    <3> QED
      BY <1>3, <2>2, <2>5, <2>6, <2>14, <2>15, <2>16, <3>1, Zenon DEF UpInv, WireOf, IsWire
  <2>18. OutInv'
    BY <1>3, <2>1, <2>16, Zenon DEF OutInv, WireOf
  <2>19. ServerInv'
    <3>1. r \in ServerResults \ {"refused"} /\ r # "ok"
      BY <2>12 DEF Answers, Written, ServerResults
    <3> QED
      BY <1>3, <2>13, <2>14, <2>15, <3>1, Zenon DEF ServerInv, ServerIs
  <2>20. ASSUME r = "running" PROVE RepliesInv' /\ DownInv' /\ InInv'
    <3>1. down' = WriteFrame(down, x.out) /\ replied' = t
      <4>1. r # "write_record"
        BY <2>20
      <4> QED
        BY <2>4, <2>10, <2>12, <4>1, Zenon DEF Answers, Written
    <3>2. PICK g : g = Append(down.frames, x.out)
      OBVIOUS
    <3>3. WireOf(down', g, down.end)
      BY <2>10, <3>1, <3>2, WireWrite
    <3>4. ASSUME instep PROVE Wire("down", req, t, Len(tun), g)
      <4>1. x.out \in Seq(Byte) /\ Next1("down", req, arrived, p, x.out)
        BY <2>10, <2>12, Zenon DEF Answers
      <4>2. Wire("down", req, arrived, Len(tun), down.frames)
        BY <2>10, <3>4, Zenon
      <4> QED
        BY <2>3, <2>4, <2>6, <3>2, <4>1, <4>2, WireAdds
    <3>5. Begins(tun, t)
      <4>1. Begins(tun, arrived)
        BY <2>10, Zenon
      <4> QED
        BY <2>3, <2>4, <2>6, <4>1, BeginsStill
    <3>6. DownInv'
      BY <1>3, <3>1, <3>3, <3>4, <3>5, Zenon DEF DownInv, WireOf, IsWire
    <3>7. RepliesInv'
      <4>1. Begins(t, t) /\ Len(t) <= Len(t) + 1
        BY <2>15 DEF Begins
      <4> QED
        BY <2>14, <3>1, <4>1, Zenon DEF RepliesInv
    <3>8. InInv'
      BY <1>3, <2>1, <2>15, <3>1, Zenon DEF InInv
    <3> QED
      BY <3>6, <3>7, <3>8
  <2>21. ASSUME r = "write_record" PROVE RepliesInv' /\ DownInv' /\ InInv'
    <3>1. down' \in WriteBreaks(down) /\ replied' = replied
      <4>1. r # "running"
        BY <2>21
      <4> QED
        BY <2>12, <4>1, Zenon DEF Answers, Written
    <3>2. PICK e : down' = [down EXCEPT !.end = e]
      BY <3>1, Zenon DEF WriteBreaks
    <3>3. WireOf(down', down.frames, e)
      BY <2>10, <3>2, WireEnds
    <3>4. DownInv'
      BY <1>3, <2>10, <3>1, <3>3, Zenon DEF DownInv, WireOf, IsWire
    <3>5. RepliesInv'
      <4>1. Begins(arrived, arrived)
        BY <2>3 DEF Begins
      <4>2. Begins(arrived, t)
        BY <2>3, <2>4, <2>6, <4>1, BeginsStill
      <4>3. Len(t) <= Len(arrived) + 1
        BY <2>3, <2>4, <2>15
      <4>4. ~(r # "write_record")
        BY <2>21
      <4> QED
        BY <2>10, <2>13, <2>14, <3>1, <4>2, <4>3, <4>4, Zenon DEF RepliesInv
    <3>6. InInv'
      BY <1>3, <2>1, <3>1, Zenon DEF InInv
    <3> QED
      BY <3>4, <3>5, <3>6
  <2>22. RepliesInv' /\ DownInv' /\ InInv'
    BY <2>12, <2>20, <2>21, Zenon DEF Answers, Written
  <2> QED
    BY <1>1, <1>3, <1>7, <2>17, <2>18, <2>19, <2>22, Zenon DEF EchoInv, EchoParts
<1> QED
  BY <1>6, <1>7

(* The server's session ends with the result e and closes the connection. *)
Closes(e) ==
    /\ server' = [server EXCEPT !.result = e] /\ down' = [down EXCEPT !.end = "eof"]
    /\ UNCHANGED <<req, peer, vless_out, vless_in, instep, up, backlog, probed, sent,
                   arrived, replied, tun>>

(* A session that ends with every reply written, and cleanly only at the   *)
(* end of its stream, leaves everything else as it was.                    *)
LEMMA EchoCloses ==
    ASSUME EchoInv, NEW e \in {"ok", "record_loop"}, Closes(e),
           peer = "echo", server.result = "running",
           e = "ok" => ~probed /\ up.frames = <<>> /\ up.end \in {"eof", "prefix"}
    PROVE  EchoInv'
<1>1. server' = [server EXCEPT !.result = e] /\ down' = [down EXCEPT !.end = "eof"]
  BY DEF Closes
<1>2. UNCHANGED <<req, peer, vless_out, vless_in, instep, up, backlog, probed, sent, arrived, replied, tun>>
  BY DEF Closes
<1>3. PICK a, b, c, d :
          /\ ServerIs(a, b, c, d)
          /\ IF arrived = <<>> THEN a = NewReader(req.uuid) /\ b = NewWriter(req.uuid) /\ c = None
             ELSE a.state = "Direct" /\ b = SpentWriter /\ c = Some(Asked(req))
  BY Zenon DEF EchoInv, EchoParts, ProbedInv, ServerInv, Fresh
<1>4. server' = [reader |-> a, writer |-> b, request |-> c, result |-> e]
  <2>1. server = [reader |-> a, writer |-> b, request |-> c, result |-> d]
    BY <1>3, Zenon DEF ServerIs
  <2> QED
    BY <1>1, <2>1
<1>5. server'.result = e /\ server'.reader = a
  BY <1>4
<1>6. CASE probed
  <2>1. ProbedInv
    BY <1>6, Zenon DEF EchoInv
  <2>2. e = "record_loop"
    BY <1>6
  <2>3. down' = [frames |-> <<>>, end |-> down'.end]
    <3>1. down = [frames |-> <<>>, end |-> down.end]
      BY <2>1, Zenon DEF ProbedInv
    <3>2. down' = [frames |-> <<>>, end |-> "eof"]
      BY <1>1, <3>1
    <3>3. down'.end = "eof"
      BY <3>2
    <3> QED
      BY <3>2, <3>3, Zenon
  <2>4. up = [frames |-> <<PROBE>>, end |-> "open"] /\ "record_loop" \in {"running", "record_loop"}
    BY <2>1 DEF ProbedInv
  <2>5. ProbedInv'
    BY <1>2, <1>3, <1>4, <1>5, <2>1, <2>2, <2>3, <2>4, Zenon DEF ProbedInv, Fresh, ServerIs
  <2> QED
    BY <1>2, <1>6, <2>5, Zenon DEF EchoInv
<1>7. CASE ~probed
  <2>1. OutInv /\ UpInv /\ ServerInv /\ RepliesInv /\ DownInv /\ InInv
    BY <1>7 DEF EchoInv, EchoParts
  <2>2. ServerInv'
    <3>1. e \in ServerResults \ {"refused"}
      BY DEF ServerResults
    <3> QED
      BY <1>2, <1>3, <1>4, <1>5, <3>1, Zenon DEF ServerInv, Fresh, ServerIs
  <2>3. DownInv'
    <3>1. IsWire(down)
      BY <2>1, Zenon DEF DownInv, IsWire
    <3>2. WireOf(down', down.frames, "eof")
      BY <1>1, <3>1, WireEnds
    <3> QED
      BY <1>2, <2>1, <3>2, Zenon DEF DownInv, WireOf, IsWire
  <2>4. RepliesInv'
    <3>1. server.result # "write_record"
      OBVIOUS
    <3> QED
      BY <1>2, <2>1, <3>1, Zenon DEF RepliesInv
  <2>5. OutInv' /\ UpInv' /\ InInv'
    BY <1>2, <2>1, Zenon DEF OutInv, UpInv, InInv
  <2> QED
    BY <1>2, <1>7, <2>2, <2>3, <2>4, <2>5, Zenon DEF EchoInv, EchoParts
<1> QED
  BY <1>6, <1>7

(* The echo server at the end of its stream. *)
LEMMA EchoServerEnds ==
    ASSUME EchoInv, ServerEnds
    PROVE  EchoInv'
<1>1. peer = "echo" /\ server.result = "running" /\ ReadFrame(up) \in {"none", "error"}
  BY DEF ServerEnds
<1>2. PICK e : e = IF ReadFrame(up) = "none" THEN "ok" ELSE "record_loop"
  OBVIOUS
<1>3. Closes(e)
  BY <1>2, Zenon DEF ServerEnds, Closes
<1>4. up.frames = <<>>
  BY <1>1, ReadFrameIs
<1>5. ~probed
  <2> SUFFICES ASSUME probed PROVE FALSE
    OBVIOUS
  <2>1. ProbedInv
    BY <1>1, Zenon DEF EchoInv
  <2>2. up = [frames |-> <<PROBE>>, end |-> "open"]
    BY <1>1, <2>1 DEF ProbedInv
  <2>3. up.frames = <<PROBE>>
    BY <2>2, WireFields DEF WireOf
  <2>4. PICK x : x = PROBE
    OBVIOUS
  <2>5. <<x>> # <<>>
    OBVIOUS
  <2> QED
    BY <1>4, <2>3, <2>4, <2>5, Zenon
<1>6. e \in {"ok", "record_loop"} /\ (e = "ok" => up.end \in {"eof", "prefix"})
  BY <1>1, <1>2, ReadFrameIs
<1> QED
  BY <1>1, <1>3, <1>4, <1>5, <1>6, EchoCloses

(* A read that times out ends the session, whatever is under way. *)
LEMMA EchoTimesOut ==
    ASSUME EchoInv, ServerTimesOut
    PROVE  EchoInv'
<1>1. peer = "echo" /\ server.result = "running"
  BY DEF ServerTimesOut
<1>2. PICK e \in {"ok", "record_loop"} : e = "record_loop"
  OBVIOUS
<1>3. Closes(e)
  BY <1>2, Zenon DEF ServerTimesOut, Closes
<1>4. e # "ok"
  BY <1>2
<1> QED
  BY <1>1, <1>3, <1>4, EchoCloses

(* An external peer's steps do not touch the way up. *)
External == StreamCut \/ StreamMalformed \/ StreamBreaks \/ \E p \in Packets : StreamWrite(p)

(* What external peers do happens in sessions without the echo server. *)
LEMMA EchoExternal ==
    ASSUME EchoInv, External
    PROVE  EchoInv'
<1>1. peer # "echo"
  <2>1. StreamCut => backlog # <<>>
    BY DEF StreamCut
  <2>2. StreamMalformed \/ StreamBreaks \/ (\E p \in Packets : StreamWrite(p)) => peer # "echo"
    BY DEF StreamMalformed, StreamBreaks, StreamWrite
  <2> QED
    BY <2>1, <2>2, Zenon DEF External, EchoInv
<1>2. UNCHANGED <<req, peer, server, probed, sent, arrived>>
  BY DEF External, StreamCut, StreamMalformed, StreamBreaks, StreamWrite
<1>3. ExternalInv'
  BY <1>1, <1>2, Zenon DEF EchoInv, ExternalInv, Fresh, ServerIs
<1> QED
  BY <1>1, <1>2, <1>3, Zenon DEF EchoInv

(* Nothing changes when no variable does. *)
LEMMA EchoStutter ==
    ASSUME EchoInv, UNCHANGED vars
    PROVE  EchoInv'
<1>1. /\ UNCHANGED <<req, peer, vless_out, vless_in, instep, up, down, server>>
      /\ UNCHANGED <<backlog, probed, sent, arrived, replied, tun>>
  BY DEF vars
<1> QED
  BY <1>1, Zenon DEF EchoInv, EchoParts, ExternalInv, ProbedInv, OutInv, UpInv, ServerInv,
                     RepliesInv, DownInv, InInv, Fresh, ServerIs

(* The invariant holds of every state. *)
LEMMA EchoAlways == Spec => []EchoInv
<1>1. Init => EchoInv
  BY EchoStart
<1>2. EchoInv /\ [Next]_vars => EchoInv'
  <2> SUFFICES ASSUME EchoInv, [Next]_vars PROVE EchoInv'
    OBVIOUS
  <2>1. ASSUME NEW p \in Packets, Outbound(p) PROVE EchoInv'
    BY <2>1, EchoOutbound
  <2>2. CASE Probe
    BY <2>2, EchoProbe
  <2>3. CASE Inbound
    BY <2>3, EchoInbound
  <2>4. CASE ServerRecord
    BY <2>4, EchoRecord
  <2>5. CASE ServerEnds
    BY <2>5, EchoServerEnds
  <2>6. CASE External
    BY <2>6, EchoExternal
  <2>7. CASE UNCHANGED vars
    BY <2>7, EchoStutter
  <2>8. CASE TunGone
    BY <2>8, EchoTunGone
  <2>9. CASE ServerTimesOut
    BY <2>9, EchoTimesOut
  <2> QED
    BY <2>1, <2>2, <2>3, <2>4, <2>5, <2>6, <2>7, <2>8, <2>9, Zenon DEF Next, External
<1> QED
  BY <1>1, <1>2, PTL DEF Spec

-----------------------------------------------------------------------------
(* What the invariant gives. *)

(* RequestArrives, for every request whose fields fit their bytes, every   *)
(* packet, padding and break of the connection: the request parsed by the  *)
(* server is the one build_request_header was called with.                 *)
THEOREM RequestCorrect == Spec => []RequestArrives
<1>1. EchoInv => RequestArrives
  <2> SUFFICES ASSUME EchoInv PROVE RequestArrives
    OBVIOUS
  <2>1. (\E r, a, b : ServerIs(a, b, None, r)) \/ (\E r, a, b : ServerIs(a, b, Some(Asked(req)), r))
    <3>1. CASE peer # "echo"
      BY <3>1, Zenon DEF EchoInv, ExternalInv, Fresh
    <3>2. CASE peer = "echo" /\ probed
      BY <3>2, Zenon DEF EchoInv, ProbedInv, Fresh
    <3>3. CASE peer = "echo" /\ ~probed
      BY <3>3, Zenon DEF EchoInv, EchoParts, ServerInv, Fresh
    <3> QED
      BY <3>1, <3>2, <3>3
  <2>2. server.request = None \/ server.request = Some(Asked(req))
    BY <2>1, ServerFields
  <2> QED
    BY <2>2, Zenon DEF RequestArrives, Asked
<1> QED
  BY <1>1, EchoAlways, PTL

(* OnlyProbeRefused: for every packet, request and draw of the padding,    *)
(* and wherever the connection breaks or a read times out, the only record *)
(* the server refuses over its content is the raw probe, and that one it   *)
(* refuses whenever it reads it.                                           *)
THEOREM RefusedCorrect == Spec => []OnlyProbeRefused
<1>1. ASSUME EchoInv, ~probed PROVE server.result # "refused"
  <2>1. CASE peer # "echo"
    <3>1. server.result = "running"
      BY <1>1, <2>1, ServerFields DEF EchoInv, ExternalInv, Fresh
    <3> QED
      BY <3>1
  <2>2. CASE peer = "echo"
    BY <1>1, <2>2 DEF EchoInv, EchoParts, ServerInv
  <2> QED
    BY <2>1, <2>2
<1>2. ASSUME EchoInv, probed, up.frames = <<>>
      PROVE  server.result = "refused" /\ server.request = None /\ down.frames = <<>>
  <2>1. ProbedInv
    BY <1>2, Zenon DEF EchoInv, ExternalInv
  <2>2. server.result = "refused"
    <3>1. PICK x : x = PROBE
      OBVIOUS
    <3>2. <<x>> # <<>>
      OBVIOUS
    <3>3. up # [frames |-> <<x>>, end |-> "open"]
      BY <1>2, <3>2
    <3> QED
      BY <2>1, <3>1, <3>3, Zenon DEF ProbedInv
  <2>3. server.request = None
    BY <2>1, ServerFields DEF ProbedInv, Fresh
  <2>4. down.frames = <<>>
    <3>1. down = [frames |-> <<>>, end |-> down.end]
      BY <2>1, Zenon DEF ProbedInv
    <3> QED
      BY <3>1
  <2> QED
    BY <2>2, <2>3, <2>4
<1>3. EchoInv => OnlyProbeRefused
  BY <1>1, <1>2, Zenon DEF OnlyProbeRefused
<1> QED
  BY <1>3, EchoAlways, PTL

(* A sequence that begins another and is as long is that one. *)
LEMMA BeginsAll ==
    ASSUME NEW s \in Seq(Packets), NEW t, Begins(t, s), Len(t) = Len(s)
    PROVE  t = s
<1>1. t \in Seq(Packets) /\ \A i \in 1..Len(t) : t[i] = s[i]
  BY DEF Begins
<1> QED
  BY <1>1, SameSeq

(* A beginning is a subsequence from the first packet on. *)
LEMMA BeginsIs ==
    ASSUME NEW s \in Seq(Packets), NEW t, Begins(t, s)
    PROVE  t = SubSeq(s, 1, Len(t)) /\ Len(t) \in Nat /\ Len(t) <= Len(s)
<1>1. t \in Seq(Packets) /\ Len(t) <= Len(s) /\ Len(t) \in Nat /\ \A i \in 1..Len(t) : t[i] = s[i]
  BY DEF Begins
<1>2. PICK n, x : n = Len(t) /\ x = SubSeq(s, 1, n)
  OBVIOUS
<1>3. x \in Seq(Packets) /\ Len(x) = n /\ \A i \in 1..n : x[i] = s[i]
  BY <1>1, <1>2
<1>4. t = x
  BY <1>1, <1>2, <1>3, SameSeq
<1> QED
  BY <1>1, <1>2, <1>4

(* Nothing under way: all packets of the direction have been taken. *)
LEMMA WireDrained ==
    ASSUME NEW way, NEW q, NEW s, NEW n, Wire(way, q, s, n, <<>>)
    PROVE  n = Len(s)
BY DEF Wire

(* CleanCloseIsWhole: a clean end of the server's session means every      *)
(* packet the client wrote was answered, wherever the connection broke and *)
(* although an end of file inside a length prefix passes for a clean one.  *)
THEOREM CleanCorrect == Spec => []CleanCloseIsWhole
<1>1. EchoInv => CleanCloseIsWhole
  <2> SUFFICES ASSUME EchoInv, server.result = "ok" PROVE arrived = sent /\ up.end # "payload"
    BY DEF CleanCloseIsWhole
  <2>1. peer = "echo" /\ ~probed
    <3>1. CASE peer # "echo"
      BY <3>1, ServerFields DEF EchoInv, ExternalInv, Fresh
    <3>2. CASE peer = "echo" /\ probed
      BY <3>2 DEF EchoInv, ProbedInv
    <3> QED
      BY <3>1, <3>2
  <2>2. UpInv /\ ServerInv
    BY <2>1, Zenon DEF EchoInv, EchoParts
  <2>3. up.frames = <<>> /\ up.end \in {"eof", "prefix"}
    BY <2>2, Zenon DEF ServerInv
  <2>4. sent \in Seq(Packets) /\ Begins(arrived, sent) /\ Wire("up", req, sent, Len(arrived), <<>>)
    BY <2>2, <2>3, Zenon DEF UpInv
  <2>5. Len(arrived) = Len(sent)
    BY <2>4, WireDrained
  <2> QED
    BY <2>3, <2>4, <2>5, BeginsAll
<1> QED
  BY <1>1, EchoAlways, PTL

(* EchoReturns: behind the echo server every TUN write is one whole packet *)
(* of those sent, in order from the first, and once both wires have        *)
(* drained every packet is back.                                           *)
THEOREM EchoCorrect == Spec => []EchoReturns
<1>1. EchoInv => EchoReturns
  <2> SUFFICES ASSUME EchoInv, peer = "echo"
               PROVE  /\ tun = SubSeq(sent, 1, Len(tun))
                      /\ up.frames = <<>> /\ down.frames = <<>> /\ instep =>
                            \/ tun = sent
                            \/ server.result = "write_record" /\ Len(tun) = Len(sent) - 1
    BY Zenon DEF EchoReturns
  <2>1. CASE probed
    <3>1. sent = <<>> /\ tun = <<>>
      BY <2>1 DEF EchoInv, ProbedInv
    <3> QED
      BY <3>1
  <2>2. CASE ~probed
    <3>1. UpInv /\ RepliesInv /\ DownInv
      BY <2>2, Zenon DEF EchoInv, EchoParts
    <3>2. /\ sent \in Seq(Packets) /\ Begins(arrived, sent) /\ Begins(replied, arrived)
          /\ Begins(tun, replied)
          /\ Wire("up", req, sent, Len(arrived), up.frames)
          /\ (instep => Wire("down", req, replied, Len(tun), down.frames))
          /\ (server.result # "write_record" => replied = arrived)
          /\ Len(arrived) <= Len(replied) + 1
      BY <3>1, Zenon DEF UpInv, RepliesInv, DownInv
    <3>3. arrived \in Seq(Packets) /\ replied \in Seq(Packets)
      BY <3>2, Zenon DEF Begins
    <3>4. Begins(tun, sent)
      <4>1. /\ tun \in Seq(Packets) /\ Len(tun) <= Len(replied) /\ Len(replied) <= Len(arrived)
            /\ Len(arrived) <= Len(sent)
            /\ \A i \in 1..Len(tun) : tun[i] = replied[i]
            /\ \A i \in 1..Len(replied) : replied[i] = arrived[i]
            /\ \A i \in 1..Len(arrived) : arrived[i] = sent[i]
        BY <3>2 DEF Begins
      <4>2. Len(tun) <= Len(sent) /\ \A i \in 1..Len(tun) : tun[i] = sent[i]
        BY <3>2, <3>3, <4>1
      <4> QED
        BY <4>1, <4>2, Zenon DEF Begins
    <3>5. tun = SubSeq(sent, 1, Len(tun))
      BY <3>2, <3>4, BeginsIs
    <3>6. ASSUME up.frames = <<>>, down.frames = <<>>, instep
          PROVE  tun = sent \/ (server.result = "write_record" /\ Len(tun) = Len(sent) - 1)
      <4>1. Len(arrived) = Len(sent) /\ Len(tun) = Len(replied)
        BY <3>2, <3>6, WireDrained
      <4>2. CASE Len(tun) = Len(sent)
        BY <3>2, <3>4, <4>2, BeginsAll
      <4>3. CASE Len(tun) # Len(sent)
        <5>1. server.result = "write_record"
          BY <3>2, <4>1, <4>3
        <5>2. Len(replied) <= Len(arrived) /\ Len(replied) \in Nat /\ Len(arrived) \in Nat
          BY <3>2, <3>3 DEF Begins
        <5> QED
          BY <3>2, <4>1, <4>3, <5>1, <5>2
      <4> QED
        BY <4>2, <4>3
    <3> QED
      BY <3>5, <3>6
  <2> QED
    BY <2>1, <2>2
<1> QED
  BY <1>1, EchoAlways, PTL

(* A record the server takes delivers the next packet, or none. *)
LEMMA RecordDelivers ==
    ASSUME EchoInv, EchoInv', ServerRecord
    PROVE  [Up!Next]_<<sent, arrived>>
<1>1. peer = "echo" /\ up' = TakeFrame(up) /\ ReadFrame(up) = "frame"
  BY DEF ServerRecord
<1>2. UNCHANGED <<req, peer, probed, sent>>
  BY DEF ServerRecord
<1>3. CASE probed
  <2>1. arrived = <<>> /\ arrived' = <<>>
    BY <1>1, <1>2, <1>3, Zenon DEF EchoInv, ProbedInv
  <2> QED
    BY <1>2, <2>1
<1>4. CASE ~probed
  <2>1. UpInv /\ UpInv'
    BY <1>1, <1>2, <1>4, Zenon DEF EchoInv, EchoParts
  <2>2. /\ sent \in Seq(Packets) /\ Begins(arrived, sent) /\ IsWire(up)
        /\ Wire("up", req, sent, Len(arrived), up.frames)
    BY <2>1, Zenon DEF UpInv, IsWire
  <2>3. Begins(arrived', sent) /\ Wire("up", req, sent, Len(arrived'), up'.frames)
    BY <1>2, <2>1, Zenon DEF UpInv
  <2>4. up'.frames = Tail(up.frames) /\ up.frames # <<>>
    <3>1. WireOf(up', Tail(up.frames), up.end)
      BY <1>1, <2>2, WireTake
    <3> QED
      BY <1>1, <3>1, ReadFrameIs DEF WireOf
  <2>5. Len(arrived') = Len(arrived) + 1
    <3>1. /\ up.frames \in Seq(Seq(Byte)) /\ Len(arrived) \in Nat /\ Len(arrived') \in Nat
          /\ Len(arrived) + Len(up.frames) = Len(sent)
          /\ Len(arrived') + Len(Tail(up.frames)) = Len(sent)
      BY <2>2, <2>3, <2>4 DEF Wire
    <3>2. PICK a, b : a = Len(up.frames) /\ b = Len(Tail(up.frames))
      OBVIOUS
    <3>3. a \in Nat /\ b = a - 1
      BY <2>4, <3>1, <3>2
    <3>4. PICK c, d, e : c = Len(arrived) /\ d = Len(arrived') /\ e = Len(sent)
      OBVIOUS
    <3>5. c \in Nat /\ d \in Nat /\ c + a = e /\ d + b = e
      BY <3>1, <3>2, <3>4
    <3> QED
      BY <3>3, <3>4, <3>5
  <2>6. /\ arrived' = SubSeq(sent, 1, Len(arrived')) /\ Len(arrived') <= Len(sent)
        /\ Len(arrived) \in Nat /\ Len(arrived') \in Nat /\ Len(sent) \in Nat
    <3>1. Len(sent) \in Nat
      BY <2>2
    <3> QED
      BY <2>2, <2>3, <3>1, BeginsIs
  <2>7. Len(arrived') \in (Len(arrived) + 1)..Len(sent)
    BY <2>5, <2>6
  <2>8. Up!Deliver
    BY <1>2, <2>6, <2>7, Zenon DEF Up!Deliver
  <2> QED
    BY <2>8, Zenon DEF Up!Next
<1> QED
  BY <1>3, <1>4

(* The client's outbound half is a Send of PacketPipe. *)
LEMMA OutboundSends ==
    ASSUME EchoInv, NEW p \in Packets, Outbound(p)
    PROVE  [Up!Next]_<<sent, arrived>>
<1>1. arrived' = arrived /\ peer = "echo" /\ ~probed
  BY DEF Outbound
<1>2. sent' = Append(sent, p) \/ sent' = sent
  BY Zenon DEF Outbound
<1>3. CASE sent' = Append(sent, p)
  <2>1. sent \in Seq(Packets)
    BY <1>1, Zenon DEF EchoInv, EchoParts, UpInv
  <2>2. PICK t : t = Append(sent, p)
    OBVIOUS
  <2>3. t \in Seq(Packets) /\ Len(t) = Len(sent) + 1 /\ \A i \in 1..Len(sent) : t[i] = sent[i]
    BY <2>1, <2>2
  <2>4. PICK n, x : n = Len(sent) /\ x = SubSeq(t, 1, n)
    OBVIOUS
  <2>5. x \in Seq(Packets) /\ Len(x) = n /\ \A i \in 1..n : x[i] = sent[i]
    BY <2>1, <2>3, <2>4
  <2>6. x = sent
    BY <2>1, <2>4, <2>5, SameSeq
  <2>7. Len(t) > Len(sent)
    BY <2>1, <2>3
  <2>8. Up!Send
    BY <1>1, <1>3, <2>2, <2>4, <2>6, <2>7, Zenon DEF Up!Send
  <2> QED
    BY <2>8, Zenon DEF Up!Next
<1> QED
  BY <1>1, <1>2, <1>3

(* UpIsPipe: the way up implements PacketPipe: whatever header, identity,  *)
(* padding and frames carry them, what the server unwraps are the TUN's    *)
(* packets, whole, in order and none before another.                       *)
THEOREM UpCorrect == Spec => UpIsPipe
<1>1. Init => Up!Init
  BY DEF Init, Up!Init
<1>2. EchoInv /\ EchoInv' /\ [Next]_vars => [Up!Next]_<<sent, arrived>>
  <2> SUFFICES ASSUME EchoInv, EchoInv', [Next]_vars PROVE [Up!Next]_<<sent, arrived>>
    OBVIOUS
  <2>1. ASSUME NEW p \in Packets, Outbound(p) PROVE [Up!Next]_<<sent, arrived>>
    BY <2>1, OutboundSends
  <2>2. CASE Probe \/ Inbound \/ TunGone \/ ServerEnds \/ ServerTimesOut \/ External
    BY <2>2 DEF Probe, Inbound, TunGone, ServerEnds, ServerTimesOut, External, StreamCut, StreamMalformed,
                StreamBreaks, StreamWrite
  <2>3. CASE ServerRecord
    BY <2>3, RecordDelivers
  <2>4. CASE UNCHANGED vars
    BY <2>4 DEF vars
  <2> QED
    BY <2>1, <2>2, <2>3, <2>4, Zenon DEF Next, External
<1> QED
  BY <1>1, <1>2, EchoAlways, PTL DEF Spec, UpIsPipe, Up!Spec

-----------------------------------------------------------------------------
(* Packets as bytes. *)

(* g has the concatenations of the first 0 to n sequences of ss. *)
Cats(n, g, ss) == g = [i \in 0..n |-> IF i = 0 THEN <<>> ELSE g[i - 1] \o ss[i]]

(* The record of the concatenations exists for any number of sequences. *)
LEMMA CatsExist ==
    ASSUME NEW ss
    PROVE  \A n \in Nat : \E g : Cats(n, g, ss)
<1> DEFINE F(a, i) == a \o ss[i]
           T == {n \in Nat : \E g : Cats(n, g, ss)}
<1>1. 0 \in T
  <2>1. PICK g : g = [i \in 0..0 |-> <<>>]
    OBVIOUS
  <2>2. Cats(0, g, ss)
    BY <2>1 DEF Cats
  <2> QED
    BY <2>2
<1>2. ASSUME NEW n \in Nat, n \in T PROVE n + 1 \in T
  <2>1. PICK g : Cats(n, g, ss)
    BY <1>2
  <2> HIDE DEF F
  <2>2. PICK h : h = [i \in 0..(n + 1) |-> IF i = 0 THEN <<>> ELSE F(g[i - 1], i)]
    OBVIOUS
  <2>3. g = [i \in 0..n |-> IF i = 0 THEN <<>> ELSE F(g[i - 1], i)]
    BY <2>1 DEF Cats, F
  <2>4. \A i \in 0..n : h[i] = g[i]
    BY <2>2, <2>3
  <2>5. \A i \in 0..(n + 1) : i # 0 => h[i - 1] = g[i - 1]
    BY <2>4
  <2>6. h = [i \in 0..(n + 1) |-> IF i = 0 THEN <<>> ELSE F(h[i - 1], i)]
    BY <2>2, <2>5
  <2>7. Cats(n + 1, h, ss)
    BY <2>6 DEF Cats, F
  <2> QED
    BY <2>7
<1>3. Nat \subseteq T
  <2> HIDE DEF T
  <2> QED
    BY <1>1, <1>2, SetInduction
<1> QED
  BY <1>3

(* Concat gives the last of these. *)
LEMMA ConcatIs ==
    ASSUME NEW ss, Len(ss) \in Nat
    PROVE  \E g : Cats(Len(ss), g, ss) /\ Concat(ss) = g[Len(ss)]
<1> DEFINE g == CHOOSE h : Cats(Len(ss), h, ss)
<1>1. Cats(Len(ss), g, ss)
  BY CatsExist
<1>2. Concat(ss) = g[Len(ss)]
  BY DEF Concat, Cats
<1> QED
  BY <1>1, <1>2

(* Nothing concatenates to nothing. *)
LEMMA ConcatNone == Concat(<<>>) = <<>>
<1>1. Len(<<>>) = 0
  OBVIOUS
<1>2. PICK g : Cats(0, g, <<>>) /\ Concat(<<>>) = g[0]
  BY <1>1, ConcatIs
<1> QED
  BY <1>2 DEF Cats

(* d is c with p behind it. *)
Adds(c, p, d) == d = c \o p

(* One step of the concatenation. *)
LEMMA CatStep ==
    ASSUME NEW n \in Nat, NEW g, NEW ss, Cats(n, g, ss), NEW i \in 1..n
    PROVE  g[0] = <<>> /\ Adds(g[i - 1], ss[i], g[i])
<1> DEFINE F(a, k) == a \o ss[k]
<1>1. g = [k \in 0..n |-> IF k = 0 THEN <<>> ELSE F(g[k - 1], k)]
  BY DEF Cats
<1> HIDE DEF F
<1>2. g[0] = <<>> /\ g[i] = F(g[i - 1], i)
  BY <1>1
<1> QED
  BY <1>2 DEF F, Adds

(* One more sequence comes behind the others. *)
LEMMA ConcatMore ==
    ASSUME NEW ss \in Seq(Seq(Byte)), NEW p \in Seq(Byte)
    PROVE  Adds(Concat(ss), p, Concat(Append(ss, p)))
<1>1. PICK v : v = Append(ss, p)
  OBVIOUS
<1>2. PICK n \in Nat : n = Len(ss)
  OBVIOUS
<1>3. /\ v \in Seq(Seq(Byte)) /\ Len(v) = n + 1 /\ v[n + 1] = p
      /\ \A i \in 1..n : v[i] = ss[i]
  BY <1>1, <1>2
<1>4. PICK g : Cats(n, g, ss) /\ Concat(ss) = g[n]
  BY <1>2, ConcatIs
<1>5. PICK h : Cats(n + 1, h, v) /\ Concat(v) = h[n + 1]
  <2>1. PICK m : m = n + 1
    OBVIOUS
  <2>2. m \in Nat /\ Len(v) = m
    BY <1>3, <2>1
  <2>3. \E h : Cats(Len(v), h, v) /\ Concat(v) = h[Len(v)]
    BY <2>2, ConcatIs, Zenon
  <2> QED
    BY <2>1, <2>2, <2>3, Zenon
<1>6. \A i \in Nat : i <= n => h[i] = g[i]
  <2> DEFINE T == {i \in Nat : i <= n => h[i] = g[i]}
  <2>1. 0 \in T
    BY <1>4, <1>5 DEF Cats
  <2>2. ASSUME NEW i \in Nat, i \in T PROVE i + 1 \in T
    <3> SUFFICES ASSUME i + 1 <= n PROVE h[i + 1] = g[i + 1]
      OBVIOUS
    <3>1. h[i] = g[i]
      BY <2>2
    <3>2. PICK j : j = i + 1
      OBVIOUS
    <3>3. j \in 1..n /\ j \in 1..(n + 1) /\ j - 1 = i /\ n + 1 \in Nat
      BY <3>2
    <3>4. Adds(g[j - 1], ss[j], g[j])
      BY <1>4, <3>3, CatStep
    <3>5. Adds(h[j - 1], v[j], h[j])
      BY <1>5, <3>3, CatStep
    <3>6. v[j] = ss[j]
      BY <1>3, <3>3
    <3> QED
      BY <3>1, <3>2, <3>3, <3>4, <3>5, <3>6, Zenon DEF Adds
  <2>3. Nat \subseteq T
    <3> HIDE DEF T
    <3> QED
      BY <2>1, <2>2, SetInduction
  <2> QED
    BY <2>3
<1>7. h[n] = g[n]
  BY <1>6
<1>8. PICK m : m = n + 1
  OBVIOUS
<1>9. m \in 1..m /\ m \in Nat /\ m - 1 = n
  BY <1>8
<1>10. Adds(h[m - 1], v[m], h[m])
  BY <1>5, <1>8, <1>9, CatStep
<1> QED
  BY <1>1, <1>3, <1>4, <1>5, <1>7, <1>8, <1>9, <1>10, Zenon DEF Adds

(* t is all of s up to some byte. *)
Heads(t, s) == \E rest \in Seq(Byte) : s = t \o rest

(* The first n sequences concatenate to a beginning of all. *)
LEMMA ConcatHeads ==
    ASSUME NEW ss \in Seq(Seq(Byte))
    PROVE  /\ Concat(ss) \in Seq(Byte)
           /\ \A m \in 0..Len(ss) : Heads(Concat(SubSeq(ss, 1, m)), Concat(ss))
<1>0. PICK N \in Nat : N = Len(ss)
  OBVIOUS
<1> DEFINE C(n) == Concat(SubSeq(ss, 1, n))
           P(n) == \A m \in 0..n : C(m) \in Seq(Byte) /\ Heads(C(m), C(n))
           T == {n \in Nat : n <= N => P(n)}
<1>1. \A s \in Seq(Byte) : Heads(s, s)
  <2> SUFFICES ASSUME NEW s \in Seq(Byte) PROVE Heads(s, s)
    OBVIOUS
  <2>1. s = s \o <<>> /\ <<>> \in Seq(Byte)
    OBVIOUS
  <2> QED
    BY <2>1 DEF Heads
<1>2. 0 \in T
  <2>1. SubSeq(ss, 1, 0) = <<>>
    OBVIOUS
  <2>2. C(0) = <<>>
    BY <2>1, ConcatNone, Zenon
  <2>3. C(0) \in Seq(Byte)
    <3>1. <<>> \in Seq(Byte)
      OBVIOUS
    <3> QED
      BY <2>2, <3>1, Zenon
  <2>4. ASSUME NEW m \in 0..0 PROVE C(m) \in Seq(Byte) /\ Heads(C(m), C(0))
    <3>1. m = 0
      OBVIOUS
    <3> QED
      BY <1>1, <2>3, <3>1, Zenon
  <2>5. P(0)
    BY <2>4
  <2> QED
    BY <2>5
<1>3. ASSUME NEW n \in Nat, n \in T PROVE n + 1 \in T
  <2>1. PICK k \in Nat : k = n + 1
    OBVIOUS
  <2> SUFFICES ASSUME k <= N PROVE P(k)
    <3> HIDE DEF P
    <3> QED
      BY <2>1
  <2>2. P(n)
    BY <1>3, <2>1
  <2>3. PICK s, p : s = SubSeq(ss, 1, n) /\ p = ss[k]
    OBVIOUS
  <2>4. s \in Seq(Seq(Byte)) /\ p \in Seq(Byte) /\ SubSeq(ss, 1, k) = Append(s, p)
    <3>1. k \in 1..Len(ss)
      BY <1>0, <2>1
    <3>2. p \in Seq(Byte)
      BY <2>3, <3>1
    <3>3. s \in Seq(Seq(Byte)) /\ SubSeq(ss, 1, k) = Append(s, p)
      BY <2>1, <2>3, <3>1
    <3> QED
      BY <3>2, <3>3
  <2>5. Adds(C(n), p, C(k))
    BY <2>3, <2>4, ConcatMore, Zenon
  <2>6. PICK c, d : c = C(n) /\ d = C(k)
    OBVIOUS
  <2>7. c \in Seq(Byte) /\ d = c \o p /\ d \in Seq(Byte)
    <3>1. n \in 0..n
      OBVIOUS
    <3>2. c \in Seq(Byte)
      BY <2>2, <2>6, <3>1
    <3>3. d = c \o p
      BY <2>5, <2>6, Zenon DEF Adds
    <3> QED
      BY <2>4, <3>2, <3>3, ConcatLen
  <2>8. ASSUME NEW m \in 0..k PROVE C(m) \in Seq(Byte) /\ Heads(C(m), C(k))
    <3>1. CASE m = k
      BY <1>1, <2>6, <2>7, <3>1, Zenon
    <3>2. CASE m # k
      <4>1. m \in 0..n
        BY <2>1, <3>2
      <4>2. PICK e : e = C(m)
        OBVIOUS
      <4>3. e \in Seq(Byte) /\ Heads(e, c)
        BY <2>2, <2>6, <4>1, <4>2
      <4>4. PICK rest \in Seq(Byte) : c = e \o rest
        BY <4>3 DEF Heads
      <4>5. Assoc(e, rest, p) /\ rest \o p \in Seq(Byte)
        BY <2>4, <4>3, ConcatAssoc, ConcatLen
      <4>6. d = e \o (rest \o p)
        BY <2>7, <4>4, <4>5, Zenon DEF Assoc
      <4>7. Heads(e, d)
        BY <4>5, <4>6, Zenon DEF Heads
      <4> QED
        BY <2>6, <4>2, <4>3, <4>7, Zenon
    <3> QED
      BY <3>1, <3>2
  <2> QED
    BY <2>8
<1>4. Nat \subseteq T
  <2> HIDE DEF T
  <2> QED
    BY <1>2, <1>3, SetInduction
<1>5. P(N)
  <2> HIDE DEF P
  <2> QED
    BY <1>4
<1>6. SubSeq(ss, 1, N) = ss
  BY <1>0
<1>7. N \in 0..N
  OBVIOUS
<1>8. C(N) \in Seq(Byte) /\ C(N) = Concat(ss)
  BY <1>5, <1>6, <1>7, Zenon
<1>9. ASSUME NEW m \in 0..Len(ss) PROVE Heads(Concat(SubSeq(ss, 1, m)), Concat(ss))
  <2>1. m \in 0..N
    BY <1>0
  <2> QED
    BY <1>5, <1>8, <2>1, Zenon
<1> QED
  BY <1>8, <1>9, Zenon

-----------------------------------------------------------------------------
(* The external peers: what becomes of their stream. *)

(* A first record that is no Vision stream of ours, or no response, is     *)
(* refused.                                                                *)
LEMMA MalformedRefused ==
    ASSUME NEW u, u = req.uuid, u \in Seq(Byte), Len(u) = UuidLen, NEW f \in Malformed
    PROVE  f \in Seq(Byte) /\ Rejected(NewIn(u), f)
<1>1. PICK m : m = MaxFrameBody + 1
  OBVIOUS
<1>2. /\ 0 \in Byte /\ 1 \in Byte /\ 2 \in Byte /\ 3 \in Byte /\ 4 \in Byte /\ 10 \in Byte
      /\ UuidLen \in Nat \ {0}
  BY VlessAssumption DEF Byte
<1>3. PICK x, y : x = (m \div ByteMod) % ByteMod /\ y = m % ByteMod
  OBVIOUS
<1>4. x \in Byte /\ y \in Byte /\ Be16(m) = <<x, y>>
  <2>1. m \in Nat /\ ByteMod \in Nat /\ ByteMod > 0
    BY <1>1, VlessAssumption
  <2>2. m \div ByteMod \in Nat
    BY <2>1
  <2>3. x \in 0..(ByteMod - 1) /\ y \in 0..(ByteMod - 1)
    BY <1>3, <2>1, <2>2
  <2> QED
    BY <1>3, <2>3, Zenon DEF Byte, Be16
<1>5. ASSUME NEW t \in Seq(Byte), Len(t) \in 5..8, f = u \o t
      PROVE  f \in Seq(Byte) /\ Rejected(NewIn(u), f)
  <2>1. PICK k \in 5..8 : k = Len(t)
    BY <1>5
  <2>2. f \in Seq(Byte) /\ Len(f) = UuidLen + k
    BY <1>5, <2>1, ConcatLen
  <2>3. Len(f) \in (UuidLen + 5)..(UuidLen + 8)
    BY <1>2, <2>2
  <2> QED
    BY <2>2, <2>3, ShortRefused
<1>6. CASE f = [i \in 1..(UuidLen + 5) |-> 1]
  <2>1. f \in Seq(Byte) /\ Len(f) = UuidLen + 5
    BY <1>2, <1>6
  <2>2. Len(f) \in (UuidLen + 5)..(UuidLen + 8)
    BY <1>2, <2>1
  <2> QED
    BY <2>1, <2>2, ShortRefused
<1>7. CASE f = (u \o <<3, 0, 4, 0, 0>>) \o BuildResponseHeader
  <2>1. PICK s, b : s = Strange /\ b = BuildResponseHeader
    OBVIOUS
  <2>2. s \in Seq(Byte) /\ Len(s) = 5
    BY <1>2, <2>1 DEF Strange
  <2>3. b \in Seq(Byte) /\ Len(b) = 4
    BY <1>2, <2>1 DEF BuildResponseHeader, VERSION, FlowTag
  <2>4. PICK w : w = s \o b
    OBVIOUS
  <2>5. w \in Seq(Byte) /\ Len(w) = 9
    <3>1. w \in Seq(Byte) /\ Len(w) = Len(s) + Len(b)
      BY <2>2, <2>3, <2>4, ConcatLen
    <3> QED
      BY <2>2, <2>3, <3>1
  <2>6. f = u \o w
    <3>1. Assoc(u, s, b)
      BY <2>2, <2>3, ConcatAssoc
    <3> QED
      BY <1>7, <2>1, <2>4, <3>1, Zenon DEF Assoc, Strange
  <2>7. f \in Seq(Byte)
    BY <2>5, <2>6, ConcatLen
  <2>8. Refuses(LockedOn(u), w)
    BY <2>1, <2>4, StrangeRefused
  <2>9. Unpad(NewReader(u), u \o w) = UnpadBytes(LockedOn(u), w)
    <3>1. Len(w) >= 5
      BY <2>5
    <3> QED
      BY <2>5, <3>1, NewReaderLocks
  <2>10. ~Unpad(NewReader(u), f).ok
    BY <2>6, <2>8, <2>9, Zenon DEF Refuses
  <2> QED
    BY <2>7, <2>10, UnwrapRefused
<1>8. CASE f = ((u \o <<0>>) \o Be16(m)) \o <<0, 0>>
  <2>1. PICK a, b, c, t : a = <<0>> /\ b = <<x, y>> /\ c = <<0, 0>> /\ t = (a \o b) \o c
    OBVIOUS
  <2>2. a \in Seq(Byte) /\ b \in Seq(Byte) /\ c \in Seq(Byte) /\ Len(a) = 1 /\ Len(b) = 2 /\ Len(c) = 2
    BY <1>2, <1>4, <2>1
  <2>3. a \o b \in Seq(Byte) /\ Len(a \o b) = 3
    <3>1. a \o b \in Seq(Byte) /\ Len(a \o b) = Len(a) + Len(b)
      BY <2>2, ConcatLen
    <3> QED
      BY <2>2, <3>1
  <2>4. t \in Seq(Byte) /\ Len(t) = 5
    BY <2>1, <2>2, <2>3, ConcatLen
  <2>5. f = u \o t
    <3>1. Assoc(u, a, b) /\ Assoc(u, a \o b, c)
      BY <2>2, <2>3, ConcatAssoc
    <3> QED
      BY <1>4, <1>8, <2>1, <3>1, Zenon DEF Assoc
  <2> QED
    <3>1. Len(t) \in 5..8
      BY <2>4
    <3> QED
      BY <1>5, <2>4, <2>5, <3>1
<1>9. CASE f = (u \o <<0, 0, 0>>) \o Be16(m)
  <2>1. PICK a, b, t : a = <<0, 0, 0>> /\ b = <<x, y>> /\ t = a \o b
    OBVIOUS
  <2>2. a \in Seq(Byte) /\ b \in Seq(Byte) /\ Len(a) = 3 /\ Len(b) = 2
    BY <1>2, <1>4, <2>1
  <2>3. t \in Seq(Byte) /\ Len(t) = 5
    BY <2>1, <2>2, ConcatLen
  <2>4. f = u \o t
    <3>1. Assoc(u, a, b)
      BY <2>2, ConcatAssoc
    <3> QED
      BY <1>4, <1>9, <2>1, <3>1, Zenon DEF Assoc
  <2> QED
    <3>1. Len(t) \in 5..8
      BY <2>3
    <3> QED
      BY <1>5, <2>3, <2>4, <3>1
<1>10. CASE f = u \o <<0, 0, 2, 0, 0, 0, 0>>
  <2>1. PICK t : t = <<0, 0, 2, 0, 0, 0, 0>>
    OBVIOUS
  <2>2. t \in Seq(Byte) /\ Len(t) = 7
    BY <1>2, <2>1
  <2> QED
    <3>1. Len(t) \in 5..8
      BY <2>2
    <3> QED
      BY <1>5, <1>10, <2>1, <2>2, <3>1
<1>11. CASE f = <<VERSION + 1, FlowTag, 1, 0>>
  <2>1. f \in Seq(Byte) /\ Len(f) = 4 /\ f[1] = 1
    BY <1>2, <1>11 DEF VERSION, FlowTag
  <2>2. ~(Len(f) >= UuidLen + 5)
    BY <1>2, <2>1
  <2>3. Unpads(NewReader(u), f, Plainly(u), f)
    BY <2>2, Passes, Zenon DEF Unpads
  <2>4. ~Responds(f)
    BY <2>1 DEF Responds, VERSION
  <2>5. Rejected(NewIn(u), f)
    BY <2>3, <2>4, UnwrapFirst
  <2> QED
    BY <2>1, <2>5
<1> QED
  BY <1>1, <1>6, <1>7, <1>8, <1>9, <1>10, <1>11 DEF Malformed

(* A reader and a writer that agree on where the next payload begins. *)
Synced(r, wr, u) == \/ wr = NewWriter(<<>>) /\ Ready(r, u)
                    \/ wr = SpentWriter /\ r.state = "Direct"

(* A payload padded without END leaves a writer that has spent its         *)
(* identity and goes on padding.                                           *)
LEMMA PadGoesOn ==
    ASSUME NEW uuid, NEW payload, NEW long, NEW end, end = FALSE, NEW rnd
    PROVE  Pad(NewWriter(uuid), payload, long, end, rnd).writer = NewWriter(<<>>)
<1>1. PICK wr, t : wr = NewWriter(uuid) /\ t = TRUE
  OBVIOUS
<1>2. wr = [uuid |-> uuid, is_padding |-> t]
  BY <1>1, Zenon DEF NewWriter
<1>3. wr.is_padding = t
  BY <1>2
<1>4. wr.is_padding
  BY <1>1, <1>3, Zenon
<1>5. PICK x : x = Pad(wr, payload, long, end, rnd)
  OBVIOUS
<1>6. PICK y, z : x = [out |-> y, writer |-> z] /\ z = [uuid |-> <<>>, is_padding |-> ~end]
  BY <1>4, <1>5, Zenon DEF Pad
<1>7. z = NewWriter(<<>>)
  BY <1>6, Zenon DEF NewWriter
<1>8. x.writer = z
  BY <1>6
<1> QED
  BY <1>1, <1>5, <1>7, <1>8, Zenon

(* After a payload reader and writer agree, whether its last frame was END *)
(* or CONTINUE.                                                            *)
LEMMA AfterSynced ==
    ASSUME NEW end \in BOOLEAN, NEW wr, NEW u, NEW p, NEW r,
           r = AfterFrame(IF end THEN PADDING_END ELSE PADDING_CONTINUE, p, u),
           wr = IF end THEN SpentWriter ELSE NewWriter(<<>>)
    PROVE  Synced(r, wr, u)
<1>1. CASE end = TRUE
  <2>1. PADDING_END # PADDING_CONTINUE
    BY DEF PADDING_END, PADDING_CONTINUE
  <2>2. r = Past(PADDING_END, p, u) /\ wr = SpentWriter
    BY <1>1, <2>1, Zenon DEF AfterFrame
  <2>3. PICK f : f = FALSE
    OBVIOUS
  <2>4. r = Rd("Direct", 0, PADDING_END, p, <<>>, u, f, f)
    BY <2>2, <2>3, Zenon DEF Past
  <2>5. r.state = "Direct"
    BY <2>4, RdFields
  <2> QED
    BY <2>2, <2>5, Zenon DEF Synced
<1>2. CASE end = FALSE
  <2>1. r = Padded("Header", 0, PADDING_CONTINUE, p, <<>>, u) /\ wr = NewWriter(<<>>)
    BY <1>2, Zenon DEF AfterFrame
  <2> QED
    BY <2>1, Zenon DEF Synced, Ready
<1> QED
  BY <1>1, <1>2, Zenon

(* The bytes w, read by rd, give o and leave the reader level with wr. *)
Levels(rd, w, o, wr, u) == \E r : Reads(rd, w, r, o) /\ Synced(r, wr, u)

(* The payload, padded into x: behind the identity it reads back as        *)
(* itself, and the reader keeps level with the writer.                     *)
PadLevelled(uuid, rd, payload, x, u) ==
    \E w \in Seq(Byte) : x.out = uuid \o w /\ Levels(rd, w, payload, x.writer, u)

(* PadLevelled holds of every payload and every drawing of paddings. *)
LEMMA PadLevels ==
    ASSUME NEW uuid \in Seq(Byte), NEW payload \in Seq(Byte), NEW long, NEW end \in BOOLEAN,
           NEW n, n = Len(payload), NEW rnd \in DrawsFor(NewWriter(uuid), n),
           NEW rd, NEW u, Ready(rd, u), NEW x, x = Pad(NewWriter(uuid), payload, long, end, rnd)
    PROVE  PadLevelled(uuid, rd, payload, x, u)
<1>1. \A i \in 1..FrameCount(n) : rnd[i] \in Nat
  BY DrawsFresh
<1>2. PICK count : count = FrameCount(n)
  OBVIOUS
<1>3. count = FrameCount(Len(payload)) /\ \A i \in 1..count : rnd[i] \in Nat
  BY <1>1, <1>2, Zenon
<1>4. Carries(rd, u, uuid, payload, end, Pad(NewWriter(uuid), payload, long, end, rnd).out)
  BY <1>3, PadReads
<1>5. Carries(rd, u, uuid, payload, end, x.out)
  BY <1>4, Zenon
<1>6. PICK w \in Seq(Byte) : \E p :
        /\ x.out = uuid \o w /\ Len(w) >= 5
        /\ Reads(rd, w, AfterFrame(IF end THEN PADDING_END ELSE PADDING_CONTINUE, p, u), payload)
  BY <1>5, Zenon DEF Carries
<1>7. PICK p :
        /\ x.out = uuid \o w
        /\ Reads(rd, w, AfterFrame(IF end THEN PADDING_END ELSE PADDING_CONTINUE, p, u), payload)
  BY <1>6, Zenon
<1>8. x.writer = IF end THEN SpentWriter ELSE NewWriter(<<>>)
  <2>1. CASE end = TRUE
    <3>1. x.writer = SpentWriter
      BY <2>1, PadSpends
    <3> QED
      BY <2>1, <3>1, Zenon
  <2>2. CASE end = FALSE
    <3>1. x.writer = NewWriter(<<>>)
      BY <2>2, PadGoesOn
    <3> QED
      BY <2>2, <3>1, Zenon
  <2> QED
    BY <2>1, <2>2, Zenon
<1>9. PICK r : r = AfterFrame(IF end THEN PADDING_END ELSE PADDING_CONTINUE, p, u)
  OBVIOUS
<1>10. Synced(r, x.writer, u)
  BY <1>8, <1>9, AfterSynced, Zenon
<1> QED
  BY <1>6, <1>7, <1>9, <1>10, Zenon DEF Levels, PadLevelled

(* The writer of a peer that never pads. *)
RawWriter(u) == [uuid |-> u, is_padding |-> FALSE]

(* What the client's reader r makes of the peer's bytes w. *)
Follow(kind, u, r, w, wr, o) ==
    IF kind = "plain" THEN r = Plainly(u) /\ wr = RawWriter(u) /\ o = w
    ELSE Typed(r) /\ Levels(r, w, o, wr, u)

(* Such a writer hands its payloads through. *)
LEMMA PadUnpadded ==
    ASSUME NEW u, NEW payload, NEW long, NEW end, NEW rnd
    PROVE  Pad(RawWriter(u), payload, long, end, rnd) = [out |-> payload, writer |-> RawWriter(u)]
<1>1. RawWriter(u).is_padding = FALSE
  BY DEF RawWriter
<1> QED
  BY <1>1, Zenon DEF Pad

(* Nothing before or behind a sequence. *)
LEMMA NothingBefore ==
    ASSUME NEW s \in Seq(Byte), NEW e, e = <<>>
    PROVE  e \in Seq(Byte) /\ e \o s = s /\ s \o e = s
OBVIOUS

(* A payload more, whatever the writer's state. *)
LEMMA LevelsMore ==
    ASSUME NEW rd, NEW w \in Seq(Byte), NEW o \in Seq(Byte), NEW wr, NEW u, Levels(rd, w, o, wr, u),
           NEW p \in Seq(Byte), NEW n, n = Len(p), NEW rnd \in DrawsFor(wr, n), NEW long,
           NEW end \in BOOLEAN, NEW x, x = Pad(wr, p, long, end, rnd)
    PROVE  x.out \in Seq(Byte) /\ Levels(rd, w \o x.out, o \o p, x.writer, u)
<1>1. PICK r : Reads(rd, w, r, o) /\ Synced(r, wr, u)
  BY Zenon DEF Levels
<1>2. ASSUME NEW y \in Seq(Byte), x.out = y, Levels(r, y, p, x.writer, u)
      PROVE  x.out \in Seq(Byte) /\ Levels(rd, w \o x.out, o \o p, x.writer, u)
  <2>1. PICK r2 : Reads(r, y, r2, p) /\ Synced(r2, x.writer, u)
    BY <1>2, Zenon DEF Levels
  <2>2. Reads(rd, w \o y, r2, o \o p)
    BY <1>1, <2>1, ReadsOn
  <2> QED
    BY <1>2, <2>1, <2>2, Zenon DEF Levels
<1>3. CASE wr = NewWriter(<<>>) /\ Ready(r, u)
  <2>1. PICK e : e = <<>>
    OBVIOUS
  <2>a. e \in Seq(Byte)
    BY <2>1, NothingBefore
  <2>2. rnd \in DrawsFor(NewWriter(e), n) /\ x = Pad(NewWriter(e), p, long, end, rnd)
    BY <1>3, <2>1, Zenon
  <2>3. PICK y \in Seq(Byte) : x.out = e \o y /\ Levels(r, y, p, x.writer, u)
    <3>1. PadLevelled(e, r, p, x, u)
      BY <1>3, <2>a, <2>2, PadLevels
    <3> QED
      BY <3>1, Zenon DEF PadLevelled
  <2>4. x.out = y
    BY <2>1, <2>3, NothingBefore
  <2> QED
    BY <1>2, <2>3, <2>4
<1>4. CASE wr = SpentWriter /\ r.state = "Direct"
  <2>1. x = [out |-> p, writer |-> SpentWriter]
    BY <1>4, PadRaw, Zenon
  <2>2. x.out = p /\ x.writer = SpentWriter
    BY <2>1
  <2>3. Unpad(r, p) = [ok |-> TRUE, rd |-> r, out |-> p]
    BY <1>4, DirectReads
  <2>4. r.state # "Initial"
    BY <1>4
  <2>5. Reads(r, p, r, p)
    BY <2>3, <2>4, Zenon DEF Unpad, Reads
  <2>6. Levels(r, p, p, x.writer, u)
    BY <1>4, <2>2, <2>5, Zenon DEF Levels, Synced
  <2> QED
    BY <1>2, <2>2, <2>6
<1> QED
  BY <1>1, <1>3, <1>4, Zenon DEF Synced

(* The peer writes one more payload behind the bytes the client has still  *)
(* to read.                                                                *)
LEMMA FollowMore ==
    ASSUME NEW kind, NEW u, NEW r, NEW w \in Seq(Byte), NEW wr, NEW o \in Seq(Byte),
           Follow(kind, u, r, w, wr, o),
           NEW p \in Seq(Byte), NEW n, n = Len(p), NEW rnd \in DrawsFor(wr, n), NEW long,
           NEW end \in BOOLEAN, NEW x, x = Pad(wr, p, long, end, rnd)
    PROVE  x.out \in Seq(Byte) /\ Follow(kind, u, r, w \o x.out, x.writer, o \o p)
<1>1. CASE kind = "plain"
  <2>1. r = Plainly(u) /\ wr = RawWriter(u) /\ o = w
    BY <1>1, Zenon DEF Follow
  <2>2. x = [out |-> p, writer |-> RawWriter(u)]
    BY <2>1, PadUnpadded, Zenon
  <2>3. x.out = p /\ x.writer = RawWriter(u)
    BY <2>2
  <2> QED
    BY <1>1, <2>1, <2>3, Zenon DEF Follow
<1>2. CASE kind # "plain"
  <2>1. Typed(r) /\ Levels(r, w, o, wr, u)
    BY <1>2, Zenon DEF Follow
  <2>2. x.out \in Seq(Byte) /\ Levels(r, w \o x.out, o \o p, x.writer, u)
    BY <2>1, LevelsMore
  <2> QED
    BY <1>2, <2>1, <2>2, Zenon DEF Follow
<1> QED
  BY <1>1, <1>2

(* A record cut off the stream, and what is left. *)
Split(kind, u, rd, a, b, wr, o) ==
    \E r : \E o1, o2 \in Seq(Byte) :
        Unpads(rd, a, r, o1) /\ Follow(kind, u, r, b, wr, o2) /\ o = o1 \o o2

(* A stream read level, cut into a part that is read and one that will be. *)
LevelCut(rd, a, b, o, wr, u) ==
    \E r : \E o1, o2 \in Seq(Byte) :
        Reads(rd, a, r, o1) /\ Typed(r) /\ Levels(r, b, o2, wr, u) /\ o = o1 \o o2

(* A stream read level can be cut anywhere. *)
LEMMA LevelsCut ==
    ASSUME NEW rd, Typed(rd), NEW a \in Seq(Byte), NEW b \in Seq(Byte), NEW o, NEW wr, NEW u,
           Levels(rd, a \o b, o, wr, u)
    PROVE  LevelCut(rd, a, b, o, wr, u)
<1>1. PICK r2 : Reads(rd, a \o b, r2, o) /\ Synced(r2, wr, u)
  BY Zenon DEF Levels
<1>2. Cut(rd, a, b, r2, o)
  BY <1>1, ReadsCut
<1>3. PICK r : \E o1, o2 \in Seq(Byte) : Reads(rd, a, r, o1) /\ Reads(r, b, r2, o2) /\ o = o1 \o o2
  BY <1>2, Zenon DEF Cut
<1>4. PICK o1, o2 \in Seq(Byte) : Reads(rd, a, r, o1) /\ Reads(r, b, r2, o2) /\ o = o1 \o o2
  BY <1>3
<1>5. Typed(r)
  BY <1>4, ReadsTyped
<1>6. Levels(r, b, o2, wr, u)
  BY <1>1, <1>4, Zenon DEF Levels
<1> QED
  BY <1>4, <1>5, <1>6, Zenon DEF LevelCut

(* A record cut off the peer's stream is unpadded, and the rest follows. A *)
(* plain record must not look like a frame with the identity.              *)
LEMMA FollowCut ==
    ASSUME NEW kind, NEW u, NEW rd, NEW a \in Seq(Byte), NEW b \in Seq(Byte), NEW wr, NEW o,
           Follow(kind, u, rd, a \o b, wr, o),
           kind = "plain" => ~(Len(a) >= UuidLen + 5 /\ Slice(a, 0, UuidLen) = u)
    PROVE  Split(kind, u, rd, a, b, wr, o)
<1>1. CASE kind = "plain"
  <2>1. rd = Plainly(u) /\ wr = RawWriter(u) /\ o = a \o b
    BY <1>1, Zenon DEF Follow
  <2>2. Unpads(rd, a, rd, a)
    BY <1>1, <2>1, Passes, Zenon DEF Unpads
  <2>3. Follow(kind, u, rd, b, wr, b)
    BY <1>1, <2>1, Zenon DEF Follow
  <2> QED
    BY <2>1, <2>2, <2>3, Zenon DEF Split
<1>2. CASE kind # "plain"
  <2>1. Typed(rd) /\ Levels(rd, a \o b, o, wr, u)
    BY <1>2, Zenon DEF Follow
  <2>2. PICK r : \E o1, o2 \in Seq(Byte) :
              Reads(rd, a, r, o1) /\ Typed(r) /\ Levels(r, b, o2, wr, u) /\ o = o1 \o o2
    <3>1. LevelCut(rd, a, b, o, wr, u)
      BY <2>1, LevelsCut
    <3> QED
      BY <3>1, Zenon DEF LevelCut
  <2>3. PICK o1, o2 \in Seq(Byte) :
              Reads(rd, a, r, o1) /\ Typed(r) /\ Levels(r, b, o2, wr, u) /\ o = o1 \o o2
    BY <2>2
  <2>4. Unpads(rd, a, r, o1)
    BY <2>1, <2>3, TypedUnpads, Zenon DEF Unpads, Reads
  <2>5. Follow(kind, u, r, b, wr, o2)
    BY <1>2, <2>3, Zenon DEF Follow
  <2> QED
    BY <2>3, <2>4, <2>5, Zenon DEF Split
<1> QED
  BY <1>1, <1>2

(* The stream from its first byte on. *)
Lead(kind, u)  == IF kind = "plain" THEN <<>> ELSE u
Onset(kind, u) == IF kind = "plain" THEN Plainly(u) ELSE LockedOn(u)
FreshWriter(kind, u) == IF kind = "plain" THEN RawWriter(u) ELSE NewWriter(u)
StreamOpens(kind, u, s, wr, o) ==
    \E w \in Seq(Byte) : s = Lead(kind, u) \o w /\ Follow(kind, u, Onset(kind, u), w, wr, o)

(* The peer's first payload opens its stream. *)
LEMMA OpeningStarts ==
    ASSUME NEW kind, NEW u \in Seq(Byte), NEW wr, wr = FreshWriter(kind, u),
           NEW p \in Seq(Byte), NEW n, n = Len(p), NEW rnd \in DrawsFor(wr, n), NEW long,
           NEW end \in BOOLEAN, NEW x, x = Pad(wr, p, long, end, rnd)
    PROVE  x.out \in Seq(Byte) /\ StreamOpens(kind, u, x.out, x.writer, p)
<1>1. CASE kind = "plain"
  <2>1. wr = RawWriter(u) /\ Lead(kind, u) = <<>> /\ Onset(kind, u) = Plainly(u)
    BY <1>1, Zenon DEF FreshWriter, Lead, Onset
  <2>2. x = [out |-> p, writer |-> RawWriter(u)]
    BY <2>1, PadUnpadded, Zenon
  <2>3. x.out = p /\ x.writer = RawWriter(u)
    BY <2>2
  <2>4. p = Lead(kind, u) \o p
    BY <2>1, NothingBefore
  <2>5. Follow(kind, u, Onset(kind, u), p, x.writer, p)
    BY <1>1, <2>1, <2>3, Zenon DEF Follow
  <2> QED
    BY <2>3, <2>4, <2>5, Zenon DEF StreamOpens
<1>2. CASE kind # "plain"
  <2>1. wr = NewWriter(u) /\ Lead(kind, u) = u /\ Onset(kind, u) = LockedOn(u)
    BY <1>2, Zenon DEF FreshWriter, Lead, Onset
  <2>2. Ready(LockedOn(u), u)
    BY Zenon DEF Ready, LockedOn
  <2>3. PICK w \in Seq(Byte) : x.out = u \o w /\ Levels(LockedOn(u), w, p, x.writer, u)
    <3>1. PadLevelled(u, LockedOn(u), p, x, u)
      BY <2>1, <2>2, PadLevels
    <3> QED
      BY <3>1, Zenon DEF PadLevelled
  <2>4. x.out \in Seq(Byte)
    BY <2>3, ConcatLen
  <2>5. Follow(kind, u, Onset(kind, u), w, x.writer, p)
    BY <1>2, <2>1, <2>3, LockedTyped, Zenon DEF Follow
  <2> QED
    BY <2>1, <2>3, <2>4, <2>5, Zenon DEF StreamOpens
<1> QED
  BY <1>1, <1>2

(* A payload more before the first record is cut. *)
LEMMA OpeningMore ==
    ASSUME NEW kind, NEW u \in Seq(Byte), NEW s, NEW wr, NEW o \in Seq(Byte), StreamOpens(kind, u, s, wr, o),
           NEW p \in Seq(Byte), NEW n, n = Len(p), NEW rnd \in DrawsFor(wr, n), NEW long,
           NEW end \in BOOLEAN, NEW x, x = Pad(wr, p, long, end, rnd)
    PROVE  s \in Seq(Byte) /\ x.out \in Seq(Byte) /\ StreamOpens(kind, u, s \o x.out, x.writer, o \o p)
<1>1. PICK w \in Seq(Byte) : s = Lead(kind, u) \o w /\ Follow(kind, u, Onset(kind, u), w, wr, o)
  BY Zenon DEF StreamOpens
<1>2. PICK l : l = Lead(kind, u) /\ l \in Seq(Byte)
  <2>1. <<>> \in Seq(Byte)
    OBVIOUS
  <2> QED
    BY <2>1, Zenon DEF Lead
<1>3. x.out \in Seq(Byte) /\ Follow(kind, u, Onset(kind, u), w \o x.out, x.writer, o \o p)
  BY <1>1, FollowMore
<1>4. Assoc(l, w, x.out)
  BY <1>2, <1>3, ConcatAssoc
<1>5. s \o x.out = l \o (w \o x.out)
  BY <1>1, <1>2, <1>4, Zenon DEF Assoc
<1>6. w \o x.out \in Seq(Byte) /\ s \in Seq(Byte)
  BY <1>1, <1>2, <1>3, ConcatLen
<1> QED
  BY <1>2, <1>3, <1>5, <1>6, Zenon DEF StreamOpens

(* Two cuts of one sequence at the same place. *)
SameParts(u, w, c, v) == u = c /\ w = v

(* A sequence has one prefix of each length. *)
LEMMA SamePrefix ==
    ASSUME NEW u \in Seq(Byte), NEW w \in Seq(Byte), NEW c \in Seq(Byte), NEW v \in Seq(Byte),
           Len(u) = Len(c), u \o w = c \o v
    PROVE  SameParts(u, w, c, v)
<1>1. PICK n, m, k \in Nat : n = Len(u) /\ m = Len(w) /\ k = Len(v)
  OBVIOUS
<1>2. PICK x : x = u \o w
  OBVIOUS
<1>3. Joined(Byte, u, w, x, n, m)
  BY <1>1, <1>2, Joins
<1>4. Joined(Byte, c, v, x, n, k)
  BY <1>1, <1>2, Joins
<1>5. m = k
  BY <1>1, <1>3, <1>4 DEF Joined
<1>6. \A i \in 1..n : u[i] = c[i]
  BY <1>3, <1>4 DEF Joined
<1>7. \A i \in 1..m : w[i] = v[i]
  BY <1>3, <1>4, <1>5 DEF Joined
<1>8. u = c
  BY <1>1, <1>6, SameSeq
<1>9. w = v
  BY <1>1, <1>5, <1>7, SameSeq
<1> QED
  BY <1>8, <1>9 DEF SameParts

(* The first record of a stream, cut where the peer cuts it, is unpadded   *)
(* by a fresh reader, and the rest follows.                                *)
LEMMA OpeningCut ==
    ASSUME NEW kind, NEW u \in Seq(Byte), Len(u) = UuidLen, NEW s, NEW wr, NEW o,
           StreamOpens(kind, u, s, wr, o), NEW a \in Seq(Byte), NEW b \in Seq(Byte), s = a \o b,
           IF kind = "plain" THEN Len(a) <= UuidLen + 4 ELSE Len(a) >= UuidLen + 9
    PROVE  Split(kind, u, NewReader(u), a, b, wr, o)
<1>1. PICK w \in Seq(Byte) : s = Lead(kind, u) \o w /\ Follow(kind, u, Onset(kind, u), w, wr, o)
  BY Zenon DEF StreamOpens
<1>2. UuidLen \in Nat
  BY VlessAssumption
<1>3. CASE kind = "plain"
  <2>1. Lead(kind, u) = <<>> /\ Onset(kind, u) = Plainly(u)
    BY <1>3, Zenon DEF Lead, Onset
  <2>2. s = w
    BY <1>1, <2>1, NothingBefore
  <2>3. wr = RawWriter(u) /\ o = w
    BY <1>1, <1>3, Zenon DEF Follow
  <2>4. ~(Len(a) >= UuidLen + 5)
    <3>1. PICK n \in Nat : n = Len(a)
      OBVIOUS
    <3>2. n <= UuidLen + 4
      BY <1>3, <3>1
    <3>3. ~(n >= UuidLen + 5)
      BY <1>2, <3>2
    <3> QED
      BY <3>1, <3>3
  <2>5. Unpads(NewReader(u), a, Plainly(u), a)
    BY <2>4, Passes, Zenon DEF Unpads
  <2>6. Follow(kind, u, Plainly(u), b, wr, b)
    BY <1>3, <2>3, Zenon DEF Follow
  <2> QED
    BY <2>2, <2>3, <2>5, <2>6, Zenon DEF Split
<1>4. CASE kind # "plain"
  <2>1. Lead(kind, u) = u /\ Onset(kind, u) = LockedOn(u)
    BY <1>4, Zenon DEF Lead, Onset
  <2>2. PICK n \in Nat : n = Len(a)
    OBVIOUS
  <2>3. n >= UuidLen + 9
    BY <1>4, <2>2
  <2>4. UuidLen \in 0..Len(a)
    BY <1>2, <2>2, <2>3
  <2>5. PICK c, v : Halves(a, UuidLen, c, v)
    BY <2>4, CutsInTwo
  <2>6. c \in Seq(Byte) /\ v \in Seq(Byte) /\ Len(c) = UuidLen /\ Len(v) = Len(a) - UuidLen /\ a = c \o v
    BY <2>5, Zenon DEF Halves
  <2>7. Len(v) >= 5
    BY <1>2, <2>2, <2>3, <2>6
  <2>8. PICK y : y = v \o b
    OBVIOUS
  <2>9. y \in Seq(Byte)
    BY <2>6, <2>8, ConcatLen
  <2>10. u \o w = c \o y
    <3>1. Assoc(c, v, b)
      BY <2>6, ConcatAssoc
    <3> QED
      BY <1>1, <2>1, <2>6, <2>8, <3>1, Zenon DEF Assoc
  <2>11. SameParts(u, w, c, y)
    BY <2>6, <2>9, <2>10, SamePrefix
  <2>12. c = u /\ w = v \o b
    BY <2>8, <2>11, Zenon DEF SameParts
  <2>13. Follow(kind, u, LockedOn(u), v \o b, wr, o)
    BY <1>1, <2>1, <2>12, Zenon
  <2>14. Split(kind, u, LockedOn(u), v, b, wr, o)
    BY <1>4, <2>6, <2>13, FollowCut
  <2>15. Unpad(LockedOn(u), v) = UnpadBytes(LockedOn(u), v)
    BY LockedTyped, TypedUnpads
  <2>16. Unpad(NewReader(u), u \o v) = UnpadBytes(LockedOn(u), v)
    BY <2>6, <2>7, NewReaderLocks
  <2>17. Unpad(NewReader(u), a) = Unpad(LockedOn(u), v)
    BY <2>6, <2>12, <2>15, <2>16, Zenon
  <2> QED
    BY <2>14, <2>17, Zenon DEF Split, Unpads
<1> QED
  BY <1>3, <1>4

(* The response header leads the content, and is cut off. *)
HeadOff(o1, o2, c, t) == Responds(o1) /\ t = Slice(o1, 4, Len(o1)) /\ t \in Seq(Byte) /\ c = t \o o2

(* The four bytes of the response header are cut off the first content,    *)
(* and what follows begins with the payload.                               *)
LEMMA ResponseOff ==
    ASSUME NEW o1 \in Seq(Byte), NEW o2 \in Seq(Byte), NEW c \in Seq(Byte), Responds(o1),
           BuildResponseHeader \o c = o1 \o o2
    PROVE  HeadOff(o1, o2, c, Slice(o1, 4, Len(o1)))
<1>1. PICK n \in Nat : n = Len(o1)
  OBVIOUS
<1>2. n >= 4
  BY <1>1, Zenon DEF Responds
<1>3. 4 \in 0..Len(o1)
  BY <1>1, <1>2
<1>4. PICK h, t : Halves(o1, 4, h, t)
  BY <1>3, CutsInTwo
<1>5. h \in Seq(Byte) /\ t \in Seq(Byte) /\ Len(h) = 4 /\ o1 = h \o t /\ t = Slice(o1, 4, Len(o1))
  BY <1>4, Zenon DEF Halves
<1>6. PICK b, y : b = BuildResponseHeader /\ y = t \o o2
  OBVIOUS
<1>7. b \in Seq(Byte) /\ Len(b) = 4
  BY <1>6, VlessAssumption DEF BuildResponseHeader, VERSION, FlowTag, Byte
<1>8. y \in Seq(Byte)
  BY <1>5, <1>6, ConcatLen
<1>9. b \o c = h \o y
  <2>1. Assoc(h, t, o2)
    BY <1>5, ConcatAssoc
  <2> QED
    BY <1>5, <1>6, <2>1, Zenon DEF Assoc
<1>10. SameParts(b, c, h, y)
  BY <1>5, <1>7, <1>8, <1>9, SamePrefix
<1>11. c = t \o o2
  BY <1>6, <1>10, Zenon DEF SameParts
<1> QED
  BY <1>5, <1>11, Zenon DEF HeadOff

(* What comes of a record, and of the stream behind it. *)
Takes(kind, u, vi, f, b, wr, c) ==
    \/ Rejected(vi, f)
    \/ \E r : \E o, o2 \in Seq(Byte) :
          Unwraps(vi, f, r, o) /\ Follow(kind, u, r, b, wr, o2) /\ c = o \o o2

(* The first record of a stream that opens with the response header is     *)
(* taken as far as the payload in it goes.                                 *)
LEMMA FirstTaken ==
    ASSUME NEW kind, NEW u, NEW a, NEW b, NEW wr, NEW c \in Seq(Byte),
           Split(kind, u, NewReader(u), a, b, wr, BuildResponseHeader \o c)
    PROVE  Takes(kind, u, NewIn(u), a, b, wr, c)
<1>1. PICK r : \E o1, o2 \in Seq(Byte) :
          Unpads(NewReader(u), a, r, o1) /\ Follow(kind, u, r, b, wr, o2)
          /\ BuildResponseHeader \o c = o1 \o o2
  BY Zenon DEF Split
<1>2. PICK o1, o2 \in Seq(Byte) :
          Unpads(NewReader(u), a, r, o1) /\ Follow(kind, u, r, b, wr, o2)
          /\ BuildResponseHeader \o c = o1 \o o2
  BY <1>1
<1>3. CASE Responds(o1)
  <2>1. Unwraps(NewIn(u), a, r, Slice(o1, 4, Len(o1)))
    BY <1>2, <1>3, UnwrapFirst
  <2>2. HeadOff(o1, o2, c, Slice(o1, 4, Len(o1)))
    BY <1>2, <1>3, ResponseOff
  <2> QED
    BY <1>2, <2>1, <2>2, Zenon DEF Takes, HeadOff
<1>4. CASE ~Responds(o1)
  <2>1. Rejected(NewIn(u), a)
    BY <1>2, <1>4, UnwrapFirst
  <2> QED
    BY <2>1, Zenon DEF Takes
<1> QED
  BY <1>3, <1>4

(* A later record is taken whole. *)
LEMMA NextTaken ==
    ASSUME NEW kind, NEW u, NEW rd, NEW a, NEW b, NEW wr, NEW c, Split(kind, u, rd, a, b, wr, c)
    PROVE  Takes(kind, u, SeenIn(rd), a, b, wr, c)
<1>1. PICK r : \E o1, o2 \in Seq(Byte) :
          Unpads(rd, a, r, o1) /\ Follow(kind, u, r, b, wr, o2) /\ c = o1 \o o2
  BY Zenon DEF Split
<1>2. PICK o1, o2 \in Seq(Byte) :
          Unpads(rd, a, r, o1) /\ Follow(kind, u, r, b, wr, o2) /\ c = o1 \o o2
  BY <1>1
<1>3. Unwraps(SeenIn(rd), a, r, o1)
  BY <1>2, UnwrapSeen
<1> QED
  BY <1>2, <1>3, Zenon DEF Takes

-----------------------------------------------------------------------------
(* The invariant of the way down: what the client's reader will make of    *)
(* the record on the wire and of the bytes behind it is what the TUN has   *)
(* still to get.                                                           *)

(* c is what the TUN has still to get. *)
Ahead(c) == Adds(Concat(tun), c, Concat(replied))

(* Before the first record: the stream so far opens with the response      *)
(* header and holds all that was replied.                                  *)
Waiting ==
    /\ vless_in = NewIn(req.uuid) /\ tun = <<>>
    /\ IF replied = <<>> THEN backlog = <<>> /\ pwriter = FreshWriter(peer, req.uuid)
       ELSE StreamOpens(peer, req.uuid, backlog, pwriter, BuildResponseHeader \o Concat(replied))

(* Between two records: the reader, fed what the peer has not yet cut off, *)
(* will give what the TUN has still to get.                                *)
Flowing ==
    /\ replied # <<>> /\ backlog \in Seq(Byte)
    /\ \E r : \E c \in Seq(Byte) :
          vless_in = SeenIn(r) /\ Follow(peer, req.uuid, r, backlog, pwriter, c) /\ Ahead(c)

(* With the record f on the wire: it is rejected, or f and then the bytes  *)
(* not yet cut off will give what the TUN has still to get.                *)
Carrying(f) ==
    \/ Rejected(vless_in, f)
    \/ /\ replied # <<>> /\ backlog \in Seq(Byte)
       /\ \E c \in Seq(Byte) : Takes(peer, req.uuid, vless_in, f, backlog, pwriter, c) /\ Ahead(c)

(* The three of them, by where the stream stands. *)
Reading ==
    IF down.frames = <<>> THEN IF records = 0 THEN Waiting ELSE Flowing
    ELSE records # 0 /\ \E f \in Seq(Byte) : down.frames = <<f>> /\ Carrying(f)

(* The invariant of a tunnel with an external peer. Once out of step the   *)
(* reader is never used again, and only what is in the TUN counts.         *)
StreamInv ==
    /\ replied \in Seq(Packets) /\ tun \in Seq(Seq(Byte)) /\ Heads(Concat(tun), Concat(replied))
    /\ IsWire(down) /\ records \in Nat
    /\ instep \in BOOLEAN /\ (instep => Reading)
StreamI == peer # "echo" => StreamInv

(* The peer writes a payload while a record is on the wire. *)
LEMMA TakesMore ==
    ASSUME NEW kind, NEW u, NEW vi, NEW f, NEW b \in Seq(Byte), NEW wr, NEW c \in Seq(Byte),
           Takes(kind, u, vi, f, b, wr, c),
           NEW p \in Seq(Byte), NEW n, n = Len(p), NEW rnd \in DrawsFor(wr, n), NEW long,
           NEW end \in BOOLEAN, NEW x, x = Pad(wr, p, long, end, rnd)
    PROVE  \/ Rejected(vi, f)
           \/ x.out \in Seq(Byte) /\ Takes(kind, u, vi, f, b \o x.out, x.writer, c \o p)
<1>1. CASE ~Rejected(vi, f)
  <2>1. PICK r : \E o, o2 \in Seq(Byte) :
            Unwraps(vi, f, r, o) /\ Follow(kind, u, r, b, wr, o2) /\ c = o \o o2
    BY <1>1, Zenon DEF Takes
  <2>2. PICK o, o2 \in Seq(Byte) :
            Unwraps(vi, f, r, o) /\ Follow(kind, u, r, b, wr, o2) /\ c = o \o o2
    BY <2>1
  <2>3. x.out \in Seq(Byte) /\ Follow(kind, u, r, b \o x.out, x.writer, o2 \o p)
    BY <2>2, FollowMore
  <2>4. Assoc(o, o2, p)
    BY ConcatAssoc
  <2>5. c \o p = o \o (o2 \o p)
    BY <2>2, <2>4, Zenon DEF Assoc
  <2>6. o2 \o p \in Seq(Byte)
    BY ConcatLen
  <2> QED
    BY <2>2, <2>3, <2>5, <2>6, Zenon DEF Takes
<1> QED
  BY <1>1

(* Two additions make one. *)
LEMMA AddsTwice ==
    ASSUME NEW s \in Seq(Byte), NEW c \in Seq(Byte), NEW p \in Seq(Byte), NEW d, NEW e,
           Adds(s, c, d), Adds(d, p, e)
    PROVE  c \o p \in Seq(Byte) /\ Adds(s, c \o p, e)
<1>1. Assoc(s, c, p)
  BY ConcatAssoc
<1>2. c \o p \in Seq(Byte)
  BY ConcatLen
<1> QED
  BY <1>1, <1>2, Zenon DEF Assoc, Adds

(* Of an addition in two parts the second comes behind the first. *)
LEMMA AddsAfter ==
    ASSUME NEW s \in Seq(Byte), NEW o \in Seq(Byte), NEW o2 \in Seq(Byte), NEW d, NEW e,
           Adds(s, o \o o2, e), Adds(s, o, d)
    PROVE  Adds(d, o2, e)
<1>1. Assoc(s, o, o2)
  BY ConcatAssoc
<1> QED
  BY <1>1, Zenon DEF Assoc, Adds

(* A beginning stays one when more is added. *)
LEMMA HeadsMore ==
    ASSUME NEW t \in Seq(Byte), NEW s, NEW e, NEW p \in Seq(Byte), Heads(t, s), Adds(s, p, e)
    PROVE  Heads(t, e)
<1>1. PICK c \in Seq(Byte) : s = t \o c
  BY Zenon DEF Heads
<1>2. Adds(t, c, s)
  BY <1>1, Zenon DEF Adds
<1>3. c \o p \in Seq(Byte) /\ Adds(t, c \o p, e)
  BY <1>2, AddsTwice
<1> QED
  BY <1>3, Zenon DEF Adds, Heads

(* Packets are sequences of bytes. *)
LEMMA PacketsAreBytes ==
    ASSUME NEW s \in Seq(Packets)
    PROVE  s \in Seq(Seq(Byte))
<1>1. Packets \subseteq Seq(Byte)
  BY VisionAssumption, Zenon
<1>2. PICK B : B = Seq(Byte)
  OBVIOUS
<1>3. s \in Seq(B)
  BY <1>1, <1>2
<1> QED
  BY <1>2, <1>3

(* One payload more. *)
LEMMA RepliedMore ==
    ASSUME replied \in Seq(Packets), tun \in Seq(Seq(Byte)), Heads(Concat(tun), Concat(replied)),
           NEW p \in Packets, replied' = Append(replied, p), tun' = tun
    PROVE  /\ Adds(Concat(replied), p, Concat(replied)') /\ replied' \in Seq(Packets) /\ replied' # <<>>
           /\ Concat(tun) \in Seq(Byte) /\ Concat(replied) \in Seq(Byte)
           /\ Heads(Concat(tun)', Concat(replied)')
<1>1. p \in Seq(Byte) /\ replied \in Seq(Seq(Byte))
  BY PacketFits, PacketsAreBytes
<1>2. Adds(Concat(replied), p, Concat(Append(replied, p)))
  BY <1>1, ConcatMore
<1>3. Adds(Concat(replied), p, Concat(replied)')
  BY <1>2, Zenon
<1>4. Concat(tun) \in Seq(Byte) /\ Concat(replied) \in Seq(Byte)
  BY <1>1, ConcatHeads
<1>5. Heads(Concat(tun), Concat(replied)')
  BY <1>1, <1>3, <1>4, HeadsMore
<1>6. replied' \in Seq(Packets) /\ replied' # <<>>
  <2>1. PICK s : s = replied /\ s \in Seq(Packets)
    OBVIOUS
  <2>2. Append(s, p) \in Seq(Packets) /\ Append(s, p) # <<>>
    BY <2>1
  <2> QED
    BY <2>1, <2>2, Zenon
<1> QED
  BY <1>3, <1>4, <1>5, <1>6, Zenon

(* What a write of the peer does. *)
Writes(answer, end, rnd, x) ==
    /\ end \in BOOLEAN /\ rnd \in DrawsFor(pwriter, Len(answer))
    /\ x = Pad(pwriter, answer, FALSE, end, rnd)
    /\ pwriter' = x.writer /\ backlog' = backlog \o x.out

(* StreamWrite, spelled out. *)
LEMMA StreamWritesIs ==
    ASSUME NEW p, StreamWrite(p)
    PROVE  \E answer, end, rnd, x :
              /\ answer = IF replied = <<>> THEN BuildResponseHeader \o p ELSE p
              /\ Writes(answer, end, rnd, x)
BY Zenon DEF StreamWrite, Writes

(* A write before the first record. *)
LEMMA WaitingWrites ==
    ASSUME req \in Requests, Waiting, NEW p \in Packets, NEW answer, NEW end, NEW rnd, NEW x,
           answer = IF replied = <<>> THEN BuildResponseHeader \o p ELSE p,
           Writes(answer, end, rnd, x), replied \in Seq(Packets), replied' # <<>>,
           Adds(Concat(replied), p, Concat(replied)'), Concat(replied) \in Seq(Byte),
           req' = req, peer' = peer, vless_in' = vless_in, tun' = tun
    PROVE  Waiting'
<1>1. req.uuid \in Seq(Byte) /\ p \in Seq(Byte)
  BY RequestFits, PacketFits
<1>2. PICK n : n = Len(answer)
  OBVIOUS
<1>3. end \in BOOLEAN /\ rnd \in DrawsFor(pwriter, n) /\ x = Pad(pwriter, answer, FALSE, end, rnd)
  BY <1>2, Zenon DEF Writes
<1>4. PICK h : h = BuildResponseHeader
  OBVIOUS
<1>5. h \in Seq(Byte)
  BY <1>4, VlessAssumption DEF BuildResponseHeader, VERSION, FlowTag, Byte
<1>6. StreamOpens(peer, req.uuid, backlog', x.writer, h \o Concat(replied)')
  <2>1. CASE replied = <<>>
    <3>1. backlog = <<>> /\ pwriter = FreshWriter(peer, req.uuid) /\ answer = h \o p
      BY <1>4, <2>1, Zenon DEF Waiting
    <3>2. answer \in Seq(Byte)
      BY <1>1, <1>5, <3>1, ConcatLen
    <3>3. x.out \in Seq(Byte) /\ StreamOpens(peer, req.uuid, x.out, x.writer, answer)
      BY <1>1, <1>2, <1>3, <3>1, <3>2, OpeningStarts
    <3>4. backlog' = x.out
      <4>1. backlog' = backlog \o x.out
        BY Zenon DEF Writes
      <4> QED
        BY <3>1, <3>3, <4>1, NothingBefore
    <3>5. Concat(replied)' = p
      <4>1. Concat(replied) = <<>>
        BY <2>1, ConcatNone, Zenon
      <4>2. Concat(replied)' = Concat(replied) \o p
        BY Zenon DEF Adds
      <4> QED
        BY <1>1, <4>1, <4>2, NothingBefore
    <3> QED
      BY <3>1, <3>3, <3>4, <3>5, Zenon
  <2>2. CASE replied # <<>>
    <3>1. StreamOpens(peer, req.uuid, backlog, pwriter, h \o Concat(replied)) /\ answer = p
      BY <1>4, <2>2, Zenon DEF Waiting
    <3>2. PICK o : o = h \o Concat(replied)
      OBVIOUS
    <3>3. o \in Seq(Byte)
      BY <1>5, <3>2, ConcatLen
    <3>4. StreamOpens(peer, req.uuid, backlog, pwriter, o) /\ n = Len(p) /\ x = Pad(pwriter, p, FALSE, end, rnd)
      BY <1>2, <1>3, <3>1, <3>2, Zenon
    <3>5. StreamOpens(peer, req.uuid, backlog \o x.out, x.writer, o \o p)
      BY <1>1, <1>3, <3>3, <3>4, OpeningMore
    <3>6. o \o p = h \o Concat(replied)'
      <4>1. Assoc(h, Concat(replied), p)
        BY <1>1, <1>5, ConcatAssoc
      <4> QED
        BY <3>2, <4>1, Zenon DEF Assoc, Adds
    <3> QED
      BY <3>5, <3>6, Zenon DEF Writes
  <2> QED
    BY <2>1, <2>2
<1>7. pwriter' = x.writer
  BY Zenon DEF Writes
<1> QED
  BY <1>4, <1>6, <1>7, Zenon DEF Waiting

(* A write between two records. *)
LEMMA FlowingWrites ==
    ASSUME Flowing, NEW p \in Packets, NEW end, NEW rnd, NEW x,
           Writes(p, end, rnd, x), replied' # <<>>, Concat(tun) \in Seq(Byte),
           Adds(Concat(replied), p, Concat(replied)'),
           req' = req, peer' = peer, vless_in' = vless_in, tun' = tun
    PROVE  Flowing'
<1>1. p \in Seq(Byte)
  BY PacketFits
<1>2. PICK n : n = Len(p)
  OBVIOUS
<1>3. /\ end \in BOOLEAN /\ rnd \in DrawsFor(pwriter, n) /\ x = Pad(pwriter, p, FALSE, end, rnd)
      /\ pwriter' = x.writer /\ backlog' = backlog \o x.out
  BY <1>2, Zenon DEF Writes
<1>4. backlog \in Seq(Byte)
  BY Zenon DEF Flowing
<1>5. PICK r : \E c \in Seq(Byte) :
          vless_in = SeenIn(r) /\ Follow(peer, req.uuid, r, backlog, pwriter, c) /\ Ahead(c)
  BY Zenon DEF Flowing
<1>6. PICK c \in Seq(Byte) :
          vless_in = SeenIn(r) /\ Follow(peer, req.uuid, r, backlog, pwriter, c) /\ Ahead(c)
  BY <1>5
<1>7. x.out \in Seq(Byte) /\ Follow(peer, req.uuid, r, backlog \o x.out, x.writer, c \o p)
  BY <1>1, <1>2, <1>3, <1>4, <1>6, FollowMore
<1>8. backlog \o x.out \in Seq(Byte)
  BY <1>4, <1>7, ConcatLen
<1>9. Adds(Concat(tun), c, Concat(replied))
  BY <1>6, Zenon DEF Ahead
<1>10. c \o p \in Seq(Byte) /\ Adds(Concat(tun), c \o p, Concat(replied)')
  BY <1>1, <1>9, AddsTwice
<1>11. /\ c \o p \in Seq(Byte) /\ Ahead(c \o p)' /\ backlog' \in Seq(Byte)
       /\ Follow(peer', req.uuid', r, backlog', pwriter', c \o p) /\ vless_in' = SeenIn(r)
  BY <1>3, <1>6, <1>7, <1>8, <1>10, Zenon DEF Ahead
<1> QED
  BY <1>11, Zenon DEF Flowing

(* A write with a record on the wire; behind a rejected record it does not *)
(* matter.                                                                 *)
LEMMA CarryingWrites ==
    ASSUME NEW f, Carrying(f), NEW p \in Packets, NEW answer, NEW end, NEW rnd, NEW x,
           answer = IF replied = <<>> THEN BuildResponseHeader \o p ELSE p,
           Writes(answer, end, rnd, x), replied' # <<>>, Concat(tun) \in Seq(Byte),
           Adds(Concat(replied), p, Concat(replied)'),
           req' = req, peer' = peer, vless_in' = vless_in, tun' = tun
    PROVE  Carrying(f)'
<1>0. CASE Rejected(vless_in, f)
  BY <1>0, Zenon DEF Carrying
<1>a. CASE ~Rejected(vless_in, f)
  <2>1. p \in Seq(Byte)
    BY PacketFits
  <2>2. /\ replied # <<>> /\ backlog \in Seq(Byte)
        /\ \E c \in Seq(Byte) : Takes(peer, req.uuid, vless_in, f, backlog, pwriter, c) /\ Ahead(c)
    BY <1>a, Zenon DEF Carrying
  <2>3. PICK n : n = Len(p)
    OBVIOUS
  <2>4. /\ end \in BOOLEAN /\ rnd \in DrawsFor(pwriter, n) /\ x = Pad(pwriter, p, FALSE, end, rnd)
        /\ pwriter' = x.writer /\ backlog' = backlog \o x.out
    BY <2>2, <2>3, Zenon DEF Writes
  <2>5. PICK c \in Seq(Byte) : Takes(peer, req.uuid, vless_in, f, backlog, pwriter, c) /\ Ahead(c)
    BY <2>2
  <2>6. x.out \in Seq(Byte) /\ Takes(peer, req.uuid, vless_in, f, backlog \o x.out, x.writer, c \o p)
    BY <1>a, <2>1, <2>2, <2>3, <2>4, <2>5, TakesMore
  <2>7. backlog \o x.out \in Seq(Byte)
    BY <2>2, <2>6, ConcatLen
  <2>8. Adds(Concat(tun), c, Concat(replied))
    BY <2>5, Zenon DEF Ahead
  <2>9. c \o p \in Seq(Byte) /\ Adds(Concat(tun), c \o p, Concat(replied)')
    BY <2>1, <2>8, AddsTwice
  <2>10. /\ c \o p \in Seq(Byte) /\ Ahead(c \o p)' /\ backlog' \in Seq(Byte)
         /\ Takes(peer', req.uuid', vless_in', f, backlog', pwriter', c \o p)
    BY <2>4, <2>6, <2>7, <2>9, Zenon DEF Ahead
  <2> QED
    BY <2>10, Zenon DEF Carrying
<1> QED
  BY <1>0, <1>a

(* StreamWrite keeps the invariant. *)
LEMMA StreamWrites ==
    ASSUME req \in Requests, StreamI, NEW p \in Packets, StreamWrite(p)
    PROVE  StreamI'
<1>1. /\ peer # "echo" /\ replied' = Append(replied, p)
      /\ UNCHANGED <<req, peer, vless_in, instep, down, records, tun>>
  BY Zenon DEF StreamWrite
<1>2. StreamInv
  BY <1>1, Zenon DEF StreamI
<1>3. /\ replied \in Seq(Packets) /\ tun \in Seq(Seq(Byte)) /\ Heads(Concat(tun), Concat(replied))
      /\ IsWire(down) /\ records \in Nat
      /\ instep \in BOOLEAN /\ (instep => Reading)
  BY <1>2, Zenon DEF StreamInv
<1>4. /\ Adds(Concat(replied), p, Concat(replied)') /\ replied' \in Seq(Packets) /\ replied' # <<>>
      /\ Concat(tun) \in Seq(Byte) /\ Concat(replied) \in Seq(Byte)
      /\ Heads(Concat(tun)', Concat(replied)')
  <2>1. tun' = tun
    BY <1>1, Zenon
  <2> QED
    BY <1>1, <1>3, <2>1, RepliedMore
<1>5. PICK answer, end, rnd, x :
          /\ answer = IF replied = <<>> THEN BuildResponseHeader \o p ELSE p
          /\ Writes(answer, end, rnd, x)
  BY StreamWritesIs, Zenon
<1>6. req' = req /\ peer' = peer /\ vless_in' = vless_in /\ tun' = tun /\ down' = down /\ records' = records
  BY <1>1, Zenon
<1>7. ASSUME instep PROVE Reading'
  <2>1. Reading
    BY <1>3, <1>7, Zenon
  <2>2. CASE down.frames = <<>> /\ records = 0
    <3>1. Waiting
      BY <2>1, <2>2, Zenon DEF Reading
    <3>2. Waiting'
      BY <1>3, <1>4, <1>5, <1>6, <3>1, WaitingWrites, Zenon
    <3> QED
      BY <1>6, <2>2, <3>2, Zenon DEF Reading
  <2>3. CASE down.frames = <<>> /\ records # 0
    <3>1. Flowing
      BY <2>1, <2>3, Zenon DEF Reading
    <3>2. Writes(p, end, rnd, x)
      BY <1>5, <3>1, Zenon DEF Flowing
    <3>3. Flowing'
      BY <1>4, <1>6, <3>1, <3>2, FlowingWrites, Zenon
    <3> QED
      BY <1>6, <2>3, <3>3, Zenon DEF Reading
  <2>4. CASE down.frames # <<>>
    <3>1. PICK f \in Seq(Byte) : down.frames = <<f>> /\ Carrying(f)
      BY <2>1, <2>4, Zenon DEF Reading
    <3>2. Carrying(f)'
      BY <1>4, <1>5, <1>6, <3>1, CarryingWrites, Zenon
    <3>3. records # 0
      BY <2>1, <2>4, Zenon DEF Reading
    <3> QED
      BY <1>6, <2>4, <3>1, <3>2, <3>3, Zenon DEF Reading
  <2> QED
    BY <2>2, <2>3, <2>4
<1>8. StreamInv'
  BY <1>1, <1>3, <1>4, <1>7, Zenon DEF StreamInv, IsWire
<1> QED
  BY <1>8, Zenon DEF StreamI

(* The first frame of a new wire. *)
LEMMA WireNew ==
    ASSUME NEW a, NEW v, v = WriteFrame(NewWire, a)
    PROVE  WireOf(v, <<a>>, "open")
<1>1. PICK w : w = NewWire
  OBVIOUS
<1>2. w = [frames |-> <<>>, end |-> "open"]
  BY <1>1, Zenon DEF NewWire
<1>3. WireOf(w, <<>>, "open")
  BY <1>2, WireFields
<1>4. IsWire(w) /\ w.frames = <<>> /\ w.end = "open"
  BY <1>3, Zenon DEF WireOf
<1>5. WireOf(v, Append(w.frames, a), w.end)
  BY <1>1, <1>4, WireWrite
<1>6. Append(<<>>, a) = <<a>>
  OBVIOUS
<1> QED
  BY <1>4, <1>5, <1>6, Zenon

(* A new wire has no frames and is open. *)
LEMMA NewIsEmpty ==
    ASSUME down = NewWire
    PROVE  down.frames = <<>> /\ down.end = "open"
BY DEF NewWire

(* What a cut of the peer does. *)
Cuts(n, a, b) ==
    /\ Halves(backlog, n, a, b)
    /\ records = 0 => IF peer = "plain" THEN n \in 4..(UuidLen + 4) ELSE n >= UuidLen + 9
    /\ peer = "plain" => Slice(backlog, 0, Least(n, UuidLen)) # req.uuid
    /\ down' = WriteFrame(down, a) /\ backlog' = b

(* StreamCut, spelled out. *)
LEMMA StreamCutsIs ==
    ASSUME backlog \in Seq(Byte), StreamCut
    PROVE  \E n \in Nat : \E a, b : Cuts(n, a, b)
<1>1. PICK n \in 1..Len(backlog) :
          /\ records = 0 => IF peer = "plain" THEN n \in 4..(UuidLen + 4) ELSE n >= UuidLen + 9
          /\ peer = "plain" => Slice(backlog, 0, Least(n, UuidLen)) # req.uuid
          /\ down' = WriteFrame(down, Slice(backlog, 0, n))
          /\ backlog' = Slice(backlog, n, Len(backlog))
  BY Zenon DEF StreamCut
<1>2. n \in Nat /\ n \in 0..Len(backlog)
  OBVIOUS
<1>3. PICK a, b : Halves(backlog, n, a, b)
  BY <1>2, CutsInTwo
<1>4. a = Slice(backlog, 0, n) /\ b = Slice(backlog, n, Len(backlog))
  BY <1>3, Zenon DEF Halves
<1>5. Cuts(n, a, b)
  BY <1>1, <1>3, <1>4, Zenon DEF Cuts
<1> QED
  BY <1>2, <1>5, Zenon

(* A cut that does not bring the identity to a plain reader. *)
LEMMA CutForeign ==
    ASSUME NEW s \in Seq(Byte), NEW n \in Nat, NEW a, NEW b, Halves(s, n, a, b), NEW u,
           Slice(s, 0, Least(n, UuidLen)) # u
    PROVE  ~(Len(a) >= UuidLen + 5 /\ Slice(a, 0, UuidLen) = u)
<1>1. UuidLen \in Nat
  BY VlessAssumption
<1>2. Len(a) = n /\ a = Slice(s, 0, n) /\ a \in Seq(Byte) /\ b \in Seq(Byte) /\ s = a \o b
  BY Zenon DEF Halves
<1>3. SUFFICES ASSUME n >= UuidLen + 5, Slice(a, 0, UuidLen) = u PROVE FALSE
  BY <1>2
<1>4. Least(n, UuidLen) = UuidLen
  BY <1>1, <1>3 DEF Least
<1>5. PICK m : m = UuidLen
  OBVIOUS
<1>6. m \in Nat /\ m <= n
  BY <1>1, <1>3, <1>5
<1>7. 0 + 1 = 1
  OBVIOUS
<1>8. SubSeq(a, 1, m) = SubSeq(s, 1, m)
  <2>1. PICK x, y, k : x = SubSeq(a, 1, m) /\ y = SubSeq(s, 1, m) /\ k = Len(b)
    OBVIOUS
  <2>2. k \in Nat /\ Joined(Byte, a, b, s, n, k)
    <3>1. k \in Nat
      BY <1>2, <2>1
    <3>2. Joined(Byte, a, b, a \o b, n, k)
      BY <1>2, <2>1, Joins
    <3> QED
      BY <1>2, <3>1, <3>2, Zenon
  <2>3. \A i \in 1..n : s[i] = a[i]
    BY <2>2 DEF Joined
  <2>4. Len(s) = n + k
    BY <2>2 DEF Joined
  <2>5. x \in Seq(Byte) /\ Len(x) = m /\ \A i \in 1..m : x[i] = a[i]
    BY <1>2, <1>6, <2>1
  <2>6. y \in Seq(Byte) /\ Len(y) = m /\ \A i \in 1..m : y[i] = s[i]
    BY <1>6, <2>1, <2>2, <2>4
  <2>7. \A i \in 1..m : x[i] = y[i]
    BY <1>6, <2>3, <2>5, <2>6
  <2>8. x = y
    BY <2>5, <2>6, <2>7, SameSeq
  <2> QED
    BY <2>1, <2>8
<1> QED
  BY <1>3, <1>4, <1>5, <1>7, <1>8, Zenon DEF Slice

(* The first record, cut where the peer cuts it. *)
LEMMA WaitingCuts ==
    ASSUME req \in Requests, Waiting, NEW n \in Nat, NEW a, NEW b, Cuts(n, a, b), backlog \in Seq(Byte),
           backlog # <<>>, records = 0, replied \in Seq(Packets),
           UNCHANGED <<req, peer, vless_in, pwriter, replied, tun>>
    PROVE  a \in Seq(Byte) /\ Carrying(a)'
<1>1. req.uuid \in Seq(Byte) /\ Len(req.uuid) = UuidLen
  BY RequestFits
<1>2. a \in Seq(Byte) /\ b \in Seq(Byte) /\ Len(a) = n /\ backlog = a \o b /\ backlog' = b
  BY Zenon DEF Cuts, Halves
<1>3. replied # <<>> /\ vless_in = NewIn(req.uuid) /\ tun = <<>>
  BY Zenon DEF Waiting
<1>4. StreamOpens(peer, req.uuid, backlog, pwriter, BuildResponseHeader \o Concat(replied))
  BY <1>3, Zenon DEF Waiting
<1>5. IF peer = "plain" THEN Len(a) <= UuidLen + 4 ELSE Len(a) >= UuidLen + 9
  <2>1. IF peer = "plain" THEN n \in 4..(UuidLen + 4) ELSE n >= UuidLen + 9
    BY Zenon DEF Cuts
  <2>2. UuidLen \in Nat
    BY VlessAssumption
  <2>3. CASE peer = "plain"
    <3>1. n \in 4..(UuidLen + 4)
      BY <2>1, <2>3
    <3>2. n <= UuidLen + 4
      BY <2>2, <3>1
    <3> QED
      BY <1>2, <2>3, <3>2
  <2>4. CASE peer # "plain"
    BY <1>2, <2>1, <2>4
  <2> QED
    BY <2>3, <2>4
<1>6. Split(peer, req.uuid, NewReader(req.uuid), a, b, pwriter, BuildResponseHeader \o Concat(replied))
  BY <1>1, <1>2, <1>4, <1>5, OpeningCut
<1>7. Concat(replied) \in Seq(Byte)
  <2>1. replied \in Seq(Seq(Byte))
    BY PacketsAreBytes
  <2> QED
    BY <2>1, ConcatHeads
<1>8. Takes(peer, req.uuid, NewIn(req.uuid), a, b, pwriter, Concat(replied))
  BY <1>6, <1>7, FirstTaken
<1>9. Adds(Concat(tun), Concat(replied), Concat(replied))
  <2>1. Concat(tun) = <<>>
    BY <1>3, ConcatNone, Zenon
  <2>2. Concat(tun) \o Concat(replied) = Concat(replied)
    BY <1>7, <2>1, NothingBefore
  <2> QED
    BY <2>2, Zenon DEF Adds
<1>10. Ahead(Concat(replied))
  BY <1>9, Zenon DEF Ahead
<1> QED
  BY <1>2, <1>3, <1>7, <1>8, <1>10, Zenon DEF Carrying, Ahead

(* A later record, cut anywhere. *)
LEMMA FlowingCuts ==
    ASSUME Flowing, NEW n \in Nat, NEW a, NEW b, Cuts(n, a, b),
           UNCHANGED <<req, peer, vless_in, pwriter, replied, tun>>
    PROVE  a \in Seq(Byte) /\ Carrying(a)'
<1>2. a \in Seq(Byte) /\ b \in Seq(Byte) /\ Len(a) = n /\ backlog = a \o b /\ backlog' = b
  BY Zenon DEF Cuts, Halves
<1>3. replied # <<>> /\ backlog \in Seq(Byte)
  BY Zenon DEF Flowing
<1>4. PICK r : \E c \in Seq(Byte) :
          vless_in = SeenIn(r) /\ Follow(peer, req.uuid, r, backlog, pwriter, c) /\ Ahead(c)
  BY Zenon DEF Flowing
<1>5. PICK c \in Seq(Byte) :
          vless_in = SeenIn(r) /\ Follow(peer, req.uuid, r, backlog, pwriter, c) /\ Ahead(c)
  BY <1>4
<1>6. peer = "plain" => ~(Len(a) >= UuidLen + 5 /\ Slice(a, 0, UuidLen) = req.uuid)
  <2>1. SUFFICES ASSUME peer = "plain" PROVE ~(Len(a) >= UuidLen + 5 /\ Slice(a, 0, UuidLen) = req.uuid)
    OBVIOUS
  <2>2. Halves(backlog, n, a, b) /\ Slice(backlog, 0, Least(n, UuidLen)) # req.uuid
    BY <2>1, Zenon DEF Cuts
  <2> QED
    BY <1>3, <2>2, CutForeign
<1>7. Follow(peer, req.uuid, r, a \o b, pwriter, c)
  BY <1>2, <1>5, Zenon
<1>8. Split(peer, req.uuid, r, a, b, pwriter, c)
  BY <1>2, <1>6, <1>7, FollowCut
<1>9. Takes(peer, req.uuid, SeenIn(r), a, b, pwriter, c)
  BY <1>8, NextTaken
<1> QED
  BY <1>2, <1>3, <1>5, <1>9, Zenon DEF Carrying, Ahead

(* What the peer has not yet cut off is a sequence of bytes. *)
LEMMA WaitingBytes ==
    ASSUME req \in Requests, Waiting
    PROVE  backlog \in Seq(Byte)
<1>1. req.uuid \in Seq(Byte)
  BY RequestFits
<1>0. <<>> \in Seq(Byte)
  OBVIOUS
<1>2. CASE replied = <<>>
  BY <1>0, <1>2, Zenon DEF Waiting
<1>3. CASE replied # <<>>
  <2>1. StreamOpens(peer, req.uuid, backlog, pwriter, BuildResponseHeader \o Concat(replied))
    BY <1>3, Zenon DEF Waiting
  <2>2. PICK w \in Seq(Byte) : backlog = Lead(peer, req.uuid) \o w
    BY <2>1, Zenon DEF StreamOpens
  <2>3. Lead(peer, req.uuid) \in Seq(Byte)
    BY <1>0, <1>1, Zenon DEF Lead
  <2> QED
    BY <2>2, <2>3, ConcatLen
<1> QED
  BY <1>2, <1>3

(* StreamCut keeps the invariant. *)
LEMMA StreamCuts ==
    ASSUME req \in Requests, StreamI, StreamCut
    PROVE  StreamI'
<1> SUFFICES ASSUME peer # "echo" PROVE StreamInv'
  <2>1. peer' = peer
    BY Zenon DEF StreamCut
  <2> QED
    BY <2>1, Zenon DEF StreamI
<1>1. /\ UNCHANGED <<req, peer, vless_in, instep, pwriter, replied, tun>>
      /\ down = NewWire /\ backlog # <<>> /\ records' = records + 1
  BY Zenon DEF StreamCut
<1>3. /\ replied \in Seq(Packets) /\ tun \in Seq(Seq(Byte)) /\ Heads(Concat(tun), Concat(replied))
      /\ IsWire(down) /\ records \in Nat
      /\ instep \in BOOLEAN /\ (instep => Reading)
  BY Zenon DEF StreamInv, StreamI
<1>4. records' \in Nat /\ records' # 0
  BY <1>1, <1>3
<1>5. PICK a0 : down' = WriteFrame(down, a0)
  BY Zenon DEF StreamCut
<1>6. WireOf(down', <<a0>>, "open")
  BY <1>1, <1>5, WireNew
<1>7. down.frames = <<>>
  BY <1>1, NewIsEmpty
<1>8. ASSUME instep PROVE Reading'
  <2>1. IF records = 0 THEN Waiting ELSE Flowing
    BY <1>3, <1>7, <1>8, Zenon DEF Reading
  <2>2. backlog \in Seq(Byte)
    <3>1. CASE records = 0
      BY <2>1, <3>1, WaitingBytes
    <3>2. CASE records # 0
      BY <2>1, <3>2, Zenon DEF Flowing
    <3> QED
      BY <3>1, <3>2
  <2>3. PICK n \in Nat : \E a, b : Cuts(n, a, b)
    BY <2>2, StreamCutsIs
  <2>4. PICK a, b : Cuts(n, a, b)
    BY <2>3
  <2>5. a \in Seq(Byte) /\ Carrying(a)'
    <3>0. UNCHANGED <<req, peer, vless_in, pwriter, replied, tun>>
      BY <1>1, Zenon
    <3>1. CASE records = 0
      BY <1>1, <1>3, <2>1, <2>2, <2>4, <3>0, <3>1, WaitingCuts, Zenon
    <3>2. CASE records # 0
      BY <2>1, <2>4, <3>0, <3>2, FlowingCuts, Zenon
    <3> QED
      BY <3>1, <3>2
  <2>6. WireOf(down', <<a>>, "open")
    <3>1. down' = WriteFrame(NewWire, a)
      BY <1>1, <2>4, Zenon DEF Cuts
    <3> QED
      BY <3>1, WireNew
  <2>7. down'.frames = <<a>>
    BY <2>6, Zenon DEF WireOf
  <2>8. <<a>> # <<>>
    OBVIOUS
  <2> QED
    BY <1>4, <2>5, <2>7, <2>8, Zenon DEF Reading
<1> QED
  BY <1>1, <1>3, <1>4, <1>6, <1>8, Zenon DEF StreamInv, WireOf

(* What reaches the TUN, in bytes. *)
Grown(o) == tun' \in Seq(Seq(Byte)) /\ Adds(Concat(tun), o, Concat(tun)')

(* What a record with the payload o does to the TUN. *)
TunStep(o) == tun' = IF o = <<>> THEN tun ELSE Append(tun, o)

(* Whether or not o is empty, the TUN has got its bytes. *)
LEMMA TunGrows ==
    ASSUME tun \in Seq(Seq(Byte)), NEW o \in Seq(Byte), TunStep(o)
    PROVE  Grown(o) /\ Concat(tun) \in Seq(Byte)
<1>0. Concat(tun) \in Seq(Byte)
  BY ConcatHeads
<1>1. CASE o = <<>>
  <2>1. tun' = tun
    BY <1>1, Zenon DEF TunStep
  <2>2. Concat(tun) \o o = Concat(tun)
    BY <1>0, <1>1, NothingBefore
  <2> QED
    BY <1>0, <2>1, <2>2, Zenon DEF Grown, Adds
<1>2. CASE o # <<>>
  <2>1. tun' = Append(tun, o)
    BY <1>2, Zenon DEF TunStep
  <2>2. Adds(Concat(tun), o, Concat(Append(tun, o)))
    BY ConcatMore
  <2>3. Append(tun, o) \in Seq(Seq(Byte))
    <3>1. PICK B : B = Seq(Byte)
      OBVIOUS
    <3>2. Append(tun, o) \in Seq(B)
      BY <3>1
    <3> QED
      BY <3>1, <3>2
  <2> QED
    BY <1>0, <2>1, <2>2, <2>3, Zenon DEF Grown
<1> QED
  BY <1>1, <1>2

(* What a record read does. *)
Took(f, u) ==
    /\ f = Head(down.frames) /\ u = Unwrap(vless_in, f)
    /\ IF instep /\ u.ok
       THEN /\ vless_in' = u.vi
            /\ tun' = IF u.out = <<>> THEN tun ELSE Append(tun, u.out)
            /\ UNCHANGED instep
       ELSE instep' = FALSE /\ UNCHANGED <<vless_in, tun>>

(* Inbound, spelled out. *)
LEMMA InboundIs ==
    ASSUME Inbound
    PROVE  /\ \E f, u : Took(f, u)
           /\ down.frames # <<>> /\ down' = TakeFrame(down)
           /\ UNCHANGED <<req, peer, backlog, pwriter, records, replied>>
<1>1. ReadFrame(down) = "frame"
  BY Zenon DEF Inbound
<1>2. down.frames # <<>>
  BY <1>1, ReadFrameIs
<1>3. Took(Head(down.frames), Unwrap(vless_in, Head(down.frames)))
  BY Zenon DEF Inbound, Took
<1> QED
  BY <1>2, <1>3, Zenon DEF Inbound

(* Nothing gets through, or the record's payload does. *)
Delivered == \/ instep' = FALSE /\ UNCHANGED <<vless_in, tun>>
             \/ /\ instep = TRUE /\ instep' = instep /\ Flowing'
                /\ \E o \in Seq(Byte) : Grown(o) /\ Heads(Concat(tun)', Concat(replied))

(* What the TUN gets of an external peer's record is the next of what was  *)
(* replied, and the reader flows on.                                       *)
LEMMA StreamDelivers ==
    ASSUME StreamInv, Inbound
    PROVE  Delivered
<1>1. PICK f, u : Took(f, u)
  BY InboundIs, Zenon
<1>2. /\ down.frames # <<>> /\ down' = TakeFrame(down)
      /\ UNCHANGED <<req, peer, backlog, pwriter, records, replied>>
  BY InboundIs, Zenon
<1>3. /\ tun \in Seq(Seq(Byte)) /\ instep \in BOOLEAN /\ (instep => Reading)
  BY Zenon DEF StreamInv
<1>4. CASE ~(instep /\ u.ok)
  BY <1>1, <1>4, Zenon DEF Took, Delivered
<1>5. CASE instep /\ u.ok
  <2>1. PICK g \in Seq(Byte) : down.frames = <<g>> /\ Carrying(g)
    BY <1>2, <1>3, <1>5, Zenon DEF Reading
  <2>2. g = f
    <3>1. f = Head(down.frames)
      BY <1>1, Zenon DEF Took
    <3>2. f = Head(<<g>>)
      BY <2>1, <3>1, Zenon
    <3> QED
      BY <3>2
  <2>3. ~Rejected(vless_in, f)
    BY <1>1, <1>5, Zenon DEF Took, Rejected
  <2>4. /\ replied # <<>> /\ backlog \in Seq(Byte)
        /\ \E c \in Seq(Byte) : Takes(peer, req.uuid, vless_in, f, backlog, pwriter, c) /\ Ahead(c)
    BY <2>1, <2>2, <2>3, Zenon DEF Carrying
  <2>5. PICK c \in Seq(Byte) : Takes(peer, req.uuid, vless_in, f, backlog, pwriter, c) /\ Ahead(c)
    BY <2>4
  <2>6. PICK r : \E o, o2 \in Seq(Byte) :
            Unwraps(vless_in, f, r, o) /\ Follow(peer, req.uuid, r, backlog, pwriter, o2) /\ c = o \o o2
    BY <2>3, <2>5, Zenon DEF Takes
  <2>7. PICK o, o2 \in Seq(Byte) :
            Unwraps(vless_in, f, r, o) /\ Follow(peer, req.uuid, r, backlog, pwriter, o2) /\ c = o \o o2
    BY <2>6
  <2>8. u = [ok |-> TRUE, vi |-> SeenIn(r), out |-> o]
    BY <1>1, <2>7, Zenon DEF Took, Unwraps
  <2>9. u.vi = SeenIn(r) /\ u.out = o
    BY <2>8
  <2>10. vless_in' = SeenIn(r) /\ TunStep(o) /\ instep' = instep
    BY <1>1, <1>5, <2>9, Zenon DEF Took, TunStep
  <2>11. Grown(o) /\ Concat(tun) \in Seq(Byte)
    BY <1>3, <2>10, TunGrows
  <2>12. Adds(Concat(tun), o \o o2, Concat(replied)) /\ Adds(Concat(tun), o, Concat(tun)')
    BY <2>5, <2>7, <2>11, Zenon DEF Ahead, Grown
  <2>13. Adds(Concat(tun)', o2, Concat(replied))
    BY <2>11, <2>12, AddsAfter
  <2>14. Heads(Concat(tun)', Concat(replied))
    BY <2>13, Zenon DEF Adds, Heads
  <2>15. Concat(replied)' = Concat(replied)
    BY <1>2, Zenon
  <2>16. Flowing'
    <3>1. /\ replied' # <<>> /\ backlog' \in Seq(Byte) /\ vless_in' = SeenIn(r)
          /\ Follow(peer', req.uuid', r, backlog', pwriter', o2) /\ Ahead(o2)'
      BY <1>2, <2>4, <2>7, <2>10, <2>13, <2>15, Zenon DEF Ahead
    <3> QED
      BY <3>1, Zenon DEF Flowing
  <2>17. instep = TRUE
    BY <1>3, <1>5, Zenon
  <2> QED
    BY <2>10, <2>11, <2>14, <2>16, <2>17, Zenon DEF Delivered
<1> QED
  BY <1>4, <1>5

(* Inbound keeps the invariant. *)
LEMMA StreamInbound ==
    ASSUME StreamI, Inbound
    PROVE  StreamI'
<1>2. /\ down.frames # <<>> /\ down' = TakeFrame(down)
      /\ UNCHANGED <<req, peer, backlog, pwriter, records, replied>>
  BY InboundIs, Zenon
<1> SUFFICES ASSUME peer # "echo" PROVE StreamInv'
  BY <1>2, Zenon DEF StreamI
<1>3. StreamInv
  BY Zenon DEF StreamI
<1>4. Delivered
  BY <1>3, StreamDelivers
<1>5. /\ replied \in Seq(Packets) /\ tun \in Seq(Seq(Byte)) /\ Heads(Concat(tun), Concat(replied))
      /\ IsWire(down) /\ records \in Nat
      /\ instep \in BOOLEAN /\ (instep => Reading)
  BY <1>3, Zenon DEF StreamInv
<1>6. WireOf(down', Tail(down.frames), down.end)
  BY <1>2, <1>5, WireTake
<1>7. IsWire(down')
  BY <1>6, Zenon DEF WireOf
<1>8. CASE instep' = FALSE /\ UNCHANGED <<vless_in, tun>>
  BY <1>2, <1>5, <1>7, <1>8, Zenon DEF StreamInv, IsWire
<1>9. CASE ~(instep' = FALSE /\ UNCHANGED <<vless_in, tun>>)
  <2>1. instep = TRUE /\ instep' = instep /\ Flowing'
    BY <1>4, <1>9, Zenon DEF Delivered
  <2>2. PICK o \in Seq(Byte) : Grown(o) /\ Heads(Concat(tun)', Concat(replied))
    BY <1>4, <1>9, Zenon DEF Delivered
  <2>3. Reading
    BY <1>5, <2>1, Zenon
  <2>4. records # 0 /\ \E f \in Seq(Byte) : down.frames = <<f>> 
    BY <1>2, <2>3, Zenon DEF Reading
  <2>5. PICK f \in Seq(Byte) : down.frames = <<f>>
    BY <2>4
  <2>6. Tail(<<f>>) = <<>>
    OBVIOUS
  <2>7. down'.frames = <<>>
    BY <1>6, <2>5, <2>6, Zenon DEF WireOf
  <2>8. Reading'
    BY <1>2, <2>1, <2>4, <2>7, Zenon DEF Reading
  <2>9. Concat(replied)' = Concat(replied) /\ replied' = replied /\ records' = records
    BY <1>2, Zenon
  <2> QED
    BY <1>5, <1>7, <2>1, <2>2, <2>8, <2>9, Zenon DEF StreamInv, IsWire, Grown
<1> QED
  BY <1>8, <1>9

(* TunGone leaves the client out of step, with what is in the TUN. *)
LEMMA StreamTunGone ==
    ASSUME StreamI, TunGone
    PROVE  StreamI'
<1>1. /\ UNCHANGED <<peer, records, replied, tun>> /\ down' = TakeFrame(down) /\ instep' = FALSE
  BY DEF TunGone
<1> SUFFICES ASSUME peer # "echo" PROVE StreamInv'
  BY <1>1, Zenon DEF StreamI
<1>2. /\ replied \in Seq(Packets) /\ tun \in Seq(Seq(Byte)) /\ Heads(Concat(tun), Concat(replied))
      /\ IsWire(down) /\ records \in Nat
  BY Zenon DEF StreamI, StreamInv
<1>3. WireOf(down', Tail(down.frames), down.end)
  BY <1>1, <1>2, WireTake
<1>4. instep' \in BOOLEAN
  BY <1>1
<1> QED
  BY <1>1, <1>2, <1>3, <1>4, Zenon DEF StreamInv, WireOf, IsWire

(* StreamMalformed keeps the invariant: its record is rejected. *)
LEMMA StreamSpoils ==
    ASSUME req \in Requests, StreamI, StreamMalformed
    PROVE  StreamI'
<1>1. /\ UNCHANGED <<req, peer, vless_in, instep, pwriter, backlog, replied, tun>>
      /\ peer # "echo" /\ records = 0 /\ down = NewWire /\ records' = 1
  BY Zenon DEF StreamMalformed
<1>2. PICK f \in Malformed : down' = WriteFrame(down, f)
  BY Zenon DEF StreamMalformed
<1>3. /\ replied \in Seq(Packets) /\ tun \in Seq(Seq(Byte)) /\ Heads(Concat(tun), Concat(replied))
      /\ instep \in BOOLEAN /\ (instep => Reading)
  BY <1>1, Zenon DEF StreamInv, StreamI
<1>4. WireOf(down', <<f>>, "open")
  BY <1>1, <1>2, WireNew
<1>5. down.frames = <<>>
  BY <1>1, NewIsEmpty
<1>6. req.uuid \in Seq(Byte) /\ Len(req.uuid) = UuidLen
  BY RequestFits
<1>7. f \in Seq(Byte) /\ Rejected(NewIn(req.uuid), f)
  BY <1>6, MalformedRefused
<1>8. ASSUME instep PROVE Reading'
  <2>1. vless_in = NewIn(req.uuid)
    BY <1>1, <1>3, <1>5, <1>8, Zenon DEF Reading, Waiting
  <2>2. Carrying(f)'
    BY <1>1, <1>7, <2>1, Zenon DEF Carrying
  <2>3. down'.frames = <<f>>
    BY <1>4, Zenon DEF WireOf
  <2>4. <<f>> # <<>> /\ records' # 0
    BY <1>1
  <2> QED
    BY <1>7, <2>2, <2>3, <2>4, Zenon DEF Reading
<1>9. records' \in Nat
  BY <1>1
<1> QED
  BY <1>1, <1>3, <1>4, <1>8, <1>9, Zenon DEF StreamI, StreamInv, WireOf

(* StreamBreaks keeps the invariant. *)
LEMMA StreamBroken ==
    ASSUME StreamI, StreamBreaks
    PROVE  StreamI'
<1>1. /\ UNCHANGED <<req, peer, vless_in, instep, pwriter, backlog, records, replied, tun>>
      /\ peer # "echo"
  BY Zenon DEF StreamBreaks
<1>2. PICK e : down' = [down EXCEPT !.end = e]
  BY Zenon DEF StreamBreaks
<1>3. /\ replied \in Seq(Packets) /\ tun \in Seq(Seq(Byte)) /\ Heads(Concat(tun), Concat(replied))
      /\ instep \in BOOLEAN /\ (instep => Reading) /\ IsWire(down) /\ records \in Nat
  BY <1>1, Zenon DEF StreamInv, StreamI
<1>4. WireOf(down', down.frames, e)
  BY <1>2, <1>3, WireEnds
<1>5. down'.frames = down.frames /\ IsWire(down')
  BY <1>4, Zenon DEF WireOf
<1>6. Reading => Reading'
  BY <1>1, <1>5, Zenon DEF Reading, Waiting, Flowing, Carrying, Ahead
<1> QED
  BY <1>1, <1>3, <1>5, <1>6, Zenon DEF StreamI, StreamInv, IsWire

(* The invariant holds of a tunnel that has just been set up. *)
LEMMA StreamStart ==
    ASSUME Init
    PROVE  StreamI
<1> SUFFICES ASSUME peer # "echo" PROVE StreamInv
  BY Zenon DEF StreamI
<1>1. /\ req \in Requests /\ peer \in {"stream", "plain"}
      /\ vless_in = NewIn(req.uuid) /\ instep = TRUE /\ down = NewWire
      /\ backlog = <<>> /\ records = 0 /\ replied = <<>> /\ tun = <<>>
      /\ pwriter = [NewWriter(req.uuid) EXCEPT !.is_padding = (peer # "plain")]
  BY Zenon DEF Init
<1>2. pwriter = FreshWriter(peer, req.uuid)
  <2>1. PICK q, t, f : q = req.uuid /\ t = TRUE /\ f = FALSE
    OBVIOUS
  <2>2. PICK x, y : x = [NewWriter(q) EXCEPT !.is_padding = f] /\ y = [NewWriter(q) EXCEPT !.is_padding = t]
    OBVIOUS
  <2>3. NewWriter(q) = [uuid |-> q, is_padding |-> t]
    BY <2>1, Zenon DEF NewWriter
  <2>4. x = [uuid |-> q, is_padding |-> f] /\ y = [uuid |-> q, is_padding |-> t]
    BY <2>2, <2>3
  <2>5. CASE peer = "plain"
    <3>1. pwriter = x
      BY <1>1, <2>1, <2>2, <2>5, Zenon
    <3> QED
      BY <2>1, <2>4, <2>5, <3>1, Zenon DEF FreshWriter, RawWriter
  <2>6. CASE peer # "plain"
    <3>1. pwriter = y
      BY <1>1, <2>1, <2>2, <2>6, Zenon
    <3> QED
      BY <2>1, <2>4, <2>6, <3>1, Zenon DEF FreshWriter, NewWriter
  <2> QED
    BY <2>5, <2>6
<1>3. down.frames = <<>> /\ IsWire(down)
  <2>1. down = [frames |-> <<>>, end |-> "open"]
    BY <1>1, Zenon DEF NewWire
  <2>2. WireOf(down, <<>>, "open")
    BY <2>1, WireFields
  <2> QED
    BY <2>2, Zenon DEF WireOf
<1>4. Waiting
  BY <1>1, <1>2, Zenon DEF Waiting
<1>5. Reading
  BY <1>1, <1>3, <1>4, Zenon DEF Reading
<1>6. PICK e : e = <<>>
  OBVIOUS
<1>7. e \in Seq(Byte) /\ e \in Seq(Packets) /\ e \in Seq(Seq(Byte)) /\ e \o e = e
  BY <1>6
<1>8. Concat(tun) = e /\ Concat(replied) = e
  BY <1>1, <1>6, ConcatNone, Zenon
<1>9. Heads(Concat(tun), Concat(replied))
  BY <1>7, <1>8, Zenon DEF Heads
<1>10. records \in Nat
  BY <1>1
<1> QED
  BY <1>1, <1>3, <1>5, <1>6, <1>7, <1>9, <1>10, Zenon DEF StreamInv

(* No other action belongs to an external peer. *)
LEMMA StreamElsewhere ==
    ASSUME StreamI, \/ \E p \in Packets : Outbound(p)
                    \/ Probe \/ ServerRecord \/ ServerEnds \/ ServerTimesOut
    PROVE  StreamI'
<1>1. peer = "echo" /\ peer' = peer
  BY Zenon DEF Outbound, Probe, ServerRecord, ServerEnds, ServerTimesOut
<1> QED
  BY <1>1, Zenon DEF StreamI

(* A step that changes nothing keeps the invariant. *)
LEMMA StreamStutter ==
    ASSUME StreamI, UNCHANGED vars
    PROVE  StreamI'
<1>1. UNCHANGED <<req, peer, vless_in, instep, down, pwriter, backlog, records, replied, tun>>
  BY Zenon DEF vars
<1>2. Reading => Reading'
  BY <1>1, Zenon DEF Reading, Waiting, Flowing, Carrying, Ahead
<1> QED
  BY <1>1, <1>2, Zenon DEF StreamI, StreamInv, IsWire

(* Every step keeps the invariant. *)
LEMMA StreamStep ==
    ASSUME EchoInv, StreamI, [Next]_vars
    PROVE  StreamI'
<1>0. req \in Requests
  BY Zenon DEF EchoInv
<1>1. ASSUME NEW p \in Packets, StreamWrite(p) PROVE StreamI'
  BY <1>0, <1>1, StreamWrites
<1>2. CASE StreamCut
  BY <1>0, <1>2, StreamCuts
<1>3. CASE Inbound
  BY <1>3, StreamInbound
<1>4. CASE StreamMalformed
  BY <1>0, <1>4, StreamSpoils
<1>5. CASE StreamBreaks
  BY <1>5, StreamBroken
<1>6. ASSUME \/ \E p \in Packets : Outbound(p)
             \/ Probe \/ ServerRecord \/ ServerEnds \/ ServerTimesOut
      PROVE  StreamI'
  BY <1>6, StreamElsewhere
<1>7. CASE UNCHANGED vars
  BY <1>7, StreamStutter
<1>8. CASE TunGone
  BY <1>8, StreamTunGone
<1> QED
  BY <1>1, <1>2, <1>3, <1>4, <1>5, <1>6, <1>7, <1>8, Zenon DEF Next

(* The invariant holds in every behaviour. *)
LEMMA StreamAlways == Spec => []StreamI
<1>1. Init => StreamI
  BY StreamStart
<1>2. EchoInv /\ StreamI /\ [Next]_vars => StreamI'
  BY StreamStep
<1> QED
  BY <1>1, <1>2, EchoAlways, PTL DEF Spec

-----------------------------------------------------------------------------
(* The way down implements the pipe of bytes. *)

(* The steps of a pipe of bytes. *)
Longer(s, e)   == Len(e) > Len(s) /\ SubSeq(e, 1, Len(s)) = s
Prefixed(t, d, s) == \E n \in (Len(t) + 1)..Len(s) : d = SubSeq(s, 1, n)

(* Adding something makes a longer sequence that begins the same. *)
LEMMA AddsLonger ==
    ASSUME NEW s \in Seq(Byte), NEW p \in Seq(Byte), p # <<>>, NEW e, Adds(s, p, e)
    PROVE  Longer(s, e)
<1>1. e = s \o p
  BY Zenon DEF Adds
<1>2. Len(e) = Len(s) + Len(p) /\ Len(p) > 0
  BY <1>1
<1>3. SubSeq(e, 1, Len(s)) = s
  BY <1>1
<1>4. Len(e) > Len(s)
  BY <1>2
<1> QED
  BY <1>3, <1>4, Zenon DEF Longer

(* A beginning that was added to is a longer beginning. *)
LEMMA HeadsPrefixed ==
    ASSUME NEW t \in Seq(Byte), NEW o \in Seq(Byte), o # <<>>, NEW d, Adds(t, o, d), NEW s, Heads(d, s)
    PROVE  Prefixed(t, d, s)
<1>1. d = t \o o
  BY Zenon DEF Adds
<1>2. PICK rest \in Seq(Byte) : s = d \o rest
  BY Zenon DEF Heads
<1>3. d \in Seq(Byte) /\ Len(d) = Len(t) + Len(o) /\ Len(o) > 0
  BY <1>1
<1>4. PICK a, b, c \in Nat : a = Len(t) /\ b = Len(d) /\ c = Len(rest)
  BY <1>3
<1>5. Len(s) = b + c
  BY <1>2, <1>3, <1>4, ConcatLen
<1>6. SubSeq(s, 1, b) = d
  BY <1>2, <1>3, <1>4
<1>7. b \in (a + 1)..(b + c)
  BY <1>3, <1>4
<1> QED
  BY <1>4, <1>5, <1>6, <1>7, Zenon DEF Prefixed

(* A step of the byte pipe, or none. *)
Flows == [Down!Next]_<<Concat(replied), Concat(tun)>>

(* More was replied: the pipe takes bytes. *)
LEMMA SendFlows ==
    ASSUME Longer(Concat(replied), Concat(replied)'), tun' = tun
    PROVE  Flows
<1>1. Concat(tun)' = Concat(tun)
  BY Zenon
<1>2. Down!Send
  BY <1>1, Zenon DEF Down!Send, Longer
<1> QED
  BY <1>2, Zenon DEF Down!Next, Flows

(* More has reached the TUN: the pipe delivers bytes. *)
LEMMA DeliverFlows ==
    ASSUME Prefixed(Concat(tun), Concat(tun)', Concat(replied)), replied' = replied
    PROVE  Flows
<1>1. Concat(replied)' = Concat(replied)
  BY Zenon
<1>2. Down!Deliver
  BY <1>1, Zenon DEF Down!Deliver, Prefixed
<1> QED
  BY <1>2, Zenon DEF Down!Next, Flows

(* A step elsewhere is none of the pipe. *)
LEMMA RestFlows ==
    ASSUME replied' = replied, tun' = tun
    PROVE  Flows
<1>1. Concat(replied)' = Concat(replied) /\ Concat(tun)' = Concat(tun)
  BY Zenon
<1> QED
  BY <1>1 DEF Flows

(* The TUN got o, which is the next of what was replied. *)
LEMMA GrownFlows ==
    ASSUME NEW o \in Seq(Byte), Grown(o), Concat(tun) \in Seq(Byte), Heads(Concat(tun)', Concat(replied)),
           replied' = replied
    PROVE  Flows
<1>1. CASE o = <<>>
  <2>1. Concat(tun)' = Concat(tun) \o o
    BY Zenon DEF Grown, Adds
  <2>2. Concat(tun)' = Concat(tun)
    BY <1>1, <2>1, NothingBefore
  <2>3. Concat(replied)' = Concat(replied)
    BY Zenon
  <2> QED
    BY <2>2, <2>3 DEF Flows
<1>2. CASE o # <<>>
  <2>1. Adds(Concat(tun), o, Concat(tun)')
    BY Zenon DEF Grown
  <2>2. Prefixed(Concat(tun), Concat(tun)', Concat(replied))
    BY <1>2, <2>1, HeadsPrefixed
  <2> QED
    BY <2>2, DeliverFlows, Zenon
<1> QED
  BY <1>1, <1>2

(* The last of a sequence of packets is a packet. *)
LEMMA LastPacket ==
    ASSUME NEW s \in Seq(Packets), NEW o, Append(s, o) \in Seq(Packets)
    PROVE  o \in Packets
<1>1. PICK t, n : t = Append(s, o) /\ n = Len(s) + 1
  OBVIOUS
<1>2. t \in Seq(Packets) /\ n \in 1..Len(t) /\ t[n] = o
  BY <1>1
<1> QED
  BY <1>2

(* The external peer's write is a sending. *)
LEMMA WriteFlows ==
    ASSUME StreamI, NEW p \in Packets, StreamWrite(p)
    PROVE  Flows
<1>1. peer # "echo" /\ replied' = Append(replied, p) /\ tun' = tun
  BY Zenon DEF StreamWrite
<1>2. replied \in Seq(Packets) /\ tun \in Seq(Seq(Byte)) /\ Heads(Concat(tun), Concat(replied))
  BY <1>1, Zenon DEF StreamI, StreamInv
<1>3. Adds(Concat(replied), p, Concat(replied)') /\ Concat(replied) \in Seq(Byte)
  BY <1>1, <1>2, RepliedMore
<1>4. p \in Seq(Byte) /\ p # <<>>
  BY PacketFits
<1>5. Longer(Concat(replied), Concat(replied)')
  BY <1>3, <1>4, AddsLonger
<1> QED
  BY <1>1, <1>5, SendFlows

(* An external peer's record is a delivery, or none when it is rejected or *)
(* empty.                                                                  *)
LEMMA StreamInboundFlows ==
    ASSUME StreamI, peer # "echo", Inbound
    PROVE  Flows
<1>1. replied' = replied
  BY Zenon DEF Inbound
<1>2. StreamInv
  BY Zenon DEF StreamI
<1>3. Delivered
  BY <1>2, StreamDelivers
<1>4. CASE tun' = tun
  BY <1>1, <1>4, RestFlows
<1>5. CASE tun' # tun
  <2>1. PICK o \in Seq(Byte) : Grown(o) /\ Heads(Concat(tun)', Concat(replied))
    BY <1>3, <1>5, Zenon DEF Delivered
  <2>2. tun \in Seq(Seq(Byte))
    BY <1>2, Zenon DEF StreamInv
  <2>3. Concat(tun) \in Seq(Byte)
    BY <2>2, ConcatHeads
  <2> QED
    BY <1>1, <2>1, <2>3, GrownFlows
<1> QED
  BY <1>4, <1>5

(* A record of the echo server is a delivery of one packet. *)
LEMMA EchoInboundFlows ==
    ASSUME EchoInv, EchoInv', peer = "echo", Inbound
    PROVE  Flows
<1>1. UNCHANGED <<req, peer, replied, probed>> /\ down.frames # <<>>
  BY InboundIs, Zenon DEF Inbound
<1>2. PICK f, u : Took(f, u)
  BY InboundIs, Zenon
<1>3. CASE tun' = tun
  BY <1>1, <1>3, RestFlows
<1>4. CASE tun' # tun
  <2>1. ~probed
    <3>1. SUFFICES ASSUME probed PROVE FALSE
      OBVIOUS
    <3>2. tun = <<>> /\ tun' = <<>>
      BY <1>1, <3>1, Zenon DEF EchoInv, ProbedInv
    <3> QED
      BY <1>4, <3>2
  <2>2. DownInv /\ DownInv' /\ RepliesInv
    BY <1>1, <2>1, Zenon DEF EchoInv, EchoParts
  <2>3. Begins(tun, replied) /\ Begins(tun', replied) /\ Begins(replied, arrived)
    BY <1>1, <2>2, Zenon DEF DownInv, RepliesInv
  <2>4. replied \in Seq(Packets) /\ tun \in Seq(Packets) /\ tun' \in Seq(Packets)
    BY <2>3, Zenon DEF Begins
  <2>5. PICK o : o = u.out
    OBVIOUS
  <2>6. tun' = (IF o = <<>> THEN tun ELSE Append(tun, o))
    BY <1>2, <1>4, <2>5, Zenon DEF Took
  <2>7. tun' = Append(tun, o)
    BY <1>4, <2>6, Zenon
  <2>8. o \in Packets
    BY <2>4, <2>7, LastPacket
  <2>9. o \in Seq(Byte)
    BY <2>8, PacketFits
  <2>10. tun \in Seq(Seq(Byte)) /\ replied \in Seq(Seq(Byte))
    BY <2>4, PacketsAreBytes
  <2>11. Grown(o) /\ Concat(tun) \in Seq(Byte)
    <3>1. TunStep(o)
      BY <2>6, Zenon DEF TunStep
    <3> QED
      BY <2>9, <2>10, <3>1, TunGrows
  <2>12. Heads(Concat(tun)', Concat(replied))
    <3>1. tun' = SubSeq(replied, 1, Len(tun')) /\ Len(tun') \in Nat /\ Len(tun') <= Len(replied)
      BY <2>3, <2>4, BeginsIs
    <3>2. PICK m, k : m = Len(tun') /\ k = Len(replied)
      OBVIOUS
    <3>3. k \in Nat
      BY <2>4, <3>2
    <3>4. m \in 0..k
      BY <3>1, <3>2, <3>3
    <3>5. Heads(Concat(SubSeq(replied, 1, m)), Concat(replied))
      <4>1. \A j \in 0..Len(replied) : Heads(Concat(SubSeq(replied, 1, j)), Concat(replied))
        BY <2>10, ConcatHeads
      <4> QED
        BY <3>2, <3>4, <4>1, Zenon
    <3> QED
      BY <3>1, <3>2, <3>5, Zenon
  <2> QED
    BY <1>1, <2>9, <2>11, <2>12, GrownFlows
<1> QED
  BY <1>3, <1>4

(* The echo server's answer is a sending, its failure none. *)
LEMMA EchoRecordFlows ==
    ASSUME EchoInv, EchoInv', ServerRecord
    PROVE  Flows
<1>1. peer = "echo" /\ UNCHANGED <<req, peer, probed, tun>>
  BY Zenon DEF ServerRecord
<1>2. (\E p : replied' = Append(replied, p)) \/ replied' = replied
  BY Zenon DEF ServerRecord, Fail, Reply
<1>3. CASE replied' = replied
  BY <1>1, <1>3, RestFlows
<1>4. CASE replied' # replied
  <2>1. ~probed
    <3>1. SUFFICES ASSUME probed PROVE FALSE
      OBVIOUS
    <3>2. replied = <<>> /\ replied' = <<>>
      BY <1>1, <3>1, Zenon DEF EchoInv, ProbedInv
    <3> QED
      BY <1>4, <3>2
  <2>2. RepliesInv /\ RepliesInv'
    BY <1>1, <2>1, Zenon DEF EchoInv, EchoParts
  <2>3. replied \in Seq(Packets) /\ replied' \in Seq(Packets)
    BY <2>2, Zenon DEF RepliesInv, Begins
  <2>4. PICK p : replied' = Append(replied, p)
    BY <1>2, <1>4
  <2>5. p \in Packets
    BY <2>3, <2>4, LastPacket
  <2>6. p \in Seq(Byte) /\ p # <<>>
    BY <2>5, PacketFits
  <2>7. replied \in Seq(Seq(Byte))
    BY <2>3, PacketsAreBytes
  <2>8. Concat(replied) \in Seq(Byte)
    BY <2>7, ConcatHeads
  <2>9. Adds(Concat(replied), p, Concat(replied)')
    <3>1. Adds(Concat(replied), p, Concat(Append(replied, p)))
      BY <2>6, <2>7, ConcatMore
    <3> QED
      BY <2>4, <3>1, Zenon
  <2>10. Longer(Concat(replied), Concat(replied)')
    BY <2>6, <2>8, <2>9, AddsLonger
  <2> QED
    BY <1>1, <2>10, SendFlows
<1> QED
  BY <1>3, <1>4

(* Every step is one of the byte pipe or none. *)
LEMMA StepFlows ==
    ASSUME EchoInv, EchoInv', StreamI, [Next]_vars
    PROVE  Flows
<1>1. ASSUME NEW p \in Packets, StreamWrite(p) PROVE Flows
  BY <1>1, WriteFlows
<1>2. CASE Inbound
  <2>1. CASE peer = "echo"
    BY <1>2, <2>1, EchoInboundFlows
  <2>2. CASE peer # "echo"
    BY <1>2, <2>2, StreamInboundFlows
  <2> QED
    BY <2>1, <2>2
<1>3. CASE ServerRecord
  BY <1>3, EchoRecordFlows
<1>4. CASE \/ Probe \/ TunGone \/ ServerEnds \/ ServerTimesOut
         \/ StreamCut \/ StreamMalformed \/ StreamBreaks
  <2>1. replied' = replied /\ tun' = tun
    BY <1>4, Zenon DEF Probe, TunGone, ServerEnds, ServerTimesOut, StreamCut, StreamMalformed, StreamBreaks
  <2> QED
    BY <2>1, RestFlows
<1>5. ASSUME NEW p \in Packets, Outbound(p) PROVE Flows
  <2>1. replied' = replied /\ tun' = tun
    BY <1>5, Zenon DEF Outbound
  <2> QED
    BY <2>1, RestFlows
<1>6. CASE UNCHANGED vars
  <2>1. replied' = replied /\ tun' = tun
    BY <1>6, Zenon DEF vars
  <2> QED
    BY <2>1, RestFlows
<1> QED
  BY <1>1, <1>2, <1>3, <1>4, <1>5, <1>6, Zenon DEF Next

(* DownIsPipe, for every request, packet, padding, cut of the stream into  *)
(* records, malformed first record and break of the connection: what       *)
(* reaches the TUN is a beginning of the bytes the far end has sent, and   *)
(* grows by the next of them. VlessIn::unwrap lets no byte of response     *)
(* header, frame header or padding through and loses none, whatever state  *)
(* a record boundary finds the reader in.                                  *)
THEOREM DownCorrect == Spec => DownIsPipe
<1>1. Init => Down!Init
  <2> SUFFICES ASSUME Init PROVE Down!Init
    OBVIOUS
  <2>1. replied = <<>> /\ tun = <<>>
    BY Zenon DEF Init
  <2> QED
    BY <2>1, ConcatNone, Zenon DEF Down!Init
<1>2. EchoInv /\ EchoInv' /\ StreamI /\ [Next]_vars => [Down!Next]_<<Concat(replied), Concat(tun)>>
  BY StepFlows DEF Flows
<1> QED
  BY <1>1, <1>2, EchoAlways, StreamAlways, PTL DEF Spec, DownIsPipe, Down!Spec

-----------------------------------------------------------------------------
(* TypeOK: the range of the inbound reader's fields. *)

(* A reader's fields are in range. *)
Held(r, u) == Typed(r) \/ r = NewReader(u) \/ r = Plainly(u)

(* unwrap of a first record leaves one of these readers. *)
LEMMA FirstHeld ==
    ASSUME NEW u \in Seq(Byte), Len(u) = UuidLen, NEW f \in Seq(Byte)
    PROVE  Rejected(NewIn(u), f) \/ \E r, o : Unwraps(NewIn(u), f, r, o) /\ Held(r, u)
<1>0. UuidLen \in Nat
  BY VlessAssumption
<1>1. ASSUME NEW r, NEW o, Unpads(NewReader(u), f, r, o), Held(r, u)
      PROVE  Rejected(NewIn(u), f) \/ \E q, x : Unwraps(NewIn(u), f, q, x) /\ Held(q, u)
  <2>1. IF Responds(o) THEN Unwraps(NewIn(u), f, r, Slice(o, 4, Len(o)))
        ELSE Rejected(NewIn(u), f)
    BY <1>1, UnwrapFirst
  <2> QED
    BY <1>1, <2>1, Zenon
<1>2. CASE ~(Len(f) >= UuidLen + 5)
  <2>1. Unpads(NewReader(u), f, Plainly(u), f)
    BY <1>2, Passes, Zenon DEF Unpads
  <2>2. Held(Plainly(u), u)
    BY Zenon DEF Held
  <2> QED
    BY <1>1, <2>1, <2>2, Zenon
<1>3. CASE Len(f) >= UuidLen + 5 /\ Slice(f, 0, UuidLen) # u
  <2>1. Rejected(NewIn(u), f)
    BY <1>3, Mismatch, UnwrapRefused
  <2> QED
    BY <2>1
<1>4. CASE Len(f) >= UuidLen + 5 /\ Slice(f, 0, UuidLen) = u
  <2>1. UuidLen \in 0..Len(f)
    BY <1>0, <1>4
  <2>2. PICK a, w : Halves(f, UuidLen, a, w)
    BY <2>1, CutsInTwo
  <2>3. a = u /\ f = u \o w /\ w \in Seq(Byte) /\ Len(w) = Len(f) - UuidLen
    BY <1>4, <2>2, Zenon DEF Halves
  <2>4. Len(w) >= 5
    BY <1>0, <1>4, <2>3
  <2>5. Unpad(NewReader(u), f) = UnpadBytes(LockedOn(u), w)
    <3>1. Unpad(NewReader(u), u \o w) = UnpadBytes(LockedOn(u), w)
      BY <2>3, <2>4, NewReaderLocks
    <3> QED
      BY <2>3, <3>1, Zenon
  <2>6. Outcome(LockedOn(u), w)
    BY <2>3, ReadsOrRefuses
  <2>7. CASE Refuses(LockedOn(u), w)
    <3>1. ~Unpad(NewReader(u), f).ok
      BY <2>5, <2>7, Zenon DEF Refuses
    <3>2. Rejected(NewIn(u), f)
      BY <3>1, UnwrapRefused
    <3> QED
      BY <3>2
  <2>8. CASE ~Refuses(LockedOn(u), w)
    <3>1. PICK r, o : Reads(LockedOn(u), w, r, o)
      BY <2>6, <2>8, Zenon DEF Outcome
    <3>2. Typed(r)
      BY <2>3, <3>1, LockedTyped, ReadsTyped
    <3>3. Unpads(NewReader(u), f, r, o)
      BY <2>5, <3>1, Zenon DEF Unpads, Reads
    <3> QED
      BY <1>1, <3>2, <3>3, Zenon DEF Held
  <2> QED
    BY <2>7, <2>8
<1> QED
  BY <1>2, <1>3, <1>4

(* The two readers without an identity. *)
LEMMA HeldInitial ==
    ASSUME NEW r, NEW u, r = NewReader(u) \/ r = Plainly(u)
    PROVE  r.state = "Initial" /\ r.remaining = 0 /\ r.header = <<>>
<1>1. PICK t, f : t = TRUE /\ f = FALSE
  OBVIOUS
<1>2. CASE r = NewReader(u)
  <2>1. r = Rd("Initial", 0, 0, 0, <<>>, u, f, t)
    BY <1>1, <1>2, Zenon DEF NewReader, Rd
  <2> QED
    BY <2>1, RdFields
<1>3. CASE r = Plainly(u)
  <2>1. r = Rd("Initial", 0, 0, 0, <<>>, u, f, f)
    BY <1>1, <1>3, Zenon DEF Plainly
  <2> QED
    BY <2>1, RdFields
<1> QED
  BY <1>2, <1>3

(* TypeOK's part about the inbound reader. *)
ReaderOK(r) ==
    /\ r.state \in {"Initial", "Header", "Content", "Padding", "Direct"}
    /\ r.remaining \in 0..MaxFrameBody /\ Len(r.header) < 5

(* Such a reader is in range. *)
LEMMA HeldOK ==
    ASSUME NEW r, NEW u, Held(r, u)
    PROVE  ReaderOK(r)
<1>0. MaxFrameBody \in Nat
  BY VlessAssumption
<1>1. CASE Typed(r)
  <2>1. PICK s, n, c, p, h, q, wi, fi : r = Rd(s, n, c, p, h, q, wi, fi) /\ Sized(s, n, p, h)
    BY <1>1, Zenon DEF Typed
  <2>2. r.state = s /\ r.remaining = n /\ r.header = h
    BY <2>1, RdFields
  <2>3. s \in {"Header", "Content", "Padding", "Direct"} /\ n \in 0..MaxFrameBody /\ Len(h) < 5
    BY <2>1, Zenon DEF Sized
  <2> QED
    BY <2>2, <2>3 DEF ReaderOK
<1>2. CASE r = NewReader(u) \/ r = Plainly(u)
  <2>1. r.state = "Initial" /\ r.remaining = 0 /\ r.header = <<>>
    BY <1>2, HeldInitial
  <2> QED
    BY <1>0, <2>1 DEF ReaderOK
<1> QED
  BY <1>1, <1>2, Zenon DEF Held

(* The tunnel's inbound reader is one of these. *)
InHeld == Held(vless_in.reader, req.uuid)

(* The reader of an inbound end that has met the response. *)
LEMMA SeenReader ==
    ASSUME NEW r
    PROVE  SeenIn(r).reader = r
BY DEF SeenIn

(* Inbound keeps the reader in range, also over a record of another peer   *)
(* than the echo server.                                                   *)
LEMMA InboundHeld ==
    ASSUME EchoInv, EchoInv', StreamI, InHeld, Inbound
    PROVE  InHeld'
<1>1. UNCHANGED <<req, peer, replied, probed>> /\ down.frames # <<>>
  BY InboundIs, Zenon DEF Inbound
<1>2. PICK f, u : Took(f, u)
  BY InboundIs, Zenon
<1>3. CASE vless_in' = vless_in
  BY <1>1, <1>3, Zenon DEF InHeld
<1>4. CASE vless_in' # vless_in /\ peer # "echo"
  <2>1. StreamInv
    BY <1>4, Zenon DEF StreamI
  <2>2. Delivered
    BY <2>1, StreamDelivers
  <2>3. Flowing'
    BY <1>4, <2>2, Zenon DEF Delivered
  <2>4. PICK r : \E c : vless_in' = SeenIn(r) /\ Follow(peer', req.uuid', r, backlog', pwriter', c)
    BY <2>3, Zenon DEF Flowing
  <2>5. Held(r, req.uuid')
    BY <2>4, Zenon DEF Follow, Held
  <2>6. vless_in'.reader = r
    BY <2>4, SeenReader
  <2> QED
    BY <2>5, <2>6, Zenon DEF InHeld
<1>5. CASE vless_in' # vless_in /\ peer = "echo"
  <2>1. ~probed
    <3>1. SUFFICES ASSUME probed PROVE FALSE
      OBVIOUS
    <3>2. down = [frames |-> <<>>, end |-> down.end]
      BY <1>5, <3>1, Zenon DEF EchoInv, ProbedInv
    <3>3. down.frames = <<>>
      BY <3>2, WireFields DEF WireOf
    <3> QED
      BY <1>1, <3>3
  <2>2. DownInv /\ InInv /\ req \in Requests
    BY <1>5, <2>1, Zenon DEF EchoInv, EchoParts
  <2>3. instep /\ u.ok /\ vless_in' = u.vi /\ f = Head(down.frames) /\ u = Unwrap(vless_in, f)
    BY <1>2, <1>5, Zenon DEF Took
  <2>4. f \in Seq(Byte)
    <3>1. down.frames \in Seq(Seq(Byte))
      BY <2>2, <2>3, Zenon DEF DownInv, Wire
    <3>2. PICK B : B = Seq(Byte)
      OBVIOUS
    <3>3. down.frames \in Seq(B)
      BY <3>1, <3>2
    <3>4. f \in B
      BY <1>1, <2>3, <3>3
    <3> QED
      BY <3>2, <3>4
  <2>5. req.uuid \in Seq(Byte) /\ Len(req.uuid) = UuidLen
    BY <2>2, RequestFits
  <2>6. CASE tun = <<>>
    <3>1. vless_in = NewIn(req.uuid)
      BY <2>2, <2>3, <2>6, Zenon DEF InInv
    <3>2. ~Rejected(NewIn(req.uuid), f)
      BY <2>3, <3>1, Zenon DEF Rejected
    <3>3. PICK r, o : Unwraps(NewIn(req.uuid), f, r, o) /\ Held(r, req.uuid)
      BY <2>4, <2>5, <3>2, FirstHeld
    <3>4. u = [ok |-> TRUE, vi |-> SeenIn(r), out |-> o]
      BY <2>3, <3>1, <3>3, Zenon DEF Unwraps
    <3>5. u.vi = SeenIn(r)
      BY <3>4
    <3>6. vless_in'.reader = r
      BY <2>3, <3>5, SeenReader
    <3> QED
      BY <1>1, <3>3, <3>6, Zenon DEF InHeld
  <2>7. CASE tun # <<>>
    <3>1. PICK r : vless_in = SeenIn(r) /\ r = vless_in.reader /\ r.state = "Direct"
      BY <2>2, <2>3, <2>7, Zenon DEF InInv
    <3>2. u.vi = SeenIn(r)
      <4>1. u = Unwrap(SeenIn(r), f)
        BY <2>3, <3>1, Zenon
      <4> QED
        BY <2>4, <3>1, <4>1, UnwrapNext
    <3> QED
      BY <1>5, <2>3, <3>1, <3>2, Zenon
  <2> QED
    BY <2>6, <2>7
<1> QED
  BY <1>3, <1>4, <1>5

(* What a step may do to a wire. *)
Moves(w, v) == \/ v = w \/ v = TakeFrame(w) \/ \E f : v = WriteFrame(w, f)
               \/ \E e \in Ends : v = [w EXCEPT !.end = e]

(* A wire whose end is one of Ends. *)
WireOK(w) == IsWire(w) /\ w.end \in Ends

(* Such a step keeps it. *)
LEMMA MovesOK ==
    ASSUME NEW w, NEW v, WireOK(w), Moves(w, v)
    PROVE  WireOK(v)
<1>0. IsWire(w) /\ w.end \in Ends
  BY Zenon DEF WireOK
<1>1. CASE v = w
  BY <1>1, Zenon
<1>2. CASE v = TakeFrame(w)
  <2>1. WireOf(v, Tail(w.frames), w.end)
    BY <1>0, <1>2, WireTake
  <2> QED
    BY <1>0, <2>1, Zenon DEF WireOf, WireOK
<1>3. ASSUME NEW f, v = WriteFrame(w, f) PROVE WireOK(v)
  <2>1. WireOf(v, Append(w.frames, f), w.end)
    BY <1>0, <1>3, WireWrite
  <2> QED
    BY <1>0, <2>1, Zenon DEF WireOf, WireOK
<1>4. ASSUME NEW e \in Ends, v = [w EXCEPT !.end = e] PROVE WireOK(v)
  <2>1. WireOf(v, w.frames, e)
    BY <1>0, <1>4, WireEnds
  <2> QED
    BY <1>4, <2>1, Zenon DEF WireOf, WireOK
<1> QED
  BY <1>1, <1>2, <1>3, <1>4, Zenon DEF Moves

(* The ends that the steps name. *)
LEMMA EndsAre == "eof" \in Ends /\ "prefix" \in Ends /\ "payload" \in Ends /\ "open" \in Ends
BY DEF Ends

(* Every step does one of these to each wire. *)
LEMMA NextMoves ==
    ASSUME [Next]_vars
    PROVE  Moves(up, up') /\ Moves(down, down')
<1>1. ASSUME NEW p \in Packets, Outbound(p) PROVE Moves(up, up') /\ Moves(down, down')
  <2>1. PICK rnd \in DrawsFor(vless_out.writer, Len(vless_out.header) + Len(p)) :
            LET w == Wrap(vless_out, p, rnd)
            IN  \/ up' = WriteFrame(up, w.out) /\ sent' = Append(sent, p)
                \/ up' \in WriteBreaks(up) /\ UNCHANGED sent
    BY <1>1, Zenon DEF Outbound
  <2>2. CASE up' \in WriteBreaks(up)
    <3>1. PICK e \in {"eof", "prefix", "payload"} : up' = [up EXCEPT !.end = e]
      BY <2>2, Zenon DEF WriteBreaks
    <3>2. e \in Ends
      BY <3>1, EndsAre
    <3>3. Moves(up, up')
      BY <3>1, <3>2, Zenon DEF Moves
    <3> QED
      BY <1>1, <3>3, Zenon DEF Moves, Outbound
  <2> QED
    BY <1>1, <2>1, <2>2, Zenon DEF Moves, Outbound
<1>2. ASSUME NEW p \in Packets, StreamWrite(p) PROVE Moves(up, up') /\ Moves(down, down')
  BY <1>2, Zenon DEF StreamWrite, Moves
<1>3. CASE Probe
  BY <1>3, Zenon DEF Probe, Moves
<1>4. CASE Inbound
  BY <1>4, Zenon DEF Inbound, Moves
<1>5. CASE ServerRecord
  <2>1. up' = TakeFrame(up) /\ ServerStep(Head(up.frames))
    BY <1>5, Zenon DEF ServerRecord, ServerStep
  <2>2. CASE Fail
    BY <2>1, <2>2, EndsAre, Zenon DEF Fail, Moves
  <2>3. ASSUME NEW u, NEW q, NEW d, NEW a, Reply(u, q, d, a)
        PROVE  Moves(down, down')
    <3>1. (\E f : down' = WriteFrame(down, f)) \/ down' \in WriteBreaks(down)
      BY <2>3, Zenon DEF Reply
    <3>2. CASE down' \in WriteBreaks(down)
      <4>1. PICK e \in {"eof", "prefix", "payload"} : down' = [down EXCEPT !.end = e]
        BY <3>2, Zenon DEF WriteBreaks
      <4>2. e \in Ends
        BY <4>1, EndsAre
      <4> QED
        BY <4>1, <4>2, Zenon DEF Moves
    <3> QED
      BY <3>1, <3>2, Zenon DEF Moves
  <2> QED
    BY <2>1, <2>2, <2>3, Zenon DEF ServerStep, Moves
<1>6. CASE ServerEnds
  BY <1>6, EndsAre, Zenon DEF ServerEnds, Moves
<1>7. CASE StreamCut
  BY <1>7, Zenon DEF StreamCut, Moves
<1>8. CASE StreamMalformed
  BY <1>8, Zenon DEF StreamMalformed, Moves
<1>9. CASE StreamBreaks
  BY <1>9, Zenon DEF StreamBreaks, Moves
<1>10. CASE UNCHANGED vars
  BY <1>10, Zenon DEF vars, Moves
<1>11. CASE TunGone
  BY <1>11, EndsAre, Zenon DEF TunGone, Moves
<1>12. CASE ServerTimesOut
  BY <1>12, EndsAre, Zenon DEF ServerTimesOut, Moves
<1> QED
  BY <1>1, <1>2, <1>3, <1>4, <1>5, <1>6, <1>7, <1>8, <1>9, <1>10, <1>11, <1>12, Zenon DEF Next

(* No more packets than the bound. *)
Few(s) == Len(s) \in 0..MaxPackets

(* One more packet, below the bound. *)
LEMMA FewMore ==
    ASSUME NEW s \in Seq(Packets), NEW p \in Packets, Len(s) < MaxPackets
    PROVE  Few(Append(s, p))
<1>1. Len(Append(s, p)) = Len(s) + 1 /\ Len(s) \in Nat /\ MaxPackets \in Nat
  BY VisionAssumption
<1> QED
  BY <1>1 DEF Few

(* No packets. *)
LEMMA FewNone == Few(<<>>)
<1>1. MaxPackets \in Nat /\ Len(<<>>) = 0
  BY VisionAssumption
<1> QED
  BY <1>1 DEF Few

(* The inductive part of TypeOK. *)
TypeInv ==
    /\ WireOK(up) /\ WireOK(down) /\ instep \in BOOLEAN /\ InHeld
    /\ Few(sent) /\ (peer # "echo" => Few(replied))

(* It holds of a tunnel that has just been set up. *)
LEMMA TypeStart == Init => TypeInv
<1> SUFFICES ASSUME Init PROVE TypeInv
  OBVIOUS
<1>1. WireOK(NewWire)
  <2>1. PICK w : w = NewWire
    OBVIOUS
  <2>2. w = [frames |-> <<>>, end |-> "open"]
    BY <2>1, Zenon DEF NewWire
  <2>3. WireOf(w, <<>>, "open")
    BY <2>2, WireFields
  <2> QED
    BY <2>1, <2>3, EndsAre, Zenon DEF WireOf, WireOK
<1>2. NewIn(req.uuid).reader = NewReader(req.uuid)
  BY DEF NewIn
<1>3. InHeld
  BY <1>2, Zenon DEF Init, InHeld, Held
<1> QED
  BY <1>1, <1>3, FewNone, Zenon DEF Init, TypeInv

(* instep stays a truth value. *)
LEMMA InstepStep ==
    ASSUME instep \in BOOLEAN, [Next]_vars
    PROVE  instep' \in BOOLEAN
<1>1. CASE Inbound
  BY <1>1, Zenon DEF Inbound
<1>2. CASE TunGone
  BY <1>2, Zenon DEF TunGone
<1>3. CASE ~Inbound /\ ~TunGone
  <2>1. instep' = instep
    BY <1>3, Zenon DEF Next, vars, Outbound, StreamWrite, Probe, ServerRecord, ServerEnds, ServerTimesOut,
                       StreamCut, StreamMalformed, StreamBreaks
  <2> QED
    BY <2>1, Zenon
<1> QED
  BY <1>1, <1>2, <1>3

(* Every step keeps the inbound reader in range. *)
LEMMA HeldStep ==
    ASSUME EchoInv, EchoInv', StreamI, InHeld, [Next]_vars
    PROVE  InHeld'
<1>1. CASE Inbound
  BY <1>1, InboundHeld
<1>2. CASE ~Inbound
  <2>1. UNCHANGED <<vless_in, req>>
    BY <1>2, Zenon DEF Next, vars, Outbound, StreamWrite, Probe, TunGone, ServerRecord, ServerEnds, ServerTimesOut,
                       StreamCut, StreamMalformed, StreamBreaks
  <2> QED
    BY <2>1, Zenon DEF InHeld
<1> QED
  BY <1>1, <1>2

(* Every step keeps the bound on packets. *)
LEMMA FewStep ==
    ASSUME EchoInv, StreamI, Few(sent), peer # "echo" => Few(replied), [Next]_vars
    PROVE  Few(sent)' /\ (peer # "echo" => Few(replied))'
<1>1. ASSUME NEW p \in Packets, Outbound(p)
      PROVE  Few(sent)' /\ (peer # "echo" => Few(replied))'
  <2>1. Len(sent) < MaxPackets /\ peer' = "echo" /\ peer = "echo" /\ ~probed
    BY <1>1, Zenon DEF Outbound
  <2>2. sent' = Append(sent, p) \/ sent' = sent
    BY <1>1, Zenon DEF Outbound
  <2>3. sent \in Seq(Packets)
    BY <2>1, Zenon DEF EchoInv, EchoParts, UpInv
  <2>4. Few(Append(sent, p))
    BY <2>1, <2>3, FewMore
  <2> QED
    BY <2>1, <2>2, <2>4, Zenon DEF Few
<1>2. ASSUME NEW p \in Packets, StreamWrite(p)
      PROVE  Few(sent)' /\ (peer # "echo" => Few(replied))'
  <2>1. /\ peer # "echo" /\ Len(replied) < MaxPackets /\ replied' = Append(replied, p)
        /\ sent' = sent
    BY <1>2, Zenon DEF StreamWrite
  <2>2. replied \in Seq(Packets)
    BY <2>1, Zenon DEF StreamI, StreamInv
  <2>3. Few(Append(replied, p))
    BY <2>1, <2>2, FewMore
  <2> QED
    BY <2>1, <2>3, Zenon DEF Few
<1>3. CASE ~\E p \in Packets : Outbound(p) \/ StreamWrite(p)
  <2>1. UNCHANGED <<sent, peer>> /\ (peer # "echo" => replied' = replied)
    BY <1>3, Zenon DEF Next, vars, Inbound, TunGone, Probe, ServerRecord, ServerEnds, ServerTimesOut,
                       StreamCut, StreamMalformed, StreamBreaks
  <2> QED
    BY <2>1, Zenon DEF Few
<1> QED
  BY <1>1, <1>2, <1>3, Zenon

(* Every step keeps TypeInv. *)
LEMMA TypeStep ==
    ASSUME EchoInv, EchoInv', StreamI, TypeInv, [Next]_vars
    PROVE  TypeInv'
<1>1. /\ WireOK(up) /\ WireOK(down) /\ instep \in BOOLEAN /\ InHeld
      /\ Few(sent) /\ (peer # "echo" => Few(replied))
  BY Zenon DEF TypeInv
<1>2. WireOK(up') /\ WireOK(down')
  BY <1>1, NextMoves, MovesOK
<1>3. instep' \in BOOLEAN
  BY <1>1, InstepStep
<1>4. InHeld'
  BY <1>1, HeldStep
<1>5. Few(sent)' /\ (peer # "echo" => Few(replied))'
  BY <1>1, FewStep
<1> QED
  BY <1>2, <1>3, <1>4, <1>5, Zenon DEF TypeInv

(* TypeInv holds in every behaviour. *)
LEMMA TypeAlways == Spec => []TypeInv
<1>1. Init => TypeInv
  BY TypeStart
<1>2. EchoInv /\ EchoInv' /\ StreamI /\ TypeInv /\ [Next]_vars => TypeInv'
  BY TypeStep
<1> QED
  BY <1>1, <1>2, EchoAlways, StreamAlways, PTL DEF Spec

(* What arrived, and what the echo server replied, is no more than was     *)
(* sent.                                                                   *)
LEMMA FewCounts ==
    ASSUME EchoInv, TypeInv
    PROVE  Few(sent) /\ Few(arrived) /\ Few(replied)
<1>0. Few(sent) /\ (peer # "echo" => Few(replied))
  BY Zenon DEF TypeInv
<1>1. CASE peer # "echo"
  BY <1>0, <1>1, FewNone, Zenon DEF EchoInv, ExternalInv
<1>2. CASE peer = "echo" /\ probed
  BY <1>2, FewNone, Zenon DEF EchoInv, ProbedInv
<1>3. CASE peer = "echo" /\ ~probed
  <2>1. sent \in Seq(Packets) /\ Begins(arrived, sent) /\ Begins(replied, arrived)
    BY <1>3, Zenon DEF EchoInv, EchoParts, UpInv, RepliesInv
  <2>2. /\ arrived \in Seq(Packets) /\ Len(arrived) <= Len(sent)
        /\ replied \in Seq(Packets) /\ Len(replied) <= Len(arrived)
    BY <2>1, Zenon DEF Begins
  <2>3. PICK a, b, c \in Nat : a = Len(arrived) /\ b = Len(sent) /\ c = Len(replied)
    BY <2>1, <2>2
  <2>4. c <= a /\ a <= b /\ b \in 0..MaxPackets /\ MaxPackets \in Nat
    BY <1>0, <2>2, <2>3, VisionAssumption, Zenon DEF Few
  <2>5. a \in 0..MaxPackets /\ c \in 0..MaxPackets
    BY <2>3, <2>4
  <2>6. Few(arrived) /\ Few(replied)
    BY <2>3, <2>5, Zenon DEF Few
  <2> QED
    BY <1>0, <2>6, Zenon
<1> QED
  BY <1>1, <1>2, <1>3

(* The echo server is running, or has ended with one of its results. *)
LEMMA ResultIs ==
    ASSUME EchoInv
    PROVE  server.result \in ServerResults
<1>1. CASE peer # "echo"
  <2>1. Fresh("running")
    BY <1>1, Zenon DEF EchoInv, ExternalInv
  <2>2. server.result = "running"
    BY <2>1, ServerFields DEF Fresh
  <2> QED
    BY <2>2 DEF ServerResults
<1>2. CASE peer = "echo" /\ probed
  <2>1. server.result = "running" \/ server.result \in {"refused", "record_loop"}
    BY <1>2, Zenon DEF EchoInv, ProbedInv
  <2> QED
    BY <2>1 DEF ServerResults
<1>3. CASE peer = "echo" /\ ~probed
  BY <1>3, Zenon DEF EchoInv, EchoParts, ServerInv
<1> QED
  BY <1>1, <1>2, <1>3

(* TypeOK, for every instance: whatever records arrive, VisionReader's     *)
(* remaining stays within a frame's body, its header buffer never holds a  *)
(* whole header between two calls, and no side counts more packets than    *)
(* the bound.                                                              *)
THEOREM TypeCorrect == Spec => []TypeOK
<1>1. EchoInv /\ TypeInv => TypeOK
  <2> SUFFICES ASSUME EchoInv, TypeInv PROVE TypeOK
    OBVIOUS
  <2>1. /\ up.end \in Ends /\ down.end \in Ends /\ instep \in BOOLEAN
        /\ Held(vless_in.reader, req.uuid)
    BY Zenon DEF TypeInv, WireOK, InHeld
  <2>2. ReaderOK(vless_in.reader)
    BY <2>1, HeldOK
  <2>3. server.result \in ServerResults
    BY ResultIs
  <2>4. Few(sent) /\ Few(arrived) /\ Few(replied)
    BY FewCounts
  <2>5. {Len(sent), Len(arrived), Len(replied)} \subseteq 0..MaxPackets
    BY <2>4, Zenon DEF Few
  <2> QED
    BY <2>1, <2>2, <2>3, <2>5, Zenon DEF TypeOK, ReaderOK
<1> QED
  BY <1>1, EchoAlways, TypeAlways, PTL

-----------------------------------------------------------------------------
(* The frames of a record, as FramesOf finds them. *)

(* Where the frame after offset k ends, and the table of it. *)
SizeAt(w, k) == k + 5 + Un16(w[k + 2], w[k + 3]) + Un16(w[k + 4], w[k + 5])
Sizes(w) == [k \in 0..Len(w) |-> SizeAt(w, k)]

(* g has the offsets 0 to n of the walk over w, whose frame ends are z. *)
CutStep(w, z, k) == IF k >= Len(w) THEN k ELSE z[k]
Walked(n, g, w, z) == g = [i \in 0..n |-> IF i = 0 THEN UuidLen ELSE CutStep(w, z, g[i - 1])]

FrameRec(w, z, k) == [command |-> w[k + 1], content |-> Un16(w[k + 2], w[k + 3]),
                      padding |-> Un16(w[k + 4], w[k + 5]), last |-> z[k] = Len(w)]

(* The walk has offsets for any number of steps. *)
LEMMA WalkedExist ==
    ASSUME NEW w, NEW z
    PROVE  \A n \in Nat : \E g : Walked(n, g, w, z)
<1> DEFINE T == {n \in Nat : \E g : Walked(n, g, w, z)}
<1>1. 0 \in T
  <2>1. PICK g : g = [i \in 0..0 |-> UuidLen]
    OBVIOUS
  <2>2. Walked(0, g, w, z)
    BY <2>1 DEF Walked
  <2> QED
    BY <2>2
<1>2. ASSUME NEW n \in Nat, n \in T PROVE n + 1 \in T
  <2>1. PICK g : Walked(n, g, w, z)
    BY <1>2
  <2>2. PICK h : h = [i \in 0..(n + 1) |-> IF i = 0 THEN UuidLen ELSE CutStep(w, z, g[i - 1])]
    OBVIOUS
  <2>3. g = [i \in 0..n |-> IF i = 0 THEN UuidLen ELSE CutStep(w, z, g[i - 1])]
    BY <2>1 DEF Walked
  <2>4. \A i \in 0..n : h[i] = g[i]
    BY <2>2, <2>3
  <2>5. \A i \in 0..(n + 1) : i # 0 => h[i - 1] = g[i - 1]
    BY <2>4
  <2>6. h = [i \in 0..(n + 1) |-> IF i = 0 THEN UuidLen ELSE CutStep(w, z, h[i - 1])]
    BY <2>2, <2>5
  <2>7. Walked(n + 1, h, w, z)
    BY <2>6 DEF Walked
  <2> QED
    BY <2>7
<1>3. Nat \subseteq T
  <2> HIDE DEF T
  <2> QED
    BY <1>1, <1>2, SetInduction
<1> QED
  BY <1>3

(* FramesOf reads a record at the offsets of that walk. *)
LEMMA FramesOfIs ==
    ASSUME NEW w, Len(w) \in Nat
    PROVE  \E g : /\ Walked(Len(w), g, w, Sizes(w))
                  /\ FramesOf(w) = {FrameRec(w, Sizes(w), k) :
                                       k \in {j \in {g[i] : i \in 0..Len(w)} : j < Len(w)}}
<1> DEFINE z == [k \in 0..Len(w) |-> SizeAt(w, k)]
           g == CHOOSE h : Walked(Len(w), h, w, z)
<1>1. Walked(Len(w), g, w, z)
  BY WalkedExist
<1>2. FramesOf(w) = {FrameRec(w, z, k) : k \in {j \in {g[i] : i \in 0..Len(w)} : j < Len(w)}}
  BY Zenon DEF FramesOf, Walked, SizeAt, CutStep, FrameRec
<1> HIDE DEF g
<1> QED
  BY <1>1, <1>2, Zenon DEF Sizes

(* A frame of w after offset k, with command c, n bytes of content and m   *)
(* of padding, that ends at e.                                             *)
FrameAt(w, k, c, n, m, e) ==
    /\ k \in Nat /\ n \in Nat /\ m \in Nat /\ e \in Nat
    /\ w[k + 1] = c /\ Un16(w[k + 2], w[k + 3]) = n /\ Un16(w[k + 4], w[k + 5]) = m
    /\ e = k + 5 + n + m /\ e <= Len(w)

(* What FramesBounded asks of a frame, l saying whether it is the last. *)
Bordered(c, n, m, l) ==
    /\ n + m <= MaxFrameBody
    /\ n + m >= Least(MaxFrameBody, TestSeed[3]) \/ n >= TestSeed[1]
    /\ (c = PADDING_END) <=> l

(* w is count frames between the offsets off, each as it should be. *)
Lined(w, count, off) ==
    /\ off[0] = UuidLen /\ off[count] = Len(w)
    /\ \A i \in 1..count : \E c, n, m : /\ FrameAt(w, off[i - 1], c, n, m, off[i])
                                        /\ Bordered(c, n, m, i = count)

(* The claim of FramesBounded, for a record. *)
FramesSound(w) ==
    \A f \in FramesOf(w) :
        /\ f.content + f.padding <= MaxFrameBody
        /\ f.content + f.padding >= Least(MaxFrameBody, TestSeed[3]) \/ f.content >= TestSeed[1]
        /\ (f.command = PADDING_END) <=> f.last

(* The walk over such a record only meets the offsets of its frames. *)
LEMMA WalkMeets ==
    ASSUME NEW w \in Seq(Byte), NEW count \in Nat \ {0}, NEW off, Lined(w, count, off),
           NEW g, Walked(Len(w), g, w, Sizes(w))
    PROVE  \A i \in 0..Len(w) : \E j \in 0..count : g[i] = off[j]
<1>1. PICK l \in Nat : l = Len(w)
  OBVIOUS
<1>2. PICK z : z = Sizes(w)
  OBVIOUS
<1>3. g = [i \in 0..l |-> IF i = 0 THEN UuidLen ELSE CutStep(w, z, g[i - 1])]
  BY <1>1, <1>2, Zenon DEF Walked
<1> DEFINE T == {i \in Nat : i <= l => \E j \in 0..count : g[i] = off[j]}
<1>4. 0 \in T
  <2>1. g[0] = UuidLen /\ off[0] = UuidLen /\ 0 \in 0..count
    BY <1>3 DEF Lined
  <2> QED
    BY <2>1
<1>5. ASSUME NEW i \in Nat, i \in T PROVE i + 1 \in T
  <2> SUFFICES ASSUME i + 1 <= l PROVE \E j \in 0..count : g[i + 1] = off[j]
    OBVIOUS
  <2>1. PICK j \in 0..count : g[i] = off[j]
    BY <1>5
  <2>2. g[i + 1] = CutStep(w, z, g[i])
    <3>1. i + 1 \in 0..l /\ i + 1 # 0 /\ (i + 1) - 1 = i
      OBVIOUS
    <3> QED
      BY <1>3, <3>1
  <2>3. CASE g[i] >= Len(w)
    BY <2>1, <2>2, <2>3 DEF CutStep
  <2>4. CASE ~(g[i] >= Len(w))
    <3>1. g[i + 1] = z[off[j]]
      BY <2>1, <2>2, <2>4, Zenon DEF CutStep
    <3>2. j # count
      <4>1. off[count] = Len(w)
        BY DEF Lined
      <4> QED
        BY <1>1, <2>1, <2>4, <4>1
    <3>3. PICK k \in Nat : k = j + 1
      OBVIOUS
    <3>4. k \in 1..count /\ k - 1 = j
      BY <3>2, <3>3
    <3>5. PICK c, n, m : FrameAt(w, off[k - 1], c, n, m, off[k])
      BY <3>4, Zenon DEF Lined
    <3>6. FrameAt(w, off[j], c, n, m, off[k])
      BY <3>4, <3>5
    <3>7. off[j] \in 0..l /\ SizeAt(w, off[j]) = off[k]
      BY <1>1, <3>6 DEF FrameAt, SizeAt
    <3>8. z[off[j]] = off[k]
      <4>1. z = [a \in 0..l |-> SizeAt(w, a)]
        BY <1>1, <1>2, Zenon DEF Sizes
      <4> QED
        BY <3>7, <4>1
    <3>9. k \in 0..count
      BY <3>4
    <3> QED
      BY <3>1, <3>8, <3>9
  <2> QED
    BY <2>3, <2>4
<1>6. Nat \subseteq T
  <2> HIDE DEF T
  <2> QED
    BY <1>4, <1>5, SetInduction
<1> QED
  BY <1>1, <1>6

(* So every frame that FramesOf finds is as it should be. *)
LEMMA LinedSound ==
    ASSUME NEW w \in Seq(Byte), NEW count \in Nat \ {0}, NEW off, Lined(w, count, off)
    PROVE  FramesSound(w)
<1>1. PICK l \in Nat : l = Len(w)
  OBVIOUS
<1>2. PICK z : z = Sizes(w)
  OBVIOUS
<1>3. PICK g : /\ Walked(Len(w), g, w, Sizes(w))
               /\ FramesOf(w) = {FrameRec(w, Sizes(w), k) :
                                    k \in {j \in {g[i] : i \in 0..Len(w)} : j < Len(w)}}
  <2>1. Len(w) \in Nat
    OBVIOUS
  <2> QED
    BY <2>1, FramesOfIs
<1>4. \A i \in 0..Len(w) : \E j \in 0..count : g[i] = off[j]
  <2>1. Walked(Len(w), g, w, Sizes(w))
    BY <1>3, Zenon
  <2> QED
    BY <2>1, WalkMeets
<1>5. ASSUME NEW f \in FramesOf(w)
      PROVE  /\ f.content + f.padding <= MaxFrameBody
             /\ f.content + f.padding >= Least(MaxFrameBody, TestSeed[3]) \/ f.content >= TestSeed[1]
             /\ (f.command = PADDING_END) <=> f.last
  <2>1. PICK i \in 0..Len(w) : g[i] < Len(w) /\ f = FrameRec(w, z, g[i])
    BY <1>2, <1>3, Zenon
  <2>2. PICK j \in 0..count : g[i] = off[j]
    BY <1>4
  <2>3. off[count] = Len(w)
    BY DEF Lined
  <2>4. j # count
    BY <1>1, <2>1, <2>2, <2>3
  <2>5. PICK k \in Nat : k = j + 1
    OBVIOUS
  <2>6. k \in 1..count /\ k - 1 = j
    BY <2>4, <2>5
  <2>7. PICK c, n, m : FrameAt(w, off[j], c, n, m, off[k]) /\ Bordered(c, n, m, k = count)
    BY <2>6, Zenon DEF Lined
  <2>8. off[j] \in 0..l /\ SizeAt(w, off[j]) = off[k] /\ off[k] \in Nat
    BY <1>1, <2>7 DEF FrameAt, SizeAt
  <2>9. z[off[j]] = off[k]
    <3>1. z = [a \in 0..l |-> SizeAt(w, a)]
      BY <1>1, <1>2, Zenon DEF Sizes
    <3> QED
      BY <2>8, <3>1
  <2>10. (k = count) <=> (off[k] = Len(w))
    <3>1. CASE k = count
      BY <2>3, <3>1
    <3>2. CASE k # count
      <4>1. PICK d \in Nat : d = k + 1
        OBVIOUS
      <4>2. d \in 1..count /\ d - 1 = k
        BY <2>6, <3>2, <4>1
      <4>3. PICK c2, n2, m2 : FrameAt(w, off[k], c2, n2, m2, off[d])
        BY <4>2, Zenon DEF Lined
      <4>4. off[k] < Len(w)
        BY <1>1, <4>3, SMTT(60) DEF FrameAt
      <4> QED
        BY <1>1, <2>8, <3>2, <4>4
    <3> QED
      BY <3>1, <3>2
  <2>11. PICK b : b = (z[off[j]] = Len(w))
    OBVIOUS
  <2>12. f = [command |-> c, content |-> n, padding |-> m, last |-> b]
    BY <2>1, <2>2, <2>7, <2>11, Zenon DEF FrameRec, FrameAt
  <2>13. f.command = c /\ f.content = n /\ f.padding = m /\ f.last = b
    BY <2>12, Zenon
  <2>14. b <=> (k = count)
    BY <2>9, <2>10, <2>11, Zenon
  <2>15. /\ n + m <= MaxFrameBody
         /\ n + m >= Least(MaxFrameBody, TestSeed[3]) \/ n >= TestSeed[1]
    BY <2>7, Zenon DEF Bordered
  <2>16. (c = PADDING_END) <=> b
    BY <2>7, <2>14, Zenon DEF Bordered
  <2>17. (f.command = PADDING_END) <=> f.last
    <3>1. (b = TRUE \/ b = FALSE) /\ f.last = b
      BY <2>11, <2>13, Zenon
    <3>2. CASE b = TRUE
      <4>1. f.last = TRUE /\ c = PADDING_END
        BY <2>16, <3>1, <3>2, Zenon
      <4> QED
        BY <2>13, <4>1, Zenon
    <3>3. CASE b = FALSE
      <4>1. f.last = FALSE /\ c # PADDING_END
        BY <2>16, <3>1, <3>3, Zenon
      <4> QED
        BY <2>13, <4>1, Zenon
    <3> QED
      BY <3>1, <3>2, <3>3, Zenon
  <2> QED
    BY <2>13, <2>15, <2>17, Zenon
<1> QED
  BY <1>5 DEF FramesSound

(* A long padding fills a frame to the size that hides the header, and     *)
(* never beyond what a frame may hold.                                     *)
LEMMA PaddingBorders ==
    ASSUME NEW n \in 0..MaxFrameBody, NEW long, long = TRUE, NEW r \in Nat, NEW m,
           m = PaddingLen(n, long, r)
    PROVE  /\ n + m <= MaxFrameBody
           /\ n + m >= Least(MaxFrameBody, TestSeed[3]) \/ n >= TestSeed[1]
<1>1. PICK a, b, c, d, M : /\ a = TestSeed[1] /\ b = TestSeed[2] /\ c = TestSeed[3]
                           /\ d = TestSeed[4] /\ M = MaxFrameBody
  OBVIOUS
<1>2. a \in Nat /\ b \in Nat \ {0} /\ c \in Nat /\ d \in Nat \ {0} /\ M \in Nat /\ n \in 0..M
  BY <1>1, VlessAssumption
<1>3. PICK e, f : e = (r % b) /\ f = (r % d)
  OBVIOUS
<1>4. e \in Nat /\ f \in Nat
  BY <1>2, <1>3
<1>5. m = Least(M - n, IF n < a THEN e + c - n ELSE f)
  BY <1>1, <1>3, Zenon DEF PaddingLen
<1>6. n + m <= M /\ (n + m >= Least(M, c) \/ n >= a)
  BY <1>2, <1>4, <1>5 DEF Least
<1> QED
  BY <1>1, <1>6, Zenon

(* A frame, wherever it lies. *)
LEMMA FrameLies ==
    ASSUME NEW c \in {PADDING_CONTINUE, PADDING_END}, NEW body \in Seq(Byte), NEW n, n = Len(body),
           n <= MaxFrameBody, NEW m \in 0..MaxFrameBody, NEW x \in Seq(Byte), NEW k, k = Len(x),
           NEW v, v = x \o FrameBytes(c, body, m), NEW e, e = Len(v),
           NEW rest \in Seq(Byte), NEW w, w = v \o rest
    PROVE  v \in Seq(Byte) /\ FrameAt(w, k, c, n, m, e)
<1>1. n \in 0..MaxFrameBody /\ k \in Nat /\ m \in Nat /\ n \in Nat
  BY VlessAssumption, SMTT(60)
<1>2. PICK h, z : h = FrameHead(c, n, m) /\ z = Zeros(m)
  OBVIOUS
<1>3. PICK b2, b3, b4, b5 \in Byte : /\ h = <<c, b2, b3, b4, b5>> /\ c \in Byte
                                     /\ Un16(b2, b3) = n /\ Un16(b4, b5) = m
  BY <1>1, <1>2, FrameHeadIs
<1>4. h \in Seq(Byte) /\ Len(h) = 5 /\ h[1] = c /\ h[2] = b2 /\ h[3] = b3 /\ h[4] = b4 /\ h[5] = b5
  BY <1>3
<1>5. z \in Seq(Byte) /\ Len(z) = m
  BY <1>1, <1>2, VlessAssumption DEF Zeros, Byte
<1>6. PICK s, t : s = h \o body /\ t = s \o z
  OBVIOUS
<1>7. t = FrameBytes(c, body, m) /\ v = x \o t
  BY <1>2, <1>6, Zenon DEF FrameBytes
<1>8. Joined(Byte, h, body, s, 5, n)
  BY <1>4, <1>6, Joins
<1>9. s \in Seq(Byte) /\ Len(s) = 5 + n
  BY <1>8 DEF Joined
<1>10. Joined(Byte, s, z, t, 5 + n, m)
  BY <1>5, <1>6, <1>9, Joins
<1>11. t \in Seq(Byte) /\ Len(t) = 5 + n + m
  BY <1>10 DEF Joined
<1>12. Joined(Byte, x, t, v, k, 5 + n + m)
  BY <1>7, <1>11, Joins
<1>13. v \in Seq(Byte) /\ Len(v) = k + (5 + n + m)
  BY <1>12, Zenon DEF Joined
<1>14. PICK l \in Nat : l = Len(rest)
  OBVIOUS
<1>15. Joined(Byte, v, rest, w, e, l)
  BY <1>13, <1>14, Joins
<1>16. e = k + 5 + n + m /\ e \in Nat
  BY <1>1, <1>13
<1>17. ASSUME NEW i \in 1..5 PROVE w[k + i] = h[i]
  <2>1. i \in 1..(5 + n) /\ i \in 1..(5 + n + m) /\ k + i \in 1..e
    BY <1>1, <1>16
  <2>2. s[i] = h[i]
    BY <1>8, Zenon DEF Joined
  <2>3. t[i] = s[i]
    BY <1>10, <2>1, Zenon DEF Joined
  <2>4. v[k + i] = t[i]
    BY <1>12, <2>1, Zenon DEF Joined
  <2>5. w[k + i] = v[k + i]
    BY <1>15, <2>1, Zenon DEF Joined
  <2> QED
    BY <2>2, <2>3, <2>4, <2>5, Zenon
<1>18. w[k + 1] = c /\ w[k + 2] = b2 /\ w[k + 3] = b3 /\ w[k + 4] = b4 /\ w[k + 5] = b5
  <2>1. 1 \in 1..5 /\ 2 \in 1..5 /\ 3 \in 1..5 /\ 4 \in 1..5 /\ 5 \in 1..5
    OBVIOUS
  <2> QED
    BY <1>4, <1>17, <2>1, Zenon
<1>19. e <= Len(w)
  BY <1>14, <1>15, <1>16 DEF Joined
<1> QED
  BY <1>1, <1>3, <1>13, <1>16, <1>18, <1>19, Zenon DEF FrameAt

(* An argument that is set. *)
On(b) == b = TRUE

(* A frame's command, content and padding, as the writer chose them. *)
FrameIs(uuid, count, i, c, body, m, f) ==
    /\ c \in {PADDING_CONTINUE, PADDING_END} /\ ((c = PADDING_END) <=> (i = count))
    /\ body \in Seq(Byte) /\ Len(body) <= MaxFrameBody /\ m \in 0..MaxFrameBody
    /\ f = (IF i = 1 THEN uuid ELSE <<>>) \o FrameBytes(c, body, m)
    /\ Len(body) + m <= MaxFrameBody
    /\ Len(body) + m >= Least(MaxFrameBody, TestSeed[3]) \/ Len(body) >= TestSeed[1]

(* Every frame the writer makes with long padding is within its borders. *)
LEMMA FrameChosen ==
    ASSUME NEW uuid \in Seq(Byte), NEW payload \in Seq(Byte), NEW long, On(long),
           NEW end, On(end), NEW rnd, NEW n, n = Len(payload), NEW count,
           count = FrameCount(n), NEW i \in 1..count, rnd[i] \in Nat
    PROVE  \E c, body, m : FrameIs(uuid, count, i, c, body, m,
                                   PadFrame(uuid, payload, long, end, rnd, count, i))
<1>1. PICK body, c, k : body = FrameContent(payload, i) /\ c = Cmd(end, i, count) /\ k = Len(body)
  OBVIOUS
<1>2. body \in Seq(Byte) /\ k <= MaxFrameBody
  BY <1>1, FrameContentIs
<1>3. k \in 0..MaxFrameBody
  BY <1>1, <1>2, VlessAssumption
<1>4. PICK m : m = PaddingLen(k, long, rnd[i])
  OBVIOUS
<1>5. m \in 0..MaxFrameBody /\ Framing(uuid, c, body, m, i,
                                       PadFrame(uuid, payload, long, end, rnd, count, i))
  BY <1>1, <1>4, PadFrameHas
<1>6. /\ k + m <= MaxFrameBody
      /\ k + m >= Least(MaxFrameBody, TestSeed[3]) \/ k >= TestSeed[1]
  <2>1. long = TRUE
    BY Zenon DEF On
  <2> QED
    BY <1>3, <1>4, <2>1, PaddingBorders
<1>7. PADDING_END # PADDING_CONTINUE
  BY DEF PADDING_END, PADDING_CONTINUE
<1>8. c \in {PADDING_CONTINUE, PADDING_END} /\ ((c = PADDING_END) <=> (i = count))
  BY <1>1, <1>7, Zenon DEF Cmd, On
<1> QED
  BY <1>1, <1>2, <1>5, <1>6, <1>8, Zenon DEF FrameIs, Framing

(* Such a frame is bytes. *)
LEMMA FrameIsBytes ==
    ASSUME NEW uuid \in Seq(Byte), NEW count, NEW i,
           NEW c, NEW body, NEW m, NEW f,
           FrameIs(uuid, count, i, c, body, m, f)
    PROVE  f \in Seq(Byte) /\ FrameBytes(c, body, m) \in Seq(Byte)
<1>1. PICK p, t : p = (IF i = 1 THEN uuid ELSE <<>>) /\ t = FrameBytes(c, body, m)
  OBVIOUS
<1>2. p \in Seq(Byte)
  BY <1>1
<1>3. /\ c \in {PADDING_CONTINUE, PADDING_END} /\ body \in Seq(Byte) /\ Len(body) <= MaxFrameBody
      /\ m \in 0..MaxFrameBody /\ f = p \o t
  BY <1>1, Zenon DEF FrameIs
<1>4. t \in Seq(Byte)
  <2>3. PICK n : n = Len(body)
    OBVIOUS
  <2>7. FrameBytes(c, body, m) = (FrameHead(c, n, m) \o body) \o Zeros(m)
    BY <2>3, Zenon DEF FrameBytes
  <2>8. FrameHead(c, n, m) \in Seq(Byte)
    <3>1. n \in 0..MaxFrameBody
      BY <1>3, <2>3, VlessAssumption
    <3>2. PICK b2, b3, b4, b5 \in Byte : FrameHead(c, n, m) = <<c, b2, b3, b4, b5>> /\ c \in Byte
      BY <1>3, <3>1, FrameHeadIs
    <3> QED
      BY <3>2
  <2>9. Zeros(m) \in Seq(Byte)
    BY <1>3, VlessAssumption DEF Zeros, Byte
  <2>10. FrameHead(c, n, m) \o body \in Seq(Byte)
    BY <1>3, <2>8, ConcatLen
  <2>11. (FrameHead(c, n, m) \o body) \o Zeros(m) \in Seq(Byte)
    BY <2>9, <2>10, ConcatLen
  <2> QED
    BY <1>1, <2>7, <2>11
<1>5. p \o t \in Seq(Byte)
  BY <1>2, <1>4, ConcatLen
<1> QED
  BY <1>1, <1>3, <1>4, <1>5

(* Where the i-th frame ends, v being the bytes up to its end, and what    *)
(* lies between two such offsets.                                          *)
OffsetAt(i, v) == IF i = 0 THEN UuidLen ELSE Len(v)

LinedAt(w, k, c, body, m, e, i, count) ==
    FrameAt(w, k, c, Len(body), m, e) /\ Bordered(c, Len(body), m, i = count)

(* A record that goes on after a frame has it between two offsets. *)
LEMMA FrameLined ==
    ASSUME NEW uuid \in Seq(Byte), Len(uuid) = UuidLen, NEW count,
           NEW i \in Nat \ {0}, NEW j, j = i - 1, NEW c, NEW body, NEW m, NEW f,
           FrameIs(uuid, count, i, c, body, m, f),
           NEW a \in Seq(Byte), i = 1 => a = <<>>, NEW v, OneMore(a, v, f),
           NEW rest \in Seq(Byte), NEW w, w = v \o rest
    PROVE  LinedAt(w, OffsetAt(j, a), c, body, m, OffsetAt(i, v), i, count)
<1>1. PICK t : t = FrameBytes(c, body, m)
  OBVIOUS
<1>2. f \in Seq(Byte) /\ t \in Seq(Byte)
  BY <1>1, FrameIsBytes
<1>3. /\ c \in {PADDING_CONTINUE, PADDING_END} /\ body \in Seq(Byte) /\ Len(body) <= MaxFrameBody
      /\ m \in 0..MaxFrameBody /\ f = (IF i = 1 THEN uuid ELSE <<>>) \o t
  BY <1>1, Zenon DEF FrameIs
<1>4. PICK x : x = IF i = 1 THEN uuid ELSE a
  OBVIOUS
<1>5. x \in Seq(Byte) /\ Len(x) = OffsetAt(j, a)
  <2>1. CASE i = 1
    <3>1. j = 0 /\ x = uuid
      BY <1>4, <2>1
    <3> QED
      BY <3>1 DEF OffsetAt
  <2>2. CASE i # 1
    <3>1. j # 0 /\ x = a
      BY <1>4, <2>2
    <3> QED
      BY <3>1 DEF OffsetAt
  <2> QED
    BY <2>1, <2>2
<1>6. v = x \o t
  <2>1. v = a \o f
    BY DEF OneMore
  <2>2. CASE i = 1
    <3>1. PICK u : u = uuid \o t
      OBVIOUS
    <3>2. u \in Seq(Byte)
      BY <1>2, <3>1, ConcatLen
    <3>3. <<>> \o u = u
      BY <3>2
    <3>4. f = u /\ x = uuid /\ a = <<>>
      BY <1>3, <1>4, <2>2, <3>1, Zenon
    <3> QED
      BY <2>1, <3>1, <3>3, <3>4, Zenon
  <2>3. CASE i # 1
    <3>1. <<>> \o t = t
      BY <1>2
    <3>2. f = t /\ x = a
      BY <1>3, <1>4, <2>3, <3>1, Zenon
    <3> QED
      BY <2>1, <3>2, Zenon
  <2> QED
    BY <2>2, <2>3
<1>7. v = x \o FrameBytes(c, body, m)
  BY <1>1, <1>6
<1>8. PICK n, k, e : n = Len(body) /\ k = Len(x) /\ e = Len(v)
  OBVIOUS
<1>9. n <= MaxFrameBody
  BY <1>3, <1>8
<1>10. FrameAt(w, k, c, n, m, e)
  BY <1>3, <1>5, <1>7, <1>8, <1>9, FrameLies
<1>11. OffsetAt(i, v) = e
  BY <1>8, Zenon DEF OffsetAt
<1>12. FrameAt(w, OffsetAt(j, a), c, Len(body), m, OffsetAt(i, v))
  BY <1>5, <1>8, <1>10, <1>11, Zenon
<1>13. Bordered(c, Len(body), m, i = count)
  BY Zenon DEF FrameIs, Bordered
<1> QED
  BY <1>12, <1>13, Zenon DEF LinedAt

(* Every frame of a writer's first record is within its borders, and only  *)
(* the last one ends the padding, for any payload and any draws.           *)
LEMMA PadSound ==
    ASSUME NEW uuid \in Seq(Byte), Len(uuid) = UuidLen, NEW payload \in Seq(Byte),
           NEW long, On(long), NEW end, On(end), NEW rnd,
           \A i \in 1..FrameCount(Len(payload)) : rnd[i] \in Nat,
           NEW w, w = Pad(NewWriter(uuid), payload, long, end, rnd).out
    PROVE  w \in Seq(Byte) /\ FramesSound(w)
<1>1. PICK n \in Nat : n = Len(payload)
  OBVIOUS
<1>2. PICK count : count = FrameCount(n)
  OBVIOUS
<1>3. count \in Nat \ {0}
  BY <1>1, <1>2, CountPositive
<1>4. PICK g : /\ Outs(count, g, uuid, payload, long, end, rnd, count)
               /\ w = g[count]
  <2>1. count = FrameCount(Len(payload)) /\ count \in Nat
    BY <1>1, <1>2, <1>3
  <2>2. PICK g : /\ Outs(count, g, uuid, payload, long, end, rnd, count)
                 /\ Pad(NewWriter(uuid), payload, long, end, rnd).out = g[count]
    BY <2>1, PadIsOut
  <2> QED
    BY <2>2, Zenon
<1> DEFINE F(i) == PadFrame(uuid, payload, long, end, rnd, count, i)
<1>5. \A i \in 1..count : g[0] = <<>> /\ OneMore(g[i - 1], g[i], F(i))
  BY <1>3, <1>4, OutStep
<1>6. \A i \in 1..count : \E c, body, m :
          FrameIs(uuid, count, i, c, body, m, F(i))
  <2>1. \A i \in 1..count : rnd[i] \in Nat
    BY <1>1, <1>2
  <2> QED
    BY <1>1, <1>2, <2>1, FrameChosen
<1> HIDE DEF F
<1>7. \A i \in 1..count : F(i) \in Seq(Byte)
  BY <1>6, FrameIsBytes
<1>8. \A i \in 0..count : g[i] \in Seq(Byte)
  <2> DEFINE T == {i \in Nat : i <= count => g[i] \in Seq(Byte)}
  <2>1. 0 \in T
    <3>1. 1 \in 1..count
      BY <1>3
    <3>2. g[0] = <<>>
      BY <1>5, <3>1
    <3>3. g[0] \in Seq(Byte)
      BY <3>2
    <3> QED
      BY <3>3
  <2>2. ASSUME NEW i \in Nat, i \in T PROVE i + 1 \in T
    <3> SUFFICES ASSUME i + 1 <= count PROVE g[i + 1] \in Seq(Byte)
      OBVIOUS
    <3>1. PICK k : k = i + 1
      OBVIOUS
    <3>2. k \in 1..count /\ k - 1 = i /\ g[i] \in Seq(Byte)
      BY <1>3, <2>2, <3>1
    <3>3. OneMore(g[k - 1], g[k], F(k)) /\ F(k) \in Seq(Byte)
      BY <1>5, <1>7, <3>2
    <3>4. g[k] = g[i] \o F(k)
      BY <3>2, <3>3 DEF OneMore
    <3>5. g[i] \o F(k) \in Seq(Byte)
      BY <3>2, <3>3, ConcatLen
    <3> QED
      BY <3>1, <3>4, <3>5
  <2>3. Nat \subseteq T
    <3> HIDE DEF T
    <3> QED
      BY <2>1, <2>2, SetInduction
  <2> QED
    BY <1>3, <2>3
<1>9. \A i \in 0..count : \E r \in Seq(Byte) : OneMore(g[i], w, r)
  <2> DEFINE P(j) == j <= count => \E r \in Seq(Byte) : OneMore(g[count - j], w, r)
             T == {j \in Nat : P(j)}
  <2>1. 0 \in T
    <3>1. count - 0 = count /\ <<>> \in Seq(Byte) /\ w \in Seq(Byte)
      BY <1>3, <1>4, <1>8
    <3>2. w \o <<>> = w
      BY <3>1
    <3>3. OneMore(g[count - 0], w, <<>>)
      BY <1>4, <3>1, <3>2 DEF OneMore
    <3> QED
      BY <3>1, <3>3
  <2>2. ASSUME NEW j \in Nat, j \in T PROVE j + 1 \in T
    <3> SUFFICES P(j + 1)
      <4> HIDE DEF P
      <4> QED
        OBVIOUS
    <3> SUFFICES ASSUME j + 1 <= count PROVE \E r \in Seq(Byte) : OneMore(g[count - (j + 1)], w, r)
      OBVIOUS
    <3>0. P(j) /\ j <= count
      <4> HIDE DEF P
      <4> QED
        BY <1>3, <2>2
    <3>1. PICK k, i : k = count - j /\ i = count - (j + 1)
      OBVIOUS
    <3>2. k \in 1..count /\ k - 1 = i /\ i \in 0..count
      BY <1>3, <3>1
    <3>3. PICK r \in Seq(Byte) : OneMore(g[k], w, r)
      BY <3>0, <3>1, Zenon
    <3>4. OneMore(g[i], g[k], F(k)) /\ F(k) \in Seq(Byte) /\ g[i] \in Seq(Byte)
      BY <1>5, <1>7, <1>8, <3>2
    <3>5. Assoc(g[i], F(k), r)
      BY <3>4, ConcatAssoc
    <3>6. OneMore(g[i], w, F(k) \o r)
      BY <3>3, <3>4, <3>5, Zenon DEF OneMore, Assoc
    <3>7. F(k) \o r \in Seq(Byte)
      BY <3>4, ConcatLen
    <3> QED
      BY <3>1, <3>6, <3>7, Zenon
  <2>3. Nat \subseteq T
    <3> HIDE DEF T
    <3> QED
      BY <2>1, <2>2, SetInduction
  <2>4. ASSUME NEW i \in 0..count PROVE \E r \in Seq(Byte) : OneMore(g[i], w, r)
    <3>1. PICK j : j = count - i
      OBVIOUS
    <3>2. j \in Nat /\ j <= count /\ count - j = i
      BY <1>3, <3>1
    <3>3. j \in T
      BY <2>3, <3>2
    <3> QED
      BY <3>2, <3>3
  <2> QED
    BY <2>4
<1>10. PICK off : off = [i \in 0..count |-> OffsetAt(i, g[i])]
  OBVIOUS
<1>11. \A i \in 0..count : off[i] = OffsetAt(i, g[i])
  BY <1>10, Zenon
<1>12. off[0] = UuidLen /\ off[count] = Len(w)
  <2>1. 0 \in 0..count /\ count \in 0..count /\ count # 0
    BY <1>3
  <2> QED
    BY <1>4, <1>11, <2>1, Zenon DEF OffsetAt
<1>13. ASSUME NEW i \in 1..count
       PROVE  \E c, k, m : /\ FrameAt(w, off[i - 1], c, k, m, off[i])
                           /\ Bordered(c, k, m, i = count)
  <2>1. PICK j : j = i - 1
    OBVIOUS
  <2>2. j \in 0..count /\ i \in 0..count /\ i \in Nat \ {0} /\ (i = 1 => j = 0)
    BY <1>3, <2>1
  <2>3. PICK c, body, m : FrameIs(uuid, count, i, c, body, m, F(i))
    BY <1>6
  <2>4. PICK r \in Seq(Byte) : OneMore(g[i], w, r)
    BY <1>9, <2>2
  <2>5. w = g[i] \o r
    BY <2>4, Zenon DEF OneMore
  <2>6. g[j] \in Seq(Byte) /\ OneMore(g[j], g[i], F(i)) /\ (i = 1 => g[j] = <<>>)
    BY <1>5, <1>8, <2>1, <2>2
  <2>7. /\ FrameAt(w, OffsetAt(j, g[j]), c, Len(body), m, OffsetAt(i, g[i]))
        /\ Bordered(c, Len(body), m, i = count)
    <3>1. PICK a, v, f : a = g[j] /\ v = g[i] /\ f = F(i)
      OBVIOUS
    <3>2. a \in Seq(Byte) /\ OneMore(a, v, f) /\ (i = 1 => a = <<>>) /\ w = v \o r
      BY <2>5, <2>6, <3>1, Zenon
    <3>3. FrameIs(uuid, count, i, c, body, m, f)
      BY <2>3, <3>1, Zenon
    <3>4. LinedAt(w, OffsetAt(j, a), c, body, m, OffsetAt(i, v), i, count)
      BY <2>1, <2>2, <3>2, <3>3, FrameLined
    <3> QED
      BY <3>1, <3>4, Zenon DEF LinedAt
  <2>8. off[i - 1] = OffsetAt(j, g[j]) /\ off[i] = OffsetAt(i, g[i])
    BY <1>11, <2>1, <2>2, Zenon
  <2> QED
    BY <2>7, <2>8, Zenon
<1>14. Lined(w, count, off)
  BY <1>12, <1>13, Zenon DEF Lined
<1>15. w \in Seq(Byte)
  BY <1>3, <1>4, <1>8
<1> QED
  BY <1>3, <1>14, <1>15, LinedSound

(* The client's first wrap, header and packet, is such a record. *)
LEMMA WrapSound ==
    ASSUME NEW q, WellFormed(q), NEW p \in Seq(Byte), NEW n,
           n = Len(BuildRequestHeader(q)) + Len(p),
           NEW rnd \in DrawsFor(NewWriter(q.uuid), n), NEW w, w = Wrap(NewOut(q), p, rnd)
    PROVE  FramesSound(w.out)
<1>1. PICK h : h = BuildRequestHeader(q)
  OBVIOUS
<1>2. h \in Seq(Byte) /\ h # <<>>
  BY <1>1, HeaderReadsAs
<1>3. PICK c : c = h \o p
  OBVIOUS
<1>4. c \in Seq(Byte) /\ Len(c) = n
  BY <1>1, <1>2, <1>3, ConcatLen
<1>5. \A i \in 1..FrameCount(Len(c)) : rnd[i] \in Nat
  <2>1. \A i \in 1..FrameCount(n) : rnd[i] \in Nat
    BY DrawsFresh
  <2> QED
    BY <1>4, <2>1, Zenon
<1>6. PICK end : On(end) /\ Filled(h, end)
  BY <1>2, Zenon DEF Filled, On
<1>61. Filled(h, end)
  BY <1>6, Zenon
<1>62. Headers(h, p, c)
  BY <1>3, Zenon DEF Headers
<1>7. PICK x : x = Pad(NewWriter(q.uuid), c, end, end, rnd)
  OBVIOUS
<1>8. NewOut(q) = [header |-> h, writer |-> NewWriter(q.uuid)]
  BY <1>1, Zenon DEF NewOut
<1>9. w.out = x.out /\ w.vo = [header |-> <<>>, writer |-> x.writer]
  BY <1>61, <1>62, <1>7, <1>8, WrapIs
<1>10. q.uuid \in Seq(Byte) /\ Len(q.uuid) = UuidLen
  BY DEF WellFormed
<1>11. PICK v : v = x.out
  OBVIOUS
<1>12. v = Pad(NewWriter(q.uuid), c, end, end, rnd).out
  BY <1>7, <1>11
<1>13. FramesSound(v)
  BY <1>4, <1>5, <1>6, <1>10, <1>12, PadSound
<1> QED
  BY <1>9, <1>11, <1>13

-----------------------------------------------------------------------------
(* What the client writes first is sound, and stays at the head of the     *)
(* wire until the server takes it.                                         *)
LEMMA OutboundFrames ==
    ASSUME EchoInv, FramesBounded, NEW p \in Packets, Outbound(p)
    PROVE  FramesBounded'
<1>1. peer = "echo" /\ ~probed /\ up.end = "open"
  BY DEF Outbound
<1>2. PICK rnd, w :
          /\ rnd \in DrawsFor(vless_out.writer, Len(vless_out.header) + Len(p))
          /\ w = Wrap(vless_out, p, rnd)
          /\ up' = WriteFrame(up, w.out) \/ up' \in WriteBreaks(up)
  BY Zenon DEF Outbound
<1>3. arrived' = arrived /\ probed' = probed
  BY DEF Outbound
<1>4. OutInv /\ UpInv /\ req \in Requests
  BY <1>1 DEF EchoInv, EchoParts
<1>5. /\ IsWire(up) /\ Wire("up", req, sent, Len(arrived), up.frames) /\ sent \in Seq(Packets)
  BY <1>4, Zenon DEF UpInv, IsWire
<1>6. up.frames \in Seq(Seq(Byte))
  BY <1>5 DEF Wire
<1> SUFFICES ASSUME arrived' = <<>>, ~probed', up'.frames # <<>>
             PROVE  FramesSound(Head(up'.frames))
  BY Zenon DEF FramesBounded, FramesSound
<1>7. CASE up' \in WriteBreaks(up)
  <2>1. PICK e : up' = [up EXCEPT !.end = e]
    BY <1>7, Zenon DEF WriteBreaks
  <2>2. up'.frames = up.frames
    BY <1>5, <2>1, WireEnds DEF WireOf
  <2> QED
    BY <1>3, <2>2, Zenon DEF FramesBounded, FramesSound
<1>8. CASE up' = WriteFrame(up, w.out)
  <2>1. WireOf(up', Append(up.frames, w.out), up.end)
    BY <1>5, <1>8, WireWrite
  <2>2. up'.frames = Append(up.frames, w.out)
    BY <2>1, Zenon DEF WireOf
  <2>3. PICK s, f : s = up.frames /\ f = w.out
    OBVIOUS
  <2>4. CASE up.frames # <<>>
    <3>1. Head(Append(s, f)) = Head(s)
      <4>1. s \in Seq(Seq(Byte)) /\ s # <<>>
        BY <1>6, <2>3, <2>4
      <4>2. Len(s) > 0
        BY <4>1
      <4>3. Append(s, f)[1] = s[1]
        BY <4>1, <4>2
      <4>4. Head(s) = s[1] /\ Head(Append(s, f)) = Append(s, f)[1]
        BY <4>1
      <4> QED
        BY <4>3, <4>4
    <3> QED
      BY <1>3, <2>2, <2>3, <2>4, <3>1, Zenon DEF FramesBounded, FramesSound
  <2>5. CASE up.frames = <<>>
    <3>1. sent = <<>>
      <4>1. Len(arrived) = 0 /\ Len(up.frames) = 0
        BY <1>3, <2>5
      <4>2. Len(sent) = 0
        BY <1>5, <4>1 DEF Wire
      <4> QED
        BY <1>5, <4>2
    <3>2. vless_out = NewOut(req)
      BY <1>1, <1>4, <3>1, Zenon DEF OutInv
    <3>3. PICK h, v : h = BuildRequestHeader(req) /\ v = NewWriter(req.uuid)
      OBVIOUS
    <3>4. vless_out.header = h /\ vless_out.writer = v
      <4>1. vless_out = [header |-> h, writer |-> v]
        BY <3>2, <3>3, Zenon DEF NewOut
      <4> QED
        BY <4>1
    <3>5. PICK n : n = Len(BuildRequestHeader(req)) + Len(p)
      OBVIOUS
    <3>6. rnd \in DrawsFor(NewWriter(req.uuid), n) /\ w = Wrap(NewOut(req), p, rnd)
      BY <1>2, <3>2, <3>3, <3>4, <3>5, Zenon
    <3>7. WellFormed(req) /\ p \in Seq(Byte)
      BY <1>4, RequestFits, PacketFits
    <3>8. FramesSound(f)
      BY <2>3, <3>5, <3>6, <3>7, WrapSound
    <3>9. Head(Append(<<>>, f)) = f
      OBVIOUS
    <3> QED
      BY <2>2, <2>3, <2>5, <3>8, <3>9, Zenon
  <2> QED
    BY <2>4, <2>5
<1> QED
  BY <1>2, <1>7, <1>8, Zenon

(* Once the server has taken the first record there is nothing to claim. *)
LEMMA RecordFrames ==
    ASSUME EchoInv, EchoInv', ServerRecord
    PROVE  arrived' # <<>> \/ probed'
<1>1. peer = "echo" /\ up' = TakeFrame(up) /\ ReadFrame(up) = "frame"
  BY DEF ServerRecord
<1>2. UNCHANGED <<req, peer, probed, sent>>
  BY DEF ServerRecord
<1> SUFFICES ASSUME ~probed, arrived' = <<>> PROVE FALSE
  BY <1>2, Zenon
<1>3. UpInv /\ UpInv'
  BY <1>1, <1>2, Zenon DEF EchoInv, EchoParts
<1>4. /\ sent \in Seq(Packets) /\ Begins(arrived, sent) /\ IsWire(up)
      /\ Wire("up", req, sent, Len(arrived), up.frames)
  BY <1>3, Zenon DEF UpInv, IsWire
<1>5. Wire("up", req, sent, Len(arrived'), up'.frames)
  BY <1>2, <1>3, Zenon DEF UpInv
<1>6. up'.frames = Tail(up.frames) /\ up.frames # <<>>
  <2>1. WireOf(up', Tail(up.frames), up.end)
    BY <1>1, <1>4, WireTake
  <2> QED
    BY <1>1, <2>1, ReadFrameIs DEF WireOf
<1>7. /\ up.frames \in Seq(Seq(Byte)) /\ Len(arrived) \in Nat
      /\ Len(arrived) + Len(up.frames) = Len(sent)
      /\ Len(arrived') + Len(Tail(up.frames)) = Len(sent)
  BY <1>4, <1>5, <1>6 DEF Wire
<1>8. PICK a, b, c, d : /\ a = Len(up.frames) /\ b = Len(Tail(up.frames))
                        /\ c = Len(arrived) /\ d = Len(sent)
  OBVIOUS
<1>9. a \in Nat /\ b = a - 1
  BY <1>6, <1>7, <1>8
<1>10. Len(arrived') = 0
  OBVIOUS
<1> QED
  BY <1>7, <1>8, <1>9, <1>10

(* FramesBounded, for any payload, draws and sizes: no frame of the first  *)
(* record outgrows the buffer, each is long enough to hide the header, and *)
(* only the last ends the padding.                                         *)
THEOREM FramesCorrect == Spec => []FramesBounded
<1>1. Init => FramesBounded
  <2> SUFFICES ASSUME Init PROVE FramesBounded
    OBVIOUS
  <2>1. up.frames = <<>>
    BY DEF Init, NewWire
  <2> QED
    BY <2>1, Zenon DEF FramesBounded
<1>2. FramesBounded /\ TypeInv /\ EchoInv /\ EchoInv' /\ [Next]_vars => FramesBounded'
  <2> SUFFICES ASSUME FramesBounded, TypeInv, EchoInv, EchoInv', [Next]_vars PROVE FramesBounded'
    OBVIOUS
  <2>1. ASSUME NEW p \in Packets, Outbound(p) PROVE FramesBounded'
    BY <2>1, OutboundFrames
  <2>2. CASE Probe
    <3>1. probed'
      BY <2>2 DEF Probe
    <3> QED
      BY <3>1, Zenon DEF FramesBounded
  <2>3. CASE Inbound \/ ServerEnds \/ ServerTimesOut \/ External
    <3>1. up' = up /\ arrived' = arrived /\ probed' = probed
      BY <2>3 DEF Inbound, ServerEnds, ServerTimesOut, External, StreamCut, StreamMalformed,
                  StreamBreaks, StreamWrite
    <3> QED
      BY <3>1, Zenon DEF FramesBounded
  <2>4. CASE ServerRecord
    <3>1. arrived' # <<>> \/ probed'
      BY <2>4, RecordFrames
    <3> QED
      BY <3>1, Zenon DEF FramesBounded
  <2>5. CASE UNCHANGED vars
    <3>1. up' = up /\ arrived' = arrived /\ probed' = probed
      BY <2>5 DEF vars
    <3> QED
      BY <3>1, Zenon DEF FramesBounded
  <2>6. CASE TunGone
    <3>1. (up' = up \/ up' = [up EXCEPT !.end = "eof"]) /\ UNCHANGED <<arrived, probed>>
      BY <2>6 DEF TunGone
    <3>2. IsWire(up)
      BY Zenon DEF TypeInv, WireOK
    <3>3. up'.frames = up.frames
      BY <3>1, <3>2, WireEnds DEF WireOf
    <3> QED
      BY <3>1, <3>3, Zenon DEF FramesBounded
  <2> QED
    BY <2>1, <2>2, <2>3, <2>4, <2>5, <2>6, Zenon DEF Next, External
<1> QED
  BY <1>1, <1>2, EchoAlways, TypeAlways, PTL DEF Spec
=============================================================================
