------------------------------- MODULE Vless -------------------------------
(***************************************************************************)
(* The VLESS inner protocol (native/src/vless.rs) as functions on byte     *)
(* sequences: request and response headers, varints, and the two ends of   *)
(* the XTLS Vision padding stream.  The sizes are parameters: a byte has   *)
(* ByteMod values (256), the identity UuidLen bytes (16), a frame body at  *)
(* most MaxFrameBody bytes (2027), and TestSeed is <<900, 500, 900, 256>>. *)
(* Results are [ok |-> TRUE, ...] or Err(reason).                          *)
(***************************************************************************)
EXTENDS Integers, Sequences

CONSTANTS ByteMod, UuidLen, MaxFrameBody, TestSeed

ASSUME VlessAssumption ==
    /\ ByteMod \in Nat /\ ByteMod >= 16   \* the tags 0x0a and 0x0f are bytes
    /\ UuidLen \in Nat \ {0} /\ MaxFrameBody \in 1..(ByteMod * ByteMod - 1)
    /\ TestSeed \in [1..4 -> Nat \ {0}] /\ TestSeed[1] <= TestSeed[3]

None    == <<>>      \* Rust's Option
Some(x) == <<x>>
Err(e)  == [ok |-> FALSE, err |-> e]
Least(a, b) == IF a <= b THEN a ELSE b
Slice(s, from, upto) == SubSeq(s, from + 1, upto)   \* Rust's &s[from..upto]

VERSION == 0
CMD_MUX == 15
FlowTag == 10
ATYP_IPV4 == 1
ATYP_DOMAIN == 2
ATYP_IPV6 == 3
PADDING_CONTINUE == 0
PADDING_END == 1
PADDING_DIRECT == 2

Byte == 0..(ByteMod - 1)

Be16(n)     == <<(n \div ByteMod) % ByteMod, n % ByteMod>>
Un16(hi, lo) == hi * ByteMod + lo

-----------------------------------------------------------------------------
(* Varints: seven bits of a byte's eight carry the value. *)
VarBase == ByteMod \div 2

EncodeVarint(v) ==
    LET enc[n \in 0..v] ==
            IF n < VarBase THEN <<n>>
            ELSE <<(n % VarBase) + VarBase>> \o enc[n \div VarBase]
    IN  enc[v]

DecodeVarint(w) ==
    LET acc[i \in 0..Len(w)] ==   \* the value so far and the weight of the next byte
            IF i = 0 THEN [value |-> 0, shift |-> 1]
            ELSE [value |-> acc[i - 1].value + (w[i] % VarBase) * acc[i - 1].shift,
                  shift |-> acc[i - 1].shift * VarBase]
        ends == {i \in 1..Least(10, Len(w)) :
                    w[i] < VarBase /\ \A k \in 1..(i - 1) : w[k] >= VarBase}
    IN  IF ends = {} THEN Err("Layout")
        ELSE LET n == CHOOSE i \in ends : TRUE
             IN  [ok |-> TRUE, value |-> acc[n].value, consumed |-> n]

-----------------------------------------------------------------------------
(* The request header.  A flow is a byte string, empty for none.  An       *)
(* address is its type and its bytes; the one of CMD_MUX is not sent.      *)
Address == [atyp : {ATYP_IPV4, ATYP_DOMAIN, ATYP_IPV6}, bytes : Seq(Byte)]

(* A request whose fields fit the bytes they are written in: of a name of  *)
(* ByteMod bytes or more only the length byte would be cut.                *)
FitsAddress(a) ==
    /\ a \in Address
    /\ a.atyp = ATYP_IPV4 => Len(a.bytes) = 4
    /\ a.atyp = ATYP_IPV6 => Len(a.bytes) = 16
    /\ a.atyp = ATYP_DOMAIN => Len(a.bytes) < ByteMod

WellFormed(q) ==
    /\ q \in [uuid : Seq(Byte), flow : Seq(Byte), command : Byte, address : Address,
              port : 0..(ByteMod * ByteMod - 1)]
    /\ Len(q.uuid) = UuidLen /\ Len(q.flow) < ByteMod /\ FitsAddress(q.address)

MuxAddress == [atyp |-> ATYP_DOMAIN, bytes |-> <<"v1.mux.cool">>]

AddressBytes(a) ==
    <<a.atyp>> \o (IF a.atyp = ATYP_DOMAIN THEN <<Len(a.bytes) % ByteMod>> ELSE <<>>)
               \o a.bytes

Addons(flow) ==
    IF flow = <<>> THEN <<FlowTag, 1, 0>>
    ELSE LET sub == <<1, Len(flow) % ByteMod>> \o flow
         IN  <<FlowTag>> \o EncodeVarint(Len(sub)) \o sub

(* Mutation: the port is written with its low byte first. *)
BuildRequestHeaderSwapped(q) ==
    <<VERSION>> \o q.uuid \o Addons(q.flow) \o <<q.command>>
        \o (IF q.command = CMD_MUX THEN <<>>
             ELSE <<Be16(q.port)[2], Be16(q.port)[1]>> \o AddressBytes(q.address))

BuildRequestHeader(q) ==
    <<VERSION>> \o q.uuid \o Addons(q.flow) \o <<q.command>>
        \o (IF q.command = CMD_MUX THEN <<>> ELSE Be16(q.port) \o AddressBytes(q.address))

AddressLen(w) ==   \* bytes the address at the start of w takes, its type included
    CASE w # <<>> /\ w[1] = ATYP_IPV4 -> 5
      [] w # <<>> /\ w[1] = ATYP_IPV6 -> 17
      [] Len(w) >= 2 /\ w[1] = ATYP_DOMAIN -> 2 + w[2]
      [] OTHER -> 0

ParseAddress(w) ==
    LET n == AddressLen(w) IN
    IF n = 0 \/ Len(w) < n THEN Err("Layout")
    ELSE [ok |-> TRUE,
          address |-> [atyp |-> w[1], bytes |-> Slice(w, IF w[1] = ATYP_DOMAIN THEN 2 ELSE 1, n)]]

(* Where the addons end: the header is self-delimiting up to the command. *)
AddonsAt(w) ==
    IF w[2 + UuidLen] # FlowTag THEN Err("Layout")
    ELSE LET v == DecodeVarint(Slice(w, 2 + UuidLen, Len(w))) IN
         IF ~v.ok THEN v
         ELSE IF 2 + UuidLen + v.consumed + v.value >= Len(w) THEN Err("Layout")
         ELSE [ok |-> TRUE, from |-> 2 + UuidLen + v.consumed,
               end |-> 2 + UuidLen + v.consumed + v.value]

ParseFlow(addons) ==
    IF addons = <<>> \/ addons[1] # 1 THEN [ok |-> TRUE, flow |-> <<>>]
    ELSE IF Len(addons) < 2 \/ Len(addons) < 2 + addons[2] THEN Err("Layout")
    ELSE [ok |-> TRUE, flow |-> Slice(addons, 2, 2 + addons[2])]

ParseRequestHeader(w) ==
    IF Len(w) < UuidLen + 5 THEN Err("Layout")
    ELSE IF w[1] # VERSION THEN Err("BadResponse")
    ELSE LET ad == AddonsAt(w) IN
    IF ~ad.ok THEN ad
    ELSE LET fl  == ParseFlow(Slice(w, ad.from, ad.end))
             cmd == w[ad.end + 1]
             Parsed(a, p) == [ok |-> TRUE,
                              req |-> [uuid |-> Slice(w, 1, 1 + UuidLen), flow |-> fl.flow,
                                       command |-> cmd, address |-> a, port |-> p]]
    IN  IF ~fl.ok THEN fl
        ELSE IF cmd = CMD_MUX THEN Parsed(MuxAddress, 0)
        ELSE IF ad.end + 3 > Len(w) THEN Err("Layout")
        ELSE LET a == ParseAddress(Slice(w, ad.end + 3, Len(w))) IN
             IF ~a.ok THEN a ELSE Parsed(a.address, Un16(w[ad.end + 2], w[ad.end + 3]))

(* Mutation: the port's two bytes are forgotten. *)
RequestHeaderLenNoPort(w) ==
    LET ad == AddonsAt(w) IN [ok |-> TRUE, len |-> ad.end + 1 + AddressLen(Slice(w, ad.end + 1, Len(w)))]

RequestHeaderLen(w) ==
    IF Len(w) < UuidLen + 2 THEN Err("Layout")
    ELSE LET ad == AddonsAt(w) IN
    IF ~ad.ok THEN ad
    ELSE IF w[ad.end + 1] = CMD_MUX THEN [ok |-> TRUE, len |-> ad.end + 1]
    ELSE LET n == AddressLen(Slice(w, ad.end + 3, Len(w))) IN
         IF n = 0 THEN Err("Layout") ELSE [ok |-> TRUE, len |-> ad.end + 3 + n]

BuildResponseHeader == <<VERSION, FlowTag, 1, 0>>

ParseResponseHeader(w) ==
    IF Len(w) < 4 \/ w[1] # VERSION THEN Err("BadResponse") ELSE [ok |-> TRUE]

-----------------------------------------------------------------------------
(* VisionWriter: the identity is written once, and after an END every      *)
(* payload goes out raw.  rnd is the RNG: one draw per frame.              *)
NewWriter(uuid) == [uuid |-> uuid, is_padding |-> TRUE]

FrameCount(n) == IF n = 0 THEN 1 ELSE (n + MaxFrameBody - 1) \div MaxFrameBody
FrameContent(p, i) == Slice(p, (i - 1) * MaxFrameBody, Least(i * MaxFrameBody, Len(p)))

(* Mutation: the padding is not capped to what the frame has left. *)
PaddingLenUncapped(n, long, r) ==
    IF n < TestSeed[1] /\ long THEN (r % TestSeed[2]) + TestSeed[3] - n ELSE r % TestSeed[4]

PaddingLen(n, long, r) ==
    Least(MaxFrameBody - n,
          IF n < TestSeed[1] /\ long THEN (r % TestSeed[2]) + TestSeed[3] - n
          ELSE r % TestSeed[4])

XtlsPadding(content, command, prefix, long, r) ==
    LET n == PaddingLen(Len(content), long, r)
    IN  prefix \o <<command>> \o Be16(Len(content)) \o Be16(n) \o content
               \o [i \in 1..n |-> 0]

Pad(wr, payload, long, force_end, rnd) ==
    LET count == FrameCount(Len(payload))
        Frame(i) == XtlsPadding(FrameContent(payload, i),
                                IF i = count /\ force_end THEN PADDING_END
                                ELSE PADDING_CONTINUE,
                                IF i = 1 THEN wr.uuid ELSE <<>>, long, rnd[i])
        out[i \in 0..count] == IF i = 0 THEN <<>> ELSE out[i - 1] \o Frame(i)
    IN  IF wr.is_padding
        THEN [out |-> out[count], writer |-> [uuid |-> <<>>, is_padding |-> ~force_end]]
        ELSE [out |-> payload, writer |-> wr]

-----------------------------------------------------------------------------
(* VisionReader.  header collects the five bytes of a frame header and     *)
(* padding keeps what it declared; remaining counts content or padding.    *)
NewReader(uuid) ==
    [state |-> "Initial", remaining |-> 0, command |-> 0, padding |-> 0,
     header |-> <<>>, uuid |-> uuid, within |-> FALSE, first |-> TRUE]

FrameDone(rd) ==
    CASE rd.command = PADDING_CONTINUE ->
            [ok |-> TRUE, rd |-> [rd EXCEPT !.state = "Header", !.remaining = 0]]
      [] rd.command \in {PADDING_END, PADDING_DIRECT} ->
            [ok |-> TRUE, rd |-> [rd EXCEPT !.state = "Direct", !.remaining = 0,
                                            !.within = FALSE]]
      [] OTHER -> Err("BadFrame")

Skip(rd, n) ==   \* the content, if any, is out: n bytes of padding follow
    IF n = 0 THEN FrameDone(rd)
    ELSE [ok |-> TRUE, rd |-> [rd EXCEPT !.state = "Padding", !.remaining = n]]

(* Mutation: the header buffer is not cleared. *)
HeaderByteKeeps(rd, b) ==
    LET h == Append(rd.header, b)
        full == [rd EXCEPT !.header = h, !.command = h[1], !.padding = Un16(h[4], h[5])]
    IN  IF Len(h) < 5 THEN [ok |-> TRUE, rd |-> [rd EXCEPT !.header = h]]
        ELSE [ok |-> TRUE, rd |-> [full EXCEPT !.state = "Content", !.remaining = Un16(h[2], h[3])]]

HeaderByte(rd, b) ==
    LET h == Append(rd.header, b)
        content == Un16(h[2], h[3])
        padding == Un16(h[4], h[5])
        full == [rd EXCEPT !.header = <<>>, !.command = h[1], !.padding = padding]
    IN  IF Len(h) < 5 THEN [ok |-> TRUE, rd |-> [rd EXCEPT !.header = h]]
        ELSE IF content > MaxFrameBody \/ padding > MaxFrameBody THEN Err("BadFrame")
        ELSE IF content = 0 THEN Skip(full, padding)
        ELSE [ok |-> TRUE, rd |-> [full EXCEPT !.state = "Content", !.remaining = content]]

(* Mutation: the last byte of padding is taken for a frame header. *)
UnpadByteShort(rd, b) ==
    CASE rd.state = "Header" -> HeaderByte(rd, b)
      [] rd.state = "Content" /\ rd.remaining = 1 -> Skip(rd, rd.padding)
      [] rd.state = "Padding" /\ rd.remaining <= 2 -> FrameDone(rd)
      [] rd.state = "Direct" -> [ok |-> TRUE, rd |-> rd]
      [] OTHER -> [ok |-> TRUE, rd |-> [rd EXCEPT !.remaining = @ - 1]]

UnpadByte(rd, b) ==
    CASE rd.state = "Header" -> HeaderByte(rd, b)
      [] rd.state = "Content" /\ rd.remaining = 1 -> Skip(rd, rd.padding)
      [] rd.state = "Padding" /\ rd.remaining = 1 -> FrameDone(rd)
      [] rd.state = "Direct" -> [ok |-> TRUE, rd |-> rd]
      [] OTHER -> [ok |-> TRUE, rd |-> [rd EXCEPT !.remaining = @ - 1]]

UnpadBytes(rd, w) ==
    LET at[i \in 0..Len(w)] ==
            IF i = 0 THEN [ok |-> TRUE, rd |-> rd, out |-> <<>>]
            ELSE LET prev == at[i - 1] IN
                 IF ~prev.ok THEN prev
                 ELSE LET next == UnpadByte(prev.rd, w[i]) IN
                      IF ~next.ok THEN next
                      ELSE [ok |-> TRUE, rd |-> next.rd,
                            out |-> IF prev.rd.state \in {"Content", "Direct"}
                                    THEN Append(prev.out, w[i]) ELSE prev.out]
    IN  at[Len(w)]

(* The first buffer decides: the identity locks the reader on, a buffer    *)
(* too short for a frame passes through, any other is refused.             *)
Unpad(rd, w) ==
    LET seen == [rd EXCEPT !.first = FALSE]
        big  == Len(w) >= UuidLen + 5
    IN  IF rd.state # "Initial" THEN UnpadBytes(rd, w)
        ELSE IF big /\ Slice(w, 0, UuidLen) = rd.uuid
        THEN UnpadBytes([seen EXCEPT !.state = "Header", !.within = TRUE],
                        Slice(w, UuidLen, Len(w)))
        ELSE IF rd.first /\ big THEN Err("UuidMismatch")
        ELSE [ok |-> TRUE, rd |-> seen, out |-> w]

-----------------------------------------------------------------------------
(* VlessOut and VlessIn: the client's two ends.  The request header rides  *)
(* the first payload; the response header is cut off the first content.    *)
NewOut(q) == [header |-> BuildRequestHeader(q), writer |-> NewWriter(q.uuid)]
NewIn(uuid) == [response_seen |-> FALSE, reader |-> NewReader(uuid)]

(* Mutation: the header stays in its slot. *)
WrapKeepsHeader(vo, payload, rnd) ==
    LET p == Pad(vo.writer, vo.header \o payload, vo.header # <<>>, vo.header # <<>>, rnd)
    IN  [out |-> p.out, vo |-> [vo EXCEPT !.writer = p.writer]]

Wrap(vo, payload, rnd) ==
    LET p == Pad(vo.writer, vo.header \o payload, vo.header # <<>>, vo.header # <<>>, rnd)
    IN  [out |-> p.out, vo |-> [header |-> <<>>, writer |-> p.writer]]

(* Mutation: every plaintext is taken for a response. *)
UnwrapStripsAll(vi, plain) ==
    LET u == Unpad(vi.reader, plain) IN
    IF ~u.ok THEN u
    ELSE [ok |-> TRUE, vi |-> [vi EXCEPT !.reader = u.rd], out |-> Slice(u.out, 4, Len(u.out))]

Unwrap(vi, plain) ==
    LET u == Unpad(vi.reader, plain) IN
    IF ~u.ok THEN u
    ELSE LET seen == [response_seen |-> TRUE, reader |-> u.rd] IN
    IF vi.response_seen THEN [ok |-> TRUE, vi |-> seen, out |-> u.out]
    ELSE IF ~ParseResponseHeader(u.out).ok THEN ParseResponseHeader(u.out)
    ELSE [ok |-> TRUE, vi |-> seen, out |-> Slice(u.out, 4, Len(u.out))]
=============================================================================
