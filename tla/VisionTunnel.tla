---------------------------- MODULE VisionTunnel ----------------------------
(***************************************************************************)
(* One VLESS tunnel from TUN to TUN: the client's wrap and unwrap (pump.rs *)
(* over vless.rs), the frames of native/src/transport.rs in both           *)
(* directions, and at the far end either the VLESS mode of                 *)
(* native/src/test_server.rs ("echo") or an external peer: one that pads   *)
(* a Vision stream of its own and cuts it into records where it likes      *)
(* ("stream"), or one that never pads ("plain").                           *)
(*                                                                         *)
(* Sealing is left to TunnelPump: a record is its plaintext, and opens as  *)
(* long as the client is in step.  A connection may break inside a frame.  *)
(***************************************************************************)
EXTENDS Vless

CONSTANTS Requests,     \* requests a profile can give rise to
          Packets,      \* packets read from the TUN, and payloads of the peer
          Draws,        \* values the RNG draws
          MaxPackets,   \* bound: packets each side sends
          MaxRecords    \* bound: records an external peer sends

ASSUME VisionAssumption ==
    /\ \A q \in Requests : WellFormed(q)
    /\ Packets \subseteq Seq(Byte) \ {<<>>}
    /\ Draws \subseteq Nat /\ MaxPackets \in Nat /\ MaxRecords \in Nat

VARIABLES req, peer,        \* the request; which far end this tunnel has
          vless_out,        \* the client's VlessOut
          vless_in, instep, \* its VlessIn; whether its inbound half delivers
          up, down,         \* the wires: whole frames, and how they end
          server,           \* the echo server: reader, writer, request, result
          backlog, pwriter, \* the external peer: bytes not yet cut, its writer
          records,          \* and how many records it has sent
          probed,           \* whether the data-plane probe went first
          sent, arrived,    \* packets wrapped; payloads the server unwrapped
          replied, tun      \* what the far end sent; what reached the TUN

vars == <<req, peer, vless_out, vless_in, instep, up, down, server, backlog,
          pwriter, records, probed, sent, arrived, replied, tun>>

(* A wire ends "open", cleanly ("eof"), inside a length prefix or inside a *)
(* payload, or with a prefix that announces more than MAX_FRAME_LEN.       *)
Ends == {"open", "eof", "prefix", "payload", "oversize"}
NewWire == [frames |-> <<>>, end |-> "open"]

(* write_frame: all of the frame, or, when the connection breaks, a part.  *)
WriteFrame(w, f) == [w EXCEPT !.frames = Append(@, f)]
WriteBreaks(w)   == {[w EXCEPT !.end = e] : e \in {"eof", "prefix", "payload"}}

(* Mutation: end of file inside a payload counts as a clean close too. *)
ReadFrameTorn(w) ==
    CASE w.frames # <<>> -> "frame"
      [] w.frames = <<>> /\ w.end \in {"eof", "prefix", "payload"} -> "none"
      [] w.frames = <<>> /\ w.end = "oversize" -> "error"
      [] OTHER -> "blocks"

(* read_frame: Ok(Some), Ok(None), Err, or still blocked in the read.  End *)
(* of file inside the prefix counts as a clean close.                      *)
ReadFrame(w) ==
    CASE w.frames # <<>> -> "frame"
      [] w.frames = <<>> /\ w.end \in {"eof", "prefix"} -> "none"
      [] w.frames = <<>> /\ w.end \in {"payload", "oversize"} -> "error"
      [] OTHER -> "blocks"

TakeFrame(w) == [w EXCEPT !.frames = Tail(@)]

PROBE == [i \in 1..(UuidLen + 8) |-> 5]   \* longer than identity and frame header

NewServer(uuid) == [reader |-> NewReader(uuid), writer |-> NewWriter(uuid),
                    request |-> None, result |-> "running"]

Init ==
    /\ req \in Requests
    /\ \/ peer = "echo"
       \/ peer \in {"stream", "plain"} /\ req = CHOOSE q \in Requests : TRUE
    /\ vless_out = NewOut(req) /\ vless_in = NewIn(req.uuid) /\ instep = TRUE
    /\ up = NewWire /\ down = NewWire
    /\ server = NewServer(req.uuid)
    /\ backlog = <<>> /\ records = 0 /\ probed = FALSE
    /\ pwriter = [NewWriter(req.uuid) EXCEPT !.is_padding = (peer # "plain")]
    /\ sent = <<>> /\ arrived = <<>> /\ replied = <<>> /\ tun = <<>>

(* The RNG draws for the frames of n bytes of padded payload. *)
DrawsFor(wr, n) == [1..(IF wr.is_padding THEN FrameCount(n) ELSE 0) -> Draws]

-----------------------------------------------------------------------------
(* The client's outbound half: a packet is wrapped, sealed and written; a  *)
(* write that fails has emptied the header slot all the same.              *)
Outbound(p) ==
    /\ peer = "echo" /\ ~probed /\ up.end = "open" /\ Len(sent) < MaxPackets
    /\ \E rnd \in DrawsFor(vless_out.writer, Len(vless_out.header) + Len(p)) :
          LET w == Wrap(vless_out, p, rnd)
          IN  /\ vless_out' = w.vo
              /\ \/ up' = WriteFrame(up, w.out) /\ sent' = Append(sent, p)
                 \/ up' \in WriteBreaks(up) /\ UNCHANGED sent
    /\ UNCHANGED <<req, peer, vless_in, instep, down, server, backlog, pwriter,
                   records, probed, arrived, replied, tun>>

(* nativeProbeDataPlane comes before the pump and writes a raw record; the *)
(* pump starts only after its echo came back, which a VLESS server never   *)
(* sends.                                                                  *)
Probe ==
    /\ peer = "echo" /\ up = NewWire /\ sent = <<>> /\ server.result = "running"
    /\ ~probed
    /\ probed' = TRUE
    /\ up' = WriteFrame(up, PROBE)
    /\ UNCHANGED <<req, peer, vless_out, vless_in, instep, down, server, backlog,
                   pwriter, records, sent, arrived, replied, tun>>

-----------------------------------------------------------------------------
(* The client's inbound half.  A plaintext that unwrap refuses gives its   *)
(* sequence back, so that no later record opens and what it left in        *)
(* vless_in is never read again.  An empty payload writes nothing into the *)
(* TUN, and so cannot fail to.                                             *)
Inbound ==
    /\ ReadFrame(down) = "frame"
    /\ down' = TakeFrame(down)
    /\ LET u == Unwrap(vless_in, Head(down.frames)) IN
       IF instep /\ u.ok
       THEN /\ vless_in' = u.vi
            /\ tun' = IF u.out = <<>> THEN tun ELSE Append(tun, u.out)
            /\ UNCHANGED instep
       ELSE instep' = FALSE /\ UNCHANGED <<vless_in, tun>>
    /\ UNCHANGED <<req, peer, vless_out, up, server, backlog, pwriter, records, probed,
                   sent, arrived, replied>>

(* The TUN takes no more packets: the inbound half shuts the socket down   *)
(* both ways and ends.                                                     *)
TunGone ==
    /\ instep /\ ReadFrame(down) = "frame"
    /\ LET u == Unwrap(vless_in, Head(down.frames)) IN u.ok /\ u.out # <<>>
    /\ down' = TakeFrame(down)
    /\ up' = IF up.end = "open" THEN [up EXCEPT !.end = "eof"] ELSE up
    /\ instep' = FALSE
    /\ UNCHANGED <<req, peer, vless_out, vless_in, server, backlog, pwriter, records,
                   probed, sent, arrived, replied, tun>>

-----------------------------------------------------------------------------
(* The echo server's record loop.  Its first record must hold a request    *)
(* header; every error ends the session and closes the connection.  The    *)
(* result has the error's name, "refused" for the three about content:     *)
(* vision unpad, request header, vless uuid mismatch.                      *)
ServerResults == {"running", "ok", "refused", "record_loop", "write_record"}

Fail == /\ server' = [server EXCEPT !.result = "refused"]
        /\ down' = [down EXCEPT !.end = "eof"]
        /\ UNCHANGED <<arrived, replied>>

(* The reply is written, or the connection breaks in the middle of it.     *)
Reply(u, request, payload, answer) ==
    \E rnd \in DrawsFor(server.writer, Len(answer)), r \in {"running", "write_record"} :
        LET p == Pad(server.writer, answer, FALSE, TRUE, rnd)
        IN  /\ server' = [server EXCEPT !.reader = u.rd, !.writer = p.writer,
                                        !.request = request, !.result = r]
            /\ arrived' = Append(arrived, payload)
            /\ \/ /\ r = "running"
                  /\ down' = WriteFrame(down, p.out) /\ replied' = Append(replied, payload)
               \/ /\ r = "write_record"
                  /\ down' \in WriteBreaks(down) /\ UNCHANGED replied

HeaderLen(w) == RequestHeaderLen(w).len
HeaderIn(w)  == ParseRequestHeader(Slice(w, 0, HeaderLen(w)))
Acceptable(w) == /\ RequestHeaderLen(w).ok /\ HeaderLen(w) <= Len(w)
                 /\ HeaderIn(w).ok /\ HeaderIn(w).req.uuid = req.uuid

ServerRecord ==
    /\ peer = "echo" /\ server.result = "running" /\ ReadFrame(up) = "frame"
    /\ up' = TakeFrame(up)
    /\ LET u == Unpad(server.reader, Head(up.frames))
           payload == Slice(u.out, HeaderLen(u.out), Len(u.out))
       IN  IF ~u.ok \/ (server.request = None /\ ~Acceptable(u.out)) THEN Fail
           ELSE IF server.request = None
           THEN Reply(u, Some(HeaderIn(u.out).req), payload, BuildResponseHeader \o payload)
           ELSE Reply(u, server.request, u.out, u.out)
    /\ UNCHANGED <<req, peer, vless_out, vless_in, instep, backlog, pwriter,
                   records, probed, sent, tun>>

ServerEnds ==
    /\ peer = "echo" /\ server.result = "running"
    /\ ReadFrame(up) \in {"none", "error"}
    /\ server' = [server EXCEPT !.result = IF ReadFrame(up) = "none" THEN "ok"
                                              ELSE "record_loop"]
    /\ down' = [down EXCEPT !.end = "eof"]
    /\ UNCHANGED <<req, peer, vless_out, vless_in, instep, up, backlog, pwriter,
                   records, probed, sent, arrived, replied, tun>>

(* The read of a frame times out after 10 s, or the connection is reset.   *)
(* Whatever is on the wire may still be under way then.                    *)
ServerTimesOut ==
    /\ peer = "echo" /\ server.result = "running"
    /\ server' = [server EXCEPT !.result = "record_loop"]
    /\ down' = [down EXCEPT !.end = "eof"]
    /\ UNCHANGED <<req, peer, vless_out, vless_in, instep, up, backlog, pwriter,
                   records, probed, sent, arrived, replied, tun>>

-----------------------------------------------------------------------------
(* The external peers: response header and payloads form one stream, which *)
(* the Vision peer pads for as long as it likes and cuts into records      *)
(* anywhere, also inside a frame header, a content or a padding.  Its      *)
(* first record holds the identity, a frame header and the response        *)
(* header.  The plain peer sends its response header in a record too short *)
(* for a frame, and no packet of its begins with the identity.             *)
StreamWrite(p) ==
    /\ peer # "echo" /\ Len(replied) < MaxPackets
    /\ LET answer == IF replied = <<>> THEN BuildResponseHeader \o p ELSE p IN
       \E end \in BOOLEAN : \E rnd \in DrawsFor(pwriter, Len(answer)) :
          LET w == Pad(pwriter, answer, FALSE, end, rnd)
          IN  /\ pwriter' = w.writer
              /\ backlog' = backlog \o w.out
    /\ replied' = Append(replied, p)
    /\ UNCHANGED <<req, peer, vless_out, vless_in, instep, up, down, server,
                   records, probed, sent, arrived, tun>>

StreamCut ==
    /\ down = NewWire /\ backlog # <<>> /\ records < MaxRecords
    /\ \E n \in 1..Len(backlog) :
          /\ records = 0 => IF peer = "plain" THEN n \in 4..(UuidLen + 4) ELSE n >= UuidLen + 9
          /\ peer = "plain" => Slice(backlog, 0, Least(n, UuidLen)) # req.uuid
          /\ down' = WriteFrame(down, Slice(backlog, 0, n))
          /\ backlog' = Slice(backlog, n, Len(backlog))
    /\ records' = records + 1
    /\ UNCHANGED <<req, peer, vless_out, vless_in, instep, up, server, pwriter,
                   probed, sent, arrived, replied, tun>>

(* A first record that is no Vision stream of ours, or no response.        *)
Malformed ==
    {[i \in 1..(UuidLen + 5) |-> 1],                       \* another identity
     req.uuid \o <<3, 0, 4, 0, 0>> \o BuildResponseHeader,  \* an unknown command
     req.uuid \o <<0>> \o Be16(MaxFrameBody + 1) \o <<0, 0>>,
     req.uuid \o <<0, 0, 0>> \o Be16(MaxFrameBody + 1),
     req.uuid \o <<0, 0, 2, 0, 0, 0, 0>>,                  \* too short a response
     <<VERSION + 1, FlowTag, 1, 0>>}

StreamMalformed ==
    /\ peer # "echo" /\ records = 0 /\ MaxRecords > 0 /\ down = NewWire
    /\ \E f \in Malformed : down' = WriteFrame(down, f)
    /\ records' = 1
    /\ UNCHANGED <<req, peer, vless_out, vless_in, instep, up, server, backlog,
                   pwriter, probed, sent, arrived, replied, tun>>

StreamBreaks ==
    /\ peer # "echo" /\ down.end = "open"
    /\ \E e \in Ends \ {"open"} : down' = [down EXCEPT !.end = e]
    /\ UNCHANGED <<req, peer, vless_out, vless_in, instep, up, server, backlog,
                   pwriter, records, probed, sent, arrived, replied, tun>>

-----------------------------------------------------------------------------
Next ==
    \/ \E p \in Packets : Outbound(p) \/ StreamWrite(p)
    \/ Probe \/ Inbound \/ TunGone \/ ServerRecord \/ ServerEnds \/ ServerTimesOut
    \/ StreamCut \/ StreamMalformed \/ StreamBreaks

Spec == Init /\ [][Next]_vars

-----------------------------------------------------------------------------
Concat(ss) ==
    LET cat[i \in 0..Len(ss)] == IF i = 0 THEN <<>> ELSE cat[i - 1] \o ss[i]
    IN  cat[Len(ss)]

TypeOK ==
    /\ up.end \in Ends /\ down.end \in Ends /\ instep \in BOOLEAN
    /\ vless_in.reader.state \in {"Initial", "Header", "Content", "Padding", "Direct"}
    /\ vless_in.reader.remaining \in 0..MaxFrameBody
    /\ Len(vless_in.reader.header) < 5
    /\ server.result \in ServerResults
    /\ {Len(sent), Len(arrived), Len(replied)} \subseteq 0..MaxPackets

(* RequestArrives: the request the server acts on is the one the profile   *)
(* asked for, field by field, after the header was built, cut into padded  *)
(* frames, unpadded, measured by request_header_len and parsed again.      *)
RequestArrives ==
    server.request # None =>
        server.request = Some(IF req.command = CMD_MUX
                              THEN [req EXCEPT !.address = MuxAddress, !.port = 0]
                              ELSE req)

(* A reference reading of a padded record: the frames it consists of.      *)
FramesOf(w) ==
    LET size[k \in 0..Len(w)] ==   \* where the frame after offset k ends
            k + 5 + Un16(w[k + 2], w[k + 3]) + Un16(w[k + 4], w[k + 5])
        cuts[i \in 0..Len(w)] ==
            IF i = 0 THEN UuidLen
            ELSE LET k == cuts[i - 1] IN IF k >= Len(w) THEN k ELSE size[k]
        starts == {k \in {cuts[i] : i \in 0..Len(w)} : k < Len(w)}
    IN  {[command |-> w[k + 1], content |-> Un16(w[k + 2], w[k + 3]),
          padding |-> Un16(w[k + 4], w[k + 5]), last |-> size[k] = Len(w)] : k \in starts}

(* FramesBounded: "buf.Size bounds every padding frame": in the client's   *)
(* first record, which carries the request header, no frame outgrows the   *)
(* buffer, each is long enough to hide the header, and exactly the last    *)
(* one ends the padding.                                                   *)
FramesBounded ==
    arrived = <<>> /\ ~probed /\ up.frames # <<>> =>
        \A f \in FramesOf(Head(up.frames)) :
            /\ f.content + f.padding <= MaxFrameBody
            /\ f.content + f.padding >= Least(MaxFrameBody, TestSeed[3]) \/ f.content >= TestSeed[1]
            /\ (f.command = PADDING_END) <=> f.last

(* UpIsPipe: seen from outside, the way up is a pipe of packets: what the  *)
(* server unwraps are the TUN's packets, whole, in order, none lost before *)
(* another, and free of header, identity and padding bytes.                *)
Up == INSTANCE PacketPipe WITH got <- arrived
UpIsPipe == Up!Spec

(* DownIsPipe: the way down is a pipe of bytes, however the far end frames *)
(* its stream and wherever it cuts it into records: no byte of response    *)
(* header, frame header or padding reaches the TUN, none is lost.          *)
Down == INSTANCE PacketPipe WITH sent <- Concat(replied), got <- Concat(tun)
DownIsPipe == Down!Spec

(* EchoReturns: behind the echo server every TUN write is one whole        *)
(* packet, the first, which shares its record with the response header,    *)
(* included; and once both wires have drained into a TUN that takes them,  *)
(* every packet is back, but for one whose reply broke off.                *)
EchoReturns ==
    peer = "echo" =>
        /\ tun = SubSeq(sent, 1, Len(tun))
        /\ up.frames = <<>> /\ down.frames = <<>> /\ instep =>
              \/ tun = sent
              \/ server.result = "write_record" /\ Len(tun) = Len(sent) - 1

(* OnlyProbeRefused: nothing the pump wraps is ever refused by the server: *)
(* it ends a session over the content of a record (unpad, request header,  *)
(* UUID) only when that record was the raw probe.  The probe it never      *)
(* takes for a stream, a request or data of its own: having read it, it    *)
(* has ended the session, without a request and with nothing sent back.    *)
OnlyProbeRefused ==
    /\ server.result = "refused" => probed
    /\ probed /\ up.frames = <<>> =>
          server.result = "refused" /\ server.request = None /\ down.frames = <<>>

(* CleanCloseIsWhole: the server reports a clean end only when it answered *)
(* every record that was written whole, although an end of file inside a   *)
(* length prefix passes for a clean one, and never for one torn in its     *)
(* payload.                                                                *)
CleanCloseIsWhole == server.result = "ok" => arrived = sent /\ up.end # "payload"
=============================================================================
