---------------------------- MODULE Tls13Proofs ----------------------------
(***************************************************************************)
(* Proofs about Tls13, for any server flavours, layouts, certificates and  *)
(* bounds that satisfy its assumptions.                                    *)
(*                                                                         *)
(* TInv is about records: the wire carries only what the server sealed,    *)
(* the client spends a sequence number once, and what it opens under the   *)
(* server's application secret is its own data, in order.  KInv adds the   *)
(* keys: a call of process_server_flight, read record by record and        *)
(* message by message, accepts a Finished only at the end of the server's  *)
(* own transcript, so that only the server's flight yields secrets.  CInv  *)
(* follows an undisturbed connection exactly: which messages are read,     *)
(* what is in the buffer and what is still on the wire, call by call, so   *)
(* that neither end has a reason to fail.                                  *)
(***************************************************************************)
EXTENDS Tls13, DataInduction, FiniteSetTheorems, SequenceTheorems, TLAPS

(* The n-th piece of the driver's data is the number n. *)
Counting(s) == s \in Seq(Nat) /\ \A i \in 1..Len(s) : s[i] = i

DataRecord(n) == Protect(cl.cets[1], n, "appdata", <<n + 1>>)

(* The flight's secret, messages and units; the hellos and the handshake   *)
(* secret where the server's share is s.                                   *)
FlightSecret(f) == DeriveSecret(ServerSecret(f), "s hs traffic", Th0(f))
Messages(f)     == {FlightMessages(f)[i] : i \in DOMAIN FlightMessages(f)}
UnitsOf(m)      == {[of |-> m, part |-> i] : i \in 1..m.size}
FlightUnits(f)  == UNION {UnitsOf(m) : m \in Messages(f)}

Hellos(f, s) == <<HelloRecord.hs, Message("server_hello", 1, <<f.suite, s>>)>>
Secret(f, s) == HandshakeSecret(f.suite, <<"client share", s>>)

(* A hello says what the server's says, but for the share; a record under  *)
(* a handshake secret is of the flight; one under an application secret is *)
(* the ticket, or the echo of one of the k pieces the server has read.     *)
Fine(r, f, k) ==
    /\ r = [type |-> r.type, secret |-> r.secret, seq |-> r.seq, ct |-> r.ct,
            payload |-> r.payload, sound |-> r.sound]
    /\ r.type = "handshake" =>
          r.ct = f.shape /\ r.payload = <<f.suite, r.payload[2]>>
    /\ r.type = "appdata" /\ r.secret[1] = "s hs traffic" =>
          r.secret = FlightSecret(f) /\ r.payload \in Seq(FlightUnits(f))
    /\ r.type = "appdata" /\ r.secret[1] = "s ap traffic" =>
          \/ r.ct = "handshake" /\ r.seq = 0
          \/ r.ct = "appdata" /\ r.seq \in 1..k /\ r.payload = <<r.seq>>

Wire(d, f, k) ==
    LET S == {d[i] : i \in DOMAIN d} IN d \in Seq(S) /\ \A r \in S : Fine(r, f, k)

ClientShape ==
    cl = [suite |-> cl.suite, transcript |-> cl.transcript,
          handshake_secret |-> cl.handshake_secret, shts |-> cl.shts, chts |-> cl.chts,
          cets |-> cl.cets, sets |-> cl.sets, hs_read |-> cl.hs_read, hs_write |-> cl.hs_write,
          app_read |-> cl.app_read, app_write |-> cl.app_write]

(* Nothing is sealed, sent or read before the client's Finished. *)
Quiet ==
    pc \notin {"data", "done", "failed"} =>
        sealed = {} /\ up = <<>> /\ sent = <<>> /\ got = <<>> /\ peer.got = <<>>

Labels ==
    /\ pc \in {"flight", "finish"} => cl.chts[1][1] = "c hs traffic"
    /\ pc \in {"finish", "data"} \/ sealed # {} =>
          cl.cets[1][1] = "c ap traffic" /\ cl.sets[1][1] = "s ap traffic"

SealedInv ==
    /\ up \in Seq(sealed)
    /\ \A r \in sealed :
          r.secret[1] = "c hs traffic" \/ \E n \in 0..(Len(sent) - 1) : r = DataRecord(n)
    /\ \A a, b \in sealed :
          a.secret[1] = "c hs traffic" /\ b.secret[1] = "c hs traffic" => a = b

DataInv ==
    /\ Counting(sent) /\ Counting(got) /\ Counting(peer.got)
    /\ Len(got) <= Len(peer.got) /\ Len(peer.got) <= Len(sent)

PeerInv ==
    /\ peer = [state |-> peer.state, got |-> peer.got, seq_out |-> peer.seq_out]
    /\ peer.state = "sent" => peer.got = <<>>
    /\ peer.state = "open" => peer.seq_out = Len(peer.got) + 1

(* The sequences of the client count its data; the first record it opens   *)
(* under the server's application secret is the ticket.                    *)
SequenceInv ==
    pc \in {"finish", "data"} =>
        /\ cl.app_write = Len(sent) /\ cl.app_read \in Nat
        /\ Len(got) = IF cl.app_read = 0 THEN 0 ELSE cl.app_read - 1

(* The inductive invariant. *)
TInv ==
    /\ ClientShape /\ Quiet /\ Labels /\ SealedInv /\ DataInv /\ PeerInv /\ SequenceInv
    /\ Wire(down, server.flavour, Len(peer.got))
    /\ server.flavour \in Flavours

-----------------------------------------------------------------------------
(* A sequence over a set is one over any larger set. *)
LEMMA SeqGrows ==
    ASSUME NEW S, NEW T, S \subseteq T, NEW s \in Seq(S)
    PROVE  s \in Seq(T)
OBVIOUS

(* A sequence over fine records is a fine wire. *)
LEMMA WireIntro ==
    ASSUME NEW S, NEW d \in Seq(S), NEW f, NEW k, \A r \in S : Fine(r, f, k)
    PROVE  Wire(d, f, k)
<1> DEFINE T == {d[i] : i \in DOMAIN d}
<1>1. DOMAIN d = 1..Len(d) /\ Len(d) \in Nat /\ \A i \in 1..Len(d) : d[i] \in S
  OBVIOUS
<1>2. d = [i \in 1..Len(d) |-> d[i]]
  OBVIOUS
<1>3. d \in [1..Len(d) -> T]
  BY <1>1, <1>2
<1>4. d \in Seq(T)
  <2> HIDE DEF T
  <2>1. \A i \in 1..Len(d) : d[i] \in T
    BY <1>3
  <2> QED
    BY <1>1, <1>2, <2>1
<1>5. \A r \in T : Fine(r, f, k)
  BY <1>1
<1> QED
  BY <1>4, <1>5 DEF Wire

(* What the network and the two ends do to a wire keeps it one. *)
LEMMA WireGrows ==
    ASSUME NEW d, NEW f, NEW k \in Nat, NEW n \in Nat, k <= n, Wire(d, f, k)
    PROVE  Wire(d, f, n)
<1>1. ASSUME NEW r, Fine(r, f, k) PROVE Fine(r, f, n)
  <2>1. r.seq \in 1..k => r.seq \in 1..n
    OBVIOUS
  <2> QED
    BY <1>1, <2>1 DEF Fine
<1> QED
  BY <1>1 DEF Wire

LEMMA WireTail ==
    ASSUME NEW d, NEW f, NEW k, Wire(d, f, k), d # <<>>
    PROVE  Wire(Tail(d), f, k) /\ Fine(Head(d), f, k)
<1>1. PICK S : d \in Seq(S) /\ \A r \in S : Fine(r, f, k)
  BY DEF Wire
<1>2. Tail(d) \in Seq(S) /\ Head(d) \in S
  BY <1>1
<1> QED
  BY <1>1, <1>2, WireIntro

LEMMA WireAppend ==
    ASSUME NEW d, NEW f, NEW k, NEW r, Wire(d, f, k), Fine(r, f, k)
    PROVE  Wire(Append(d, r), f, k)
<1>1. PICK S : d \in Seq(S) /\ \A x \in S : Fine(x, f, k)
  BY DEF Wire
<1>2. Append(d, r) \in Seq(S \cup {r})
  BY <1>1
<1>3. \A x \in S \cup {r} : Fine(x, f, k)
  BY <1>1
<1> QED
  BY <1>2, <1>3, WireIntro

LEMMA WireConcat ==
    ASSUME NEW d, NEW e, NEW f, NEW k, Wire(d, f, k), Wire(e, f, k)
    PROVE  Wire(d \o e, f, k)
<1>1. PICK S : d \in Seq(S) /\ \A x \in S : Fine(x, f, k)
  BY DEF Wire
<1>2. PICK T : e \in Seq(T) /\ \A x \in T : Fine(x, f, k)
  BY DEF Wire
<1>3. d \o e \in Seq(S \cup T)
  BY <1>1, <1>2
<1>4. \A x \in S \cup T : Fine(x, f, k)
  BY <1>1, <1>2
<1> QED
  BY <1>3, <1>4, WireIntro

LEMMA WireSub ==
    ASSUME NEW d, NEW f, NEW k, NEW m \in Int, NEW n \in Int, Wire(d, f, k), 1 <= m, n <= Len(d)
    PROVE  Wire(SubSeq(d, m, n), f, k)
<1>1. PICK S : d \in Seq(S) /\ \A x \in S : Fine(x, f, k)
  BY DEF Wire
<1>2. SubSeq(d, m, n) \in Seq(S)
  BY <1>1
<1> QED
  BY <1>1, <1>2, WireIntro

LEMMA WireOne ==
    ASSUME NEW r, NEW f, NEW k, Fine(r, f, k)
    PROVE  Wire(<<r>>, f, k)
<1>1. PICK S : S = {r}
  OBVIOUS
<1>2. <<r>> \in Seq(S) /\ \A x \in S : Fine(x, f, k)
  BY <1>1
<1> QED
  BY <1>2, WireIntro

LEMMA WireEmpty ==
    ASSUME NEW f, NEW k
    PROVE  Wire(<<>>, f, k)
<1>1. PICK S : S = {}
  OBVIOUS
<1>2. <<>> \in Seq(S) /\ \A x \in S : Fine(x, f, k)
  BY <1>1
<1> QED
  BY <1>2, WireIntro

LEMMA WireIndex ==
    ASSUME NEW d, NEW f, NEW k, NEW i \in 1..Len(d), Wire(d, f, k)
    PROVE  Fine(d[i], f, k) /\ Len(d) \in Nat
<1>1. PICK S : d \in Seq(S) /\ \A x \in S : Fine(x, f, k)
  BY DEF Wire
<1>2. d[i] \in S /\ Len(d) \in Nat
  BY <1>1
<1> QED
  BY <1>1, <1>2

LEMMA WireWithout ==
    ASSUME NEW d, NEW f, NEW k, NEW i \in 1..Len(d), Wire(d, f, k)
    PROVE  Wire(Without(d, i), f, k) /\ (Len(d) \in Nat => Len(Without(d, i)) = Len(d) - 1)
<1>0. Len(d) \in Nat
  BY WireIndex
<1>1. Wire(SubSeq(d, 1, i - 1), f, k) /\ Wire(SubSeq(d, i + 1, Len(d)), f, k)
  BY <1>0, WireSub
<1>2. PICK S : d \in Seq(S)
  BY DEF Wire
<1>3. Len(Without(d, i)) = Len(d) - 1
  <2>1. SubSeq(d, 1, i - 1) \in Seq(S) /\ SubSeq(d, i + 1, Len(d)) \in Seq(S)
    BY <1>0, <1>2
  <2>2. Len(SubSeq(d, 1, i - 1)) = i - 1 /\ Len(SubSeq(d, i + 1, Len(d))) = Len(d) - i
    BY <1>0, <1>2
  <2>3. ASSUME NEW a \in Seq(S), NEW b \in Seq(S)
        PROVE  Len(a \o b) = Len(a) + Len(b)
    OBVIOUS
  <2>4. Len(Without(d, i)) = i - 1 + (Len(d) - i)
    BY <2>1, <2>2, <2>3 DEF Without
  <2> QED
    BY <1>0, <2>4
<1> QED
  BY <1>1, <1>3, WireConcat DEF Without

LEMMA WireInserted ==
    ASSUME NEW d, NEW f, NEW k, NEW i \in 1..(Len(d) + 1), NEW r, Wire(d, f, k), Fine(r, f, k)
    PROVE  Wire(Inserted(d, i, r), f, k)
<1>0. Len(d) \in Nat
  BY DEF Wire
<1>1. Wire(SubSeq(d, 1, i - 1), f, k) /\ Wire(SubSeq(d, i, Len(d)), f, k)
  BY <1>0, WireSub
<1>2. Wire(<<r>>, f, k)
  BY WireOne
<1> QED
  BY <1>1, <1>2, WireConcat DEF Inserted

LEMMA WireUpdate ==
    ASSUME NEW d, NEW f, NEW k, NEW i \in 1..Len(d), NEW r, Wire(d, f, k), Fine(r, f, k)
    PROVE  Wire([d EXCEPT ![i] = r], f, k)
<1>1. PICK S : d \in Seq(S) /\ \A x \in S : Fine(x, f, k)
  BY DEF Wire
<1>2. [d EXCEPT ![i] = r] \in Seq(S \cup {r})
  BY <1>1
<1>3. \A x \in S \cup {r} : Fine(x, f, k)
  BY <1>1
<1> QED
  BY <1>2, <1>3, WireIntro

-----------------------------------------------------------------------------
(* The messages of a flight: of the three that matter there is one each.   *)
CertTranscript(f) ==
    Th0(f) \o (<<Message("encrypted_extensions", 1, <<>>)>> \o f.extra) \o <<CertMsg(f)>>
VerifyMsg(f)   == Message("certificate_verify", 1, <<f.scheme, f.signer, CertTranscript(f)>>)
FinishedMsg(f) == Message("finished", 1,
                          <<FinishedMac(FlightSecret(f), Append(CertTranscript(f), VerifyMsg(f)))>>)

LEMMA FlightIs ==
    ASSUME NEW f
    PROVE  FlightMessages(f) = (<<Message("encrypted_extensions", 1, <<>>)>> \o f.extra)
                                   \o <<CertMsg(f), VerifyMsg(f), FinishedMsg(f)>>
BY DEF FlightMessages, VerifyMsg, FinishedMsg, CertTranscript, FlightSecret

(* Three messages concatenated are three messages appended. *)
Longer(a, b, x, y, z) ==
    a \o (b \o <<x, y, z>>) = Append(Append((a \o b) \o <<x>>, y), z)

LEMMA ConcatTriple ==
    ASSUME NEW T, NEW a \in Seq(T), NEW b \in Seq(T), NEW x \in T, NEW y \in T, NEW z \in T
    PROVE  Longer(a, b, x, y, z)
<1>1. PICK p, q, r : p = <<x>> /\ q = <<y>> /\ r = <<z>>
  OBVIOUS
<1>2. p \in Seq(T) /\ q \in Seq(T) /\ r \in Seq(T)
  BY <1>1
<1>3. /\ \A s, t \in Seq(T) : s \o t \in Seq(T)
      /\ \A s, t, u \in Seq(T) : (s \o t) \o u = s \o (t \o u)
      /\ \A s \in Seq(T), v \in T : Append(s, v) = s \o <<v>>
  BY ConcatProperties, ConcatAssociative, AppendIsConcat, SMTT(60)
<1>4. PICK c, d, e, g : c = q \o r /\ d = p \o c /\ e = a \o b /\ g = e \o p
  OBVIOUS
<1>5. <<x, y, z>> = d
  <2>1. c \in Seq(T) /\ Len(c) = 2 /\ c[1] = y /\ c[2] = z
    BY <1>1, <1>4
  <2>2. d \in Seq(T) /\ Len(d) = 3 /\ d[1] = x /\ d[2] = c[1] /\ d[3] = c[2]
    BY <1>1, <1>2, <1>4, <2>1
  <2>3. PICK t : t = <<x, y, z>>
    OBVIOUS
  <2>4. t \in Seq(T) /\ Len(t) = 3 /\ t[1] = x /\ t[2] = y /\ t[3] = z
    BY <2>3
  <2>5. \A i \in 1..3 : t[i] = d[i]
    BY <2>1, <2>2, <2>4
  <2>6. t = d
    BY <2>2, <2>4, <2>5, SMTT(60)
  <2> QED
    BY <2>3, <2>6
<1>6. c \in Seq(T) /\ d \in Seq(T) /\ e \in Seq(T) /\ g \in Seq(T) /\ g \o q \in Seq(T)
  BY <1>2, <1>3, <1>4, Zenon
<1>7. Append(Append(g, y), z) = (g \o q) \o r
  <2>1. Append(g, y) = g \o q
    BY <1>1, <1>3, <1>6
  <2>2. PICK h : h = g \o q
    OBVIOUS
  <2>3. h \in Seq(T)
    BY <1>6, <2>2
  <2>4. Append(h, z) = h \o r
    BY <1>1, <1>3, <2>3
  <2> QED
    BY <2>1, <2>2, <2>4, Zenon
<1>8. a \o (b \o d) = e \o d /\ e \o d = g \o c /\ g \o c = (g \o q) \o r
  <2>1. ASSUME NEW s \in Seq(T), NEW t \in Seq(T), NEW u \in Seq(T)
        PROVE  (s \o t) \o u = s \o (t \o u)
    BY <1>3, ZenonT(60)
  <2>2. (a \o b) \o d = a \o (b \o d)
    <3>1. d \in Seq(T)
      BY <1>6, Zenon
    <3> QED
      BY <2>1, <3>1, Zenon
  <2>3. (e \o p) \o c = e \o (p \o c)
    <3>1. e \in Seq(T) /\ p \in Seq(T) /\ c \in Seq(T)
      BY <1>2, <1>6, Zenon
    <3> QED
      BY <2>1, <3>1, ZenonT(60)
  <2>4. (g \o q) \o r = g \o (q \o r)
    <3>1. g \in Seq(T) /\ q \in Seq(T) /\ r \in Seq(T)
      BY <1>2, <1>6, Zenon
    <3> QED
      BY <2>1, <3>1, ZenonT(60)
  <2> QED
    BY <1>4, <2>2, <2>3, <2>4, Zenon
<1> QED
  BY <1>1, <1>4, <1>5, <1>7, <1>8, Zenon DEF Longer

LEMMA FlightParts ==
    ASSUME NEW f \in Flavours
    PROVE  /\ FlightMessages(f) \in Seq(Messages(f))
           /\ \A m \in Messages(f) :
                 /\ m.size \in Nat
                 /\ m.type = "certificate" => m = CertMsg(f)
                 /\ m.type = "certificate_verify" => m = VerifyMsg(f)
                 /\ m.type = "finished" => m = FinishedMsg(f)
           /\ ServerTranscript(f) = Append(Append(CertTranscript(f), VerifyMsg(f)), FinishedMsg(f))
<1> DEFINE ee == Message("encrypted_extensions", 1, <<>>)
           X  == {f.extra[i] : i \in DOMAIN f.extra}
           S  == X \cup {ee, CertMsg(f), VerifyMsg(f), FinishedMsg(f)}
<1>1. /\ f.extra \in Seq(X) /\ f.certtype \notin {"certificate_verify", "finished"}
      /\ \A m \in X : /\ m.size \in Nat
                      /\ m.type \notin {"certificate", "certificate_verify", "finished"}
  BY FlavourAssumption
<1>2. \A m \in S :
         /\ m.size \in Nat
         /\ m.type = "certificate" => m = CertMsg(f)
         /\ m.type = "certificate_verify" => m = VerifyMsg(f)
         /\ m.type = "finished" => m = FinishedMsg(f)
  <2>1. ee.size = 1 /\ ee.type = "encrypted_extensions"
    BY DEF Message
  <2>2. CertMsg(f).size = 2 /\ CertMsg(f).type = f.certtype
    BY DEF Message, CertMsg
  <2>3. VerifyMsg(f).size = 1 /\ VerifyMsg(f).type = "certificate_verify"
    BY DEF Message, VerifyMsg
  <2>4. FinishedMsg(f).size = 1 /\ FinishedMsg(f).type = "finished"
    BY DEF Message, FinishedMsg
  <2> HIDE DEF ee, X
  <2> QED
    BY <1>1, <2>1, <2>2, <2>3, <2>4
<1>3. FlightMessages(f) \in Seq(S)
  <2> HIDE DEF ee, X
  <2>1. f.extra \in Seq(S)
    BY <1>1, SeqGrows
  <2>2. <<ee>> \in Seq(S) /\ <<CertMsg(f), VerifyMsg(f), FinishedMsg(f)>> \in Seq(S)
    OBVIOUS
  <2>3. (<<ee>> \o f.extra) \o <<CertMsg(f), VerifyMsg(f), FinishedMsg(f)>> \in Seq(S)
    <3> HIDE DEF S
    <3> QED
      BY <2>1, <2>2
  <2> QED
    BY <2>3, FlightIs DEF ee
<1>4. Messages(f) \subseteq S /\ FlightMessages(f) \in Seq(Messages(f))
  <2> HIDE DEF S
  <2>1. PICK s : s = FlightMessages(f)
    OBVIOUS
  <2>2. PICK M : M = {s[i] : i \in DOMAIN s}
    OBVIOUS
  <2>3. s \in Seq(S) /\ s = [i \in 1..Len(s) |-> s[i]] /\ DOMAIN s = 1..Len(s) /\ Len(s) \in Nat
    BY <1>3, <2>1
  <2>4. M \subseteq S
    BY <2>2, <2>3
  <2>5. s \in Seq(M)
    <3>1. \A i \in 1..Len(s) : s[i] \in M
      BY <2>2, <2>3
    <3> QED
      BY <2>3, <3>1
  <2> QED
    BY <2>1, <2>2, <2>4, <2>5 DEF Messages
<1>5. ServerTranscript(f) = Append(Append(CertTranscript(f), VerifyMsg(f)), FinishedMsg(f))
  <2>1. PICK T : T = S \cup {HelloRecord.hs, ServerHelloMsg(f)}
    OBVIOUS
  <2>2. <<ee>> \o f.extra \in Seq(T) /\ Th0(f) \in Seq(T)
    <3>1. f.extra \in Seq(T)
      BY <1>1, <2>1, SeqGrows
    <3>2. <<ee>> \in Seq(T)
      BY <2>1
    <3>3. Th0(f) \in Seq(T)
      BY <2>1 DEF Th0
    <3> QED
      BY <3>1, <3>2, <3>3
  <2>3. CertMsg(f) \in T /\ VerifyMsg(f) \in T /\ FinishedMsg(f) \in T
    BY <2>1
  <2> HIDE DEF ee, S
  <2>4. Th0(f) \o ((<<ee>> \o f.extra) \o <<CertMsg(f), VerifyMsg(f), FinishedMsg(f)>>)
           = Append(Append((Th0(f) \o (<<ee>> \o f.extra)) \o <<CertMsg(f)>>, VerifyMsg(f)),
                    FinishedMsg(f))
    <3>1. Longer(Th0(f), <<ee>> \o f.extra, CertMsg(f), VerifyMsg(f), FinishedMsg(f))
      BY <2>2, <2>3, ConcatTriple, Zenon
    <3> QED
      BY <3>1, Zenon DEF Longer
  <2> QED
    BY <2>4, FlightIs DEF ServerTranscript, CertTranscript, ee
<1> QED
  BY <1>2, <1>4, <1>5

-----------------------------------------------------------------------------
(* A flight's units, message by message. *)
LEMMA FlightCat ==
    ASSUME NEW f \in Flavours, NEW ms, ms = FlightMessages(f)
    PROVE  \E g : /\ g = [i \in 0..Len(ms) |-> IF i = 0 THEN <<>> ELSE g[i - 1] \o Units(ms[i])]
                  /\ AllUnits(ms) = g[Len(ms)]
<1> DEFINE Cat(n, g) == g = [i \in 0..n |-> IF i = 0 THEN <<>> ELSE g[i - 1] \o Units(ms[i])]
<1>1. Len(ms) \in Nat
  BY FlightParts
<1>2. \A n \in Nat : \E g : Cat(n, g)
  <2> DEFINE T == {n \in Nat : \E g : Cat(n, g)}
  <2>1. 0 \in T
    <3>1. PICK g : g = [i \in 0..0 |-> <<>>]
      OBVIOUS
    <3>2. Cat(0, g)
      BY <3>1
    <3> QED
      BY <3>2
  <2>2. ASSUME NEW n \in Nat, n \in T PROVE n + 1 \in T
    <3>1. PICK g : Cat(n, g)
      BY <2>2
    <3>2. PICK h : h = [i \in 0..(n + 1) |-> IF i = 0 THEN <<>> ELSE g[i - 1] \o Units(ms[i])]
      OBVIOUS
    <3>3. \A i \in 0..n : h[i] = g[i]
      BY <3>1, <3>2, SMTT(60)
    <3>4. \A i \in 0..(n + 1) : i # 0 => h[i - 1] = g[i - 1]
      BY <3>3
    <3>5. Cat(n + 1, h)
      BY <3>2, <3>4, SMTT(60)
    <3> QED
      BY <3>5
  <2>3. Nat \subseteq T
    <3> HIDE DEF T
    <3> QED
      BY <2>1, <2>2, SetInduction, SMTT(60)
  <2> QED
    BY <2>3
<1>3. PICK g : Cat(Len(ms), g) /\ AllUnits(ms) = g[Len(ms)]
  <2> DEFINE h == CHOOSE g : Cat(Len(ms), g)
  <2>1. \E g : Cat(Len(ms), g)
    BY <1>1, <1>2
  <2>2. Cat(Len(ms), h)
    <3> HIDE DEF Cat
    <3> QED
      BY <2>1
  <2>3. AllUnits(ms) = h[Len(ms)]
    BY DEF AllUnits
  <2> QED
    BY <2>2, <2>3
<1> QED
  BY <1>3

(* They are units of its messages. *)
LEMMA FlightUnitsSeq ==
    ASSUME NEW f \in Flavours
    PROVE  AllUnits(FlightMessages(f)) \in Seq(FlightUnits(f))
<1> DEFINE Cat(n, ms, g) == g = [i \in 0..n |-> IF i = 0 THEN <<>> ELSE g[i - 1] \o Units(ms[i])]
<1>0. PICK ms : ms = FlightMessages(f)
  OBVIOUS
<1>1. ms \in Seq(Messages(f)) /\ Len(ms) \in Nat /\ \A i \in 1..Len(ms) : ms[i] \in Messages(f)
  BY <1>0, FlightParts
<1>2. \A m \in Messages(f) : Units(m) \in Seq(FlightUnits(f))
  <2> TAKE m \in Messages(f)
  <2>1. m.size \in Nat
    BY FlightParts
  <2>2. UnitsOf(m) \subseteq FlightUnits(f)
    BY DEF FlightUnits
  <2>3. Units(m) = [i \in 1..m.size |-> [of |-> m, part |-> i]]
    BY DEF Units
  <2>4. \A i \in 1..m.size : [of |-> m, part |-> i] \in FlightUnits(f)
    BY <2>2 DEF UnitsOf
  <2> QED
    BY <2>1, <2>3, <2>4
<1>4. PICK g : Cat(Len(ms), ms, g) /\ AllUnits(ms) = g[Len(ms)]
  BY <1>0, FlightCat
<1>5. \A n \in Nat : n <= Len(ms) => g[n] \in Seq(FlightUnits(f))
  <2> DEFINE T == {n \in Nat : n <= Len(ms) => g[n] \in Seq(FlightUnits(f))}
  <2>1. 0 \in T
    <3>1. g[0] = <<>>
      BY <1>1, <1>4
    <3>2. <<>> \in Seq(FlightUnits(f))
      OBVIOUS
    <3>3. g[0] \in Seq(FlightUnits(f))
      BY <3>1, <3>2, Zenon
    <3> QED
      BY <3>3
  <2>2. ASSUME NEW n \in Nat, n \in T PROVE n + 1 \in T
    <3> SUFFICES ASSUME n + 1 <= Len(ms) PROVE g[n + 1] \in Seq(FlightUnits(f))
      OBVIOUS
    <3>1. g[n] \in Seq(FlightUnits(f))
      BY <1>1, <2>2
    <3>2. g[n + 1] = g[n] \o Units(ms[n + 1])
      BY <1>1, <1>4
    <3>3. Units(ms[n + 1]) \in Seq(FlightUnits(f))
      BY <1>1, <1>2
    <3> QED
      BY <3>1, <3>2, <3>3
  <2>3. Nat \subseteq T
    <3> HIDE DEF T
    <3> QED
      BY <2>1, <2>2, SetInduction
  <2> QED
    BY <2>3
<1> QED
  BY <1>0, <1>1, <1>4, <1>5

(* A record under an application secret is fine if it is the ticket or an  *)
(* echo.                                                                   *)
LEMMA ApplicationFine ==
    ASSUME NEW f, NEW k, NEW x, NEW y, NEW n, NEW ct, NEW p,
           \/ ct = "handshake" /\ n = 0
           \/ ct = "appdata" /\ n \in 1..k /\ p = <<n>>
    PROVE  Fine(Protect(DeriveSecret(x, "s ap traffic", y), n, ct, p), f, k)
<1>1. PICK d : d = DeriveSecret(x, "s ap traffic", y)
  OBVIOUS
<1>2. d[1] = "s ap traffic"
  BY <1>1 DEF DeriveSecret
<1>3. PICK r : r = Protect(d, n, ct, p)
  OBVIOUS
<1>4. r = [type |-> "appdata", secret |-> d, seq |-> n, ct |-> ct, payload |-> p, sound |-> TRUE]
  BY <1>3 DEF Protect
<1>5. Fine(r, f, k)
  BY <1>2, <1>4 DEF Fine
<1> QED
  BY <1>1, <1>3, <1>5, Zenon

(* What the server sends is fine: its hello, its flight and the ticket. *)
LEMMA ServerSendsFine ==
    ASSUME NEW f \in Flavours, NEW cuts, NEW k \in Nat
    PROVE  /\ Fine(HelloOnWire(f), f, k) /\ Fine(Ticket(f, 0), f, k)
           /\ Wire(FlightRecords(f, cuts), f, k)
<1>1. Fine(HelloOnWire(f), f, k)
  BY DEF Fine, HelloOnWire
<1>2. Fine(Ticket(f, 0), f, k)
  BY ApplicationFine DEF Ticket
<1>3. Wire(FlightRecords(f, cuts), f, k)
  <2> DEFINE u      == AllUnits(FlightMessages(f))
             ends   == {i \in 1..Len(u) : i \in cuts \/ i = Len(u)}
             In(j)  == {i \in 1..Len(u) : Cardinality({e \in ends : e < i}) < j}
             End(j) == Cardinality(In(j))
             R(j)   == Protect(FlightSecret(f), j - 1, "handshake",
                               SubSeq(u, End(j - 1) + 1, End(j)))
             n      == Cardinality(ends)
             recs   == [j \in 1..n |-> R(j)]
             S      == {R(j) : j \in 1..n}
  <2>1. u \in Seq(FlightUnits(f)) /\ Len(u) \in Nat
    BY FlightUnitsSeq
  <2>2. FlightRecords(f, cuts) = recs
    BY DEF FlightRecords, FlightSecret
  <2> HIDE DEF u
  <2>3. \A U \in SUBSET (1..Len(u)) : Cardinality(U) \in Nat /\ Cardinality(U) <= Len(u)
    <3>1. IsFiniteSet(1..Len(u)) /\ Cardinality(1..Len(u)) = Len(u)
      BY <2>1, FS_Interval, SMTT(60)
    <3> QED
      BY <3>1, FS_Subset, FS_CardinalityType, ZenonT(60)
  <2>4. n \in Nat /\ \A j \in Int : End(j) \in Nat /\ End(j) <= Len(u)
    <3>1. ends \in SUBSET (1..Len(u)) /\ \A j \in Int : In(j) \in SUBSET (1..Len(u))
      OBVIOUS
    <3> HIDE DEF ends, In
    <3> QED
      BY <2>3, <3>1
  <2> HIDE DEF n, End
  <2>5. ASSUME NEW j \in 1..n PROVE Fine(R(j), f, k)
    <3>1. j \in Int /\ j - 1 \in Int
      OBVIOUS
    <3>2. PICK p : p = SubSeq(u, End(j - 1) + 1, End(j))
      OBVIOUS
    <3>3. p \in Seq(FlightUnits(f))
      <4>1. /\ End(j) \in Nat /\ End(j) <= Len(u)
            /\ End(j - 1) + 1 \in Nat /\ 1 <= End(j - 1) + 1
        <5>1. PICK a, b : a = End(j - 1) /\ b = End(j)
          OBVIOUS
        <5>2. a \in Nat /\ b \in Nat /\ b <= Len(u)
          BY <2>4, <3>1, <5>1, Zenon
        <5>3. a + 1 \in Nat /\ 1 <= a + 1
          BY <5>2
        <5> QED
          BY <5>1, <5>2, <5>3, Zenon
      <4> QED
        BY <2>1, <3>2, <4>1
    <3>4. PICK d : d = FlightSecret(f)
      OBVIOUS
    <3>5. d[1] = "s hs traffic"
      BY <3>4 DEF FlightSecret, DeriveSecret
    <3>6. PICK r : r = Protect(d, j - 1, "handshake", p)
      OBVIOUS
    <3>7. r = [type |-> "appdata", secret |-> d, seq |-> j - 1, ct |-> "handshake",
               payload |-> p, sound |-> TRUE]
      BY <3>6 DEF Protect
    <3>8. Fine(r, f, k)
      BY <3>3, <3>4, <3>5, <3>7 DEF Fine
    <3> QED
      BY <3>2, <3>4, <3>6, <3>8, Zenon
  <2>6. recs \in Seq(S) /\ \A r \in S : Fine(r, f, k)
    <3> HIDE DEF R
    <3>1. recs \in [1..n -> S] /\ \A r \in S : Fine(r, f, k)
      BY <2>5
    <3> HIDE DEF recs, S
    <3> QED
      BY <2>4, <3>1
  <2> HIDE DEF recs, S
  <2> QED
    BY <2>2, <2>6, WireIntro
<1> QED
  BY <1>1, <1>2, <1>3

(* Damage leaves a fine record fine: a hello keeps all but its share, and  *)
(* a protected record all but its soundness.                               *)
LEMMA DamagedFine ==
    ASSUME NEW r, NEW f, NEW k, Fine(r, f, k)
    PROVE  Fine(Damaged(r), f, k)
<1>1. CASE r.type = "handshake"
  <2>1. PICK p : p = <<r.payload[1], "damaged share">>
    OBVIOUS
  <2>2. p[1] = f.suite /\ p = <<f.suite, p[2]>>
    <3>1. PICK x : r.payload = <<f.suite, x>>
      BY <1>1 DEF Fine
    <3>2. PICK y : y = r.payload
      OBVIOUS
    <3>3. y[1] = f.suite
      BY <3>1, <3>2
    <3>4. p = <<f.suite, "damaged share">>
      BY <2>1, <3>2, <3>3, Zenon
    <3> QED
      BY <3>4
  <2>3. Damaged(r) = [r EXCEPT !.payload = p]
    BY <1>1, <2>1 DEF Damaged
  <2>4. PICK d : d = [r EXCEPT !.payload = p]
    OBVIOUS
  <2>5. /\ d = [type |-> d.type, secret |-> d.secret, seq |-> d.seq, ct |-> d.ct,
                payload |-> d.payload, sound |-> d.sound]
        /\ d.type = r.type /\ d.ct = r.ct /\ d.payload = p
    BY <2>4 DEF Fine
  <2>6. Fine(d, f, k)
    BY <1>1, <2>2, <2>5 DEF Fine
  <2> QED
    BY <2>3, <2>4, <2>6
<1>2. CASE r.type # "handshake"
  BY <1>2 DEF Fine, Damaged
<1> QED
  BY <1>1, <1>2

-----------------------------------------------------------------------------
(* One call of process_server_flight.  While a call works with the secret  *)
(* shts, what it has collected comes from the server's flight, and it has  *)
(* accepted a Finished only at the end of the server's own transcript.     *)
Acc(s, t, p, c, v, d, e, u) ==
    [seq |-> s, transcript |-> t, pending |-> p, chain |-> c, cv |-> v, finished |-> d,
     err |-> e, used |-> u]

Collected(s, t, p, c, v, d, e, f, shts) ==
    /\ s \in Nat /\ d \in BOOLEAN
    /\ e = None \/ \E x \in Tls13Error : e = Some(x)
    /\ p \in Seq(FlightUnits(f))
    /\ p # <<>> => shts = FlightSecret(f)
    /\ c = <<>> \/ (c = f.chain /\ f.certtype = "certificate")
    /\ v = None \/ \E th : v = Some(<<f.scheme, f.signer, CertTranscript(f), th>>)
    /\ d => shts = FlightSecret(f) /\ t = ServerTranscript(f)

Accum(a, f, shts) ==
    /\ a = Acc(a.seq, a.transcript, a.pending, a.chain, a.cv, a.finished, a.err, a.used)
    /\ Collected(a.seq, a.transcript, a.pending, a.chain, a.cv, a.finished, a.err, f, shts)

LEMMA AccFields ==
    ASSUME NEW s, NEW t, NEW p, NEW c, NEW v, NEW d, NEW e, NEW u, NEW a,
           a = Acc(s, t, p, c, v, d, e, u)
    PROVE  /\ a.seq = s /\ a.transcript = t /\ a.pending = p /\ a.chain = c /\ a.cv = v
           /\ a.finished = d /\ a.err = e /\ a.used = u
BY DEF Acc

LEMMA AccumIntro ==
    ASSUME NEW f, NEW shts, NEW s, NEW t, NEW p, NEW c, NEW v, NEW d, NEW e, NEW u,
           Collected(s, t, p, c, v, d, e, f, shts)
    PROVE  Accum(Acc(s, t, p, c, v, d, e, u), f, shts)
<1>1. PICK a : a = Acc(s, t, p, c, v, d, e, u)
  OBVIOUS
<1>2. /\ a.seq = s /\ a.transcript = t /\ a.pending = p /\ a.chain = c /\ a.cv = v
      /\ a.finished = d /\ a.err = e /\ a.used = u
  BY <1>1 DEF Acc
<1>3. a = Acc(a.seq, a.transcript, a.pending, a.chain, a.cv, a.finished, a.err, a.used)
  BY <1>1 DEF Acc
<1>4. Collected(a.seq, a.transcript, a.pending, a.chain, a.cv, a.finished, a.err, f, shts)
  BY <1>2, Zenon
<1>5. Accum(a, f, shts)
  BY <1>3, <1>4, Zenon DEF Accum
<1> QED
  BY <1>1, <1>5, Zenon

LEMMA Quadruple ==
    ASSUME NEW x, NEW y, NEW z, NEW w
    PROVE  <<x, y, z>> \o <<w>> = <<x, y, z, w>>
<1>1. PICK S : S = {x, y, z, w}
  OBVIOUS
<1>2. <<x, y, z>> \in Seq(S) /\ <<w>> \in Seq(S)
  BY <1>1
<1>3. PICK r, q : r = <<x, y, z>> \o <<w>> /\ q = <<x, y, z, w>>
  OBVIOUS
<1>4. r \in Seq(S) /\ Len(r) = 4 /\ q \in Seq(S) /\ Len(q) = 4
  BY <1>1, <1>2, <1>3
<1>5. r[1] = q[1] /\ r[2] = q[2] /\ r[3] = q[3] /\ r[4] = q[4]
  BY <1>2, <1>3
<1>6. \A i \in 1..4 : r[i] = q[i]
  BY <1>5
<1>7. r = q
  BY <1>4, <1>6
<1> QED
  BY <1>3, <1>7

LEMMA TakeMessageAccum ==
    ASSUME NEW f \in Flavours, NEW shts, NEW a, NEW m \in Messages(f) \cup {Garbage},
           Accum(a, f, shts), Going(a), a.pending # <<>>
    PROVE  Accum(TakeMessage(a, m, shts), f, shts)
<1>1. PICK s, t, p, c, v, d, e, u : /\ a = Acc(s, t, p, c, v, d, e, u)
                                    /\ Collected(s, t, p, c, v, d, e, f, shts)
  BY DEF Accum
<1>2. /\ a.transcript = t /\ a.pending = p /\ p # <<>> /\ ~d /\ e = None
      /\ shts = FlightSecret(f)
  <2>1. a.transcript = t /\ a.pending = p /\ a.finished = d /\ a.err = e
    BY <1>1, AccFields
  <2>2. p # <<>> /\ ~d /\ e = None
    BY <2>1, Zenon DEF Going
  <2> QED
    BY <1>1, <2>1, <2>2 DEF Collected
<1>3. m.size \in Nat
  BY FlightParts DEF Garbage, Message
<1>4. PICK q : q = SubSeq(p, m.size + 1, Len(p))
  OBVIOUS
<1>5. q \in Seq(FlightUnits(f))
  BY <1>1, <1>3, <1>4 DEF Collected
<1>6. PICK w : w = Append(t, m)
  OBVIOUS
<1>7. PICK b : b = [a EXCEPT !.transcript = Append(@, m), !.pending = SubSeq(@, m.size + 1, Len(@))]
  OBVIOUS
<1>8. b = Acc(s, w, q, c, v, d, e, u)
  BY <1>1, <1>2, <1>4, <1>6, <1>7 DEF Acc
<1>9. Collected(s, w, q, c, v, d, e, f, shts)
  BY <1>1, <1>2, <1>5 DEF Collected
<1>10. CASE m.type = "certificate"
  <2>1. m \in Messages(f)
    BY <1>10 DEF Garbage, Message
  <2>2. m.body = f.chain /\ f.certtype = "certificate"
    BY <1>10, <2>1, FlightParts DEF CertMsg, Message
  <2>3. TakeMessage(a, m, shts) = [b EXCEPT !.chain = m.body]
    BY <1>7, <1>10 DEF TakeMessage
  <2>4. [b EXCEPT !.chain = m.body] = Acc(s, w, q, m.body, v, d, e, u)
    BY <1>8 DEF Acc
  <2>5. Collected(s, w, q, m.body, v, d, e, f, shts)
    BY <1>9, <2>2 DEF Collected
  <2> QED
    BY <2>3, <2>4, <2>5, AccumIntro
<1>11. CASE m.type = "certificate_verify"
  <2>1. m \in Messages(f)
    BY <1>11 DEF Garbage, Message
  <2>2. PICK th : th = CertTranscript(f)
    OBVIOUS
  <2>3. m = Message("certificate_verify", 1, <<f.scheme, f.signer, th>>)
    BY <1>11, <2>1, <2>2, FlightParts DEF VerifyMsg
  <2>4. m.body = <<f.scheme, f.signer, th>>
    BY <2>3 DEF Message
  <2>5. PICK z : z = Some(m.body \o <<t>>)
    OBVIOUS
  <2>6. z = Some(<<f.scheme, f.signer, th, t>>)
    <3>1. PICK x, y : x = f.scheme /\ y = f.signer
      OBVIOUS
    <3>2. <<x, y, th>> \o <<t>> = <<x, y, th, t>>
      BY Quadruple
    <3> QED
      BY <2>4, <2>5, <3>1, <3>2, Zenon
  <2>7. TakeMessage(a, m, shts) = [b EXCEPT !.cv = z]
    BY <1>2, <1>7, <1>11, <2>5 DEF TakeMessage
  <2>8. [b EXCEPT !.cv = z] = Acc(s, w, q, c, z, d, e, u)
    BY <1>8 DEF Acc
  <2>9. Collected(s, w, q, c, z, d, e, f, shts)
    BY <1>9, <2>2, <2>6 DEF Collected
  <2> QED
    BY <2>7, <2>8, <2>9, AccumIntro
<1>12. CASE m.type = "finished"
  <2>1. m \in Messages(f)
    BY <1>12 DEF Garbage, Message
  <2>2. m = FinishedMsg(f)
    BY <1>12, <2>1, FlightParts
  <2>3. m.body = <<FinishedMac(shts, Append(CertTranscript(f), VerifyMsg(f)))>>
    BY <1>2, <2>2 DEF FinishedMsg, Message
  <2>4. CASE m.body = <<FinishedMac(shts, t)>>
    <3>1. t = Append(CertTranscript(f), VerifyMsg(f))
      BY <2>3, <2>4 DEF FinishedMac
    <3>2. w = ServerTranscript(f)
      BY <1>6, <2>2, <3>1, FlightParts
    <3>3. TakeMessage(a, m, shts) = [b EXCEPT !.finished = TRUE]
      BY <1>2, <1>7, <1>12, <2>4 DEF TakeMessage
    <3>4. \A x : [b EXCEPT !.finished = x] = Acc(s, w, q, c, v, x, e, u)
      BY <1>8 DEF Acc
    <3>5. Collected(s, w, q, c, v, TRUE, e, f, shts)
      BY <1>2, <1>9, <3>2 DEF Collected
    <3>6. TakeMessage(a, m, shts) = Acc(s, w, q, c, v, TRUE, e, u)
      BY <3>3, <3>4, Zenon
    <3>7. Accum(Acc(s, w, q, c, v, TRUE, e, u), f, shts)
      BY <3>5, AccumIntro, Zenon
    <3> QED
      BY <3>6, <3>7, Zenon
  <2>5. CASE m.body # <<FinishedMac(shts, t)>>
    <3>1. TakeMessage(a, m, shts) = [b EXCEPT !.err = Some("FinishedMismatch")]
      BY <1>2, <1>7, <1>12, <2>5 DEF TakeMessage
    <3>2. PICK z : z = Some("FinishedMismatch")
      OBVIOUS
    <3>3. [b EXCEPT !.err = z] = Acc(s, w, q, c, v, d, z, u)
      BY <1>8 DEF Acc
    <3>4. Collected(s, w, q, c, v, d, z, f, shts)
      BY <1>9, <3>2 DEF Collected, Tls13Error
    <3> QED
      BY <3>1, <3>2, <3>3, <3>4, AccumIntro
  <2> QED
    BY <2>4, <2>5
<1>13. CASE m.type \notin {"certificate", "certificate_verify", "finished"}
  <2>1. TakeMessage(a, m, shts) = b
    BY <1>7, <1>13 DEF TakeMessage
  <2> QED
    BY <1>8, <1>9, <2>1, AccumIntro
<1> QED
  BY <1>10, <1>11, <1>12, <1>13

(* Taking the complete messages out of the buffer. *)
DrainStep(a, shts, stall) ==
    IF Going(a) /\ a.pending # <<>> /\ a.pending[1].part = 1
       /\ a.pending[1].of.size <= Len(a.pending)
    THEN TakeMessage(a, a.pending[1].of, shts)
    ELSE IF Going(a) /\ a.pending # <<>> /\ a.pending[1].part > 1 /\ ~stall
    THEN TakeMessage(a, Garbage, shts)
    ELSE a

LEMMA DrainStepAccum ==
    ASSUME NEW f \in Flavours, NEW shts, NEW stall, NEW a, Accum(a, f, shts)
    PROVE  Accum(DrainStep(a, shts, stall), f, shts)
<1>1. ASSUME a.pending # <<>> PROVE a.pending[1].of \in Messages(f)
  <2>1. a.pending \in Seq(FlightUnits(f))
    BY DEF Accum, Collected
  <2>2. a.pending[1] \in FlightUnits(f)
    BY <1>1, <2>1
  <2>3. PICK m \in Messages(f) : a.pending[1] \in UnitsOf(m)
    BY <2>2 DEF FlightUnits
  <2>4. PICK i \in 1..m.size : a.pending[1] = [of |-> m, part |-> i]
    BY <2>3 DEF UnitsOf
  <2> QED
    BY <2>4
<1>2. ASSUME NEW m \in Messages(f) \cup {Garbage}, Going(a), a.pending # <<>>
      PROVE  Accum(TakeMessage(a, m, shts), f, shts)
  BY <1>2, TakeMessageAccum
<1>3. CASE Going(a) /\ a.pending # <<>>
  BY <1>1, <1>2, <1>3 DEF DrainStep
<1>4. CASE ~(Going(a) /\ a.pending # <<>>)
  BY <1>4 DEF DrainStep
<1> QED
  BY <1>3, <1>4

(* The run of a drain, step by step. *)
LEMMA DrainRun ==
    ASSUME NEW shts, NEW stall, NEW a, Len(a.pending) \in Nat
    PROVE  \E g : /\ Drain(a, shts, stall) = g[Len(a.pending)] /\ g[0] = a
                  /\ \A n \in 1..Len(a.pending) : g[n] = DrainStep(g[n - 1], shts, stall)
<1> DEFINE Run(n, g) ==
             g = [i \in 0..n |-> IF i = 0 THEN a ELSE DrainStep(g[i - 1], shts, stall)]
<1>1. \A n \in Nat : \E g : Run(n, g)
  <2> DEFINE T == {n \in Nat : \E g : Run(n, g)}
  <2>1. 0 \in T
    <3>1. PICK g : g = [i \in 0..0 |-> a]
      OBVIOUS
    <3>2. Run(0, g)
      BY <3>1
    <3> QED
      BY <3>2
  <2>2. ASSUME NEW n \in Nat, n \in T PROVE n + 1 \in T
    <3>1. PICK g : Run(n, g)
      BY <2>2
    <3>2. PICK h : h = [i \in 0..(n + 1) |->
                          IF i = 0 THEN a ELSE DrainStep(g[i - 1], shts, stall)]
      OBVIOUS
    <3>3. \A i \in 0..n : h[i] = g[i]
      BY <3>1, <3>2
    <3>4. \A i \in 0..(n + 1) : i # 0 => h[i - 1] = g[i - 1]
      BY <3>3
    <3>5. Run(n + 1, h)
      BY <3>2, <3>4
    <3> QED
      BY <3>5
  <2>3. Nat \subseteq T
    <3> HIDE DEF T
    <3> QED
      BY <2>1, <2>2, SetInduction
  <2> QED
    BY <2>3
<1>2. PICK g : Run(Len(a.pending), g) /\ Drain(a, shts, stall) = g[Len(a.pending)]
  <2> DEFINE h == CHOOSE g : Run(Len(a.pending), g)
  <2>1. Run(Len(a.pending), h)
    <3> HIDE DEF Run
    <3> QED
      BY <1>1
  <2>2. Drain(a, shts, stall) = h[Len(a.pending)]
    BY DEF Drain, DrainStep
  <2> QED
    BY <2>1, <2>2
<1>3. g[0] = a /\ \A n \in 1..Len(a.pending) : g[n] = DrainStep(g[n - 1], shts, stall)
  BY <1>2
<1> QED
  BY <1>2, <1>3

LEMMA DrainAccum ==
    ASSUME NEW f \in Flavours, NEW shts, NEW stall, NEW a, Accum(a, f, shts)
    PROVE  Accum(Drain(a, shts, stall), f, shts)
<1>2. Len(a.pending) \in Nat
  BY DEF Accum, Collected
<1>3. PICK g : /\ Drain(a, shts, stall) = g[Len(a.pending)] /\ g[0] = a
               /\ \A n \in 1..Len(a.pending) : g[n] = DrainStep(g[n - 1], shts, stall)
  BY <1>2, DrainRun
<1>4. \A n \in Nat : n <= Len(a.pending) => Accum(g[n], f, shts)
  <2> DEFINE T == {n \in Nat : n <= Len(a.pending) => Accum(g[n], f, shts)}
  <2>1. 0 \in T
    BY <1>2, <1>3
  <2>2. ASSUME NEW n \in Nat, n \in T PROVE n + 1 \in T
    <3> SUFFICES ASSUME n + 1 <= Len(a.pending) PROVE Accum(g[n + 1], f, shts)
      OBVIOUS
    <3>1. Accum(g[n], f, shts)
      BY <1>2, <2>2
    <3>2. g[n + 1] = DrainStep(g[n], shts, stall)
      BY <1>2, <1>3
    <3> QED
      BY <3>1, <3>2, DrainStepAccum
  <2>3. Nat \subseteq T
    <3> HIDE DEF T
    <3> QED
      BY <2>1, <2>2, SetInduction
  <2> QED
    BY <2>3
<1>5. Len(a.pending) <= Len(a.pending)
  BY <1>2
<1> QED
  BY <1>2, <1>3, <1>4, <1>5, Zenon

(* A secret of the handshake, by its label. *)
HandshakeLabel(s) == s[1] = "s hs traffic"

(* A record of the wire keeps the accumulator in order: only one of the    *)
(* server's flight opens under a handshake secret.                         *)
LEMMA TakeRecordAccum ==
    ASSUME NEW f \in Flavours, NEW shts, NEW stall, NEW a, NEW r, NEW k,
           Accum(a, f, shts), Going(a), Fine(r, f, k), HandshakeLabel(shts)
    PROVE  Accum(TakeRecord(a, r, shts, stall), f, shts)
<1>1. PICK s, t, p, c, v, d, e, u : /\ a = Acc(s, t, p, c, v, d, e, u)
                                    /\ Collected(s, t, p, c, v, d, e, f, shts)
  BY DEF Accum
<1>2. PICK b : b = [a EXCEPT !.used = @ + 1]
  OBVIOUS
<1>3. PICK n : b = Acc(s, t, p, c, v, d, e, n)
  BY <1>1, <1>2 DEF Acc
<1>4. a.seq = s /\ s \in Nat /\ s + 1 \in Nat
  BY <1>1 DEF Acc, Collected
<1>5. ASSUME NEW x \in Tls13Error, NEW q \in Nat
      PROVE  Accum(Acc(q, t, p, c, v, d, Some(x), n), f, shts)
  <2>1. Collected(q, t, p, c, v, d, Some(x), f, shts)
    BY <1>1 DEF Collected
  <2> QED
    BY <2>1, AccumIntro
<1>6. CASE r.type = "ccs"
  <2>1. TakeRecord(a, r, shts, stall) = b
    BY <1>2, <1>6 DEF TakeRecord
  <2> QED
    BY <1>1, <1>3, <2>1, AccumIntro
<1>7. CASE r.type # "ccs" /\ r.type # "appdata"
  <2>1. TakeRecord(a, r, shts, stall) = [b EXCEPT !.err = Some("BadRecord")]
    BY <1>2, <1>7 DEF TakeRecord
  <2>2. \A z : [b EXCEPT !.err = z] = Acc(s, t, p, c, v, d, z, n)
    BY <1>3 DEF Acc
  <2>3. "BadRecord" \in Tls13Error
    BY DEF Tls13Error
  <2>4. Accum(Acc(s, t, p, c, v, d, Some("BadRecord"), n), f, shts)
    BY <1>4, <1>5, <2>3, Zenon
  <2> QED
    BY <2>1, <2>2, <2>4, Zenon
<1>8. CASE r.type = "appdata" /\ ~Opens(r, shts, a.seq)
  <2>1. TakeRecord(a, r, shts, stall) = [b EXCEPT !.seq = @ + 1, !.err = Some("DecryptFailed")]
    BY <1>2, <1>8 DEF TakeRecord
  <2>2. PICK z : z = Some("DecryptFailed")
    OBVIOUS
  <2>3. [b EXCEPT !.seq = @ + 1, !.err = z] = Acc(s + 1, t, p, c, v, d, z, n)
    <3>1. PICK y : y = [b EXCEPT !.seq = @ + 1, !.err = z]
      OBVIOUS
    <3>2. y = Acc(s + 1, t, p, c, v, d, z, n)
      BY <1>3, <3>1 DEF Acc
    <3> QED
      BY <3>1, <3>2
  <2>4. "DecryptFailed" \in Tls13Error
    BY DEF Tls13Error
  <2>5. Accum(Acc(s + 1, t, p, c, v, d, Some("DecryptFailed"), n), f, shts)
    BY <1>4, <1>5, <2>4, Zenon
  <2> QED
    BY <2>1, <2>2, <2>3, <2>5, Zenon
<1>9. CASE r.type = "appdata" /\ Opens(r, shts, a.seq) /\ r.ct # "handshake"
  <2>1. TakeRecord(a, r, shts, stall) = [b EXCEPT !.seq = @ + 1, !.err = Some("UnexpectedRecord")]
    BY <1>2, <1>9 DEF TakeRecord
  <2>2. PICK z : z = Some("UnexpectedRecord")
    OBVIOUS
  <2>3. [b EXCEPT !.seq = @ + 1, !.err = z] = Acc(s + 1, t, p, c, v, d, z, n)
    <3>1. PICK y : y = [b EXCEPT !.seq = @ + 1, !.err = z]
      OBVIOUS
    <3>2. y = Acc(s + 1, t, p, c, v, d, z, n)
      BY <1>3, <3>1 DEF Acc
    <3> QED
      BY <3>1, <3>2
  <2>4. "UnexpectedRecord" \in Tls13Error
    BY DEF Tls13Error
  <2>5. Accum(Acc(s + 1, t, p, c, v, d, Some("UnexpectedRecord"), n), f, shts)
    BY <1>4, <1>5, <2>4, Zenon
  <2> QED
    BY <2>1, <2>2, <2>3, <2>5, Zenon
<1>10. CASE r.type = "appdata" /\ Opens(r, shts, a.seq) /\ r.ct = "handshake"
  <2>1. r.secret = shts
    BY <1>10 DEF Opens
  <2>2. shts = FlightSecret(f) /\ r.payload \in Seq(FlightUnits(f))
    BY <1>10, <2>1 DEF Fine, HandshakeLabel
  <2>3. PICK z : z = [b EXCEPT !.seq = @ + 1, !.pending = @ \o r.payload]
    OBVIOUS
  <2>4. TakeRecord(a, r, shts, stall) = Drain(z, shts, stall)
    BY <1>2, <1>10, <2>3 DEF TakeRecord
  <2>5. z = Acc(s + 1, t, p \o r.payload, c, v, d, e, n)
    BY <1>3, <2>3 DEF Acc
  <2>6. p \o r.payload \in Seq(FlightUnits(f))
    BY <1>1, <2>2 DEF Collected
  <2>7. Collected(s + 1, t, p \o r.payload, c, v, d, e, f, shts)
    BY <1>1, <1>4, <2>2, <2>6 DEF Collected
  <2>8. Accum(z, f, shts)
    BY <2>5, <2>7, AccumIntro, Zenon
  <2> QED
    BY <2>4, <2>8, DrainAccum
<1> QED
  BY <1>6, <1>7, <1>8, <1>9, <1>10

(* A call starts with nothing collected. *)
FlightStep(a, r, shts, stall) == IF Going(a) THEN TakeRecord(a, r, shts, stall) ELSE a

(* The run of a call, record by record. *)
LEMMA FlightRun ==
    ASSUME NEW c, NEW recs, NEW stall, Len(recs) \in Nat
    PROVE  \E g : /\ ReadFlight(c, recs, stall) = g[Len(recs)] /\ g[0] = NewFlight(c)
                  /\ \A n \in 1..Len(recs) : g[n] = FlightStep(g[n - 1], recs[n], c.shts[1], stall)
<1> DEFINE a == NewFlight(c)
           shts == c.shts[1]
           Run(n, g) ==
             g = [i \in 0..n |-> IF i = 0 THEN a ELSE FlightStep(g[i - 1], recs[i], shts, stall)]
<1> HIDE DEF a, shts
<1>1. \A n \in Nat : \E g : Run(n, g)
  <2> DEFINE T == {n \in Nat : \E g : Run(n, g)}
  <2>1. 0 \in T
    <3>1. PICK g : g = [i \in 0..0 |-> a]
      OBVIOUS
    <3>2. Run(0, g)
      BY <3>1
    <3> QED
      BY <3>2
  <2>2. ASSUME NEW n \in Nat, n \in T PROVE n + 1 \in T
    <3>1. PICK g : Run(n, g)
      BY <2>2
    <3>2. PICK h : h = [i \in 0..(n + 1) |->
                          IF i = 0 THEN a ELSE FlightStep(g[i - 1], recs[i], shts, stall)]
      OBVIOUS
    <3>3. \A i \in 0..n : h[i] = g[i]
      BY <3>1, <3>2
    <3>4. \A i \in 0..(n + 1) : i # 0 => h[i - 1] = g[i - 1]
      BY <3>3
    <3>5. Run(n + 1, h)
      BY <3>2, <3>4
    <3> QED
      BY <3>5
  <2>3. Nat \subseteq T
    <3> HIDE DEF T
    <3> QED
      BY <2>1, <2>2, SetInduction
  <2> QED
    BY <2>3
<1>2. PICK g : Run(Len(recs), g) /\ ReadFlight(c, recs, stall) = g[Len(recs)]
  <2> DEFINE h == CHOOSE g : Run(Len(recs), g)
  <2>1. Run(Len(recs), h)
    <3> HIDE DEF Run
    <3> QED
      BY <1>1
  <2>2. ReadFlight(c, recs, stall) = h[Len(recs)]
    BY DEF ReadFlight, FlightStep, a, shts
  <2> QED
    BY <2>1, <2>2
<1>3. g[0] = a /\ \A n \in 1..Len(recs) : g[n] = FlightStep(g[n - 1], recs[n], shts, stall)
  BY <1>2
<1> QED
  BY <1>2, <1>3 DEF a, shts

LEMMA ReadFlightAccum ==
    ASSUME NEW f \in Flavours, NEW c, NEW recs, NEW stall, NEW k, Wire(recs, f, k),
           c.hs_read \in Nat, HandshakeLabel(c.shts[1])
    PROVE  Accum(ReadFlight(c, recs, stall), f, c.shts[1])
<1> DEFINE a == NewFlight(c)
           shts == c.shts[1]
<1>1. Accum(a, f, shts)
  <2>1. Collected(c.hs_read, c.transcript, <<>>, <<>>, None, FALSE, None, f, shts)
    BY DEF Collected, None
  <2>2. Accum(Acc(c.hs_read, c.transcript, <<>>, <<>>, None, FALSE, None, 0), f, shts)
    BY <2>1, AccumIntro, Zenon
  <2> QED
    BY <2>2 DEF NewFlight, Acc
<1>2. Len(recs) \in Nat /\ \A i \in 1..Len(recs) : Fine(recs[i], f, k)
  BY WireIndex DEF Wire
<1>3. HandshakeLabel(shts)
  OBVIOUS
<1> HIDE DEF a, shts
<1>5. PICK g : /\ ReadFlight(c, recs, stall) = g[Len(recs)] /\ g[0] = a
               /\ \A n \in 1..Len(recs) : g[n] = FlightStep(g[n - 1], recs[n], shts, stall)
  BY <1>2, FlightRun DEF a, shts
<1>6. \A n \in Nat : n <= Len(recs) => Accum(g[n], f, shts)
  <2> DEFINE T == {n \in Nat : n <= Len(recs) => Accum(g[n], f, shts)}
  <2>1. 0 \in T
    BY <1>1, <1>2, <1>5
  <2>2. ASSUME NEW n \in Nat, n \in T PROVE n + 1 \in T
    <3> SUFFICES ASSUME n + 1 <= Len(recs) PROVE Accum(g[n + 1], f, shts)
      OBVIOUS
    <3>1. Accum(g[n], f, shts)
      BY <1>2, <2>2
    <3>2. g[n + 1] = FlightStep(g[n], recs[n + 1], shts, stall)
      BY <1>2, <1>5
    <3>3. Fine(recs[n + 1], f, k)
      BY <1>2
    <3>4. CASE Going(g[n])
      BY <1>3, <3>1, <3>2, <3>3, <3>4, TakeRecordAccum DEF FlightStep
    <3>5. CASE ~Going(g[n])
      BY <3>1, <3>2, <3>5 DEF FlightStep
    <3> QED
      BY <3>4, <3>5
  <2>3. Nat \subseteq T
    <3> HIDE DEF T
    <3> QED
      BY <2>1, <2>2, SetInduction
  <2> QED
    BY <2>3
<1>7. Len(recs) <= Len(recs)
  BY <1>2
<1> QED
  BY <1>2, <1>5, <1>6, <1>7, Zenon DEF shts

(* One more piece of data keeps the count. *)
LEMMA CountingAppend ==
    ASSUME NEW s, Counting(s)
    PROVE  /\ Counting(s \o <<Len(s) + 1>>) /\ Counting(Append(s, Len(s) + 1))
           /\ Len(s) \in Nat
           /\ Len(s \o <<Len(s) + 1>>) = Len(s) + 1 /\ Len(Append(s, Len(s) + 1)) = Len(s) + 1
<1>1. s \in Seq(Nat) /\ Len(s) \in Nat /\ Len(s) + 1 \in Nat
  BY DEF Counting
<1>2. s \o <<Len(s) + 1>> = Append(s, Len(s) + 1)
  BY <1>1
<1>3. Counting(Append(s, Len(s) + 1)) /\ Len(Append(s, Len(s) + 1)) = Len(s) + 1
  BY <1>1 DEF Counting
<1> QED
  BY <1>1, <1>2, <1>3

(* Of two counts the shorter is the beginning of the longer. *)
LEMMA CountingPrefix ==
    ASSUME NEW s, NEW t, Counting(s), Counting(t), Len(s) <= Len(t)
    PROVE  s = SubSeq(t, 1, Len(s))
<1>1. s \in Seq(Nat) /\ t \in Seq(Nat) /\ Len(s) \in Nat /\ Len(t) \in Nat
  BY DEF Counting
<1>2. SubSeq(t, 1, Len(s)) = [i \in 1..Len(s) |-> t[i]]
  BY <1>1
<1>3. s = [i \in 1..Len(s) |-> s[i]]
  BY <1>1
<1>4. \A i \in 1..Len(s) : s[i] = t[i]
  BY <1>1 DEF Counting
<1> QED
  BY <1>2, <1>3, <1>4

-----------------------------------------------------------------------------
(* The initial states, and one lemma per action. *)
LEMMA InitTInv == Init => TInv
<1> SUFFICES ASSUME Init PROVE TInv
  OBVIOUS
<1> USE DEF Init
<1>1. Wire(down, server.flavour, Len(peer.got))
  BY WireEmpty
<1>2. ClientShape /\ PeerInv /\ server.flavour \in Flavours
  BY DEF ClientShape, PeerInv, NewClient
<1>3. Quiet /\ Labels /\ SealedInv /\ SequenceInv
  BY DEF Quiet, Labels, SealedInv, SequenceInv
<1>4. DataInv
  BY DEF DataInv, Counting
<1> QED
  BY <1>1, <1>2, <1>3, <1>4 DEF TInv

(* Two of the parts depend on a few variables only. *)
LEMMA DataFrame ==
    ASSUME TInv, UNCHANGED <<sent, got, peer>>
    PROVE  DataInv' /\ PeerInv'
BY DEF TInv, DataInv, PeerInv, Counting

LEMMA StartTInv ==
    ASSUME TInv, Start
    PROVE  TInv'
<1> USE DEF TInv, Start
<1>1. Len(peer.got) \in Nat /\ peer'.got = peer.got /\ peer.got = <<>>
  BY DEF DataInv, Counting, PeerInv, Quiet
<1>2. Wire(down', server'.flavour, Len(peer.got)')
  <2>2. /\ Fine(HelloOnWire(server.flavour), server.flavour, Len(peer.got))
        /\ Fine(Ticket(server.flavour, 0), server.flavour, Len(peer.got))
        /\ Wire(FlightRecords(server.flavour, server.cuts), server.flavour, Len(peer.got))
    BY <1>1, ServerSendsFine
  <2>3. /\ Wire(<<HelloOnWire(server.flavour)>>, server.flavour, Len(peer.got))
        /\ Wire(<<Ticket(server.flavour, 0)>>, server.flavour, Len(peer.got))
        /\ Wire(<<>>, server.flavour, Len(peer.got))
    BY <2>2, WireOne, WireEmpty
  <2>4. Wire(IF server.flavour.early THEN <<Ticket(server.flavour, 0)>> ELSE <<>>,
             server.flavour, Len(peer.got))
    BY <2>3
  <2>5. Wire(down', server.flavour, Len(peer.got))
    BY <2>2, <2>3, <2>4, WireConcat
  <2> QED
    BY <1>1, <2>5
<1>3. ClientShape' /\ SealedInv'
  BY DEF ClientShape, SealedInv, DataRecord
<1>4. Quiet' /\ Labels' /\ SequenceInv'
  BY <1>1 DEF Quiet, Labels, SequenceInv
<1>5. DataInv' /\ PeerInv'
  BY <1>1 DEF DataInv, PeerInv, Quiet, Counting
<1> QED
  BY <1>2, <1>3, <1>4, <1>5

LEMMA ProcessServerHelloTInv ==
    ASSUME TInv, ProcessServerHello
    PROVE  TInv'
<1> USE DEF TInv, ProcessServerHello
<1>1. Wire(down', server'.flavour, Len(peer.got)')
  BY WireTail
<1>2. DataInv' /\ PeerInv'
  BY DataFrame
<1>3. ClientShape'
  BY DEF ClientShape
<1>4. pc' \in {"failed", "derive"} /\ sealed = {} /\ up = <<>> /\ sent = <<>> /\ got = <<>>
      /\ peer.got = <<>>
  BY DEF Fail, Quiet
<1>5. Quiet' /\ Labels' /\ SealedInv' /\ SequenceInv'
  BY <1>4 DEF Quiet, Labels, SealedInv, SequenceInv
<1> QED
  BY <1>1, <1>2, <1>3, <1>5

LEMMA DeriveTInv ==
    ASSUME TInv, DeriveHandshakeKeys
    PROVE  TInv'
<1> USE DEF TInv, DeriveHandshakeKeys, net
<1>1. Wire(down', server'.flavour, Len(peer.got)')
  OBVIOUS
<1>2. DataInv' /\ PeerInv'
  BY DataFrame
<1>3. ClientShape'
  BY DEF ClientShape
<1>4. sealed = {} /\ up = <<>> /\ sent = <<>> /\ got = <<>> /\ peer.got = <<>>
  BY DEF Quiet
<1>5. Quiet' /\ SealedInv' /\ SequenceInv'
  BY <1>4 DEF Quiet, SealedInv, SequenceInv
<1>6. Labels'
  BY <1>4 DEF Labels, ClientShape, DeriveSecret, Some
<1> QED
  BY <1>1, <1>2, <1>3, <1>5, <1>6

LEMMA FlightTInv ==
    ASSUME TInv, ProcessServerFlight
    PROVE  TInv'
<1> USE DEF TInv
<1>1. UNCHANGED <<server, sent, got, up, peer, sealed>> /\ pc = "flight"
  BY DEF ProcessServerFlight
<1>2. PICK n, a, c :
         /\ n \in 1..Len(down)
         /\ c = [cl EXCEPT !.hs_read = a.seq, !.transcript = a.transcript]
         /\ down' = SubSeq(down, n + 1, Len(down))
         /\ \/ cl' = WithApplicationKeys(c) /\ pc' = "finish"
            \/ cl' = c /\ pc' \in {"flight", "failed"}
  BY <1>1 DEF ProcessServerFlight, Fail
<1>3. Wire(down', server'.flavour, Len(peer.got)')
  <2>1. Len(down) \in Nat
    BY DEF Wire
  <2>2. n + 1 \in Int /\ 1 <= n + 1 /\ Len(down) \in Int /\ Len(down) <= Len(down)
    <3>1. n \in 1..Len(down)
      BY <1>2, Zenon
    <3> QED
      BY <2>1, <3>1
  <2>3. Wire(SubSeq(down, n + 1, Len(down)), server.flavour, Len(peer.got))
    BY <2>2, WireSub
  <2> QED
    BY <1>1, <1>2, <2>3
<1>4. DataInv' /\ PeerInv'
  BY <1>1, DataFrame
<1>5. sealed = {} /\ up = <<>> /\ sent = <<>> /\ got = <<>> /\ peer.got = <<>>
  BY <1>1 DEF Quiet
<1>6. c.chts = cl.chts /\ c = [c EXCEPT !.hs_read = a.seq]
      /\ c = [suite |-> c.suite, transcript |-> c.transcript,
              handshake_secret |-> c.handshake_secret, shts |-> c.shts, chts |-> c.chts,
              cets |-> c.cets, sets |-> c.sets, hs_read |-> c.hs_read, hs_write |-> c.hs_write,
              app_read |-> c.app_read, app_write |-> c.app_write]
  BY <1>2 DEF ClientShape
<1>7. ClientShape' /\ cl'.chts = cl.chts
  BY <1>2, <1>6 DEF ClientShape, WithApplicationKeys
<1>8. pc' = "finish" => /\ cl'.cets[1][1] = "c ap traffic" /\ cl'.sets[1][1] = "s ap traffic"
                        /\ cl'.app_read = 0 /\ cl'.app_write = 0
  <2> SUFFICES ASSUME pc' = "finish", cl' = WithApplicationKeys(c)
               PROVE  /\ cl'.cets[1][1] = "c ap traffic" /\ cl'.sets[1][1] = "s ap traffic"
                      /\ cl'.app_read = 0 /\ cl'.app_write = 0
    BY <1>2
  <2>1. /\ cl'.cets = Some(DeriveSecret(c.handshake_secret[1], "c ap traffic", c.transcript))
        /\ cl'.sets = Some(DeriveSecret(c.handshake_secret[1], "s ap traffic", c.transcript))
        /\ cl'.app_read = 0 /\ cl'.app_write = 0
    BY <1>6 DEF WithApplicationKeys
  <2>2. cl'.cets[1][1] = "c ap traffic" /\ cl'.sets[1][1] = "s ap traffic"
    <3>1. PICK o, p : /\ o = DeriveSecret(c.handshake_secret[1], "c ap traffic", c.transcript)
                      /\ p = DeriveSecret(c.handshake_secret[1], "s ap traffic", c.transcript)
      OBVIOUS
    <3>2. o[1] = "c ap traffic" /\ p[1] = "s ap traffic"
      BY <3>1 DEF DeriveSecret
    <3>3. cl'.cets = <<o>> /\ cl'.sets = <<p>>
      BY <2>1, <3>1, Zenon DEF Some
    <3>4. cl'.cets[1] = o /\ cl'.sets[1] = p
      BY <3>3
    <3> QED
      BY <3>2, <3>4, Zenon
  <2> QED
    BY <2>1, <2>2
<1>9. Quiet' /\ SealedInv'
  BY <1>1, <1>2, <1>5 DEF Quiet, SealedInv
<1>10. SequenceInv'
  <2>1. pc' \in {"finish", "flight", "failed"} /\ sent' = <<>> /\ got' = <<>>
    BY <1>1, <1>2, <1>5
  <2>2. pc' = "finish" => cl'.app_read = 0 /\ cl'.app_write = 0
    BY <1>8
  <2>3. Len(sent') = 0 /\ Len(got') = 0
    BY <2>1
  <2> HIDE DEF TInv
  <2> QED
    BY <2>1, <2>2, <2>3 DEF SequenceInv
<1>11. Labels'
  BY <1>1, <1>2, <1>5, <1>7, <1>8 DEF Labels
<1> QED
  BY <1>1, <1>3, <1>4, <1>7, <1>9, <1>10, <1>11

LEMMA ClientFinishedTInv ==
    ASSUME TInv, ClientFinishedRecord
    PROVE  TInv'
<1> DEFINE r == Protect(cl.chts[1], cl.hs_write, "handshake", Units(ClientFinished(cl)))
<1>1. /\ pc = "finish" /\ pc' = "data" /\ up' = Append(up, r) /\ sealed' = sealed \cup {r}
      /\ cl' = [cl EXCEPT !.transcript = Append(@, ClientFinished(cl)), !.hs_write = @ + 1]
      /\ UNCHANGED <<server, sent, got, down, peer>>
  BY DEF ClientFinishedRecord
<1>2. r.secret = cl.chts[1]
  BY DEF Protect
<1> HIDE DEF r
<1>3. sealed = {} /\ up = <<>> /\ sent = <<>> /\ got = <<>> /\ peer.got = <<>>
  BY <1>1 DEF TInv, Quiet
<1>4. ClientShape' /\ cl'.cets = cl.cets /\ cl'.sets = cl.sets
      /\ cl'.app_read = cl.app_read /\ cl'.app_write = cl.app_write
  BY <1>1 DEF TInv, ClientShape
<1>5. r.secret[1] = "c hs traffic"
  BY <1>1, <1>2 DEF TInv, Labels
<1>6. Labels'
  BY <1>1, <1>4 DEF TInv, Labels
<1>7. SealedInv'
  <2>1. up' = <<r>> /\ sealed' = {r}
    BY <1>1, <1>3
  <2>2. PICK S : S = {r}
    OBVIOUS
  <2>3. <<r>> \in Seq(S)
    BY <2>2
  <2>4. up' \in Seq(sealed')
    BY <2>1, <2>2, <2>3, Zenon
  <2>5. \A x \in sealed' : x = r
    BY <2>1
  <2> QED
    BY <1>5, <2>4, <2>5 DEF SealedInv
<1>8. Quiet' /\ SequenceInv'
  BY <1>1, <1>4 DEF TInv, Quiet, SequenceInv
<1>9. DataInv' /\ PeerInv'
  BY <1>1, DataFrame
<1>10. Wire(down', server'.flavour, Len(peer.got)') /\ server'.flavour \in Flavours
  BY <1>1 DEF TInv
<1> QED
  BY <1>4, <1>6, <1>7, <1>8, <1>9, <1>10 DEF TInv

LEMMA SealTInv ==
    ASSUME TInv, SealAppRecord
    PROVE  TInv'
<1> DEFINE r == Protect(cl.cets[1], cl.app_write, "appdata", <<Len(sent) + 1>>)
<1>1. /\ pc = "data" /\ pc' = "data" /\ up' = Append(up, r) /\ sealed' = sealed \cup {r}
      /\ sent' = Append(sent, Len(sent) + 1) /\ cl' = [cl EXCEPT !.app_write = @ + 1]
      /\ UNCHANGED <<server, got, down, peer>>
  BY DEF SealAppRecord
<1>2. Counting(sent') /\ Len(sent) \in Nat /\ Len(sent') = Len(sent) + 1
  BY <1>1, CountingAppend DEF TInv, DataInv
<1>3. cl.app_write = Len(sent) /\ cl.cets[1][1] = "c ap traffic"
  BY <1>1 DEF TInv, SequenceInv, Labels
<1>4. ClientShape' /\ cl'.cets = cl.cets /\ cl'.sets = cl.sets /\ cl'.chts = cl.chts
      /\ cl'.app_read = cl.app_read /\ cl'.app_write = cl.app_write + 1
  BY <1>1 DEF TInv, ClientShape
<1>5. r = DataRecord(Len(sent)) /\ r.secret = cl.cets[1]
  BY <1>3 DEF DataRecord, Protect
<1>6. \A n : DataRecord(n)' = DataRecord(n)
  BY <1>4 DEF DataRecord
<1> HIDE DEF r
<1>7. SealedInv'
  <2>1. up' \in Seq(sealed')
    <3>1. up \in Seq(sealed) /\ sealed \subseteq sealed'
      BY <1>1 DEF TInv, SealedInv
    <3>2. up \in Seq(sealed') /\ r \in sealed'
      BY <1>1, <3>1, SeqGrows
    <3> QED
      BY <1>1, <3>2
  <2>2. ASSUME NEW x \in sealed'
        PROVE  x.secret[1] = "c hs traffic" \/ \E n \in 0..(Len(sent') - 1) : x = DataRecord(n)'
    <3>1. CASE x = r
      <4>1. Len(sent) \in 0..(Len(sent') - 1)
        BY <1>2
      <4> QED
        BY <1>5, <1>6, <3>1, <4>1
    <3>2. CASE x \in sealed
      <4>1. x.secret[1] = "c hs traffic" \/ \E n \in 0..(Len(sent) - 1) : x = DataRecord(n)
        BY <3>2 DEF TInv, SealedInv
      <4>2. 0..(Len(sent) - 1) \subseteq 0..(Len(sent') - 1)
        BY <1>2
      <4> QED
        BY <1>6, <4>1, <4>2
    <3> QED
      BY <1>1, <3>1, <3>2
  <2>3. r.secret[1] # "c hs traffic"
    BY <1>3, <1>5
  <2>4. \A a, b \in sealed' :
           a.secret[1] = "c hs traffic" /\ b.secret[1] = "c hs traffic" => a = b
    BY <1>1, <2>3 DEF TInv, SealedInv
  <2> QED
    BY <2>1, <2>2, <2>4 DEF SealedInv
<1>8. DataInv' /\ PeerInv'
  BY <1>1, <1>2 DEF TInv, DataInv, PeerInv, Counting
<1>9. Quiet' /\ Labels'
  BY <1>1, <1>3, <1>4 DEF TInv, Quiet, Labels
<1>10. SequenceInv'
  BY <1>1, <1>2, <1>3, <1>4 DEF TInv, SequenceInv
<1>11. Wire(down', server'.flavour, Len(peer.got)') /\ server'.flavour \in Flavours
  BY <1>1 DEF TInv
<1> QED
  BY <1>4, <1>7, <1>8, <1>9, <1>10, <1>11 DEF TInv

LEMMA OpenTInv ==
    ASSUME TInv, OpenRecord
    PROVE  TInv'
<1> DEFINE r == Head(down)
           opened == r.type = "appdata" /\ Opens(r, cl.sets[1], cl.app_read)
<1>1. /\ pc = "data" /\ down # <<>> /\ down' = Tail(down)
      /\ UNCHANGED <<server, sent, up, peer, sealed>>
      /\ \/ ~opened /\ pc' = "failed" /\ got' = got
         \/ /\ opened /\ pc' = "data" /\ cl' = [cl EXCEPT !.app_read = @ + 1]
            /\ got' = IF r.ct = "appdata" THEN got \o r.payload ELSE got
      /\ cl' = cl \/ cl' = [cl EXCEPT !.app_read = @ + 1]
  BY DEF OpenRecord, Fail
<1>2. Wire(down', server'.flavour, Len(peer.got)') /\ Fine(r, server.flavour, Len(peer.got))
  BY <1>1, WireTail DEF TInv
<1> HIDE DEF r
<1>3. ClientShape' /\ cl'.cets = cl.cets /\ cl'.sets = cl.sets /\ cl'.chts = cl.chts
      /\ cl'.app_write = cl.app_write
      /\ (cl' = [cl EXCEPT !.app_read = @ + 1] => cl'.app_read = cl.app_read + 1)
  BY <1>1 DEF TInv, ClientShape
<1>4. /\ cl.app_read \in Nat /\ cl.app_write = Len(sent)
      /\ Len(got) = IF cl.app_read = 0 THEN 0 ELSE cl.app_read - 1
  BY <1>1 DEF TInv, SequenceInv
<1>5. /\ Counting(got) /\ Counting(peer.got) /\ Len(got) \in Nat /\ Len(peer.got) \in Nat
      /\ Len(got) <= Len(peer.got)
  BY DEF TInv, DataInv, Counting
<1>6. ASSUME opened
      PROVE  \/ r.ct = "handshake" /\ cl.app_read = 0
             \/ r.ct = "appdata" /\ cl.app_read \in 1..Len(peer.got) /\ r.payload = <<cl.app_read>>
  <2>1. r.secret = cl.sets[1] /\ r.seq = cl.app_read /\ r.type = "appdata"
    BY <1>6 DEF Opens
  <2>2. cl.sets[1][1] = "s ap traffic"
    BY <1>1 DEF TInv, Labels
  <2>3. r.secret[1] = "s ap traffic"
    BY <2>1, <2>2
  <2> QED
    BY <1>2, <2>1, <2>3 DEF Fine
<1>7. \/ got' = got /\ (pc' = "data" => cl.app_read = 0 /\ cl'.app_read = 1)
      \/ /\ got' = got \o <<Len(got) + 1>> /\ Len(got) + 1 <= Len(peer.got)
         /\ cl'.app_read = cl.app_read + 1 /\ cl.app_read = Len(got) + 1
  <2>1. CASE ~opened
    BY <1>1, <2>1
  <2>2. CASE opened
    <3>1. /\ cl'.app_read = cl.app_read + 1
          /\ got' = IF r.ct = "appdata" THEN got \o r.payload ELSE got
      BY <1>1, <1>3, <2>2
    <3>2. CASE r.ct = "handshake" /\ cl.app_read = 0
      BY <3>1, <3>2
    <3>3. CASE r.ct = "appdata" /\ cl.app_read \in 1..Len(peer.got) /\ r.payload = <<cl.app_read>>
      <4>1. cl.app_read = Len(got) + 1
        BY <1>4, <1>5, <3>3
      <4>2. got' = got \o <<Len(got) + 1>>
        BY <3>1, <3>3, <4>1
      <4> QED
        BY <1>5, <3>1, <3>3, <4>1, <4>2
    <3> QED
      BY <1>6, <2>2, <3>2, <3>3
  <2> QED
    BY <2>1, <2>2
<1>8. Counting(got') /\ Len(got') <= Len(peer.got)
      /\ (got' # got => Len(got') = Len(got) + 1)
  BY <1>5, <1>7, CountingAppend
<1>9. DataInv' /\ PeerInv'
  BY <1>1, <1>8 DEF TInv, DataInv, PeerInv
<1>10. SequenceInv'
  <2> SUFFICES ASSUME pc' = "data"
               PROVE  /\ cl'.app_write = Len(sent') /\ cl'.app_read \in Nat
                      /\ Len(got') = IF cl'.app_read = 0 THEN 0 ELSE cl'.app_read - 1
    BY <1>1 DEF SequenceInv
  <2>1. CASE got' = got /\ cl.app_read = 0 /\ cl'.app_read = 1
    BY <1>1, <1>3, <1>4, <2>1
  <2>2. CASE /\ got' = got \o <<Len(got) + 1>> /\ cl'.app_read = cl.app_read + 1
             /\ cl.app_read = Len(got) + 1
    <3>1. Len(got') = Len(got) + 1
      BY <1>5, <2>2, CountingAppend
    <3> QED
      BY <1>1, <1>3, <1>4, <1>5, <2>2, <3>1, SMTT(60)
  <2> QED
    BY <1>7, <2>1, <2>2
<1>11. Quiet'
  BY <1>1 DEF Quiet
<1>12. Labels'
  BY <1>1, <1>3 DEF TInv, Labels
<1>13. SealedInv'
  BY <1>1, <1>3 DEF TInv, SealedInv, DataRecord
<1> QED
  BY <1>1, <1>2, <1>3, <1>9, <1>10, <1>11, <1>12, <1>13 DEF TInv

LEMMA ServerReadsTInv ==
    ASSUME TInv, ServerReads
    PROVE  TInv'
<1> DEFINE r  == Head(up)
           f  == server.flavour
           ap == DeriveSecret(ServerSecret(f), "c ap traffic", ServerTranscript(f))
           sp == DeriveSecret(ServerSecret(f), "s ap traffic", ServerTranscript(f))
           k  == Len(peer.got)
<1>1. /\ up # <<>> /\ up' = Tail(up)
      /\ UNCHANGED <<server, pc, cl, sent, got, sealed>>
      /\ \/ /\ peer.state = "sent" /\ peer' = [peer EXCEPT !.state = "open", !.seq_out = 1]
            /\ down' = down \/ down' = Append(down, Ticket(f, 0))
         \/ /\ peer.state = "open" /\ Opens(r, ap, k)
            /\ peer' = [peer EXCEPT !.got = @ \o r.payload, !.seq_out = @ + 1]
            /\ down' = Append(down, Protect(sp, peer.seq_out, "appdata", r.payload))
         \/ peer' = [peer EXCEPT !.state = "failed"] /\ down' = down
  BY DEF ServerReads
<1>2. r \in sealed /\ up' \in Seq(sealed)
  <2>1. up \in Seq(sealed) /\ up # <<>>
    BY <1>1 DEF TInv, SealedInv
  <2>2. Head(up) \in sealed /\ Tail(up) \in Seq(sealed)
    BY <2>1
  <2> QED
    BY <1>1, <2>2, Zenon
<1> HIDE DEF r, f
<1>3. /\ k \in Nat /\ Counting(peer.got) /\ Counting(sent) /\ k <= Len(sent) /\ Len(sent) \in Nat
      /\ Counting(got) /\ Len(got) <= k /\ Len(got) \in Nat
  BY DEF TInv, DataInv, Counting
<1>4. pc \in {"data", "done", "failed"}
  BY <1>1 DEF TInv, Quiet
<1>5. ClientShape' /\ Quiet' /\ Labels' /\ SealedInv'
  <2>1. UNCHANGED <<pc, cl, sent, sealed>>
    BY <1>1
  <2> QED
    BY <1>2, <1>4, <2>1 DEF TInv, ClientShape, Quiet, Labels, SealedInv, DataRecord
<1>6. SequenceInv' /\ server'.flavour \in Flavours /\ server'.flavour = server.flavour
  BY <1>1 DEF TInv, SequenceInv
<1>7. CASE /\ peer.state = "sent" /\ peer' = [peer EXCEPT !.state = "open", !.seq_out = 1]
           /\ down' = down \/ down' = Append(down, Ticket(f, 0))
  <2>1. peer'.got = peer.got /\ peer.got = <<>> /\ PeerInv'
    <3>1. peer.got = <<>> /\ Len(peer.got) = 0
      BY <1>7 DEF TInv, PeerInv
    <3>2. peer' = [state |-> "open", got |-> peer.got, seq_out |-> 1]
      BY <1>7 DEF TInv, PeerInv
    <3> QED
      BY <3>1, <3>2 DEF PeerInv
  <2>2. Fine(Ticket(f, 0), server.flavour, k)
    BY ApplicationFine DEF Ticket
  <2>3. Wire(down', server.flavour, k)
    BY <1>7, <2>2, WireAppend DEF TInv
  <2>4. DataInv'
    BY <1>1, <2>1 DEF TInv, DataInv, Counting
  <2> QED
    BY <1>5, <1>6, <2>1, <2>3, <2>4 DEF TInv
<1>8. CASE /\ peer.state = "open" /\ Opens(r, ap, k)
           /\ peer' = [peer EXCEPT !.got = @ \o r.payload, !.seq_out = @ + 1]
           /\ down' = Append(down, Protect(sp, peer.seq_out, "appdata", r.payload))
  <2>1. r.secret = ap /\ r.seq = k
    BY <1>8 DEF Opens
  <2>2. r.secret[1] = "c ap traffic"
    <3>1. \A x, y : DeriveSecret(x, "c ap traffic", y)[1] = "c ap traffic"
      BY DEF DeriveSecret
    <3> QED
      BY <2>1, <3>1, Zenon
  <2>3. r.payload = <<k + 1>> /\ k + 1 <= Len(sent)
    <3>1. PICK n \in 0..(Len(sent) - 1) : r = DataRecord(n)
      BY <1>2, <2>2 DEF TInv, SealedInv
    <3>2. r.seq = n /\ r.payload = <<n + 1>>
      BY <3>1 DEF DataRecord, Protect
    <3>3. n = k
      BY <2>1, <3>2, Zenon
    <3> HIDE DEF k
    <3> QED
      BY <1>3, <3>2, <3>3
  <2>4. peer.seq_out = k + 1
    BY <1>8 DEF TInv, PeerInv
  <2>5. /\ peer'.state = "open" /\ peer'.got = peer.got \o <<k + 1>> /\ peer'.seq_out = k + 2
        /\ peer' = [state |-> peer'.state, got |-> peer'.got, seq_out |-> peer'.seq_out]
    <3>1. peer' = [state |-> peer.state, got |-> peer.got \o r.payload,
                   seq_out |-> peer.seq_out + 1]
      BY <1>8 DEF TInv, PeerInv
    <3>2. peer' = [state |-> "open", got |-> peer.got \o <<k + 1>>, seq_out |-> k + 1 + 1]
      BY <1>8, <2>3, <2>4, <3>1, Zenon
    <3>3. k + 1 + 1 = k + 2
      BY <1>3
    <3> HIDE DEF k
    <3> QED
      BY <3>2, <3>3
  <2>6. Counting(peer'.got) /\ Len(peer'.got) = k + 1
    BY <1>3, <2>5, CountingAppend
  <2>7. DataInv' /\ PeerInv'
    <3>1. sent' = sent /\ got' = got
      BY <1>1
    <3>2. Len(got) <= k + 1 /\ k + 2 = k + 1 + 1
      BY <1>3
    <3>3. peer'.state # "sent" /\ peer'.seq_out = Len(peer'.got) + 1
      BY <2>5, <2>6, <3>2
    <3>4. PeerInv'
      BY <2>5, <3>3 DEF PeerInv
    <3>5. Len(got') <= Len(peer'.got) /\ Len(peer'.got) <= Len(sent')
      BY <2>3, <2>6, <3>1, <3>2
    <3>6. DataInv'
      BY <1>3, <2>6, <3>1, <3>5 DEF DataInv
    <3> QED
      BY <3>4, <3>6
  <2>8. Wire(down', server.flavour, k + 1)
    <3>1. Wire(down, server.flavour, k + 1)
      BY <1>3, WireGrows DEF TInv
    <3>2. Fine(Protect(sp, k + 1, "appdata", <<k + 1>>), server.flavour, k + 1)
      <4>1. k + 1 \in 1..(k + 1)
        BY <1>3
      <4> QED
        BY <4>1, ApplicationFine
    <3> QED
      BY <1>8, <2>3, <2>4, <3>1, <3>2, WireAppend
  <2> QED
    BY <1>5, <1>6, <2>6, <2>7, <2>8 DEF TInv
<1>9. CASE peer' = [peer EXCEPT !.state = "failed"] /\ down' = down
  <2>1. peer'.got = peer.got /\ PeerInv'
    BY <1>9 DEF TInv, PeerInv
  <2>2. DataInv'
    BY <1>1, <2>1 DEF TInv, DataInv, Counting
  <2> QED
    BY <1>5, <1>6, <1>9, <2>1, <2>2 DEF TInv
<1> QED
  BY <1>1, <1>7, <1>8, <1>9

(* The network touches the wire alone. *)
LEMMA NetworkTInv ==
    ASSUME TInv, InsertCcs \/ Disturb
    PROVE  TInv'
<1> DEFINE k == Len(peer.got)
<1>1. UNCHANGED <<server, pc, cl, sent, got, up, peer, sealed>>
  BY DEF InsertCcs, Disturb
<1>2. Wire(down, server.flavour, k) /\ Len(down) \in Nat
  BY DEF TInv, Wire
<1>3. Wire(down', server.flavour, k)
  <2>1. CASE InsertCcs
    <3>1. PICK i \in 1..Len(down) : down' = Inserted(down, i, ChangeCipherSpec)
      BY <2>1 DEF InsertCcs
    <3>2. Fine(ChangeCipherSpec, server.flavour, k)
      BY DEF Fine, ChangeCipherSpec
    <3>3. i \in 1..(Len(down) + 1)
      BY <1>2
    <3> QED
      BY <1>2, <3>1, <3>2, <3>3, WireInserted
  <2>2. CASE Disturb
    <3>1. PICK i \in 1..Len(down) :
             \/ down' = Without(down, i)
             \/ down' = Inserted(down, i, down[i])
             \/ i > 1 /\ down' = Inserted(Without(down, i), i - 1, down[i])
             \/ down' = [down EXCEPT ![i] = Damaged(down[i])]
      BY <2>2 DEF Disturb
    <3>2. Fine(down[i], server.flavour, k)
      BY <1>2, WireIndex
    <3>3. Wire(Without(down, i), server.flavour, k) /\ Len(Without(down, i)) = Len(down) - 1
      BY <1>2, WireWithout
    <3>4. i \in 1..(Len(down) + 1)
      BY <1>2
    <3>5. Wire(Inserted(down, i, down[i]), server.flavour, k)
      BY <1>2, <3>2, <3>4, WireInserted
    <3>6. i > 1 => Wire(Inserted(Without(down, i), i - 1, down[i]), server.flavour, k)
      <4>1. i > 1 => i - 1 \in 1..(Len(Without(down, i)) + 1)
        BY <1>2, <3>3
      <4> QED
        BY <3>2, <3>3, <4>1, WireInserted
    <3>7. Wire([down EXCEPT ![i] = Damaged(down[i])], server.flavour, k)
      BY <1>2, <3>2, DamagedFine, WireUpdate
    <3> QED
      BY <3>1, <3>3, <3>5, <3>6, <3>7
  <2> QED
    BY <2>1, <2>2
<1>4. DataInv' /\ PeerInv'
  BY <1>1, DataFrame
<1>5. ClientShape' /\ Quiet' /\ Labels' /\ SealedInv' /\ SequenceInv'
  BY <1>1 DEF TInv, ClientShape, Quiet, Labels, SealedInv, SequenceInv, DataRecord
<1> QED
  BY <1>1, <1>3, <1>4, <1>5 DEF TInv

(* The driver stops, or nothing happens. *)
LEMMA EndTInv ==
    ASSUME TInv, Finish \/ Timeout \/ Ended \/ UNCHANGED vars
    PROVE  TInv'
<1>1. /\ UNCHANGED <<server, cl, sent, got, down, up, peer, sealed>>
      /\ pc' = pc \/ pc' \in {"done", "failed"}
  BY DEF Finish, Timeout, Ended, Fail, vars, net
<1>2. DataInv' /\ PeerInv'
  BY <1>1, DataFrame
<1>3. ClientShape' /\ Quiet' /\ SealedInv'
  BY <1>1 DEF TInv, ClientShape, Quiet, SealedInv, DataRecord
<1>4. Labels' /\ SequenceInv'
  BY <1>1 DEF TInv, Labels, SequenceInv
<1> QED
  BY <1>1, <1>2, <1>3, <1>4 DEF TInv

LEMMA NextTInv == TInv /\ [Next]_vars => TInv'
<1> SUFFICES ASSUME TInv, [Next]_vars PROVE TInv'
  OBVIOUS
<1>1. CASE Start
  BY <1>1, StartTInv
<1>2. CASE ProcessServerHello
  BY <1>2, ProcessServerHelloTInv
<1>3. CASE DeriveHandshakeKeys
  BY <1>3, DeriveTInv
<1>4. CASE ProcessServerFlight
  BY <1>4, FlightTInv
<1>5. CASE ClientFinishedRecord
  BY <1>5, ClientFinishedTInv
<1>6. CASE SealAppRecord
  BY <1>6, SealTInv
<1>7. CASE OpenRecord
  BY <1>7, OpenTInv
<1>8. CASE ServerReads
  BY <1>8, ServerReadsTInv
<1>9. CASE InsertCcs \/ Disturb
  BY <1>9, NetworkTInv
<1>10. CASE Finish \/ Timeout \/ Ended \/ UNCHANGED vars
  BY <1>10, EndTInv
<1> QED
  BY <1>1, <1>2, <1>3, <1>4, <1>5, <1>6, <1>7, <1>8, <1>9, <1>10 DEF Next

LEMMA Invariant == Spec => []TInv
BY InitTInv, NextTInv, PTL DEF Spec

-----------------------------------------------------------------------------
(* What the client knows of the server's hello, and what follows for its   *)
(* keys.                                                                   *)
HelloInv ==
    LET f == server.flavour IN
    /\ pc = "derive" =>
          /\ f.shape = "ok" /\ f.suite \in Suites /\ cl.suite = Some(f.suite)
          /\ \E s : s # "none" /\ cl.transcript = Hellos(f, s)
    /\ pc = "flight" =>
          /\ f.shape = "ok" /\ f.suite \in Suites
          /\ \E s : /\ s # "none" /\ cl.handshake_secret = Some(Secret(f, s))
                    /\ cl.shts = Some(DeriveSecret(Secret(f, s), "s hs traffic", Hellos(f, s)))

(* The second inductive invariant, on top of the first. *)
KInv ==
    /\ HelloInv /\ KeysAgree /\ TypeOK
    /\ pc \notin {"data", "done", "failed"} => cl.hs_write = 0

(* Only the flight's own secret equals it, and only with the server's      *)
(* share.                                                                  *)
LEMMA ShareIsServers ==
    ASSUME NEW f, NEW s,
           DeriveSecret(Secret(f, s), "s hs traffic", Hellos(f, s)) = FlightSecret(f)
    PROVE  s = f.share /\ Secret(f, s) = ServerSecret(f)
<1>1. PICK x, y, th, tt : /\ x = Secret(f, s) /\ y = ServerSecret(f)
                          /\ th = Hellos(f, s) /\ tt = Th0(f)
  OBVIOUS
<1>2. DeriveSecret(x, "s hs traffic", th) = DeriveSecret(y, "s hs traffic", tt)
  BY <1>1, Zenon DEF FlightSecret
<1>3. x = y
  BY <1>2 DEF DeriveSecret
<1>4. PICK p, q : p = <<"client share", s>> /\ q = <<"client share", f.share>>
  OBVIOUS
<1>5. x = <<"hs", f.suite, p>> /\ y = <<"hs", f.suite, q>>
  BY <1>1, <1>4, Zenon DEF Secret, ServerSecret, ServerShared, HandshakeSecret
<1>6. p = q
  <2>1. PICK u : u = f.suite
    OBVIOUS
  <2>2. <<"hs", u, p>> = <<"hs", u, q>>
    BY <1>3, <1>5, <2>1, Zenon
  <2> QED
    BY <2>2
<1>7. s = f.share
  <2>1. PICK h : h = f.share
    OBVIOUS
  <2>2. <<"client share", s>> = <<"client share", h>>
    BY <1>4, <1>6, <2>1, Zenon
  <2>3. s = h
    BY <2>2
  <2> QED
    BY <2>1, <2>3
<1> QED
  BY <1>1, <1>3, <1>7, Zenon

(* The errors of a flight are errors of the client core. *)
LEMMA FlightErrors ==
    ASSUME NEW f, NEW shts, NEW a, Accum(a, f, shts)
    PROVE  FlightError(a) \in Tls13Error \cup {"none"}
<1>1. \A cv, leaf : VerifyCertificateVerify(cv, leaf) \in Tls13Error \cup {"none"}
  BY DEF VerifyCertificateVerify, Tls13Error
<1>2. a.err = None \/ \E x \in Tls13Error : a.err = Some(x)
  BY DEF Accum, Collected
<1>3. CASE a.err = None
  <2>1. "Truncated" \in Tls13Error /\ "BadHandshake" \in Tls13Error
    BY DEF Tls13Error
  <2> QED
    BY <1>1, <1>3, <2>1, Zenon DEF FlightError
<1>4. ASSUME NEW x \in Tls13Error, a.err = Some(x)
      PROVE  FlightError(a) \in Tls13Error \cup {"none"}
  <2>1. a.err # None /\ a.err[1] = x
    BY <1>4 DEF None, Some
  <2>2. FlightError(a) = a.err[1]
    BY <2>1, Zenon DEF FlightError
  <2> QED
    BY <2>1, <2>2
<1> QED
  BY <1>2, <1>3, <1>4

(* A flight that is accepted is the server's, under the server's secret,   *)
(* and signed by the holder of the leaf's key.                             *)
LEMMA AcceptedFlight ==
    ASSUME NEW f \in Flavours, NEW shts, NEW a, Accum(a, f, shts), FlightError(a) = "none"
    PROVE  /\ f.certtype = "certificate" /\ f.scheme \in RsaSchemes
           /\ f.chain # <<>> /\ f.chain[1] \notin KeylessCerts /\ f.signer = f.chain[1]
           /\ shts = FlightSecret(f) /\ a.transcript = ServerTranscript(f)
<1>1. a.err = None
  <2> SUFFICES ASSUME a.err # None PROVE FALSE
    OBVIOUS
  <2>1. PICK x \in Tls13Error : a.err = Some(x)
    BY DEF Accum, Collected
  <2>2. a.err[1] = x
    BY <2>1 DEF Some
  <2>3. FlightError(a) = a.err[1]
    BY Zenon DEF FlightError
  <2>4. x # "none"
    BY DEF Tls13Error
  <2> QED
    BY <2>2, <2>3, <2>4
<1>2. /\ a.finished /\ a.cv # None /\ a.chain # <<>>
      /\ VerifyCertificateVerify(a.cv[1], a.chain[1]) = "none"
  <2>1. FlightError(a) = IF ~a.finished THEN "Truncated"
                         ELSE IF a.cv = None \/ a.chain = <<>> THEN "BadHandshake"
                         ELSE VerifyCertificateVerify(a.cv[1], a.chain[1])
    BY <1>1, Zenon DEF FlightError
  <2>2. "Truncated" # "none" /\ "BadHandshake" # "none"
    OBVIOUS
  <2> QED
    BY <2>1, <2>2, Zenon
<1>3. shts = FlightSecret(f) /\ a.transcript = ServerTranscript(f)
  BY <1>2, Zenon DEF Accum, Collected
<1>4. a.chain = f.chain /\ f.certtype = "certificate" /\ f.chain # <<>>
  BY <1>2, Zenon DEF Accum, Collected
<1>5. PICK th, y : y = <<f.scheme, f.signer, CertTranscript(f), th>> /\ a.cv = Some(y)
  BY <1>2, Zenon DEF Accum, Collected
<1>6. a.cv[1] = y
  BY <1>5 DEF Some
<1>7. y[1] = f.scheme /\ y[2] = f.signer
  BY <1>5
<1>8. f.scheme \in RsaSchemes /\ LeafKey(f.chain[1]) = Some(Keys[f.signer])
      /\ LeafKey(f.chain[1]) # None
  <2>1. VerifyCertificateVerify(y, f.chain[1]) = "none"
    BY <1>2, <1>4, <1>6, Zenon
  <2>2. y[1] \in RsaSchemes /\ LeafKey(f.chain[1]) = Some(Keys[y[2]]) /\ LeafKey(f.chain[1]) # None
    BY <2>1 DEF VerifyCertificateVerify
  <2> QED
    BY <1>7, <2>2, Zenon
<1>9. f.signer \in DOMAIN Keys /\ f.chain[1] \in DOMAIN Certs /\ f.chain[1] \in DOMAIN Keys
  <2>1. f.signer \in DOMAIN Keys /\ f.chain \in Seq(DOMAIN Certs)
    BY FlavourAssumption
  <2>2. f.chain[1] \in DOMAIN Certs
    BY <1>4, <2>1
  <2> QED
    BY <2>1, <2>2, Tls13Assumption, Zenon
<1>10. f.chain[1] \notin KeylessCerts
  BY <1>8, <1>9, CertAssumption, Zenon
<1>11. f.signer = f.chain[1]
  <2>1. PICK leaf : leaf = f.chain[1]
    OBVIOUS
  <2>2. LeafKey(leaf) = Some(Keys[leaf])
    BY <1>8, <1>9, <2>1, CertAssumption, Zenon
  <2>3. PICK x, z : x = Keys[leaf] /\ z = Keys[f.signer]
    OBVIOUS
  <2>4. <<x>> = <<z>>
    BY <1>8, <2>1, <2>2, <2>3, Zenon DEF Some
  <2>5. x = z
    BY <2>4
  <2> QED
    BY <1>9, <2>1, <2>3, <2>5, CertAssumption, Zenon
<1> QED
  BY <1>3, <1>4, <1>8, <1>10, <1>11

-----------------------------------------------------------------------------
(* The second invariant, action by action. *)
LEMMA InitKInv == Init => KInv
BY DEF Init, KInv, HelloInv, KeysAgree, TypeOK, NewClient, None

LEMMA SomeIsNotNone == \A x : Some(x) # None /\ Some(x)[1] = x
BY DEF Some, None

LEMMA KeysFrame ==
    ASSUME KeysAgree, UNCHANGED server, cl'.sets = cl.sets, cl'.cets = cl.cets
    PROVE  KeysAgree'
BY DEF KeysAgree

(* Steps that leave the client alone. *)
LEMMA ClientAloneKInv ==
    ASSUME KInv, UNCHANGED <<cl, server>>,
           \/ UNCHANGED <<pc, err>>
           \/ pc = "start" /\ pc' = "server_hello" /\ UNCHANGED err
           \/ pc = "data" /\ pc' = "done" /\ UNCHANGED err
           \/ pc # "failed" /\ \E e \in Tls13Error \cup {"panic", "timeout"} : Fail(e),
           peer'.state \in {"wait", "sent", "open", "failed"}
    PROVE  KInv'
<1>1. KeysAgree'
  BY KeysFrame DEF KInv
<1>2. HelloInv'
  BY DEF KInv, HelloInv, Fail
<1>3. TypeOK'
  <2>1. (pc' = "failed") <=> (err' # None)
    BY SomeIsNotNone DEF KInv, TypeOK, Fail
  <2>2. err' # None => err'[1] \in Tls13Error \cup {"panic", "timeout"}
    BY DEF KInv, TypeOK, Fail, Some, None
  <2>3. /\ pc' \in {"start", "server_hello", "derive", "flight", "finish", "data", "done", "failed"}
        /\ pc' \in {"finish", "data", "done"} => pc \in {"finish", "data", "done"}
    BY DEF KInv, TypeOK, Fail
  <2> QED
    BY <2>1, <2>2, <2>3 DEF KInv, TypeOK
<1>4. pc' \notin {"data", "done", "failed"} => cl'.hs_write = 0
  BY DEF KInv, Fail
<1> QED
  BY <1>1, <1>2, <1>3, <1>4 DEF KInv

LEMMA StartKInv ==
    ASSUME TInv, KInv, Start
    PROVE  KInv'
<1>1. peer'.state = "sent"
  BY SMTT(60) DEF TInv, PeerInv, Start
<1> QED
  BY <1>1, ClientAloneKInv DEF Start

LEMMA ServerReadsKInv ==
    ASSUME TInv, KInv, ServerReads
    PROVE  KInv'
<1>1. \E x, y, z : peer' = [peer EXCEPT !.state = "open", !.seq_out = x]
         \/ peer' = [peer EXCEPT !.got = y, !.seq_out = z]
         \/ peer' = [peer EXCEPT !.state = "failed"]
  BY DEF ServerReads
<1>2. peer'.state \in {"open", "failed", peer.state}
  BY <1>1 DEF TInv, PeerInv
<1>3. peer'.state \in {"wait", "sent", "open", "failed"}
  BY <1>2 DEF KInv, TypeOK
<1> QED
  BY <1>3, ClientAloneKInv, ZenonT(60) DEF ServerReads

LEMMA NetworkKInv ==
    ASSUME KInv, InsertCcs \/ Disturb
    PROVE  KInv'
<1>1. UNCHANGED <<cl, server, pc, err, peer>>
  BY DEF InsertCcs, Disturb
<1> QED
  BY <1>1, ClientAloneKInv DEF KInv, TypeOK

LEMMA EndKInv ==
    ASSUME KInv, Finish \/ Timeout \/ UNCHANGED vars
    PROVE  KInv'
<1>1. peer' = peer /\ UNCHANGED <<cl, server>>
  BY DEF Finish, Timeout, vars
<1>2. peer'.state \in {"wait", "sent", "open", "failed"}
  BY <1>1 DEF KInv, TypeOK
<1>3. CASE Finish
  BY <1>1, <1>2, <1>3, ClientAloneKInv DEF Finish
<1>4. CASE Timeout
  BY <1>1, <1>2, <1>4, ClientAloneKInv DEF Timeout
<1>5. CASE UNCHANGED vars
  BY <1>1, <1>2, <1>5, ClientAloneKInv DEF vars
<1> QED
  BY <1>3, <1>4, <1>5

LEMMA ClientFinishedKInv ==
    ASSUME TInv, KInv, ClientFinishedRecord
    PROVE  KInv'
<1>1. /\ pc = "finish" /\ pc' = "data" /\ UNCHANGED <<err, server, peer>>
      /\ cl' = [cl EXCEPT !.transcript = Append(@, ClientFinished(cl)), !.hs_write = @ + 1]
  BY DEF ClientFinishedRecord
<1>2. /\ cl'.sets = cl.sets /\ cl'.cets = cl.cets /\ cl'.suite = cl.suite
      /\ cl'.hs_read = cl.hs_read /\ cl'.app_read = cl.app_read
      /\ cl'.app_write = cl.app_write /\ cl'.hs_write = cl.hs_write + 1
  BY <1>1 DEF TInv, ClientShape
<1>3. cl.hs_write = 0
  BY <1>1 DEF KInv
<1>4. KeysAgree'
  BY <1>1, <1>2, KeysFrame DEF KInv
<1>5. HelloInv'
  BY <1>1 DEF HelloInv
<1>6. TypeOK'
  BY <1>1, <1>2, <1>3 DEF KInv, TypeOK
<1> QED
  BY <1>1, <1>4, <1>5, <1>6 DEF KInv

LEMMA DataKInv ==
    ASSUME TInv, KInv, SealAppRecord \/ OpenRecord
    PROVE  KInv'
<1>1. /\ pc = "data" /\ UNCHANGED <<server, peer>>
      /\ \/ pc' = "data" /\ UNCHANGED err
         \/ \E e \in {"UnexpectedRecord", "DecryptFailed"} : Fail(e)
      /\ \/ cl' = cl
         \/ cl' = [cl EXCEPT !.app_write = @ + 1]
         \/ cl' = [cl EXCEPT !.app_read = @ + 1]
  BY DEF SealAppRecord, OpenRecord
<1>2. /\ cl'.sets = cl.sets /\ cl'.cets = cl.cets /\ cl'.suite = cl.suite
      /\ cl'.hs_read = cl.hs_read /\ cl'.hs_write = cl.hs_write
      /\ cl'.app_read \in {cl.app_read, cl.app_read + 1}
      /\ cl'.app_write \in {cl.app_write, cl.app_write + 1}
  BY <1>1 DEF TInv, ClientShape
<1>3. pc' \in {"data", "failed"}
  BY <1>1 DEF Fail
<1>4. KeysAgree'
  BY <1>1, <1>2, KeysFrame DEF KInv
<1>5. HelloInv'
  BY <1>3 DEF HelloInv
<1>6. TypeOK'
  <2>1. (pc' = "failed") <=> (err' # None)
    BY <1>1, SomeIsNotNone DEF KInv, TypeOK, Fail
  <2>2. err' # None => err'[1] \in Tls13Error \cup {"panic", "timeout"}
    BY <1>1 DEF KInv, TypeOK, Fail, Some, None, Tls13Error
  <2>3. cl'.app_read \in Nat /\ cl'.app_write \in Nat
    BY <1>2 DEF KInv, TypeOK
  <2> QED
    BY <1>1, <1>2, <1>3, <2>1, <2>2, <2>3 DEF KInv, TypeOK
<1> QED
  BY <1>3, <1>4, <1>5, <1>6 DEF KInv

(* process_server_hello: what it accepts is the server's hello, but for    *)
(* the share.                                                              *)
LEMMA HelloErrors ==
    ASSUME NEW f \in Flavours, NEW k, NEW r, Fine(r, f, k)
    PROVE  /\ HelloError(r) \in Tls13Error \cup {"panic", "none"}
           /\ HelloError(r) = "none" =>
                 /\ f.shape = "ok" /\ f.suite \in Suites
                 /\ r.payload = <<f.suite, r.payload[2]>> /\ r.payload[1] = f.suite
<1>1. f.shape \in {"ok", "other", "stub", "cut"}
  BY FlavourAssumption
<1>2. CASE r.type # "handshake"
  <2>1. HelloError(r) = "BadRecord"
    BY <1>2 DEF HelloError
  <2> QED
    BY <2>1 DEF Tls13Error
<1>3. CASE r.type = "handshake"
  <2>1. r.ct = f.shape /\ r.payload = <<f.suite, r.payload[2]>>
    BY <1>3 DEF Fine
  <2>2. PICK u, v : u = f.suite /\ v = r.payload[2]
    OBVIOUS
  <2>3. r.payload = <<u, v>>
    BY <2>1, <2>2, Zenon
  <2>4. r.payload[1] = f.suite
    BY <2>2, <2>3
  <2>5. r.ct = "ok" \/ HelloError(r) \in {"BadHandshake", "panic", "Truncated"}
    BY <1>1, <1>3, <2>1 DEF HelloError
  <2>6. r.ct = "ok" => HelloError(r) = IF f.suite \in Suites THEN "none" ELSE "BadCipherSuite"
    BY <1>3, <2>4 DEF HelloError
  <2> QED
    BY <2>1, <2>4, <2>5, <2>6 DEF Tls13Error
<1> QED
  BY <1>2, <1>3

LEMMA HelloKInv ==
    ASSUME TInv, KInv, ProcessServerHello
    PROVE  KInv'
<1> DEFINE f == server.flavour
<1>1. PICK r : r = Head(down)
  OBVIOUS
<1>2. f \in Flavours /\ Fine(r, f, Len(peer.got))
  BY <1>1, WireTail DEF TInv, ProcessServerHello
<1>3. /\ pc = "server_hello" /\ UNCHANGED <<server, peer>>
      /\ \/ HelloError(r) # "none" /\ Fail(HelloError(r)) /\ UNCHANGED cl
         \/ /\ HelloError(r) = "none"
            /\ cl' = [cl EXCEPT !.suite = Some(r.payload[1]),
                                !.transcript = <<HandshakeOf(HelloRecord),
                                                 Message("server_hello", 1, r.payload)>>]
            /\ \/ r.payload[2] = "none" /\ Fail("NoKeyShare")
               \/ r.payload[2] # "none" /\ pc' = "derive" /\ UNCHANGED err
  BY <1>1 DEF ProcessServerHello
<1>4. peer'.state \in {"wait", "sent", "open", "failed"}
  BY <1>3 DEF KInv, TypeOK
<1>5. CASE HelloError(r) # "none" /\ Fail(HelloError(r)) /\ UNCHANGED cl
  <2>1. HelloError(r) \in Tls13Error \cup {"panic", "timeout"}
    BY <1>2, <1>5, HelloErrors
  <2> QED
    BY <1>3, <1>4, <1>5, <2>1, ClientAloneKInv
<1>6. ASSUME HelloError(r) = "none",
             cl' = [cl EXCEPT !.suite = Some(r.payload[1]),
                              !.transcript = <<HandshakeOf(HelloRecord),
                                               Message("server_hello", 1, r.payload)>>],
             \/ r.payload[2] = "none" /\ Fail("NoKeyShare")
             \/ r.payload[2] # "none" /\ pc' = "derive" /\ UNCHANGED err
      PROVE  KInv'
  <2>1. f.shape = "ok" /\ f.suite \in Suites /\ r.payload = <<f.suite, r.payload[2]>>
        /\ r.payload[1] = f.suite
    BY <1>2, <1>6, HelloErrors
  <2>2. PICK s : s = r.payload[2]
    OBVIOUS
  <2>3. /\ cl'.suite = Some(f.suite)
        /\ cl'.transcript = <<HandshakeOf(HelloRecord), Message("server_hello", 1, r.payload)>>
        /\ cl'.sets = cl.sets /\ cl'.cets = cl.cets
        /\ cl'.hs_read = cl.hs_read /\ cl'.hs_write = cl.hs_write
        /\ cl'.app_read = cl.app_read /\ cl'.app_write = cl.app_write
    BY <1>6, <2>1 DEF TInv, ClientShape
  <2>4. cl'.transcript = Hellos(f, s)
    <3>1. r.payload = <<f.suite, s>>
      BY <2>1, <2>2, Zenon
    <3> QED
      BY <2>3, <3>1, Zenon DEF Hellos, HandshakeOf
  <2>5. KeysAgree'
    BY <1>3, <2>3, KeysFrame DEF KInv
  <2>6. pc' \in {"derive", "failed"} /\ (pc' = "derive" => s # "none")
    BY <1>6, <2>2 DEF Fail
  <2>7. HelloInv'
    BY <1>3, <2>1, <2>3, <2>4, <2>6 DEF HelloInv
  <2>8. TypeOK'
    <3>1. (pc' = "failed") <=> (err' # None)
      BY <1>3, <1>6, SomeIsNotNone DEF KInv, TypeOK, Fail
    <3>2. err' # None => err'[1] \in Tls13Error \cup {"panic", "timeout"}
      BY <1>6, SomeIsNotNone DEF KInv, TypeOK, Fail, Tls13Error
    <3>3. cl'.suite # None /\ cl'.suite[1] \in Suites
      BY <2>1, <2>3, SomeIsNotNone
    <3> QED
      BY <1>4, <2>3, <2>6, <3>1, <3>2, <3>3 DEF KInv, TypeOK
  <2> QED
    BY <1>3, <2>3, <2>5, <2>7, <2>8 DEF KInv
<1> QED
  BY <1>3, <1>5, <1>6

LEMMA DeriveKInv ==
    ASSUME TInv, KInv, DeriveHandshakeKeys
    PROVE  KInv'
<1> DEFINE f == server.flavour
<1>1. PICK s : /\ f.shape = "ok" /\ f.suite \in Suites /\ cl.suite = Some(f.suite)
               /\ s # "none" /\ cl.transcript = Hellos(f, s)
  BY DEF KInv, HelloInv, DeriveHandshakeKeys
<1>2. cl.suite[1] = f.suite
  BY <1>1, SomeIsNotNone
<1>3. cl.transcript[2].body[2] = s
  <2>1. PICK m, b, h, u : /\ u = f.suite /\ b = <<u, s>> /\ m = Message("server_hello", 1, b)
                          /\ h = HelloRecord.hs
    OBVIOUS
  <2>2. cl.transcript = <<h, m>>
    BY <1>1, <2>1, Zenon DEF Hellos
  <2>3. cl.transcript[2] = m
    BY <2>2
  <2>4. m.body = b
    BY <2>1 DEF Message
  <2>5. b[2] = s
    BY <2>1
  <2> QED
    BY <2>3, <2>4, <2>5, Zenon
<1>4. /\ pc = "derive" /\ pc' = "flight" /\ UNCHANGED <<server, err, peer>>
      /\ cl' = [cl EXCEPT !.handshake_secret = Some(Secret(f, s)),
                          !.shts = Some(DeriveSecret(Secret(f, s), "s hs traffic", Hellos(f, s))),
                          !.chts = Some(DeriveSecret(Secret(f, s), "c hs traffic", Hellos(f, s))),
                          !.hs_read = 0, !.hs_write = 0]
  BY <1>1, <1>2, <1>3, Zenon DEF DeriveHandshakeKeys, Secret
<1>5. /\ cl'.handshake_secret = Some(Secret(f, s))
      /\ cl'.shts = Some(DeriveSecret(Secret(f, s), "s hs traffic", Hellos(f, s)))
      /\ cl'.suite = cl.suite /\ cl'.sets = cl.sets /\ cl'.cets = cl.cets
      /\ cl'.hs_read = 0 /\ cl'.hs_write = 0
      /\ cl'.app_read = cl.app_read /\ cl'.app_write = cl.app_write
  BY <1>4 DEF TInv, ClientShape
<1>6. KeysAgree'
  BY <1>4, <1>5, KeysFrame DEF KInv
<1>7. HelloInv'
  BY <1>1, <1>4, <1>5 DEF HelloInv
<1>8. TypeOK'
  BY <1>4, <1>5 DEF KInv, TypeOK
<1> QED
  BY <1>4, <1>5, <1>6, <1>7, <1>8 DEF KInv

LEMMA FlightKInv ==
    ASSUME TInv, KInv, ProcessServerFlight
    PROVE  KInv'
<1> DEFINE f == server.flavour
<1>1. pc = "flight" /\ UNCHANGED <<server, peer>> /\ f \in Flavours /\ cl.hs_read \in Nat
      /\ cl.hs_write = 0 /\ err = None
  BY DEF ProcessServerFlight, TInv, KInv, TypeOK
<1>2. PICK s : /\ f.shape = "ok" /\ f.suite \in Suites /\ s # "none"
               /\ cl.handshake_secret = Some(Secret(f, s))
               /\ cl.shts = Some(DeriveSecret(Secret(f, s), "s hs traffic", Hellos(f, s)))
  BY <1>1 DEF KInv, HelloInv
<1>3. PICK n, stall, a, c, e :
         /\ n \in 1..Len(down)
         /\ a = ReadFlight(cl, SubSeq(down, 1, n), stall)
         /\ c = [cl EXCEPT !.hs_read = a.seq, !.transcript = a.transcript]
         /\ e = FlightError(a)
         /\ \/ e = "none" /\ cl' = WithApplicationKeys(c) /\ pc' = "finish" /\ UNCHANGED err
            \/ cl' = c /\ UNCHANGED <<pc, err>>
            \/ e # "none" /\ cl' = c /\ Fail(e)
  BY ZenonT(60) DEF ProcessServerFlight
<1>4. PICK x : x = DeriveSecret(Secret(f, s), "s hs traffic", Hellos(f, s))
  OBVIOUS
<1>5. cl.shts[1] = x
  BY <1>2, <1>4, SomeIsNotNone, Zenon
<1>6. HandshakeLabel(cl.shts[1])
  <2>1. HandshakeLabel(x)
    BY <1>4 DEF HandshakeLabel, DeriveSecret
  <2> QED
    BY <1>5, <2>1, Zenon
<1>7. Wire(SubSeq(down, 1, n), f, Len(peer.got))
  <2>1. Wire(down, f, Len(peer.got)) /\ Len(down) \in Nat
    BY DEF TInv, Wire
  <2>2. 1 \in Int /\ 1 <= 1 /\ n \in Int /\ n <= Len(down)
    <3>1. n \in 1..Len(down)
      BY <1>3, Zenon
    <3> QED
      BY <2>1, <3>1
  <2> QED
    BY <2>1, <2>2, WireSub
<1>8. Accum(a, f, x)
  <2>1. Accum(ReadFlight(cl, SubSeq(down, 1, n), stall), f, cl.shts[1])
    BY <1>1, <1>6, <1>7, ReadFlightAccum
  <2> QED
    BY <1>3, <1>5, <2>1, Zenon
<1>9. a.seq \in Nat
  BY <1>8, Zenon DEF Accum, Collected
<1>10. e \in Tls13Error \cup {"none"}
  BY <1>3, <1>8, FlightErrors, Zenon
<1>11. /\ c.sets = cl.sets /\ c.cets = cl.cets /\ c.suite = cl.suite /\ c.shts = cl.shts
       /\ c.handshake_secret = cl.handshake_secret /\ c.transcript = a.transcript
       /\ c.hs_read = a.seq /\ c.hs_write = 0
       /\ c.app_read = cl.app_read /\ c.app_write = cl.app_write
  BY <1>1, <1>3 DEF TInv, ClientShape
<1>12. CASE cl' = c /\ (UNCHANGED <<pc, err>> \/ (e # "none" /\ Fail(e)))
  <2>1. KeysAgree'
    BY <1>1, <1>11, <1>12, KeysFrame DEF KInv
  <2>2. pc' = "flight" \/ pc' = "failed"
    BY <1>1, <1>12 DEF Fail
  <2>3. HelloInv'
    BY <1>1, <1>2, <1>11, <1>12, <2>2 DEF HelloInv
  <2>4. TypeOK'
    <3>1. (pc' = "failed") <=> (err' # None)
      BY <1>1, <1>12, SomeIsNotNone DEF Fail
    <3>2. err' # None => err'[1] \in Tls13Error \cup {"panic", "timeout"}
      BY <1>1, <1>10, <1>12, SomeIsNotNone DEF Fail
    <3> QED
      BY <1>1, <1>9, <1>11, <1>12, <2>2, <3>1, <3>2 DEF KInv, TypeOK
  <2> QED
    BY <1>11, <1>12, <2>1, <2>3, <2>4 DEF KInv
<1>13. CASE e = "none" /\ cl' = WithApplicationKeys(c) /\ pc' = "finish" /\ UNCHANGED err
  <2>1. PICK z : z = Secret(f, s)
    OBVIOUS
  <2>2. c.handshake_secret[1] = z
    <3>1. c.handshake_secret = Some(z)
      BY <1>2, <1>11, <2>1
    <3> QED
      BY <3>1, SomeIsNotNone
  <2>3. /\ cl'.cets = Some(DeriveSecret(z, "c ap traffic", a.transcript))
        /\ cl'.sets = Some(DeriveSecret(z, "s ap traffic", a.transcript))
        /\ cl'.suite = c.suite /\ cl'.hs_read = c.hs_read /\ cl'.hs_write = c.hs_write
        /\ cl'.app_read = 0 /\ cl'.app_write = 0
    <3>1. c = [suite |-> c.suite, transcript |-> c.transcript,
               handshake_secret |-> c.handshake_secret, shts |-> c.shts, chts |-> c.chts,
               cets |-> c.cets, sets |-> c.sets, hs_read |-> c.hs_read,
               hs_write |-> c.hs_write, app_read |-> c.app_read, app_write |-> c.app_write]
      BY <1>3 DEF TInv, ClientShape
    <3>2. cl' = [c EXCEPT !.cets = Some(DeriveSecret(z, "c ap traffic", a.transcript)),
                          !.sets = Some(DeriveSecret(z, "s ap traffic", a.transcript)),
                          !.app_read = 0, !.app_write = 0]
      BY <1>11, <1>13, <2>2, Zenon DEF WithApplicationKeys
    <3> QED
      BY <3>1, <3>2
  <2>4. FlightError(a) = "none"
    BY <1>3, <1>13
  <2>5. /\ f.certtype = "certificate" /\ f.scheme \in RsaSchemes
        /\ f.chain # <<>> /\ f.chain[1] \notin KeylessCerts /\ f.signer = f.chain[1]
        /\ x = FlightSecret(f) /\ a.transcript = ServerTranscript(f)
    BY <1>1, <1>8, <2>4, AcceptedFlight
  <2>6. s = f.share /\ z = ServerSecret(f)
    <3>1. DeriveSecret(Secret(f, s), "s hs traffic", Hellos(f, s)) = FlightSecret(f)
      BY <1>4, <2>5
    <3>2. s = f.share /\ Secret(f, s) = ServerSecret(f)
      BY <3>1, ShareIsServers
    <3> QED
      BY <2>1, <3>2
  <2>7. Supported(f)
    BY <1>2, <2>5, <2>6 DEF Supported
  <2>8. KeysAgree'
    <3>1. /\ cl'.sets = Some(DeriveSecret(ServerSecret(f), "s ap traffic", ServerTranscript(f)))
          /\ cl'.cets = Some(DeriveSecret(ServerSecret(f), "c ap traffic", ServerTranscript(f)))
      BY <2>3, <2>5, <2>6, Zenon
    <3> QED
      BY <1>1, <2>5, <2>7, <3>1, Zenon DEF KeysAgree
  <2>9. HelloInv'
    BY <1>13 DEF HelloInv
  <2>10. TypeOK'
    <3>1. cl'.sets # None /\ cl'.cets # None
      BY <2>3, SomeIsNotNone
    <3>2. /\ cl'.suite = cl.suite /\ cl'.hs_read \in Nat /\ cl'.hs_write = 0
          /\ cl'.app_read = 0 /\ cl'.app_write = 0
      BY <1>9, <1>11, <2>3
    <3>3. pc' = "finish" /\ err' = None
      BY <1>1, <1>13
    <3>4. /\ cl.suite # None => cl.suite[1] \in Suites
          /\ peer'.state \in {"wait", "sent", "open", "failed"}
      BY <1>1 DEF KInv, TypeOK
    <3> QED
      BY <3>1, <3>2, <3>3, <3>4 DEF TypeOK
  <2> QED
    BY <1>11, <2>3, <2>8, <2>9, <2>10 DEF KInv
<1> QED
  BY <1>3, <1>12, <1>13

LEMMA NextKInv == TInv /\ KInv /\ [Next]_vars => KInv'
<1> SUFFICES ASSUME TInv, KInv, [Next]_vars PROVE KInv'
  OBVIOUS
<1>1. CASE Start
  BY <1>1, StartKInv
<1>2. CASE ProcessServerHello
  BY <1>2, HelloKInv
<1>3. CASE DeriveHandshakeKeys
  BY <1>3, DeriveKInv
<1>4. CASE ProcessServerFlight
  BY <1>4, FlightKInv
<1>5. CASE ClientFinishedRecord
  BY <1>5, ClientFinishedKInv
<1>6. CASE SealAppRecord \/ OpenRecord
  BY <1>6, DataKInv
<1>7. CASE ServerReads
  BY <1>7, ServerReadsKInv
<1>8. CASE InsertCcs \/ Disturb
  BY <1>8, NetworkKInv
<1>9. CASE Finish \/ Timeout \/ Ended \/ UNCHANGED vars
  BY <1>9, EndKInv DEF Ended
<1> QED
  BY <1>1, <1>2, <1>3, <1>4, <1>5, <1>6, <1>7, <1>8, <1>9 DEF Next

LEMMA KeysInvariant == Spec => []KInv
<1>1. Init => KInv
  BY InitKInv
<1>2. TInv /\ KInv /\ [Next]_vars => KInv'
  BY NextKInv
<1> QED
  BY <1>1, <1>2, Invariant, PTL DEF Spec

-----------------------------------------------------------------------------
(* The client core seals no two records under one secret and one sequence: *)
(* its Finished is the only record under the handshake secret, and         *)
(* seal_app_record spends a sequence number on each piece of data.         *)
THEOREM NonceCorrect == Spec => []NonceOnce
<1>1. TInv => NonceOnce
  <2> SUFFICES ASSUME TInv, NEW a \in sealed, NEW b \in sealed,
                      a.secret = b.secret, a.seq = b.seq
               PROVE  a = b
    BY DEF NonceOnce
  <2>1. CASE a.secret[1] = "c hs traffic"
    BY <2>1 DEF TInv, SealedInv
  <2>2. CASE a.secret[1] # "c hs traffic"
    <3>1. PICK m : a = DataRecord(m)
      BY <2>2 DEF TInv, SealedInv
    <3>2. b.secret[1] # "c hs traffic"
      BY <2>2
    <3>3. PICK n : b = DataRecord(n)
      BY <3>2 DEF TInv, SealedInv
    <3>4. m = n
      <4>1. a.seq = m
        BY <3>1 DEF DataRecord, Protect
      <4>2. b.seq = n
        BY <3>3 DEF DataRecord, Protect
      <4> QED
        BY <4>1, <4>2
    <3> QED
      BY <3>1, <3>3, <3>4
  <2> QED
    BY <2>1, <2>2
<1> QED
  BY <1>1, Invariant, PTL

(* What the driver gets from open_record is what it gave seal_app_record,  *)
(* in order from the first, whatever the network loses, repeats, swaps or  *)
(* damages and wherever the handshake stops.                               *)
THEOREM DataCorrect == Spec => []DataInOrder
<1>1. TInv => DataInOrder
  <2> SUFFICES ASSUME TInv PROVE DataInOrder
    OBVIOUS
  <2>1. /\ Counting(sent) /\ Counting(got) /\ Counting(peer.got)
        /\ Len(got) <= Len(peer.got) /\ Len(peer.got) <= Len(sent)
    BY DEF TInv, DataInv
  <2>2. Len(got) <= Len(sent)
    BY <2>1 DEF Counting
  <2>3. got = SubSeq(sent, 1, Len(got)) /\ peer.got = SubSeq(sent, 1, Len(peer.got))
    BY <2>1, <2>2, CountingPrefix
  <2> QED
    BY <2>1, <2>3 DEF DataInOrder
<1> QED
  BY <1>1, Invariant, PTL

(* Every error the driver stops with is one of the client core, a panic or *)
(* a timeout, a suite the client has is one it offered, and it has both    *)
(* application secrets once it is past the flight.                         *)
THEOREM TypeCorrect == Spec => []TypeOK
<1>1. KInv => TypeOK
  BY DEF KInv
<1> QED
  BY <1>1, KeysInvariant, PTL

(* The application secrets process_server_flight installs are the          *)
(* server's, from the whole of its flight and a signature by the leaf's    *)
(* key: whichever records are lost, repeated, swapped or damaged, however  *)
(* the flight is cut into records and calls, and for any chains, keys and  *)
(* extra messages.                                                         *)
THEOREM KeysCorrect == Spec => []KeysAgree
<1>1. KInv => KeysAgree
  BY DEF KInv
<1> QED
  BY <1>1, KeysInvariant, PTL

-----------------------------------------------------------------------------
(* The flight in detail: its last three messages are the Certificate, the  *)
(* CertificateVerify and the Finished, and every message has a header.     *)
Shaped(ms, f) ==
    /\ ms \in Seq(Messages(f)) /\ Len(ms) \in Nat /\ Len(ms) >= 4
    /\ ms[Len(ms) - 2] = CertMsg(f) /\ ms[Len(ms) - 1] = VerifyMsg(f)
    /\ ms[Len(ms)] = FinishedMsg(f)
    /\ \A j \in 1..(Len(ms) - 3) :
          ms[j].type \notin {"certificate", "certificate_verify", "finished"}
    /\ \A j \in 1..Len(ms) : ms[j].size \in Nat \ {0}

LEMMA FlightShaped ==
    ASSUME NEW f \in Flavours
    PROVE  Shaped(FlightMessages(f), f)
<1>1. PICK ee, x, c, v, z : /\ ee = Message("encrypted_extensions", 1, <<>>) /\ x = f.extra
                            /\ c = CertMsg(f) /\ v = VerifyMsg(f) /\ z = FinishedMsg(f)
  OBVIOUS
<1>2. PICK X : X = {x[i] : i \in DOMAIN x}
  OBVIOUS
<1>3. /\ x \in Seq(X)
      /\ \A m \in X : /\ m.size \in Nat \ {0}
                      /\ m.type \notin {"certificate", "certificate_verify", "finished"}
  BY <1>1, <1>2, FlavourAssumption
<1>4. PICK S : S = X \cup {ee, c, v, z}
  OBVIOUS
<1>5. PICK o, t, h : o = <<ee>> /\ t = <<c, v, z>> /\ h = o \o x
  OBVIOUS
<1>6. PICK ms : ms = FlightMessages(f)
  OBVIOUS
<1>7. ms = h \o t
  BY <1>1, <1>5, <1>6, FlightIs, Zenon
<1>8. o \in Seq(S) /\ x \in Seq(S) /\ t \in Seq(S)
  <2>1. x \in Seq(S)
    BY <1>3, <1>4, SeqGrows
  <2> QED
    BY <1>4, <1>5, <2>1
<1>9. /\ h \in Seq(S) /\ Len(h) = Len(x) + 1 /\ h[1] = ee /\ Len(x) \in Nat
      /\ \A i \in 2..Len(h) : h[i] = x[i - 1]
  BY <1>5, <1>8
<1>10. Len(t) = 3 /\ t[1] = c /\ t[2] = v /\ t[3] = z
  BY <1>5
<1>11. /\ Len(ms) = Len(h) + 3 /\ ms \in Seq(S)
       /\ \A i \in 1..Len(h) : ms[i] = h[i]
       /\ ms[Len(h) + 1] = c /\ ms[Len(h) + 2] = v /\ ms[Len(h) + 3] = z
  <2>1. ASSUME NEW a \in Seq(S), NEW b \in Seq(S), Len(b) = 3
        PROVE  /\ Len(a \o b) = Len(a) + 3 /\ a \o b \in Seq(S)
               /\ \A i \in 1..Len(a) : (a \o b)[i] = a[i]
               /\ (a \o b)[Len(a) + 1] = b[1] /\ (a \o b)[Len(a) + 2] = b[2]
               /\ (a \o b)[Len(a) + 3] = b[3]
    <3>1. PICK l, q : l = Len(a) /\ q = a \o b
      OBVIOUS
    <3>2. /\ l \in Nat /\ q \in Seq(S) /\ Len(q) = l + 3
          /\ \A i \in 1..(l + 3) : q[i] = IF i <= l THEN a[i] ELSE b[i - l]
      <4>1. /\ a \o b \in Seq(S) /\ Len(a \o b) = Len(a) + Len(b)
            /\ \A i \in 1..(Len(a) + Len(b)) :
                  (a \o b)[i] = IF i <= Len(a) THEN a[i] ELSE b[i - Len(a)]
        BY <2>1, ConcatProperties
      <4>2. Len(a) \in Nat
        BY <2>1
      <4> QED
        BY <2>1, <3>1, <4>1, <4>2
    <3>3. q[l + 1] = b[1] /\ q[l + 2] = b[2] /\ q[l + 3] = b[3]
      <4>1. /\ l + 1 \in 1..(l + 3) /\ l + 2 \in 1..(l + 3) /\ l + 3 \in 1..(l + 3)
            /\ ~(l + 1 <= l) /\ ~(l + 2 <= l) /\ ~(l + 3 <= l)
            /\ (l + 1) - l = 1 /\ (l + 2) - l = 2 /\ (l + 3) - l = 3
        BY <3>2
      <4> QED
        BY <3>2, <4>1
    <3>4. \A i \in 1..l : q[i] = a[i]
      BY <3>2
    <3> QED
      BY <3>1, <3>2, <3>3, <3>4
  <2> QED
    BY <1>7, <1>8, <1>9, <1>10, <2>1, SMTT(60)
<1>12. /\ ee.size = 1 /\ ee.type = "encrypted_extensions" /\ c.size = 2 /\ v.size = 1 /\ z.size = 1
  BY <1>1 DEF Message, CertMsg, VerifyMsg, FinishedMsg
<1>13. \A i \in 1..Len(h) : h[i] = ee \/ h[i] \in X
  <2> TAKE i \in 1..Len(h)
  <2>1. CASE i = 1
    BY <1>9, <2>1
  <2>2. CASE i # 1
    <3>1. h[i] = x[i - 1] /\ i - 1 \in 1..Len(x)
      BY <1>9, <2>2
    <3> QED
      BY <1>3, <3>1
  <2> QED
    BY <2>1, <2>2
<1>14. \A i \in 1..Len(h) : /\ h[i].size \in Nat \ {0}
                            /\ h[i].type \notin {"certificate", "certificate_verify", "finished"}
  BY <1>3, <1>12, <1>13
<1>15. ms \in Seq(Messages(f))
  BY <1>6, FlightParts
<1>16. /\ Len(ms) \in Nat /\ Len(ms) >= 4 /\ Len(ms) - 3 = Len(h) /\ Len(ms) - 2 = Len(h) + 1
       /\ Len(ms) - 1 = Len(h) + 2 /\ Len(ms) = Len(h) + 3
  BY <1>9, <1>11
<1>17. \A j \in 1..Len(ms) : ms[j].size \in Nat \ {0}
  <2> TAKE j \in 1..Len(ms)
  <2>1. j \in 1..Len(h) \/ j = Len(h) + 1 \/ j = Len(h) + 2 \/ j = Len(h) + 3
    BY <1>9, <1>11
  <2> QED
    BY <1>11, <1>12, <1>14, <2>1
<1>18. Shaped(ms, f)
  <2>1. ms[Len(ms) - 2] = c /\ ms[Len(ms) - 1] = v /\ ms[Len(ms)] = z
    BY <1>11, <1>16
  <2>2. \A j \in 1..(Len(ms) - 3) :
          ms[j].type \notin {"certificate", "certificate_verify", "finished"}
    BY <1>11, <1>14, <1>16
  <2> QED
    BY <1>1, <1>15, <1>16, <1>17, <2>1, <2>2 DEF Shaped
<1> QED
  BY <1>6, <1>18

(* Where each message of the flight lies among its units. *)
Laid(pos, ms, U) ==
    /\ pos \in [0..Len(ms) -> Nat] /\ pos[0] = 0 /\ pos[Len(ms)] = Len(U)
    /\ \A j \in 0..Len(ms) : pos[j] <= Len(U)
    /\ \A j \in 1..Len(ms) : /\ pos[j] = pos[j - 1] + ms[j].size
                             /\ U[pos[j - 1] + 1] = [of |-> ms[j], part |-> 1]

LEMMA FlightLaid ==
    ASSUME NEW f \in Flavours
    PROVE  \E pos : Laid(pos, FlightMessages(f), AllUnits(FlightMessages(f)))
<1> DEFINE Cat(ms, n, g) ==
              g = [i \in 0..n |-> IF i = 0 THEN <<>> ELSE g[i - 1] \o Units(ms[i])]
<1>1. PICK ms, S : ms = FlightMessages(f) /\ S = FlightUnits(f)
  OBVIOUS
<1>2. /\ ms \in Seq(Messages(f)) /\ Len(ms) \in Nat
      /\ \A i \in 1..Len(ms) : ms[i] \in Messages(f) /\ ms[i].size \in Nat \ {0}
  BY <1>1, FlightShaped DEF Shaped
<1>3. \A i \in 1..Len(ms) : Units(ms[i]) \in Seq(S) /\ Len(Units(ms[i])) = ms[i].size
        /\ Units(ms[i])[1] = [of |-> ms[i], part |-> 1]
  <2> TAKE i \in 1..Len(ms)
  <2>1. PICK m : m = ms[i]
    OBVIOUS
  <2>2. m \in Messages(f) /\ m.size \in Nat \ {0}
    BY <1>2, <2>1
  <2>3. UnitsOf(m) \subseteq S
    BY <1>1, <2>2 DEF FlightUnits
  <2>4. Units(m) = [k \in 1..m.size |-> [of |-> m, part |-> k]]
    BY DEF Units
  <2>5. \A k \in 1..m.size : [of |-> m, part |-> k] \in S
    BY <2>3 DEF UnitsOf
  <2>6. Units(m) \in Seq(S) /\ Len(Units(m)) = m.size
    BY <2>2, <2>4, <2>5
  <2>7. Units(m)[1] = [of |-> m, part |-> 1]
    BY <2>2, <2>4
  <2> QED
    BY <2>1, <2>6, <2>7
<1>4. PICK g : Cat(ms, Len(ms), g) /\ AllUnits(ms) = g[Len(ms)]
  BY <1>1, FlightCat
<1>5. g[0] = <<>> /\ \A n \in 1..Len(ms) : g[n] = g[n - 1] \o Units(ms[n])
  BY <1>2, <1>4
<1> DEFINE P(n) == /\ g[n] \in Seq(S)
                   /\ \A j \in 0..n : Len(g[j]) \in Nat /\ Len(g[j]) <= Len(g[n])
                   /\ \A j \in 1..n : /\ Len(g[j]) = Len(g[j - 1]) + ms[j].size
                                      /\ g[n][Len(g[j - 1]) + 1] = [of |-> ms[j], part |-> 1]
<1>6. \A n \in Nat : n <= Len(ms) => P(n)
  <2> DEFINE T == {n \in Nat : n <= Len(ms) => P(n)}
  <2>1. 0 \in T
    <3>1. g[0] \in Seq(S) /\ Len(g[0]) = 0
      <4>1. PICK s : s = <<>>
        OBVIOUS
      <4>2. s \in Seq(S) /\ Len(s) = 0
        BY <4>1
      <4> QED
        BY <1>5, <4>1, <4>2
    <3>2. P(0)
      BY <3>1
    <3> QED
      BY <3>2
  <2>2. ASSUME NEW n \in Nat, n \in T PROVE n + 1 \in T
    <3> SUFFICES ASSUME n + 1 <= Len(ms) PROVE P(n + 1)
      BY SMTT(60)
    <3>1. P(n)
      BY <1>2, <2>2
    <3>2. n + 1 \in 1..Len(ms) /\ (n + 1) - 1 = n
      BY <1>2
    <3>3. PICK x, y, z : x = g[n] /\ y = Units(ms[n + 1]) /\ z = g[n + 1]
      OBVIOUS
    <3>4. x \in Seq(S) /\ y \in Seq(S) /\ z = x \o y /\ Len(y) = ms[n + 1].size
          /\ Len(y) \in Nat \ {0} /\ y[1] = [of |-> ms[n + 1], part |-> 1]
      BY <1>2, <1>3, <1>5, <3>1, <3>2, <3>3
    <3>5. z \in Seq(S) /\ Len(z) = Len(x) + Len(y) /\ Len(x) \in Nat
          /\ z[Len(x) + 1] = y[1] /\ \A i \in 1..Len(x) : z[i] = x[i]
      BY <3>4
    <3>6. ASSUME NEW j \in 0..(n + 1)
          PROVE  Len(g[j]) \in Nat /\ Len(g[j]) <= Len(g[n + 1])
      <4>1. CASE j = n + 1
        <5>1. Len(z) \in Nat /\ Len(z) <= Len(z)
          BY <3>4, <3>5
        <5> QED
          BY <3>3, <4>1, <5>1
      <4>2. CASE j # n + 1
        <5>1. j \in 0..n
          BY <4>2
        <5>2. Len(g[j]) \in Nat /\ Len(g[j]) <= Len(x)
          BY <3>1, <3>3, <5>1
        <5> QED
          BY <3>3, <3>4, <3>5, <5>2, SMTT(60)
      <4> QED
        BY <4>1, <4>2
    <3>7. ASSUME NEW j \in 1..(n + 1)
          PROVE  /\ Len(g[j]) = Len(g[j - 1]) + ms[j].size
                 /\ g[n + 1][Len(g[j - 1]) + 1] = [of |-> ms[j], part |-> 1]
      <4>1. CASE j = n + 1
        <5>1. j - 1 = n
          BY <4>1
        <5> QED
          BY <3>3, <3>4, <3>5, <4>1, <5>1
      <4>2. CASE j # n + 1
        <5>1. j \in 1..n /\ j \in 0..n /\ j - 1 \in 0..n
          BY <4>2
        <5>2. PICK l, k : l = Len(g[j - 1]) /\ k = Len(g[j])
          OBVIOUS
        <5>3. l \in Nat /\ k \in Nat /\ k <= Len(x) /\ k = l + ms[j].size
              /\ x[l + 1] = [of |-> ms[j], part |-> 1]
          BY <3>1, <3>3, <5>1, <5>2
        <5>4. ms[j].size \in Nat \ {0}
          <6>1. j \in 1..Len(ms)
            BY <1>2, <3>2, <5>1
          <6> QED
            BY <1>2, <6>1
        <5>5. l + 1 \in 1..Len(x)
          BY <3>5, <5>3, <5>4
        <5> QED
          BY <3>3, <3>5, <5>2, <5>3, <5>5
      <4> QED
        BY <4>1, <4>2
    <3>8. g[n + 1] \in Seq(S)
      BY <3>3, <3>5
    <3> QED
      BY <3>6, <3>7, <3>8
  <2>3. Nat \subseteq T
    <3> HIDE DEF T
    <3> QED
      BY <2>1, <2>2, SetInduction
  <2> QED
    BY <2>3
<1>7. P(Len(ms))
  <2>1. Len(ms) \in Nat /\ Len(ms) <= Len(ms)
    BY <1>2
  <2> HIDE DEF P
  <2> QED
    BY <1>6, <2>1
<1>8. PICK pos : pos = [j \in 0..Len(ms) |-> Len(g[j])]
  OBVIOUS
<1>9. PICK U : U = AllUnits(ms)
  OBVIOUS
<1>10. \A j \in 0..Len(ms) : pos[j] = Len(g[j])
  BY <1>8
<1>11. pos \in [0..Len(ms) -> Nat]
  BY <1>7, <1>8
<1>12. pos[0] = 0
  BY <1>2, <1>5, <1>10
<1>13. pos[Len(ms)] = Len(U) /\ U = g[Len(ms)]
  BY <1>2, <1>4, <1>9, <1>10
<1>14. \A j \in 0..Len(ms) : pos[j] <= Len(U)
  BY <1>7, <1>10, <1>13
<1>15. \A j \in 1..Len(ms) : /\ pos[j] = pos[j - 1] + ms[j].size
                             /\ U[pos[j - 1] + 1] = [of |-> ms[j], part |-> 1]
  <2> TAKE j \in 1..Len(ms)
  <2>1. j \in 0..Len(ms) /\ j - 1 \in 0..Len(ms)
    BY <1>2
  <2>2. pos[j] = Len(g[j]) /\ pos[j - 1] = Len(g[j - 1])
    BY <1>10, <2>1
  <2> QED
    BY <1>7, <1>13, <2>2
<1>16. Laid(pos, ms, U)
  BY <1>11, <1>12, <1>13, <1>14, <1>15 DEF Laid
<1> QED
  BY <1>1, <1>9, <1>16

(* Where each of its K records ends. *)
Cut(e, K, U, recs, secret) ==
    /\ K \in Nat \ {0} /\ e \in [0..K -> Nat] /\ e[0] = 0 /\ e[K] = Len(U)
    /\ \A k \in 0..K : e[k] <= Len(U)
    /\ \A k \in 0..(K - 1) : e[k] < Len(U)
    /\ recs = [k \in 1..K |-> Protect(secret, k - 1, "handshake", SubSeq(U, e[k - 1] + 1, e[k]))]
    /\ \A k \in 1..K : e[k - 1] <= e[k]

LEMMA FlightCut ==
    ASSUME NEW f \in Flavours, NEW cuts, NEW U, U = AllUnits(FlightMessages(f))
    PROVE  \E e, K : Cut(e, K, U, FlightRecords(f, cuts), FlightSecret(f))
<1> DEFINE ends  == {i \in 1..Len(U) : i \in cuts \/ i = Len(U)}
           Lower(i) == {x \in ends : x < i}
           In(k) == {i \in 1..Len(U) : Cardinality(Lower(i)) < k}
<1>1. Len(U) \in Nat \ {0}
  <2>1. U \in Seq(FlightUnits(f))
    BY FlightUnitsSeq
  <2>2. PICK ms : ms = FlightMessages(f)
    OBVIOUS
  <2>3. PICK pos : Laid(pos, ms, U)
    BY <2>2, FlightLaid
  <2>4. Len(ms) \in Nat /\ Len(ms) >= 4 /\ ms[1].size \in Nat \ {0}
    BY <2>2, FlightShaped DEF Shaped
  <2>5. 0 \in 0..Len(ms) /\ 1 \in 0..Len(ms) /\ 1 \in 1..Len(ms) /\ 1 - 1 = 0
    BY <2>4
  <2>6. pos[1] = pos[0] + ms[1].size /\ pos[0] = 0 /\ pos[1] <= Len(U)
    BY <2>3, <2>5 DEF Laid
  <2> QED
    BY <2>1, <2>4, <2>6
<1>2. \A V \in SUBSET (1..Len(U)) :
         IsFiniteSet(V) /\ Cardinality(V) \in Nat /\ Cardinality(V) <= Len(U)
  <2>1. IsFiniteSet(1..Len(U)) /\ Cardinality(1..Len(U)) = Len(U)
    BY <1>1, FS_Interval
  <2>2. ASSUME NEW V \in SUBSET (1..Len(U))
        PROVE  IsFiniteSet(V) /\ Cardinality(V) \in Nat /\ Cardinality(V) <= Len(U)
    <3>1. IsFiniteSet(V) /\ Cardinality(V) <= Cardinality(1..Len(U))
      BY <2>1, <2>2, FS_Subset
    <3>2. Cardinality(V) \in Nat
      BY <3>1, FS_CardinalityType
    <3> QED
      BY <2>1, <3>1, <3>2
  <2> QED
    BY <2>2
<1>3. /\ ends \in SUBSET (1..Len(U)) /\ Len(U) \in ends
      /\ \A k \in Int : In(k) \in SUBSET (1..Len(U))
      /\ \A i \in 1..Len(U) : Lower(i) \in SUBSET (ends \ {Len(U)}) /\ Lower(i) \in SUBSET (1..Len(U))
      /\ Lower(Len(U)) = ends \ {Len(U)}
  BY <1>1
<1>4. PICK K, e : K = Cardinality(ends) /\ e = [k \in 0..K |-> Cardinality(In(k))]
  OBVIOUS
<1>5. K \in Nat /\ Cardinality(ends \ {Len(U)}) = K - 1 /\ IsFiniteSet(ends \ {Len(U)})
  <2> HIDE DEF ends
  <2>1. IsFiniteSet(ends) /\ K \in Nat
    BY <1>2, <1>3, <1>4
  <2> QED
    BY <1>3, <1>4, <2>1, FS_RemoveElement
<1>6. K # 0
  <2> HIDE DEF ends
  <2>1. Cardinality(ends \ {Len(U)}) \in Nat
    BY <1>5, FS_CardinalityType
  <2> QED
    BY <1>5, <2>1
<1>7. \A i \in 1..Len(U) : Cardinality(Lower(i)) \in Nat /\ Cardinality(Lower(i)) <= K - 1
  <2> TAKE i \in 1..Len(U)
  <2>1. Lower(i) \in SUBSET (ends \ {Len(U)}) /\ Lower(i) \in SUBSET (1..Len(U))
    BY <1>3
  <2> HIDE DEF Lower, ends
  <2> QED
    BY <1>2, <1>5, <2>1, FS_Subset
<1>8. Cardinality(Lower(Len(U))) = K - 1
  <2> HIDE DEF Lower, ends
  <2> QED
    BY <1>3, <1>5
<1> HIDE DEF Lower, ends
<1>9. \A k \in 0..K : e[k] \in Nat /\ e[k] <= Len(U) /\ e[k] = Cardinality(In(k))
  <2> HIDE DEF In
  <2> QED
    BY <1>2, <1>3, <1>4
<1>10. e[0] = 0
  <2>1. In(0) = {}
    BY <1>7
  <2>2. Cardinality({}) = 0
    BY FS_EmptySet
  <2>3. 0 \in 0..K
    BY <1>5
  <2> HIDE DEF In
  <2> QED
    BY <1>9, <2>1, <2>2, <2>3
<1>11. e[K] = Len(U)
  <2>1. In(K) = 1..Len(U)
    BY <1>5, <1>7
  <2>2. Cardinality(1..Len(U)) = Len(U)
    BY <1>1, FS_Interval
  <2>3. K \in 0..K
    BY <1>5
  <2> HIDE DEF In
  <2> QED
    BY <1>9, <2>1, <2>2, <2>3
<1>12. ASSUME NEW k \in 0..(K - 1) PROVE e[k] < Len(U)
  <2>1. k \in 0..K /\ k \in Int
    BY <1>5
  <2>2. Len(U) \in 1..Len(U) /\ ~(K - 1 < k)
    BY <1>1, <1>5
  <2>3. Len(U) \notin In(k)
    BY <1>5, <1>8, <2>2
  <2>4. In(k) \in SUBSET (1..(Len(U) - 1))
    BY <1>1, <2>3
  <2>5. Cardinality(1..(Len(U) - 1)) = Len(U) - 1 /\ IsFiniteSet(1..(Len(U) - 1))
    <3>1. PICK l : l = Len(U) - 1
      OBVIOUS
    <3>2. l \in Nat /\ l \in Int /\ 1 \in Int /\ (IF 1 > l THEN 0 ELSE l - 1 + 1) = l
      BY <1>1, <3>1
    <3>3. IsFiniteSet(1..l) /\ Cardinality(1..l) = IF 1 > l THEN 0 ELSE l - 1 + 1
      BY <3>2, FS_Interval
    <3> QED
      BY <3>1, <3>2, <3>3
  <2> HIDE DEF In
  <2>6. Cardinality(In(k)) <= Len(U) - 1
    BY <2>4, <2>5, FS_Subset
  <2> QED
    BY <1>1, <1>9, <2>1, <2>6
<1>13. ASSUME NEW k \in 1..K PROVE e[k - 1] <= e[k]
  <2>1. k \in 0..K /\ k - 1 \in 0..K /\ k \in Int
    BY <1>5
  <2>2. In(k - 1) \in SUBSET In(k)
    BY <1>5, <1>7
  <2> HIDE DEF In
  <2>3. IsFiniteSet(In(k))
    BY <1>2, <1>3, <2>1
  <2>4. Cardinality(In(k - 1)) <= Cardinality(In(k))
    BY <2>2, <2>3, FS_Subset
  <2> QED
    BY <1>9, <2>1, <2>4
<1>14. FlightRecords(f, cuts)
         = [k \in 1..K |-> Protect(FlightSecret(f), k - 1, "handshake", SubSeq(U, e[k - 1] + 1, e[k]))]
  <2>1. FlightRecords(f, cuts)
         = [k \in 1..K |-> Protect(FlightSecret(f), k - 1, "handshake",
                              SubSeq(U, Cardinality(In(k - 1)) + 1, Cardinality(In(k))))]
    BY <1>4 DEF FlightRecords, FlightSecret, ends, Lower
  <2>2. \A k \in 1..K : Cardinality(In(k - 1)) = e[k - 1] /\ Cardinality(In(k)) = e[k]
    <3> TAKE k \in 1..K
    <3>1. k \in 0..K /\ k - 1 \in 0..K
      BY <1>5
    <3> HIDE DEF In
    <3> QED
      BY <1>9, <3>1
  <2> HIDE DEF In
  <2> QED
    BY <2>1, <2>2, Zenon
<1>15. e \in [0..K -> Nat]
  <2> HIDE DEF In
  <2> QED
    BY <1>4, <1>9
<1>16. Cut(e, K, U, FlightRecords(f, cuts), FlightSecret(f))
  <2>1. K \in Nat \ {0} /\ \A k \in 0..K : e[k] <= Len(U)
    BY <1>5, <1>6, <1>9
  <2> QED
    BY <1>10, <1>11, <1>12, <1>13, <1>14, <1>15, <2>1, Zenon DEF Cut
<1> QED
  BY <1>16, Zenon

(* The transcript once the first j messages of the flight are in it. *)
Told(f, j) == SubSeq(ServerTranscript(f), 1, j + 2)

TellsAll(f, ms) ==
    /\ Told(f, 0) = Th0(f) /\ Told(f, Len(ms)) = ServerTranscript(f)
    /\ \A j \in 1..Len(ms) : Told(f, j) = Append(Told(f, j - 1), ms[j])
    /\ Told(f, Len(ms) - 2) = CertTranscript(f)
    /\ Told(f, Len(ms) - 1) = Append(CertTranscript(f), VerifyMsg(f))

LEMMA TellsFlight ==
    ASSUME NEW f \in Flavours
    PROVE  TellsAll(f, FlightMessages(f))
<1>1. PICK ms, a, st, ct, v, z : /\ ms = FlightMessages(f) /\ a = Th0(f) /\ st = ServerTranscript(f)
                                 /\ ct = CertTranscript(f) /\ v = VerifyMsg(f) /\ z = FinishedMsg(f)
  OBVIOUS
<1>2. st = a \o ms /\ st = Append(Append(ct, v), z)
  BY <1>1, FlightParts DEF ServerTranscript
<1>3. PICK x, y, S : x = HelloRecord.hs /\ y = ServerHelloMsg(f) /\ S = Messages(f) \cup {x, y}
  OBVIOUS
<1>4. a = <<x, y>>
  BY <1>1, <1>3, Zenon DEF Th0
<1>5. a \in Seq(S) /\ Len(a) = 2
  BY <1>3, <1>4
<1>6. /\ ms \in Seq(S) /\ Len(ms) \in Nat /\ Len(ms) >= 4
  <2>1. ms \in Seq(Messages(f)) /\ Len(ms) >= 4 /\ Len(ms) \in Nat
    BY <1>1, FlightShaped DEF Shaped
  <2> QED
    BY <1>3, <2>1, SeqGrows
<1>7. /\ st \in Seq(S) /\ Len(st) = Len(ms) + 2 /\ st[1] = a[1] /\ st[2] = a[2]
      /\ \A i \in 1..Len(ms) : st[i + 2] = ms[i]
  <2>1. ASSUME NEW b \in Seq(S), NEW c \in Seq(S), Len(b) = 2
        PROVE  /\ b \o c \in Seq(S) /\ Len(b \o c) = Len(c) + 2
               /\ (b \o c)[1] = b[1] /\ (b \o c)[2] = b[2]
               /\ \A i \in 1..Len(c) : (b \o c)[i + 2] = c[i]
    <3>1. /\ b \o c \in Seq(S) /\ Len(b \o c) = Len(b) + Len(c)
          /\ \A i \in 1..(Len(b) + Len(c)) :
                (b \o c)[i] = IF i <= Len(b) THEN b[i] ELSE c[i - Len(b)]
      BY <2>1, ConcatProperties
    <3>2. Len(c) \in Nat
      BY <2>1
    <3>3. PICK n, g : n = Len(c) /\ g = b \o c
      OBVIOUS
    <3>4. n \in Nat /\ \A i \in 1..(2 + n) : g[i] = IF i <= 2 THEN b[i] ELSE c[i - 2]
      BY <2>1, <3>1, <3>2, <3>3
    <3>5. g[1] = b[1] /\ g[2] = b[2]
      BY <3>4
    <3>6. ASSUME NEW i \in 1..n PROVE g[i + 2] = c[i]
      <4>1. i + 2 \in 1..(2 + n) /\ ~(i + 2 <= 2) /\ (i + 2) - 2 = i
        BY <3>4
      <4> QED
        BY <3>4, <4>1
    <3> QED
      BY <2>1, <3>1, <3>2, <3>3, <3>5, <3>6
  <2>2. /\ a \o ms \in Seq(S) /\ Len(a \o ms) = Len(ms) + 2
        /\ (a \o ms)[1] = a[1] /\ (a \o ms)[2] = a[2]
        /\ \A i \in 1..Len(ms) : (a \o ms)[i + 2] = ms[i]
    BY <1>5, <1>6, <2>1, Zenon
  <2> QED
    BY <1>2, <2>2, Zenon
<1>8. \A n \in 0..Len(st) : SubSeq(st, 1, n) \in Seq(S) /\ Len(SubSeq(st, 1, n)) = n
        /\ \A i \in 1..n : SubSeq(st, 1, n)[i] = st[i]
  BY <1>7
<1>9. SubSeq(st, 1, 2) = a
  <2>1. PICK b : b = SubSeq(st, 1, 2)
    OBVIOUS
  <2>2. 2 \in 0..Len(st) /\ 1 \in 1..2 /\ 2 \in 1..2
    BY <1>6, <1>7
  <2>3. b \in Seq(S) /\ Len(b) = 2 /\ b[1] = st[1] /\ b[2] = st[2]
    BY <1>8, <2>1, <2>2
  <2>4. \A i \in 1..2 : b[i] = a[i]
    BY <1>7, <2>3
  <2>5. b = a
    BY <1>5, <2>3, <2>4
  <2> QED
    BY <2>1, <2>5
<1>10. SubSeq(st, 1, Len(st)) = st
  BY <1>7, SubSeqFull
<1>11. ASSUME NEW n \in 1..Len(st)
       PROVE  SubSeq(st, 1, n) = Append(SubSeq(st, 1, n - 1), st[n])
  <2>1. PICK b, c : b = SubSeq(st, 1, n) /\ c = SubSeq(st, 1, n - 1)
    OBVIOUS
  <2>2. n \in 0..Len(st) /\ n - 1 \in 0..Len(st) /\ n \in Nat
    BY <1>6, <1>7
  <2>3. /\ b \in Seq(S) /\ Len(b) = n /\ \A i \in 1..n : b[i] = st[i]
        /\ c \in Seq(S) /\ Len(c) = n - 1 /\ \A i \in 1..(n - 1) : c[i] = st[i]
    BY <1>8, <2>1, <2>2
  <2>4. st[n] \in S
    BY <1>7
  <2>5. PICK d : d = Append(c, st[n])
    OBVIOUS
  <2>6. d \in Seq(S) /\ Len(d) = n /\ \A i \in 1..n : d[i] = st[i]
    BY <2>2, <2>3, <2>4, <2>5
  <2>7. b = d
    BY <2>3, <2>6
  <2> QED
    BY <2>1, <2>5, <2>7
<1>12. \A j \in 1..Len(ms) : SubSeq(st, 1, j + 2) = Append(SubSeq(st, 1, (j - 1) + 2), ms[j])
  <2> TAKE j \in 1..Len(ms)
  <2>1. j + 2 \in 1..Len(st) /\ (j + 2) - 1 = (j - 1) + 2 /\ st[j + 2] = ms[j]
    BY <1>6, <1>7
  <2> QED
    BY <1>11, <2>1
<1>13. ASSUME NEW p, NEW q, NEW b \in Seq(p), NEW c \in Seq(q), NEW x1, NEW y1,
              Append(b, x1) = Append(c, y1)
       PROVE  b = c /\ x1 = y1
  <2>1. PICK P : P = p \cup q \cup {x1, y1}
    OBVIOUS
  <2>2. b \in Seq(P) /\ c \in Seq(P) /\ x1 \in P /\ y1 \in P
    BY <2>1, SeqGrows
  <2>3. PICK u, w : u = Append(b, x1) /\ w = Append(c, y1)
    BY ZenonT(60)
  <2>4. /\ Len(u) = Len(b) + 1 /\ Len(w) = Len(c) + 1 /\ u = w
        /\ \A i \in 1..Len(b) : u[i] = b[i] /\ \A k \in 1..Len(c) : w[k] = c[k]
        /\ u[Len(b) + 1] = x1 /\ w[Len(c) + 1] = y1
    BY <1>13, <2>2, <2>3, SMTT(60)
  <2>5. Len(b) = Len(c) /\ Len(b) \in Nat
    BY <2>2, <2>4
  <2>6. \A i \in 1..Len(b) : b[i] = c[i]
    <3>1. \A k \in 1..Len(c) : w[k] = c[k]
      BY <2>2, <2>3, SMTT(60)
    <3> QED
      BY <2>4, <2>5, <3>1
  <2> QED
    BY <2>2, <2>4, <2>5, <2>6
<1>14. Told(f, 0) = a /\ Told(f, Len(ms)) = st
  <2>1. 0 + 2 = 2 /\ Len(ms) + 2 = Len(st)
    BY <1>6, <1>7
  <2> QED
    BY <1>1, <1>9, <1>10, <2>1 DEF Told
<1>15. \A j \in 1..Len(ms) : Told(f, j) = Append(Told(f, j - 1), ms[j])
  BY <1>1, <1>12 DEF Told
<1>16. \A j \in 0..Len(ms) : Told(f, j) \in Seq(S)
  <2> TAKE j \in 0..Len(ms)
  <2>1. j + 2 \in 0..Len(st)
    BY <1>6, <1>7
  <2> QED
    BY <1>1, <1>8, <2>1 DEF Told
<1>17. PICK Q : ct \in Seq(Q) /\ Append(ct, v) \in Seq(Q)
  <2>1. PICK ee, ex, c, X : /\ ee = Message("encrypted_extensions", 1, <<>>) /\ ex = f.extra
                            /\ c = CertMsg(f) /\ X = {ex[i] : i \in DOMAIN ex}
    OBVIOUS
  <2>2. ex \in Seq(X)
    BY <2>1, FlavourAssumption
  <2>3. PICK Q : Q = S \cup X \cup {ee, c, v}
    OBVIOUS
  <2>4. ex \in Seq(Q) /\ a \in Seq(Q)
    BY <1>5, <2>2, <2>3, SeqGrows
  <2>5. <<ee>> \in Seq(Q) /\ <<c>> \in Seq(Q) /\ v \in Q
    BY <2>3
  <2>6. PICK o, r : o = <<ee>> /\ r = <<c>>
    OBVIOUS
  <2>7. a \o (o \o ex) \o r \in Seq(Q)
    BY <2>4, <2>5, <2>6
  <2>8. ct = a \o (o \o ex) \o r
    BY <1>1, <2>1, <2>6, Zenon DEF CertTranscript
  <2>9. ct \in Seq(Q)
    BY <2>7, <2>8
  <2> QED
    BY <2>5, <2>9
<1>18. PICK m1, m2 : m1 = Len(ms) - 1 /\ m2 = Len(ms) - 2
  OBVIOUS
<1>19. /\ Len(ms) \in 1..Len(ms) /\ m1 \in 1..Len(ms) /\ m1 \in 0..Len(ms) /\ m2 \in 0..Len(ms)
       /\ m1 - 1 = m2
  BY <1>6, <1>18
<1>20. Told(f, m1) = Append(ct, v)
  <2>1. Append(Told(f, m1), ms[Len(ms)]) = Append(Append(ct, v), z)
    BY <1>2, <1>14, <1>15, <1>18, <1>19
  <2>2. Told(f, m1) \in Seq(S)
    BY <1>16, <1>19
  <2> QED
    BY <1>13, <1>17, <2>1, <2>2
<1>21. Told(f, m2) = ct
  <2>1. Append(Told(f, m2), ms[m1]) = Append(ct, v)
    BY <1>15, <1>19, <1>20
  <2>2. Told(f, m2) \in Seq(S)
    BY <1>16, <1>19
  <2> QED
    BY <1>13, <1>17, <2>1, <2>2
<1> QED
  BY <1>1, <1>14, <1>15, <1>18, <1>20, <1>21, Zenon DEF TellsAll

(* Changing one field of the accumulator. *)
LEMMA AccExcept ==
    ASSUME NEW s, NEW t, NEW p, NEW c, NEW v, NEW d, NEW e, NEW u, NEW b,
           b = Acc(s, t, p, c, v, d, e, u)
    PROVE  /\ \A z : [b EXCEPT !.chain = z] = Acc(s, t, p, z, v, d, e, u)
           /\ \A z : [b EXCEPT !.cv = z] = Acc(s, t, p, c, z, d, e, u)
           /\ \A z : [b EXCEPT !.finished = z] = Acc(s, t, p, c, v, z, e, u)
<1>1. ASSUME NEW z PROVE [b EXCEPT !.chain = z] = Acc(s, t, p, z, v, d, e, u)
  BY DEF Acc
<1>2. ASSUME NEW z PROVE [b EXCEPT !.cv = z] = Acc(s, t, p, c, z, d, e, u)
  BY DEF Acc
<1>3. ASSUME NEW z PROVE [b EXCEPT !.finished = z] = Acc(s, t, p, c, v, z, e, u)
  BY DEF Acc
<1> QED
  BY <1>1, <1>2, <1>3

(* What take_message leaves in the accumulator. *)
Takes(a, m, shts, s, t, w, q, c, v, d, e, u) ==
    /\ m.type = "certificate" => TakeMessage(a, m, shts) = Acc(s, w, q, m.body, v, d, e, u)
    /\ m.type = "certificate_verify" =>
          TakeMessage(a, m, shts) = Acc(s, w, q, c, Some(m.body \o <<t>>), d, e, u)
    /\ m.type = "finished" /\ m.body = <<FinishedMac(shts, t)>> =>
          TakeMessage(a, m, shts) = Acc(s, w, q, c, v, TRUE, e, u)
    /\ m.type \notin {"certificate", "certificate_verify", "finished"} =>
          TakeMessage(a, m, shts) = Acc(s, w, q, c, v, d, e, u)

LEMMA TakeMessageIs ==
    ASSUME NEW s, NEW t, NEW p, NEW c, NEW v, NEW d, NEW e, NEW u, NEW a, NEW m, NEW shts,
           NEW w, NEW q, a = Acc(s, t, p, c, v, d, e, u),
           w = Append(t, m), q = SubSeq(p, m.size + 1, Len(p))
    PROVE  Takes(a, m, shts, s, t, w, q, c, v, d, e, u)
<1>1. a.transcript = t /\ a.pending = p
  BY AccFields
<1>2. PICK b : b = [a EXCEPT !.transcript = Append(@, m), !.pending = SubSeq(@, m.size + 1, Len(@))]
  OBVIOUS
<1>3. b = Acc(s, w, q, c, v, d, e, u)
  BY <1>1, <1>2 DEF Acc
<1>4. ASSUME m.type = "certificate"
      PROVE  TakeMessage(a, m, shts) = Acc(s, w, q, m.body, v, d, e, u)
  <2>1. TakeMessage(a, m, shts) = [b EXCEPT !.chain = m.body]
    BY <1>2, <1>4 DEF TakeMessage
  <2>2. [b EXCEPT !.chain = m.body] = Acc(s, w, q, m.body, v, d, e, u)
    BY <1>3, AccExcept
  <2> QED
    BY <2>1, <2>2, Zenon
<1>5. ASSUME m.type = "certificate_verify"
      PROVE  TakeMessage(a, m, shts) = Acc(s, w, q, c, Some(m.body \o <<t>>), d, e, u)
  <2>1. PICK z : z = Some(m.body \o <<t>>)
    OBVIOUS
  <2>2. TakeMessage(a, m, shts) = [b EXCEPT !.cv = z]
    BY <1>1, <1>2, <1>5, <2>1 DEF TakeMessage
  <2>3. [b EXCEPT !.cv = z] = Acc(s, w, q, c, z, d, e, u)
    BY <1>3, AccExcept
  <2> QED
    BY <2>1, <2>2, <2>3, Zenon
<1>6. ASSUME m.type = "finished", m.body = <<FinishedMac(shts, t)>>
      PROVE  TakeMessage(a, m, shts) = Acc(s, w, q, c, v, TRUE, e, u)
  <2>1. TakeMessage(a, m, shts) = [b EXCEPT !.finished = TRUE]
    BY <1>1, <1>2, <1>6 DEF TakeMessage
  <2>2. \A x : [b EXCEPT !.finished = x] = Acc(s, w, q, c, v, x, e, u)
    BY <1>3, AccExcept
  <2> QED
    BY <2>1, <2>2, Zenon
<1>7. ASSUME m.type \notin {"certificate", "certificate_verify", "finished"}
      PROVE  TakeMessage(a, m, shts) = Acc(s, w, q, c, v, d, e, u)
  <2>1. TakeMessage(a, m, shts) = b
    BY <1>2, <1>7 DEF TakeMessage
  <2> QED
    BY <1>3, <2>1, Zenon
<1> QED
  BY <1>4, <1>5, <1>6, <1>7 DEF Takes

LEMMA AccUsed ==
    ASSUME NEW s, NEW t, NEW p, NEW c, NEW v, NEW d, NEW e, NEW u, NEW a, NEW b,
           a = Acc(s, t, p, c, v, d, e, u), b = [a EXCEPT !.used = @ + 1]
    PROVE  b = Acc(s, t, p, c, v, d, e, u + 1)
BY DEF Acc

(* The accumulator after the first j messages, with p still in its buffer. *)
ChainAt(f, ms, j) == IF j >= Len(ms) - 2 THEN f.chain ELSE <<>>
CvAt(f, ms, j)    == IF j >= Len(ms) - 1
                     THEN Some(<<f.scheme, f.signer, CertTranscript(f), CertTranscript(f)>>)
                     ELSE None
At(a, f, ms, p, j, s, u) ==
    /\ j < Len(ms) =>
          a = Acc(s, Told(f, j), p, ChainAt(f, ms, j), CvAt(f, ms, j), FALSE, None, u)
    /\ j = Len(ms) =>
          a = Acc(s, Told(f, j), p, ChainAt(f, ms, j), CvAt(f, ms, j), TRUE, None, u)

AtHas(a, f, ms, p, j, s, u) ==
    /\ a.pending = p /\ a.seq = s /\ a.used = u /\ a.err = None
    /\ a.transcript = Told(f, j) /\ a.chain = ChainAt(f, ms, j) /\ a.cv = CvAt(f, ms, j)
    /\ (j < Len(ms)) => Going(a) /\ ~a.finished
    /\ (j = Len(ms)) => ~Going(a) /\ a.finished

LEMMA AtFields ==
    ASSUME NEW a, NEW f, NEW ms, NEW p, NEW j, NEW s, NEW u, Len(ms) \in Nat, j \in 0..Len(ms),
           At(a, f, ms, p, j, s, u)
    PROVE  AtHas(a, f, ms, p, j, s, u)
<1>1. CASE j < Len(ms)
  <2>1. a = Acc(s, Told(f, j), p, ChainAt(f, ms, j), CvAt(f, ms, j), FALSE, None, u)
    BY <1>1 DEF At
  <2>2. PICK no : no = FALSE
    OBVIOUS
  <2>3. a = Acc(s, Told(f, j), p, ChainAt(f, ms, j), CvAt(f, ms, j), no, None, u)
    BY <2>1, <2>2, Zenon
  <2>4. /\ a.pending = p /\ a.seq = s /\ a.used = u /\ a.err = None
        /\ a.transcript = Told(f, j) /\ a.chain = ChainAt(f, ms, j) /\ a.cv = CvAt(f, ms, j)
        /\ a.finished = no
    BY <2>3, AccFields
  <2>5. j # Len(ms)
    BY <1>1
  <2> QED
    BY <1>1, <2>2, <2>4, <2>5, Zenon DEF Going, AtHas
<1>2. CASE j = Len(ms)
  <2>1. a = Acc(s, Told(f, j), p, ChainAt(f, ms, j), CvAt(f, ms, j), TRUE, None, u)
    BY <1>2 DEF At
  <2>2. PICK yes : yes = TRUE
    OBVIOUS
  <2>3. a = Acc(s, Told(f, j), p, ChainAt(f, ms, j), CvAt(f, ms, j), yes, None, u)
    BY <2>1, <2>2, Zenon
  <2>4. /\ a.pending = p /\ a.seq = s /\ a.used = u /\ a.err = None
        /\ a.transcript = Told(f, j) /\ a.chain = ChainAt(f, ms, j) /\ a.cv = CvAt(f, ms, j)
        /\ a.finished = yes
    BY <2>3, AccFields
  <2>5. ~(j < Len(ms))
    BY <1>2
  <2> QED
    BY <1>2, <2>2, <2>4, <2>5, Zenon DEF Going, AtHas
<1> QED
  BY <1>1, <1>2

(* Taking the next message of the flight. *)
LEMMA TakeNext ==
    ASSUME NEW f \in Flavours, f.certtype = "certificate", NEW ms, ms = FlightMessages(f),
           NEW a, NEW p, NEW j, j \in 0..(Len(ms) - 1), NEW s, NEW u, NEW m, m = ms[j + 1],
           At(a, f, ms, p, j, s, u)
    PROVE  At(TakeMessage(a, m, FlightSecret(f)), f, ms, SubSeq(p, m.size + 1, Len(p)), j + 1, s, u)
<1>1. PICK th, c, v, no, q, x, shts :
         /\ th = Told(f, j) /\ c = ChainAt(f, ms, j) /\ v = CvAt(f, ms, j) /\ no = FALSE
         /\ q = SubSeq(p, m.size + 1, Len(p)) /\ x = Told(f, j + 1) /\ shts = FlightSecret(f)
  OBVIOUS
<1>2. Shaped(ms, f) /\ TellsAll(f, ms)
  BY FlightShaped, TellsFlight
<1>3. Len(ms) \in Nat /\ Len(ms) >= 4 /\ j + 1 \in 1..Len(ms) /\ (j + 1) - 1 = j /\ j < Len(ms)
  BY <1>2 DEF Shaped
<1>4. x = Append(th, m)
  BY <1>1, <1>2, <1>3 DEF TellsAll
<1>5. a = Acc(s, th, p, c, v, no, None, u)
  <2>1. a = Acc(s, Told(f, j), p, ChainAt(f, ms, j), CvAt(f, ms, j), FALSE, None, u)
    BY <1>3 DEF At
  <2> QED
    BY <1>1, <2>1, Zenon
<1>q. q = SubSeq(p, m.size + 1, Len(p))
  BY <1>1, Zenon
<1>t. Takes(a, m, shts, s, th, x, q, c, v, no, None, u)
  BY <1>4, <1>5, <1>q, TakeMessageIs
<1>6. CASE j + 1 <= Len(ms) - 3
  <2>1. m.type \notin {"certificate", "certificate_verify", "finished"}
    <3>1. j + 1 \in 1..(Len(ms) - 3)
      BY <1>3, <1>6
    <3> QED
      BY <1>2, <3>1 DEF Shaped
  <2>2. TakeMessage(a, m, shts) = Acc(s, x, q, c, v, no, None, u)
    BY <1>t, <2>1, Zenon DEF Takes
  <2>3. j + 1 < Len(ms) /\ j + 1 # Len(ms)
    BY <1>3, <1>6
  <2>4. ChainAt(f, ms, j + 1) = c /\ CvAt(f, ms, j + 1) = v
    BY <1>1, <1>3, <1>6 DEF ChainAt, CvAt
  <2> QED
    BY <1>1, <2>2, <2>3, <2>4, Zenon DEF At
<1>7. CASE j + 1 = Len(ms) - 2
  <2>1. m = CertMsg(f)
    BY <1>2, <1>7 DEF Shaped
  <2>2. m.type = "certificate" /\ m.body = f.chain
    BY <2>1 DEF CertMsg, Message
  <2>3. TakeMessage(a, m, shts) = Acc(s, x, q, f.chain, v, no, None, u)
    BY <1>t, <2>2, Zenon DEF Takes
  <2>4. j + 1 < Len(ms) /\ j + 1 # Len(ms)
    BY <1>3, <1>7
  <2>5. ChainAt(f, ms, j + 1) = f.chain /\ CvAt(f, ms, j + 1) = v
    BY <1>1, <1>3, <1>7 DEF ChainAt, CvAt
  <2> QED
    BY <1>1, <2>3, <2>4, <2>5, Zenon DEF At
<1>8. CASE j + 1 = Len(ms) - 1
  <2>1. m = VerifyMsg(f)
    BY <1>2, <1>8 DEF Shaped
  <2>2. PICK k, g, ct : k = f.scheme /\ g = f.signer /\ ct = CertTranscript(f)
    OBVIOUS
  <2>3. m.type = "certificate_verify" /\ m.body = <<k, g, ct>>
    <3>1. m = Message("certificate_verify", 1, <<k, g, ct>>)
      BY <2>1, <2>2, Zenon DEF VerifyMsg
    <3> QED
      BY <3>1 DEF Message
  <2>4. th = ct
    <3>1. j = Len(ms) - 2
      BY <1>3, <1>8
    <3> QED
      BY <1>1, <1>2, <2>2, <3>1, Zenon DEF TellsAll
  <2>5. TakeMessage(a, m, shts) = Acc(s, x, q, c, Some(m.body \o <<th>>), no, None, u)
    BY <1>t, <2>3, Zenon DEF Takes
  <2>6. m.body \o <<th>> = <<k, g, ct, ct>>
    <3>1. <<k, g, ct>> \o <<ct>> = <<k, g, ct, ct>>
      BY Quadruple
    <3> QED
      BY <2>3, <2>4, <3>1, Zenon
  <2>7. j + 1 < Len(ms) /\ j + 1 # Len(ms)
    BY <1>3, <1>8
  <2>8. ChainAt(f, ms, j + 1) = c /\ CvAt(f, ms, j + 1) = Some(<<k, g, ct, ct>>)
    <3>1. j >= Len(ms) - 2 /\ j + 1 >= Len(ms) - 2 /\ j + 1 >= Len(ms) - 1
      BY <1>3, <1>8
    <3> QED
      BY <1>1, <2>2, <3>1, Zenon DEF ChainAt, CvAt
  <2> QED
    BY <1>1, <2>5, <2>6, <2>7, <2>8, Zenon DEF At
<1>9. CASE j + 1 = Len(ms)
  <2>1. m = FinishedMsg(f)
    BY <1>2, <1>9 DEF Shaped
  <2>2. th = Append(CertTranscript(f), VerifyMsg(f))
    <3>1. j = Len(ms) - 1
      BY <1>3, <1>9
    <3> QED
      BY <1>1, <1>2, <3>1, Zenon DEF TellsAll
  <2>3. m.type = "finished" /\ m.body = <<FinishedMac(shts, th)>>
    <3>1. m = Message("finished", 1, <<FinishedMac(shts, th)>>)
      BY <1>1, <2>1, <2>2, Zenon DEF FinishedMsg
    <3> QED
      BY <3>1 DEF Message
  <2>4. TakeMessage(a, m, shts) = Acc(s, x, q, c, v, TRUE, None, u)
    BY <1>t, <2>3, Zenon DEF Takes
  <2>5. ~(j + 1 < Len(ms))
    BY <1>3, <1>9
  <2>6. ChainAt(f, ms, j + 1) = c /\ CvAt(f, ms, j + 1) = v
    <3>1. j >= Len(ms) - 2 /\ j + 1 >= Len(ms) - 2 /\ j + 1 >= Len(ms) - 1 /\ j >= Len(ms) - 1
      BY <1>3, <1>9
    <3> QED
      BY <1>1, <3>1, Zenon DEF ChainAt, CvAt
  <2> QED
    BY <1>1, <2>4, <2>5, <2>6, Zenon DEF At
<1>10. j + 1 <= Len(ms) - 3 \/ j + 1 = Len(ms) - 2 \/ j + 1 = Len(ms) - 1 \/ j + 1 = Len(ms)
  BY <1>3
<1> QED
  BY <1>6, <1>7, <1>8, <1>9, <1>10

(* The buffer after j messages, with the units up to number n received. *)
Kept(U, pos, j, n) == SubSeq(U, pos[j] + 1, n)

Reached(U, pos, ms, j, n) ==
    /\ ms \in Seq({ms[i] : i \in 1..Len(ms)}) /\ Len(ms) \in Nat /\ Laid(pos, ms, U)
    /\ \A i \in 1..Len(ms) : ms[i].size \in Nat \ {0}
    /\ j \in 0..Len(ms) /\ n \in 0..Len(U) /\ Len(U) \in Nat /\ pos[j] <= n

KeptIs(p, S, U, pos, ms, j, n) ==
    /\ pos[j] \in Nat /\ p \in Seq(S) /\ Len(p) = n - pos[j]
    /\ p # <<>> => pos[j] < n
    /\ pos[j] < n => p # <<>>
    /\ j < Len(ms) /\ pos[j] < n => p[1] = [of |-> ms[j + 1], part |-> 1]
    /\ j < Len(ms) => /\ j + 1 \in 0..Len(ms) /\ pos[j + 1] \in Nat
                      /\ pos[j + 1] = pos[j] + ms[j + 1].size /\ pos[j] < pos[j + 1]
                      /\ ms[j + 1].size \in Nat \ {0}
    /\ j < Len(ms) /\ pos[j + 1] <= n =>
          SubSeq(p, ms[j + 1].size + 1, Len(p)) = Kept(U, pos, j + 1, n)

LEMMA KeptParts ==
    ASSUME NEW S, NEW U \in Seq(S), NEW pos, NEW ms, NEW j, NEW n, Reached(U, pos, ms, j, n)
    PROVE  KeptIs(Kept(U, pos, j, n), S, U, pos, ms, j, n)
<1>1. PICK x : x = pos[j]
  OBVIOUS
<1>2. x \in Nat /\ n \in Nat /\ x <= n /\ n <= Len(U) /\ Len(U) \in Nat
  <2>1. j \in 0..Len(ms) /\ n \in 0..Len(U) /\ Len(U) \in Nat /\ pos[j] <= n
    BY DEF Reached
  <2>2. pos \in [0..Len(ms) -> Nat]
    BY DEF Reached, Laid
  <2>3. pos[j] \in Nat
    BY <2>1, <2>2
  <2> QED
    BY <1>1, <2>1, <2>3
<1>3. PICK p : p = SubSeq(U, x + 1, n)
  OBVIOUS
<1>4. p \in Seq(S) /\ Len(p) = n - x /\ \A i \in 1..(n - x) : p[i] = U[x + i]
  BY <1>2, <1>3
<1>5. (p # <<>> => x < n) /\ (x < n => p # <<>>)
  <2>1. p = <<>> <=> Len(p) = 0
    BY <1>4
  <2> QED
    BY <1>2, <1>4, <2>1
<1>6. p = Kept(U, pos, j, n)
  BY <1>1, <1>3 DEF Kept
<1>7. ASSUME j < Len(ms)
      PROVE  /\ j + 1 \in 0..Len(ms) /\ pos[j + 1] \in Nat
             /\ pos[j + 1] = x + ms[j + 1].size /\ x < pos[j + 1]
             /\ ms[j + 1].size \in Nat \ {0}
             /\ U[x + 1] = [of |-> ms[j + 1], part |-> 1]
  <2>1. j + 1 \in 0..Len(ms) /\ j + 1 \in 1..Len(ms) /\ (j + 1) - 1 = j
    BY <1>7 DEF Reached
  <2>2. /\ pos[j + 1] = x + ms[j + 1].size /\ U[x + 1] = [of |-> ms[j + 1], part |-> 1]
        /\ pos[j + 1] \in Nat /\ ms[j + 1].size \in Nat \ {0}
    BY <1>1, <2>1 DEF Reached, Laid
  <2> QED
    BY <1>2, <2>1, <2>2
<1>8. ASSUME j < Len(ms), x < n PROVE p[1] = [of |-> ms[j + 1], part |-> 1]
  <2>1. p[1] = U[x + 1]
    BY <1>2, <1>4, <1>8
  <2> QED
    BY <1>7, <1>8, <2>1
<1>9. ASSUME j < Len(ms), pos[j + 1] <= n
      PROVE  SubSeq(p, ms[j + 1].size + 1, Len(p)) = Kept(U, pos, j + 1, n)
  <2>1. PICK k, y : k = ms[j + 1].size /\ y = pos[j + 1]
    OBVIOUS
  <2>2. k \in Nat \ {0} /\ y = x + k /\ y <= n /\ y \in Nat
    BY <1>7, <1>9, <2>1
  <2>3. PICK b, c : b = SubSeq(p, k + 1, Len(p)) /\ c = SubSeq(U, y + 1, n)
    OBVIOUS
  <2>4. b \in Seq(S) /\ Len(b) = n - y /\ \A i \in 1..(n - y) : b[i] = p[k + i]
    BY <1>2, <1>4, <2>2, <2>3
  <2>5. c \in Seq(S) /\ Len(c) = n - y /\ \A i \in 1..(n - y) : c[i] = U[y + i]
    BY <1>2, <2>2, <2>3
  <2>6. ASSUME NEW i \in 1..(n - y) PROVE b[i] = c[i]
    <3>1. k + i \in 1..(n - x) /\ x + (k + i) = y + i
      BY <1>2, <2>2
    <3>2. p[k + i] = U[y + i]
      BY <1>4, <3>1
    <3> QED
      BY <2>4, <2>5, <3>2
  <2>7. b = c
    BY <2>4, <2>5, <2>6
  <2> QED
    BY <2>1, <2>3, <2>7 DEF Kept
<1>10. KeptIs(p, S, U, pos, ms, j, n)
  BY <1>1, <1>2, <1>4, <1>5, <1>7, <1>8, <1>9, Zenon DEF KeptIs
<1> QED
  BY <1>6, <1>10

(* No complete message is left among the first n units. *)
Full(pos, ms, j, n) == j = Len(ms) \/ pos[j + 1] > n

LEMMA DrainNext ==
    ASSUME NEW f \in Flavours, f.certtype = "certificate", NEW ms, ms = FlightMessages(f),
           NEW U, U = AllUnits(ms), NEW pos, NEW a, NEW j, NEW n, NEW s, NEW u, NEW stall,
           Reached(U, pos, ms, j, n), At(a, f, ms, Kept(U, pos, j, n), j, s, u)
    PROVE  /\ Full(pos, ms, j, n) => DrainStep(a, FlightSecret(f), stall) = a
           /\ ~Full(pos, ms, j, n) =>
                 /\ Reached(U, pos, ms, j + 1, n)
                 /\ At(DrainStep(a, FlightSecret(f), stall), f, ms, Kept(U, pos, j + 1, n), j + 1, s, u)
<1>1. PICK S, p, shts : S = FlightUnits(f) /\ p = Kept(U, pos, j, n) /\ shts = FlightSecret(f)
  OBVIOUS
<1>2. U \in Seq(S)
  BY <1>1, FlightUnitsSeq
<1>3. Len(ms) \in Nat /\ j \in 0..Len(ms) /\ n \in Nat
  BY DEF Reached
<1>4. /\ a.pending = p
      /\ (j < Len(ms)) => Going(a)
      /\ (j = Len(ms)) => ~Going(a)
  BY <1>1, <1>3, AtFields, Zenon DEF AtHas
<1>5. /\ pos[j] \in Nat /\ p \in Seq(S) /\ Len(p) = n - pos[j]
      /\ p # <<>> => pos[j] < n
      /\ pos[j] < n => p # <<>>
      /\ j < Len(ms) /\ pos[j] < n => p[1] = [of |-> ms[j + 1], part |-> 1]
      /\ j < Len(ms) => /\ j + 1 \in 0..Len(ms) /\ pos[j + 1] \in Nat
                        /\ pos[j + 1] = pos[j] + ms[j + 1].size /\ pos[j] < pos[j + 1]
                        /\ ms[j + 1].size \in Nat \ {0}
      /\ j < Len(ms) /\ pos[j + 1] <= n =>
            SubSeq(p, ms[j + 1].size + 1, Len(p)) = Kept(U, pos, j + 1, n)
  <2>1. KeptIs(p, S, U, pos, ms, j, n)
    BY <1>1, <1>2, KeptParts
  <2> QED
    BY <2>1, Zenon DEF KeptIs
<1>6. ASSUME j < Len(ms), p # <<>> PROVE p[1].of = ms[j + 1] /\ p[1].part = 1 /\ ~(p[1].part > 1)
  <2>1. p[1] = [of |-> ms[j + 1], part |-> 1]
    BY <1>5, <1>6
  <2>2. PICK y : y = p[1]
    OBVIOUS
  <2>3. y.of = ms[j + 1] /\ y.part = 1
    BY <2>1, <2>2
  <2>4. ~(1 > 1)
    OBVIOUS
  <2> QED
    BY <2>2, <2>3, <2>4, Zenon
<1>7. ASSUME Full(pos, ms, j, n) PROVE DrainStep(a, shts, stall) = a
  <2>1. CASE j = Len(ms)
    <3>1. ~Going(a)
      BY <1>4, <2>1
    <3> QED
      BY <3>1, Zenon DEF DrainStep
  <2>2. CASE j # Len(ms)
    <3>1. j < Len(ms) /\ pos[j + 1] > n
      BY <1>3, <1>7, <2>2 DEF Full
    <3>2. ~(ms[j + 1].size <= Len(p))
      BY <1>3, <1>5, <3>1
    <3>3. p = <<>> \/ (~(p[1].of.size <= Len(p)) /\ ~(p[1].part > 1))
      BY <1>6, <3>1, <3>2
    <3> QED
      BY <1>4, <3>3, Zenon DEF DrainStep
  <2> QED
    BY <2>1, <2>2
<1>8. ASSUME ~Full(pos, ms, j, n)
      PROVE  /\ Reached(U, pos, ms, j + 1, n)
             /\ At(DrainStep(a, shts, stall), f, ms, Kept(U, pos, j + 1, n), j + 1, s, u)
  <2>1. j < Len(ms)
    BY <1>3, <1>8 DEF Full
  <2>2. pos[j + 1] <= n
    BY <1>3, <1>5, <1>8, <2>1 DEF Full
  <2>3. p # <<>> /\ ms[j + 1].size <= Len(p)
    <3>1. PICK x, y, k : x = pos[j] /\ y = pos[j + 1] /\ k = ms[j + 1].size
      OBVIOUS
    <3>2. /\ x \in Nat /\ y \in Nat /\ k \in Nat \ {0} /\ y = x + k /\ y <= n
          /\ Len(p) = n - x /\ (x < n => p # <<>>)
      BY <1>5, <2>1, <2>2, <3>1, Zenon
    <3>3. x < n /\ k <= n - x
      BY <1>3, <3>2
    <3> QED
      BY <3>1, <3>2, <3>3
  <2>4. p[1].of = ms[j + 1] /\ p[1].part = 1
    BY <1>6, <2>1, <2>3
  <2>5. Going(a)
    BY <1>4, <2>1
  <2>6. DrainStep(a, shts, stall) = TakeMessage(a, ms[j + 1], shts)
    BY <1>4, <2>3, <2>4, <2>5, Zenon DEF DrainStep
  <2>7. j \in 0..(Len(ms) - 1)
    BY <1>3, <2>1
  <2>8. PICK m : m = ms[j + 1]
    OBVIOUS
  <2>9. At(a, f, ms, p, j, s, u)
    BY <1>1
  <2>10. At(TakeMessage(a, m, FlightSecret(f)), f, ms, SubSeq(p, m.size + 1, Len(p)), j + 1, s, u)
    BY <2>7, <2>8, <2>9, TakeNext
  <2>11. SubSeq(p, m.size + 1, Len(p)) = Kept(U, pos, j + 1, n)
    BY <1>5, <2>1, <2>2, <2>8
  <2>12. At(DrainStep(a, shts, stall), f, ms, Kept(U, pos, j + 1, n), j + 1, s, u)
    BY <1>1, <2>6, <2>8, <2>10, <2>11, Zenon
  <2>13. Reached(U, pos, ms, j + 1, n)
    BY <1>5, <2>1, <2>2 DEF Reached
  <2> QED
    BY <2>12, <2>13
<1> QED
  BY <1>1, <1>7, <1>8

(* A drain takes every complete message. *)
Drained(b, f, U, pos, ms, n, s, u) ==
    \E j \in 0..Len(ms) : /\ Reached(U, pos, ms, j, n) /\ Full(pos, ms, j, n)
                          /\ At(b, f, ms, Kept(U, pos, j, n), j, s, u)

LEMMA DrainAll ==
    ASSUME NEW f \in Flavours, f.certtype = "certificate", NEW ms, ms = FlightMessages(f),
           NEW U, U = AllUnits(ms), NEW pos, NEW a, NEW j, NEW n, NEW s, NEW u, NEW stall,
           Reached(U, pos, ms, j, n), At(a, f, ms, Kept(U, pos, j, n), j, s, u)
    PROVE  Drained(Drain(a, FlightSecret(f), stall), f, U, pos, ms, n, s, u)
<1>1. PICK shts, l : shts = FlightSecret(f) /\ l = Len(a.pending)
  OBVIOUS
<1>2. Len(ms) \in Nat /\ j \in 0..Len(ms) /\ n \in Nat /\ U \in Seq(FlightUnits(f))
  BY FlightUnitsSeq DEF Reached
<1>3. l = n - pos[j] /\ l \in Nat /\ pos[j] \in Nat
  <2>1. a.pending = Kept(U, pos, j, n)
    BY <1>2, AtFields, ZenonT(60) DEF AtHas
  <2>2. pos[j] \in Nat /\ Len(Kept(U, pos, j, n)) = n - pos[j] /\ pos[j] <= n
    <3>1. KeptIs(Kept(U, pos, j, n), FlightUnits(f), U, pos, ms, j, n)
      BY <1>2, KeptParts
    <3>2. pos[j] <= n
      BY DEF Reached
    <3> QED
      BY <3>1, <3>2, Zenon DEF KeptIs
  <2> QED
    BY <1>1, <1>2, <2>1, <2>2
<1>4. PICK g : /\ Drain(a, shts, stall) = g[l] /\ g[0] = a
               /\ \A i \in 1..l : g[i] = DrainStep(g[i - 1], shts, stall)
  <2>1. Len(a.pending) \in Nat
    BY <1>1, <1>3
  <2>2. \E g : /\ Drain(a, shts, stall) = g[Len(a.pending)] /\ g[0] = a
               /\ \A i \in 1..Len(a.pending) : g[i] = DrainStep(g[i - 1], shts, stall)
    BY <2>1, DrainRun
  <2> QED
    BY <1>1, <2>2, Zenon
<1> DEFINE P(i) == \E k \in 0..Len(ms) :
                      /\ Reached(U, pos, ms, k, n)
                      /\ At(g[i], f, ms, Kept(U, pos, k, n), k, s, u)
                      /\ Full(pos, ms, k, n) \/ pos[k] >= pos[j] + i
           T == {i \in Nat : i <= l => P(i)}
<1>5. 0 \in T
  <2>1. pos[j] >= pos[j] + 0
    BY <1>3
  <2>2. P(0)
    BY <1>2, <1>4, <2>1
  <2> QED
    BY <2>2
<1>6. ASSUME NEW i \in Nat, i \in T PROVE i + 1 \in T
  <2> SUFFICES ASSUME i + 1 <= l PROVE P(i + 1)
    OBVIOUS
  <2>1. PICK k \in 0..Len(ms) : /\ Reached(U, pos, ms, k, n)
                                /\ At(g[i], f, ms, Kept(U, pos, k, n), k, s, u)
                                /\ Full(pos, ms, k, n) \/ pos[k] >= pos[j] + i
    BY <1>3, <1>6
  <2>2. g[i + 1] = DrainStep(g[i], shts, stall)
    BY <1>3, <1>4
  <2>3. /\ Full(pos, ms, k, n) => DrainStep(g[i], shts, stall) = g[i]
        /\ ~Full(pos, ms, k, n) =>
              /\ Reached(U, pos, ms, k + 1, n)
              /\ At(DrainStep(g[i], shts, stall), f, ms, Kept(U, pos, k + 1, n), k + 1, s, u)
    BY <1>1, <2>1, DrainNext
  <2>4. CASE Full(pos, ms, k, n)
    BY <2>1, <2>2, <2>3, <2>4
  <2>5. CASE ~Full(pos, ms, k, n)
    <3>1. k < Len(ms)
      BY <1>2, <2>5 DEF Full
    <3>2. k + 1 \in 0..Len(ms) /\ pos[k + 1] \in Nat /\ pos[k] < pos[k + 1] /\ pos[k] \in Nat
      <4>1. KeptIs(Kept(U, pos, k, n), FlightUnits(f), U, pos, ms, k, n)
        BY <1>2, <2>1, KeptParts
      <4> QED
        BY <3>1, <4>1, Zenon DEF KeptIs
    <3>3. pos[k + 1] >= pos[j] + (i + 1)
      BY <1>3, <2>1, <2>5, <3>2
    <3>4. /\ Reached(U, pos, ms, k + 1, n)
          /\ At(g[i + 1], f, ms, Kept(U, pos, k + 1, n), k + 1, s, u)
      BY <2>2, <2>3, <2>5
    <3> QED
      BY <3>2, <3>3, <3>4
  <2> QED
    BY <2>4, <2>5
<1>7. Nat \subseteq T
  <2> HIDE DEF T
  <2> QED
    BY <1>5, <1>6, SetInduction
<1>8. P(l)
  <2>1. l <= l
    BY <1>3
  <2> HIDE DEF P
  <2> QED
    BY <1>3, <1>7, <2>1
<1>9. PICK k \in 0..Len(ms) : /\ Reached(U, pos, ms, k, n)
                              /\ At(g[l], f, ms, Kept(U, pos, k, n), k, s, u)
                              /\ Full(pos, ms, k, n) \/ pos[k] >= pos[j] + l
  BY <1>8
<1>10. Full(pos, ms, k, n)
  <2> SUFFICES ASSUME k # Len(ms), pos[k] >= pos[j] + l PROVE pos[k + 1] > n
    BY <1>9 DEF Full
  <2>1. k < Len(ms)
    BY <1>2
  <2>2. pos[k + 1] \in Nat /\ pos[k] < pos[k + 1] /\ pos[k] \in Nat
    <3>1. KeptIs(Kept(U, pos, k, n), FlightUnits(f), U, pos, ms, k, n)
      BY <1>2, <1>9, KeptParts
    <3> QED
      BY <2>1, <3>1, Zenon DEF KeptIs
  <2>3. pos[j] + l >= n /\ n \in Nat /\ pos[j] + l \in Nat
    BY <1>2, <1>3
  <2>4. PICK x, y, z : x = pos[k] /\ y = pos[k + 1] /\ z = pos[j] + l
    OBVIOUS
  <2>5. x \in Nat /\ y \in Nat /\ z \in Nat /\ x < y /\ x >= z /\ z >= n
    BY <2>2, <2>3, <2>4, Zenon
  <2>6. y > n
    BY <2>3, <2>5
  <2> QED
    BY <2>4, <2>6, Zenon
<1>11. Drained(g[l], f, U, pos, ms, n, s, u)
  BY <1>9, <1>10 DEF Drained
<1> QED
  BY <1>1, <1>4, <1>11, Zenon

-----------------------------------------------------------------------------
(* What the server sends after its hello: the flight's records and, from   *)
(* one that is early with it, the ticket.                                  *)
EarlyTickets(f)    == IF f.early THEN 1 ELSE 0
AfterHello(f, cuts) == FlightRecords(f, cuts) \o (IF f.early THEN <<Ticket(f, 0)>> ELSE <<>>)

FlightRecord(f, U, e, k) ==
    Protect(FlightSecret(f), k - 1, "handshake", SubSeq(U, e[k - 1] + 1, e[k]))

Dealt(D, f, e, K, U) ==
    /\ K \in Nat \ {0} /\ e \in [0..K -> Nat] /\ e[0] = 0 /\ e[K] = Len(U)
    /\ \A k \in 0..K : e[k] <= Len(U)
    /\ \A k \in 0..(K - 1) : e[k] < Len(U)
    /\ \A k \in 1..K : e[k - 1] <= e[k]
    /\ EarlyTickets(f) \in {0, 1} /\ Len(D) = K + EarlyTickets(f)
    /\ \A k \in 1..K : D[k] = FlightRecord(f, U, e, k)
    /\ EarlyTickets(f) = 1 => D[K + 1] = Ticket(f, 0)

LEMMA FlightDealt ==
    ASSUME NEW f \in Flavours, NEW cuts, NEW U, U = AllUnits(FlightMessages(f))
    PROVE  \E e, K : Dealt(AfterHello(f, cuts), f, e, K, U)
<1>1. PICK e, K : Cut(e, K, U, FlightRecords(f, cuts), FlightSecret(f))
  BY FlightCut
<1>2. PICK recs : recs = FlightRecords(f, cuts)
  OBVIOUS
<1>3. /\ K \in Nat \ {0} /\ e \in [0..K -> Nat] /\ e[0] = 0 /\ e[K] = Len(U)
      /\ \A k \in 0..K : e[k] <= Len(U)
      /\ \A k \in 0..(K - 1) : e[k] < Len(U)
      /\ \A k \in 1..K : e[k - 1] <= e[k]
  BY <1>1, Zenon DEF Cut
<1>4. recs = [k \in 1..K |-> FlightRecord(f, U, e, k)]
  BY <1>1, <1>2, Zenon DEF Cut, FlightRecord
<1>5. PICK S, t : t = Ticket(f, 0) /\ S = {FlightRecord(f, U, e, k) : k \in 1..K} \cup {t}
  OBVIOUS
<1>6. recs \in Seq(S) /\ Len(recs) = K /\ \A k \in 1..K : recs[k] = FlightRecord(f, U, e, k)
  <2>1. \A k \in 1..K : FlightRecord(f, U, e, k) \in S
    BY <1>5
  <2> QED
    BY <1>3, <1>4, <2>1
<1>7. PICK D : D = AfterHello(f, cuts)
  OBVIOUS
<1>8. CASE f.early
  <2>1. D = recs \o <<t>> /\ EarlyTickets(f) = 1
    BY <1>2, <1>5, <1>7, <1>8, Zenon DEF AfterHello, EarlyTickets
  <2>2. PICK o : o = <<t>>
    OBVIOUS
  <2>3. o \in Seq(S) /\ Len(o) = 1 /\ o[1] = t
    BY <1>5, <2>2
  <2>4. /\ Len(recs \o o) = K + 1 /\ (recs \o o)[K + 1] = t
        /\ \A k \in 1..K : (recs \o o)[k] = recs[k]
    <3>1. recs \o <<t>> = Append(recs, t)
      BY <1>5, <1>6, AppendIsConcat
    <3>2. PICK x : x = Append(recs, t)
      OBVIOUS
    <3>3. Len(x) = K + 1 /\ x[K + 1] = t /\ \A k \in 1..K : x[k] = recs[k]
      BY <1>3, <1>5, <1>6, <3>2
    <3> QED
      BY <2>2, <3>1, <3>2, <3>3
  <2>5. Len(D) = K + 1 /\ D[K + 1] = t /\ \A k \in 1..K : D[k] = FlightRecord(f, U, e, k)
    BY <1>6, <2>1, <2>2, <2>4
  <2>6. EarlyTickets(f) \in {0, 1} /\ Len(D) = K + EarlyTickets(f)
    BY <2>1, <2>5
  <2>7. Dealt(D, f, e, K, U)
    BY <1>3, <1>5, <2>5, <2>6, Zenon DEF Dealt
  <2> QED
    BY <1>7, <2>7
<1>9. CASE ~f.early
  <2>1. D = recs \o <<>> /\ EarlyTickets(f) = 0
    BY <1>2, <1>7, <1>9, Zenon DEF AfterHello, EarlyTickets
  <2>2. D = recs
    BY <1>6, <2>1, ConcatEmptySeq
  <2>3. /\ EarlyTickets(f) \in {0, 1} /\ Len(D) = K + EarlyTickets(f) /\ EarlyTickets(f) # 1
    BY <1>3, <1>6, <2>1, <2>2
  <2>4. Dealt(D, f, e, K, U)
    BY <1>3, <1>6, <2>2, <2>3, Zenon DEF Dealt
  <2> QED
    BY <1>7, <2>4
<1> QED
  BY <1>8, <1>9

(* The n-th of D's records comes h[i] = n records into d, where d is D     *)
(* with ChangeCipherSpec records put in.                                   *)
Mixed(d, D, h) ==
    /\ Len(d) \in Nat /\ Len(D) \in Nat
    /\ h \in [0..Len(d) -> 0..Len(D)] /\ h[0] = 0 /\ h[Len(d)] = Len(D)
    /\ \A i \in 1..Len(d) : \/ d[i] = ChangeCipherSpec /\ h[i] = h[i - 1]
                            \/ h[i] = h[i - 1] + 1 /\ d[i] = D[h[i]]

(* A record of the flight, read at its turn. *)
LEMMA RecordNext ==
    ASSUME NEW f \in Flavours, f.certtype = "certificate", NEW ms, ms = FlightMessages(f),
           NEW U, U = AllUnits(ms), NEW pos, NEW a, NEW n, NEW s \in Nat, NEW u, NEW stall,
           NEW l, n <= l, l <= Len(U), l \in Nat, Going(a), NEW r,
           r = Protect(FlightSecret(f), s, "handshake", SubSeq(U, n + 1, l)),
           Drained(a, f, U, pos, ms, n, s, u)
    PROVE  Drained(FlightStep(a, r, FlightSecret(f), stall), f, U, pos, ms, l, s + 1, u + 1)
<1>1. PICK j \in 0..Len(ms) : /\ Reached(U, pos, ms, j, n) /\ Full(pos, ms, j, n)
                              /\ At(a, f, ms, Kept(U, pos, j, n), j, s, u)
  BY DEF Drained
<1>2. PICK S, p, q, shts : /\ S = FlightUnits(f) /\ p = Kept(U, pos, j, n) /\ shts = FlightSecret(f)
                           /\ q = SubSeq(U, n + 1, l)
  OBVIOUS
<1>3. Len(ms) \in Nat /\ n \in Nat /\ U \in Seq(S) /\ Len(U) \in Nat /\ pos[j] <= n
  BY <1>1, <1>2, FlightUnitsSeq DEF Reached
<1>4. j < Len(ms)
  <2>1. (j = Len(ms)) => ~Going(a)
    BY <1>1, <1>3, AtFields, Zenon DEF AtHas
  <2> QED
    BY <1>3, <2>1
<1>5. p \o q = Kept(U, pos, j, l)
  <2>1. PICK x : x = pos[j]
    OBVIOUS
  <2>2. x \in Nat /\ x <= n
    <3>1. KeptIs(p, S, U, pos, ms, j, n)
      BY <1>1, <1>2, <1>3, KeptParts
    <3> QED
      BY <1>3, <2>1, <3>1, Zenon DEF KeptIs
  <2>3. x + 1 \in 1..(Len(U) + 1) /\ n \in (x + 1 - 1)..Len(U) /\ l \in n..Len(U)
    BY <1>3, <2>2
  <2>4. SubSeq(U, x + 1, n) \o SubSeq(U, n + 1, l) = SubSeq(U, x + 1, l)
    <3>1. PICK m : m = x + 1
      OBVIOUS
    <3>2. m \in 1..(Len(U) + 1) /\ n \in (m - 1)..Len(U)
      BY <1>3, <2>2, <3>1
    <3>3. SubSeq(U, m, n) \o SubSeq(U, n + 1, l) = SubSeq(U, m, l)
      BY <1>3, <2>3, <3>2, ConcatAdjacentSubSeq
    <3> QED
      BY <3>1, <3>3
  <2> QED
    BY <1>2, <2>1, <2>4 DEF Kept
<1>6. PICK th, c, v, no, w : /\ th = Told(f, j) /\ c = ChainAt(f, ms, j) /\ v = CvAt(f, ms, j)
                             /\ no = FALSE /\ w = None
  OBVIOUS
<1>7. a = Acc(s, th, p, c, v, no, w, u)
  <2>1. a = Acc(s, Told(f, j), Kept(U, pos, j, n), ChainAt(f, ms, j), CvAt(f, ms, j), FALSE, None, u)
    BY <1>1, <1>4 DEF At
  <2> QED
    BY <1>2, <1>6, <2>1, Zenon
<1>8. a.seq = s
  BY <1>7, AccFields
<1>9. r.type = "appdata" /\ Opens(r, shts, a.seq) /\ r.ct = "handshake" /\ r.payload = q
  <2>1. r = [type |-> "appdata", secret |-> shts, seq |-> s, ct |-> "handshake", payload |-> q,
             sound |-> TRUE]
    BY <1>2, Zenon DEF Protect
  <2>2. r.type = "appdata" /\ r.secret = shts /\ r.seq = s /\ r.ct = "handshake" /\ r.payload = q
        /\ r.sound
    BY <2>1
  <2> QED
    BY <1>8, <2>2, Zenon DEF Opens
<1>10. PICK b : b = [a EXCEPT !.used = @ + 1]
  OBVIOUS
<1>11. PICK z : z = [b EXCEPT !.seq = @ + 1, !.pending = @ \o r.payload]
  OBVIOUS
<1>12. FlightStep(a, r, shts, stall) = Drain(z, shts, stall)
  <2>1. r.type # "ccs"
    BY <1>9
  <2> QED
    BY <1>9, <1>10, <1>11, <2>1, Zenon DEF FlightStep, TakeRecord
<1>13. z = Acc(s + 1, th, p \o q, c, v, no, w, u + 1)
  <2>1. b = Acc(s, th, p, c, v, no, w, u + 1)
    BY <1>7, <1>10, AccUsed
  <2>2. z = [b EXCEPT !.seq = @ + 1, !.pending = @ \o q]
    BY <1>9, <1>11, Zenon
  <2> QED
    BY <2>1, <2>2 DEF Acc
<1>14. At(z, f, ms, Kept(U, pos, j, l), j, s + 1, u + 1)
  <2>1. j # Len(ms)
    BY <1>3, <1>4
  <2> QED
    BY <1>4, <1>5, <1>6, <1>13, <2>1, Zenon DEF At
<1>15. Reached(U, pos, ms, j, l)
  <2>1. l \in 0..Len(U)
    BY <1>3
  <2>2. pos[j] <= l
    <3>1. KeptIs(p, S, U, pos, ms, j, n)
      BY <1>1, <1>2, <1>3, KeptParts
    <3>2. pos[j] \in Nat
      BY <3>1, Zenon DEF KeptIs
    <3> QED
      BY <1>3, <3>2
  <2> QED
    BY <1>1, <2>1, <2>2, Zenon DEF Reached
<1>16. Drained(Drain(z, shts, stall), f, U, pos, ms, l, s + 1, u + 1)
  BY <1>2, <1>14, <1>15, DrainAll
<1> QED
  BY <1>2, <1>12, <1>16, Zenon

(* A ChangeCipherSpec only counts as used. *)
LEMMA CcsNext ==
    ASSUME NEW f, NEW ms, NEW U, NEW pos, NEW a, NEW n, NEW s, NEW u, NEW stall, NEW shts, Going(a),
           Drained(a, f, U, pos, ms, n, s, u), Len(ms) \in Nat
    PROVE  Drained(FlightStep(a, ChangeCipherSpec, shts, stall), f, U, pos, ms, n, s, u + 1)
<1>1. PICK j \in 0..Len(ms) : /\ Reached(U, pos, ms, j, n) /\ Full(pos, ms, j, n)
                              /\ At(a, f, ms, Kept(U, pos, j, n), j, s, u)
  BY DEF Drained
<1>2. j < Len(ms) /\ j # Len(ms)
  <2>1. (j = Len(ms)) => ~Going(a)
    BY <1>1, AtFields, Zenon DEF AtHas
  <2> QED
    BY <2>1
<1>3. PICK p, th, c, v, no, w, b :
         /\ th = Told(f, j) /\ c = ChainAt(f, ms, j) /\ v = CvAt(f, ms, j)
         /\ no = FALSE /\ w = None /\ p = Kept(U, pos, j, n)
         /\ b = [a EXCEPT !.used = @ + 1]
  OBVIOUS
<1>4. a = Acc(s, th, p, c, v, no, w, u)
  <2>1. a = Acc(s, Told(f, j), Kept(U, pos, j, n), ChainAt(f, ms, j), CvAt(f, ms, j), FALSE, None, u)
    BY <1>1, <1>2 DEF At
  <2> QED
    BY <1>3, <2>1, Zenon
<1>5. b = Acc(s, th, p, c, v, no, w, u + 1)
  <2>1. b = [a EXCEPT !.used = @ + 1]
    BY <1>3, Zenon
  <2> QED
    BY <1>4, <2>1, AccUsed
<1>6. At(b, f, ms, Kept(U, pos, j, n), j, s, u + 1)
  BY <1>2, <1>3, <1>5, Zenon DEF At
<1>7. FlightStep(a, ChangeCipherSpec, shts, stall) = b
  <2>1. ChangeCipherSpec.type = "ccs"
    BY DEF ChangeCipherSpec
  <2> QED
    BY <1>3, <2>1, Zenon DEF FlightStep, TakeRecord
<1> QED
  BY <1>1, <1>6, <1>7, Zenon DEF Drained

(* A call over the first m of the records d has read u of them, all, or as *)
(* far as the Finished.                                                    *)
ReadTo(a, f, U, pos, ms, e, K, h, m) ==
    \E u \in 0..m : /\ h[u] \in 0..K /\ Drained(a, f, U, pos, ms, e[h[u]], h[u], u)
                    /\ u = m \/ ~Going(a)

LEMMA NewFlightRead ==
    ASSUME NEW f \in Flavours, NEW ms, ms = FlightMessages(f), NEW U, U = AllUnits(ms),
           NEW pos, Laid(pos, ms, U), NEW c,
           c.hs_read = 0, c.transcript = Th0(f)
    PROVE  Drained(NewFlight(c), f, U, pos, ms, 0, 0, 0)
<1>1. Shaped(ms, f) /\ TellsAll(f, ms) /\ U \in Seq(FlightUnits(f))
  BY FlightShaped, TellsFlight, FlightUnitsSeq
<1>2. /\ Len(ms) \in Nat /\ Len(ms) >= 4 /\ Len(U) \in Nat
      /\ \A j \in 1..Len(ms) : ms[j].size \in Nat \ {0}
  BY <1>1 DEF Shaped
<1>3. /\ 0 \in 0..Len(ms) /\ 1 \in 1..Len(ms) /\ 0 + 1 = 1 /\ 1 - 1 = 0 /\ 0 < Len(ms) /\ 0 # Len(ms)
      /\ ~(0 >= Len(ms) - 2) /\ ~(0 >= Len(ms) - 1)
  BY <1>2
<1>4. pos[0] = 0 /\ pos[1] = pos[0] + ms[1].size
  BY <1>3 DEF Laid
<1>5. Full(pos, ms, 0, 0)
  BY <1>2, <1>3, <1>4 DEF Full
<1>6. Reached(U, pos, ms, 0, 0)
  <2>1. ms \in Seq({ms[i] : i \in 1..Len(ms)})
    <3>1. ms \in Seq(Messages(f))
      BY <1>1 DEF Shaped
    <3>2. PICK T : T = {ms[i] : i \in 1..Len(ms)}
      OBVIOUS
    <3>3. ms = [i \in 1..Len(ms) |-> ms[i]] /\ \A i \in 1..Len(ms) : ms[i] \in T
      BY <3>1, <3>2
    <3>4. ms \in Seq(T)
      BY <1>2, <3>3
    <3> QED
      BY <3>2, <3>4
  <2>2. 0 \in 0..Len(U) /\ pos[0] <= 0
    BY <1>2, <1>4
  <2> QED
    BY <1>2, <1>3, <2>1, <2>2, Zenon DEF Reached
<1>7. Kept(U, pos, 0, 0) = <<>>
  BY <1>1, <1>4 DEF Kept
<1>8. ChainAt(f, ms, 0) = <<>> /\ CvAt(f, ms, 0) = None /\ Told(f, 0) = Th0(f)
  BY <1>1, <1>3, Zenon DEF ChainAt, CvAt, TellsAll
<1>9. At(NewFlight(c), f, ms, Kept(U, pos, 0, 0), 0, 0, 0)
  <2>1. NewFlight(c) = Acc(0, Th0(f), <<>>, <<>>, None, FALSE, None, 0)
    BY Zenon DEF NewFlight, Acc
  <2> QED
    BY <1>3, <1>7, <1>8, <2>1, Zenon DEF At
<1> QED
  BY <1>3, <1>5, <1>6, <1>9, Zenon DEF Drained

LEMMA FlightReads ==
    ASSUME NEW f \in Flavours, f.certtype = "certificate", NEW ms, ms = FlightMessages(f),
           NEW U, U = AllUnits(ms), NEW pos, Laid(pos, ms, U),
           NEW D, NEW e, NEW K, Dealt(D, f, e, K, U), NEW d, NEW h, Mixed(d, D, h),
           NEW c, c.hs_read = 0, c.transcript = Th0(f), c.shts[1] = FlightSecret(f),
           NEW m, m \in 1..Len(d), NEW recs, Len(recs) = m, \A i \in 1..m : recs[i] = d[i],
           NEW stall
    PROVE  ReadTo(ReadFlight(c, recs, stall), f, U, pos, ms, e, K, h, m)
<1>1. PICK shts : shts = FlightSecret(f)
  OBVIOUS
<1>2. /\ Len(d) \in Nat /\ Len(D) \in Nat /\ h \in [0..Len(d) -> 0..Len(D)] /\ h[0] = 0
      /\ \A i \in 1..Len(d) : \/ d[i] = ChangeCipherSpec /\ h[i] = h[i - 1]
                              \/ h[i] = h[i - 1] + 1 /\ d[i] = D[h[i]]
  BY DEF Mixed
<1>3. m \in Nat /\ m <= Len(d)
  BY <1>2
<1>4. /\ K \in Nat \ {0} /\ e \in [0..K -> Nat] /\ e[0] = 0 /\ e[K] = Len(U)
      /\ \A k \in 0..K : e[k] <= Len(U)
      /\ \A k \in 1..K : e[k - 1] <= e[k]
      /\ \A k \in 1..K : D[k] = FlightRecord(f, U, e, k)
  BY Zenon DEF Dealt
<1>5. Len(ms) \in Nat /\ Len(U) \in Nat
  BY FlightShaped, FlightUnitsSeq DEF Shaped
<1>6. PICK g : /\ ReadFlight(c, recs, stall) = g[m] /\ g[0] = NewFlight(c)
               /\ \A i \in 1..m : g[i] = FlightStep(g[i - 1], recs[i], shts, stall)
  <2>1. Len(recs) \in Nat
    BY <1>3
  <2>2. PICK g : /\ ReadFlight(c, recs, stall) = g[Len(recs)] /\ g[0] = NewFlight(c)
                 /\ \A i \in 1..Len(recs) : g[i] = FlightStep(g[i - 1], recs[i], c.shts[1], stall)
    BY <2>1, FlightRun
  <2> QED
    BY <1>1, <2>2, ZenonT(60)
<1> DEFINE P(i) == ReadTo(g[i], f, U, pos, ms, e, K, h, i)
           T == {i \in Nat : i <= m => P(i)}
<1>7. 0 \in T
  <2>1. Drained(NewFlight(c), f, U, pos, ms, 0, 0, 0)
    BY NewFlightRead
  <2>2. h[0] \in 0..K /\ 0 \in 0..0 /\ e[h[0]] = 0 /\ h[0] = 0
    BY <1>2, <1>4
  <2>3. P(0)
    BY <1>6, <2>1, <2>2, Zenon DEF ReadTo
  <2> QED
    BY <2>3
<1>8. ASSUME NEW i \in Nat, i \in T PROVE i + 1 \in T
  <2> SUFFICES ASSUME i + 1 <= m PROVE P(i + 1)
    OBVIOUS
  <2>1. PICK u \in 0..i : /\ h[u] \in 0..K /\ Drained(g[i], f, U, pos, ms, e[h[u]], h[u], u)
                          /\ u = i \/ ~Going(g[i])
    BY <1>3, <1>8 DEF ReadTo
  <2>2. i + 1 \in 1..m /\ (i + 1) - 1 = i /\ i + 1 \in 1..Len(d) /\ u \in 0..(i + 1)
        /\ i + 1 \in 0..(i + 1) /\ i + 1 \in 0..Len(d)
    BY <1>2, <1>3
  <2>3. g[i + 1] = FlightStep(g[i], d[i + 1], shts, stall)
    <3>1. recs[i + 1] = d[i + 1]
      BY <2>2
    <3> QED
      BY <1>6, <2>2, <3>1
  <2>4. CASE ~Going(g[i])
    <3>1. g[i + 1] = g[i]
      BY <2>3, <2>4, Zenon DEF FlightStep
    <3> QED
      BY <2>1, <2>2, <2>4, <3>1, Zenon DEF ReadTo
  <2>5. CASE Going(g[i])
    <3>1. u = i /\ h[i] \in 0..K /\ Drained(g[i], f, U, pos, ms, e[h[i]], h[i], i)
      BY <2>1, <2>5
    <3>2. CASE d[i + 1] = ChangeCipherSpec /\ h[i + 1] = h[i]
      <4>1. Drained(FlightStep(g[i], ChangeCipherSpec, shts, stall), f, U, pos, ms, e[h[i]], h[i], i + 1)
        BY <1>5, <2>5, <3>1, CcsNext
      <4>2. /\ h[i + 1] \in 0..K
            /\ Drained(g[i + 1], f, U, pos, ms, e[h[i + 1]], h[i + 1], i + 1)
        BY <2>3, <3>1, <3>2, <4>1, Zenon
      <4> QED
        BY <2>2, <4>2, Zenon DEF ReadTo
    <3>3. CASE h[i + 1] = h[i] + 1 /\ d[i + 1] = D[h[i + 1]]
      <4>1. h[i] # K
        <5> SUFFICES ASSUME h[i] = K PROVE FALSE
          OBVIOUS
        <5>1. PICK j \in 0..Len(ms) : /\ Reached(U, pos, ms, j, e[K]) /\ Full(pos, ms, j, e[K])
                                      /\ At(g[i], f, ms, Kept(U, pos, j, e[K]), j, K, i)
          BY <3>1 DEF Drained
        <5>2. (j = Len(ms)) => ~Going(g[i])
          <6>1. PICK b, p : b = g[i] /\ p = Kept(U, pos, j, e[K])
            OBVIOUS
          <6>2. At(b, f, ms, p, j, K, i)
            BY <5>1, <6>1, Zenon
          <6>3. (j = Len(ms)) => ~Going(b)
            BY <1>5, <6>2, AtFields, Zenon DEF AtHas
          <6> QED
            BY <6>1, <6>3, Zenon
        <5>3. j # Len(ms) /\ j + 1 \in 0..Len(ms)
          BY <1>5, <2>5, <5>2
        <5>4. pos[j + 1] > Len(U)
          BY <1>4, <5>1, <5>3 DEF Full
        <5>5. pos[j + 1] <= Len(U) /\ pos[j + 1] \in Nat
          BY <5>3 DEF Laid
        <5> QED
          BY <1>5, <5>4, <5>5
      <4>2. PICK k, s : k = h[i + 1] /\ s = h[i]
        OBVIOUS
      <4>3. s \in Nat /\ k \in 1..K /\ k = s + 1 /\ k - 1 = s /\ k \in 0..K /\ s \in 0..K
        <5>1. s \in 0..K /\ s # K /\ k = s + 1
          BY <3>1, <3>3, <4>1, <4>2, Zenon
        <5> QED
          BY <1>4, <5>1
      <4>4. d[i + 1] = Protect(FlightSecret(f), s, "handshake", SubSeq(U, e[s] + 1, e[k]))
        <5>1. d[i + 1] = FlightRecord(f, U, e, k)
          BY <1>4, <3>3, <4>2, <4>3
        <5> QED
          BY <4>3, <5>1, Zenon DEF FlightRecord
      <4>5. e[s] <= e[k] /\ e[k] <= Len(U) /\ e[k] \in Nat
        BY <1>4, <4>3
      <4>6. Drained(g[i], f, U, pos, ms, e[s], s, i)
        BY <3>1, <4>2
      <4>7. Drained(FlightStep(g[i], d[i + 1], FlightSecret(f), stall), f, U, pos, ms, e[k], s + 1, i + 1)
        BY <2>5, <4>3, <4>4, <4>5, <4>6, RecordNext
      <4>8. h[i + 1] \in 0..K /\ Drained(g[i + 1], f, U, pos, ms, e[h[i + 1]], h[i + 1], i + 1)
        BY <1>1, <2>3, <4>2, <4>3, <4>7, Zenon
      <4> QED
        BY <2>2, <4>8, Zenon DEF ReadTo
    <3> QED
      BY <1>2, <2>2, <3>2, <3>3
  <2> QED
    BY <2>4, <2>5
<1>9. Nat \subseteq T
  <2> HIDE DEF T
  <2> QED
    BY <1>7, <1>8, SetInduction
<1>10. P(m)
  <2>1. m <= m
    BY <1>3
  <2> HIDE DEF P
  <2> QED
    BY <1>3, <1>9, <2>1
<1> QED
  BY <1>6, <1>10, Zenon

(* Records of a server that is not disturbed: protected ones and, put in   *)
(* by a middlebox, ChangeCipherSpec.                                       *)
AllData(D) == \A k \in 1..Len(D) : D[k].type = "appdata"

LEMMA DealtTypes ==
    ASSUME NEW f, NEW D, NEW e, NEW K, NEW U, Dealt(D, f, e, K, U)
    PROVE  AllData(D)
<1>1. /\ K \in Nat \ {0} /\ EarlyTickets(f) \in {0, 1} /\ Len(D) = K + EarlyTickets(f)
      /\ \A i \in 1..K : D[i] = FlightRecord(f, U, e, i)
      /\ EarlyTickets(f) = 1 => D[K + 1] = Ticket(f, 0)
  BY Zenon DEF Dealt
<1>2. \A x, y, z, w : Protect(x, y, z, w).type = "appdata"
  BY DEF Protect
<1> SUFFICES ASSUME NEW k \in 1..Len(D) PROVE D[k].type = "appdata"
  BY DEF AllData
<1>3. CASE k \in 1..K
  <2>0. D[k] = FlightRecord(f, U, e, k)
    BY <1>1, <1>3
  <2>1. \E x, w : D[k] = Protect(x, k - 1, "handshake", w)
    BY <2>0 DEF FlightRecord
  <2> QED
    BY <1>2, <2>1
<1>4. CASE k \notin 1..K
  <2>1. k = K + 1 /\ EarlyTickets(f) = 1
    BY <1>1, <1>4
  <2>0. D[k] = Ticket(f, 0)
    BY <1>1, <2>1
  <2>2. \E x : D[k] = Protect(x, 0, "handshake", <<>>)
    BY <2>0 DEF Ticket
  <2> QED
    BY <1>2, <2>2
<1> QED
  BY <1>3, <1>4

Plain(d, x, y)  == \A i \in (x + 1)..y : d[i].type # "ccs"
Spaced(d, x, y) == \A i \in (x + 1)..y : d[i].type = "ccs"

LEMMA MixedCount ==
    ASSUME NEW d, NEW D, NEW h, Mixed(d, D, h), AllData(D),
           NEW x \in 0..Len(d), NEW y \in 0..Len(d), x <= y
    PROVE  /\ Plain(d, x, y) => h[y] = h[x] + (y - x)
           /\ Spaced(d, x, y) => h[y] = h[x]
<1>1. /\ Len(d) \in Nat /\ Len(D) \in Nat /\ h \in [0..Len(d) -> 0..Len(D)]
      /\ \A i \in 1..Len(d) : \/ d[i] = ChangeCipherSpec /\ h[i] = h[i - 1]
                              \/ h[i] = h[i - 1] + 1 /\ d[i] = D[h[i]]
  BY DEF Mixed
<1>2. ChangeCipherSpec.type = "ccs"
  BY DEF ChangeCipherSpec
<1> DEFINE Q(n) == /\ Plain(d, x, x + n) => h[x + n] = h[x] + n
                   /\ Spaced(d, x, x + n) => h[x + n] = h[x]
           T == {n \in Nat : x + n <= Len(d) => Q(n)}
<1>3. 0 \in T
  <2>1. x + 0 = x /\ h[x] \in Nat
    BY <1>1
  <2>2. Q(0)
    BY <2>1
  <2> QED
    BY <2>2
<1>4. ASSUME NEW n \in Nat, n \in T PROVE n + 1 \in T
  <2> SUFFICES ASSUME x + (n + 1) <= Len(d) PROVE Q(n + 1)
    OBVIOUS
  <2>1. Q(n)
    BY <1>1, <1>4
  <2>2. PICK z, w : z = x + n /\ w = x + (n + 1)
    OBVIOUS
  <2>3. w \in 1..Len(d) /\ w - 1 = z /\ w \in 0..Len(d) /\ z \in 0..Len(d) /\ w \in (x + 1)..w
        /\ \A i \in (x + 1)..z : i \in (x + 1)..w
    BY <1>1, <2>2
  <2>4. /\ h[z] \in Nat /\ h[x] \in Nat /\ h[w] \in 0..Len(D)
        /\ Plain(d, x, z) => h[z] = h[x] + n
        /\ Spaced(d, x, z) => h[z] = h[x]
    <3>1. h[z] \in Nat /\ h[x] \in Nat /\ h[w] \in 0..Len(D)
      <4>1. h \in [0..Len(d) -> 0..Len(D)] /\ Len(D) \in Nat
        BY <1>1
      <4>2. h[z] \in 0..Len(D) /\ h[x] \in 0..Len(D) /\ h[w] \in 0..Len(D)
        BY <2>3, <4>1
      <4> QED
        BY <4>1, <4>2
    <3>2. /\ Plain(d, x, z) => h[z] = h[x] + n
          /\ Spaced(d, x, z) => h[z] = h[x]
      BY <2>1, <2>2, Zenon
    <3> QED
      BY <3>1, <3>2, Zenon
  <2>5. (d[w] = ChangeCipherSpec /\ h[w] = h[z]) \/ (h[w] = h[z] + 1 /\ d[w] = D[h[w]])
    BY <1>1, <2>3
  <2>6. ASSUME Plain(d, x, w) PROVE h[w] = h[x] + (n + 1)
    <3>1. d[w].type # "ccs" /\ Plain(d, x, z)
      BY <2>3, <2>6 DEF Plain
    <3>2. h[w] = h[z] + 1
      BY <1>2, <2>5, <3>1
    <3>3. h[z] = h[x] + n /\ h[x] \in Nat
      BY <2>4, <3>1, Zenon
    <3>4. ASSUME NEW b \in Nat PROVE (b + n) + 1 = b + (n + 1)
      BY <3>4
    <3> QED
      BY <3>2, <3>3, <3>4, Zenon
  <2>7. ASSUME Spaced(d, x, w) PROVE h[w] = h[x]
    <3>1. d[w].type = "ccs" /\ Spaced(d, x, z)
      BY <2>3, <2>7 DEF Spaced
    <3>2. h[w] = h[z]
      <4> SUFFICES ASSUME h[w] = h[z] + 1, d[w] = D[h[w]] PROVE FALSE
        BY <2>5
      <4>1. h[w] \in 1..Len(D)
        BY <1>1, <2>4
      <4> QED
        BY <3>1, <4>1 DEF AllData
    <3> QED
      BY <2>4, <3>1, <3>2
  <2> QED
    BY <2>2, <2>6, <2>7
<1>5. Nat \subseteq T
  <2> HIDE DEF T
  <2> QED
    BY <1>3, <1>4, SetInduction
<1>6. y - x \in Nat /\ x + (y - x) = y /\ y <= Len(d)
  BY <1>1
<1>7. Q(y - x)
  <2> HIDE DEF Q
  <2> QED
    BY <1>5, <1>6
<1> QED
  BY <1>6, <1>7

(* What a call over the first m records of an undisturbed server, with     *)
(* ChangeCipherSpec among them or not, comes to: the whole flight, or one  *)
(* that is not over and of which more is to come.                          *)
Comes(a, f, d, h, K, m) ==
    \/ /\ FlightError(a) = "none" /\ a.finished /\ a.transcript = ServerTranscript(f)
       /\ \E u \in 0..m : a.used = u /\ h[u] = K
    \/ FlightError(a) = "Truncated" /\ ~a.finished /\ m < Len(d)

LEMMA FlightVerified ==
    ASSUME NEW f \in Flavours, Supported(f), f.signer = f.chain[1]
    PROVE  VerifyCertificateVerify(<<f.scheme, f.signer, CertTranscript(f), CertTranscript(f)>>,
                                   f.chain[1]) = "none"
<1>1. PICK k, g, ct, y : /\ k = f.scheme /\ g = f.signer /\ ct = CertTranscript(f)
                         /\ y = <<k, g, ct, ct>>
  OBVIOUS
<1>2. y[1] = k /\ y[2] = g /\ y[3] = y[4]
  BY <1>1
<1>3. g \in DOMAIN Certs \ KeylessCerts
  <2>1. f.chain \in Seq(DOMAIN Certs) /\ f.chain # <<>> /\ f.chain[1] \notin KeylessCerts
    BY FlavourAssumption DEF Supported
  <2>2. f.chain[1] \in DOMAIN Certs
    BY <2>1
  <2> QED
    BY <1>1, <2>1, <2>2
<1>4. LeafKey(g) = Some(Keys[g])
  BY <1>3, LeafAssumption
<1>5. LeafKey(g) # None
  BY <1>4, SomeIsNotNone
<1>6. k \in RsaSchemes
  BY <1>1 DEF Supported
<1>7. VerifyCertificateVerify(y, g) = "none"
  BY <1>2, <1>4, <1>5, <1>6, Zenon DEF VerifyCertificateVerify
<1> QED
  BY <1>1, <1>7, Zenon

LEMMA FlightOutcome ==
    ASSUME NEW f \in Flavours, Supported(f), f.signer = f.chain[1], NEW ms, ms = FlightMessages(f),
           NEW U, U = AllUnits(ms), NEW pos, Laid(pos, ms, U),
           NEW D, NEW e, NEW K, Dealt(D, f, e, K, U), NEW d, NEW h, Mixed(d, D, h),
           NEW m, m \in 1..Len(d), NEW a, ReadTo(a, f, U, pos, ms, e, K, h, m)
    PROVE  Comes(a, f, d, h, K, m)
<1>1. PICK u \in 0..m : /\ h[u] \in 0..K /\ Drained(a, f, U, pos, ms, e[h[u]], h[u], u)
                        /\ u = m \/ ~Going(a)
  BY DEF ReadTo
<1>2. PICK k, n : k = h[u] /\ n = e[k]
  OBVIOUS
<1>3. PICK j \in 0..Len(ms) : /\ Reached(U, pos, ms, j, n) /\ Full(pos, ms, j, n)
                              /\ At(a, f, ms, Kept(U, pos, j, n), j, k, u)
  BY <1>1, <1>2 DEF Drained
<1>4. Len(ms) \in Nat /\ Len(U) \in Nat /\ Len(ms) >= 4 /\ TellsAll(f, ms)
  BY FlightShaped, FlightUnitsSeq, TellsFlight DEF Shaped
<1>5. /\ K \in Nat \ {0} /\ e \in [0..K -> Nat] /\ e[K] = Len(U)
      /\ \A x \in 0..(K - 1) : e[x] < Len(U)
      /\ EarlyTickets(f) \in {0, 1} /\ Len(D) = K + EarlyTickets(f)
  BY Zenon DEF Dealt
<1>6. Len(d) \in Nat /\ h[Len(d)] = Len(D)
  BY DEF Mixed
<1>7. PICK p : p = Kept(U, pos, j, n)
  OBVIOUS
<1>8. At(a, f, ms, p, j, k, u)
  BY <1>3, <1>7
<1>9. /\ a.used = u /\ a.err = None /\ a.transcript = Told(f, j)
      /\ a.chain = ChainAt(f, ms, j) /\ a.cv = CvAt(f, ms, j)
      /\ (j < Len(ms)) => Going(a) /\ ~a.finished
      /\ (j = Len(ms)) => ~Going(a) /\ a.finished
  <2>1. AtHas(a, f, ms, p, j, k, u)
    BY <1>4, <1>8, AtFields
  <2> QED
    BY <2>1, Zenon DEF AtHas
<1>10. CASE j = Len(ms)
  <2>1. k = K
    <3> SUFFICES ASSUME k # K PROVE FALSE
      OBVIOUS
    <3>1. k \in 0..(K - 1)
      BY <1>1, <1>2, <1>5, SMTT(60)
    <3>2. n < Len(U)
      BY <1>2, <1>5, <3>1
    <3>3. pos[Len(ms)] <= n /\ pos[Len(ms)] = Len(U) /\ n \in Nat
      BY <1>3, <1>10 DEF Reached, Laid
    <3> QED
      BY <1>4, <3>2, <3>3
  <2>2. PICK cv : cv = <<f.scheme, f.signer, CertTranscript(f), CertTranscript(f)>>
    OBVIOUS
  <2>3. a.chain = f.chain /\ a.cv = Some(cv)
    <3>1. j >= Len(ms) - 2 /\ j >= Len(ms) - 1
      BY <1>4, <1>10
    <3> QED
      BY <1>9, <2>2, <3>1, Zenon DEF ChainAt, CvAt
  <2>4. f.chain # <<>>
    BY DEF Supported
  <2>5. a.cv # None /\ a.cv[1] = cv
    BY <2>3, SomeIsNotNone
  <2>6. VerifyCertificateVerify(cv, f.chain[1]) = "none"
    BY <2>2, FlightVerified, Zenon
  <2>7. FlightError(a) = "none"
    BY <1>9, <1>10, <2>3, <2>4, <2>5, <2>6, Zenon DEF FlightError
  <2>8. a.transcript = ServerTranscript(f)
    BY <1>4, <1>9, <1>10, Zenon DEF TellsAll
  <2> QED
    BY <1>1, <1>2, <1>9, <1>10, <2>1, <2>7, <2>8, Zenon DEF Comes
<1>11. CASE j # Len(ms)
  <2>1. j < Len(ms)
    BY <1>4, <1>11
  <2>2. FlightError(a) = "Truncated"
    BY <1>9, <2>1, Zenon DEF FlightError
  <2>3. u = m
    BY <1>1, <1>9, <2>1
  <2>4. m # Len(d)
    <3> SUFFICES ASSUME m = Len(d) PROVE FALSE
      OBVIOUS
    <3>1. k = Len(D)
      BY <1>2, <1>6, <2>3
    <3>2. k = K
      BY <1>1, <1>2, <1>5, <3>1
    <3>3. n = Len(U)
      BY <1>2, <1>5, <3>2
    <3>4. pos[j + 1] > Len(U)
      BY <1>3, <1>11, <3>3 DEF Full
    <3>5. j + 1 \in 0..Len(ms)
      BY <1>4, <2>1
    <3>6. pos[j + 1] <= Len(U) /\ pos[j + 1] \in Nat
      BY <3>5 DEF Laid
    <3> QED
      BY <1>4, <3>4, <3>6
  <2>5. m < Len(d)
    BY <1>6, <2>4
  <2> QED
    BY <1>9, <2>1, <2>2, <2>5, Zenon DEF Comes
<1> QED
  BY <1>10, <1>11

-----------------------------------------------------------------------------
ServerData(f)      == DeriveSecret(ServerSecret(f), "s ap traffic", ServerTranscript(f))
ClientData(f)      == DeriveSecret(ServerSecret(f), "c ap traffic", ServerTranscript(f))
ClientHandshake(f) == DeriveSecret(ServerSecret(f), "c hs traffic", Th0(f))

(* Records on the way to a client that has opened m of the q application   *)
(* records so far: up to the first ChangeCipherSpec each opens at its turn. *)
Echoes(d, f, m, q) ==
    /\ Len(d) \in Nat /\ \A i \in 1..Len(d) : d[i].type \in {"appdata", "ccs"}
    /\ \A i \in 1..Len(d) : Plain(d, 0, i) => Opens(d[i], ServerData(f), m + (i - 1))
    /\ Plain(d, 0, Len(d)) => q = m + Len(d)

(* A record sealed under a secret and a sequence opens under them. *)
LEMMA ProtectOpens ==
    ASSUME NEW s, NEW n, NEW ct, NEW p
    PROVE  Opens(Protect(s, n, ct, p), s, n) /\ Protect(s, n, ct, p).type = "appdata"
<1>1. PICK r : r = Protect(s, n, ct, p)
  OBVIOUS
<1>2. r.type = "appdata" /\ r.secret = s /\ r.seq = n /\ r.sound
  BY <1>1 DEF Protect
<1> QED
  BY <1>1, <1>2, Zenon DEF Opens

(* What is left once the flight is over: x, where nothing but              *)
(* ChangeCipherSpec was dropped behind the Finished.                       *)
Dropped(d, u, m)   == \A i \in (u + 1)..m : d[i].type # "appdata"
Remaining(x, d, m) == Len(x) = Len(d) - m /\ \A i \in 1..Len(x) : x[i] = d[m + i]

LEMMA EchoesAfterFlight ==
    ASSUME NEW f, NEW D, NEW e, NEW K, NEW U, Dealt(D, f, e, K, U), NEW d, NEW h, Mixed(d, D, h),
           NEW m, m \in 1..Len(d), NEW u, u \in 0..m, h[u] = K,
           Dropped(d, u, m), NEW x, Remaining(x, d, m)
    PROVE  Echoes(x, f, 0, EarlyTickets(f))
<1>0. /\ \A i \in (u + 1)..m : d[i].type # "appdata"
      /\ Len(x) = Len(d) - m /\ \A i \in 1..Len(x) : x[i] = d[m + i]
  BY Zenon DEF Dropped, Remaining
<1> USE <1>0
<1>1. /\ K \in Nat \ {0} /\ EarlyTickets(f) \in {0, 1} /\ Len(D) = K + EarlyTickets(f)
      /\ EarlyTickets(f) = 1 => D[K + 1] = Ticket(f, 0)
  BY Zenon DEF Dealt
<1>2. AllData(D) /\ \A k \in 1..Len(D) : D[k].type = "appdata"
  BY DealtTypes DEF AllData
<1>3. /\ Len(d) \in Nat /\ Len(D) \in Nat /\ h \in [0..Len(d) -> 0..Len(D)] /\ h[Len(d)] = Len(D)
      /\ \A i \in 1..Len(d) : \/ d[i] = ChangeCipherSpec /\ h[i] = h[i - 1]
                              \/ h[i] = h[i - 1] + 1 /\ d[i] = D[h[i]]
  BY DEF Mixed
<1>4. ChangeCipherSpec.type = "ccs"
  BY DEF ChangeCipherSpec
<1>5. ASSUME NEW i \in 1..Len(d)
      PROVE  /\ d[i].type \in {"appdata", "ccs"}
             /\ d[i].type = "appdata" => d[i] = D[h[i]]
  <2>1. i \in 0..Len(d) /\ i - 1 \in 0..Len(d)
    BY <1>3
  <2>2. h[i] \in 0..Len(D) /\ h[i - 1] \in 0..Len(D)
    BY <1>3, <2>1
  <2>3. CASE d[i] = ChangeCipherSpec
    BY <1>4, <2>3
  <2>4. CASE h[i] = h[i - 1] + 1 /\ d[i] = D[h[i]]
    <3>1. h[i] \in 1..Len(D)
      BY <1>3, <2>2, <2>4
    <3> QED
      BY <1>2, <2>4, <3>1
  <2> QED
    BY <1>3, <2>3, <2>4
<1>6. h[m] = K
  <2>1. u \in 0..Len(d) /\ m \in 0..Len(d) /\ u <= m
    BY <1>3
  <2>2. Spaced(d, u, m)
    <3> SUFFICES ASSUME NEW i \in (u + 1)..m PROVE d[i].type = "ccs"
      BY DEF Spaced
    <3>1. i \in 1..Len(d)
      BY <1>3
    <3> QED
      BY <1>5, <3>1
  <2>3. h[m] = h[u]
    BY <1>2, <2>1, <2>2, MixedCount
  <2> QED
    BY <2>3
<1>7. Len(x) \in Nat /\ m \in Nat /\ m <= Len(d) /\ m + Len(x) = Len(d)
  BY <1>3
<1>8. ASSUME NEW i \in 0..Len(x), Plain(x, 0, i) PROVE h[m + i] = K + i
  <2>1. m \in 0..Len(d) /\ m + i \in 0..Len(d) /\ m <= m + i /\ (m + i) - m = i
    BY <1>3, <1>7
  <2>2. Plain(d, m, m + i)
    <3> SUFFICES ASSUME NEW z \in (m + 1)..(m + i) PROVE d[z].type # "ccs"
      BY DEF Plain
    <3>1. z - m \in (0 + 1)..i /\ z - m \in 1..Len(x) /\ m + (z - m) = z
      BY <1>7
    <3>2. x[z - m].type # "ccs"
      BY <1>8, <3>1 DEF Plain
    <3> QED
      BY <3>1, <3>2
  <2>3. h[m + i] = h[m] + ((m + i) - m)
    BY <1>2, <2>1, <2>2, MixedCount
  <2> QED
    BY <1>6, <2>1, <2>3
<1>9. \A i \in 1..Len(x) : x[i].type \in {"appdata", "ccs"}
  <2> TAKE i \in 1..Len(x)
  <2>1. m + i \in 1..Len(d)
    BY <1>7
  <2> QED
    BY <1>5, <2>1
<1>10. ASSUME NEW i \in 1..Len(x), Plain(x, 0, i) PROVE Opens(x[i], ServerData(f), 0 + (i - 1))
  <2>1. i \in 0..Len(x) /\ m + i \in 1..Len(d) /\ m + i \in 0..Len(d) /\ i \in (0 + 1)..i
    BY <1>7
  <2>2. h[m + i] = K + i /\ h[m + i] \in 0..Len(D)
    BY <1>3, <1>8, <1>10, <2>1
  <2>3. EarlyTickets(f) = 1 /\ i = 1
    BY <1>1, <2>2
  <2>4. x[i].type # "ccs"
    BY <1>10, <2>1 DEF Plain
  <2>5. d[m + i] = D[h[m + i]]
    BY <1>5, <1>9, <2>1, <2>4
  <2>6. x[i] = Ticket(f, 0)
    BY <1>1, <2>2, <2>3, <2>5
  <2>7. Opens(Ticket(f, 0), ServerData(f), 0)
    BY ProtectOpens, Zenon DEF Ticket, ServerData
  <2>8. 0 + (i - 1) = 0
    BY <2>3
  <2> QED
    BY <2>6, <2>7, <2>8, Zenon
<1>11. ASSUME Plain(x, 0, Len(x)) PROVE EarlyTickets(f) = 0 + Len(x)
  <2>1. h[m + Len(x)] = K + Len(x)
    BY <1>7, <1>8, <1>11
  <2> QED
    BY <1>1, <1>3, <1>7, <2>1
<1> QED
  BY <1>7, <1>9, <1>10, <1>11, Zenon DEF Echoes

(* The client opens the first, and the server sends one more. *)
LEMMA EchoesHead ==
    ASSUME NEW d, NEW f, NEW m, NEW q, Echoes(d, f, m, q), d # <<>>, NEW S, d \in Seq(S)
    PROVE  /\ Head(d).type \in {"appdata", "ccs"} /\ 1 \in 1..Len(d) /\ Head(d) = d[1]
           /\ Head(d).type = "appdata" => Opens(Head(d), ServerData(f), m + 0)
<1>1. 1 \in 1..Len(d) /\ Head(d) = d[1] /\ 1 \in (0 + 1)..1 /\ 1 - 1 = 0
  OBVIOUS
<1>2. ASSUME d[1].type = "appdata" PROVE Opens(d[1], ServerData(f), m + (1 - 1))
  <2>1. Plain(d, 0, 1)
    BY <1>2 DEF Plain
  <2> QED
    BY <1>1, <2>1 DEF Echoes
<1>3. d[1].type \in {"appdata", "ccs"}
  BY <1>1 DEF Echoes
<1> QED
  BY <1>1, <1>2, <1>3, Zenon

LEMMA EchoesTail ==
    ASSUME NEW d, NEW f, NEW m \in Nat, NEW q, Echoes(d, f, m, q), d # <<>>, NEW S, d \in Seq(S),
           Head(d).type = "appdata"
    PROVE  Echoes(Tail(d), f, m + 1, q)
<1>1. PICK x : x = Tail(d)
  OBVIOUS
<1>2. x \in Seq(S) /\ Len(x) \in Nat /\ Len(d) = Len(x) + 1 /\ \A i \in 1..Len(x) : x[i] = d[i + 1]
  BY <1>1
<1>3. d[1].type = "appdata"
  OBVIOUS
<1>4. ASSUME NEW i \in 0..Len(x), Plain(x, 0, i) PROVE Plain(d, 0, i + 1)
  <2> SUFFICES ASSUME NEW z \in (0 + 1)..(i + 1) PROVE d[z].type # "ccs"
    BY DEF Plain
  <2>1. CASE z = 1
    BY <1>3, <2>1
  <2>2. CASE z # 1
    <3>1. z - 1 \in (0 + 1)..i /\ z - 1 \in 1..Len(x) /\ (z - 1) + 1 = z
      BY <1>2, <2>2
    <3>2. x[z - 1].type # "ccs"
      BY <1>4, <3>1 DEF Plain
    <3> QED
      BY <1>2, <3>1, <3>2
  <2> QED
    BY <2>1, <2>2
<1>5. ASSUME NEW i \in 1..Len(x)
      PROVE  /\ x[i].type \in {"appdata", "ccs"}
             /\ Plain(x, 0, i) => Opens(x[i], ServerData(f), (m + 1) + (i - 1))
  <2>1. i + 1 \in 1..Len(d) /\ i \in 0..Len(x) /\ m + ((i + 1) - 1) = (m + 1) + (i - 1)
    BY <1>2
  <2>2. x[i] = d[i + 1]
    BY <1>2
  <2>3. d[i + 1].type \in {"appdata", "ccs"}
    BY <2>1 DEF Echoes
  <2>4. Plain(d, 0, i + 1) => Opens(d[i + 1], ServerData(f), m + ((i + 1) - 1))
    BY <2>1 DEF Echoes
  <2> QED
    BY <1>4, <2>1, <2>2, <2>3, <2>4
<1>6. ASSUME Plain(x, 0, Len(x)) PROVE q = (m + 1) + Len(x)
  <2>1. Len(x) \in 0..Len(x)
    BY <1>2
  <2>2. Plain(d, 0, Len(d))
    BY <1>2, <1>4, <1>6, <2>1
  <2>3. q = m + Len(d)
    BY <2>2 DEF Echoes
  <2> QED
    BY <1>2, <2>3
<1>7. Echoes(x, f, m + 1, q)
  BY <1>2, <1>5, <1>6 DEF Echoes
<1> QED
  BY <1>1, <1>7

LEMMA EchoesAppend ==
    ASSUME NEW d, NEW f, NEW m \in Nat, NEW q \in Nat, Echoes(d, f, m, q), NEW S, d \in Seq(S), NEW r,
           r.type = "appdata", Opens(r, ServerData(f), q)
    PROVE  Echoes(Append(d, r), f, m, q + 1)
<1>1. PICK x, T : x = Append(d, r) /\ T = S \cup {r}
  OBVIOUS
<1>2. d \in Seq(T) /\ r \in T
  BY <1>1, SeqGrows
<1>3. /\ Len(d) \in Nat /\ Len(x) = Len(d) + 1 /\ x[Len(d) + 1] = r
      /\ \A i \in 1..Len(d) : x[i] = d[i]
  BY <1>1, <1>2
<1>4. ASSUME NEW i \in 0..Len(d), NEW k \in i..(Len(d) + 1), Plain(x, 0, k) PROVE Plain(d, 0, i)
  <2> SUFFICES ASSUME NEW z \in (0 + 1)..i PROVE d[z].type # "ccs"
    BY DEF Plain
  <2>1. z \in 1..Len(d) /\ z \in (0 + 1)..k
    BY <1>3
  <2>2. x[z].type # "ccs"
    BY <1>4, <2>1 DEF Plain
  <2> QED
    BY <1>3, <2>1, <2>2
<1>5. ASSUME NEW i \in 1..Len(x)
      PROVE  /\ x[i].type \in {"appdata", "ccs"}
             /\ Plain(x, 0, i) => Opens(x[i], ServerData(f), m + (i - 1))
  <2>1. CASE i = Len(d) + 1
    <3>1. x[i] = r
      BY <1>3, <2>1
    <3>2. ASSUME Plain(x, 0, i) PROVE q = m + (i - 1)
      <4>1. Len(d) \in 0..Len(d) /\ i \in Len(d)..(Len(d) + 1)
        BY <1>3, <2>1
      <4>2. Plain(d, 0, Len(d))
        BY <1>4, <3>2, <4>1
      <4>3. q = m + Len(d)
        BY <4>2 DEF Echoes
      <4> QED
        BY <1>3, <2>1, <4>3
    <3> QED
      BY <3>1, <3>2
  <2>2. CASE i # Len(d) + 1
    <3>1. i \in 1..Len(d) /\ i \in 0..Len(d) /\ i \in i..(Len(d) + 1)
      BY <1>3, <2>2
    <3>2. x[i] = d[i]
      BY <1>3, <3>1
    <3>3. Plain(x, 0, i) => Plain(d, 0, i)
      BY <1>4, <3>1
    <3>4. d[i].type \in {"appdata", "ccs"}
      BY <3>1 DEF Echoes
    <3>5. Plain(d, 0, i) => Opens(d[i], ServerData(f), m + (i - 1))
      BY <3>1 DEF Echoes
    <3> QED
      BY <3>2, <3>3, <3>4, <3>5
  <2> QED
    BY <2>1, <2>2
<1>6. ASSUME Plain(x, 0, Len(x)) PROVE q + 1 = m + Len(x)
  <2>1. Len(d) \in 0..Len(d) /\ Len(x) \in Len(d)..(Len(d) + 1)
    BY <1>3
  <2>2. Plain(d, 0, Len(d))
    BY <1>4, <1>6, <2>1
  <2>3. q = m + Len(d)
    BY <2>2 DEF Echoes
  <2> QED
    BY <1>3, <2>3
<1>7. Echoes(x, f, m, q + 1)
  <2>1. Len(x) \in Nat
    BY <1>3
  <2> QED
    BY <1>5, <1>6, <2>1 DEF Echoes
<1> QED
  BY <1>1, <1>7

(* An untouched wire is mixed with nothing, and a ChangeCipherSpec put in  *)
(* keeps it mixed.                                                         *)
LEMMA MixedAlone ==
    ASSUME NEW D, Len(D) \in Nat
    PROVE  \E h : Mixed(D, D, h)
<1>1. PICK h : h = [i \in 0..Len(D) |-> i]
  OBVIOUS
<1>2. h \in [0..Len(D) -> 0..Len(D)] /\ h[0] = 0 /\ h[Len(D)] = Len(D)
  BY <1>1
<1>3. ASSUME NEW i \in 1..Len(D) PROVE h[i] = h[i - 1] + 1 /\ D[i] = D[h[i]]
  <2>1. i \in 0..Len(D) /\ i - 1 \in 0..Len(D) /\ (i - 1) + 1 = i
    OBVIOUS
  <2> QED
    BY <1>1, <2>1
<1>4. Mixed(D, D, h)
  BY <1>2, <1>3 DEF Mixed
<1> QED
  BY <1>4

(* Where the records of a sequence are once one is put in. *)
InsertedAt(x, d, i, r) ==
    /\ Len(x) = Len(d) + 1 /\ x[i] = r
    /\ \A z \in 1..(i - 1) : x[z] = d[z]
    /\ \A z \in (i + 1)..(Len(d) + 1) : x[z] = d[z - 1]

LEMMA InsertedIs ==
    ASSUME NEW S, NEW d \in Seq(S), NEW i \in 1..Len(d), NEW r
    PROVE  InsertedAt(Inserted(d, i, r), d, i, r)
<1>1. PICK T : T = S \cup {r}
  OBVIOUS
<1>2. d \in Seq(T) /\ r \in T /\ Len(d) \in Nat
  BY <1>1, SeqGrows
<1>3. PICK a, b, o : a = SubSeq(d, 1, i - 1) /\ b = SubSeq(d, i, Len(d)) /\ o = <<r>>
  OBVIOUS
<1>4. /\ a \in Seq(T) /\ Len(a) = i - 1 /\ \A z \in 1..(i - 1) : a[z] = d[z]
      /\ b \in Seq(T) /\ Len(b) = (Len(d) - i) + 1
      /\ \A z \in 1..((Len(d) - i) + 1) : b[z] = d[(i + z) - 1]
      /\ o \in Seq(T) /\ Len(o) = 1 /\ o[1] = r
  <2>1. i - 1 \in 0..Len(d) /\ i \in 1..(Len(d) + 1) /\ Len(d) \in (i - 1)..Len(d)
    BY <1>2
  <2>2. a \in Seq(T) /\ Len(a) = i - 1 /\ \A z \in 1..(i - 1) : a[z] = d[z]
    BY <1>2, <1>3, <2>1
  <2>3. b \in Seq(T) /\ Len(b) = (Len(d) - i) + 1
    BY <1>2, <1>3, <2>1
  <2>4. \A z \in 1..((Len(d) - i) + 1) : b[z] = d[(i + z) - 1]
    BY <1>2, <1>3, <2>1
  <2>5. o \in Seq(T) /\ Len(o) = 1 /\ o[1] = r
    BY <1>2, <1>3
  <2> QED
    BY <2>2, <2>3, <2>4, <2>5
<1>5. ASSUME NEW p \in Seq(T), NEW q \in Seq(T)
      PROVE  /\ p \o q \in Seq(T) /\ Len(p \o q) = Len(p) + Len(q)
             /\ \A z \in 1..Len(p) : (p \o q)[z] = p[z]
             /\ \A z \in (Len(p) + 1)..(Len(p) + Len(q)) : (p \o q)[z] = q[z - Len(p)]
  BY ConcatProperties
<1>6. PICK y, x : y = a \o o /\ x = y \o b
  OBVIOUS
<1>7. y \in Seq(T) /\ Len(y) = i /\ y[i] = r /\ \A z \in 1..(i - 1) : y[z] = d[z]
  <2>0. a \in Seq(T) /\ o \in Seq(T) /\ Len(a) = i - 1 /\ Len(o) = 1
    BY <1>4
  <2>1. /\ y \in Seq(T) /\ Len(y) = Len(a) + Len(o)
        /\ \A z \in 1..Len(a) : y[z] = a[z]
        /\ \A z \in (Len(a) + 1)..(Len(a) + Len(o)) : y[z] = o[z - Len(a)]
    BY <1>5, <1>6, <2>0, Zenon
  <2>2. i \in (Len(a) + 1)..(Len(a) + Len(o)) /\ i - Len(a) = 1 /\ Len(a) + Len(o) = i
    BY <2>0
  <2> QED
    BY <1>4, <2>1, <2>2
<1>8. /\ Len(x) = i + ((Len(d) - i) + 1) /\ \A z \in 1..i : x[z] = y[z]
      /\ \A z \in (i + 1)..(i + ((Len(d) - i) + 1)) : x[z] = b[z - i]
  <2>0. y \in Seq(T) /\ b \in Seq(T) /\ Len(y) = i /\ Len(b) = (Len(d) - i) + 1
    BY <1>4, <1>7
  <2>1. /\ Len(x) = Len(y) + Len(b) /\ \A z \in 1..Len(y) : x[z] = y[z]
        /\ \A z \in (Len(y) + 1)..(Len(y) + Len(b)) : x[z] = b[z - Len(y)]
    BY <1>5, <1>6, <2>0, ZenonT(60)
  <2> QED
    BY <2>0, <2>1, Zenon
<1>9. i + ((Len(d) - i) + 1) = Len(d) + 1 /\ i \in 1..i
  BY <1>2
<1>10. ASSUME NEW z \in 1..(i - 1) PROVE x[z] = d[z]
  <2>1. z \in 1..i
    OBVIOUS
  <2> QED
    BY <1>7, <1>8, <2>1
<1>11. ASSUME NEW z \in (i + 1)..(Len(d) + 1) PROVE x[z] = d[z - 1]
  <2>1. z - i \in 1..((Len(d) - i) + 1) /\ (i + (z - i)) - 1 = z - 1
    BY <1>2
  <2> QED
    BY <1>4, <1>8, <1>9, <2>1
<1>12. x[i] = r
  BY <1>7, <1>8, <1>9
<1>13. InsertedAt(x, d, i, r)
  BY <1>8, <1>9, <1>10, <1>11, <1>12, Zenon DEF InsertedAt
<1>14. x = Inserted(d, i, r)
  BY <1>3, <1>6, Zenon DEF Inserted
<1> QED
  BY <1>13, <1>14, Zenon

LEMMA MixedInserted ==
    ASSUME NEW S, NEW d \in Seq(S), NEW D, NEW h, Mixed(d, D, h), NEW i \in 1..Len(d)
    PROVE  \E g : Mixed(Inserted(d, i, ChangeCipherSpec), D, g)
<1>1. PICK x, r : r = ChangeCipherSpec /\ x = Inserted(d, i, r)
  OBVIOUS
<1>2. /\ Len(x) = Len(d) + 1 /\ x[i] = r
      /\ \A z \in 1..(i - 1) : x[z] = d[z]
      /\ \A z \in (i + 1)..(Len(d) + 1) : x[z] = d[z - 1]
  <2>1. InsertedAt(x, d, i, r)
    BY <1>1, InsertedIs
  <2> QED
    BY <2>1, Zenon DEF InsertedAt
<1>3. /\ Len(d) \in Nat /\ Len(D) \in Nat
      /\ h \in [0..Len(d) -> 0..Len(D)] /\ h[0] = 0 /\ h[Len(d)] = Len(D)
      /\ \A z \in 1..Len(d) : \/ d[z] = r /\ h[z] = h[z - 1]
                              \/ h[z] = h[z - 1] + 1 /\ d[z] = D[h[z]]
  BY <1>1 DEF Mixed
<1>4. PICK g : g = [z \in 0..(Len(d) + 1) |-> IF z < i THEN h[z] ELSE h[z - 1]]
  OBVIOUS
<1>5. /\ \A z \in 0..(i - 1) : g[z] = h[z]
      /\ \A z \in i..(Len(d) + 1) : g[z] = h[z - 1]
  <2>1. \A z \in 0..(i - 1) : z \in 0..(Len(d) + 1) /\ z < i
    BY <1>3
  <2>2. \A z \in i..(Len(d) + 1) : z \in 0..(Len(d) + 1) /\ ~(z < i)
    BY <1>3
  <2> QED
    BY <1>4, <2>1, <2>2
<1>6. g \in [0..(Len(d) + 1) -> 0..Len(D)]
  <2>1. ASSUME NEW z \in 0..(Len(d) + 1) PROVE (IF z < i THEN h[z] ELSE h[z - 1]) \in 0..Len(D)
    <3>1. CASE z < i
      <4>1. z \in 0..Len(d)
        BY <1>3, <3>1
      <4> QED
        BY <1>3, <3>1, <4>1
    <3>2. CASE ~(z < i)
      <4>1. z - 1 \in 0..Len(d)
        BY <1>3, <3>2
      <4> QED
        BY <1>3, <3>2, <4>1
    <3> QED
      BY <3>1, <3>2
  <2> QED
    BY <1>4, <2>1
<1>7. g[0] = 0 /\ g[Len(d) + 1] = Len(D)
  <2>1. 0 \in 0..(i - 1) /\ Len(d) + 1 \in i..(Len(d) + 1) /\ (Len(d) + 1) - 1 = Len(d)
    BY <1>3
  <2> QED
    BY <1>3, <1>5, <2>1
<1>8. ASSUME NEW z \in 1..(Len(d) + 1)
      PROVE  \/ x[z] = r /\ g[z] = g[z - 1]
             \/ g[z] = g[z - 1] + 1 /\ x[z] = D[g[z]]
  <2>1. CASE z < i
    <3>1. z \in 0..(i - 1) /\ z - 1 \in 0..(i - 1) /\ z \in 1..(i - 1) /\ z \in 1..Len(d)
      BY <1>3, <2>1
    <3>2. g[z] = h[z] /\ g[z - 1] = h[z - 1] /\ x[z] = d[z]
      BY <1>2, <1>5, <3>1
    <3> QED
      BY <1>3, <3>1, <3>2, Zenon
  <2>2. CASE z = i
    <3>1. z \in i..(Len(d) + 1) /\ z - 1 \in 0..(i - 1)
      BY <1>3, <2>2
    <3>2. g[z] = h[z - 1] /\ g[z - 1] = h[z - 1]
      BY <1>5, <3>1
    <3> QED
      BY <1>2, <2>2, <3>2
  <2>3. CASE z > i
    <3>1. /\ z \in i..(Len(d) + 1) /\ z - 1 \in i..(Len(d) + 1) /\ z \in (i + 1)..(Len(d) + 1)
          /\ z - 1 \in 1..Len(d)
      BY <1>3, <2>3
    <3>2. PICK w : w = z - 1
      OBVIOUS
    <3>3. g[z] = h[w] /\ g[w] = h[w - 1] /\ x[z] = d[w] /\ w \in 1..Len(d)
      BY <1>2, <1>5, <3>1, <3>2
    <3>4. \/ d[w] = r /\ h[w] = h[w - 1]
          \/ h[w] = h[w - 1] + 1 /\ d[w] = D[h[w]]
      BY <1>3, <3>3
    <3> QED
      BY <3>2, <3>3, <3>4, Zenon
  <2> QED
    BY <1>3, <2>1, <2>2, <2>3
<1>9. Mixed(x, D, g)
  <2>1. Len(x) \in Nat
    BY <1>2, <1>3
  <2> QED
    BY <1>1, <1>2, <1>3, <1>6, <1>7, <1>8, <2>1, Zenon DEF Mixed
<1> QED
  BY <1>1, <1>9, Zenon

(* What the server waits for: the client's Finished, then the data.  Of    *)
(* what a client sends that has sealed n pieces, it has read p records.    *)
FinRec(f) ==
    Protect(ClientHandshake(f), 0, "handshake",
            Units(Message("finished", 1, <<FinishedMac(ClientHandshake(f), ServerTranscript(f))>>)))
DataRec(f, k) == Protect(ClientData(f), k, "appdata", <<k + 1>>)
Awaited(f, k) == IF k = 0 THEN FinRec(f) ELSE DataRec(f, k - 1)

Outgoing(u, f, p, n) ==
    /\ Len(u) \in Nat /\ p \in Nat /\ n \in Nat /\ Len(u) + p = n + 1
    /\ \A i \in 1..Len(u) : u[i] = Awaited(f, p + (i - 1))

LEMMA FinRecOpens ==
    ASSUME NEW f
    PROVE  /\ Opens(FinRec(f), ClientHandshake(f), 0)
           /\ FinRec(f).payload[1].of.body = <<FinishedMac(ClientHandshake(f), ServerTranscript(f))>>
<1>1. PICK s, b, m, u, r : /\ s = ClientHandshake(f) /\ b = <<FinishedMac(s, ServerTranscript(f))>>
                           /\ m = Message("finished", 1, b) /\ u = Units(m)
                           /\ r = Protect(s, 0, "handshake", u)
  OBVIOUS
<1>2. m.size = 1 /\ m.body = b
  BY <1>1 DEF Message
<1>3. u[1].of = m
  <2>1. u = [i \in 1..1 |-> [of |-> m, part |-> i]]
    BY <1>1, <1>2 DEF Units
  <2> QED
    BY <2>1
<1>4. r.payload = u
  BY <1>1 DEF Protect
<1>5. Opens(r, s, 0)
  BY <1>1, ProtectOpens, Zenon
<1>6. r = FinRec(f)
  BY <1>1, Zenon DEF FinRec
<1> QED
  BY <1>1, <1>2, <1>3, <1>4, <1>5, <1>6, Zenon

LEMMA OutgoingFirst ==
    ASSUME NEW u, NEW f, NEW p \in Nat, NEW n, Outgoing(u, f, p, n), u # <<>>, NEW S, u \in Seq(S)
    PROVE  Head(u) = Awaited(f, p)
<1>1. 1 \in 1..Len(u) /\ Head(u) = u[1] /\ p + (1 - 1) = p
  OBVIOUS
<1>2. u[1] = Awaited(f, p + (1 - 1))
  BY <1>1 DEF Outgoing
<1> QED
  BY <1>1, <1>2, Zenon

LEMMA OutgoingTail ==
    ASSUME NEW u, NEW f, NEW p \in Nat, NEW n, Outgoing(u, f, p, n), u # <<>>, NEW S, u \in Seq(S)
    PROVE  Outgoing(Tail(u), f, p + 1, n)
<1>1. PICK x : x = Tail(u)
  OBVIOUS
<1>2. Len(x) \in Nat /\ Len(u) = Len(x) + 1 /\ \A i \in 1..Len(x) : x[i] = u[i + 1]
  BY <1>1
<1>3. n \in Nat /\ Len(u) + p = n + 1
  BY DEF Outgoing
<1>4. ASSUME NEW i \in 1..Len(x) PROVE x[i] = Awaited(f, (p + 1) + (i - 1))
  <2>1. i + 1 \in 1..Len(u) /\ p + ((i + 1) - 1) = (p + 1) + (i - 1)
    BY <1>2
  <2>2. u[i + 1] = Awaited(f, p + ((i + 1) - 1))
    BY <2>1 DEF Outgoing
  <2>3. x[i] = u[i + 1]
    BY <1>2
  <2> QED
    BY <2>1, <2>2, <2>3, Zenon
<1>5. p + 1 \in Nat /\ Len(x) + (p + 1) = n + 1
  BY <1>2, <1>3
<1>6. Outgoing(x, f, p + 1, n)
  BY <1>2, <1>3, <1>4, <1>5, Zenon DEF Outgoing
<1> QED
  BY <1>1, <1>6

LEMMA OutgoingAppend ==
    ASSUME NEW u, NEW f, NEW p, NEW n, Outgoing(u, f, p, n), NEW S, u \in Seq(S)
    PROVE  Outgoing(Append(u, DataRec(f, n)), f, p, n + 1)
<1>1. PICK x, r, T : r = DataRec(f, n) /\ x = Append(u, r) /\ T = S \cup {r}
  OBVIOUS
<1>2. u \in Seq(T) /\ r \in T
  BY <1>1, SeqGrows
<1>3. /\ Len(u) \in Nat /\ Len(x) = Len(u) + 1 /\ x[Len(u) + 1] = r
      /\ \A i \in 1..Len(u) : x[i] = u[i]
  BY <1>1, <1>2
<1>4. p \in Nat /\ n \in Nat /\ Len(u) + p = n + 1
  BY DEF Outgoing
<1>5. r = Awaited(f, p + Len(u))
  <2>1. p + Len(u) # 0 /\ (p + Len(u)) - 1 = n
    BY <1>3, <1>4
  <2> QED
    BY <1>1, <2>1, Zenon DEF Awaited
<1>6. ASSUME NEW i \in 1..Len(x) PROVE x[i] = Awaited(f, p + (i - 1))
  <2>1. CASE i = Len(u) + 1
    <3>1. i - 1 = Len(u)
      BY <1>3, <2>1
    <3> QED
      BY <1>3, <1>5, <2>1, <3>1, Zenon
  <2>2. CASE i # Len(u) + 1
    <3>1. i \in 1..Len(u)
      BY <1>3, <2>2
    <3>2. u[i] = Awaited(f, p + (i - 1))
      BY <3>1 DEF Outgoing
    <3> QED
      BY <1>3, <3>1, <3>2, Zenon
  <2> QED
    BY <2>1, <2>2
<1>7. Len(x) \in Nat /\ n + 1 \in Nat /\ Len(x) + p = (n + 1) + 1
  BY <1>3, <1>4
<1>8. Outgoing(x, f, p, n + 1)
  BY <1>4, <1>6, <1>7, Zenon DEF Outgoing
<1> QED
  BY <1>1, <1>8, Zenon

LEMMA OutgoingNew ==
    ASSUME NEW f
    PROVE  Outgoing(<<FinRec(f)>>, f, 0, 0)
<1>1. PICK r, x : r = FinRec(f) /\ x = <<r>>
  OBVIOUS
<1>2. Len(x) = 1 /\ x[1] = r
  BY <1>1
<1>3. r = Awaited(f, 0)
  BY <1>1, Zenon DEF Awaited
<1>4. ASSUME NEW i \in 1..Len(x) PROVE x[i] = Awaited(f, 0 + (i - 1))
  <2>1. i = 1 /\ 0 + (i - 1) = 0
    BY <1>2
  <2> QED
    BY <1>2, <1>3, <2>1, Zenon
<1>5. Len(x) \in Nat /\ Len(x) + 0 = 0 + 1
  BY <1>2
<1>6. Outgoing(x, f, 0, 0)
  BY <1>4, <1>5, Zenon DEF Outgoing
<1> QED
  BY <1>1, <1>6, Zenon

(* A wire without ChangeCipherSpec stays one. *)
LEMMA PlainTail ==
    ASSUME NEW S, NEW d \in Seq(S), d # <<>>, Plain(d, 0, Len(d))
    PROVE  Plain(Tail(d), 0, Len(Tail(d)))
<1>1. PICK x : x = Tail(d)
  OBVIOUS
<1>2. Len(x) \in Nat /\ Len(d) = Len(x) + 1 /\ \A i \in 1..Len(x) : x[i] = d[i + 1]
  BY <1>1
<1>3. ASSUME NEW i \in (0 + 1)..Len(x) PROVE x[i].type # "ccs"
  <2>1. i + 1 \in (0 + 1)..Len(d) /\ i \in 1..Len(x)
    BY <1>2
  <2>2. d[i + 1].type # "ccs"
    BY <2>1 DEF Plain
  <2> QED
    BY <1>2, <2>1, <2>2
<1>4. Plain(x, 0, Len(x))
  BY <1>3, Zenon DEF Plain
<1> QED
  BY <1>1, <1>4, Zenon

LEMMA PlainRest ==
    ASSUME NEW S, NEW d \in Seq(S), NEW n \in 1..Len(d), Plain(d, 0, Len(d))
    PROVE  Plain(SubSeq(d, n + 1, Len(d)), 0, Len(SubSeq(d, n + 1, Len(d))))
<1>1. PICK x : x = SubSeq(d, n + 1, Len(d))
  OBVIOUS
<1>2. Len(d) \in Nat /\ n + 1 \in 1..(Len(d) + 1)
  OBVIOUS
<1>3. Len(x) = Len(d) - n /\ \A i \in 1..Len(x) : x[i] = d[n + i]
  BY <1>1, <1>2
<1>4. ASSUME NEW i \in (0 + 1)..Len(x) PROVE x[i].type # "ccs"
  <2>1. n + i \in (0 + 1)..Len(d) /\ i \in 1..Len(x)
    BY <1>2, <1>3
  <2>2. d[n + i].type # "ccs"
    BY <2>1 DEF Plain
  <2> QED
    BY <1>3, <2>1, <2>2
<1>5. Plain(x, 0, Len(x))
  BY <1>4, Zenon DEF Plain
<1> QED
  BY <1>1, <1>5, Zenon

LEMMA PlainAppend ==
    ASSUME NEW S, NEW d \in Seq(S), NEW r, r.type = "appdata", Plain(d, 0, Len(d))
    PROVE  Plain(Append(d, r), 0, Len(Append(d, r)))
<1>1. PICK x, T : x = Append(d, r) /\ T = S \cup {r}
  OBVIOUS
<1>2. d \in Seq(T) /\ r \in T
  BY <1>1, SeqGrows
<1>3. /\ Len(d) \in Nat /\ Len(x) = Len(d) + 1 /\ x[Len(d) + 1] = r
      /\ \A i \in 1..Len(d) : x[i] = d[i]
  BY <1>1, <1>2
<1>4. ASSUME NEW i \in (0 + 1)..Len(x) PROVE x[i].type # "ccs"
  <2>1. CASE i = Len(d) + 1
    BY <1>3, <2>1
  <2>2. CASE i # Len(d) + 1
    <3>1. i \in 1..Len(d) /\ i \in (0 + 1)..Len(d)
      BY <1>3, <2>2
    <3> QED
      BY <1>3, <3>1 DEF Plain
  <2> QED
    BY <2>1, <2>2
<1>5. Plain(x, 0, Len(x))
  BY <1>4, Zenon DEF Plain
<1> QED
  BY <1>1, <1>5, Zenon

(* What the server sends at first: its hello, then the rest. *)
LEMMA AfterHelloData ==
    ASSUME NEW f \in Flavours, NEW cuts
    PROVE  AllData(AfterHello(f, cuts)) /\ Wire(AfterHello(f, cuts), f, 0)
<1>1. AllData(AfterHello(f, cuts))
  <2>1. PICK U : U = AllUnits(FlightMessages(f))
    OBVIOUS
  <2>2. PICK e, K : Dealt(AfterHello(f, cuts), f, e, K, U)
    BY <2>1, FlightDealt
  <2> QED
    BY <2>2, DealtTypes
<1>2. Wire(AfterHello(f, cuts), f, 0)
  <2>1. Fine(Ticket(f, 0), f, 0) /\ Wire(FlightRecords(f, cuts), f, 0)
    BY ServerSendsFine
  <2>2. Wire(<<Ticket(f, 0)>>, f, 0) /\ Wire(<<>>, f, 0)
    BY <2>1, WireOne, WireEmpty
  <2>3. Wire(IF f.early THEN <<Ticket(f, 0)>> ELSE <<>>, f, 0)
    BY <2>2
  <2> QED
    BY <2>1, <2>3, WireConcat DEF AfterHello
<1> QED
  BY <1>1, <1>2

Opening(w, f, cuts) == w # <<>> /\ Head(w) = HelloOnWire(f) /\ Tail(w) = AfterHello(f, cuts)

LEMMA OpeningIs ==
    ASSUME NEW f \in Flavours, NEW cuts, NEW w,
           w = <<HelloOnWire(f)>> \o FlightRecords(f, cuts)
                   \o (IF f.early THEN <<Ticket(f, 0)>> ELSE <<>>)
    PROVE  Opening(w, f, cuts) /\ Plain(w, 0, Len(w))
<1>1. PICK o, H, F, T, D : /\ o = HelloOnWire(f) /\ H = <<o>> /\ F = FlightRecords(f, cuts)
                           /\ T = (IF f.early THEN <<Ticket(f, 0)>> ELSE <<>>)
                           /\ D = F \o T
  OBVIOUS
<1>2. D = AfterHello(f, cuts)
  BY <1>1, Zenon DEF AfterHello
<1>3. w = (H \o F) \o T
  BY <1>1, Zenon
<1>4. PICK S : F \in Seq(S) /\ T \in Seq(S) /\ H \in Seq(S) /\ o \in S
  <2>1. Fine(Ticket(f, 0), f, 0) /\ Wire(F, f, 0)
    BY <1>1, ServerSendsFine
  <2>2. PICK A : F \in Seq(A)
    BY <2>1 DEF Wire
  <2>3. PICK t, C : t = Ticket(f, 0) /\ C = A \cup {t, o}
    OBVIOUS
  <2>4. <<t>> \in Seq(C) /\ <<>> \in Seq(C) /\ <<o>> \in Seq(C) /\ o \in C
    BY <2>3
  <2>5. F \in Seq(C)
    BY <2>2, <2>3, SeqGrows
  <2>6. T \in Seq(C)
    BY <1>1, <2>3, <2>4, Zenon
  <2> QED
    BY <1>1, <2>4, <2>5, <2>6, Zenon
<1>5. D \in Seq(S) /\ w = H \o D
  BY <1>1, <1>3, <1>4, ConcatAssociative
<1>6. w # <<>> /\ Head(w) = o /\ Tail(w) = D /\ w \in Seq(S)
  <2>1. ASSUME NEW x \in S, NEW y \in Seq(S)
        PROVE  /\ <<x>> \o y # <<>> /\ Head(<<x>> \o y) = x /\ Tail(<<x>> \o y) = y
               /\ <<x>> \o y \in Seq(S)
    OBVIOUS
  <2>2. o \in S /\ D \in Seq(S) /\ w = <<o>> \o D
    BY <1>1, <1>4, <1>5
  <2> QED
    BY <2>1, <2>2, Zenon
<1>7. ASSUME NEW i \in (0 + 1)..Len(w) PROVE w[i].type # "ccs"
  <2>1. CASE i = 1
    <3>1. w[i] = o
      BY <1>6, <2>1
    <3>2. o.type = "handshake"
      BY <1>1 DEF HelloOnWire
    <3> QED
      BY <3>1, <3>2
  <2>2. CASE i # 1
    <3>1. i - 1 \in 1..Len(D) /\ (i - 1) + 1 = i
      BY <1>6, <2>2
    <3>2. w[i] = D[i - 1]
      <4>1. ASSUME NEW x \in Seq(S), x # <<>>, NEW j \in 1..Len(Tail(x)) PROVE Tail(x)[j] = x[j + 1]
        BY <4>1
      <4> QED
        BY <1>6, <3>1, <4>1, Zenon
    <3>3. D[i - 1].type = "appdata"
      BY <1>2, <3>1, AfterHelloData DEF AllData
    <3> QED
      BY <3>2, <3>3
  <2> QED
    BY <2>1, <2>2
<1>8. Plain(w, 0, Len(w))
  BY <1>7, Zenon DEF Plain
<1> QED
  BY <1>1, <1>2, <1>6, <1>8, Zenon DEF Opening

-----------------------------------------------------------------------------
(* A run in which nothing happens that FailuresCaused takes for a cause:   *)
(* an undisturbed, supported server whose flight is read in one call with  *)
(* nothing dropped behind its Finished.  Until that call the wire has what *)
(* the server sent, in order, with ChangeCipherSpec put in; from then on   *)
(* what is on it opens at its turn, up to the first ChangeCipherSpec; and  *)
(* the server finds what it waits for in what the client sends.            *)
Calm ==
    /\ faults = 0 /\ calls <= 1 /\ ~swallowed
    /\ Supported(server.flavour) /\ server.flavour.signer = server.flavour.chain[1]

CalmPeer ==
    /\ peer.state # "failed"
    /\ pc \in {"server_hello", "derive", "flight", "finish"} => peer.state = "sent"
    /\ peer.state = "sent" => peer.seq_out = EarlyTickets(server.flavour)

CalmError == err # None => ccs > 0 /\ err = Some("UnexpectedRecord")

CalmHello ==
    /\ pc = "server_hello" => Opening(down, server.flavour, server.cuts)
    /\ pc = "derive" =>
          /\ down = AfterHello(server.flavour, server.cuts)
          /\ cl.transcript = Th0(server.flavour) /\ cl.suite = Some(server.flavour.suite)

CalmFlight ==
    pc = "flight" /\ calls = 0 =>
        /\ \E h : Mixed(down, AfterHello(server.flavour, server.cuts), h)
        /\ cl.transcript = Th0(server.flavour) /\ cl.shts = Some(FlightSecret(server.flavour))
        /\ cl.chts = Some(ClientHandshake(server.flavour)) /\ cl.hs_read = 0

CalmFinish ==
    pc = "finish" => /\ cl.chts = Some(ClientHandshake(server.flavour))
                     /\ cl.transcript = ServerTranscript(server.flavour)

CalmDown ==
    /\ pc \in {"finish", "data"} => Echoes(down, server.flavour, cl.app_read, peer.seq_out)
    /\ ccs = 0 => Plain(down, 0, Len(down))

Passed == IF peer.state = "sent" THEN 0 ELSE Len(peer.got) + 1

CalmUp == pc \in {"data", "done", "failed"} => Outgoing(up, server.flavour, Passed, Len(sent))

(* The third inductive invariant, on top of the other two. *)
Undisturbed == CalmPeer /\ CalmError /\ CalmHello /\ CalmFlight /\ CalmFinish /\ CalmDown /\ CalmUp

CInv == /\ faults \in Nat /\ ccs \in Nat /\ calls \in Nat
        /\ Calm => Undisturbed

LEMMA InitCInv == Init => CInv
<1> SUFFICES ASSUME Init PROVE CInv
  OBVIOUS
<1>1. /\ pc = "start" /\ err = None /\ down = <<>> /\ peer.state = "wait"
      /\ faults = 0 /\ ccs = 0 /\ calls = 0
  BY DEF Init
<1>2. Plain(down, 0, Len(down))
  <2>1. Len(down) = 0
    BY <1>1
  <2> QED
    BY <2>1 DEF Plain
<1>3. CalmPeer /\ CalmError /\ CalmHello /\ CalmFlight /\ CalmFinish /\ CalmUp
  BY <1>1 DEF CalmPeer, CalmError, CalmHello, CalmFlight, CalmFinish, CalmUp
<1>4. CalmDown
  BY <1>1, <1>2 DEF CalmDown
<1> QED
  BY <1>1, <1>3, <1>4 DEF CInv, Undisturbed

(* What a step leaves alone. *)
LEMMA CalmSame ==
    ASSUME CInv, UNCHANGED <<server, faults, ccs, calls, swallowed>>, Calm => Undisturbed'
    PROVE  CInv'
<1>1. Calm' <=> Calm
  BY Zenon DEF Calm
<1> QED
  BY <1>1 DEF CInv

LEMMA StartCInv ==
    ASSUME TInv, KInv, CInv, Start
    PROVE  CInv'
<1> DEFINE f == server.flavour
<1>1. /\ pc = "start" /\ pc' = "server_hello"
      /\ UNCHANGED <<server, err, cl, up, sent, faults, ccs, calls, swallowed>>
  BY DEF Start
<1>2. /\ peer' = [peer EXCEPT !.state = "sent", !.seq_out = EarlyTickets(f)]
      /\ down' = <<HelloOnWire(f)>> \o FlightRecords(f, server.cuts)
                   \o (IF f.early THEN <<Ticket(f, 0)>> ELSE <<>>)
  BY Zenon DEF Start, EarlyTickets
<1>3. peer'.state = "sent" /\ peer'.seq_out = EarlyTickets(f)
  BY <1>2 DEF TInv, PeerInv
<1>4. f \in Flavours
  BY DEF TInv
<1>5. Opening(down', f, server.cuts) /\ Plain(down', 0, Len(down'))
  BY <1>2, <1>4, OpeningIs
<1> HIDE DEF f
<1>6. ASSUME Calm PROVE Undisturbed'
  <2>1. CalmError
    BY <1>6 DEF CInv, Undisturbed
  <2>2. server'.flavour = f /\ server'.cuts = server.cuts /\ f = server.flavour
    BY <1>1 DEF f
  <2>3. CalmPeer'
    BY <1>1, <1>3, <2>2 DEF CalmPeer
  <2>4. CalmError'
    BY <1>1, <2>1 DEF CalmError
  <2>5. CalmHello'
    BY <1>1, <1>5, <2>2 DEF CalmHello
  <2>6. CalmFlight' /\ CalmFinish' /\ CalmUp'
    BY <1>1 DEF CalmFlight, CalmFinish, CalmUp
  <2>7. CalmDown'
    BY <1>1, <1>5 DEF CalmDown
  <2> QED
    BY <2>3, <2>4, <2>5, <2>6, <2>7 DEF Undisturbed
<1> QED
  BY <1>1, <1>6, CalmSame

(* The server's hello, as it was sent, is accepted. *)
LEMMA HelloAccepted ==
    ASSUME NEW f, Supported(f), NEW r, r = HelloOnWire(f)
    PROVE  /\ HelloError(r) = "none" /\ r.payload = <<f.suite, f.share>>
           /\ r.payload[1] = f.suite /\ r.payload[2] = f.share /\ f.share # "none"
<1>1. r.type = "handshake" /\ r.ct = f.shape /\ r.payload = <<f.suite, f.share>>
  BY DEF HelloOnWire
<1>2. f.shape = "ok" /\ f.suite \in Suites /\ f.share # "none"
  BY DEF Supported
<1>3. r.payload[1] = f.suite /\ r.payload[2] = f.share
  <2>1. PICK u, v : u = f.suite /\ v = f.share
    OBVIOUS
  <2>2. r.payload = <<u, v>>
    BY <1>1, <2>1, Zenon
  <2> QED
    BY <2>1, <2>2
<1>4. HelloError(r) = "none"
  BY <1>1, <1>2, <1>3 DEF HelloError
<1> QED
  BY <1>1, <1>2, <1>3, <1>4, Zenon

LEMMA HelloCInv ==
    ASSUME TInv, KInv, CInv, ProcessServerHello
    PROVE  CInv'
<1> DEFINE f == server.flavour
<1>1. PICK r : r = Head(down)
  OBVIOUS
<1>2. /\ pc = "server_hello" /\ down # <<>> /\ down' = Tail(down)
      /\ UNCHANGED <<server, up, sent, peer, faults, ccs, calls, swallowed>>
  BY DEF ProcessServerHello
<1>3. \/ HelloError(r) # "none"
      \/ /\ cl' = [cl EXCEPT !.suite = Some(r.payload[1]),
                             !.transcript = <<HandshakeOf(HelloRecord),
                                              Message("server_hello", 1, r.payload)>>]
         /\ r.payload[2] = "none" \/ (pc' = "derive" /\ UNCHANGED err)
  BY <1>1 DEF ProcessServerHello
<1>4. PICK S : down \in Seq(S)
  BY DEF TInv, Wire
<1> HIDE DEF f
<1>5. ASSUME Calm PROVE Undisturbed'
  <2>1. CalmPeer /\ CalmError /\ CalmHello /\ CalmDown
    BY <1>5 DEF CInv, Undisturbed
  <2>2. server' = server /\ f = server.flavour /\ Supported(f)
    BY <1>2, <1>5 DEF f, Calm
  <2>3. r = HelloOnWire(f) /\ down' = AfterHello(f, server.cuts)
    BY <1>1, <1>2, <2>1, <2>2 DEF CalmHello, Opening
  <2>4. /\ HelloError(r) = "none" /\ r.payload = <<f.suite, f.share>>
        /\ r.payload[1] = f.suite /\ r.payload[2] # "none"
    BY <2>2, <2>3, HelloAccepted
  <2>5. /\ cl' = [cl EXCEPT !.suite = Some(r.payload[1]),
                             !.transcript = <<HandshakeOf(HelloRecord),
                                              Message("server_hello", 1, r.payload)>>]
        /\ pc' = "derive" /\ err' = err
    BY <1>3, <2>4
  <2>6. cl'.suite = Some(f.suite) /\ cl'.transcript = Th0(f)
    <3>1. PICK t : t = <<HandshakeOf(HelloRecord), Message("server_hello", 1, r.payload)>>
      OBVIOUS
    <3>2. t = Th0(f)
      BY <2>4, <3>1, Zenon DEF Th0, ServerHelloMsg, HandshakeOf
    <3>3. cl' = [cl EXCEPT !.suite = Some(r.payload[1]), !.transcript = t]
      BY <2>5, <3>1
    <3>4. cl'.suite = Some(r.payload[1]) /\ cl'.transcript = t
      BY <3>3 DEF TInv, ClientShape
    <3> QED
      BY <2>4, <3>2, <3>4, Zenon
  <2>7. CalmPeer'
    BY <1>2, <2>1, <2>2, <2>5 DEF CalmPeer
  <2>8. CalmError'
    BY <1>2, <2>1, <2>5 DEF CalmError
  <2>9. CalmHello'
    BY <2>2, <2>3, <2>5, <2>6 DEF CalmHello
  <2>10. CalmFlight' /\ CalmFinish' /\ CalmUp'
    BY <2>5 DEF CalmFlight, CalmFinish, CalmUp
  <2>11. CalmDown'
    <3>1. ccs = 0 => Plain(down', 0, Len(down'))
      BY <1>2, <1>4, <2>1, PlainTail DEF CalmDown
    <3> QED
      BY <1>2, <2>5, <3>1 DEF CalmDown
  <2> QED
    BY <2>7, <2>8, <2>9, <2>10, <2>11 DEF Undisturbed
<1> QED
  BY <1>2, <1>5, CalmSame

LEMMA DeriveCInv ==
    ASSUME TInv, KInv, CInv, DeriveHandshakeKeys
    PROVE  CInv'
<1> DEFINE f == server.flavour
<1>1. /\ pc = "derive" /\ pc' = "flight"
      /\ UNCHANGED <<server, err, down, up, sent, peer, faults, ccs, calls, swallowed>>
  BY DEF DeriveHandshakeKeys, net
<1>2. PICK hs : /\ hs = HandshakeSecret(cl.suite[1], <<"client share", cl.transcript[2].body[2]>>)
                /\ cl' = [cl EXCEPT !.handshake_secret = Some(hs),
                              !.shts = Some(DeriveSecret(hs, "s hs traffic", cl.transcript)),
                              !.chts = Some(DeriveSecret(hs, "c hs traffic", cl.transcript)),
                              !.hs_read = 0, !.hs_write = 0]
  BY DEF DeriveHandshakeKeys
<1>3. /\ cl'.shts = Some(DeriveSecret(hs, "s hs traffic", cl.transcript))
      /\ cl'.chts = Some(DeriveSecret(hs, "c hs traffic", cl.transcript))
      /\ cl'.hs_read = 0 /\ cl'.transcript = cl.transcript
  BY <1>2 DEF TInv, ClientShape
<1>4. f \in Flavours
  BY DEF TInv
<1> HIDE DEF f
<1>5. ASSUME Calm PROVE Undisturbed'
  <2>1. CalmPeer /\ CalmError /\ CalmHello /\ CalmDown
    BY <1>5 DEF CInv, Undisturbed
  <2>2. server' = server /\ f = server.flavour
    BY <1>1 DEF f
  <2>3. /\ down = AfterHello(f, server.cuts) /\ cl.transcript = Th0(f)
        /\ cl.suite = Some(f.suite)
    BY <1>1, <2>1, <2>2 DEF CalmHello
  <2>4. hs = ServerSecret(f)
    <3>1. cl.suite[1] = f.suite
      BY <2>3, SomeIsNotNone
    <3>2. cl.transcript[2].body[2] = f.share
      <4>1. PICK m, b, h, u, s : /\ u = f.suite /\ s = f.share /\ b = <<u, s>>
                                 /\ m = Message("server_hello", 1, b) /\ h = HelloRecord.hs
        OBVIOUS
      <4>2. cl.transcript = <<h, m>>
        BY <2>3, <4>1, Zenon DEF Th0, ServerHelloMsg
      <4>3. cl.transcript[2] = m
        BY <4>2
      <4>4. m.body = b
        BY <4>1 DEF Message
      <4>5. b[2] = s
        BY <4>1
      <4> QED
        BY <4>1, <4>3, <4>4, <4>5, Zenon
    <3> QED
      BY <1>2, <3>1, <3>2, Zenon DEF ServerSecret, ServerShared
  <2>5. /\ cl'.shts = Some(FlightSecret(f)) /\ cl'.chts = Some(ClientHandshake(f))
        /\ cl'.transcript = Th0(f)
    BY <1>3, <2>3, <2>4, Zenon DEF FlightSecret, ClientHandshake
  <2>6. \E h : Mixed(down', AfterHello(f, server.cuts), h)
    <3>1. PICK D : D = AfterHello(f, server.cuts)
      OBVIOUS
    <3>2. Wire(D, f, 0)
      BY <1>4, <3>1, AfterHelloData
    <3>3. Len(D) \in Nat
      BY <3>2 DEF Wire
    <3>4. \E h : Mixed(D, D, h)
      BY <3>3, MixedAlone
    <3>5. down' = D
      BY <1>1, <2>3, <3>1
    <3> QED
      BY <3>1, <3>4, <3>5, Zenon
  <2>7. CalmPeer'
    BY <1>1, <2>1, <2>2 DEF CalmPeer
  <2>8. CalmError'
    BY <1>1, <2>1 DEF CalmError
  <2>9. CalmFlight'
    BY <1>3, <2>2, <2>5, <2>6, Zenon DEF CalmFlight
  <2>10. CalmHello' /\ CalmFinish' /\ CalmUp'
    BY <1>1 DEF CalmHello, CalmFinish, CalmUp
  <2>11. CalmDown'
    BY <1>1, <2>1 DEF CalmDown
  <2> QED
    BY <2>7, <2>8, <2>9, <2>10, <2>11 DEF Undisturbed
<1> QED
  BY <1>1, <1>5, CalmSame

(* One call of process_server_flight, as it is: what it read, what it kept *)
(* and what it dropped.                                                    *)
FlightCall(n, a, c) ==
    /\ \E stall : a = ReadFlight(cl, SubSeq(down, 1, n), stall)
    /\ c = [cl EXCEPT !.hs_read = a.seq, !.transcript = a.transcript]
    /\ down' = SubSeq(down, n + 1, Len(down))
    /\ ~swallowed' => ~swallowed /\ (a.finished => \A i \in (a.used + 1)..n : down[i].type # "appdata")
    /\ \/ FlightError(a) = "none" /\ cl' = WithApplicationKeys(c) /\ pc' = "finish" /\ err' = err
       \/ FlightError(a) = "Truncated" /\ down' # <<>> /\ cl' = c /\ pc' = pc /\ err' = err
       \/ FlightError(a) # "none" /\ (FlightError(a) = "Truncated" => down' = <<>>)

LEMMA FlightCalls ==
    ASSUME ProcessServerFlight
    PROVE  \E n, a, c : n \in 1..Len(down) /\ FlightCall(n, a, c)
<1>1. PICK n, stall : /\ n \in 1..Len(down)
      /\ LET a == ReadFlight(cl, SubSeq(down, 1, n), stall)
             c == [cl EXCEPT !.hs_read = a.seq, !.transcript = a.transcript]
             e == FlightError(a)
         IN  /\ down' = SubSeq(down, n + 1, Len(down))
             /\ swallowed' = (swallowed \/ \E i \in (a.used + 1)..n : a.finished /\ down[i].type = "appdata")
             /\ \/ /\ e = "none"
                   /\ cl' = WithApplicationKeys(c)
                   /\ pc' = "finish" /\ UNCHANGED err
                \/ /\ e = "Truncated" /\ down' # <<>>
                   /\ cl' = c
                   /\ UNCHANGED <<pc, err>>
                \/ /\ e # "none" /\ (e = "Truncated" => down' = <<>>)
                   /\ cl' = c /\ Fail(e)
  BY Zenon DEF ProcessServerFlight
<1>2. PICK a, c : /\ a = ReadFlight(cl, SubSeq(down, 1, n), stall)
                  /\ c = [cl EXCEPT !.hs_read = a.seq, !.transcript = a.transcript]
  OBVIOUS
<1>3. /\ down' = SubSeq(down, n + 1, Len(down))
      /\ swallowed' = (swallowed \/ \E i \in (a.used + 1)..n : a.finished /\ down[i].type = "appdata")
      /\ \/ FlightError(a) = "none" /\ cl' = WithApplicationKeys(c) /\ pc' = "finish" /\ err' = err
         \/ FlightError(a) = "Truncated" /\ down' # <<>> /\ cl' = c /\ pc' = pc /\ err' = err
         \/ FlightError(a) # "none" /\ (FlightError(a) = "Truncated" => down' = <<>>)
  BY <1>1, <1>2, Zenon
<1>4. ~swallowed' => ~swallowed /\ (a.finished => \A i \in (a.used + 1)..n : down[i].type # "appdata")
  BY <1>3, Zenon
<1>5. FlightCall(n, a, c)
  BY <1>2, <1>3, <1>4, Zenon DEF FlightCall
<1> QED
  BY <1>1, <1>5, Zenon

(* A call on what an undisturbed server sent reads the whole flight, or    *)
(* leaves some of it on the wire.                                          *)
FlightEnds(f, d, n, a) ==
    \/ /\ FlightError(a) = "none" /\ a.finished /\ a.transcript = ServerTranscript(f)
       /\ \A x : Dropped(d, a.used, n) /\ Remaining(x, d, n) => Echoes(x, f, 0, EarlyTickets(f))
    \/ FlightError(a) = "Truncated" /\ n < Len(d)

LEMMA FlightEnd ==
    ASSUME NEW f \in Flavours, Supported(f), f.signer = f.chain[1], NEW cuts, NEW d, NEW h,
           Mixed(d, AfterHello(f, cuts), h), NEW S, d \in Seq(S),
           NEW k, k.hs_read = 0, k.transcript = Th0(f), k.shts[1] = FlightSecret(f),
           NEW n \in 1..Len(d), NEW stall, NEW a, a = ReadFlight(k, SubSeq(d, 1, n), stall)
    PROVE  FlightEnds(f, d, n, a)
<1>1. PICK ms, U, D : ms = FlightMessages(f) /\ U = AllUnits(ms) /\ D = AfterHello(f, cuts)
  OBVIOUS
<1>2. PICK pos : Laid(pos, ms, U)
  BY <1>1, FlightLaid
<1>3. PICK e, K : Dealt(D, f, e, K, U)
  <2>1. \E e, K : Dealt(AfterHello(f, cuts), f, e, K, U)
    BY <1>1, FlightDealt
  <2> QED
    BY <1>1, <2>1
<1>4. PICK recs : recs = SubSeq(d, 1, n)
  OBVIOUS
<1>5. Len(recs) = n /\ \A i \in 1..n : recs[i] = d[i]
  BY <1>4
<1>6. f.certtype = "certificate" /\ Mixed(d, D, h)
  BY <1>1 DEF Supported
<1>7. ReadTo(ReadFlight(k, recs, stall), f, U, pos, ms, e, K, h, n)
  BY <1>1, <1>2, <1>3, <1>5, <1>6, FlightReads
<1>8. ReadTo(a, f, U, pos, ms, e, K, h, n)
  BY <1>4, <1>7
<1>9. Comes(a, f, d, h, K, n)
  BY <1>1, <1>2, <1>3, <1>6, <1>8, FlightOutcome
<1>10. CASE FlightError(a) = "Truncated" /\ n < Len(d)
  BY <1>10, Zenon DEF FlightEnds
<1>11. CASE /\ FlightError(a) = "none" /\ a.finished /\ a.transcript = ServerTranscript(f)
            /\ \E u \in 0..n : a.used = u /\ h[u] = K
  <2>1. PICK u \in 0..n : a.used = u /\ h[u] = K
    BY <1>11, Zenon
  <2>2. ASSUME NEW x, Dropped(d, u, n), Remaining(x, d, n)
        PROVE  Echoes(x, f, 0, EarlyTickets(f))
    BY <1>3, <1>6, <2>1, <2>2, EchoesAfterFlight
  <2> QED
    BY <1>11, <2>1, <2>2, Zenon DEF FlightEnds
<1> QED
  BY <1>9, <1>10, <1>11, Zenon DEF Comes

LEMMA FlightCInv ==
    ASSUME TInv, KInv, CInv, ProcessServerFlight
    PROVE  CInv'
<1> DEFINE f == server.flavour
<1>1. /\ pc = "flight" /\ calls' = calls + 1
      /\ UNCHANGED <<server, sent, up, peer, faults, ccs>>
  BY DEF ProcessServerFlight
<1>2. PICK n, a, c : n \in 1..Len(down) /\ FlightCall(n, a, c)
  BY FlightCalls
<1>3. faults' \in Nat /\ ccs' \in Nat /\ calls' \in Nat /\ calls \in Nat
  BY <1>1 DEF CInv
<1>4. f \in Flavours
  BY DEF TInv
<1>5. PICK S : down \in Seq(S)
  BY DEF TInv, Wire
<1> HIDE DEF f
<1>6. ASSUME Calm' PROVE Undisturbed'
  <2>1. calls = 0 /\ calls' = 1
    <3>1. calls' <= 1
      BY <1>6 DEF Calm
    <3> QED
      BY <1>1, <1>3, <3>1
  <2>2. ~swallowed'
    BY <1>6, Zenon DEF Calm
  <2>3. ~swallowed /\ (a.finished => \A i \in (a.used + 1)..n : down[i].type # "appdata")
    BY <1>2, <2>2, Zenon DEF FlightCall
  <2>4. server' = server /\ f = server.flavour
    BY <1>1 DEF f
  <2>5. faults = 0 /\ Supported(f) /\ f.signer = f.chain[1]
    BY <1>1, <1>6, <2>4, Zenon DEF Calm
  <2>6. Calm
    <3>1. calls <= 1
      BY <2>1
    <3> QED
      BY <2>3, <2>4, <2>5, <3>1, Zenon DEF Calm
  <2>7. CalmPeer /\ CalmError /\ CalmFlight /\ CalmDown
    BY <2>6 DEF CInv, Undisturbed
  <2>8. PICK h : Mixed(down, AfterHello(f, server.cuts), h)
    BY <1>1, <2>1, <2>4, <2>7 DEF CalmFlight
  <2>9. /\ cl.transcript = Th0(f) /\ cl.shts = Some(FlightSecret(f))
        /\ cl.chts = Some(ClientHandshake(f)) /\ cl.hs_read = 0
    BY <1>1, <2>1, <2>4, <2>7 DEF CalmFlight
  <2>10. cl.shts[1] = FlightSecret(f)
    BY <2>9, SomeIsNotNone
  <2>11. PICK stall : a = ReadFlight(cl, SubSeq(down, 1, n), stall)
    BY <1>2, Zenon DEF FlightCall
  <2>12. FlightEnds(f, down, n, a)
    BY <1>2, <1>4, <1>5, <2>5, <2>8, <2>9, <2>10, <2>11, FlightEnd
  <2>13. down' = SubSeq(down, n + 1, Len(down))
    BY <1>2, Zenon DEF FlightCall
  <2>14. /\ Len(down') = Len(down) - n /\ \A i \in 1..Len(down') : down'[i] = down[n + i]
    <3>1. n + 1 \in 1..(Len(down) + 1) /\ Len(down) \in Nat
      BY <1>2, <1>5
    <3>2. PICK x : x = down'
      OBVIOUS
    <3>3. x = SubSeq(down, n + 1, Len(down))
      BY <2>13, <3>2
    <3>4. Len(x) = Len(down) - n /\ \A i \in 1..Len(x) : x[i] = down[n + i]
      BY <1>2, <1>5, <3>1, <3>3
    <3> QED
      BY <3>2, <3>4, Zenon
  <2>15. peer.state = "sent" /\ peer.seq_out = EarlyTickets(f)
    BY <1>1, <2>4, <2>7 DEF CalmPeer
  <2>16. ccs = 0 => Plain(down', 0, Len(down'))
    BY <1>2, <1>5, <2>7, <2>13, PlainRest DEF CalmDown
  <2>17. err = None
    BY <1>1 DEF KInv, TypeOK
  <2>18. c = [cl EXCEPT !.hs_read = a.seq, !.transcript = a.transcript]
    BY <1>2, Zenon DEF FlightCall
  <2>19. CalmPeer'
    BY <1>1, <2>4, <2>7, <2>15 DEF CalmPeer
  <2>20. CASE FlightError(a) = "none"
    <3>1. a.finished /\ a.transcript = ServerTranscript(f)
      BY <2>12, <2>20, Zenon DEF FlightEnds
    <3>2. Echoes(down', f, 0, EarlyTickets(f))
      <4>1. \A x : Dropped(down, a.used, n) /\ Remaining(x, down, n) => Echoes(x, f, 0, EarlyTickets(f))
        BY <2>12, <2>20, Zenon DEF FlightEnds
      <4> QED
        BY <2>3, <2>14, <3>1, <4>1, Zenon DEF Dropped, Remaining
    <3>3. cl' = WithApplicationKeys(c) /\ pc' = "finish" /\ err' = err
      BY <1>2, <2>20, Zenon DEF FlightCall
    <3>4. cl'.chts = cl.chts /\ cl'.transcript = a.transcript /\ cl'.app_read = 0
      <4>1. c = [suite |-> c.suite, transcript |-> a.transcript,
                 handshake_secret |-> c.handshake_secret, shts |-> c.shts, chts |-> cl.chts,
                 cets |-> c.cets, sets |-> c.sets, hs_read |-> c.hs_read,
                 hs_write |-> c.hs_write, app_read |-> c.app_read, app_write |-> c.app_write]
        BY <2>18 DEF TInv, ClientShape
      <4> QED
        BY <3>3, <4>1 DEF WithApplicationKeys
    <3>5. CalmError' /\ CalmHello' /\ CalmFlight' /\ CalmUp'
      BY <2>17, <3>3 DEF CalmError, CalmHello, CalmFlight, CalmUp
    <3>6. CalmFinish'
      BY <2>4, <2>9, <3>1, <3>4, Zenon DEF CalmFinish
    <3>7. CalmDown'
      BY <1>1, <2>4, <2>15, <2>16, <3>2, <3>3, <3>4 DEF CalmDown
    <3> QED
      BY <2>19, <3>5, <3>6, <3>7 DEF Undisturbed
  <2>21. CASE FlightError(a) # "none"
    <3>1. FlightError(a) = "Truncated" /\ n < Len(down)
      BY <2>12, <2>21, Zenon DEF FlightEnds
    <3>2. down' # <<>>
      <4>1. Len(down') # 0
        BY <1>2, <1>5, <2>14, <3>1
      <4> QED
        BY <4>1
    <3>3. pc' = pc /\ err' = err
      BY <1>2, <3>1, <3>2, Zenon DEF FlightCall
    <3>4. CalmError' /\ CalmHello' /\ CalmFlight' /\ CalmUp' /\ CalmFinish'
      BY <1>1, <2>1, <2>17, <3>3 DEF CalmError, CalmHello, CalmFlight, CalmUp, CalmFinish
    <3>5. CalmDown'
      BY <1>1, <2>16, <3>3 DEF CalmDown
    <3> QED
      BY <2>19, <3>4, <3>5 DEF Undisturbed
  <2> QED
    BY <2>20, <2>21
<1> QED
  BY <1>3, <1>6 DEF CInv

LEMMA ClientFinishedCInv ==
    ASSUME TInv, KInv, CInv, ClientFinishedRecord
    PROVE  CInv'
<1> DEFINE f == server.flavour
<1>1. PICK r : r = Protect(cl.chts[1], cl.hs_write, "handshake", Units(ClientFinished(cl)))
  OBVIOUS
<1>2. /\ pc = "finish" /\ pc' = "data" /\ up' = Append(up, r)
      /\ cl' = [cl EXCEPT !.transcript = Append(@, ClientFinished(cl)), !.hs_write = @ + 1]
      /\ UNCHANGED <<server, err, sent, down, peer, faults, ccs, calls, swallowed>>
  BY <1>1 DEF ClientFinishedRecord
<1>3. cl'.app_read = cl.app_read
  BY <1>2 DEF TInv, ClientShape
<1>4. up = <<>> /\ sent = <<>> /\ cl.hs_write = 0
  BY <1>2 DEF TInv, KInv, Quiet
<1> HIDE DEF f
<1>5. ASSUME Calm PROVE Undisturbed'
  <2>1. CalmPeer /\ CalmError /\ CalmFinish /\ CalmDown
    BY <1>5 DEF CInv, Undisturbed
  <2>2. server' = server /\ f = server.flavour
    BY <1>2 DEF f
  <2>3. cl.chts = Some(ClientHandshake(f)) /\ cl.transcript = ServerTranscript(f)
        /\ peer.state = "sent"
    BY <1>2, <2>1, <2>2 DEF CalmFinish, CalmPeer
  <2>4. cl.chts[1] = ClientHandshake(f)
    BY <2>3, SomeIsNotNone
  <2>5. r = FinRec(f)
    BY <1>1, <1>4, <2>3, <2>4, Zenon DEF FinRec, ClientFinished
  <2>6. up' = <<FinRec(f)>>
    BY <1>2, <1>4, <2>5
  <2>7. Passed' = 0 /\ Len(sent') = 0
    BY <1>2, <1>4, <2>3 DEF Passed
  <2>8. CalmUp'
    <3>1. Outgoing(up', f, 0, 0)
      BY <2>6, OutgoingNew, Zenon
    <3> QED
      BY <2>2, <2>7, <3>1, Zenon DEF CalmUp
  <2>9. CalmPeer'
    BY <1>2, <2>1, <2>2 DEF CalmPeer
  <2>10. CalmError'
    BY <1>2, <2>1 DEF CalmError
  <2>11. CalmHello' /\ CalmFlight' /\ CalmFinish'
    BY <1>2 DEF CalmHello, CalmFlight, CalmFinish
  <2>12. CalmDown'
    BY <1>2, <1>3, <2>1, <2>2 DEF CalmDown
  <2> QED
    BY <2>8, <2>9, <2>10, <2>11, <2>12 DEF Undisturbed
<1> QED
  BY <1>2, <1>5, CalmSame

(* Past the flight the client has the server's secrets. *)
LEMMA DataSecrets ==
    ASSUME KInv, pc = "data"
    PROVE  /\ cl.sets[1] = ServerData(server.flavour)
           /\ cl.cets[1] = ClientData(server.flavour)
<1>1. cl.sets # None
  BY DEF KInv, TypeOK
<1>2. /\ cl.sets = Some(ServerData(server.flavour)) /\ cl.cets = Some(ClientData(server.flavour))
  BY <1>1, Zenon DEF KInv, KeysAgree, ServerData, ClientData
<1> QED
  BY <1>2, SomeIsNotNone

LEMMA SealCInv ==
    ASSUME TInv, KInv, CInv, SealAppRecord
    PROVE  CInv'
<1> DEFINE f == server.flavour
<1>1. PICK r : r = Protect(cl.cets[1], cl.app_write, "appdata", <<Len(sent) + 1>>)
  OBVIOUS
<1>2. /\ pc = "data" /\ pc' = "data" /\ up' = Append(up, r)
      /\ sent' = Append(sent, Len(sent) + 1) /\ cl' = [cl EXCEPT !.app_write = @ + 1]
      /\ UNCHANGED <<server, err, down, peer, faults, ccs, calls, swallowed>>
  BY <1>1 DEF SealAppRecord
<1>3. cl'.app_read = cl.app_read
  BY <1>2 DEF TInv, ClientShape
<1>4. Len(sent') = Len(sent) + 1 /\ cl.app_write = Len(sent)
  BY <1>2, CountingAppend DEF TInv, DataInv, SequenceInv
<1>5. up \in Seq(sealed)
  BY DEF TInv, SealedInv
<1> HIDE DEF f
<1>6. ASSUME Calm PROVE Undisturbed'
  <2>1. CalmPeer /\ CalmError /\ CalmDown /\ CalmUp
    BY <1>6 DEF CInv, Undisturbed
  <2>2. server' = server /\ f = server.flavour
    BY <1>2 DEF f
  <2>3. cl.cets[1] = ClientData(f)
    BY <1>2, <2>2, DataSecrets
  <2>4. r = DataRec(f, Len(sent))
    BY <1>1, <1>4, <2>3, Zenon DEF DataRec
  <2>5. CalmUp'
    <3>1. PICK p, m : p = Passed /\ m = Len(sent)
      OBVIOUS
    <3>2. Outgoing(up, f, p, m)
      BY <1>2, <2>1, <2>2, <3>1 DEF CalmUp
    <3>3. Outgoing(Append(up, DataRec(f, m)), f, p, m + 1)
      BY <1>5, <3>2, OutgoingAppend
    <3>4. Passed' = p
      BY <1>2, <3>1 DEF Passed
    <3>5. up' = Append(up, DataRec(f, m)) /\ Len(sent') = m + 1
      BY <1>2, <1>4, <2>4, <3>1
    <3> QED
      BY <2>2, <3>3, <3>4, <3>5, Zenon DEF CalmUp
  <2>6. CalmPeer'
    BY <1>2, <2>1, <2>2 DEF CalmPeer
  <2>7. CalmError'
    BY <1>2, <2>1 DEF CalmError
  <2>8. CalmHello' /\ CalmFlight' /\ CalmFinish'
    BY <1>2 DEF CalmHello, CalmFlight, CalmFinish
  <2>9. CalmDown'
    BY <1>2, <1>3, <2>1, <2>2 DEF CalmDown
  <2> QED
    BY <2>5, <2>6, <2>7, <2>8, <2>9 DEF Undisturbed
<1> QED
  BY <1>2, <1>6, CalmSame

LEMMA OpenCInv ==
    ASSUME TInv, KInv, CInv, OpenRecord
    PROVE  CInv'
<1> DEFINE f == server.flavour
<1>1. PICK r : r = Head(down)
  OBVIOUS
<1>2. /\ pc = "data" /\ down # <<>> /\ down' = Tail(down)
      /\ UNCHANGED <<server, sent, up, peer, faults, ccs, calls, swallowed>>
  BY DEF OpenRecord
<1>3. \/ r.type # "appdata" /\ pc' = "failed" /\ err' = Some("UnexpectedRecord")
      \/ /\ r.type = "appdata" /\ cl' = [cl EXCEPT !.app_read = @ + 1]
         /\ \/ pc' = pc /\ err' = err
            \/ ~Opens(r, cl.sets[1], cl.app_read)
  BY <1>1, Zenon DEF OpenRecord, Fail
<1>4. PICK S : down \in Seq(S)
  BY DEF TInv, Wire
<1>5. cl.app_read \in Nat /\ ccs \in Nat
  BY <1>2 DEF TInv, SequenceInv, CInv
<1> HIDE DEF f
<1>6. ASSUME Calm PROVE Undisturbed'
  <2>1. CalmPeer /\ CalmError /\ CalmDown /\ CalmUp
    BY <1>6 DEF CInv, Undisturbed
  <2>2. server' = server /\ f = server.flavour
    BY <1>2 DEF f
  <2>3. PICK m, q : m = cl.app_read /\ q = peer.seq_out
    OBVIOUS
  <2>4. Echoes(down, f, m, q)
    BY <1>2, <2>1, <2>2, <2>3 DEF CalmDown
  <2>5. /\ r.type \in {"appdata", "ccs"} /\ 1 \in 1..Len(down) /\ r = down[1]
        /\ r.type = "appdata" => Opens(r, ServerData(f), m + 0)
    BY <1>1, <1>2, <1>4, <2>4, EchoesHead
  <2>6. ccs = 0 => Plain(down', 0, Len(down'))
    BY <1>2, <1>4, <2>1, PlainTail DEF CalmDown
  <2>7. CASE r.type # "appdata"
    <3>1. pc' = "failed" /\ err' = Some("UnexpectedRecord")
      BY <1>3, <2>7, Zenon
    <3>2. ccs > 0
      <4>1. ccs # 0
        <5> SUFFICES ASSUME ccs = 0 PROVE FALSE
          OBVIOUS
        <5>1. Plain(down, 0, Len(down))
          BY <2>1 DEF CalmDown
        <5>2. 1 \in (0 + 1)..Len(down)
          BY <2>5
        <5>3. down[1].type # "ccs"
          BY <5>1, <5>2 DEF Plain
        <5> QED
          BY <2>5, <2>7, <5>3
      <4> QED
        BY <1>5, <4>1
    <3>3. CalmError'
      BY <1>2, <3>1, <3>2 DEF CalmError
    <3>4. CalmPeer'
      BY <1>2, <2>1, <2>2, <3>1 DEF CalmPeer
    <3>5. CalmHello' /\ CalmFlight' /\ CalmFinish'
      BY <3>1 DEF CalmHello, CalmFlight, CalmFinish
    <3>6. CalmDown'
      BY <1>2, <2>6, <3>1 DEF CalmDown
    <3>7. CalmUp'
      <4>1. Passed' = Passed
        BY <1>2 DEF Passed
      <4> QED
        BY <1>2, <2>1, <4>1 DEF CalmUp
    <3> QED
      BY <3>3, <3>4, <3>5, <3>6, <3>7 DEF Undisturbed
  <2>8. CASE r.type = "appdata"
    <3>1. m + 0 = m
      BY <1>5, <2>3
    <3>2. Opens(r, cl.sets[1], cl.app_read)
      <4>1. cl.sets[1] = ServerData(f)
        BY <1>2, <2>2, DataSecrets
      <4> QED
        BY <2>3, <2>5, <2>8, <3>1, <4>1, Zenon
    <3>3. pc' = "data" /\ err' = err /\ cl' = [cl EXCEPT !.app_read = @ + 1]
      BY <1>2, <1>3, <2>8, <3>2, Zenon
    <3>4. cl'.app_read = m + 1
      BY <2>3, <3>3 DEF TInv, ClientShape
    <3>5. Echoes(Tail(down), f, m + 1, q)
      BY <1>1, <1>2, <1>4, <1>5, <2>3, <2>4, <2>8, EchoesTail
    <3>6. CalmError'
      BY <1>2, <2>1, <3>3 DEF CalmError
    <3>7. CalmPeer'
      BY <1>2, <2>1, <2>2, <3>3 DEF CalmPeer
    <3>8. CalmHello' /\ CalmFlight' /\ CalmFinish'
      BY <3>3 DEF CalmHello, CalmFlight, CalmFinish
    <3>9. CalmDown'
      BY <1>2, <2>2, <2>3, <2>6, <3>3, <3>4, <3>5 DEF CalmDown
    <3>10. CalmUp'
      <4>1. Passed' = Passed
        BY <1>2 DEF Passed
      <4> QED
        BY <1>2, <2>1, <3>3, <4>1 DEF CalmUp
    <3> QED
      BY <3>6, <3>7, <3>8, <3>9, <3>10 DEF Undisturbed
  <2> QED
    BY <2>7, <2>8
<1> QED
  BY <1>2, <1>6, CalmSame

LEMMA ServerReadsCInv ==
    ASSUME TInv, KInv, CInv, ServerReads
    PROVE  CInv'
<1> DEFINE f == server.flavour
<1>1. PICK r, g : r = Head(up) /\ g = f
  OBVIOUS
<1>2. /\ peer.state \in {"sent", "open"} /\ up # <<>> /\ up' = Tail(up)
      /\ UNCHANGED <<server, pc, err, cl, sent, faults, ccs, calls, swallowed>>
  BY DEF ServerReads
<1>3. \/ /\ peer.state = "sent"
         /\ peer' = [peer EXCEPT !.state = "open", !.seq_out = 1]
         /\ down' = IF g.early THEN down ELSE Append(down, Ticket(g, 0))
      \/ /\ peer.state = "open"
         /\ peer' = [peer EXCEPT !.got = @ \o r.payload, !.seq_out = @ + 1]
         /\ down' = Append(down, Protect(ServerData(g), peer.seq_out, "appdata", r.payload))
      \/ /\ peer.state = "sent"
         /\ ~(/\ Opens(r, ClientHandshake(g), 0)
              /\ r.payload[1].of.body = <<FinishedMac(ClientHandshake(g), ServerTranscript(g))>>)
      \/ peer.state = "open" /\ ~Opens(r, ClientData(g), Len(peer.got))
  BY <1>1, Zenon DEF ServerReads, ServerData, ClientData, ClientHandshake
<1>4. pc \in {"data", "done", "failed"}
  BY <1>2 DEF TInv, KInv, Quiet, TypeOK
<1>5. PICK S : down \in Seq(S)
  BY DEF TInv, Wire
<1>6. /\ up \in Seq(sealed) /\ Len(peer.got) \in Nat
      /\ peer = [state |-> peer.state, got |-> peer.got, seq_out |-> peer.seq_out]
      /\ peer.state = "sent" => peer.got = <<>>
      /\ peer.state = "open" => peer.seq_out = Len(peer.got) + 1
  <2>1. up \in Seq(sealed)
    BY DEF TInv, SealedInv
  <2>2. Len(peer.got) \in Nat
    BY DEF TInv, DataInv, Counting
  <2>3. PeerInv
    BY DEF TInv
  <2> QED
    BY <2>1, <2>2, <2>3, Zenon DEF PeerInv
<1>7. pc = "data" => cl.app_read \in Nat
  BY DEF TInv, SequenceInv
<1>8. Len(sent) \in Nat
  BY DEF TInv, DataInv, Counting
<1> HIDE DEF f
<1>9. ASSUME Calm PROVE Undisturbed'
  <2>1. CalmPeer /\ CalmError /\ CalmDown /\ CalmUp
    BY <1>9 DEF CInv, Undisturbed
  <2>2. server' = server /\ g = server.flavour
    BY <1>1, <1>2 DEF f
  <2>3. PICK p, n, m, q : p = Passed /\ n = Len(sent) /\ m = cl.app_read /\ q = peer.seq_out
    OBVIOUS
  <2>4. p \in Nat /\ (peer.state = "sent" => p = 0) /\ (peer.state = "open" => p = Len(peer.got) + 1)
    BY <1>6, <2>3 DEF Passed
  <2>5. Outgoing(up, g, p, n)
    BY <1>4, <2>1, <2>2, <2>3 DEF CalmUp
  <2>6. r = Awaited(g, p) /\ Outgoing(up', g, p + 1, n)
    BY <1>1, <1>2, <1>6, <2>4, <2>5, OutgoingFirst, OutgoingTail
  <2>7. pc = "data" => Echoes(down, g, m, q) /\ m \in Nat
    BY <1>7, <2>1, <2>2, <2>3 DEF CalmDown
  <2>8. CalmError' /\ CalmHello' /\ CalmFlight' /\ CalmFinish'
    BY <1>2, <1>4, <2>1 DEF CalmError, CalmHello, CalmFlight, CalmFinish
  <2>9. ASSUME peer'.state = "open", Passed' = p + 1,
               pc = "data" => Echoes(down', g, m, peer'.seq_out),
               ccs = 0 => Plain(down', 0, Len(down'))
        PROVE  Undisturbed'
    <3>1. CalmPeer'
      BY <1>2, <1>4, <2>9 DEF CalmPeer
    <3>2. CalmDown'
      BY <1>2, <1>4, <2>2, <2>3, <2>9 DEF CalmDown
    <3>3. CalmUp'
      BY <1>2, <2>2, <2>3, <2>6, <2>9 DEF CalmUp
    <3> QED
      BY <2>8, <3>1, <3>2, <3>3 DEF Undisturbed
  <2>10. CASE peer.state = "sent"
    <3>1. r = FinRec(g)
      BY <2>4, <2>6, <2>10, Zenon DEF Awaited
    <3>2. /\ Opens(r, ClientHandshake(g), 0)
          /\ r.payload[1].of.body = <<FinishedMac(ClientHandshake(g), ServerTranscript(g))>>
      BY <3>1, FinRecOpens, Zenon
    <3>3. /\ peer' = [peer EXCEPT !.state = "open", !.seq_out = 1]
          /\ down' = IF g.early THEN down ELSE Append(down, Ticket(g, 0))
      <4>1. peer.state # "open"
        BY <2>10
      <4> QED
        BY <1>3, <3>2, <4>1, Zenon
    <3>4. \/ EarlyTickets(g) = 1 /\ down' = down
          \/ EarlyTickets(g) = 0 /\ down' = Append(down, Ticket(g, 0))
      BY <3>3, Zenon DEF EarlyTickets
    <3>5. peer'.state = "open" /\ peer'.seq_out = 1 /\ peer'.got = peer.got /\ Len(peer.got) = 0
      BY <1>6, <2>10, <3>3
    <3>6. q = EarlyTickets(g)
      BY <2>1, <2>2, <2>3, <2>10 DEF CalmPeer
    <3>7. Passed' = p + 1
      BY <2>4, <2>10, <3>5 DEF Passed
    <3>8. CASE EarlyTickets(g) = 1 /\ down' = down
      <4>1. pc = "data" => Echoes(down', g, m, 1)
        BY <2>7, <3>6, <3>8
      <4>2. ccs = 0 => Plain(down', 0, Len(down'))
        BY <2>1, <3>8 DEF CalmDown
      <4> QED
        BY <2>9, <3>5, <3>7, <4>1, <4>2
    <3>9. CASE EarlyTickets(g) = 0 /\ down' = Append(down, Ticket(g, 0))
      <4>1. PICK t : t = Ticket(g, 0)
        OBVIOUS
      <4>2. t.type = "appdata" /\ Opens(t, ServerData(g), 0)
        BY <4>1, ProtectOpens, Zenon DEF Ticket, ServerData
      <4>3. pc = "data" => Echoes(down', g, m, 1)
        <5> SUFFICES ASSUME pc = "data" PROVE Echoes(down', g, m, 1)
          OBVIOUS
        <5>1. Echoes(down, g, m, 0) /\ m \in Nat /\ 0 \in Nat /\ 0 + 1 = 1
          BY <2>7, <3>6, <3>9
        <5>2. Echoes(Append(down, t), g, m, 0 + 1)
          BY <1>5, <4>2, <5>1, EchoesAppend
        <5> QED
          BY <3>9, <4>1, <5>1, <5>2, Zenon
      <4>4. ccs = 0 => Plain(down', 0, Len(down'))
        <5> SUFFICES ASSUME ccs = 0 PROVE Plain(down', 0, Len(down'))
          OBVIOUS
        <5>1. Plain(down, 0, Len(down))
          BY <2>1 DEF CalmDown
        <5>2. Plain(Append(down, t), 0, Len(Append(down, t)))
          BY <1>5, <4>2, <5>1, PlainAppend
        <5> QED
          BY <3>9, <4>1, <5>2, Zenon
      <4> QED
        BY <2>9, <3>5, <3>7, <4>3, <4>4
    <3> QED
      BY <3>4, <3>8, <3>9
  <2>11. CASE peer.state = "open"
    <3>1. PICK k : k = Len(peer.got)
      OBVIOUS
    <3>2. k \in Nat /\ p = k + 1 /\ q = k + 1 /\ p # 0 /\ p - 1 = k
      BY <1>6, <2>3, <2>4, <2>11, <3>1
    <3>3. r = DataRec(g, k)
      BY <2>6, <3>2, Zenon DEF Awaited
    <3>4. Opens(r, ClientData(g), k) /\ r.payload = <<k + 1>>
      <4>1. Opens(r, ClientData(g), k)
        BY <3>3, ProtectOpens, Zenon DEF DataRec
      <4>2. r.payload = <<k + 1>>
        BY <3>3 DEF DataRec, Protect
      <4> QED
        BY <4>1, <4>2
    <3>5. /\ peer' = [peer EXCEPT !.got = @ \o r.payload, !.seq_out = @ + 1]
          /\ down' = Append(down, Protect(ServerData(g), peer.seq_out, "appdata", r.payload))
      <4>1. peer.state # "sent"
        BY <2>11
      <4> QED
        BY <1>3, <3>1, <3>4, <4>1, Zenon
    <3>6. peer'.state = "open" /\ peer'.seq_out = q + 1 /\ peer'.got = peer.got \o <<k + 1>>
      BY <1>6, <2>3, <2>11, <3>4, <3>5
    <3>7. Len(peer'.got) = k + 1
      BY <3>1, <3>6, CountingAppend DEF TInv, DataInv
    <3>8. Passed' = p + 1
      BY <3>2, <3>6, <3>7 DEF Passed
    <3>9. PICK t : t = Protect(ServerData(g), q, "appdata", r.payload)
      OBVIOUS
    <3>10. t.type = "appdata" /\ Opens(t, ServerData(g), q) /\ down' = Append(down, t) /\ q \in Nat
      <4>1. q \in Nat
        BY <3>2
      <4> QED
        BY <2>3, <3>5, <3>9, <4>1, ProtectOpens, Zenon
    <3>11. pc = "data" => Echoes(down', g, m, q + 1)
      <4> SUFFICES ASSUME pc = "data" PROVE Echoes(down', g, m, q + 1)
        OBVIOUS
      <4>1. Echoes(Append(down, t), g, m, q + 1)
        BY <1>5, <2>7, <3>10, EchoesAppend
      <4> QED
        BY <3>10, <4>1, Zenon
    <3>12. ccs = 0 => Plain(down', 0, Len(down'))
      <4> SUFFICES ASSUME ccs = 0 PROVE Plain(down', 0, Len(down'))
        OBVIOUS
      <4>1. Plain(down, 0, Len(down))
        BY <2>1 DEF CalmDown
      <4>2. Plain(Append(down, t), 0, Len(Append(down, t)))
        BY <1>5, <3>10, <4>1, PlainAppend
      <4> QED
        BY <3>10, <4>2, Zenon
    <3> QED
      BY <2>9, <3>6, <3>8, <3>11, <3>12
  <2> QED
    BY <1>2, <2>10, <2>11
<1> QED
  BY <1>2, <1>9, CalmSame

(* A ChangeCipherSpec put in leaves a calm run calm, a disturbance ends it. *)
LEMMA NetworkCInv ==
    ASSUME TInv, CInv, InsertCcs \/ Disturb
    PROVE  CInv'
<1>1. CASE Disturb
  <2>1. faults' = faults + 1 /\ UNCHANGED <<ccs, calls>>
    BY <1>1 DEF Disturb
  <2>2. faults' \in Nat /\ ccs' \in Nat /\ calls' \in Nat /\ faults' # 0
    BY <2>1 DEF CInv
  <2>3. ~Calm'
    BY <2>2, Zenon DEF Calm
  <2> QED
    BY <2>2, <2>3 DEF CInv
<1>2. CASE InsertCcs
  <2>1. /\ pc = "flight" /\ ccs' = ccs + 1
        /\ UNCHANGED <<server, pc, err, cl, sent, up, faults, peer, calls, swallowed>>
    BY <1>2 DEF InsertCcs
  <2>2. PICK i \in 1..Len(down) : down' = Inserted(down, i, ChangeCipherSpec)
    BY <1>2 DEF InsertCcs
  <2>3. PICK S : down \in Seq(S)
    BY DEF TInv, Wire
  <2>4. ccs' \in Nat /\ ccs' > 0 /\ ccs' # 0 /\ faults' \in Nat /\ calls' \in Nat
    BY <2>1 DEF CInv
  <2>5. ASSUME Calm' PROVE Undisturbed'
    <3>1. Calm
      BY <2>1, <2>5, Zenon DEF Calm
    <3>2. CalmPeer /\ CalmError /\ CalmFlight
      BY <3>1 DEF CInv, Undisturbed
    <3>3. CalmPeer'
      BY <2>1, <3>2 DEF CalmPeer
    <3>4. CalmError'
      BY <2>1, <2>4, <3>2 DEF CalmError
    <3>5. CalmHello' /\ CalmFinish' /\ CalmUp'
      BY <2>1 DEF CalmHello, CalmFinish, CalmUp
    <3>6. CalmDown'
      BY <2>1, <2>4 DEF CalmDown
    <3>7. CalmFlight'
      <4> SUFFICES ASSUME calls = 0 PROVE CalmFlight'
        BY <2>1 DEF CalmFlight
      <4>1. PICK D : D = AfterHello(server.flavour, server.cuts)
        OBVIOUS
      <4>2. PICK h : Mixed(down, D, h)
        BY <2>1, <3>2, <4>1 DEF CalmFlight
      <4>3. \E g : Mixed(down', D, g)
        BY <2>2, <2>3, <4>2, MixedInserted
      <4>4. /\ cl.transcript = Th0(server.flavour) /\ cl.shts = Some(FlightSecret(server.flavour))
            /\ cl.chts = Some(ClientHandshake(server.flavour)) /\ cl.hs_read = 0
        BY <2>1, <3>2 DEF CalmFlight
      <4> QED
        BY <2>1, <4>1, <4>3, <4>4 DEF CalmFlight
    <3> QED
      BY <3>3, <3>4, <3>5, <3>6, <3>7 DEF Undisturbed
  <2> QED
    BY <2>4, <2>5 DEF CInv
<1> QED
  BY <1>1, <1>2

(* The driver ends content, or nothing happens; it does not time out.      *)
LEMMA EndCInv ==
    ASSUME TInv, KInv, CInv, Finish \/ Timeout \/ UNCHANGED vars
    PROVE  CInv'
<1>1. /\ UNCHANGED <<server, cl, sent, down, up, peer, faults, ccs, calls, swallowed>>
      /\ \/ pc' = pc /\ err' = err
         \/ pc = "data" /\ pc' = "done" /\ err' = err
         \/ faults > 0 \/ swallowed \/ peer.state = "failed"
  BY Zenon DEF Finish, Timeout, vars, net
<1>2. ASSUME Calm PROVE Undisturbed'
  <2>1. CalmPeer /\ CalmError /\ CalmHello /\ CalmFlight /\ CalmFinish /\ CalmDown /\ CalmUp
    BY <1>2 DEF CInv, Undisturbed
  <2>2. ~swallowed /\ faults = 0 /\ peer.state # "failed"
    BY <1>2, <2>1, Zenon DEF Calm, CalmPeer
  <2>3. ~(faults > 0)
    BY <2>2
  <2>4. err' = err /\ (pc' = pc \/ (pc = "data" /\ pc' = "done"))
    BY <1>1, <2>2, <2>3, Zenon
  <2>5. Passed' = Passed
    BY <1>1 DEF Passed
  <2>6. CalmPeer' /\ CalmError'
    BY <1>1, <2>1, <2>4 DEF CalmPeer, CalmError
  <2>7. CalmHello' /\ CalmFlight' /\ CalmFinish'
    BY <1>1, <2>1, <2>4 DEF CalmHello, CalmFlight, CalmFinish
  <2>8. CalmDown' /\ CalmUp'
    BY <1>1, <2>1, <2>4, <2>5 DEF CalmDown, CalmUp
  <2> QED
    BY <2>6, <2>7, <2>8 DEF Undisturbed
<1> QED
  BY <1>1, <1>2, CalmSame

LEMMA NextCInv == TInv /\ KInv /\ CInv /\ [Next]_vars => CInv'
<1> SUFFICES ASSUME TInv, KInv, CInv, [Next]_vars PROVE CInv'
  OBVIOUS
<1>1. CASE Start
  BY <1>1, StartCInv
<1>2. CASE ProcessServerHello
  BY <1>2, HelloCInv
<1>3. CASE DeriveHandshakeKeys
  BY <1>3, DeriveCInv
<1>4. CASE ProcessServerFlight
  BY <1>4, FlightCInv
<1>5. CASE ClientFinishedRecord
  BY <1>5, ClientFinishedCInv
<1>6. CASE SealAppRecord
  BY <1>6, SealCInv
<1>7. CASE OpenRecord
  BY <1>7, OpenCInv
<1>8. CASE ServerReads
  BY <1>8, ServerReadsCInv
<1>9. CASE InsertCcs \/ Disturb
  BY <1>9, NetworkCInv
<1>10. CASE Finish \/ Timeout \/ Ended \/ UNCHANGED vars
  BY <1>10, EndCInv DEF Ended
<1> QED
  BY <1>1, <1>2, <1>3, <1>4, <1>5, <1>6, <1>7, <1>8, <1>9, <1>10 DEF Next

LEMMA CalmInvariant == Spec => []CInv
<1>1. Init => CInv
  BY InitCInv
<1>2. TInv /\ KInv /\ CInv /\ [Next]_vars => CInv'
  BY NextCInv
<1> QED
  BY <1>1, <1>2, Invariant, KeysInvariant, PTL DEF Spec

(* Neither end of a connection to a supported server fails without one of  *)
(* the causes: however process_server_flight's records are cut, whatever   *)
(* extra messages and certificates there are, with ChangeCipherSpec before *)
(* any record of the flight, neither end refuses a step of the handshake   *)
(* or a record after it.                                                   *)
THEOREM FailuresCorrect == Spec => []FailuresCaused
<1>1. CInv => FailuresCaused
  <2> SUFFICES ASSUME CInv, err # None \/ peer.state = "failed"
               PROVE  \/ faults > 0 \/ calls > 1 \/ swallowed
                      \/ ccs > 0 /\ err = Some("UnexpectedRecord")
                      \/ ~Supported(server.flavour)
                      \/ server.flavour.signer # server.flavour.chain[1]
    BY Zenon DEF FailuresCaused
  <2>1. (faults = 0 \/ faults > 0) /\ (calls <= 1 \/ calls > 1)
    BY DEF CInv
  <2>2. CASE Calm
    <3>1. CalmPeer /\ CalmError
      BY <2>2 DEF CInv, Undisturbed
    <3>2. ccs > 0 /\ err = Some("UnexpectedRecord")
      BY <3>1 DEF CalmPeer, CalmError
    <3> QED
      BY <3>2, Zenon
  <2>3. CASE ~Calm
    BY <2>1, <2>3, Zenon DEF Calm
  <2> QED
    BY <2>2, <2>3
<1> QED
  BY <1>1, CalmInvariant, PTL
=============================================================================
