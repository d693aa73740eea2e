--------------------------- MODULE RealityProofs ---------------------------
(***************************************************************************)
(* Proofs about Reality, for any handshakes, server runs, profiles,        *)
(* damaged bytes and records.  What is safe needs little of the parser and *)
(* the builder: where the random and the session id lie in a hello that    *)
(* parses, and that the seal covers every other byte.  That a hello which  *)
(* was built is read back and answered needs all of both, byte by byte;    *)
(* the second half of the module is about that.                            *)
(***************************************************************************)
EXTENDS Reality, DataInduction, FiniteSetTheorems, TLAPS

InUse(h) == phase[h] \in {"sent", "closed"}
Key(h)   == profile[h][1].key
Auth(h)  == AuthKey(DH(Ephemeral(h), Key(h)), Field(HelloRandom(Ephemeral(h), Key(h))))

(* The keys handshake h and server run c arrive at together. *)
Pair(h, c) == RecordKeys(SessionIdentity(SidName(h), DH(ServerEph(c), Ephemeral(h))))

(* A hello was sealed under a usable key, and is patched nowhere but in    *)
(* its session id.                                                         *)
ClientInv ==
    /\ phase = [h \in Handshakes |-> phase[h]]
    /\ profile = [h \in Handshakes |-> profile[h]]
    /\ wire_hello = [h \in Handshakes |-> wire_hello[h]]
    /\ record_keys = [h \in Handshakes |-> record_keys[h]]
    /\ completed \in [Handshakes -> BOOLEAN]
    /\ \A h \in Handshakes :
          /\ Started(h) => InUse(h)
          /\ record_keys[h] # None => InUse(h)
          /\ completed[h] => record_keys[h] # None
          /\ InUse(h) =>
                LET hello == HelloFor(h, profile[h][1]).wire IN
                /\ Key(h) \in Nat /\ Key(h) \notin {0, LowOrder}
                /\ hello \in Seq(Nat) /\ Len(hello) >= 46
                /\ wire_hello[h] = PatchSid(hello, Field(SidName(h)))

(* Run c answered the hello of h, and has opened no more than h sent. *)
Session(c, h) ==
    /\ InUse(h) /\ Key(h) = Static
    /\ PadShort(profile[h][1].short) = PadShort(AllowedShort)
    /\ srv[c].read = Some([from |-> h, whole |-> TRUE])
    /\ srv[c].session_id = SidName(h)
    /\ srv[c].keys = Some(Pair(h, c))
    /\ srv[c].seq_in \in Nat /\ srv[c].seq_out = srv[c].seq_in
    /\ srv[c].seq_in <= Len(sent[h])

ServerInv ==
    /\ srv = [c \in Conns |-> [state |-> srv[c].state, err |-> srv[c].err, read |-> srv[c].read,
                               session_id |-> srv[c].session_id, keys |-> srv[c].keys,
                               seq_in |-> srv[c].seq_in, seq_out |-> srv[c].seq_out]]
    /\ \A c \in Conns :
          /\ srv[c].state = "accept" => srv[c] = NewServer
          /\ srv[c].state = "serving" => srv[c].keys # None
          /\ srv[c].keys # None => \E h \in Handshakes : Session(c, h)

(* A response is one run's answer to one handshake. *)
Response(c, h) == [cert |-> TempCertificate(Auth(h), c), share |-> ServerEph(c),
                   confirm |-> Confirmation(c, Pair(h, c), SidName(h))]

ResponseInv ==
    \A r \in responses : \E c \in Conns, h \in Handshakes : Session(c, h) /\ r = Response(c, h)

(* A client has keys with some run only after one answered its hello, and  *)
(* a completed one has those of a run that did.                            *)
KeyInv ==
    \A h \in Handshakes :
        /\ record_keys[h] # None =>
              /\ \E d \in Conns : record_keys[h] = Some(Pair(h, d))
              /\ \E c \in Conns : Session(c, h)
        /\ completed[h] => \E c \in Conns : Session(c, h) /\ record_keys[h] = Some(Pair(h, c))

(* The n-th record of a client, and the n-th mirrored by a run. *)
ClientRecord(c, h, n) ==
    Seal(Pair(h, c).send, DeriveNonce(SidName(h), n, "client", "data"), <<h, n>>, 0)
MirrorRecord(c, h, n) ==
    Seal(Pair(h, c).recv, DeriveNonce(SidName(h), n, "server", "data"), <<h, n>>, c)

IsClientRecord(r) ==
    \E h \in Handshakes, c \in Conns : \E n \in 0..(Len(sent[h]) - 1) :
        record_keys[h] = Some(Pair(h, c)) /\ r = ClientRecord(c, h, n)
IsMirrorRecord(r) ==
    \E c \in Conns, h \in Handshakes :
        Session(c, h) /\ \E n \in 0..(srv[c].seq_in - 1) : r = MirrorRecord(c, h, n)

RecordInv == \A r \in records : IsClientRecord(r) \/ IsMirrorRecord(r)

(* Payloads are numbered from 0 at both ends. *)
Numbered(s, h) == \A i \in 1..Len(s) : s[i] = <<h, i - 1>>
EchoInv ==
    /\ sent \in [Handshakes -> Seq(Handshakes \X Nat)]
    /\ got \in [Handshakes -> Seq(Handshakes \X Nat)]
    /\ \A h \in Handshakes :
          Numbered(sent[h], h) /\ Numbered(got[h], h) /\ Len(got[h]) <= Len(sent[h])

RInv == ClientInv /\ ServerInv /\ ResponseInv /\ KeyInv /\ RecordInv /\ EchoInv
-----------------------------------------------------------------------------
(* The algebra: names are disjoint, and every construction is injective.   *)

LEMMA Numbers ==
    /\ \A h \in Handshakes : h \in Nat /\ h >= 1 /\ h <= 99
    /\ \A c \in Conns : c \in Nat /\ c >= 1 /\ c <= 99
<1>1. \A x \in 1..99 : x \in Nat /\ x >= 1 /\ x <= 99
  OBVIOUS
<1> QED BY <1>1, RealityAssumption

LEMMA Options ==
    /\ \A x : Some(x) # None /\ Some(x)[1] = x
    /\ \A x, y : Some(x) = Some(y) => x = y
<1>1. \A x : Some(x) # None
  BY DEF Some, None
<1>2. \A x : Some(x)[1] = x
  BY DEF Some
<1> QED BY <1>1, <1>2

LEMMA Names ==
    ASSUME NEW h \in Handshakes, NEW g \in Handshakes, NEW c \in Conns, NEW d \in Conns
    PROVE  /\ Ephemeral(h) # ServerEph(c) /\ Ephemeral(h) # Static /\ ServerEph(c) # Static
           /\ Ephemeral(h) \notin {0, LowOrder} /\ ServerEph(c) \notin {0, LowOrder}
           /\ Ephemeral(h) \in Nat /\ SidName(h) \in Nat
           /\ Ephemeral(h) = Ephemeral(g) => h = g
           /\ ServerEph(c) = ServerEph(d) => c = d
           /\ SidName(h) = SidName(g) => h = g
BY Numbers DEF Ephemeral, ServerEph, SidName, Static, LowOrder

LEMMA SamePair ==
    ASSUME NEW a, NEW b, NEW x, NEW y, {a, b} = {x, y}
    PROVE  (a = x /\ b = y) \/ (a = y /\ b = x)
<1>1. /\ a \in {x, y} /\ b \in {x, y}
      /\ x \in {a, b} /\ y \in {a, b}
  OBVIOUS
<1>2. CASE a = x
  BY <1>1, <1>2
<1>3. CASE a = y
  BY <1>1, <1>3
<1> QED BY <1>1, <1>2, <1>3

LEMMA Strong ==
    ASSUME NEW a, NEW b, a \notin {0, LowOrder}, b \notin {0, LowOrder}
    PROVE  DH(a, b) = {a, b}
BY DEF DH

LEMMA PairIsOne ==
    ASSUME NEW h \in Handshakes, NEW g \in Handshakes, NEW c \in Conns, NEW d \in Conns,
           \/ Pair(h, c) = Pair(g, d)
           \/ Pair(h, c).send = Pair(g, d).send
           \/ Pair(h, c).recv = Pair(g, d).recv
    PROVE  h = g /\ c = d
<1> DEFINE x == SessionIdentity(SidName(h), DH(ServerEph(c), Ephemeral(h)))
           y == SessionIdentity(SidName(g), DH(ServerEph(d), Ephemeral(g)))
<1>1. x = y
  <2> HIDE DEF x, y
  <2>1. /\ Pair(h, c) = [send |-> <<"send", x>>, recv |-> <<"recv", x>>]
        /\ Pair(g, d) = [send |-> <<"send", y>>, recv |-> <<"recv", y>>]
    BY DEF Pair, RecordKeys, x, y
  <2> QED BY <2>1
<1>2. SidName(h) = SidName(g) /\ DH(ServerEph(c), Ephemeral(h)) = DH(ServerEph(d), Ephemeral(g))
  BY <1>1 DEF SessionIdentity
<1>3. h = g
  BY <1>2, Names
<1>4. {ServerEph(c), Ephemeral(h)} = {ServerEph(d), Ephemeral(g)}
  BY <1>2, Names, Strong
<1>5. ServerEph(c) = ServerEph(d)
  BY <1>4, SamePair, Names
<1> QED BY <1>3, <1>5, Names

LEMMA NonceIsOne ==
    ASSUME NEW i, NEW n, NEW d, NEW p, NEW j, NEW m, NEW e, NEW q,
           DeriveNonce(i, n, d, p) = DeriveNonce(j, m, e, q)
    PROVE  i = j /\ n = m /\ d = e /\ p = q
BY DEF DeriveNonce

(* A certificate's key names its handshake, and only the server's own key  *)
(* makes one.                                                              *)
LEMMA AuthIsOne ==
    ASSUME NEW h \in Handshakes, NEW k, k \notin {0, LowOrder}, NEW s, NEW x, NEW y,
           AuthKey(DH(Ephemeral(h), k), x) = AuthKey(DH(Static, s), y)
    PROVE  k = Static /\ s = Ephemeral(h)
<1>1. DH(Ephemeral(h), k) = DH(Static, s)
  BY DEF AuthKey
<1>2. DH(Ephemeral(h), k) = {Ephemeral(h), k} /\ Ephemeral(h) # Static
  BY Strong, Names, RealityAssumption DEF Ephemeral, Static, LowOrder
<1>3. DH(Static, s) = {Static, s}
  BY <1>1, <1>2 DEF DH
<1> QED BY <1>1, <1>2, <1>3, SamePair

-----------------------------------------------------------------------------
(* The hello as a sequence.  Its parts are sequences of numbers, so is it; *)
(* a patched session id can be read back, and nothing else is patched.     *)

LEMMA Bytes ==
    /\ \A n \in Nat : Be16(n) \in Seq(Nat) /\ Be24(n) \in Seq(Nat)
    /\ \A n \in Nat : Zeros(n) \in Seq(Nat) /\ Len(Zeros(n)) = n
    /\ \A k \in Nat : Field(k) \in Seq(Nat) /\ Len(Field(k)) = 32
                      /\ \A i \in 1..32 : Field(k)[i] = k
<1>1. \A n \in Nat : Be16(n) \in Seq(Nat)
  BY DEF Be16
<1>2. \A n \in Nat : Be24(n) \in Seq(Nat)
  BY <1>1 DEF Be24
<1>3. ASSUME NEW n \in Nat PROVE Zeros(n) \in Seq(Nat) /\ Len(Zeros(n)) = n
  <2>1. Zeros(n) \in [1..n -> Nat] /\ DOMAIN Zeros(n) = 1..n
    BY DEF Zeros
  <2>2. Zeros(n) \in Seq(Nat)
    BY <2>1
  <2> QED BY <2>1, <2>2
<1>4. ASSUME NEW k \in Nat
      PROVE  Field(k) \in Seq(Nat) /\ Len(Field(k)) = 32 /\ \A i \in 1..32 : Field(k)[i] = k
  <2>1. Field(k) \in [1..32 -> Nat] /\ DOMAIN Field(k) = 1..32 /\ \A i \in 1..32 : Field(k)[i] = k
    BY DEF Field
  <2>2. Field(k) \in Seq(Nat)
    <3>1. \A n \in Nat : [1..n -> Nat] \subseteq Seq(Nat)
      OBVIOUS
    <3>2. 32 \in Nat
      OBVIOUS
    <3> QED BY <2>1, <3>1, <3>2
  <2>3. Len(Field(k)) \in Nat /\ DOMAIN Field(k) = 1..Len(Field(k))
    BY <2>2
  <2>4. Len(Field(k)) = 32
    BY <2>1, <2>3
  <2> QED BY <2>1, <2>2, <2>4
<1> QED BY <1>1, <1>2, <1>3, <1>4

ByteStrings == Seq(Nat)

LEMMA Joined ==
    /\ \A s, t \in ByteStrings : s \o t \in ByteStrings
    /\ \A s \in ByteStrings : Len(s) \in Nat
    /\ <<>> \in ByteStrings /\ \A x \in Nat : <<x>> \in ByteStrings
    /\ \A x, y \in Nat : <<x, y>> \in ByteStrings
    /\ \A x, y, z \in Nat : <<x, y, z>> \in ByteStrings
    /\ \A n \in Nat : Be16(n) \in ByteStrings /\ Be24(n) \in ByteStrings
    /\ \A n \in Nat : Zeros(n) \in ByteStrings
    /\ \A k \in Nat : Field(k) \in ByteStrings
BY Bytes DEF ByteStrings

LEMMA Functional ==
    \A n \in Nat : \A s \in [1..n -> Nat] : s \in ByteStrings /\ Len(s) = n
BY DEF ByteStrings

LEMMA LongerJoined ==
    \A s, t \in ByteStrings : /\ Len(s) <= Len(s \o t) /\ Len(t) <= Len(s \o t)
                              /\ Len(s \o t) = Len(s) + Len(t)
BY DEF ByteStrings

LEMMA FiveJoined ==
    \A a, b, c, d, e \in ByteStrings : a \o b \o c \o d \o e \in ByteStrings
<1>1. \A s, t \in ByteStrings : s \o t \in ByteStrings
  BY Joined
<1> QED BY <1>1, Zenon

LEMMA ExtensionBytes ==
    /\ \A type \in Nat, data \in ByteStrings : Extension(type, data) \in ByteStrings
    /\ \A type \in Nat, n \in Nat : Blank(type, n) \in ByteStrings
<1>1. ASSUME NEW type \in Nat, NEW data \in ByteStrings
      PROVE  Extension(type, data) \in ByteStrings
  <2>1. Len(data) \in Nat
    BY Joined
  <2>2. Be16(type) \in ByteStrings /\ Be16(Len(data)) \in ByteStrings
    BY <2>1, Joined
  <2> QED BY <2>2, Joined, Zenon DEF Extension
<1>2. \A n \in Nat : Zeros(n) \in ByteStrings
  BY Joined
<1> QED BY <1>1, <1>2 DEF Blank

LEMMA BeforeVersionsBytes == BeforeVersions \in ByteStrings
<1>0. PICK x, y, z : x = Blank(65281, 1) /\ y = Blank(17513, 2) /\ z = Blank(17613, 2)
  BY SMT
<1> DEFINE front == Blank(23, 0) \o x \o Blank(10, 10) \o Blank(16, 14) \o Blank(13, 18)
           middle == front \o Blank(5, 5) \o Blank(27, 3) \o Blank(18, 0) \o Blank(45, 2)
           last == middle \o Blank(50, 18) \o Blank(31, 18) \o y \o z
<1>1. x \in ByteStrings /\ y \in ByteStrings /\ z \in ByteStrings
  BY <1>0, ExtensionBytes, SMT
<1>2. front \in ByteStrings
  <2>1. /\ Blank(23, 0) \in ByteStrings /\ Blank(10, 10) \in ByteStrings
        /\ Blank(16, 14) \in ByteStrings /\ Blank(13, 18) \in ByteStrings
    BY ExtensionBytes
  <2> QED BY <1>1, <2>1, FiveJoined, Zenon
<1> HIDE DEF front
<1>3. middle \in ByteStrings
  <2>1. /\ Blank(5, 5) \in ByteStrings /\ Blank(27, 3) \in ByteStrings
        /\ Blank(18, 0) \in ByteStrings /\ Blank(45, 2) \in ByteStrings
    BY ExtensionBytes
  <2> QED BY <1>2, <2>1, FiveJoined, Zenon
<1> HIDE DEF middle
<1>4. last \in ByteStrings
  <2>1. Blank(50, 18) \in ByteStrings /\ Blank(31, 18) \in ByteStrings
    BY ExtensionBytes
  <2> QED BY <1>1, <1>3, <2>1, FiveJoined, Zenon
<1>5. BeforeVersions = last \o Blank(35, 0) \o Blank(22, 0)
  BY <1>0, SMT DEF BeforeVersions, front, middle
<1> HIDE DEF last
<1>6. \A s, t \in ByteStrings : s \o t \in ByteStrings
  BY Joined
<1>7. last \o Blank(35, 0) \in ByteStrings
  BY <1>4, <1>6, ExtensionBytes
<1>8. (last \o Blank(35, 0)) \o Blank(22, 0) \in ByteStrings
  BY <1>6, <1>7, ExtensionBytes
<1> QED BY <1>5, <1>8

LEMMA ExtensionsBytes ==
    ASSUME NEW sni \in ByteStrings, NEW public \in ByteStrings
    PROVE  Extensions(Some(sni), public) \in ByteStrings
<1>0. \A s, t \in ByteStrings : s \o t \in ByteStrings
  BY Joined
<1>1. SupportedVersions \in ByteStrings
  <2>1. <<6, 10, 10, 3, 4, 3, 3>> \in ByteStrings
    BY DEF ByteStrings
  <2>2. EXT_SUPPORTED_VERSIONS \in Nat
    BY DEF EXT_SUPPORTED_VERSIONS
  <2> QED BY <2>1, <2>2, ExtensionBytes, Zenon DEF SupportedVersions
<1>2. ServerName(sni) \in ByteStrings
  <2>1. Len(sni) \in Nat /\ 3 + Len(sni) \in Nat /\ EXT_SERVER_NAME \in Nat
    BY Joined DEF EXT_SERVER_NAME
  <2>2. /\ Be16(3 + Len(sni)) \in ByteStrings /\ Be16(Len(sni)) \in ByteStrings
        /\ <<0>> \in ByteStrings
    BY <2>1, Joined
  <2>3. Be16(3 + Len(sni)) \o <<0>> \o Be16(Len(sni)) \o sni \in ByteStrings
    BY <1>0, <2>2, Zenon
  <2> QED BY <2>1, <2>3, ExtensionBytes, Zenon DEF ServerName
<1>3. KeyShare(public) \in ByteStrings
  <2>1. /\ 4 + X25519_PK_LEN \in Nat /\ GROUP_X25519 \in Nat /\ X25519_PK_LEN \in Nat
        /\ EXT_KEY_SHARE \in Nat
    BY DEF X25519_PK_LEN, GROUP_X25519, EXT_KEY_SHARE
  <2>2. /\ Be16(4 + X25519_PK_LEN) \in ByteStrings /\ Be16(GROUP_X25519) \in ByteStrings
        /\ Be16(X25519_PK_LEN) \in ByteStrings
    BY <2>1, Joined
  <2>3. Be16(4 + X25519_PK_LEN) \o Be16(GROUP_X25519) \o Be16(X25519_PK_LEN) \o public
           \in ByteStrings
    BY <1>0, <2>2, Zenon
  <2> QED BY <2>1, <2>3, ExtensionBytes, Zenon DEF KeyShare
<1>4. Blank(6682, 0) \in ByteStrings
  BY ExtensionBytes
<1>5. (IF Some(sni) = None THEN <<>> ELSE ServerName(Some(sni)[1])) = ServerName(sni)
  BY DEF Some, None
<1> QED BY <1>0, <1>1, <1>2, <1>3, <1>4, <1>5, BeforeVersionsBytes DEF Extensions

LEMMA HelloBytes ==
    ASSUME NEW h \in Handshakes, NEW q, q.sni \in Seq(Nat), q.key \in Nat, HelloFor(h, q).ok
    PROVE  HelloFor(h, q).wire \in ByteStrings /\ Len(HelloFor(h, q).wire) >= 46
<1> DEFINE sni == Some(q.sni)
           exts == Extensions(sni, Field(Ephemeral(h)))
           random == Field(HelloRandom(Ephemeral(h), q.key))
           pad == PaddingLen(exts, sni)
           body == HelloBody(random, Zeros(32), Padded(exts, sni))
<1>0. \A s, t \in ByteStrings : s \o t \in ByteStrings
  BY Joined
<1>1. /\ q.sni \in ByteStrings /\ Field(Ephemeral(h)) \in ByteStrings
      /\ random \in ByteStrings /\ Zeros(32) \in ByteStrings
  <2>1. q.sni \in ByteStrings
    BY DEF ByteStrings
  <2>2. Ephemeral(h) \in Nat /\ HelloRandom(Ephemeral(h), q.key) \in Nat
    BY Names, Numbers DEF HelloRandom, Ephemeral
  <2> QED BY <2>1, <2>2, Joined
<1>2. exts \in ByteStrings
  BY <1>1, ExtensionsBytes
<1>3. pad \in Int
  <2>0. Len(exts) \in Nat /\ Len(q.sni) \in Nat
    BY <1>1, <1>2, Joined
  <2>1. Len(exts) \in Nat /\ SniOverhead(sni) \in Nat
    BY <2>0 DEF SniOverhead, Some, None
  <2> HIDE DEF exts, sni
  <2> QED BY <2>1 DEF PaddingLen, PADDING_BOUNDARY
<1> HIDE DEF exts, random, pad
<1>4. Padded(exts, sni) \in ByteStrings
  <2>1. pad > 0 => Zeros(pad) \in ByteStrings
    BY <1>3, Joined
  <2>2. EXT_PADDING \in Nat
    BY DEF EXT_PADDING
  <2>3. pad > 0 => Extension(EXT_PADDING, Zeros(pad)) \in ByteStrings
    BY <2>1, <2>2, ExtensionBytes
  <2>4. Padded(exts, sni) = IF pad > 0 THEN exts \o Extension(EXT_PADDING, Zeros(pad)) ELSE exts
    BY DEF Padded, pad
  <2> QED BY <1>0, <1>2, <2>3, <2>4
<1>5. body \in ByteStrings
  <2>1. Len(Zeros(32)) \in Nat /\ Len(Padded(exts, sni)) \in Nat
    BY <1>1, <1>4, Joined
  <2>2. /\ <<3, 3>> \in ByteStrings /\ <<Len(Zeros(32))>> \in ByteStrings
        /\ Be16(32) \in ByteStrings /\ <<1, 0>> \in ByteStrings
        /\ Be16(Len(Padded(exts, sni))) \in ByteStrings
    BY <2>1, Joined
  <2> QED BY <1>0, <1>1, <1>4, <2>2, ZenonT(60) DEF HelloBody
<1>5a. Len(body) >= 46
  <2> DEFINE head == <<3, 3>> \o random \o <<Len(Zeros(32))>> \o Zeros(32)
             mid == head \o Be16(32) \o Zeros(32) \o <<1, 0>>
  <2>1. /\ <<3, 3>> \in ByteStrings /\ <<Len(Zeros(32))>> \in ByteStrings
        /\ Be16(32) \in ByteStrings /\ <<1, 0>> \in ByteStrings
        /\ Be16(Len(Padded(exts, sni))) \in ByteStrings
    BY <1>1, <1>4, Joined
  <2>2. Len(random) = 32 /\ Len(Zeros(32)) = 32
    <3>1. HelloRandom(Ephemeral(h), q.key) \in Nat /\ 32 \in Nat
      BY Numbers DEF HelloRandom, Ephemeral
    <3> QED BY <3>1, Bytes DEF random
  <2>3. head \in ByteStrings /\ Len(head) >= 46
    <3> DEFINE a == <<3, 3>> \o random
               b == a \o <<Len(Zeros(32))>>
    <3>0. \A s, t \in ByteStrings : s \o t \in ByteStrings /\ Len(s \o t) = Len(s) + Len(t)
                                  /\ Len(s) \in Nat
      BY Joined, LongerJoined
    <3>1. a \in ByteStrings /\ Len(a) >= 32
      <4>1. a \in ByteStrings /\ Len(a) = Len(<<3, 3>>) + Len(random) /\ Len(<<3, 3>>) \in Nat
        BY <1>1, <2>1, <3>0, Zenon
      <4> QED BY <2>2, <4>1
    <3> HIDE DEF a
    <3>2. b \in ByteStrings /\ Len(b) >= 32
      BY <2>1, <3>1, <3>0
    <3> HIDE DEF b
    <3>3. b \o Zeros(32) \in ByteStrings /\ Len(b \o Zeros(32)) >= 46
      <4> DEFINE c == b \o Zeros(32)
      <4>1. c \in ByteStrings /\ Len(c) = Len(b) + Len(Zeros(32)) /\ Len(b) \in Nat
        BY <1>1, <3>2, <3>0, Zenon
      <4> HIDE DEF c
      <4>2. Len(c) = Len(b) + 32
        BY <2>2, <4>1
      <4>3. Len(c) >= 46
        BY <3>2, <4>1, <4>2
      <4> QED BY <4>1, <4>3 DEF c
    <3> QED BY <3>3 DEF a, b
  <2> HIDE DEF head
  <2>4. mid \in ByteStrings
    BY <1>0, <1>1, <2>1, <2>3, Zenon
  <2>5. Len(mid) >= 46
    BY <1>1, <2>1, <2>3 DEF ByteStrings
  <2>6. body = mid \o Be16(Len(Padded(exts, sni))) \o Padded(exts, sni)
    BY DEF HelloBody, head
  <2> HIDE DEF mid
  <2> QED BY <1>4, <2>1, <2>4, <2>5, <2>6 DEF ByteStrings
<1> HIDE DEF body
<1>6. HelloRecord(body) \in ByteStrings /\ Len(HelloRecord(body)) >= 46
  <2> DEFINE hs == <<HS_CLIENT_HELLO>> \o Be24(Len(body)) \o body
  <2>1. <<HS_CLIENT_HELLO>> \in ByteStrings /\ Be24(Len(body)) \in ByteStrings
    BY <1>5, Joined DEF HS_CLIENT_HELLO
  <2>2. hs \in ByteStrings /\ Len(hs) >= 46
    BY <1>5, <1>5a, <2>1 DEF ByteStrings
  <2> HIDE DEF hs
  <2>3. <<CONTENT_HANDSHAKE, 3, 1>> \in ByteStrings /\ Be16(Len(hs)) \in ByteStrings
    BY <2>2, Joined DEF CONTENT_HANDSHAKE
  <2>4. HelloRecord(body) = <<CONTENT_HANDSHAKE, 3, 1>> \o Be16(Len(hs)) \o hs
    BY DEF HelloRecord, hs
  <2> QED BY <2>2, <2>3, <2>4 DEF ByteStrings
<1>7. HelloFor(h, q).wire = HelloRecord(body)
  BY DEF HelloFor, BuildClientHello, Err, body, exts, random
<1> QED BY <1>6, <1>7

-----------------------------------------------------------------------------
(* Reading a hello.  Where the parser finds the session id, when it finds  *)
(* anything.                                                               *)

LEMMA Parsed ==
    ASSUME NEW w \in ByteStrings, ParseClientHello(w).ok
    PROVE  /\ Len(w) >= 46 + At(w, 43)
           /\ ParseClientHello(w).session_id = SubSeq(w, 45, 44 + At(w, 43))
<1>1. SESSION_ID_OFFSET = 44
  BY DEF SESSION_ID_OFFSET
<1>2. Len(w) \in Nat /\ At(w, 43) \in Nat
  BY DEF ByteStrings, At
<1>3. /\ ~(Len(w) < SESSION_ID_OFFSET + At(w, 43) + 2)
      /\ ParseClientHello(w).session_id = Take(w, SESSION_ID_OFFSET, At(w, 43))
  BY ZenonT(60) DEF ParseClientHello, Err
<1> QED BY <1>1, <1>2, <1>3 DEF Take

(* Of a damaged hello that is long enough to hold a session id, one of its *)
(* first two bytes is still the old one.                                   *)
LEMMA Damage ==
    ASSUME NEW w \in ByteStrings, Len(w) >= 46, NEW v \in Damaged(w)
    PROVE  /\ v \in ByteStrings
           /\ Len(v) >= 46 => v[45] = w[45] \/ v[46] = w[46]
<1>0. w \in Seq(Nat) /\ SESSION_ID_OFFSET = 44
  BY DEF ByteStrings, SESSION_ID_OFFSET
<1>1. CASE v = w
  BY <1>1
<1>2. CASE v \in {[w EXCEPT ![o + 1] = @ + 1] : o \in Offsets}
  <2>1. PICK o \in Offsets : v = [w EXCEPT ![o + 1] = @ + 1]
    BY <1>2
  <2>2. o \in Nat
    BY RealityAssumption
  <2>3. DOMAIN w = 1..Len(w) /\ Len(w) \in Nat /\ \A i \in 1..Len(w) : w[i] \in Nat
    BY <1>0
  <2>4. v = [i \in 1..Len(w) |-> IF i = o + 1 THEN w[o + 1] + 1 ELSE w[i]]
    BY <2>1, <2>3
  <2>5. v \in [1..Len(w) -> Nat] /\ \A i \in 1..Len(w) : i # o + 1 => v[i] = w[i]
    BY <2>3, <2>4
  <2>6. v \in ByteStrings
    BY <2>3, <2>5, Functional
  <2>7. 45 \in 1..Len(w) /\ 46 \in 1..Len(w)
    BY <2>3
  <2> QED BY <2>2, <2>5, <2>6, <2>7
<1>3. CASE v = SubSeq(w, 1, Len(w) - 1)
  BY <1>0, <1>3 DEF ByteStrings
<1>4. CASE v = SubSeq(w, 1, SESSION_ID_OFFSET)
  <2>1. v = SubSeq(w, 1, 44)
    BY <1>0, <1>4
  <2>2. \A n \in 1..Len(w) : SubSeq(w, 1, n) \in Seq(Nat) /\ Len(SubSeq(w, 1, n)) = n
    BY <1>0
  <2>3. 44 \in 1..Len(w)
    BY <1>0
  <2>4. v \in Seq(Nat) /\ Len(v) = 44
    BY <2>1, <2>2, <2>3, Zenon
  <2> QED BY <2>4 DEF ByteStrings
<1>5. CASE v = Append(w, 0)
  BY <1>0, <1>5 DEF ByteStrings
<1> QED BY <1>1, <1>2, <1>3, <1>4, <1>5 DEF Damaged

LEMMA Patched ==
    ASSUME NEW hello \in ByteStrings, NEW k \in Nat, Len(hello) >= 46
    PROVE  LET w == PatchSid(hello, Field(k)) IN
           w \in ByteStrings /\ Len(w) = Len(hello) /\ w[45] = k /\ w[46] = k
<1> DEFINE w == PatchSid(hello, Field(k))
<1>0. hello \in Seq(Nat) /\ SESSION_ID_OFFSET = 44 /\ Len(hello) \in Nat
      /\ DOMAIN hello = 1..Len(hello)
  BY DEF ByteStrings, SESSION_ID_OFFSET
<1>1. w = [i \in 1..Len(hello) |-> IF i \in 45..76 THEN Field(k)[i - 44] ELSE hello[i]]
  BY <1>0 DEF PatchSid
<1>2. \A i \in 45..76 : i - 44 \in 1..32
  OBVIOUS
<1>3. \A i \in 45..76 : Field(k)[i - 44] = k
  <2>1. \A i \in 1..32 : Field(k)[i] = k
    BY Bytes
  <2> QED BY <1>2, <2>1
<1>4. w \in [1..Len(hello) -> Nat]
  <2>1. \A i \in 1..Len(hello) : hello[i] \in Nat
    BY <1>0
  <2>2. \A i \in 1..Len(hello) : (IF i \in 45..76 THEN Field(k)[i - 44] ELSE hello[i]) \in Nat
    BY <1>3, <2>1
  <2> HIDE DEF w
  <2> QED BY <1>1, <2>2
<1>5. w \in Seq(Nat) /\ Len(w) = Len(hello)
  BY <1>0, <1>4, Functional DEF ByteStrings
<1>7. w[45] = k /\ w[46] = k
  BY <1>0, <1>1, <1>3
<1> HIDE DEF w
<1>8. w \in ByteStrings /\ Len(w) = Len(hello) /\ w[45] = k /\ w[46] = k
  BY <1>5, <1>7 DEF ByteStrings
<1> QED BY <1>8 DEF w

(* The seal covers the hello with the session id zeroed: one that agrees   *)
(* with it and has the session id is the hello that was sent.              *)
LEMMA Whole ==
    ASSUME NEW hello \in ByteStrings, NEW w \in ByteStrings, NEW k \in Nat,
           ZeroSid(w) = hello, \A i \in 45..76 : w[i] = k
    PROVE  w = PatchSid(hello, Field(k))
<1>0. SESSION_ID_OFFSET = 44 /\ w \in Seq(Nat) /\ hello \in Seq(Nat)
  BY DEF ByteStrings, SESSION_ID_OFFSET
<1>1. hello = [i \in DOMAIN w |-> IF i \in 45..76 THEN 0 ELSE w[i]]
  BY <1>0 DEF ZeroSid
<1>2. DOMAIN hello = DOMAIN w /\ \A i \in DOMAIN w : i \notin 45..76 => w[i] = hello[i]
  BY <1>1
<1>3. \A i \in 45..76 : i - 44 \in 1..32
  OBVIOUS
<1>4. \A i \in 45..76 : Field(k)[i - 44] = w[i]
  <2>1. \A i \in 1..32 : Field(k)[i] = k
    BY Bytes
  <2> QED BY <1>3, <2>1
<1>5. PatchSid(hello, Field(k)) =
        [i \in DOMAIN w |-> IF i \in 45..76 THEN Field(k)[i - 44] ELSE hello[i]]
  BY <1>0, <1>2 DEF PatchSid
<1>6. PatchSid(hello, Field(k)) = [i \in DOMAIN w |-> w[i]]
  BY <1>2, <1>4, <1>5
<1>7. w = [i \in DOMAIN w |-> w[i]]
  BY <1>0
<1> QED BY <1>6, <1>7

(* A hello that a run accepts is one that some client sent, every byte of  *)
(* it, to the server's key and with an allowed short id.                   *)
Accepted(h, w, j) ==
    /\ InUse(h) /\ Key(h) = Static
    /\ PadShort(profile[h][1].short) = PadShort(AllowedShort)
    /\ w = wire_hello[h]
    /\ j.auth = Auth(h) /\ j.share = Ephemeral(h) /\ j.session_id = SidName(h)

LEMMA Judged ==
    ASSUME ClientInv, NEW w \in ByteStrings, Judge(w, ParseClientHello(w)).ok
    PROVE  \E h \in Handshakes : Accepted(h, w, Judge(w, ParseClientHello(w)))
<1> DEFINE p == ParseClientHello(w)
           auth == AuthKey(DH(Static, Named(p.ephemeral_public)), p.random)
           open == Unseal(auth, p.random, ZeroSid(w), p.session_id)
           h == CHOOSE g \in open : TRUE
           hello == HelloFor(h, profile[h][1]).wire
<1> HIDE DEF p
<1>1. /\ p.ok /\ Len(p.session_id) = 32 /\ open # {}
      /\ PadShort(profile[h][1].short) = PadShort(AllowedShort)
      /\ Judge(w, p) = [ok |-> TRUE, auth |-> auth, session_id |-> Named(p.session_id),
                        share |-> Named(p.ephemeral_public)]
  <2> HIDE DEF open, auth, h
  <2>1. Judge(w, p).ok
    BY DEF p
  <2> QED BY <2>1 DEF Judge, Err, SessionIdPlain, open, auth, h
<1>2. h \in open
  BY <1>1
<1> HIDE DEF h
<1>3. /\ h \in Handshakes /\ Started(h)
      /\ p.session_id = Field(SidName(h))
      /\ p.random = Field(HelloRandom(Ephemeral(h), Key(h)))
      /\ auth = AuthKey(DH(Ephemeral(h), Key(h)), p.random)
      /\ ZeroSid(w) = hello
  BY <1>2 DEF Unseal, Key
<1>4. /\ InUse(h) /\ Key(h) \notin {0, LowOrder} /\ hello \in Seq(Nat)
      /\ wire_hello[h] = PatchSid(hello, Field(SidName(h)))
  BY <1>3 DEF ClientInv
<1>5. Key(h) = Static /\ Named(p.ephemeral_public) = Ephemeral(h)
  BY <1>3, <1>4, AuthIsOne
<1>6. auth = Auth(h)
  BY <1>3 DEF Auth
<1>7. SidName(h) \in Nat
  BY <1>3, Numbers DEF SidName
<1>8. Named(p.session_id) = SidName(h)
  <2>1. /\ \A i \in DOMAIN Field(SidName(h)) : Field(SidName(h))[i] = SidName(h)
        /\ Field(SidName(h))[1] = SidName(h)
    BY DEF Field
  <2> QED BY <1>3, <2>1 DEF Named
<1>9. \A i \in 45..76 : w[i] = SidName(h)
  <2>1. Len(w) >= 46 + At(w, 43) /\ p.session_id = SubSeq(w, 45, 44 + At(w, 43))
    BY <1>1, Parsed DEF p
  <2>2. w \in Seq(Nat) /\ Len(w) \in Nat /\ At(w, 43) \in Nat
    BY DEF ByteStrings, At
  <2>3. At(w, 43) = 32
    <3>1. PICK n \in Nat : n = At(w, 43)
      BY <2>2
    <3>2. Len(w) >= 46 + n /\ p.session_id = SubSeq(w, 45, 44 + n)
      BY <2>1, <3>1
    <3>3. Len(SubSeq(w, 45, 44 + n)) = n
      BY <2>2, <3>2
    <3> QED BY <1>1, <3>1, <3>2, <3>3
  <2>4. \A i \in 1..32 : SubSeq(w, 45, 76)[i] = w[i + 44]
    BY <2>1, <2>2, <2>3
  <2>5. \A i \in 1..32 : w[i + 44] = SidName(h)
    <3>0. 44 + At(w, 43) = 76
      BY <2>3
    <3>1. Field(SidName(h)) = SubSeq(w, 45, 76)
      BY <1>3, <2>1, <3>0, Zenon
    <3>2. \A i \in 1..32 : Field(SidName(h))[i] = SidName(h)
      BY <1>7, Bytes
    <3> QED BY <2>4, <3>1, <3>2
  <2>6. \A i \in 45..76 : i - 44 \in 1..32 /\ (i - 44) + 44 = i
    OBVIOUS
  <2> QED BY <2>5, <2>6
<1>10. w = wire_hello[h]
  BY <1>3, <1>4, <1>7, <1>9, Whole DEF ByteStrings
<1>11. Accepted(h, w, Judge(w, p))
  BY <1>1, <1>4, <1>5, <1>6, <1>8, <1>10 DEF Accepted
<1> QED BY <1>3, <1>11 DEF p

(* ...and it was read as that client's, whole. *)
LEMMA ReadWhole ==
    ASSUME ClientInv, NEW g \in Handshakes, phase[g] = "sent",
           NEW w \in Damaged(wire_hello[g]), Judge(w, ParseClientHello(w)).ok
    PROVE  /\ Accepted(g, w, Judge(w, ParseClientHello(w)))
           /\ Read(g, w) = Some([from |-> g, whole |-> TRUE])
<1>1. \A h \in Handshakes : InUse(h) =>
         /\ wire_hello[h] \in ByteStrings /\ Len(wire_hello[h]) >= 46
         /\ wire_hello[h][45] = SidName(h) /\ wire_hello[h][46] = SidName(h)
  <2> TAKE h \in Handshakes
  <2> HAVE InUse(h)
  <2> DEFINE hello == HelloFor(h, profile[h][1]).wire
  <2>1. hello \in ByteStrings /\ Len(hello) >= 46
        /\ wire_hello[h] = PatchSid(hello, Field(SidName(h)))
    BY DEF ClientInv, ByteStrings
  <2>2. SidName(h) \in Nat
    BY Numbers DEF SidName
  <2> DEFINE k == SidName(h)
             w1 == PatchSid(hello, Field(k))
  <2> HIDE DEF hello, k
  <2>3. w1 \in ByteStrings /\ Len(w1) = Len(hello) /\ w1[45] = k /\ w1[46] = k
    BY <2>1, <2>2, Patched DEF k
  <2> HIDE DEF w1
  <2>4. wire_hello[h] = w1
    BY <2>1 DEF w1, k
  <2> QED BY <2>1, <2>3, <2>4 DEF k
<1>2. InUse(g)
  BY DEF InUse
<1>3. w \in ByteStrings /\ (Len(w) >= 46 => w[45] = wire_hello[g][45] \/ w[46] = wire_hello[g][46])
  BY <1>1, <1>2, Damage
<1>4. PICK h \in Handshakes : Accepted(h, w, Judge(w, ParseClientHello(w)))
  BY <1>3, Judged
<1>5. w = wire_hello[h] /\ InUse(h)
  BY <1>4 DEF Accepted
<1>6. SidName(h) = SidName(g)
  BY <1>1, <1>2, <1>3, <1>5
<1>7. h = g
  BY <1>6, Numbers DEF SidName
<1> QED BY <1>4, <1>5, <1>7 DEF Read

-----------------------------------------------------------------------------
(* What a step never takes back: a hello once sent, the keys of either     *)
(* end, and the counts of a session.                                       *)
Steady ==
    /\ \A h \in Handshakes : InUse(h) => InUse(h)' /\ profile'[h] = profile[h]
    /\ \A h \in Handshakes : Len(sent'[h]) \in Nat /\ Len(sent[h]) <= Len(sent'[h])
    /\ \A h \in Handshakes : record_keys[h] # None => record_keys'[h] = record_keys[h]
    /\ \A c \in Conns, h \in Handshakes : Session(c, h) =>
          /\ srv'[c].read = srv[c].read /\ srv'[c].session_id = srv[c].session_id
          /\ srv'[c].keys = srv[c].keys
          /\ srv'[c].seq_in \in Nat /\ srv'[c].seq_out = srv'[c].seq_in
          /\ srv[c].seq_in <= srv'[c].seq_in /\ srv'[c].seq_in <= Len(sent'[h])

LEMMA SessionKept ==
    ASSUME Steady, NEW c \in Conns, NEW h \in Handshakes, Session(c, h)
    PROVE  Session(c, h)' /\ Response(c, h)' = Response(c, h)
<1>1. InUse(h)' /\ profile'[h] = profile[h] /\ Key(h)' = Key(h)
  BY DEF Steady, Session, Key
<1>2. Session(c, h)'
  BY <1>1 DEF Steady, Session
<1>3. Auth(h)' = Auth(h)
  BY <1>1 DEF Auth
<1>4. Response(c, h)' = Response(c, h)
  BY <1>3 DEF Response
<1> QED BY <1>2, <1>4

LEMMA ResponsesKept ==
    ASSUME RInv, Steady, NEW r \in responses
    PROVE  \E c \in Conns, h \in Handshakes : Session(c, h)' /\ r = Response(c, h)'
<1>1. PICK c \in Conns, h \in Handshakes : Session(c, h) /\ r = Response(c, h)
  BY DEF RInv, ResponseInv
<1> QED BY <1>1, SessionKept

LEMMA RecordsKept ==
    ASSUME RInv, Steady, NEW r \in records
    PROVE  (IsClientRecord(r) \/ IsMirrorRecord(r))'
<1>1. CASE IsClientRecord(r)
  <2>0. PICK h \in Handshakes, c \in Conns : \E n \in 0..(Len(sent[h]) - 1) :
           record_keys[h] = Some(Pair(h, c)) /\ r = ClientRecord(c, h, n)
    BY <1>1 DEF IsClientRecord
  <2>1. PICK n \in 0..(Len(sent[h]) - 1) :
           record_keys[h] = Some(Pair(h, c)) /\ r = ClientRecord(c, h, n)
    BY <2>0
  <2>2. record_keys'[h] = Some(Pair(h, c))
    BY <2>1, Options DEF Steady
  <2>3. n \in 0..(Len(sent'[h]) - 1)
    BY DEF Steady, RInv, EchoInv
  <2>4. IsClientRecord(r)'
    BY <2>1, <2>2, <2>3 DEF IsClientRecord
  <2> QED BY <2>4
<1>2. CASE IsMirrorRecord(r)
  <2>1. PICK c \in Conns, h \in Handshakes : Session(c, h) /\
           \E n \in 0..(srv[c].seq_in - 1) : r = MirrorRecord(c, h, n)
    BY <1>2 DEF IsMirrorRecord
  <2>2. PICK n \in 0..(srv[c].seq_in - 1) : r = MirrorRecord(c, h, n)
    BY <2>1
  <2>3. srv[c].seq_in \in Nat /\ srv'[c].seq_in \in Nat /\ srv[c].seq_in <= srv'[c].seq_in
    BY <2>1 DEF Steady, Session
  <2>4. n \in 0..(srv'[c].seq_in - 1)
    BY <2>3
  <2>5. Session(c, h)'
    BY <2>1, SessionKept
  <2>6. IsMirrorRecord(r)'
    BY <2>2, <2>4, <2>5 DEF IsMirrorRecord
  <2> QED BY <2>6
<1> QED BY <1>1, <1>2 DEF RInv, RecordInv

(* A step that gives no client new keys keeps what is known of them. *)
LEMMA KeysKept ==
    ASSUME RInv, Steady, record_keys' = record_keys, completed' = completed
    PROVE  KeyInv'
<1> SUFFICES ASSUME NEW h \in Handshakes
             PROVE  /\ record_keys[h] # None =>
                          /\ \E d \in Conns : record_keys[h] = Some(Pair(h, d))
                          /\ \E c \in Conns : Session(c, h)'
                    /\ completed[h] => \E c \in Conns :
                          Session(c, h)' /\ record_keys[h] = Some(Pair(h, c))
  BY DEF KeyInv
<1> QED BY SessionKept DEF RInv, KeyInv

(* A step that no server run takes part in keeps theirs. *)
LEMMA ServersKept ==
    ASSUME RInv, Steady, srv' = srv
    PROVE  ServerInv'
<1>1. \A c \in Conns : srv[c].keys # None => \E h \in Handshakes : Session(c, h)'
  BY SessionKept DEF RInv, ServerInv
<1> QED BY <1>1 DEF RInv, ServerInv

-----------------------------------------------------------------------------
LEMMA InitRInv == Init => RInv
<1> SUFFICES ASSUME Init PROVE RInv
  OBVIOUS
<1>1. ClientInv
  BY DEF Init, ClientInv, Started, InUse, None
<1>2. ServerInv
  BY DEF Init, ServerInv, NewServer, None
<1>3. ResponseInv /\ RecordInv
  BY DEF Init, ResponseInv, RecordInv
<1>4. KeyInv
  BY DEF Init, KeyInv
<1>5. EchoInv
  BY DEF Init, EchoInv, Numbered
<1> QED BY <1>1, <1>2, <1>3, <1>4, <1>5 DEF RInv

(* What a successful initiate leaves. *)
LEMMA Initiated ==
    ASSUME NEW h \in Handshakes, NEW p \in Profiles[h]
    PROVE  LET r == Initiate(h, p)
               hello == HelloFor(h, r.params).wire
           IN  /\ r.ok => /\ r.params.key \in Nat /\ r.params.key \notin {0, LowOrder}
                          /\ hello \in Seq(Nat) /\ Len(hello) >= 46
                          /\ r.wire = PatchSid(hello, Field(SidName(h)))
               /\ ~r.ok => r.err \notin {"sent", "closed"}
<1> DEFINE q == IntoParams(p)
           hello == HelloFor(h, q)
           r == Initiate(h, p)
<1>1. p.sni \in Seq(Nat) /\ (p.key # None => p.key[1] \in Nat)
  BY RealityAssumption
<1>2. q.ok => q.sni \in Seq(Nat) /\ q.key \in Nat
  BY <1>1 DEF IntoParams, Err
<1>3. ~q.ok => q.err \notin {"sent", "closed"}
  BY DEF IntoParams, Err
<1> HIDE DEF q
<1>4. CASE q.ok /\ ShortIdFits(q.short) /\ q.key # 0 /\ DH(Ephemeral(h), q.key) # {} /\ hello.ok
  <2>1. r = [ok |-> TRUE, params |-> q, wire |-> PatchSid(hello.wire, Field(SidName(h)))]
    <3> HIDE DEF hello
    <3> QED BY <1>4 DEF Initiate, q, hello
  <2>2. q.key \notin {0, LowOrder}
    BY <1>4 DEF DH
  <2>3. hello.wire \in Seq(Nat) /\ Len(hello.wire) >= 46
    BY <1>2, <1>4, HelloBytes DEF ByteStrings
  <2> HIDE DEF r, hello
  <2>4. /\ r.ok /\ r.params.key \in Nat /\ r.params.key \notin {0, LowOrder}
        /\ HelloFor(h, r.params).wire \in Seq(Nat) /\ Len(HelloFor(h, r.params).wire) >= 46
        /\ r.wire = PatchSid(HelloFor(h, r.params).wire, Field(SidName(h)))
    BY <1>2, <1>4, <2>1, <2>2, <2>3 DEF hello
  <2> QED BY <2>4 DEF r
<1>5. CASE ~(q.ok /\ ShortIdFits(q.short) /\ q.key # 0 /\ DH(Ephemeral(h), q.key) # {} /\ hello.ok)
  <2>1. ~r.ok /\ r.err \notin {"sent", "closed"}
    <3> HIDE DEF hello
    <3> QED BY <1>3, <1>5 DEF Initiate, q, hello, Err
  <2> HIDE DEF r
  <2> QED BY <2>1 DEF r
<1> QED BY <1>4, <1>5

LEMMA ConnectKeeps ==
    ASSUME RInv, NEW g \in Handshakes, Connect(g)
    PROVE  RInv'
<1>1. phase[g] = "new" /\ ~InUse(g) /\ record_keys[g] = None /\ ~Started(g) /\ ~completed[g]
  BY DEF Connect, RInv, ClientInv, InUse
<1>2. UNCHANGED <<record_keys, completed, sent, got, srv, responses, records>>
  BY DEF Connect
<1>3. \A h \in Handshakes : h # g =>
         phase'[h] = phase[h] /\ profile'[h] = profile[h] /\ wire_hello'[h] = wire_hello[h]
  BY DEF Connect, RInv, ClientInv
<1>4. /\ phase' = [h \in Handshakes |-> phase'[h]]
      /\ profile' = [h \in Handshakes |-> profile'[h]]
      /\ wire_hello' = [h \in Handshakes |-> wire_hello'[h]]
  BY DEF Connect, RInv, ClientInv
<1>5. Steady
  BY <1>1, <1>2, <1>3 DEF Steady, InUse, Session, RInv, EchoInv
<1>6. ClientInv'
  <2>1. ASSUME NEW h \in Handshakes, h # g
        PROVE  /\ Started(h)' => InUse(h)'
               /\ record_keys'[h] # None => InUse(h)'
               /\ completed'[h] => record_keys'[h] # None
               /\ InUse(h)' =>
                     LET hello == HelloFor(h, profile'[h][1]).wire IN
                     /\ Key(h)' \in Nat /\ Key(h)' \notin {0, LowOrder}
                     /\ hello \in Seq(Nat) /\ Len(hello) >= 46
                     /\ wire_hello'[h] = PatchSid(hello, Field(SidName(h)))
    BY <1>2, <1>3, <2>1 DEF RInv, ClientInv, Started, InUse, Key
  <2>2. PICK p \in Profiles[g] :
           LET r == Initiate(g, p) IN
           \/ /\ r.ok
              /\ phase' = [phase EXCEPT ![g] = "sent"]
              /\ profile' = [profile EXCEPT ![g] = Some(r.params)]
              /\ wire_hello' = [wire_hello EXCEPT ![g] = r.wire]
           \/ /\ ~r.ok
              /\ phase' = [phase EXCEPT ![g] = r.err]
              /\ profile' = [profile EXCEPT ![g] = Some(p)]
              /\ UNCHANGED wire_hello
    BY DEF Connect
  <2> DEFINE r == Initiate(g, p)
             hello == HelloFor(g, r.params).wire
  <2>3. /\ r.ok => /\ r.params.key \in Nat /\ r.params.key \notin {0, LowOrder}
                   /\ hello \in Seq(Nat) /\ Len(hello) >= 46
                   /\ r.wire = PatchSid(hello, Field(SidName(g)))
        /\ ~r.ok => r.err \notin {"sent", "closed"}
    BY Initiated
  <2> HIDE DEF r
  <2>4. CASE r.ok
    <3>1. phase'[g] = "sent" /\ profile'[g] = Some(r.params) /\ wire_hello'[g] = r.wire
      BY <2>2, <2>4 DEF r, RInv, ClientInv
    <3>2. InUse(g)' /\ profile'[g][1] = r.params
      BY <3>1, Options DEF InUse
    <3>3. /\ Key(g)' \in Nat /\ Key(g)' \notin {0, LowOrder}
          /\ HelloFor(g, profile'[g][1]).wire \in Seq(Nat)
          /\ Len(HelloFor(g, profile'[g][1]).wire) >= 46
          /\ wire_hello'[g] = PatchSid(HelloFor(g, profile'[g][1]).wire, Field(SidName(g)))
      BY <2>3, <2>4, <3>1, <3>2 DEF Key
    <3> QED BY <1>1, <1>2, <1>4, <2>1, <3>2, <3>3 DEF ClientInv, RInv
  <2>5. CASE ~r.ok
    <3>1. phase'[g] = r.err /\ wire_hello'[g] = wire_hello[g]
      BY <2>2, <2>5 DEF r, RInv, ClientInv
    <3>2. ~InUse(g)' /\ ~Started(g)'
      BY <1>1, <2>3, <2>5, <3>1 DEF InUse, Started
    <3> QED BY <1>1, <1>2, <1>4, <2>1, <3>2 DEF ClientInv, RInv
  <2> QED BY <2>4, <2>5
<1>7. ServerInv' /\ KeyInv'
  BY <1>2, <1>5, ServersKept, KeysKept
<1>8. ResponseInv'
  BY <1>2, <1>5, ResponsesKept DEF ResponseInv
<1>9. RecordInv'
  BY <1>2, <1>5, RecordsKept DEF RecordInv
<1>10. EchoInv'
  BY <1>2 DEF RInv, EchoInv
<1> QED BY <1>6, <1>7, <1>8, <1>9, <1>10 DEF RInv

(* The keys a client takes from a response are those it would share with   *)
(* the run whose share it took, and some run answered its hello.           *)
LEMMA KeysTaken ==
    ASSUME RInv, NEW g \in Handshakes, phase[g] = "sent", NEW r \in Received,
           KeysFrom(g, r) # None
    PROVE  /\ \E c \in Conns : Session(c, g)
           /\ \E d \in Conns : KeysFrom(g, r) = Some(Pair(g, d)) /\
                 (Confirms(g, Pair(g, d), r) => Session(d, g))
<1>0. InUse(g) /\ Key(g) \notin {0, LowOrder}
  BY DEF RInv, ClientInv, InUse
<1>1. /\ CertVerifies(Auth(g), r.cert) /\ DH(Ephemeral(g), r.share) # {}
      /\ KeysFrom(g, r) = Some(RecordKeys(SessionIdentity(SidName(g), DH(Ephemeral(g), r.share))))
  BY DEF KeysFrom, Auth, Key
<1>2. /\ r.cert = SiteCertificate \/ \E x \in responses : r.cert = x.cert
      /\ r.share = 0 \/ \E x \in responses : r.share = x.share
      /\ \E x \in responses : r.confirm = x.confirm
  BY DEF Received
<1>3. r.cert # SiteCertificate
  <2>1. r.cert.tag[1] = "hmac"
    BY <1>1 DEF CertVerifies
  <2>2. SiteCertificate.tag[1] = "signature of the site"
    BY DEF SiteCertificate
  <2> QED BY <2>1, <2>2
<1>4. PICK c \in Conns, h \in Handshakes :
         Session(c, h) /\ r.cert = TempCertificate(Auth(h), c)
  BY <1>2, <1>3 DEF RInv, ResponseInv, Response
<1>5. Auth(h) = Auth(g)
  BY <1>1, <1>4 DEF CertVerifies, TempCertificate
<1>6. h = g
  <2>1. Key(h) = Static
    BY <1>4 DEF Session
  <2>2. DH(Ephemeral(h), Static) = DH(Static, Ephemeral(h))
    BY DEF DH
  <2>3. Ephemeral(h) = Ephemeral(g)
    BY <1>0, <1>5, <2>1, <2>2, AuthIsOne DEF Auth
  <2> QED BY <2>3, Numbers DEF Ephemeral
<1>7. r.share # 0
  BY <1>1 DEF DH
<1>8. PICK d \in Conns : r.share = ServerEph(d)
  BY <1>2, <1>7 DEF RInv, ResponseInv, Response
<1>9. KeysFrom(g, r) = Some(Pair(g, d))
  <2>1. DH(Ephemeral(g), ServerEph(d)) = DH(ServerEph(d), Ephemeral(g))
    BY DEF DH
  <2> QED BY <1>1, <1>8, <2>1 DEF Pair
<1>10. ASSUME Confirms(g, Pair(g, d), r) PROVE Session(d, g)
  <2>1. PICK x \in responses : r.confirm = x.confirm
    BY <1>2
  <2>2. PICK e \in Conns, k \in Handshakes : Session(e, k) /\ x = Response(e, k)
    BY DEF RInv, ResponseInv
  <2>3. r.confirm.key = Pair(k, e).recv
    BY <2>1, <2>2 DEF Response, Confirmation, Seal
  <2>4. Pair(k, e).recv = Pair(g, d).recv
    BY <1>10, <2>3 DEF Confirms, Opens
  <2>5. k = g /\ e = d
    BY <2>4, PairIsOne
  <2> QED BY <2>2, <2>5
<1> QED BY <1>4, <1>6, <1>9, <1>10

LEMMA CompleteKeeps ==
    ASSUME RInv, NEW g \in Handshakes, Complete(g)
    PROVE  RInv'
<1>1. PICK r \in Received :
         /\ KeysFrom(g, r) # None /\ record_keys[g] = None
         /\ record_keys' = [record_keys EXCEPT ![g] = KeysFrom(g, r)]
         /\ completed' = [completed EXCEPT ![g] = Confirms(g, KeysFrom(g, r)[1], r)]
  BY DEF Complete
<1>2. /\ phase[g] = "sent"
      /\ UNCHANGED <<phase, profile, wire_hello, sent, got, srv, responses, records>>
  BY DEF Complete
<1>3. Steady
  BY <1>1, <1>2, SMTT(60) DEF Steady, InUse, Session, RInv, EchoInv, ClientInv
<1>4. (\E c \in Conns : Session(c, g)) /\
      \E d \in Conns : KeysFrom(g, r) = Some(Pair(g, d)) /\
                       (Confirms(g, Pair(g, d), r) => Session(d, g))
  BY <1>1, <1>2, KeysTaken
<1>5. PICK d \in Conns : KeysFrom(g, r) = Some(Pair(g, d)) /\
                       (Confirms(g, Pair(g, d), r) => Session(d, g))
  BY <1>4
<1>6. /\ record_keys'[g] = Some(Pair(g, d)) /\ completed'[g] = Confirms(g, Pair(g, d), r)
      /\ \A h \in Handshakes : h # g =>
            record_keys'[h] = record_keys[h] /\ completed'[h] = completed[h]
  BY <1>1, <1>5, Options DEF RInv, ClientInv
<1>7. ClientInv'
  <2>1. completed' \in [Handshakes -> BOOLEAN]
    BY <1>1 DEF RInv, ClientInv, Confirms, Opens
  <2>2. record_keys' = [h \in Handshakes |-> record_keys'[h]]
    BY <1>1 DEF RInv, ClientInv
  <2>3. \A h \in Handshakes : record_keys'[h] # None => InUse(h)
    BY <1>2, <1>6 DEF RInv, ClientInv, InUse
  <2>4. \A h \in Handshakes : completed'[h] => record_keys'[h] # None
    BY <1>6, Options DEF RInv, ClientInv
  <2>5. \A h \in Handshakes : InUse(h)' = InUse(h) /\ Started(h)' = Started(h) /\ Key(h)' = Key(h)
    BY <1>2 DEF InUse, Started, Key
  <2> QED BY <1>2, <2>1, <2>2, <2>3, <2>4, <2>5 DEF RInv, ClientInv
<1>8. KeyInv'
  <2> SUFFICES ASSUME NEW h \in Handshakes
               PROVE  /\ record_keys'[h] # None =>
                            /\ \E e \in Conns : record_keys'[h] = Some(Pair(h, e))
                            /\ \E c \in Conns : Session(c, h)'
                      /\ completed'[h] => \E c \in Conns :
                            Session(c, h)' /\ record_keys'[h] = Some(Pair(h, c))
    BY DEF KeyInv
  <2>1. CASE h = g
    BY <1>3, <1>4, <1>5, <1>6, <2>1, SessionKept
  <2>2. CASE h # g
    BY <1>3, <1>6, <2>2, SessionKept DEF RInv, KeyInv
  <2> QED BY <2>1, <2>2
<1>9. ServerInv'
  BY <1>2, <1>3, ServersKept
<1>10. ResponseInv'
  BY <1>2, <1>3, ResponsesKept DEF ResponseInv
<1>11. RecordInv'
  BY <1>2, <1>3, RecordsKept DEF RecordInv
<1>12. EchoInv'
  BY <1>2 DEF RInv, EchoInv
<1> QED BY <1>7, <1>8, <1>9, <1>10, <1>11, <1>12 DEF RInv

LEMMA NumberedNext ==
    ASSUME NEW h \in Handshakes, NEW s \in Seq(Handshakes \X Nat), Numbered(s, h)
    PROVE  Numbered(Append(s, <<h, Len(s)>>), h)
<1> DEFINE t == Append(s, <<h, Len(s)>>)
<1>1. /\ Len(s) \in Nat /\ Len(t) = Len(s) + 1
      /\ \A i \in 1..Len(s) : t[i] = s[i]
      /\ t[Len(s) + 1] = <<h, Len(s)>>
  OBVIOUS
<1> HIDE DEF t
<1>2. ASSUME NEW i \in 1..Len(t) PROVE t[i] = <<h, i - 1>>
  <2>1. CASE i \in 1..Len(s)
    BY <1>1, <2>1 DEF Numbered
  <2>2. CASE i = Len(s) + 1
    BY <1>1, <2>2
  <2> QED BY <1>1, <2>1, <2>2
<1> QED BY <1>2 DEF Numbered, t

LEMMA SealRecordKeeps ==
    ASSUME RInv, NEW g \in Handshakes, SealRecord(g)
    PROVE  RInv'
<1>0. PICK n : n = Len(sent[g])
  OBVIOUS
<1>1. /\ phase[g] = "sent" /\ completed[g]
      /\ sent' = [sent EXCEPT ![g] = Append(@, <<g, n>>)]
      /\ records' = records \cup
            {Seal(record_keys[g][1].send,
                  DeriveNonce(SidName(g), n, "client", "data"), <<g, n>>, 0)}
      /\ UNCHANGED <<phase, profile, wire_hello, record_keys, completed, got, srv, responses>>
  BY <1>0 DEF SealRecord, client
<1>2. /\ sent[g] \in Seq(Handshakes \X Nat) /\ n \in Nat
      /\ sent'[g] = Append(sent[g], <<g, n>>)
      /\ \A h \in Handshakes : h # g => sent'[h] = sent[h]
  BY <1>0, <1>1 DEF RInv, EchoInv
<1>3. /\ sent'[g] \in Seq(Handshakes \X Nat) /\ Len(sent'[g]) = n + 1
  BY <1>0, <1>2
<1>4. \A h \in Handshakes :
         Len(sent[h]) \in Nat /\ Len(sent'[h]) \in Nat /\ Len(sent[h]) <= Len(sent'[h])
  <2>1. \A h \in Handshakes : Len(sent[h]) \in Nat
    BY DEF RInv, EchoInv
  <2>2. Len(sent'[g]) \in Nat /\ Len(sent[g]) <= Len(sent'[g])
    BY <1>0, <1>2, <1>3
  <2> QED BY <1>2, <2>1, <2>2
<1>5. Steady
  BY <1>1, <1>4 DEF Steady, InUse, Session
<1>6. ClientInv'
  BY <1>1 DEF RInv, ClientInv, InUse, Started, Key
<1>7. ServerInv' /\ KeyInv'
  BY <1>1, <1>5, ServersKept, KeysKept
<1>8. ResponseInv'
  BY <1>1, <1>5, ResponsesKept DEF ResponseInv
<1>9. RecordInv'
  <2>1. PICK c \in Conns : record_keys[g] = Some(Pair(g, c))
    BY <1>1 DEF RInv, KeyInv, ClientInv
  <2> DEFINE new == ClientRecord(c, g, n)
  <2>2. records' = records \cup {new}
    BY <1>1, <2>1, Options DEF ClientRecord
  <2>3. n \in 0..(Len(sent'[g]) - 1) /\ record_keys'[g] = Some(Pair(g, c))
    BY <1>1, <1>2, <1>3, <2>1
  <2>4. IsClientRecord(new)'
    BY <2>3 DEF IsClientRecord
  <2> HIDE DEF new
  <2> QED BY <1>5, <2>2, <2>4, RecordsKept DEF RecordInv
<1>10. EchoInv'
  <2>1. sent' \in [Handshakes -> Seq(Handshakes \X Nat)]
    BY <1>1, <1>2, <1>3 DEF RInv, EchoInv
  <2>2. Numbered(sent'[g], g)
    BY <1>0, <1>2, NumberedNext DEF RInv, EchoInv
  <2>3. \A h \in Handshakes : Numbered(sent'[h], h)
    BY <1>2, <2>2 DEF RInv, EchoInv
  <2>4. \A h \in Handshakes : Len(got[h]) \in Nat /\ Len(got[h]) <= Len(sent'[h])
    BY <1>4 DEF RInv, EchoInv
  <2> QED BY <1>1, <2>1, <2>3, <2>4 DEF RInv, EchoInv
<1> QED BY <1>6, <1>7, <1>8, <1>9, <1>10 DEF RInv

(* What a client opens is the payload its run mirrored under that number. *)
LEMMA OpenedIsMirrored ==
    ASSUME RInv, NEW g \in Handshakes, completed[g], NEW r \in records,
           Opens(r, record_keys[g][1].recv, DeriveNonce(SidName(g), Len(got[g]), "server", "data"))
    PROVE  r.msg = <<g, Len(got[g])>> /\ Len(got[g]) < Len(sent[g])
<1>1. PICK c \in Conns : Session(c, g) /\ record_keys[g] = Some(Pair(g, c))
  BY DEF RInv, KeyInv
<1>2. r.key = Pair(g, c).recv /\ r.nonce = DeriveNonce(SidName(g), Len(got[g]), "server", "data")
  BY <1>1, Options DEF Opens
<1>3. ~IsClientRecord(r)
  <2> SUFFICES ASSUME NEW h \in Handshakes, NEW d \in Conns, NEW n, r = ClientRecord(d, h, n)
               PROVE  FALSE
    BY DEF IsClientRecord
  <2>1. r.nonce = DeriveNonce(SidName(h), n, "client", "data")
    BY DEF ClientRecord, Seal
  <2> QED BY <1>2, <2>1, NonceIsOne
<1>4. PICK d \in Conns, h \in Handshakes : Session(d, h) /\
         \E n \in 0..(srv[d].seq_in - 1) : r = MirrorRecord(d, h, n)
  BY <1>3 DEF RInv, RecordInv, IsMirrorRecord
<1>5. PICK n \in 0..(srv[d].seq_in - 1) : r = MirrorRecord(d, h, n)
  BY <1>4
<1>6. r.key = Pair(h, d).recv /\ r.nonce = DeriveNonce(SidName(h), n, "server", "data")
      /\ r.msg = <<h, n>>
  BY <1>5 DEF MirrorRecord, Seal
<1>7. h = g /\ d = c
  <2>1. Pair(h, d).recv = Pair(g, c).recv
    BY <1>2, <1>6
  <2> QED BY <2>1, PairIsOne
<1>8. n = Len(got[g])
  BY <1>2, <1>6, NonceIsOne
<1>9. srv[d].seq_in \in Nat /\ srv[d].seq_in <= Len(sent[g]) /\ Len(sent[g]) \in Nat
  BY <1>4, <1>7 DEF Session, RInv, EchoInv
<1> QED BY <1>6, <1>7, <1>8, <1>9

LEMMA OpenRecordKeeps ==
    ASSUME RInv, NEW g \in Handshakes, OpenRecord(g)
    PROVE  RInv'
<1> DEFINE nonce == DeriveNonce(SidName(g), Len(got[g]), "server", "data")
<1>1. /\ phase[g] = "sent" /\ completed[g]
      /\ UNCHANGED <<profile, wire_hello, record_keys, completed, sent, srv, responses, records>>
  BY DEF OpenRecord
<1>2. PICK r \in records :
         \/ /\ Opens(r, record_keys[g][1].recv, nonce)
            /\ got' = [got EXCEPT ![g] = Append(@, r.msg)]
            /\ UNCHANGED phase
         \/ /\ ~Opens(r, record_keys[g][1].recv, nonce)
            /\ phase' = [phase EXCEPT ![g] = "closed"]
            /\ UNCHANGED got
  BY DEF OpenRecord
<1>3. /\ phase' = [h \in Handshakes |-> phase'[h]]
      /\ \A h \in Handshakes : InUse(h)' = InUse(h)
  BY <1>1, <1>2 DEF RInv, ClientInv, InUse
<1>4. Steady
  BY <1>1, <1>3 DEF Steady, Session, RInv, EchoInv
<1>5. ClientInv'
  BY <1>1, <1>3 DEF RInv, ClientInv, Started, Key
<1>6. ServerInv' /\ KeyInv'
  BY <1>1, <1>4, ServersKept, KeysKept
<1>7. ResponseInv'
  BY <1>1, <1>4, ResponsesKept DEF ResponseInv
<1>8. RecordInv'
  BY <1>1, <1>4, RecordsKept DEF RecordInv
<1>9. EchoInv'
  <2>1. CASE Opens(r, record_keys[g][1].recv, nonce)
    <3> DEFINE n == Len(got[g])
    <3>1. r.msg = <<g, n>> /\ n < Len(sent[g])
      BY <1>1, <2>1, OpenedIsMirrored
    <3>2. /\ got[g] \in Seq(Handshakes \X Nat) /\ n \in Nat
          /\ got'[g] = Append(got[g], <<g, n>>)
          /\ \A h \in Handshakes : h # g => got'[h] = got[h]
      BY <1>2, <2>1, <3>1, SMTT(60) DEF RInv, EchoInv
    <3>3. /\ got'[g] \in Seq(Handshakes \X Nat) /\ Len(got'[g]) = n + 1
      BY <3>2
    <3>4. got' \in [Handshakes -> Seq(Handshakes \X Nat)]
      BY <1>2, <2>1, <3>1, <3>2, <3>3 DEF RInv, EchoInv
    <3>5. Numbered(got'[g], g)
      BY <3>2, NumberedNext DEF RInv, EchoInv
    <3>6. \A h \in Handshakes : Numbered(got'[h], h)
      BY <3>2, <3>5 DEF RInv, EchoInv
    <3>7. Len(sent[g]) \in Nat /\ Len(got'[g]) <= Len(sent[g])
      BY <3>1, <3>2, <3>3 DEF RInv, EchoInv
    <3>8. \A h \in Handshakes : Len(got'[h]) <= Len(sent[h])
      BY <3>2, <3>7 DEF RInv, EchoInv
    <3> QED BY <1>1, <3>4, <3>6, <3>8 DEF RInv, EchoInv
  <2>2. CASE ~Opens(r, record_keys[g][1].recv, nonce)
    BY <1>1, <1>2, <2>2 DEF RInv, EchoInv
  <2> QED BY <2>1, <2>2
<1> QED BY <1>5, <1>6, <1>7, <1>8, <1>9 DEF RInv

LEMMA ServerHelloKeeps ==
    ASSUME RInv, NEW c \in Conns, ServerHello(c)
    PROVE  RInv'
<1>1. /\ srv[c].state = "accept"
      /\ UNCHANGED <<phase, profile, wire_hello, record_keys, completed, sent, got, records>>
  BY DEF ServerHello, client
<1>2. PICK g \in Handshakes : phase[g] = "sent" /\ \E w \in Damaged(wire_hello[g]) :
         Answer(c, Read(g, w), Judge(w, ParseClientHello(w)))
  BY DEF ServerHello
<1>3. PICK w \in Damaged(wire_hello[g]) : Answer(c, Read(g, w), Judge(w, ParseClientHello(w)))
  BY <1>2
<1>4. PICK j : j = Judge(w, ParseClientHello(w))
  OBVIOUS
<1>5. PICK read : read = Read(g, w)
  OBVIOUS
<1>6. PICK keys : keys = RecordKeys(SessionIdentity(j.session_id, DH(ServerEph(c), j.share)))
  OBVIOUS
<1>7. srv[c] = NewServer /\ ~\E h \in Handshakes : Session(c, h)
  <2>1. srv[c] = NewServer
    BY <1>1 DEF RInv, ServerInv
  <2>2. srv[c].keys = None
    BY <2>1 DEF NewServer
  <2> QED BY <2>1, <2>2, Options DEF Session
<1>8. \/ /\ j.ok
         /\ srv' = [srv EXCEPT ![c] = [@ EXCEPT !.state = "serving", !.read = read,
                       !.session_id = j.session_id, !.keys = Some(keys)]]
         /\ responses' = responses \cup
                {[cert |-> TempCertificate(j.auth, c), share |-> ServerEph(c),
                  confirm |-> Confirmation(c, keys, j.session_id)]}
      \/ /\ ~j.ok
         /\ srv' = [srv EXCEPT ![c] = [@ EXCEPT !.state = "failed", !.read = read,
                                                !.err = Some(j.err)]]
         /\ UNCHANGED responses
  BY <1>3, <1>4, <1>5, <1>6 DEF Answer
<1>9. \A d \in Conns : d # c => srv'[d] = srv[d]
  BY <1>8 DEF RInv, ServerInv
<1>10. Steady
  <2>1. ASSUME NEW d \in Conns, NEW h \in Handshakes, Session(d, h)
        PROVE  srv'[d] = srv[d] /\ srv[d].seq_in \in Nat /\ srv[d].seq_out = srv[d].seq_in
               /\ srv[d].seq_in <= Len(sent[h])
    BY <1>7, <1>9, <2>1 DEF Session
  <2>2. \A h \in Handshakes : Len(sent[h]) \in Nat
    BY DEF RInv, EchoInv
  <2>3. \A h \in Handshakes : InUse(h)' = InUse(h)
    BY <1>1 DEF InUse
  <2> QED BY <1>1, <2>1, <2>2, <2>3 DEF Steady
<1>11. ClientInv'
  BY <1>1 DEF RInv, ClientInv, InUse, Started, Key
<1>12. KeyInv'
  BY <1>1, <1>10, KeysKept
<1>13. RecordInv'
  BY <1>1, <1>10, RecordsKept DEF RecordInv
<1>14. EchoInv'
  BY <1>1 DEF RInv, EchoInv
<1>15. srv' = [d \in Conns |-> [state |-> srv'[d].state, err |-> srv'[d].err, read |-> srv'[d].read,
                               session_id |-> srv'[d].session_id, keys |-> srv'[d].keys,
                               seq_in |-> srv'[d].seq_in, seq_out |-> srv'[d].seq_out]]
  BY <1>8, ZenonT(60) DEF RInv, ServerInv
<1>16. \A d \in Conns : d # c =>
          /\ srv'[d].state = "accept" => srv'[d] = NewServer
          /\ srv'[d].state = "serving" => srv'[d].keys # None
          /\ srv'[d].keys # None => \E h \in Handshakes : Session(d, h)'
  BY <1>9, <1>10, SessionKept DEF RInv, ServerInv
<1>17. CASE j.ok
  <2>1. Accepted(g, w, j) /\ read = Some([from |-> g, whole |-> TRUE])
    BY <1>2, <1>4, <1>5, <1>17, ReadWhole DEF RInv
  <2>2. keys = Pair(g, c)
    BY <1>6, <2>1 DEF Accepted, Pair
  <2>3. /\ srv'[c].state = "serving" /\ srv'[c].read = Some([from |-> g, whole |-> TRUE])
        /\ srv'[c].session_id = SidName(g) /\ srv'[c].keys = Some(Pair(g, c))
        /\ srv'[c].seq_in = 0 /\ srv'[c].seq_out = 0
    <3>1. srv'[c] = [NewServer EXCEPT !.state = "serving", !.read = read,
                         !.session_id = j.session_id, !.keys = Some(keys)]
      BY <1>7, <1>8, <1>17 DEF RInv, ServerInv
    <3> QED BY <2>1, <2>2, <3>1 DEF NewServer, Accepted
  <2>4. InUse(g)' /\ Key(g)' = Static /\ PadShort(profile'[g][1].short) = PadShort(AllowedShort)
        /\ Auth(g)' = Auth(g)
    BY <1>1, <2>1 DEF Accepted, InUse, Key, Auth
  <2>5. Len(sent'[g]) \in Nat
    BY <1>1 DEF RInv, EchoInv
  <2>6. Session(c, g)'
    BY <2>3, <2>4, <2>5 DEF Session
  <2>7. ServerInv'
    BY <1>15, <1>16, <2>3, <2>6, Options DEF ServerInv
  <2>8. responses' = responses \cup {Response(c, g)}
    BY <1>8, <1>17, <2>1, <2>2 DEF Accepted, Response
  <2>9. Response(c, g)' = Response(c, g)
    BY <2>4 DEF Response
  <2>10. ResponseInv'
    BY <1>10, <2>6, <2>8, <2>9, ResponsesKept DEF ResponseInv
  <2> QED BY <1>11, <1>12, <1>13, <1>14, <2>7, <2>10 DEF RInv
<1>18. CASE ~j.ok
  <2>1. srv'[c].state = "failed" /\ srv'[c].keys = None
    BY <1>7, <1>8, <1>18 DEF RInv, ServerInv, NewServer
  <2>2. ServerInv'
    BY <1>15, <1>16, <2>1 DEF ServerInv
  <2>3. ResponseInv'
    BY <1>8, <1>10, <1>18, ResponsesKept DEF ResponseInv
  <2> QED BY <1>11, <1>12, <1>13, <1>14, <2>2, <2>3 DEF RInv
<1> QED BY <1>17, <1>18

LEMMA ServerRecordKeeps ==
    ASSUME RInv, NEW c \in Conns, ServerRecord(c)
    PROVE  RInv'
<1>0. PICK s : s = srv[c]
  OBVIOUS
<1> DEFINE opens(r) ==
              Opens(r, s.keys[1].send, DeriveNonce(s.session_id, s.seq_in, "client", "data"))
<1>1. /\ s.state = "serving"
      /\ UNCHANGED <<phase, profile, wire_hello, record_keys, completed, sent, got, responses>>
  BY <1>0 DEF ServerRecord, client
<1>2. PICK r \in records :
         \/ /\ opens(r)
            /\ srv' = [srv EXCEPT ![c].seq_in = @ + 1, ![c].seq_out = @ + 1]
            /\ records' = records \cup
                   {Seal(s.keys[1].recv,
                         DeriveNonce(s.session_id, s.seq_out, "server", "data"), r.msg, c)}
         \/ /\ ~opens(r)
            /\ srv' = [srv EXCEPT ![c] = [@ EXCEPT !.state = "failed",
                                                   !.err = Some("record failed to open")]]
            /\ UNCHANGED records
  BY <1>0 DEF ServerRecord
<1>3. PICK g \in Handshakes : Session(c, g)
  BY <1>0, <1>1 DEF RInv, ServerInv
<1>4. /\ s.keys = Some(Pair(g, c)) /\ s.session_id = SidName(g)
      /\ s.seq_in \in Nat /\ s.seq_out = s.seq_in /\ s.seq_in <= Len(sent[g])
      /\ Len(sent[g]) \in Nat
  BY <1>0, <1>3 DEF Session, RInv, EchoInv
<1>5. opens(r) => r.msg = <<g, s.seq_in>> /\ s.seq_in < Len(sent[g])
  <2> SUFFICES ASSUME opens(r) PROVE r.msg = <<g, s.seq_in>> /\ s.seq_in < Len(sent[g])
    OBVIOUS
  <2>1. r.key = Pair(g, c).send /\ r.nonce = DeriveNonce(SidName(g), s.seq_in, "client", "data")
    BY <1>4, Options DEF Opens
  <2>2. ~IsMirrorRecord(r)
    <3> SUFFICES ASSUME NEW h \in Handshakes, NEW d \in Conns, NEW n, r = MirrorRecord(d, h, n)
                 PROVE  FALSE
      BY DEF IsMirrorRecord
    <3>1. r.nonce = DeriveNonce(SidName(h), n, "server", "data")
      BY DEF MirrorRecord, Seal
    <3> QED BY <2>1, <3>1, NonceIsOne
  <2>3. PICK h \in Handshakes, d \in Conns :
           \E n \in 0..(Len(sent[h]) - 1) : r = ClientRecord(d, h, n)
    BY <2>2 DEF RInv, RecordInv, IsClientRecord
  <2>4. PICK n \in 0..(Len(sent[h]) - 1) : r = ClientRecord(d, h, n)
    BY <2>3
  <2>5. r.key = Pair(h, d).send /\ r.nonce = DeriveNonce(SidName(h), n, "client", "data")
        /\ r.msg = <<h, n>>
    BY <2>4 DEF ClientRecord, Seal
  <2>6. h = g
    <3>1. Pair(h, d).send = Pair(g, c).send
      BY <2>1, <2>5
    <3> QED BY <3>1, PairIsOne
  <2>7. n = s.seq_in
    BY <2>1, <2>5, NonceIsOne
  <2> QED BY <1>4, <2>4, <2>5, <2>6, <2>7
<1>6. \A d \in Conns : d # c => srv'[d] = srv[d]
  BY <1>2 DEF RInv, ServerInv
<1>7. /\ srv'[c].read = s.read /\ srv'[c].session_id = s.session_id /\ srv'[c].keys = s.keys
      /\ srv'[c].state \in {"serving", "failed"}
      /\ opens(r) => srv'[c].seq_in = s.seq_in + 1 /\ srv'[c].seq_out = s.seq_out + 1
      /\ ~opens(r) => srv'[c].seq_in = s.seq_in /\ srv'[c].seq_out = s.seq_out
  <2> HIDE DEF opens
  <2>0. s = [state |-> s.state, err |-> s.err, read |-> s.read, session_id |-> s.session_id,
             keys |-> s.keys, seq_in |-> s.seq_in, seq_out |-> s.seq_out]
        /\ c \in DOMAIN srv
    BY <1>0 DEF RInv, ServerInv
  <2>1. CASE opens(r)
    <3>1. srv'[c] = [s EXCEPT !.seq_in = @ + 1, !.seq_out = @ + 1]
      BY <1>0, <1>2, <2>0, <2>1
    <3> QED BY <1>1, <2>0, <2>1, <3>1
  <2>2. CASE ~opens(r)
    <3>1. srv'[c] = [s EXCEPT !.state = "failed", !.err = Some("record failed to open")]
      BY <1>0, <1>2, <2>0, <2>2
    <3> QED BY <1>1, <2>0, <2>2, <3>1
  <2> QED BY <2>1, <2>2
<1> HIDE DEF opens
<1>8. Steady
  <2>1. /\ srv'[c].seq_in \in Nat /\ srv'[c].seq_out = srv'[c].seq_in
        /\ s.seq_in <= srv'[c].seq_in /\ srv'[c].seq_in <= Len(sent[g])
    BY <1>4, <1>5, <1>7
  <2>2. \A h \in Handshakes : Session(c, h) => h = g
    BY <1>0, <1>4, Names DEF Session
  <2>3. ASSUME NEW d \in Conns, NEW h \in Handshakes, Session(d, h)
        PROVE  /\ srv'[d].read = srv[d].read /\ srv'[d].session_id = srv[d].session_id
               /\ srv'[d].keys = srv[d].keys
               /\ srv'[d].seq_in \in Nat /\ srv'[d].seq_out = srv'[d].seq_in
               /\ srv[d].seq_in <= srv'[d].seq_in /\ srv'[d].seq_in <= Len(sent[h])
    <3>1. CASE d = c
      BY <1>0, <1>7, <2>1, <2>2, <2>3, <3>1
    <3>2. CASE d # c
      BY <1>6, <2>3, <3>2 DEF Session
    <3> QED BY <3>1, <3>2
  <2>4. \A h \in Handshakes : Len(sent[h]) \in Nat
    BY DEF RInv, EchoInv
  <2>5. \A h \in Handshakes : InUse(h)' = InUse(h)
    BY <1>1 DEF InUse
  <2> QED BY <1>1, <2>3, <2>4, <2>5 DEF Steady
<1>9. ClientInv'
  BY <1>1 DEF RInv, ClientInv, InUse, Started, Key
<1>10. KeyInv'
  BY <1>1, <1>8, KeysKept
<1>11. EchoInv'
  BY <1>1 DEF RInv, EchoInv
<1>12. ResponseInv'
  BY <1>1, <1>8, ResponsesKept DEF ResponseInv
<1>13. ServerInv'
  <2>1. srv' = [d \in Conns |-> [state |-> srv'[d].state, err |-> srv'[d].err, read |-> srv'[d].read,
                               session_id |-> srv'[d].session_id, keys |-> srv'[d].keys,
                               seq_in |-> srv'[d].seq_in, seq_out |-> srv'[d].seq_out]]
    BY <1>2, ZenonT(60) DEF RInv, ServerInv
  <2>2. \A d \in Conns : srv'[d].keys # None => \E h \in Handshakes : Session(d, h)'
    <3>1. \A d \in Conns : srv'[d].keys = srv[d].keys
      BY <1>0, <1>6, <1>7
    <3> QED BY <1>8, <3>1, SessionKept DEF RInv, ServerInv
  <2>3. \A d \in Conns : /\ srv'[d].state = "accept" => srv'[d] = NewServer
                         /\ srv'[d].state = "serving" => srv'[d].keys # None
    BY <1>4, <1>6, <1>7, Options, ZenonT(60) DEF RInv, ServerInv
  <2> QED BY <2>1, <2>2, <2>3 DEF ServerInv
<1>14. RecordInv'
  <2>1. CASE opens(r)
    <3>1. PICK n : n = s.seq_in
      OBVIOUS
    <3>2. records' = records \cup {MirrorRecord(c, g, n)}
      BY <1>2, <1>4, <1>5, <2>1, <3>1, Options DEF MirrorRecord
    <3>3. Session(c, g)' /\ n \in 0..(srv'[c].seq_in - 1)
      BY <1>3, <1>4, <1>7, <1>8, <2>1, <3>1, SessionKept
    <3>4. IsMirrorRecord(MirrorRecord(c, g, n))'
      BY <3>3 DEF IsMirrorRecord
    <3> QED BY <1>8, <3>2, <3>4, RecordsKept DEF RecordInv
  <2>2. CASE ~opens(r)
    BY <1>2, <1>8, <2>2, RecordsKept DEF RecordInv
  <2> QED BY <2>1, <2>2
<1> QED BY <1>9, <1>10, <1>11, <1>12, <1>13, <1>14 DEF RInv

LEMMA NextRInv == RInv /\ [Next]_vars => RInv'
<1> SUFFICES ASSUME RInv, [Next]_vars PROVE RInv'
  OBVIOUS
<1>1. ASSUME NEW h \in Handshakes, Connect(h) \/ Complete(h) \/ SealRecord(h) \/ OpenRecord(h)
      PROVE  RInv'
  BY <1>1, ConnectKeeps, CompleteKeeps, SealRecordKeeps, OpenRecordKeeps
<1>2. ASSUME NEW c \in Conns, ServerHello(c) \/ ServerRecord(c) PROVE RInv'
  BY <1>2, ServerHelloKeeps, ServerRecordKeeps
<1>3. CASE UNCHANGED vars
  <2>1. UNCHANGED <<phase, profile, wire_hello, record_keys, completed, sent, got, srv,
                    responses, records>>
    BY <1>3 DEF vars, client
  <2>2. Steady
    BY <2>1 DEF Steady, InUse, Session, RInv, EchoInv
  <2>3. ClientInv'
    BY <2>1 DEF RInv, ClientInv, InUse, Started, Key
  <2>4. ServerInv' /\ KeyInv'
    BY <2>1, <2>2, ServersKept, KeysKept
  <2>5. ResponseInv' /\ RecordInv'
    BY <2>1, <2>2, ResponsesKept, RecordsKept DEF ResponseInv, RecordInv
  <2>6. EchoInv'
    BY <2>1 DEF RInv, EchoInv
  <2> QED BY <2>3, <2>4, <2>5, <2>6 DEF RInv
<1> QED BY <1>1, <1>2, <1>3 DEF Next

LEMMA AlwaysRInv == Spec => []RInv
BY InitRInv, NextRInv, PTL DEF Spec

-----------------------------------------------------------------------------
(* Whatever the network does to hellos and however often it replays them,  *)
(* a server run (test_server.rs) gets keys only from a hello that arrived  *)
(* byte for byte as a client of its key and an allowed short id sent it.   *)
THEOREM AuthenticCorrect == Spec => []OnlyAuthenticHello
<1>1. RInv => OnlyAuthenticHello
  BY DEF RInv, ServerInv, OnlyAuthenticHello, Session, Key
<1> QED BY <1>1, AlwaysRInv, PTL

(* A completed handshake (handshake.rs) shares its keys with exactly one   *)
(* run, the one that answered it, and with no other client, for any number *)
(* of both and any mix of responses.                                       *)
THEOREM AgreementCorrect == Spec => []Agreement
<1>1. ASSUME RInv PROVE Agreement
  <2>1. \A h \in Handshakes : record_keys[h] # None =>
           /\ \E d \in Conns : record_keys[h] = Some(Pair(h, d))
           /\ \E c \in Conns : srv[c].session_id = SidName(h)
    BY <1>1 DEF RInv, KeyInv, Session
  <2>2. \A c \in Conns : srv[c].keys # None =>
           \E h \in Handshakes : srv[c].keys = Some(Pair(h, c))
    BY <1>1 DEF RInv, ServerInv, Session
  <2>3. ASSUME NEW h \in Handshakes, completed[h]
        PROVE  Cardinality({c \in Conns : /\ srv[c].keys = record_keys[h]
                                          /\ srv[c].session_id = SidName(h)}) = 1
    <3>1. PICK c \in Conns : Session(c, h) /\ record_keys[h] = Some(Pair(h, c))
      BY <1>1, <2>3 DEF RInv, KeyInv
    <3>2. srv[c].keys = record_keys[h] /\ srv[c].session_id = SidName(h)
      BY <3>1 DEF Session
    <3>3. ASSUME NEW d \in Conns, srv[d].keys = record_keys[h] PROVE d = c
      <4>1. PICK g \in Handshakes : srv[d].keys = Some(Pair(g, d))
        BY <2>2, <3>1, <3>3, Options
      <4>2. Pair(g, d) = Pair(h, c)
        BY <3>1, <3>3, <4>1, Options
      <4> QED BY <4>2, PairIsOne
    <3>4. {d \in Conns : srv[d].keys = record_keys[h] /\ srv[d].session_id = SidName(h)} = {c}
      BY <3>2, <3>3
    <3> QED BY <3>4, FS_Singleton
  <2>4. ASSUME NEW h \in Handshakes, NEW g \in Handshakes, h # g, record_keys[h] # None
        PROVE  record_keys[h] # record_keys[g]
    <3> SUFFICES ASSUME record_keys[h] = record_keys[g] PROVE FALSE
      OBVIOUS
    <3>1. PICK c \in Conns : record_keys[h] = Some(Pair(h, c))
      BY <2>1, <2>4
    <3>2. PICK d \in Conns : record_keys[g] = Some(Pair(g, d))
      BY <2>1, <2>4
    <3>3. Pair(h, c) = Pair(g, d)
      BY <3>1, <3>2, Options
    <3> QED BY <2>4, <3>3, PairIsOne
  <2>5. ASSUME NEW c \in Conns, NEW d \in Conns, c # d, srv[c].keys # None
        PROVE  srv[c].keys # srv[d].keys
    <3> SUFFICES ASSUME srv[c].keys = srv[d].keys PROVE FALSE
      OBVIOUS
    <3>1. PICK h \in Handshakes : srv[c].keys = Some(Pair(h, c))
      BY <2>2, <2>5
    <3>2. PICK g \in Handshakes : srv[d].keys = Some(Pair(g, d))
      BY <2>2, <2>5
    <3>3. Pair(h, c) = Pair(g, d)
      BY <3>1, <3>2, Options
    <3> QED BY <2>5, <3>3, PairIsOne
  <2> QED BY <2>1, <2>3, <2>4, <2>5 DEF Agreement
<1> QED BY <1>1, AlwaysRInv, PTL

(* Over both directions, the confirmation and replayed hellos, no key and  *)
(* nonce of derive_nonce (reality.rs) seal two different messages.         *)
THEOREM NonceCorrect == Spec => []NonceOnce
<1> DEFINE All == records \cup {r.confirm : r \in responses}
           ByClient(a) == \E h \in Handshakes, c \in Conns, n \in Nat : a = ClientRecord(c, h, n)
           ByServer(a) == \E h \in Handshakes, c \in Conns, n \in Nat : a = MirrorRecord(c, h, n)
           AsProof(a)  == \E h \in Handshakes, c \in Conns :
                             a = Confirmation(c, Pair(h, c), SidName(h))
<1>1. ASSUME RInv, NEW a \in All PROVE ByClient(a) \/ ByServer(a) \/ AsProof(a)
  <2>1. CASE a \in records
    <3>1. CASE IsClientRecord(a)
      BY <1>1, <3>1 DEF IsClientRecord, RInv, EchoInv
    <3>2. CASE IsMirrorRecord(a)
      BY <1>1, <3>2 DEF IsMirrorRecord, Session
    <3> QED BY <1>1, <2>1, <3>1, <3>2 DEF RInv, RecordInv
  <2>2. CASE \E r \in responses : a = r.confirm
    BY <1>1, <2>2 DEF RInv, ResponseInv, Response
  <2> QED BY <2>1, <2>2
<1>2. ASSUME NEW a, ByClient(a)
      PROVE  \E h \in Handshakes, c \in Conns, n \in Nat :
                /\ a = ClientRecord(c, h, n) /\ a.key = Pair(h, c).send
                /\ a.nonce = DeriveNonce(SidName(h), n, "client", "data")
  BY <1>2 DEF ClientRecord, Seal
<1>3. ASSUME NEW a, ByServer(a)
      PROVE  \E h \in Handshakes, c \in Conns, n \in Nat :
                /\ a = MirrorRecord(c, h, n) /\ a.key = Pair(h, c).recv
                /\ a.nonce = DeriveNonce(SidName(h), n, "server", "data")
  BY <1>3 DEF MirrorRecord, Seal
<1>4. ASSUME NEW a, AsProof(a)
      PROVE  \E h \in Handshakes, c \in Conns :
                /\ a = Confirmation(c, Pair(h, c), SidName(h)) /\ a.key = Pair(h, c).recv
                /\ a.nonce = DeriveNonce(SidName(h), 0, "server", "response")
  BY <1>4 DEF Confirmation, Seal
<1> HIDE DEF ByClient, ByServer, AsProof
<1>5. ASSUME NEW a, NEW b, a.key = b.key, a.nonce = b.nonce,
             ByClient(a) \/ ByServer(a) \/ AsProof(a), ByClient(b) \/ ByServer(b) \/ AsProof(b)
      PROVE  a = b
  <2>1. CASE ByClient(a)
    <3>1. PICK h \in Handshakes, c \in Conns, n \in Nat :
             /\ a = ClientRecord(c, h, n) /\ a.key = Pair(h, c).send
             /\ a.nonce = DeriveNonce(SidName(h), n, "client", "data")
      BY <1>2, <2>1
    <3>2. ByClient(b)
      BY <1>3, <1>4, <1>5, <3>1, NonceIsOne
    <3>3. PICK g \in Handshakes, d \in Conns, m \in Nat :
             /\ b = ClientRecord(d, g, m) /\ b.key = Pair(g, d).send
             /\ b.nonce = DeriveNonce(SidName(g), m, "client", "data")
      BY <1>2, <3>2
    <3>4. Pair(h, c).send = Pair(g, d).send /\ n = m
      BY <1>5, <3>1, <3>3, NonceIsOne
    <3> QED BY <3>1, <3>3, <3>4, PairIsOne
  <2>2. CASE ByServer(a)
    <3>1. PICK h \in Handshakes, c \in Conns, n \in Nat :
             /\ a = MirrorRecord(c, h, n) /\ a.key = Pair(h, c).recv
             /\ a.nonce = DeriveNonce(SidName(h), n, "server", "data")
      BY <1>3, <2>2
    <3>2. ByServer(b)
      BY <1>2, <1>4, <1>5, <3>1, NonceIsOne
    <3>3. PICK g \in Handshakes, d \in Conns, m \in Nat :
             /\ b = MirrorRecord(d, g, m) /\ b.key = Pair(g, d).recv
             /\ b.nonce = DeriveNonce(SidName(g), m, "server", "data")
      BY <1>3, <3>2
    <3>4. Pair(h, c).recv = Pair(g, d).recv /\ n = m
      BY <1>5, <3>1, <3>3, NonceIsOne
    <3> QED BY <3>1, <3>3, <3>4, PairIsOne
  <2>3. CASE AsProof(a)
    <3>1. PICK h \in Handshakes, c \in Conns :
             /\ a = Confirmation(c, Pair(h, c), SidName(h)) /\ a.key = Pair(h, c).recv
             /\ a.nonce = DeriveNonce(SidName(h), 0, "server", "response")
      BY <1>4, <2>3
    <3>2. AsProof(b)
      BY <1>2, <1>3, <1>5, <3>1, NonceIsOne
    <3>3. PICK g \in Handshakes, d \in Conns :
             /\ b = Confirmation(d, Pair(g, d), SidName(g)) /\ b.key = Pair(g, d).recv
             /\ b.nonce = DeriveNonce(SidName(g), 0, "server", "response")
      BY <1>4, <3>2
    <3>4. Pair(h, c).recv = Pair(g, d).recv
      BY <1>5, <3>1, <3>3
    <3> QED BY <3>1, <3>3, <3>4, PairIsOne
  <2> QED BY <1>5, <2>1, <2>2, <2>3
<1>6. ASSUME RInv PROVE NonceOnce
  <2>1. \A a \in All : ByClient(a) \/ ByServer(a) \/ AsProof(a)
    BY <1>1, <1>6
  <2>2. \A a, b \in All : a.key = b.key /\ a.nonce = b.nonce => a = b
    BY <1>5, <2>1
  <2> QED BY <2>2 DEF NonceOnce
<1> QED BY <1>6, AlwaysRInv, PTL

(* What a client opens is its own payloads, mirrored, in order from the    *)
(* first, whatever records the network hands it.                           *)
THEOREM EchoCorrect == Spec => []EchoIsOwn
<1>1. ASSUME RInv PROVE EchoIsOwn
  <2> SUFFICES ASSUME NEW h \in Handshakes
               PROVE  Len(got[h]) <= Len(sent[h]) /\ got[h] = SubSeq(sent[h], 1, Len(got[h]))
    BY DEF EchoIsOwn
  <2> DEFINE n == Len(got[h])
             front == SubSeq(sent[h], 1, n)
  <2>1. /\ got[h] \in Seq(Handshakes \X Nat) /\ sent[h] \in Seq(Handshakes \X Nat)
        /\ n \in Nat /\ Len(sent[h]) \in Nat /\ n <= Len(sent[h])
        /\ Numbered(got[h], h) /\ Numbered(sent[h], h)
    BY <1>1 DEF RInv, EchoInv
  <2>2. front \in Seq(Handshakes \X Nat) /\ Len(front) = n /\ \A i \in 1..n : front[i] = sent[h][i]
    BY <2>1
  <2> HIDE DEF front
  <2>3. \A i \in 1..n : got[h][i] = front[i]
    <3>1. \A i \in 1..n : got[h][i] = <<h, i - 1>>
      BY <2>1 DEF Numbered
    <3>2. \A i \in 1..n : i \in 1..Len(sent[h])
      BY <2>1
    <3>3. \A i \in 1..n : sent[h][i] = <<h, i - 1>>
      BY <2>1, <3>2 DEF Numbered
    <3> QED BY <2>2, <3>1, <3>3
  <2>4. got[h] = front
    <3>1. DOMAIN got[h] = 1..n /\ DOMAIN front = 1..n
      BY <2>1, <2>2
    <3>2. got[h] = [i \in 1..n |-> got[h][i]] /\ front = [i \in 1..n |-> front[i]]
      <4>1. \A s \in Seq(Handshakes \X Nat) : s = [i \in DOMAIN s |-> s[i]]
        OBVIOUS
      <4> QED BY <2>1, <2>2, <3>1, <4>1, Zenon
    <3> QED BY <2>3, <3>2
  <2> QED BY <2>1, <2>4 DEF front
<1> QED BY <1>1, AlwaysRInv, PTL

(* Only a completed handshake has sealed anything, and it stays completed. *)
SentInv == \A h \in Handshakes : sent[h] # <<>> => completed[h]

LEMMA NextSentInv == RInv /\ SentInv /\ [Next]_vars => SentInv'
<1> SUFFICES ASSUME RInv, SentInv, [Next]_vars, NEW h \in Handshakes, sent'[h] # <<>>
             PROVE  completed'[h]
  BY DEF SentInv
<1>0. /\ sent = [g \in Handshakes |-> sent[g]] /\ completed \in [Handshakes -> BOOLEAN]
      /\ sent[h] # <<>> => completed[h]
  BY DEF RInv, EchoInv, ClientInv, SentInv
<1>1. ASSUME NEW g \in Handshakes, Complete(g) PROVE completed'[h]
  <2>1. PICK v : completed' = [completed EXCEPT ![g] = v]
    BY <1>1 DEF Complete
  <2> QED BY <1>0, <1>1, <2>1 DEF Complete
<1>2. ASSUME NEW g \in Handshakes, SealRecord(g) PROVE completed'[h]
  <2>1. completed' = completed /\ completed[g]
    BY <1>2 DEF SealRecord, client
  <2>2. h # g => sent'[h] = sent[h]
    BY <1>0, <1>2 DEF SealRecord
  <2> QED BY <1>0, <2>1, <2>2
<1>3. ASSUME UNCHANGED <<sent, completed>> PROVE completed'[h]
  BY <1>0, <1>3
<1>4. ASSUME NEW g \in Handshakes, Connect(g) \/ OpenRecord(g)
      PROVE  UNCHANGED <<sent, completed>>
  BY <1>4 DEF Connect, OpenRecord
<1>5. ASSUME NEW c \in Conns, ServerHello(c) \/ ServerRecord(c)
      PROVE  UNCHANGED <<sent, completed>>
  BY <1>5 DEF ServerHello, ServerRecord, client
<1> QED BY <1>1, <1>2, <1>3, <1>4, <1>5 DEF Next, vars, client

LEMMA AlwaysSentInv == Spec => []SentInv
<1>1. Init => SentInv
  BY DEF Init, SentInv
<1> QED BY <1>1, NextSentInv, AlwaysRInv, PTL DEF Spec

(* Whatever responses come late and whatever parts they are mixed of, all  *)
(* the data of a handshake is sealed for the one run that confirmed its    *)
(* keys (complete and seal_record of handshake.rs).                        *)
THEOREM SealedCorrect == Spec => []SealedForOneServer
<1>1. ASSUME RInv, SentInv PROVE SealedForOneServer
  <2> SUFFICES ASSUME NEW h \in Handshakes, sent[h] # <<>>
               PROVE  \E c \in Conns :
                         /\ srv[c].session_id = SidName(h) /\ srv[c].keys # None
                         /\ \A r \in records : r.by = 0 /\ r.msg[1] = h => r.key = srv[c].keys[1].send
    BY DEF SealedForOneServer
  <2>1. PICK c \in Conns : Session(c, h) /\ record_keys[h] = Some(Pair(h, c))
    BY <1>1 DEF RInv, KeyInv, SentInv
  <2>2. srv[c].session_id = SidName(h) /\ srv[c].keys = Some(Pair(h, c))
    BY <2>1 DEF Session
  <2>3. ASSUME NEW r \in records, r.by = 0, r.msg[1] = h PROVE r.key = Pair(h, c).send
    <3>1. CASE IsClientRecord(r)
      <4>1. PICK g \in Handshakes, d \in Conns : \E n \in 0..(Len(sent[g]) - 1) :
               record_keys[g] = Some(Pair(g, d)) /\ r = ClientRecord(d, g, n)
        BY <3>1 DEF IsClientRecord
      <4>2. PICK n : r = ClientRecord(d, g, n)
        BY <4>1
      <4>3. r.key = Pair(g, d).send /\ r.msg[1] = g
        BY <4>2 DEF ClientRecord, Seal
      <4>4. Pair(g, d) = Pair(h, c)
        BY <2>1, <2>3, <4>1, <4>3, Options
      <4> QED BY <4>3, <4>4
    <3>2. CASE IsMirrorRecord(r)
      <4>1. PICK d \in Conns, g \in Handshakes : \E n : r = MirrorRecord(d, g, n)
        BY <3>2 DEF IsMirrorRecord
      <4>2. r.by = d
        BY <4>1 DEF MirrorRecord, Seal
      <4> QED BY <2>3, <4>2, Numbers
    <3> QED BY <1>1, <3>1, <3>2 DEF RInv, RecordInv
  <2> QED BY <2>2, <2>3, Options
<1> QED BY <1>1, AlwaysRInv, AlwaysSentInv, PTL

-----------------------------------------------------------------------------
(* What the parser returns: a reading or one of its errors, for any bytes. *)

(* What the parser says of a part of a hello: a reading with its fields,   *)
(* or one of the errors.                                                   *)
Says(t, s, k, v, p) == [ok |-> t, sni |-> s, share |-> k, tls13 |-> v, pos |-> p]
Reading(x) == \E s, k, v, p : x = Says(TRUE, s, k, v, p)
Failure(x) == \E e \in TlsError : x = Err(e)

(* One step of the key share list: f gives what the rest of it reads as. *)
ShareAt(b, f, p) ==
    IF p >= 2 + U16(b, 0)
    THEN IF p = Len(b) THEN Nothing ELSE Err("LengthMismatch")
    ELSE IF Len(b) < p + 4 \/ Len(b) < p + 4 + U16(b, p + 2) THEN Err("Truncated")
    ELSE LET klen == U16(b, p + 2)
             rest == f[p + 4 + klen]
         IN  IF rest.ok /\ U16(b, p) = GROUP_X25519 /\ klen = X25519_PK_LEN
             THEN [rest EXCEPT !.share = Some(Take(b, p + 4, klen))] ELSE rest

Shares(b, k, f) == f = [p \in k..Len(b) |-> ShareAt(b, f, p)]

(* One step of the extension block, likewise. *)
BlockAt(w, start, total, f, p) ==
    IF p >= start + total THEN [Nothing EXCEPT !.pos = p]
    ELSE IF Len(w) < p + 4 THEN Err("Truncated")
    ELSE IF p + 4 + U16(w, p + 2) > start + total THEN Err("LengthMismatch")
    ELSE IF Len(w) < p + 4 + U16(w, p + 2) THEN Err("Truncated")
    ELSE LET len  == U16(w, p + 2)
             this == ReadExtension(U16(w, p), Take(w, p + 4, len))
             rest == f[p + 4 + len]
         IN  IF ~this.ok THEN this
             ELSE IF ~rest.ok THEN rest
             ELSE [rest EXCEPT !.sni = IF @ = None THEN this.sni ELSE @,
                               !.share = IF this.share = None THEN @ ELSE this.share,
                               !.tls13 = @ \/ this.tls13]

Blocks(w, start, total, k, f) == f = [p \in k..Len(w) |-> BlockAt(w, start, total, f, p)]

(* Every byte and every sixteen-bit field reads as a number. *)
LEMMA BytesRead ==
    ASSUME NEW w \in ByteStrings
    PROVE  /\ Len(w) \in Nat
           /\ \A i \in Nat : At(w, i) \in Nat /\ U16(w, i) \in Nat /\ U16(w, i + 2) \in Nat
<1>1. Len(w) \in Nat /\ \A i \in 1..Len(w) : w[i] \in Nat
  BY DEF ByteStrings
<1>2. \A i \in Nat : At(w, i) \in Nat
  BY <1>1 DEF At
<1>3. \A i \in Nat : U16(w, i) \in Nat
  <2> TAKE i \in Nat
  <2>1. At(w, i) \in Nat /\ At(w, i + 1) \in Nat
    BY <1>2
  <2> QED BY <2>1 DEF U16
<1>4. \A i \in Nat : i + 2 \in Nat
  OBVIOUS
<1>5. \A i \in Nat : U16(w, i + 2) \in Nat
  BY <1>3, <1>4
<1> QED BY <1>1, <1>2, <1>3, <1>5

(* The equation of the walk over the key shares has a solution. *)
LEMMA SharesExist ==
    ASSUME NEW b \in ByteStrings
    PROVE  \E f : Shares(b, 0, f)
<1> DEFINE n == Len(b)
           T == {k \in Nat : k <= n => \E f : Shares(b, n - k, f)}
<1>0. n \in Nat
  BY BytesRead
<1>a. ASSUME NEW f, NEW g, NEW p \in Nat, p + 4 + U16(b, p + 2) <= n =>
                f[p + 4 + U16(b, p + 2)] = g[p + 4 + U16(b, p + 2)]
      PROVE  ShareAt(b, f, p) = ShareAt(b, g, p)
  <2>1. U16(b, p + 2) \in Nat
    BY BytesRead
  <2>2. CASE n < p + 4 + U16(b, p + 2)
    BY <2>2 DEF ShareAt
  <2>3. CASE ~(n < p + 4 + U16(b, p + 2))
    <3>1. f[p + 4 + U16(b, p + 2)] = g[p + 4 + U16(b, p + 2)]
      BY <1>0, <1>a, <2>1, <2>3
    <3> QED BY <3>1, Zenon DEF ShareAt
  <2> QED BY <2>2, <2>3
<1> HIDE DEF n
<1>1. 0 \in T
  <2>1. PICK g : g = [p \in n..n |-> 0]
    OBVIOUS
  <2>2. PICK f : f = [p \in n..n |-> ShareAt(b, g, p)]
    OBVIOUS
  <2>3. \A p \in n..n : ShareAt(b, f, p) = ShareAt(b, g, p)
    <3> TAKE p \in n..n
    <3>0. p = n /\ p \in Nat
      BY <1>0
    <3>1. p = n /\ p \in Nat /\ U16(b, p + 2) \in Nat
      BY <3>0, BytesRead
    <3>2. ~(p + 4 + U16(b, p + 2) <= n)
      BY <1>0, <3>1
    <3> QED BY <1>a, <3>1, <3>2
  <2>4. f = [p \in n..n |-> ShareAt(b, f, p)]
    BY <2>2, <2>3
  <2>5. n - 0 = n
    BY <1>0
  <2>6. Shares(b, n - 0, f)
    BY <2>4, <2>5 DEF Shares, n
  <2> QED BY <2>6
<1>2. ASSUME NEW k \in Nat, k \in T PROVE k + 1 \in T
  <2> SUFFICES ASSUME k + 1 <= n PROVE \E f : Shares(b, n - (k + 1), f)
    BY DEF T
  <2>0. PICK m : m = n - (k + 1)
    OBVIOUS
  <2>1. m \in Nat /\ m + 1 = n - k /\ m < n
    BY <1>0, <2>0
  <2>2. PICK g : Shares(b, m + 1, g)
    BY <1>0, <1>2, <2>1
  <2>3. g = [p \in (m + 1)..n |-> ShareAt(b, g, p)]
    BY <2>2 DEF Shares, n
  <2>4. PICK f : f = [p \in m..n |-> ShareAt(b, g, p)]
    OBVIOUS
  <2>5. \A p \in (m + 1)..n : f[p] = g[p]
    BY <1>0, <2>1, <2>3, <2>4
  <2>6. \A p \in m..n : ShareAt(b, f, p) = ShareAt(b, g, p)
    <3> TAKE p \in m..n
    <3>1. p \in Nat /\ m <= p /\ p <= n
      BY <1>0, <2>1
    <3>2. U16(b, p + 2) \in Nat
      BY <3>1, BytesRead
    <3>3. p + 4 + U16(b, p + 2) <= n => p + 4 + U16(b, p + 2) \in (m + 1)..n
      BY <1>0, <2>1, <3>1, <3>2
    <3>4. p + 4 + U16(b, p + 2) <= n => f[p + 4 + U16(b, p + 2)] = g[p + 4 + U16(b, p + 2)]
      BY <2>5, <3>3
    <3> QED BY <1>a, <3>1, <3>4
  <2>7. f = [p \in m..n |-> ShareAt(b, f, p)]
    BY <2>4, <2>6
  <2>8. Shares(b, m, f)
    BY <2>7 DEF Shares, n
  <2> QED BY <2>0, <2>8
<1>3. n \in T
  <2> HIDE DEF T
  <2> QED BY <1>0, <1>1, <1>2, SetInduction
<1>4. n - n = 0 /\ n <= n
  BY <1>0
<1> QED BY <1>3, <1>4

(* The key share list reads as the walk over it says. *)
LEMMA ReadKeyShareIs ==
    ASSUME NEW b \in ByteStrings
    PROVE  \E f : Shares(b, 0, f) /\
             ReadKeyShare(b) = IF Len(b) < 2 THEN Err("Truncated") ELSE f[2]
<1> DEFINE f == CHOOSE g : Shares(b, 0, g)
<1>1. Shares(b, 0, f)
  BY SharesExist
<1>2. ReadKeyShare(b) = IF Len(b) < 2 THEN Err("Truncated") ELSE f[2]
  BY DEF ReadKeyShare, Shares, ShareAt
<1> QED BY <1>1, <1>2

(* So has that of the walk over the extensions. *)
LEMMA BlocksExist ==
    ASSUME NEW w \in ByteStrings, NEW start \in Nat, NEW total \in Nat
    PROVE  \E f : Blocks(w, start, total, 0, f)
<1> DEFINE n == Len(w)
           T == {k \in Nat : k <= n => \E f : Blocks(w, start, total, n - k, f)}
<1>0. n \in Nat
  BY BytesRead
<1>a. ASSUME NEW f, NEW g, NEW p \in Nat, p + 4 + U16(w, p + 2) <= n =>
                f[p + 4 + U16(w, p + 2)] = g[p + 4 + U16(w, p + 2)]
      PROVE  BlockAt(w, start, total, f, p) = BlockAt(w, start, total, g, p)
  <2>1. U16(w, p + 2) \in Nat
    BY BytesRead
  <2>2. CASE n < p + 4 + U16(w, p + 2)
    BY <2>2 DEF BlockAt
  <2>3. CASE ~(n < p + 4 + U16(w, p + 2))
    <3>1. f[p + 4 + U16(w, p + 2)] = g[p + 4 + U16(w, p + 2)]
      BY <1>0, <1>a, <2>1, <2>3
    <3> QED BY <3>1, Zenon DEF BlockAt
  <2> QED BY <2>2, <2>3
<1> HIDE DEF n
<1>1. 0 \in T
  <2>1. PICK g : g = [p \in n..n |-> 0]
    OBVIOUS
  <2>2. PICK f : f = [p \in n..n |-> BlockAt(w, start, total, g, p)]
    OBVIOUS
  <2>3. \A p \in n..n : BlockAt(w, start, total, f, p) = BlockAt(w, start, total, g, p)
    <3> TAKE p \in n..n
    <3>0. p = n /\ p \in Nat
      BY <1>0
    <3>1. p = n /\ p \in Nat /\ U16(w, p + 2) \in Nat
      BY <3>0, BytesRead
    <3>2. ~(p + 4 + U16(w, p + 2) <= n)
      BY <1>0, <3>1
    <3> QED BY <1>a, <3>1, <3>2
  <2>4. f = [p \in n..n |-> BlockAt(w, start, total, f, p)]
    BY <2>2, <2>3
  <2>5. n - 0 = n
    BY <1>0
  <2>6. Blocks(w, start, total, n - 0, f)
    BY <2>4, <2>5 DEF Blocks, n
  <2> QED BY <2>6
<1>2. ASSUME NEW k \in Nat, k \in T PROVE k + 1 \in T
  <2> SUFFICES ASSUME k + 1 <= n PROVE \E f : Blocks(w, start, total, n - (k + 1), f)
    BY DEF T
  <2>0. PICK m : m = n - (k + 1)
    OBVIOUS
  <2>1. m \in Nat /\ m + 1 = n - k /\ m < n
    BY <1>0, <2>0
  <2>2. PICK g : Blocks(w, start, total, m + 1, g)
    BY <1>0, <1>2, <2>1
  <2>3. g = [p \in (m + 1)..n |-> BlockAt(w, start, total, g, p)]
    BY <2>2 DEF Blocks, n
  <2>4. PICK f : f = [p \in m..n |-> BlockAt(w, start, total, g, p)]
    OBVIOUS
  <2>5. \A p \in (m + 1)..n : f[p] = g[p]
    BY <1>0, <2>1, <2>3, <2>4, SMTT(60)
  <2>6. \A p \in m..n : BlockAt(w, start, total, f, p) = BlockAt(w, start, total, g, p)
    <3> TAKE p \in m..n
    <3>1. p \in Nat /\ m <= p /\ p <= n
      BY <1>0, <2>1
    <3>2. U16(w, p + 2) \in Nat
      BY <3>1, BytesRead
    <3>3. p + 4 + U16(w, p + 2) <= n => p + 4 + U16(w, p + 2) \in (m + 1)..n
      BY <1>0, <2>1, <3>1, <3>2
    <3>4. p + 4 + U16(w, p + 2) <= n => f[p + 4 + U16(w, p + 2)] = g[p + 4 + U16(w, p + 2)]
      BY <2>5, <3>3
    <3> QED BY <1>a, <3>1, <3>4
  <2>7. f = [p \in m..n |-> BlockAt(w, start, total, f, p)]
    BY <2>4, <2>6
  <2>8. Blocks(w, start, total, m, f)
    BY <2>7 DEF Blocks, n
  <2> QED BY <2>0, <2>8
<1>3. n \in T
  <2> HIDE DEF T
  <2> QED BY <1>0, <1>1, <1>2, SetInduction
<1>4. n - n = 0 /\ n <= n
  BY <1>0
<1> QED BY <1>3, <1>4

(* The extension block reads as the walk over it says. *)
LEMMA ReadExtensionsIs ==
    ASSUME NEW w \in ByteStrings, NEW start \in Nat, NEW total \in Nat
    PROVE  \E f : Blocks(w, start, total, 0, f) /\ ReadExtensions(w, start, total) = f[start]
<1> DEFINE f == CHOOSE g : Blocks(w, start, total, 0, g)
<1>1. Blocks(w, start, total, 0, f)
  BY BlocksExist
<1>2. ReadExtensions(w, start, total) = f[start]
  BY DEF ReadExtensions, Blocks, BlockAt
<1> QED BY <1>1, <1>2

(* Readings are what Says makes. *)
LEMMA SaysReads == \A t, s, k, v, p : t = TRUE => Reading(Says(t, s, k, v, p))
<1> SUFFICES ASSUME NEW t, NEW s, NEW k, NEW v, NEW p, t = TRUE PROVE Reading(Says(t, s, k, v, p))
  BY Zenon
<1>1. \E a, b, c, d : Says(t, s, k, v, p) = Says(t, a, b, c, d)
  BY Zenon
<1> QED BY <1>1, Zenon DEF Reading

(* Nothing, and Nothing with one field set. *)
LEMMA NothingSays ==
    ASSUME NEW x
    PROVE  /\ Nothing = Says(TRUE, None, None, FALSE, 0)
           /\ [Nothing EXCEPT !.sni = x] = Says(TRUE, x, None, FALSE, 0)
           /\ [Nothing EXCEPT !.tls13 = x] = Says(TRUE, None, None, x, 0)
           /\ [Nothing EXCEPT !.pos = x] = Says(TRUE, None, None, FALSE, x)
<1>0. PICK f, t, n : f = FALSE /\ t = TRUE /\ n = None
  BY Zenon
<1>1. Nothing = Says(t, n, n, f, 0)
  BY <1>0, Zenon DEF Nothing, Says
<1>2. /\ [Says(t, n, n, f, 0) EXCEPT !.sni = x] = Says(t, x, n, f, 0)
      /\ [Says(t, n, n, f, 0) EXCEPT !.tls13 = x] = Says(t, n, n, x, 0)
      /\ [Says(t, n, n, f, 0) EXCEPT !.pos = x] = Says(t, n, n, f, x)
  BY DEF Says
<1> QED BY <1>0, <1>1, <1>2, Zenon

(* The readings the single extensions give. *)
LEMMA Outcomes ==
    /\ \A e \in TlsError : Failure(Err(e))
    /\ Reading(Nothing)
    /\ \A x : Reading([Nothing EXCEPT !.pos = x])
<1>1. \A e \in TlsError : Failure(Err(e))
  BY Zenon DEF Failure
<1>2. Reading(Nothing)
  <2>1. PICK f, t : f = FALSE /\ t = TRUE
    BY Zenon
  <2>2. Nothing = Says(t, None, None, f, 0)
    BY <2>1, NothingSays, Zenon
  <2> QED BY <2>1, <2>2, SaysReads, Zenon
<1>3. \A x : Reading([Nothing EXCEPT !.pos = x])
  <2> TAKE x
  <2>1. [Nothing EXCEPT !.pos = x] = Says(TRUE, None, None, FALSE, x)
    BY NothingSays
  <2> QED BY <2>1, Zenon DEF Reading
<1> QED BY <1>1, <1>2, <1>3

(* Err of an error of the parser is a failure. *)
LEMMA Errors ==
    /\ Failure(Err("Truncated")) /\ Failure(Err("LengthMismatch")) /\ Failure(Err("BadServerName"))
    /\ Failure(Err("BadRecordType")) /\ Failure(Err("BadRecordVersion"))
    /\ Failure(Err("TrailingBytes")) /\ Failure(Err("ShortIdTooLong"))
    /\ Failure(Err("NoX25519KeyShare"))
<1>1. /\ "Truncated" \in TlsError /\ "LengthMismatch" \in TlsError /\ "BadServerName" \in TlsError
      /\ "BadRecordType" \in TlsError /\ "BadRecordVersion" \in TlsError
      /\ "TrailingBytes" \in TlsError /\ "ShortIdTooLong" \in TlsError
      /\ "NoX25519KeyShare" \in TlsError
  BY DEF TlsError
<1> QED BY <1>1, Outcomes

(* A failure is not ok, a reading is. *)
LEMMA FailureOk ==
    ASSUME NEW x
    PROVE  /\ Failure(x) => ~x.ok /\ x.err \in TlsError
           /\ Reading(x) => x.ok
<1>1. ASSUME Failure(x) PROVE ~x.ok /\ x.err \in TlsError
  BY <1>1 DEF Failure, Err
<1>2. ASSUME Reading(x) PROVE x.ok
  <2>1. PICK s, k, v, p : x = Says(TRUE, s, k, v, p)
    BY <1>2 DEF Reading
  <2>2. PICK t : t = TRUE
    BY Zenon
  <2>3. Says(t, s, k, v, p).ok = t
    BY DEF Says
  <2> QED BY <2>1, <2>2, <2>3, Zenon
<1> QED BY <1>1, <1>2

(* A reading with a share in it is a reading. *)
LEMMA ReadingShare ==
    ASSUME NEW x, Reading(x), NEW k
    PROVE  Reading([x EXCEPT !.share = k])
<1>0. PICK t : t = TRUE
  BY Zenon
<1>1. PICK s, j, v, p : x = Says(t, s, j, v, p)
  BY <1>0, Zenon DEF Reading
<1>2. [Says(t, s, j, v, p) EXCEPT !.share = k] = Says(t, s, k, v, p)
  BY DEF Says
<1>3. [x EXCEPT !.share = k] = Says(t, s, k, v, p)
  BY <1>1, <1>2
<1>4. PICK z : z = Says(t, s, k, v, p)
  BY Zenon
<1>5. Reading(z)
  BY <1>0, <1>4, SaysReads, Zenon
<1> QED BY <1>3, <1>4, <1>5, Zenon

(* A reading with three of its fields replaced. *)
Changed(x, a, b, c) == [x EXCEPT !.sni = a, !.share = b, !.tls13 = c]

(* The fields of a reading replaced. *)
LEMMA SaysChanged ==
    ASSUME NEW t, NEW s, NEW j, NEW v, NEW p, NEW a, NEW b, NEW c
    PROVE  Changed(Says(t, s, j, v, p), a, b, c) = Says(t, a, b, c, p)
<1>0. PICK x : x = Says(t, s, j, v, p)
  OBVIOUS
<1>1. PICK y : y = [x EXCEPT !.sni = a]
  OBVIOUS
<1>2. PICK z : z = [y EXCEPT !.share = b]
  OBVIOUS
<1>3. PICK u : u = [z EXCEPT !.tls13 = c]
  OBVIOUS
<1>4. Changed(x, a, b, c) = u
  BY <1>1, <1>2, <1>3, SMT DEF Changed
<1>5. y = Says(t, a, j, v, p)
  BY <1>0, <1>1 DEF Says
<1>6. z = Says(t, a, b, v, p)
  BY <1>2, <1>5 DEF Says
<1>7. u = Says(t, a, b, c, p)
  BY <1>3, <1>6 DEF Says
<1> QED BY <1>0, <1>4, <1>7, Zenon

(* What one extension adds to what the rest of the block says. *)
Merged(x, y) == [x EXCEPT !.sni = IF @ = None THEN y.sni ELSE @,
                          !.share = IF y.share = None THEN @ ELSE y.share,
                          !.tls13 = @ \/ y.tls13]
SniOf(s, y)   == IF s = None THEN y.sni ELSE s
ShareOf(k, y) == IF y.share = None THEN k ELSE y.share
Tls13Of(v, y) == v \/ y.tls13

(* What an extension adds to the reading of the rest. *)
LEMMA MergedSays ==
    ASSUME NEW t, NEW s, NEW k, NEW v, NEW p, NEW y
    PROVE  Merged(Says(t, s, k, v, p), y) = Says(t, SniOf(s, y), ShareOf(k, y), Tls13Of(v, y), p)
<1>1. PICK x : x = Says(t, s, k, v, p)
  BY Zenon
<1>2. x.sni = s /\ x.share = k /\ x.tls13 = v
  BY <1>1 DEF Says
<1>3. Merged(x, y) = Changed(x, SniOf(s, y), ShareOf(k, y), Tls13Of(v, y))
  BY <1>2, Zenon DEF Merged, Changed, SniOf, ShareOf, Tls13Of
<1>4. Changed(x, SniOf(s, y), ShareOf(k, y), Tls13Of(v, y))
        = Says(t, SniOf(s, y), ShareOf(k, y), Tls13Of(v, y), p)
  BY <1>1, SaysChanged
<1> QED BY <1>1, <1>3, <1>4, Zenon

(* Readings add up to readings. *)
LEMMA ReadingMerged ==
    ASSUME NEW x, Reading(x), NEW y
    PROVE  Reading(Merged(x, y))
<1>0. PICK t : t = TRUE
  BY Zenon
<1>1. PICK s, j, v, p : x = Says(t, s, j, v, p)
  BY <1>0, Zenon DEF Reading
<1>4. Merged(x, y) = Says(t, SniOf(s, y), ShareOf(j, y), Tls13Of(v, y), p)
  BY <1>1, MergedSays
<1> QED BY <1>0, <1>4, SaysReads, Zenon

(* The key share extension is read or fails. *)
LEMMA KeyShareOutcome ==
    ASSUME NEW b \in ByteStrings
    PROVE  Reading(ReadKeyShare(b)) \/ Failure(ReadKeyShare(b))
<1>1. PICK f : /\ Shares(b, 0, f)
               /\ ReadKeyShare(b) = IF Len(b) < 2 THEN Err("Truncated") ELSE f[2]
  BY ReadKeyShareIs
<1>2. PICK n \in Nat : n = Len(b)
  BY BytesRead
<1>3. \A p \in 0..n : f[p] = ShareAt(b, f, p)
  BY <1>1, <1>2 DEF Shares
<1> DEFINE Out(x) == Reading(x) \/ Failure(x)
<1>4. ASSUME NEW p \in 0..n, p + 4 + U16(b, p + 2) <= n => Out(f[p + 4 + U16(b, p + 2)])
      PROVE  Out(f[p])
  <2>1. PICK rest : rest = f[p + 4 + U16(b, p + 2)]
    OBVIOUS
  <2>2. CASE p >= 2 + U16(b, 0)
    <3>1. f[p] = Nothing \/ f[p] = Err("LengthMismatch")
      BY <1>3, <2>2 DEF ShareAt
    <3> QED BY <3>1, Outcomes, Errors
  <2>3. CASE ~(p >= 2 + U16(b, 0)) /\ (Len(b) < p + 4 \/ Len(b) < p + 4 + U16(b, p + 2))
    <3>1. f[p] = Err("Truncated")
      BY <1>3, <2>3 DEF ShareAt
    <3> QED BY <3>1, Errors
  <2>4. CASE ~(p >= 2 + U16(b, 0)) /\ ~(Len(b) < p + 4 \/ Len(b) < p + 4 + U16(b, p + 2))
    <3>0. p \in Nat
      OBVIOUS
    <3>1. U16(b, p + 2) \in Nat
      BY <3>0, BytesRead
    <3>2. Out(rest)
      BY <1>2, <1>4, <2>1, <2>4, <3>1
    <3>3. PICK k : k = Some(Take(b, p + 4, U16(b, p + 2)))
      OBVIOUS
    <3>4. f[p] = rest \/ (rest.ok /\ f[p] = [rest EXCEPT !.share = k])
      <4>1. f[p] = ShareAt(b, f, p)
        BY <1>3
      <4> QED BY <2>1, <2>4, <3>3, <4>1, Zenon DEF ShareAt
    <3>5. CASE f[p] = rest
      BY <3>2, <3>5
    <3>6. CASE rest.ok /\ f[p] = [rest EXCEPT !.share = k]
      <4>1. Reading(rest)
        BY <3>2, <3>6, FailureOk
      <4> QED BY <3>6, <4>1, ReadingShare
    <3> QED BY <3>4, <3>5, <3>6
  <2> QED BY <2>2, <2>3, <2>4
<1> HIDE DEF Out
<1> DEFINE T == {k \in Nat : \A p \in 0..n : n - p <= k => Out(f[p])}
<1>5. 0 \in T
  <2> SUFFICES ASSUME NEW p \in 0..n, n - p <= 0 PROVE Out(f[p])
    BY DEF T
  <2>0. p = n /\ p \in Nat
    OBVIOUS
  <2>1. p = n /\ U16(b, p + 2) \in Nat
    BY <2>0, BytesRead
  <2>2. ~(p + 4 + U16(b, p + 2) <= n)
    BY <2>1
  <2> QED BY <1>4, <2>2
<1>6. ASSUME NEW k \in Nat, k \in T PROVE k + 1 \in T
  <2> SUFFICES ASSUME NEW p \in 0..n, n - p <= k + 1 PROVE Out(f[p])
    BY DEF T
  <2>0. p \in Nat
    OBVIOUS
  <2>1. U16(b, p + 2) \in Nat
    BY <2>0, BytesRead
  <2>2. PICK q : q = p + 4 + U16(b, p + 2)
    OBVIOUS
  <2>3. q <= n => q \in 0..n /\ n - q <= k
    BY <2>1, <2>2
  <2>4. q <= n => Out(f[q])
    BY <1>6, <2>3
  <2> QED BY <1>4, <2>2, <2>4
<1>7. n \in T
  <2> HIDE DEF T
  <2> QED BY <1>5, <1>6, SetInduction
<1>8. Len(b) >= 2 => Out(f[2])
  BY <1>2, <1>7
<1>9. CASE Len(b) < 2
  BY <1>1, <1>9, Errors
<1>10. CASE ~(Len(b) < 2)
  <2>1. Out(f[2])
    BY <1>2, <1>8, <1>10
  <2> QED BY <1>1, <1>10, <2>1 DEF Out
<1> QED BY <1>9, <1>10

(* The bytes of a slice inside a string. *)
LEMMA Taken ==
    ASSUME NEW w \in ByteStrings, NEW i \in Nat, NEW n \in Nat, i + n <= Len(w)
    PROVE  /\ Take(w, i, n) \in ByteStrings /\ Len(Take(w, i, n)) = n
           /\ \A j \in 1..n : Take(w, i, n)[j] = w[i + j]
BY DEF Take, ByteStrings

(* So is every extension. *)
LEMMA ExtensionOutcome ==
    ASSUME NEW b \in ByteStrings, NEW type
    PROVE  Reading(ReadExtension(type, b)) \/ Failure(ReadExtension(type, b))
<1>1. Reading(ReadServerName(b)) \/ Failure(ReadServerName(b))
  <2>1. PICK k : k = Some(Take(b, 5, U16(b, 3)))
    OBVIOUS
  <2>2. \/ ReadServerName(b) = Err("Truncated") \/ ReadServerName(b) = Err("BadServerName")
        \/ ReadServerName(b) = [Nothing EXCEPT !.sni = k]
    BY <2>1, Zenon DEF ReadServerName
  <2>3. Reading([Nothing EXCEPT !.sni = k])
    <3>1. [Nothing EXCEPT !.sni = k] = Says(TRUE, k, None, FALSE, 0)
      BY NothingSays
    <3> QED BY <3>1, Zenon DEF Reading
  <2> QED BY <2>2, <2>3, Errors, Zenon
<1>2. Reading(ReadSupportedVersions(b)) \/ Failure(ReadSupportedVersions(b))
  <2>1. PICK k : k = (\E i \in 0..((At(b, 0) \div 2) - 1) : U16(b, 1 + 2 * i) = 772)
    BY ZenonT(60)
  <2>2. \/ ReadSupportedVersions(b) = Err("Truncated")
        \/ ReadSupportedVersions(b) = Err("LengthMismatch")
        \/ ReadSupportedVersions(b) = [Nothing EXCEPT !.tls13 = k]
    BY <2>1, Zenon DEF ReadSupportedVersions
  <2>3. Reading([Nothing EXCEPT !.tls13 = k])
    <3>1. [Nothing EXCEPT !.tls13 = k] = Says(TRUE, None, None, k, 0)
      BY NothingSays
    <3> QED BY <3>1, Zenon DEF Reading
  <2> QED BY <2>2, <2>3, Errors, Zenon
<1>3. \/ ReadExtension(type, b) = ReadServerName(b)
      \/ ReadExtension(type, b) = ReadKeyShare(b)
      \/ ReadExtension(type, b) = ReadSupportedVersions(b)
      \/ ReadExtension(type, b) = Nothing
  BY DEF ReadExtension, EXT_SERVER_NAME, EXT_KEY_SHARE, EXT_SUPPORTED_VERSIONS
<1> QED BY <1>1, <1>2, <1>3, KeyShareOutcome, Outcomes, Zenon

(* So is the whole block, by induction from its end. *)
LEMMA BlockOutcome ==
    ASSUME NEW w \in ByteStrings, NEW start \in Nat, NEW total \in Nat, start <= Len(w)
    PROVE  Reading(ReadExtensions(w, start, total)) \/ Failure(ReadExtensions(w, start, total))
<1>1. PICK f : /\ Blocks(w, start, total, 0, f)
               /\ ReadExtensions(w, start, total) = f[start]
  BY ReadExtensionsIs
<1>2. PICK n \in Nat : n = Len(w)
  BY BytesRead
<1>3. \A p \in 0..n : f[p] = BlockAt(w, start, total, f, p)
  BY <1>1, <1>2 DEF Blocks
<1> DEFINE Out(x) == Reading(x) \/ Failure(x)
<1>4. ASSUME NEW p \in 0..n, p + 4 + U16(w, p + 2) <= n => Out(f[p + 4 + U16(w, p + 2)])
      PROVE  Out(f[p])
  <2>0. p \in Nat /\ p + 4 \in Nat
    OBVIOUS
  <2>1. PICK rest : rest = f[p + 4 + U16(w, p + 2)]
    OBVIOUS
  <2>2. PICK this : this = ReadExtension(U16(w, p), Take(w, p + 4, U16(w, p + 2)))
    OBVIOUS
  <2>3. U16(w, p + 2) \in Nat
    BY <2>0, BytesRead
  <2>4. \/ f[p] = [Nothing EXCEPT !.pos = p]
        \/ f[p] = Err("Truncated") \/ f[p] = Err("LengthMismatch")
        \/ /\ ~(Len(w) < p + 4 + U16(w, p + 2))
           /\ \/ ~this.ok /\ f[p] = this
              \/ f[p] = rest
              \/ rest.ok /\ f[p] = Merged(rest, this)
    <3>1. f[p] = BlockAt(w, start, total, f, p)
      BY <1>3
    <3> QED BY <2>1, <2>2, <3>1, Zenon DEF BlockAt, Merged
  <2>5. CASE f[p] = [Nothing EXCEPT !.pos = p]
    <3>1. PICK z : z = [Nothing EXCEPT !.pos = p]
      BY Zenon
    <3>2. Reading(z)
      BY <3>1, Outcomes, Zenon
    <3> QED BY <2>5, <3>1, <3>2, Zenon
  <2>6. CASE f[p] = Err("Truncated") \/ f[p] = Err("LengthMismatch")
    BY <2>6, Errors
  <2>7. CASE /\ ~(Len(w) < p + 4 + U16(w, p + 2))
             /\ \/ ~this.ok /\ f[p] = this
                \/ f[p] = rest
                \/ rest.ok /\ f[p] = Merged(rest, this)
    <3>1. p + 4 + U16(w, p + 2) <= n
      BY <1>2, <2>0, <2>3, <2>7
    <3>2. Out(rest)
      BY <1>4, <2>1, <3>1
    <3>3. Take(w, p + 4, U16(w, p + 2)) \in ByteStrings
      BY <1>2, <2>0, <2>3, <3>1, Taken
    <3>4. Out(this)
      BY <2>2, <3>3, ExtensionOutcome
    <3>5. rest.ok => Reading(rest)
      BY <3>2, FailureOk
    <3> QED BY <2>7, <3>2, <3>4, <3>5, ReadingMerged
  <2> QED BY <2>4, <2>5, <2>6, <2>7
<1> HIDE DEF Out
<1> DEFINE T == {k \in Nat : \A p \in 0..n : n - p <= k => Out(f[p])}
<1>5. 0 \in T
  <2> SUFFICES ASSUME NEW p \in 0..n, n - p <= 0 PROVE Out(f[p])
    BY DEF T
  <2>0. p = n /\ p \in Nat
    OBVIOUS
  <2>1. p = n /\ U16(w, p + 2) \in Nat
    BY <2>0, BytesRead
  <2>2. ~(p + 4 + U16(w, p + 2) <= n)
    BY <2>1
  <2> QED BY <1>4, <2>2
<1>6. ASSUME NEW k \in Nat, k \in T PROVE k + 1 \in T
  <2> SUFFICES ASSUME NEW p \in 0..n, n - p <= k + 1 PROVE Out(f[p])
    BY DEF T
  <2>0. p \in Nat
    OBVIOUS
  <2>1. U16(w, p + 2) \in Nat
    BY <2>0, BytesRead
  <2>2. PICK q : q = p + 4 + U16(w, p + 2)
    OBVIOUS
  <2>3. q <= n => q \in 0..n /\ n - q <= k
    BY <2>1, <2>2
  <2>4. q <= n => Out(f[q])
    BY <1>6, <2>3
  <2> QED BY <1>4, <2>2, <2>4
<1>7. n \in T
  <2> HIDE DEF T
  <2> QED BY <1>5, <1>6, SetInduction
<1>8. Out(f[start])
  BY <1>2, <1>7
<1> QED BY <1>1, <1>8 DEF Out

(* The parser's tests in their order, for the offsets and the extensions   *)
(* it found: those of the record and handshake headers, of the lists, and  *)
(* of what the extensions said.                                            *)
LastTests(w, x) ==
    IF ~x.ok THEN x
    ELSE IF x.pos # Len(w) THEN Err("TrailingBytes")
    ELSE IF x.share = None THEN Err("NoX25519KeyShare")
    ELSE [ok |-> TRUE, sni |-> x.sni, random |-> Take(w, 11, 32),
          session_id |-> Take(w, SESSION_ID_OFFSET, At(w, 43)),
          ephemeral_public |-> x.share[1], tls13_negotiable |-> x.tls13]

ListTests(w, ciphers, comp, exts, x) ==
    IF Len(w) < SESSION_ID_OFFSET THEN Err("Truncated")
    ELSE IF At(w, 43) > MAX_SESSION_ID_LEN THEN Err("ShortIdTooLong")
    ELSE IF Len(w) < ciphers + 2 THEN Err("Truncated")
    ELSE IF U16(w, ciphers) % 2 # 0 THEN Err("LengthMismatch")
    ELSE IF Len(w) < comp + 1 \/ Len(w) < exts + 2 THEN Err("Truncated")
    ELSE LastTests(w, x)

Tests(w, ciphers, comp, exts, x) ==
    IF Len(w) < 1 THEN Err("Truncated")
    ELSE IF At(w, 0) # CONTENT_HANDSHAKE THEN Err("BadRecordType")
    ELSE IF Len(w) < 3 THEN Err("Truncated")
    ELSE IF At(w, 1) # 3 \/ At(w, 2) > 3 THEN Err("BadRecordVersion")
    ELSE IF Len(w) < 5 THEN Err("Truncated")
    ELSE IF Len(w) - 5 # U16(w, 3) THEN Err("LengthMismatch")
    ELSE IF Len(w) < 6 THEN Err("Truncated")
    ELSE IF At(w, 5) # HS_CLIENT_HELLO THEN Err("BadRecordType")
    ELSE IF Len(w) < 9 THEN Err("Truncated")
    ELSE IF Len(w) - 9 # 256 * U16(w, 6) + At(w, 8) THEN Err("LengthMismatch")
    ELSE ListTests(w, ciphers, comp, exts, x)

(* The parser is its tests in their order. *)
LEMMA ParseIs ==
    ASSUME NEW w
    PROVE  LET ciphers == SESSION_ID_OFFSET + At(w, 43)
               comp    == ciphers + 2 + U16(w, ciphers)
               exts    == comp + 1 + At(w, comp)
           IN  ParseClientHello(w)
                 = Tests(w, ciphers, comp, exts, ReadExtensions(w, exts + 2, U16(w, exts)))
BY Zenon DEF ParseClientHello, Tests, ListTests, LastTests

(* What the tests refuse, they refuse with an error of the parser. *)
LEMMA TestsOutcome ==
    ASSUME NEW w, NEW ciphers, NEW comp, NEW exts, NEW x,
           ~(Len(w) < exts + 2) /\ ~x.ok => Failure(x),
           ~Tests(w, ciphers, comp, exts, x).ok
    PROVE  Failure(Tests(w, ciphers, comp, exts, x))
<1>1. x.ok => Failure(LastTests(w, x)) \/ LastTests(w, x).ok
  BY Errors, Zenon DEF LastTests
<1>2. ~x.ok => LastTests(w, x) = x
  BY Zenon DEF LastTests
<1>3. \/ Failure(ListTests(w, ciphers, comp, exts, x))
      \/ ~(Len(w) < exts + 2) /\ ListTests(w, ciphers, comp, exts, x) = LastTests(w, x)
  BY Errors, Zenon DEF ListTests
<1>4. \/ Failure(Tests(w, ciphers, comp, exts, x))
      \/ Tests(w, ciphers, comp, exts, x) = ListTests(w, ciphers, comp, exts, x)
  BY Errors, Zenon DEF Tests
<1> QED BY <1>1, <1>2, <1>3, <1>4, Zenon

(* The parser reads a string or fails with one of its errors. *)
LEMMA ParseOutcome ==
    ASSUME NEW w \in ByteStrings, ~ParseClientHello(w).ok
    PROVE  Failure(ParseClientHello(w))
<1> DEFINE ciphers == SESSION_ID_OFFSET + At(w, 43)
           comp == ciphers + 2 + U16(w, ciphers)
           exts == comp + 1 + At(w, comp)
           x == ReadExtensions(w, exts + 2, U16(w, exts))
<1>5. ciphers \in Nat /\ comp \in Nat /\ exts \in Nat /\ Len(w) \in Nat
  <2>1. 43 \in Nat /\ SESSION_ID_OFFSET \in Nat
    BY DEF SESSION_ID_OFFSET
  <2>2. At(w, 43) \in Nat
    BY <2>1, BytesRead
  <2>3. ciphers \in Nat
    BY <2>1, <2>2
  <2> HIDE DEF ciphers
  <2>4. U16(w, ciphers) \in Nat /\ Len(w) \in Nat
    BY <2>3, BytesRead
  <2>5. comp \in Nat
    BY <2>3, <2>4
  <2> HIDE DEF comp
  <2>6. At(w, comp) \in Nat
    BY <2>5, BytesRead
  <2> QED BY <2>3, <2>4, <2>5, <2>6
<1> HIDE DEF ciphers, comp, exts
<1>9. ASSUME ~(Len(w) < exts + 2), ~x.ok PROVE Failure(x)
  <2>1. U16(w, exts) \in Nat
    BY <1>5, BytesRead
  <2>2. exts + 2 \in Nat /\ exts + 2 <= Len(w)
    BY <1>5, <1>9
  <2>3. Reading(x) \/ Failure(x)
    BY <2>1, <2>2, BlockOutcome
  <2> QED BY <1>9, <2>3, FailureOk
<1>10. ParseClientHello(w) = Tests(w, ciphers, comp, exts, x)
  BY ParseIs DEF ciphers, comp, exts
<1> HIDE DEF x
<1>11. Failure(Tests(w, ciphers, comp, exts, x))
  BY <1>9, <1>10, TestsOutcome, Zenon
<1> QED BY <1>10, <1>11, Zenon

-----------------------------------------------------------------------------
(* The type invariant.                                                     *)

(* The part of the type invariant that RInv does not say. *)
TypeInv ==
    /\ phase \in [Handshakes -> {"new", "sent", "closed", "panic"} \cup HandshakeError]
    /\ \A h \in Handshakes :
          /\ phase[h] = "new" <=> profile[h] = None
          /\ Started(h) => Len(profile[h][1].short) <= SID_SHORT_ID_LEN
    /\ \A c \in Conns :
          /\ srv[c].state \in {"accept", "serving", "failed"}
          /\ srv[c].err # None => srv[c].err[1] \in ServerError
          /\ srv[c].seq_in = srv[c].seq_out

(* A run that refuses a hello names one of its errors. *)
LEMMA JudgeErrors ==
    ASSUME NEW w \in ByteStrings, ~Judge(w, ParseClientHello(w)).ok
    PROVE  Judge(w, ParseClientHello(w)).err \in ServerError
<1>1. PICK p : p = ParseClientHello(w)
  OBVIOUS
<1>2. ~p.ok => p.err \in TlsError
  BY <1>1, ParseOutcome, FailureOk
<1>3. PICK auth : auth = AuthKey(DH(Static, Named(p.ephemeral_public)), p.random)
  OBVIOUS
<1>4. PICK open : open = Unseal(auth, p.random, ZeroSid(w), p.session_id)
  OBVIOUS
<1>5. PICK good : good = [ok |-> TRUE, auth |-> auth, session_id |-> Named(p.session_id),
                          share |-> Named(p.ephemeral_public)]
  BY Zenon
<1>6. good.ok
  BY <1>5, Zenon
<1> DEFINE Bad(e) == Judge(w, p) = Err(e)
<1>7. \/ ~p.ok /\ Judge(w, p) = p
      \/ Bad("no SNI offered") \/ Bad("session id is not 32 bytes") \/ Bad("session id rejected")
      \/ Bad("client version mismatch") \/ Bad("short id not on the allowlist") \/ Judge(w, p) = good
  BY <1>3, <1>4, <1>5, Zenon DEF Judge
<1>8. \A e : Err(e).err = e
  BY DEF Err
<1>9. /\ "no SNI offered" \in ServerError /\ "session id is not 32 bytes" \in ServerError
      /\ "session id rejected" \in ServerError /\ "short id not on the allowlist" \in ServerError
      /\ "client version mismatch" \in ServerError /\ TlsError \subseteq ServerError
  BY DEF ServerError
<1>10. ~Judge(w, p).ok
  BY <1>1
<1> QED BY <1>1, <1>2, <1>6, <1>7, <1>8, <1>9, <1>10, Zenon

(* Initiate fails with one of its errors, or makes a hello of a short id   *)
(* that fits.                                                              *)
LEMMA InitiateErrors ==
    ASSUME NEW h \in Handshakes, NEW p \in Profiles[h]
    PROVE  /\ ~Initiate(h, p).ok => Initiate(h, p).err \in {"panic"} \cup HandshakeError
           /\ Initiate(h, p).ok => Len(Initiate(h, p).params.short) <= SID_SHORT_ID_LEN
<1>1. PICK q : q = IntoParams(p)
  OBVIOUS
<1>2. PICK hello : hello = HelloFor(h, q)
  OBVIOUS
<1>3. ~q.ok => q.err \in HandshakeError
  BY <1>1 DEF IntoParams, Err, HandshakeError
<1>4. PICK good : good = [ok |-> TRUE, params |-> q, wire |-> PatchSid(hello.wire, Field(SidName(h)))]
  BY Zenon
<1>5. good.ok /\ good.params = q
  BY <1>4
<1>6. \A e : Err(e).err = e /\ ~Err(e).ok
  BY DEF Err
<1> DEFINE Bad(e) == Initiate(h, p) = Err(e)
<1>7. \/ ~q.ok /\ Initiate(h, p) = q
      \/ Bad("BadShortId") \/ Bad("BadServerKey") \/ Bad("EphemeralKeyFailed")
      \/ Bad("panic") \/ Bad("SealFailed")
      \/ ShortIdFits(q.short) /\ Initiate(h, p) = good
  BY <1>1, <1>2, <1>4, Zenon DEF Initiate
<1>8. /\ "BadShortId" \in HandshakeError /\ "BadServerKey" \in HandshakeError
      /\ "EphemeralKeyFailed" \in HandshakeError /\ "SealFailed" \in HandshakeError
      /\ HandshakeError \subseteq {"panic"} \cup HandshakeError /\ "panic" \in {"panic"} \cup HandshakeError
  BY DEF HandshakeError
<1>9. ShortIdFits(q.short) => Len(q.short) <= SID_SHORT_ID_LEN
  <2>1. PICK n : n = Len(q.short)
    OBVIOUS
  <2>2. n \in 1..8 => n <= 8
    OBVIOUS
  <2> QED BY <2>1, <2>2, Zenon DEF ShortIdFits, SID_SHORT_ID_LEN
<1>10. CASE ShortIdFits(q.short) /\ Initiate(h, p) = good
  BY <1>5, <1>9, <1>10, Zenon
<1>11. CASE ~q.ok /\ Initiate(h, p) = q
  BY <1>3, <1>8, <1>11, Zenon
<1>12. CASE \/ Bad("BadShortId") \/ Bad("BadServerKey") \/ Bad("EphemeralKeyFailed")
            \/ Bad("panic") \/ Bad("SealFailed")
  BY <1>6, <1>8, <1>12, Zenon
<1> QED BY <1>7, <1>10, <1>11, <1>12, Zenon

(* A sent hello is bytes, long enough for its session id. *)
LEMMA SentBytes ==
    ASSUME RInv, NEW g \in Handshakes, phase[g] = "sent"
    PROVE  wire_hello[g] \in ByteStrings /\ Len(wire_hello[g]) >= 46
<1>1. PICK hello : hello = HelloFor(g, profile[g][1]).wire
  OBVIOUS
<1>2. /\ hello \in ByteStrings /\ Len(hello) >= 46
      /\ wire_hello[g] = PatchSid(hello, Field(SidName(g)))
  BY <1>1 DEF RInv, ClientInv, InUse, ByteStrings
<1>3. SidName(g) \in Nat
  BY Numbers DEF SidName
<1> QED BY <1>2, <1>3, Patched

(* Connect is the only step that changes a profile. *)
LEMMA ConnectTyped ==
    ASSUME RInv, TypeInv, NEW g \in Handshakes, Connect(g)
    PROVE  TypeInv'
<1>1. srv' = srv
  BY DEF Connect
<1>2. PICK p \in Profiles[g] :
         LET r == Initiate(g, p) IN
         \/ /\ r.ok
            /\ phase' = [phase EXCEPT ![g] = "sent"]
            /\ profile' = [profile EXCEPT ![g] = Some(r.params)]
            /\ wire_hello' = [wire_hello EXCEPT ![g] = r.wire]
         \/ /\ ~r.ok
            /\ phase' = [phase EXCEPT ![g] = r.err]
            /\ profile' = [profile EXCEPT ![g] = Some(p)]
            /\ UNCHANGED wire_hello
  BY DEF Connect
<1>3. PICK r : r = Initiate(g, p)
  OBVIOUS
<1>4. /\ ~r.ok => r.err \in {"panic"} \cup HandshakeError
      /\ r.ok => Len(r.params.short) <= SID_SHORT_ID_LEN
  BY <1>3, InitiateErrors
<1>5. /\ DOMAIN phase = Handshakes /\ DOMAIN profile = Handshakes /\ DOMAIN wire_hello = Handshakes
      /\ ~Started(g)
  BY DEF RInv, ClientInv, Connect, InUse
<1>6. \A h \in Handshakes : h # g =>
         phase'[h] = phase[h] /\ profile'[h] = profile[h] /\ wire_hello'[h] = wire_hello[h]
  BY DEF Connect, RInv, ClientInv
<1>7. "new" \notin {"panic"} \cup HandshakeError
  BY DEF HandshakeError
<1>8. /\ phase'[g] \in {"new", "sent", "closed", "panic"} \cup HandshakeError
      /\ phase'[g] # "new" /\ profile'[g] # None
      /\ Started(g)' => Len(profile'[g][1].short) <= SID_SHORT_ID_LEN
  <2>1. CASE r.ok
    <3>1. phase'[g] = "sent" /\ profile'[g] = Some(r.params)
      BY <1>2, <1>3, <1>5, <2>1
    <3> QED BY <1>4, <2>1, <3>1, Options
  <2>2. CASE ~r.ok
    <3>1. phase'[g] = r.err /\ profile'[g] = Some(p) /\ wire_hello' = wire_hello
      BY <1>2, <1>3, <1>5, <2>2
    <3> QED BY <1>4, <1>5, <1>7, <2>2, <3>1, Options DEF Started
  <2> QED BY <2>1, <2>2
<1>9. phase' \in [Handshakes -> {"new", "sent", "closed", "panic"} \cup HandshakeError]
  <2>1. phase' = [h \in Handshakes |-> phase'[h]]
    BY <1>2, <1>5
  <2>2. \A h \in Handshakes : phase'[h] \in {"new", "sent", "closed", "panic"} \cup HandshakeError
    BY <1>6, <1>8 DEF TypeInv
  <2> QED BY <2>1, <2>2
<1>10. \A h \in Handshakes :
          /\ phase'[h] = "new" <=> profile'[h] = None
          /\ Started(h)' => Len(profile'[h][1].short) <= SID_SHORT_ID_LEN
  BY <1>6, <1>8 DEF TypeInv, Started
<1> QED BY <1>1, <1>9, <1>10 DEF TypeInv

(* The other steps of a client leave its profile, and end it at most. *)
LEMMA ClientTyped ==
    ASSUME RInv, TypeInv, NEW g \in Handshakes, Complete(g) \/ SealRecord(g) \/ OpenRecord(g)
    PROVE  TypeInv'
<1>1. UNCHANGED <<profile, wire_hello, srv>>
  BY DEF Complete, SealRecord, OpenRecord, client
<1>2. phase' = phase \/ (phase[g] = "sent" /\ phase' = [phase EXCEPT ![g] = "closed"])
  BY DEF Complete, SealRecord, OpenRecord, client
<1>3. /\ phase' \in [Handshakes -> {"new", "sent", "closed", "panic"} \cup HandshakeError]
      /\ \A h \in Handshakes : phase'[h] = "new" <=> phase[h] = "new"
  BY <1>2 DEF TypeInv
<1> QED BY <1>1, <1>3 DEF TypeInv, Started

(* A run fails with one of its errors, and counts both ways together. *)
LEMMA ServerTyped ==
    ASSUME RInv, TypeInv, NEW c \in Conns, ServerHello(c) \/ ServerRecord(c)
    PROVE  TypeInv'
<1>1. UNCHANGED <<phase, profile, wire_hello>>
  BY DEF ServerHello, ServerRecord, client
<1>2. PICK s : s = srv[c]
  OBVIOUS
<1>3. /\ s = [state |-> s.state, err |-> s.err, read |-> s.read, session_id |-> s.session_id,
              keys |-> s.keys, seq_in |-> s.seq_in, seq_out |-> s.seq_out]
      /\ DOMAIN srv = Conns
  BY <1>2 DEF RInv, ServerInv
<1>4. /\ \A d \in Conns : d # c => srv'[d] = srv[d]
      /\ srv'[c].state \in {"accept", "serving", "failed"}
      /\ srv'[c].err # None => srv'[c].err[1] \in ServerError
      /\ srv'[c].seq_in = srv'[c].seq_out
  <2>0. /\ s.err # None => s.err[1] \in ServerError
        /\ s.seq_in = s.seq_out /\ s.state \in {"accept", "serving", "failed"}
    BY <1>2 DEF TypeInv
  <2>1. CASE ServerHello(c)
    <3>1. PICK g \in Handshakes : phase[g] = "sent" /\ \E w \in Damaged(wire_hello[g]) :
             Answer(c, Read(g, w), Judge(w, ParseClientHello(w)))
      BY <2>1 DEF ServerHello
    <3>2. PICK w \in Damaged(wire_hello[g]) : Answer(c, Read(g, w), Judge(w, ParseClientHello(w)))
      BY <3>1
    <3>3. PICK j : j = Judge(w, ParseClientHello(w))
      OBVIOUS
    <3>4. PICK read : read = Read(g, w)
      OBVIOUS
    <3>5. w \in ByteStrings
      <4>1. wire_hello[g] \in ByteStrings /\ Len(wire_hello[g]) >= 46
        BY <3>1, SentBytes
      <4> QED BY <4>1, Damage
    <3>6. ~j.ok => j.err \in ServerError
      BY <3>3, <3>5, JudgeErrors
    <3>a. PICK keys : keys = RecordKeys(SessionIdentity(j.session_id, DH(ServerEph(c), j.share)))
      OBVIOUS
    <3>b. PICK id : id = j.session_id
      OBVIOUS
    <3>7. \/ srv' = [srv EXCEPT ![c] = [@ EXCEPT !.state = "serving", !.read = read,
                                        !.session_id = id, !.keys = Some(keys)]]
          \/ ~j.ok /\ srv' = [srv EXCEPT ![c] = [@ EXCEPT !.state = "failed",
                                        !.read = read, !.err = Some(j.err)]]
      BY <3>2, <3>3, <3>4, <3>a, <3>b DEF Answer
    <3>8. \A d \in Conns : d # c => srv'[d] = srv[d]
      BY <1>3, <3>7
    <3>9. CASE srv' = [srv EXCEPT ![c] = [@ EXCEPT !.state = "serving", !.read = read,
                                        !.session_id = id, !.keys = Some(keys)]]
      <4>1. srv'[c] = [s EXCEPT !.state = "serving", !.read = read,
                                        !.session_id = id, !.keys = Some(keys)]
        BY <1>2, <1>3, <3>9
      <4>2. /\ srv'[c].state = "serving" /\ srv'[c].err = s.err
            /\ srv'[c].seq_in = s.seq_in /\ srv'[c].seq_out = s.seq_out
        BY <1>3, <4>1
      <4> QED BY <2>0, <3>8, <4>2
    <3>10. CASE ~j.ok /\ srv' = [srv EXCEPT ![c] = [@ EXCEPT !.state = "failed",
                                        !.read = read, !.err = Some(j.err)]]
      <4>1. srv'[c] = [s EXCEPT !.state = "failed", !.read = read, !.err = Some(j.err)]
        BY <1>2, <1>3, <3>10
      <4>2. /\ srv'[c].state = "failed" /\ srv'[c].err = Some(j.err)
            /\ srv'[c].seq_in = s.seq_in /\ srv'[c].seq_out = s.seq_out
        BY <1>3, <4>1
      <4> QED BY <2>0, <3>6, <3>8, <3>10, <4>2, Options
    <3> QED BY <3>7, <3>9, <3>10
  <2>2. CASE ServerRecord(c)
    <3>1. \/ srv' = [srv EXCEPT ![c].seq_in = @ + 1, ![c].seq_out = @ + 1]
          \/ srv' = [srv EXCEPT ![c] = [@ EXCEPT !.state = "failed",
                                                 !.err = Some("record failed to open")]]
      BY <2>2 DEF ServerRecord
    <3>2. CASE srv' = [srv EXCEPT ![c].seq_in = @ + 1, ![c].seq_out = @ + 1]
      <4>1. /\ srv'[c] = [s EXCEPT !.seq_in = @ + 1, !.seq_out = @ + 1]
            /\ \A d \in Conns : d # c => srv'[d] = srv[d]
        BY <1>2, <1>3, <3>2
      <4>2. /\ srv'[c].state = s.state /\ srv'[c].err = s.err
            /\ srv'[c].seq_in = s.seq_in + 1 /\ srv'[c].seq_out = s.seq_out + 1
        BY <1>3, <4>1
      <4> QED BY <2>0, <4>1, <4>2
    <3>3. CASE srv' = [srv EXCEPT ![c] = [@ EXCEPT !.state = "failed",
                                                 !.err = Some("record failed to open")]]
      <4>1. /\ srv'[c] = [s EXCEPT !.state = "failed", !.err = Some("record failed to open")]
            /\ \A d \in Conns : d # c => srv'[d] = srv[d]
        BY <1>2, <1>3, <3>3
      <4>2. /\ srv'[c].state = "failed" /\ srv'[c].err = Some("record failed to open")
            /\ srv'[c].seq_in = s.seq_in /\ srv'[c].seq_out = s.seq_out
        BY <1>3, <4>1
      <4>3. "record failed to open" \in ServerError
        BY DEF ServerError
      <4>4. srv'[c].err[1] \in ServerError
        <5>1. PICK m : m = "record failed to open"
          OBVIOUS
        <5>2. srv'[c].err = Some(m) /\ Some(m)[1] = m
          BY <4>2, <5>1, Options, Zenon
        <5> QED BY <4>3, <5>1, <5>2, Zenon
      <4> QED BY <2>0, <4>1, <4>2, <4>4, Zenon
    <3> QED BY <3>1, <3>2, <3>3
  <2> QED BY <2>1, <2>2
<1>5. \A d \in Conns :
         /\ srv'[d].state \in {"accept", "serving", "failed"}
         /\ srv'[d].err # None => srv'[d].err[1] \in ServerError
         /\ srv'[d].seq_in = srv'[d].seq_out
  BY <1>4 DEF TypeInv
<1> QED BY <1>1, <1>5 DEF TypeInv, Started

(* The part of the type invariant that the other invariants do not have. *)
LEMMA AlwaysTyped == Spec => []TypeInv
<1>1. Init => TypeInv
  BY DEF Init, TypeInv, Started, NewServer, None
<1>2. RInv /\ TypeInv /\ [Next]_vars => TypeInv'
  <2> SUFFICES ASSUME RInv, TypeInv, [Next]_vars PROVE TypeInv'
    OBVIOUS
  <2>1. CASE UNCHANGED vars
    <3>1. UNCHANGED <<phase, profile, wire_hello, srv>>
      BY <2>1 DEF vars, client
    <3> QED BY <3>1 DEF TypeInv, Started
  <2>2. CASE Next
    BY <2>2, ConnectTyped, ClientTyped, ServerTyped DEF Next
  <2> QED BY <2>1, <2>2
<1> QED BY <1>1, <1>2, AlwaysRInv, PTL DEF Spec

(* Handshakes (handshake.rs) and server runs (test_server.rs) keep to      *)
(* their states: initiate fails only with an error of its own or the panic *)
(* of the builder, a run only with an error of the parser (tls.rs) or of   *)
(* its own, whatever bytes it is given, and a short id that was sealed     *)
(* fits its eight bytes.                                                   *)
THEOREM TypeCorrect == Spec => []TypeOK
<1>1. RInv /\ TypeInv => TypeOK
  BY DEF RInv, ClientInv, ServerInv, TypeInv, TypeOK
<1> QED BY <1>1, AlwaysRInv, AlwaysTyped, PTL

-----------------------------------------------------------------------------
(* What lies where in a string of bytes.                                   *)

(* s lies in w at offset o. *)
Has(w, o, s) == o + Len(s) <= Len(w) /\ \A i \in 1..Len(s) : w[o + i] = s[i]

(* What lies there lies there in parts. *)
LEMMA HasSplit ==
    ASSUME NEW w \in ByteStrings, NEW s \in ByteStrings, NEW t \in ByteStrings, NEW o \in Nat,
           Has(w, o, s \o t)
    PROVE  Has(w, o, s) /\ Has(w, o + Len(s), t)
<1>1. PICK m \in Nat, n \in Nat : m = Len(s) /\ n = Len(t)
  BY DEF ByteStrings
<1>2. PICK u : u = s \o t
  OBVIOUS
<1>3. /\ Len(u) = m + n
      /\ \A i \in 1..m : i \in 1..(m + n) /\ u[i] = s[i]
      /\ \A i \in 1..n : m + i \in 1..(m + n) /\ u[m + i] = t[i]
  BY <1>1, <1>2 DEF ByteStrings
<1>4. PICK l \in Nat : l = Len(w)
  BY DEF ByteStrings
<1>5. o + (m + n) <= l /\ \A i \in 1..(m + n) : w[o + i] = u[i]
  BY <1>2, <1>3, <1>4 DEF Has
<1>6. o + m <= l /\ \A i \in 1..m : w[o + i] = s[i]
  BY <1>3, <1>5
<1>7. (o + m) + n <= l /\ \A i \in 1..n : w[(o + m) + i] = t[i]
  <2>1. \A i \in 1..n : w[o + (m + i)] = t[i]
    BY <1>3, <1>5
  <2>2. \A i \in 1..n : o + (m + i) = (o + m) + i
    OBVIOUS
  <2> QED BY <1>5, <2>1, <2>2
<1> QED BY <1>1, <1>4, <1>6, <1>7 DEF Has

(* A string lies in itself. *)
LEMMA HasAll == ASSUME NEW w \in ByteStrings PROVE Has(w, 0, w)
BY DEF Has, ByteStrings

(* The bytes of what lies at an offset. *)
LEMMA HasAt ==
    ASSUME NEW w \in ByteStrings, NEW o \in Nat, NEW s \in ByteStrings, Has(w, o, s)
    PROVE  \A i \in Nat : i < Len(s) => At(w, o + i) = s[i + 1]
<1> TAKE i \in Nat
<1> SUFFICES ASSUME i < Len(s) PROVE At(w, o + i) = s[i + 1]
  OBVIOUS
<1>1. PICK m \in Nat, l \in Nat : m = Len(s) /\ l = Len(w)
  BY DEF ByteStrings
<1>2. o + m <= l /\ \A j \in 1..m : w[o + j] = s[j]
  BY <1>1 DEF Has
<1>3. i + 1 \in 1..m /\ o + (i + 1) = (o + i) + 1 /\ o + i < l
  BY <1>1, <1>2
<1>4. w[(o + i) + 1] = s[i + 1]
  BY <1>2, <1>3
<1> QED BY <1>1, <1>3, <1>4 DEF At

(* Strings are equal if their bytes are. *)
LEMMA SameBytes ==
    ASSUME NEW s \in ByteStrings, NEW t \in ByteStrings, NEW n \in Nat, Len(s) = n, Len(t) = n,
           \A i \in 1..n : s[i] = t[i]
    PROVE  s = t
<1>1. s = [i \in 1..n |-> s[i]]
  BY DEF ByteStrings
<1>2. t = [i \in 1..n |-> t[i]]
  BY DEF ByteStrings
<1>3. [i \in 1..n |-> s[i]] = [i \in 1..n |-> t[i]]
  OBVIOUS
<1> QED BY <1>1, <1>2, <1>3, Zenon

(* What lies at an offset is what is taken from there. *)
LEMMA HasTake ==
    ASSUME NEW w \in ByteStrings, NEW o \in Nat, NEW s \in ByteStrings, Has(w, o, s)
    PROVE  Take(w, o, Len(s)) = s
<1>1. PICK m \in Nat, l \in Nat : m = Len(s) /\ l = Len(w)
  BY DEF ByteStrings
<1>2. o + m <= l /\ \A j \in 1..m : w[o + j] = s[j]
  BY <1>1 DEF Has
<1>3. PICK u : u = Take(w, o, m)
  OBVIOUS
<1>4. u \in ByteStrings /\ Len(u) = m /\ \A j \in 1..m : u[j] = w[o + j]
  BY <1>1, <1>2, <1>3, Taken
<1>5. \A j \in 1..m : u[j] = s[j]
  BY <1>2, <1>4
<1>6. u = s
  BY <1>1, <1>4, <1>5, SameBytes
<1> QED BY <1>1, <1>3, <1>6

(* A length that two bytes can hold. *)
Fits(n) == n < 256 * 256

(* A length written in two bytes is read back. *)
LEMMA HasBe16 ==
    ASSUME NEW w \in ByteStrings, NEW o \in Nat, NEW n \in Nat, Fits(n), Has(w, o, Be16(n))
    PROVE  U16(w, o) = n
<1>0. PICK a, b : a = (n \div 256) % 256 /\ b = n % 256
  OBVIOUS
<1>1. a \in Nat /\ b \in Nat /\ 256 * a + b = n
  BY <1>0 DEF Fits
<1>2. PICK s : s = Be16(n)
  BY Zenon
<1>3. s = Be16(n) /\ s \in ByteStrings /\ Len(s) = 2 /\ s[1] = a /\ s[2] = b
  <2>1. s = <<a, b>>
    BY <1>0, <1>2, Zenon DEF Be16
  <2>2. <<a, b>> \in Seq(Nat) /\ Len(<<a, b>>) = 2 /\ <<a, b>>[1] = a /\ <<a, b>>[2] = b
    BY <1>1
  <2> QED BY <1>2, <2>1, <2>2, Zenon DEF ByteStrings
<1>4. Has(w, o, s)
  BY <1>3
<1>5. \A i \in Nat : i < 2 => At(w, o + i) = s[i + 1]
  <2>1. s \in ByteStrings /\ Len(s) = 2
    BY <1>3
  <2> QED BY <1>4, <2>1, HasAt
<1>6. At(w, o + 0) = s[0 + 1] /\ At(w, o + 1) = s[1 + 1]
  BY <1>5
<1>7. At(w, o) = a /\ At(w, o + 1) = b
  <2>1. s[1] = a /\ s[2] = b
    BY <1>3
  <2>2. o + 0 = o /\ 0 + 1 = 1 /\ 1 + 1 = 2
    OBVIOUS
  <2> QED BY <1>6, <2>1, <2>2
<1> QED BY <1>1, <1>7 DEF U16

(* So is a byte. *)
LEMMA HasByte ==
    ASSUME NEW w \in ByteStrings, NEW o \in Nat, NEW a \in Nat, Has(w, o, <<a>>)
    PROVE  At(w, o) = a
<1>1. <<a>> \in ByteStrings /\ Len(<<a>>) = 1 /\ <<a>>[1] = a
  BY DEF ByteStrings
<1>2. \A i \in Nat : i < 1 => At(w, o + i) = <<a>>[i + 1]
  BY <1>1, HasAt
<1>3. At(w, o + 0) = <<a>>[0 + 1]
  BY <1>2
<1> QED BY <1>1, <1>3

(* Joining adds lengths. *)
LEMMA JoinedLen ==
    ASSUME NEW s \in ByteStrings, NEW t \in ByteStrings, NEW m \in Nat, NEW n \in Nat,
           Len(s) = m, Len(t) = n
    PROVE  s \o t \in ByteStrings /\ Len(s \o t) = m + n
BY Joined, LongerJoined

(* The lengths of the pieces a hello is built of. *)
LEMMA Widths ==
    /\ \A n \in Nat : Len(Be16(n)) = 2 /\ Len(Be24(n)) = 3
    /\ \A k : Len(<<k>>) = 1
    /\ \A j, k : Len(<<j, k>>) = 2
    /\ \A i, j, k : Len(<<i, j, k>>) = 3
<1>1. \A n \in Nat : Len(Be16(n)) = 2 /\ Be16(n) \in Seq(Nat)
  BY DEF Be16
<1>2. ASSUME NEW n \in Nat PROVE Len(Be24(n)) = 3
  <2>1. PICK a \in Nat : a = (n \div 65536) % 256
    OBVIOUS
  <2>2. PICK s \in Seq(Nat) : s = Be16(n) /\ Len(s) = 2
    BY <1>1
  <2>3. Be24(n) = <<a>> \o s
    BY <2>1, <2>2 DEF Be24
  <2>4. <<a>> \in Seq(Nat) /\ Len(<<a>>) = 1
    OBVIOUS
  <2>5. PICK t \in Seq(Nat) : t = <<a>> /\ Len(t) = 1
    BY <2>4
  <2>6. Len(t \o s) = 3
    <3>0. t \in ByteStrings /\ s \in ByteStrings /\ 1 \in Nat /\ 2 \in Nat
      BY DEF ByteStrings
    <3>1. Len(t \o s) = 1 + 2
      <4>1. PICK m \in Nat, k \in Nat : m = Len(t) /\ k = Len(s)
        BY <2>2, <2>5
      <4>2. Len(t \o s) = m + k
        BY <3>0, <4>1, JoinedLen
      <4>3. m = 1 /\ k = 2
        BY <2>2, <2>5, <4>1
      <4> QED BY <4>2, <4>3
    <3> QED BY <3>1
  <2> QED BY <2>3, <2>5, <2>6
<1> QED BY <1>1, <1>2

-----------------------------------------------------------------------------
(* The walk over an extension block, extension by extension.               *)

(* A string of n bytes. *)
Wide(s, n) == s \in ByteStrings /\ Len(s) = n

(* Joining adds widths. *)
LEMMA WideJoined ==
    ASSUME NEW s, NEW t, NEW m \in Nat, NEW n \in Nat, Wide(s, m), Wide(t, n)
    PROVE  Wide(s \o t, m + n)
BY JoinedLen DEF Wide

(* The widths of the pieces. *)
LEMMA WideParts ==
    /\ \A n \in Nat : Wide(Be16(n), 2) /\ Wide(Be24(n), 3) /\ Wide(Zeros(n), n) /\ Wide(<<n>>, 1)
    /\ \A m, n \in Nat : Wide(<<m, n>>, 2)
    /\ \A l, m, n \in Nat : Wide(<<l, m, n>>, 3)
    /\ \A k \in Nat : Wide(Field(k), 32)
<1>1. \A n \in Nat : Be16(n) \in ByteStrings /\ Len(Be16(n)) = 2
  BY Joined, Widths
<1>2. \A n \in Nat : Be24(n) \in ByteStrings /\ Len(Be24(n)) = 3
  BY Joined, Widths
<1>3. \A n \in Nat : Zeros(n) \in ByteStrings /\ Len(Zeros(n)) = n
  BY Joined, Bytes
<1>4. \A n \in Nat : <<n>> \in ByteStrings /\ Len(<<n>>) = 1
  BY Joined, Widths
<1>5. \A m, n \in Nat : <<m, n>> \in ByteStrings /\ Len(<<m, n>>) = 2
  BY Joined, Widths
<1>6. \A l, m, n \in Nat : <<l, m, n>> \in ByteStrings /\ Len(<<l, m, n>>) = 3
  BY Joined, Widths
<1>7. \A k \in Nat : Field(k) \in ByteStrings /\ Len(Field(k)) = 32
  BY Joined, Bytes
<1> QED BY <1>1, <1>2, <1>3, <1>4, <1>5, <1>6, <1>7, Zenon DEF Wide

(* Two joined strings lie one behind the other. *)
LEMMA Split ==
    ASSUME NEW w \in ByteStrings, NEW s, NEW t, NEW m \in Nat, NEW n \in Nat, Wide(s, m), Wide(t, n),
           NEW o \in Nat, Has(w, o, s \o t)
    PROVE  Has(w, o, s) /\ Has(w, o + m, t)
<1>1. s \in ByteStrings /\ t \in ByteStrings /\ Len(s) = m
  BY DEF Wide
<1>2. Has(w, o, s) /\ Has(w, o + Len(s), t)
  BY <1>1, HasSplit
<1> QED BY <1>1, <1>2

(* An extension is a type, a length and a body. *)
LEMMA WideExtension ==
    ASSUME NEW type \in Nat, NEW d, NEW n \in Nat, Wide(d, n)
    PROVE  /\ Extension(type, d) = Be16(type) \o Be16(n) \o d
           /\ Wide(Extension(type, d), 4 + n)
<1>1. Extension(type, d) = Be16(type) \o Be16(n) \o d
  BY DEF Extension, Wide
<1>2. Wide(Be16(type), 2) /\ Wide(Be16(n), 2)
  BY WideParts
<1>3. Wide(Be16(type) \o Be16(n), 2 + 2)
  BY <1>2, WideJoined
<1>4. PICK s : s = Be16(type) \o Be16(n)
  OBVIOUS
<1>5. Wide(s, 4)
  BY <1>3, <1>4
<1>6. Wide(s \o d, 4 + n)
  BY <1>5, WideJoined
<1> QED BY <1>1, <1>4, <1>6, Zenon

(* An extension in a string is read back: its type, its length, its body. *)
LEMMA ExtensionRead ==
    ASSUME NEW w \in ByteStrings, NEW p \in Nat, NEW type \in Nat, Fits(type),
           NEW d, NEW n \in Nat, Fits(n), Wide(d, n), Has(w, p, Extension(type, d))
    PROVE  /\ U16(w, p) = type /\ U16(w, p + 2) = n /\ Take(w, p + 4, n) = d
           /\ p + 4 + n <= Len(w)
<1>1. Has(w, p, Be16(type) \o Be16(n) \o d)
  BY WideExtension
<1>2. PICK s : s = Be16(type) \o Be16(n)
  OBVIOUS
<1>3. Wide(Be16(type), 2) /\ Wide(Be16(n), 2)
  BY WideParts
<1>4. Wide(s, 4)
  <2>1. Wide(s, 2 + 2)
    BY <1>2, <1>3, WideJoined
  <2> QED BY <2>1
<1>5. Has(w, p, s \o d)
  BY <1>1, <1>2, Zenon
<1>6. Has(w, p, s) /\ Has(w, p + 4, d)
  BY <1>4, <1>5, Split
<1>7. Has(w, p, Be16(type)) /\ Has(w, p + 2, Be16(n))
  BY <1>2, <1>3, <1>6, Split
<1>8. U16(w, p) = type
  BY <1>7, HasBe16
<1>9. p + 2 \in Nat /\ p + 4 \in Nat
  OBVIOUS
<1>10. U16(w, p + 2) = n
  BY <1>7, <1>9, HasBe16
<1>11. d \in ByteStrings /\ Len(d) = n
  BY DEF Wide
<1>12. Take(w, p + 4, Len(d)) = d
  BY <1>6, <1>9, <1>11, HasTake
<1>13. p + 4 + n <= Len(w)
  BY <1>6, <1>11 DEF Has
<1> QED BY <1>8, <1>10, <1>11, <1>12, <1>13

(* The walk over the extension block of a hello. *)
Walk(w, f) == w \in ByteStrings /\ Len(w) >= 114 /\ Blocks(w, 114, Len(w) - 114, 0, f)

(* The walk over one well-formed extension. *)
LEMMA WalkStep ==
    ASSUME NEW w, NEW f, Walk(w, f), NEW p \in Nat, NEW type \in Nat, Fits(type),
           NEW d, NEW n \in Nat, Fits(n), Wide(d, n), Has(w, p, Extension(type, d)),
           ReadExtension(type, d).ok, f[p + 4 + n].ok
    PROVE  f[p] = Merged(f[p + 4 + n], ReadExtension(type, d))
<1>1. w \in ByteStrings
  BY DEF Walk
<1>2. /\ U16(w, p) = type /\ U16(w, p + 2) = n /\ Take(w, p + 4, n) = d
      /\ p + 4 + n <= Len(w)
  BY <1>1, ExtensionRead
<1>3. PICK l \in Nat : l = Len(w) /\ l >= 114
  BY <1>1, BytesRead DEF Walk
<1>4. PICK total : total = l - 114
  OBVIOUS
<1>5. 114 + total = l /\ p \in 0..l /\ ~(p >= 114 + total) /\ ~(l < p + 4)
      /\ ~(p + 4 + n > 114 + total) /\ ~(l < p + 4 + n)
  BY <1>2, <1>3, <1>4
<1>6. f = [q \in 0..l |-> BlockAt(w, 114, total, f, q)]
  BY <1>3, <1>4 DEF Walk, Blocks
<1>7. f[p] = BlockAt(w, 114, total, f, p)
  BY <1>5, <1>6
<1>8. BlockAt(w, 114, total, f, p) = Merged(f[p + 4 + n], ReadExtension(type, d))
  BY <1>2, <1>3, <1>5, Zenon DEF BlockAt, Merged
<1> QED BY <1>7, <1>8, Zenon

(* The walk ends at the end of the string. *)
LEMMA WalkEnd ==
    ASSUME NEW w, NEW f, Walk(w, f)
    PROVE  f[Len(w)] = [Nothing EXCEPT !.pos = Len(w)]
<1>1. PICK l \in Nat : l = Len(w) /\ l >= 114
  BY BytesRead DEF Walk
<1>2. PICK total : total = l - 114
  OBVIOUS
<1>3. l >= 114 + total /\ l \in 0..l
  BY <1>1, <1>2
<1>4. f = [q \in 0..l |-> BlockAt(w, 114, total, f, q)]
  BY <1>1, <1>2 DEF Walk, Blocks
<1>5. f[l] = BlockAt(w, 114, total, f, l)
  BY <1>3, <1>4
<1>6. BlockAt(w, 114, total, f, l) = [Nothing EXCEPT !.pos = l]
  BY <1>3, Zenon DEF BlockAt
<1> QED BY <1>1, <1>5, <1>6, Zenon

(* A reading that an extension of no interest leaves as it is. *)
Plain(x) == \E s, k, p : \E v \in BOOLEAN : x = Says(TRUE, s, k, v, p)

(* Nothing changes no reading. *)
LEMMA PlainKept ==
    ASSUME NEW x, Plain(x)
    PROVE  x.ok /\ Merged(x, Nothing) = x
<1>1. PICK s, k, p : \E v \in BOOLEAN : x = Says(TRUE, s, k, v, p)
  BY Zenon DEF Plain
<1>2. PICK v \in BOOLEAN : x = Says(TRUE, s, k, v, p)
  BY <1>1, Zenon
<1>3. PICK t : t = TRUE
  BY Zenon
<1>4. x = Says(t, s, k, v, p)
  BY <1>2, <1>3, Zenon
<1>5. Merged(x, Nothing) = Says(t, SniOf(s, Nothing), ShareOf(k, Nothing), Tls13Of(v, Nothing), p)
  BY <1>4, MergedSays
<1>6. Nothing.sni = None /\ Nothing.share = None /\ Nothing.tls13 = FALSE
  BY DEF Nothing
<1>7. SniOf(s, Nothing) = s
  BY <1>6, Zenon DEF SniOf
<1>8. ShareOf(k, Nothing) = k
  BY <1>6, Zenon DEF ShareOf
<1>9. Tls13Of(v, Nothing) = v
  BY <1>6, Zenon DEF Tls13Of
<1>10. Says(t, s, k, v, p).ok = t
  BY DEF Says
<1> QED BY <1>3, <1>4, <1>5, <1>7, <1>8, <1>9, <1>10, Zenon

(* Extensions that the parser steps over. *)
Skipped(s, n) ==
    /\ Wide(s, n)
    /\ \A w, f : \A p \in Nat :
          Walk(w, f) /\ Has(w, p, s) /\ Plain(f[p + n]) => f[p] = f[p + n]

(* An extension nobody reads is skipped. *)
LEMMA SkipBlank ==
    ASSUME NEW type \in Nat, Fits(type), NEW n \in Nat, Fits(n),
           type \notin {EXT_SERVER_NAME, EXT_KEY_SHARE, EXT_SUPPORTED_VERSIONS}
    PROVE  Skipped(Blank(type, n), 4 + n)
<1>1. PICK d : d = Zeros(n)
  OBVIOUS
<1>2. Wide(d, n) /\ Blank(type, n) = Extension(type, d)
  BY <1>1, WideParts DEF Blank
<1>3. Wide(Blank(type, n), 4 + n)
  BY <1>2, WideExtension
<1>4. ReadExtension(type, d) = Nothing
  BY DEF ReadExtension
<1>5. ASSUME NEW w, NEW f, NEW p \in Nat, Walk(w, f), Has(w, p, Blank(type, n)), Plain(f[p + (4 + n)])
      PROVE  f[p] = f[p + (4 + n)]
  <2>1. p + (4 + n) = p + 4 + n
    OBVIOUS
  <2>2. f[p + 4 + n].ok /\ Merged(f[p + 4 + n], Nothing) = f[p + 4 + n]
    BY <1>5, <2>1, PlainKept
  <2>3. Nothing.ok
    BY DEF Nothing
  <2>4. f[p] = Merged(f[p + 4 + n], Nothing)
    BY <1>2, <1>4, <1>5, <2>2, <2>3, WalkStep
  <2> QED BY <2>1, <2>2, <2>4
<1> QED BY <1>3, <1>5 DEF Skipped

(* So are two, one behind the other. *)
LEMMA SkipJoined ==
    ASSUME NEW s, NEW t, NEW m \in Nat, NEW n \in Nat, Skipped(s, m), Skipped(t, n)
    PROVE  Skipped(s \o t, m + n)
<1>1. Wide(s, m) /\ Wide(t, n)
  BY DEF Skipped
<1>2. Wide(s \o t, m + n)
  BY <1>1, WideJoined
<1>3. ASSUME NEW w, NEW f, NEW p \in Nat, Walk(w, f), Has(w, p, s \o t), Plain(f[p + (m + n)])
      PROVE  f[p] = f[p + (m + n)]
  <2>1. w \in ByteStrings
    BY <1>3 DEF Walk
  <2>2. Has(w, p, s) /\ Has(w, p + m, t)
    BY <1>1, <1>3, <2>1, Split
  <2>3. PICK q \in Nat : q = p + m
    OBVIOUS
  <2>4. q + n = p + (m + n)
    BY <2>3
  <2>5. f[q] = f[q + n]
    BY <1>3, <2>2, <2>3, <2>4 DEF Skipped
  <2>6. f[p] = f[p + m]
    BY <1>3, <2>2, <2>3, <2>4, <2>5 DEF Skipped
  <2> QED BY <2>3, <2>4, <2>5, <2>6
<1> QED BY <1>2, <1>3 DEF Skipped

(* The extensions between the server name and the versions. *)
LEMMA SkipBeforeVersions == Skipped(BeforeVersions, 153)
<1>0. PICK x, y, z : x = Blank(65281, 1) /\ y = Blank(17513, 2) /\ z = Blank(17613, 2)
  BY SMT
<1>1. \A type, n \in Nat : type < 256 /\ n < 256 /\ type \notin {0, 43, 51} => Skipped(Blank(type, n), 4 + n)
  <2> TAKE type \in Nat, n \in Nat
  <2>1. type < 256 => Fits(type)
    BY DEF Fits
  <2>2. n < 256 => Fits(n)
    BY DEF Fits
  <2>3. {EXT_SERVER_NAME, EXT_KEY_SHARE, EXT_SUPPORTED_VERSIONS} = {0, 43, 51}
    BY DEF EXT_SERVER_NAME, EXT_KEY_SHARE, EXT_SUPPORTED_VERSIONS
  <2> QED BY <2>1, <2>2, <2>3, SkipBlank
<1>2. Skipped(x, 5) /\ Skipped(y, 6) /\ Skipped(z, 6)
  <2>1. PICK a, b, c : a = 65281 /\ b = 17513 /\ c = 17613
    BY SMT
  <2>2. a \in Nat /\ b \in Nat /\ c \in Nat /\ a > 256 /\ b > 256 /\ c > 256
        /\ a < 256 * 256 /\ b < 256 * 256 /\ c < 256 * 256
    BY <2>1, SMT
  <2>3. x = Blank(a, 1) /\ y = Blank(b, 2) /\ z = Blank(c, 2)
    BY <1>0, <2>1, SMT
  <2>4. Fits(a) /\ Fits(b) /\ Fits(c) /\ Fits(1) /\ Fits(2)
    BY <2>2 DEF Fits
  <2>5. {EXT_SERVER_NAME, EXT_KEY_SHARE, EXT_SUPPORTED_VERSIONS} = {0, 43, 51}
    BY DEF EXT_SERVER_NAME, EXT_KEY_SHARE, EXT_SUPPORTED_VERSIONS
  <2>6. a \notin {0, 43, 51} /\ b \notin {0, 43, 51} /\ c \notin {0, 43, 51}
    BY <2>2
  <2>7. Skipped(Blank(a, 1), 4 + 1) /\ Skipped(Blank(b, 2), 4 + 2) /\ Skipped(Blank(c, 2), 4 + 2)
    BY <2>2, <2>4, <2>5, <2>6, SkipBlank
  <2> QED BY <2>3, <2>7
<1>3. /\ Skipped(Blank(23, 0), 4) /\ Skipped(Blank(10, 10), 14) /\ Skipped(Blank(16, 14), 18)
      /\ Skipped(Blank(13, 18), 22) /\ Skipped(Blank(5, 5), 9) /\ Skipped(Blank(27, 3), 7)
      /\ Skipped(Blank(18, 0), 4) /\ Skipped(Blank(45, 2), 6) /\ Skipped(Blank(50, 18), 22)
      /\ Skipped(Blank(31, 18), 22) /\ Skipped(Blank(35, 0), 4) /\ Skipped(Blank(22, 0), 4)
  <2>1. /\ Skipped(Blank(23, 0), 4 + 0) /\ Skipped(Blank(10, 10), 4 + 10)
        /\ Skipped(Blank(16, 14), 4 + 14) /\ Skipped(Blank(13, 18), 4 + 18)
        /\ Skipped(Blank(5, 5), 4 + 5) /\ Skipped(Blank(27, 3), 4 + 3)
        /\ Skipped(Blank(18, 0), 4 + 0) /\ Skipped(Blank(45, 2), 4 + 2)
        /\ Skipped(Blank(50, 18), 4 + 18) /\ Skipped(Blank(31, 18), 4 + 18)
        /\ Skipped(Blank(35, 0), 4 + 0) /\ Skipped(Blank(22, 0), 4 + 0)
    BY <1>1
  <2> QED BY <2>1
<1> DEFINE a1 == Blank(23, 0) \o x
           a2 == a1 \o Blank(10, 10)
           a3 == a2 \o Blank(16, 14)
           a4 == a3 \o Blank(13, 18)
           a5 == a4 \o Blank(5, 5)
           a6 == a5 \o Blank(27, 3)
           a7 == a6 \o Blank(18, 0)
           a8 == a7 \o Blank(45, 2)
           a9 == a8 \o Blank(50, 18)
           a10 == a9 \o Blank(31, 18)
           a11 == a10 \o y
           a12 == a11 \o z
           a13 == a12 \o Blank(35, 0)
           a14 == a13 \o Blank(22, 0)
<1>4. BeforeVersions = a14
  BY <1>0, SMT DEF BeforeVersions
<1>5. \A s, t : \A m, n, k \in Nat : Skipped(s, m) /\ Skipped(t, n) /\ k = m + n => Skipped(s \o t, k)
  BY SkipJoined
<1>6. Skipped(a1, 9)
  BY <1>2, <1>3, <1>5
<1> HIDE DEF a1
<1>7. Skipped(a2, 23)
  BY <1>3, <1>5, <1>6
<1> HIDE DEF a2
<1>8. Skipped(a3, 41)
  BY <1>3, <1>5, <1>7
<1> HIDE DEF a3
<1>9. Skipped(a4, 63)
  BY <1>3, <1>5, <1>8
<1> HIDE DEF a4
<1>10. Skipped(a5, 72)
  BY <1>3, <1>5, <1>9
<1> HIDE DEF a5
<1>11. Skipped(a6, 79)
  BY <1>3, <1>5, <1>10
<1> HIDE DEF a6
<1>12. Skipped(a7, 83)
  BY <1>3, <1>5, <1>11
<1> HIDE DEF a7
<1>13. Skipped(a8, 89)
  BY <1>3, <1>5, <1>12
<1> HIDE DEF a8
<1>14. Skipped(a9, 111)
  BY <1>3, <1>5, <1>13
<1> HIDE DEF a9
<1>15. Skipped(a10, 133)
  BY <1>3, <1>5, <1>14
<1> HIDE DEF a10
<1>16. Skipped(a11, 139)
  BY <1>2, <1>5, <1>15
<1> HIDE DEF a11
<1>17. Skipped(a12, 145)
  BY <1>2, <1>5, <1>16
<1> HIDE DEF a12
<1>18. Skipped(a13, 149)
  BY <1>3, <1>5, <1>17
<1> HIDE DEF a13
<1>19. Skipped(a14, 153)
  BY <1>3, <1>5, <1>18
<1> HIDE DEF a14
<1> QED BY <1>4, <1>19, Zenon DEF a1, a2, a3, a4, a5, a6, a7, a8, a9, a10, a11, a12, a13

(* The server name extension: its width, and what it reads as. *)
LEMMA ServerNameRead ==
    ASSUME NEW host, NEW n \in Nat, Wide(host, n), Fits(3 + n), Ascii(host)
    PROVE  LET d == Be16(3 + n) \o <<0>> \o Be16(n) \o host IN
           /\ ServerName(host) = Extension(EXT_SERVER_NAME, d)
           /\ Wide(d, 5 + n)
           /\ ReadExtension(EXT_SERVER_NAME, d) = [Nothing EXCEPT !.sni = Some(host)]
<1> DEFINE a == Be16(3 + n) \o <<0>>
           b == a \o Be16(n)
           d == b \o host
<1>1. Wide(Be16(3 + n), 2) /\ Wide(Be16(n), 2) /\ Wide(<<0>>, 1)
  <2>1. 3 + n \in Nat /\ 0 \in Nat
    OBVIOUS
  <2> QED BY <2>1, WideParts
<1>2. Wide(a, 3)
  <2>1. Wide(a, 2 + 1)
    BY <1>1, WideJoined
  <2> QED BY <2>1
<1> HIDE DEF a
<1>3. Wide(b, 5)
  <2>1. Wide(b, 3 + 2)
    BY <1>1, <1>2, WideJoined
  <2> QED BY <2>1
<1> HIDE DEF b
<1>4. Wide(d, 5 + n)
  BY <1>3, WideJoined
<1> HIDE DEF d
<1>5. d \in ByteStrings /\ Len(d) = 5 + n
  BY <1>4 DEF Wide
<1>6. Has(d, 0, b \o host)
  BY <1>5, HasAll DEF d
<1>7. Has(d, 0, b) /\ Has(d, 5, host)
  <2>1. Has(d, 0, b) /\ Has(d, 0 + 5, host)
    BY <1>3, <1>5, <1>6, Split
  <2> QED BY <2>1
<1>8. Has(d, 0, a) /\ Has(d, 3, Be16(n))
  <2>1. Has(d, 0, a) /\ Has(d, 0 + 3, Be16(n))
    BY <1>1, <1>2, <1>5, <1>7, Split DEF b
  <2> QED BY <2>1
<1>9. Has(d, 0, Be16(3 + n)) /\ Has(d, 2, <<0>>)
  <2>1. Has(d, 0, Be16(3 + n)) /\ Has(d, 0 + 2, <<0>>)
    BY <1>1, <1>5, <1>8, Split DEF a
  <2> QED BY <2>1
<1>10. U16(d, 0) = 3 + n /\ At(d, 2) = 0 /\ U16(d, 3) = n
  <2>1. Fits(n) /\ 3 + n \in Nat
    BY DEF Fits
  <2> QED BY <1>5, <1>8, <1>9, <2>1, HasBe16, HasByte
<1>11. Take(d, 5, n) = host
  <2>1. host \in ByteStrings /\ Len(host) = n
    BY DEF Wide
  <2>2. Take(d, 5, Len(host)) = host
    BY <1>5, <1>7, <2>1, HasTake
  <2> QED BY <2>1, <2>2
<1>12. ReadServerName(d) = [Nothing EXCEPT !.sni = Some(host)]
  <2>1. ~(Len(d) < 5) /\ ~(Len(d) < 5 + n) /\ ~(Len(d) > 5 + n)
    BY <1>5
  <2> QED BY <1>10, <1>11, <2>1, Zenon DEF ReadServerName
<1>13. ReadExtension(EXT_SERVER_NAME, d) = ReadServerName(d)
  BY DEF ReadExtension, EXT_SERVER_NAME, EXT_KEY_SHARE, EXT_SUPPORTED_VERSIONS
<1>14. ServerName(host) = Extension(EXT_SERVER_NAME, d)
  BY DEF ServerName, d, a, b, Wide
<1>15. d = Be16(3 + n) \o <<0>> \o Be16(n) \o host
  BY DEF d, a, b
<1>16. [Nothing EXCEPT !.sni = Some(host)] = ReadExtension(EXT_SERVER_NAME, d)
  BY <1>12, <1>13, Zenon
<1> QED BY <1>4, <1>14, <1>15, <1>16, Zenon

(* The versions extension, likewise: TLS 1.3 is among them. *)
LEMMA VersionsRead ==
    LET d == <<6, 10, 10, 3, 4, 3, 3>> IN
    /\ SupportedVersions = Extension(EXT_SUPPORTED_VERSIONS, d)
    /\ Wide(d, 7)
    /\ ReadExtension(EXT_SUPPORTED_VERSIONS, d) = [Nothing EXCEPT !.tls13 = TRUE]
<1>1. PICK d : d = <<6, 10, 10, 3, 4, 3, 3>>
  OBVIOUS
<1>2. d \in ByteStrings /\ Len(d) = 7 /\ d[1] = 6 /\ d[4] = 3 /\ d[5] = 4
  BY <1>1 DEF ByteStrings
<1>3. At(d, 0) = 6 /\ At(d, 3) = 3 /\ At(d, 4) = 4
  BY <1>2 DEF At
<1>4. U16(d, 3) = 772
  BY <1>3 DEF U16
<1>5. \E i \in 0..((6 \div 2) - 1) : U16(d, 1 + 2 * i) = 772
  <2>1. 1 \in 0..((6 \div 2) - 1) /\ 1 + 2 * 1 = 3
    OBVIOUS
  <2> QED BY <1>4, <2>1
<1>6. (\E i \in 0..((At(d, 0) \div 2) - 1) : U16(d, 1 + 2 * i) = 772) = TRUE
  <2>1. \E i \in 0..((At(d, 0) \div 2) - 1) : U16(d, 1 + 2 * i) = 772
    BY <1>3, <1>5
  <2> QED BY <2>1, Zenon
<1>7. ~(Len(d) < 1) /\ ~(At(d, 0) % 2 # 0) /\ ~(Len(d) < 1 + At(d, 0)) /\ ~(Len(d) > 1 + At(d, 0))
  BY <1>2, <1>3
<1>8. ReadSupportedVersions(d) = [Nothing EXCEPT !.tls13 =
                          \E i \in 0..((At(d, 0) \div 2) - 1) : U16(d, 1 + 2 * i) = 772]
  BY <1>7, Zenon DEF ReadSupportedVersions
<1>9. ReadExtension(EXT_SUPPORTED_VERSIONS, d) = ReadSupportedVersions(d)
  BY DEF ReadExtension, EXT_SERVER_NAME, EXT_KEY_SHARE, EXT_SUPPORTED_VERSIONS
<1>10. ReadExtension(EXT_SUPPORTED_VERSIONS, d) = [Nothing EXCEPT !.tls13 = TRUE]
  BY <1>6, <1>8, <1>9, Zenon
<1>11. SupportedVersions = Extension(EXT_SUPPORTED_VERSIONS, d)
  BY <1>1, Zenon DEF SupportedVersions
<1>12. Wide(d, 7)
  BY <1>2, Zenon DEF Wide
<1> QED BY <1>1, <1>10, <1>11, <1>12, Zenon

(* The key share extension, likewise. *)
LEMMA KeyShareRead ==
    ASSUME NEW public, Wide(public, 32)
    PROVE  LET d == Be16(4 + X25519_PK_LEN) \o Be16(GROUP_X25519) \o Be16(X25519_PK_LEN) \o public IN
           /\ KeyShare(public) = Extension(EXT_KEY_SHARE, d)
           /\ Wide(d, 38)
           /\ ReadExtension(EXT_KEY_SHARE, d) = [Nothing EXCEPT !.share = Some(public)]
<1> DEFINE a == Be16(36) \o Be16(29)
           b == a \o Be16(32)
           d == b \o public
<1>1. Wide(Be16(36), 2) /\ Wide(Be16(29), 2) /\ Wide(Be16(32), 2)
  BY WideParts
<1>2. Wide(a, 4)
  <2>1. Wide(a, 2 + 2)
    BY <1>1, WideJoined
  <2> QED BY <2>1
<1> HIDE DEF a
<1>3. Wide(b, 6)
  <2>1. Wide(b, 4 + 2)
    BY <1>1, <1>2, WideJoined
  <2> QED BY <2>1
<1> HIDE DEF b
<1>4. Wide(d, 38)
  <2>1. Wide(d, 6 + 32)
    BY <1>3, WideJoined
  <2> QED BY <2>1
<1> HIDE DEF d
<1>5. d \in ByteStrings /\ Len(d) = 38
  BY <1>4 DEF Wide
<1>6. Has(d, 0, b \o public)
  BY <1>5, HasAll DEF d
<1>7. Has(d, 0, b) /\ Has(d, 6, public)
  <2>1. Has(d, 0, b) /\ Has(d, 0 + 6, public)
    BY <1>3, <1>5, <1>6, Split
  <2> QED BY <2>1
<1>8. Has(d, 0, a) /\ Has(d, 4, Be16(32))
  <2>1. Has(d, 0, a) /\ Has(d, 0 + 4, Be16(32))
    BY <1>1, <1>2, <1>5, <1>7, Split DEF b
  <2> QED BY <2>1
<1>9. Has(d, 0, Be16(36)) /\ Has(d, 2, Be16(29))
  <2>1. Has(d, 0, Be16(36)) /\ Has(d, 0 + 2, Be16(29))
    BY <1>1, <1>5, <1>8, Split DEF a
  <2> QED BY <2>1
<1>10. U16(d, 0) = 36 /\ U16(d, 2) = 29 /\ U16(d, 4) = 32
  <2>1. Fits(36) /\ Fits(29) /\ Fits(32)
    BY DEF Fits
  <2> QED BY <1>5, <1>8, <1>9, <2>1, HasBe16
<1>11. Take(d, 6, 32) = public
  <2>1. public \in ByteStrings /\ Len(public) = 32
    BY DEF Wide
  <2>2. Take(d, 6, Len(public)) = public
    BY <1>5, <1>7, <2>1, HasTake
  <2> QED BY <2>1, <2>2
<1>12. PICK f : /\ Shares(d, 0, f)
                /\ ReadKeyShare(d) = IF Len(d) < 2 THEN Err("Truncated") ELSE f[2]
  BY <1>5, ReadKeyShareIs
<1>13. /\ ReadKeyShare(d) = f[2]
       /\ f[2] = ShareAt(d, f, 2) /\ f[38] = ShareAt(d, f, 38)
  <2>1. 2 \in 0..38 /\ 38 \in 0..38 /\ ~(38 < 2)
    OBVIOUS
  <2>2. f = [p \in 0..38 |-> ShareAt(d, f, p)]
    BY <1>5, <1>12 DEF Shares
  <2> QED BY <1>5, <1>12, <2>1, <2>2
<1>14. f[38] = Nothing
  <2>1. 38 >= 2 + U16(d, 0)
    BY <1>10
  <2> QED BY <1>5, <1>13, <2>1, Zenon DEF ShareAt
<1>15. f[2] = [Nothing EXCEPT !.share = Some(public)]
  <2>1. /\ ~(2 >= 2 + U16(d, 0)) /\ 2 + 2 = 4 /\ 2 + 4 = 6
        /\ ~(Len(d) < 2 + 4) /\ ~(Len(d) < 2 + 4 + U16(d, 2 + 2))
        /\ 2 + 4 + U16(d, 2 + 2) = 38 /\ U16(d, 2 + 2) = 32
    BY <1>5, <1>10
  <2>2. GROUP_X25519 = 29 /\ X25519_PK_LEN = 32
    BY DEF GROUP_X25519, X25519_PK_LEN
  <2>3. Nothing.ok
    BY DEF Nothing
  <2>4. f[2 + 4 + U16(d, 2 + 2)] = Nothing
    BY <1>14, <2>1
  <2>5. U16(d, 2) = GROUP_X25519 /\ U16(d, 2 + 2) = X25519_PK_LEN
    BY <1>10, <2>1, <2>2
  <2>6. Take(d, 2 + 4, U16(d, 2 + 2)) = public
    BY <1>11, <2>1
  <2>7. ShareAt(d, f, 2) = [Nothing EXCEPT !.share = Some(Take(d, 2 + 4, U16(d, 2 + 2)))]
    <3>1. ~(2 >= 2 + U16(d, 0))
      BY <2>1
    <3>2. ~(Len(d) < 2 + 4 \/ Len(d) < 2 + 4 + U16(d, 2 + 2))
      BY <2>1
    <3> QED BY <2>3, <2>4, <2>5, <3>1, <3>2, Zenon DEF ShareAt
  <2> QED BY <1>13, <2>6, <2>7, Zenon
<1>16. ReadExtension(EXT_KEY_SHARE, d) = ReadKeyShare(d)
  BY DEF ReadExtension, EXT_SERVER_NAME, EXT_KEY_SHARE, EXT_SUPPORTED_VERSIONS
<1>17. 4 + X25519_PK_LEN = 36 /\ GROUP_X25519 = 29 /\ X25519_PK_LEN = 32
  BY DEF X25519_PK_LEN, GROUP_X25519
<1>18. d = Be16(4 + X25519_PK_LEN) \o Be16(GROUP_X25519) \o Be16(X25519_PK_LEN) \o public
  BY <1>17 DEF d, a, b
<1>19. KeyShare(public) = Extension(EXT_KEY_SHARE, d)
  BY <1>18, Zenon DEF KeyShare
<1>20. [Nothing EXCEPT !.share = Some(public)] = ReadExtension(EXT_KEY_SHARE, d)
  BY <1>13, <1>15, <1>16, Zenon
<1> QED BY <1>4, <1>18, <1>19, <1>20, Zenon

(* What the extensions that are read add, from the last of them back. *)
AtEnd(l)             == Says(TRUE, None, None, FALSE, l)
WithShare(k, l)      == Says(TRUE, None, Some(k), FALSE, l)
WithVersions(k, l)   == Says(TRUE, None, Some(k), TRUE, l)
WithName(s, k, l)    == Says(TRUE, Some(s), Some(k), TRUE, l)

(* What the share, the versions and the name add. *)
LEMMA NothingMerged ==
    ASSUME NEW x, NEW l, NEW k, NEW s
    PROVE  /\ Merged(AtEnd(l), [Nothing EXCEPT !.share = Some(k)]) = WithShare(k, l)
           /\ Merged(WithShare(k, l), [Nothing EXCEPT !.tls13 = TRUE]) = WithVersions(k, l)
           /\ Merged(WithVersions(k, l), [Nothing EXCEPT !.sni = Some(s)]) = WithName(s, k, l)
           /\ [Nothing EXCEPT !.share = Some(k)].ok /\ [Nothing EXCEPT !.tls13 = TRUE].ok
           /\ [Nothing EXCEPT !.sni = Some(s)].ok
<1>0. PICK t, f, none : t = TRUE /\ f = FALSE /\ none = None
  BY Zenon
<1>1. PICK y : y = [Nothing EXCEPT !.share = Some(k)]
  BY Zenon
<1>2. PICK z : z = [Nothing EXCEPT !.tls13 = TRUE]
  BY Zenon
<1>3. PICK u : u = [Nothing EXCEPT !.sni = Some(s)]
  BY Zenon
<1>4. Nothing = [ok |-> t, sni |-> none, share |-> none, tls13 |-> f, pos |-> 0]
  BY <1>0, Zenon DEF Nothing
<1>5. y.ok = t /\ y.sni = none /\ y.share = Some(k) /\ y.tls13 = f
  <2>1. PICK v : v = Some(k)
    BY Zenon
  <2> QED BY <1>1, <1>4, <2>1
<1>6. z.ok = t /\ z.sni = none /\ z.share = none /\ z.tls13 = t
  <2>1. z = [Nothing EXCEPT !.tls13 = t]
    BY <1>0, <1>2, Zenon
  <2> QED BY <1>4, <2>1
<1>7. u.ok = t /\ u.sni = Some(s) /\ u.share = none /\ u.tls13 = f
  <2>1. PICK v : v = Some(s)
    BY Zenon
  <2> QED BY <1>3, <1>4, <2>1
<1>8. Some(k) # None
  BY Options
<1>9. Merged(AtEnd(l), y) = WithShare(k, l)
  <2>1. Merged(Says(t, none, none, f, l), y) = Says(t, SniOf(none, y), ShareOf(none, y), Tls13Of(f, y), l)
    BY MergedSays
  <2>2. SniOf(none, y) = none
    BY <1>0, <1>5, Zenon DEF SniOf
  <2>3. ShareOf(none, y) = Some(k)
    BY <1>0, <1>5, <1>8, Zenon DEF ShareOf
  <2>4. Tls13Of(f, y) = f
    BY <1>0, <1>5, Zenon DEF Tls13Of
  <2> QED BY <1>0, <2>1, <2>2, <2>3, <2>4, Zenon DEF AtEnd, WithShare
<1>10. Merged(WithShare(k, l), z) = WithVersions(k, l)
  <2>0. PICK c : c = Some(k)
    BY Zenon
  <2>1. Merged(Says(t, none, c, f, l), z) = Says(t, SniOf(none, z), ShareOf(c, z), Tls13Of(f, z), l)
    BY MergedSays
  <2>2. SniOf(none, z) = none
    BY <1>0, <1>6, Zenon DEF SniOf
  <2>3. ShareOf(c, z) = c
    BY <1>0, <1>6, Zenon DEF ShareOf
  <2>4. Tls13Of(f, z) = t
    BY <1>0, <1>6, Zenon DEF Tls13Of
  <2> QED BY <1>0, <2>0, <2>1, <2>2, <2>3, <2>4, Zenon DEF WithShare, WithVersions
<1>11. Merged(WithVersions(k, l), u) = WithName(s, k, l)
  <2>0. PICK c : c = Some(k)
    BY Zenon
  <2>1. Merged(Says(t, none, c, t, l), u) = Says(t, SniOf(none, u), ShareOf(c, u), Tls13Of(t, u), l)
    BY MergedSays
  <2>2. SniOf(none, u) = Some(s)
    BY <1>0, <1>7, Zenon DEF SniOf
  <2>3. ShareOf(c, u) = c
    BY <1>0, <1>7, Zenon DEF ShareOf
  <2>4. Tls13Of(t, u) = t
    BY <1>0, <1>7, Zenon DEF Tls13Of
  <2> QED BY <1>0, <2>0, <2>1, <2>2, <2>3, <2>4, Zenon DEF WithVersions, WithName
<1>12. y.ok /\ z.ok /\ u.ok
  BY <1>0, <1>5, <1>6, <1>7, Zenon
<1> QED BY <1>1, <1>2, <1>3, <1>9, <1>10, <1>11, <1>12, Zenon

(* All of these are readings. *)
LEMMA AllPlain ==
    ASSUME NEW l, NEW k, NEW s
    PROVE  Plain(AtEnd(l)) /\ Plain(WithShare(k, l)) /\ Plain(WithVersions(k, l)) /\ Plain(WithName(s, k, l))
<1>1. \A t, a, b, v, p : t = TRUE /\ (v = TRUE \/ v = FALSE) => Plain(Says(t, a, b, v, p))
  <2> SUFFICES ASSUME NEW t, NEW a, NEW b, NEW v, NEW p, t = TRUE, v = TRUE \/ v = FALSE
               PROVE  Plain(Says(t, a, b, v, p))
    BY Zenon
  <2>1. v \in BOOLEAN
    BY Zenon
  <2>2. \E c, d, q : \E u \in BOOLEAN : Says(t, a, b, v, p) = Says(t, c, d, u, q)
    BY <2>1, Zenon
  <2> QED BY <2>2, Zenon DEF Plain
<1>2. PICK t, f : t = TRUE /\ f = FALSE
  BY Zenon
<1>3. /\ AtEnd(l) = Says(t, None, None, f, l) /\ WithShare(k, l) = Says(t, None, Some(k), f, l)
      /\ WithVersions(k, l) = Says(t, None, Some(k), t, l)
      /\ WithName(s, k, l) = Says(t, Some(s), Some(k), t, l)
  BY <1>2, Zenon DEF AtEnd, WithShare, WithVersions, WithName
<1>4. Plain(Says(t, None, None, f, l)) /\ Plain(Says(t, None, Some(k), f, l))
  BY <1>1, <1>2, Zenon
<1>5. Plain(Says(t, None, Some(k), t, l)) /\ Plain(Says(t, Some(s), Some(k), t, l))
  BY <1>1, <1>2, Zenon
<1> QED BY <1>3, <1>4, <1>5, Zenon

(* The extension in front of the others, of a reserved type. *)
Grease == Blank(6682, 0)

(* The first extension is skipped. *)
LEMMA SkipGrease == Skipped(Grease, 4)
<1>1. PICK c : c = 6682
  BY SMT
<1>2. c \in Nat /\ c > 256 /\ c < 256 * 256
  BY <1>1, SMT
<1>3. Grease = Blank(c, 0)
  BY <1>1, SMT DEF Grease
<1>4. Fits(c) /\ Fits(0)
  BY <1>2 DEF Fits
<1>5. c \notin {EXT_SERVER_NAME, EXT_KEY_SHARE, EXT_SUPPORTED_VERSIONS}
  BY <1>2 DEF EXT_SERVER_NAME, EXT_KEY_SHARE, EXT_SUPPORTED_VERSIONS
<1>6. Skipped(Blank(c, 0), 4 + 0)
  BY <1>2, <1>4, <1>5, SkipBlank
<1> QED BY <1>3, <1>6

(* The extensions up to the server name, the versions and the key share. *)
UpToName(host)     == Grease \o ServerName(host)
UpToBlanks(host)   == UpToName(host) \o BeforeVersions
UpToVersions(host) == UpToBlanks(host) \o SupportedVersions

(* The extensions and their widths, for a name of n bytes. *)
LEMMA WideExtensions ==
    ASSUME NEW host, NEW n \in Nat, Wide(host, n), Fits(5 + n), Ascii(host), NEW public, Wide(public, 32)
    PROVE  /\ Extensions(Some(host), public) = UpToVersions(host) \o KeyShare(public)
           /\ Wide(UpToName(host), 13 + n) /\ Wide(UpToBlanks(host), 166 + n)
           /\ Wide(UpToVersions(host), 177 + n)
           /\ Wide(Extensions(Some(host), public), 219 + n)
           /\ Wide(Grease, 4) /\ Wide(ServerName(host), 9 + n) /\ Wide(BeforeVersions, 153)
           /\ Wide(SupportedVersions, 11) /\ Wide(KeyShare(public), 42)
<1>0. Fits(3 + n) /\ 5 + n \in Nat
  BY DEF Fits
<1>1. Wide(Grease, 4)
  BY SkipGrease DEF Skipped
<1>2. Wide(ServerName(host), 9 + n)
  <2>1. PICK d : ServerName(host) = Extension(EXT_SERVER_NAME, d) /\ Wide(d, 5 + n)
    BY <1>0, ServerNameRead, Zenon
  <2>2. EXT_SERVER_NAME \in Nat
    BY DEF EXT_SERVER_NAME
  <2>3. Wide(ServerName(host), 4 + (5 + n))
    BY <1>0, <2>1, <2>2, WideExtension
  <2>4. 4 + (5 + n) = 9 + n
    OBVIOUS
  <2> QED BY <2>3, <2>4
<1>3. Wide(BeforeVersions, 153)
  BY SkipBeforeVersions DEF Skipped
<1>4. Wide(SupportedVersions, 11)
  <2>1. PICK d : SupportedVersions = Extension(EXT_SUPPORTED_VERSIONS, d) /\ Wide(d, 7)
    BY VersionsRead, Zenon
  <2>2. EXT_SUPPORTED_VERSIONS \in Nat
    BY DEF EXT_SUPPORTED_VERSIONS
  <2>3. Wide(SupportedVersions, 4 + 7)
    BY <2>1, <2>2, WideExtension
  <2> QED BY <2>3
<1>5. Wide(KeyShare(public), 42)
  <2>1. PICK d : KeyShare(public) = Extension(EXT_KEY_SHARE, d) /\ Wide(d, 38)
    BY KeyShareRead, Zenon
  <2>2. EXT_KEY_SHARE \in Nat
    BY DEF EXT_KEY_SHARE
  <2>3. Wide(KeyShare(public), 4 + 38)
    BY <2>1, <2>2, WideExtension
  <2> QED BY <2>3
<1>6. PICK x : x = Grease
  OBVIOUS
<1>8. \A s, t : \A i, j, k \in Nat : Wide(s, i) /\ Wide(t, j) /\ k = i + j => Wide(s \o t, k)
  BY WideJoined
<1>9. Wide(UpToName(host), 13 + n)
  BY <1>1, <1>2, <1>8 DEF UpToName
<1>11. Wide(UpToBlanks(host), 166 + n)
  BY <1>3, <1>8, <1>9 DEF UpToBlanks
<1>13. Wide(UpToVersions(host), 177 + n)
  BY <1>4, <1>8, <1>11 DEF UpToVersions
<1>15. Wide(UpToVersions(host) \o KeyShare(public), 219 + n)
  BY <1>5, <1>8, <1>13
<1>16. Extensions(Some(host), public) = x \o ServerName(host)
                    \o BeforeVersions \o SupportedVersions \o KeyShare(public)
  <2>1. Some(host) # None /\ Some(host)[1] = host
    BY Options
  <2>2. (IF Some(host) = None THEN <<>> ELSE ServerName(Some(host)[1])) = ServerName(host)
    BY <2>1, Zenon
  <2>3. PICK names : names = IF Some(host) = None THEN <<>> ELSE ServerName(Some(host)[1])
    BY Zenon
  <2>4. Extensions(Some(host), public) = x \o names
                    \o BeforeVersions \o SupportedVersions \o KeyShare(public)
    BY <1>6, <2>3, SMT DEF Extensions, Grease
  <2>5. names = ServerName(host)
    BY <2>2, <2>3, Zenon
  <2> QED BY <2>4, <2>5, Zenon
<1>17. Extensions(Some(host), public) = UpToVersions(host) \o KeyShare(public)
  BY <1>6, <1>16, Zenon DEF UpToVersions, UpToBlanks, UpToName
<1>18. Wide(Extensions(Some(host), public), 219 + n)
  BY <1>15, <1>17
<1> QED BY <1>1, <1>2, <1>3, <1>4, <1>5, <1>9, <1>11, <1>13, <1>17, <1>18

(* The extensions of a hello are read as what they were built from, if     *)
(* nothing behind them says more.                                          *)
LEMMA ExtensionsRead ==
    ASSUME NEW host, NEW n \in Nat, Wide(host, n), Fits(5 + n), Ascii(host), NEW public, Wide(public, 32),
           NEW w, NEW f, Walk(w, f), Has(w, 114, Extensions(Some(host), public)),
           NEW l, f[333 + n] = AtEnd(l)
    PROVE  f[114] = WithName(host, public, l)
<1>0. w \in ByteStrings /\ Fits(3 + n) /\ 5 + n \in Nat
  BY DEF Walk, Fits
<1>1. /\ Extensions(Some(host), public) = UpToVersions(host) \o KeyShare(public)
      /\ Wide(UpToName(host), 13 + n) /\ Wide(UpToBlanks(host), 166 + n)
      /\ Wide(UpToVersions(host), 177 + n)
      /\ Wide(Grease, 4) /\ Wide(ServerName(host), 9 + n) /\ Wide(BeforeVersions, 153)
      /\ Wide(SupportedVersions, 11) /\ Wide(KeyShare(public), 42)
  BY WideExtensions
<1>2. Has(w, 114, UpToVersions(host)) /\ Has(w, 291 + n, KeyShare(public))
  <2>1. Has(w, 114, UpToVersions(host) \o KeyShare(public))
    BY <1>1
  <2>2. 177 + n \in Nat /\ 114 + (177 + n) = 291 + n
    OBVIOUS
  <2>3. Has(w, 114, UpToVersions(host)) /\ Has(w, 114 + (177 + n), KeyShare(public))
    BY <1>0, <1>1, <2>1, <2>2, Split
  <2> QED BY <2>2, <2>3
<1>3. Has(w, 114, UpToBlanks(host)) /\ Has(w, 280 + n, SupportedVersions)
  <2>1. Has(w, 114, UpToBlanks(host) \o SupportedVersions)
    BY <1>2 DEF UpToVersions
  <2>2. 166 + n \in Nat /\ 114 + (166 + n) = 280 + n
    OBVIOUS
  <2>3. Has(w, 114, UpToBlanks(host)) /\ Has(w, 114 + (166 + n), SupportedVersions)
    BY <1>0, <1>1, <2>1, <2>2, Split
  <2> QED BY <2>2, <2>3
<1>4. Has(w, 114, UpToName(host)) /\ Has(w, 127 + n, BeforeVersions)
  <2>1. Has(w, 114, UpToName(host) \o BeforeVersions)
    BY <1>3 DEF UpToBlanks
  <2>2. 13 + n \in Nat /\ 114 + (13 + n) = 127 + n
    OBVIOUS
  <2>3. Has(w, 114, UpToName(host)) /\ Has(w, 114 + (13 + n), BeforeVersions)
    BY <1>0, <1>1, <2>1, <2>2, Split
  <2> QED BY <2>2, <2>3
<1>5. Has(w, 114, Grease) /\ Has(w, 118, ServerName(host))
  <2>1. Has(w, 114, Grease \o ServerName(host))
    BY <1>4 DEF UpToName
  <2>2. 9 + n \in Nat /\ 114 + 4 = 118
    OBVIOUS
  <2>3. Has(w, 114, Grease) /\ Has(w, 114 + 4, ServerName(host))
    BY <1>0, <1>1, <2>1, <2>2, Split
  <2> QED BY <2>2, <2>3
<1>6. f[291 + n] = WithShare(public, l)
  <2>1. PICK d : /\ KeyShare(public) = Extension(EXT_KEY_SHARE, d) /\ Wide(d, 38)
                 /\ ReadExtension(EXT_KEY_SHARE, d) = [Nothing EXCEPT !.share = Some(public)]
    BY KeyShareRead, Zenon
  <2>2. PICK y : y = [Nothing EXCEPT !.share = Some(public)]
    BY Zenon
  <2>3. y.ok /\ Merged(AtEnd(l), y) = WithShare(public, l)
    BY <2>2, NothingMerged, Zenon
  <2>4. AtEnd(l).ok
    BY AllPlain, PlainKept
  <2>5. PICK p \in Nat : p = 291 + n
    OBVIOUS
  <2>6. p + 4 + 38 = 333 + n
    BY <2>5
  <2>7. EXT_KEY_SHARE \in Nat /\ Fits(EXT_KEY_SHARE) /\ Fits(38)
    BY DEF EXT_KEY_SHARE, Fits
  <2>8. ReadExtension(EXT_KEY_SHARE, d) = y
    BY <2>1, <2>2, Zenon
  <2>9. f[p + 4 + 38] = AtEnd(l) /\ Has(w, p, Extension(EXT_KEY_SHARE, d))
    BY <1>2, <2>1, <2>5, <2>6
  <2>10. f[p] = Merged(f[p + 4 + 38], y)
    BY <2>1, <2>3, <2>4, <2>7, <2>8, <2>9, WalkStep
  <2> QED BY <2>3, <2>5, <2>9, <2>10
<1>7. f[280 + n] = WithVersions(public, l)
  <2>1. PICK d : /\ SupportedVersions = Extension(EXT_SUPPORTED_VERSIONS, d) /\ Wide(d, 7)
                 /\ ReadExtension(EXT_SUPPORTED_VERSIONS, d) = [Nothing EXCEPT !.tls13 = TRUE]
    BY VersionsRead, Zenon
  <2>2. PICK y : y = [Nothing EXCEPT !.tls13 = TRUE]
    BY Zenon
  <2>3. y.ok /\ Merged(WithShare(public, l), y) = WithVersions(public, l)
    BY <2>2, NothingMerged, Zenon
  <2>4. WithShare(public, l).ok
    BY AllPlain, PlainKept
  <2>5. PICK p \in Nat : p = 280 + n
    OBVIOUS
  <2>6. p + 4 + 7 = 291 + n
    BY <2>5
  <2>7. EXT_SUPPORTED_VERSIONS \in Nat /\ Fits(EXT_SUPPORTED_VERSIONS) /\ Fits(7)
    BY DEF EXT_SUPPORTED_VERSIONS, Fits
  <2>8. ReadExtension(EXT_SUPPORTED_VERSIONS, d) = y
    BY <2>1, <2>2, Zenon
  <2>9. f[p + 4 + 7] = WithShare(public, l) /\ Has(w, p, Extension(EXT_SUPPORTED_VERSIONS, d))
    <3>1. f[p + 4 + 7] = WithShare(public, l)
      BY <1>6, <2>6
    <3>2. Has(w, p, SupportedVersions)
      BY <1>3, <2>5
    <3> QED BY <2>1, <3>1, <3>2, Zenon
  <2>10. f[p] = Merged(f[p + 4 + 7], y)
    <3>1. Wide(d, 7)
      BY <2>1, Zenon
    <3> QED BY <2>3, <2>4, <2>7, <2>8, <2>9, <3>1, WalkStep
  <2> QED BY <2>3, <2>5, <2>9, <2>10
<1>8. f[127 + n] = WithVersions(public, l)
  <2>1. PICK p \in Nat : p = 127 + n
    OBVIOUS
  <2>2. p + 153 = 280 + n
    BY <2>1
  <2>3. Plain(f[p + 153]) /\ Has(w, p, BeforeVersions)
    BY <1>4, <1>7, <2>1, <2>2, AllPlain
  <2>4. f[p] = f[p + 153]
    BY <2>3, SkipBeforeVersions DEF Skipped
  <2> QED BY <1>7, <2>1, <2>2, <2>4
<1>9. f[118] = WithName(host, public, l)
  <2>1. PICK d : /\ ServerName(host) = Extension(EXT_SERVER_NAME, d) /\ Wide(d, 5 + n)
                 /\ ReadExtension(EXT_SERVER_NAME, d) = [Nothing EXCEPT !.sni = Some(host)]
    BY <1>0, ServerNameRead, Zenon
  <2>2. PICK y : y = [Nothing EXCEPT !.sni = Some(host)]
    BY Zenon
  <2>3. y.ok /\ Merged(WithVersions(public, l), y) = WithName(host, public, l)
    BY <2>2, NothingMerged, Zenon
  <2>4. WithVersions(public, l).ok
    BY AllPlain, PlainKept
  <2>5. PICK m \in Nat : m = 5 + n
    OBVIOUS
  <2>6. 118 + 4 + m = 127 + n /\ 118 \in Nat
    BY <2>5
  <2>7. EXT_SERVER_NAME \in Nat /\ Fits(EXT_SERVER_NAME) /\ Fits(m)
    BY <2>5 DEF EXT_SERVER_NAME, Fits
  <2>8. ReadExtension(EXT_SERVER_NAME, d) = y
    BY <2>1, <2>2, Zenon
  <2>9. f[118 + 4 + m] = WithVersions(public, l) /\ Has(w, 118, Extension(EXT_SERVER_NAME, d))
    <3>1. f[118 + 4 + m] = WithVersions(public, l)
      BY <1>8, <2>6
    <3> QED BY <1>5, <2>1, <3>1, Zenon
  <2>10. f[118] = Merged(f[118 + 4 + m], y)
    <3>1. Wide(d, m)
      BY <2>1, <2>5, Zenon
    <3> QED BY <2>3, <2>4, <2>6, <2>7, <2>8, <2>9, <3>1, WalkStep
  <2> QED BY <2>3, <2>9, <2>10
<1>10. f[114] = f[118]
  <2>1. 114 \in Nat /\ 114 + 4 = 118
    OBVIOUS
  <2>2. Plain(f[114 + 4])
    BY <1>9, <2>1, AllPlain
  <2>3. f[114] = f[114 + 4]
    BY <1>5, <2>1, <2>2, SkipGrease DEF Skipped
  <2> QED BY <2>1, <2>3
<1> QED BY <1>9, <1>10

-----------------------------------------------------------------------------
(* The layout of a hello, and what writing the session id into it leaves.  *)

(* Where the parts of a built hello lie, with e bytes of extensions. *)
Laid(w, random, session_id, exts, e) ==
    /\ Has(w, 0, <<22, 3, 1>>) /\ Has(w, 3, Be16(109 + e)) /\ Has(w, 5, <<1>>)
    /\ Has(w, 6, Be24(105 + e)) /\ Has(w, 11, random) /\ Has(w, 43, <<32>>)
    /\ Has(w, 44, session_id) /\ Has(w, 76, Be16(32)) /\ Has(w, 110, <<1, 0>>)
    /\ Has(w, 112, Be16(e)) /\ Has(w, 114, exts)

(* Split, with the offset of the second part given. *)
LEMMA Apart ==
    ASSUME NEW w \in ByteStrings, NEW s, NEW t, NEW m \in Nat, NEW n \in Nat, NEW k \in Nat,
           Wide(s, m), Wide(t, n), NEW o \in Nat, Has(w, o, s \o t), k = o + m
    PROVE  Has(w, o, s) /\ Has(w, k, t)
BY Split

(* A hello is laid out so, its session id zero. *)
LEMMA HelloLaid ==
    ASSUME NEW random, Wide(random, 32), NEW exts, NEW e \in Nat, Wide(exts, e)
    PROVE  LET hello == HelloRecord(HelloBody(random, Zeros(32), exts)) IN
           Wide(hello, 114 + e) /\ Laid(hello, random, Zeros(32), exts, e)
<1> DEFINE b1 == <<3, 3>> \o random
           b2 == b1 \o <<32>>
           b3 == b2 \o Zeros(32)
           b4 == b3 \o Be16(32)
           b5 == b4 \o Zeros(32)
           b6 == b5 \o <<1, 0>>
           b7 == b6 \o Be16(e)
           body == b7 \o exts
           h1 == <<1>> \o Be24(105 + e)
           hs == h1 \o body
           r1 == <<22, 3, 1>> \o Be16(109 + e)
           hello == r1 \o hs
<1>0. \A s, t : \A i, j, k \in Nat : Wide(s, i) /\ Wide(t, j) /\ k = i + j => Wide(s \o t, k)
  BY WideJoined
<1>1. /\ Wide(<<3, 3>>, 2) /\ Wide(<<32>>, 1) /\ Wide(Zeros(32), 32) /\ Wide(Be16(32), 2)
      /\ Wide(<<1, 0>>, 2) /\ Wide(Be16(e), 2) /\ Wide(<<1>>, 1) /\ Wide(<<22, 3, 1>>, 3)
  BY WideParts
<1>2. 105 + e \in Nat /\ 109 + e \in Nat /\ 114 + e \in Nat
  OBVIOUS
<1>3. Wide(Be24(105 + e), 3) /\ Wide(Be16(109 + e), 2)
  BY <1>2, WideParts
<1>4. HelloRecord(HelloBody(random, Zeros(32), exts)) = hello
  <2>1. Len(Zeros(32)) = 32 /\ Len(exts) = e
    BY <1>1 DEF Wide
  <2>2. HelloBody(random, Zeros(32), exts) = body
    BY <2>1, Zenon DEF HelloBody
  <2>3. Wide(b1, 34)
    BY <1>0, <1>1
  <2> HIDE DEF b1
  <2>4. Wide(b2, 35)
    BY <1>0, <1>1, <2>3
  <2> HIDE DEF b2
  <2>5. Wide(b3, 67)
    BY <1>0, <1>1, <2>4
  <2> HIDE DEF b3
  <2>6. Wide(b4, 69)
    BY <1>0, <1>1, <2>5
  <2> HIDE DEF b4
  <2>7. Wide(b5, 101)
    BY <1>0, <1>1, <2>6
  <2> HIDE DEF b5
  <2>8. Wide(b6, 103)
    BY <1>0, <1>1, <2>7
  <2> HIDE DEF b6
  <2>9. Wide(b7, 105)
    BY <1>0, <1>1, <2>8
  <2> HIDE DEF b7
  <2>10. Wide(body, 105 + e)
    BY <1>0, <1>2, <2>9
  <2> HIDE DEF body
  <2>11. Len(body) = 105 + e
    BY <2>10 DEF Wide
  <2>12. <<HS_CLIENT_HELLO>> \o Be24(Len(body)) \o body = hs
    BY <2>11 DEF HS_CLIENT_HELLO
  <2>13. Wide(h1, 4)
    BY <1>0, <1>1, <1>3
  <2> HIDE DEF h1
  <2>14. Wide(hs, 109 + e)
    <3>1. 109 + e = 4 + (105 + e)
      OBVIOUS
    <3> QED BY <1>0, <1>2, <2>10, <2>13, <3>1
  <2> HIDE DEF hs
  <2>15. Len(hs) = 109 + e
    BY <2>14 DEF Wide
  <2>16. HelloRecord(body) = <<22, 3, 1>> \o Be16(109 + e) \o hs
    BY <2>12, <2>15 DEF HelloRecord, CONTENT_HANDSHAKE
  <2> QED BY <2>2, <2>16, Zenon
<1>5. Wide(b1, 34)
  BY <1>0, <1>1
<1> HIDE DEF b1
<1>6. Wide(b2, 35)
  BY <1>0, <1>1, <1>5
<1> HIDE DEF b2
<1>7. Wide(b3, 67)
  BY <1>0, <1>1, <1>6
<1> HIDE DEF b3
<1>8. Wide(b4, 69)
  BY <1>0, <1>1, <1>7
<1> HIDE DEF b4
<1>9. Wide(b5, 101)
  BY <1>0, <1>1, <1>8
<1> HIDE DEF b5
<1>10. Wide(b6, 103)
  BY <1>0, <1>1, <1>9
<1> HIDE DEF b6
<1>11. Wide(b7, 105)
  BY <1>0, <1>1, <1>10
<1> HIDE DEF b7
<1>12. Wide(body, 105 + e)
  BY <1>0, <1>2, <1>11
<1> HIDE DEF body
<1>13. Wide(h1, 4)
  BY <1>0, <1>1, <1>3
<1> HIDE DEF h1
<1>14. Wide(hs, 109 + e)
  <2>1. 109 + e = 4 + (105 + e)
    OBVIOUS
  <2> QED BY <1>0, <1>2, <1>12, <1>13, <2>1
<1> HIDE DEF hs
<1>15. Wide(r1, 5)
  BY <1>0, <1>1, <1>3
<1> HIDE DEF r1
<1>16. Wide(hello, 114 + e)
  <2>1. 114 + e = 5 + (109 + e)
    OBVIOUS
  <2> QED BY <1>0, <1>2, <1>14, <1>15, <2>1
<1> HIDE DEF hello
<1>17. hello \in ByteStrings
  BY <1>16 DEF Wide
<1>18. Has(hello, 0, r1) /\ Has(hello, 5, hs)
  <2>1. Has(hello, 0, r1 \o hs)
    BY <1>17, HasAll DEF hello
  <2> QED BY <1>2, <1>14, <1>15, <1>17, <2>1, Apart
<1>19. Has(hello, 0, <<22, 3, 1>>) /\ Has(hello, 3, Be16(109 + e))
  <2>1. Has(hello, 0, <<22, 3, 1>> \o Be16(109 + e))
    BY <1>18 DEF r1
  <2> QED BY <1>1, <1>3, <1>17, <2>1, Apart
<1>20. Has(hello, 5, h1) /\ Has(hello, 9, body)
  <2>1. Has(hello, 5, h1 \o body)
    BY <1>18 DEF hs
  <2> QED BY <1>2, <1>12, <1>13, <1>17, <2>1, Apart
<1>21. Has(hello, 5, <<1>>) /\ Has(hello, 6, Be24(105 + e))
  <2>1. Has(hello, 5, <<1>> \o Be24(105 + e))
    BY <1>20 DEF h1
  <2> QED BY <1>1, <1>3, <1>17, <2>1, Apart
<1>22. Has(hello, 9, b7) /\ Has(hello, 114, exts)
  <2>1. Has(hello, 9, b7 \o exts)
    BY <1>20 DEF body
  <2> QED BY <1>11, <1>17, <2>1, Apart
<1>23. Has(hello, 9, b6) /\ Has(hello, 112, Be16(e))
  <2>1. Has(hello, 9, b6 \o Be16(e))
    BY <1>22 DEF b7
  <2> QED BY <1>1, <1>10, <1>17, <2>1, Apart
<1>24. Has(hello, 9, b5) /\ Has(hello, 110, <<1, 0>>)
  <2>1. Has(hello, 9, b5 \o <<1, 0>>)
    BY <1>23 DEF b6
  <2> QED BY <1>1, <1>9, <1>17, <2>1, Apart
<1>25. Has(hello, 9, b4)
  <2>1. Has(hello, 9, b4 \o Zeros(32))
    BY <1>24 DEF b5
  <2> QED BY <1>1, <1>8, <1>17, <2>1, Apart
<1>26. Has(hello, 9, b3) /\ Has(hello, 76, Be16(32))
  <2>1. Has(hello, 9, b3 \o Be16(32))
    BY <1>25 DEF b4
  <2> QED BY <1>1, <1>7, <1>17, <2>1, Apart
<1>27. Has(hello, 9, b2) /\ Has(hello, 44, Zeros(32))
  <2>1. Has(hello, 9, b2 \o Zeros(32))
    BY <1>26 DEF b3
  <2> QED BY <1>1, <1>6, <1>17, <2>1, Apart
<1>28. Has(hello, 9, b1) /\ Has(hello, 43, <<32>>)
  <2>1. Has(hello, 9, b1 \o <<32>>)
    BY <1>27 DEF b2
  <2> QED BY <1>1, <1>5, <1>17, <2>1, Apart
<1>29. Has(hello, 11, random)
  <2>1. Has(hello, 9, <<3, 3>> \o random)
    BY <1>28 DEF b1
  <2> QED BY <1>1, <1>17, <2>1, Apart
<1>30. Laid(hello, random, Zeros(32), exts, e)
  BY <1>19, <1>21, <1>22, <1>23, <1>24, <1>26, <1>27, <1>28, <1>29 DEF Laid
<1>31. HelloRecord(HelloBody(random, Zeros(32), exts)) = hello
  BY <1>4 DEF hello, hs, h1, r1, body, b7, b6, b5, b4, b3, b2, b1
<1> HIDE DEF hello
<1> QED BY <1>16, <1>30, <1>31, Zenon

(* Writing the session id into a hello leaves every other byte alone. *)
LEMMA PatchedBytes ==
    ASSUME NEW hello, NEW n \in Nat, n >= 76, Wide(hello, n), NEW k \in Nat
    PROVE  LET w == PatchSid(hello, Field(k)) IN
           /\ Wide(w, n)
           /\ \A i \in 1..n : w[i] = IF i \in 45..76 THEN k ELSE hello[i]
<1> DEFINE w == PatchSid(hello, Field(k))
<1>1. hello \in ByteStrings /\ Len(hello) = n
  BY DEF Wide
<1>2. w \in ByteStrings /\ Len(w) = n
  <2>1. Len(hello) >= 46
    BY <1>1
  <2> QED BY <1>1, <2>1, Patched, Zenon
<1>3. DOMAIN hello = 1..n /\ SESSION_ID_OFFSET = 44
  BY <1>1 DEF ByteStrings, SESSION_ID_OFFSET
<1>4. ASSUME NEW i \in 1..n PROVE w[i] = IF i \in 45..76 THEN k ELSE hello[i]
  <2>1. w[i] = IF i \in (44 + 1)..(44 + 32) THEN Field(k)[i - 44] ELSE hello[i]
    BY <1>3 DEF PatchSid
  <2>2. i \in 45..76 => i - 44 \in 1..32
    OBVIOUS
  <2>3. \A j \in 1..32 : Field(k)[j] = k
    BY DEF Field
  <2> QED BY <2>1, <2>2, <2>3
<1> HIDE DEF w
<1> QED BY <1>2, <1>4 DEF Wide, w

(* So what lies beside the session id still lies there. *)
LEMMA PatchedHas ==
    ASSUME NEW hello, NEW n \in Nat, n >= 76, Wide(hello, n), NEW k \in Nat,
           NEW s, NEW m \in Nat, Wide(s, m), NEW o \in Nat, Has(hello, o, s), o >= 76 \/ o + m <= 44
    PROVE  Has(PatchSid(hello, Field(k)), o, s)
<1> DEFINE w == PatchSid(hello, Field(k))
<1>2. Wide(w, n) /\ \A i \in 1..n : w[i] = IF i \in 45..76 THEN k ELSE hello[i]
  BY PatchedBytes
<1> HIDE DEF w
<1>3. Len(w) = n /\ Len(hello) = n /\ Len(s) = m
  BY <1>2 DEF Wide
<1>4. o + m <= n /\ \A i \in 1..m : hello[o + i] = s[i]
  BY <1>3 DEF Has
<1>5. \A i \in 1..m : o + i \in 1..n /\ o + i \notin 45..76
  BY <1>4
<1>6. \A i \in 1..m : w[o + i] = s[i]
  BY <1>2, <1>4, <1>5
<1> QED BY <1>3, <1>4, <1>6 DEF Has, w

(* The patched hello is laid out as before, and zeroing its session id     *)
(* undoes it.                                                              *)
LEMMA PatchedLaid ==
    ASSUME NEW random, Wide(random, 32), NEW exts, NEW e \in Nat, Wide(exts, e), NEW k \in Nat,
           NEW hello, Wide(hello, 114 + e), Laid(hello, random, Zeros(32), exts, e)
    PROVE  LET w == PatchSid(hello, Field(k)) IN
           /\ Wide(w, 114 + e) /\ Laid(w, random, Field(k), exts, e)
           /\ ZeroSid(w) = hello
<1> DEFINE w == PatchSid(hello, Field(k))
<1>1. PICK n \in Nat : n = 114 + e /\ n >= 76
  OBVIOUS
<1>2. Wide(hello, n)
  BY <1>1
<1>3. Wide(w, n) /\ \A i \in 1..n : w[i] = IF i \in 45..76 THEN k ELSE hello[i]
  BY <1>1, <1>2, PatchedBytes
<1>4. \A s : \A m, o \in Nat : Wide(s, m) /\ Has(hello, o, s) /\ (o >= 76 \/ o + m <= 44) => Has(w, o, s)
  BY <1>1, <1>2, PatchedHas
<1>5. /\ Wide(<<22, 3, 1>>, 3) /\ Wide(Be16(109 + e), 2) /\ Wide(<<1>>, 1)
      /\ Wide(Be24(105 + e), 3) /\ Wide(<<32>>, 1) /\ Wide(Be16(32), 2) /\ Wide(<<1, 0>>, 2)
      /\ Wide(Be16(e), 2) /\ Wide(Field(k), 32) /\ Wide(Zeros(32), 32)
  <2>1. 105 + e \in Nat /\ 109 + e \in Nat
    OBVIOUS
  <2> QED BY <2>1, WideParts
<1>6. Has(w, 44, Field(k))
  <2>1. Len(w) = n /\ Len(Field(k)) = 32
    BY <1>3, <1>5 DEF Wide
  <2>2. \A j \in 1..32 : Field(k)[j] = k
    BY DEF Field
  <2>3. \A j \in 1..32 : 44 + j \in 1..n /\ 44 + j \in 45..76
    BY <1>1
  <2>4. \A j \in 1..32 : w[44 + j] = k
    BY <1>3, <2>3
  <2> HIDE DEF w
  <2> QED BY <1>1, <2>1, <2>2, <2>4 DEF Has
<1>7. ZeroSid(w) = hello
  <2>1. Has(hello, 44, Zeros(32))
    BY DEF Laid
  <2>2. Len(Zeros(32)) = 32 /\ \A j \in 1..32 : Zeros(32)[j] = 0
    BY <1>5 DEF Wide, Zeros
  <2>3. \A j \in 1..32 : hello[44 + j] = 0
    BY <2>1, <2>2 DEF Has
  <2>4. \A i \in 45..76 : hello[i] = 0
    <3> TAKE i \in 45..76
    <3>1. i - 44 \in 1..32 /\ 44 + (i - 44) = i
      OBVIOUS
    <3> QED BY <2>3, <3>1
  <2> HIDE DEF w
  <2>5. DOMAIN w = 1..n /\ DOMAIN hello = 1..n
    BY <1>2, <1>3 DEF Wide, ByteStrings
  <2>6. ZeroSid(w) = [i \in 1..n |-> IF i \in 45..76 THEN 0 ELSE w[i]]
    BY <2>5 DEF ZeroSid, SESSION_ID_OFFSET
  <2>7. \A i \in 1..n : (IF i \in 45..76 THEN 0 ELSE w[i]) = hello[i]
    BY <1>3, <2>4
  <2>8. hello = [i \in 1..n |-> hello[i]]
    BY <1>2 DEF Wide, ByteStrings
  <2>9. [i \in 1..n |-> IF i \in 45..76 THEN 0 ELSE w[i]] = [i \in 1..n |-> hello[i]]
    BY <2>7
  <2> QED BY <2>6, <2>8, <2>9, Zenon
<1> HIDE DEF w
<1>8. Laid(w, random, Field(k), exts, e)
  <2>1. PICK a, b, c : a = Be16(109 + e) /\ b = Be24(105 + e) /\ c = Be16(e)
    OBVIOUS
  <2>2. /\ Has(hello, 0, <<22, 3, 1>>) /\ Has(hello, 3, a) /\ Has(hello, 5, <<1>>)
        /\ Has(hello, 6, b) /\ Has(hello, 11, random) /\ Has(hello, 43, <<32>>)
        /\ Has(hello, 76, Be16(32)) /\ Has(hello, 110, <<1, 0>>)
        /\ Has(hello, 112, c) /\ Has(hello, 114, exts)
    BY <2>1 DEF Laid
  <2>3. Wide(a, 2) /\ Wide(b, 3) /\ Wide(c, 2)
    BY <1>5, <2>1
  <2>4. /\ Has(w, 0, <<22, 3, 1>>) /\ Has(w, 3, a) /\ Has(w, 5, <<1>>)
        /\ Has(w, 6, b) /\ Has(w, 11, random) /\ Has(w, 43, <<32>>)
        /\ Has(w, 76, Be16(32)) /\ Has(w, 110, <<1, 0>>)
        /\ Has(w, 112, c) /\ Has(w, 114, exts)
    BY <1>4, <1>5, <2>2, <2>3
  <2> QED BY <1>6, <2>1, <2>4, Zenon DEF Laid
<1>9. Wide(w, 114 + e)
  BY <1>1, <1>3
<1> QED BY <1>7, <1>8, <1>9 DEF w

-----------------------------------------------------------------------------
(* The parser's tests on a hello laid out so.                              *)

(* A length that two bytes can hold has a zero above them. *)
LEMMA Zero24 ==
    ASSUME NEW n \in Nat, Fits(n)
    PROVE  Be24(n) = <<0>> \o Be16(n)
<1>1. PICK c : c = 65536
  BY SMT
<1>2. c = 256 * 256 /\ c \in Nat
  BY <1>1, SMT
<1>3. n < c
  BY <1>2 DEF Fits
<1>4. n \div c = 0
  BY <1>2, <1>3
<1>5. (n \div c) % 256 = 0
  BY <1>4
<1>6. Be24(n) = <<(n \div c) % 256>> \o Be16(n)
  BY <1>1, SMT DEF Be24
<1> QED BY <1>5, <1>6, Zenon

(* The header and list fields a hello with e bytes of extensions has. *)
Fields(w, e, random, sid) ==
    /\ Len(w) = 114 + e
    /\ At(w, 0) = 22 /\ At(w, 1) = 3 /\ At(w, 2) = 1 /\ U16(w, 3) = 109 + e
    /\ At(w, 5) = 1 /\ 256 * U16(w, 6) + At(w, 8) = 105 + e
    /\ At(w, 43) = 32 /\ U16(w, 76) = 32 /\ At(w, 110) = 1 /\ U16(w, 112) = e
    /\ Take(w, 11, 32) = random /\ Take(w, 44, 32) = sid

(* The fields of a hello laid out so are what they should be. *)
LEMMA LaidRead ==
    ASSUME NEW w, NEW e \in Nat, Fits(109 + e), Wide(w, 114 + e), NEW random, Wide(random, 32),
           NEW sid, Wide(sid, 32), NEW exts, Laid(w, random, sid, exts, e)
    PROVE  Fields(w, e, random, sid)
<1>1. w \in ByteStrings /\ Len(w) = 114 + e
  BY DEF Wide
<1>2. 109 + e \in Nat /\ 105 + e \in Nat /\ Fits(105 + e) /\ Fits(e) /\ Fits(32)
  BY DEF Fits
<1>3. At(w, 0) = 22 /\ At(w, 1) = 3 /\ At(w, 2) = 1
  <2>1. PICK s : s = <<22, 3, 1>>
    OBVIOUS
  <2>2. s \in ByteStrings /\ Len(s) = 3 /\ s[1] = 22 /\ s[2] = 3 /\ s[3] = 1
    BY <2>1 DEF ByteStrings
  <2>3. Has(w, 0, s)
    BY <2>1 DEF Laid
  <2>4. \A i \in Nat : i < 3 => At(w, 0 + i) = s[i + 1]
    <3>1. w \in ByteStrings /\ s \in ByteStrings /\ Len(s) = 3
      BY <1>1, <2>2
    <3> QED BY <2>3, <3>1, HasAt, ZenonT(60)
  <2>5. At(w, 0 + 0) = s[0 + 1] /\ At(w, 0 + 1) = s[1 + 1] /\ At(w, 0 + 2) = s[2 + 1]
    BY <2>4
  <2> QED BY <2>2, <2>5
<1>4. U16(w, 3) = 109 + e
  <2>1. Has(w, 3, Be16(109 + e))
    BY DEF Laid
  <2> QED BY <1>1, <1>2, <2>1, HasBe16
<1>5. At(w, 5) = 1
  <2>1. Has(w, 5, <<1>>)
    BY DEF Laid
  <2> QED BY <1>1, <2>1, HasByte
<1>6. 256 * U16(w, 6) + At(w, 8) = 105 + e
  <2>1. Has(w, 6, <<0>> \o Be16(105 + e))
    BY <1>2, Zero24 DEF Laid
  <2>2. Wide(<<0>>, 1) /\ Wide(Be16(105 + e), 2)
    BY <1>2, WideParts
  <2>3. Has(w, 6, <<0>>) /\ Has(w, 7, Be16(105 + e))
    BY <1>1, <2>1, <2>2, Apart
  <2>4. At(w, 6) = 0
    BY <1>1, <2>3, HasByte
  <2>5. U16(w, 7) = 105 + e
    BY <1>1, <1>2, <2>3, HasBe16
  <2>6. PICK a, b \in Nat : a = At(w, 7) /\ b = At(w, 8)
    BY <1>1, BytesRead
  <2>7. 256 * a + b = 105 + e
    BY <2>5, <2>6 DEF U16
  <2>8. U16(w, 6) = a
    BY <2>4, <2>6 DEF U16
  <2> QED BY <2>6, <2>7, <2>8
<1>7. At(w, 43) = 32
  <2>1. Has(w, 43, <<32>>)
    BY DEF Laid
  <2> QED BY <1>1, <2>1, HasByte
<1>8. U16(w, 76) = 32
  <2>1. Has(w, 76, Be16(32))
    BY DEF Laid
  <2> QED BY <1>1, <1>2, <2>1, HasBe16
<1>9. At(w, 110) = 1
  <2>1. PICK s : s = <<1, 0>>
    OBVIOUS
  <2>2. s \in ByteStrings /\ Len(s) = 2 /\ s[1] = 1
    BY <2>1 DEF ByteStrings
  <2>3. Has(w, 110, s)
    BY <2>1 DEF Laid
  <2>4. \A i \in Nat : i < 2 => At(w, 110 + i) = s[i + 1]
    <3>1. w \in ByteStrings /\ s \in ByteStrings /\ Len(s) = 2
      BY <1>1, <2>2
    <3> QED BY <2>3, <3>1, HasAt, ZenonT(60)
  <2>5. At(w, 110 + 0) = s[0 + 1]
    BY <2>4
  <2> QED BY <2>2, <2>5
<1>10. U16(w, 112) = e
  <2>1. Has(w, 112, Be16(e))
    BY DEF Laid
  <2> QED BY <1>1, <1>2, <2>1, HasBe16
<1>11. Take(w, 11, 32) = random
  <2>1. Has(w, 11, random) /\ random \in ByteStrings /\ Len(random) = 32
    BY DEF Laid, Wide
  <2>2. Take(w, 11, Len(random)) = random
    BY <1>1, <2>1, HasTake
  <2> QED BY <2>1, <2>2, Zenon
<1>12. Take(w, 44, 32) = sid
  <2>1. Has(w, 44, sid) /\ sid \in ByteStrings /\ Len(sid) = 32
    BY DEF Laid, Wide
  <2>2. Take(w, 44, Len(sid)) = sid
    BY <1>1, <2>1, HasTake
  <2> QED BY <2>1, <2>2, Zenon
<1> QED BY <1>1, <1>3, <1>4, <1>5, <1>6, <1>7, <1>8, <1>9, <1>10, <1>11, <1>12 DEF Fields

(* What a hello parses as. *)
ParsedAs(host, random, sid, public) ==
    [ok |-> TRUE, sni |-> Some(host), random |-> random, session_id |-> sid,
     ephemeral_public |-> public, tls13_negotiable |-> TRUE]

(* The last tests pass on a reading that ends the string. *)
LEMMA LastPass ==
    ASSUME NEW w, NEW l, Len(w) = l, NEW host, NEW random, NEW sid, NEW public,
           At(w, 43) = 32, Take(w, 11, 32) = random, Take(w, 44, 32) = sid
    PROVE  LastTests(w, WithName(host, public, l)) = ParsedAs(host, random, sid, public)
<1>0. PICK t, s, k : t = TRUE /\ s = Some(host) /\ k = Some(public)
  BY Zenon
<1>1. PICK x : x = WithName(host, public, l)
  BY Zenon
<1>2. x = Says(t, s, k, t, l)
  BY <1>0, <1>1, Zenon DEF WithName
<1>3. x.ok = t /\ x.sni = s /\ x.share = k /\ x.tls13 = t /\ x.pos = l
  BY <1>2 DEF Says
<1>4. k # None /\ k[1] = public
  BY <1>0, Options
<1>5. SESSION_ID_OFFSET = 44
  BY DEF SESSION_ID_OFFSET
<1>6. LastTests(w, x) = [ok |-> TRUE, sni |-> x.sni, random |-> Take(w, 11, 32),
          session_id |-> Take(w, SESSION_ID_OFFSET, At(w, 43)),
          ephemeral_public |-> x.share[1], tls13_negotiable |-> x.tls13]
  BY <1>0, <1>3, <1>4, Zenon DEF LastTests
<1> QED BY <1>0, <1>1, <1>3, <1>4, <1>5, <1>6, Zenon DEF ParsedAs

(* All tests pass on a hello whose extensions were read. *)
LEMMA TestsPass ==
    ASSUME NEW w, NEW e \in Nat, Fits(109 + e), Wide(w, 114 + e), NEW random, Wide(random, 32),
           NEW sid, Wide(sid, 32), NEW exts, Laid(w, random, sid, exts, e), NEW host, NEW public,
           ReadExtensions(w, 114, e) = WithName(host, public, 114 + e)
    PROVE  ParseClientHello(w) = ParsedAs(host, random, sid, public)
<1>1. /\ Len(w) = 114 + e
      /\ At(w, 0) = 22 /\ At(w, 1) = 3 /\ At(w, 2) = 1 /\ U16(w, 3) = 109 + e
      /\ At(w, 5) = 1 /\ 256 * U16(w, 6) + At(w, 8) = 105 + e
      /\ At(w, 43) = 32 /\ U16(w, 76) = 32 /\ At(w, 110) = 1 /\ U16(w, 112) = e
      /\ Take(w, 11, 32) = random /\ Take(w, 44, 32) = sid
  <2>1. Fields(w, e, random, sid)
    BY LaidRead
  <2> QED BY <2>1, Zenon DEF Fields
<1>2. LastTests(w, WithName(host, public, 114 + e)) = ParsedAs(host, random, sid, public)
  <2>1. PICK l : l = 114 + e
    OBVIOUS
  <2>2. /\ Len(w) = l /\ At(w, 43) = 32 /\ Take(w, 11, 32) = random /\ Take(w, 44, 32) = sid
    BY <1>1, <2>1
  <2>3. LastTests(w, WithName(host, public, l)) = ParsedAs(host, random, sid, public)
    BY <2>2, LastPass
  <2> QED BY <2>1, <2>3, Zenon
<1>3. PICK x, y : x = WithName(host, public, 114 + e) /\ y = ParsedAs(host, random, sid, public)
  BY Zenon
<1>4. LastTests(w, x) = y
  BY <1>2, <1>3, Zenon
<1>5. ListTests(w, 76, 110, 112, x) = y
  <2>1. /\ ~(Len(w) < SESSION_ID_OFFSET) /\ ~(At(w, 43) > MAX_SESSION_ID_LEN)
        /\ ~(Len(w) < 76 + 2) /\ ~(U16(w, 76) % 2 # 0)
        /\ ~(Len(w) < 110 + 1) /\ ~(Len(w) < 112 + 2)
    BY <1>1, SMTT(60) DEF SESSION_ID_OFFSET, MAX_SESSION_ID_LEN
  <2> QED BY <1>4, <2>1, Zenon DEF ListTests
<1>6. Tests(w, 76, 110, 112, x) = y
  <2>1. /\ ~(Len(w) < 1) /\ ~(At(w, 0) # CONTENT_HANDSHAKE) /\ ~(Len(w) < 3)
        /\ ~(At(w, 1) # 3) /\ ~(At(w, 2) > 3) /\ ~(Len(w) < 5) /\ ~(Len(w) - 5 # U16(w, 3))
        /\ ~(Len(w) < 6) /\ ~(At(w, 5) # HS_CLIENT_HELLO) /\ ~(Len(w) < 9)
        /\ ~(Len(w) - 9 # 256 * U16(w, 6) + At(w, 8))
    BY <1>1, SMTT(60) DEF CONTENT_HANDSHAKE, HS_CLIENT_HELLO
  <2> QED BY <1>5, <2>1, Zenon DEF Tests
<1>7. ParseClientHello(w) = Tests(w, 76, 110, 112, ReadExtensions(w, 114, e))
  <2>1. SESSION_ID_OFFSET + At(w, 43) = 76
    BY <1>1 DEF SESSION_ID_OFFSET
  <2>2. 76 + 2 + U16(w, 76) = 110 /\ 110 + 1 + At(w, 110) = 112 /\ 112 + 2 = 114
    BY <1>1
  <2> DEFINE ciphers == SESSION_ID_OFFSET + At(w, 43)
             comp == ciphers + 2 + U16(w, ciphers)
             exts1 == comp + 1 + At(w, comp)
  <2>3. ParseClientHello(w) = Tests(w, ciphers, comp, exts1, ReadExtensions(w, exts1 + 2, U16(w, exts1)))
    BY ParseIs, Zenon
  <2>4. ciphers = 76
    BY <2>1
  <2> HIDE DEF ciphers
  <2>5. comp = 110
    BY <1>1, <2>2, <2>4, Zenon DEF comp
  <2> HIDE DEF comp
  <2>6. exts1 = 112
    BY <1>1, <2>2, <2>5, Zenon DEF exts1
  <2> HIDE DEF exts1
  <2>7. U16(w, 112) = e
    BY <1>1
  <2> QED BY <2>2, <2>3, <2>4, <2>5, <2>6, <2>7, ZenonT(60)
<1> QED BY <1>3, <1>6, <1>7, Zenon

-----------------------------------------------------------------------------
(* Padding, and the hello of a handshake.                                  *)

(* The extension block of a hello for a name of n bytes: e bytes long,     *)
(* with or without padding behind the extensions that mean something.      *)
Block(b, host, n, public, e) ==
    /\ Wide(b, e) /\ Fits(109 + e)
    /\ \/ b = Extensions(Some(host), public) /\ e = 219 + n
       \/ \E pad \in Nat : /\ Fits(pad) /\ e = (219 + n) + (4 + pad)
                           /\ b = Extensions(Some(host), public) \o Blank(EXT_PADDING, pad)

(* The extensions of a hello are read as what they were built from. *)
LEMMA BlockRead ==
    ASSUME NEW host, NEW n \in Nat, Wide(host, n), Fits(5 + n), Ascii(host), NEW public, Wide(public, 32),
           NEW b, NEW e \in Nat, Block(b, host, n, public, e),
           NEW w, Wide(w, 114 + e), Has(w, 114, b)
    PROVE  ReadExtensions(w, 114, e) = WithName(host, public, 114 + e)
<1>1. w \in ByteStrings /\ Len(w) = 114 + e
  BY DEF Wide
<1>2. PICK f : Blocks(w, 114, e, 0, f) /\ ReadExtensions(w, 114, e) = f[114]
  BY <1>1, ReadExtensionsIs
<1>3. Walk(w, f)
  <2>1. Len(w) - 114 = e /\ Len(w) >= 114
    BY <1>1
  <2> QED BY <1>1, <1>2, <2>1 DEF Walk
<1>4. PICK l \in Nat : l = 114 + e
  OBVIOUS
<1>5. f[l] = AtEnd(l)
  <2>1. f[Len(w)] = [Nothing EXCEPT !.pos = Len(w)]
    BY <1>3, WalkEnd
  <2>2. Len(w) = l
    BY <1>1, <1>4
  <2>3. [Nothing EXCEPT !.pos = l] = Says(TRUE, None, None, FALSE, l)
    BY NothingSays, Zenon
  <2> QED BY <2>1, <2>2, <2>3, Zenon DEF AtEnd
<1>6. PICK x : x = Extensions(Some(host), public)
  OBVIOUS
<1>7. Wide(x, 219 + n) /\ 219 + n \in Nat
  BY <1>6, WideExtensions
<1>8. Has(w, 114, x) /\ f[333 + n] = AtEnd(l)
  <2>1. CASE b = x /\ e = 219 + n
    <3>1. 333 + n = l
      BY <1>4, <2>1
    <3> QED BY <1>5, <2>1, <3>1
  <2>2. ASSUME NEW pad \in Nat, Fits(pad), e = (219 + n) + (4 + pad), b = x \o Blank(EXT_PADDING, pad)
        PROVE  Has(w, 114, x) /\ f[333 + n] = AtEnd(l)
    <3>1. EXT_PADDING \in Nat /\ Fits(EXT_PADDING)
          /\ EXT_PADDING \notin {EXT_SERVER_NAME, EXT_KEY_SHARE, EXT_SUPPORTED_VERSIONS}
      BY DEF EXT_PADDING, EXT_SERVER_NAME, EXT_KEY_SHARE, EXT_SUPPORTED_VERSIONS, Fits
    <3>2. Skipped(Blank(EXT_PADDING, pad), 4 + pad)
      BY <2>2, <3>1, SkipBlank
    <3>0. PICK z : z = Blank(EXT_PADDING, pad)
      OBVIOUS
    <3>3. PICK m \in Nat, o \in Nat : m = 4 + pad /\ o = 219 + n
      BY <1>7
    <3>4. Skipped(z, m) /\ Wide(z, m) /\ Wide(x, o) /\ Has(w, 114, x \o z)
      BY <1>7, <2>2, <3>0, <3>2, <3>3 DEF Skipped
    <3>5. 333 + n = 114 + o /\ 333 + n \in Nat
      BY <3>3
    <3>6. Has(w, 114, x) /\ Has(w, 333 + n, z)
      BY <1>1, <3>4, <3>5, Apart
    <3>7. (333 + n) + m = l
      BY <1>4, <2>2, <3>3
    <3>8. Plain(f[(333 + n) + m])
      BY <1>5, <3>7, AllPlain
    <3>9. f[333 + n] = f[(333 + n) + m]
      BY <1>3, <3>4, <3>5, <3>6, <3>8 DEF Skipped
    <3> QED BY <1>5, <3>6, <3>7, <3>9
  <2> QED BY <1>6, <2>1, <2>2, Zenon DEF Block
<1>9. f[114] = WithName(host, public, l)
  BY <1>3, <1>6, <1>8, ExtensionsRead
<1> QED BY <1>2, <1>4, <1>9, Zenon

(* The padding the builder adds. *)
LEMMA PaddingIs ==
    ASSUME NEW host, NEW n \in Nat, Wide(host, n), Fits(5 + n), Ascii(host), NEW public, Wide(public, 32)
    PROVE  PaddingLen(Extensions(Some(host), public), Some(host))
             = IF 228 + 2 * n < 512 THEN 280 - 2 * n ELSE 0
<1>1. PICK x, y : x = Extensions(Some(host), public) /\ y = Some(host)
  OBVIOUS
<1>2. Len(x) = 219 + n /\ Len(host) = n
  <2>1. Wide(x, 219 + n)
    BY <1>1, WideExtensions
  <2> QED BY <2>1 DEF Wide
<1>3. y # None /\ y[1] = host
  BY <1>1, Options
<1>4. SniOverhead(y) = 9 + n
  BY <1>2, <1>3 DEF SniOverhead
<1>5. PaddingLen(x, y) = IF 228 + 2 * n < 512 THEN 280 - 2 * n ELSE 0
  BY <1>2, <1>4 DEF PaddingLen, PADDING_BOUNDARY
<1> QED BY <1>1, <1>5, Zenon

(* The padded block ends on the boundary, or reaches it without padding. *)
PadsTo(b, host, n, public) ==
    \E e \in Nat : /\ Block(b, host, n, public, e)
                   /\ e + (9 + n) = IF 228 + 2 * n < 508 THEN 512 ELSE 228 + 2 * n

(* The builder makes such a block, but for a name of 141 bytes. *)
LEMMA PaddedIs ==
    ASSUME NEW host, NEW n \in Nat, Wide(host, n), Fits(328 + n), Ascii(host), NEW public, Wide(public, 32),
           n # 141
    PROVE  PadsTo(Padded(Extensions(Some(host), public), Some(host)), host, n, public)
<1> DEFINE b == Padded(Extensions(Some(host), public), Some(host))
<1>0. Fits(5 + n)
  BY DEF Fits
<1>1. PICK x : x = Extensions(Some(host), public)
  OBVIOUS
<1>2. PICK pad : pad = PaddingLen(Extensions(Some(host), public), Some(host))
  OBVIOUS
<1>3. pad = IF 228 + 2 * n < 512 THEN 280 - 2 * n ELSE 0
  BY <1>0, <1>2, PaddingIs
<1>4. Wide(x, 219 + n) /\ 219 + n \in Nat
  BY <1>0, <1>1, WideExtensions
<1>5. b = IF pad > 0 THEN x \o Blank(EXT_PADDING, pad) ELSE x
  BY <1>1, <1>2, Zenon DEF Padded, Blank
<1> HIDE DEF b
<1>6. CASE n < 140
  <2>1. pad \in Nat /\ pad > 0 /\ pad = 280 - 2 * n /\ Fits(pad)
    BY <1>3, <1>6 DEF Fits
  <2>2. PICK e \in Nat : e = (219 + n) + (4 + pad) /\ 4 + pad \in Nat
    BY <2>1
  <2>3. e = 503 - n /\ Fits(109 + e) /\ e + (9 + n) = 512 /\ 228 + 2 * n < 508
    BY <1>6, <2>1, <2>2 DEF Fits
  <2>4. Wide(Blank(EXT_PADDING, pad), 4 + pad)
    <3>1. EXT_PADDING \in Nat /\ Wide(Zeros(pad), pad)
      BY <2>1, WideParts, ZenonT(60) DEF EXT_PADDING
    <3> QED BY <2>1, <3>1, WideExtension DEF Blank
  <2>5. b = x \o Blank(EXT_PADDING, pad)
    BY <1>5, <2>1
  <2>6. Wide(b, e)
    BY <1>4, <2>2, <2>4, <2>5, WideJoined
  <2>7. Block(b, host, n, public, e)
    <3>1. \E c \in Nat : /\ Fits(c) /\ e = (219 + n) + (4 + c)
                          /\ b = Extensions(Some(host), public) \o Blank(EXT_PADDING, c)
      BY <1>1, <2>1, <2>2, <2>5
    <3> QED BY <2>3, <2>6, <3>1, Zenon DEF Block
  <2>8. e + (9 + n) = IF 228 + 2 * n < 508 THEN 512 ELSE 228 + 2 * n
    BY <2>3
  <2> QED BY <2>7, <2>8 DEF b, PadsTo
<1>7. CASE n >= 140
  <2>1. pad = 0
    BY <1>3, <1>7
  <2>2. PICK e \in Nat : e = 219 + n
    OBVIOUS
  <2>3. Fits(109 + e) /\ e + (9 + n) = 228 + 2 * n /\ ~(228 + 2 * n < 508)
    BY <1>7, <2>2 DEF Fits
  <2>5. b = x
    BY <1>5, <2>1
  <2>6. Wide(b, e)
    BY <1>4, <2>2, <2>5
  <2>7. Block(b, host, n, public, e)
    BY <1>1, <2>2, <2>3, <2>5, <2>6, Zenon DEF Block
  <2>8. e + (9 + n) = IF 228 + 2 * n < 508 THEN 512 ELSE 228 + 2 * n
    BY <2>3
  <2> QED BY <2>7, <2>8 DEF b, PadsTo
<1> QED BY <1>6, <1>7

(* What the other side can rely on in the hello of h for the parameters q. *)
Sound(h, q, w) ==
    /\ ParseClientHello(w) = ParsedAs(q.sni, Field(HelloRandom(Ephemeral(h), q.key)),
                                      Field(SidName(h)), Field(Ephemeral(h)))
    /\ U16(w, 112) + (9 + Len(q.sni))
         = IF 228 + 2 * Len(q.sni) < 508 THEN 512 ELSE 228 + 2 * Len(q.sni)
    /\ ZeroSid(w) = HelloFor(h, q).wire

(* The parser reads a built and patched hello as what it was built from. *)
LEMMA HelloParses ==
    ASSUME NEW host, NEW n \in Nat, Wide(host, n), Fits(5 + n), Ascii(host), NEW public, Wide(public, 32),
           NEW random, Wide(random, 32), NEW b, NEW e \in Nat, Block(b, host, n, public, e),
           NEW k \in Nat, NEW hello, hello = HelloRecord(HelloBody(random, Zeros(32), b))
    PROVE  LET w == PatchSid(hello, Field(k)) IN
           /\ ParseClientHello(w) = ParsedAs(host, random, Field(k), public)
           /\ U16(w, 112) = e /\ ZeroSid(w) = hello
<1> DEFINE w == PatchSid(hello, Field(k))
<1>1. Wide(b, e) /\ Fits(109 + e)
  BY DEF Block
<1>2. Wide(hello, 114 + e) /\ Laid(hello, random, Zeros(32), b, e)
  BY <1>1, HelloLaid, Zenon
<1>3. Wide(w, 114 + e) /\ Laid(w, random, Field(k), b, e) /\ ZeroSid(w) = hello
  BY <1>1, <1>2, PatchedLaid
<1> HIDE DEF w
<1>4. Wide(Field(k), 32)
  BY WideParts
<1>5. Fields(w, e, random, Field(k))
  BY <1>1, <1>3, <1>4, LaidRead
<1>6. U16(w, 112) = e
  BY <1>5 DEF Fields
<1>7. Has(w, 114, b)
  BY <1>3 DEF Laid
<1>8. ReadExtensions(w, 114, e) = WithName(host, public, 114 + e)
  BY <1>3, <1>7, BlockRead
<1>9. ParseClientHello(w) = ParsedAs(host, random, Field(k), public)
  BY <1>1, <1>3, <1>4, <1>8, TestsPass
<1> QED BY <1>3, <1>6, <1>9 DEF w

(* What the builder makes y of a name of n bytes: the hello, or a panic. *)
Builds(y, n, hello) ==
    /\ n = 141 => y = Err("panic")
    /\ n # 141 => y.ok /\ y.wire = hello

(* The builder panics on a name of 141 bytes and on no other. *)
LEMMA BuiltIs ==
    ASSUME NEW host, NEW n \in Nat, Wide(host, n), Fits(328 + n), Ascii(host), NEW public, Wide(public, 32),
           NEW random
    PROVE  Builds(BuildClientHello(Some(host), public, random, Zeros(32)), n,
                  HelloRecord(HelloBody(random, Zeros(32),
                                        Padded(Extensions(Some(host), public), Some(host)))))
<1> DEFINE x == Extensions(Some(host), public)
           y == BuildClientHello(Some(host), public, random, Zeros(32))
           z == HelloRecord(HelloBody(random, Zeros(32), Padded(x, Some(host))))
<1>0. Fits(5 + n)
  BY DEF Fits
<1>1. PaddingLen(x, Some(host)) = IF 228 + 2 * n < 512 THEN 280 - 2 * n ELSE 0
  BY <1>0, PaddingIs
<1>2. ~(Len(Zeros(32)) > MAX_SESSION_ID_LEN)
  <2>1. Wide(Zeros(32), 32)
    BY WideParts
  <2>2. PICK l : l = Len(Zeros(32))
    OBVIOUS
  <2>3. l = 32
    BY <2>1, <2>2 DEF Wide
  <2>4. ~(l > MAX_SESSION_ID_LEN)
    BY <2>3 DEF MAX_SESSION_ID_LEN
  <2> QED BY <2>2, <2>4, Zenon
<1>3. PaddingLen(x, Some(host)) < 0 <=> n = 141
  <2> HIDE DEF x
  <2> QED BY <1>1
<1>4. y = IF PaddingLen(x, Some(host)) < 0 THEN Err("panic") ELSE [ok |-> TRUE, wire |-> z]
  BY <1>2, Zenon DEF BuildClientHello
<1> HIDE DEF x, y, z
<1>5. n = 141 => y = Err("panic")
  BY <1>3, <1>4, Zenon
<1>6. n # 141 => y = [ok |-> TRUE, wire |-> z]
  BY <1>3, <1>4, Zenon
<1>7. n # 141 => y.ok /\ y.wire = z
  BY <1>6
<1>8. Builds(y, n, z)
  BY <1>5, <1>7, Zenon DEF Builds
<1> QED BY <1>8, Zenon DEF x, y, z

(* So the hello of a handshake is sound. *)
LEMMA HelloSound ==
    ASSUME NEW h \in Handshakes, NEW q, q.sni \in Seq(Nat), q.key \in Nat, Ascii(q.sni),
           Fits(328 + Len(q.sni))
    PROVE  /\ HelloFor(h, q).ok <=> Len(q.sni) # 141
           /\ HelloFor(h, q).ok => Sound(h, q, PatchSid(HelloFor(h, q).wire, Field(SidName(h))))
<1>1. PICK host : host = q.sni
  OBVIOUS
<1>2. PICK n \in Nat : n = Len(q.sni)
  OBVIOUS
<1>3. Wide(host, n) /\ Fits(328 + n) /\ Ascii(host) /\ Fits(5 + n)
  BY <1>1, <1>2 DEF Wide, ByteStrings, Fits
<1>4. PICK public, random : public = Field(Ephemeral(h)) /\ random = Field(HelloRandom(Ephemeral(h), q.key))
  OBVIOUS
<1>5. Wide(public, 32) /\ Wide(random, 32) /\ SidName(h) \in Nat
  <2>1. Ephemeral(h) \in Nat /\ HelloRandom(Ephemeral(h), q.key) \in Nat /\ SidName(h) \in Nat
    BY Names, Numbers, SMTT(60) DEF HelloRandom, Ephemeral, SidName
  <2> QED BY <1>4, <2>1, WideParts
<1>6. PICK y : y = BuildClientHello(Some(host), public, random, Zeros(32))
  OBVIOUS
<1>7. HelloFor(h, q) = y
  BY <1>1, <1>4, <1>6, Zenon DEF HelloFor
<1>8. PICK b : b = Padded(Extensions(Some(host), public), Some(host))
  OBVIOUS
<1>9. /\ n = 141 => y = Err("panic")
      /\ n # 141 => y.ok /\ y.wire = HelloRecord(HelloBody(random, Zeros(32), b))
  <2>1. Builds(y, n, HelloRecord(HelloBody(random, Zeros(32), b)))
    BY <1>3, <1>5, <1>6, <1>8, BuiltIs
  <2> QED BY <2>1, Zenon DEF Builds
<1>10. ~Err("panic").ok
  BY DEF Err
<1>11. y.ok <=> n # 141
  BY <1>9, <1>10, Zenon
<1>12. ASSUME y.ok PROVE Sound(h, q, PatchSid(y.wire, Field(SidName(h))))
  <2>1. n # 141
    BY <1>11, <1>12
  <2>2. PICK e \in Nat : /\ Block(b, host, n, public, e)
                         /\ e + (9 + n) = IF 228 + 2 * n < 508 THEN 512 ELSE 228 + 2 * n
    <3>1. PadsTo(b, host, n, public)
      BY <1>3, <1>5, <1>8, <2>1, PaddedIs
    <3> QED BY <3>1 DEF PadsTo
  <2>3. PICK hello : hello = y.wire
    OBVIOUS
  <2>4. hello = HelloRecord(HelloBody(random, Zeros(32), b))
    BY <1>9, <2>1, <2>3, Zenon
  <2> DEFINE w == PatchSid(hello, Field(SidName(h)))
  <2>5. /\ ParseClientHello(w) = ParsedAs(host, random, Field(SidName(h)), public)
        /\ U16(w, 112) = e /\ ZeroSid(w) = hello
    BY <1>3, <1>5, <2>2, <2>4, HelloParses
  <2> HIDE DEF w
  <2>6. U16(w, 112) + (9 + Len(q.sni))
          = IF 228 + 2 * Len(q.sni) < 508 THEN 512 ELSE 228 + 2 * Len(q.sni)
    BY <1>2, <2>2, <2>5
  <2>7. ZeroSid(w) = HelloFor(h, q).wire
    BY <1>7, <2>3, <2>5
  <2>8. Sound(h, q, w)
    BY <1>1, <1>4, <2>5, <2>6, <2>7, Zenon DEF Sound
  <2> QED BY <2>3, <2>8, Zenon DEF w
<1> QED BY <1>2, <1>7, <1>11, <1>12, Zenon

(* Server names are ASCII, and short enough for the sixteen-bit lengths of *)
(* the record around them.                                                 *)
NamesFit ==
    \A h \in Handshakes : \A p \in Profiles[h] : Ascii(p.sni) /\ Fits(328 + Len(p.sni))

(* So is what initiate returns. *)
LEMMA InitiatedSound ==
    ASSUME NamesFit, NEW h \in Handshakes, NEW p \in Profiles[h]
    PROVE  LET r == Initiate(h, p) IN
           /\ r.ok => Sound(h, r.params, r.wire)
           /\ ~r.ok /\ r.err = "panic" => Len(p.sni) = 141
<1> DEFINE q == IntoParams(p)
           hello == HelloFor(h, q)
           r == Initiate(h, p)
<1>1. p.sni \in Seq(Nat) /\ (p.key # None => p.key[1] \in Nat) /\ Ascii(p.sni) /\ Fits(328 + Len(p.sni))
  BY RealityAssumption DEF NamesFit
<1>2. q.ok => q.sni = p.sni /\ q.key \in Nat
  BY <1>1 DEF IntoParams, Err
<1>3. ~q.ok => q.err # "panic"
  BY DEF IntoParams, Err
<1> HIDE DEF q
<1>4. q.ok => /\ hello.ok <=> Len(p.sni) # 141
              /\ hello.ok => Sound(h, q, PatchSid(hello.wire, Field(SidName(h))))
  BY <1>1, <1>2, HelloSound
<1>5. CASE q.ok /\ ShortIdFits(q.short) /\ q.key # 0 /\ DH(Ephemeral(h), q.key) # {} /\ hello.ok
  <2>1. r = [ok |-> TRUE, params |-> q, wire |-> PatchSid(hello.wire, Field(SidName(h)))]
    <3> HIDE DEF hello
    <3> QED BY <1>5 DEF Initiate, q, hello
  <2> HIDE DEF r, hello
  <2>2. r.ok /\ r.params = q /\ r.wire = PatchSid(hello.wire, Field(SidName(h)))
    BY <2>1
  <2>3. Sound(h, r.params, r.wire)
    BY <1>4, <1>5, <2>2, Zenon
  <2> QED BY <2>2, <2>3, Zenon DEF r
<1>6. CASE ~(q.ok /\ ShortIdFits(q.short) /\ q.key # 0 /\ DH(Ephemeral(h), q.key) # {} /\ hello.ok)
  <2>1. ~r.ok /\ (r.err = "panic" => q.ok /\ ~hello.ok)
    <3> HIDE DEF hello
    <3> QED BY <1>3, <1>6 DEF Initiate, q, hello, Err
  <2> HIDE DEF r
  <2> QED BY <1>4, <2>1, Zenon DEF r
<1> QED BY <1>5, <1>6

(* What HelloWellFormed asks of a hello that was sent. *)
ReadBack(h, q, w) ==
    LET p     == ParseClientHello(w)
        total == U16(w, 112) + SniOverhead(Some(q.sni))
        bare  == 228 + 2 * Len(q.sni)
    IN  /\ p.ok /\ p.tls13_negotiable
        /\ p.sni = Some(q.sni) /\ p.ephemeral_public = Field(Ephemeral(h))
        /\ p.random = Field(HelloRandom(Ephemeral(h), q.key))
        /\ p.session_id = Field(SidName(h))
        /\ total = IF bare < PADDING_BOUNDARY - 4 THEN PADDING_BOUNDARY ELSE bare

(* A sound hello is read back. *)
LEMMA SoundReads ==
    ASSUME NEW h, NEW q, Len(q.sni) \in Nat, NEW w, Sound(h, q, w)
    PROVE  ReadBack(h, q, w)
<1>1. PICK p : p = ParseClientHello(w)
  OBVIOUS
<1>2. PICK t, s, a, b, c : /\ t = TRUE /\ s = Some(q.sni) /\ a = Field(HelloRandom(Ephemeral(h), q.key))
                           /\ b = Field(SidName(h)) /\ c = Field(Ephemeral(h))
  BY Zenon
<1>3. p = [ok |-> t, sni |-> s, random |-> a, session_id |-> b, ephemeral_public |-> c,
           tls13_negotiable |-> t]
  BY <1>1, <1>2, Zenon DEF Sound, ParsedAs
<1>4. p.ok = t /\ p.sni = s /\ p.random = a /\ p.session_id = b /\ p.ephemeral_public = c
      /\ p.tls13_negotiable = t
  BY <1>3
<1>5. SniOverhead(Some(q.sni)) = 9 + Len(q.sni)
  <2>1. Some(q.sni) # None /\ Some(q.sni)[1] = q.sni
    BY Options
  <2> QED BY <2>1, Zenon DEF SniOverhead
<1>6. PADDING_BOUNDARY - 4 = 508 /\ PADDING_BOUNDARY = 512
  BY DEF PADDING_BOUNDARY
<1>7. U16(w, 112) + SniOverhead(Some(q.sni)) = IF 228 + 2 * Len(q.sni) < PADDING_BOUNDARY - 4
          THEN PADDING_BOUNDARY ELSE 228 + 2 * Len(q.sni)
  <2>1. U16(w, 112) + (9 + Len(q.sni))
          = IF 228 + 2 * Len(q.sni) < 508 THEN 512 ELSE 228 + 2 * Len(q.sni)
    BY Zenon DEF Sound
  <2> QED BY <1>5, <1>6, <2>1
<1> QED BY <1>1, <1>2, <1>4, <1>7, Zenon DEF ReadBack

(* Every hello a client sends is sound, and a client panics on a name of   *)
(* 141 bytes and on no other.                                              *)
Formed(h) ==
    /\ phase'[h] = "sent" => Sound(h, profile'[h][1], wire_hello'[h]) /\ Len(profile'[h][1].sni) \in Nat
    /\ phase'[h] = "panic" => Len(profile'[h][1].sni) = 141
    /\ phase'[h] # "closed"

(* Connect sends a sound hello or panics on such a name. *)
LEMMA ConnectForms ==
    ASSUME NamesFit, RInv, NEW g \in Handshakes, Connect(g)
    PROVE  Formed(g)
<1>1. PICK p \in Profiles[g] :
         LET r == Initiate(g, p) IN
         \/ /\ r.ok
            /\ phase' = [phase EXCEPT ![g] = "sent"]
            /\ profile' = [profile EXCEPT ![g] = Some(r.params)]
            /\ wire_hello' = [wire_hello EXCEPT ![g] = r.wire]
         \/ /\ ~r.ok
            /\ phase' = [phase EXCEPT ![g] = r.err]
            /\ profile' = [profile EXCEPT ![g] = Some(p)]
            /\ UNCHANGED wire_hello
  BY DEF Connect
<1>2. PICK r : r = Initiate(g, p)
  OBVIOUS
<1>3. DOMAIN phase = Handshakes /\ DOMAIN profile = Handshakes /\ DOMAIN wire_hello = Handshakes
  BY DEF RInv, ClientInv
<1>4. /\ r.ok => Sound(g, r.params, r.wire)
      /\ ~r.ok /\ r.err = "panic" => Len(p.sni) = 141
  BY <1>2, InitiatedSound
<1>5. r.ok => Len(r.params.sni) \in Nat
  <2>1. p.sni \in Seq(Nat)
    BY RealityAssumption
  <2>2. r.ok => r.params.sni = p.sni
    BY <1>2 DEF Initiate, IntoParams, Err
  <2> QED BY <2>1, <2>2
<1>6. ~r.ok => r.err \notin {"sent", "closed"}
  BY <1>2, Initiated
<1>7. CASE r.ok
  <2>1. phase'[g] = "sent" /\ profile'[g] = Some(r.params) /\ wire_hello'[g] = r.wire
    BY <1>1, <1>2, <1>3, <1>7
  <2>2. profile'[g][1] = r.params
    BY <2>1, Options
  <2> QED BY <1>4, <1>5, <1>7, <2>1, <2>2 DEF Formed
<1>8. CASE ~r.ok
  <2>1. phase'[g] = r.err /\ profile'[g] = Some(p)
    BY <1>1, <1>2, <1>3, <1>8
  <2>2. profile'[g][1] = p
    BY <2>1, Options
  <2> QED BY <1>4, <1>6, <1>8, <2>1, <2>2 DEF Formed
<1> QED BY <1>7, <1>8

(* Whatever the profile, the hello initiate sends (tls.rs,                 *)
(* build_client_hello) is read back by parse_client_hello as what it was   *)
(* built from, its length fields included, and padded to the boundary; the *)
(* builder panics only on a name of 141 bytes.  Names are ASCII and fit    *)
(* the record.                                                             *)
THEOREM HelloCorrect == ASSUME NamesFit PROVE Spec => HelloWellFormed
<1> DEFINE Good(h) ==
             /\ phase'[h] = "sent" => ReadBack(h, profile'[h][1], wire_hello'[h])
             /\ phase'[h] = "panic" => Len(profile'[h][1].sni) = 141
           All == \A h \in Handshakes : phase[h] = "new" /\ phase'[h] # "new" => Good(h)
<1>1. ASSUME NEW h \in Handshakes, Formed(h) PROVE Good(h)
  <2>1. ASSUME phase'[h] = "sent" PROVE Sound(h, profile'[h][1], wire_hello'[h]) /\ Len(profile'[h][1].sni) \in Nat
    BY <1>1, <2>1 DEF Formed
  <2>2. phase'[h] = "panic" => Len(profile'[h][1].sni) = 141
    BY <1>1 DEF Formed
  <2> QED BY <2>1, <2>2, SoundReads
<1> HIDE DEF Good
<1>2. ASSUME RInv, [Next]_vars PROVE [All]_vars
  <2>0. ASSUME phase' = phase PROVE All
    BY <2>0
  <2>1. ASSUME NEW g \in Handshakes, Connect(g) PROVE All
    <3>1. \A h \in Handshakes : h # g => phase'[h] = phase[h]
      BY <1>2, <2>1 DEF Connect, RInv, ClientInv
    <3>2. Good(g)
      BY <1>1, <1>2, <2>1, ConnectForms
    <3> QED BY <3>1, <3>2
  <2>2. ASSUME NEW g \in Handshakes, Complete(g) \/ SealRecord(g) PROVE phase' = phase
    BY <2>2 DEF Complete, SealRecord, client
  <2>3. ASSUME NEW g \in Handshakes, OpenRecord(g) PROVE All
    <3>1. phase[g] = "sent" /\ \A h \in Handshakes : h # g => phase'[h] = phase[h]
      BY <1>2, <2>3 DEF OpenRecord, RInv, ClientInv
    <3> QED BY <3>1
  <2>4. ASSUME NEW c \in Conns, ServerHello(c) \/ ServerRecord(c) PROVE phase' = phase
    BY <2>4 DEF ServerHello, ServerRecord, client
  <2> HIDE DEF All
  <2> QED BY <1>2, <2>0, <2>1, <2>2, <2>3, <2>4 DEF Next
<1>3. Spec => [][All]_vars
  BY <1>2, AlwaysRInv, PTL DEF Spec
<1> QED BY <1>3 DEF HelloWellFormed, Good, ReadBack

-----------------------------------------------------------------------------
(* A whole hello of a client that may enter is answered.                   *)

(* The server's own key, and a short id it allows. *)
Due(h) == Key(h) = Static /\ PadShort(profile[h][1].short) = PadShort(AllowedShort)

(* The name of a field. *)
LEMMA NamedField ==
    ASSUME NEW k \in Nat
    PROVE  Named(Field(k)) = k
<1>1. /\ \A i \in DOMAIN Field(k) : Field(k)[i] = k
      /\ Field(k)[1] = k
  BY DEF Field
<1> QED BY <1>1 DEF Named

(* Fields are equal if their names are. *)
LEMMA FieldIsOne ==
    ASSUME NEW j \in Nat, NEW k \in Nat, Field(j) = Field(k)
    PROVE  j = k
<1>1. Field(j)[1] = j /\ Field(k)[1] = k
  BY DEF Field
<1> QED BY <1>1

(* Diffie-Hellman gives both sides one secret. *)
LEMMA SharedEitherWay == \A a, b : DH(a, b) = DH(b, a)
<1> SUFFICES ASSUME NEW a, NEW b PROVE DH(a, b) = DH(b, a)
  OBVIOUS
<1>1. {a, b} = {b, a}
  OBVIOUS
<1> QED BY <1>1, Zenon DEF DH

(* A hello that arrives as it was sent passes, if its client may enter. *)
LEMMA JudgedWell ==
    ASSUME ClientInv, NEW g \in Handshakes, InUse(g), Started(g), Due(g),
           Sound(g, profile[g][1], wire_hello[g])
    PROVE  Judge(wire_hello[g], ParseClientHello(wire_hello[g])).ok
<1>1. PICK w, p, q : w = wire_hello[g] /\ p = ParseClientHello(w) /\ q = profile[g][1]
  OBVIOUS
<1>2. PICK t, s, a, b, c : /\ t = TRUE /\ s = Some(q.sni) /\ a = Field(HelloRandom(Ephemeral(g), q.key))
                           /\ b = Field(SidName(g)) /\ c = Field(Ephemeral(g))
  BY Zenon
<1>3. p = [ok |-> t, sni |-> s, random |-> a, session_id |-> b, ephemeral_public |-> c,
           tls13_negotiable |-> t]
  BY <1>1, <1>2, Zenon DEF Sound, ParsedAs
<1>4. p.ok = t /\ p.sni = s /\ p.random = a /\ p.session_id = b /\ p.ephemeral_public = c
  BY <1>3
<1>5. ZeroSid(w) = HelloFor(g, q).wire
  BY <1>1, Zenon DEF Sound
<1>6. q.key = Static
  BY <1>1 DEF Due, Key
<1> DEFINE auth == AuthKey(DH(Static, Named(p.ephemeral_public)), p.random)
           open == Unseal(auth, p.random, ZeroSid(w), p.session_id)
           from == CHOOSE h \in open : TRUE
<1>7. auth = AuthKey(DH(Ephemeral(g), q.key), p.random)
  <2>1. Ephemeral(g) \in Nat
    BY Names, Numbers DEF Ephemeral
  <2>2. Named(p.ephemeral_public) = Ephemeral(g)
    BY <1>2, <1>4, <2>1, NamedField
  <2> QED BY <1>6, <2>2, SharedEitherWay
<1> HIDE DEF auth
<1>8. g \in open
  <2>1. /\ p.session_id = Field(SidName(g))
        /\ p.random = Field(HelloRandom(Ephemeral(g), q.key))
    BY <1>2, <1>4
  <2> QED BY <1>1, <1>5, <1>7, <2>1 DEF Unseal
<1>9. \A h \in open : h \in Handshakes /\ p.session_id = Field(SidName(h))
  BY DEF Unseal
<1> HIDE DEF open
<1>10. from \in open
  BY <1>8
<1> HIDE DEF from
<1>11. from = g
  <2>1. from \in Handshakes /\ Field(SidName(from)) = Field(SidName(g))
    BY <1>8, <1>9, <1>10
  <2>2. SidName(from) \in Nat /\ SidName(g) \in Nat
    BY <2>1, Numbers DEF SidName
  <2>3. SidName(from) = SidName(g)
    BY <2>1, <2>2, FieldIsOne
  <2> QED BY <2>1, <2>3, Numbers DEF SidName
<1>12. /\ SessionIdPlain(profile[from][1].short).client_version = CLIENT_VERSION
       /\ SessionIdPlain(profile[from][1].short).short_id = PadShort(AllowedShort)
  <2>1. PICK f : f = PadShort(profile[from][1].short)
    OBVIOUS
  <2>2. PICK y : y = [client_version |-> CLIENT_VERSION, short_id |-> f]
    OBVIOUS
  <2>3. y.client_version = CLIENT_VERSION /\ y.short_id = f
    BY <2>2
  <2>4. SessionIdPlain(profile[from][1].short) = y
    BY <2>1, <2>2, Zenon DEF SessionIdPlain
  <2> QED BY <1>11, <2>1, <2>3, <2>4 DEF Due
<1>13. p.sni # None
  BY <1>2, <1>4, Options
<1>14. Len(p.session_id) = 32
  <2>1. SidName(g) \in Nat
    BY Numbers DEF SidName
  <2>2. Wide(b, 32)
    BY <1>2, <2>1, WideParts
  <2> QED BY <1>4, <2>2 DEF Wide
<1>15. open # {} /\ p.ok
  BY <1>2, <1>4, <1>8, Zenon
<1>16. Judge(w, p) = [ok |-> TRUE, auth |-> auth, session_id |-> Named(p.session_id),
                      share |-> Named(p.ephemeral_public)]
  BY <1>12, <1>13, <1>14, <1>15, Zenon DEF Judge, auth, open, from
<1>17. Judge(w, p).ok
  BY <1>16
<1> QED BY <1>1, <1>17, Zenon

(* Every hello in use is sound, and a run that failed without keys read no *)
(* hello it was due to answer.                                             *)
SoundInv == \A h \in Handshakes : InUse(h) => Sound(h, profile[h][1], wire_hello[h])
Refused(c) == srv[c].state = "failed" /\ srv[c].keys = None
ReadAll(c, h) == srv[c].read = Some([from |-> h, whole |-> TRUE])
RefusalInv ==
    \A c \in Conns, h \in Handshakes : Refused(c) /\ ReadAll(c, h) => InUse(h) /\ ~Due(h)

(* What a client's step leaves for the runs. *)
LEMMA ClientRefusal ==
    ASSUME RInv, RefusalInv, srv' = srv,
           \A h \in Handshakes : InUse(h) => InUse(h)' /\ profile'[h] = profile[h]
    PROVE  RefusalInv'
BY DEF RefusalInv, Refused, ReadAll, Due, Key

(* Whose hello a run read, and that it came whole. *)
LEMMA ReadIsOne ==
    ASSUME NEW g, NEW h, NEW w, Read(g, w) = Some([from |-> h, whole |-> TRUE])
    PROVE  g = h /\ w = wire_hello[g]
<1>1. PICK t, u : t = TRUE /\ u = (w = wire_hello[g])
  BY Zenon
<1>2. PICK x, y : x = [from |-> g, whole |-> u] /\ y = [from |-> h, whole |-> t]
  OBVIOUS
<1>3. Some(x) = Some(y)
  BY <1>1, <1>2, Zenon DEF Read
<1>4. x = y
  BY <1>3, Options
<1>5. g = h /\ u = t
  BY <1>2, <1>4
<1> QED BY <1>1, <1>5, Zenon

(* A run that refuses a hello was not due to answer it. *)
LEMMA HelloRefusal ==
    ASSUME RInv, SoundInv, RefusalInv, NEW c \in Conns, ServerHello(c)
    PROVE  RefusalInv'
<1>1. UNCHANGED <<phase, profile, wire_hello>>
  BY DEF ServerHello, client
<1>2. PICK g \in Handshakes : phase[g] = "sent" /\ \E w \in Damaged(wire_hello[g]) :
         Answer(c, Read(g, w), Judge(w, ParseClientHello(w)))
  BY DEF ServerHello
<1>3. PICK w \in Damaged(wire_hello[g]) : Answer(c, Read(g, w), Judge(w, ParseClientHello(w)))
  BY <1>2
<1>4. PICK j, read : j = Judge(w, ParseClientHello(w)) /\ read = Read(g, w)
  OBVIOUS
<1>5. PICK keys, id : keys = RecordKeys(SessionIdentity(j.session_id, DH(ServerEph(c), j.share)))
                      /\ id = j.session_id
  OBVIOUS
<1>6. \/ srv' = [srv EXCEPT ![c] = [@ EXCEPT !.state = "serving", !.read = read,
                                    !.session_id = id, !.keys = Some(keys)]]
      \/ ~j.ok /\ srv' = [srv EXCEPT ![c] = [@ EXCEPT !.state = "failed",
                                    !.read = read, !.err = Some(j.err)]]
  BY <1>3, <1>4, <1>5 DEF Answer
<1>7. PICK s : s = srv[c]
  OBVIOUS
<1>8. /\ s = [state |-> s.state, err |-> s.err, read |-> s.read, session_id |-> s.session_id,
              keys |-> s.keys, seq_in |-> s.seq_in, seq_out |-> s.seq_out]
      /\ DOMAIN srv = Conns
  BY <1>7 DEF RInv, ServerInv
<1>9. \A d \in Conns : d # c => srv'[d] = srv[d]
  BY <1>6, <1>8
<1>10. \/ srv'[c].state = "serving"
       \/ ~j.ok /\ srv'[c].read = read
  <2>1. CASE srv' = [srv EXCEPT ![c] = [@ EXCEPT !.state = "serving", !.read = read,
                                    !.session_id = id, !.keys = Some(keys)]]
    <3>1. srv'[c] = [s EXCEPT !.state = "serving", !.read = read, !.session_id = id, !.keys = Some(keys)]
      BY <1>7, <1>8, <2>1
    <3> QED BY <1>8, <3>1
  <2>2. CASE ~j.ok /\ srv' = [srv EXCEPT ![c] = [@ EXCEPT !.state = "failed",
                                    !.read = read, !.err = Some(j.err)]]
    <3>1. srv'[c] = [s EXCEPT !.state = "failed", !.read = read, !.err = Some(j.err)]
      BY <1>7, <1>8, <2>2
    <3> QED BY <1>8, <2>2, <3>1
  <2> QED BY <1>6, <2>1, <2>2
<1>11. ASSUME NEW h \in Handshakes, Refused(c)', ReadAll(c, h)' PROVE InUse(h) /\ ~Due(h)
  <2>1. ~j.ok /\ srv'[c].read = read
    BY <1>10, <1>11 DEF Refused
  <2>2. Read(g, w) = Some([from |-> h, whole |-> TRUE])
    BY <1>4, <1>11, <2>1, Zenon DEF ReadAll
  <2>3. g = h /\ w = wire_hello[g]
    BY <2>2, ReadIsOne
  <2>4. InUse(g)
    BY <1>2 DEF InUse
  <2>5. Started(g)
    <3>1. wire_hello[g] \in ByteStrings /\ Len(wire_hello[g]) >= 46
      BY <1>2, SentBytes
    <3>2. Len(<<>>) = 0
      OBVIOUS
    <3> QED BY <3>1, <3>2 DEF Started
  <2>6. Sound(g, profile[g][1], wire_hello[g])
    BY <2>4 DEF SoundInv
  <2>7. ClientInv
    BY DEF RInv
  <2>8. Due(g) => Judge(wire_hello[g], ParseClientHello(wire_hello[g])).ok
    BY <2>4, <2>5, <2>6, <2>7, JudgedWell
  <2>9. ~Judge(wire_hello[g], ParseClientHello(wire_hello[g])).ok
    BY <1>4, <2>1, <2>3, Zenon
  <2> QED BY <2>3, <2>4, <2>8, <2>9, Zenon
<1>12. \A h \in Handshakes : (InUse(h)' <=> InUse(h)) /\ (Due(h)' <=> Due(h))
  BY <1>1 DEF InUse, Due, Key
<1>13. ASSUME NEW d \in Conns, NEW h \in Handshakes, Refused(d)', ReadAll(d, h)'
       PROVE  (InUse(h) /\ ~Due(h))'
  <2>1. CASE d = c
    BY <1>11, <1>12, <1>13, <2>1
  <2>2. CASE d # c
    <3>1. Refused(d) /\ ReadAll(d, h)
      BY <1>9, <1>13, <2>2 DEF Refused, ReadAll
    <3> QED BY <1>12, <3>1 DEF RefusalInv
  <2> QED BY <2>1, <2>2
<1> QED BY <1>13 DEF RefusalInv

(* A run that fails on a record has keys. *)
LEMMA RecordRefusal ==
    ASSUME RInv, RefusalInv, NEW c \in Conns, ServerRecord(c)
    PROVE  RefusalInv'
<1>1. UNCHANGED <<phase, profile, wire_hello>>
  BY DEF ServerRecord, client
<1>2. \/ srv' = [srv EXCEPT ![c].seq_in = @ + 1, ![c].seq_out = @ + 1]
      \/ srv' = [srv EXCEPT ![c] = [@ EXCEPT !.state = "failed", !.err = Some("record failed to open")]]
  BY SMTT(60) DEF ServerRecord
<1>3. PICK s : s = srv[c]
  BY SMTT(60)
<1>4. /\ s = [state |-> s.state, err |-> s.err, read |-> s.read, session_id |-> s.session_id,
              keys |-> s.keys, seq_in |-> s.seq_in, seq_out |-> s.seq_out]
      /\ DOMAIN srv = Conns
  BY <1>3, SMTT(60) DEF RInv, ServerInv
<1>5. s.keys # None
  BY <1>3 DEF RInv, ServerInv, ServerRecord
<1>6. (\A d \in Conns : d # c => srv'[d] = srv[d]) /\ srv'[c].keys = s.keys
  BY <1>2, <1>3, <1>4
<1>7. \A h \in Handshakes : (InUse(h)' <=> InUse(h)) /\ (Due(h)' <=> Due(h))
  BY <1>1 DEF InUse, Due, Key
<1> QED BY <1>5, <1>6, <1>7 DEF RefusalInv, Refused, ReadAll

(* No step changes a hello or a profile in use. *)
LEMMA SoundKept ==
    ASSUME NamesFit, RInv, SoundInv, [Next]_vars
    PROVE  /\ SoundInv'
           /\ \A h \in Handshakes : InUse(h) => InUse(h)' /\ profile'[h] = profile[h]
<1> DEFINE Kept == \A h \in Handshakes : InUse(h) => InUse(h)' /\ profile'[h] = profile[h]
<1>1. ASSUME NEW g \in Handshakes, Connect(g) PROVE SoundInv' /\ Kept
  <2>1. /\ \A h \in Handshakes : h # g =>
              phase'[h] = phase[h] /\ profile'[h] = profile[h] /\ wire_hello'[h] = wire_hello[h]
        /\ ~InUse(g)
    BY <1>1 DEF Connect, RInv, ClientInv, InUse
  <2>2. InUse(g)' => Sound(g, profile'[g][1], wire_hello'[g])
    <3>1. Formed(g)
      BY <1>1, ConnectForms
    <3> QED BY <3>1 DEF Formed, InUse
  <2>3. Kept
    BY <2>1 DEF InUse
  <2>4. ASSUME NEW h \in Handshakes, InUse(h)' PROVE Sound(h, profile[h][1], wire_hello[h])'
    <3>1. CASE h = g
      BY <2>2, <2>4, <3>1
    <3>2. CASE h # g
      BY <2>1, <2>4, <3>2 DEF SoundInv, InUse
    <3> QED BY <3>1, <3>2
  <2> QED BY <2>3, <2>4 DEF SoundInv
<1>2. ASSUME UNCHANGED <<profile, wire_hello>>, \A h \in Handshakes : InUse(h)' <=> InUse(h)
      PROVE  SoundInv' /\ Kept
  BY <1>2 DEF SoundInv
<1>3. ASSUME NEW g \in Handshakes, OpenRecord(g)
      PROVE  UNCHANGED <<profile, wire_hello>> /\ \A h \in Handshakes : InUse(h)' <=> InUse(h)
  BY <1>3 DEF OpenRecord, InUse, RInv, ClientInv
<1>4. ASSUME NEW g \in Handshakes, Complete(g) \/ SealRecord(g)
      PROVE  UNCHANGED <<phase, profile, wire_hello>>
  BY <1>4 DEF Complete, SealRecord, client
<1>5. ASSUME NEW c \in Conns, ServerHello(c) \/ ServerRecord(c)
      PROVE  UNCHANGED <<phase, profile, wire_hello>>
  BY <1>5 DEF ServerHello, ServerRecord, client
<1>6. UNCHANGED vars => UNCHANGED <<phase, profile, wire_hello>>
  BY DEF vars, client
<1>7. UNCHANGED <<phase, profile, wire_hello>> =>
         UNCHANGED <<profile, wire_hello>> /\ \A h \in Handshakes : InUse(h)' <=> InUse(h)
  BY DEF InUse
<1> HIDE DEF Kept
<1>8. SoundInv' /\ Kept
  BY <1>1, <1>2, <1>3, <1>4, <1>5, <1>6, <1>7 DEF Next
<1> QED BY <1>8 DEF Kept

(* No step makes a run refuse a hello it is due to answer. *)
LEMMA RefusalKept ==
    ASSUME NamesFit, RInv, SoundInv, RefusalInv, [Next]_vars
    PROVE  RefusalInv'
<1>1. \A h \in Handshakes : InUse(h) => InUse(h)' /\ profile'[h] = profile[h]
  BY SoundKept
<1>2. srv' = srv => RefusalInv'
  BY <1>1, ClientRefusal
<1>3. ASSUME NEW g \in Handshakes, Connect(g) \/ Complete(g) \/ SealRecord(g) \/ OpenRecord(g)
      PROVE  srv' = srv
  BY <1>3 DEF Connect, Complete, SealRecord, OpenRecord
<1>4. UNCHANGED vars => srv' = srv
  BY DEF vars
<1> QED BY <1>2, <1>3, <1>4, HelloRefusal, RecordRefusal DEF Next

(* So both hold always, where names fit. *)
LEMMA AlwaysRefusal == ASSUME NamesFit PROVE Spec => [](SoundInv /\ RefusalInv)
<1>1. Init => SoundInv /\ RefusalInv
  BY DEF Init, SoundInv, RefusalInv, Refused, InUse, NewServer
<1>2. RInv /\ (SoundInv /\ RefusalInv) /\ [Next]_vars => (SoundInv /\ RefusalInv)'
  BY SoundKept, RefusalKept
<1> QED BY <1>1, <1>2, AlwaysRInv, PTL DEF Spec

(* A run (test_server.rs) that gets a hello exactly as a client with its   *)
(* key and an allowed short id sent it always answers, for names that are  *)
(* ASCII and fit the record: building, patching, parsing and unsealing     *)
(* (reality.rs, tls.rs) agree on every byte.                               *)
THEOREM AnsweredCorrect == ASSUME NamesFit PROVE Spec => []AllowedHelloAnswered
<1>1. RefusalInv => AllowedHelloAnswered
  BY DEF RefusalInv, AllowedHelloAnswered, Refused, ReadAll, Due, Key
<1>2. Spec => [](SoundInv /\ RefusalInv)
  BY AlwaysRefusal
<1> QED BY <1>1, <1>2, PTL
=============================================================================
