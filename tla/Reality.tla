------------------------------ MODULE Reality ------------------------------
(***************************************************************************)
(* The REALITY handshake: native/src/handshake.rs and reality.rs on the    *)
(* client, the in-process server of test_server.rs on the other side, and  *)
(* data records under the keys they agree on.                              *)
(*                                                                         *)
(* The hello is a byte sequence (ClientHello).  A 32-byte value that is    *)
(* random or computed is 32 copies of one number above 255, its name, so   *)
(* that a change to any byte makes it another value.  Diffie-Hellman,      *)
(* HKDF, HMAC and hashes are terms, equal when their inputs are; an AEAD   *)
(* opens with the key, the nonce and the associated data it was sealed     *)
(* with, and under no other.                                               *)
(*                                                                         *)
(* The network may damage a hello on its way, hand it to several server    *)
(* runs, give a client any mix of the parts of the responses it has seen,  *)
(* and deliver records late, twice or to somebody else.  It computes       *)
(* nothing: it makes no keys and no seals of its own.                      *)
(***************************************************************************)
EXTENDS ClientHello, FiniteSets

CONSTANTS Handshakes,   \* client handshakes, small numbers
          Conns,        \* server runs, small numbers
          Profiles,     \* for each handshake, the profiles it may start from
          AllowedShort, \* the short id on the server's allowlist
          Offsets,      \* bytes of a hello the network may change
          MaxData       \* bound: records a client seals

ASSUME RealityAssumption ==
    /\ Handshakes \subseteq 1..99 /\ Conns \subseteq 1..99
    /\ DOMAIN Profiles = Handshakes
    /\ \A h \in Handshakes : \A p \in Profiles[h] :
          p.sni \in Seq(Nat) /\ (p.key # None => p.key[1] \in Nat)
    /\ Offsets \subseteq Nat /\ MaxData \in Nat

SID_SHORT_ID_LEN == 8

VARIABLES phase,         \* client: new, sent, closed, or how initiate failed
          profile,       \* what it started from
          wire_hello, record_keys, completed,
          sent, got,     \* payloads sealed and opened, in order
          srv,           \* the server runs
          responses,     \* server responses on the network
          records        \* data records on the network

client == <<phase, profile, wire_hello, record_keys, completed>>
vars   == <<client, sent, got, srv, responses, records>>

Started(h) == wire_hello[h] # <<>>   \* initiate succeeded

-----------------------------------------------------------------------------
(* Keys are numbers and stand for the pair; 0 and 256 are weak points.     *)
Field(k)     == [i \in 1..32 |-> k]
Named(bytes) == IF \A i \in DOMAIN bytes : bytes[i] = bytes[1] THEN bytes[1] ELSE 255
LowOrder     == 256
Static       == 300                  \* the server's Reality key
Ephemeral(h) == 400 + h
ServerEph(c) == 500 + c
SidName(h)   == 600 + h
DH(a, b)     == IF {a, b} \cap {0, LowOrder} # {} THEN {} ELSE {a, b}

(* hkdf_expand over the shared secret: a number that names the secret. *)
HelloRandom(a, b) == 1000 * a + b
AuthKey(shared, random) == <<"REALITY", shared, random>>

(* Mutation: the fresh shared secret is left out. *)
SessionIdentityStatic(session_id, shared) == <<session_id, {}>>

SessionIdentity(session_id, shared) == <<session_id, shared>>

RecordKeys(binding) == [send |-> <<"send", binding>>, recv |-> <<"recv", binding>>]

(* Mutation: the purpose is left out. *)
DeriveNonceNoPurpose(session_id, seq, direction, purpose) ==
    <<direction, session_id, seq>>

DeriveNonce(session_id, seq, direction, purpose) == <<direction, purpose, session_id, seq>>

Seal(key, nonce, msg, by) == [key |-> key, nonce |-> nonce, msg |-> msg, by |-> by]

(* Mutation: the sequence is not bound. *)
OpensAnyNonce(r, key, nonce) == r.key = key

Opens(r, key, nonce) == r.key = key /\ r.nonce = nonce

PadShort(short) == [i \in 1..SID_SHORT_ID_LEN |-> IF i <= Len(short) THEN short[i] ELSE 0]

(* What the session id carries sealed; the clock in it nobody checks. *)
CLIENT_VERSION == <<83, 86, 1>>
SessionIdPlain(short) == [client_version |-> CLIENT_VERSION, short_id |-> PadShort(short)]

-----------------------------------------------------------------------------
(* into_params and initiate.  A profile has the key and the short id as    *)
(* they decode: None where the text is no base64 of 32 bytes, or no hex.   *)
IntoParams(p) ==
    IF p.key = None THEN Err("BadServerKey")
    ELSE IF p.short = None \/ p.short = Some(<<>>) THEN Err("BadShortId")
    ELSE [ok |-> TRUE, key |-> p.key[1], short |-> p.short[1], sni |-> p.sni]

(* Mutation: a short id of any length passes. *)
ShortIdFitsAny(short) == TRUE

ShortIdFits(short) == Len(short) \in 1..SID_SHORT_ID_LEN

(* Mutation: the server zeroes from the length byte on. *)
ZeroSidEarly(w) == [i \in DOMAIN w |->
                   IF i \in SESSION_ID_OFFSET..(SESSION_ID_OFFSET + 31) THEN 0 ELSE w[i]]

(* The server's associated data: the hello it read, the session id zeroed. *)
ZeroSid(w) == [i \in DOMAIN w |->
                   IF i \in (SESSION_ID_OFFSET + 1)..(SESSION_ID_OFFSET + 32) THEN 0 ELSE w[i]]

PatchSid(w, sid) ==
    [i \in DOMAIN w |-> IF i \in (SESSION_ID_OFFSET + 1)..(SESSION_ID_OFFSET + 32)
                        THEN sid[i - SESSION_ID_OFFSET] ELSE w[i]]

HelloFor(h, q) ==
    BuildClientHello(Some(q.sni), Field(Ephemeral(h)),
                     Field(HelloRandom(Ephemeral(h), q.key)), Zeros(32))

Initiate(h, p) ==
    LET q == IntoParams(p) IN
    IF ~q.ok THEN q
    ELSE IF ~ShortIdFits(q.short) THEN Err("BadShortId")
    ELSE IF q.key = 0 THEN Err("BadServerKey")
    ELSE IF DH(Ephemeral(h), q.key) = {} THEN Err("EphemeralKeyFailed")
    ELSE LET hello == HelloFor(h, q) IN
         IF ~hello.ok THEN Err(IF hello.err = "panic" THEN "panic" ELSE "SealFailed")
         ELSE [ok |-> TRUE, params |-> q,
               wire |-> PatchSid(hello.wire, Field(SidName(h)))]

-----------------------------------------------------------------------------
NewServer == [state |-> "accept", err |-> None, read |-> None, session_id |-> 0,
              keys |-> None, seq_in |-> 0, seq_out |-> 0]

Init ==
    /\ phase = [h \in Handshakes |-> "new"]
    /\ profile = [h \in Handshakes |-> None]
    /\ wire_hello = [h \in Handshakes |-> <<>>]
    /\ record_keys = [h \in Handshakes |-> None]
    /\ completed = [h \in Handshakes |-> FALSE]
    /\ sent = [h \in Handshakes |-> <<>>] /\ got = [h \in Handshakes |-> <<>>]
    /\ srv = [c \in Conns |-> NewServer]
    /\ responses = {} /\ records = {}

(* run_connect: parameters, initiate, and the hello on the wire. *)
Connect(h) ==
    /\ phase[h] = "new"
    /\ \E p \in Profiles[h] :
          LET r == Initiate(h, p) IN
          \/ /\ r.ok
             /\ phase' = [phase EXCEPT ![h] = "sent"]
             /\ profile' = [profile EXCEPT ![h] = Some(r.params)]
             /\ wire_hello' = [wire_hello EXCEPT ![h] = r.wire]
          \/ /\ ~r.ok
             /\ phase' = [phase EXCEPT ![h] = r.err]
             /\ profile' = [profile EXCEPT ![h] = Some(p)]
             /\ UNCHANGED wire_hello
    /\ UNCHANGED <<record_keys, completed, sent, got, srv, responses, records>>

-----------------------------------------------------------------------------
(* The server.  unseal_session_id opens exactly what some initiate sealed: *)
(* the key, the nonce (in the random) and the hello around it must agree.  *)

(* Mutation: the hello is not part of the associated data. *)
UnsealIgnoresHello(auth, random, aad, session_id) ==
    {h \in Handshakes : /\ Started(h)
                        /\ session_id = Field(SidName(h))
                        /\ auth = AuthKey(DH(Ephemeral(h), profile[h][1].key), random)}

(* The handshakes whose seal this is: one, or none if it does not open. *)
Unseal(auth, random, aad, session_id) ==
    {h \in Handshakes :
        /\ Started(h)
        /\ LET k == profile[h][1].key IN
           /\ session_id = Field(SidName(h))
           /\ random = Field(HelloRandom(Ephemeral(h), k))
           /\ auth = AuthKey(DH(Ephemeral(h), k), random)
        /\ aad = HelloFor(h, profile[h][1]).wire}

(* How run_server judges a hello frame w, parsed as p: the client's        *)
(* session, or an error.                                                   *)
Judge(w, p) ==
    LET auth == AuthKey(DH(Static, Named(p.ephemeral_public)), p.random)
        open == Unseal(auth, p.random, ZeroSid(w), p.session_id)
        from == CHOOSE h \in open : TRUE
        plain == SessionIdPlain(profile[from][1].short)
    IN  IF ~p.ok THEN p
        ELSE IF p.sni = None THEN Err("no SNI offered")
        ELSE IF Len(p.session_id) # 32 THEN Err("session id is not 32 bytes")
        ELSE IF open = {} THEN Err("session id rejected")
        ELSE IF plain.client_version # CLIENT_VERSION THEN Err("client version mismatch")
        ELSE IF plain.short_id # PadShort(AllowedShort) THEN Err("short id not on the allowlist")
        ELSE [ok |-> TRUE, auth |-> auth, session_id |-> Named(p.session_id),
              share |-> Named(p.ephemeral_public)]

TempCertificate(auth, pub) == [pub |-> pub, tag |-> <<"hmac", auth, pub>>]

Confirmation(c, keys, session_id) ==
    Seal(keys.recv, DeriveNonce(session_id, 0, "server", "response"), <<"shadevpn-server-ok">>, c)

(* What the network can do to a hello: nothing, change a byte, cut it, or  *)
(* add to it.                                                              *)
Damaged(w) ==
    {w} \cup {[w EXCEPT ![o + 1] = @ + 1] : o \in Offsets}
        \cup {SubSeq(w, 1, Len(w) - 1), SubSeq(w, 1, SESSION_ID_OFFSET), Append(w, 0)}

(* History: whose hello a run read, and whether it arrived whole. *)
Read(h, w) == Some([from |-> h, whole |-> w = wire_hello[h]])

(* What it answers, judging the hello j: certificate, fresh share and      *)
(* confirmation, or nothing.                                               *)
Answer(c, read, j) ==
    LET keys == RecordKeys(SessionIdentity(j.session_id, DH(ServerEph(c), j.share)))
    IN  \/ /\ j.ok
           /\ srv' = [srv EXCEPT ![c] = [@ EXCEPT !.state = "serving", !.read = read,
                          !.session_id = j.session_id, !.keys = Some(keys)]]
           /\ responses' = responses \cup
                  {[cert |-> TempCertificate(j.auth, c), share |-> ServerEph(c),
                    confirm |-> Confirmation(c, keys, j.session_id)]}
        \/ /\ ~j.ok
           /\ srv' = [srv EXCEPT ![c] = [@ EXCEPT !.state = "failed", !.read = read,
                                                  !.err = Some(j.err)]]
           /\ UNCHANGED responses

ServerHello(c) ==
    /\ srv[c].state = "accept"
    /\ \E h \in Handshakes : phase[h] = "sent" /\ \E w \in Damaged(wire_hello[h]) :
          Answer(c, Read(h, w), Judge(w, ParseClientHello(w)))
    /\ UNCHANGED <<client, sent, got, records>>

-----------------------------------------------------------------------------
(* complete.  The response may have parts of several, a share that is a    *)
(* weak point, or the certificate of the site the hello was redirected to; *)
(* one that is too short is refused like a foreign certificate.            *)
SiteCertificate == [pub |-> 0, tag |-> <<"signature of the site">>]

Received ==
    [cert : {r.cert : r \in responses} \cup {SiteCertificate},
     share : {r.share : r \in responses} \cup {0},
     confirm : {r.confirm : r \in responses}]

CertVerifies(auth, cert) == cert.tag = <<"hmac", auth, cert.pub>>

(* The keys a response leads to, None where complete stops before it has   *)
(* any.                                                                    *)
KeysFrom(h, r) ==
    LET k     == profile[h][1].key
        auth  == AuthKey(DH(Ephemeral(h), k), Field(HelloRandom(Ephemeral(h), k)))
        ecdhe == DH(Ephemeral(h), r.share)
    IN  IF ~CertVerifies(auth, r.cert) \/ ecdhe = {} THEN None
        ELSE Some(RecordKeys(SessionIdentity(SidName(h), ecdhe)))

Confirms(h, keys, r) ==
    Opens(r.confirm, keys.recv, DeriveNonce(SidName(h), 0, "server", "response"))

(* Mutation: a later response replaces the keys of an earlier one. *)
CompleteReplaces(h) ==
    /\ phase[h] = "sent"
    /\ \E r \in Received :
          LET keys == KeysFrom(h, r) IN
          /\ keys # None
          /\ record_keys' = [record_keys EXCEPT ![h] = keys]
          /\ completed' = [completed EXCEPT ![h] = Confirms(h, keys[1], r)]
    /\ UNCHANGED <<phase, profile, wire_hello, sent, got, srv, responses, records>>

(* The claim is refused once completed; the keys are set once, before the  *)
(* confirmation is opened, and stay set when it does not open.  A call     *)
(* refused before that leaves everything as it was.                        *)
Complete(h) ==
    /\ phase[h] = "sent" /\ ~completed[h]
    /\ \E r \in Received :
          LET keys == KeysFrom(h, r) IN
          /\ keys # None /\ record_keys[h] = None
          /\ record_keys' = [record_keys EXCEPT ![h] = keys]
          /\ completed' = [completed EXCEPT ![h] = Confirms(h, keys[1], r)]
    /\ UNCHANGED <<phase, profile, wire_hello, sent, got, srv, responses, records>>

-----------------------------------------------------------------------------
(* Data records.  The two ends count their own sequences; a record that    *)
(* does not open ends the side that read it.                               *)
SealRecord(h) ==
    /\ phase[h] = "sent" /\ completed[h] /\ Len(sent[h]) < MaxData
    /\ LET n == Len(sent[h]) IN
       /\ sent' = [sent EXCEPT ![h] = Append(@, <<h, n>>)]
       /\ records' = records \cup
              {Seal(record_keys[h][1].send,
                    DeriveNonce(SidName(h), n, "client", "data"), <<h, n>>, 0)}
    /\ UNCHANGED <<client, got, srv, responses>>

ServerRecord(c) ==
    /\ srv[c].state = "serving"
    /\ \E r \in records :
          LET s == srv[c] IN
          \/ /\ Opens(r, s.keys[1].send, DeriveNonce(s.session_id, s.seq_in, "client", "data"))
             /\ srv' = [srv EXCEPT ![c].seq_in = @ + 1, ![c].seq_out = @ + 1]
             /\ records' = records \cup
                    {Seal(s.keys[1].recv,
                          DeriveNonce(s.session_id, s.seq_out, "server", "data"), r.msg, c)}
          \/ /\ ~Opens(r, s.keys[1].send, DeriveNonce(s.session_id, s.seq_in, "client", "data"))
             /\ srv' = [srv EXCEPT ![c] = [@ EXCEPT !.state = "failed",
                                                    !.err = Some("record failed to open")]]
             /\ UNCHANGED records
    /\ UNCHANGED <<client, sent, got, responses>>

OpenRecord(h) ==
    /\ phase[h] = "sent" /\ completed[h]
    /\ \E r \in records :
          LET nonce == DeriveNonce(SidName(h), Len(got[h]), "server", "data") IN
          \/ /\ Opens(r, record_keys[h][1].recv, nonce)
             /\ got' = [got EXCEPT ![h] = Append(@, r.msg)]
             /\ UNCHANGED phase
          \/ /\ ~Opens(r, record_keys[h][1].recv, nonce)
             /\ phase' = [phase EXCEPT ![h] = "closed"]
             /\ UNCHANGED got
    /\ UNCHANGED <<profile, wire_hello, record_keys, completed, sent, srv, responses, records>>

Next ==
    \/ \E h \in Handshakes : Connect(h) \/ Complete(h) \/ SealRecord(h) \/ OpenRecord(h)
    \/ \E c \in Conns : ServerHello(c) \/ ServerRecord(c)

Spec == Init /\ [][Next]_vars

-----------------------------------------------------------------------------
HandshakeError == {"BadServerKey", "BadShortId", "SealFailed", "EphemeralKeyFailed"}
ServerError == TlsError \cup {"no SNI offered", "session id is not 32 bytes", "session id rejected",
                              "client version mismatch", "short id not on the allowlist", "record failed to open"}

(* Every handshake and server run keeps to its states and its errors, and  *)
(* the short id a hello was sealed with fits the eight bytes it gets.      *)
TypeOK ==
    /\ phase \in [Handshakes -> {"new", "sent", "closed", "panic"} \cup HandshakeError]
    /\ completed \in [Handshakes -> BOOLEAN]
    /\ \A h \in Handshakes :
          /\ phase[h] = "new" <=> profile[h] = None
          /\ Started(h) => Len(profile[h][1].short) <= SID_SHORT_ID_LEN
          /\ completed[h] => record_keys[h] # None
    /\ \A c \in Conns :
          /\ srv[c].state \in {"accept", "serving", "failed"}
          /\ srv[c].state = "serving" => srv[c].keys # None
          /\ srv[c].err # None => srv[c].err[1] \in ServerError
          /\ srv[c].seq_in = srv[c].seq_out

(* A hello that was built parses back to the name, random, share and       *)
(* session id it was built from, and its extension block, with the server  *)
(* name counted twice, ends on the 512-byte boundary unless it reaches the *)
(* boundary without padding (the builder's comment).  The builder panics   *)
(* on a name of 141 bytes and on no other: there the boundary lies inside  *)
(* the padding's own header.                                               *)
HelloWellFormed ==
    [][\A h \in Handshakes : phase[h] = "new" /\ phase'[h] # "new" =>
        LET q == profile'[h][1]
            w == wire_hello'[h]
        IN  /\ phase'[h] = "sent" =>
                  LET p     == ParseClientHello(w)
                      total == U16(w, 112) + SniOverhead(Some(q.sni))
                      bare  == 228 + 2 * Len(q.sni)
                  IN  /\ p.ok /\ p.tls13_negotiable
                      /\ p.sni = Some(q.sni) /\ p.ephemeral_public = Field(Ephemeral(h))
                      /\ p.random = Field(HelloRandom(Ephemeral(h), q.key))
                      /\ p.session_id = Field(SidName(h))
                      /\ total = IF bare < PADDING_BOUNDARY - 4 THEN PADDING_BOUNDARY ELSE bare
            /\ phase'[h] = "panic" => Len(q.sni) = 141]_vars

(* A server run answers only a hello that arrived exactly as a client of   *)
(* its own key and short id sent it: no changed, cut or extended hello is  *)
(* ever answered, whichever byte was hit.                                  *)
OnlyAuthenticHello ==
    \A c \in Conns : srv[c].keys # None =>
        \E h \in Handshakes :
            /\ srv[c].read = Some([from |-> h, whole |-> TRUE])
            /\ srv[c].session_id = SidName(h)
            /\ profile[h][1].key = Static
            /\ PadShort(profile[h][1].short) = PadShort(AllowedShort)

(* ...and such a hello is always answered, to every run that gets it: a    *)
(* run that refused one never read a hello an allowed client sent whole.   *)
AllowedHelloAnswered ==
    \A c \in Conns : srv[c].state = "failed" /\ srv[c].keys = None =>
        \A h \in Handshakes :
            srv[c].read = Some([from |-> h, whole |-> TRUE]) =>
                \/ profile[h][1].key # Static
                \/ PadShort(profile[h][1].short) # PadShort(AllowedShort)

(* A completed client shares its keys with exactly one server run, which   *)
(* answered its hello; no other handshake and no other run has them, even  *)
(* when a hello was replayed and responses were mixed.  Keys are not even  *)
(* derived, and the handshake not spent, before a run answered its hello.  *)
Agreement ==
    /\ \A h \in Handshakes : record_keys[h] # None =>
          \E c \in Conns : srv[c].session_id = SidName(h)
    /\ \A h \in Handshakes : completed[h] =>
          Cardinality({c \in Conns : /\ srv[c].keys = record_keys[h]
                                     /\ srv[c].session_id = SidName(h)}) = 1
    /\ \A h, g \in Handshakes :
          h # g /\ record_keys[h] # None => record_keys[h] # record_keys[g]
    /\ \A c, d \in Conns : c # d /\ srv[c].keys # None => srv[c].keys # srv[d].keys

(* No nonce is used twice under a key, over both directions, the response  *)
(* confirmation, the mirrored data and replayed hellos.                    *)
NonceOnce ==
    LET all == records \cup {r.confirm : r \in responses}
    IN  \A a, b \in all : a.key = b.key /\ a.nonce = b.nonce => a = b

(* What a client opens is its own payloads mirrored, in order from the     *)
(* first: nothing of another session, nothing twice, nothing skipped.      *)
EchoIsOwn ==
    \A h \in Handshakes :
        /\ Len(got[h]) <= Len(sent[h])
        /\ got[h] = SubSeq(sent[h], 1, Len(got[h]))

(* All the data of a handshake is sealed for one and the same server run,  *)
(* which answered its hello: no record goes out under keys that no run     *)
(* confirmed, nor some under those of one run and some of another, however *)
(* late a second response comes or whose parts it is made of.              *)
SealedForOneServer ==
    \A h \in Handshakes : sent[h] # <<>> =>
        \E c \in Conns :
            /\ srv[c].session_id = SidName(h) /\ srv[c].keys # None
            /\ \A r \in records : r.by = 0 /\ r.msg[1] = h => r.key = srv[c].keys[1].send
=============================================================================
