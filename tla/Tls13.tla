------------------------------- MODULE Tls13 -------------------------------
(***************************************************************************)
(* The TLS 1.3 client core (native/src/tls13.rs) against a TLS 1.3 server, *)
(* driven in the order of the repository's interoperability test: hello,   *)
(* ServerHello, key schedule, server flight, client Finished, data.        *)
(*                                                                         *)
(* A hash of the transcript is the transcript, a secret is a term of what  *)
(* it is derived from, and a record opens under the traffic secret and the *)
(* sequence number it was sealed with.  A handshake message is a number of *)
(* units, so that it can be spread over records; its first unit stands for *)
(* the header that has its length.  Certificates are bytes (Der).          *)
(*                                                                         *)
(* The server is external: a flavour says what it sends.  The network can  *)
(* put a ChangeCipherSpec before any record, as middleboxes do, and up to  *)
(* MaxFaults times lose, repeat, swap or damage a record.  The driver may  *)
(* hand over the flight in several calls, and past its end, because its    *)
(* reading stops at a pause of the connection and not at a message.        *)
(***************************************************************************)
EXTENDS Der, FiniteSets, TLC

CONSTANTS Certs,       \* certificates: name -> DER bytes
          Keys,        \* whose key they are for: name -> [n, e]
          Flavours,    \* what the server is like
          Layouts,     \* ways to cut the flight into records
          MaxData,     \* bound: application records the client sends
          MaxFaults,   \* bound: disturbances of the network
          MaxCcs       \* bound: ChangeCipherSpec records

ASSUME Tls13Assumption ==
    /\ DOMAIN Certs = DOMAIN Keys
    /\ MaxData \in Nat /\ MaxFaults \in Nat /\ MaxCcs \in Nat

(* A server sends one Certificate, in one form or another, one             *)
(* CertificateVerify and one Finished.                                     *)
ASSUME FlavourAssumption ==
    \A f \in Flavours :
        /\ f.shape \in {"ok", "other", "stub", "cut"}
        /\ f.certtype \notin {"certificate_verify", "finished"}
        /\ LET extra == {f.extra[i] : i \in DOMAIN f.extra} IN
           /\ f.extra \in Seq(extra)
           /\ \A m \in extra : /\ m.size \in Nat \ {0}   \* at least its header
                               /\ m.type \notin {"certificate", "certificate_verify", "finished"}
        /\ f.signer \in DOMAIN Keys /\ f.chain \in Seq(DOMAIN Certs)

VARIABLES server,      \* the flavour and layout of this server
          pc, err,     \* the driver's position, and why it stopped
          cl,          \* Tls13Client
          sent, got,   \* the driver's data, and what it opened
          down, up,    \* records in flight
          peer,        \* the server's progress
          sealed,      \* history: what the client sealed
          faults, ccs, calls, swallowed   \* history: disturbances, and how
                                          \* the driver cut the flight

net  == <<down, up, faults, ccs>>
vars == <<server, pc, err, cl, sent, got, net, peer, sealed, calls, swallowed>>

None    == <<>>
Some(x) == <<x>>

Suites == {"AES_128_GCM_SHA256", "AES_256_GCM_SHA384", "CHACHA20_POLY1305_SHA256"}
Tls13Error == {"Truncated", "BadRecord", "BadHandshake", "NoKeyShare", "BadCipherSuite",
               "DecryptFailed", "FinishedMismatch", "CertVerifyRejected", "BadScheme",
               "UnexpectedRecord"}

Message(type, size, body) == [type |-> type, size |-> size, body |-> body]
Units(m) == [i \in 1..m.size |-> [of |-> m, part |-> i]]

-----------------------------------------------------------------------------
(* The key schedule. *)
HandshakeSecret(suite, shared) == <<"hs", suite, shared>>
DeriveSecret(secret, label, th) == <<label, secret, th>>
FinishedMac(secret, th)         == <<"finished", secret, th>>

(* A record is sealed under a traffic secret and a sequence; the secret    *)
(* gives key and IV, the sequence is in the nonce.                         *)
Protect(secret, seq, ct, payload) ==
    [type |-> "appdata", secret |-> secret, seq |-> seq, ct |-> ct, payload |-> payload,
     sound |-> TRUE]

(* Mutation: the sequence is not in the nonce. *)
OpensAnySeq(r, secret, seq) == r.sound /\ r.secret = secret

Opens(r, secret, seq) == r.sound /\ r.secret = secret /\ r.seq = seq

ChangeCipherSpec ==
    [type |-> "ccs", secret |-> <<>>, seq |-> 0, ct |-> "none", payload |-> <<>>, sound |-> TRUE]

NewClient ==
    [suite |-> None, transcript |-> <<>>, handshake_secret |-> None, shts |-> None,
     chts |-> None, cets |-> None, sets |-> None, hs_read |-> 0, hs_write |-> 0,
     app_read |-> 0, app_write |-> 0]

HelloRecord == [header |-> <<"record header">>, hs |-> Message("client_hello", 1, <<>>)]

(* Mutation: the transcript takes the whole record. *)
HandshakeOfRecord(record) == Message("client_hello", 2, record.header)

HandshakeOf(record) == record.hs      \* only the message is hashed

-----------------------------------------------------------------------------
(* The server's messages (external).  They depend on the transcript so     *)
(* far: CertificateVerify signs it, Finished authenticates it.             *)
ServerHelloMsg(f) == Message("server_hello", 1, <<f.suite, f.share>>)
ServerShared(f)   == <<"client share", f.share>>
Th0(f)            == <<HelloRecord.hs, ServerHelloMsg(f)>>
ServerSecret(f)   == HandshakeSecret(f.suite, ServerShared(f))

CertMsg(f) == Message(f.certtype, 2, f.chain)

FlightMessages(f) ==
    LET ee == <<Message("encrypted_extensions", 1, <<>>)>> \o f.extra
        a  == Th0(f) \o ee \o <<CertMsg(f)>>
        cv == Message("certificate_verify", 1, <<f.scheme, f.signer, a>>)
        fi == Message("finished", 1,
                      <<FinishedMac(DeriveSecret(ServerSecret(f), "s hs traffic", Th0(f)),
                                    Append(a, cv))>>)
    IN  ee \o <<CertMsg(f), cv, fi>>

ServerTranscript(f) == Th0(f) \o FlightMessages(f)

AllUnits(ms) ==
    LET cat[i \in 0..Len(ms)] == IF i = 0 THEN <<>> ELSE cat[i - 1] \o Units(ms[i])
    IN  cat[Len(ms)]

(* The flight as records: one ends after each unit whose number is in      *)
(* `cuts`, and the last with the flight.  End(k) units are in the first k. *)
FlightRecords(f, cuts) ==
    LET u      == AllUnits(FlightMessages(f))
        secret == DeriveSecret(ServerSecret(f), "s hs traffic", Th0(f))
        ends   == {i \in 1..Len(u) : i \in cuts \/ i = Len(u)}
        End(k) == Cardinality({i \in 1..Len(u) : Cardinality({e \in ends : e < i}) < k})
    IN  [k \in 1..Cardinality(ends) |->
            Protect(secret, k - 1, "handshake", SubSeq(u, End(k - 1) + 1, End(k)))]

Ticket(f, seq) ==
    Protect(DeriveSecret(ServerSecret(f), "s ap traffic", ServerTranscript(f)), seq,
            "handshake", <<>>)

HelloOnWire(f) ==
    [type |-> "handshake", secret |-> <<>>, seq |-> 0, ct |-> f.shape,
     payload |-> <<f.suite, f.share>>, sound |-> TRUE]

Init ==
    /\ \E f \in Flavours, l \in Layouts : server = [flavour |-> f, cuts |-> l]
    /\ pc = "start" /\ err = None
    /\ cl = NewClient
    /\ sent = <<>> /\ got = <<>> /\ down = <<>> /\ up = <<>>
    /\ peer = [state |-> "wait", got |-> <<>>, seq_out |-> 0]
    /\ sealed = {} /\ faults = 0 /\ ccs = 0 /\ calls = 0 /\ swallowed = FALSE

Fail(e) == pc' = "failed" /\ err' = Some(e)

-----------------------------------------------------------------------------
(* set_client_hello, and the hello on the wire.  The server answers with   *)
(* its hello and its flight, a server that already knows the client's      *)
(* Finished with a session ticket too.                                     *)
Start ==
    /\ pc = "start" /\ pc' = "server_hello"
    /\ peer' = [peer EXCEPT !.state = "sent", !.seq_out = IF server.flavour.early THEN 1 ELSE 0]
    /\ down' = <<HelloOnWire(server.flavour)>>
                   \o FlightRecords(server.flavour, server.cuts)
                   \o (IF server.flavour.early THEN <<Ticket(server.flavour, 0)>> ELSE <<>>)
    /\ UNCHANGED <<server, err, cl, sent, got, up, sealed, faults, ccs, calls, swallowed>>

(* Mutation: the suite is not checked. *)
HelloErrorAnySuite(r) == IF r.type = "handshake" /\ r.ct = "ok" THEN "none" ELSE "BadRecord"

(* process_server_hello.  A stub is a record of one to three bytes: the    *)
(* slice past its message header panics.                                   *)
HelloError(r) ==
    CASE r.type # "handshake"                                 -> "BadRecord"
      [] r.type = "handshake" /\ r.ct = "other"               -> "BadHandshake"
      [] r.type = "handshake" /\ r.ct = "stub"                -> "panic"
      [] r.type = "handshake" /\ r.ct = "cut"                 -> "Truncated"
      [] r.type = "handshake" /\ r.ct = "ok" /\ r.payload[1] \notin Suites -> "BadCipherSuite"
      [] r.type = "handshake" /\ r.ct = "ok" /\ r.payload[1] \in Suites    -> "none"

ProcessServerHello ==
    /\ pc = "server_hello" /\ down # <<>>
    /\ LET r == Head(down)
           e == HelloError(r)
       IN  \/ /\ e # "none" /\ Fail(e)
              /\ UNCHANGED cl
           \/ /\ e = "none"
              /\ cl' = [cl EXCEPT !.suite = Some(r.payload[1]),
                                  !.transcript = <<HandshakeOf(HelloRecord),
                                                   Message("server_hello", 1, r.payload)>>]
              /\ \/ r.payload[2] = "none" /\ Fail("NoKeyShare")
                 \/ r.payload[2] # "none" /\ pc' = "derive" /\ UNCHANGED err
    /\ down' = Tail(down)
    /\ UNCHANGED <<server, sent, got, up, faults, ccs, peer, sealed, calls, swallowed>>

(* The driver's X25519 and derive_handshake_keys. *)
DeriveHandshakeKeys ==
    /\ pc = "derive" /\ pc' = "flight"
    /\ LET hs == HandshakeSecret(cl.suite[1], <<"client share", cl.transcript[2].body[2]>>) IN
       cl' = [cl EXCEPT !.handshake_secret = Some(hs),
                        !.shts = Some(DeriveSecret(hs, "s hs traffic", cl.transcript)),
                        !.chts = Some(DeriveSecret(hs, "c hs traffic", cl.transcript)),
                        !.hs_read = 0, !.hs_write = 0]
    /\ UNCHANGED <<server, err, sent, got, net, peer, sealed, calls, swallowed>>

-----------------------------------------------------------------------------
(* process_server_flight.  One call works on an accumulator: the client's  *)
(* read sequence and transcript, which outlive the call, and the buffer,   *)
(* chain and CertificateVerify, which do not.                              *)
NewFlight(c) == [seq |-> c.hs_read, transcript |-> c.transcript, pending |-> <<>>,
                 chain |-> <<>>, cv |-> None, finished |-> FALSE, err |-> None, used |-> 0]

(* take_message and the match on its type.  Other messages are ignored. *)
TakeMessage(a, m, shts) ==
    LET before == a.transcript
        b == [a EXCEPT !.transcript = Append(@, m), !.pending = SubSeq(@, m.size + 1, Len(@))]
    IN  CASE m.type = "certificate"        -> [b EXCEPT !.chain = m.body]
          [] m.type = "certificate_verify" -> [b EXCEPT !.cv = Some(m.body \o <<before>>)]
          [] m.type = "finished"           ->
                IF m.body = <<FinishedMac(shts, before)>> THEN [b EXCEPT !.finished = TRUE]
                ELSE [b EXCEPT !.err = Some("FinishedMismatch")]
          [] OTHER                         -> b

Going(a) == a.err = None /\ ~a.finished

(* The messages complete in the buffer.  Where the buffer begins inside a  *)
(* message, its bytes are read as a header: of a message that never gets   *)
(* complete, or of one that does and is ignored.                           *)
Garbage == Message("unknown", 1, <<>>)

Drain(a, shts, stall) ==
    LET step[i \in 0..Len(a.pending)] ==
            IF i = 0 THEN a
            ELSE LET prev == step[i - 1] IN
                 IF Going(prev) /\ prev.pending # <<>> /\ prev.pending[1].part = 1
                    /\ prev.pending[1].of.size <= Len(prev.pending)
                 THEN TakeMessage(prev, prev.pending[1].of, shts)
                 ELSE IF Going(prev) /\ prev.pending # <<>> /\ prev.pending[1].part > 1 /\ ~stall
                 THEN TakeMessage(prev, Garbage, shts)
                 ELSE prev
    IN  step[Len(a.pending)]

(* open_hs_record: the sequence moves on whether the record opens or not.  *)
TakeRecord(a, r, shts, stall) ==
    LET b == [a EXCEPT !.used = @ + 1] IN
    IF r.type = "ccs" THEN b
    ELSE IF r.type # "appdata" THEN [b EXCEPT !.err = Some("BadRecord")]
    ELSE IF ~Opens(r, shts, a.seq) THEN [b EXCEPT !.seq = @ + 1, !.err = Some("DecryptFailed")]
    ELSE IF r.ct # "handshake" THEN [b EXCEPT !.seq = @ + 1, !.err = Some("UnexpectedRecord")]
    ELSE Drain([b EXCEPT !.seq = @ + 1, !.pending = @ \o r.payload], shts, stall)

ReadFlight(c, recs, stall) ==
    LET step[i \in 0..Len(recs)] ==
            IF i = 0 THEN NewFlight(c)
            ELSE LET prev == step[i - 1]
                 IN  IF Going(prev) THEN TakeRecord(prev, recs[i], c.shts[1], stall) ELSE prev
    IN  step[Len(recs)]

RsaSchemes == {"rsa_pss_rsae_sha256", "rsa_pss_rsae_sha384", "rsa_pss_rsae_sha512",
               "rsa_pkcs1_sha256", "rsa_pkcs1_sha384", "rsa_pkcs1_sha512"}

LeafKey(leaf) ==
    LET spki == ParseCertSpki(Certs[leaf])
    IN  IF spki = None THEN None ELSE ParseRsaSpki(spki[1])

(* No two certificates are for one key, and the bytes of each are for its  *)
(* own: the DER walk finds that key or none.  It finds none in those named *)
(* here: an EC key, an RSA modulus too large and an exponent too small for *)
(* RsaPublicKey::new.                                                      *)
KeylessCerts == {"ec", "huge", "weak"}

ASSUME CertAssumption ==
    /\ \A a, b \in DOMAIN Keys : Keys[a] = Keys[b] => a = b
    /\ \A c \in DOMAIN Certs : LeafKey(c) \in {None, Some(Keys[c])}
    /\ \A c \in DOMAIN Certs \cap KeylessCerts : LeafKey(c) = None

(* Every other certificate is read: the walk finds its key.  Only the      *)
(* success of a handshake depends on it.                                   *)
ASSUME LeafAssumption == \A c \in DOMAIN Certs \ KeylessCerts : LeafKey(c) = Some(Keys[c])

(* Mutation: any signature passes. *)
VerifyCertificateVerifyAny(cv, leaf) == "none"

(* cv is scheme, whose key signed, what it signed, and what it should      *)
(* have signed.                                                            *)
VerifyCertificateVerify(cv, leaf) ==
    IF LeafKey(leaf) = None \/ cv[1] \notin RsaSchemes THEN "BadScheme"
    ELSE IF LeafKey(leaf) # Some(Keys[cv[2]]) \/ cv[3] # cv[4] THEN "CertVerifyRejected"
    ELSE "none"

FlightError(a) ==
    IF a.err # None THEN a.err[1]
    ELSE IF ~a.finished THEN "Truncated"
    ELSE IF a.cv = None \/ a.chain = <<>> THEN "BadHandshake"
    ELSE VerifyCertificateVerify(a.cv[1], a.chain[1])

WithApplicationKeys(c) ==
    [c EXCEPT !.cets = Some(DeriveSecret(c.handshake_secret[1], "c ap traffic", c.transcript)),
              !.sets = Some(DeriveSecret(c.handshake_secret[1], "s ap traffic", c.transcript)),
              !.app_read = 0, !.app_write = 0]

(* The driver passes n records.  What follows the Finished in them is      *)
(* dropped; a flight that ends early may be continued in another call.     *)
ProcessServerFlight ==
    /\ pc = "flight" /\ down # <<>>
    /\ \E n \in 1..Len(down), stall \in BOOLEAN :
          LET a == ReadFlight(cl, SubSeq(down, 1, n), stall)
              c == [cl EXCEPT !.hs_read = a.seq, !.transcript = a.transcript]
              e == FlightError(a)
          IN  /\ down' = SubSeq(down, n + 1, Len(down))
              /\ swallowed' = (swallowed \/ \E i \in (a.used + 1)..n : a.finished /\ down[i].type = "appdata")
              /\ \/ /\ e = "none"
                    /\ cl' = WithApplicationKeys(c)
                    /\ pc' = "finish" /\ UNCHANGED err
                 \/ /\ e = "Truncated" /\ down' # <<>>
                    /\ cl' = c
                    /\ UNCHANGED <<pc, err>>
                 \/ /\ e # "none" /\ (e = "Truncated" => down' = <<>>)
                    /\ cl' = c /\ Fail(e)
    /\ calls' = calls + 1
    /\ UNCHANGED <<server, sent, got, up, faults, ccs, peer, sealed>>

-----------------------------------------------------------------------------
ClientFinished(c) == Message("finished", 1, <<FinishedMac(c.chts[1], c.transcript)>>)

ClientFinishedRecord ==
    /\ pc = "finish" /\ pc' = "data"
    /\ LET r == Protect(cl.chts[1], cl.hs_write, "handshake", Units(ClientFinished(cl))) IN
       up' = Append(up, r) /\ sealed' = sealed \cup {r}
    /\ cl' = [cl EXCEPT !.transcript = Append(@, ClientFinished(cl)), !.hs_write = @ + 1]
    /\ UNCHANGED <<server, err, sent, got, down, faults, ccs, peer, calls, swallowed>>

(* Mutation: the sequence is not advanced. *)
SealAppRecordStuck ==
    /\ pc = "data" /\ Len(sent) < MaxData
    /\ sent' = Append(sent, Len(sent) + 1)
    /\ LET r == Protect(cl.cets[1], cl.app_write, "appdata", <<Len(sent) + 1>>) IN
       up' = Append(up, r) /\ sealed' = sealed \cup {r}
    /\ UNCHANGED <<server, pc, err, cl, got, down, faults, ccs, peer, calls, swallowed>>

SealAppRecord ==
    /\ pc = "data" /\ Len(sent) < MaxData
    /\ sent' = Append(sent, Len(sent) + 1)
    /\ LET r == Protect(cl.cets[1], cl.app_write, "appdata", <<Len(sent) + 1>>) IN
       up' = Append(up, r) /\ sealed' = sealed \cup {r}
    /\ cl' = [cl EXCEPT !.app_write = @ + 1]
    /\ UNCHANGED <<server, pc, err, got, down, faults, ccs, peer, calls, swallowed>>

(* open_record: the sequence moves on first; the driver skips inner        *)
(* handshake messages such as tickets.                                     *)
OpenRecord ==
    /\ pc = "data" /\ down # <<>>
    /\ down' = Tail(down)
    /\ LET r == Head(down) IN
       \/ /\ r.type # "appdata" /\ Fail("UnexpectedRecord")
          /\ UNCHANGED <<cl, got>>
       \/ /\ r.type = "appdata"
          /\ cl' = [cl EXCEPT !.app_read = @ + 1]
          /\ \/ /\ Opens(r, cl.sets[1], cl.app_read)
                /\ got' = IF r.ct = "appdata" THEN got \o r.payload ELSE got
                /\ UNCHANGED <<pc, err>>
             \/ /\ ~Opens(r, cl.sets[1], cl.app_read) /\ Fail("DecryptFailed")
                /\ UNCHANGED got
    /\ UNCHANGED <<server, sent, up, faults, ccs, peer, sealed, calls, swallowed>>

-----------------------------------------------------------------------------
(* The server reads what the client sends (external): the Finished under   *)
(* the client's handshake secret, then data, which it echoes; a ticket     *)
(* that was not sent early comes right after the Finished.                 *)
ServerReads ==
    /\ peer.state \in {"sent", "open"} /\ up # <<>> /\ up' = Tail(up)
    /\ LET f  == server.flavour
           r  == Head(up)
           th == ServerTranscript(f)
           hs == DeriveSecret(ServerSecret(f), "c hs traffic", Th0(f))
           ap == DeriveSecret(ServerSecret(f), "c ap traffic", th)
           sp == DeriveSecret(ServerSecret(f), "s ap traffic", th)
       IN  \/ /\ peer.state = "sent"
              /\ Opens(r, hs, 0) /\ r.payload[1].of.body = <<FinishedMac(hs, th)>>
              /\ peer' = [peer EXCEPT !.state = "open", !.seq_out = 1]
              /\ down' = IF f.early THEN down ELSE Append(down, Ticket(f, 0))
           \/ /\ peer.state = "open" /\ Opens(r, ap, Len(peer.got))
              /\ peer' = [peer EXCEPT !.got = @ \o r.payload, !.seq_out = @ + 1]
              /\ down' = Append(down, Protect(sp, peer.seq_out, "appdata", r.payload))
           \/ /\ \/ peer.state = "sent"
                    /\ ~(Opens(r, hs, 0) /\ r.payload[1].of.body = <<FinishedMac(hs, th)>>)
                 \/ peer.state = "open" /\ ~Opens(r, ap, Len(peer.got))
              /\ peer' = [peer EXCEPT !.state = "failed"] /\ UNCHANGED down
    /\ UNCHANGED <<server, pc, err, cl, sent, got, faults, ccs, sealed, calls, swallowed>>

(* The network. *)
Without(s, i)      == SubSeq(s, 1, i - 1) \o SubSeq(s, i + 1, Len(s))
Inserted(s, i, r)  == SubSeq(s, 1, i - 1) \o <<r>> \o SubSeq(s, i, Len(s))

(* A damaged hello still parses, with another share; a damaged protected   *)
(* record does not open.                                                   *)
Damaged(r) ==
    IF r.type = "handshake" THEN [r EXCEPT !.payload = <<@[1], "damaged share">>]
    ELSE [r EXCEPT !.sound = FALSE]

InsertCcs ==
    /\ pc = "flight" /\ ccs < MaxCcs /\ ccs' = ccs + 1
    /\ \E i \in 1..Len(down) : down' = Inserted(down, i, ChangeCipherSpec)
    /\ UNCHANGED <<server, pc, err, cl, sent, got, up, faults, peer, sealed, calls, swallowed>>

Disturb ==
    /\ pc \notin {"failed", "done"} /\ faults < MaxFaults /\ faults' = faults + 1
    /\ \E i \in 1..Len(down) :
          \/ down' = Without(down, i)
          \/ down' = Inserted(down, i, down[i])
          \/ i > 1 /\ down' = Inserted(Without(down, i), i - 1, down[i])
          \/ down' = [down EXCEPT ![i] = Damaged(@)]
    /\ UNCHANGED <<server, pc, err, cl, sent, got, up, ccs, peer, sealed, calls, swallowed>>

(* The driver is content once everything it sent came back.  Its read      *)
(* timeout runs out where nothing more will come.                          *)
Finish ==
    /\ pc = "data" /\ Len(got) = MaxData /\ pc' = "done"
    /\ UNCHANGED <<server, err, cl, sent, got, net, peer, sealed, calls, swallowed>>

Timeout ==
    /\ pc \in {"server_hello", "flight", "data"} /\ down = <<>>
    /\ faults > 0 \/ swallowed \/ peer.state = "failed"
    /\ Fail("timeout")
    /\ UNCHANGED <<server, cl, sent, got, net, peer, sealed, calls, swallowed>>

Ended == pc \in {"done", "failed"} /\ UNCHANGED vars

Next ==
    \/ Start \/ ProcessServerHello \/ DeriveHandshakeKeys \/ ProcessServerFlight
    \/ ClientFinishedRecord \/ SealAppRecord \/ OpenRecord \/ Finish \/ Timeout \/ Ended
    \/ ServerReads \/ InsertCcs \/ Disturb

Spec == Init /\ [][Next]_vars

-----------------------------------------------------------------------------
(* The driver stops only with an error the client core has, a panic or a   *)
(* timeout; a client that has a suite has one it offered, and one with     *)
(* application secrets is past the flight.                                 *)
TypeOK ==
    /\ pc \in {"start", "server_hello", "derive", "flight", "finish", "data", "done", "failed"}
    /\ (pc = "failed") <=> (err # None)
    /\ err # None => err[1] \in Tls13Error \cup {"panic", "timeout"}
    /\ cl.suite # None => cl.suite[1] \in Suites
    /\ pc \in {"finish", "data", "done"} => cl.sets # None /\ cl.cets # None
    /\ cl.hs_read \in Nat /\ cl.hs_write \in 0..1 /\ cl.app_read \in Nat /\ cl.app_write \in Nat
    /\ peer.state \in {"wait", "sent", "open", "failed"}

(* What the client core supports, and the hello of tls.rs offers more than *)
(* that: compressed certificates, ECDSA and two more groups.               *)
Supported(f) ==
    /\ f.shape = "ok" /\ f.suite \in Suites /\ f.share # "none"
    /\ f.certtype = "certificate" /\ f.scheme \in RsaSchemes
    /\ f.chain # <<>> /\ f.chain[1] \notin KeylessCerts

(* Application secrets exist only where the whole flight was the server's, *)
(* and they are the server's own: same suite, same shared secret, same     *)
(* transcript, signed by the holder of the leaf's key.  No loss, repeat,   *)
(* swap or damage of records, and no way to cut the flight into calls,     *)
(* makes the two ends disagree.                                            *)
KeysAgree ==
    LET f == server.flavour IN
    cl.sets # None =>
        /\ Supported(f) /\ f.signer = f.chain[1]
        /\ cl.sets = Some(DeriveSecret(ServerSecret(f), "s ap traffic", ServerTranscript(f)))
        /\ cl.cets = Some(DeriveSecret(ServerSecret(f), "c ap traffic", ServerTranscript(f)))

(* The client's first sequence number and every later one are used once    *)
(* under a secret, over handshake and application records.                 *)
NonceOnce ==
    \A a, b \in sealed : a.secret = b.secret /\ a.seq = b.seq => a = b

(* What the driver opens is what it sent, echoed, in order from the first. *)
DataInOrder ==
    /\ Len(got) <= Len(peer.got) /\ got = SubSeq(sent, 1, Len(got))
    /\ peer.got = SubSeq(sent, 1, Len(peer.got))

(* Against a server the core supports, either end fails only for a cause:  *)
(* a disturbed record, a flight cut into several calls, a ticket dropped   *)
(* behind the Finished, a ChangeCipherSpec among the data.  However the    *)
(* flight is packed into records, whichever suite, certificate form and    *)
(* extra message the server uses, the handshake otherwise goes through     *)
(* (and, by the absence of deadlock, to its end).                          *)
FailuresCaused ==
    err # None \/ peer.state = "failed" =>
        \/ faults > 0 \/ calls > 1 \/ swallowed
        \/ ccs > 0 /\ err = Some("UnexpectedRecord")
        \/ ~Supported(server.flavour) \/ server.flavour.signer # server.flavour.chain[1]
=============================================================================
