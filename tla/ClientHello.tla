---------------------------- MODULE ClientHello ----------------------------
(***************************************************************************)
(* The ClientHello builder and parser (native/src/tls.rs) as functions on  *)
(* byte sequences, at the real sizes.  Offsets count from 0, as in the     *)
(* code.  The bodies of extensions nobody reads are zeros of their length, *)
(* and so is the cipher list; the zeros still lie under the authenticated  *)
(* data, so a change to one of them is a change to the hello.              *)
(***************************************************************************)
EXTENDS Integers, Sequences

None    == <<>>      \* Rust's Option
Some(x) == <<x>>
Err(e)  == [ok |-> FALSE, err |-> e]

CONTENT_HANDSHAKE == 22
HS_CLIENT_HELLO == 1
EXT_SERVER_NAME == 0
EXT_PADDING == 21
EXT_KEY_SHARE == 51
EXT_SUPPORTED_VERSIONS == 43
GROUP_X25519 == 29
MAX_SESSION_ID_LEN == 32
X25519_PK_LEN == 32
PADDING_BOUNDARY == 512
SESSION_ID_OFFSET == 5 + 4 + 2 + 32 + 1

TlsError == {"Truncated", "BadRecordType", "BadRecordVersion", "LengthMismatch",
             "TrailingBytes", "BadServerName", "ShortIdTooLong", "NoX25519KeyShare"}

Be16(n)  == <<(n \div 256) % 256, n % 256>>
Be24(n)  == <<(n \div 65536) % 256>> \o Be16(n)
Zeros(n) == [i \in 1..n |-> 0]
Extension(type, data) == Be16(type) \o Be16(Len(data)) \o data

-----------------------------------------------------------------------------
(* An extension nobody reads: its type and the length of its body. *)
Blank(type, n) == Extension(type, Zeros(n))

(* Those between the server name and the versions, in the order of the     *)
(* fingerprint.                                                            *)
BeforeVersions ==
    Blank(23, 0) \o Blank(65281, 1) \o Blank(10, 10) \o Blank(16, 14) \o Blank(13, 18)
        \o Blank(5, 5) \o Blank(27, 3) \o Blank(18, 0) \o Blank(45, 2) \o Blank(50, 18)
        \o Blank(31, 18) \o Blank(17513, 2) \o Blank(17613, 2) \o Blank(35, 0) \o Blank(22, 0)

ServerName(host) ==
    Extension(EXT_SERVER_NAME, Be16(3 + Len(host)) \o <<0>> \o Be16(Len(host)) \o host)

SupportedVersions == Extension(EXT_SUPPORTED_VERSIONS, <<6, 10, 10, 3, 4, 3, 3>>)

KeyShare(public) ==
    Extension(EXT_KEY_SHARE, Be16(4 + X25519_PK_LEN) \o Be16(GROUP_X25519)
                                 \o Be16(X25519_PK_LEN) \o public)

Extensions(sni, public) ==
    Blank(6682, 0) \o (IF sni = None THEN <<>> ELSE ServerName(sni[1]))
        \o BeforeVersions \o SupportedVersions \o KeyShare(public)

SniOverhead(sni) == IF sni = None THEN 0 ELSE 9 + Len(sni[1])

(* Mutation: the server name is counted once. *)
PaddingLenSniOnce(exts, sni) ==
    IF Len(exts) < PADDING_BOUNDARY THEN PADDING_BOUNDARY - 4 - Len(exts) ELSE 0

(* The length can be negative: the subtraction is on an unsigned integer   *)
(* and panics, at once or on the allocation of the wrapped length.         *)
PaddingLen(exts, sni) ==
    LET total == Len(exts) + SniOverhead(sni)
    IN  IF total < PADDING_BOUNDARY THEN PADDING_BOUNDARY - 4 - total ELSE 0

Padded(exts, sni) ==
    LET n == PaddingLen(exts, sni)
    IN  IF n > 0 THEN exts \o Extension(EXT_PADDING, Zeros(n)) ELSE exts

HelloBody(random, session_id, exts) ==
    <<3, 3>> \o random \o <<Len(session_id)>> \o session_id
        \o Be16(32) \o Zeros(32) \o <<1, 0>> \o Be16(Len(exts)) \o exts

HelloRecord(body) ==
    LET handshake == <<HS_CLIENT_HELLO>> \o Be24(Len(body)) \o body
    IN  <<CONTENT_HANDSHAKE, 3, 1>> \o Be16(Len(handshake)) \o handshake

BuildClientHello(sni, public, random, session_id) ==
    LET exts == Extensions(sni, public) IN
    IF Len(session_id) > MAX_SESSION_ID_LEN THEN Err("ShortIdTooLong")
    ELSE IF PaddingLen(exts, sni) < 0 THEN Err("panic")
    ELSE [ok |-> TRUE, wire |-> HelloRecord(HelloBody(random, session_id, Padded(exts, sni)))]

-----------------------------------------------------------------------------
(* Reader: a byte past the end reads as 0 here; every use is behind the    *)
(* test that the code's take makes.                                        *)
At(w, i)        == IF i < Len(w) THEN w[i + 1] ELSE 0
U16(w, i)       == 256 * At(w, i) + At(w, i + 1)
Take(w, i, n)   == SubSeq(w, i + 1, i + n)
Ascii(name)     == \A i \in DOMAIN name : name[i] < 128

Nothing == [ok |-> TRUE, sni |-> None, share |-> None, tls13 |-> FALSE, pos |-> 0]

ReadServerName(b) ==
    LET n == U16(b, 3) IN
    IF Len(b) < 5 THEN Err("Truncated")
    ELSE IF At(b, 2) # 0 \/ U16(b, 0) # 3 + n THEN Err("BadServerName")
    ELSE IF Len(b) < 5 + n THEN Err("Truncated")
    ELSE IF Len(b) > 5 + n \/ ~Ascii(Take(b, 5, n)) THEN Err("BadServerName")
    ELSE [Nothing EXCEPT !.sni = Some(Take(b, 5, n))]

(* The first x25519 share of the right length counts. *)
ReadKeyShare(b) ==
    LET at[p \in 0..Len(b)] ==
            IF p >= 2 + U16(b, 0)
            THEN IF p = Len(b) THEN Nothing ELSE Err("LengthMismatch")
            ELSE IF Len(b) < p + 4 \/ Len(b) < p + 4 + U16(b, p + 2) THEN Err("Truncated")
            ELSE LET klen == U16(b, p + 2)
                     rest == at[p + 4 + klen]
                 IN  IF rest.ok /\ U16(b, p) = GROUP_X25519 /\ klen = X25519_PK_LEN
                     THEN [rest EXCEPT !.share = Some(Take(b, p + 4, klen))] ELSE rest
    IN  IF Len(b) < 2 THEN Err("Truncated") ELSE at[2]

ReadSupportedVersions(b) ==
    LET n == At(b, 0) IN
    IF Len(b) < 1 THEN Err("Truncated")
    ELSE IF n % 2 # 0 THEN Err("LengthMismatch")
    ELSE IF Len(b) < 1 + n THEN Err("Truncated")
    ELSE IF Len(b) > 1 + n THEN Err("LengthMismatch")
    ELSE [Nothing EXCEPT !.tls13 = \E i \in 0..((n \div 2) - 1) : U16(b, 1 + 2 * i) = 772]

ReadExtension(type, body) ==
    CASE type = EXT_SERVER_NAME        -> ReadServerName(body)
      [] type = EXT_KEY_SHARE          -> ReadKeyShare(body)
      [] type = EXT_SUPPORTED_VERSIONS -> ReadSupportedVersions(body)
      [] OTHER                         -> Nothing

(* The extension block from `start`, `total` bytes long; the first error   *)
(* ends it.  A later server name replaces an earlier one, a share does not.*)
ReadExtensions(w, start, total) ==
    LET at[p \in 0..Len(w)] ==
            IF p >= start + total THEN [Nothing EXCEPT !.pos = p]
            ELSE IF Len(w) < p + 4 THEN Err("Truncated")
            ELSE IF p + 4 + U16(w, p + 2) > start + total THEN Err("LengthMismatch")
            ELSE IF Len(w) < p + 4 + U16(w, p + 2) THEN Err("Truncated")
            ELSE LET len  == U16(w, p + 2)
                     this == ReadExtension(U16(w, p), Take(w, p + 4, len))
                     rest == at[p + 4 + len]
                 IN  IF ~this.ok THEN this
                     ELSE IF ~rest.ok THEN rest
                     ELSE [rest EXCEPT !.sni = IF @ = None THEN this.sni ELSE @,
                                       !.share = IF this.share = None THEN @ ELSE this.share,
                                       !.tls13 = @ \/ this.tls13]
    IN  at[start]

ParseClientHello(w) ==
    LET n       == Len(w)
        sidLen  == At(w, 43)
        ciphers == SESSION_ID_OFFSET + sidLen       \* the cipher list's length field
        comp    == ciphers + 2 + U16(w, ciphers)    \* the compression list's
        exts    == comp + 1 + At(w, comp)           \* the extension block's
        x       == ReadExtensions(w, exts + 2, U16(w, exts))
    IN  IF n < 1 THEN Err("Truncated")
        ELSE IF At(w, 0) # CONTENT_HANDSHAKE THEN Err("BadRecordType")
        ELSE IF n < 3 THEN Err("Truncated")
        ELSE IF At(w, 1) # 3 \/ At(w, 2) > 3 THEN Err("BadRecordVersion")
        ELSE IF n < 5 THEN Err("Truncated")
        ELSE IF n - 5 # U16(w, 3) THEN Err("LengthMismatch")
        ELSE IF n < 6 THEN Err("Truncated")
        ELSE IF At(w, 5) # HS_CLIENT_HELLO THEN Err("BadRecordType")
        ELSE IF n < 9 THEN Err("Truncated")
        ELSE IF n - 9 # 256 * U16(w, 6) + At(w, 8) THEN Err("LengthMismatch")
        ELSE IF n < SESSION_ID_OFFSET THEN Err("Truncated")
        ELSE IF sidLen > MAX_SESSION_ID_LEN THEN Err("ShortIdTooLong")
        ELSE IF n < ciphers + 2 THEN Err("Truncated")
        ELSE IF U16(w, ciphers) % 2 # 0 THEN Err("LengthMismatch")
        ELSE IF n < comp + 1 \/ n < exts + 2 THEN Err("Truncated")
        ELSE IF ~x.ok THEN x
        ELSE IF x.pos # n THEN Err("TrailingBytes")
        ELSE IF x.share = None THEN Err("NoX25519KeyShare")
        ELSE [ok |-> TRUE, sni |-> x.sni, random |-> Take(w, 11, 32),
              session_id |-> Take(w, SESSION_ID_OFFSET, sidLen),
              ephemeral_public |-> x.share[1], tls13_negotiable |-> x.tls13]
=============================================================================
