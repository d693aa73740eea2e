-------------------------------- MODULE Der --------------------------------
(***************************************************************************)
(* The DER walk of native/src/tls13.rs from a certificate to its RSA key,  *)
(* as functions on byte sequences.  An Option is <<>> or <<x>>.            *)
(***************************************************************************)
EXTENDS Integers, Sequences

SEQUENCE == 48
INTEGER == 2
BIT_STRING == 3
OBJECT_ID == 6
VERSION_TAG == 160
RSA_OID == <<42, 134, 72, 134, 247, 13, 1, 1, 1>>

(* Der::tlv at the start of b: tag, content and where it ends. *)
Tlv(b) ==
    LET long == b[2] > 128
        n    == IF long THEN b[2] - 128 ELSE 0
        num[i \in 0..n] == IF i = 0 THEN 0 ELSE 256 * num[i - 1] + b[2 + i]
        len  == IF long THEN num[n] ELSE b[2]
    IN  IF Len(b) < 2 \/ (long /\ (n > 4 \/ 2 + n > Len(b))) THEN <<>>
        ELSE IF 2 + n + len > Len(b) THEN <<>>
        ELSE << [tag |-> b[1], content |-> SubSeq(b, 3 + n, 2 + n + len), end |-> 2 + n + len] >>

Rest(b, t) == SubSeq(b, t[1].end + 1, Len(b))
Tagged(t, tag) == t # <<>> /\ t[1].tag = tag

(* Consecutive elements of b with these tags, None if one is missing. *)
Elements(b, tags) ==
    LET walk[i \in 0..Len(tags)] ==
            IF i = 0 THEN [ok |-> TRUE, rest |-> b, found |-> <<>>]
            ELSE LET prev == walk[i - 1]
                     t    == Tlv(prev.rest)
                 IN  IF ~prev.ok \/ ~Tagged(t, tags[i]) THEN [prev EXCEPT !.ok = FALSE]
                     ELSE [ok |-> TRUE, rest |-> Rest(prev.rest, t),
                           found |-> Append(prev.found, t[1].content)]
    IN  walk[Len(tags)]

AfterVersion(tbs) ==   \* the version is optional
    LET t == Tlv(tbs) IN IF Tagged(t, VERSION_TAG) THEN Rest(tbs, t) ELSE tbs

(* The content of the SubjectPublicKeyInfo: after serial number, signature *)
(* algorithm, issuer, validity and subject.                                *)
ParseCertSpki(der) ==
    LET cert == Tlv(der)
        tbs  == Tlv(cert[1].content)
        f    == Elements(AfterVersion(tbs[1].content),
                         <<INTEGER, SEQUENCE, SEQUENCE, SEQUENCE, SEQUENCE, SEQUENCE>>)
    IN  IF ~Tagged(cert, SEQUENCE) \/ ~Tagged(tbs, SEQUENCE) \/ ~f.ok THEN <<>>
        ELSE << f.found[6] >>

(* RsaPublicKey::new of the rsa crate (external), as the walk uses it: a   *)
(* modulus of at most 4096 bits, an exponent from 2 to 2^33 - 1.           *)
Significant(b) ==
    LET nonzero == {i \in DOMAIN b : b[i] # 0}
    IN  IF nonzero = {} THEN <<>>
        ELSE SubSeq(b, CHOOSE i \in nonzero : \A j \in nonzero : i <= j, Len(b))

RsaPublicKeyAccepts(n, e) ==
    LET exp == Significant(e)
    IN  /\ Len(Significant(n)) <= 512
        /\ Len(exp) \in 1..5
        /\ Len(exp) = 1 => exp[1] >= 2
        /\ Len(exp) = 5 => exp[1] = 1

StripSign(n) == IF n # <<>> /\ n[1] = 0 THEN Tail(n) ELSE n

ParseRsaSpki(spki) ==
    LET parts == Elements(spki, <<SEQUENCE, BIT_STRING>>)
        bits  == parts.found[2]
        oid   == Elements(parts.found[1], <<OBJECT_ID>>)
        key   == Elements(Tail(bits), <<SEQUENCE>>)
        nums  == Elements(key.found[1], <<INTEGER, INTEGER>>)
        n     == StripSign(nums.found[1])
        e     == StripSign(nums.found[2])
    IN  IF ~parts.ok \/ bits = <<>> \/ bits[1] # 0 THEN <<>>
        ELSE IF ~oid.ok \/ oid.found[1] # RSA_OID THEN <<>>
        ELSE IF ~key.ok \/ ~nums.ok \/ ~RsaPublicKeyAccepts(n, e) THEN <<>>
        ELSE << [n |-> n, e |-> e] >>

-----------------------------------------------------------------------------
(* What a certificate authority writes (external): an element in the       *)
(* shortest form, and a certificate around an RSA key or another one.      *)
Element(tag, content) ==
    LET n == Len(content) IN
    (IF n < 128 THEN <<tag, n>>
     ELSE IF n < 256 THEN <<tag, 129, n>>
     ELSE <<tag, 130, n \div 256, n % 256>>) \o content

Certificate(version, oid, n, e) ==
    LET empty == Element(SEQUENCE, <<>>)
        key   == Element(SEQUENCE, Element(INTEGER, n) \o Element(INTEGER, e))
        spki  == Element(SEQUENCE, Element(SEQUENCE, Element(OBJECT_ID, oid))
                                       \o Element(BIT_STRING, <<0>> \o key))
        tbs   == version \o Element(INTEGER, <<5>>) \o empty \o empty \o empty \o empty \o spki
    IN  Element(SEQUENCE, Element(SEQUENCE, tbs) \o empty)
=============================================================================
