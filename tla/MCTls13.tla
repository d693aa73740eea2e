------------------------------ MODULE MCTls13 ------------------------------
EXTENDS Tls13

Fill(n) == [i \in 1..n |-> 1 + (i % 200)]
EC_OID == <<42, 134, 72, 206, 61, 2, 1>>
Version3 == Element(VERSION_TAG, Element(INTEGER, <<2>>))

\* Keys and the bytes they are written in: with and without a sign byte,
\* in short, one-byte and two-byte length form; an EC key, a modulus of
\* 4104 bits and an exponent of 1 among them.
MCKeys == [v3 |-> [n |-> Fill(20), e |-> <<1, 0, 1>>], v1 |-> [n |-> Fill(140), e |-> <<3>>],
           big |-> [n |-> Fill(260), e |-> <<1, 0, 1>>], ec |-> [n |-> Fill(9), e |-> <<3>>],
           huge |-> [n |-> Fill(513), e |-> <<3>>], weak |-> [n |-> Fill(20), e |-> <<1>>]]
MCCerts == [v3 |-> Certificate(Version3, RSA_OID, Fill(20), <<1, 0, 1>>),
            v1 |-> Certificate(<<>>, RSA_OID, <<0>> \o Fill(140), <<3>>),
            big |-> Certificate(Version3, RSA_OID, <<0>> \o Fill(260), <<1, 0, 1>>),
            ec |-> Certificate(Version3, EC_OID, Fill(9), <<3>>),
            huge |-> Certificate(Version3, RSA_OID, Fill(513), <<3>>),
            weak |-> Certificate(Version3, RSA_OID, Fill(20), <<1>>)]

Base == [shape |-> "ok", suite |-> "AES_128_GCM_SHA256", share |-> "server share",
         chain |-> <<"v3", "ec">>, certtype |-> "certificate", scheme |-> "rsa_pss_rsae_sha256",
         signer |-> "v3", extra |-> <<>>, early |-> FALSE]

MCFlavours ==
    {Base, [Base EXCEPT !.early = TRUE],
     [Base EXCEPT !.suite = "AES_256_GCM_SHA384", !.chain = <<"v1">>, !.signer = "v1",
                  !.extra = <<Message("certificate_request", 1, <<>>)>>],
     [Base EXCEPT !.chain = <<"big">>, !.signer = "big", !.scheme = "rsa_pkcs1_sha512"],
     [Base EXCEPT !.signer = "v1"], [Base EXCEPT !.chain = <<"ec">>, !.signer = "ec"],
     [Base EXCEPT !.chain = <<"huge">>, !.signer = "huge"],
     [Base EXCEPT !.chain = <<"weak">>, !.signer = "weak"],
     [Base EXCEPT !.scheme = "ecdsa_secp256r1_sha256"], [Base EXCEPT !.chain = <<>>],
     [Base EXCEPT !.certtype = "compressed_certificate"],
     [Base EXCEPT !.suite = "AES_128_CCM_SHA256"], [Base EXCEPT !.share = "none"],
     [Base EXCEPT !.shape = "cut"], [Base EXCEPT !.shape = "other"],
     [Base EXCEPT !.shape = "stub"]}

\* All in one record; one record per message; records ending inside the
\* certificate; one unit per record.
MCLayouts == {{}, {1, 3, 4}, {2}, {2, 4}, {1, 2, 3, 4, 5}}
=============================================================================
