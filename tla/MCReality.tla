----------------------------- MODULE MCReality -----------------------------
EXTENDS Reality

Name(n) == [i \in 1..n |-> 97]
Prof(n, key, short) == [sni |-> Name(n), key |-> key, short |-> short]
Good == Prof(11, Some(300), Some(<<1, 2>>))

\* Names around the padding boundary, weak and foreign keys, short ids of
\* every kind; the second handshake always starts from a good profile.
MCProfiles ==
    [h \in Handshakes |->
        IF h # 1 THEN {Good}
        ELSE {Prof(n, Some(300), Some(<<1, 2, 0>>)) : n \in {0, 140, 141, 142}}
             \cup {Prof(11, k, Some(<<1, 2>>)) : k \in {None, Some(0), Some(256), Some(301)}}
             \cup {Prof(11, Some(300), s) :
                      s \in {None, Some(<<>>), Some(<<7>>), Some(Name(9))}}]

\* A byte of each part: record type, version and length, handshake length,
\* random, session id length, session id, cipher length, server name, key
\* share, padding.
MCOffsets == {0, 2, 4, 8, 20, 43, 60, 77, 130, 135, 330, 360, 450}
MCAllowed == <<1, 2>>
=============================================================================
