# ShadeVPN Android: a TLA+ model of the tunnel

This directory holds a model of the client: the packet pump, the native session
it belongs to and the Android service that drives both; the VLESS/Vision stream
inside the records; the REALITY handshake with its ClientHello; and the TLS 1.3
client core. TLC checks the modules on small instances; TLAPS proves the main
results of every component for every value of the constants.

## 1. The system

| Component | State | Operations | Where |
|---|---|---|---|
| Tunnel pump | `running`, `stop`, `alive`, `seq_out`, `seq_in`, the halt handle, counters; two threads per run | `start`, `stop`, the loops of both halves, `thread_finished` | `native/src/pump.rs` |
| Session layer (JNI) | `SESSION` (handshake, socket, next sequences, the pump) under a mutex; `VLESS_TUNNEL` under another | connect, complete, probe, start pump, disconnect | `native/src/lib.rs` |
| Handshake state | `completed` flag, `record_keys` (set once) | `initiate`, `complete`, `seal_record`, `open_record` | `native/src/handshake.rs` |
| Transport | none | `write_frame`, `read_frame` | `native/src/transport.rs` |
| Test server | its two sequences | opens at the next sequence, mirrors | `native/src/test_server.rs` |
| Service | `connectGeneration`, `tunInterface`; one thread per command | start, stop, revoke, destroy, the retry loop | `ShadeVpnService.kt` |
| Orchestrator | the snapshot (compare-and-set), the staged server response | one method per stage | `service/ConnectionOrchestrator.kt` |
| Backoff | attempts used | `nextDelayMs` | `service/BackoffPolicy.kt` |
| VLESS/Vision | per-direction stream state | wrap, unwrap, pad, unpad | `native/src/vless.rs` |
| REALITY, ClientHello | none | seal, verify, build, parse | `native/src/reality.rs`, `tls.rs` |
| TLS 1.3 core | transcript, key schedule | client handshake; called by tests only | `native/src/tls13.rs` |
| Profile parser, UI, scripts | none of their own | | `parser/`, `MainActivity.kt`, `server/` |

How they interact. A START intent spawns a connect thread. It establishes the
TUN and loops over `attemptConnect`: lane check, reachability, native connect,
complete, data-plane probe, generation check, pump start. A STOP intent, a
revocation or the UI's disconnect runs on another thread and tears the native
session down. The native calls share `SESSION`; the pump's two threads share
`TunnelInner` and run outside that mutex. The UI may also run the data-plane
probe by itself.

What is hard here: a new run of the pump overlapping the last thread of the
previous one; error paths that give sequence numbers back; a peer that blocks,
closes or sends stray frames; a probe that keeps the mutex over network I/O;
work done outside the mutex between two locked steps; stops that race an
attempt inside a native call; streams whose records end anywhere; hellos that
are damaged or replayed and responses that are mixed; handshake messages spread
over records, and records lost, repeated or swapped. `PROJECT.json` lists these
hazards by line.

What makes each component correct:

- pump: no sequence is used to seal two records; a peer that counts along
  accepts every record; delivery is in order; a stop ends it; nothing resets the
  counters under a live thread;
- session: data only under a verified handshake; a teardown leaves no pump; a
  retry starts at the first sequence; the mutex is released;
- service: stops cancel retries and pumps; loops end; no session remains without
  a TUN;
- VLESS and Vision: each direction is a pipe, whatever the framing; the server
  acts on the request the profile asked for;
- REALITY: only an untouched hello of an allowed client is answered, and always;
  a completed client shares its keys with one server run and nobody else;
- TLS 1.3: application keys exist only where both ends have the same transcript,
  and nothing fails without a cause.

## 2. Modules

`TunnelPump` models `pump.rs`. Every thread has a position `pc`, its local `seq`
and the frame in hand. One step lies between any two accesses to shared state
that another actor could tell apart: the stop check, read plus `fetch_add`,
seal, write, open, deliver, and the three operations of `thread_finished`, one by
one (`Finish`, `ClearRunning`, `HaltLast`). `start` and `stop` are one step each:
their callers hold `SESSION`, and the only pump thread that can overlap a
`start` is a previous run's last one at its `halt_socket`, for which before and
after are the only two cases. A connection is two bounded frame queues, a flag
for our shutdown and one for the peer's close. The peer is the record loop of
`test_server.rs`, plus stray frames (`junk`: does not open; `empty`: skipped), a
close at any time, and records that authenticate but whose inner VLESS stream is
refused (`bad`). `sealed`, `got`, `spoiled` and `rejected` are history variables.

`NativeSession` extends `TunnelPump` with `lib.rs`, `HandshakeState::complete`
and the order of the Kotlin calls. It composes the pump with the session: its
actions call `Start` and `Stop` of the pump, and pump threads interleave with
them. Calls that drop the mutex in the middle are split there: connect (dial,
store, slot, respond) and complete (clone, claim, verify, derive, confirm or
reject, teardown). The probe holds `lock` from its checks to its answer. A
handshake and its response are named by their connection, so `resp[a] = mine[a]`
is "this response answers this handshake".

`ShadeVpnService` models `ShadeVpnService.kt` and `ConnectionOrchestrator.kt`:
one thread per START, one teardown per STOP, revocation or UI disconnect. A
native call and the snapshot update after it are two steps, on the failing paths
too (`LaneFails` or `ConnectTunnelFails`, then `DropNative`, then the update); a
call that was refused, and so changed nothing, is one with it. The native layer is
reduced to the stage of its session and the fd of its pump; what a call may
answer is what `NativeSession` has in full. `stopSelf` is not an action: the
`onDestroy` it leads to is a stop that may come at any time.

`Vless` holds `vless.rs` as functions on byte sequences: request and response
header, varints, `VisionWriter` (`Pad`), `VisionReader` (`Unpad`, byte by byte),
`VlessOut` (`Wrap`) and `VlessIn` (`Unwrap`). The sizes are constants: a byte has
`ByteMod` values, a frame body `MaxFrameBody` bytes. `VisionTunnel` composes them
from TUN to TUN with the frames of `transport.rs`. A wire is its whole frames and
the way it ends: open, cleanly, inside a prefix, inside a payload, or with a
prefix above the limit. The far end is the VLESS mode of `test_server.rs`, or one
of two external peers: one that pads a stream of its own and cuts it into records
anywhere, one that does not pad. The test server also ends when its 10 s read times
out, with records perhaps still under way (`ServerTimesOut`), and when a reply
breaks off (`Reply`); the inbound half ends when the TUN takes no more packets
(`TunGone`). Its re-seal has no failing case: AES-GCM refuses only a plaintext
longer than a frame can be. `PacketPipe` is the abstract specification of one
direction; `VisionTunnel` instantiates it twice, `WITH got <- arrived` on the way
up (packets) and over concatenated bytes on the way down, and `TunnelPump` once
per connection, over record numbers, from the server to the TUN. Whether a record opens
at all is `TunnelPump`'s subject; here it does, until the client has refused one.

`ClientHello` holds the builder and the parser of `tls.rs` at their real sizes.
`Reality` extends it with `handshake.rs`, `reality.rs` and the server side of the
handshake in `test_server.rs`. A 32-byte random or computed value is 32 copies of
its name, a number above 255, so a change to any one of its bytes makes it
another value; keys, tags and seals are terms. The network damages, cuts and
extends hellos, hands one to several server runs, mixes the parts of responses,
and delivers records late, twice or to another session. It computes no keys and
no seals. That matters for `Agreement`: the temporary certificate authenticates
the hello's secret and does not cover the server's fresh share, so the claim is
about a network that only moves what others made. A run of the server that times
out before it has read a hello, or cannot write its response, is one that takes no
further step here. The session id holds the client version and the short id; the
server checks both.

`Tls13` holds `tls13.rs`; `Der` its walk from a certificate to the RSA key, on
bytes. The walk ends in `RsaPublicKey::new`, an external call that refuses a modulus
above 4096 bits and an exponent outside 2 to 2^33 - 1 (`RsaPublicKeyAccepts`).
A handshake message is a number of units that records can split. The
driver follows the interoperability test of the file, but may hand the flight
over in several calls and read past its end. The server, the network and the
authority that writes certificates are external; a *flavour* says what the server
sends (suite, share, chain, scheme, who signed, extra messages, early ticket,
malformed hello), a *layout* where its records end.

`MCTunnelPump`, `MCNativeSession`, `MCShadeVpnService`, `MCVisionTunnel`,
`MCReality` and `MCTls13` give the constants values and define symmetry.
`TunnelPumpProofs`, `NativeSessionProofs` (which builds on it),
`ShadeVpnServiceProofs`, `RealityProofs`, `Tls13Proofs`, `VlessProofs` and
`VisionTunnelProofs` (which builds on that) hold the proofs; `DataInduction` has
the induction over data they need.

Definitions named `...Early`, `...Forgets`, `...Skipped` and the like, marked
"Mutation", are plausible slips of the definition below them. No specification
uses them; substituting one must break the property it is listed for.

## 3. Runs

| Run | States | What it shows |
|---|---|---|
| `pump_safety` | 1.3 M | `TypeOK`, `OneOwner`, `NonceUnique`, `ServerAccepts`, `InStepInbound` hold over two runs, two connections, two packets, one stray frame, and the relay implements `PacketPipe` (`RelayIsPipe`) |
| `pump_liveness` | 359 k | `RunningHasThreads`, `LossBounded` and `StopStops` with a socket buffer of one frame (writes do block) and the IPv6 shield |
| `session_alone` | 478 k | one connect thread, clones that may fail: `STypeOK`, `DataOnlyWhenProven`, `NonceUnique`, `LockReleased` |
| `session_concurrent` | 876 k | two connect threads and a UI probe: `CompletedIsProven`, `PumpFollowsSession` |
| `service` | 142 k | `TypeOK`, `LateAttemptsBounded`, `StopSilencesPump`, `LoopsEnd` |
| `vision_tunnel` | 751 k | `TypeOK`, `RequestArrives`, `FramesBounded`, `EchoReturns`, `OnlyProbeRefused`, `CleanCloseIsWhole`; both directions implement `PacketPipe` (`UpIsPipe`, `DownIsPipe`) |
| `reality` | 25 k | `TypeOK`, `HelloWellFormed`, `OnlyAuthenticHello`, `AllowedHelloAnswered`, `Agreement`, `NonceOnce`, `EchoIsOwn`, `SealedForOneServer` |
| `tls13` | 60 k | `TypeOK`, `KeysAgree`, `NonceOnce`, `DataInOrder`, `FailuresCaused`; no deadlock |
| `pump_half_death` | violated | a half that ends on EOF, a read error or a dead TUN does not end the other (`pump.rs:13-14`) |
| `session_nonce_reuse` | violated | a UI probe beside a running pump repeats a nonce (`lib.rs:53-55`) |
| `session_stale_sequence` | violated | a retry keeps the previous session's sequences (`ConnectionOrchestrator.kt:140`, `:244`) |
| `service_orphan` | violated | a stop during a connect leaves a session without a TUN (`ShadeVpnService.kt:166-167`) |

What the byte-level runs show beyond the names of their properties:

- `vision_tunnel`: the raw probe is the only record a VLESS server ever refuses for
  its content, and whenever it reads one it ends the session, with no request taken
  and nothing sent back (`OnlyProbeRefused`; a server also ends over a timeout, a
  torn frame or a reply that breaks off, whatever was sent); after a frame torn in its prefix it
  reports a clean end although a packet was under way, but none that was written
  whole is missing (`CleanCloseIsWhole`); and once the wires are drained, the TUN
  has every packet but the one whose reply broke off (`EchoReturns`);
- `reality`: the hello builder panics for a server name of 141 bytes and for no
  other length it was given, since the 512-byte boundary then falls into the
  padding's own header (`HelloWellFormed`); a replayed hello is answered by each
  run that reads it, with keys that fit no other run (`Agreement`); a response
  whose confirmation does not open spends the handshake, and whatever comes after
  it, no handshake's data goes out under keys of two runs, or of a run that never
  answered (`SealedForOneServer`);
- `tls13`: a ticket that arrives in one call with the flight is dropped and the
  data that follows no longer opens, a flight cut inside a message and continued
  in another call never completes, and a ServerHello record of one to three bytes
  panics. `FailuresCaused` names these causes and excludes all others. The hello
  of `tls.rs` offers compressed certificates, ECDSA and further groups, which the
  core does not handle (`Supported`).

Deadlock checking: the service stutters when idle (`Idle`) and every other state
must have a step. In the pump and the session `Stop` and `Disconnect` are always
possible. `tls13` ends in `Ended` only, so the absence of deadlock says that the
driver reaches an end or an error that has its cause. `vision_tunnel` and
`reality` may stop: peers need not send, and bounds run out.

Bounds. Two runs and two connections are what an overlap of runs needs; a third
run meets the same shared state, and the proofs cover it for the pump. Two
packets suffice to repeat, skip or reorder a sequence. One stray frame can stand
before, between or after two records. A buffer of two frames allows queues; one
makes writes block. In the session, one packet and one probe are enough for two
seals under one key. The service's retry budget is cut from five to two, and the
passing run has one start and two teardowns.

In `vision_tunnel` a byte has 16 values, an identity 2 bytes and a frame body 12:
a request needs several frames, a flow's length two varint bytes, a domain the
largest length byte, and a stream has few enough bytes to cut it at every place.
Packets include one that begins with the identity and a frame header. Two packets
and three records per direction put a cut before, inside and after each part.
`reality` has real sizes, server names of 0, 11 and 140 to 142 bytes, weak,
foreign and malformed keys, short ids of every kind, a changed byte in each part
of the hello, and two handshakes and two server runs, which is what replaying and
mixing need. `tls13` has one disturbance and one ChangeCipherSpec per behaviour.

Fairness. Weak fairness of each pump thread: the OS schedules it, and `poll` and
the 10 s socket read timeout bound its waits. A write is enabled only when there
is room or the connection is down, so fairness never lets it through a full
buffer. The peer is not fair: it may stop reading for good. Probe steps have
the same read timeout. In the service every native call returns
(connect 8 s, reads 10 s); commands have no fairness. `VisionTunnel`, `Reality`
and `Tls13` state no fairness: their properties are safety, and nothing in the
code bounds how long a peer takes.

## 4. Proofs

Nothing below bounds a constant. The proofs use the `ASSUME` of their module
(`PumpAssumption`, `SessionAssumption`, `ServiceAssumption`, `RealityAssumption`,
`VlessAssumption`, `VisionAssumption`, and the three of `Tls13`) and nothing else;
TLC evaluates each of these on the runs.

### The pump (`TunnelPumpProofs`)

- `TypeCorrect` (`TypeOK`), `OwnershipCorrect` (`OneOwner`),
- `NonceCorrect` (`NonceUnique`), `ServerCorrect` (`ServerAccepts`),
- `InStepCorrect` (`InStepInbound`), `LossCorrect` (`LossBounded`),
- `RelayCorrect` (`RelayIsPipe`): the refinement, initial states and steps,
- `RunningCorrect` (`RunningHasThreads`, as long as `try_clone` succeeds: the run
  `pump_liveness` fixes the same, section 5 says what happens otherwise).

None of these is inductive. `TypeOK` needs to know that a `fetch_sub` always
follows the same thread's `fetch_add` with nobody in between, which needs
`OneOwner`, which needs `alive` to count the live halves. Hence two layers.

`Owned` says who may touch the shared state. Threads that are live or about to
clear `running` belong to the latest run and see `running` set (`HolderInv`); a
half keeps to its own positions, and no thread exists before its run
(`ShapeInv`); `alive` is the number of live halves and whoever clears `running`
is alone (`AliveInv`); between `fetch_add` and the end of a record the counter is
one above the local number (`SeqInv`); exactly the runs so far have a connection
(`ConnInv`). `Owned` says nothing of which connection a run gets, so that
`NativeSession`, which chooses it differently, can take the layer over.

On top of it, each preserved by steps from `Owned` to `Owned`: `SealedInv` (while
the outbound half is in its loop, every number sealed on its connection lies
below the one it will seal next; a half that gave a sealed number back has left
the loop), `FreshInv` (nothing is sealed on a connection no run has had),
`WireInv` (the frames under way continue the server's count up to the
number the outbound half uses next), `InInv` (the inbound half expects the
number after the last one delivered), `ArriveInv` (the server's records still
under way are those from the number the inbound half expects, or has in hand, up
to the last one sent, in order, with any other frames between them), `LossInv` (a
run that still reads has lost no packet, so the packets not accounted for never
outnumber the runs), `HeldInv` (while `running` is set a thread is left to clear
it: of two live halves the first to finish leaves the other, because `alive`
counts both).

### The session (`NativeSessionProofs`)

For any number of connect threads, UI probes, runs and connections:
`SessionTypeCorrect` (`STypeOK`), `SessionOwnershipCorrect` (`OneOwner` of the
composed pump), `CompletedCorrect` (`CompletedIsProven`) and `FollowsCorrect`
(`PumpFollowsSession`). For one connect thread and no UI probe (`Alone`), over
any number of retries and disconnects: `DataCorrect` (`DataOnlyWhenProven`) and
`SessionNonceCorrect` (`NonceUnique`). The premise is the one of the run
`session_alone`; without it both are false, as `session_nonce_reuse` and section
5 show.

`SInv` is the pump's `Owned` with the mutex and the positions of its callers
(`CallInv`: the mutex is held exactly by a probe on the wire, and the stored
handshake and socket belong together) and the claims on a handshake (`ClaimInv`:
at most one thread is between the claim and the outcome, and never for a proven
handshake). `AloneInv` adds what an undisturbed thread can rely on: only proven
connections have records or runs (`ProvenInv`), and a session is fresh until its
first record and all its records lie below the `next_out_seq` the pump is handed
(`FirstInv`).

### The service (`ShadeVpnServiceProofs`)

`TypeCorrect` (`TypeOK`) and `LateCorrect` (`LateAttemptsBounded`) for any number
of starts, stops and attempts; `StopCorrect` (`StopSilencesPump`) for one start.
`GenerationInv` says what the generation counter counts and that no loop is ahead
of it, so being superseded lasts; `LateInv` that a loop which began an attempt
after it was superseded never gets back to its start; `SilentInv` that after a
stop either a teardown is still to reach the native layer, or no pump runs and the
thread that is about to start one will find no session.

### The handshake (`RealityProofs`)

For any clients, server runs, profiles and damaged bytes: `AuthenticCorrect`
(`OnlyAuthenticHello`), `AgreementCorrect` (`Agreement`), `NonceCorrect`
(`NonceOnce`), `EchoCorrect` (`EchoIsOwn`), `SealedCorrect` (`SealedForOneServer`),
`TypeCorrect` (`TypeOK`); and for profiles that satisfy `NamesFit`, `HelloCorrect`
(`HelloWellFormed`) and `AnsweredCorrect` (`AllowedHelloAnswered`).

The bytes come first. A built hello is a sequence of numbers of at least 46
(`HelloBytes`); the parser, if it accepts, took the session id from offset 44 and
found it all there (`Parsed`); of a damaged hello one of the first two bytes of
the session id is still the old one (`Damage`); a hello that agrees with a sealed
one outside the session id, and has its session id, is that hello (`Whole`).
Hence a hello a run accepts is one client's, byte for byte, and that client's
whose hello the network delivered (`Judged`, `ReadWhole`). What the parser makes
of the extensions is not needed for this: the seal covers them.

`RInv` then ties the ends together. A run with keys has a session with one client
(`Session`): its hello read whole, the keys of just these two, no more records
opened than that client sent. A response is one run's answer to one client
(`ResponseInv`); a client with keys was answered, and a completed one has the keys
of a run that answered it (`KeyInv`); every record is the n-th of a client or the
n-th mirrored by its run (`RecordInv`); payloads are numbered at both ends
(`EchoInv`), and only a completed handshake has sealed any (`SentInv`). `Steady` says what no step takes back. Injectivity of the key terms
(`PairIsOne`, `AuthIsOne`, `NonceIsOne`) does the rest.

`TypeCorrect` needs what `parse_client_hello` makes of any bytes, damaged ones
included: a reading or one of its named errors. Its two walks, over the
extensions and over the key shares inside one, are recursive functions of the
offset; induction from the end of the block shows that each has a value at every
offset and that the value is one of the outcomes (`BlockOutcome`).

`HelloCorrect` and `AnsweredCorrect` are the other direction: what
`build_reality_client_hello` writes, the parser reads back exactly. The builder's
fields lie at known offsets (`HelloLaid`) and patching the session id moves none of
them (`PatchedLaid`); the walk then goes over the extensions as they were written,
one at a time (`Walk`, `Skipped`, `ExtensionsRead`), through the padding, whose
length depends on the name's (`PaddedIs`), to the name, the key share and the
versions the server's tests look at (`HelloParses`, `TestsPass`). With that, a run
which refuses a hello refuses it for a reason the network or the profile gave: the
bytes are not as they were sent, or the short id or the key is not the server's
(`SoundInv`, `RefusalInv`).

`NamesFit` says that a server name is ASCII and short enough for the 16-bit lengths
around it. The code checks neither (`as u16` casts the lengths); a host name in a
profile meets both, and so do the names of the run.

### The TLS 1.3 core (`Tls13Proofs`)

For any servers, layouts, certificates and bounds: `KeysCorrect` (`KeysAgree`),
`TypeCorrect` (`TypeOK`), `NonceCorrect` (`NonceOnce`), `DataCorrect`
(`DataInOrder`), `FailuresCorrect` (`FailuresCaused`). Besides `Tls13Assumption`
they use assumptions on the external server. `FlavourAssumption`: it sends one
Certificate (in one form or another), one CertificateVerify and one Finished, and
any number of other messages between, each at least a header long.
`CertAssumption`: no two certificates have one key, and the bytes of a
certificate are for its own key, so that the DER walk finds that key or none.
`LeafAssumption`, which only `FailuresCorrect` uses: of every certificate but
those in `KeylessCerts` it does find it (there: an EC key, a modulus too large and
an exponent too small for the rsa crate). TLC evaluates them on the run `tls13`, the last
two on the bytes of whole certificates.

`TInv` is about records. The wire carries only records that are `Fine`: a hello
that says what the server's says but for the share, records of the server's
flight, the ticket, and the n-th echo with sequence n. Whatever loses, repeats,
swaps or damages records keeps that. With it, the client's sequences count its
data (`SequenceInv`), it seals one record per sequence (`SealedInv`), and what
both ends have read are the numbers from 1 (`DataInv`).

`KInv` is about keys. `HelloInv` says what the client knows of the server after
the hello: everything but the share, which may be a damaged one. The rest is what
one call of `process_server_flight` computes, a recursion over records with a
recursion over messages inside. `Accum` holds of its accumulator at every step
(`TakeMessageAccum`, `DrainAccum`, `TakeRecordAccum`, `ReadFlightAccum`): the
buffer holds units of the server's flight, and only if the client has the
server's handshake secret; a chain or CertificateVerify it has is the server's;
and if it is finished, the transcript is the whole of the server's, because the
Finished authenticates everything before it. So an accepted flight
(`AcceptedFlight`) was read under the server's secret, which fixes the share
(`ShareIsServers`), the signer is the owner of the leaf's key, and the
application secrets are derived from the server's terms.

`CInv` is about success. `KInv` leaves open what a flight that is not accepted
fails with; to show that an undisturbed one is accepted, the two recursions are
followed exactly. `Laid` numbers the units where each message of the flight ends,
`Dealt` where each record ends, for any layout. `At` is the accumulator after j
messages (transcript, chain, CertificateVerify, `finished`), with the units
`Kept` in its buffer; one step of the inner recursion takes it to j + 1 where the
message is complete (`TakeNext`, `DrainAll`), one record to the next (`RecordNext`,
`CcsNext`). `Mixed` says that the wire is what the server sent with
ChangeCipherSpec put in; a call over any number of its records then ends with
the whole flight verified, or with `Truncated` and more to come (`FlightReads`,
`FlightOutcome`). `Calm` is a run without any of the causes, and in it
(`Undisturbed`) the wire is the server's hello and flight, in order, up to that
call, and `Echoes` after it: up to the first ChangeCipherSpec each record opens at
its turn. In the other direction `Outgoing` says that what the client has sent and
the server has not read is what the server waits for. Each disturbance, second
call or dropped ticket ends `Calm`, so an error outside it has its cause.

### VLESS and Vision (`VlessProofs`, `VisionTunnelProofs`)

Two round trips, for bytes, identities and frames of any size, and no state:

- `VisionRoundTrip`: what `VisionWriter` makes of a first payload, in any number
  of frames and padded by any draws, a fresh `VisionReader` gives back.
- `RequestRoundTrip`: a request header in front of any payload is measured by
  `request_header_len` to its own length and parsed back field by field.

The first reads byte by byte. `Reads(rd, w, r, o)` says that the reader `rd`, after
the bytes of `w`, has become `r` and given `o`. One lemma per kind of byte (header
bytes, content, padding, the byte that ends a frame) says what it does to a reader;
induction over a body gives `ContentReads` and `PaddingReads`, these and the five
header bytes `FrameReads`, and induction over the writer's frames `PadReads`. The
second finds each field at its offset in the concatenated header; the varint of
the flow's length is read back through its own induction.

A third result is about a stream in any state: `CutsInvisible` says that a
`VisionReader` makes the same of a stream whether it comes in one buffer or is cut
in two at any byte. It goes by induction over the second part (`ChainStep`), from
what one byte does (`ByteOutcome`).

`VisionTunnelProofs` then proves eight properties of `VisionTunnel` for any
well-formed requests, packets, draws and bounds: `RequestCorrect`
(`RequestArrives`), `RefusedCorrect` (`OnlyProbeRefused`), `CleanCorrect`
(`CleanCloseIsWhole`), `EchoCorrect` (`EchoReturns`), `UpCorrect` and `DownCorrect`
(`UpIsPipe` and `DownIsPipe`, the refinements of `PacketPipe`), `TypeCorrect`
(`TypeOK`), and `FramesCorrect` (`FramesBounded`).

For the echo server, the invariant `EchoInv` does not say what bytes are on a wire but what their
reader will make of them: `Wire(way, q, s, n, frames)` holds when the records under way
are those of the packets `s` after the `n`-th, where the first of a direction is
any bytes of which a fresh reader makes the header and the packet, ending in raw
mode (`UpFirst`, `DownFirst`), and every later one is the packet. Padding draws and
framing are thereby out of the state argument. With it go: a client that has sent
has spent its header (`OutInv`), a server that has met the first record is past
the padding in both directions and holds the request it was asked
(`ServerInv`), what the TUN has received begins what was answered (`DownInv`), and
the replies are what was taken, but for one that broke off (`RepliesInv`).
The probe needs an argument of its own (`ProbeRefused`): a server still waiting
for its request either refuses the framing of its fives, or is left with
three of them, which are no request.

For the external peers, which pad a stream of their own and cut it anywhere, the
same idea is carried from whole records to the rest of a stream. `StreamInv` says:
fed the record on the wire and then the bytes the peer has not yet cut off, the
client's reader will give exactly what the TUN has still to get (`Ahead`), and
will then be level with the peer's writer (`Synced`: both between two frames, or both
past END). It has three forms: `Waiting` before the first record, which opens with
identity and response header, `Carrying` while a record is on the wire, `Flowing`
between two. A write of the peer adds a payload at the far end of that
(`LevelsMore`), a cut divides it (`FollowCut`, from `ReadsCut`), a delivery consumes
the first part; a malformed first record is rejected (`MalformedRefused`), and out of
step nothing more is claimed than that the TUN has a beginning of what was sent.
`TypeCorrect` needs the reader's state as well: from any state with its counts in
range every byte leads to such a state or is refused (`ByteKeeps`).

`FramesCorrect` sets the writer against a reading of its record that knows nothing
of the payload. `PadSound` finds every frame of a padded record between the lengths
of the writer's successive outputs (`FrameLined`, `FrameLies`), with its padding
within the borders for any draw (`PaddingBorders`); a record laid out like that
(`Lined`) is walked by `FramesOf` from one such offset to the next (`WalkMeets`), so
it finds no other frames. The record stays at the head of the way up until the
server takes it, and then a packet has arrived.

`WellFormed` assumes that a request's fields fit the bytes they are written in:
16 bits of port, a flow and a domain shorter than 256 bytes.

### Induction over data

The library states induction for a predicate parameter, which the provers cannot
instantiate. `DataInduction` states it for a set (`SetInduction`: a set with 0 and
with every successor holds all naturals), from the library's least-element
theorem. For a recursive function it is used twice: to show that a function with
the recursive equation exists, so that the definition denotes one, and to show
what its values are.

Every inductive invariant was checked by TLC on the module's run before it was
proved; `StreamInv`, which quantifies over readers, and `CInv`, which quantifies over
ways to mix a wire, in a form that computes them.

### Only model-checked

Liveness under fairness (`StopStops`, `LockReleased`, `LoopsEnd`) and the absence of
deadlock, which speaks of ENABLED: out of the prover's reach.

## 5. Limits

- Cryptography is symbolic: a record opens at its own sequence under its own
  session and nowhere else.
- Adjacent updates that no other actor can tell apart are one step: a counter
  bump and the access beside it, the snapshot updates of the set-up phase, the
  TUN and its snapshot entry.
- Byte counts, status texts and, in the pump, failure reasons are left out.
- Two readers of one socket take whole frames; a frame torn between two readers is
  not modelled (one torn by a broken connection is, in `VisionTunnel`).
- In `Tls13` a message is opaque apart from what the client branches on: inner
  padding (`strip_inner_padding`), the layout of a certificate list and of the
  ServerHello are not bytes. The order of messages in the flight, which the code
  does not enforce, is the server's order; a flight reordered by a peer that has
  the handshake keys is not modelled.
- `build_request_header` and `Address::push_to` write `len() as u8` unchecked
  (`vless.rs:146`, `:93`): a flow or a domain of 256 bytes or more would get a cut
  length byte. The model does the same; requests in the runs and the proofs are
  shorter (`WellFormed`).
- The time in the session id is written and never read by code in this
  repository, so it is not modelled.
- Not modelled at all: the profile parser (strings without state), the length of
  retry delays, JNI declarations and intents, rendering, the installation script
  and the build files.
- One service instance; `StopSilencesPump` is about the last start. With two
  starts, a thread past its generation check can start the pump on the newer
  session. TLC shows it; the passing run therefore has one start.

Behaviour TLC showed while the model was built and that is not kept as a run:

- a record that authenticates but whose inner stream is refused leaves the inbound
  sequence one behind for good (`pump.rs:322-324`);
- the last thread's late `halt_socket` can shut the next run's connection down
  (`pump.rs:163-165`);
- a UI probe during `complete()` may seal a record after the keys are set and
  before the confirmation is verified (`handshake.rs:227-236`);
- with a UI probe behind a full socket buffer the mutex has no bound
  (`lib.rs:339`);
- a slow stop thread closes the TUN of the start that follows it
  (`ShadeVpnService.kt:165-172`);
- a disconnect leaves `phase` at CONNECTED (`ConnectionOrchestrator.kt:279-283`);
- the long padding is drawn from `[900 - content, 1400 - content)` and capped by
  the frame, where the comment has `[900 - content, 900)` (`vless.rs:55-57`);
- a `try_clone` that fails inside `start` leaves `running` set without a thread, so
  that every later start answers "already running" (`pump.rs:213-215`, `:346`);
- an end of file inside the length prefix is reported as a clean close, one inside
  the payload as an error (`transport.rs:57-63`);
- a VLESS server refuses the raw record of the data-plane probe, where the comment
  expects a server that mirrors it (`lib.rs:334`, `:343`).

## 6. Plan

1. Done: the pump, the session over it, the service.
2. Done: transport ends, VLESS and Vision with the refinement to `PacketPipe`, the
   handshake and the ClientHello, the TLS 1.3 core.
3. Done: proofs for the pump with its refinement to `PacketPipe`, the session, the
   service, the REALITY handshake, the TLS 1.3 core, the round trips of VLESS and
   Vision, and the tunnel with the refinements of both its directions.
   The ClientHello is proved from builder to parser.
4. Next: what a stop promises when starts overlap (`StopSilencesPump` beyond one
   start), and a flight of TLS messages in another order.
