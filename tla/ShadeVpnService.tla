--------------------------- MODULE ShadeVpnService ---------------------------
(***************************************************************************)
(* The Android service and its orchestrator: ShadeVpnService.kt,           *)
(* ConnectionOrchestrator.kt and BackoffPolicy.kt.  Every START runs the   *)
(* connect/retry loop on a thread of its own, every STOP, revocation or    *)
(* UI disconnect runs a teardown on another; a generation counter is all   *)
(* that tells a loop it has been superseded.  Both sides drive one native  *)
(* session and one snapshot that the UI shows.                             *)
(*                                                                         *)
(* A native call and the snapshot update after it are separate steps,      *)
(* since anything may come in between; a call that was refused, and so     *)
(* changed nothing, is one step with its update.  The native layer is reduced to     *)
(* what its calls answer: NativeSession has it in full.  The TUN of a      *)
(* START is named by its thread; delays are left to the scheduler.         *)
(***************************************************************************)
EXTENDS Integers

CONSTANTS MaxStarts,    \* bound: START commands
          MaxStops,     \* bound: teardowns
          MaxAttempts   \* BackoffPolicy.maxAttempts

ASSUME ServiceAssumption ==
    MaxStarts \in Nat /\ MaxStops \in Nat /\ MaxAttempts \in Nat

Starts == 1..MaxStarts
Stops  == 1..MaxStops
NoTun  == 0

VARIABLES connectGeneration, starts, stops, \* the counter; commands so far
          generation, at, attempt,   \* connect threads: generation, position,
                                     \* BackoffPolicy.attempt
          late,                      \* history: attempts begun once superseded
          kind, sat,                 \* teardowns: what they are, position
          tunInterface, openTuns,    \* the service's TUN; TUN fds open
          session, pumpFd,           \* native: session stage; fd of the pump
          pending,                   \* a server response is staged
          snap                       \* the ConnectionSnapshot

threads  == <<starts, generation, at, attempt, late>>
teardown == <<stops, kind, sat>>
tuns     == <<tunInterface, openTuns>>
native   == <<session, pumpFd>>
vars     == <<connectGeneration, threads, teardown, tuns, native, pending, snap>>

Init ==
    /\ connectGeneration = 0 /\ starts = 0 /\ stops = 0
    /\ generation = [t \in Starts |-> 0]
    /\ at = [t \in Starts |-> "none"]
    /\ attempt = [t \in Starts |-> 0] /\ late = [t \in Starts |-> 0]
    /\ kind = [s \in Stops |-> "stop"] /\ sat = [s \in Stops |-> "none"]
    /\ tunInterface = NoTun /\ openTuns = {}
    /\ session = "none" /\ pumpFd = NoTun
    /\ pending = FALSE
    /\ snap = [phase |-> "IDLE", tunEstablished |-> FALSE,
               handshakeCompleted |-> FALSE, pumpRunning |-> FALSE]

Goto(t, l) == at' = [at EXCEPT ![t] = l]

(* Mutation: a loop never notices that it was superseded. *)
NeverSuperseded(t) == FALSE

(* generation != connectGeneration *)
Superseded(t) == generation[t] # connectGeneration

(* nativeDisconnectTunnel, and the teardown of a rejected handshake. *)
NativeDisconnect == session' = "none" /\ pumpFd' = NoTun

-----------------------------------------------------------------------------
(* onStartCommand(START) and the set-up part of startTunnel. *)

OnStart ==
    LET t == starts + 1
    IN  /\ starts < MaxStarts
        /\ starts' = t
        /\ connectGeneration' = connectGeneration + 1
        /\ generation' = [generation EXCEPT ![t] = connectGeneration + 1]
        /\ Goto(t, "setup")
        /\ UNCHANGED <<attempt, late, teardown, tuns, native, pending, snap>>

(* No profile, a bad one, or an own UID that cannot be excluded. *)
SetupRefused(t) ==
    /\ at[t] = "setup"
    /\ snap' = [snap EXCEPT !.phase = "FAILED"]
    /\ Goto(t, "done")
    /\ UNCHANGED <<connectGeneration, starts, generation, attempt, late,
                   teardown, tuns, native, pending>>

(* The TUN of an earlier start is overwritten, not closed. *)
EstablishTun(t) ==
    /\ at[t] = "setup"
    /\ \/ /\ tunInterface' = t /\ openTuns' = openTuns \cup {t}
          /\ snap' = [snap EXCEPT !.phase = "CONNECTING_CONTROL",
                                  !.tunEstablished = TRUE]
          /\ Goto(t, "loop")
       \/ /\ tunInterface' = NoTun /\ UNCHANGED openTuns
          /\ snap' = [snap EXCEPT !.phase = "FAILED", !.tunEstablished = FALSE]
          /\ Goto(t, "done")
    /\ UNCHANGED <<connectGeneration, starts, generation, attempt, late,
                   teardown, native, pending>>

-----------------------------------------------------------------------------
(* The loop of startTunnel around attemptConnect. *)

Loop(t) ==
    /\ at[t] = "loop"
    /\ \/ /\ snap.tunEstablished
          /\ late' = [late EXCEPT ![t] =
                         IF generation[t] # connectGeneration THEN @ + 1 ELSE @]
          /\ Goto(t, "control")
       \/ ~snap.tunEstablished /\ Goto(t, "done") /\ UNCHANGED late
    /\ UNCHANGED <<connectGeneration, starts, generation, attempt, teardown,
                   tuns, native, pending, snap>>

(* buildRealityLane throws: a fatal stop with a native teardown. *)
LaneFails(t) ==
    /\ at[t] = "control"
    /\ snap' = [snap EXCEPT !.phase = "FAILED"]
    /\ Goto(t, "lane_failed")
    /\ UNCHANGED <<connectGeneration, starts, generation, attempt, late,
                   teardown, tuns, native, pending>>

LaneFailsReturns(t) ==
    /\ at[t] = "lane_dropped"
    /\ pending' = FALSE
    /\ snap' = [snap EXCEPT !.pumpRunning = FALSE]
    /\ Goto(t, "done")
    /\ UNCHANGED <<connectGeneration, starts, generation, attempt, late,
                   teardown, tuns, native>>

(* nativeDisconnectTunnel on the two failing paths that call it. *)
DropNative(t) ==
    /\ \/ at[t] = "lane_failed" /\ Goto(t, "lane_dropped")
       \/ at[t] = "tunnel_failed" /\ Goto(t, "tunnel_dropped")
    /\ NativeDisconnect
    /\ UNCHANGED <<connectGeneration, starts, generation, attempt, late,
                   teardown, tuns, pending, snap>>

(* probeControlPlane: only an exception ends the attempt; a server found   *)
(* unreachable is shown as a failure and the attempt goes on.              *)
ProbeControlPlane(t) ==
    /\ at[t] = "control"
    /\ \/ Goto(t, "failed") /\ UNCHANGED snap
       \/ Goto(t, "connect") /\ UNCHANGED snap
       \/ Goto(t, "connect") /\ snap' = [snap EXCEPT !.phase = "FAILED"]
    /\ UNCHANGED <<connectGeneration, starts, generation, attempt, late,
                   teardown, tuns, native, pending>>

ConnectTunnel(t) ==
    /\ at[t] = "connect"
    /\ session' = "hello"
    /\ Goto(t, "connected")
    /\ UNCHANGED <<connectGeneration, starts, generation, attempt, late,
                   teardown, tuns, pumpFd, pending, snap>>

(* A failed native call has stored nothing. *)
ConnectTunnelFails(t) ==
    /\ at[t] = "connect"
    /\ Goto(t, "tunnel_failed")
    /\ UNCHANGED <<connectGeneration, starts, generation, attempt, late,
                   teardown, tuns, native, pending, snap>>

ConnectTunnelFailsReturns(t) ==
    /\ at[t] = "tunnel_dropped"
    /\ pending' = FALSE
    /\ snap' = [snap EXCEPT !.phase = "FAILED"]
    /\ Goto(t, "failed")
    /\ UNCHANGED <<connectGeneration, starts, generation, attempt, late,
                   teardown, tuns, native>>

ConnectTunnelReturns(t) ==
    /\ at[t] = "connected"
    /\ pending' = TRUE
    /\ Goto(t, "complete")
    /\ UNCHANGED <<connectGeneration, starts, generation, attempt, late,
                   teardown, tuns, native, snap>>

(* A session someone else completed already rejects the response, too. *)
CompleteHandshake(t) ==
    /\ at[t] = "complete"
    /\ pending /\ session = "hello"
    /\ session' = "ready"
    /\ Goto(t, "completed")
    /\ UNCHANGED <<connectGeneration, starts, generation, attempt, late,
                   teardown, tuns, pumpFd, pending, snap>>

CompleteHandshakeFails(t) ==
    /\ at[t] = "complete"
    /\ \/ ~pending /\ Goto(t, "failed") /\ UNCHANGED native
       \/ /\ pending
          /\ \/ session = "none" /\ UNCHANGED native
             \/ session # "none" /\ NativeDisconnect
          /\ Goto(t, "rejected")
    /\ UNCHANGED <<connectGeneration, starts, generation, attempt, late,
                   teardown, tuns, pending, snap>>

CompleteHandshakeFailsReturns(t) ==
    /\ at[t] = "rejected"
    /\ pending' = FALSE
    /\ snap' = [snap EXCEPT !.phase = "FAILED", !.handshakeCompleted = FALSE]
    /\ Goto(t, "failed")
    /\ UNCHANGED <<connectGeneration, starts, generation, attempt, late,
                   teardown, tuns, native>>

CompleteHandshakeReturns(t) ==
    /\ at[t] = "completed"
    /\ pending' = FALSE
    /\ snap' = [snap EXCEPT !.phase = "PROBING_DATA",
                            !.handshakeCompleted = TRUE]
    /\ Goto(t, "probe")
    /\ UNCHANGED <<connectGeneration, starts, generation, attempt, late,
                   teardown, tuns, native>>

RunDataPlaneProbe(t) ==
    /\ at[t] = "probe"
    /\ \/ session = "ready" /\ Goto(t, "probed") /\ UNCHANGED snap
       \/ /\ snap' = [snap EXCEPT !.phase = "FAILED"]
          /\ Goto(t, "failed")
    /\ UNCHANGED <<connectGeneration, starts, generation, attempt, late,
                   teardown, tuns, native, pending>>

RunDataPlaneProbeReturns(t) ==
    /\ at[t] = "probed"
    /\ snap' = [snap EXCEPT !.phase = "CONNECTED"]
    /\ Goto(t, "recheck")
    /\ UNCHANGED <<connectGeneration, starts, generation, attempt, late,
                   teardown, tuns, native, pending>>

Recheck(t) ==
    /\ at[t] = "recheck"
    /\ Goto(t, IF Superseded(t) THEN "done" ELSE "pump")
    /\ UNCHANGED <<connectGeneration, starts, generation, attempt, late,
                   teardown, tuns, native, pending, snap>>

(* Refused without a completed session, or while a pump is running or on   *)
(* its way out.                                                            *)
StartPump(t) ==
    /\ at[t] = "pump"
    /\ \/ /\ session = "ready" /\ pumpFd = NoTun
          /\ pumpFd' = t
          /\ Goto(t, "pumped")
          /\ UNCHANGED snap
       \/ /\ snap' = [snap EXCEPT !.pumpRunning = FALSE]
          /\ Goto(t, "done")
          /\ UNCHANGED pumpFd
    /\ UNCHANGED <<connectGeneration, starts, generation, attempt, late,
                   teardown, tuns, session, pending>>

StartPumpReturns(t) ==
    /\ at[t] = "pumped"
    /\ snap' = [snap EXCEPT !.pumpRunning = TRUE]
    /\ Goto(t, "done")
    /\ UNCHANGED <<connectGeneration, starts, generation, attempt, late,
                   teardown, tuns, native, pending>>

(* Mutation: one retry too many. *)
ExhaustedLate(t) == attempt[t] > MaxAttempts

(* Mutation: a failed attempt is not counted. *)
CountAttemptForgets(n) == n

(* nextDelayMs: attempt++ *)
CountAttempt(n) == n + 1

(* nextDelayMs() == null *)
Exhausted(t) == attempt[t] >= MaxAttempts

AttemptFailed(t) ==
    /\ at[t] = "failed"
    /\ \/ Superseded(t) /\ Goto(t, "done") /\ UNCHANGED <<attempt, snap>>
       \/ /\ ~Superseded(t) /\ Exhausted(t)
          /\ snap' = [snap EXCEPT !.phase = "FAILED",
                                  !.handshakeCompleted = FALSE]
          /\ Goto(t, "done") /\ UNCHANGED attempt
       \/ /\ ~Superseded(t) /\ ~Exhausted(t)
          /\ attempt' = [attempt EXCEPT ![t] = CountAttempt(@)]
          /\ Goto(t, "sleep") /\ UNCHANGED snap
    /\ UNCHANGED <<connectGeneration, starts, generation, late, teardown, tuns,
                   native, pending>>

(* sleepUnlessStopped and the check after it. *)
Sleep(t) ==
    /\ at[t] = "sleep"
    /\ Goto(t, IF Superseded(t) THEN "done" ELSE "retry")
    /\ UNCHANGED <<connectGeneration, starts, generation, attempt, late,
                   teardown, tuns, native, pending, snap>>

BeginRetry(t) ==
    /\ at[t] = "retry"
    /\ pending' = FALSE
    /\ snap' = [snap EXCEPT !.phase = "PREPARING", !.pumpRunning = FALSE,
                            !.handshakeCompleted = FALSE]
    /\ Goto(t, "loop")
    /\ UNCHANGED <<connectGeneration, starts, generation, attempt, late,
                   teardown, tuns, native>>

ConnectStep(t) ==
    \/ SetupRefused(t) \/ EstablishTun(t) \/ Loop(t) \/ LaneFails(t)
    \/ LaneFailsReturns(t) \/ DropNative(t) \/ ProbeControlPlane(t)
    \/ ConnectTunnel(t) \/ ConnectTunnelFails(t)
    \/ ConnectTunnelFailsReturns(t) \/ ConnectTunnelReturns(t)
    \/ CompleteHandshake(t) \/ CompleteHandshakeFails(t)
    \/ CompleteHandshakeFailsReturns(t) \/ CompleteHandshakeReturns(t)
    \/ RunDataPlaneProbe(t) \/ RunDataPlaneProbeReturns(t) \/ Recheck(t)
    \/ StartPump(t) \/ StartPumpReturns(t) \/ AttemptFailed(t) \/ Sleep(t)
    \/ BeginRetry(t)

-----------------------------------------------------------------------------
(* Teardowns: STOP (and onDestroy), onRevoke, and the UI's own disconnect, *)
(* which bumps no generation and closes no TUN.                            *)

SGoto(s, l) == sat' = [sat EXCEPT ![s] = l]

OnStop ==
    LET s == stops + 1
    IN  /\ stops < MaxStops
        /\ stops' = s
        /\ \E k \in {"stop", "revoke", "ui"} :
              /\ kind' = [kind EXCEPT ![s] = k]
              /\ connectGeneration' =
                    connectGeneration + IF k = "ui" THEN 0 ELSE 1
        /\ SGoto(s, "native")
        /\ UNCHANGED <<threads, tuns, native, pending, snap>>

DisconnectNative(s) ==
    /\ sat[s] = "native"
    /\ NativeDisconnect
    /\ SGoto(s, "mutate")
    /\ UNCHANGED <<connectGeneration, threads, stops, kind, tuns, pending, snap>>

DisconnectReturns(s) ==
    /\ sat[s] = "mutate"
    /\ pending' = FALSE
    /\ snap' = [snap EXCEPT !.pumpRunning = FALSE]
    /\ SGoto(s, IF kind[s] = "ui" THEN "done" ELSE "close")
    /\ UNCHANGED <<connectGeneration, threads, stops, kind, tuns, native>>

CloseTun(s) ==
    /\ sat[s] = "close"
    /\ openTuns' = openTuns \ {tunInterface} /\ tunInterface' = NoTun
    /\ SGoto(s, IF kind[s] = "revoke" THEN "revoke" ELSE "done")
    /\ UNCHANGED <<connectGeneration, threads, stops, kind, native, pending, snap>>

Revoke(s) ==
    /\ sat[s] = "revoke"
    /\ snap' = [phase |-> "DISCONNECTED", tunEstablished |-> FALSE,
                handshakeCompleted |-> FALSE, pumpRunning |-> FALSE]
    /\ SGoto(s, "done")
    /\ UNCHANGED <<connectGeneration, threads, stops, kind, tuns, native, pending>>

StopStep(s) ==
    DisconnectNative(s) \/ DisconnectReturns(s) \/ CloseTun(s) \/ Revoke(s)

(* The pump ends by itself; nobody is told. *)
PumpDies ==
    /\ pumpFd # NoTun
    /\ pumpFd' = NoTun
    /\ UNCHANGED <<connectGeneration, threads, teardown, tuns, session, pending,
                   snap>>

(* Nothing is in flight any more. *)
Quiet == /\ \A t \in Starts : at[t] \in {"none", "done"}
         /\ \A s \in Stops : sat[s] \in {"none", "done"}

(* The service waits for a command that may never come. *)
Idle == Quiet /\ UNCHANGED vars

Next ==
    \/ Idle \/ OnStart \/ OnStop \/ PumpDies
    \/ \E t \in Starts : ConnectStep(t)
    \/ \E s \in Stops : StopStep(s)

Spec == Init /\ [][Next]_vars

(* Threads are scheduled, and every native call they make returns. *)
FairSpec ==
    /\ Spec
    /\ \A t \in Starts : WF_vars(ConnectStep(t))
    /\ \A s \in Stops : WF_vars(StopStep(s))

-----------------------------------------------------------------------------
Phases == {"IDLE", "PREPARING", "CONNECTING_CONTROL", "PROBING_DATA",
           "CONNECTED", "DISCONNECTED", "FAILED"}

TypeOK ==
    /\ connectGeneration \in 0..(MaxStarts + MaxStops)
    /\ starts \in 0..MaxStarts /\ stops \in 0..MaxStops
    /\ generation \in [Starts -> 0..(MaxStarts + MaxStops)]
    /\ at \in [Starts -> {"none", "setup", "loop", "control", "lane_failed",
                          "lane_dropped", "connect", "tunnel_failed",
                          "tunnel_dropped", "connected", "complete",
                          "rejected", "completed", "probe", "probed",
                          "recheck", "pump", "pumped", "failed", "sleep",
                          "retry", "done"}]
    /\ attempt \in [Starts -> 0..MaxAttempts] /\ late \in [Starts -> Nat]
    /\ kind \in [Stops -> {"stop", "revoke", "ui"}]
    /\ sat \in [Stops -> {"none", "native", "mutate", "close", "revoke", "done"}]
    /\ tunInterface \in Starts \cup {NoTun} /\ openTuns \subseteq Starts
    /\ session \in {"none", "hello", "ready"} /\ pumpFd \in Starts \cup {NoTun}
    /\ pending \in BOOLEAN
    /\ snap \in [phase : Phases, tunEstablished : BOOLEAN,
                 handshakeCompleted : BOOLEAN, pumpRunning : BOOLEAN]

(* LateAttemptsBounded: a loop that was stopped or replaced begins at most *)
(* one more attempt, the one it had passed its last check for              *)
(* ("disconnect (or revocation) cancels retries").                         *)
LateAttemptsBounded == \A t \in Starts : late[t] <= 1

(* StopSilencesPump: when a stop or a revocation came after the last       *)
(* start, then once everything has settled no pump is left running: the    *)
(* generation is bumped before the native teardown and read again just     *)
(* before the pump is started.                                             *)
StopSilencesPump ==
    Quiet /\ starts > 0 /\ generation[starts] # connectGeneration
        => pumpFd = NoTun

(* NoSessionBehindTun: "Never leaves a live session behind the TUN": once  *)
(* everything has settled without a TUN, no session is left.               *)
NoSessionBehindTun == Quiet /\ tunInterface = NoTun => session = "none"

(* LoopsEnd: every connect loop ends: connected, given up after its retry  *)
(* budget, or superseded.                                                  *)
LoopsEnd == \A t \in Starts : at[t] = "setup" ~> at[t] = "done"
=============================================================================
