----------------------- MODULE ShadeVpnServiceProofs -----------------------
(***************************************************************************)
(* Proofs about ShadeVpnService, for any number of starts, stops and       *)
(* retries.  The generation counter is all that tells a loop it has been   *)
(* superseded; the proofs rest on what it counts (GenerationInv) and on    *)
(* being superseded lasting for ever.                                      *)
(***************************************************************************)
EXTENDS ShadeVpnService, TLAPS

(* The counter moves once per start and at most once per teardown, no loop *)
(* is ahead of it, and a thread exists from its START on.                  *)
GenerationInv ==
    /\ connectGeneration <= starts + stops
    /\ \A t \in Starts : generation[t] <= connectGeneration
    /\ \A t \in Starts : t > starts => at[t] = "none"

(* Where a loop may be once it has begun an attempt after it was           *)
(* superseded: on the way through that attempt, not back at its start.     *)
LastAttempt == {"control", "lane_failed", "lane_dropped", "connect", "tunnel_failed",
                "tunnel_dropped", "connected", "complete", "rejected", "completed", "probe",
                "probed", "recheck", "pump", "pumped", "failed", "done"}

LateInv == \A t \in Starts :
    \/ late[t] = 0
    \/ late[t] = 1 /\ generation[t] < connectGeneration /\ at[t] \in LastAttempt

Inv == TypeOK /\ GenerationInv /\ LateInv

LEMMA InvInit == Init => Inv
<1> SUFFICES ASSUME Init PROVE Inv
  OBVIOUS
<1> USE ServiceAssumption DEF ServiceAssumption, Init, NoTun
<1>1. snap \in [phase : Phases, tunEstablished : BOOLEAN,
                handshakeCompleted : BOOLEAN, pumpRunning : BOOLEAN]
  BY DEF Phases
<1>2. 0 \in 0..(MaxStarts + MaxStops) /\ 0 \in 0..MaxStarts /\ 0 \in 0..MaxStops
      /\ 0 \in 0..MaxAttempts /\ 0 \in Nat
  OBVIOUS
<1>3. TypeOK
  BY <1>1, <1>2 DEF TypeOK
<1>5. GenerationInv
  BY DEF GenerationInv
<1>4. LateInv
  BY DEF LateInv
<1> QED BY <1>3, <1>4, <1>5 DEF Inv

-----------------------------------------------------------------------------
(* What a connect step changes of the threads is its own, and nothing of   *)
(* the commands.                                                           *)
LEMMA ConnectStepKeeps ==
    ASSUME TypeOK, NEW t \in Starts, ConnectStep(t)
    PROVE  /\ UNCHANGED <<connectGeneration, starts, generation, stops, kind, sat>>
           /\ \A u \in Starts : u # t => at'[u] = at[u] /\ late'[u] = late[u]
BY DEF ConnectStep, TypeOK, SetupRefused, EstablishTun, Loop, LaneFails, LaneFailsReturns,
   DropNative, ProbeControlPlane, ConnectTunnel, ConnectTunnelFails, ConnectTunnelFailsReturns,
   ConnectTunnelReturns, CompleteHandshake, CompleteHandshakeFails,
   CompleteHandshakeFailsReturns, CompleteHandshakeReturns, RunDataPlaneProbe,
   RunDataPlaneProbeReturns, Recheck, StartPump, StartPumpReturns, AttemptFailed, Sleep,
   BeginRetry, Goto, teardown

LEMMA ConnectStepType ==
    ASSUME TypeOK, NEW t \in Starts, ConnectStep(t)
    PROVE  TypeOK'
<1> USE ServiceAssumption DEF ServiceAssumption, TypeOK, Goto, NoTun, NativeDisconnect,
        threads, teardown, tuns, native, Phases
<1>1. ASSUME SetupRefused(t) \/ EstablishTun(t) PROVE TypeOK'
  BY <1>1, ZenonT(60) DEF SetupRefused, EstablishTun
<1>2. ASSUME LaneFails(t) \/ LaneFailsReturns(t) \/ DropNative(t) \/ ProbeControlPlane(t)
      PROVE  TypeOK'
  BY <1>2, ZenonT(60) DEF LaneFails, LaneFailsReturns, DropNative, ProbeControlPlane
<1>9. ASSUME Loop(t) PROVE TypeOK'
  <2>1. late' \in [Starts -> Nat]
    BY <1>9 DEF Loop
  <2> QED BY <1>9, <2>1 DEF Loop
<1>3. ASSUME ConnectTunnel(t) \/ ConnectTunnelFails(t) \/ ConnectTunnelFailsReturns(t)
             \/ ConnectTunnelReturns(t)
      PROVE  TypeOK'
  BY <1>3, ZenonT(60) DEF ConnectTunnel, ConnectTunnelFails, ConnectTunnelFailsReturns,
     ConnectTunnelReturns
<1>4. ASSUME CompleteHandshake(t) \/ CompleteHandshakeFails(t)
             \/ CompleteHandshakeFailsReturns(t) \/ CompleteHandshakeReturns(t)
      PROVE  TypeOK'
  BY <1>4, ZenonT(60) DEF CompleteHandshake, CompleteHandshakeFails,
     CompleteHandshakeFailsReturns, CompleteHandshakeReturns
<1>5. ASSUME RunDataPlaneProbe(t) \/ RunDataPlaneProbeReturns(t) \/ Recheck(t) PROVE TypeOK'
  BY <1>5 DEF RunDataPlaneProbe, RunDataPlaneProbeReturns, Recheck
<1>6. ASSUME StartPump(t) \/ StartPumpReturns(t) PROVE TypeOK'
  BY <1>6, ZenonT(60) DEF StartPump, StartPumpReturns
<1>7. ASSUME AttemptFailed(t) PROVE TypeOK'
  <2>1. attempt' \in [Starts -> 0..MaxAttempts]
    BY <1>7 DEF AttemptFailed, Exhausted, CountAttempt
  <2>2. at' \in [Starts -> {"none", "setup", "loop", "control", "lane_failed",
                            "lane_dropped", "connect", "tunnel_failed",
                            "tunnel_dropped", "connected", "complete",
                            "rejected", "completed", "probe", "probed",
                            "recheck", "pump", "pumped", "failed", "sleep",
                            "retry", "done"}]
    BY <1>7 DEF AttemptFailed
  <2>3. snap' \in [phase : Phases, tunEstablished : BOOLEAN,
                   handshakeCompleted : BOOLEAN, pumpRunning : BOOLEAN]
    BY <1>7 DEF AttemptFailed
  <2> QED BY <1>7, <2>1, <2>2, <2>3 DEF AttemptFailed
<1>8. ASSUME Sleep(t) \/ BeginRetry(t) PROVE TypeOK'
  BY <1>8, ZenonT(60) DEF Sleep, BeginRetry
<1> QED BY <1>1, <1>2, <1>3, <1>4, <1>5, <1>6, <1>7, <1>8, <1>9 DEF ConnectStep

(* A superseded loop that has begun its last attempt only goes forward.    *)
LEMMA ConnectStepLate ==
    ASSUME Inv, NEW t \in Starts, ConnectStep(t)
    PROVE  LateInv'
<1> USE DEF Inv
<1>1. TypeOK'
  BY ConnectStepType
<1>2. \/ late'[t] = 0
      \/ late'[t] = 1 /\ generation[t] < connectGeneration /\ at'[t] \in LastAttempt
  <2> USE DEF TypeOK, LateInv, GenerationInv, LastAttempt, Goto
  <2>1. CASE Loop(t)
    BY <2>1 DEF Loop
  <2>2. CASE AttemptFailed(t) \/ Sleep(t) \/ BeginRetry(t) \/ Recheck(t)
    BY <2>2 DEF AttemptFailed, Sleep, BeginRetry, Superseded, Recheck
  <2>3. CASE SetupRefused(t) \/ EstablishTun(t) \/ LaneFails(t) \/ LaneFailsReturns(t)
             \/ DropNative(t) \/ ProbeControlPlane(t)
             \/ ConnectTunnel(t) \/ ConnectTunnelFails(t) \/ ConnectTunnelFailsReturns(t)
             \/ ConnectTunnelReturns(t) \/ CompleteHandshake(t)
             \/ CompleteHandshakeFails(t) \/ CompleteHandshakeFailsReturns(t)
             \/ CompleteHandshakeReturns(t) \/ RunDataPlaneProbe(t)
             \/ RunDataPlaneProbeReturns(t) \/ StartPump(t) \/ StartPumpReturns(t)
    BY <2>3 DEF SetupRefused, EstablishTun, LaneFails, LaneFailsReturns, DropNative,
       ProbeControlPlane, ConnectTunnel, ConnectTunnelFails, ConnectTunnelFailsReturns,
       ConnectTunnelReturns, CompleteHandshake, CompleteHandshakeFails,
       CompleteHandshakeFailsReturns, CompleteHandshakeReturns, RunDataPlaneProbe,
       RunDataPlaneProbeReturns, StartPump, StartPumpReturns
  <2> QED BY <2>1, <2>2, <2>3 DEF ConnectStep
<1> QED BY <1>2, ConnectStepKeeps DEF LateInv

LEMMA InvNext == Inv /\ [Next]_vars => Inv'
<1> SUFFICES ASSUME Inv, [Next]_vars PROVE Inv'
  OBVIOUS
<1> USE ServiceAssumption DEF ServiceAssumption, Inv
<1>1. ASSUME OnStart PROVE Inv'
  <2>1. starts + 1 \in Starts /\ starts' = starts + 1
    BY <1>1 DEF OnStart, TypeOK, Starts
  <2>2. TypeOK'
    BY <1>1, <2>1 DEF OnStart, TypeOK, GenerationInv, Goto, teardown, tuns, native
  <2>3. GenerationInv'
    <3>1. connectGeneration' = connectGeneration + 1 /\ stops' = stops
      BY <1>1 DEF OnStart, teardown
    <3>2. \A t \in Starts : /\ t # starts + 1 => generation'[t] = generation[t] /\ at'[t] = at[t]
                            /\ t = starts + 1 => generation'[t] = connectGeneration + 1
      BY <1>1, <2>1 DEF OnStart, TypeOK, Goto
    <3>3. \A t \in Starts : t \in Nat /\ generation[t] \in Nat
      BY DEF TypeOK, Starts
    <3> QED BY <2>1, <3>1, <3>2, <3>3 DEF TypeOK, GenerationInv
  <2>4. LateInv'
    <3>1. late[starts + 1] = 0
      BY <2>1 DEF TypeOK, GenerationInv, LateInv, LastAttempt
    <3>2. \A t \in Starts : t # starts + 1 => generation'[t] = generation[t] /\ at'[t] = at[t]
      BY <1>1, <2>1 DEF OnStart, TypeOK, Goto
    <3>3. connectGeneration' = connectGeneration + 1 /\ late' = late
      BY <1>1 DEF OnStart
    <3>4. \A t \in Starts : generation[t] \in Nat /\ connectGeneration \in Nat
      BY DEF TypeOK
    <3> QED BY <3>1, <3>2, <3>3, <3>4 DEF LateInv
  <2> QED BY <2>2, <2>3, <2>4
<1>2. ASSUME OnStop PROVE Inv'
  <2>1. stops + 1 \in Stops /\ stops' = stops + 1 /\ UNCHANGED threads
    BY <1>2 DEF OnStop, TypeOK, Stops
  <2>2. connectGeneration' \in {connectGeneration, connectGeneration + 1}
    BY <1>2 DEF OnStop, TypeOK
  <2>3. TypeOK'
    BY <1>2, <2>1, <2>2 DEF OnStop, TypeOK, GenerationInv, SGoto, threads, tuns, native
  <2>4. GenerationInv' /\ LateInv'
    BY <2>1, <2>2 DEF TypeOK, GenerationInv, LateInv, threads
  <2> QED BY <2>3, <2>4
<1>3. ASSUME NEW t \in Starts, ConnectStep(t) PROVE Inv'
  <2>1. at[t] # "none"
    BY <1>3 DEF ConnectStep, SetupRefused, EstablishTun, Loop, LaneFails, LaneFailsReturns,
       DropNative, ProbeControlPlane, ConnectTunnel, ConnectTunnelFails,
       ConnectTunnelFailsReturns, ConnectTunnelReturns, CompleteHandshake,
       CompleteHandshakeFails, CompleteHandshakeFailsReturns, CompleteHandshakeReturns,
       RunDataPlaneProbe, RunDataPlaneProbeReturns, Recheck, StartPump, StartPumpReturns,
       AttemptFailed, Sleep, BeginRetry
  <2>2. GenerationInv'
    BY <1>3, <2>1, ConnectStepKeeps DEF GenerationInv
  <2> QED BY <1>3, <2>2, ConnectStepType, ConnectStepLate
<1>4. ASSUME NEW s \in Stops, StopStep(s) PROVE Inv'
  <2>1. UNCHANGED <<connectGeneration, threads, stops, kind>>
    BY <1>4 DEF StopStep, DisconnectNative, DisconnectReturns, CloseTun, Revoke
  <2>2. sat' \in [Stops -> {"none", "native", "mutate", "close", "revoke", "done"}]
    BY <1>4 DEF StopStep, DisconnectNative, DisconnectReturns, CloseTun, Revoke, SGoto, TypeOK
  <2>3. snap' \in [phase : Phases, tunEstablished : BOOLEAN,
                   handshakeCompleted : BOOLEAN, pumpRunning : BOOLEAN]
    <3>1. CASE Revoke(s)
      BY <3>1 DEF Revoke, Phases
    <3>2. CASE ~Revoke(s)
      BY <1>4, <3>2 DEF StopStep, DisconnectNative, DisconnectReturns, CloseTun, TypeOK
    <3> QED BY <3>1, <3>2
  <2>4. TypeOK'
    BY <1>4, <2>1, <2>2, <2>3 DEF StopStep, DisconnectNative, DisconnectReturns, CloseTun,
       Revoke, TypeOK, NativeDisconnect, NoTun, threads, tuns, native
  <2>5. GenerationInv' /\ LateInv'
    BY <2>1 DEF GenerationInv, LateInv, threads
  <2> QED BY <2>4, <2>5
<1>5. ASSUME PumpDies \/ UNCHANGED vars PROVE Inv'
  BY <1>5 DEF PumpDies, vars, threads, teardown, tuns, native, NoTun, TypeOK, GenerationInv,
     LateInv
<1> QED BY <1>1, <1>2, <1>3, <1>4, <1>5 DEF Next, Idle

-----------------------------------------------------------------------------
(* TypeCorrect: for any number of commands the generation never exceeds    *)
(* the number of commands given, and no loop counts more retries than      *)
(* BackoffPolicy allows it.                                                *)
THEOREM TypeCorrect == Spec => []TypeOK
<1>1. Inv => TypeOK
  BY DEF Inv
<1> QED BY <1>1, InvInit, InvNext, PTL DEF Spec

(* LateCorrect: however many starts and stops overlap, a loop that was     *)
(* stopped or replaced begins at most one more attempt.                    *)
THEOREM LateCorrect == Spec => []LateAttemptsBounded
<1>1. Inv => LateAttemptsBounded
  BY DEF Inv, LateInv, LateAttemptsBounded
<1> QED BY <1>1, InvInit, InvNext, PTL DEF Spec
-----------------------------------------------------------------------------
(* The pump after a stop.  Once the only start is superseded, a teardown   *)
(* is still to come, or the pump is off and cannot be started: the thread  *)
(* that would start it finds no completed session.                         *)
SilentInv ==
    starts > 0 /\ generation[starts] # connectGeneration =>
        \/ \E s \in Stops : sat[s] = "native"
        \/ pumpFd = NoTun /\ (at[starts] = "pump" => session # "ready")

LEMMA SilentNext ==
    ASSUME MaxStarts = 1, Inv, SilentInv, [Next]_vars
    PROVE  SilentInv'
<1> USE ServiceAssumption DEF ServiceAssumption, Inv
<1>0. starts \in {0, 1} /\ Starts = {1} /\ starts' \in {0, 1}
  <2>1. TypeOK'
    BY InvNext
  <2> QED BY <2>1 DEF TypeOK, Starts
<1>1. ASSUME OnStart PROVE SilentInv'
  <2>1. starts' = 1 /\ generation'[1] = connectGeneration'
    BY <1>0, <1>1 DEF OnStart, TypeOK
  <2> QED BY <2>1 DEF SilentInv
<1>2. ASSUME OnStop PROVE SilentInv'
  <2>1. stops + 1 \in Stops
    BY <1>2 DEF OnStop, TypeOK, Stops
  <2>2. sat'[stops + 1] = "native"
    BY <1>2, <2>1 DEF OnStop, TypeOK, SGoto
  <2> QED BY <2>1, <2>2 DEF SilentInv
<1>3. ASSUME NEW t \in Starts, ConnectStep(t) PROVE SilentInv'
  <2>1. t = 1 /\ UNCHANGED <<starts, generation, connectGeneration, sat>>
    BY <1>0, <1>3, ConnectStepKeeps
  <2>2. SUFFICES ASSUME starts = 1, generation[1] # connectGeneration,
                        pumpFd = NoTun, at[1] = "pump" => session # "ready"
                 PROVE  pumpFd' = NoTun /\ (at'[1] = "pump" => session' # "ready")
    BY <1>0, <2>1 DEF SilentInv
  <2>3. CASE StartPump(1)
    BY <2>2, <2>3, <1>0 DEF StartPump, Goto, TypeOK
  <2>4. CASE Recheck(1)
    BY <2>2, <2>4, <1>0 DEF Recheck, Superseded, Goto, TypeOK, native
  <2>5. CASE ~StartPump(1) /\ ~Recheck(1)
    <3>1. pumpFd' = NoTun
      BY <1>3, <2>1, <2>2, <2>5 DEF ConnectStep, SetupRefused, EstablishTun, Loop, LaneFails,
         LaneFailsReturns, DropNative, ProbeControlPlane, ConnectTunnel, ConnectTunnelFails,
         ConnectTunnelFailsReturns, ConnectTunnelReturns, CompleteHandshake,
         CompleteHandshakeFails, CompleteHandshakeFailsReturns, CompleteHandshakeReturns,
         RunDataPlaneProbe, RunDataPlaneProbeReturns, StartPumpReturns, AttemptFailed, Sleep,
         BeginRetry, NativeDisconnect, native
    <3>2. at'[1] # "pump"
      BY <1>0, <1>3, <2>1, <2>5 DEF ConnectStep, SetupRefused, EstablishTun, Loop, LaneFails,
         LaneFailsReturns, DropNative, ProbeControlPlane, ConnectTunnel, ConnectTunnelFails,
         ConnectTunnelFailsReturns, ConnectTunnelReturns, CompleteHandshake,
         CompleteHandshakeFails, CompleteHandshakeFailsReturns, CompleteHandshakeReturns,
         RunDataPlaneProbe, RunDataPlaneProbeReturns, StartPumpReturns, AttemptFailed, Sleep,
         BeginRetry, Goto, TypeOK
    <3> QED BY <3>1, <3>2
  <2> QED BY <2>3, <2>4, <2>5
<1>4. ASSUME NEW s \in Stops, StopStep(s) PROVE SilentInv'
  <2>1. UNCHANGED <<connectGeneration, threads>>
    BY <1>4 DEF StopStep, DisconnectNative, DisconnectReturns, CloseTun, Revoke
  <2>2. CASE DisconnectNative(s)
    BY <2>2 DEF DisconnectNative, NativeDisconnect, SilentInv
  <2>3. CASE ~DisconnectNative(s)
    <3>1. UNCHANGED native /\ \A x \in Stops : sat[x] = "native" => sat'[x] = "native"
      BY <1>4, <2>3 DEF StopStep, DisconnectReturns, CloseTun, Revoke, SGoto, TypeOK
    <3> QED BY <2>1, <3>1 DEF SilentInv, threads, native
  <2> QED BY <2>2, <2>3
<1>5. ASSUME PumpDies \/ UNCHANGED vars PROVE SilentInv'
  BY <1>5 DEF PumpDies, vars, threads, teardown, tuns, native, SilentInv
<1> QED BY <1>1, <1>2, <1>3, <1>4, <1>5 DEF Next, Idle

(* Overlapping starts are left out on purpose: a second loop can complete  *)
(* the session that the first, past its recheck, then starts a pump on.    *)
SilentAlone == MaxStarts = 1 => SilentInv

(* StopCorrect: with one start, any number of stops, revocations and UI    *)
(* disconnects and any retry budget, once everything has settled after a   *)
(* stop no pump is left running: the generation is bumped before the       *)
(* native teardown and read again just before the pump is started.         *)
THEOREM StopCorrect == Spec => [](MaxStarts = 1 => StopSilencesPump)
<1>1. Init => Inv /\ SilentAlone
  BY InvInit DEF Init, SilentAlone, SilentInv
<1>2. Inv /\ SilentAlone /\ [Next]_vars => Inv' /\ SilentAlone'
  BY InvNext, SilentNext DEF SilentAlone
<1>3. SilentAlone => (MaxStarts = 1 => StopSilencesPump)
  BY DEF SilentAlone, SilentInv, StopSilencesPump, Quiet
<1> QED BY <1>1, <1>2, <1>3, PTL DEF Spec
=============================================================================
