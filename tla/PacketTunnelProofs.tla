--------------------------- MODULE PacketTunnelProofs ---------------------------
(***************************************************************************)
(* Proofs about PacketTunnel, for any number of cores, bridges, read loops *)
(* and packets: the order in which the provider clears the callback, stops *)
(* the core and releases the bridge keeps the callback's context valid,    *)
(* although stunnel_stop itself is not safe against a running batch.       *)
(***************************************************************************)
EXTENDS PacketTunnel, TLAPS

Starting == {"make", "set", "start", "assign"}
Stopping == {"clear", "stop", "forget", "release"}

\* The provider's core is usable and answers through its bridge.
Wired ==
    /\ rustHandle \in live /\ started[rustHandle]
    /\ packetBridgeContext # Nil /\ callback[rustHandle] = packetBridgeContext

\* What the provider has done at each point of start and stop.
Calls ==
    /\ p_pc \in Starting => sys = "starting" /\ ~settings /\ packetBridgeContext # Nil
    /\ p_pc \in Stopping <=> sys = "stopping"
    /\ p_pc \in {"set", "start", "assign"} => p_handle \in live
    /\ p_pc = "set" => callback[p_handle] = Nil
    /\ p_pc = "start" => callback[p_handle] = packetBridgeContext
    /\ p_pc = "assign" => started[p_handle] /\ callback[p_handle] = packetBridgeContext
    /\ sys = "starting" /\ p_pc = "idle" => Wired
    /\ sys \in {"off", "on"} => p_pc = "idle"
    /\ sys = "on" \/ p_pc = "clear" => Wired
    /\ p_pc = "stop" => rustHandle \in live /\ callback[rustHandle] = Nil
    /\ p_pc = "forget" => rustHandle \notin live
    /\ p_pc = "release" => rustHandle = Nil

\* A batch whose context is its own is on the provider's core, while the tunnel is up
\* or stopTunnel has not freed the core yet.
OnCurrentCore(l) ==
    r_handle[l] = rustHandle /\ rustHandle \in live /\ (sys = "on" \/ p_pc \in {"clear", "stop"})

\* A loop is in a batch for a core that is its own and current, or it dangles; inside a
\* core it is in one that is alive.
Loops ==
    \A l \in Loop :
        /\ r_pc[l] = "stale" => l \in dangling
        /\ r_pc[l] = "inside" => r_handle[l] \in live
        /\ r_pc[l] \in {"batch", "inside"} /\ l \notin dangling => OnCurrentCore(l)

\* A batch has at least the packet that is next.
Batches == \A l \in Loop : r_pc[l] \in {"batch", "inside", "stale"} =>
               r_left[l] \in 1 .. MaxBatch /\ r_handle[l] \in Core

Inv == TypeOK /\ BridgeAccounting /\ Calls /\ Loops /\ Batches

\* The initial state satisfies the invariant.
LEMMA InvInit == Init => Inv
<1> SUFFICES ASSUME Init PROVE Inv
  OBVIOUS
<1>1. 0 \in 0 .. MaxBatch
  BY BatchAssumption
<1>2. TypeOK
  <2>1. r_left \in [Loop -> 0 .. MaxBatch]
    BY <1>1 DEF Init
  <2> QED BY <2>1 DEF Init, TypeOK
<1>3. BridgeAccounting
  BY DEF Init, BridgeAccounting
<1>4. Calls /\ Loops /\ Batches
  BY DEF Init, Calls, Loops, OnCurrentCore, Batches, Starting, Stopping
<1> QED BY <1>2, <1>3, <1>4 DEF Inv

\* Types of the loop state after a packet.
LEMMA PacketDoneFacts ==
    ASSUME TypeOK, Batches, NEW l \in Loop, r_pc[l] \in {"batch", "inside", "stale"}, PacketDone(l)
    PROVE  /\ r_pc' \in [Loop -> {"none", "armed", "batch", "inside", "stale"}]
           /\ r_handle' \in [Loop -> Core \cup {Nil}]
           /\ r_left' \in [Loop -> 0 .. MaxBatch]
           /\ dangling' \subseteq Loop
           /\ \A k \in Loop : k # l => /\ r_pc'[k] = r_pc[k] /\ r_handle'[k] = r_handle[k]
                                       /\ r_left'[k] = r_left[k]
                                       /\ k \in dangling' <=> k \in dangling
           /\ \/ r_pc'[l] = "armed"
              \/ /\ r_pc'[l] = "batch" /\ r_handle'[l] = r_handle[l]
                 /\ r_left'[l] \in 1 .. MaxBatch
                 /\ l \in dangling' <=> l \in dangling
<1>1. r_left[l] \in 1 .. MaxBatch /\ r_left[l] - 1 \in 0 .. MaxBatch
  BY BatchAssumption DEF Batches
<1>2. r_left[l] > 1 => r_left[l] - 1 \in 1 .. MaxBatch
  BY <1>1, BatchAssumption
<1> QED
  BY <1>1, <1>2, BatchAssumption DEF PacketDone, TypeOK

\* Every step of the provider preserves the invariant.
LEMMA InvProvider == Inv /\ Provider => Inv'
<1> SUFFICES ASSUME Inv, Provider PROVE Inv'
  OBVIOUS
<1> USE NilAssumption DEF Inv
<1>1. CASE StartTunnel
  <2>1. TypeOK' /\ BridgeAccounting'
    BY <1>1 DEF StartTunnel, TypeOK, BridgeAccounting, coreVars, loopVars
  <2>2. Calls'
    BY <1>1 DEF StartTunnel, Calls, Wired, Starting, Stopping, coreVars
  <2>3. Loops' /\ Batches'
    BY <1>1 DEF StartTunnel, Calls, Loops, OnCurrentCore, Batches, coreVars, loopVars
  <2> QED BY <2>1, <2>2, <2>3
<1>2. CASE MakeRuntimeFails
  <2>1. TypeOK' /\ BridgeAccounting'
    BY <1>2 DEF MakeRuntimeFails, ReleasePacketBridge, TypeOK, BridgeAccounting, coreVars, loopVars
  <2>2. Calls' /\ Loops' /\ Batches'
    BY <1>2 DEF MakeRuntimeFails, Calls, Loops, OnCurrentCore, Batches, Wired, Starting, Stopping, coreVars, loopVars
  <2> QED BY <2>1, <2>2
<1>3. CASE CreateCore
  <2>1. TypeOK' /\ BridgeAccounting'
    BY <1>3 DEF CreateCore, TypeOK, BridgeAccounting, providerVars, loopVars
  <2>2. Calls'
    <3>1. PICK c \in Core \ live : /\ live' = live \cup {c} /\ p_handle' = c
                                   /\ callback' = [callback EXCEPT ![c] = Nil]
      BY <1>3 DEF CreateCore
    <3>2. callback'[c] = Nil
      BY <3>1 DEF TypeOK
    <3> QED
      BY <1>3, <3>1, <3>2 DEF CreateCore, Calls, Wired, Starting, Stopping, providerVars
  <2>3. Loops' /\ Batches'
    BY <1>3 DEF CreateCore, Calls, Loops, OnCurrentCore, Batches, Starting, providerVars, loopVars
  <2> QED BY <2>1, <2>2, <2>3
<1>4. CASE SetPacketCallback
  <2>1. TypeOK' /\ BridgeAccounting'
    BY <1>4 DEF SetPacketCallback, TypeOK, BridgeAccounting, providerVars, loopVars
  <2>2. Calls'
    BY <1>4 DEF SetPacketCallback, Calls, Wired, Starting, Stopping, providerVars, TypeOK
  <2>3. Loops' /\ Batches'
    BY <1>4 DEF SetPacketCallback, Calls, Loops, OnCurrentCore, Batches, Starting, providerVars, loopVars
  <2> QED BY <2>1, <2>2, <2>3
<1>5. CASE StartCore
  <2>0. callback[p_handle] # Nil
    BY <1>5 DEF StartCore, Calls, Starting
  <2>1. /\ started' = [started EXCEPT ![p_handle] = TRUE] /\ p_pc = "start" /\ p_pc' = "assign"
        /\ UNCHANGED <<live, packetBridgeContext, retained, sys, callback, lock, rustHandle,
                       p_handle, settings, r_pc, r_handle, r_left, dangling>>
    BY <1>5, <2>0 DEF StartCore, loopVars
  <2>2. TypeOK' /\ BridgeAccounting'
    BY <2>1 DEF TypeOK, BridgeAccounting
  <2>3. p_handle \in Core /\ started'[p_handle]
    BY <2>1 DEF Calls, TypeOK
  <2>4. Calls'
    BY <2>1, <2>3 DEF Calls, Wired, Starting, Stopping, TypeOK
  <2>5. Loops' /\ Batches'
    BY <2>1 DEF Calls, Loops, OnCurrentCore, Batches, Starting
  <2> QED BY <2>2, <2>4, <2>5
<1>6. CASE AssignHandle
  <2>1. TypeOK' /\ BridgeAccounting'
    BY <1>6 DEF AssignHandle, TypeOK, BridgeAccounting, coreVars, loopVars
  <2>2. Calls'
    BY <1>6 DEF AssignHandle, Calls, Wired, Starting, Stopping, coreVars
  <2>3. Loops' /\ Batches'
    BY <1>6 DEF AssignHandle, Calls, Loops, OnCurrentCore, Batches, Starting, coreVars, loopVars
  <2> QED BY <2>1, <2>2, <2>3
<1>7. CASE SettingsFail
  <2>1. TypeOK' /\ BridgeAccounting'
    BY <1>7 DEF SettingsFail, TypeOK, BridgeAccounting, coreVars, providerVars, loopVars
  <2>2. Calls' /\ Loops' /\ Batches'
    BY <1>7 DEF SettingsFail, Calls, Loops, OnCurrentCore, Batches, Wired, Starting, Stopping, TypeOK,
                coreVars, providerVars, loopVars
  <2> QED BY <2>1, <2>2
<1>8. ASSUME NEW l \in Loop, SettingsApplied(l) PROVE Inv'
  <2>1. TypeOK' /\ BridgeAccounting'
    BY <1>8 DEF SettingsApplied, TypeOK, BridgeAccounting, coreVars, providerVars
  <2>2. Calls'
    BY <1>8 DEF SettingsApplied, Calls, Wired, Starting, Stopping, TypeOK, coreVars, providerVars
  <2>3. Loops' /\ Batches'
    BY <1>8 DEF SettingsApplied, Calls, Loops, OnCurrentCore, Batches, Starting, Stopping, TypeOK,
                coreVars, providerVars
  <2> QED BY <2>1, <2>2, <2>3
<1>9. CASE StopTunnel
  <2>0. rustHandle # Nil
    BY <1>9 DEF StopTunnel, Calls, Wired, TypeOK
  <2>1. TypeOK' /\ BridgeAccounting'
    BY <1>9 DEF StopTunnel, TypeOK, BridgeAccounting, coreVars, providerVars, loopVars
  <2>2. Calls' /\ Loops' /\ Batches'
    BY <1>9, <2>0 DEF StopTunnel, Calls, Loops, OnCurrentCore, Batches, Wired, Starting, Stopping,
                      coreVars, providerVars, loopVars
  <2> QED BY <2>1, <2>2
<1>10. CASE ClearPacketCallback
  <2>1. TypeOK' /\ BridgeAccounting'
    BY <1>10 DEF ClearPacketCallback, TypeOK, BridgeAccounting, providerVars, loopVars
  <2>2. Calls' /\ Loops' /\ Batches'
    BY <1>10 DEF ClearPacketCallback, Calls, Loops, OnCurrentCore, Batches, Wired, Starting,
                 Stopping, TypeOK, providerVars, loopVars
  <2> QED BY <2>1, <2>2
<1>11. CASE StopCore
  <2>1. TypeOK' /\ BridgeAccounting'
    BY <1>11 DEF StopCore, TypeOK, BridgeAccounting, providerVars
  <2>2. Calls'
    BY <1>11 DEF StopCore, Calls, Wired, Starting, Stopping, providerVars
  <2>3. Loops' /\ Batches'
    BY <1>11 DEF StopCore, Loops, OnCurrentCore, Batches, TypeOK, providerVars
  <2> QED BY <2>1, <2>2, <2>3
<1>12. CASE ForgetHandle
  <2>1. TypeOK' /\ BridgeAccounting'
    BY <1>12 DEF ForgetHandle, TypeOK, BridgeAccounting, coreVars, loopVars
  <2>2. Calls' /\ Loops' /\ Batches'
    BY <1>12 DEF ForgetHandle, Calls, Loops, OnCurrentCore, Batches, Wired, Starting, Stopping, coreVars, loopVars
  <2> QED BY <2>1, <2>2
<1>13. CASE ReleaseBridge
  <2>1. TypeOK' /\ BridgeAccounting'
    BY <1>13 DEF ReleaseBridge, ReleasePacketBridge, TypeOK, BridgeAccounting, coreVars, loopVars
  <2>2. Calls' /\ Loops' /\ Batches'
    BY <1>13 DEF ReleaseBridge, Calls, Loops, OnCurrentCore, Batches, Wired, Starting, Stopping, coreVars, loopVars
  <2> QED BY <2>1, <2>2
<1> QED
  BY <1>1, <1>2, <1>3, <1>4, <1>5, <1>6, <1>7, <1>8, <1>9, <1>10, <1>11, <1>12, <1>13 DEF Provider

\* Every step of a read loop preserves the invariant, use of a freed core
\* included.
LEMMA InvReadLoop == ASSUME Inv, NEW l \in Loop, ReadLoop(l) PROVE Inv'
<1> USE NilAssumption DEF Inv
<1>0. ASSUME UNCHANGED <<coreVars, providerVars, callVars>> PROVE BridgeAccounting' /\ Calls'
  BY <1>0 DEF BridgeAccounting, Calls, Wired, coreVars, providerVars, callVars
<1>1. CASE ReadFires(l)
  <2>1. CASE rustHandle = Nil
    <3>1. TypeOK'
      BY <1>1, <2>1 DEF ReadFires, TypeOK, coreVars, providerVars, callVars
    <3>2. Loops' /\ Batches'
      BY <1>1, <2>1
      DEF ReadFires, Loops, OnCurrentCore, Batches, TypeOK, coreVars, providerVars, callVars
    <3> QED BY <1>0, <1>1, <3>1, <3>2 DEF ReadFires
  <2>2. CASE rustHandle # Nil
    <3>1. PICK n \in 1 .. MaxBatch :
             /\ r_pc[l] = "armed" /\ sys \in {"on", "stopping"}
             /\ r_pc' = [r_pc EXCEPT ![l] = "batch"]
             /\ r_handle' = [r_handle EXCEPT ![l] = rustHandle]
             /\ r_left' = [r_left EXCEPT ![l] = n]
             /\ dangling' = IF rustHandle \in live THEN dangling ELSE dangling \cup {l}
             /\ UNCHANGED <<coreVars, lock, providerVars, callVars>>
      BY <1>1, <2>2 DEF ReadFires
    <3>2. n \in 0 .. MaxBatch /\ rustHandle \in Core
      BY <2>2, BatchAssumption DEF TypeOK
    <3>3. TypeOK'
      BY <3>1, <3>2 DEF TypeOK, coreVars, providerVars, callVars
    <3>4. rustHandle \in live => sys = "on" \/ p_pc \in {"clear", "stop"}
      BY <2>2, <3>1 DEF Calls, Stopping
    <3>5. Loops'
      BY <3>1, <3>2, <3>4 DEF Loops, OnCurrentCore, TypeOK, coreVars, providerVars, callVars
    <3>6. Batches'
      BY <3>1, <3>2 DEF Batches, TypeOK
    <3> QED BY <1>0, <3>1, <3>3, <3>5, <3>6
  <2> QED BY <2>1, <2>2
<1>2. CASE EnterCore(l)
  <2>1. CASE started[r_handle[l]]
    <3>1. TypeOK'
      BY <1>2, <2>1 DEF EnterCore, TypeOK, coreVars, providerVars, callVars
    <3>4. Loops' /\ Batches'
      BY <1>2, <2>1
      DEF EnterCore, Loops, OnCurrentCore, Batches, TypeOK, coreVars, providerVars, callVars
    <3> QED BY <1>0, <1>2, <3>1, <3>4 DEF EnterCore
  <2>2. CASE ~started[r_handle[l]]
    <3>1. PacketDone(l) /\ UNCHANGED <<coreVars, lock, providerVars, callVars>> /\ r_pc[l] = "batch"
      BY <1>2, <2>2 DEF EnterCore
    <3>2. TypeOK'
      BY <3>1, PacketDoneFacts DEF TypeOK, coreVars, providerVars, callVars
    <3>3. Loops' /\ Batches'
      BY <3>1, PacketDoneFacts DEF Loops, OnCurrentCore, Batches, coreVars, providerVars, callVars
    <3> QED BY <1>0, <3>1, <3>2, <3>3
  <2> QED BY <2>1, <2>2
<1>3. CASE LeaveCore(l)
  <2>1. /\ PacketDone(l) /\ r_pc[l] = "inside" /\ lock' = [lock EXCEPT ![r_handle[l]] = Nil]
        /\ UNCHANGED <<coreVars, providerVars, callVars>>
    BY <1>3 DEF LeaveCore, Unlocked
  <2>2. TypeOK'
    BY <2>1, PacketDoneFacts DEF TypeOK, coreVars, providerVars, callVars
  <2>4. Loops' /\ Batches'
    BY <2>1, PacketDoneFacts DEF Loops, OnCurrentCore, Batches, coreVars, providerVars, callVars
  <2> QED BY <1>0, <2>1, <2>2, <2>4
<1>4. CASE UseFreed(l)
  <2>1. /\ PacketDone(l) /\ r_pc[l] \in {"batch", "stale"}
        /\ r_pc[l] = "batch" => r_handle[l] \notin live
        /\ lock' \in {lock, [lock EXCEPT ![r_handle[l]] = Nil]}
        /\ UNCHANGED <<coreVars, providerVars, callVars>>
    BY <1>4 DEF UseFreed, Unlocked
  <2>2. TypeOK'
    BY <2>1, PacketDoneFacts DEF TypeOK, coreVars, providerVars, callVars
  <2>3. Loops' /\ Batches'
    BY <2>1, PacketDoneFacts DEF Loops, OnCurrentCore, Batches, coreVars, providerVars, callVars
  <2> QED BY <1>0, <2>1, <2>2, <2>3
<1> QED
  BY <1>1, <1>2, <1>3, <1>4 DEF ReadLoop

\* The invariant holds in every reachable state, across restarts of the process.
THEOREM TunnelInvariant == Spec => []Inv
<1>1. Inv /\ ProcessEnds => Inv'
  <2>1. ProcessEnds => Init'
    BY DEF ProcessEnds, Init
  <2>2. (Init => Inv)'
    BY InvInit, PTL
  <2> QED BY <2>1, <2>2
<1>2. Inv /\ UNCHANGED vars => Inv'
  BY DEF vars, coreVars, providerVars, callVars, loopVars, Inv, TypeOK, BridgeAccounting, Calls,
         Loops, OnCurrentCore, Batches, Wired
<1>3. Inv /\ [Next]_vars => Inv'
  BY <1>1, <1>2, InvProvider, InvReadLoop DEF Next
<1> QED
  BY InvInit, <1>3, PTL DEF Spec

\* State is of its type: a batch never counts below zero packets, in particular.
THEOREM TunnelTypes == Spec => []TypeOK
BY TunnelInvariant, PTL DEF Inv

\* Whenever stunnel_process_packet can call packetFlowCallback, the bridge it passes is
\* still retained (stopCoreRuntime: clear, stop, release), also for a batch of an earlier
\* tunnel that is inside the core in use because the allocator reused its address.
THEOREM CallbackContextValid == Spec => []CallbackIntoLiveBridge
<1>1. Inv => CallbackIntoLiveBridge
  <2> SUFFICES ASSUME Inv, NEW l \in Loop, r_pc[l] = "inside", callback[r_handle[l]] # Nil,
                      l \in dangling => r_handle[l] = CoreInUse
               PROVE  callback[r_handle[l]] \in retained
    BY DEF CallbackIntoLiveBridge
  <2> USE NilAssumption DEF Inv
  <2>1. r_handle[l] \in live /\ r_handle[l] \in Core /\ r_handle[l] # Nil
    BY DEF Loops, TypeOK
  <2>2. CASE l \notin dangling
    BY <2>2 DEF Loops, OnCurrentCore, Calls, Wired, BridgeAccounting
  <2>3. CASE l \in dangling
    <3>1. r_handle[l] = CoreInUse /\ sys # "off" /\ p_pc # "make"
      BY <2>1, <2>3 DEF CoreInUse
    <3>2. CASE p_pc \in {"set", "start", "assign"}
      <4>1. callback[p_handle] \in {Nil, packetBridgeContext} /\ packetBridgeContext # Nil
        BY <3>2 DEF Calls, Starting
      <4> QED BY <3>1, <3>2, <4>1 DEF CoreInUse, BridgeAccounting
    <3>3. CASE p_pc \notin {"set", "start", "assign"}
      <4>1. r_handle[l] = rustHandle
        BY <3>1, <3>3 DEF CoreInUse
      <4>2. p_pc \in {"idle", "clear", "stop"}
        BY <2>1, <3>1, <3>3, <4>1 DEF Calls, TypeOK
      <4>3. p_pc \in {"idle", "clear"} => Wired
        BY <3>1 DEF Calls, TypeOK, Stopping
      <4> QED BY <4>1, <4>2, <4>3 DEF Calls, Wired, BridgeAccounting
    <3> QED BY <3>2, <3>3
  <2> QED BY <2>2, <2>3
<1> QED
  BY <1>1, TunnelInvariant, PTL

\* installPacketBridge and releasePacketBridge neither leak a bridge nor release
\* one twice.
THEOREM BridgesBalanced == Spec => []BridgeAccounting
BY TunnelInvariant, PTL DEF Inv

\* makeRuntime and stopCoreRuntime call stunnel_set_packet_callback, stunnel_start,
\* stunnel_clear_packet_callback and stunnel_stop on a core that exists, on every path
\* through start, failed start, late settings callback and stop.
THEOREM ProviderCallsLive == Spec => []ProviderUsesLiveCore
<1>1. Inv => ProviderUsesLiveCore
  BY DEF Inv, Calls, Wired, ProviderUsesLiveCore
<1> QED
  BY <1>1, TunnelInvariant, PTL

\* Every step keeps the mutexes of the cores in use with loops that are inside them.
LEMMA MutexStep == Inv /\ MutexHolderInside /\ [Next]_vars => MutexHolderInside'
<1> SUFFICES ASSUME Inv, MutexHolderInside, [Next]_vars PROVE MutexHolderInside'
  OBVIOUS
<1> USE NilAssumption DEF Inv
<1>1. CASE Provider
  <2>1. CASE CreateCore
    BY <2>1 DEF CreateCore, MutexHolderInside, TypeOK, loopVars
  <2>2. CASE StopCore
    <3>1. /\ live' = live \ {rustHandle} /\ lock' = lock /\ r_handle' = r_handle
          /\ r_pc' = [l \in Loop |-> IF r_pc[l] = "inside" /\ r_handle[l] \notin live'
                                     THEN "stale" ELSE r_pc[l]]
      BY <2>2 DEF StopCore
    <3>2. ASSUME NEW c \in live', lock[c] # Nil
          PROVE  r_pc'[lock[c]] = "inside" /\ r_handle[lock[c]] = c
      BY <3>1, <3>2 DEF MutexHolderInside, TypeOK
    <3> QED BY <3>1, <3>2 DEF MutexHolderInside
  <2>3. ASSUME NEW l \in Loop, SettingsApplied(l) PROVE MutexHolderInside'
    BY <2>3 DEF SettingsApplied, MutexHolderInside, TypeOK, coreVars
  <2>4. ASSUME live' \subseteq live, UNCHANGED <<lock, r_pc, r_handle>> PROVE MutexHolderInside'
    BY <2>4 DEF MutexHolderInside
  <2> QED
    BY <1>1, <2>1, <2>2, <2>3, <2>4
    DEF Provider, StartTunnel, MakeRuntimeFails, SetPacketCallback, StartCore, AssignHandle,
        SettingsFail, StopTunnel, ClearPacketCallback, ForgetHandle, ReleaseBridge, coreVars,
        loopVars
<1>2. ASSUME NEW l \in Loop, ReadLoop(l) PROVE MutexHolderInside'
  <2>0. live' = live
    BY <1>2 DEF ReadLoop, ReadFires, EnterCore, LeaveCore, UseFreed, coreVars
  <2>1. ASSUME r_pc[l] # "inside" \/ r_handle[l] \notin live, lock' = lock,
               \A k \in Loop : k # l => r_pc'[k] = r_pc[k] /\ r_handle'[k] = r_handle[k]
        PROVE  MutexHolderInside'
    BY <2>0, <2>1 DEF MutexHolderInside, TypeOK
  <2>2. CASE ReadFires(l)
    <3>1. /\ r_pc[l] = "armed" /\ lock' = lock
          /\ \A k \in Loop : k # l => r_pc'[k] = r_pc[k] /\ r_handle'[k] = r_handle[k]
      BY <2>2 DEF ReadFires, TypeOK
    <3> QED BY <2>1, <3>1
  <2>3. CASE EnterCore(l)
    <3>1. CASE started[r_handle[l]]
      <4>1. /\ r_handle[l] \in live /\ lock' = [lock EXCEPT ![r_handle[l]] = l]
            /\ r_pc[l] = "batch"
            /\ r_pc' = [r_pc EXCEPT ![l] = "inside"] /\ r_handle' = r_handle
        BY <2>3, <3>1 DEF EnterCore
      <4> QED BY <2>0, <4>1 DEF MutexHolderInside, TypeOK
    <3>2. CASE ~started[r_handle[l]]
      <4>1. PacketDone(l) /\ r_pc[l] = "batch" /\ lock' = lock
        BY <2>3, <3>2 DEF EnterCore
      <4> QED BY <2>1, <4>1, PacketDoneFacts
    <3> QED BY <3>1, <3>2
  <2>4. CASE LeaveCore(l)
    <3>1. /\ PacketDone(l) /\ r_pc[l] = "inside" /\ lock' = [lock EXCEPT ![r_handle[l]] = Nil]
      BY <2>4 DEF LeaveCore, Unlocked
    <3>2. \A k \in Loop : k # l => r_pc'[k] = r_pc[k] /\ r_handle'[k] = r_handle[k]
      BY <3>1, PacketDoneFacts
    <3> QED BY <2>0, <3>1, <3>2 DEF MutexHolderInside, TypeOK
  <2>5. CASE UseFreed(l)
    <3>1. /\ PacketDone(l) /\ r_pc[l] \in {"batch", "stale"}
          /\ lock' \in {lock, [lock EXCEPT ![r_handle[l]] = Nil]}
      BY <2>5 DEF UseFreed, Unlocked
    <3>2. \A c \in Core : lock'[c] # Nil => lock'[c] = lock[c]
      BY <3>1 DEF TypeOK
    <3>3. \A k \in Loop : k # l => r_pc'[k] = r_pc[k] /\ r_handle'[k] = r_handle[k]
      BY <3>1, PacketDoneFacts
    <3> QED BY <2>0, <3>1, <3>2, <3>3 DEF MutexHolderInside, TypeOK
  <2> QED BY <1>2, <2>2, <2>3, <2>4, <2>5 DEF ReadLoop
<1>3. CASE ProcessEnds
  BY <1>3 DEF ProcessEnds, MutexHolderInside
<1>4. CASE UNCHANGED vars
  BY <1>4 DEF vars, coreVars, loopVars, MutexHolderInside
<1> QED BY <1>1, <1>2, <1>3, <1>4 DEF Next

\* The mutex that stopTunnel waits for is never held by a loop that has gone on or was
\* left behind: whoever holds it is inside stunnel_process_packet on that core, also
\* when the core has an address that an earlier one had.
THEOREM MutexHeldInside == Spec => []MutexHolderInside
<1>1. Init => MutexHolderInside
  BY DEF Init, MutexHolderInside
<1> QED
  BY <1>1, MutexStep, TunnelInvariant, PTL DEF Spec

\* A tunnel that is up has a started core wired to a live bridge.
THEOREM RunningWired == Spec => []RunningCoreWired
<1>1. Inv => RunningCoreWired
  BY DEF Inv, Calls, Wired, TypeOK, BridgeAccounting, RunningCoreWired
<1> QED
  BY <1>1, TunnelInvariant, PTL

================================================================================
