------------------------------ MODULE PacketTunnel ------------------------------
(***************************************************************************)
(* The packet tunnel provider and the memory it shares with the Rust core  *)
(* across the C interface: the CoreContext behind rustHandle, the retained *)
(* PacketFlowBridge that the core's packet callback is given as context,   *)
(* and the read loops that call stunnel_process_packet.                    *)
(*                                                                         *)
(* Two kinds of threads interleave.  The provider's thread runs            *)
(* startTunnel and stopTunnel, one action per call into the core and per   *)
(* assignment another thread can observe.  The handler of                  *)
(* packetFlow.readPackets runs on a queue of its own.  Inside              *)
(* stunnel_process_packet it holds the engine mutex, and the callback may  *)
(* run there at any time.  Setting, checking and clearing the callback     *)
(* take the same mutex; stunnel_stop takes none and frees the context.     *)
(*                                                                         *)
(* The system (external) calls startTunnel when no tunnel is up, stopTunnel *)
(* when one is starting or up, delivers packets from the moment the        *)
(* tunnel's settings are applied until stopTunnel has completed, and may    *)
(* end the extension's process at any time.  The allocator (external) may   *)
(* give a new context the address of any that is freed.                    *)
(***************************************************************************)
EXTENDS Integers

CONSTANTS
    Core,      \* bound: addresses of CoreContext boxes
    Bridge,    \* bound: addresses of PacketFlowBridge objects
    Loop,      \* bound: read loops that can be outstanding
    MaxBatch,  \* bound: packets one readPackets callback delivers
    Nil        \* nil, NULL, None

ASSUME NilAssumption == Nil \notin Core /\ Nil \notin Bridge /\ Nil \notin Loop
ASSUME BatchAssumption == MaxBatch \in Nat

VARIABLES
    rustHandle,           \* the provider's handle of the core
    packetBridgeContext,  \* the provider's retained bridge
    retained,             \* bridges that are retained and not yet released
    live,                 \* cores created and not yet freed
    callback,             \* Core -> context its outbound_callback has, Nil if None
    started,              \* Core -> the started flag
    lock,                 \* Core -> read loop that holds the engine mutex, or Nil
    p_pc,                 \* the provider's thread: where it is in start or stop
    p_handle,             \* the local handle of makeRuntime
    settings,             \* setTunnelNetworkSettings has not called back yet
    sys,                  \* the system's view of the tunnel
    r_pc,                 \* Loop -> where the read loop is
    r_handle,             \* Loop -> handle captured for the current batch
    r_left,               \* Loop -> packets of the batch not processed yet
    dangling              \* history: loops in a batch whose context was freed since,
                          \* or before, they captured its address

coreVars == <<live, callback, started>>
providerVars == <<rustHandle, packetBridgeContext, retained>>
callVars == <<p_pc, p_handle, settings, sys>>
loopVars == <<r_pc, r_handle, r_left, dangling>>
vars == <<coreVars, lock, providerVars, callVars, loopVars>>

Init ==
    /\ rustHandle = Nil /\ packetBridgeContext = Nil /\ retained = {}
    /\ live = {}
    /\ callback = [c \in Core |-> Nil]
    /\ started = [c \in Core |-> FALSE]
    /\ lock = [c \in Core |-> Nil]
    /\ p_pc = "idle" /\ p_handle = Nil /\ settings = FALSE /\ sys = "off"
    /\ r_pc = [l \in Loop |-> "none"]
    /\ r_handle = [l \in Loop |-> Nil]
    /\ r_left = [l \in Loop |-> 0]
    /\ dangling = {}

--------------------------------------------------------------------------------
(* startTunnel                                                               *)

\* Mutant: release the bridge and keep the pointer.
ReleaseAndKeep == retained' = retained \ {packetBridgeContext} /\ UNCHANGED packetBridgeContext

\* releasePacketBridge
ReleasePacketBridge == retained' = retained \ {packetBridgeContext} /\ packetBridgeContext' = Nil

\* startTunnel, up to installPacketBridge: release what is there, retain a new
\* bridge.
StartTunnel ==
    /\ sys = "off" /\ p_pc = "idle" /\ ~settings
    /\ sys' = "starting" /\ p_pc' = "make"
    /\ \E b \in Bridge \ retained :
          /\ packetBridgeContext' = b
          /\ retained' = (retained \ {packetBridgeContext}) \cup {b}
    /\ UNCHANGED <<coreVars, lock, rustHandle, p_handle, settings, loopVars>>

\* makeRuntime throws: no configuration, the builder fails, or stunnel_create
\* returns NULL.
MakeRuntimeFails ==
    /\ p_pc = "make"
    /\ ReleasePacketBridge
    /\ p_pc' = "idle" /\ sys' = "off"
    /\ UNCHANGED <<coreVars, lock, rustHandle, p_handle, settings, loopVars>>

\* stunnel_create returns a new CoreContext.  Its address is any that no context
\* has, one that a batch still holds included.
CreateCore ==
    /\ p_pc = "make"
    /\ \E c \in Core \ live :
          /\ live' = live \cup {c}
          /\ callback' = [callback EXCEPT ![c] = Nil]
          /\ started' = [started EXCEPT ![c] = FALSE]
          /\ lock' = [lock EXCEPT ![c] = Nil]
          /\ p_handle' = c
    /\ p_pc' = "set"
    /\ UNCHANGED <<providerVars, settings, sys, loopVars>>

SetPacketCallback ==
    /\ p_pc = "set" /\ lock[p_handle] = Nil
    /\ callback' = [callback EXCEPT ![p_handle] = packetBridgeContext]
    /\ p_pc' = "start"
    /\ UNCHANGED <<live, started, lock, providerVars, p_handle, settings, sys, loopVars>>

\* Mutant: the start succeeds and the flag is not set.
StartUnflagged ==
    /\ p_pc = "start" /\ lock[p_handle] = Nil
    /\ p_pc' = "assign"
    /\ UNCHANGED <<coreVars, lock, providerVars, p_handle, settings, sys, loopVars>>

\* stunnel_start refuses a core without a callback; makeRuntime then clears,
\* stops and throws.
StartCore ==
    /\ p_pc = "start" /\ lock[p_handle] = Nil
    /\ IF callback[p_handle] # Nil
       THEN /\ started' = [started EXCEPT ![p_handle] = TRUE]
            /\ p_pc' = "assign"
            /\ UNCHANGED <<live, packetBridgeContext, retained, sys>>
       ELSE /\ live' = live \ {p_handle}
            /\ ReleasePacketBridge
            /\ p_pc' = "idle" /\ sys' = "off"
            /\ UNCHANGED started
    /\ UNCHANGED <<callback, lock, rustHandle, p_handle, settings, loopVars>>

\* self.rustHandle = runtime.handle, then setTunnelNetworkSettings.
AssignHandle ==
    /\ p_pc = "assign"
    /\ rustHandle' = p_handle /\ p_handle' = Nil
    /\ p_pc' = "idle" /\ settings' = TRUE
    /\ UNCHANGED <<coreVars, lock, packetBridgeContext, retained, sys, loopVars>>

\* Mutant: the core is stopped, and the handle is kept.
SettingsFailStops ==
    /\ settings
    /\ settings' = FALSE /\ live' = live \ {rustHandle}
    /\ sys' = IF sys = "starting" THEN "off" ELSE sys
    /\ UNCHANGED <<callback, started, lock, providerVars, p_pc, p_handle, loopVars>>

\* The settings callback reports an error and returns: nothing is stopped.
SettingsFail ==
    /\ settings
    /\ settings' = FALSE
    /\ sys' = IF sys = "starting" THEN "off" ELSE sys
    /\ UNCHANGED <<coreVars, lock, providerVars, p_pc, p_handle, loopVars>>

\* The settings callback succeeds, perhaps after stopTunnel, and starts a loop.
SettingsApplied(l) ==
    /\ settings /\ r_pc[l] = "none"
    /\ settings' = FALSE
    /\ sys' = IF sys = "starting" THEN "on" ELSE sys
    /\ r_pc' = [r_pc EXCEPT ![l] = "armed"]
    /\ UNCHANGED <<coreVars, lock, providerVars, p_pc, p_handle, r_handle, r_left, dangling>>

--------------------------------------------------------------------------------
(* stopTunnel                                                                *)

\* Mutant: the bridge is released before the runtime is stopped.
ReleaseThenStop ==
    /\ sys \in {"starting", "on"} /\ p_pc = "idle"
    /\ sys' = "stopping"
    /\ p_pc' = IF rustHandle # Nil THEN "clear" ELSE "forget"
    /\ ReleasePacketBridge
    /\ UNCHANGED <<coreVars, lock, rustHandle, p_handle, settings, loopVars>>

\* stopCoreRuntime asks the coordinator to stop the runtime, if there is one.
StopTunnel ==
    /\ sys \in {"starting", "on"} /\ p_pc = "idle"
    /\ sys' = "stopping"
    /\ p_pc' = IF rustHandle # Nil THEN "clear" ELSE "forget"
    /\ UNCHANGED <<coreVars, lock, providerVars, p_handle, settings, loopVars>>

ClearPacketCallback ==
    /\ p_pc = "clear" /\ lock[rustHandle] = Nil
    /\ callback' = [callback EXCEPT ![rustHandle] = Nil]
    /\ p_pc' = "stop"
    /\ UNCHANGED <<live, started, lock, providerVars, p_handle, settings, sys, loopVars>>

\* stunnel_stop: Box::from_raw, dropped at once, without the mutex.  A loop that is
\* inside stunnel_process_packet is left there with a context that is gone.
StopCore ==
    /\ p_pc = "stop"
    /\ live' = live \ {rustHandle}
    /\ r_pc' = [l \in Loop |-> IF r_pc[l] = "inside" /\ r_handle[l] \notin live'
                               THEN "stale" ELSE r_pc[l]]
    /\ dangling' = dangling \cup {l \in Loop : /\ r_pc[l] \in {"batch", "inside"}
                                                /\ r_handle[l] = rustHandle
                                                /\ rustHandle \notin live'}
    /\ p_pc' = "forget"
    /\ UNCHANGED <<callback, started, lock, providerVars, p_handle, settings, sys, r_handle, r_left>>

ForgetHandle ==
    /\ p_pc = "forget"
    /\ rustHandle' = Nil
    /\ p_pc' = "release"
    /\ UNCHANGED <<coreVars, lock, packetBridgeContext, retained, p_handle, settings, sys, loopVars>>

ReleaseBridge ==
    /\ p_pc = "release"
    /\ ReleasePacketBridge
    /\ p_pc' = "idle" /\ sys' = "off"
    /\ UNCHANGED <<coreVars, lock, rustHandle, p_handle, settings, loopVars>>

--------------------------------------------------------------------------------
(* readPackets                                                               *)

\* The system has packets, and the handler runs: without a handle the loop ends,
\* with one it is captured for the whole batch, also while stopTunnel is under way
\* and when the context it names has just been freed.
ReadFires(l) ==
    /\ r_pc[l] = "armed" /\ sys \in {"on", "stopping"}
    /\ IF rustHandle = Nil
       THEN /\ r_pc' = [r_pc EXCEPT ![l] = "none"]
            /\ UNCHANGED <<r_handle, r_left, dangling>>
       ELSE /\ r_pc' = [r_pc EXCEPT ![l] = "batch"]
            /\ r_handle' = [r_handle EXCEPT ![l] = rustHandle]
            /\ \E n \in 1 .. MaxBatch : r_left' = [r_left EXCEPT ![l] = n]
            /\ dangling' = IF rustHandle \in live THEN dangling ELSE dangling \cup {l}
    /\ UNCHANGED <<coreVars, lock, providerVars, callVars>>

\* Mutant: the batch goes on for one packet too many.
PacketDoneLate(l) ==
    /\ r_left' = [r_left EXCEPT ![l] = @ - 1]
    /\ r_pc' = [r_pc EXCEPT ![l] = IF r_left[l] >= 0 THEN "batch" ELSE "armed"]
    /\ r_handle' = [r_handle EXCEPT ![l] = IF r_left[l] >= 0 THEN @ ELSE Nil]
    /\ dangling' = IF r_left[l] >= 0 THEN dangling ELSE dangling \ {l}

\* One packet is done; after the last one readPackets is called again.
PacketDone(l) ==
    /\ r_left' = [r_left EXCEPT ![l] = @ - 1]
    /\ r_pc' = [r_pc EXCEPT ![l] = IF r_left[l] > 1 THEN "batch" ELSE "armed"]
    /\ r_handle' = [r_handle EXCEPT ![l] = IF r_left[l] > 1 THEN @ ELSE Nil]
    /\ dangling' = IF r_left[l] > 1 THEN dangling ELSE dangling \ {l}

\* stunnel_process_packet up to the engine mutex; a no-op until started.  A batch
\* whose context is gone finds the next tunnel's when that has the same address.
EnterCore(l) ==
    LET c == r_handle[l] IN
    /\ r_pc[l] = "batch" /\ c \in live
    /\ IF started[c]
       THEN /\ lock[c] = Nil
            /\ lock' = [lock EXCEPT ![c] = l]
            /\ r_pc' = [r_pc EXCEPT ![l] = "inside"]
            /\ UNCHANGED <<r_handle, r_left, dangling>>
       ELSE /\ PacketDone(l)
            /\ UNCHANGED lock
    /\ UNCHANGED <<coreVars, providerVars, callVars>>

\* Mutant: a path that leaves with the mutex held.
StayLocked(c) == lock

Unlocked(c) == [lock EXCEPT ![c] = Nil]

\* The poll is over and the guard is dropped.
LeaveCore(l) ==
    /\ r_pc[l] = "inside"
    /\ lock' = Unlocked(r_handle[l])
    /\ PacketDone(l)
    /\ UNCHANGED <<coreVars, providerVars, callVars>>

\* The loop touches a freed context.  What follows is undefined: the packet is lost;
\* or a loop that was inside drops its guard on the mutex of the context that has
\* the address now; or the process crashes, which is ProcessEnds, always possible.
UseFreed(l) ==
    /\ \/ r_pc[l] = "stale" /\ lock' = Unlocked(r_handle[l])
       \/ r_pc[l] = "stale" /\ lock' = lock
       \/ r_pc[l] = "batch" /\ r_handle[l] \notin live /\ lock' = lock
    /\ PacketDone(l)
    /\ UNCHANGED <<coreVars, providerVars, callVars>>

\* The extension's process ends (crash, memory limit, shutdown) and a later
\* start finds a new one.
ProcessEnds ==
    /\ rustHandle' = Nil /\ packetBridgeContext' = Nil /\ retained' = {}
    /\ live' = {}
    /\ callback' = [c \in Core |-> Nil]
    /\ started' = [c \in Core |-> FALSE]
    /\ lock' = [c \in Core |-> Nil]
    /\ p_pc' = "idle" /\ p_handle' = Nil /\ settings' = FALSE /\ sys' = "off"
    /\ r_pc' = [l \in Loop |-> "none"]
    /\ r_handle' = [l \in Loop |-> Nil]
    /\ r_left' = [l \in Loop |-> 0]
    /\ dangling' = {}

--------------------------------------------------------------------------------

Provider == \/ StartTunnel \/ MakeRuntimeFails \/ CreateCore
            \/ SetPacketCallback \/ StartCore \/ AssignHandle
            \/ SettingsFail \/ (\E l \in Loop : SettingsApplied(l))
            \/ StopTunnel \/ ClearPacketCallback \/ StopCore
            \/ ForgetHandle \/ ReleaseBridge

ReadLoop(l) == ReadFires(l) \/ EnterCore(l) \/ LeaveCore(l) \/ UseFreed(l)

Next == Provider \/ (\E l \in Loop : ReadLoop(l)) \/ ProcessEnds

Spec == Init /\ [][Next]_vars

\* The provider's thread runs on, and a thread that waits for a mutex which is
\* released again and again gets it in the end: batches begin while it waits, so the
\* mutex need not stay free, and weak fairness would not do.  A loop that is inside
\* the core leaves it.  Nothing makes the system start, stop or deliver packets.
Fairness ==
    /\ SF_vars(ClearPacketCallback)
    /\ WF_vars(StopCore) /\ WF_vars(ForgetHandle) /\ WF_vars(ReleaseBridge)
    /\ \A l \in Loop : WF_vars(LeaveCore(l))

FairSpec == Spec /\ Fairness

--------------------------------------------------------------------------------
(* Properties                                                                *)

\* State is of its type; a batch never has more packets than it came with.
TypeOK ==
    /\ rustHandle \in Core \cup {Nil}
    /\ packetBridgeContext \in Bridge \cup {Nil}
    /\ retained \subseteq Bridge /\ live \subseteq Core
    /\ callback \in [Core -> Bridge \cup {Nil}]
    /\ started \in [Core -> BOOLEAN]
    /\ lock \in [Core -> Loop \cup {Nil}]
    /\ p_pc \in {"idle", "make", "set", "start", "assign", "clear", "stop", "forget", "release"}
    /\ p_handle \in Core \cup {Nil}
    /\ settings \in BOOLEAN
    /\ sys \in {"off", "starting", "on", "stopping"}
    /\ r_pc \in [Loop -> {"none", "armed", "batch", "inside", "stale"}]
    /\ r_handle \in [Loop -> Core \cup {Nil}]
    /\ r_left \in [Loop -> 0 .. MaxBatch]
    /\ dangling \subseteq Loop

\* The core that the provider is starting, runs or is stopping.
CoreInUse ==
    IF sys = "off" \/ p_pc = "make" THEN Nil
    ELSE IF p_pc \in {"set", "start", "assign"} THEN p_handle
    ELSE rustHandle

\* The context that the packet callback would be given is a bridge that is still
\* retained, at every moment at which stunnel_process_packet can call it: clear, stop
\* and release are in the order that makes takeUnretainedValue safe.  It holds for
\* every batch whose context was not freed under it, and for one that was and is now
\* inside the core in use because that has the old address.
CallbackIntoLiveBridge ==
    \A l \in Loop :
        /\ r_pc[l] = "inside" /\ callback[r_handle[l]] # Nil
        /\ l \in dangling => r_handle[l] = CoreInUse
        => callback[r_handle[l]] \in retained

\* The provider holds the one reference to a bridge and never a released one, on
\* every path through start, failed start and stop.
BridgeAccounting == retained = {packetBridgeContext} \ {Nil}

\* The engine mutex that stopTunnel has to take is held only by a read loop that is
\* inside that very core and so about to leave it: no loop that has gone on, and none
\* that was left behind by stunnel_stop, keeps a core locked that is still in use.
MutexHolderInside ==
    \A c \in live : lock[c] # Nil => r_pc[lock[c]] = "inside" /\ r_handle[lock[c]] = c

\* The provider's own calls are made on a core that is alive, also when a start fails
\* or a settings callback comes late: nothing is cleared, started or stopped twice.
ProviderUsesLiveCore ==
    /\ p_pc \in {"set", "start"} => p_handle \in live
    /\ p_pc \in {"clear", "stop"} => rustHandle \in live

\* While the system has the tunnel up, the provider's core is alive, started,
\* and answers through the provider's bridge.
RunningCoreWired ==
    sys = "on" /\ p_pc = "idle" =>
        /\ rustHandle \in live /\ started[rustHandle]
        /\ callback[rustHandle] = packetBridgeContext /\ packetBridgeContext \in retained

\* stopTunnel completes although packets keep arriving, new batches begin while it
\* waits, and it must take the mutex they are processed under.
StopCompletes == sys = "stopping" ~> sys = "off"

\* Expected of the C interface's memory management: no read loop hands a freed
\* context to stunnel_process_packet, or is inside it when the context goes.
NoUseAfterFree ==
    \A l \in Loop : /\ r_pc[l] # "stale"
                    /\ r_pc[l] = "batch" => r_handle[l] \in live

\* Expected of a start that fails: the core it made has been stopped.
FailedStartStopsCore == sys = "off" /\ p_pc = "idle" => live = {}
================================================================================
