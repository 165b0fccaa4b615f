----------------------------- MODULE VpnManagerProofs -----------------------------
(* Proofs about VpnManager: it implements TunnelConfig, whose theorems then  *)
(* hold of it; and an app keeps the VPN profile that it has.                 *)
EXTENDS VpnManager, TLAPS

\* The tunnel once more, with what is proved about it.
Tun == INSTANCE TunnelConfigProofs

--------------------------------------------------------------------------------
(* The tunnel of VpnManager and the one of the proofs are the same           *)

LEMMA SameFails == Config!StartFails = Tun!StartFails
BY DEF Config!StartFails, Tun!StartFails, Config!files, Tun!files

LEMMA SameExtension == Config!Extension = Tun!Extension
<1> USE SameFails DEF Config!files, Tun!files
<1>1. Config!Load = Tun!Load BY DEF Config!Load, Tun!Load, Config!LoadConfig, Tun!LoadConfig
<1>2. Config!WriteCert = Tun!WriteCert
    BY DEF Config!WriteCert, Tun!WriteCert, Config!WriteFile, Tun!WriteFile
<1>3. Config!WriteKey = Tun!WriteKey
    BY DEF Config!WriteKey, Tun!WriteKey, Config!WriteFile, Tun!WriteFile
<1>4. Config!CreateCore = Tun!CreateCore 
    BY DEF Config!CreateCore, Tun!CreateCore, Config!TunnelMode, Tun!TunnelMode
<1>5. Config!ApplySettings = Tun!ApplySettings BY DEF Config!ApplySettings, Tun!ApplySettings
<1>6. Config!OpenFiles = Tun!OpenFiles 
    BY DEF Config!OpenFiles, Tun!OpenFiles, Config!TunnelMode, Tun!TunnelMode
<1>7. Config!StopTunnel = Tun!StopTunnel BY DEF Config!StopTunnel, Tun!StopTunnel
<1>8. Config!ProcessEnds = Tun!ProcessEnds BY DEF Config!ProcessEnds, Tun!ProcessEnds
<1> QED
    BY <1>1, <1>2, <1>3, <1>4, <1>5, <1>6, <1>7, <1>8 DEF Config!Extension, Tun!Extension

LEMMA SameInit == Config!Init => Tun!Init
BY DEF Config!Init, Tun!Init

LEMMA SameStep == [Config!Next]_Config!config => [Tun!Next]_Tun!config
<1>1. Config!Save = Tun!Save BY DEF Config!Save, Tun!Save, Config!files, Tun!files
<1>2. Config!Start = Tun!Start BY DEF Config!Start, Tun!Start, Config!files, Tun!files
<1>3. Config!Stop = Tun!Stop BY DEF Config!Stop, Tun!Stop, Config!files, Tun!files
<1> QED
    BY <1>1, <1>2, <1>3, SameExtension
    DEF Config!Next, Tun!Next, Config!config, Tun!config, Config!files, Tun!files

LEMMA SameSpec == Config!Spec => Tun!Spec
BY SameInit, SameStep, PTL DEF Config!Spec, Tun!Spec

--------------------------------------------------------------------------------
(* The inductive invariant                                                   *)

\* A chain that is under way has a configuration of its own, which was saved.
Versions ==
    /\ version \in [Chain -> Nat] /\ pc \in [Chain -> {"idle", "load", "save", "reload"}]
    /\ \A c \in Chain : version[c] <= saved /\ (pc[c] # "idle" => version[c] # 0)

\* A chain that has a manager has the app's, if the app came with one.
Profiles ==
    /\ KeepsProfile /\ profiles \subseteq {"old"} \cup Chain
    /\ mine \in [Chain -> {"none", "old"} \cup Chain]
    /\ \A c \in Chain : pc[c] \in {"save", "reload"} =>
          mine[c] \in IF "old" \in profiles THEN {"old"} ELSE Chain

\* A chain asks for the tunnel of a profile that it has saved.
Saved ==
    /\ active \in {"none"} \cup profiles
    /\ \A c \in Chain : pc[c] = "reload" => mine[c] \in profiles

\* The main queue and what is shown.
Screen ==
    /\ manager \in {"none", "own", "old"} \cup Chain
    /\ loading \in BOOLEAN /\ error \in BOOLEAN
    /\ main \in Seq(Block)
    /\ status \in {"invalid", "disconnected", "connecting", "connected", "disconnecting"}
    /\ shown_by \in {"init", "system", "fail"}
    /\ outcome \in {"none", "failed", "started"}

Inv == Tun!Inv /\ Versions /\ Profiles /\ Saved /\ Screen

LEMMA Queues ==
    /\ <<>> \in Seq(Block) /\ <<"clear">> \in Seq(Block) /\ <<"update">> \in Seq(Block)
    /\ Append(<<>>, "fail") \in Seq(Block) /\ Append(<<"clear">>, "fail") \in Seq(Block)
<1>1. "clear" \in Block /\ "fail" \in Block /\ "update" \in Block BY DEF Block
<1>2. \A a \in Block : <<a>> \in Seq(Block) OBVIOUS
<1>3. <<>> \in Seq(Block) OBVIOUS
<1>4. \A s \in Seq(Block), a \in Block : Append(s, a) \in Seq(Block) OBVIOUS
<1> QED BY <1>1, <1>2, <1>3, <1>4

LEMMA InvInit == Init => Inv
<1> SUFFICES ASSUME Init PROVE Inv OBVIOUS
<1>1. Tun!Inv BY SameInit, Tun!InvInit DEF Init
<1>2. Versions BY DEF Init, Config!Init, Versions
<1>3. Profiles BY DEF Init, Profiles, KeepsProfile
<1>4. Saved BY DEF Init, Saved
<1>5. Screen BY Queues DEF Init, Screen
<1> QED BY <1>1, <1>2, <1>3, <1>4, <1>5 DEF Inv

\* Every step of the app is one that the tunnel may see.
LEMMA StepImplements == Inv /\ [Next]_vars => [Config!Next]_Config!config
<1> SUFFICES ASSUME Inv, Next PROVE Config!Next \/ UNCHANGED configVars
    BY DEF vars, configVars, Config!config, Config!files
<1>1. CASE RunBlock BY <1>1 DEF RunBlock
<1>2. CASE Disconnect BY <1>2 DEF Disconnect, Config!Next
<1>3. CASE InitLoaded BY <1>3 DEF InitLoaded
<1>4. CASE Tunnel BY <1>4 DEF Tunnel, Config!Next
<1>5. ASSUME NEW c \in Chain, SetupAndConnect(c) PROVE Config!Next \/ UNCHANGED configVars
    BY <1>5 DEF SetupAndConnect, ConfigSaver, Config!Next
<1>6. ASSUME NEW c \in Chain, ChainFails(c) PROVE UNCHANGED configVars
    BY <1>6 DEF ChainFails
<1>7. ASSUME NEW c \in Chain, LoadDone(c) PROVE UNCHANGED configVars
    BY <1>7 DEF LoadDone
<1>8. ASSUME NEW c \in Chain, SaveDone(c) PROVE UNCHANGED configVars
    BY <1>8 DEF SaveDone
<1>9. ASSUME NEW c \in Chain, ReloadDone(c) PROVE Config!Next \/ UNCHANGED configVars
  <2>1. CASE sys = "disconnected"
    <3>1. x_pc = "idle" BY <2>1 DEF Inv, Tun!Inv, Tun!TypeOK
    <3>2. version[c] \in 1 .. saved
        BY <1>9 DEF ReloadDone, Inv, Versions, Tun!Inv, Tun!TypeOK
    <3>3. Config!Start BY <1>9, <2>1, <3>1, <3>2 DEF ReloadDone, Config!Start, Config!files
    <3> QED BY <3>3 DEF Config!Next
  <2>2. CASE sys # "disconnected" BY <1>9, <2>2 DEF ReloadDone
  <2> QED BY <2>1, <2>2
<1> QED BY <1>1, <1>2, <1>3, <1>4, <1>5, <1>6, <1>7, <1>8, <1>9 DEF Next

\* No step of the tunnel takes a saved configuration back.
LEMMA SavedGrows == Inv /\ [Next]_vars => saved \in Nat /\ saved' \in Nat /\ saved <= saved'
<1> SUFFICES ASSUME Inv, [Next]_vars PROVE saved \in Nat /\ saved' \in Nat /\ saved <= saved'
    OBVIOUS
<1>1. saved \in Nat BY DEF Inv, Tun!Inv, Tun!TypeOK
<1>2. [Tun!Next]_Tun!config BY StepImplements, SameStep
<1>3. saved' = saved \/ saved' = saved + 1
    BY <1>2 DEF Tun!Next, Tun!Save, Tun!Start, Tun!Stop, Tun!Extension, Tun!Load, Tun!WriteCert,
        Tun!WriteKey, Tun!CreateCore, Tun!ApplySettings, Tun!OpenFiles, Tun!StopTunnel,
        Tun!ProcessEnds, Tun!StartFails, Tun!config
<1> QED BY <1>1, <1>3

LEMMA VersionsNext == Inv /\ [Next]_vars => Versions'
<1> SUFFICES ASSUME Inv, [Next]_vars PROVE Versions' OBVIOUS
<1>1. saved \in Nat /\ saved' \in Nat /\ saved <= saved' BY SavedGrows
<1>2. Versions BY DEF Inv
<1>3. CASE UNCHANGED <<pc, version>> BY <1>1, <1>2, <1>3 DEF Versions
<1>4. ASSUME NEW c \in Chain, SetupAndConnect(c), ~UNCHANGED <<pc, version>> PROVE Versions'
    BY <1>1, <1>2, <1>4 DEF SetupAndConnect, ConfigSaver, Config!Save, Versions
<1>5. ASSUME NEW c \in Chain, ChainEnds(c) PROVE Versions'
    BY <1>1, <1>2, <1>5 DEF ChainEnds, Versions
<1>6. ASSUME NEW c \in Chain, LoadDone(c) PROVE Versions'
    BY <1>1, <1>2, <1>6 DEF LoadDone, Versions
<1>7. ASSUME NEW c \in Chain, SaveDone(c) PROVE Versions'
    BY <1>1, <1>2, <1>7 DEF SaveDone, Versions
<1> QED
    BY <1>3, <1>4, <1>5, <1>6, <1>7
    DEF Next, vars, chainVars, RunBlock, Disconnect, InitLoaded, Tunnel, ChainFails, ReloadDone

LEMMA ProfilesNext == Inv /\ [Next]_vars => Profiles'
<1> SUFFICES ASSUME Inv, [Next]_vars PROVE Profiles' OBVIOUS
<1>1. Profiles /\ pc \in [Chain -> {"idle", "load", "save", "reload"}] BY DEF Inv, Versions
<1> USE ChainAssumption
<1>2. CASE UNCHANGED <<profiles, pc, mine>> BY <1>1, <1>2 DEF Profiles, KeepsProfile
<1>3. ASSUME NEW c \in Chain, SetupAndConnect(c), ~UNCHANGED pc PROVE Profiles'
    BY <1>1, <1>3 DEF SetupAndConnect, Profiles, KeepsProfile
<1>4. ASSUME NEW c \in Chain, ChainEnds(c), UNCHANGED profiles PROVE Profiles'
    BY <1>1, <1>4 DEF ChainEnds, Profiles, KeepsProfile
<1>5. ASSUME NEW c \in Chain, LoadDone(c) PROVE Profiles'
  <2>1. mine' = [mine EXCEPT ![c] = manager'] /\ pc' = [pc EXCEPT ![c] = "save"]
        /\ profiles' = profiles
      BY <1>5 DEF LoadDone
  <2>2. manager' \in IF "old" \in profiles THEN {"old"} ELSE Chain
      BY <1>1, <1>5 DEF LoadDone, LoadAndCreateManager, Profiles, KeepsProfile
  <2> QED BY <1>1, <2>1, <2>2 DEF Profiles, KeepsProfile
<1>6. ASSUME NEW c \in Chain, SaveDone(c) PROVE Profiles'
  <2>1. mine[c] \in IF "old" \in profiles THEN {"old"} ELSE Chain
      BY <1>1, <1>6 DEF SaveDone, Profiles
  <2>2. "old" \in profiles' <=> "old" \in profiles BY <1>6, <2>1 DEF SaveDone
  <2>3. KeepsProfile' BY <1>1, <1>6, <2>1, <2>2 DEF SaveDone, Profiles, KeepsProfile
  <2>4. \A d \in Chain : pc'[d] \in {"save", "reload"} => pc[d] \in {"save", "reload"}
      BY <1>1, <1>6 DEF SaveDone
  <2> QED BY <1>1, <1>6, <2>2, <2>3, <2>4 DEF SaveDone, Profiles
<1> QED
    BY <1>2, <1>3, <1>4, <1>5, <1>6
    DEF Next, vars, chainVars, RunBlock, Disconnect, InitLoaded, Tunnel, ChainFails, ReloadDone,
        SetupAndConnect

LEMMA SavedNext == Inv /\ [Next]_vars => Saved'
<1> SUFFICES ASSUME Inv, [Next]_vars PROVE Saved' OBVIOUS
<1>1. /\ Saved /\ pc \in [Chain -> {"idle", "load", "save", "reload"}]
      /\ mine \in [Chain -> {"none", "old"} \cup Chain]
    BY DEF Inv, Versions, Profiles
<1>2. CASE UNCHANGED <<profiles, active, pc, mine>> BY <1>1, <1>2 DEF Saved
<1>3. ASSUME NEW c \in Chain, SetupAndConnect(c), ~UNCHANGED pc PROVE Saved'
    BY <1>1, <1>3 DEF SetupAndConnect, Saved
<1>4. ASSUME NEW c \in Chain, ChainFails(c) PROVE Saved'
    BY <1>1, <1>4 DEF ChainFails, ChainEnds, Saved
<1>5. ASSUME NEW c \in Chain, LoadDone(c) PROVE Saved'
    BY <1>1, <1>5 DEF LoadDone, Saved
<1>6. ASSUME NEW c \in Chain, SaveDone(c) PROVE Saved'
    BY <1>1, <1>6 DEF SaveDone, Saved
<1>7. ASSUME NEW c \in Chain, ReloadDone(c) PROVE Saved'
    BY <1>1, <1>7 DEF ReloadDone, ChainEnds, Saved
<1> QED
    BY <1>2, <1>3, <1>4, <1>5, <1>6, <1>7
    DEF Next, vars, chainVars, RunBlock, Disconnect, InitLoaded, Tunnel, SetupAndConnect

\* What a step posts are blocks of the main queue's kinds.
LEMMA PostKind ==
    ASSUME Screen, NEW blocks \in Seq(Block), Post(blocks)
    PROVE  main' \in Seq(Block)
<1>1. main \in Seq(Block) BY DEF Screen
<1>2. main \o blocks \in Seq(Block) BY <1>1
<1>3. \A more \in Seq(Block) : (main \o blocks) \o more \in Seq(Block) BY <1>2
<1> QED BY <1>2, <1>3, Queues DEF Post

LEMMA ShownKind ==
    ASSUME Tun!TypeOK, Screen, NEW m, UpdateStatus(m)
    PROVE  /\ status' \in {"invalid", "disconnected", "connecting", "connected", "disconnecting"}
           /\ shown_by' \in {"init", "system", "fail"}
BY DEF Tun!TypeOK, Screen, UpdateStatus, ConnectionStatus

LEMMA ScreenNext == Inv /\ [Next]_vars => Screen'
<1> SUFFICES ASSUME Inv, [Next]_vars PROVE Screen' OBVIOUS
<1>1. Screen /\ Tun!TypeOK /\ profiles \subseteq {"old"} \cup Chain
    BY DEF Inv, Tun!Inv, Profiles
<1>2. CASE UNCHANGED vars BY <1>1, <1>2 DEF Screen, vars, chainVars, screenVars
<1>3. CASE RunBlock
  <2>1. main' \in Seq(Block) BY <1>1, <1>3 DEF RunBlock, Screen
  <2> QED BY <1>1, <1>3, <2>1, ShownKind DEF RunBlock, Screen, chainVars
<1>4. CASE Disconnect
    BY <1>1, <1>4, PostKind, Queues DEF Disconnect, Screen, chainVars, screenVars
<1>5. CASE InitLoaded
  <2>1. manager' \in {"none", "own", "old"} \cup Chain
      BY <1>1, <1>5 DEF InitLoaded, LoadAndCreateManager, Screen
  <2> QED BY <1>1, <1>5, <2>1, ShownKind DEF InitLoaded, Screen
<1>6. CASE Tunnel
    BY <1>1, <1>6, PostKind, Queues DEF Tunnel, Screen, chainVars, screenVars
<1>7. ASSUME NEW c \in Chain, SetupAndConnect(c) PROVE Screen'
    BY <1>1, <1>7, PostKind, Queues DEF SetupAndConnect, Fail, Screen, screenVars
<1>8. ASSUME NEW c \in Chain, ChainFails(c) PROVE Screen'
    BY <1>1, <1>8, PostKind, Queues DEF ChainFails, Fail, Screen, screenVars
<1>9. ASSUME NEW c \in Chain, LoadDone(c) PROVE Screen'
    BY <1>1, <1>9 DEF LoadDone, LoadAndCreateManager, Screen, screenVars
<1>10. ASSUME NEW c \in Chain, SaveDone(c) PROVE Screen'
    BY <1>1, <1>10 DEF SaveDone, Screen, screenVars
<1>11. ASSUME NEW c \in Chain, ReloadDone(c) PROVE Screen'
    BY <1>1, <1>11, PostKind, Queues DEF ReloadDone, Screen, screenVars
<1> QED BY <1>2, <1>3, <1>4, <1>5, <1>6, <1>7, <1>8, <1>9, <1>10, <1>11 DEF Next

LEMMA InvNext == Inv /\ [Next]_vars => Inv'
<1>1. Inv /\ [Next]_vars => Tun!Inv'
    BY StepImplements, SameStep, Tun!InvNext DEF Inv
<1> QED BY <1>1, VersionsNext, ProfilesNext, SavedNext, ScreenNext DEF Inv

\* The inductive invariant holds of every behaviour of the app and the tunnel.
THEOREM AppInvariant == Spec => []Inv
BY InvInit, InvNext, PTL DEF Spec

--------------------------------------------------------------------------------

\* State is of its type, for any number of chains.
THEOREM AppTypes == Spec => []TypeOK
<1>1. Inv => Config!TypeOK
    BY DEF Inv, Tun!Inv, Tun!TypeOK, Config!TypeOK
<1>2. Inv => version \in [Chain -> 0 .. saved]
    BY DEF Inv, Versions, Tun!Inv, Tun!TypeOK
<1>3. Inv => TypeOK
    BY <1>1, <1>2 DEF Inv, Versions, Profiles, Saved, Screen, TypeOK
<1> QED BY <1>3, AppInvariant, PTL

\* The app, with its chains of callbacks, keeps its side of TunnelConfig.
THEOREM AppImplementsConfig == Spec => ImplementsConfig
<1>1. Init => Config!Init BY DEF Init
<1> QED BY <1>1, StepImplements, AppInvariant, PTL DEF Spec, Config!Spec, ImplementsConfig

\* The client of a core is made from the certificate and the key of the core's own
\* configuration, however the taps, the writes and the ends of processes interleave.
THEOREM AppOpensOwnPair == Spec => []CoreOpensOwnPair
<1>1. Tun!CoreOpensOwnPair => CoreOpensOwnPair
    BY DEF Tun!CoreOpensOwnPair, CoreOpensOwnPair, Config!CoreOpensOwnPair
<1> QED BY <1>1, AppImplementsConfig, SameSpec, Tun!OpensOwnPair, PTL DEF ImplementsConfig

\* A tunnel that is up runs a configuration at least as new as that of the tap that
\* started it.
THEOREM AppRunsRequested == Spec => []RunsRequestedConfig
<1>1. Tun!RunsRequestedConfig => RunsRequestedConfig
    BY DEF Tun!RunsRequestedConfig, RunsRequestedConfig, Config!RunsRequestedConfig
<1> QED BY <1>1, AppImplementsConfig, SameSpec, Tun!RunsRequested, PTL DEF ImplementsConfig

\* An app that has its VPN profile never makes a second one, for any number of taps
\* under way at once.
THEOREM AppKeepsProfile == Spec => []KeepsProfile
<1>1. Inv => KeepsProfile BY DEF Inv, Profiles
<1> QED BY <1>1, AppInvariant, PTL
--------------------------------------------------------------------------------
(* What the waiting blocks will show                                         *)

\* When the blocks of q have run on a screen that shows an error or not, it shows one:
\* the last block that says something about it is a fail.
WillShowError(q, shown) ==
    \/ shown /\ \A i \in 1 .. Len(q) : q[i] # "clear"
    \/ \E i \in 1 .. Len(q) : q[i] = "fail" /\ \A j \in i + 1 .. Len(q) : q[j] # "clear"

\* A block of q will decide about the status.
WillSetStatus(q) == \E i \in 1 .. Len(q) : q[i] \in {"update", "fail"}

\* An error that has not been superseded is shown or will be.
ErrorPending ==
    outcome = "failed" /\ (\A c \in Chain : pc[c] = "idle") => WillShowError(main, error)

\* No tunnel is up before one was started, and one is started only by a chain that has
\* set tunnelManager; an app that has its profile watches that one.
Watched ==
    /\ active = "none" => sys = "disconnected"
    /\ manager = "none" =>
          /\ active = "none" /\ status = "disconnected"
          /\ \A c \in Chain : pc[c] \notin {"save", "reload"}
    /\ "old" \in profiles => manager \in {"none", "old"}

\* The shown status is the system's, or it is one of a tunnel that is down and, with the
\* app's profile, a failure set it; or it will be replaced.
StatusPending ==
    \/ WillSetStatus(main)
    \/ /\ status \in {"invalid", "disconnected", sys}
       /\ "old" \in profiles => shown_by = "fail" \/ status = sys

\* The kinds of blocks differ.
LEMMA Kinds ==
    /\ "clear" \in Block /\ "fail" \in Block /\ "update" \in Block
    /\ "clear" # "fail" /\ "clear" # "update" /\ "fail" # "update"
BY DEF Block

\* The queue without its first block.
LEMMA TailOf ==
    ASSUME NEW q \in Seq(Block), q # <<>>
    PROVE  /\ Tail(q) \in Seq(Block) /\ Len(q) \in Nat /\ Len(q) # 0
           /\ Head(q) = q[1] /\ Len(Tail(q)) = Len(q) - 1
           /\ \A i \in 1 .. Len(q) - 1 : Tail(q)[i] = q[i + 1]
OBVIOUS

\* The queue with blocks behind it.
LEMMA ConcatOf ==
    ASSUME NEW q \in Seq(Block), NEW r \in Seq(Block)
    PROVE  /\ q \o r \in Seq(Block) /\ Len(q) \in Nat /\ Len(r) \in Nat
           /\ Len(q \o r) = Len(q) + Len(r)
           /\ \A i \in 1 .. Len(q) : (q \o r)[i] = q[i]
           /\ \A i \in 1 .. Len(r) : (q \o r)[Len(q) + i] = r[i]
OBVIOUS

\* The blocks behind do not remove the error.
LEMMA ErrorStays ==
    ASSUME NEW q \in Seq(Block), NEW r \in Seq(Block), NEW shown,
           WillShowError(q, shown), \A i \in 1 .. Len(r) : r[i] # "clear"
    PROVE  WillShowError(q \o r, shown)
<1>1. \A j \in 1 .. Len(q) + Len(r) : j \in 1 .. Len(q) \/ j - Len(q) \in 1 .. Len(r)
    BY ConcatOf
<1>2. \A j \in Len(q) + 1 .. Len(q) + Len(r) : (q \o r)[j] # "clear"
  <2> TAKE j \in Len(q) + 1 .. Len(q) + Len(r)
  <2>1. j - Len(q) \in 1 .. Len(r) /\ j = Len(q) + (j - Len(q)) BY ConcatOf
  <2> QED BY <2>1, ConcatOf
<1>3. CASE shown /\ \A i \in 1 .. Len(q) : q[i] # "clear"
    BY <1>2, <1>3, ConcatOf DEF WillShowError
<1>4. ASSUME NEW i \in 1 .. Len(q), q[i] = "fail", \A j \in i + 1 .. Len(q) : q[j] # "clear"
      PROVE  WillShowError(q \o r, shown)
  <2>1. i \in 1 .. Len(q \o r) /\ (q \o r)[i] = "fail" BY <1>4, ConcatOf
  <2>2. \A j \in i + 1 .. Len(q \o r) : (q \o r)[j] # "clear"
      BY <1>2, <1>4, ConcatOf
  <2> QED BY <2>1, <2>2 DEF WillShowError
<1> QED BY <1>3, <1>4 DEF WillShowError

\* A fail behind the queue sets the error and the status.
LEMMA FailLast ==
    ASSUME NEW q \in Seq(Block), NEW shown
    PROVE  WillShowError(Append(q, "fail"), shown) /\ WillSetStatus(Append(q, "fail"))
<1>1. /\ Len(q) \in Nat /\ Len(Append(q, "fail")) = Len(q) + 1
      /\ Append(q, "fail")[Len(q) + 1] = "fail"
    BY Kinds
<1> QED BY <1>1 DEF WillShowError, WillSetStatus

\* One block runs: a clear comes before the fail that counts.
LEMMA RunError ==
    ASSUME NEW q \in Seq(Block), q # <<>>, NEW shown, NEW now, WillShowError(q, shown),
           \/ Head(q) = "clear"
           \/ Head(q) = "fail" /\ now
           \/ Head(q) = "update" /\ now = shown
    PROVE  WillShowError(Tail(q), now)
<1>1. /\ Len(q) \in Nat /\ Len(q) # 0 /\ Head(q) = q[1] /\ Len(Tail(q)) = Len(q) - 1
      /\ \A i \in 1 .. Len(q) - 1 : Tail(q)[i] = q[i + 1]
    BY TailOf
<1>2. CASE shown /\ \A i \in 1 .. Len(q) : q[i] # "clear"
  <2>1. Head(q) # "clear" BY <1>1, <1>2
  <2>2. now BY <1>2, <2>1, Zenon
  <2>3. \A i \in 1 .. Len(Tail(q)) : Tail(q)[i] # "clear" BY <1>1, <1>2
  <2> QED BY <2>2, <2>3 DEF WillShowError
<1>3. ASSUME NEW i \in 1 .. Len(q), q[i] = "fail", \A j \in i + 1 .. Len(q) : q[j] # "clear"
      PROVE  WillShowError(Tail(q), now)
  <2>1. CASE i = 1
    <3>1. now BY <1>1, <1>3, <2>1, Kinds
    <3>2. \A j \in 1 .. Len(Tail(q)) : Tail(q)[j] # "clear" BY <1>1, <1>3, <2>1
    <3> QED BY <3>1, <3>2 DEF WillShowError
  <2>2. CASE i # 1
    <3>1. i - 1 \in 1 .. Len(Tail(q)) /\ Tail(q)[i - 1] = "fail" BY <1>1, <1>3, <2>2
    <3>2. \A j \in (i - 1) + 1 .. Len(Tail(q)) : Tail(q)[j] # "clear" BY <1>1, <1>3, <2>2
    <3> QED BY <3>1, <3>2 DEF WillShowError
  <2> QED BY <2>1, <2>2
<1> QED BY <1>2, <1>3 DEF WillShowError

\* Blocks that are added do not take back what those before them will do.
LEMMA StatusStays ==
    ASSUME NEW q \in Seq(Block), NEW r \in Seq(Block),
           WillSetStatus(q) \/ WillSetStatus(r)
    PROVE  WillSetStatus(q \o r)
<1>1. CASE WillSetStatus(q) BY <1>1, ConcatOf DEF WillSetStatus
<1>2. ASSUME NEW i \in 1 .. Len(r), r[i] \in {"update", "fail"} PROVE WillSetStatus(q \o r)
  <2>1. Len(q) + i \in 1 .. Len(q \o r) /\ (q \o r)[Len(q) + i] = r[i] BY ConcatOf
  <2> QED BY <1>2, <2>1 DEF WillSetStatus
<1> QED BY <1>1, <1>2 DEF WillSetStatus

\* A clear decides nothing about the status.
LEMMA RunClear ==
    ASSUME NEW q \in Seq(Block), q # <<>>, Head(q) = "clear", WillSetStatus(q)
    PROVE  WillSetStatus(Tail(q))
<1>1. PICK i \in 1 .. Len(q) : q[i] \in {"update", "fail"} BY DEF WillSetStatus
<1>2. i # 1 BY <1>1, TailOf, Kinds
<1>3. i - 1 \in 1 .. Len(Tail(q)) /\ Tail(q)[i - 1] = q[i] BY <1>2, TailOf
<1> QED BY <1>1, <1>3 DEF WillSetStatus

\* A queue that ran empty holds nothing.
LEMMA EmptyQueue ==
    /\ \A shown : WillShowError(<<>>, shown) => shown
    /\ ~WillSetStatus(<<>>)
BY DEF WillShowError, WillSetStatus

\* The notification behind what a step posts.
Notification == IF sys' # sys THEN <<"update">> ELSE <<>>

LEMMA NotificationOf ==
    /\ Notification \in Seq(Block)
    /\ \A i \in 1 .. Len(Notification) : Notification[i] # "clear"
    /\ sys' # sys => WillSetStatus(Notification)
<1>1. \A a \in Block : /\ <<a>> \in Seq(Block) /\ Len(<<a>>) = 1 /\ <<a>>[1] = a
    OBVIOUS
<1>2. <<>> \in Seq(Block) /\ Len(<<>>) = 0 OBVIOUS
<1>3. CASE sys' = sys BY <1>2, <1>3 DEF Notification
<1>4. CASE sys' # sys
  <2>1. Notification = <<"update">> BY <1>4 DEF Notification
  <2>2. Len(<<"update">>) = 1 /\ <<"update">>[1] = "update" /\ <<"update">> \in Seq(Block)
      BY <1>1, Kinds
  <2> HIDE DEF Notification
  <2> QED BY <2>1, <2>2, Kinds DEF WillSetStatus
<1> QED BY <1>3, <1>4

\* What a failing step posts shows its error and decides about the status.
LEMMA FailShows ==
    ASSUME Screen, NEW blocks \in Seq(Block), Fail(blocks), NEW shown
    PROVE  WillShowError(main', shown) /\ WillSetStatus(main')
<1> DEFINE q == main \o blocks
<1>1. main \in Seq(Block) /\ q \in Seq(Block) BY DEF Screen
<1>2. main \o Append(blocks, "fail") = Append(q, "fail") BY <1>1, Kinds
<1>3. Append(q, "fail") \in Seq(Block) BY <1>1, Kinds
<1>4. main' = Append(q, "fail") \o Notification BY <1>2 DEF Fail, Post, Notification
<1> HIDE DEF q
<1> QED BY <1>1, <1>3, <1>4, FailLast, ErrorStays, StatusStays, NotificationOf

\* What a step posts without failing leaves the error's fate as it was, if it posts no
\* clear, and decides about the status, if the system's has changed.
LEMMA PostKeeps ==
    ASSUME Screen, NEW blocks \in Seq(Block), Post(blocks)
    PROVE  /\ blocks = <<>> => \A shown : WillShowError(main, shown) => WillShowError(main', shown)
           /\ WillSetStatus(main) \/ sys' # sys => WillSetStatus(main')
<1>1. main \in Seq(Block) /\ main \o blocks \in Seq(Block) BY DEF Screen
<1>2. main' = (main \o blocks) \o Notification BY DEF Post, Notification
<1>3. blocks = <<>> => main \o blocks = main BY <1>1
<1>4. blocks = <<>> => \A shown : WillShowError(main, shown) => WillShowError(main', shown)
    BY <1>1, <1>2, <1>3, ErrorStays, NotificationOf
<1>5. WillSetStatus(main) \/ sys' # sys => WillSetStatus(main')
    BY <1>1, <1>2, StatusStays, NotificationOf
<1> QED BY <1>4, <1>5

--------------------------------------------------------------------------------
(* The screen                                                                *)

\* A block of the main queue is of one of the three kinds, and leaves the others.
LEMMA RunBlockFacts ==
    ASSUME Screen, RunBlock
    PROVE  /\ main \in Seq(Block) /\ main # <<>> /\ main' = Tail(main)
           /\ UNCHANGED <<configVars, chainVars>>
           /\ \/ Head(main) = "clear" /\ ~error' /\ UNCHANGED <<status, shown_by>>
              \/ /\ Head(main) = "fail" /\ error'
                 /\ status' = "disconnected" /\ shown_by' = "fail"
              \/ Head(main) = "update" /\ UpdateStatus(manager) /\ error' = error
BY DEF Screen, RunBlock

LEMMA ErrorPendingInit == Init => ErrorPending
BY DEF Init, ErrorPending

LEMMA ErrorPendingNext == Inv /\ ErrorPending /\ [Next]_vars => ErrorPending'
<1> SUFFICES ASSUME Inv, ErrorPending, [Next]_vars PROVE ErrorPending'
    OBVIOUS
<1>1. Screen /\ pc \in [Chain -> {"idle", "load", "save", "reload"}] BY DEF Inv, Versions
<1>2. CASE UNCHANGED <<outcome, pc, main, error>> BY <1>2 DEF ErrorPending
<1>3. CASE RunBlock
  <2>1. UNCHANGED <<outcome, pc>> BY <1>3 DEF RunBlock, chainVars
  <2>2. WillShowError(main, error) => WillShowError(Tail(main), error')
      BY <1>1, <1>3, RunBlockFacts, RunError, Zenon
  <2> QED BY <1>1, <1>3, <2>1, <2>2, RunBlockFacts DEF ErrorPending
<1>4. CASE UNCHANGED <<outcome, pc, error>> /\ Post(<<>>)
    BY <1>1, <1>4, PostKeeps, Queues DEF ErrorPending
<1>5. ASSUME NEW c \in Chain, SetupAndConnect(c) PROVE ErrorPending'
  <2>1. CASE pc' = [pc EXCEPT ![c] = "load"] BY <1>1, <2>1 DEF ErrorPending
  <2>2. CASE Fail(<<"clear">>) BY <1>1, <2>2, FailShows, Queues DEF ErrorPending
  <2> QED BY <1>5, <2>1, <2>2 DEF SetupAndConnect
<1>6. ASSUME NEW c \in Chain, ChainFails(c) PROVE ErrorPending'
    BY <1>1, <1>6, FailShows, Queues DEF ChainFails, ErrorPending
<1>7. ASSUME NEW c \in Chain, LoadDone(c) PROVE ErrorPending'
    BY <1>1, <1>7 DEF LoadDone, screenVars, ErrorPending
<1>8. ASSUME NEW c \in Chain, SaveDone(c) PROVE ErrorPending'
    BY <1>1, <1>8 DEF SaveDone, screenVars, ErrorPending
<1>9. ASSUME NEW c \in Chain, ReloadDone(c) PROVE ErrorPending'
    BY <1>9 DEF ReloadDone, ErrorPending
<1> QED
    BY <1>2, <1>3, <1>4, <1>5, <1>6, <1>7, <1>8, <1>9
    DEF Next, vars, chainVars, screenVars, Disconnect, InitLoaded, Tunnel

LEMMA WatchedInit == Init => Watched
<1> SUFFICES ASSUME Init PROVE Watched OBVIOUS
<1>1. \A c \in Chain : pc[c] = "idle" BY DEF Init
<1>2. sys = "disconnected" BY DEF Init, Config!Init
<1> QED BY <1>1, <1>2 DEF Init, Watched

\* A tunnel that is down stays down but for a start.
LEMMA DownStays ==
    ASSUME Inv, sys = "disconnected", Config!Extension
    PROVE  sys' = "disconnected"
<1>1. x_pc = "idle" BY DEF Inv, Tun!Inv, Tun!TypeOK
<1> QED
    BY <1>1 DEF Config!Extension, Config!Load, Config!WriteCert, Config!WriteKey,
        Config!CreateCore, Config!ApplySettings, Config!OpenFiles, Config!StopTunnel,
        Config!ProcessEnds, Config!StartFails

LEMMA WatchedNext == Inv /\ Watched /\ [Next]_vars => Watched'
<1> SUFFICES ASSUME Inv, Watched, [Next]_vars PROVE Watched'
    OBVIOUS
<1>1. /\ Screen /\ "none" \notin Chain /\ "none" \notin profiles
      /\ KeepsProfile /\ "old" \notin Chain
      /\ pc \in [Chain -> {"idle", "load", "save", "reload"}]
    BY ChainAssumption DEF Inv, Versions, Profiles
<1>2. CASE UNCHANGED vars
    BY <1>2 DEF vars, configVars, chainVars, screenVars, Watched
<1>3. CASE RunBlock
  <2>1. UNCHANGED <<profiles, active, sys, manager, pc>>
      BY <1>3 DEF RunBlock, configVars, chainVars
  <2>2. manager = "none" /\ status = "disconnected" => status' = "disconnected"
      BY <1>1, <1>3, RunBlockFacts DEF UpdateStatus
  <2> QED BY <2>1, <2>2 DEF Watched
<1>4. CASE Disconnect
    BY <1>1, <1>4 DEF Disconnect, Config!Stop, chainVars, screenVars, Watched
<1>5. CASE Tunnel
  <2>1. sys = "disconnected" => sys' = "disconnected" BY <1>5, DownStays DEF Tunnel
  <2> QED BY <1>5, <2>1 DEF Tunnel, chainVars, screenVars, Watched
<1>6. CASE InitLoaded
  <2>1. UNCHANGED <<profiles, active, sys, pc>> /\ UpdateStatus(manager')
      BY <1>6 DEF InitLoaded, configVars
  <2>2. manager' = "none" => manager = "none" /\ status' = status
      BY <1>1, <1>6, <2>1 DEF InitLoaded, LoadAndCreateManager, UpdateStatus
  <2>3. "old" \in profiles => manager' \in {manager, "old"}
      BY <1>1, <1>6 DEF InitLoaded, LoadAndCreateManager, KeepsProfile
  <2> QED BY <2>1, <2>2, <2>3 DEF Watched
<1>7. ASSUME NEW c \in Chain, SetupAndConnect(c) PROVE Watched'
  <2>1. UNCHANGED <<profiles, active, manager, sys, status>>
      BY <1>7 DEF SetupAndConnect, ConfigSaver, Config!Save, configVars, screenVars, Fail
  <2>2. \A d \in Chain : pc'[d] \in {pc[d], "load"} BY <1>1, <1>7 DEF SetupAndConnect
  <2> QED BY <2>1, <2>2 DEF Watched
<1>8. ASSUME NEW c \in Chain, ChainFails(c) PROVE Watched'
  <2>1. UNCHANGED <<profiles, active, manager, sys, status>>
      BY <1>8 DEF ChainFails, configVars, screenVars, Fail
  <2>2. \A d \in Chain : pc'[d] \in {pc[d], "idle"} BY <1>1, <1>8 DEF ChainFails, ChainEnds
  <2> QED BY <2>1, <2>2 DEF Watched
<1>9. ASSUME NEW c \in Chain, LoadDone(c) PROVE Watched'
  <2>1. UNCHANGED <<profiles, active, sys>> BY <1>9 DEF LoadDone, configVars
  <2>2. manager' # "none"
      BY <1>1, <1>9 DEF LoadDone, LoadAndCreateManager
  <2>3. "old" \in profiles => manager' = "old"
      BY <1>1, <1>9 DEF LoadDone, LoadAndCreateManager, KeepsProfile
  <2> QED BY <2>1, <2>2, <2>3 DEF Watched
<1>10. ASSUME NEW c \in Chain, SaveDone(c) PROVE Watched'
  <2>1. UNCHANGED <<active, manager, sys, status>>
      BY <1>10 DEF SaveDone, configVars, screenVars
  <2>2. "old" \in profiles' => "old" \in profiles
      BY <1>1, <1>10 DEF SaveDone, Inv, Profiles
  <2>3. manager # "none" BY <1>10 DEF SaveDone, Watched
  <2> QED BY <2>1, <2>2, <2>3 DEF Watched
<1>11. ASSUME NEW c \in Chain, ReloadDone(c) PROVE Watched'
  <2>1. UNCHANGED <<profiles, manager>> /\ manager # "none"
      BY <1>11 DEF ReloadDone, Watched
  <2>2. sys' # sys => active' = mine[c] /\ mine[c] # "none"
      BY <1>1, <1>11 DEF ReloadDone, configVars, Inv, Saved
  <2>3. sys' = sys => active' = active BY <1>11 DEF ReloadDone
  <2> QED BY <2>1, <2>2, <2>3 DEF Watched
<1> QED BY <1>2, <1>3, <1>4, <1>5, <1>6, <1>7, <1>8, <1>9, <1>10, <1>11 DEF Next

LEMMA StatusPendingInit == Init => StatusPending
BY DEF Init, Config!Init, StatusPending

\* What is read from a manager is right, or the status of one that is not the tunnel's.
LEMMA StatusRead ==
    ASSUME Inv, Watched, NEW m, UpdateStatus(m), m = "none" => manager = "none",
           "old" \in profiles => m \in {"none", "old"}
    PROVE  status' \in {"invalid", "disconnected", sys} /\ ("old" \in profiles => status' = sys)
<1>1. CASE m = "none" BY <1>1 DEF Watched, UpdateStatus
<1>2. CASE m # "none"
  <2>1. status' \in ConnectionStatus(m) BY <1>2 DEF UpdateStatus
  <2>2. "old" \in profiles => active \in {"none", "old"}
      BY DEF Inv, Saved, Profiles, KeepsProfile
  <2> QED BY <1>2, <2>1, <2>2 DEF ConnectionStatus, Watched
<1> QED BY <1>1, <1>2

\* A step that changes what the system says posts a block that decides.
LEMMA StatusPosted ==
    ASSUME Screen, StatusPending, NEW blocks \in Seq(Block), Post(blocks),
           UNCHANGED <<profiles, status, shown_by>>
    PROVE  StatusPending'
<1>1. WillSetStatus(main) \/ sys' # sys => WillSetStatus(main)' BY PostKeeps DEF WillSetStatus
<1> QED BY <1>1 DEF StatusPending

LEMMA StatusPendingNext == Inv /\ Watched /\ StatusPending /\ [Next]_vars => StatusPending'
<1> SUFFICES ASSUME Inv, Watched, StatusPending, [Next]_vars PROVE StatusPending'
    OBVIOUS
<1>1. /\ Screen /\ "none" \notin Chain /\ "none" \notin profiles
      /\ KeepsProfile /\ "old" \notin Chain
    BY ChainAssumption DEF Inv, Profiles
<1>2. CASE UNCHANGED vars
    BY <1>2 DEF vars, configVars, chainVars, screenVars, StatusPending
<1>3. CASE RunBlock
  <2>1. UNCHANGED <<profiles, sys>> /\ main' = Tail(main)
      BY <1>3 DEF RunBlock, configVars, chainVars
  <2>2. CASE Head(main) = "clear" /\ UNCHANGED <<status, shown_by>>
    <3>1. WillSetStatus(main) => WillSetStatus(main')
        BY <1>1, <1>3, <2>1, <2>2, RunBlockFacts, RunClear
    <3> QED BY <2>1, <2>2, <3>1 DEF StatusPending
  <2>3. CASE status' = "disconnected" /\ shown_by' = "fail"
      BY <2>3 DEF StatusPending
  <2>4. CASE UpdateStatus(manager)
    <3>1. "old" \in profiles => manager \in {"none", "old"} BY DEF Watched
    <3> QED BY <2>1, <2>4, <3>1, StatusRead DEF StatusPending
  <2> QED BY <1>1, <1>3, <2>2, <2>3, <2>4, RunBlockFacts
<1>4. CASE Disconnect \/ Tunnel
    BY <1>1, <1>4, StatusPosted, Queues DEF Disconnect, Tunnel, chainVars, screenVars
<1>5. CASE InitLoaded
  <2>1. UNCHANGED <<profiles, sys>> /\ UpdateStatus(manager')
      BY <1>5 DEF InitLoaded, configVars
  <2>2. manager' = "none" => manager = "none"
      BY <1>1, <1>5 DEF InitLoaded, LoadAndCreateManager
  <2>3. "old" \in profiles => manager' \in {"none", "old"}
      BY <1>1, <1>5 DEF InitLoaded, LoadAndCreateManager, KeepsProfile, Watched
  <2> QED BY <2>1, <2>2, <2>3, StatusRead DEF StatusPending
<1>6. ASSUME NEW c \in Chain, SetupAndConnect(c) PROVE StatusPending'
  <2>1. CASE ConfigSaver /\ Post(<<"clear">>) /\ UNCHANGED screenVars
      BY <1>1, <1>6, <2>1, StatusPosted, Queues DEF SetupAndConnect, screenVars
  <2>2. CASE Fail(<<"clear">>)
      BY <1>1, <2>2, FailShows, Queues DEF StatusPending
  <2> QED BY <1>6, <2>1, <2>2 DEF SetupAndConnect
<1>7. ASSUME NEW c \in Chain, ChainFails(c) PROVE StatusPending'
    BY <1>1, <1>7, FailShows, Queues DEF ChainFails, StatusPending
<1>8. ASSUME NEW c \in Chain, LoadDone(c) PROVE StatusPending'
    BY <1>8 DEF LoadDone, configVars, screenVars, StatusPending
<1>9. ASSUME NEW c \in Chain, SaveDone(c) PROVE StatusPending'
  <2>1. "old" \in profiles' => "old" \in profiles
      BY <1>1, <1>9 DEF SaveDone, Inv, Profiles
  <2> QED BY <1>9, <2>1 DEF SaveDone, configVars, screenVars, StatusPending
<1>10. ASSUME NEW c \in Chain, ReloadDone(c) PROVE StatusPending'
    BY <1>1, <1>10, StatusPosted, Queues DEF ReloadDone, screenVars
<1> QED BY <1>2, <1>3, <1>4, <1>5, <1>6, <1>7, <1>8, <1>9, <1>10 DEF Next

\* When everything has settled after a failure, its error is on the screen, for any
\* number of chains whose blocks mix in the queue.
THEOREM AppShowsFailure == Spec => []FailureShown
<1>1. ErrorPending => FailureShown BY EmptyQueue DEF ErrorPending, FailureShown
<1> QED
    BY <1>1, ErrorPendingInit, ErrorPendingNext, InvInit, InvNext, PTL DEF Spec

\* When no block waits, a shown status that is not the system's is one of a tunnel that
\* is down; and an app that has its VPN profile shows such a one only after a failure.
THEOREM AppShowsStatus == Spec => []WrongStatusExplained
<1>1. StatusPending => WrongStatusExplained
    BY EmptyQueue DEF StatusPending, WrongStatusExplained
<1> QED
    BY <1>1, WatchedInit, WatchedNext, StatusPendingInit, StatusPendingNext, InvInit, InvNext, PTL
    DEF Spec
================================================================================
