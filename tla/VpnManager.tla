------------------------------- MODULE VpnManager -------------------------------
(***************************************************************************)
(* The app's VPNManager and the button above it: setupAndConnect saves the *)
(* configuration and walks through a chain of asynchronous preference      *)
(* calls that ends in startTunnel; the status that is shown, and the last  *)
(* error, are set by blocks on the main queue and by the system's          *)
(* notifications.  The tunnel on the other side is TunnelConfig.           *)
(*                                                                         *)
(* External: the preference calls complete or fail, at any time, one after *)
(* another for each chain; the system posts a notification for each change *)
(* of the tunnel's status, which runs on the main queue; a manager that    *)
(* was never saved is invalid or disconnected, and one whose profile is    *)
(* not the tunnel's is disconnected; asking for a tunnel while one is not  *)
(* down changes nothing.  A manager made because none was found is named   *)
(* after the chain that made it ("own": init), so that two can be made.    *)
(***************************************************************************)
EXTENDS Naturals, Sequences

CONSTANTS
    Chain,     \* calls of setupAndConnect that can be under way at once
    Known,     \* see TunnelConfig
    MaxSaves,  \* bound: configurations the user saves
    MaxMain    \* bound: blocks waiting in the main queue

ASSUME ChainAssumption == Chain \cap {"none", "own", "old"} = {}

VARIABLES
    saved, wanted, sys, x_pc, x_config, cert_file, key_file, core, opened,  \* see TunnelConfig
    profiles,  \* managers in the system's preferences
    active,    \* the one the tunnel was last started for
    manager,   \* tunnelManager
    loading,   \* the call of init is under way
    pc,        \* the call each chain waits for
    mine,      \* the manager each chain works on
    version,   \* the configuration of each chain
    main,      \* blocks waiting in the main queue
    status,    \* the status that is shown
    error,     \* lastErrorMessage is set
    shown_by,  \* what last set the shown status (history)
    outcome    \* how the last call of setupAndConnect that ended did (history)

Config == INSTANCE TunnelConfig

configVars == <<saved, wanted, sys, x_pc, x_config, cert_file, key_file, core, opened>>
chainVars == <<profiles, active, manager, loading, pc, mine, version, outcome>>
screenVars == <<status, error, shown_by>>
vars == <<configVars, chainVars, main, screenVars>>

Init ==
    /\ Config!Init
    /\ profiles \in {{}, {"old"}} /\ active = "none" /\ manager = "none" /\ loading = TRUE
    /\ pc = [c \in Chain |-> "idle"]
    /\ mine = [c \in Chain |-> "none"] /\ version = [c \in Chain |-> 0]
    /\ main = <<>>
    /\ status = "disconnected" /\ error = FALSE
    /\ shown_by = "init" /\ outcome = "none"

--------------------------------------------------------------------------------
(* The main queue                                                            *)

\* The blocks of clearError, of fail and of the observer of the status.
Block == {"clear", "fail", "update"}

\* connectionStatus of the manager.
ConnectionStatus(m) ==
    IF m \notin profiles THEN {"invalid", "disconnected"}
    ELSE IF m = active THEN {sys} ELSE {"disconnected"}

\* Mutant: nothing is shown while a chain is under way.
UpdateWhenIdle(m) ==
    IF m # "none" /\ \A c \in Chain : pc[c] = "idle"
    THEN status' \in ConnectionStatus(m) /\ shown_by' = "system"
    ELSE UNCHANGED status /\ shown_by' = IF m = "none" THEN shown_by ELSE "system"

\* updateStatus; without a manager nothing is shown.
UpdateStatus(m) ==
    IF m # "none"
    THEN status' \in ConnectionStatus(m) /\ shown_by' = "system"
    ELSE UNCHANGED <<status, shown_by>>

\* One block of the main queue: clearError's, fail's, or a notification.
RunBlock ==
    /\ main # <<>>
    /\ main' = Tail(main)
    /\ \/ /\ Head(main) = "clear"
          /\ error' = FALSE
          /\ UNCHANGED <<status, shown_by>>
       \/ /\ Head(main) = "fail"
          /\ error' = TRUE /\ status' = "disconnected" /\ shown_by' = "fail"
       \/ /\ Head(main) = "update"
          /\ UpdateStatus(manager)
          /\ UNCHANGED error
    /\ UNCHANGED <<configVars, chainVars>>

\* What a step posts; a change of the system's status posts a notification after it.
Post(blocks) ==
    /\ main' = main \o blocks \o (IF sys' # sys THEN <<"update">> ELSE <<>>)
    /\ Len(main') <= MaxMain

\* Mutant: fail sets the message at once.
FailNow(blocks) == Post(blocks) /\ error' = TRUE /\ UNCHANGED <<status, shown_by>>

\* fail: the message and the status are set by a block.
Fail(blocks) == Post(Append(blocks, "fail")) /\ UNCHANGED screenVars

--------------------------------------------------------------------------------
(* The button                                                                *)

\* Mutant: the chain starts without the configuration being saved.
DontSave == UNCHANGED configVars

ConfigSaver == Config!Save

\* A tap while the status shows that the tunnel is down: setupAndConnect clears the
\* error, saves, and asks for the managers.
SetupAndConnect(c) ==
    /\ status = "disconnected" /\ pc[c] = "idle" /\ saved < MaxSaves
    /\ \/ /\ ConfigSaver
          /\ pc' = [pc EXCEPT ![c] = "load"]
          /\ version' = [version EXCEPT ![c] = saved + 1]
          /\ Post(<<"clear">>)
          /\ UNCHANGED <<screenVars, outcome>>
       \/ /\ UNCHANGED <<configVars, pc, version>>
          /\ Fail(<<"clear">>)
          /\ outcome' = "failed"
    /\ UNCHANGED <<profiles, active, manager, loading, mine>>

\* A tap while it shows anything but that it is down or being connected.
Disconnect ==
    /\ status \notin {"disconnected", "connecting"}
    /\ manager \in profiles /\ manager = active
    /\ Config!Stop
    /\ Post(<<>>)
    /\ UNCHANGED <<chainVars, screenVars>>

--------------------------------------------------------------------------------
(* Preference calls                                                          *)

\* Mutant: a new manager is made each time.
AlwaysNew(new) == {new}

\* loadAndCreateManager: one of the managers found, or a new one.
LoadAndCreateManager(new) == IF profiles = {} THEN {new} ELSE profiles

\* init's call has completed or failed.
InitLoaded ==
    /\ loading /\ loading' = FALSE
    /\ manager' \in {manager} \cup LoadAndCreateManager("own")
    /\ UpdateStatus(manager')
    /\ UNCHANGED <<configVars, profiles, active, pc, mine, version, outcome, main, error>>

ChainEnds(c) ==
    /\ pc' = [pc EXCEPT ![c] = "idle"]
    /\ mine' = [mine EXCEPT ![c] = "none"]
    /\ version' = [version EXCEPT ![c] = 0]

\* A call of chain c fails, and so does the chain.
ChainFails(c) ==
    /\ pc[c] # "idle" /\ ChainEnds(c)
    /\ UNCHANGED <<configVars, profiles, active, manager, loading>>
    /\ outcome' = "failed"
    /\ Fail(<<>>)

\* loadAllFromPreferences: tunnelManager is replaced, and nothing is shown.
LoadDone(c) ==
    /\ pc[c] = "load" /\ pc' = [pc EXCEPT ![c] = "save"]
    /\ manager' \in LoadAndCreateManager(c)
    /\ mine' = [mine EXCEPT ![c] = manager']
    /\ UNCHANGED <<configVars, profiles, active, loading, version, outcome, main, screenVars>>

\* saveToPreferences, of the chain's own manager.
SaveDone(c) ==
    /\ pc[c] = "save" /\ pc' = [pc EXCEPT ![c] = "reload"]
    /\ profiles' = profiles \cup {mine[c]}
    /\ UNCHANGED <<configVars, active, manager, loading, mine, version, outcome, main, screenVars>>

\* loadFromPreferences, and startTunnel, which does not throw.
ReloadDone(c) ==
    /\ pc[c] = "reload" /\ ChainEnds(c)
    /\ IF sys = "disconnected"
       THEN /\ sys' = "connecting" /\ x_pc' = "load"
            /\ wanted' = version[c] /\ active' = mine[c]
            /\ UNCHANGED <<saved, x_config, cert_file, key_file, core, opened>>
       ELSE UNCHANGED <<configVars, active>>
    /\ outcome' = "started"
    /\ Post(<<"clear">>)
    /\ UNCHANGED <<profiles, manager, loading, screenVars>>

--------------------------------------------------------------------------------

\* The extension and the system.
Tunnel ==
    /\ Config!Extension
    /\ Post(<<>>)
    /\ UNCHANGED <<chainVars, screenVars>>

Next ==
    \/ RunBlock \/ Disconnect \/ InitLoaded \/ Tunnel
    \/ \E c \in Chain : \/ SetupAndConnect(c) \/ ChainFails(c)
                        \/ LoadDone(c) \/ SaveDone(c) \/ ReloadDone(c)

Spec == Init /\ [][Next]_vars

--------------------------------------------------------------------------------
(* Properties                                                                *)

\* State is of its type.
TypeOK ==
    /\ Config!TypeOK
    /\ profiles \subseteq {"old"} \cup Chain
    /\ active \in {"none"} \cup profiles
    /\ manager \in {"none", "own", "old"} \cup Chain
    /\ loading \in BOOLEAN /\ error \in BOOLEAN
    /\ pc \in [Chain -> {"idle", "load", "save", "reload"}]
    /\ mine \in [Chain -> {"none", "old"} \cup Chain]
    /\ version \in [Chain -> 0 .. saved]
    /\ main \in Seq(Block)
    /\ status \in {"invalid", "disconnected", "connecting", "connected", "disconnecting"}
    /\ shown_by \in {"init", "system", "fail"}
    /\ outcome \in {"none", "failed", "started"}

\* Both files that a core's client is made from are of the core's own configuration.
CoreOpensOwnPair == Config!CoreOpensOwnPair

\* A tunnel that is up runs a configuration at least as new as the one whose tap
\* started it, although two chains may be under way at once.
RunsRequestedConfig == Config!RunsRequestedConfig

\* The app keeps its side of TunnelConfig: it asks for a tunnel only with a
\* configuration that it has saved before.
ImplementsConfig == Config!Spec

\* An app that has its VPN profile never makes a second one, however its taps overlap
\* with each other and with init's load.  (Without one, two taps can make two.)
KeepsProfile == "old" \in profiles => profiles = {"old"}

\* With no block waiting, the app shows the tunnel as up, or on its way up or down,
\* only when it is: not after a late notification, a failure, or a chain or init's load
\* that replaced the manager in between.  An app that has its VPN profile shows a tunnel
\* that is not down as down only when a failure was the last to be shown.  (Without a
\* profile, two taps can make two, and the app watch the wrong one.)
WrongStatusExplained ==
    main = <<>> /\ status # sys =>
        /\ status \in {"invalid", "disconnected"}
        /\ "old" \in profiles => shown_by = "fail"

\* When everything has settled and the last call of setupAndConnect to end has
\* failed, its error is on the screen: no other chain's block has removed it.
FailureShown ==
    main = <<>> /\ outcome = "failed" /\ (\A c \in Chain : pc[c] = "idle") => error
================================================================================
