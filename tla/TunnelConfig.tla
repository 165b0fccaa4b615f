------------------------------ MODULE TunnelConfig ------------------------------
(***************************************************************************)
(* The configuration on its way from the app to the core's outbound        *)
(* client: the app saves it in the App Group and asks iOS for the tunnel;  *)
(* the extension loads it, writes the certificate and the key to two files *)
(* and creates a core that knows their paths; the core reads the files     *)
(* when its first session needs a client.  The app may save again, and the *)
(* extension's process may end, between any two of these steps.            *)
(*                                                                         *)
(* A configuration is the number of its save, so that a larger one is the  *)
(* newer one; 0 stands for none.  iOS is external: it starts one tunnel at *)
(* a time, and only when the app asks for it.                              *)
(***************************************************************************)
EXTENDS Naturals

CONSTANT Known  \* configurations whose mode is "s2n-quic" or "tlstcp"

VARIABLES
    saved,      \* configuration in the App Group defaults
    wanted,     \* configuration of the request that started the tunnel
    sys,        \* the system's status of the tunnel
    x_pc,       \* where startTunnel is
    x_config,   \* configuration it has loaded
    cert_file,  \* whose certificate client.crt holds
    key_file,   \* whose key client.key holds
    core,       \* configuration of the provider's core
    opened      \* whose certificate and key that core's client was made with

files == <<cert_file, key_file>>
config == <<saved, wanted, sys, x_pc, x_config, files, core, opened>>

Init ==
    /\ saved \in 0 .. 1 /\ wanted = 0 /\ sys = "disconnected"
    /\ x_pc = "idle" /\ x_config = 0
    /\ cert_file = 0 /\ key_file = 0
    /\ core = 0 /\ opened = <<0, 0>>

--------------------------------------------------------------------------------
(* Requests of the app                                                       *)

Save ==
    /\ saved' = saved + 1
    /\ UNCHANGED <<wanted, sys, x_pc, x_config, files, core, opened>>

\* The system starts a tunnel for a configuration that was saved before.
Start ==
    /\ sys = "disconnected" /\ x_pc = "idle"
    /\ wanted' \in 1 .. saved
    /\ sys' = "connecting" /\ x_pc' = "load"
    /\ UNCHANGED <<saved, x_config, files, core, opened>>

Stop ==
    /\ sys \in {"connecting", "connected"}
    /\ sys' = "disconnecting"
    /\ UNCHANGED <<saved, wanted, x_pc, x_config, files, core, opened>>

--------------------------------------------------------------------------------
(* The extension                                                             *)

\* startTunnel reports an error.
StartFails ==
    /\ x_pc' = "idle" /\ sys' = "disconnected"
    /\ UNCHANGED <<saved, wanted, x_config, files, core, opened>>

\* Mutant: a process that has loaded a configuration before uses it again.
LoadOnce == IF x_config = 0 THEN saved ELSE x_config

LoadConfig == saved

Load ==
    /\ x_pc = "load"
    /\ \/ StartFails
       \/ /\ saved # 0
          /\ x_config' = LoadConfig /\ x_pc' = "cert"
          /\ UNCHANGED <<saved, wanted, sys, files, core, opened>>

\* Mutant: the file is written when there is none.
WriteIfMissing(file) == IF file = 0 THEN x_config ELSE file

WriteFile(file) == x_config

WriteCert ==
    /\ x_pc = "cert"
    /\ \/ StartFails
       \/ /\ cert_file' = WriteFile(cert_file) /\ x_pc' = "key"
          /\ UNCHANGED <<saved, wanted, sys, x_config, key_file, core, opened>>

WriteKey ==
    /\ x_pc = "key"
    /\ \/ StartFails
       \/ /\ key_file' = WriteFile(key_file) /\ x_pc' = "create"
          /\ UNCHANGED <<saved, wanted, sys, x_config, cert_file, core, opened>>

\* TunnelMode::parse
TunnelMode(config_no) == config_no \in Known

\* The core is created, unless its mode is not known, wired and started; its
\* connection manager is new.
CreateCore ==
    /\ x_pc = "create"
    /\ \/ StartFails
       \/ /\ TunnelMode(x_config)
          /\ core' = x_config /\ opened' = <<0, 0>> /\ x_pc' = "settings"
          /\ UNCHANGED <<saved, wanted, sys, x_config, files>>

\* An error in the settings callback leaves the core where it is.
ApplySettings ==
    /\ x_pc = "settings"
    /\ \/ StartFails
       \/ /\ x_pc' = "up"
          /\ sys' = IF sys = "connecting" THEN "connected" ELSE sys
          /\ UNCHANGED <<saved, wanted, x_config, files, core, opened>>

\* The first session of the core parses the mode once more and makes the client from
\* the two files.
OpenFiles ==
    /\ x_pc = "up" /\ TunnelMode(core) /\ opened = <<0, 0>>
    /\ opened' = files
    /\ UNCHANGED <<saved, wanted, sys, x_pc, x_config, files, core>>

\* Mutant: the system is told that the tunnel is down, and the core goes on.
StopAndRunOn ==
    /\ sys = "disconnecting" /\ x_pc \in {"settings", "up"}
    /\ sys' = "disconnected"
    /\ UNCHANGED <<saved, wanted, x_pc, x_config, files, core, opened>>

\* stopTunnel, which the system calls when startTunnel has returned.
StopTunnel ==
    /\ sys = "disconnecting" /\ x_pc \in {"settings", "up"}
    /\ x_pc' = "idle" /\ sys' = "disconnected" /\ core' = 0 /\ opened' = <<0, 0>>
    /\ UNCHANGED <<saved, wanted, x_config, files>>

\* The extension's process ends; the files stay.
ProcessEnds ==
    /\ x_pc # "idle" \/ core # 0
    /\ x_pc' = "idle" /\ sys' = "disconnected" /\ core' = 0 /\ opened' = <<0, 0>>
    /\ UNCHANGED <<saved, wanted, x_config, files>>

Extension ==
    Load \/ WriteCert \/ WriteKey \/ CreateCore \/ ApplySettings \/ OpenFiles \/ StopTunnel
        \/ ProcessEnds

Next == Save \/ Start \/ Stop \/ Extension

Spec == Init /\ [][Next]_config

--------------------------------------------------------------------------------

\* State is of its type, and a status other than disconnected has a start behind it.
TypeOK ==
    /\ saved \in Nat /\ wanted \in Nat /\ x_config \in Nat /\ core \in Nat
    /\ cert_file \in Nat /\ key_file \in Nat /\ opened \in Nat \X Nat
    /\ sys \in {"disconnected", "connecting", "connected", "disconnecting"}
    /\ x_pc \in {"idle", "load", "cert", "key", "create", "settings", "up"}
    /\ sys = "disconnected" => x_pc = "idle"

\* The certificate and the key that a core uses are both those of its own
\* configuration, whatever was saved, written or cut off before it read them.
CoreOpensOwnPair == opened # <<0, 0>> => opened = <<core, core>>

\* A tunnel that is up runs a configuration that is not older than the one it was
\* started for.
RunsRequestedConfig == x_pc = "up" => core >= wanted /\ core <= saved
================================================================================
