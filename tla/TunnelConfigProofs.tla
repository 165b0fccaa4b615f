---------------------------- MODULE TunnelConfigProofs ----------------------------
(* Proofs about TunnelConfig: from the files that startTunnel has written so *)
(* far to the client that the core makes of them.                            *)
EXTENDS TunnelConfig, TLAPS

Loaded == {"cert", "key", "create", "settings", "up"}

\* What startTunnel has done when it is where it is: how old the configuration it
\* works with may be, and what the files and the core hold.
Progress ==
    /\ wanted <= saved /\ x_config <= saved
    /\ x_pc \in Loaded => wanted <= x_config
    /\ x_pc \in Loaded \ {"cert"} => cert_file = x_config
    /\ x_pc \in Loaded \ {"cert", "key"} => key_file = x_config
    /\ x_pc \in {"settings", "up"} => core = x_config

Inv == TypeOK /\ Progress /\ CoreOpensOwnPair

LEMMA InvInit == Init => Inv
BY DEF Init, Inv, TypeOK, Progress, Loaded, CoreOpensOwnPair

LEMMA InvSave == Inv /\ Save => Inv'
BY DEF Inv, TypeOK, Progress, Loaded, CoreOpensOwnPair, Save, files

LEMMA InvStart == Inv /\ Start => Inv'
BY DEF Inv, TypeOK, Progress, Loaded, CoreOpensOwnPair, Start, files

LEMMA InvStop == Inv /\ Stop => Inv'
BY DEF Inv, TypeOK, Progress, Loaded, CoreOpensOwnPair, Stop, files

LEMMA InvStartFails == Inv /\ StartFails => Inv'
BY DEF Inv, TypeOK, Progress, Loaded, CoreOpensOwnPair, StartFails, files

\* The steps of the extension keep the invariant, each from what the ones before it
\* have left.
LEMMA InvExtension == Inv /\ Extension => Inv'
<1> SUFFICES ASSUME Inv, Extension PROVE Inv' OBVIOUS
<1> USE DEF Inv, TypeOK, Progress, Loaded, CoreOpensOwnPair, files
<1>1. CASE Load BY <1>1, InvStartFails DEF Load, LoadConfig
<1>2. CASE WriteCert BY <1>2, InvStartFails DEF WriteCert, WriteFile
<1>3. CASE WriteKey BY <1>3, InvStartFails DEF WriteKey, WriteFile
<1>4. CASE CreateCore BY <1>4, InvStartFails DEF CreateCore
<1>5. CASE ApplySettings BY <1>5, InvStartFails DEF ApplySettings
<1>6. CASE OpenFiles BY <1>6 DEF OpenFiles
<1>7. CASE StopTunnel BY <1>7 DEF StopTunnel
<1>8. CASE ProcessEnds BY <1>8 DEF ProcessEnds
<1> QED BY <1>1, <1>2, <1>3, <1>4, <1>5, <1>6, <1>7, <1>8 DEF Extension

LEMMA InvNext == Inv /\ [Next]_config => Inv'
<1> SUFFICES ASSUME Inv, [Next]_config PROVE Inv' OBVIOUS
<1>1. CASE Next BY <1>1, InvSave, InvStart, InvStop, InvExtension DEF Next
<1>2. CASE UNCHANGED config
    BY <1>2 DEF Inv, TypeOK, Progress, Loaded, CoreOpensOwnPair, config, files
<1> QED BY <1>1, <1>2

\* The inductive invariant holds of every behaviour of the configuration's way.
THEOREM ConfigInvariant == Spec => []Inv
BY InvInit, InvNext, PTL DEF Spec

\* Whatever is saved, written, stopped or cut off on the way, the certificate and
\* the key of a client are those of its core's configuration.
THEOREM OpensOwnPair == Spec => []CoreOpensOwnPair
<1>1. Inv => CoreOpensOwnPair BY DEF Inv
<1> QED BY ConfigInvariant, <1>1, PTL

\* A tunnel that is up runs a configuration at least as new as the requested one.
THEOREM RunsRequested == Spec => []RunsRequestedConfig
<1>1. Inv => RunsRequestedConfig
    BY DEF Inv, TypeOK, Progress, Loaded, RunsRequestedConfig
<1> QED BY ConfigInvariant, <1>1, PTL

\* State is of its type, and a status other than disconnected has a start behind it.
THEOREM ConfigTypes == Spec => []TypeOK
<1>1. Inv => TypeOK BY DEF Inv
<1> QED BY ConfigInvariant, <1>1, PTL
================================================================================
