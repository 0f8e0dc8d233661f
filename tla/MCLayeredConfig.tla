--------------------------- MODULE MCLayeredConfig ---------------------------
(* Instances of LayeredConfig for TLC: two providers, one workload.        *)
EXTENDS LayeredConfig, TLC

CONSTANTS p, q, w, key, other, std, alt

MCProviders == {p, q}
MCWorkloads == {w}
MCKeys == {key, other}
MCPorts == {std, alt}

Conf(ofP, ofQ, ofW, slot, port) ==
    (p :> ofP) @@ (q :> ofQ) @@ (w :> ofW) @@ (Slot :> slot) @@ (Port :> port)

MCDefaults == Conf(Unset, Absent, p, w, std)

(* A new provider with its key, its removal, the workload moved to it, the *)
(* workload removed, the port.                                             *)
MCRequests ==
    {Conf(Absent, key, Absent, Absent, Absent), Conf(Absent, Remove, Absent, Absent, Absent),
     Conf(Absent, Absent, q, Absent, Absent), Conf(Absent, Absent, Remove, Absent, alt)}

(* Two keys for the default provider, another provider without a key and   *)
(* its workload, a reference that only the default configuration satisfies,*)
(* a dangling one.                                                         *)
MCDrafts ==
    {Conf(key, Absent, Absent, Absent, Absent), Conf(other, Absent, Absent, Absent, Absent),
     Conf(Unset, Unset, q, Absent, Absent),
     Conf(Absent, Absent, Absent, w, alt), Conf(Absent, Absent, q, Absent, Absent)}
=============================================================================
