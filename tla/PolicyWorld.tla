----------------------------- MODULE PolicyWorld ------------------------------
(***************************************************************************)
(* The cluster as the policy engines see it, and what the engines of       *)
(* NativePolicy, CiliumPolicy and CalicoPolicy say of it.                  *)
(*                                                                         *)
(* A label selector is the set of the pods it matches, a namespace         *)
(* selector the set of namespaces, a CIDR with its exceptions the set of   *)
(* addresses it contains; a pod stands for its own address.  Ports are     *)
(* numbers or names, since ranges and names are where engines differ.      *)
(***************************************************************************)
EXTENDS Naturals, Sequences, FiniteSets, SequencesExt

CONSTANTS
    Pods,             \* pods, and their addresses
    Namespaces,
    NamespaceOf,      \* the namespace of each pod
    PortNames,        \* names of ports
    ContainerPorts,   \* for each pod its container ports, in order
    KubeSystem,       \* the namespace of the DNS pods
    ServiceNames,
    KubeDNS,          \* the Service of the DNS pods
    VIPs,             \* cluster IPs of Services
    Hosts,            \* addresses outside of the cluster
    LinkLocal,        \* those of them that a node-local resolver has
    None              \* no object, no name, no port

MaxPort == 65535
PortNumber == 1..MaxPort
Address == Pods \cup VIPs \cup Hosts

Protocol == {"TCP", "UDP"}

ContainerPort == [name : PortNames \cup {None}, number : PortNumber, protocol : Protocol]

ServicePort == [name : PortNames \cup {None}, port : PortNumber, nodePort : 0..MaxPort,
                target : PortNumber \cup PortNames, protocol : Protocol]

\* chosen is the port that selectServicePort has taken, 0 if there is none;
\* exposed: its type is NodePort or LoadBalancer.
Service == [name : ServiceNames, namespace : Namespaces, vip : VIPs \cup {None},
            ports : Seq(ServicePort), chosen : Nat, exposed : BOOLEAN]

\* The resolver addresses of the source, in the order the engines take them,
\* and what was found of the DNS pods in kube-system.
DNSContext == [nameservers : Seq(Address), service : VIPs \cup {None},
               coreDNS : SUBSET Pods, nodeLocal : SUBSET Pods]

ASSUME WorldAssumption ==
    /\ NamespaceOf \in [Pods -> Namespaces]
    /\ ContainerPorts \in [Pods -> Seq(ContainerPort)]
    /\ LinkLocal \subseteq Hosts /\ Hosts \cap Pods = {}
    /\ KubeSystem \in Namespaces /\ KubeDNS \in ServiceNames
    /\ PortNames \cap Nat = {}
    /\ None \notin PortNames \cup Nat \cup VIPs \cup Pods \cup Namespaces \cup Hosts

\* The container ports of the pods in a sequence.
PortsOf(pods) == UNION {ToSet(ContainerPorts[p]) : p \in ToSet(pods)}

\* How the list of a kind of policies ends: absent where the kind is not installed.
ListOutcome == {"read", "absent", "error"}

\* Selectors and criteria that may be left out.
Optional(S) == {None} \cup SUBSET S

\* What the target port of a Service port resolves to.
TargetNumbers(target, pods) ==
    IF target \in PortNames
    THEN {c.number : c \in {d \in PortsOf(pods) : d.name = target}}
    ELSE {target}

HasChosen(service) == service # None /\ service.chosen # 0

Chosen(service) == service.ports[service.chosen]

\* selectedConnectionPortCandidates: the ports a policy could be written for.
\* Without a chosen port there are none, and every policy port matches.
\* A plausible slip: a policy is only asked about the port of the Service.
ServicePortOnly(service, pods) == IF ~HasChosen(service) THEN {} ELSE {Chosen(service).port}
Candidates(service, pods) ==
    IF ~HasChosen(service) THEN {}
    ELSE {Chosen(service).port} \cup TargetNumbers(Chosen(service).target, pods)

\* What policy.Insight and report.Add keep: the check, its status (the category
\* instead of WARN where there is one), the kind of the diagnosis or "none".
Insight(check, status, diagnosis) ==
    [check |-> check, status |-> status, diagnosis |-> diagnosis]

Plain(check, status) == Insight(check, status, "none")

===============================================================================
