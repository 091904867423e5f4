---------------------------- MODULE MCServiceCheck ----------------------------
(***************************************************************************)
(* Instances of ServiceCheck for TLC: command lines, Services and pods.    *)
(***************************************************************************)
EXTENDS ServiceCheck, TLC

CONSTANTS web, metrics

Plain == [sourceBy |-> "selector", otherContext |-> FALSE, otherNamespace |-> FALSE,
          targetSelector |-> FALSE, namedDeployment |-> FALSE, port |-> 0,
          skipNodePort |-> FALSE, failOnWarn |-> TRUE, ignored |-> {}]

\* A source of each kind, a port that no Service has, ignored warnings.
MCOptions ==
    {Plain,
     [Plain EXCEPT !.sourceBy = "debugPod", !.otherNamespace = TRUE, !.port = 81],
     [Plain EXCEPT !.sourceBy = "name", !.skipNodePort = TRUE, !.ignored = {"policy-ambiguous"}],
     [Plain EXCEPT !.sourceBy = "nothing", !.failOnWarn = FALSE]}

ContextOptions ==
    {[Plain EXCEPT !.sourceBy = by, !.otherContext = TRUE] : by \in {"debugPod", "pod", "deployment"}}

TCP(number, target) == [port |-> number, target |-> target, tcp |-> TRUE, nodePort |-> FALSE]

ClusterIP == [type |-> "ClusterIP", headless |-> FALSE, selector |-> TRUE, ports |-> <<TCP(80, web)>>]

\* A named port, a headless Service whose port is shifted, a selectorless
\* NodePort Service, an ExternalName, and one number for two protocols.
MCServices ==
    {ClusterIP,
     [ClusterIP EXCEPT !.headless = TRUE, !.ports = <<TCP(80, 8080)>>],
     [ClusterIP EXCEPT !.type = "NodePort", !.selector = FALSE,
                       !.ports = <<[TCP(80, 8080) EXCEPT !.nodePort = TRUE]>>],
     [ClusterIP EXCEPT !.type = "ExternalName", !.selector = FALSE, !.ports = <<TCP(81, 81)>>],
     [ClusterIP EXCEPT !.ports = <<[TCP(80, 53) EXCEPT !.tcp = FALSE], TCP(80, 53)>>]}

Portless ==
    {[ClusterIP EXCEPT !.type = "ExternalName", !.selector = FALSE, !.ports = <<>>],
     [ClusterIP EXCEPT !.headless = TRUE, !.ports = <<>>]}

Container(name, number) == [name |-> name, number |-> number, tcp |-> TRUE]

Healthy == [running |-> TRUE, ready |-> TRUE, ip |-> TRUE, sidecar |-> FALSE,
            ports |-> <<Container(web, 8080)>>]

\* Pods that have the port, that declare none, and that have another one.
MCPodLists ==
    {<<Healthy, [Healthy EXCEPT !.ready = FALSE]>>,
     <<[Healthy EXCEPT !.sidecar = TRUE, !.ports = <<>>]>>,
     <<[Healthy EXCEPT !.ports = <<Container(metrics, 9090)>>]>>}

===============================================================================
