-------------------------------- MODULE Report --------------------------------
(***************************************************************************)
(* What every command promises of its report and its exit status: findings *)
(* are only ever added, the exit status is given once, after the last of   *)
(* them, and it is 0 only when no finding counts.  A command that cannot   *)
(* do its work exits with 1 and prints no report.                          *)
(***************************************************************************)
CONSTANTS
    Counts(_, _),   \* under which flags the findings make the exit status 1
    Running         \* no exit status yet

VARIABLES flags, findings, exit

TypeOK == exit \in {Running, 0, 1}

Init == findings = {} /\ exit = Running

Add ==
    /\ exit = Running
    /\ findings \subseteq findings'
    /\ UNCHANGED <<flags, exit>>

Finish ==
    /\ exit = Running
    /\ exit' = IF Counts(flags, findings) THEN 1 ELSE 0
    /\ UNCHANGED <<flags, findings>>

Abort ==
    /\ exit = Running
    /\ exit' = 1
    /\ UNCHANGED <<flags, findings>>

Spec == Init /\ [][Add \/ Finish \/ Abort]_<<flags, findings, exit>>

===============================================================================
