------------------------------- MODULE MCSistema -------------------------------
(***************************************************************************)
(* Values of the constants for the runs of Sistema.                        *)
(***************************************************************************)
EXTENDS Sistema

CONSTANTS R1, R2, I1, I2

UnRecurso == [r \in {R1} |-> 1]
SinInstancias == [r \in {R1} |-> 0]

\* Only one process asks for IO: two requests in course would share paramsIo.
ProgramasPlanificacion ==
    [p \in Pids |-> CASE p = 1 -> <<{"IO", "EXIT"}>>
                      [] p = 2 -> <<{"COMUN", "EXIT"}>>
                      [] OTHER -> <<{"ERROR", "EXIT"}>>]

\* A holder of the resource that is ended while it waits for the interface, and a
\* process that waits for the resource meanwhile.
ProgramasConsola ==
    [p \in Pids |-> IF p = 1 THEN <<{"WAIT"}, {"IO"}>> ELSE <<{"WAIT"}, {"WAIT"}>>]

\* Two processes may be waiting when a third signals the resource; the one that uses
\* the interface takes none.
ProgramasEsperas ==
    [p \in Pids |-> CASE p = 1 -> <<{"WAIT", "COMUN", "EXIT"}>>
                      [] p = 2 -> <<{"WAIT", "ERROR", "EXIT"}>>
                      [] OTHER -> <<{"IO", "SIGNAL", "EXIT"}>>]

===============================================================================
