----------------------------- MODULE DivertsSpec -----------------------------
(***************************************************************************)
(* What divert Create and Delete (src/pkg/k8s/diverts/crud.go) promise     *)
(* their callers, `okteto up' and `okteto down', about the objects of one  *)
(* divert on the cluster.  A command runs over several steps; while it     *)
(* runs, Create only adds objects and Delete only removes them, and a      *)
(* command that returns nil has left every object of the divert present    *)
(* (Create) or absent (Delete).  A failed command promises only the first  *)
(* half, whatever step it failed at.                                       *)
(***************************************************************************)
CONSTANTS
    Kinds,      \* the objects a divert consists of
    Results     \* what a command may return; "ok" is nil

VARIABLES
    objs,       \* the objects of the divert that exist
    busy,       \* the command running: "none", "create" or "delete"
    result      \* what the last command returned

\* The objects a successful command leaves.
Target(op) == IF op = "create" THEN Kinds ELSE {}

\* The direction in which a command may move the cluster.
Moves(op) == IF op = "create" THEN objs \subseteq objs' ELSE objs' \subseteq objs

Init ==
    /\ objs \in {{}, Kinds}
    /\ busy = "none"
    /\ result = "none"

Begin(op) ==
    /\ busy = "none"
    /\ busy' = op
    /\ UNCHANGED <<objs, result>>

\* One step of the running command: it moves the cluster in its direction,
\* and may end; it ends with nil only at its target.
Step ==
    /\ busy # "none"
    /\ objs' \subseteq Kinds
    /\ Moves(busy)
    /\ \/ busy' = busy /\ UNCHANGED result
       \/ /\ busy' = "none"
          /\ result' \in Results
          /\ result' = "ok" => objs' = Target(busy)

Next == (\E op \in {"create", "delete"} : Begin(op)) \/ Step

Spec == Init /\ [][Next]_<<objs, busy, result>>
=============================================================================
