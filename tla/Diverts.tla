------------------------------- MODULE Diverts -------------------------------
(***************************************************************************)
(* Divert Create and Delete (src/pkg/k8s/diverts/crud.go) run by a client  *)
(* against the cluster.  Each call to the API server is one step; any of  *)
(* them may fail, and the client may be interrupted between two of them.  *)
(* Create deploys the divert service, then the divert ingress, then the   *)
(* divert CRD; Delete removes them in the opposite order.  The user runs   *)
(* commands and reruns one that failed with an API error.                  *)
(***************************************************************************)
EXTENDS Naturals

CONSTANTS
    MaxFailures,    \* API failures and interruptions in one behaviour
    MaxRuns         \* commands the user starts (reruns not counted)

ASSUME DivertsAssumption == MaxFailures \in Nat /\ MaxRuns \in Nat

\* The objects of one divert: the divert service, ingress and CRD.
Kinds == {"svc", "ing", "crd"}

\* nil, an API error worth a rerun, an error a rerun cannot fix (a missing
\* source object), and ErrDivertNotSupported.
Results == {"ok", "err", "fatal", "unsupported"}

VARIABLES
    pc,         \* the client's step, or "idle"
    op,         \* the command running or last run: "create" or "delete"
    cluster,    \* the objects of the divert that exist
    oktetoCtx,  \* okteto.IsOktetoContext()
    crdAPI,     \* the cluster serves the Divert custom resource
    source,     \* which of the app, service and ingress to divert exist
    result,     \* what the last command returned
    failures,   \* failed calls so far
    runs        \* commands started so far

vars == <<pc, op, cluster, oktetoCtx, crdAPI, source, result, failures, runs>>

Env == <<oktetoCtx, crdAPI, source>>

\* The command returns r.
Return(r) == pc' = "idle" /\ result' = r

\* The command goes on at step s.
Goto(s) == pc' = s /\ UNCHANGED result

\* Mutant: Delete removes the ingress before the CRD.
FirstIngressFirst(o) == IF o = "create" THEN "ctx" ELSE "delIng"

\* The first step of a command.
First(o) == IF o = "create" THEN "ctx" ELSE "delCrd"

-----------------------------------------------------------------------------
(* Create                                                                  *)

\* if !okteto.IsOktetoContext() { return errors.ErrDivertNotSupported }
CreateCheck ==
    /\ pc = "ctx"
    /\ IF oktetoCtx THEN Goto("app") ELSE Return("unsupported")
    /\ UNCHANGED cluster

\* divertApp: apps.Get; a missing app is returned as an error.
DivertApp ==
    /\ pc = "app"
    /\ IF "app" \in source THEN Goto("svc") ELSE Return("fatal")
    /\ UNCHANGED cluster

\* divertService: services.Get of the source service (a missing one is
\* "doesn't exist"), translateService, then services.Deploy, which creates
\* or updates the divert service.
DivertService ==
    /\ pc = "svc"
    /\ \/ "svc" \notin source /\ Return("fatal") /\ UNCHANGED cluster
       \/ "svc" \in source /\ cluster' = cluster \cup {"svc"} /\ Goto("ing")

\* Mutant: the error of divertIngress is not checked (line 52 dropped).
DivertIngressUnchecked ==
    /\ pc = "ing"
    /\ \/ "ing" \notin source /\ Goto("crd") /\ UNCHANGED cluster
       \/ "ing" \in source /\ cluster' = cluster \cup {"ing"} /\ Goto("crd")

\* Mutant: the divert ingress is deployed under a name Delete does not use.
DivertIngressOtherName ==
    /\ pc = "ing"
    /\ \/ "ing" \notin source /\ Return("fatal") /\ UNCHANGED cluster
       \/ "ing" \in source /\ cluster' = cluster \cup {"ing2"} /\ Goto("crd")

\* divertIngress: ingressesv1.Get, translateIngress, ingressesv1.Deploy.
DivertIngress ==
    /\ pc = "ing"
    /\ \/ "ing" \notin source /\ Return("fatal") /\ UNCHANGED cluster
       \/ "ing" \in source /\ cluster' = cluster \cup {"ing"} /\ Goto("crd")

\* Mutant: the errors of the CRD Get and write are not checked.
CreateDivertCRDUnchecked ==
    /\ pc = "crd"
    /\ \/ ~crdAPI /\ Return("ok") /\ UNCHANGED cluster
       \/ crdAPI /\ cluster' = cluster \cup {"crd"} /\ Return("ok")

\* createDivertCRD: Get the CRD.  Without the Divert resource Get fails
\* with an error that is not NotFound, which is returned (line 116).
\* NotFound yields an empty old, so the CRD is created (line 121); an
\* existing one is updated in place (line 133).  Then nil.
CreateDivertCRD ==
    /\ pc = "crd"
    /\ \/ ~crdAPI /\ Return("fatal") /\ UNCHANGED cluster
       \/ crdAPI /\ "crd" \notin cluster /\ cluster' = cluster \cup {"crd"} /\ Return("ok")
       \/ crdAPI /\ "crd" \in cluster /\ Return("ok") /\ UNCHANGED cluster

-----------------------------------------------------------------------------
(* Delete                                                                  *)

\* Mutant: NotFound from the CRD delete is an error (line 155 dropped).
DeleteCRDNotFoundFails ==
    /\ pc = "delCrd"
    /\ \/ ~crdAPI /\ Return("unsupported") /\ UNCHANGED cluster
       \/ crdAPI /\ "crd" \notin cluster /\ Return("err") /\ UNCHANGED cluster
       \/ crdAPI /\ "crd" \in cluster /\ cluster' = cluster \ {"crd"} /\ Goto("delIng")

\* GetClient, then Delete of the CRD: "could not find the requested
\* resource" is ErrDivertNotSupported, NotFound is success.
DeleteCRD ==
    /\ pc = "delCrd"
    /\ \/ ~crdAPI /\ Return("unsupported") /\ UNCHANGED cluster
       \/ crdAPI /\ cluster' = cluster \ {"crd"} /\ Goto("delIng")

\* ingressesv1.Destroy of the divert ingress; NotFound is success.
DeleteIngress ==
    /\ pc = "delIng"
    /\ cluster' = cluster \ {"ing"}
    /\ Goto("delSvc")

\* services.Destroy of the divert service; NotFound is success.  Delete
\* then returns nil.
DeleteService ==
    /\ pc = "delSvc"
    /\ cluster' = cluster \ {"svc"}
    /\ Return("ok")

-----------------------------------------------------------------------------
(* The API server and the user                                             *)

\* The call of the current step fails (a network or server error, or a
\* client that cannot be built), or the user interrupts the command: it
\* returns an error and the cluster keeps what the earlier steps did.
CallFails ==
    /\ pc \notin {"idle", "ctx"}
    /\ failures < MaxFailures
    /\ failures' = failures + 1
    /\ Return("err")
    /\ UNCHANGED <<op, cluster, runs>>

\* The user runs `okteto up' (Create) or `okteto down' (Delete).
Run(o) ==
    /\ pc = "idle"
    /\ runs < MaxRuns
    /\ runs' = runs + 1
    /\ op' = o
    /\ pc' = First(o)
    /\ UNCHANGED <<cluster, result, failures>>

\* The user reruns a command that failed with an API error.
Rerun ==
    /\ pc = "idle"
    /\ result = "err"
    /\ pc' = First(op)
    /\ UNCHANGED <<op, cluster, result, failures, runs>>

\* The user is done: no command is left to run.
Done ==
    /\ pc = "idle"
    /\ runs = MaxRuns
    /\ result # "err"
    /\ UNCHANGED vars

Init ==
    /\ pc = "idle"
    /\ op = "create"
    /\ crdAPI \in BOOLEAN
    /\ cluster \in IF crdAPI THEN {{}, Kinds} ELSE {{}}   \* no Divert resource, no CRD
    /\ oktetoCtx \in BOOLEAN
    /\ source \in SUBSET {"app", "svc", "ing"}
    /\ result = "none"
    /\ failures = 0
    /\ runs = 0

Client == CreateCheck \/ DivertApp \/ DivertService \/ DivertIngress
          \/ CreateDivertCRD \/ DeleteCRD \/ DeleteIngress \/ DeleteService

Next ==
    \/ Client /\ UNCHANGED <<op, Env, failures, runs>>
    \/ CallFails /\ UNCHANGED Env
    \/ (\E o \in {"create", "delete"} : Run(o)) /\ UNCHANGED Env
    \/ Rerun /\ UNCHANGED Env
    \/ Done

\* A started command runs on, and a user who got an API error reruns the
\* command; the user's first choice of command and the API failures are
\* not fair.
Fairness ==
    /\ WF_vars(Client /\ UNCHANGED <<op, Env, failures, runs>>)
    /\ WF_vars(Rerun /\ UNCHANGED Env)

Spec == Init /\ [][Next]_vars
FairSpec == Spec /\ Fairness

-----------------------------------------------------------------------------
(* Properties                                                              *)

TypeOK ==
    /\ pc \in {"idle", "ctx", "app", "svc", "ing", "crd",
               "delCrd", "delIng", "delSvc"}
    /\ op \in {"create", "delete"}
    /\ cluster \subseteq Kinds
    /\ oktetoCtx \in BOOLEAN /\ crdAPI \in BOOLEAN
    /\ source \subseteq {"app", "svc", "ing"}
    /\ result \in Results \cup {"none"}
    /\ failures \in 0..MaxFailures
    /\ runs \in 0..MaxRuns

(* The divert CRD, which the divert controller reconciles into routes to  *)
(* the divert service and ingress, never exists without them: Create      *)
(* writes it last and Delete removes it first, whatever call fails and    *)
(* whatever commands the user reruns.                                      *)
NoDanglingCRD == "crd" \in cluster => {"svc", "ing"} \subseteq cluster

(* Every API error is eventually overcome by rerunning the command: a     *)
(* Delete rerun after a partial Delete treats the objects already removed *)
(* as gone (NotFound is success), and a rerun Create updates what exists. *)
Settles == <>[](pc = "idle" /\ result # "err")

(* The client implements the contract of DivertsSpec: the command running *)
(* is the abstract one and the cluster is its set of objects.             *)
busyBar == IF pc = "idle" THEN "none" ELSE op

Abstract == INSTANCE DivertsSpec WITH objs <- cluster, busy <- busyBar

AbstractSpec == Abstract!Spec

(* Delete returns ErrDivertNotSupported only where no divert object can   *)
(* exist, so `okteto down' leaves nothing behind when it reports it.      *)
NotSupportedLeavesNothing ==
    (pc = "idle" /\ op = "delete" /\ result = "unsupported") => cluster = {}
=============================================================================
