---------------------------- MODULE DivertsProofs ----------------------------
(***************************************************************************)
(* Proofs about Diverts, for every value of MaxFailures and MaxRuns: the  *)
(* types, the order in which Create and Delete touch the CRD, and that    *)
(* the client implements the contract of DivertsSpec.                     *)
(***************************************************************************)
EXTENDS Diverts, TLAPS

(* A step belongs to the command that is running, and where the client is *)
(* in it bounds what the cluster holds: Create reaches its CRD step only  *)
(* after deploying the service and the ingress, and Delete goes past its  *)
(* CRD step only once the CRD is gone, and past its ingress step only     *)
(* once the ingress is gone too.                                           *)
StepOrder ==
    /\ pc \in {"ctx", "app", "svc", "ing", "crd"} => op = "create"
    /\ pc \in {"delCrd", "delIng", "delSvc"} => op = "delete"
    /\ pc = "ing" => "svc" \in cluster
    /\ pc = "crd" => {"svc", "ing"} \subseteq cluster
    /\ pc = "delIng" => "crd" \notin cluster
    /\ pc = "delSvc" => cluster \subseteq {"svc"}

IInv == TypeOK /\ StepOrder /\ NoDanglingCRD

-----------------------------------------------------------------------------
(* The invariant                                                           *)

\* The values the client's steps write are typed.
LEMMA ClientStep ==
    ASSUME IInv, Client, UNCHANGED <<op, Env, failures, runs>>
    PROVE  IInv'
<1> USE DEF IInv, TypeOK, StepOrder, NoDanglingCRD, Return, Goto, Env, Kinds, Results
<1>1. CASE CreateCheck  BY <1>1 DEF CreateCheck
<1>2. CASE DivertApp  BY <1>2 DEF DivertApp
<1>3. CASE DivertService  BY <1>3 DEF DivertService
<1>4. CASE DivertIngress  BY <1>4 DEF DivertIngress
<1>5. CASE CreateDivertCRD  BY <1>5 DEF CreateDivertCRD
<1>6. CASE DeleteCRD  BY <1>6 DEF DeleteCRD
<1>7. CASE DeleteIngress  BY <1>7 DEF DeleteIngress
<1>8. CASE DeleteService  BY <1>8 DEF DeleteService
<1>9. QED  BY <1>1, <1>2, <1>3, <1>4, <1>5, <1>6, <1>7, <1>8 DEF Client

\* The user's and the API server's steps leave the cluster alone and stop
\* the client, or start it at the first step of a command.
LEMMA UserStep ==
    ASSUME IInv,
           \/ CallFails /\ UNCHANGED Env
           \/ (\E o \in {"create", "delete"} : Run(o)) /\ UNCHANGED Env
           \/ Rerun /\ UNCHANGED Env
    PROVE  IInv'
<1> USE DivertsAssumption DEF IInv, TypeOK, StepOrder, NoDanglingCRD, First, Env, Kinds
<1>1. CASE CallFails /\ UNCHANGED Env  BY <1>1 DEF CallFails, Return, Results
<1>2. CASE (\E o \in {"create", "delete"} : Run(o)) /\ UNCHANGED Env  BY <1>2 DEF Run
<1>3. CASE Rerun /\ UNCHANGED Env  BY <1>3 DEF Rerun
<1>4. QED  BY <1>1, <1>2, <1>3

LEMMA InitIInv == Init => IInv
BY DivertsAssumption DEF Init, IInv, TypeOK, StepOrder, NoDanglingCRD, Kinds

LEMMA IInvStep == IInv /\ [Next]_vars => IInv'
<1> SUFFICES ASSUME IInv, [Next]_vars PROVE IInv'
    OBVIOUS
<1>1. CASE Client /\ UNCHANGED <<op, Env, failures, runs>>  BY <1>1, ClientStep
<1>2. CASE \/ CallFails /\ UNCHANGED Env
           \/ (\E o \in {"create", "delete"} : Run(o)) /\ UNCHANGED Env
           \/ Rerun /\ UNCHANGED Env
    BY <1>2, UserStep
<1>3. CASE Done \/ UNCHANGED vars
    BY <1>3 DEF Done, vars, IInv, TypeOK, StepOrder, NoDanglingCRD
<1>4. QED  BY <1>1, <1>2, <1>3 DEF Next

(* Every reachable state is typed.                                         *)
THEOREM TypeCorrect == Spec => []TypeOK
<1>1. Spec => []IInv  BY InitIInv, IInvStep, PTL DEF Spec
<1>2. QED  BY <1>1, PTL DEF IInv

(* The divert CRD never exists without the divert service and ingress, for *)
(* any number of failed calls and reruns (Create writes the CRD last and   *)
(* Delete removes it first).                                               *)
THEOREM CRDNeverDangles == Spec => []NoDanglingCRD
<1>1. Spec => []IInv  BY InitIInv, IInvStep, PTL DEF Spec
<1>2. QED  BY <1>1, PTL DEF IInv

-----------------------------------------------------------------------------
(* Refinement of DivertsSpec                                               *)

\* A step of the client is a step of the abstract command: it adds objects
\* in Create and removes them in Delete, and it returns nil only at the
\* command's target, which StepOrder guarantees for the last steps.
LEMMA ClientRefines ==
    ASSUME IInv, Client, UNCHANGED <<op, Env, failures, runs>>
    PROVE  Abstract!Step
<1>0. IInv'  BY ClientStep
<1> USE <1>0 DEF Abstract!Step, Abstract!Moves, Abstract!Target, busyBar,
             IInv, TypeOK, StepOrder, Return, Goto, Env, Kinds, Results
<1>1. CASE CreateCheck  BY <1>1 DEF CreateCheck
<1>2. CASE DivertApp  BY <1>2 DEF DivertApp
<1>3. CASE DivertService  BY <1>3 DEF DivertService
<1>4. CASE DivertIngress  BY <1>4 DEF DivertIngress
<1>5. CASE CreateDivertCRD  BY <1>5 DEF CreateDivertCRD
<1>6. CASE DeleteCRD  BY <1>6 DEF DeleteCRD
<1>7. CASE DeleteIngress  BY <1>7 DEF DeleteIngress
<1>8. CASE DeleteService  BY <1>8 DEF DeleteService
<1>9. QED  BY <1>1, <1>2, <1>3, <1>4, <1>5, <1>6, <1>7, <1>8 DEF Client

\* Starting or rerunning a command begins the abstract command; a failed
\* call ends it with an error and the cluster as it is.
LEMMA UserRefines ==
    ASSUME IInv,
           \/ CallFails /\ UNCHANGED Env
           \/ (\E o \in {"create", "delete"} : Run(o)) /\ UNCHANGED Env
           \/ Rerun /\ UNCHANGED Env
    PROVE  Abstract!Next
<1> USE DEF busyBar, IInv, TypeOK, First
<1>1. CASE CallFails /\ UNCHANGED Env
    BY <1>1 DEF CallFails, Return, Results, Abstract!Next, Abstract!Step, Abstract!Moves
<1>2. CASE (\E o \in {"create", "delete"} : Run(o)) /\ UNCHANGED Env
    <2>1. PICK o \in {"create", "delete"} : Run(o)  BY <1>2
    <2>2. Abstract!Begin(o)  BY <2>1 DEF Run, Abstract!Begin
    <2>3. QED  BY <2>2 DEF Abstract!Next
<1>3. CASE Rerun /\ UNCHANGED Env
    <2>1. Abstract!Begin(op)  BY <1>3 DEF Rerun, Abstract!Begin
    <2>2. QED  BY <2>1 DEF Abstract!Next
<1>4. QED  BY <1>1, <1>2, <1>3

(* The client implements DivertsSpec: while a command runs, Create only    *)
(* adds divert objects and Delete only removes them, and a command that   *)
(* returns nil leaves the whole divert present (Create) or absent         *)
(* (Delete), after any sequence of failed calls, interruptions and reruns. *)
THEOREM Refinement == Spec => AbstractSpec
<1>1. Init => Abstract!Init
    BY DEF Init, Abstract!Init, busyBar, Kinds
<1>2. IInv /\ [Next]_vars => [Abstract!Next]_<<cluster, busyBar, result>>
    <2> SUFFICES ASSUME IInv, [Next]_vars
                 PROVE  [Abstract!Next]_<<cluster, busyBar, result>>
        OBVIOUS
    <2>1. CASE Client /\ UNCHANGED <<op, Env, failures, runs>>
        BY <2>1, ClientRefines DEF Abstract!Next
    <2>2. CASE \/ CallFails /\ UNCHANGED Env
               \/ (\E o \in {"create", "delete"} : Run(o)) /\ UNCHANGED Env
               \/ Rerun /\ UNCHANGED Env
        BY <2>2, UserRefines
    <2>3. CASE Done \/ UNCHANGED vars
        BY <2>3 DEF Done, vars, busyBar
    <2>4. QED  BY <2>1, <2>2, <2>3 DEF Next
<1>3. Spec => []IInv  BY InitIInv, IInvStep, PTL DEF Spec
<1>4. QED  BY <1>1, <1>2, <1>3, PTL DEF Spec, AbstractSpec, Abstract!Spec
=============================================================================
