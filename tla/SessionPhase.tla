---------------------------- MODULE SessionPhase ----------------------------
(***************************************************************************)
(* What the session controller promises (spec sections 3, 4.1 and 5): the *)
(* Session Phase machine Idle -> Connecting -> Syncing -> Finalizing ->    *)
(* Running -> Disconnected -> Reconnecting -> Connecting ..., with         *)
(* Terminated reachable by completion, error or interrupt.  Two facts of  *)
(* the current attempt ride along: whether its sync engine has been       *)
(* flipped to bidirectional mode, and whether its remote shell has been   *)
(* launched.  Connecting builds a new sync engine for a new attempt, so   *)
(* both start over; Terminated tears the session down.                     *)
(***************************************************************************)
EXTENDS TLAPS

VARIABLES
    phase,          \* the Session Phase
    bidirectional,  \* the current sync engine runs in bidirectional mode
    launched        \* the current attempt has launched its remote shell

vars == <<phase, bidirectional, launched>>

Phases == {"Idle", "Connecting", "Syncing", "Finalizing", "Running",
           "Disconnected", "Reconnecting", "Terminated"}

Init == phase = "Idle" /\ bidirectional = FALSE /\ launched = FALSE

\* Moves along the phase machine that touch neither flag.
Move(from, to) == phase = from /\ phase' = to /\ UNCHANGED <<bidirectional, launched>>

Begin == Move("Idle", "Connecting")

\* Connect: the target is resolved and a new sync engine built for it.
Connect == /\ phase = "Connecting" /\ phase' = "Syncing"
           /\ bidirectional' = FALSE /\ launched' = FALSE

\* Sync: readiness and the first drain.
Synced == Move("Syncing", "Finalizing")

\* Finalize: local-wins reconcile, re-drain, flip to bidirectional.
Finalize == /\ phase = "Finalizing" /\ phase' = "Running"
            /\ bidirectional' = TRUE /\ UNCHANGED launched

\* Run: the remote shell of this attempt is launched, once.
Launch == /\ phase = "Running" /\ ~launched
          /\ launched' = TRUE /\ UNCHANGED <<phase, bidirectional>>

\* Monitor: the select runs once the shell is launched; a recoverable
\* signal leaves the phase.
Disconnect == launched /\ Move("Running", "Disconnected")

\* Recover: the shutdown procedure, then back to Connect.
Recover == Move("Disconnected", "Reconnecting")
Resume == Move("Reconnecting", "Connecting")

\* Completion, a terminal error or an interrupt ends the session.
Terminate == /\ phase # "Terminated" /\ phase' = "Terminated"
             /\ bidirectional' = FALSE /\ launched' = FALSE

Next == Begin \/ Connect \/ Synced \/ Finalize \/ Launch \/ Disconnect
        \/ Recover \/ Resume \/ Terminate

Spec == Init /\ [][Next]_vars

-----------------------------------------------------------------------------

TypeOK == phase \in Phases /\ bidirectional \in BOOLEAN /\ launched \in BOOLEAN

(* Spec 5: "the shell is never launched before finalize completes": the  *)
(* shell of an attempt runs only once that attempt's sync engine has been *)
(* flipped to bidirectional mode.                                         *)
LaunchAfterFinalize == launched => bidirectional

\* The phase determines the flags, which makes LaunchAfterFinalize inductive.
PhaseFlags ==
    /\ phase \in {"Running", "Disconnected", "Reconnecting"} => bidirectional
    /\ phase \in {"Idle", "Syncing", "Finalizing", "Terminated"} => ~launched
    /\ phase \in {"Disconnected", "Reconnecting"} => launched

Inv == TypeOK /\ PhaseFlags /\ LaunchAfterFinalize

LEMMA InvStep == Inv /\ [Next]_vars => Inv'
<1> SUFFICES ASSUME Inv, [Next]_vars PROVE Inv'
    OBVIOUS
<1> USE DEF Inv, TypeOK, PhaseFlags, LaunchAfterFinalize, Phases
<1>1. CASE Begin \/ Synced \/ Recover \/ Resume
    BY <1>1 DEF Begin, Synced, Recover, Resume, Move
<1>2. CASE Connect \/ Terminate
    BY <1>2 DEF Connect, Terminate
<1>3. CASE Finalize
    BY <1>3 DEF Finalize
<1>4. CASE Launch
    BY <1>4 DEF Launch
<1>5. CASE Disconnect
    BY <1>5 DEF Disconnect, Move
<1>6. CASE UNCHANGED vars
    BY <1>6 DEF vars
<1>7. QED
    BY <1>1, <1>2, <1>3, <1>4, <1>5, <1>6 DEF Next

(* Spec 5: along every run of the phase machine, a shell is launched only *)
(* into an attempt whose sync engine Finalize has flipped.                *)
THEOREM LaunchSafe == Spec => []LaunchAfterFinalize
<1>1. Init => Inv
    BY DEF Init, Inv, TypeOK, PhaseFlags, LaunchAfterFinalize, Phases
<1>2. Inv => LaunchAfterFinalize
    BY DEF Inv
<1>3. QED
    BY <1>1, <1>2, InvStep, PTL DEF Spec
=============================================================================
