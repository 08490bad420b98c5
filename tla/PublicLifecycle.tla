-------------------------- MODULE PublicLifecycle --------------------------
(***************************************************************************)
(* What one qtmir::Application promises the shell, which knows nothing of  *)
(* sessions, surfaces, timers or the nine internal states: the phase of    *)
(* the application in its model and whether it is doomed (being closed,    *)
(* never to be kept or started again).                                     *)
(*                                                                         *)
(* Every step is what the shell may see of one event of the main thread;   *)
(* an event may take the application through several phases at once.       *)
(***************************************************************************)

VARIABLES
  phase,    (* Starting, Running, Suspended; Resumable: without a process,  *)
            (* kept in the model; Gone: stopped, on its way out; Deleted    *)
  doomed    (* a close is in progress                                       *)

Phases == { "Starting", "Running", "Suspended", "Resumable", "Gone", "Deleted" }
Alive  == { "Starting", "Running", "Suspended" }

Init == phase = "Starting" /\ doomed = FALSE

(* Its first surface is there; it may be suspended or closed at once. *)
Started ==
  /\ phase = "Starting"
  /\ phase' \in { "Running", "Suspended" }
  /\ doomed \/ doomed' => phase' = "Running"
  /\ doomed => doomed'

Suspended ==
  /\ phase = "Running" /\ phase' = "Suspended"
  /\ ~doomed /\ ~doomed'

(* To work again, or to be closed. *)
Resumed ==
  /\ phase = "Suspended" /\ phase' = "Running"
  /\ doomed => doomed'

(* Its process went without the user having asked for it. *)
Kept ==
  /\ phase \in { "Running", "Suspended" }
  /\ phase' = "Resumable"
  /\ ~doomed /\ ~doomed'

(* Wanted again by the shell, or started again from elsewhere. Closing its  *)
(* last surface does so too, and dooms the new process.                     *)
Respawned ==
  /\ phase \in { "Running", "Suspended", "Resumable" }
  /\ phase' = "Starting"
  /\ ~doomed

(* A close was asked for. *)
Doomed ==
  /\ ~doomed /\ doomed'
  /\ UNCHANGED phase

Stopped ==
  /\ phase \in Alive \cup { "Resumable" }
  /\ phase' = "Gone"
  /\ doomed => doomed'

Deleted ==
  /\ phase = "Gone" /\ phase' = "Deleted"
  /\ UNCHANGED doomed

Next ==
  Started \/ Suspended \/ Resumed \/ Kept \/ Respawned \/ Doomed \/ Stopped \/ Deleted

Spec == Init /\ [][Next]_<< phase, doomed >>

=============================================================================
