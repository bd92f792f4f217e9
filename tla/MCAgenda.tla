------------------------------- MODULE MCAgenda -------------------------------
(***************************************************************************)
(* Instances of Agenda for TLC, on those of EventLifecycle.                *)
(***************************************************************************)
EXTENDS Agenda, MCEventLifecycle
=============================================================================
