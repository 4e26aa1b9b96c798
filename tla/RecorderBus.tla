----------------------------- MODULE RecorderBus -----------------------------
(***************************************************************************)
(* What the rest of the Studio may rely on of the teleoperation recorder:  *)
(* the stage its status shows, and when it uses the arm and the cameras.   *)
(* TeleopRecorder implements this (KeepsBus there); StudioBus composes it  *)
(* with the other users of the same devices.                               *)
(***************************************************************************)

VARIABLES
  stage,     \* the status others read: free, active (starting, recording), stopping
  held,      \* the recorder's gateway is open and the follower energised
  filming    \* the recorder's camera session is running

busVars == <<stage, held, filming>>

BusTypeOK ==
  /\ stage \in {"free", "active", "stopping"}
  /\ held \in BOOLEAN /\ filming \in BOOLEAN

BusInit == stage = "free" /\ held = FALSE /\ filming = FALSE

\* start admits an attempt.
Begin ==
  /\ stage = "free"
  /\ stage' = "active"
  /\ UNCHANGED <<held, filming>>

Film ==
  /\ stage = "active" /\ ~filming /\ ~held
  /\ filming' = TRUE
  /\ UNCHANGED <<stage, held>>

Energise ==
  /\ stage = "active" /\ filming /\ ~held
  /\ held' = TRUE
  /\ UNCHANGED <<stage, filming>>

\* The record loop ended.
Leave ==
  /\ stage = "active"
  /\ stage' = "stopping"
  /\ UNCHANGED <<held, filming>>

\* The gateway is closed; its motors may not have confirmed it.
Release ==
  /\ held
  /\ held' = FALSE
  /\ UNCHANGED <<stage, filming>>

Cut ==
  /\ filming /\ ~held
  /\ filming' = FALSE
  /\ UNCHANGED <<stage, held>>

\* The outcome is published.
End ==
  /\ stage # "free" /\ ~held /\ ~filming
  /\ stage' = "free"
  /\ UNCHANGED <<held, filming>>

\* The process ends: its gateway and its cameras are no longer driven.
Die ==
  /\ stage' = "free" /\ held' = FALSE /\ filming' = FALSE

BusNext ==
  Begin \/ Film \/ Energise \/ Leave \/ Release \/ Cut \/ End \/ Die

BusSpec == BusInit /\ [][BusNext]_busVars
=============================================================================
