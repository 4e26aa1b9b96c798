----------------------------- MODULE FollowerJoint -----------------------------
(***************************************************************************)
(* One joint of the follower in one session of the physical gateway: how   *)
(* the gateway arms it, the goals it sends to the servo, and the guard     *)
(* that gives up on a joint that makes no progress.  Positions are whole   *)
(* units and times whole ticks.  The joint is one of the four body joints  *)
(* whose angle does not wrap; the wrist roll takes differences modulo a    *)
(* turn, and the gripper is exempt from the guard.                         *)
(*                                                                         *)
(* The servo, the arm's weight and whatever blocks the arm are external:   *)
(* a measured position is any position.                                    *)
(***************************************************************************)
EXTENDS Integers

CONSTANTS
  Lower, Upper,  \* the calibrated limits
  Slack,         \* how far beyond them the joint can be measured (external)
  Rate,          \* units per tick: BODY_COMMAND_RATE_LIMIT_DEG_S
  MaxInterval,   \* MAX_CONTROL_INTERVAL_SECONDS
  Track,         \* the tracking error limit of the joint
  StallError,    \* BODY_STALL_ERROR_DEG
  MinProgress,   \* MIN_PROGRESS_DEG
  Timeout,       \* STALL_TIMEOUT_SECONDS
  Hold,          \* POST_HOLD_BODY_TOLERANCE_DEG
  MaxTick        \* bound: the ticks between two samples

ASSUME JointAssumption ==
  /\ Lower \in Int /\ Upper \in Int /\ Lower <= Upper
  /\ {Slack, Rate, MaxInterval, Track, Hold, MaxTick} \subseteq Nat
  /\ StallError \in Nat /\ MinProgress \in Nat \ {0} /\ Timeout \in Nat \ {0}

VARIABLES
  session,   \* closed, armed, or raised: an error is on its way to the caller
  goal,      \* the last position sent to the servo
  command,   \* previous_command
  actual,    \* previous_actual
  stall,     \* stall_started_at as an age, stall_anchor_actual, stall_command_direction
  watch,     \* history: an observer of a joint that is stuck, see Observe
  since      \* history: the ticks between the last two samples

vars == <<session, goal, command, actual, stall, watch, since>>

Position == (Lower - Slack)..(Upper + Slack)
Tick     == 0..MaxTick

Abs(x)  == IF x < 0 THEN -x ELSE x
Sign(x) == IF x < 0 THEN -1 ELSE IF x > 0 THEN 1 ELSE 0
Clip(x, low, high) == IF x < low THEN low ELSE IF x > high THEN high ELSE x
Least(x, y) == IF x < y THEN x ELSE y
Most(x, y)  == IF x > y THEN x ELSE y

\* Mutant: the full reach of an interval, however short it was.
SlewAnyInterval(request, dt) ==
  LET reach == Rate * MaxInterval
      near  == command + Clip(request - command, -reach, reach)
  IN  Clip(actual + Clip(near - actual, -Track, Track), Lower, Upper)

\* slew_limited_target: limited against the last command, then against the
\* measured position, then to the calibrated range.
Slew(request, dt) ==
  LET reach == Rate * Least(dt, MaxInterval)
      near  == command + Clip(request - command, -reach, reach)
  IN  Clip(actual + Clip(near - actual, -Track, Track), Lower, Upper)

NoStall(a) == [on |-> FALSE, age |-> 0, anchor |-> a, dir |-> 0]
NoWatch    == [on |-> FALSE, low |-> Lower, high |-> Lower, dir |-> 0, age |-> 0]

JointTypeOK ==
  /\ session \in {"closed", "armed", "raised"}
  /\ goal \in Position /\ command \in Position /\ actual \in Position
  /\ stall \in [on: BOOLEAN, age: Nat, anchor: Position, dir: {-1, 0, 1}]
  /\ watch \in [on: BOOLEAN, low: Position, high: Position, dir: {-1, 0, 1}, age: Nat]
  /\ since \in Tick

Init ==
  /\ session = "closed"
  /\ goal = Lower /\ command = Lower /\ actual = Lower
  /\ stall = NoStall(Lower) /\ watch = NoWatch
  /\ since = 0

-----------------------------------------------------------------------------
(* Arming: torque comes on holding a position, and the session starts from  *)
(* what is measured once it has settled.                                    *)

Armed(a) ==
  /\ session = "closed"
  /\ session' = "armed"
  /\ actual' = a
  /\ stall' = NoStall(a)
  /\ watch' = NoWatch /\ since' = 0

\* open: the hold is the first reading, or a reviewed anchor.
Open(hold, a) ==
  /\ Armed(a)
  /\ Abs(hold - a) <= Hold
  /\ goal' = hold /\ command' = a

\* synchronize_and_arm: the hold is the synchronized target.  The reading it
\* starts from is compared with the leader's, no longer with the hold.
SynchronizeAndArm(hold, a) ==
  /\ Armed(a)
  /\ goal' = hold /\ command' = a

\* open_live_anchored_setup: every reading is sent back while the arm settles.
\* A joint beyond its limits, which only the elbow may be, starts at the limit.
OpenLiveAnchored(a) ==
  /\ Armed(a)
  /\ goal' = a /\ command' = Clip(a, Lower, Upper)

\* rebase_relative_origin reads the position once more.  The new origin, near
\* it, only bounds later requests.
Rebase(a) ==
  /\ session = "armed"
  /\ actual' = a
  /\ stall' = NoStall(a)
  /\ watch' = NoWatch /\ since' = 0
  /\ UNCHANGED <<session, goal, command>>

-----------------------------------------------------------------------------
(* Sampling                                                                 *)

\* The joint's goal is further from it than tracking explains.
Candidate(sent, a) == Abs(sent - a) > StallError

\* Mutant: the clock starts over whenever the joint moves.
StalledAtAnyMove(sent, a, dt) ==
  IF ~Candidate(sent, a) THEN NoStall(a)
  ELSE IF ~stall.on \/ Sign(sent - a) # stall.dir \/ a # stall.anchor
         THEN [on |-> TRUE, age |-> 0, anchor |-> a, dir |-> Sign(sent - a)]
         ELSE [stall EXCEPT !.age = stall.age + dt]

\* Mutant: the age is the start less the time elapsed.
StalledBackwards(sent, a, dt) ==
  IF ~Candidate(sent, a) THEN NoStall(a)
  ELSE IF ~stall.on \/ Sign(sent - a) # stall.dir \/ Abs(a - stall.anchor) >= MinProgress
         THEN [on |-> TRUE, age |-> 0, anchor |-> a, dir |-> Sign(sent - a)]
         ELSE [stall EXCEPT !.age = stall.age - dt]

\* The stall clock starts over with each progress and each turn.
Stalled(sent, a, dt) ==
  IF ~Candidate(sent, a) THEN NoStall(a)
  ELSE IF ~stall.on \/ Sign(sent - a) # stall.dir \/ Abs(a - stall.anchor) >= MinProgress
         THEN [on |-> TRUE, age |-> 0, anchor |-> a, dir |-> Sign(sent - a)]
         ELSE [stall EXCEPT !.age = stall.age + dt]

\* The observer starts at any sample whose joint is a candidate, and gives up
\* when the joint leaves a band narrower than MinProgress, or its direction.
Observe(sent, a, dt) ==
  LET low  == Least(watch.low, a)
      high == Most(watch.high, a)
  IN  IF ~Candidate(sent, a) THEN watch' = NoWatch
      ELSE IF watch.on
        THEN watch' = IF Sign(sent - a) = watch.dir /\ high - low < MinProgress
                        THEN [watch EXCEPT !.low = low, !.high = high, !.age = @ + dt]
                        ELSE NoWatch
        ELSE watch' \in {NoWatch, [on |-> TRUE, low |-> a, high |-> a,
                                   dir |-> Sign(sent - a), age |-> 0]}

\* An error leaves sample; the caller closes the gateway.
Raise ==
  /\ session' = "raised"
  /\ UNCHANGED <<command, actual, stall, watch>>

\* sample in the relative mode, where the target is clipped to the calibrated
\* range, or with an exact target, which is sent unchanged or not at all.
Sample(request, exact, dt, a) ==
  /\ session = "armed"
  /\ since' = dt
  /\ LET sent == Slew(request, dt)
         next == Stalled(sent, a, dt)
     IN  IF exact /\ sent # request
           THEN Raise /\ UNCHANGED goal
           ELSE /\ goal' = sent
                /\ IF next.age >= Timeout
                     THEN Raise
                     ELSE /\ command' = sent /\ actual' = a
                          /\ stall' = next
                          /\ Observe(sent, a, dt)
                          /\ UNCHANGED session

\* The leader's position cannot be read before, or the follower's after the
\* goal was sent.
ReadFails(request, dt) ==
  /\ session = "armed"
  /\ goal' \in {goal, Slew(request, dt)}
  /\ since' = dt
  /\ Raise

\* close, or an error while the joint is held.
Close ==
  /\ session # "closed"
  /\ session' = "closed"
  /\ since' = 0
  /\ UNCHANGED <<goal, command, actual, stall, watch>>

Arm == \/ \E hold, a \in Position : Open(hold, a) \/ SynchronizeAndArm(hold, a)
       \/ \E a \in Position : OpenLiveAnchored(a)

Next ==
  \/ Arm
  \/ \E a \in Position : Rebase(a)
  \/ \E request \in Lower..Upper, exact \in BOOLEAN, dt \in Tick, a \in Position :
       Sample(request, exact, dt, a)
  \/ \E request \in Lower..Upper, dt \in Tick : ReadFails(request, dt)
  \/ Close

Spec == Init /\ [][Next]_vars

-----------------------------------------------------------------------------
(* Properties                                                               *)

\* How far the command is from the calibrated range.
Outside == Abs(command - Clip(command, Lower, Upper))

\* While a session is armed, a new goal is within the calibrated range and
\* near the measured arm, and either moves no further than the rate limit
\* allows for the time since the last sample, which counts for no more than
\* the longest control interval, or moves towards the arm, as when the arm was
\* pushed away from its goal.  What arming left between goal, command and
\* range comes on top.  After no time at all a goal only moves for these two
\* reasons (physical_gateway.py:173 and 175: "Advance toward the full target
\* without building an unsafe error backlog", "The speed limit is based on
\* elapsed time and the last command").
GentleStep ==
  [][session = "armed" /\ goal' # goal =>
       /\ goal' \in Lower..Upper
       /\ Abs(goal' - actual) <= Most(Track, Slack)
       /\ \/ Abs(goal' - goal) <= Rate * Least(since', MaxInterval)
                                   + Abs(goal - command) + Outside
          \/ Abs(goal' - actual) < Abs(goal - actual)]_vars

\* A joint that stays within a band narrower than the progress asked for, with
\* its goal on one side of it, is given up in less than twice the time limit
\* and one sample: the clock may start over once in such a band, never again
\* (physical_gateway.py:1190: "Follower made no measurable progress toward a
\* commanded joint for 5.0 seconds; torque released.").
StuckIsReleased == session = "armed" /\ watch.on => watch.age < 2 * Timeout + MaxTick
=============================================================================
