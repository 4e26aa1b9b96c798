-------------------------- MODULE FollowerJointProofs --------------------------
(***************************************************************************)
(* For every calibration, limit and tolerance: the goals of an armed joint *)
(* move gently, and a joint that is stuck is given up in bounded time.     *)
(***************************************************************************)
EXTENDS FollowerJoint, TLAPS

\* The stall clock against the observer's: it has run for at least as long, or
\* it started over inside the observed band, where it cannot do so again.
Clocks ==
  /\ stall.age < Timeout
  /\ watch.on =>
       /\ stall.on /\ stall.dir = watch.dir
       /\ watch.low <= watch.high /\ watch.high - watch.low < MinProgress
       /\ \/ stall.age >= watch.age
          \/ /\ watch.low <= stall.anchor /\ stall.anchor <= watch.high
             /\ watch.age - stall.age < Timeout + MaxTick

JointInv == JointTypeOK /\ (session = "armed" => Clocks)

-----------------------------------------------------------------------------
(* What clipping gives                                                       *)

LEMMA ClipIs ==
  ASSUME NEW x \in Int, NEW low \in Int, NEW high \in Int, low <= high
  PROVE  /\ Clip(x, low, high) \in low..high
         /\ \/ Clip(x, low, high) = x
            \/ x < low /\ Clip(x, low, high) = low
            \/ x > high /\ Clip(x, low, high) = high
  BY DEF Clip

LEMMA Limits ==
  /\ Lower \in Int /\ Upper \in Int /\ Lower <= Upper
  /\ Slack \in Nat /\ Rate \in Nat /\ MaxInterval \in Nat /\ Track \in Nat
  /\ MaxTick \in Nat /\ Timeout \in Nat \ {0} /\ MinProgress \in Nat \ {0}
  BY JointAssumption

\* The limits one after the other, for any reach.
LEMMA SlewBounds ==
  ASSUME NEW c \in Int, NEW a \in Position, NEW g \in Int, NEW r \in Int, NEW reach \in Nat,
         NEW s, s = Clip(a + Clip((c + Clip(r - c, -reach, reach)) - a, -Track, Track),
                         Lower, Upper)
  PROVE  /\ s \in Lower..Upper
         /\ Abs(s - a) <= Most(Track, Slack)
         /\ \/ Abs(s - g) <= reach + Abs(g - c) + Abs(c - Clip(c, Lower, Upper))
            \/ Abs(s - a) < Abs(g - a)
<1> USE Limits
<1> DEFINE first == Clip(r - c, -reach, reach)
           near  == c + first
           bound == Clip(near - a, -Track, Track)
           held  == a + bound
<1>a. a \in Int
  BY DEF Position
<1>b. first \in (-reach)..reach /\ first \in Int
  <2>1. r - c \in Int /\ -reach \in Int /\ -reach <= reach
    OBVIOUS
  <2> QED
    BY <2>1, ClipIs
<1> HIDE DEF first
<1>1. near \in Int /\ near - c \in (-reach)..reach
  BY <1>b
<1> HIDE DEF near
<1>c. /\ bound \in (-Track)..Track /\ bound \in Int
      /\ \/ bound = near - a
         \/ near - a < -Track /\ bound = -Track
         \/ near - a > Track /\ bound = Track
  <2> DEFINE x == near - a
  <2>1. x \in Int /\ -Track \in Int /\ -Track <= Track
    BY <1>1, <1>a
  <2> HIDE DEF x
  <2>2. /\ Clip(x, -Track, Track) \in (-Track)..Track
        /\ \/ Clip(x, -Track, Track) = x
           \/ x < -Track /\ Clip(x, -Track, Track) = -Track
           \/ x > Track /\ Clip(x, -Track, Track) = Track
    BY <2>1 DEF Clip
  <2> QED
    BY <2>2 DEF x, bound
<1> HIDE DEF bound
<1>2. held \in Int /\ held - a \in (-Track)..Track
  BY <1>a, <1>c
<1>d. /\ s \in Lower..Upper
      /\ s = held \/ (held < Lower /\ s = Lower) \/ (held > Upper /\ s = Upper)
  <2>1. s = Clip(held, Lower, Upper)
    BY DEF held, bound, near, first
  <2> HIDE DEF held
  <2> QED
    BY <1>2, <2>1, Limits DEF Clip
<1>3. s \in Lower..Upper
  BY <1>d
<1>4. Abs(s - a) <= Most(Track, Slack)
  BY <1>2, <1>d DEF Abs, Most, Position
<1>5. \/ Abs(s - g) <= reach + Abs(g - c) + Abs(c - Clip(c, Lower, Upper))
      \/ Abs(s - a) < Abs(g - a)
  <2>1. held = near \/ (held < near /\ held = a + Track) \/ (held > near /\ held = a - Track)
    BY <1>1, <1>a, <1>c
  <2>2. s = held \/ (held < Lower /\ s = Lower) \/ (held > Upper /\ s = Upper)
    BY <1>d
  <2>3. \/ c \in Lower..Upper /\ Abs(c - Clip(c, Lower, Upper)) = 0
        \/ c < Lower /\ Abs(c - Clip(c, Lower, Upper)) = Lower - c
        \/ c > Upper /\ Abs(c - Clip(c, Lower, Upper)) = c - Upper
    BY DEF Clip, Abs
  <2> HIDE DEF held
  <2> QED
    BY <1>1, <1>2, <1>3, <2>1, <2>2, <2>3 DEF Abs, Position
<1> QED
  BY <1>3, <1>4, <1>5

LEMMA SlewMoves ==
  ASSUME JointTypeOK, NEW request \in Lower..Upper, NEW dt \in Tick
  PROVE  LET s == Slew(request, dt)
         IN  /\ s \in Lower..Upper
             /\ Abs(s - actual) <= Most(Track, Slack)
             /\ \/ Abs(s - goal) <= Rate * Least(dt, MaxInterval) + Abs(goal - command) + Outside
                \/ Abs(s - actual) < Abs(goal - actual)
<1> DEFINE reach == Rate * Least(dt, MaxInterval)
           s     == Slew(request, dt)
<1>4. s = Clip(actual + Clip((command + Clip(request - command, -reach, reach)) - actual,
                             -Track, Track), Lower, Upper)
  BY DEF Slew
<1> USE Limits
<1>1. Least(dt, MaxInterval) \in Nat
  BY DEF Tick, Least
<1>2. reach \in Nat
  BY <1>1
<1>3. /\ command \in Int /\ actual \in Position /\ goal \in Int /\ request \in Int
  BY DEF JointTypeOK, Position
<1> HIDE DEF reach, s
<1>5. /\ s \in Lower..Upper
      /\ Abs(s - actual) <= Most(Track, Slack)
      /\ \/ Abs(s - goal) <= reach + Abs(goal - command) + Outside
         \/ Abs(s - actual) < Abs(goal - actual)
  BY <1>2, <1>3, <1>4, SlewBounds DEF Outside
<1> QED
  BY <1>5 DEF s, reach

-----------------------------------------------------------------------------
(* The invariant                                                             *)

LEMMA JointStarts == Init => JointInv
  BY JointAssumption DEF Init, JointInv, JointTypeOK, Position, Tick, NoStall, NoWatch

LEMMA ArmingKeeps ==
  ASSUME JointInv, Arm \/ \E a \in Position : Rebase(a)
  PROVE  JointInv'
<1> USE JointAssumption DEF JointInv
<1>1. PICK a \in Position :
        /\ actual' = a /\ stall' = NoStall(a) /\ watch' = NoWatch /\ session' = "armed"
        /\ since' = 0
  BY DEF Arm, Open, SynchronizeAndArm, OpenLiveAnchored, Armed, Rebase
<1>2. goal' \in Position /\ command' \in Position
  BY DEF Arm, Open, SynchronizeAndArm, OpenLiveAnchored, Rebase, JointTypeOK, Position, Clip
<1>3. stall' \in [on: BOOLEAN, age: Nat, anchor: Position, dir: {-1, 0, 1}]
  BY <1>1 DEF NoStall
<1>4. watch' \in [on: BOOLEAN, low: Position, high: Position, dir: {-1, 0, 1}, age: Nat]
  BY <1>1 DEF NoWatch, Position
<1>5. JointTypeOK'
  BY <1>1, <1>2, <1>3, <1>4 DEF JointTypeOK, Tick
<1>6. Clocks'
  BY <1>1 DEF Clocks, NoStall, NoWatch
<1> QED
  BY <1>5, <1>6

\* A sample that is accepted: its three outcomes for the stall clock, and the
\* observer's.
LEMMA SampleKeeps ==
  ASSUME JointInv, NEW request \in Lower..Upper, NEW exact \in BOOLEAN, NEW dt \in Tick,
         NEW a \in Position, Sample(request, exact, dt, a)
  PROVE  JointInv'
<1> USE JointAssumption DEF JointInv
<1> DEFINE sent == Slew(request, dt)
           next == Stalled(sent, a, dt)
<1>a. JointTypeOK /\ Clocks /\ session = "armed" /\ dt \in Nat /\ dt <= MaxTick
  BY DEF Sample, Tick
<1>b. sent \in Int /\ sent \in Position
  BY <1>a, SlewMoves DEF Position
<1> HIDE DEF sent
<1>c. since' \in Tick
  BY DEF Sample
<1>1. CASE Raise /\ goal' \in {goal, sent}
  BY <1>1, <1>a, <1>b, <1>c DEF Raise, JointTypeOK
<1>2. CASE ~(Raise /\ goal' \in {goal, sent})
  <2>1. /\ goal' = sent /\ command' = sent /\ actual' = a /\ stall' = next
        /\ Observe(sent, a, dt) /\ session' = "armed" /\ ~(next.age >= Timeout)
    BY <1>2, <1>a DEF Sample, sent
  <2>2. Sign(sent - a) \in {-1, 0, 1}
    BY DEF Sign
  <2>3. \/ ~Candidate(sent, a) /\ next = NoStall(a)
        \/ /\ Candidate(sent, a)
           /\ next = [on |-> TRUE, age |-> 0, anchor |-> a, dir |-> Sign(sent - a)]
           /\ ~stall.on \/ Sign(sent - a) # stall.dir \/ Abs(a - stall.anchor) >= MinProgress
        \/ /\ Candidate(sent, a)
           /\ next = [stall EXCEPT !.age = stall.age + dt]
           /\ stall.on /\ Sign(sent - a) = stall.dir
    BY DEF Stalled
  <2>4. next \in [on: BOOLEAN, age: Nat, anchor: Position, dir: {-1, 0, 1}]
    <3>1. CASE next = NoStall(a)
      BY <3>1 DEF NoStall
    <3>2. CASE next = [on |-> TRUE, age |-> 0, anchor |-> a, dir |-> Sign(sent - a)]
      BY <2>2, <3>2
    <3>3. CASE next = [stall EXCEPT !.age = stall.age + dt]
      <4>1. stall.age + dt \in Nat
        BY <1>a DEF JointTypeOK
      <4> QED
        BY <1>a, <3>3, <4>1 DEF JointTypeOK
    <3> QED
      BY <2>3, <3>1, <3>2, <3>3
  <2> DEFINE low  == Least(watch.low, a)
             high == Most(watch.high, a)
  <2>5. \/ watch' = NoWatch
        \/ /\ watch.on /\ Candidate(sent, a) /\ Sign(sent - a) = watch.dir
           /\ high - low < MinProgress
           /\ watch' = [watch EXCEPT !.low = low, !.high = high, !.age = watch.age + dt]
        \/ /\ Candidate(sent, a)
           /\ watch' = [on |-> TRUE, low |-> a, high |-> a, dir |-> Sign(sent - a), age |-> 0]
    BY <2>1 DEF Observe
  <2>6. low \in Position /\ high \in Position /\ low <= a /\ a <= high
        /\ low <= watch.low /\ watch.high <= high
    BY <1>a DEF JointTypeOK, Least, Most, Position
  <2>7. watch' \in [on: BOOLEAN, low: Position, high: Position, dir: {-1, 0, 1}, age: Nat]
    <3>1. CASE watch' = NoWatch
      BY <3>1 DEF NoWatch, Position
    <3>2. CASE watch' = [on |-> TRUE, low |-> a, high |-> a, dir |-> Sign(sent - a), age |-> 0]
      BY <2>2, <3>2
    <3>3. CASE watch' = [watch EXCEPT !.low = low, !.high = high, !.age = watch.age + dt]
      <4>1. watch.age + dt \in Nat
        BY <1>a DEF JointTypeOK
      <4> HIDE DEF low, high
      <4> QED
        BY <1>a, <2>6, <3>3, <4>1 DEF JointTypeOK
    <3> QED
      BY <2>5, <3>1, <3>2, <3>3
  <2>8. JointTypeOK'
    BY <1>b, <1>c, <2>1, <2>4, <2>7 DEF JointTypeOK
  <2> HIDE DEF low, high
  <2>9. Clocks'
    <3>1. stall'.age < Timeout
      BY <2>1, <2>4
    <3>2. CASE watch' = NoWatch
      BY <3>1, <3>2 DEF Clocks, NoWatch
    <3>3. CASE /\ Candidate(sent, a)
               /\ watch' = [on |-> TRUE, low |-> a, high |-> a, dir |-> Sign(sent - a), age |-> 0]
      <4>1. stall'.on /\ stall'.dir = Sign(sent - a) /\ stall'.age >= 0
        BY <1>a, <2>1, <2>3, <2>4, <3>3 DEF JointTypeOK
      <4> QED
        BY <3>1, <3>3, <4>1 DEF Clocks, Position
    <3>4. CASE /\ watch.on /\ Candidate(sent, a) /\ Sign(sent - a) = watch.dir
               /\ high - low < MinProgress
               /\ watch' = [watch EXCEPT !.low = low, !.high = high, !.age = watch.age + dt]
      <4>1. /\ watch'.on /\ watch'.low = low /\ watch'.high = high /\ watch'.dir = watch.dir
            /\ watch'.age = watch.age + dt
        BY <1>a, <3>4 DEF JointTypeOK
      <4>2. /\ stall.on /\ stall.dir = watch.dir /\ stall.age < Timeout
            /\ stall.age \in Nat /\ watch.age \in Nat /\ stall.anchor \in Int
            /\ watch.low \in Int /\ watch.high \in Int
        BY <1>a, <3>4 DEF Clocks, JointTypeOK, Position
      <4>3. CASE next = [stall EXCEPT !.age = stall.age + dt]
        <5>1. /\ stall'.on /\ stall'.dir = watch.dir /\ stall'.anchor = stall.anchor
              /\ stall'.age = stall.age + dt
          BY <1>a, <2>1, <4>2, <4>3 DEF JointTypeOK
        <5> QED
          BY <1>a, <2>6, <3>1, <3>4, <4>1, <4>2, <5>1 DEF Clocks, Position
      <4>4. CASE /\ next = [on |-> TRUE, age |-> 0, anchor |-> a, dir |-> Sign(sent - a)]
                 /\ Abs(a - stall.anchor) >= MinProgress
        <5>1. stall'.on /\ stall'.dir = watch.dir /\ stall'.anchor = a /\ stall'.age = 0
          BY <2>1, <3>4, <4>4
        <5>2. ~(watch.low <= stall.anchor /\ stall.anchor <= watch.high)
          BY <2>6, <3>4, <4>2, <4>4 DEF Abs, Position
        <5>3. stall.age >= watch.age
          BY <1>a, <3>4, <5>2 DEF Clocks
        <5> QED
          BY <1>a, <2>6, <3>1, <3>4, <4>1, <4>2, <5>1, <5>3 DEF Clocks, Position
      <4> QED
        BY <2>3, <3>4, <4>2, <4>3, <4>4
    <3> QED
      BY <2>5, <3>2, <3>3, <3>4
  <2> QED
    BY <2>1, <2>8, <2>9
<1> QED
  BY <1>1, <1>2

LEMMA JointKeeps == JointInv /\ [Next]_vars => JointInv'
<1> SUFFICES ASSUME JointInv, [Next]_vars PROVE JointInv'
  OBVIOUS
<1>1. ASSUME NEW request \in Lower..Upper, NEW dt \in Tick, ReadFails(request, dt)
      PROVE  JointInv'
  <2>1. Slew(request, dt) \in Position
    BY JointAssumption, SlewMoves DEF JointInv, Position
  <2> QED
    BY <1>1, <2>1 DEF ReadFails, Raise, JointInv, JointTypeOK
<1>2. CASE Close
  BY <1>2, JointAssumption DEF Close, JointInv, JointTypeOK, Tick
<1>3. CASE UNCHANGED vars
  BY <1>3 DEF vars, JointInv, JointTypeOK, Clocks
<1> QED
  BY <1>1, <1>2, <1>3, ArmingKeeps, SampleKeeps DEF Next

THEOREM JointSafety == Spec => []JointInv
  BY JointStarts, JointKeeps, PTL DEF Spec

\* Positions stay within what can be measured, and ages are not negative.
THEOREM JointTypes == Spec => []JointTypeOK
  BY JointSafety, PTL DEF JointInv

\* A joint that is stuck is given up in less than twice the time limit and a
\* sample, whatever the arm does.
THEOREM StuckReleased == Spec => []StuckIsReleased
<1>1. JointInv => StuckIsReleased
  BY JointAssumption DEF JointInv, JointTypeOK, Clocks, StuckIsReleased
<1> QED
  BY <1>1, JointSafety, PTL

\* Each new goal of an armed joint is calibrated, near the arm and gentle.
THEOREM GentleSteps == Spec => GentleStep
<1> DEFINE Gentle ==
      session = "armed" /\ goal' # goal =>
        /\ goal' \in Lower..Upper
        /\ Abs(goal' - actual) <= Most(Track, Slack)
        /\ \/ Abs(goal' - goal) <= Rate * Least(since', MaxInterval)
                                 + Abs(goal - command) + Outside
           \/ Abs(goal' - actual) < Abs(goal - actual)
<1>1. JointInv /\ [Next]_vars => [Gentle]_vars
  <2> SUFFICES ASSUME JointInv, Next, session = "armed", goal' # goal
               PROVE  Gentle
    OBVIOUS
  <2>1. PICK request \in Lower..Upper, dt \in Tick : goal' = Slew(request, dt) /\ since' = dt
    BY DEF Next, Arm, Open, SynchronizeAndArm, OpenLiveAnchored, Armed, Rebase, Sample,
       ReadFails, Close
  <2> QED
    BY <2>1, SlewMoves DEF JointInv
<1> QED
  BY <1>1, JointSafety, PTL DEF Spec, GentleStep
=============================================================================
