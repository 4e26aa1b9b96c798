--------------------------- MODULE DevLoopProofs ---------------------------
(***************************************************************************)
(* Safety of the development loop's test runner, for any set of runners,   *)
(* identities and process ids, and that it implements TestLedger.          *)
(***************************************************************************)
EXTENDS DevLoopRunner, TLAPS

USE DEF runVars, procVars, diskVars

\* LeaseInv but for the logs.
Leasing == Locking /\ Parents /\ Leases

\* With edits held back the steps are steps of the runner.
LEMMA StillIsNext == StillNext => Next
BY DEF StillNext, Next

\* Every step keeps the types of the variables.
LEMMA RunnerTypeStep == TypeOK /\ [Next]_vars => TypeOK'
<1> SUFFICES ASSUME TypeOK, [Next]_vars PROVE TypeOK'
  OBVIOUS
<1> USE DEF TypeOK, Goto, Return, Inside, Parenting, Answer, Child, Zombie
<1>1. ASSUME NEW p \in Runner, Call(p) \/ Acquire(p) PROVE TypeOK'
  BY <1>1 DEF Call, Acquire
<1>2. ASSUME NEW p \in Runner, Reuse(p) \/ Refuse(p) PROVE TypeOK'
  BY <1>2 DEF Reuse, Refuse
<1>3. ASSUME NEW p \in Runner, Launch(p) PROVE TypeOK'
  <2>1. PICK k \in Pid : Become(k, "gate", id[p], p) /\ pid' = [pid EXCEPT ![p] = k]
    BY <1>3 DEF Launch, Spawn
  <2>2. pid' \in [Runner -> Pid \cup {None}]
    BY <2>1
  <2>3. /\ st' \in [Pid -> {"free", "other"} \cup Child]
        /\ of' \in [Pid -> Identity \cup {None}] /\ owner' \in [Pid -> Runner \cup {None}]
        /\ told' \in [Pid -> BOOLEAN] /\ seen' \in [Pid -> Identity \cup {None}]
    BY <2>1 DEF Become
  <2>4. QED
    BY <1>3, <2>2, <2>3 DEF Launch, Spawn, Output
<1>4. ASSUME NEW p \in Runner, LaunchFault(p) PROVE TypeOK'
  BY <1>4 DEF LaunchFault, Output
<1>5. ASSUME NEW p \in Runner, WriteLease(p) PROVE TypeOK'
  BY <1>5 DEF WriteLease, Lease
<1>6. ASSUME NEW p \in Runner, OpenGate(p) PROVE TypeOK'
  BY <1>6 DEF OpenGate
<1>7. ASSUME NEW p \in Runner, GateLost(p) PROVE TypeOK'
  BY <1>7 DEF GateLost, Abandon, LetGo, Gone, Become
<1>8. ASSUME NEW p \in Runner, Interrupt(p) PROVE TypeOK'
  BY <1>8 DEF Interrupt, Abandon, LetGo, Gone, Become
<1>9. ASSUME NEW p \in Runner, Reap(p) PROVE TypeOK'
  BY <1>9 DEF Reap, Gone, Become, Code
<1>10. ASSUME NEW p \in Runner, Timeout(p) PROVE TypeOK'
  BY <1>10 DEF Timeout, Gone, Become, Code, Output
<1>11. ASSUME NEW p \in Runner, CloseLease(p) PROVE TypeOK'
  BY <1>11 DEF CloseLease, Lease
<1>12. ASSUME NEW p \in Runner, Certify(p) PROVE TypeOK'
  BY <1>12 DEF Certify, Receipt
<1>13. ASSUME NEW p \in Runner, Fault(p) PROVE TypeOK'
  BY <1>13 DEF Fault
<1>14. ASSUME NEW p \in Runner, Crash(p) PROVE TypeOK'
  BY <1>14 DEF Crash, LetGo, Gone, Become
<1>15. ASSUME NEW k \in Pid, Exec(k) PROVE TypeOK'
  BY <1>15 DEF Exec
<1>16. ASSUME NEW k \in Pid, GiveUp(k) PROVE TypeOK'
  BY <1>16 DEF GiveUp, Exits, Gone, Become
<1>17. ASSUME NEW k \in Pid, TestEnds(k) PROVE TypeOK'
  <2>1. PICK end \in Zombie : Exits(k, end) /\ log' = [log EXCEPT ![of[k]] = end]
    BY <1>17 DEF TestEnds
  <2>2. log' \in [Identity -> Output]
    BY <2>1 DEF Output
  <2>3. /\ st' \in [Pid -> {"free", "other"} \cup Child]
        /\ of' \in [Pid -> Identity \cup {None}] /\ owner' \in [Pid -> Runner \cup {None}]
        /\ told' \in [Pid -> BOOLEAN] /\ seen' \in [Pid -> Identity \cup {None}]
    BY <2>1 DEF Exits, Gone, Become
  <2>4. QED
    BY <1>17, <2>2, <2>3 DEF TestEnds
<1>18. ASSUME NEW k \in Pid, OtherStarts(k) \/ OtherEnds(k) PROVE TypeOK'
  BY <1>18 DEF OtherStarts, OtherEnds, Gone, Become
<1>19. ASSUME NEW x \in Identity, LogChanged(x) PROVE TypeOK'
  BY <1>19 DEF LogChanged, Output
<1>20. ASSUME Edit PROVE TypeOK'
  BY <1>20 DEF Edit
<1>21. ASSUME UNCHANGED vars PROVE TypeOK'
  BY <1>21 DEF vars
<1>22. QED
  BY <1>1, <1>2, <1>3, <1>4, <1>5, <1>6, <1>7, <1>8, <1>9, <1>10,
     <1>11, <1>12, <1>13, <1>14, <1>15, <1>16, <1>17, <1>18, <1>19,
     <1>20, <1>21
     DEF Next, Machine, RunnerStep

\* The initial state has the types.
LEMMA RunnerInitTypes == Init => TypeOK
BY DEF Init, TypeOK, Lease, NoLease, Receipt, NoReceipt, Output, Code, Inside, Parenting,
    Answer, Child, Zombie

\* What a runner knows, a process id holds and a file on disk says is always one
\* of the values the code gives it.
THEOREM RunnerTypes == Spec => []TypeOK
<1>1. QED
  BY RunnerInitTypes, RunnerTypeStep, PTL DEF Spec
\* Two admitted children of one identity are one process.
LEMMA LeasedOnce ==
  ASSUME Leases, NEW j \in Pid, NEW k \in Pid, Admitted(j), Admitted(k), of[j] = of[k]
  PROVE  j = k
<1>1. lease[of[k]] = [status |-> "active", pid |-> j]
  BY DEF Leases
<1>2. lease[of[k]] = [status |-> "active", pid |-> k]
  BY DEF Leases
<1>3. QED
  BY <1>1, <1>2

\* A runner with a lease on disk knows the one child its identity may have.
LEMMA LeasedChild ==
  ASSUME Leases, NEW q \in Runner, pc[q] \in {"gating", "waiting"},
         NEW j \in Pid, Admitted(j), of[j] = id[q]
  PROVE  j = pid[q]
<1>1. lease[id[q]] = [status |-> "active", pid |-> j]
  BY DEF Leases
<1>2. lease[id[q]] = [status |-> "active", pid |-> pid[q]]
  BY DEF Leases
<1>3. QED
  BY <1>1, <1>2

\* A step keeps the locks, the parents and the leases.
LEMMA LeaseStep == TypeOK /\ Leasing /\ [Next]_vars => Leasing'
<1> SUFFICES ASSUME TypeOK, Leasing, [Next]_vars PROVE Leasing'
  OBVIOUS
<1> USE NoneAssumption DEF TypeOK, Leasing, At, Goto, Return, Inside, Parenting,
     Answer, Child, Zombie
<1>1. ASSUME NEW p \in Runner, Call(p) PROVE Leasing'
  <2>1. Locking'
    BY <1>1 DEF Call, Locking, Parents
  <2>2. Parents'
    BY <1>1 DEF Call, Locking, Parents
  <2>3. Leases'
    BY <1>1 DEF Call, Locking, Parents, Leases, Admitted
  <2>4. QED
    BY <2>1, <2>2, <2>3
<1>2. ASSUME NEW p \in Runner, Acquire(p) PROVE Leasing'
  <2>1. Locking'
    BY <1>2 DEF Acquire, Locking, Parents
  <2>2. Parents'
    BY <1>2 DEF Acquire, Locking, Parents
  <2>3. Leases'
    BY <1>2 DEF Acquire, Locking, Parents, Leases, Admitted
  <2>4. QED
    BY <2>1, <2>2, <2>3
<1>3. ASSUME NEW p \in Runner, Reuse(p) \/ Refuse(p) PROVE Leasing'
  <2>1. Locking'
    BY <1>3 DEF Reuse, Refuse, Locking, Parents
  <2>2. Parents'
    BY <1>3 DEF Reuse, Refuse, Locking, Parents
  <2>3. Leases'
    BY <1>3 DEF Reuse, Refuse, Locking, Parents, Leases, Admitted
  <2>4. QED
    BY <2>1, <2>2, <2>3
<1>4. ASSUME NEW p \in Runner, Launch(p) PROVE Leasing'
  <2>1. Locking'
    BY <1>4 DEF Launch, Spawn, Become, LeaseHeld, Locking, Parents
  <2>2. Parents'
    BY <1>4 DEF Launch, Spawn, Become, LeaseHeld, Locking, Parents
  <2>3. Leases'
    <3>1. \A j \in Pid : Admitted(j) => of[j] # id[p]
      <4> SUFFICES ASSUME NEW j \in Pid, Admitted(j), of[j] = id[p] PROVE FALSE
        OBVIOUS
      <4>1. lease[id[p]] = [status |-> "active", pid |-> j]
        BY DEF Leases
      <4>2. lease[id[p]].status = "active" /\ lease[id[p]].pid = j
        BY <4>1
      <4>3. QED
        BY <1>4, <4>2 DEF Launch, LeaseHeld, Admitted
    <3>2. lock = p /\ id[p] \in Identity
      BY <1>4 DEF Launch, Locking, Parents
    <3>3. PICK k \in Pid : st[k] = "free" /\ Become(k, "gate", id[p], p)
      BY <1>4 DEF Launch, Spawn
    <3>4. /\ pc' = [pc EXCEPT ![p] = "leasing"] /\ UNCHANGED <<id, lease>>
          /\ \A q \in Runner \ {p} : pid'[q] = pid[q]
      BY <1>4 DEF Launch, Spawn
    <3>5. \A j \in Pid : Admitted(j)' => j # k /\ Admitted(j) /\ of'[j] = of[j]
      BY <3>3 DEF Become, Admitted
    <3>6. \A q \in Runner \ {p} : pc[q] \notin Inside
      BY <3>2 DEF Locking
    <3>7. QED
      BY <3>1, <3>4, <3>5, <3>6 DEF Leases
  <2>4. QED
    BY <2>1, <2>2, <2>3
<1>5. ASSUME NEW p \in Runner, LaunchFault(p) PROVE Leasing'
  <2>1. Locking'
    BY <1>5 DEF LaunchFault, Locking, Parents
  <2>2. Parents'
    BY <1>5 DEF LaunchFault, Locking, Parents
  <2>3. Leases'
    BY <1>5 DEF LaunchFault, Locking, Parents, Leases, Admitted
  <2>4. QED
    BY <2>1, <2>2, <2>3
<1>6. ASSUME NEW p \in Runner, WriteLease(p) PROVE Leasing'
  <2>1. Locking'
    BY <1>6 DEF WriteLease, Locking, Parents
  <2>2. Parents'
    BY <1>6 DEF WriteLease, Locking, Parents
  <2>3. Leases'
    BY <1>6 DEF WriteLease, Locking, Parents, Leases, Admitted
  <2>4. QED
    BY <2>1, <2>2, <2>3
<1>7. ASSUME NEW p \in Runner, OpenGate(p) PROVE Leasing'
  <2>1. Locking'
    BY <1>7 DEF OpenGate, Locking, Parents
  <2>2. Parents'
    BY <1>7 DEF OpenGate, Locking, Parents
  <2>3. Leases'
    BY <1>7 DEF OpenGate, Locking, Parents, Leases, Admitted
  <2>4. QED
    BY <2>1, <2>2, <2>3
<1>8. ASSUME NEW p \in Runner, GateLost(p) \/ Interrupt(p) PROVE Leasing'
  <2>1. Locking'
    BY <1>8 DEF GateLost, Interrupt, Abandon, LetGo, Gone, Become, Locking, Parents
  <2>2. Parents'
    BY <1>8 DEF GateLost, Interrupt, Abandon, LetGo, Gone, Become, Locking, Parents
  <2>3. Leases'
    BY <1>8 DEF GateLost, Interrupt, Abandon, LetGo, Gone, Become, Locking, Parents,
         Leases, Admitted
  <2>4. QED
    BY <2>1, <2>2, <2>3
<1>9. ASSUME NEW p \in Runner, Reap(p) \/ Timeout(p) PROVE Leasing'
  <2>1. Locking'
    BY <1>9 DEF Reap, Timeout, Gone, Become, Locking, Parents
  <2>2. Parents'
    BY <1>9 DEF Reap, Timeout, Gone, Become, Locking, Parents
  <2>3. Leases'
    <3>1. \A q \in Runner \ {p} : pc[q] \notin Inside
      BY <1>9 DEF Reap, Timeout, Locking
    <3>2. id[p] \in Identity
      BY <1>9 DEF Reap, Timeout, Parents
    <3>3. \A j \in Pid : Admitted(j)' => j # pid[p] /\ Admitted(j) /\ of'[j] = of[j]
      BY <1>9 DEF Reap, Timeout, Gone, Become, Admitted
    <3>4. \A j \in Pid : Admitted(j) /\ of[j] = id[p] => j = pid[p]
      BY <1>9, LeasedChild DEF Reap, Timeout
    <3>5. pc' = [pc EXCEPT ![p] = "closing"] /\ UNCHANGED <<id, pid, lease>>
      BY <1>9 DEF Reap, Timeout
    <3>6. QED
      BY <3>1, <3>3, <3>4, <3>5 DEF Leases
  <2>4. QED
    BY <2>1, <2>2, <2>3
<1>10. ASSUME NEW p \in Runner, CloseLease(p) PROVE Leasing'
  <2>1. Locking'
    BY <1>10 DEF CloseLease, Locking, Parents
  <2>2. Parents'
    BY <1>10 DEF CloseLease, Locking, Parents
  <2>3. Leases'
    <3>1. \A q \in Runner \ {p} : pc[q] \notin Inside
      BY <1>10 DEF CloseLease, Locking
    <3>2. \A j \in Pid : Admitted(j) => of[j] # id[p]
      BY <1>10 DEF CloseLease, Leases
    <3>3. \A x \in Identity : x # id[p] => lease'[x] = lease[x]
      BY <1>10 DEF CloseLease
    <3>4. \A x \in Identity : lease'[x].status = "active" => lease'[x].pid \in Pid
      BY <1>10 DEF CloseLease, Leases
    <3>5. \A j \in Pid : Admitted(j)' => Admitted(j) /\ of[j] \in Identity
      BY <1>10 DEF CloseLease, Admitted, Parents
    <3>6. QED
      BY <1>10, <3>1, <3>2, <3>3, <3>4, <3>5 DEF CloseLease, Leases
  <2>4. QED
    BY <2>1, <2>2, <2>3
<1>11. ASSUME NEW p \in Runner, Certify(p) PROVE Leasing'
  <2>1. Locking'
    BY <1>11 DEF Certify, Locking, Parents
  <2>2. Parents'
    BY <1>11 DEF Certify, Locking, Parents
  <2>3. Leases'
    BY <1>11 DEF Certify, Locking, Parents, Leases, Admitted
  <2>4. QED
    BY <2>1, <2>2, <2>3
<1>12. ASSUME NEW p \in Runner, Fault(p) PROVE Leasing'
  <2>1. Locking'
    BY <1>12 DEF Fault, Locking, Parents
  <2>2. Parents'
    BY <1>12 DEF Fault, Locking, Parents
  <2>3. Leases'
    BY <1>12 DEF Fault, Locking, Parents, Leases, Admitted
  <2>4. QED
    BY <2>1, <2>2, <2>3
<1>13. ASSUME NEW p \in Runner, Crash(p) PROVE Leasing'
  <2>1. Locking'
    BY <1>13 DEF Crash, LetGo, Gone, Become, Locking, Parents
  <2>2. Parents'
    BY <1>13 DEF Crash, LetGo, Gone, Become, Locking, Parents
  <2>3. Leases'
    BY <1>13 DEF Crash, LetGo, Gone, Become, Locking, Parents, Leases, Admitted
  <2>4. QED
    BY <2>1, <2>2, <2>3
<1>14. ASSUME NEW k \in Pid, Exec(k) PROVE Leasing'
  <2>1. Locking'
    BY <1>14 DEF Exec, Locking, Parents
  <2>2. Parents'
    BY <1>14 DEF Exec, Locking, Parents
  <2>3. Leases'
    BY <1>14 DEF Exec, Locking, Parents, Leases, Admitted
  <2>4. QED
    BY <2>1, <2>2, <2>3
<1>15. ASSUME NEW k \in Pid, GiveUp(k) PROVE Leasing'
  <2>1. Locking'
    BY <1>15 DEF GiveUp, Exits, Gone, Become, Locking, Parents
  <2>2. Parents'
    BY <1>15 DEF GiveUp, Exits, Gone, Become, Locking, Parents
  <2>3. Leases'
    BY <1>15 DEF GiveUp, Exits, Gone, Become, Locking, Parents, Leases, Admitted
  <2>4. QED
    BY <2>1, <2>2, <2>3
<1>16. ASSUME NEW k \in Pid, TestEnds(k) PROVE Leasing'
  <2>1. Locking'
    BY <1>16 DEF TestEnds, Exits, Gone, Become, Locking, Parents
  <2>2. Parents'
    BY <1>16 DEF TestEnds, Exits, Gone, Become, Locking, Parents
  <2>3. Leases'
    BY <1>16 DEF TestEnds, Exits, Gone, Become, Locking, Parents, Leases, Admitted
  <2>4. QED
    BY <2>1, <2>2, <2>3
<1>17. ASSUME NEW k \in Pid, OtherStarts(k) \/ OtherEnds(k) PROVE Leasing'
  <2>1. Locking'
    BY <1>17 DEF OtherStarts, OtherEnds, Gone, Become, Locking, Parents
  <2>2. Parents'
    BY <1>17 DEF OtherStarts, OtherEnds, Gone, Become, Locking, Parents
  <2>3. Leases'
    BY <1>17 DEF OtherStarts, OtherEnds, Gone, Become, Locking, Parents, Leases, Admitted
  <2>4. QED
    BY <2>1, <2>2, <2>3
<1>18. ASSUME (\E x \in Identity : LogChanged(x)) \/ Edit \/ UNCHANGED vars PROVE Leasing'
  BY <1>18 DEF LogChanged, Edit, vars, Locking, Parents, Leases, Admitted
<1>19. QED
  BY <1>1, <1>2, <1>3, <1>4, <1>5, <1>6, <1>7, <1>8, <1>9, <1>10,
     <1>11, <1>12, <1>13, <1>14, <1>15, <1>16, <1>17, <1>18
     DEF Next, Machine, RunnerStep

\* While p holds the lock and waits for no child there is no zombie.
LEMMA NoZombies ==
  ASSUME TypeOK, Leasing, NEW p \in Runner, pc[p] \in Inside \ Parenting
  PROVE  \A k \in Pid : st[k] \notin Zombie
<1>1. \A q \in Runner : pc[q] \notin Parenting
  BY DEF Leasing, Locking, Inside
<1>2. \A k \in Pid : owner[k] # None => owner[k] \in Runner
  BY DEF TypeOK
<1>3. QED
  BY <1>1, <1>2 DEF Leasing, Parents

\* A step keeps what the logs say.
LEMMA LogsStep == TypeOK /\ LeaseInv /\ [Next]_vars => Logs'
<1> SUFFICES ASSUME TypeOK, LeaseInv, [Next]_vars PROVE Logs'
  OBVIOUS
<1> USE NoneAssumption DEF TypeOK, At, Goto, Return, Inside, Parenting, Answer, Child, Zombie
<1>a. Locking /\ Parents /\ Leases /\ Logs /\ Leasing
  BY DEF LeaseInv, Leasing
<1>1. ASSUME NEW p \in Runner, Call(p) PROVE Logs'
  BY <1>a, <1>1 DEF Call, Locking, Parents, Leases, Admitted, Logs
<1>2. ASSUME NEW p \in Runner, Acquire(p) PROVE Logs'
  BY <1>a, <1>2 DEF Acquire, Locking, Parents, Leases, Admitted, Logs
<1>3. ASSUME NEW p \in Runner, Reuse(p) \/ Refuse(p) PROVE Logs'
  BY <1>a, <1>3 DEF Reuse, Refuse, Locking, Parents, Leases, Admitted, Logs
<1>4. ASSUME NEW p \in Runner, Launch(p) \/ LaunchFault(p) PROVE Logs'
  <2>1. /\ pc[p] = "checking" /\ id[p] \in Identity
        /\ log' = [log EXCEPT ![id[p]] = "open"]
        /\ pc' \in {[pc EXCEPT ![p] = "leasing"], [pc EXCEPT ![p] = "raised"]}
        /\ UNCHANGED <<id, code, receipt>>
    BY <1>a, <1>4 DEF Launch, LaunchFault, Spawn, Parents
  <2>2. \A j \in Pid : st[j] \notin Zombie
    BY <1>a, <2>1, NoZombies
  <2>3. \A q \in Runner \ {p} : pc[q] \notin Inside
    BY <1>a, <2>1 DEF Locking
  <2>4. \A j \in Pid : /\ st'[j] = "passed" => st[j] = "passed"
                       /\ Admitted(j)' => Admitted(j) /\ of'[j] = of[j]
    BY <1>4 DEF Launch, LaunchFault, Spawn, Become, Admitted
  <2>5. \A j \in Pid : Admitted(j) => of[j] \in Identity
    BY <1>a DEF Parents, Admitted
  <2>6. QED
    BY <1>a, <2>1, <2>2, <2>3, <2>4, <2>5 DEF Logs
<1>5. ASSUME NEW p \in Runner, WriteLease(p) PROVE Logs'
  BY <1>a, <1>5 DEF WriteLease, Locking, Parents, Leases, Admitted, Logs
<1>6. ASSUME NEW p \in Runner, OpenGate(p) PROVE Logs'
  BY <1>a, <1>6 DEF OpenGate, Locking, Parents, Leases, Admitted, Logs
<1>7. ASSUME NEW p \in Runner, GateLost(p) \/ Interrupt(p) PROVE Logs'
  BY <1>a, <1>7 DEF GateLost, Interrupt, Abandon, LetGo, Gone, Become, Locking,
      Parents, Leases, Admitted, Logs
<1>8. ASSUME NEW p \in Runner, Reap(p) PROVE Logs'
  BY <1>a, <1>8 DEF Reap, Gone, Become, Locking, Parents, Leases, Admitted, Logs
<1>9. ASSUME NEW p \in Runner, Timeout(p) PROVE Logs'
  <2>1. \A q \in Runner \ {p} : pc[q] \notin Inside
    BY <1>a, <1>9 DEF Timeout, Locking
  <2>2. \A j \in Pid : st[j] \notin Zombie
    BY <1>a, <1>9, <2>1 DEF Timeout, Parents
  <2>3. \A j \in Pid : Admitted(j) /\ of[j] = id[p] => j = pid[p]
    BY <1>a, <1>9, LeasedChild DEF Timeout
  <2>4. QED
    BY <1>a, <1>9, <2>1, <2>2, <2>3 DEF Timeout, Gone, Become, Parents, Admitted, Logs
<1>10. ASSUME NEW p \in Runner, CloseLease(p) PROVE Logs'
  BY <1>a, <1>10 DEF CloseLease, Locking, Parents, Leases, Admitted, Logs
<1>11. ASSUME NEW p \in Runner, Certify(p) PROVE Logs'
  BY <1>a, <1>11 DEF Certify, Locking, Parents, Leases, Admitted, Logs
<1>12. ASSUME NEW p \in Runner, Fault(p) PROVE Logs'
  BY <1>a, <1>12 DEF Fault, Locking, Parents, Leases, Admitted, Logs
<1>13. ASSUME NEW p \in Runner, Crash(p) PROVE Logs'
  BY <1>a, <1>13 DEF Crash, LetGo, Gone, Become, Locking, Parents, Leases, Admitted,
      Logs
<1>14. ASSUME NEW k \in Pid, Exec(k) PROVE Logs'
  BY <1>a, <1>14 DEF Exec, Locking, Parents, Leases, Admitted, Logs
<1>15. ASSUME NEW k \in Pid, GiveUp(k) PROVE Logs'
  BY <1>a, <1>15 DEF GiveUp, Exits, Gone, Become, Locking, Parents, Leases, Admitted,
      Logs
<1>16. ASSUME NEW k \in Pid, TestEnds(k) PROVE Logs'
  <2>1. PICK end \in Zombie : Exits(k, end) /\ log' = [log EXCEPT ![of[k]] = end]
    BY <1>16 DEF TestEnds
  <2>2. Admitted(k) /\ of[k] \in Identity
    BY <1>a, <1>16 DEF TestEnds, Parents, Admitted
  <2>3. \A j \in Pid : Admitted(j) /\ of[j] = of[k] => j = k
    BY <1>a, <2>2, LeasedOnce
  <2>4. ASSUME NEW q \in Runner, pc[q] \in Inside, id[q] = of[k]
        PROVE  pc[q] \in {"waiting", "checking"} /\ (pc[q] = "waiting" => pid[q] = k)
    <3>1. pc[q] \notin {"leasing", "closing", "certifying"}
      BY <1>a, <2>2, <2>4 DEF Leases
    <3>2. pc[q] \in {"gating", "waiting"} => pid[q] = k
      BY <1>a, <2>2, <2>4, LeasedChild
    <3>3. pc[q] # "gating"
      BY <1>a, <2>2, <3>2 DEF Parents, Admitted
    <3>4. QED
      BY <2>4, <3>1, <3>2, <3>3
  <2>5. ASSUME NEW j \in Pid, st[j] \in Zombie, of[j] = of[k] PROVE FALSE
    <3>1. /\ owner[j] \in Runner /\ pc[owner[j]] \in Parenting
          /\ pid[owner[j]] = j /\ id[owner[j]] = of[k]
      BY <1>a, <2>5 DEF Parents
    <3>2. j = k
      BY <2>4, <3>1
    <3>3. QED
      BY <1>16, <2>5, <3>2 DEF TestEnds
  <2>6. \A j \in Pid \ {k} : st'[j] = st[j] /\ of'[j] = of[j] /\ told'[j] = told[j]
    BY <2>1 DEF Exits, Gone, Become
  <2>7. st'[k] = "free" \/ (st'[k] = end /\ of'[k] = of[k])
    BY <2>1 DEF Exits, Gone, Become
  <2>8. \A j \in Pid : st[j] \in Child => of[j] \in Identity
    BY <1>a DEF Parents
  <2>9. \A q \in Runner :
          /\ pc[q] \in {"leasing", "gating"} => log'[id[q]] = "open"
          /\ pc[q] \in {"closing", "certifying"} /\ code[q] = "pass" =>
               log'[id[q]] = "passed"
    BY <1>a, <2>1, <2>2, <2>4 DEF Logs, Parents
  <2>10. ASSUME NEW j \in Pid
         PROVE  /\ st'[j] = "passed" => log'[of'[j]] = "passed"
                /\ Admitted(j)' => log'[of'[j]] \in {"open", "changed"}
    <3>1. CASE j = k
      BY <2>1, <2>2, <2>7, <3>1 DEF Admitted
    <3>2. CASE j # k
      BY <1>a, <2>1, <2>2, <2>3, <2>5, <2>6, <2>8, <3>2 DEF Logs, Admitted
    <3>3. QED
      BY <3>1, <3>2
  <2>11. QED
    BY <1>a, <1>16, <2>9, <2>10 DEF TestEnds, Logs
<1>17. ASSUME NEW k \in Pid, OtherStarts(k) \/ OtherEnds(k) PROVE Logs'
  BY <1>a, <1>17 DEF OtherStarts, OtherEnds, Gone, Become, Locking, Parents, Leases,
      Admitted, Logs
<1>18. ASSUME NEW x \in Identity, LogChanged(x) PROVE Logs'
  <2>1. \A j \in Pid : st[j] \notin Zombie
    BY <1>a, <1>18 DEF LogChanged, Locking, Parents
  <2>2. QED
    BY <1>a, <1>18, <2>1 DEF LogChanged, Locking, Parents, Admitted, Logs
<1>19. ASSUME Edit \/ UNCHANGED vars PROVE Logs'
  BY <1>a, <1>19 DEF Edit, vars, Admitted, Logs
<1>20. QED
  BY <1>1, <1>2, <1>3, <1>4, <1>5, <1>6, <1>7, <1>8, <1>9, <1>10,
     <1>11, <1>12, <1>13, <1>14, <1>15, <1>16, <1>17, <1>18, <1>19
     DEF Next, Machine, RunnerStep

\* No file names a process, a lease or a receipt when nothing has run.
LEMMA LeaseInvInit == Init => LeaseInv
BY NoneAssumption DEF Init, LeaseInv, Locking, Parents, Leases, Logs, NoLease, NoReceipt,
   Admitted, Inside, Parenting, Child, Zombie

\* A step keeps the whole invariant.
LEMMA LeaseInvStep == TypeOK /\ LeaseInv /\ [Next]_vars => LeaseInv'
BY LeaseStep, LogsStep DEF LeaseInv, Leasing

\* The lock, the children, the leases, logs and receipts agree throughout, with
\* the types, whoever edits the tree meanwhile.
THEOREM LeaseInvariant == Spec => [](TypeOK /\ LeaseInv)
<1>1. Init => TypeOK /\ LeaseInv
  BY RunnerInitTypes, LeaseInvInit
<1>2. TypeOK /\ LeaseInv /\ [Next]_vars => (TypeOK /\ LeaseInv)'
  BY RunnerTypeStep, LeaseInvStep
<1>3. QED
  BY <1>1, <1>2, PTL DEF Spec

\* An executing test is the one process its identity's active lease names: no
\* identity executes twice at once, and a crashed runner's child can be found.
THEOREM RunsAreLeased == Spec => []RunIsLeased
<1>1. TypeOK /\ LeaseInv => RunIsLeased
  BY DEF LeaseInv, Parents, Leases, Admitted, RunIsLeased
<1>2. QED
  BY <1>1, LeaseInvariant, PTL

\* A step with the tree still keeps what runs and passes that of the tree.
LEMMA HonestStep == TypeOK /\ HonestInv /\ [StillNext]_vars => HonestInv'
<1> SUFFICES ASSUME TypeOK, HonestInv, [StillNext]_vars PROVE HonestInv'
  OBVIOUS
<1> USE NoneAssumption DEF TypeOK, At, Goto, Return, Inside, Parenting, Answer, Child, Zombie
<1> DEFINE Honest == Fresh /\ PassIsHonest
<1>a. Locking /\ Parents /\ LeaseInv /\ Fresh /\ PassIsHonest
  BY DEF HonestInv, LeaseInv
<1>b. LeaseInv'
  BY <1>a, StillIsNext, LeaseInvStep
<1>1. ASSUME NEW p \in Runner, Call(p) \/ Acquire(p) \/ Reuse(p) \/ Refuse(p) PROVE Honest'
  <2>1. Fresh'
    BY <1>a, <1>1 DEF Call, Acquire, Reuse, Refuse, Locking, Parents, Fresh
  <2>2. PassIsHonest'
    BY <1>a, <1>1 DEF Call, Acquire, Reuse, Refuse, Fresh, PassIsHonest
  <2>3. QED
    BY <2>1, <2>2
<1>2. ASSUME NEW p \in Runner, Launch(p) \/ LaunchFault(p) PROVE Honest'
  <2>1. Fresh'
    BY <1>a, <1>2 DEF Launch, LaunchFault, Spawn, Become, Locking, Parents, Fresh
  <2>2. PassIsHonest'
    BY <1>a, <1>2 DEF Launch, LaunchFault, Spawn, Become, Fresh, PassIsHonest
  <2>3. QED
    BY <2>1, <2>2
<1>3. ASSUME NEW p \in Runner, WriteLease(p) \/ OpenGate(p) PROVE Honest'
  <2>1. Fresh'
    BY <1>a, <1>3 DEF WriteLease, OpenGate, Locking, Parents, Fresh
  <2>2. PassIsHonest'
    BY <1>a, <1>3 DEF WriteLease, OpenGate, Fresh, PassIsHonest
  <2>3. QED
    BY <2>1, <2>2
<1>4. ASSUME NEW p \in Runner, GateLost(p) \/ Interrupt(p) PROVE Honest'
  <2>1. Fresh'
    BY <1>a, <1>4 DEF GateLost, Interrupt, Abandon, LetGo, Gone, Become, Locking,
        Parents, Fresh
  <2>2. PassIsHonest'
    BY <1>a, <1>4 DEF GateLost, Interrupt, Abandon, LetGo, Gone, Become, Fresh,
        PassIsHonest
  <2>3. QED
    BY <2>1, <2>2
<1>5. ASSUME NEW p \in Runner, Reap(p) PROVE Honest'
  <2>1. Fresh'
    BY <1>a, <1>5 DEF Reap, Gone, Become, Locking, Parents, Fresh
  <2>2. PassIsHonest'
    BY <1>a, <1>5 DEF Reap, Gone, Become, Fresh, PassIsHonest
  <2>3. QED
    BY <2>1, <2>2
<1>6. ASSUME NEW p \in Runner, Timeout(p) PROVE Honest'
  <2>1. Fresh'
    BY <1>a, <1>6 DEF Timeout, Gone, Become, Locking, Parents, Fresh
  <2>2. PassIsHonest'
    BY <1>a, <1>6 DEF Timeout, Gone, Become, Fresh, PassIsHonest
  <2>3. QED
    BY <2>1, <2>2
<1>7. ASSUME NEW p \in Runner, CloseLease(p) \/ Certify(p) \/ Fault(p) PROVE Honest'
  <2>1. Fresh'
    BY <1>a, <1>7 DEF CloseLease, Certify, Fault, Locking, Parents, Fresh
  <2>2. PassIsHonest'
    BY <1>a, <1>7 DEF CloseLease, Certify, Fault, Fresh, PassIsHonest
  <2>3. QED
    BY <2>1, <2>2
<1>8. ASSUME NEW p \in Runner, Crash(p) PROVE Honest'
  <2>1. Fresh'
    BY <1>a, <1>8 DEF Crash, LetGo, Gone, Become, Locking, Parents, Fresh
  <2>2. PassIsHonest'
    BY <1>a, <1>8 DEF Crash, LetGo, Gone, Become, Fresh, PassIsHonest
  <2>3. QED
    BY <2>1, <2>2
<1>9. ASSUME NEW k \in Pid, Exec(k) PROVE Honest'
  <2>1. Fresh'
    BY <1>a, <1>9 DEF Exec, Locking, Parents, Fresh
  <2>2. PassIsHonest'
    BY <1>a, <1>9 DEF Exec, Fresh, PassIsHonest
  <2>3. QED
    BY <2>1, <2>2
<1>10. ASSUME NEW k \in Pid, GiveUp(k) PROVE Honest'
  <2>1. Fresh'
    BY <1>a, <1>10 DEF GiveUp, Exits, Gone, Become, Locking, Parents, Fresh
  <2>2. PassIsHonest'
    BY <1>a, <1>10 DEF GiveUp, Exits, Gone, Become, Fresh, PassIsHonest
  <2>3. QED
    BY <2>1, <2>2
<1>11. ASSUME NEW k \in Pid, TestEnds(k) PROVE Honest'
  <2>1. Fresh'
    BY <1>a, <1>11 DEF TestEnds, Exits, Gone, Become, Locking, Parents, Fresh
  <2>2. PassIsHonest'
    BY <1>a, <1>11 DEF TestEnds, Exits, Gone, Become, Fresh, PassIsHonest
  <2>3. QED
    BY <2>1, <2>2
<1>12. ASSUME NEW k \in Pid, OtherStarts(k) \/ OtherEnds(k) PROVE Honest'
  <2>1. Fresh'
    BY <1>a, <1>12 DEF OtherStarts, OtherEnds, Gone, Become, Locking, Parents, Fresh
  <2>2. PassIsHonest'
    BY <1>a, <1>12 DEF OtherStarts, OtherEnds, Gone, Become, Fresh, PassIsHonest
  <2>3. QED
    BY <2>1, <2>2
<1>13. ASSUME NEW x \in Identity, LogChanged(x) PROVE Honest'
  BY <1>a, <1>13 DEF LogChanged, Fresh, PassIsHonest
<1>14. ASSUME Still, Edit PROVE Honest'
  BY <1>a, <1>14 DEF Still, Edit, Fresh, PassIsHonest
<1>15. ASSUME UNCHANGED vars PROVE Honest'
  BY <1>a, <1>15 DEF vars, Fresh, PassIsHonest
<1>16. QED
  BY <1>b, <1>1, <1>2, <1>3, <1>4, <1>5, <1>6, <1>7, <1>8,
     <1>9, <1>10, <1>11, <1>12, <1>13, <1>14, <1>15
     DEF HonestInv, StillNext, Machine, RunnerStep

\* The inductive invariant holds throughout, when nobody edits under a run.
THEOREM HonestInvariant == StillSpec => [](TypeOK /\ HonestInv)
<1>1. Init => TypeOK /\ HonestInv
  <2>1. Init => Fresh /\ PassIsHonest
    BY DEF Init, Fresh, PassIsHonest, NoReceipt, Inside, Parenting, Child, Zombie
  <2>2. QED
    BY <2>1, RunnerInitTypes, LeaseInvInit DEF HonestInv
<1>2. TypeOK /\ HonestInv /\ [StillNext]_vars => (TypeOK /\ HonestInv)'
  <2>1. [StillNext]_vars => [Next]_vars
    BY StillIsNext
  <2>2. QED
    BY <2>1, RunnerTypeStep, HonestStep
<1>3. QED
  BY <1>1, <1>2, PTL DEF StillSpec

\* A passing receipt is for an identity whose test passes.
THEOREM PassesAreHonest == StillSpec => []PassIsHonest
<1>1. HonestInv => PassIsHonest
  BY DEF HonestInv
<1>2. QED
  BY <1>1, HonestInvariant, PTL

-----------------------------------------------------------------------------
(* Why a call returns: the holder of the lock always has a step of its own,  *)
(* and each takes it closer to its answer.                                   *)

\* What RunnerStep(p) waits for, action by action; Launch and LaunchFault, and
\* CloseLease and Certify, wait for nothing else.
CanStep(p) ==
  \/ At(p, "queued") /\ lock = None
  \/ pc[p] \in {"checking", "closing", "certifying"}
  \/ pc[p] \in {"leasing", "gating"} /\ st[pid[p]] \in {"gate"} \cup Zombie
  \/ At(p, "waiting") /\ st[pid[p]] \in {"gate", "running"} \cup Zombie

\* How far a call is from its answer.
Ahead ==
  [new |-> 8, queued |-> 7, checking |-> 6, leasing |-> 5, gating |-> 4,
   waiting |-> 3, closing |-> 2, certifying |-> 1,
   reused |-> 0, executed |-> 0, refused |-> 0, raised |-> 0]

\* Whatever its child did (gave up at the gate, hangs, ended, was abandoned), the
\* runner that keeps the others waiting is never itself waiting for nobody.
NobodyWaitsInVain == \A p \in Runner : At(p, "queued") \/ pc[p] \in Inside =>
                       \/ CanStep(p)
                       \/ At(p, "queued") /\ \E q \in Runner \ {p} : lock = q /\ CanStep(q)

\* No step takes a call further from its answer, and its runner's own brings it
\* nearer.
CallsAdvance ==
  [][\A p \in Runner : /\ Ahead[pc'[p]] <= Ahead[pc[p]]
                       /\ RunnerStep(p) => Ahead[pc'[p]] < Ahead[pc[p]]]_vars

\* From every waiting or working call there is a step towards an answer: its own
\* or that of the one runner it waits for.
THEOREM CallsCanStep == Spec => []NobodyWaitsInVain
<1>1. TypeOK /\ LeaseInv => NobodyWaitsInVain
  <2> SUFFICES ASSUME TypeOK, LeaseInv, NEW p \in Runner
               PROVE  /\ pc[p] \in Inside => CanStep(p)
                      /\ At(p, "queued") => lock = None \/ lock \in Runner \ {p}
                      /\ \A q \in Runner : lock = q => pc[q] \in Inside
    BY NoneAssumption DEF NobodyWaitsInVain, CanStep, At
  <2>1. pc[p] \in Parenting => st[pid[p]] \in Child /\ pid[p] \in Pid
    BY NoneAssumption DEF LeaseInv, Parents, Inside, Parenting
  <2>2. pc[p] \in {"leasing", "gating"} => st[pid[p]] # "running"
    BY <2>1 DEF LeaseInv, Parents, Parenting
  <2>3. QED
    BY <2>1, <2>2 DEF TypeOK, LeaseInv, Locking, CanStep, At, Inside, Parenting, Child,
       Zombie
<1>2. QED
  BY <1>1, LeaseInvariant, PTL

\* A call is at most seven steps of its runner away from its answer, and nothing
\* another process does adds to them.
THEOREM CallsComeCloser == Spec => CallsAdvance
<1> DEFINE Nearer(p) == Ahead[pc'[p]] < Ahead[pc[p]]
<1>1. ASSUME TypeOK, [Next]_vars, NEW p \in Runner
      PROVE  Ahead[pc'[p]] <= Ahead[pc[p]] /\ (RunnerStep(p) => Nearer(p))
  <2> USE <1>1 DEF TypeOK, At, Goto, Return, Inside, Parenting, Answer, Ahead
  <2>1. ASSUME NEW q \in Runner, RunnerStep(q)
        PROVE  /\ Ahead[pc'[q]] < Ahead[pc[q]]
               /\ pc' = [pc EXCEPT ![q] = pc'[q]]
    BY <2>1 DEF RunnerStep, Acquire, Reuse, Refuse, Launch, Spawn, LaunchFault, WriteLease,
       OpenGate, GateLost, Abandon, Reap, Timeout, CloseLease, Certify
  <2>2. ASSUME NEW q \in Runner, Call(q) \/ Interrupt(q) \/ Fault(q) \/ Crash(q)
        PROVE  /\ Ahead[pc'[q]] <= Ahead[pc[q]]
               /\ pc' = [pc EXCEPT ![q] = pc'[q]]
    BY <2>2 DEF Call, Interrupt, Abandon, Fault, Crash
  <2>3. \A q \in Runner : Ahead[pc[q]] \in 0..8
    OBVIOUS
  <2> HIDE DEF Ahead
  <2>4. \/ \E q \in Runner : RunnerStep(q)
        \/ \E q \in Runner : Call(q) \/ Interrupt(q) \/ Fault(q) \/ Crash(q)
        \/ pc' = pc
    BY DEF Next, Machine, Exec, GiveUp, TestEnds, OtherStarts, OtherEnds, LogChanged, Edit,
       vars
  <2>5. Ahead[pc'[p]] <= Ahead[pc[p]]
    <3>1. ASSUME NEW q \in Runner, Ahead[pc'[q]] <= Ahead[pc[q]],
                 pc' = [pc EXCEPT ![q] = pc'[q]]
          PROVE  Ahead[pc'[p]] <= Ahead[pc[p]]
      <4>1. p # q => pc'[p] = pc[p]
        BY <3>1
      <4>2. QED
        BY <2>3, <3>1, <4>1
    <3>2. pc' = pc => Ahead[pc'[p]] <= Ahead[pc[p]]
      BY <2>3
    <3>3. \A q \in Runner : Ahead[pc'[q]] < Ahead[pc[q]] => Ahead[pc'[q]] <= Ahead[pc[q]]
      <4>1. pc' \in [Runner -> {"new", "queued"} \cup Inside \cup Answer]
        BY <1>1, RunnerTypeStep
      <4>2. \A q \in Runner : Ahead[pc'[q]] \in 0..8
        BY <4>1 DEF Ahead
      <4>3. QED
        BY <2>3, <4>2
    <3>4. QED
      BY <2>1, <2>2, <2>4, <3>1, <3>2, <3>3
  <2>6. QED
    BY <2>1, <2>5
<1>2. TypeOK /\ [Next]_vars
        => [\A p \in Runner : /\ Ahead[pc'[p]] <= Ahead[pc[p]]
                              /\ RunnerStep(p) => Ahead[pc'[p]] < Ahead[pc[p]]]_vars
  BY <1>1
<1>3. QED
  BY <1>2, RunnerTypes, PTL DEF Spec, CallsAdvance

-----------------------------------------------------------------------------
(* run_test_with_receipt implements TestLedger: with the tree still, and but *)
(* for what a certificate says of its identity, also without.                *)

\* A step after which the same workers run changes nothing that executes.
LEMMA SameRunning ==
  ASSUME \A k \in Pid : /\ st'[k] = "running" <=> st[k] = "running"
                        /\ st[k] = "running" => of'[k] = of[k]
  PROVE  Executing' = Executing
BY DEF Executing

\* When a running worker ends, its identity executes no more: no other worker
\* runs it.
LEMMA RunningEnds ==
  ASSUME TypeOK, LeaseInv, NEW k \in Pid, st[k] = "running", st'[k] # "running",
         \A j \in Pid \ {k} : st'[j] = st[j] /\ of'[j] = of[j]
  PROVE  /\ of[k] \in Executing
         /\ Executing' = Executing \ {of[k]}
<1>1. \A j \in Pid : st[j] = "running" => Admitted(j) /\ of[j] \in Identity
  BY DEF LeaseInv, Parents, Admitted, Child, Zombie
<1>2. \A j \in Pid : st[j] = "running" /\ of[j] = of[k] => j = k
  BY <1>1, LeasedOnce DEF LeaseInv
<1>3. QED
  BY <1>1, <1>2 DEF Executing

\* A step that leaves logs and receipts alone leaves the certificates alone.
LEMMA SameCertified ==
  ASSUME UNCHANGED <<log, receipt>>
  PROVE  Certified' = Certified
BY DEF Certified, Reusable

\* A log that does not say the test passed makes no receipt good.
LEMMA CertifiedButLog ==
  ASSUME TypeOK, Logs, UNCHANGED receipt, NEW x \in Identity, NEW out,
         log' = [log EXCEPT ![x] = out], out # "passed"
  PROVE  Certified' = Certified \ {x}
BY DEF TypeOK, Logs, Certified, Reusable

\* A worker that is killed, let go or reaped ends its run, if it had one.
LEMMA GoneStep ==
  ASSUME TypeOK, LeaseInv, NEW k \in Pid, Gone(k), Certified' = Certified
  PROVE  [Runs!LedgerNext]_(Runs!ledger)
<1>1. /\ st'[k] = "free"
      /\ \A j \in Pid \ {k} : st'[j] = st[j] /\ of'[j] = of[j]
  BY DEF Gone, Become, TypeOK
<1>2. CASE st[k] = "running"
  <2>1. Runs!End(of[k])
    BY <1>1, <1>2, RunningEnds DEF Runs!End
  <2>2. of[k] \in Identity
    BY <1>2 DEF LeaseInv, Parents, Child
  <2>3. QED
    BY <2>1, <2>2 DEF Runs!LedgerNext
<1>3. CASE st[k] # "running"
  BY <1>1, <1>3, SameRunning DEF Runs!ledger
<1>4. QED
  BY <1>2, <1>3

\* A step that only drops one identity's certificate, if it had one.
LEMMA LossStep ==
  ASSUME NEW x \in Identity, Executing' = Executing, Certified' = Certified \ {x}
  PROVE  [Runs!LedgerNext]_(Runs!ledger)
<1>1. CASE x \in Certified
  BY <1>1 DEF Runs!LedgerNext, Runs!Lose
<1>2. CASE x \notin Certified
  BY <1>2 DEF Runs!ledger
<1>3. QED
  BY <1>1, <1>2

\* Every step of the runner is a step of the ledger or leaves it as it is.
LEMMA RunsStep ==
  ASSUME TypeOK, LeaseInv, [Next]_vars
  PROVE  [Runs!LedgerNext]_(Runs!ledger)
<1> DEFINE Goal == [Runs!LedgerNext]_(Runs!ledger)
<1>a. LeaseInv /\ Locking /\ Parents /\ Leases /\ Logs
  BY DEF LeaseInv
<1>1. ASSUME NEW p \in Runner,
             \/ Call(p) \/ Acquire(p) \/ Reuse(p) \/ Refuse(p)
             \/ WriteLease(p) \/ OpenGate(p) \/ CloseLease(p) \/ Fault(p)
      PROVE  Goal
  <2>1. UNCHANGED <<st, of, log, receipt>>
    BY <1>1 DEF Call, Acquire, Reuse, Refuse, WriteLease, OpenGate, CloseLease, Fault
  <2>2. QED
    BY <2>1, SameRunning, SameCertified DEF Runs!ledger
<1>2. ASSUME NEW p \in Runner, Launch(p) \/ LaunchFault(p) PROVE Goal
  <2>1. id[p] \in Identity
    BY <1>a, <1>2 DEF Launch, LaunchFault, At, Parents, Inside
  <2>2. Certified' = Certified \ {id[p]}
    BY <1>a, <1>2, <2>1, CertifiedButLog DEF Launch, LaunchFault, Spawn
  <2>3. Executing' = Executing
    BY <1>2, SameRunning DEF TypeOK, Launch, LaunchFault, Spawn, Become
  <2>4. QED
    BY <2>1, <2>2, <2>3, LossStep
<1>3. ASSUME NEW p \in Runner, GateLost(p) \/ Interrupt(p) \/ Reap(p) \/ Crash(p) PROVE Goal
  <2>1. Certified' = Certified
    BY <1>3, SameCertified DEF GateLost, Interrupt, Reap, Crash, Abandon
  <2>2. CASE Gone(pid[p]) /\ pc[p] \in Parenting
    <3>1. pid[p] \in Pid
      BY <1>a, <2>2 DEF Parents, Inside
    <3>2. QED
      BY <1>a, <2>1, <2>2, <3>1, GoneStep
  <2>3. CASE UNCHANGED <<st, of>>
    BY <2>1, <2>3, SameRunning DEF Runs!ledger
  <2>4. QED
    BY <1>3, <2>2, <2>3
       DEF GateLost, Interrupt, Reap, Crash, Abandon, LetGo, At, Parenting
<1>4. ASSUME NEW p \in Runner, Timeout(p) PROVE Goal
  <2>1. pid[p] \in Pid /\ id[p] \in Identity /\ of[pid[p]] = id[p]
    BY <1>a, <1>4 DEF Timeout, At, Parents, Inside, Parenting
  <2>2. Certified' = Certified \ {id[p]}
    BY <1>a, <1>4, <2>1, CertifiedButLog DEF Timeout
  <2>3. /\ st'[pid[p]] = "free"
        /\ \A j \in Pid \ {pid[p]} : st'[j] = st[j] /\ of'[j] = of[j]
    BY <1>4, <2>1 DEF Timeout, Gone, Become, TypeOK
  <2>4. CASE st[pid[p]] = "running"
    <3>1. id[p] \in Executing /\ Executing' = Executing \ {id[p]}
      BY <1>a, <2>1, <2>3, <2>4, RunningEnds
    <3>2. log[id[p]] # "passed"
      BY <1>a, <2>1, <2>4 DEF Logs, Parents, Admitted
    <3>3. id[p] \notin Certified
      BY <1>a, <3>2 DEF Logs, Certified, Reusable
    <3>4. Runs!End(id[p])
      BY <2>2, <3>1, <3>3 DEF Runs!End
    <3>5. QED
      BY <2>1, <3>4 DEF Runs!LedgerNext
  <2>5. CASE st[pid[p]] # "running"
    BY <2>1, <2>2, <2>3, <2>5, SameRunning, LossStep
  <2>6. QED
    BY <2>4, <2>5
<1>5. ASSUME NEW p \in Runner, Certify(p) PROVE Goal
  <2>1. id[p] \in Identity
    BY <1>a, <1>5 DEF Certify, At, Parents, Inside
  <2>2. Executing' = Executing
    BY <1>5, SameRunning DEF Certify
  <2>3. CASE code[p] = "pass"
    <3>1. log[id[p]] = "passed"
      BY <1>a, <1>5, <2>3 DEF Certify, At, Logs
    <3>2. id[p] \notin Executing
      BY <1>a, <1>5 DEF Certify, At, Leases, Parents, Admitted, Executing
    <3>3. Certified' = Certified \cup {id[p]}
      BY <1>5, <2>1, <2>3 DEF TypeOK, Certify, Certified, Reusable
    <3>4. QED
      BY <2>1, <2>2, <3>1, <3>2, <3>3 DEF Runs!LedgerNext, Runs!Certify
  <2>4. CASE code[p] # "pass"
    <3>1. Certified' = Certified \ {id[p]}
      BY <1>5, <2>1, <2>4 DEF TypeOK, Certify, Certified, Reusable
    <3>2. QED
      BY <2>1, <2>2, <3>1, LossStep
  <2>5. QED
    BY <2>3, <2>4
<1>6. ASSUME NEW k \in Pid, Exec(k) PROVE Goal
  <2>1. Admitted(k) /\ of[k] \in Identity
    BY <1>a, <1>6 DEF Exec, Admitted, Parents, Child
  <2>2. of[k] \notin Executing
    <3>1. \A j \in Pid : st[j] = "running" => Admitted(j)
      BY <1>a DEF Parents, Admitted
    <3>2. QED
      BY <1>a, <1>6, <2>1, <3>1, LeasedOnce DEF Exec, Executing
  <2>3. of[k] \notin Certified
    <3>1. log[of[k]] # "passed"
      BY <1>a, <2>1 DEF Logs
    <3>2. QED
      BY <1>a, <3>1 DEF Logs, Certified, Reusable
  <2>4. Executing' = Executing \cup {of[k]}
    BY <1>6, <2>1 DEF TypeOK, Exec, Executing
  <2>5. Certified' = Certified
    BY <1>6, SameCertified DEF Exec
  <2>6. QED
    BY <2>1, <2>2, <2>3, <2>4, <2>5 DEF Runs!LedgerNext, Runs!Begin
<1>7. ASSUME NEW k \in Pid, GiveUp(k) PROVE Goal
  <2>1. Certified' = Certified
    BY <1>7, SameCertified DEF GiveUp
  <2>2. CASE Gone(k)
    BY <1>a, <2>1, <2>2, GoneStep
  <2>3. CASE st' = [st EXCEPT ![k] = "failed"] /\ of' = of
    <3>1. Executing' = Executing
      BY <1>7, <2>3, SameRunning DEF TypeOK, GiveUp
    <3>2. QED
      BY <2>1, <3>1 DEF Runs!ledger
  <2>4. QED
    BY <1>7, <2>2, <2>3 DEF GiveUp, Exits
<1>8. ASSUME NEW k \in Pid, TestEnds(k) PROVE Goal
  <2>1. PICK end \in Zombie :
          Exits(k, end) /\ log' = [log EXCEPT ![of[k]] = end]
    BY <1>8 DEF TestEnds
  <2>2. of[k] \in Identity /\ log[of[k]] # "passed"
    BY <1>a, <1>8 DEF TestEnds, Parents, Logs, Admitted, Child
  <2>3. of[k] \in Executing /\ Executing' = Executing \ {of[k]}
    <3>1. st'[k] # "running"
      BY <2>1 DEF TypeOK, Exits, Gone, Become, Zombie
    <3>2. \A j \in Pid \ {k} : st'[j] = st[j] /\ of'[j] = of[j]
      BY <2>1 DEF TypeOK, Exits, Gone, Become
    <3>3. QED
      BY <1>a, <1>8, <3>1, <3>2, RunningEnds DEF TestEnds
  <2>4. Certified' \in {Certified, Certified \cup ({of[k]} \cap Identity)}
    <3>1. of[k] \notin Certified
      BY <1>a, <2>2 DEF Logs, Certified, Reusable
    <3>2. receipt' = receipt /\ \A x \in Identity \ {of[k]} : log'[x] = log[x]
      BY <1>8, <2>1 DEF TypeOK, TestEnds
    <3>3. \A x \in Identity \ {of[k]} : x \in Certified' <=> x \in Certified
      BY <3>2 DEF Certified, Reusable
    <3>4. CASE end = "passed"
      BY <2>1, <2>2, <3>1, <3>3, <3>4 DEF Certified
    <3>5. CASE end # "passed"
      <4>1. Certified' = Certified \ {of[k]}
        BY <1>a, <1>8, <2>1, <2>2, <3>5, CertifiedButLog DEF TestEnds
      <4>2. QED
        BY <3>1, <4>1
    <3>6. QED
      BY <3>4, <3>5
  <2>5. QED
    BY <2>2, <2>3, <2>4 DEF Runs!LedgerNext, Runs!End
<1>9. ASSUME NEW k \in Pid, OtherStarts(k) \/ OtherEnds(k) PROVE Goal
  <2>1. Executing' = Executing
    BY <1>9, SameRunning DEF TypeOK, OtherStarts, OtherEnds, Gone, Become
  <2>2. Certified' = Certified
    BY <1>9, SameCertified DEF OtherStarts, OtherEnds
  <2>3. QED
    BY <2>1, <2>2 DEF Runs!ledger
<1>10. ASSUME NEW x \in Identity, LogChanged(x) PROVE Goal
  <2>1. Executing' = Executing
    BY <1>10, SameRunning DEF LogChanged
  <2>2. Certified' = Certified \ {x}
    BY <1>a, <1>10, CertifiedButLog DEF LogChanged
  <2>3. QED
    BY <2>1, <2>2, LossStep
<1>11. ASSUME Edit \/ UNCHANGED vars PROVE Goal
  <2>1. UNCHANGED <<st, of, log, receipt>>
    BY <1>11 DEF Edit, vars
  <2>2. QED
    BY <2>1, SameRunning, SameCertified DEF Runs!ledger
<1>12. QED
  BY <1>1, <1>2, <1>3, <1>4, <1>5, <1>6, <1>7, <1>8, <1>9, <1>10, <1>11
     DEF Next, Machine, RunnerStep

\* Whatever is edited meanwhile, run_test_with_receipt implements the ledger of
\* runs: one of an identity at a time, and none of one a receipt answers for.
THEOREM RunsKept == Spec => KeepsRuns
<1>1. Init => Runs!LedgerInit
  BY DEF Init, Runs!LedgerInit, Executing, Certified, Reusable, NoReceipt
<1>2. TypeOK /\ LeaseInv /\ [Next]_vars => [Runs!LedgerNext]_(Runs!ledger)
  BY RunsStep
<1>3. QED
  BY <1>1, <1>2, LeaseInvariant, PTL DEF Spec, KeepsRuns, Runs!LedgerSpec

\* A step of that ledger that certifies only what passes is one of the ledger
\* the callers rely on.
LEMMA HonestRuns ==
  ASSUME [Runs!LedgerNext]_(Runs!ledger), PassIsHonest'
  PROVE  [Ledger!LedgerNext]_(Ledger!ledger)
<1>1. Certified' \subseteq Passing
  BY DEF PassIsHonest, Certified, Reusable
<1>2. ASSUME NEW x \in Identity, Runs!Begin(x) PROVE Ledger!Begin(x)
  BY <1>2 DEF Runs!Begin, Ledger!Begin
<1>3. ASSUME NEW x \in Identity, Runs!End(x) PROVE Ledger!End(x)
  BY <1>1, <1>3 DEF Runs!End, Ledger!End
<1>4. ASSUME NEW x \in Identity, Runs!Certify(x) PROVE Ledger!Certify(x)
  BY <1>1, <1>4 DEF Runs!Certify, Ledger!Certify
<1>5. ASSUME NEW x \in Identity, Runs!Lose(x) PROVE Ledger!Lose(x)
  BY <1>5 DEF Runs!Lose, Ledger!Lose
<1>6. ASSUME UNCHANGED Runs!ledger PROVE UNCHANGED Ledger!ledger
  BY <1>6 DEF Runs!ledger, Ledger!ledger
<1>7. QED
  BY <1>2, <1>3, <1>4, <1>5, <1>6 DEF Runs!LedgerNext, Ledger!LedgerNext

\* With the tree still it is the ledger its callers rely on: certificates are
\* only for what passes.
THEOREM LedgerKept == StillSpec => KeepsLedger
<1>1. Init => Ledger!LedgerInit
  BY DEF Init, Ledger!LedgerInit, Executing, Certified, Reusable, NoReceipt
<1>2. TypeOK /\ HonestInv /\ HonestInv' /\ [StillNext]_vars
        => [Ledger!LedgerNext]_(Ledger!ledger)
  <2>1. [StillNext]_vars => [Next]_vars
    BY StillIsNext
  <2>2. QED
    BY <2>1, RunsStep, HonestRuns DEF HonestInv
<1>3. QED
  BY <1>1, <1>2, HonestInvariant, PTL DEF StillSpec, KeepsLedger, Ledger!LedgerSpec
=============================================================================
