---------------------------- MODULE DevLoopRunner ----------------------------
(***************************************************************************)
(* The development loop's test runner: CLI processes that each call        *)
(* run_test_with_receipt once, the gated child process each may start, and *)
(* the lock, leases, logs and receipts they share on disk.  Runners crash  *)
(* at any point and leave their child behind; process ids are reused.      *)
(***************************************************************************)
EXTENDS Naturals, FiniteSets

CONSTANTS
  Runner,    \* invocations of run_test_with_receipt
  Identity,  \* contents of the relevant paths; the command is fixed
  Passing,   \* contents on which the test passes
  Pid,       \* bound: process ids the system has
  None       \* no runner, process or identity

ASSUME PassingAssumption == Passing \subseteq Identity
ASSUME NoneAssumption == None \notin Runner \cup Identity \cup Pid

VARIABLES
  tree,      \* what the relevant paths hold now
  lock,      \* the runner holding flock on .runner.lock
  pc,        \* each runner: where it stands, or how its call ended
  id,        \* the identity it computed
  pid,       \* its child's process id
  code,      \* its child's exit code, as it took it
  st,        \* each process id: what process has it
  of,        \* the identity a worker was started for
  owner,     \* the runner that can reap it
  told,      \* whether its gate was opened
  seen,      \* the contents its test reads
  lease,     \* process-lease.json of an identity
  log,       \* what test.log of an identity holds
  receipt    \* test-receipt.json of an identity

runVars  == <<pc, id, pid, code>>
procVars == <<st, of, owner, told, seen>>
diskVars == <<lease, log, receipt>>
vars     == <<tree, lock, runVars, procVars, diskVars>>

Parenting == {"leasing", "gating", "waiting"}
Inside    == {"checking", "closing", "certifying"} \cup Parenting
Answer    == {"reused", "executed", "refused", "raised"}

\* An exited child is a zombie until its runner reaps it.
Zombie == {"passed", "failed"}
Child  == {"gate", "running"} \cup Zombie

Code      == {"none", "pass", "fail"}
Output    == {"none", "open", "passed", "failed", "timeout", "changed"}
Lease     == [status: {"none", "active", "completed"}, pid: Pid \cup {None}]
NoLease   == [status |-> "none", pid |-> None]
Receipt   == [code: Code, log: Output]
NoReceipt == [code |-> "none", log |-> "none"]

TypeOK ==
  /\ tree \in Identity /\ lock \in Runner \cup {None}
  /\ pc \in [Runner -> {"new", "queued"} \cup Inside \cup Answer]
  /\ id \in [Runner -> Identity \cup {None}]
  /\ pid \in [Runner -> Pid \cup {None}]
  /\ code \in [Runner -> Code]
  /\ st \in [Pid -> {"free", "other"} \cup Child]
  /\ of \in [Pid -> Identity \cup {None}]
  /\ owner \in [Pid -> Runner \cup {None}]
  /\ told \in [Pid -> BOOLEAN]
  /\ seen \in [Pid -> Identity \cup {None}]
  /\ lease \in [Identity -> Lease]
  /\ log \in [Identity -> Output]
  /\ receipt \in [Identity -> Receipt]

Init ==
  /\ tree \in Identity /\ lock = None
  /\ pc = [p \in Runner |-> "new"] /\ code = [p \in Runner |-> "none"]
  /\ id = [p \in Runner |-> None] /\ pid = [p \in Runner |-> None]
  /\ st = [k \in Pid |-> "free"] /\ told = [k \in Pid |-> FALSE]
  /\ of = [k \in Pid |-> None] /\ owner = [k \in Pid |-> None]
  /\ seen = [k \in Pid |-> None]
  /\ lease = [x \in Identity |-> NoLease]
  /\ log = [x \in Identity |-> "none"]
  /\ receipt = [x \in Identity |-> NoReceipt]

-----------------------------------------------------------------------------
At(p, here)    == pc[p] = here
Goto(p, there) == pc' = [pc EXCEPT ![p] = there]

\* The with block ends: the call has its answer and closing the file unlocks it.
Return(p, answer) == Goto(p, answer) /\ lock' = None

\* Process id k now has another process, or none.
Become(k, s, x, p) ==
  /\ st' = [st EXCEPT ![k] = s]
  /\ of' = [of EXCEPT ![k] = x]
  /\ owner' = [owner EXCEPT ![k] = p]
  /\ told' = [told EXCEPT ![k] = FALSE]
  /\ seen' = [seen EXCEPT ![k] = None]

Gone(k) == Become(k, "free", None, None)

\* Nobody is left to wait for k: a zombie is reaped by init, a live one goes on.
LetGo(k) ==
  IF st[k] \in Zombie THEN Gone(k)
  ELSE owner' = [owner EXCEPT ![k] = None] /\ UNCHANGED <<st, of, told, seen>>

\* A passing receipt of exactly this identity, with its log intact.
Reusable(x) == receipt[x].code = "pass" /\ receipt[x].log = log[x]

\* mark_missing_process_orphaned looks only at whether the leased pid exists.
LeaseHeld(x) == lease[x].status = "active" /\ st[lease[x].pid] # "free"

Call(p) ==
  /\ At(p, "new") /\ Goto(p, "queued")
  /\ UNCHANGED <<tree, lock, id, pid, code, procVars, diskVars>>

\* Locked, the identity is computed from what the paths hold at this moment.
Acquire(p) ==
  /\ At(p, "queued") /\ lock = None
  /\ lock' = p /\ Goto(p, "checking")
  /\ id' = [id EXCEPT ![p] = tree]
  /\ UNCHANGED <<tree, pid, code, procVars, diskVars>>

Reuse(p) ==
  /\ At(p, "checking") /\ Reusable(id[p])
  /\ Return(p, "reused")
  /\ UNCHANGED <<tree, id, pid, code, procVars, diskVars>>

Refuse(p) ==
  /\ At(p, "checking") /\ ~Reusable(id[p]) /\ LeaseHeld(id[p])
  /\ Return(p, "refused")
  /\ UNCHANGED <<tree, id, pid, code, procVars, diskVars>>

\* The log is truncated and the worker started; it waits at its gate.
Spawn(p) ==
  /\ \E k \in Pid :
       /\ st[k] = "free" /\ Become(k, "gate", id[p], p)
       /\ pid' = [pid EXCEPT ![p] = k]
  /\ Goto(p, "leasing")
  /\ log' = [log EXCEPT ![id[p]] = "open"]
  /\ UNCHANGED <<tree, lock, id, code, lease, receipt>>

\* Mutant: an active lease whose process is there does not stop a launch.
LaunchUnleased(p) == At(p, "checking") /\ ~Reusable(id[p]) /\ Spawn(p)

Launch(p) ==
  /\ At(p, "checking") /\ ~Reusable(id[p]) /\ ~LeaseHeld(id[p])
  /\ Spawn(p)

LaunchFault(p) ==
  /\ At(p, "checking") /\ ~Reusable(id[p]) /\ ~LeaseHeld(id[p])
  /\ log' = [log EXCEPT ![id[p]] = "open"]
  /\ Return(p, "raised")
  /\ UNCHANGED <<tree, id, pid, code, procVars, lease, receipt>>

\* build_process_lease finds the worker by its pid, and the lease is written.
WriteLease(p) ==
  /\ At(p, "leasing") /\ st[pid[p]] = "gate"
  /\ lease' = [lease EXCEPT ![id[p]] = [status |-> "active", pid |-> pid[p]]]
  /\ Goto(p, "gating")
  /\ UNCHANGED <<tree, lock, id, pid, code, procVars, log, receipt>>

OpenGate(p) ==
  /\ At(p, "gating") /\ st[pid[p]] = "gate"
  /\ told' = [told EXCEPT ![pid[p]] = TRUE]
  /\ Goto(p, "waiting")
  /\ UNCHANGED <<tree, lock, id, pid, code, st, of, owner, seen, diskVars>>

\* except BaseException: the child, if it still runs, gets SIGTERM and five
\* seconds; one that outlives them is left behind.
Abandon(p) ==
  /\ Gone(pid[p]) \/ (st[pid[p]] \notin Zombie /\ LetGo(pid[p]))
  /\ Return(p, "raised")
  /\ UNCHANGED <<tree, id, pid, code, diskVars>>

\* The worker gave up at its gate: it cannot be leased, or the pipe is broken.
GateLost(p) == pc[p] \in {"leasing", "gating"} /\ st[pid[p]] \in Zombie /\ Abandon(p)

Interrupt(p) == pc[p] \in Parenting /\ Abandon(p)

Reap(p) ==
  /\ At(p, "waiting") /\ st[pid[p]] \in Zombie
  /\ Goto(p, "closing")
  /\ code' = [code EXCEPT ![p] = IF st[pid[p]] = "passed" THEN "pass" ELSE "fail"]
  /\ Gone(pid[p])
  /\ UNCHANGED <<tree, lock, id, pid, diskVars>>

\* Mutant: the child is asked to stop and waited for again.
TimeoutPolite(p) ==
  /\ At(p, "waiting") /\ st[pid[p]] \in {"gate", "running"}
  /\ log' = [log EXCEPT ![id[p]] = "timeout"]
  /\ UNCHANGED <<tree, lock, runVars, procVars, lease, receipt>>

\* The wall time is up: the process group is killed and reaped, exit code 124.
Timeout(p) ==
  /\ At(p, "waiting") /\ st[pid[p]] \in {"gate", "running"}
  /\ Goto(p, "closing")
  /\ code' = [code EXCEPT ![p] = "fail"]
  /\ Gone(pid[p])
  /\ log' = [log EXCEPT ![id[p]] = "timeout"]
  /\ UNCHANGED <<tree, lock, id, pid, lease, receipt>>

\* Mutant: the lease is closed as if its process had outlived it.
CloseLeaseExpired(p) ==
  /\ At(p, "closing") /\ Goto(p, "certifying")
  /\ lease' = [lease EXCEPT ![id[p]] = [status |-> "expired", pid |-> pid[p]]]
  /\ UNCHANGED <<tree, lock, id, pid, code, procVars, log, receipt>>

CloseLease(p) ==
  /\ At(p, "closing") /\ Goto(p, "certifying")
  /\ lease' = [lease EXCEPT ![id[p]] = [status |-> "completed", pid |-> pid[p]]]
  /\ UNCHANGED <<tree, lock, id, pid, code, procVars, log, receipt>>

\* Mutant: the receipt is passing whatever the exit code.
CertifyAlways(p) ==
  /\ At(p, "certifying")
  /\ receipt' = [receipt EXCEPT ![id[p]] = [code |-> "pass", log |-> log[id[p]]]]
  /\ Return(p, "executed")
  /\ UNCHANGED <<tree, id, pid, code, procVars, lease, log>>

Certify(p) ==
  /\ At(p, "certifying")
  /\ receipt' = [receipt EXCEPT ![id[p]] = [code |-> code[p], log |-> log[id[p]]]]
  /\ Return(p, "executed")
  /\ UNCHANGED <<tree, id, pid, code, procVars, lease, log>>

\* An exception outside the try block: git, the disk, an artifact it cannot read.
Fault(p) ==
  /\ pc[p] \in {"checking", "closing", "certifying"}
  /\ Return(p, "raised")
  /\ UNCHANGED <<tree, id, pid, code, procVars, diskVars>>

\* The runner is killed: the kernel unlocks the file, and its child is init's.
Crash(p) ==
  /\ pc[p] \in Inside \cup {"queued"} /\ Goto(p, "raised")
  /\ lock' = IF lock = p THEN None ELSE lock
  /\ IF pc[p] \in Parenting THEN LetGo(pid[p]) ELSE UNCHANGED procVars
  /\ UNCHANGED <<tree, id, pid, code, diskVars>>

RunnerStep(p) ==
  \/ Acquire(p) \/ Reuse(p) \/ Refuse(p) \/ Launch(p) \/ LaunchFault(p)
  \/ WriteLease(p) \/ OpenGate(p) \/ GateLost(p) \/ Reap(p) \/ Timeout(p)
  \/ CloseLease(p) \/ Certify(p)

-----------------------------------------------------------------------------
(* The child process k                                                      *)

Exits(k, end) ==
  IF owner[k] = None THEN Gone(k)
  ELSE st' = [st EXCEPT ![k] = end] /\ UNCHANGED <<of, owner, told, seen>>

\* Mutant: the worker executes the command without waiting for its gate.
ExecUngated(k) ==
  /\ st[k] = "gate"
  /\ st' = [st EXCEPT ![k] = "running"]
  /\ seen' = [seen EXCEPT ![k] = tree]
  /\ UNCHANGED <<tree, lock, runVars, of, owner, told, diskVars>>

\* The token arrived: the command runs on what the paths hold now.
Exec(k) ==
  /\ st[k] = "gate" /\ told[k]
  /\ st' = [st EXCEPT ![k] = "running"]
  /\ seen' = [seen EXCEPT ![k] = tree]
  /\ UNCHANGED <<tree, lock, runVars, of, owner, told, diskVars>>

\* No token within the gate's timeout, or the pipe closed with its owner.
GiveUp(k) ==
  /\ st[k] = "gate" /\ ~told[k]
  /\ Exits(k, "failed")
  /\ UNCHANGED <<tree, lock, runVars, diskVars>>

TestEnds(k) ==
  /\ st[k] = "running"
  /\ \E end \in Zombie :
       /\ end = "passed" => seen[k] \in Passing
       /\ Exits(k, end)
       /\ log' = [log EXCEPT ![of[k]] = end]
  /\ UNCHANGED <<tree, lock, runVars, lease, receipt>>

-----------------------------------------------------------------------------
(* The machine around them                                                  *)

OtherStarts(k) ==
  /\ st[k] = "free" /\ Become(k, "other", None, None)
  /\ UNCHANGED <<tree, lock, runVars, diskVars>>

OtherEnds(k) ==
  /\ st[k] = "other" /\ Gone(k)
  /\ UNCHANGED <<tree, lock, runVars, diskVars>>

Edit == tree' \in Identity /\ UNCHANGED <<lock, runVars, procVars, diskVars>>

\* Somebody edits or removes a log between runs.
LogChanged(x) ==
  /\ lock = None /\ log[x] # "none"
  /\ log' = [log EXCEPT ![x] = "changed"]
  /\ UNCHANGED <<tree, lock, runVars, procVars, lease, receipt>>

Machine ==
  \/ \E p \in Runner : Call(p) \/ RunnerStep(p) \/ Interrupt(p) \/ Fault(p) \/ Crash(p)
  \/ \E k \in Pid : Exec(k) \/ GiveUp(k) \/ TestEnds(k) \/ OtherStarts(k) \/ OtherEnds(k)
  \/ \E x \in Identity : LogChanged(x)

Next == Machine \/ Edit

Spec == Init /\ [][Next]_vars

\* The checkout has one writer, who does not edit under a run.  Nothing in the
\* runner enforces this: Spec shows what it costs.
Still ==
  /\ \A p \in Runner : pc[p] \notin Inside
  /\ \A k \in Pid : st[k] \notin Child

StillNext == Machine \/ (Still /\ Edit)

StillSpec == Init /\ [][StillNext]_vars

\* flock, waits with timeouts and disk calls return; the kernel grants the lock
\* to a waiter once it stays free, and a runner is called once.  A test need
\* not end, nothing need fail, and nobody need call.
Fairness == \A p \in Runner : WF_vars(RunnerStep(p))

FairSpec == Spec /\ Fairness

-----------------------------------------------------------------------------
(* Properties                                                               *)

\* "Execute once per exact identity": the test of one identity never executes
\* in two processes, and the one it executes in is named by an active lease on
\* disk, so that a crashed runner's child can still be found and refused.
RunIsLeased ==
  \A k \in Pid : st[k] = "running" => lease[of[k]] = [status |-> "active", pid |-> k]

\* A passing receipt, and so every reuse of it, is for an identity whose test
\* passes: not one of an older or a newer tree, of a timed out or killed run,
\* or of a worker that never executed the test.
PassIsHonest == \A x \in Identity : receipt[x].code = "pass" => x \in Passing

\* Seen from outside: the identities whose test executes, and those a caller
\* would be answered from a receipt.
Executing == {x \in Identity : \E k \in Pid : st[k] = "running" /\ of[k] = x}
Certified == {x \in Identity : Reusable(x)}

\* Whoever edits the tree meanwhile, the runner is a ledger of runs: one run of an
\* identity at a time, and none of one that would be answered from a receipt.
\* Only what a certificate says of its identity is then in doubt.
Runs == INSTANCE TestLedger
          WITH running <- Executing, certified <- Certified, Passing <- Identity

KeepsRuns == Runs!LedgerSpec

Ledger == INSTANCE TestLedger WITH running <- Executing, certified <- Certified

\* With the tree still it is the ledger its callers rely on: a certificate is
\* never for a failure either.
KeepsLedger == Ledger!LedgerSpec

\* Every call returns, whatever its child does: a test that hangs, a gate that
\* gave up, a crashed runner or an orphan never keep the lock from the next.
CallReturns == \A p \in Runner : At(p, "queued") ~> pc[p] \in Answer

-----------------------------------------------------------------------------
(* Inductive invariants                                                     *)

\* A child whose gate was opened and that has not ended.
Admitted(k) == st[k] \in {"gate", "running"} /\ told[k]

Locking == \A p \in Runner : pc[p] \in Inside <=> lock = p

Parents ==
  /\ \A p \in Runner :
       /\ pc[p] \in Inside => id[p] \in Identity
       /\ pc[p] \in Parenting =>
            pid[p] \in Pid /\ owner[pid[p]] = p /\ of[pid[p]] = id[p]
       /\ pc[p] \in {"leasing", "gating"} => ~told[pid[p]]
  /\ \A k \in Pid :
       /\ owner[k] # None => pc[owner[k]] \in Parenting /\ pid[owner[k]] = k
       /\ owner[k] # None => st[k] \in Child
       /\ st[k] \in Child => of[k] \in Identity
       /\ st[k] \in Zombie => owner[k] # None
       /\ st[k] = "running" => told[k]

Leases ==
  /\ \A x \in Identity : lease[x].status = "active" => lease[x].pid \in Pid
  /\ \A p \in Runner :
       /\ pc[p] \in {"gating", "waiting"} =>
            lease[id[p]] = [status |-> "active", pid |-> pid[p]]
       /\ pc[p] \in {"leasing", "closing", "certifying"} =>
            \A k \in Pid : Admitted(k) => of[k] # id[p]
  /\ \A k \in Pid : Admitted(k) => lease[of[k]] = [status |-> "active", pid |-> k]

\* What a log says: that a test may still run, or how it ended.  The log of a
\* passing receipt said "passed" when the receipt was written.
Logs ==
  /\ \A p \in Runner :
       /\ pc[p] \in {"leasing", "gating"} => log[id[p]] = "open"
       /\ pc[p] \in {"closing", "certifying"} /\ code[p] = "pass" => log[id[p]] = "passed"
  /\ \A k \in Pid :
       /\ st[k] = "passed" => log[of[k]] = "passed"
       /\ Admitted(k) => log[of[k]] \in {"open", "changed"}
  /\ \A x \in Identity : receipt[x].code = "pass" => receipt[x].log = "passed"

\* What leases, logs and receipts mean, without any assumption on edits: who
\* holds the lock, whose child is whose, which identities a process may be
\* executing, and which of them may be answered from a receipt.
LeaseInv == Locking /\ Parents /\ Leases /\ Logs

\* With the tree still: what a child is running for is what it reads.
Fresh ==
  /\ \A p \in Runner :
       /\ pc[p] \in Inside => id[p] = tree
       /\ pc[p] \in {"closing", "certifying"} /\ code[p] = "pass" => id[p] \in Passing
  /\ \A k \in Pid :
       /\ st[k] \in Child => of[k] = tree
       /\ st[k] = "running" => seen[k] = of[k]
       /\ st[k] = "passed" => of[k] \in Passing

\* With the tree still, what passed is an identity whose test passes.
HonestInv == LeaseInv /\ Fresh /\ PassIsHonest
=============================================================================
