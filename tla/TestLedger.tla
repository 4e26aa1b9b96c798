----------------------------- MODULE TestLedger -----------------------------
(***************************************************************************)
(* What run_test_with_receipt promises its callers: at most one run of the *)
(* test per exact identity at a time, none for an identity that is already *)
(* certified, and certificates only for identities whose test passes.      *)
(***************************************************************************)
EXTENDS FiniteSets

CONSTANTS
  Identity,   \* exact test identities: tree, diff, command, runtime
  Passing     \* those whose test passes

VARIABLES
  running,    \* identities whose test is executing
  certified   \* identities with a passing receipt that may be reused

ledger == <<running, certified>>

LedgerInit == running = {} /\ certified = {}

Begin(x) ==
  /\ x \notin running \cup certified
  /\ running' = running \cup {x}
  /\ UNCHANGED certified

\* A run whose output is the one an older receipt names makes that good again.
End(x) ==
  /\ x \in running
  /\ running' = running \ {x}
  /\ certified' \in {certified, certified \cup ({x} \cap Passing)}

Certify(x) ==
  /\ x \in Passing \ running
  /\ certified' = certified \cup {x}
  /\ UNCHANGED running

\* The log a certificate rests on was changed or removed.
Lose(x) ==
  /\ x \in certified
  /\ certified' = certified \ {x}
  /\ UNCHANGED running

LedgerNext == \E x \in Identity : Begin(x) \/ End(x) \/ Certify(x) \/ Lose(x)

LedgerSpec == LedgerInit /\ [][LedgerNext]_ledger
=============================================================================
