------------------------------ MODULE JobLedger ------------------------------
(***************************************************************************)
(* What a durable queue promises about each job, whatever the timers, the  *)
(* callers and the crashes do: a job is accepted once, waits, is handed to *)
(* one holder at a time, comes back from a holder that gave up, expired or *)
(* died with an attempt number that never falls, and is settled only while *)
(* it is held.  A settled job stays settled, an accepted one is never lost.*)
(***************************************************************************)
EXTENDS Integers

CONSTANTS
  Jobs,        \* payloads
  MaxAttempt   \* largest attempt number a holder may give back

VARIABLES
  status,   \* job -> "new", "waiting", "held" or "settled"
  attempt   \* job -> delivery attempt, 0 unless waiting or held

ledger == <<status, attempt>>

LedgerTypeOK ==
  /\ status \in [Jobs -> {"new", "waiting", "held", "settled"}]
  /\ attempt \in [Jobs -> Nat]

LedgerInit ==
  /\ status = [j \in Jobs |-> "new"]
  /\ attempt = [j \in Jobs |-> 0]

Move(j, from, to, a) ==
  /\ status[j] = from
  /\ status' = [status EXCEPT ![j] = to]
  /\ attempt' = [attempt EXCEPT ![j] = a]

Accept(j)   == Move(j, "new", "waiting", 1)
Take(j)     == Move(j, "waiting", "held", attempt[j])
Settle(j)   == Move(j, "held", "settled", 0)
GiveBack(j) == \E a \in attempt[j]..MaxAttempt : Move(j, "held", "waiting", a)

LedgerNext ==
  \E j \in Jobs : Accept(j) \/ Take(j) \/ Settle(j) \/ GiveBack(j)

LedgerSpec == LedgerInit /\ [][LedgerNext]_ledger
=============================================================================
