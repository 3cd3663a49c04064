--------------------------------- MODULE InCall ---------------------------------
(***************************************************************************)
(* What one delivery calls: retryWorker (packages/queue/src/worker/retry.ts) *)
(* around pipelineWorker (pipeline.ts), as a function of how each step of    *)
(* each call ends and of what shouldRetry says.                            *)
(***************************************************************************)
EXTENDS Naturals

CONSTANTS
  Retries,  \* retryWorker's option
  Steps     \* how many steps the pipeline has

ASSUME InCallAssumption == Retries \in Nat /\ Steps \in Nat \ {0}

Calls == 1..(Retries + 1)

\* A step resolves, resolves with pipelineDone, or rejects.
StepEnds == {"value", "done", "error"}

\* pipelineWorker: the steps in order, to the first that ends the pipeline.
\* The last one's value is the result.
Pipeline(ends) ==
  LET from[i \in 1..Steps] ==
        IF ends[i] = "error" THEN "failed"      \* PipelineStepError
        ELSE IF ends[i] = "done" \/ i = Steps THEN "returned"
        ELSE from[i + 1]
  IN from[1]

\* retryWorker: a failed call is followed by another, which starts at the
\* first step with the original item, while calls are left and shouldRetry
\* agrees.  An invalid delay ends it as shouldRetry does.
IsLast(c, ends, shouldRetry) ==
  Pipeline(ends[c]) = "returned" \/ c = Retries + 1 \/ ~shouldRetry[c]

Delivery(ends, shouldRetry) ==
  LET last == CHOOSE c \in Calls :
                /\ IsLast(c, ends, shouldRetry)
                /\ \A b \in Calls : b < c => ~IsLast(b, ends, shouldRetry)
  IN [calls |-> last, state |-> Pipeline(ends[last])]  \* or RetryExhaustedError

Deliveries ==
  {Delivery(ends, again) : ends \in [Calls -> [1..Steps -> StepEnds]],
                           again \in [Calls -> BOOLEAN]}
=============================================================================
