------------------------------ MODULE StageGroup ------------------------------
(***************************************************************************)
(* What runPipeline promises about the three goroutines it adds to the     *)
(* WaitGroup (capture_service.go:189-212): the stages start together, none *)
(* leaves while the context is live and the capture loop is still reading, *)
(* and once either of the two is over every stage leaves.  CaptureService  *)
(* relies on this behaviour only; CapturePipeline implements it.           *)
(***************************************************************************)

VARIABLES alive,      \* the stages whose deferred wg.Done() has not run yet
          cancelled,  \* ctx.Done() is closed
          over        \* the capture loop ended on its own, on a NextPacket error

vars == <<alive, cancelled, over>>

Stages == {"capture", "processor", "aggregator"}

TypeOK == /\ alive \subseteq Stages
          /\ cancelled \in BOOLEAN
          /\ over \in BOOLEAN

Init == /\ alive = Stages
        /\ cancelled = FALSE
        /\ over = FALSE

\* cancel() is called.
Cancel == /\ ~cancelled
          /\ cancelled' = TRUE
          /\ UNCHANGED <<alive, over>>

\* NextPacket returns an error to a capture loop that is still running.
Fail == /\ "capture" \in alive
        /\ ~over
        /\ over' = TRUE
        /\ UNCHANGED <<alive, cancelled>>

\* A stage returns and its deferred wg.Done() runs.
Leave(s) == /\ s \in alive
            /\ cancelled \/ over
            /\ alive' = alive \ {s}
            /\ UNCHANGED <<cancelled, over>>

Next == Cancel \/ Fail \/ \E s \in Stages : Leave(s)

Spec == Init /\ [][Next]_vars /\ \A s \in Stages : WF_vars(Leave(s))
===============================================================================
