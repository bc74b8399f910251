-------------------------------- MODULE Signer --------------------------------
(***************************************************************************)
(* What the whole pipeline promises to whoever calls ExecutePipeline with  *)
(* the signer's jobs (hw2_signer/hw2.md, TestSigner): however the          *)
(* goroutines are scheduled, the last job receives one result, the same    *)
(* one for the same input, and then the call returns.  Nothing is promised *)
(* for other jobs.                                                         *)
(***************************************************************************)
EXTENDS Naturals, Sequences

VARIABLES promised,    \* the combined result for the input, <<>> for other jobs
          delivered,   \* what the last job has received
          returned     \* has ExecutePipeline returned?

vars == <<promised, delivered, returned>>

Init == Len(promised) <= 1 /\ delivered = <<>> /\ returned = FALSE

Deliver == /\ delivered = <<>> /\ promised # <<>>
           /\ delivered' = promised
           /\ UNCHANGED <<promised, returned>>

Return == /\ delivered = promised /\ promised # <<>>
          /\ returned' = TRUE
          /\ UNCHANGED <<promised, delivered>>

Spec == Init /\ [][Deliver \/ Return]_vars /\ WF_vars(Deliver \/ Return)
===============================================================================
