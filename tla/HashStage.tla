------------------------------ MODULE HashStage ------------------------------
(***************************************************************************)
(* What a hashing stage of the signer pipeline promises to its neighbours, *)
(* whatever goroutines it uses inside (hw2_signer/signer.go): it takes the *)
(* values of its input one by one, works on any number of them at a time,  *)
(* sends the hash of each exactly once, in any order, and its output is    *)
(* closed only after the last hash was received.  SingleHash and MultiHash *)
(* implement this specification; Pipeline is built from it.                *)
(***************************************************************************)
EXTENDS Naturals, FiniteSets, Sequences

CONSTANTS N,         \* how many values the previous job sends before it closes
          Input,     \* Input[k]: the k-th of them
          Hash(_)    \* what the stage computes of one value

VARIABLES taken,     \* how many values were received
          sent,      \* which of them have had their hash received downstream
          out,       \* the hashes received downstream, in that order
          closed     \* is the output channel closed?

vars == <<taken, sent, out, closed>>

Init == taken = 0 /\ sent = {} /\ out = <<>> /\ closed = FALSE

Take == /\ taken < N
        /\ taken' = taken + 1
        /\ UNCHANGED <<sent, out, closed>>

Emit(k) == /\ k \notin sent
           /\ sent' = sent \cup {k}
           /\ out' = Append(out, Hash(Input[k]))
           /\ UNCHANGED <<taken, closed>>

Close == /\ taken = N
         /\ sent = 1..N
         /\ closed = FALSE
         /\ closed' = TRUE
         /\ UNCHANGED <<taken, sent, out>>

Next == Take \/ (\E k \in 1..taken : Emit(k)) \/ Close

Spec == Init /\ [][Next]_vars /\ WF_vars(Next)

=============================================================================
