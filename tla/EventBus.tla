-------------------------------- MODULE EventBus --------------------------------
(***************************************************************************)
(* What Microservice promises about the events of its calls: one log, each *)
(* call in it before it is served, and subscribers who are handed the log  *)
(* from where they joined, event after event, as long as they stay.  The   *)
(* bus keeps nothing for them: it takes no event before everybody has the  *)
(* last one, so that who does not read holds up all, until he leaves.      *)
(***************************************************************************)
EXTENDS Naturals, Sequences, SequencesExt

CONSTANTS Calls,
          Subscribers   \* those of them that subscribe to the log

VARIABLES log,      \* the calls published, in order
          refused,  \* the calls refused
          served,   \* the calls whose method runs or has returned
          joined,   \* the subscribers who have joined
          since,    \* length of log when they did
          got,      \* the events each was handed
          left      \* the subscribers who are handed nothing any more
vars == <<log, refused, served, joined, since, got, left>>

Init ==
  /\ log = <<>>
  /\ refused = {} /\ served = {} /\ joined = {} /\ left = {}
  /\ since = [s \in Subscribers |-> 0]
  /\ got = [s \in Subscribers |-> <<>>]

Published == ToSet(log)

Behind(s) == since[s] + Len(got[s]) < Len(log)

Publish(c) ==
  /\ c \notin Published \cup refused
  /\ \A s \in joined : s \in left \/ ~Behind(s)
  /\ log' = Append(log, c)
  /\ UNCHANGED <<refused, served, joined, since, got, left>>

Refuse(c) ==
  /\ c \notin Published
  /\ refused' = refused \cup {c}
  /\ UNCHANGED <<log, served, joined, since, got, left>>

Serve(c) ==
  /\ c \in Published \ served
  /\ served' = served \cup {c}
  /\ UNCHANGED <<log, refused, joined, since, got, left>>

Join(s) ==
  /\ s \in served \ joined
  /\ joined' = joined \cup {s}
  /\ since' = [since EXCEPT ![s] = Len(log)]
  /\ UNCHANGED <<log, refused, served, got, left>>

Deliver(s) ==
  /\ s \in joined \ left
  /\ Behind(s)
  /\ got' = [got EXCEPT ![s] = Append(@, log[since[s] + Len(@) + 1])]
  /\ UNCHANGED <<log, refused, served, joined, since, left>>

Leave ==
  /\ \E leaving \in SUBSET Subscribers : left' = left \cup leaving
  /\ UNCHANGED <<log, refused, served, joined, since, got>>

Next ==
  \/ \E c \in Calls : Publish(c) \/ Refuse(c) \/ Serve(c)
  \/ \E s \in Subscribers : Join(s) \/ Deliver(s)
  \/ Leave

Spec == Init /\ [][Next]_vars
=================================================================================
