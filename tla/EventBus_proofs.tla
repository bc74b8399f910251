----------------------------- MODULE EventBus_proofs -----------------------------
(***************************************************************************)
(* What the bus promises its subscribers, for any calls: an event is logged *)
(* once, before its call is served and never for a refused one; a          *)
(* subscriber is handed the log from where he joined, without gaps, and    *)
(* while he stays he is one event behind at most.                          *)
(***************************************************************************)
EXTENDS EventBus, SequenceTheorems, TLAPS

TypeOK ==
  /\ log \in Seq(Calls)
  /\ since \in [Subscribers -> Nat]
  /\ got \in [Subscribers -> Seq(Calls)]

Once == \A i, j \in 1..Len(log) : log[i] = log[j] => i = j

LoggedFirst == served \subseteq Published /\ refused \cap Published = {} /\ joined \subseteq served

Handed ==
  \A s \in Subscribers :
    /\ since[s] + Len(got[s]) <= Len(log)
    /\ \A i \in 1..Len(got[s]) : got[s][i] = log[since[s] + i]
    /\ s \notin joined => got[s] = <<>>

OneBehind == \A s \in Subscribers \cap joined : s \in left \/ Len(log) <= since[s] + Len(got[s]) + 1

IInv == TypeOK /\ Once /\ LoggedFirst /\ Handed /\ OneBehind

-----------------------------------------------------------------------------
(* Publishing logs one call more, at the end.                              *)
LEMMA PublishAppends ==
  ASSUME TypeOK, NEW c \in Calls, Publish(c)
  PROVE  /\ log' \in Seq(Calls) /\ Len(log') = Len(log) + 1 /\ Len(log) \in Nat
         /\ \A i \in 1..Len(log) : log'[i] = log[i]
         /\ log'[Len(log) + 1] = c
         /\ Published' = Published \cup {c} /\ c \notin Published \cup refused
<1>1. log' = Append(log, c) /\ log \in Seq(Calls) /\ c \notin Published \cup refused
  BY DEF Publish, TypeOK
<1>2. /\ log' \in Seq(Calls) /\ Len(log') = Len(log) + 1 /\ Len(log) \in Nat
      /\ \A i \in 1..Len(log) : log'[i] = log[i]
      /\ log'[Len(log) + 1] = c
  BY <1>1, AppendProperties, LenProperties
<1>3. DOMAIN log = 1..Len(log) /\ DOMAIN log' = 1..Len(log')
  BY <1>1, <1>2, LenProperties
<1>4. Published' = Published \cup {c}
  <2>1. Published = {log[i] : i \in 1..Len(log)} /\ Published' = {log'[i] : i \in 1..Len(log')}
    BY <1>3 DEF Published, ToSet
  <2>2. 1..Len(log') = 1..Len(log) \cup {Len(log) + 1}
    BY <1>2
  <2> QED  BY <1>2, <2>1, <2>2
<1> QED  BY <1>1, <1>2, <1>4

(* Delivering hands one event more: the next one.                          *)
LEMMA DeliverAppends ==
  ASSUME TypeOK, NEW s \in Subscribers, Deliver(s)
  PROVE  /\ got' \in [Subscribers -> Seq(Calls)] /\ Len(got[s]) \in Nat
         /\ \A q \in Subscribers \ {s} : got'[q] = got[q]
         /\ Len(got'[s]) = Len(got[s]) + 1
         /\ \A i \in 1..Len(got[s]) : got'[s][i] = got[s][i]
         /\ got'[s][Len(got[s]) + 1] = log[since[s] + Len(got[s]) + 1]
         /\ since[s] + Len(got[s]) + 1 <= Len(log)
<1> DEFINE e == log[since[s] + Len(got[s]) + 1]
<1>1. /\ got' = [got EXCEPT ![s] = Append(got[s], e)] /\ since[s] + Len(got[s]) < Len(log)
      /\ got \in [Subscribers -> Seq(Calls)] /\ log \in Seq(Calls) /\ since[s] \in Nat
      /\ got[s] \in Seq(Calls)
  BY DEF Deliver, Behind, TypeOK
<1>2. Len(log) \in Nat /\ Len(got[s]) \in Nat
  BY <1>1, LenProperties
<1>3. since[s] + Len(got[s]) + 1 \in 1..Len(log)
  BY <1>1, <1>2
<1>4. e \in Calls
  BY <1>1, <1>3, ElementOfSeq
<1> HIDE DEF e
<1>5. /\ Append(got[s], e) \in Seq(Calls) /\ Len(Append(got[s], e)) = Len(got[s]) + 1
      /\ \A i \in 1..Len(got[s]) : Append(got[s], e)[i] = got[s][i]
      /\ Append(got[s], e)[Len(got[s]) + 1] = e
  BY <1>1, <1>4, AppendProperties
<1>6. /\ got' \in [Subscribers -> Seq(Calls)] /\ got'[s] = Append(got[s], e)
      /\ \A q \in Subscribers \ {s} : got'[q] = got[q]
  BY <1>1, <1>5
<1>7. since[s] + Len(got[s]) + 1 <= Len(log)
  BY <1>1, <1>2
<1> QED  BY <1>2, <1>5, <1>6, <1>7 DEF e

(* The invariant is inductive.                                             *)
LEMMA InitIInv == Init => IInv
<1> SUFFICES ASSUME Init PROVE IInv
  OBVIOUS
<1>1. /\ log = <<>> /\ refused = {} /\ served = {} /\ joined = {} /\ left = {}
      /\ since = [s \in Subscribers |-> 0] /\ got = [s \in Subscribers |-> <<>>]
  BY DEF Init
<1>2. <<>> \in Seq(Calls) /\ Len(<<>>) = 0
  BY EmptySeq
<1>3. TypeOK
  BY <1>1, <1>2 DEF TypeOK
<1>4. Once /\ LoggedFirst /\ OneBehind
  BY <1>1, <1>2 DEF Once, LoggedFirst, OneBehind
<1>5. Handed
  BY <1>1, <1>2 DEF Handed
<1> QED  BY <1>3, <1>4, <1>5 DEF IInv

(* Every step keeps it.                                                    *)
LEMMA NextKeepsIInv == IInv /\ [Next]_vars => IInv'
<1> SUFFICES ASSUME IInv, [Next]_vars PROVE IInv'
  OBVIOUS
<1>0. /\ TypeOK /\ Once /\ LoggedFirst /\ Handed /\ OneBehind
      /\ log \in Seq(Calls) /\ Len(log) \in Nat
      /\ \A s \in Subscribers : since[s] \in Nat /\ got[s] \in Seq(Calls) /\ Len(got[s]) \in Nat
  BY LenProperties DEF IInv, TypeOK
<1>1. CASE UNCHANGED <<log, since, got>> /\ joined' = joined /\ left \subseteq left'
           /\ served' \subseteq Published /\ served \subseteq served' /\ refused' \cap Published = {}
  <2>1. Published' = Published
    BY <1>1 DEF Published
  <2>2. TypeOK' /\ Once' /\ Handed' /\ OneBehind'
    BY <1>0, <1>1 DEF TypeOK, Once, Handed, OneBehind
  <2>3. LoggedFirst'
    BY <1>0, <1>1, <2>1 DEF LoggedFirst
  <2> QED  BY <2>2, <2>3 DEF IInv
<1>2. ASSUME NEW c \in Calls, Publish(c) PROVE IInv'
  <2>0. UNCHANGED <<refused, served, joined, since, got, left>>
        /\ \A s \in joined : s \in left \/ ~Behind(s)
    BY <1>2 DEF Publish
  <2>1. /\ log' \in Seq(Calls) /\ Len(log') = Len(log) + 1
        /\ \A i \in 1..Len(log) : log'[i] = log[i]
        /\ log'[Len(log) + 1] = c
        /\ Published' = Published \cup {c} /\ c \notin Published \cup refused
    BY <1>0, <1>2, PublishAppends
  <2>2. TypeOK'
    BY <1>0, <2>0, <2>1 DEF TypeOK
  <2>3. LoggedFirst'
    BY <1>0, <2>0, <2>1 DEF LoggedFirst
  <2>4. Once'
    <3>1. \A i \in 1..Len(log) : log[i] # c
      <4>1. Published = {log[i] : i \in 1..Len(log)}
        BY <1>0, LenProperties DEF Published, ToSet
      <4> QED  BY <2>1, <4>1
    <3>2. \A i \in 1..Len(log') : i \in 1..Len(log) \/ i = Len(log) + 1
      BY <1>0, <2>1
    <3> QED  BY <1>0, <2>1, <3>1, <3>2 DEF Once
  <2>5. Handed'
    <3> SUFFICES ASSUME NEW s \in Subscribers
                 PROVE  /\ since[s] + Len(got[s]) <= Len(log')
                        /\ \A i \in 1..Len(got[s]) : got[s][i] = log'[since[s] + i]
                        /\ s \notin joined => got[s] = <<>>
      BY <2>0 DEF Handed
    <3>1. /\ since[s] + Len(got[s]) <= Len(log)
          /\ \A i \in 1..Len(got[s]) : got[s][i] = log[since[s] + i]
          /\ s \notin joined => got[s] = <<>>
      BY <1>0 DEF Handed
    <3>2. \A i \in 1..Len(got[s]) : since[s] + i \in 1..Len(log)
      BY <1>0, <3>1
    <3>3. since[s] + Len(got[s]) <= Len(log')
      BY <1>0, <2>1, <3>1
    <3> QED  BY <2>1, <3>1, <3>2, <3>3
  <2>6. OneBehind'
    <3> SUFFICES ASSUME NEW s \in Subscribers \cap joined, s \notin left
                 PROVE  Len(log') <= since[s] + Len(got[s]) + 1
      BY <2>0 DEF OneBehind
    <3>1. ~(since[s] + Len(got[s]) < Len(log))
      BY <2>0 DEF Behind
    <3> QED  BY <1>0, <2>1, <3>1
  <2> QED  BY <2>2, <2>3, <2>4, <2>5, <2>6 DEF IInv
<1>3. ASSUME NEW c \in Calls, Refuse(c) PROVE IInv'
  BY <1>0, <1>1, <1>3 DEF Refuse, LoggedFirst
<1>4. ASSUME NEW c \in Calls, Serve(c) PROVE IInv'
  BY <1>0, <1>1, <1>4 DEF Serve, LoggedFirst
<1>5. ASSUME NEW s \in Subscribers, Join(s) PROVE IInv'
  <2>0. /\ UNCHANGED <<log, refused, served, got, left>> /\ joined' = joined \cup {s}
        /\ since' = [since EXCEPT ![s] = Len(log)] /\ s \in served /\ s \notin joined
    BY <1>5 DEF Join
  <2>1. since' \in [Subscribers -> Nat] /\ since'[s] = Len(log)
        /\ \A q \in Subscribers \ {s} : since'[q] = since[q]
    BY <1>0, <2>0 DEF TypeOK
  <2>2. got[s] = <<>> /\ Len(got[s]) = 0
    BY <1>0, <2>0, EmptySeq DEF Handed
  <2>3. TypeOK' /\ Once' /\ LoggedFirst'
    BY <1>0, <2>0, <2>1 DEF TypeOK, Once, LoggedFirst, Published
  <2>4. Handed'
    BY <1>0, <2>0, <2>1, <2>2 DEF Handed
  <2>5. OneBehind'
    BY <1>0, <2>0, <2>1, <2>2 DEF OneBehind
  <2> QED  BY <2>3, <2>4, <2>5 DEF IInv
<1>6. ASSUME NEW s \in Subscribers, Deliver(s) PROVE IInv'
  <2>0. UNCHANGED <<log, refused, served, joined, since, left>> /\ s \in joined
    BY <1>6 DEF Deliver
  <2>1. /\ got' \in [Subscribers -> Seq(Calls)]
        /\ \A q \in Subscribers \ {s} : got'[q] = got[q]
        /\ Len(got'[s]) = Len(got[s]) + 1
        /\ \A i \in 1..Len(got[s]) : got'[s][i] = got[s][i]
        /\ got'[s][Len(got[s]) + 1] = log[since[s] + Len(got[s]) + 1]
        /\ since[s] + Len(got[s]) + 1 <= Len(log)
    BY <1>0, <1>6, DeliverAppends
  <2>2. TypeOK' /\ Once' /\ LoggedFirst'
    BY <1>0, <2>0, <2>1 DEF TypeOK, Once, LoggedFirst, Published
  <2>3. Handed'
    <3>1. /\ since[s] + Len(got'[s]) <= Len(log)
          /\ \A i \in 1..Len(got'[s]) : got'[s][i] = log[since[s] + i]
      <4>1. \A i \in 1..Len(got'[s]) : i \in 1..Len(got[s]) \/ i = Len(got[s]) + 1
        BY <1>0, <2>1
      <4>2. \A i \in 1..Len(got[s]) : got[s][i] = log[since[s] + i]
        BY <1>0 DEF Handed
      <4>3. since[s] + (Len(got[s]) + 1) = since[s] + Len(got[s]) + 1
        BY <1>0
      <4> QED  BY <1>0, <2>1, <4>1, <4>2, <4>3
    <3>2. ASSUME NEW q \in Subscribers \ {s}
          PROVE  /\ since[q] + Len(got'[q]) <= Len(log)
                 /\ \A i \in 1..Len(got'[q]) : got'[q][i] = log[since[q] + i]
                 /\ q \notin joined => got'[q] = <<>>
      <4>1. got'[q] = got[q]
        BY <2>1
      <4>2. /\ since[q] + Len(got[q]) <= Len(log)
            /\ \A i \in 1..Len(got[q]) : got[q][i] = log[since[q] + i]
            /\ q \notin joined => got[q] = <<>>
        BY <1>0 DEF Handed
      <4> QED  BY <4>1, <4>2
    <3> QED  BY <2>0, <3>1, <3>2 DEF Handed
  <2>4. OneBehind'
    <3> SUFFICES ASSUME NEW q \in Subscribers \cap joined, q \notin left
                 PROVE  Len(log) <= since[q] + Len(got'[q]) + 1
      BY <2>0 DEF OneBehind
    <3>1. Len(log) <= since[q] + Len(got[q]) + 1
      BY <1>0 DEF OneBehind
    <3>2. CASE q # s
      BY <2>1, <3>1, <3>2
    <3>3. CASE q = s
      BY <1>0, <2>1, <3>1, <3>3
    <3> QED  BY <3>2, <3>3
  <2> QED  BY <2>2, <2>3, <2>4 DEF IInv
<1>7. CASE Leave
  BY <1>0, <1>1, <1>7 DEF Leave, LoggedFirst
<1>8. CASE UNCHANGED vars
  BY <1>0, <1>1, <1>8 DEF vars, LoggedFirst
<1> QED  BY <1>2, <1>3, <1>4, <1>5, <1>6, <1>7, <1>8 DEF Next

-----------------------------------------------------------------------------
(* The inductive invariant holds in every state.                           *)
LEMMA Invariance == Spec => []IInv
<1>1. Init => IInv
  BY InitIInv
<1>2. IInv /\ [Next]_vars => IInv'
  BY NextKeepsIInv
<1> QED  BY <1>1, <1>2, PTL DEF Spec

(* What the bus of logInterceptor and Logging promises: every call is      *)
(* logged once, before it is served, and never if it is refused; what a    *)
(* subscriber has been handed is the log from where he joined.             *)
THEOREM HandsTheLog == Spec => [](Once /\ LoggedFirst /\ Handed)
<1>1. IInv => Once /\ LoggedFirst /\ Handed
  BY DEF IInv
<1> QED  BY <1>1, Invariance, PTL

(* The bus has no memory for its subscribers: who stays is never more than *)
(* one event behind the log.                                               *)
THEOREM NeverTwoBehind == Spec => []OneBehind
<1>1. IInv => OneBehind
  BY DEF IInv
<1> QED  BY <1>1, Invariance, PTL
================================================================================
